SPECIFICATION Spec
CONSTANTS
  MaxIova = 3
  Vaddr = {v1, v2}
  NULL = NULL
  Threads = {runner, rx}
INVARIANTS TypeOK TranslationCurrent AccessIsMapped TablesAgree InIommuUnlessOld
