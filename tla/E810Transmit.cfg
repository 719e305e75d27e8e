\* The process may abort.
CHECK_DEADLOCK FALSE
SPECIFICATION Spec
CONSTANTS
  Lens = {0, 3}
  TagLens = {0, 3}
  MaxData = 3
  Hdr = 4
  Msss = {0, 2, 6}
  MTU = 8
  MbufRoom = 4
  Pool = 3
INVARIANTS TypeOK SentIsSegmentation MbufsAccounted
PROPERTIES UnitFinishes
