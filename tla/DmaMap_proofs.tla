---------------------------- MODULE DmaMap_proofs ----------------------------
(***************************************************************************)
(* Safety of the DMA tables for any address space, any set of local        *)
(* mappings and any number of threads.  The inductive invariant says what  *)
(* the tables are in terms of the regions registered now, that these       *)
(* regions are disjoint, and that an access is covered by the lock.        *)
(***************************************************************************)
EXTENDS DmaMap, TLAPS

\* mappings holds exactly the regions that vmux can access.
MappingsInv ==
  \A i \in Iova : mappings[i] = IF Mappable(i) THEN regions[i] ELSE NULL

\* Registered regions neither overlap nor share a local mapping.
RegionsInv ==
  \A i, j \in Iova :
    (regions[i] # NULL /\ regions[j] # NULL /\ i # j) =>
      /\ ~Overlap(i, regions[i].len, j, regions[j].len)
      /\ Mappable(i) => regions[i].vaddr # regions[j].vaddr

\* Only the holder of vfu_ctx_mutex uses a local address.
LockInv == access # NULL => vfu_ctx_mutex # NULL

IInv == /\ TypeOK /\ MappingsInv /\ RegionsInv /\ LockInv
        /\ AccessIsMapped /\ TablesAgree /\ InIommuUnlessOld

-----------------------------------------------------------------------------
(* dma_local_addr                                                          *)

\* The descending search of dma_local_addr finds at most one mapping, so that
\* its order does not matter.
LEMMA OneContaining ==
  ASSUME TypeOK, MappingsInv, RegionsInv,
         NEW a \in Iova, NEW i \in Containing(a)
  PROVE  Containing(a) = {i} /\ Highest(Containing(a)) = i
<1>1. \A j \in Containing(a) : j = i
  <2>1. SUFFICES ASSUME NEW j \in Containing(a), j # i PROVE FALSE
    OBVIOUS
  <2>2. /\ i \in Iova /\ j \in Iova
        /\ mappings[i] # NULL /\ mappings[j] # NULL
        /\ i <= a /\ a < i + mappings[i].len /\ j <= a /\ a < j + mappings[j].len
    BY DEF Containing
  <2>3. /\ regions[i] = mappings[i] /\ regions[j] = mappings[j]
        /\ regions[i] # NULL /\ regions[j] # NULL
    BY <2>2 DEF MappingsInv, Mappable
  <2>4. ~Overlap(i, regions[i].len, j, regions[j].len)
    BY <2>1, <2>2, <2>3 DEF RegionsInv
  <2>5. regions[i].len \in Nat /\ regions[j].len \in Nat
    BY <2>2, <2>3, DmaAssumption DEF TypeOK, Region, Lens
  <2> QED
    BY <2>2, <2>3, <2>4, <2>5, DmaAssumption DEF Overlap, Iova
<1>2. Containing(a) = {i}
  BY <1>1
<1>3. i \in Int
  BY DmaAssumption DEF Containing, Iova
<1>4. \A h \in {i} : (\A j \in {i} : j <= h) <=> h = i
  BY <1>3
<1> QED
  BY <1>2, <1>3, <1>4 DEF Highest

\* What dma_local_addr returns for an access that starts in a mapping.
LEMMA LocalAddrFound ==
  ASSUME TypeOK, MappingsInv, RegionsInv,
         NEW a \in Iova, NEW len \in Lens, NEW i \in Containing(a)
  PROVE  dma_local_addr(a, len) =
           IF a + len > i + regions[i].len THEN NULL
           ELSE [base |-> regions[i].vaddr, off |-> a - i, len |-> len]
<1>1. Containing(a) # {} /\ Highest(Containing(a)) = i
  BY OneContaining
<1>2. mappings[i] = regions[i]
  BY DEF Containing, MappingsInv
<1> QED
  BY <1>1, <1>2 DEF dma_local_addr

\* The translation is the one the regions registered now ask for.
LEMMA TranslationFollows ==
  ASSUME TypeOK, MappingsInv, RegionsInv
  PROVE  TranslationCurrent
<1>1. SUFFICES ASSUME NEW a \in Iova, NEW len \in Lens
      PROVE  /\ \A i \in Iova :
                  (Mappable(i) /\ i <= a /\ a + len <= i + regions[i].len) =>
                    dma_local_addr(a, len) = [base |-> regions[i].vaddr, off |-> a - i, len |-> len]
             /\ dma_local_addr(a, len) # NULL =>
                  \E i \in Iova : Mappable(i) /\ i <= a /\ a + len <= i + regions[i].len
  BY DEF TranslationCurrent
<1>n. a \in Int /\ len \in Nat \ {0} /\ Iova \subseteq Int
  BY DmaAssumption DEF Iova, Lens
<1>2. ASSUME NEW i \in Iova, Mappable(i), i <= a, a + len <= i + regions[i].len
      PROVE  dma_local_addr(a, len) = [base |-> regions[i].vaddr, off |-> a - i, len |-> len]
  <2>1. regions[i].len \in Nat
    BY <1>2, DmaAssumption DEF TypeOK, Mappable, Region, Lens
  <2>2. mappings[i] = regions[i] /\ mappings[i] # NULL
    BY <1>2 DEF MappingsInv, Mappable
  <2>3. i \in Containing(a)
    BY <1>n, <1>2, <2>1, <2>2 DEF Containing
  <2>4. ~(a + len > i + regions[i].len)
    <3>1. i \in Int
      BY <1>n
    <3> QED
      BY <1>n, <1>2, <2>1, <3>1
  <2> QED
    BY <2>3, <2>4, LocalAddrFound
<1>3. ASSUME dma_local_addr(a, len) # NULL
      PROVE  \E i \in Iova : Mappable(i) /\ i <= a /\ a + len <= i + regions[i].len
  <2>1. Containing(a) # {}
    BY <1>3 DEF dma_local_addr
  <2>2. PICK i \in Containing(a) : TRUE
    BY <2>1
  <2>3. i \in Iova /\ i <= a /\ mappings[i] # NULL
    BY DEF Containing
  <2>4. Mappable(i)
    BY <2>3 DEF MappingsInv
  <2>5. ~(a + len > i + regions[i].len)
    BY <1>3, LocalAddrFound
  <2>6. regions[i].len \in Nat
    BY <2>3, <2>4, DmaAssumption DEF TypeOK, Mappable, Region, Lens
  <2> QED
    BY <1>n, <2>3, <2>4, <2>5, <2>6
<1> QED
  BY <1>2, <1>3

-----------------------------------------------------------------------------
(* Every step preserves the invariant                                      *)

LEMMA InitIInv == Init => IInv
<1> SUFFICES ASSUME Init PROVE IInv
  OBVIOUS
<1>1. TypeOK
  BY DEF Init, TypeOK
<1>2. MappingsInv /\ RegionsInv /\ LockInv /\ AccessIsMapped /\ InIommuUnlessOld
  BY DEF Init, MappingsInv, RegionsInv, LockInv, AccessIsMapped, InIommuUnlessOld, Mappable
<1>3. TablesAgree
  BY DEF Init, TablesAgree
<1> QED
  BY <1>1, <1>2, <1>3 DEF IInv

\* A new region changes the region list and the tables at its iova only.
LEMMA RegisterStep ==
  ASSUME IInv, NEW i \in Iova, NEW r \in Region, dma_register_cb(i, r)
  PROVE  IInv'
<1> USE DEF IInv
<1>r. r # NULL /\ r.len \in Lens /\ r.vaddr \in Vaddr \cup {NULL}
  BY DmaAssumption DEF Region
<1>s. /\ regions' = [regions EXCEPT ![i] = r]
      /\ passthrough' = passthrough /\ access' = access /\ vfu_ctx_mutex' = vfu_ctx_mutex
      /\ vfu_ctx_mutex = NULL
      /\ regions \in [Iova -> Region \cup {NULL}]
  BY DEF dma_register_cb, TypeOK
<1>e. regions'[i] = r /\ \A j \in Iova : j # i => regions'[j] = regions[j]
  BY <1>s
<1>f. regions[i] = NULL
  <2>1. regions[i] # NULL => ~Overlap(i, r.len, i, regions[i].len)
    BY DEF dma_register_cb
  <2>2. regions[i] # NULL => regions[i].len \in Lens
    BY <1>s DEF Region
  <2> QED
    BY <1>r, <2>1, <2>2, DmaAssumption DEF Overlap, Lens, Iova
<1>m. mappings[i] = NULL
  BY <1>f DEF MappingsInv, Mappable
<1>a. access = NULL
  BY <1>s DEF LockInv
<1>1. TypeOK'
  <2>1. r.vaddr # NULL => r \in [len : Lens, vaddr : Vaddr]
    BY <1>r DEF Region
  <2>2. mappings' \in [Iova -> [len : Lens, vaddr : Vaddr] \cup {NULL}]
    BY <2>1 DEF TypeOK, dma_register_cb, map_dma_here, tables
  <2>3. mapped' \subseteq Vaddr /\ sgs' \subseteq Vaddr
    BY <1>r DEF TypeOK, dma_register_cb, map_dma_here, tables
  <2>4. iommu' \in [Iova -> [len : Lens, vaddr : Vaddr] \cup {NULL}]
    BY <2>1 DEF TypeOK, dma_register_cb, map_dma
  <2> QED
    BY Zenon, <1>s, <2>2, <2>3, <2>4 DEF TypeOK
<1>2. MappingsInv'
  <2>1. CASE r.vaddr = NULL
    <3>1. mappings' = mappings
      BY <2>1 DEF dma_register_cb, map_dma_here, tables
    <3> QED
      BY <1>e, <1>m, <2>1, <3>1 DEF MappingsInv, Mappable
  <2>2. CASE r.vaddr # NULL
    <3>1. mappings' = [mappings EXCEPT ![i] = r]
      BY <2>2 DEF dma_register_cb, map_dma_here
    <3>2. mappings'[i] = r /\ \A j \in Iova : j # i => mappings'[j] = mappings[j]
      BY <3>1 DEF TypeOK
    <3> QED
      BY <1>e, <1>r, <2>2, <3>2 DEF MappingsInv, Mappable
  <2> QED
    BY <2>1, <2>2
<1>3. RegionsInv'
  <2>1. SUFFICES ASSUME NEW j \in Iova, NEW k \in Iova, regions'[j] # NULL, regions'[k] # NULL, j # k
        PROVE  /\ ~Overlap(j, regions'[j].len, k, regions'[k].len)
               /\ Mappable(j)' => regions'[j].vaddr # regions'[k].vaddr
    BY DEF RegionsInv, Overlap
  <2>2. \A l \in Iova : regions[l] # NULL =>
          /\ ~Overlap(i, r.len, l, regions[l].len)
          /\ r.vaddr # NULL => regions[l].vaddr # r.vaddr
    BY DEF dma_register_cb
  <2>3. CASE j = i
    BY <1>e, <2>1, <2>2, <2>3 DEF Mappable
  <2>4. CASE k = i
    BY <1>e, <2>1, <2>2, <2>4 DEF Mappable, Overlap
  <2>5. CASE j # i /\ k # i
    BY <1>e, <2>1, <2>5 DEF RegionsInv, Mappable
  <2> QED
    BY <2>3, <2>4, <2>5
<1>4. LockInv' /\ AccessIsMapped'
  BY <1>a, <1>s DEF LockInv, AccessIsMapped
<1>5. TablesAgree'
  <2>1. CASE r.vaddr = NULL
    BY Zenon, <2>1 DEF dma_register_cb, map_dma_here, tables, TablesAgree
  <2>2. CASE r.vaddr # NULL
    <3>1. /\ mappings' = [mappings EXCEPT ![i] = r]
          /\ mapped' = mapped \cup {r.vaddr} /\ sgs' = sgs \cup {r.vaddr}
      BY <2>2 DEF dma_register_cb, map_dma_here
    <3>2. mappings'[i] = r /\ \A j \in Iova : j # i => mappings'[j] = mappings[j]
      BY <3>1 DEF TypeOK
    <3> QED
      BY <1>m, <1>r, <3>1, <3>2 DEF TablesAgree
  <2> QED
    BY <2>1, <2>2
<1>6. InIommuUnlessOld'
  <2>1. SUFFICES ASSUME passthrough, NEW k \in Iova, Mappable(k)'
        PROVE  \/ iommu'[k] = regions'[k]
               \/ \E j \in Iova : /\ iommu'[j] # NULL /\ iommu'[j] # regions'[j]
                                  /\ Overlap(k, regions'[k].len, j, iommu'[j].len)
    BY <1>s DEF InIommuUnlessOld, Overlap
  <2>d. \A l \in Iova : regions[l] # NULL => ~Overlap(i, r.len, l, regions[l].len)
    BY DEF dma_register_cb
  <2>2. CASE k = i
    <3>1. CASE r.vaddr # NULL /\ \A j \in Iova : iommu[j] # NULL => ~Overlap(i, r.len, j, iommu[j].len)
      <4>1. iommu' = [iommu EXCEPT ![i] = r]
        BY <2>1, <3>1 DEF dma_register_cb, map_dma
      <4> QED
        BY <1>e, <2>2, <4>1 DEF TypeOK
    <3>2. CASE ~\A j \in Iova : iommu[j] # NULL => ~Overlap(i, r.len, j, iommu[j].len)
      <4>1. iommu' = iommu
        BY <3>2 DEF dma_register_cb, map_dma
      <4>2. PICK j \in Iova : iommu[j] # NULL /\ Overlap(i, r.len, j, iommu[j].len)
        BY <3>2
      <4>3. CASE iommu[j] # regions'[j]
        BY <1>e, <2>2, <4>1, <4>2, <4>3
      <4>4. CASE iommu[j] = regions'[j] /\ j = i
        BY <1>e, <2>2, <4>1, <4>4
      <4>5. CASE iommu[j] = regions'[j] /\ j # i
        BY <1>e, <2>d, <4>2, <4>5
      <4> QED
        BY <4>3, <4>4, <4>5
    <3> QED
      BY <1>e, <2>1, <2>2, <3>1, <3>2 DEF Mappable
  <2>3. CASE k # i
    <3>1. regions'[k] = regions[k] /\ Mappable(k)
      BY <1>e, <2>1, <2>3 DEF Mappable
    <3>2. \A j \in Iova : iommu[j] # NULL => iommu'[j] = iommu[j]
      <4>1. CASE iommu' = iommu
        BY <4>1
      <4>2. CASE /\ iommu' = [iommu EXCEPT ![i] = r]
                 /\ \A j \in Iova : iommu[j] # NULL => ~Overlap(i, r.len, j, iommu[j].len)
        <5>1. iommu[i] # NULL => iommu[i].len \in Lens
          BY DEF TypeOK
        <5>2. iommu[i] = NULL
          BY <1>r, <4>2, <5>1, DmaAssumption DEF Overlap, Lens, Iova
        <5> QED
          BY <4>2, <5>2 DEF TypeOK
      <4> QED
        BY <4>1, <4>2 DEF dma_register_cb, map_dma
    <3>3. CASE iommu[k] = regions[k]
      BY <3>1, <3>2, <3>3 DEF Mappable
    <3>4. CASE \E j \in Iova : /\ iommu[j] # NULL /\ iommu[j] # regions[j]
                               /\ Overlap(k, regions[k].len, j, iommu[j].len)
      <4>1. PICK j \in Iova : /\ iommu[j] # NULL /\ iommu[j] # regions[j]
                              /\ Overlap(k, regions[k].len, j, iommu[j].len)
        BY <3>4
      <4>2. iommu'[j] = iommu[j]
        BY <3>2, <4>1
      <4>3. iommu[j] # regions'[j]
        <5>1. CASE j # i
          BY <1>e, <4>1, <5>1
        <5>2. CASE j = i
          <6>1. ~Overlap(i, r.len, k, regions[k].len)
            BY <2>d, <3>1 DEF Mappable
          <6> QED
            BY <1>e, <4>1, <5>2, <6>1 DEF Overlap
        <5> QED
          BY <5>1, <5>2
      <4> QED
        BY <3>1, <4>1, <4>2, <4>3
    <3> QED
      BY <2>1, <3>1, <3>3, <3>4 DEF InIommuUnlessOld
  <2> QED
    BY <2>2, <2>3
<1> QED
  BY <1>1, <1>2, <1>3, <1>4, <1>5, <1>6

\* An unregistered region leaves the region list and the tables; its IOMMU
\* entry stays and becomes an old one.
LEMMA UnregisterStep ==
  ASSUME IInv, NEW i \in Iova, dma_unregister_cb(i)
  PROVE  IInv'
<1> USE DEF IInv
<1>s. /\ regions' = [regions EXCEPT ![i] = NULL]
      /\ passthrough' = passthrough /\ access' = access /\ vfu_ctx_mutex' = vfu_ctx_mutex
      /\ iommu' = iommu
      /\ vfu_ctx_mutex = NULL /\ regions[i] # NULL
      /\ regions \in [Iova -> Region \cup {NULL}]
      /\ unmap_dma_here(i, regions[i])
  BY DEF dma_unregister_cb, TypeOK
<1>e. regions'[i] = NULL /\ \A j \in Iova : j # i => regions'[j] = regions[j]
  BY <1>s
<1>m. /\ mappings'[i] = NULL /\ \A j \in Iova : j # i => mappings'[j] = mappings[j]
      /\ mappings' \in [Iova -> [len : Lens, vaddr : Vaddr] \cup {NULL}]
  <2>1. CASE regions[i].vaddr = NULL
    <3>1. mappings' = mappings
      BY <1>s, <2>1 DEF unmap_dma_here, tables
    <3>2. mappings[i] = NULL
      BY <2>1 DEF MappingsInv, Mappable
    <3> QED
      BY <3>1, <3>2 DEF TypeOK
  <2>2. CASE regions[i].vaddr # NULL
    BY <1>s, <2>2 DEF unmap_dma_here, TypeOK
  <2> QED
    BY <2>1, <2>2
<1>1. TypeOK'
  <2>1. mapped' \subseteq Vaddr /\ sgs' \subseteq Vaddr
    BY <1>s DEF TypeOK, unmap_dma_here, tables
  <2> QED
    BY Zenon, <1>s, <1>m, <2>1 DEF TypeOK
<1>2. MappingsInv'
  BY <1>e, <1>m DEF MappingsInv, Mappable
<1>3. RegionsInv'
  BY <1>e DEF RegionsInv, Mappable, Overlap
<1>4. LockInv' /\ AccessIsMapped'
  BY <1>s DEF LockInv, AccessIsMapped
<1>5. TablesAgree'
  <2>1. CASE regions[i].vaddr = NULL
    BY Zenon, <1>s, <2>1 DEF unmap_dma_here, tables, TablesAgree
  <2>2. CASE regions[i].vaddr # NULL
    <3>1. mapped' = mapped \ {regions[i].vaddr} /\ sgs' = sgs \ {regions[i].vaddr}
      BY <1>s, <2>2 DEF unmap_dma_here
    <3>2. mappings[i] = regions[i]
      BY <1>s, <2>2 DEF MappingsInv, Mappable
    <3>3. \A j \in Iova : (mappings[j] # NULL /\ j # i) => mappings[j].vaddr # regions[i].vaddr
      BY <1>s, <2>2 DEF MappingsInv, RegionsInv, Mappable
    <3> QED
      BY <1>m, <3>1, <3>2, <3>3 DEF TablesAgree
  <2> QED
    BY <2>1, <2>2
<1>6. InIommuUnlessOld'
  <2>1. SUFFICES ASSUME passthrough, NEW k \in Iova, Mappable(k)'
        PROVE  \/ iommu'[k] = regions'[k]
               \/ \E j \in Iova : /\ iommu'[j] # NULL /\ iommu'[j] # regions'[j]
                                  /\ Overlap(k, regions'[k].len, j, iommu'[j].len)
    BY <1>s DEF InIommuUnlessOld, Overlap
  <2>2. k # i /\ regions'[k] = regions[k] /\ Mappable(k)
    BY <1>e, <2>1 DEF Mappable
  <2>3. CASE iommu[k] = regions[k]
    BY <1>s, <2>2, <2>3
  <2>4. CASE \E j \in Iova : /\ iommu[j] # NULL /\ iommu[j] # regions[j]
                             /\ Overlap(k, regions[k].len, j, iommu[j].len)
    <3>1. PICK j \in Iova : /\ iommu[j] # NULL /\ iommu[j] # regions[j]
                            /\ Overlap(k, regions[k].len, j, iommu[j].len)
      BY <2>4
    <3>2. iommu[j] # regions'[j]
      BY <1>e, <3>1
    <3> QED
      BY <1>s, <2>2, <3>1, <3>2
  <2> QED
    BY <2>1, <2>2, <2>3, <2>4 DEF InIommuUnlessOld
<1> QED
  BY <1>1, <1>2, <1>3, <1>4, <1>5, <1>6

\* A translated access lies in a region registered now.
LEMMA IssueStep ==
  ASSUME IInv, NEW t \in Threads, NEW a \in Iova, NEW len \in Lens, IssueDma(t, a, len)
  PROVE  IInv'
<1> USE DEF IInv
<1>s. /\ UNCHANGED <<passthrough, regions, mappings, mapped, sgs, iommu>>
      /\ vfu_ctx_mutex' = t
      /\ access' = dma_local_addr(a, len) /\ dma_local_addr(a, len) # NULL
  BY DEF IssueDma, tables
<1>n. a \in Int /\ len \in Nat \ {0} /\ Iova \subseteq Int
  BY DmaAssumption DEF Iova, Lens
<1>1. PICK i \in Iova : Mappable(i) /\ i <= a /\ a + len <= i + regions[i].len
  BY <1>s, TranslationFollows DEF TranslationCurrent
<1>2. access' = [base |-> regions[i].vaddr, off |-> a - i, len |-> len]
  BY <1>s, <1>1, TranslationFollows DEF TranslationCurrent
<1>3. regions[i].vaddr \in Vaddr /\ regions[i].len \in Nat
  BY <1>1, DmaAssumption DEF TypeOK, Mappable, Region, Lens
<1>4. i \in Int /\ a - i \in Iova /\ (a - i) + len <= regions[i].len
  <2>1. i \in Int /\ 0 <= i /\ a <= MaxIova
    BY DmaAssumption DEF Iova
  <2> QED
    BY <1>n, <1>1, <1>3, <2>1, DmaAssumption DEF Iova
<1>5. TypeOK'
  <2>1. access' \in LocalAddr
    BY <1>2, <1>3, <1>4 DEF LocalAddr
  <2> QED
    BY <1>s, <2>1 DEF TypeOK
<1>6. LockInv'
  BY <1>s, DmaAssumption DEF LockInv
<1>7. AccessIsMapped'
  BY <1>s, <1>1, <1>2, <1>4 DEF AccessIsMapped, Mappable
<1>8. MappingsInv' /\ RegionsInv' /\ TablesAgree' /\ InIommuUnlessOld'
  BY <1>s DEF MappingsInv, RegionsInv, TablesAgree, InIommuUnlessOld, Mappable, Overlap
<1> QED
  BY <1>5, <1>6, <1>7, <1>8

\* The end of a copy.
LEMMA CompleteStep ==
  ASSUME IInv, NEW t \in Threads, DmaComplete(t)
  PROVE  IInv'
<1>1. /\ UNCHANGED <<passthrough, regions, mappings, mapped, sgs, iommu>>
      /\ vfu_ctx_mutex' = NULL /\ access' = NULL
  BY DEF DmaComplete, tables
<1>2. TypeOK' /\ LockInv' /\ AccessIsMapped'
  BY <1>1 DEF IInv, TypeOK, LockInv, AccessIsMapped
<1>3. MappingsInv' /\ RegionsInv' /\ TablesAgree' /\ InIommuUnlessOld'
  BY <1>1 DEF IInv, MappingsInv, RegionsInv, TablesAgree, InIommuUnlessOld, Mappable, Overlap
<1> QED
  BY <1>2, <1>3 DEF IInv

\* The inductive invariant holds in every reachable state.
THEOREM InductiveInvariant == Spec => []IInv
<1>1. ASSUME IInv, UNCHANGED vars PROVE IInv'
  <2>1. UNCHANGED <<passthrough, regions, mappings, mapped, sgs, iommu, vfu_ctx_mutex, access>>
    BY <1>1 DEF vars, tables
  <2> QED
    BY <1>1, <2>1 DEF IInv, TypeOK, MappingsInv, RegionsInv, LockInv, AccessIsMapped,
                      TablesAgree, InIommuUnlessOld, Mappable, Overlap
<1>2. ASSUME IInv, Next PROVE IInv'
  BY <1>2, RegisterStep, UnregisterStep, IssueStep, CompleteStep DEF Next
<1> QED
  BY <1>1, <1>2, InitIInv, PTL DEF Spec

\* The tables hold only regions a guest can register, and vfu_ctx_mutex and the
\* copy in progress belong to one thread at a time.
THEOREM TypeCorrect == Spec => []TypeOK
<1>1. IInv => TypeOK
  BY DEF IInv
<1> QED
  BY <1>1, InductiveInvariant, PTL

\* For every history of (un)registrations, dma_local_addr translates exactly
\* the accesses that lie in a region registered now, to that region's memory.
THEOREM TranslationIsCurrent == Spec => []TranslationCurrent
<1>1. IInv => TranslationCurrent
  BY TranslationFollows DEF IInv
<1> QED
  BY <1>1, InductiveInvariant, PTL

\* Memory that a device copies from or to is mapped until the copy ends.
THEOREM AccessStaysMapped == Spec => []AccessIsMapped
<1>1. IInv => AccessIsMapped
  BY DEF IInv
<1> QED
  BY <1>1, InductiveInvariant, PTL

\* The tables by vaddr and the table by iova describe the same regions.
THEOREM TablesAlwaysAgree == Spec => []TablesAgree
<1>1. IInv => TablesAgree
  BY DEF IInv
<1> QED
  BY <1>1, InductiveInvariant, PTL

\* A registered region is missing in the IOMMU only where an entry of an
\* earlier region is in the way.
THEOREM MissingInIommuOnlyIfOld == Spec => []InIommuUnlessOld
<1>1. IInv => InIommuUnlessOld
  BY DEF IInv
<1> QED
  BY <1>1, InductiveInvariant, PTL
=============================================================================
