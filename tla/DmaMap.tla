------------------------------- MODULE DmaMap -------------------------------
(***************************************************************************)
(* DMA regions of a VM (vfio-server.hpp): libvfio-user maps a region of    *)
(* guest memory into vmux and calls dma_register_cb, which enters it into  *)
(* the tables of the VfioUserServer; the devices translate guest addresses *)
(* with dma_local_addr and copy from or to the result.  For a passthrough  *)
(* device the regions are also given to the IOMMU (vfio-consumer.hpp).     *)
(*                                                                         *)
(* A local address is the start of a mapping in vmux and an offset.  die() *)
(* ends the process, so an access that would die is not a step.            *)
(***************************************************************************)
EXTENDS Integers

CONSTANTS
  MaxIova,   \* guest addresses are 0 .. MaxIova
  Vaddr,     \* where libvfio-user may map a region in vmux
  NULL,      \* no address, no region, nobody
  Threads    \* the runner and the RxThread of the VM

Iova == 0 .. MaxIova
Lens == 1 .. MaxIova + 1
Region == [len : Lens, vaddr : Vaddr \cup {NULL}]
LocalAddr == [base : Vaddr, off : Iova, len : Lens]

ASSUME DmaAssumption ==
  /\ MaxIova \in Nat
  /\ NULL \notin Vaddr /\ NULL \notin Threads
  /\ NULL \notin Region /\ NULL \notin LocalAddr

VARIABLES
  passthrough,  \* the device is passed through, not emulated
  regions,   \* libvfio-user: region registered at an iova, [len, vaddr]
  mappings,  \* VfioUserServer::mappings
  mapped,    \* VfioUserServer::mapped
  sgs,       \* keys of VfioUserServer::sgs
  iommu,     \* the IOMMU of the host
  vfu_ctx_mutex,  \* the thread that holds it
  access     \* local address in use by the holder, [base, off, len]

tables == <<mappings, mapped, sgs>>
vars == <<passthrough, regions, tables, iommu, vfu_ctx_mutex, access>>

\* The tables, the region list and the lock.
TypeOK ==
  /\ passthrough \in BOOLEAN
  /\ regions \in [Iova -> Region \cup {NULL}]
  /\ mappings \in [Iova -> [len : Lens, vaddr : Vaddr] \cup {NULL}]
  /\ mapped \subseteq Vaddr /\ sgs \subseteq Vaddr
  /\ iommu \in [Iova -> [len : Lens, vaddr : Vaddr] \cup {NULL}]
  /\ vfu_ctx_mutex \in Threads \cup {NULL}
  /\ access \in LocalAddr \cup {NULL}

Init ==
  /\ passthrough \in BOOLEAN
  /\ regions = [i \in Iova |-> NULL]
  /\ mappings = [i \in Iova |-> NULL]
  /\ mapped = {} /\ sgs = {}
  /\ iommu = [i \in Iova |-> NULL]
  /\ vfu_ctx_mutex = NULL /\ access = NULL

Overlap(i, ilen, j, jlen) == i < j + jlen /\ j < i + ilen

\* Regions that vmux can access.
Mappable(i) == regions[i] # NULL /\ regions[i].vaddr # NULL

-----------------------------------------------------------------------------
(* The runner executes a request of the VM with vfu_ctx_mutex held         *)

\* Defect: a region without vaddr is entered.
map_dma_here_always(i, r) ==
  /\ mappings' = [mappings EXCEPT ![i] = r]
  /\ mapped' = mapped \cup {r.vaddr}
  /\ sgs' = sgs \cup {r.vaddr}

\* map_dma_here; a region without vaddr is not entered.
map_dma_here(i, r) ==
  IF r.vaddr = NULL THEN UNCHANGED tables
  ELSE /\ mappings' = [mappings EXCEPT ![i] = r]
       /\ mapped' = mapped \cup {r.vaddr}
       /\ sgs' = sgs \cup {r.vaddr}

\* Defect: the callback returns before it reaches the IOMMU.
map_dma_not_reached(i, r) == UNCHANGED iommu

\* The rest of dma_register_cb, which the callbacks of the emulated devices do
\* not have, with VfioConsumer::map_dma: an overlapping entry makes the ioctl fail, which is
\* printed only.
map_dma(i, r) ==
  IF passthrough /\ r.vaddr # NULL
     /\ \A j \in Iova : iommu[j] # NULL => ~Overlap(i, r.len, j, iommu[j].len)
  THEN iommu' = [iommu EXCEPT ![i] = r]
  ELSE UNCHANGED iommu

\* libvfio-user accepts a region that overlaps no other one, maps it where no
\* other one is, and calls the callback.
dma_register_cb(i, r) ==
  /\ vfu_ctx_mutex = NULL
  /\ i + r.len <= MaxIova + 1
  /\ \A j \in Iova : regions[j] # NULL =>
       /\ ~Overlap(i, r.len, j, regions[j].len)
       /\ r.vaddr # NULL => regions[j].vaddr # r.vaddr
  /\ regions' = [regions EXCEPT ![i] = r]
  /\ map_dma_here(i, r)
  /\ map_dma(i, r)
  /\ UNCHANGED <<passthrough, vfu_ctx_mutex, access>>

\* Defect: the test for an unknown region, which looks for the iova among the
\* vaddrs, returns.
unmap_dma_here_returns(i, r) == UNCHANGED tables

\* Defect: mapped and sgs are not updated.
unmap_dma_here_mappings_only(i, r) ==
  IF r.vaddr = NULL THEN UNCHANGED tables
  ELSE mappings' = [mappings EXCEPT ![i] = NULL] /\ UNCHANGED <<mapped, sgs>>

\* unmap_dma_here; it returns false in every case.
unmap_dma_here(i, r) ==
  IF r.vaddr = NULL THEN UNCHANGED tables
  ELSE /\ mappings' = [mappings EXCEPT ![i] = NULL]
       /\ mapped' = mapped \ {r.vaddr}
       /\ sgs' = sgs \ {r.vaddr}

\* The callback returns before it reaches the IOMMU; libvfio-user then unmaps
\* the region from vmux.
dma_unregister_cb(i) ==
  /\ vfu_ctx_mutex = NULL
  /\ regions[i] # NULL
  /\ unmap_dma_here(i, regions[i])
  /\ regions' = [regions EXCEPT ![i] = NULL]
  /\ UNCHANGED <<passthrough, iommu, vfu_ctx_mutex, access>>

-----------------------------------------------------------------------------
(* Emulated devices: a register access on the runner, or EthRx on the RxThread      *)

\* Mappings that dma_local_addr accepts; it looks at them from the highest
\* iova down.
Containing(a) == {i \in Iova : mappings[i] # NULL /\ i <= a /\ a < i + mappings[i].len}
Highest(S) == CHOOSE i \in S : \A j \in S : j <= i

\* NULL stands for no result and for the die() of an access that goes beyond
\* the end of the mapping.
dma_local_addr(a, len) ==
  LET i == Highest(Containing(a))
  IN  IF Containing(a) = {} \/ a + len > i + mappings[i].len THEN NULL
      ELSE [base |-> mappings[i].vaddr, off |-> a - i, len |-> len]

\* Defect: the lock is not taken.
IssueDma_unlocked(t, a, len) ==
  /\ ~passthrough
  /\ access = NULL
  /\ dma_local_addr(a, len) # NULL
  /\ access' = dma_local_addr(a, len)
  /\ UNCHANGED <<passthrough, regions, tables, iommu, vfu_ctx_mutex>>

\* Take the lock and translate.
IssueDma(t, a, len) ==
  /\ ~passthrough
  /\ vfu_ctx_mutex = NULL
  /\ vfu_ctx_mutex' = t
  /\ dma_local_addr(a, len) # NULL
  /\ access' = dma_local_addr(a, len)
  /\ UNCHANGED <<passthrough, regions, tables, iommu>>

\* Copy and release the lock.
DmaComplete(t) ==
  /\ access # NULL
  /\ vfu_ctx_mutex = t
  /\ access' = NULL /\ vfu_ctx_mutex' = NULL
  /\ UNCHANGED <<passthrough, regions, tables, iommu>>

Next ==
  \/ \E i \in Iova, r \in Region : dma_register_cb(i, r)
  \/ \E i \in Iova : dma_unregister_cb(i)
  \/ \E t \in Threads, a \in Iova, len \in Lens : IssueDma(t, a, len)
  \/ \E t \in Threads : DmaComplete(t)

Spec == Init /\ [][Next]_vars

-----------------------------------------------------------------------------
(* Properties                                                              *)

\* An access within a registered region is translated to the memory the region
\* has now, and no other access is translated: whatever regions came and went
\* before, dma_local_addr neither misses a region nor finds an old one.
TranslationCurrent ==
  \A a \in Iova, len \in Lens :
    /\ \A i \in Iova :
         (Mappable(i) /\ i <= a /\ a + len <= i + regions[i].len) =>
           dma_local_addr(a, len) = [base |-> regions[i].vaddr, off |-> a - i, len |-> len]
    /\ dma_local_addr(a, len) # NULL =>
         \E i \in Iova : Mappable(i) /\ i <= a /\ a + len <= i + regions[i].len

\* While a device copies, the memory it copies from or to stays mapped
\* (vfu_ctx_mutex: the VM cannot unregister the region in between).
AccessIsMapped ==
  access # NULL => \E i \in Iova : /\ Mappable(i)
                                   /\ regions[i].vaddr = access.base
                                   /\ access.off + access.len <= regions[i].len

\* mapped and sgs, which are kept by vaddr, describe the same regions as
\* mappings, which is kept by iova.
TablesAgree ==
  /\ mapped = {mappings[i].vaddr : i \in {j \in Iova : mappings[j] # NULL}}
  /\ sgs = mapped

\* A region of a passthrough device reaches the IOMMU, unless an entry is in
\* the way that an earlier region has left there: dma_unregister_cb never gets
\* to unmap_dma, and map_dma goes on after a failure.
InIommuUnlessOld ==
  passthrough =>
    \A i \in Iova : Mappable(i) =>
      \/ iommu[i] = regions[i]
      \/ \E j \in Iova : /\ iommu[j] # NULL /\ iommu[j] # regions[j]
                         /\ Overlap(i, regions[i].len, j, iommu[j].len)
=============================================================================
