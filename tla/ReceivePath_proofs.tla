------------------------- MODULE ReceivePath_proofs -------------------------
(***************************************************************************)
(* Proofs about ReceivePath, for any number of VMs, queues, packets and    *)
(* rules and any burst size: packets reach the right VM and queue, exist   *)
(* once, and their buffers are freed once.                                 *)
(***************************************************************************)
EXTENDS ReceivePath, TLAPS

-----------------------------------------------------------------------------
(* Numbers                                                                 *)

LEMMA Constants ==
  /\ NumVms \in Nat /\ MAX_QUEUES_PER_VM \in Nat /\ BURST_SIZE \in Nat /\ BURST_SIZE > 0
  /\ MaxPackets \in Nat
  /\ Vms \subseteq Nat /\ QueueIdx \subseteq Nat /\ NicQueues \subseteq Nat
  /\ 0 \in Vms /\ 0 \in QueueIdx /\ None = -1 /\ Ptp = -1 /\ Ptp \notin Vms /\ None \notin NicQueues
  /\ None \notin Vms
BY ReceiveAssumption DEF Vms, QueueIdx, NicQueues, None, Ptp

LEMMA BufferIndices ==
  /\ \A k \in QueueIdx : k \in Nat
  /\ \A i \in 0 .. BURST_SIZE : i \in Nat
  /\ \A i \in 0 .. BURST_SIZE - 1 : i \in Nat /\ i + 1 \in 0 .. BURST_SIZE
BY ReceiveAssumption DEF QueueIdx

\* Queue numbers that wrap.
LEMMA Wrapping ==
  ASSUME NEW n \in Nat, n > 0
  PROVE  /\ \A a \in 0 .. n - 1 : a % n = a
         /\ \A a \in n .. 2 * n - 1 : a % n = a - n
         /\ \A a \in -n .. -1 : a % n = a + n
BY SMTT(30), Z3T(30)

\* The queues of different VMs, and different queues of a VM, are different
\* queues of the NIC.
LEMMA QueueIds ==
  /\ \A vm \in Vms, k \in QueueIdx : get_rx_queue_id(vm, k) \in NicQueues
  /\ \A v, w \in Vms, k, l \in QueueIdx :
       get_rx_queue_id(v, k) = get_rx_queue_id(w, l) => v = w /\ k = l
  /\ get_rx_queue_id(0, 0) = 0
  /\ \A vm \in Vms, k \in QueueIdx : get_rx_queue_id(vm, k) = vm * MAX_QUEUES_PER_VM + k
<1>. DEFINE M == MAX_QUEUES_PER_VM
<1>0. M \in Nat /\ NumVms \in Nat /\ IdMod \in Nat /\ IdMod > NumVms * M
  BY ReceiveAssumption
<1>1. ASSUME NEW a \in Nat, NEW b \in Nat, a < b
      PROVE  a * M + M <= b * M
  <2>1. b * M = a * M + M + (b - a - 1) * M
    BY <1>0
  <2>2. b - a - 1 \in Nat /\ a * M \in Nat
    BY <1>0, <1>1
  <2>3. (b - a - 1) * M \in Nat
    BY <1>0, <2>2
  <2>. QED
    BY <1>0, <2>1, <2>2, <2>3
<1>2. ASSUME NEW vm \in Vms, NEW k \in QueueIdx
      PROVE  get_rx_queue_id(vm, k) \in NicQueues /\ get_rx_queue_id(vm, k) = vm * MAX_QUEUES_PER_VM + k
  <2>1. vm \in Nat /\ vm < NumVms /\ k \in Nat /\ k < M
    BY <1>0 DEF Vms, QueueIdx
  <2>2. vm * M + M <= NumVms * M
    BY <1>0, <1>1, <2>1
  <2>3. vm * M \in Nat /\ NumVms * M \in Nat
    BY <1>0, <2>1
  <2>. HIDE DEF M
  <2>4. vm * M + k \in 0 .. NumVms * M - 1
    BY <1>0, <2>1, <2>2, <2>3
  <2>5. IdMod > 0 /\ vm * M + k \in 0 .. IdMod - 1
    BY <1>0, <2>3, <2>4
  <2>6. (vm * M + k) % IdMod = vm * M + k
    BY Zenon, <1>0, <2>5, Wrapping
  <2>. QED
    BY Zenon, <2>4, <2>6 DEF get_rx_queue_id, NicQueues, M
<1>3. ASSUME NEW v \in Vms, NEW w \in Vms, NEW k \in QueueIdx, NEW l \in QueueIdx,
             get_rx_queue_id(v, k) = get_rx_queue_id(w, l)
      PROVE  v = w /\ k = l
  <2>1. /\ v \in Nat /\ k \in Nat /\ k < M
        /\ w \in Nat /\ l \in Nat /\ l < M
    BY <1>0 DEF Vms, QueueIdx
  <2>2. v * M \in Nat /\ w * M \in Nat
    BY <1>0, <2>1
  <2>3. v * M + k = w * M + l
    BY Zenon, <1>2, <1>3
  <2>. HIDE DEF M
  <2>4. ~(v < w) /\ ~(w < v)
    BY <1>0, <1>1, <2>1, <2>2, <2>3
  <2>. QED
    BY <1>0, <2>1, <2>2, <2>3, <2>4
<1>4. get_rx_queue_id(0, 0) = 0
  <2>1. 0 \in Vms /\ 0 \in QueueIdx /\ 0 * MAX_QUEUES_PER_VM + 0 = 0
    BY <1>0, Constants
  <2>. QED
    BY Zenon, <1>2, <2>1
<1>. QED
  BY <1>2, <1>3, <1>4

LEMMA QueueNumber ==
  ASSUME NEW vm \in Vms, NEW k \in QueueIdx
  PROVE  get_rx_queue_id(vm, k) = vm * MAX_QUEUES_PER_VM + k /\ get_rx_queue_id(vm, k) \in NicQueues
BY Zenon, QueueIds

LEMMA SameQueue ==
  ASSUME NEW v \in Vms, NEW w \in Vms, NEW k \in QueueIdx, NEW l \in QueueIdx,
         get_rx_queue_id(v, k) = get_rx_queue_id(w, l)
  PROVE  v = w /\ k = l
BY SMTT(30), Z3T(30), QueueIds

\* A rule for a queue that the guest has leads to this queue, and no other rule
\* leads to a queue of the VM.
LEMMA RuleLeads ==
  ASSUME NEW v \in Vms, NEW w \in Vms, NEW k \in QueueIdx, NEW id \in RuleQueues,
         NicQueueOf(v, id) = get_rx_queue_id(w, k), id \in GuestQueues(v) \/ v = w
  PROVE  v = w /\ id = vsi0_first_queue(v) + k
<1>. DEFINE f == vsi0_first_queue(v)  d == (id - f) % IdMod  b == v * MAX_QUEUES_PER_VM
<1>1. /\ IdMod \in Nat /\ IdMod > 0 /\ id \in 0 .. IdMod - 1 /\ MAX_QUEUES_PER_VM \in Nat
      /\ NumVms \in Nat /\ IdMod > NumVms * MAX_QUEUES_PER_VM /\ NumVms > 0
  <2>1. NumVms * MAX_QUEUES_PER_VM \in Nat
    BY ReceiveAssumption
  <2>. QED
    BY <2>1, ReceiveAssumption
<1>2. f \in {0, 1}
  BY DEF vsi0_first_queue
<1>3. NicQueueOf(v, id) = (b + d) % IdMod
  BY Zenon DEF NicQueueOf, get_rx_queue_id, dst_queue_of
<1>4. CASE id \in GuestQueues(v)
  <2>1. PICK l \in QueueIdx : id = f + l
    BY Zenon, <1>4 DEF GuestQueues
  <2>2. get_rx_queue_id(v, l) = b + l /\ b + l \in NicQueues /\ l \in 0 .. MAX_QUEUES_PER_VM - 1
    <3>1. l \in QueueIdx
      BY Zenon, <2>1
    <3>. QED
      BY Zenon, <3>1, QueueNumber DEF QueueIdx
  <2>. HIDE DEF f, b
  <2>3. id - f = l /\ l \in 0 .. IdMod - 1
    BY <1>1, <1>2, <2>1, <2>2
  <2>4. l % IdMod = l
    BY Zenon, <1>1, <2>3, Wrapping
  <2>6. d = l
    BY Zenon, <2>3, <2>4
  <2>5. NicQueueOf(v, id) = get_rx_queue_id(v, l)
    BY Zenon, <1>3, <2>6 DEF get_rx_queue_id, b
  <2>7. v = w /\ l = k
    <3>1. l \in QueueIdx /\ get_rx_queue_id(v, l) = get_rx_queue_id(w, k)
      BY Zenon, <2>1, <2>5
    <3>. HIDE DEF d
    <3>. QED
      BY SMTT(30), Z3T(30), <3>1, SameQueue
  <2>. QED
    BY SMTT(30), Z3T(30), <2>1, <2>7 DEF f
<1>5. CASE v = w
  <2>1. get_rx_queue_id(v, k) = b + k /\ b + k \in NicQueues /\ k \in 0 .. MAX_QUEUES_PER_VM - 1
    BY Zenon, QueueNumber DEF QueueIdx
  <2>2. v \in Nat /\ b \in Nat
    <3>1. v \in Nat
      BY Constants
    <3>. QED
      BY <1>1, <3>1
  <2>3. MAX_QUEUES_PER_VM < IdMod
    <3>1. NumVms * MAX_QUEUES_PER_VM = MAX_QUEUES_PER_VM + (NumVms - 1) * MAX_QUEUES_PER_VM
      BY <1>1
    <3>2. (NumVms - 1) * MAX_QUEUES_PER_VM \in Nat
      BY <1>1
    <3>. QED
      BY <1>1, <3>1, <3>2
  <2>4. b + k < IdMod
    BY <1>1, <2>1, <2>2 DEF NicQueues
  <2>. HIDE DEF f, b
  <2>5. d \in 0 .. IdMod - 1 /\ (id - f >= 0 => d = id - f) /\ (id - f < 0 => d = IdMod - 1)
    <3>1. CASE id - f >= 0
      <4>1. id - f \in 0 .. IdMod - 1
        BY <1>1, <1>2, <3>1
      <4>2. d = id - f
        BY Zenon, <1>1, <4>1, Wrapping
      <4>. QED
        BY <1>1, <1>2, <3>1, <4>1, <4>2
    <3>2. CASE id - f < 0
      <4>1. id - f = -1 /\ -1 \in -IdMod .. -1
        BY <1>1, <1>2, <3>2
      <4>2. d = -1 + IdMod
        BY Zenon, <1>1, <4>1, Wrapping
      <4>. QED
        BY <1>1, <1>2, <3>2, <4>1, <4>2
    <3>. QED
      BY <1>1, <1>2, <3>1, <3>2
  <2>. HIDE DEF d
  <2>6. d = k
    <3>1. CASE b + d < IdMod
      <4>1. b + d \in 0 .. IdMod - 1
        BY <1>1, <2>2, <2>5, <3>1
      <4>2. b + d = b + k
        BY Zenon, <1>1, <1>3, <1>5, <2>1, <4>1, Wrapping
      <4>. QED
        BY <1>1, <2>1, <2>2, <2>5, <4>2
    <3>2. CASE b + d >= IdMod
      <4>1. PICK c \in IdMod .. 2 * IdMod - 1 : c = b + d
        BY <1>1, <2>1, <2>2, <2>4, <2>5, <3>2
      <4>2. c % IdMod = c - IdMod
        BY SMTT(30), Z3T(30), <1>1, <4>1, Wrapping
      <4>3. c - IdMod = b + k
        BY Zenon, <1>3, <1>5, <2>1, <4>1, <4>2
      <4>. QED
        BY <1>1, <2>1, <2>2, <2>5, <4>1, <4>3
    <3>. QED
      BY <1>1, <2>2, <2>5, <3>1, <3>2
  <2>7. id = f + k
    BY <1>1, <1>2, <2>1, <2>3, <2>5, <2>6
  <2>. QED
    BY Zenon, <1>5, <2>7 DEF f
<1>. QED
  BY Zenon, <1>4, <1>5

-----------------------------------------------------------------------------
(* The packets of a burst                                                  *)

\* The next packet is one that is not handled yet.
LEMMA CurrentIsFirst ==
  ASSUME NEW vm \in Vms, First(vm) # {}
  PROVE  Current(vm) \in Unhandled(vm)
  BY Zenon DEF First, Current

LEMMA CurrentBuffer ==
  ASSUME TypeOK, NEW vm \in Vms, NEW x \in Unhandled(vm)
  PROVE  /\ x \in QueueIdx \X (0 .. BURST_SIZE - 1) /\ pc[vm] # "start"
         /\ get_rx_queue_id(vm, x[1]) \in NicQueues
         /\ x[2] + 1 \in DOMAIN bufs[get_rx_queue_id(vm, x[1])]
         /\ BufferOf(vm, x) = bufs[get_rx_queue_id(vm, x[1])][x[2] + 1]
         /\ BufferOf(vm, x) \in Packets
<1>1. /\ x \in QueueIdx \X (0 .. BURST_SIZE - 1) /\ pc[vm] # "start"
      /\ x[2] < Len(bufs[get_rx_queue_id(vm, x[1])])
  BY DEF Unhandled
<1>2. get_rx_queue_id(vm, x[1]) \in NicQueues
  BY <1>1, QueueIds
<1>3. bufs[get_rx_queue_id(vm, x[1])] \in Seq(Packets)
  BY <1>2 DEF TypeOK
<1>4. x[2] + 1 \in DOMAIN bufs[get_rx_queue_id(vm, x[1])]
  BY <1>1, <1>3, Constants
<1>. QED
  BY <1>1, <1>2, <1>3, <1>4 DEF BufferOf

\* What a thread has handled is not handled again; other threads are not
\* concerned.
LEMMA Handled ==
  ASSUME TypeOK, NEW vm \in Vms, First(vm) # {}, next_packet(vm), UNCHANGED bufs,
         \A v \in Vms : pc'[v] = "start" <=> pc[v] = "start"
  PROVE  /\ pos' \in [Vms -> QueueIdx \X (0 .. BURST_SIZE)]
         /\ \A v \in Vms : v # vm => pos'[v] = pos[v] /\ Unhandled(v)' = Unhandled(v)
         /\ \A v \in Vms : Unhandled(v)' \subseteq Unhandled(v)
         /\ Current(vm) \notin Unhandled(vm)'
         /\ \A v \in Vms : \A x : BufferOf(v, x)' = BufferOf(v, x)
<1>. DEFINE c == Current(vm)
<1>1. c \in Unhandled(vm)
  BY CurrentIsFirst
<1>. HIDE DEF c
<1>2. c \in QueueIdx \X (0 .. BURST_SIZE - 1)
  BY <1>1, CurrentBuffer
<1>3. c[1] \in QueueIdx /\ c[1] \in Nat /\ c[2] \in Nat /\ c[2] + 1 \in 0 .. BURST_SIZE
  <2>1. c[1] \in QueueIdx /\ c[2] \in 0 .. BURST_SIZE - 1
    BY <1>2
  <2>. QED
    BY <2>1, BufferIndices, Zenon
<1>4. pos' = [pos EXCEPT ![vm] = <<c[1], c[2] + 1>>]
  BY DEF next_packet, c
<1>5. pos \in [Vms -> QueueIdx \X (0 .. BURST_SIZE)]
  BY DEF TypeOK
<1>6. pos'[vm] = <<c[1], c[2] + 1>> /\ \A v \in Vms : v # vm => pos'[v] = pos[v]
  BY <1>4, <1>5
<1>7. pos' \in [Vms -> QueueIdx \X (0 .. BURST_SIZE)]
  BY <1>3, <1>4, <1>5
<1>8. \A v \in Vms : v # vm => Unhandled(v)' = Unhandled(v)
  BY <1>6, Zenon DEF Unhandled, get_rx_queue_id
<1>9. /\ c[1] > pos[vm][1] \/ (c[1] = pos[vm][1] /\ c[2] >= pos[vm][2])
      /\ pos[vm][1] \in Nat /\ pos[vm][2] \in Nat
  <2>1. pos[vm][1] \in QueueIdx /\ pos[vm][2] \in 0 .. BURST_SIZE
    BY <1>5
  <2>2. c[1] > pos[vm][1] \/ (c[1] = pos[vm][1] /\ c[2] >= pos[vm][2])
    BY <1>1 DEF Unhandled
  <2>. QED
    BY <2>1, <2>2, BufferIndices, Zenon
<1>10. Unhandled(vm)' \subseteq Unhandled(vm) /\ c \notin Unhandled(vm)'
  <2>. SUFFICES ASSUME NEW x \in Unhandled(vm)' PROVE x \in Unhandled(vm) /\ x # c
    OBVIOUS
  <2>1. /\ x \in QueueIdx \X (0 .. BURST_SIZE - 1) /\ pc[vm] # "start"
        /\ x[2] < Len(bufs[get_rx_queue_id(vm, x[1])])
        /\ x[1] > c[1] \/ (x[1] = c[1] /\ x[2] >= c[2] + 1)
    BY <1>6 DEF Unhandled, get_rx_queue_id
  <2>2. x[1] \in Nat /\ x[2] \in Nat
    <3>1. x[1] \in QueueIdx /\ x[2] \in 0 .. BURST_SIZE - 1
      BY <2>1
    <3>. QED
      BY <3>1, BufferIndices, Zenon
  <2>3. x[1] > pos[vm][1] \/ (x[1] = pos[vm][1] /\ x[2] >= pos[vm][2])
    BY SMTT(30), Z3T(30), <1>3, <1>9, <2>1, <2>2
  <2>4. x # c
    BY <1>3, <2>1, <2>2
  <2>. QED
    BY <2>1, <2>3, <2>4 DEF Unhandled
<1>11. \A v \in Vms : \A x : BufferOf(v, x)' = BufferOf(v, x)
  BY DEF BufferOf, get_rx_queue_id
<1>. QED
  BY <1>6, <1>7, <1>8, <1>10, <1>11 DEF c

-----------------------------------------------------------------------------
(* Sequences                                                               *)

LEMMA ElementIn ==
  ASSUME NEW S, NEW s \in Seq(S), NEW i \in DOMAIN s
  PROVE  s[i] \in S
OBVIOUS

LEMMA SeqOfMore ==
  ASSUME NEW S, NEW T, S \subseteq T, NEW s \in Seq(S)
  PROVE  s \in Seq(T)
OBVIOUS

LEMMA QueuesOfMore ==
  ASSUME NEW D, NEW S, NEW T, S \subseteq T, NEW f \in [D -> Seq(S)]
  PROVE  f \in [D -> Seq(T)]
<1>1. \A d \in D : f[d] \in Seq(T)
  BY SeqOfMore
<1>. QED
  BY <1>1

LEMMA Concatenation ==
  ASSUME NEW S, NEW s \in Seq(S), NEW t \in Seq(S)
  PROVE  /\ s \o t \in Seq(S) /\ Len(s \o t) = Len(s) + Len(t)
         /\ \A i \in DOMAIN s : i \in DOMAIN (s \o t) /\ (s \o t)[i] = s[i]
         /\ \A i \in DOMAIN t : Len(s) + i \in DOMAIN (s \o t) /\ (s \o t)[Len(s) + i] = t[i]
         /\ \A i \in DOMAIN (s \o t) :
              \/ i \in DOMAIN s /\ (s \o t)[i] = s[i]
              \/ i - Len(s) \in DOMAIN t /\ (s \o t)[i] = t[i - Len(s)]
<1>1. s \o t \in Seq(S) /\ Len(s \o t) = Len(s) + Len(t)
  OBVIOUS
<1>2. ASSUME NEW i \in DOMAIN s PROVE i \in DOMAIN (s \o t) /\ (s \o t)[i] = s[i]
  BY <1>1
<1>3. ASSUME NEW i \in DOMAIN t
      PROVE  Len(s) + i \in DOMAIN (s \o t) /\ (s \o t)[Len(s) + i] = t[i]
  BY <1>1
<1>4. ASSUME NEW i \in DOMAIN (s \o t), i > Len(s)
      PROVE  i - Len(s) \in DOMAIN t /\ (s \o t)[i] = t[i - Len(s)]
  BY <1>1, <1>4
<1>5. ASSUME NEW i \in DOMAIN (s \o t), i <= Len(s)
      PROVE  i \in DOMAIN s
  BY <1>1, <1>5
<1>6. \A i \in DOMAIN (s \o t) : i \in Int
  BY <1>1
<1>7. Len(s) \in Nat
  OBVIOUS
<1>. QED
  BY SMTT(30), Z3T(30), ZenonT(40), <1>1, <1>2, <1>3, <1>4, <1>5, <1>6, <1>7

LEMMA SameSequence ==
  ASSUME NEW S, NEW s \in Seq(S), NEW t \in Seq(S), Len(s) = Len(t),
         \A i \in 1 .. Len(s) : s[i] = t[i]
  PROVE  s = t
  OBVIOUS

LEMMA SplitAndJoin ==
  ASSUME NEW S, NEW s \in Seq(S), NEW n \in 0 .. Len(s)
  PROVE  SubSeq(s, 1, n) \o SubSeq(s, n + 1, Len(s)) = s
<1>. DEFINE a == SubSeq(s, 1, n)  b == SubSeq(s, n + 1, Len(s))
<1>1. a \in Seq(S) /\ Len(a) = n /\ \A i \in 1 .. n : a[i] = s[i]
  OBVIOUS
<1>2. b \in Seq(S) /\ Len(b) = Len(s) - n /\ \A i \in 1 .. Len(s) - n : b[i] = s[i + n]
  OBVIOUS
<1>0. Len(s) \in Nat /\ n \in Nat /\ n <= Len(s)
  OBVIOUS
<1>. HIDE DEF a, b
<1>3. /\ a \o b \in Seq(S) /\ Len(a \o b) = Len(s)
      /\ \A i \in 1 .. Len(s) : (a \o b)[i] = s[i]
  <2>1. a \o b \in Seq(S) /\ Len(a \o b) = Len(s)
    <3>1. a \o b \in Seq(S) /\ Len(a \o b) = Len(a) + Len(b)
      BY <1>1, <1>2, Concatenation, Zenon
    <3>. QED
      BY <1>0, <1>1, <1>2, <3>1
  <2>2. ASSUME NEW i \in 1 .. Len(s) PROVE (a \o b)[i] = s[i]
    <3>1. CASE i <= n
      BY <1>1, <1>2, <3>1
    <3>2. CASE i > n
      <4>1. i - n \in 1 .. Len(s) - n /\ (a \o b)[i] = b[i - n]
        BY <1>1, <1>2, <3>2
      <4>2. b[i - n] = s[(i - n) + n]
        BY SMTT(30), Z3T(30), ZenonT(40), <1>2, <4>1
      <4>. QED
        BY <4>1, <4>2
    <3>3. i <= n \/ i > n
      BY <1>0
    <3>. QED
      BY <3>1, <3>2, <3>3, Zenon
  <2>. QED
    BY <2>1, <2>2
<1>4. a \o b = s
  BY <1>3, SameSequence, Zenon
<1>. QED
  BY <1>4, Zenon DEF a, b

LEMMA LineParts ==
  ASSUME TypeOK, NEW q \in NicQueues
  PROVE  /\ ring[q] \in Seq(Packets) /\ bufs[q] \in Seq(Packets) /\ Line(q) \in Seq(Packets)
         /\ Len(Line(q)) = Len(bufs[q]) + Len(ring[q])
         /\ \A i \in DOMAIN bufs[q] : i \in DOMAIN Line(q) /\ Line(q)[i] = bufs[q][i]
         /\ \A i \in DOMAIN ring[q] : /\ Len(bufs[q]) + i \in DOMAIN Line(q)
                                       /\ Line(q)[Len(bufs[q]) + i] = ring[q][i]
         /\ \A i \in DOMAIN Line(q) :
              \/ i \in DOMAIN bufs[q] /\ Line(q)[i] = bufs[q][i]
              \/ i - Len(bufs[q]) \in DOMAIN ring[q] /\ Line(q)[i] = ring[q][i - Len(bufs[q])]
<1>1. ring[q] \in Seq(Packets) /\ bufs[q] \in Seq(Packets)
  BY DEF TypeOK
<1>. DEFINE b == bufs[q]  r == ring[q]
<1>. HIDE DEF b, r
<1>2. /\ b \o r \in Seq(Packets) /\ Len(b \o r) = Len(b) + Len(r)
      /\ \A i \in DOMAIN b : i \in DOMAIN (b \o r) /\ (b \o r)[i] = b[i]
      /\ \A i \in DOMAIN r : Len(b) + i \in DOMAIN (b \o r) /\ (b \o r)[Len(b) + i] = r[i]
      /\ \A i \in DOMAIN (b \o r) :
           \/ i \in DOMAIN b /\ (b \o r)[i] = b[i]
           \/ i - Len(b) \in DOMAIN r /\ (b \o r)[i] = r[i - Len(b)]
  <2>1. b \in Seq(Packets) /\ r \in Seq(Packets)
    BY <1>1 DEF b, r
  <2>. QED
    BY ZenonT(40), <2>1, Concatenation
<1>. QED
  BY <1>1, <1>2, Zenon DEF Line, b, r

\* recv only moves packets from the NIC to the buffers.
LEMMA RecvMoves ==
  ASSUME TypeOK, ThreadInv, NEW vm \in Vms, recv(vm), NEW q \in NicQueues
  PROVE  /\ ring'[q] \in Seq(Packets) /\ bufs'[q] \in Seq(Packets) /\ Len(bufs'[q]) <= BURST_SIZE
         /\ Line(q)' = Line(q)
         /\ \A i \in DOMAIN ring'[q] : \E j \in DOMAIN ring[q] : ring'[q][i] = ring[q][j]
         /\ q \notin OwnQueues(vm) => bufs'[q] = bufs[q]
         /\ q \in OwnQueues(vm) =>
              \A i \in DOMAIN bufs'[q] : i \in DOMAIN ring[q] /\ bufs'[q][i] = ring[q][i]
<1>1. ring[q] \in Seq(Packets) /\ bufs[q] \in Seq(Packets) /\ Len(bufs[q]) <= BURST_SIZE
  BY DEF TypeOK
<1>2. CASE Receives(vm, q)
  <2>1. q \in OwnQueues(vm) /\ bufs[q] = <<>>
    BY <1>2 DEF Receives, ThreadInv, recv
  <2>. DEFINE n == Burst(q)
  <2>2. n \in 0 .. Len(ring[q]) /\ n <= BURST_SIZE
    BY <1>1, Constants DEF Burst
  <2>3. bufs'[q] = SubSeq(ring[q], 1, n) /\ ring'[q] = SubSeq(ring[q], n + 1, Len(ring[q]))
    BY <1>2, Zenon DEF recv
  <2>. HIDE DEF n
  <2>4. /\ bufs'[q] \in Seq(Packets) /\ Len(bufs'[q]) = n
        /\ \A i \in 1 .. n : bufs'[q][i] = ring[q][i]
    BY SMTT(30), Z3T(30), ZenonT(40), <1>1, <2>2, <2>3
  <2>5. /\ ring'[q] \in Seq(Packets) /\ Len(ring'[q]) = Len(ring[q]) - n
        /\ \A i \in 1 .. Len(ring[q]) - n : ring'[q][i] = ring[q][i + n]
    BY <1>1, <2>2, <2>3
  <2>6. bufs'[q] \o ring'[q] = ring[q]
    BY <1>1, <2>2, <2>3, SplitAndJoin, Zenon
  <2>7. Line(q)' = Line(q)
    BY <1>1, <2>1, <2>6 DEF Line
  <2>8. ASSUME NEW i \in DOMAIN ring'[q] PROVE i + n \in DOMAIN ring[q] /\ ring'[q][i] = ring[q][i + n]
    <3>1. i \in 1 .. Len(ring[q]) - n
      BY <2>5
    <3>2. i + n \in 1 .. Len(ring[q])
      BY <1>1, <2>2, <3>1
    <3>. QED
      BY <1>1, <2>5, <3>1, <3>2
  <2>9. \A i \in DOMAIN bufs'[q] : i \in DOMAIN ring[q] /\ bufs'[q][i] = ring[q][i]
    BY <1>1, <2>2, <2>4
  <2>. QED
    BY ZenonT(40), <2>1, <2>2, <2>4, <2>5, <2>7, <2>8, <2>9
<1>3. CASE ~Receives(vm, q)
  <2>1. ring'[q] = ring[q] /\ bufs'[q] = bufs[q]
    BY SMTT(30), Z3T(30), ZenonT(40), <1>3 DEF recv
  <2>2. q \in OwnQueues(vm) => bufs[q] = <<>>
    BY DEF ThreadInv, recv
  <2>. QED
    BY SMTT(30), Z3T(30), ZenonT(40), <1>1, <2>1, <2>2 DEF Line
<1>. QED
  BY <1>2, <1>3

-----------------------------------------------------------------------------
(* Types                                                                   *)

\* Steps that concern neither packets nor buffers nor rules.
Aside == UNCHANGED <<arrived, flow, ring, bufs, freed, rules, e1000, pc, pos, inject_packets, output>>

\* The three ways to handle a packet of a burst.
Handle(vm) == inject(vm) \/ EthRx(vm) \/ ethRx(vm)

LEMMA InitType == Init => TypeOK
<1>. SUFFICES ASSUME Init PROVE TypeOK
  OBVIOUS
<1>. USE Constants DEF Init
<1>1. Len(arrived) <= MaxPackets /\ arrived \in Seq([to : Vms \cup {Ptp}, etype : Etypes])
  OBVIOUS
<1>2. flow \in [Vms \X Etypes -> NicQueues \cup {None}]
  OBVIOUS
<1>3. ring \in [NicQueues -> Seq(Packets)] /\ bufs \in [NicQueues -> Seq(Packets)]
  OBVIOUS
<1>4. \A q \in NicQueues : Len(bufs[q]) <= BURST_SIZE
  OBVIOUS
<1>5. freed \in [1 .. MaxPackets -> Nat]
  OBVIOUS
<1>6. rules \in [Vms -> Seq([etype : Etypes, queue : RuleQueues])]
  OBVIOUS
<1>7. ready \subseteq Vms /\ e1000 \subseteq Vms
  BY ReceiveAssumption
<1>8. pc \in [Vms -> {"start", "packets", "ethRx"}]
  OBVIOUS
<1>9. ptp_target_vm \in [Vms -> Vms \cup {None}] /\ ptp_target_vm_idx \in [Vms -> Vms \cup {None}]
  OBVIOUS
<1>10. pos \in [Vms -> QueueIdx \X (0 .. BURST_SIZE)]
  OBVIOUS
<1>11. inject_packets \in [Vms -> Seq(Packets)]
  OBVIOUS
<1>12. old_id \in Vms \cup {None} /\ output \in Seq([packet : Packets, vm : Vms, queue : Nat])
  BY SMTT(30), Z3T(30), ZenonT(40)
<1>. QED
  BY ZenonT(40), <1>1, <1>2, <1>3, <1>4, <1>5, <1>6, <1>7, <1>8, <1>9, <1>10, <1>11, <1>12 DEF TypeOK

\* The queue of the guest: the one of the hint, of the first rule for the
\* ethertype, or the default.
LEMMA HintedQueue ==
  ASSUME NEW vm \in Vms, NEW p, NEW k \in QueueIdx
  PROVE  select_queue(vm, p, k) = vsi0_first_queue(vm) + k /\ vsi0_first_queue(vm) \in Nat
<1>1. vsi0_first_queue(vm) \in Nat
  BY DEF vsi0_first_queue
<1>2. k # None
  BY Constants
<1>. QED
  BY Zenon, <1>1, <1>2 DEF select_queue

LEMMA SelectedQueue ==
  ASSUME TypeOK, NEW vm \in Vms, NEW p \in Packets
  PROVE  /\ vsi0_first_queue(vm) \in Nat
         /\ \A k \in QueueIdx : select_queue(vm, p, k) = vsi0_first_queue(vm) + k
         /\ \/ select_queue(vm, p, None) = vsi0_first_queue(vm)
            \/ \E r \in DOMAIN rules[vm] :
                 /\ rules[vm][r].etype = arrived[p].etype
                 /\ \A s \in DOMAIN rules[vm] : rules[vm][s].etype = arrived[p].etype => r <= s
                 /\ select_queue(vm, p, None) = rules[vm][r].queue
         /\ \A hint \in QueueIdx \cup {None} : select_queue(vm, p, hint) \in Nat
<1>1. vsi0_first_queue(vm) \in Nat
  BY DEF vsi0_first_queue
<1>2. \A k \in QueueIdx : k \in Nat /\ select_queue(vm, p, k) = vsi0_first_queue(vm) + k
  BY Constants DEF select_queue
<1>3. rules[vm] \in Seq([etype : Etypes, queue : RuleQueues])
  BY Zenon DEF TypeOK
<1>4. CASE MatchingRules(vm, p) = {}
  BY SMTT(30), Z3T(30), ZenonT(40), <1>1, <1>2, <1>4, Constants DEF select_queue
<1>5. CASE MatchingRules(vm, p) # {}
  <2>. DEFINE r == CHOOSE r \in MatchingRules(vm, p) : TRUE
  <2>1. r \in MatchingRules(vm, p)
    BY <1>5
  <2>2. select_queue(vm, p, None) = rules[vm][r].queue
    BY <1>5 DEF select_queue
  <2>. HIDE DEF r
  <2>3. /\ r \in DOMAIN rules[vm] /\ rules[vm][r].etype = arrived[p].etype
        /\ \A s \in 1 .. r - 1 : rules[vm][s].etype # arrived[p].etype
    BY <2>1 DEF MatchingRules
  <2>4. ASSUME NEW s \in DOMAIN rules[vm], rules[vm][s].etype = arrived[p].etype PROVE r <= s
    <3>1. r \in Int /\ s \in Int /\ s >= 1
      BY SMTT(30), Z3T(30), ZenonT(40), <1>3, <2>3
    <3>2. ~(s \in 1 .. r - 1)
      BY <2>3, <2>4
    <3>. QED
      BY <3>1, <3>2
  <2>5. rules[vm][r].queue \in Nat
    <3>1. rules[vm][r] \in [etype : Etypes, queue : RuleQueues]
      BY <1>3, <2>3, ElementIn, Zenon
    <3>2. RuleQueues \subseteq Nat
      BY ReceiveAssumption
    <3>. QED
      BY Zenon, <3>1, <3>2
  <2>. QED
    BY <1>1, <1>2, <2>2, <2>3, <2>4, <2>5
<1>. QED
  BY <1>4, <1>5

LEMMA OutputType ==
  ASSUME TypeOK, NEW vm \in Vms, NEW p \in Packets, NEW q \in Nat
  PROVE  Append(output, [packet |-> p, vm |-> vm, queue |-> q])
           \in Seq([packet : Packets, vm : Vms, queue : Nat])
<1>. DEFINE R == [packet : Packets, vm : Vms, queue : Nat]
<1>1. [packet |-> p, vm |-> vm, queue |-> q] \in R
  OBVIOUS
<1>2. output \in Seq(R)
  BY DEF TypeOK
<1>. HIDE DEF R
<1>3. Append(output, [packet |-> p, vm |-> vm, queue |-> q]) \in Seq(R)
  BY <1>1, <1>2
<1>. QED
  BY <1>3 DEF R

LEMMA HandleType ==
  ASSUME TypeOK, ThreadInv, NEW vm \in Vms, Handle(vm)
  PROVE  /\ First(vm) # {} /\ next_packet(vm) /\ CurrentPacket(vm) \in Packets
         /\ \A v \in Vms : pc'[v] = "start" <=> pc[v] = "start"
         /\ UNCHANGED <<arrived, flow, ring, bufs, freed, rules, ready, e1000>>
         /\ TypeOK'
<1>. USE DEF Handle
<1>1. First(vm) # {} /\ next_packet(vm)
  BY SMTT(30), Z3T(30), ZenonT(40) DEF inject, EthRx, ethRx, ThreadInv
<1>2. CurrentPacket(vm) \in Packets /\ Current(vm)[1] \in QueueIdx
  BY <1>1, CurrentIsFirst, CurrentBuffer DEF CurrentPacket
<1>3. pc' \in [Vms -> {"start", "packets", "ethRx"}] /\ \A v \in Vms : pc'[v] = "start" <=> pc[v] = "start"
  BY Zenon DEF inject, EthRx, ethRx, TypeOK
<1>4. UNCHANGED <<arrived, flow, ring, bufs, freed, rules, ready, e1000, ptp_target_vm, ptp_target_vm_idx, old_id>>
  BY DEF inject, EthRx, ethRx, nicVars, bufVars, guestVars
<1>5. pos' \in [Vms -> QueueIdx \X (0 .. BURST_SIZE)]
  BY ZenonT(40), <1>1, <1>3, <1>4, Handled
<1>6. inject_packets' \in [Vms -> Seq(Packets)]
  <2>1. CASE inject(vm)
    <3>1. ptp_target_vm[vm] \in Vms
      BY SMTT(30), Z3T(30), ZenonT(40), <2>1 DEF inject, IsPtp, TypeOK
    <3>. QED
      BY SMTT(30), Z3T(30), ZenonT(40), <1>2, <2>1, <3>1 DEF inject, TypeOK
  <2>. QED
    BY SMTT(30), Z3T(30), ZenonT(40), <2>1 DEF EthRx, ethRx, TypeOK
<1>7. output' \in Seq([packet : Packets, vm : Vms, queue : Nat])
  <2>1. CASE EthRx(vm)
    <3>. DEFINE hint == IF vm \in Mediated THEN Current(vm)[1] ELSE None
    <3>1. select_queue(vm, CurrentPacket(vm), hint) \in Nat
      BY <1>2, SelectedQueue
    <3>2. packet_received(vm, CurrentPacket(vm), hint)
      BY <2>1 DEF EthRx
    <3>. HIDE DEF hint
    <3>. QED
      BY ZenonT(40), <1>2, <3>1, <3>2, OutputType DEF packet_received, TypeOK
  <2>2. CASE ethRx(vm)
    BY <1>2, <2>2, OutputType, Zenon DEF ethRx, TypeOK
  <2>. QED
    BY <2>1, <2>2 DEF inject, TypeOK
<1>8. Packets' = Packets
  BY <1>4 DEF Packets
<1>9. TypeOK'
  BY <1>3, <1>4, <1>5, <1>6, <1>7, <1>8, Zenon DEF TypeOK
<1>. QED
  BY ZenonT(40), <1>1, <1>2, <1>3, <1>4, <1>9

LEMMA NicReceiveType ==
  ASSUME TypeOK, NEW to \in Vms \cup {Ptp}, NEW e \in Etypes, nic_receive(to, e)
  PROVE  /\ \E q \in NicQueues :
              /\ ring' = [ring EXCEPT ![q] = Append(@, Len(arrived) + 1)]
              /\ \/ to = Ptp /\ q = 0
                 \/ to \in Vms /\ q = IF flow[<<to, e>>] # None THEN flow[<<to, e>>] ELSE get_rx_queue_id(to, 0)
         /\ arrived' = Append(arrived, [to |-> to, etype |-> e]) /\ Len(arrived) < MaxPackets
         /\ Packets' = 1 .. Len(arrived) + 1 /\ Packets' \subseteq 1 .. MaxPackets
         /\ Len(arrived) \in Nat /\ Len(arrived) + 1 \notin Packets /\ Packets \subseteq Packets'
         /\ \A p \in Packets : arrived'[p] = arrived[p]
         /\ arrived'[Len(arrived) + 1] = [to |-> to, etype |-> e]
         /\ TypeOK'
<1>. DEFINE P == [to : Vms \cup {Ptp}, etype : Etypes]
            new == [to |-> to, etype |-> e]
            q == IF to = Ptp THEN 0
                 ELSE IF flow[<<to, e>>] # None THEN flow[<<to, e>>] ELSE get_rx_queue_id(to, 0)
<1>1. /\ arrived' = Append(arrived, new) /\ Len(arrived) < MaxPackets
      /\ ring' = [ring EXCEPT ![q] = Append(@, Len(arrived) + 1)]
      /\ UNCHANGED <<flow, bufs, freed, rules, ready, e1000, pc, ptp_target_vm, pos, inject_packets,
                     ptp_target_vm_idx, old_id, output>>
  BY DEF nic_receive, bufVars, guestVars, threadVars
<1>2. new \in P
  OBVIOUS
<1>3. arrived \in Seq(P)
  BY DEF TypeOK
<1>4. q \in NicQueues
  BY SMTT(30), Z3T(30), ZenonT(40), QueueIds, Constants DEF TypeOK
<1>5. \/ to = Ptp /\ q = 0
      \/ to \in Vms /\ q = IF flow[<<to, e>>] # None THEN flow[<<to, e>>] ELSE get_rx_queue_id(to, 0)
  BY SMTT(30), Z3T(30), ZenonT(40), Constants
<1>. HIDE DEF P, new, q
<1>6. /\ arrived' \in Seq(P) /\ Len(arrived') = Len(arrived) + 1 /\ Len(arrived) \in Nat
      /\ \A p \in 1 .. Len(arrived) : arrived'[p] = arrived[p]
      /\ arrived'[Len(arrived) + 1] = new
  BY SMTT(30), Z3T(30), ZenonT(40), <1>1, <1>2, <1>3
<1>7. /\ Packets' = 1 .. Len(arrived) + 1 /\ Packets' \subseteq 1 .. MaxPackets
      /\ Len(arrived) + 1 \notin Packets /\ Packets \subseteq Packets' /\ Len(arrived) + 1 \in Packets'
  BY <1>1, <1>6, Constants DEF Packets
<1>8. ring' \in [NicQueues -> Seq(Packets')]
  <2>1. ring \in [NicQueues -> Seq(Packets)]
    BY DEF TypeOK
  <2>. DEFINE T == Packets'
  <2>2. Packets \subseteq T /\ Len(arrived) + 1 \in T
    BY <1>7
  <2>. HIDE DEF T
  <2>3. ring \in [NicQueues -> Seq(T)]
    BY <2>1, <2>2, QueuesOfMore
  <2>4. ring' \in [NicQueues -> Seq(T)]
    BY <1>1, <1>4, <2>2, <2>3
  <2>. QED
    BY <2>4 DEF T
<1>9. bufs' \in [NicQueues -> Seq(Packets')] /\ inject_packets' \in [Vms -> Seq(Packets')]
  <2>1. bufs \in [NicQueues -> Seq(Packets)] /\ inject_packets \in [Vms -> Seq(Packets)]
    BY DEF TypeOK
  <2>. DEFINE T == Packets'
  <2>2. Packets \subseteq T
    BY <1>7
  <2>. HIDE DEF T
  <2>3. bufs \in [NicQueues -> Seq(T)] /\ inject_packets \in [Vms -> Seq(T)]
    BY <2>1, <2>2, QueuesOfMore
  <2>. QED
    BY <1>1, <2>3 DEF T
<1>10. output' \in Seq([packet : Packets', vm : Vms, queue : Nat])
  <2>1. [packet : Packets, vm : Vms, queue : Nat] \subseteq [packet : Packets', vm : Vms, queue : Nat]
    BY <1>7, Zenon
  <2>2. output \in Seq([packet : Packets, vm : Vms, queue : Nat])
    BY DEF TypeOK
  <2>3. output \in Seq([packet : Packets', vm : Vms, queue : Nat])
    BY <2>1, <2>2, SeqOfMore, Zenon
  <2>. QED
    BY <1>1, <2>3
<1>11. TypeOK'
  <2>1. arrived' \in Seq([to : Vms \cup {Ptp}, etype : Etypes]) /\ Len(arrived') <= MaxPackets
    BY SMTT(30), Z3T(30), ZenonT(40), <1>1, <1>6, Constants DEF P
  <2>2. \A qq \in NicQueues : Len(bufs'[qq]) <= BURST_SIZE
    BY SMTT(30), Z3T(30), ZenonT(40), <1>1 DEF TypeOK
  <2>. QED
    BY ZenonT(40), <1>1, <1>8, <1>9, <1>10, <2>1, <2>2 DEF TypeOK
<1>. QED
  BY ZenonT(40), <1>1, <1>4, <1>5, <1>6, <1>7, <1>11 DEF new, Packets

LEMMA AddRuleType ==
  ASSUME TypeOK, NEW vm \in Vms, NEW e \in Etypes, NEW d \in RuleQueues, add_rule(vm, e, d)
  PROVE  /\ vm \notin e1000
         /\ rules' = [rules EXCEPT ![vm] = Append(@, [etype |-> e, queue |-> d])]
         /\ \/ vm \in Mediated /\ flow' = [flow EXCEPT ![<<vm, e>>] = NicQueueOf(vm, d)]
            \/ UNCHANGED flow
         /\ UNCHANGED <<arrived, ring, bufs, freed, ready, e1000, pc, ptp_target_vm, pos, inject_packets,
                        ptp_target_vm_idx, old_id, output>>
         /\ TypeOK'
<1>3. /\ vm \notin e1000
      /\ rules' = [rules EXCEPT ![vm] = Append(@, [etype |-> e, queue |-> d])]
      /\ \/ /\ vm \in Mediated /\ NicQueueOf(vm, d) \in NicQueues
            /\ flow' = [flow EXCEPT ![<<vm, e>>] = NicQueueOf(vm, d)]
         \/ UNCHANGED flow
      /\ UNCHANGED <<arrived, ring, bufs, freed, ready, e1000, pc, ptp_target_vm, pos, inject_packets,
                     ptp_target_vm_idx, old_id, output>>
  BY Zenon DEF add_rule, add_switch_rule, NicQueueOf, bufVars, threadVars
<1>5. flow' \in [Vms \X Etypes -> NicQueues \cup {None}]
  BY <1>3, Zenon DEF TypeOK
<1>6. rules' \in [Vms -> Seq([etype : Etypes, queue : RuleQueues])]
  <2>. DEFINE R == [etype : Etypes, queue : RuleQueues]
              new == [etype |-> e, queue |-> d]
  <2>1. new \in R
    OBVIOUS
  <2>2. rules \in [Vms -> Seq(R)] /\ rules' = [rules EXCEPT ![vm] = Append(@, new)]
    BY <1>3, Zenon DEF TypeOK
  <2>. HIDE DEF R, new
  <2>3. rules' \in [Vms -> Seq(R)]
    BY SMTT(30), Z3T(30), ZenonT(40), <2>1, <2>2
  <2>. QED
    BY <2>3, Zenon DEF R
<1>7. Packets' = Packets
  BY <1>3 DEF Packets
<1>8. TypeOK'
  BY <1>3, <1>5, <1>6, <1>7, Zenon DEF TypeOK
<1>. QED
  BY <1>3, <1>8

\* The other steps.
LEMMA OtherSteps ==
  ASSUME TypeOK, Next
  PROVE  \/ \E to \in Vms \cup {Ptp}, e \in Etypes : nic_receive(to, e)
         \/ \E vm \in Vms, e \in Etypes, d \in RuleQueues : add_rule(vm, e, d)
         \/ \E vm \in Vms : recv(vm) \/ Handle(vm) \/ rx_is_ready(vm) \/ finish(vm)
         \/ Aside /\ TypeOK'
<1>1. ASSUME NEW vm \in Vms, enable_queues(vm) PROVE Aside /\ TypeOK'
  <2>1. Aside /\ UNCHANGED <<ptp_target_vm, ptp_target_vm_idx, old_id>> /\ Packets' = Packets
    BY SMTT(30), Z3T(30), ZenonT(40), <1>1 DEF enable_queues, nicVars, bufVars, threadVars, Aside, Packets
  <2>2. ready' \subseteq Vms
    BY <1>1 DEF enable_queues, TypeOK
  <2>. QED
    BY <2>1, <2>2, Zenon DEF TypeOK, Aside
<1>2. ASSUME set_enabled(0) PROVE Aside /\ TypeOK'
  <2>1. Aside /\ UNCHANGED <<ready, ptp_target_vm, old_id>> /\ Packets' = Packets
    BY SMTT(30), Z3T(30), ZenonT(40), <1>2 DEF set_enabled, nicVars, bufVars, guestVars, threadVars, Aside, Packets
  <2>2. ptp_target_vm_idx' \in [Vms -> Vms \cup {None}]
    BY <1>2, Constants DEF set_enabled, TypeOK
  <2>. QED
    BY <2>1, <2>2, Zenon DEF TypeOK, Aside
<1>3. ASSUME timer_load PROVE Aside /\ TypeOK'
  <2>1. Aside /\ UNCHANGED <<ready, ptp_target_vm, ptp_target_vm_idx>> /\ Packets' = Packets
    BY SMTT(30), Z3T(30), ZenonT(40), <1>3 DEF timer_load, nicVars, bufVars, guestVars, threadVars, Aside, Packets
  <2>2. old_id' \in Vms \cup {None}
    BY <1>3, Constants DEF timer_load, TypeOK
  <2>. QED
    BY <2>1, <2>2, Zenon DEF TypeOK, Aside
<1>4. ASSUME timer_store PROVE Aside /\ TypeOK'
  <2>1. Aside /\ UNCHANGED <<ready, ptp_target_vm>> /\ Packets' = Packets
    BY SMTT(30), Z3T(30), ZenonT(40), <1>4 DEF timer_store, nicVars, bufVars, guestVars, threadVars, Aside, Packets
  <2>2. old_id \in Vms
    BY <1>4 DEF timer_store, TypeOK
  <2>3. next_target(old_id) \in Vms
    BY SMTT(30), Z3T(30), ZenonT(40), <2>2, ReceiveAssumption DEF next_target, Vms
  <2>4. ptp_target_vm_idx' \in [Vms -> Vms \cup {None}] /\ old_id' \in Vms \cup {None}
    BY SMTT(30), Z3T(30), ZenonT(40), <1>4, <2>3, Constants DEF timer_store, TypeOK
  <2>. QED
    BY <2>1, <2>4, ZenonT(40) DEF TypeOK, Aside
<1>. QED
  BY SMTT(30), Z3T(30), ZenonT(40), <1>1, <1>2, <1>3, <1>4 DEF Next, driver_cb, timer_cb, Handle

-----------------------------------------------------------------------------
(* The threads                                                             *)

LEMMA OwnDisjoint ==
  /\ \A v \in Vms : OwnQueues(v) \subseteq NicQueues
  /\ \A v, w \in Vms : \A q \in OwnQueues(v) : q \in OwnQueues(w) => v = w
  /\ \A v \in Vms, k \in QueueIdx : get_rx_queue_id(v, k) \in OwnQueues(v)
BY SMTT(30), Z3T(30), ZenonT(40), QueueIds DEF OwnQueues

LEMMA SameBurst ==
  ASSUME NEW v \in Vms, pc'[v] = "start" <=> pc[v] = "start", pos'[v] = pos[v],
         \A q \in OwnQueues(v) : bufs'[q] = bufs[q]
  PROVE  /\ Unhandled(v)' = Unhandled(v) /\ First(v)' = First(v)
         /\ \A x \in Unhandled(v) : BufferOf(v, x)' = BufferOf(v, x)
<1>1. \A k \in QueueIdx : bufs'[get_rx_queue_id(v, k)] = bufs[get_rx_queue_id(v, k)]
  BY OwnDisjoint
<1>2. \A k : get_rx_queue_id(v, k)' = get_rx_queue_id(v, k)
  BY DEF get_rx_queue_id
<1>3. Unhandled(v)' = Unhandled(v)
  BY <1>1, <1>2, ZenonT(40) DEF Unhandled
<1>4. \A x \in Unhandled(v) : x[1] \in QueueIdx
  BY SMTT(30), Z3T(30), ZenonT(40) DEF Unhandled
<1>5. \A x \in Unhandled(v) : BufferOf(v, x)' = BufferOf(v, x)
  BY <1>1, <1>2, <1>4 DEF BufferOf
<1>6. First(v)' = First(v)
  BY <1>3, Zenon DEF First
<1>. QED
  BY SMTT(30), Z3T(30), ZenonT(40), <1>3, <1>5, <1>6

LEMMA InitThread == Init => ThreadInv
BY OwnDisjoint DEF Init, ThreadInv

LEMMA NextThread ==
  ASSUME TypeOK, ThreadInv, [Next]_vars
  PROVE  ThreadInv'
<1>. SUFFICES ASSUME NEW v \in Vms
              PROVE  /\ pc'[v] = "start" => /\ pos'[v] = <<0, 0>>
                                            /\ \A q \in OwnQueues(v) : bufs'[q] = <<>>
                     /\ pc'[v] = "ethRx" => v \in e1000' /\ First(v)' # {}
  BY SMTT(30), Z3T(30), ZenonT(40) DEF ThreadInv, OwnQueues, get_rx_queue_id
<1>0. /\ pc[v] = "start" => pos[v] = <<0, 0>> /\ \A q \in OwnQueues(v) : bufs[q] = <<>>
      /\ pc[v] = "ethRx" => v \in e1000 /\ First(v) # {}
      /\ pc \in [Vms -> {"start", "packets", "ethRx"}]
      /\ pos \in [Vms -> QueueIdx \X (0 .. BURST_SIZE)]
  BY SMTT(30), Z3T(30), ZenonT(40) DEF ThreadInv, TypeOK
<1>1. CASE /\ pc'[v] = pc[v] /\ pos'[v] = pos[v] /\ UNCHANGED e1000
           /\ \A q \in OwnQueues(v) : bufs'[q] = bufs[q]
  BY ZenonT(40), <1>0, <1>1, SameBurst
<1>2. CASE UNCHANGED <<pc, pos, bufs, e1000>>
  BY <1>1, <1>2
<1>3. ASSUME NEW vm \in Vms, recv(vm)
      PROVE  /\ pc'[v] = "start" => pos'[v] = <<0, 0>> /\ \A q \in OwnQueues(v) : bufs'[q] = <<>>
             /\ pc'[v] = "ethRx" => v \in e1000' /\ First(v)' # {}
  <2>1. CASE v = vm
    BY ZenonT(40), <1>0, <1>3, <2>1 DEF recv
  <2>2. CASE v # vm
    <3>1. pc'[v] = pc[v] /\ pos'[v] = pos[v] /\ UNCHANGED e1000
      BY ZenonT(40), <1>0, <1>3, <2>2 DEF recv, guestVars
    <3>2. \A q \in OwnQueues(v) : bufs'[q] = bufs[q]
      BY ZenonT(40), <1>3, <2>2, OwnDisjoint, RecvMoves
    <3>. QED
      BY ZenonT(40), <1>1, <3>1, <3>2
  <2>. QED
    BY ZenonT(40), <2>1, <2>2
<1>4. ASSUME NEW vm \in Vms, Handle(vm)
      PROVE  /\ pc'[v] = "start" => pos'[v] = <<0, 0>> /\ \A q \in OwnQueues(v) : bufs'[q] = <<>>
             /\ pc'[v] = "ethRx" => v \in e1000' /\ First(v)' # {}
  <2>0. /\ First(vm) # {} /\ next_packet(vm) /\ UNCHANGED <<bufs, e1000>>
        /\ \A w \in Vms : pc'[w] = "start" <=> pc[w] = "start"
    BY <1>4, HandleType
  <2>1. CASE v = vm
    <3>1. pc'[v] # "start"
      BY <2>0, <2>1, CurrentIsFirst, CurrentBuffer
    <3>2. pc'[v] # "ethRx"
      BY ZenonT(40), <1>0, <1>4, <2>1 DEF Handle, inject, EthRx, ethRx
    <3>. QED
      BY ZenonT(40), <3>1, <3>2
  <2>2. CASE v # vm
    <3>1. pos'[v] = pos[v] /\ UNCHANGED <<bufs, e1000>>
      BY ZenonT(40), <2>0, <2>2, Handled
    <3>2. pc'[v] = pc[v]
      BY ZenonT(40), <1>0, <1>4, <2>2 DEF Handle, inject, EthRx, ethRx
    <3>. QED
      BY <1>1, <3>1, <3>2
  <2>. QED
    BY SMTT(30), Z3T(30), ZenonT(40), <2>1, <2>2
<1>5. ASSUME NEW vm \in Vms, rx_is_ready(vm)
      PROVE  /\ pc'[v] = "start" => pos'[v] = <<0, 0>> /\ \A q \in OwnQueues(v) : bufs'[q] = <<>>
             /\ pc'[v] = "ethRx" => v \in e1000' /\ First(v)' # {}
  <2>1. UNCHANGED <<pos, bufs, e1000>> /\ vm \in e1000 /\ First(vm) # {} /\ pc[vm] = "packets"
    BY <1>5 DEF rx_is_ready, bufVars, guestVars
  <2>2. pc' = [pc EXCEPT ![vm] = "ethRx"]
    BY ZenonT(40), <1>5 DEF rx_is_ready
  <2>3. CASE v = vm
    BY ZenonT(40), <1>0, <2>1, <2>2, <2>3, SameBurst
  <2>4. CASE v # vm
    BY ZenonT(40), <1>0, <1>1, <2>1, <2>2, <2>4
  <2>. QED
    BY <2>3, <2>4
<1>6. ASSUME NEW vm \in Vms, finish(vm)
      PROVE  /\ pc'[v] = "start" => pos'[v] = <<0, 0>> /\ \A q \in OwnQueues(v) : bufs'[q] = <<>>
             /\ pc'[v] = "ethRx" => v \in e1000' /\ First(v)' # {}
  <2>1. CASE v = vm
    BY ZenonT(40), <1>0, <1>6, <2>1, OwnDisjoint DEF finish, recv_consumed
  <2>2. CASE v # vm
    <3>1. pc'[v] = pc[v] /\ pos'[v] = pos[v] /\ UNCHANGED e1000
      BY ZenonT(40), <1>0, <1>6, <2>2 DEF finish, guestVars
    <3>2. \A q \in OwnQueues(v) : bufs'[q] = bufs[q]
      BY <1>6, <2>2, OwnDisjoint DEF finish, recv_consumed
    <3>. QED
      BY <1>1, <3>1, <3>2
  <2>. QED
    BY <2>1, <2>2
<1>7. ASSUME \/ \E to \in Vms \cup {Ptp}, e \in Etypes : nic_receive(to, e)
             \/ \E vm \in Vms, e \in Etypes, d \in RuleQueues : add_rule(vm, e, d)
             \/ Aside \/ UNCHANGED vars
      PROVE  UNCHANGED <<pc, pos, bufs, e1000>>
  BY <1>7, AddRuleType, Zenon DEF nic_receive, Aside, vars, bufVars, guestVars, threadVars
<1>. QED
  BY ZenonT(40), <1>2, <1>3, <1>4, <1>5, <1>6, <1>7, OtherSteps

-----------------------------------------------------------------------------
(* Queues of the NIC: the packets are where the NIC may put them           *)

\* Steps forget neither rules nor packets.
LEMMA Growth ==
  ASSUME TypeOK, ThreadInv, [Next]_vars
  PROVE  /\ UNCHANGED e1000
         /\ \A v \in Vms : \A r \in DOMAIN rules[v] : r \in DOMAIN rules'[v] /\ rules'[v][r] = rules[v][r]
         /\ \A v \in Vms : \A s \in DOMAIN rules'[v], r \in DOMAIN rules[v] : s \in DOMAIN rules[v] \/ r <= s
         /\ \A p \in Packets : p \in Packets' /\ arrived'[p] = arrived[p]
<1>1. CASE UNCHANGED <<e1000, rules, arrived>>
  BY SMTT(30), Z3T(30), ZenonT(40), <1>1 DEF Packets
<1>2. ASSUME NEW vm \in Vms, NEW e \in Etypes, NEW d \in RuleQueues, add_rule(vm, e, d)
      PROVE  /\ UNCHANGED <<e1000, arrived>>
             /\ \A v \in Vms : \A r \in DOMAIN rules[v] : r \in DOMAIN rules'[v] /\ rules'[v][r] = rules[v][r]
             /\ \A v \in Vms : \A s \in DOMAIN rules'[v], r \in DOMAIN rules[v] : s \in DOMAIN rules[v] \/ r <= s
  <2>. DEFINE new == [etype |-> e, queue |-> d]
              R == [etype : Etypes, queue : RuleQueues]
  <2>1. UNCHANGED <<e1000, arrived>> /\ rules' = [rules EXCEPT ![vm] = Append(@, new)]
    BY <1>2, AddRuleType, Zenon
  <2>2. rules \in [Vms -> Seq(R)]
    BY Zenon DEF TypeOK
  <2>. HIDE DEF new, R
  <2>. QED
    BY <2>1, <2>2
<1>3. ASSUME NEW to \in Vms \cup {Ptp}, NEW e \in Etypes, nic_receive(to, e)
      PROVE  UNCHANGED <<e1000, rules>> /\ \A p \in Packets : p \in Packets' /\ arrived'[p] = arrived[p]
  BY <1>3, NicReceiveType, Zenon DEF nic_receive, guestVars
<1>4. ASSUME \/ \E vm \in Vms : recv(vm) \/ Handle(vm) \/ rx_is_ready(vm) \/ finish(vm)
             \/ Aside \/ UNCHANGED vars
      PROVE  UNCHANGED <<e1000, rules, arrived>>
  BY <1>4, Zenon DEF recv, Handle, inject, EthRx, ethRx, rx_is_ready, finish, Aside, vars, nicVars, guestVars
<1>. QED
  BY <1>1, <1>2, <1>3, <1>4, OtherSteps, Zenon DEF Packets

LEMMA SortedStays ==
  ASSUME TypeOK, ThreadInv, [Next]_vars
  PROVE  /\ \A v \in Vms : \A e, q : MayGo(v, e, q) => MayGo(v, e, q)'
         /\ \A p \in Packets : \A q : Sorted(p, q) => Sorted(p, q)'
<1>1. \A v \in Vms : \A e, q : MayGo(v, e, q) => MayGo(v, e, q)'
  BY Growth, ZenonT(40) DEF MayGo, NicQueueOf, dst_queue_of, get_rx_queue_id, vsi0_first_queue
<1>2. ASSUME NEW p \in Packets, NEW q, Sorted(p, q) PROVE Sorted(p, q)'
  <2>1. arrived'[p] = arrived[p]
    BY Growth, Zenon
  <2>2. CASE arrived[p].to \in Vms /\ MayGo(arrived[p].to, arrived[p].etype, q)
    <3>1. PICK v, e : v = arrived[p].to /\ e = arrived[p].etype
      OBVIOUS
    <3>2. MayGo(v, e, q)'
      BY Zenon, <1>1, <2>2, <3>1
    <3>. QED
      BY ZenonT(40), <2>1, <2>2, <3>1, <3>2
         DEF Sorted, MayGo, NicQueueOf, dst_queue_of, get_rx_queue_id, vsi0_first_queue
  <2>. QED
    BY <1>2, <2>1, <2>2, ZenonT(40) DEF Sorted
<1>. QED
  BY <1>1, <1>2

\* What the steps do to the packets that the driver has not given back.
LEMMA LineSteps ==
  ASSUME TypeOK, ThreadInv, [Next]_vars
  PROVE  \/ \A q \in NicQueues : Line(q)' = Line(q)
         \/ \E to \in Vms \cup {Ptp}, e \in Etypes : nic_receive(to, e)
         \/ \E vm \in Vms : finish(vm)
<1>1. ASSUME NEW vm \in Vms, recv(vm) PROVE \A q \in NicQueues : Line(q)' = Line(q)
  BY <1>1, RecvMoves
<1>2. ASSUME \/ \E vm \in Vms : Handle(vm) \/ rx_is_ready(vm)
             \/ \E vm \in Vms, e \in Etypes, d \in RuleQueues : add_rule(vm, e, d)
             \/ Aside \/ UNCHANGED vars
      PROVE  UNCHANGED <<bufs, ring>>
  BY <1>2, AddRuleType, Zenon DEF Handle, inject, EthRx, ethRx, rx_is_ready, Aside, vars, nicVars, bufVars
<1>3. CASE UNCHANGED <<bufs, ring>>
  BY <1>3 DEF Line
<1>. QED
  BY SMTT(30), Z3T(30), ZenonT(40), <1>1, <1>2, <1>3, OtherSteps

LEMMA LineGrows ==
  ASSUME TypeOK, NEW to \in Vms \cup {Ptp}, NEW e \in Etypes, nic_receive(to, e)
  PROVE  \E q \in NicQueues :
           /\ \A r \in NicQueues : r # q => Line(r)' = Line(r)
           /\ DOMAIN Line(q)' = DOMAIN Line(q) \cup {Len(Line(q)) + 1}
           /\ \A i \in DOMAIN Line(q) : Line(q)'[i] = Line(q)[i]
           /\ Line(q)'[Len(Line(q)) + 1] = Len(arrived) + 1
           /\ \/ to = Ptp /\ q = 0
              \/ to \in Vms /\ q = IF flow[<<to, e>>] # None THEN flow[<<to, e>>] ELSE get_rx_queue_id(to, 0)
<1>1. PICK q \in NicQueues :
        /\ ring' = [ring EXCEPT ![q] = Append(@, Len(arrived) + 1)]
        /\ \/ to = Ptp /\ q = 0
           \/ to \in Vms /\ q = IF flow[<<to, e>>] # None THEN flow[<<to, e>>] ELSE get_rx_queue_id(to, 0)
  BY NicReceiveType, Zenon
<1>2. UNCHANGED bufs
  BY DEF nic_receive, bufVars
<1>3. bufs[q] \in Seq(Nat) /\ ring[q] \in Seq(Nat) /\ ring \in [NicQueues -> Seq(Packets)]
      /\ Len(arrived) + 1 \in Nat
  <2>1. bufs \in [NicQueues -> Seq(Packets)] /\ ring \in [NicQueues -> Seq(Packets)]
    BY ZenonT(40), SMTT(30), Z3T(30) DEF TypeOK
  <2>2. Packets \subseteq Nat /\ Len(arrived) + 1 \in Nat
    BY NicReceiveType DEF Packets
  <2>. QED
    BY <2>1, <2>2, SeqOfMore, ZenonT(40)
<1>4. Line(q)' = bufs[q] \o Append(ring[q], Len(arrived) + 1) /\ Line(q) = bufs[q] \o ring[q]
  BY <1>1, <1>2, <1>3, Zenon DEF Line
<1>5. \A r \in NicQueues : r # q => Line(r)' = Line(r)
  BY SMTT(30), Z3T(30), ZenonT(40), <1>1, <1>2, <1>3 DEF Line
<1>6. /\ DOMAIN Line(q)' = DOMAIN Line(q) \cup {Len(Line(q)) + 1}
      /\ \A i \in DOMAIN Line(q) : Line(q)'[i] = Line(q)[i]
      /\ Line(q)'[Len(Line(q)) + 1] = Len(arrived) + 1
  <2>. DEFINE b == bufs[q]  r == ring[q]  n == Len(arrived) + 1  s == b \o r  t == b \o Append(r, n)
  <2>0. b \in Seq(Nat) /\ r \in Seq(Nat) /\ n \in Nat
    BY SMTT(30), Z3T(30), ZenonT(40), <1>3
  <2>1. Line(q)' = t /\ Line(q) = s
    BY <1>4
  <2>. HIDE DEF b, r, n
  <2>2. t = Append(s, n) /\ s \in Seq(Nat)
    BY SMTT(30), Z3T(30), ZenonT(40), <2>0
  <2>. HIDE DEF s, t
  <2>3. DOMAIN t = DOMAIN s \cup {Len(s) + 1} /\ (\A i \in DOMAIN s : t[i] = s[i]) /\ t[Len(s) + 1] = n
    BY SMTT(30), Z3T(30), ZenonT(40), <2>0, <2>2
  <2>. QED
    BY <2>1, <2>3 DEF n
<1>. QED
  BY <1>1, <1>5, <1>6, Zenon

LEMMA LineShrinks ==
  ASSUME TypeOK, NEW vm \in Vms, finish(vm), NEW q \in NicQueues
  PROVE  /\ q \notin OwnQueues(vm) => Line(q)' = Line(q)
         /\ q \in OwnQueues(vm) => Line(q)' = ring[q]
<1>1. UNCHANGED ring /\ bufs' = [r \in NicQueues |-> IF r \in OwnQueues(vm) THEN <<>> ELSE bufs[r]]
  BY SMTT(30), Z3T(30), ZenonT(40) DEF finish, recv_consumed, nicVars
<1>2. ring[q] \in Seq(Packets)
  BY DEF TypeOK
<1>3. <<>> \o ring[q] = ring[q]
  BY Z3T(30), SMTT(30), <1>2
<1>. QED
  BY <1>1, <1>3, ZenonT(40) DEF Line

\* What the steps do to the injected packets.
LEMMA InjectSteps ==
  ASSUME TypeOK, ThreadInv, [Next]_vars
  PROVE  \/ UNCHANGED inject_packets
         \/ \E vm \in Vms : inject(vm)
         \/ \E vm \in Vms : finish(vm) /\ vm \notin e1000 /\ inject_packets[vm] # <<>>
<1>1. ASSUME \/ \E to \in Vms \cup {Ptp}, e \in Etypes : nic_receive(to, e)
             \/ \E vm \in Vms, e \in Etypes, d \in RuleQueues : add_rule(vm, e, d)
             \/ \E vm \in Vms : recv(vm) \/ EthRx(vm) \/ ethRx(vm) \/ rx_is_ready(vm)
             \/ Aside \/ UNCHANGED vars
      PROVE  UNCHANGED inject_packets
  BY <1>1, AddRuleType, Zenon DEF nic_receive, recv, EthRx, ethRx, rx_is_ready, Aside, vars
<1>2. ASSUME NEW vm \in Vms, finish(vm), ~(vm \notin e1000 /\ inject_packets[vm] # <<>>)
      PROVE  UNCHANGED inject_packets
  BY SMTT(30), Z3T(30), ZenonT(40), <1>2 DEF finish, pop_injected
<1>. QED
  BY <1>1, <1>2, OtherSteps DEF Handle

LEMMA InjectGrows ==
  ASSUME TypeOK, ThreadInv, NEW vm \in Vms, inject(vm)
  PROVE  /\ CurrentPacket(vm) \in Packets /\ arrived[CurrentPacket(vm)].to = Ptp
         /\ UNCHANGED output
         /\ \E t \in Vms :
              /\ \A v \in Vms : v # t => inject_packets'[v] = inject_packets[v]
              /\ DOMAIN inject_packets'[t] = DOMAIN inject_packets[t] \cup {Len(inject_packets[t]) + 1}
              /\ \A i \in DOMAIN inject_packets[t] : inject_packets'[t][i] = inject_packets[t][i]
              /\ inject_packets'[t][Len(inject_packets[t]) + 1] = CurrentPacket(vm)
<1>1. CurrentPacket(vm) \in Packets
  BY SMTT(30), Z3T(30), ZenonT(40), HandleType DEF Handle
<1>2. ptp_target_vm[vm] \in Vms /\ arrived[CurrentPacket(vm)].to = Ptp /\ UNCHANGED output
  BY SMTT(30), Z3T(30), ZenonT(40) DEF inject, IsPtp, TypeOK
<1>3. /\ inject_packets' = [inject_packets EXCEPT ![ptp_target_vm[vm]] = Append(@, CurrentPacket(vm))]
      /\ inject_packets \in [Vms -> Seq(Packets)]
  BY DEF inject, TypeOK
<1>4. PICK t \in Vms : t = ptp_target_vm[vm]
  BY SMTT(30), Z3T(30), ZenonT(40), <1>2
<1>5. inject_packets'[t] = Append(inject_packets[t], CurrentPacket(vm)) /\ inject_packets[t] \in Seq(Packets)
  BY SMTT(30), Z3T(30), ZenonT(40), <1>3, <1>4
<1>6. /\ DOMAIN inject_packets'[t] = DOMAIN inject_packets[t] \cup {Len(inject_packets[t]) + 1}
      /\ \A i \in DOMAIN inject_packets[t] : inject_packets'[t][i] = inject_packets[t][i]
      /\ inject_packets'[t][Len(inject_packets[t]) + 1] = CurrentPacket(vm)
  BY SMTT(30), Z3T(30), ZenonT(40), <1>1, <1>5
<1>7. \A v \in Vms : v # t => inject_packets'[v] = inject_packets[v]
  BY <1>3, <1>4
<1>. QED
  BY SMTT(30), Z3T(30), ZenonT(40), <1>1, <1>2, <1>6, <1>7

LEMMA InjectShrinks ==
  ASSUME TypeOK, NEW vm \in Vms, finish(vm), vm \notin e1000, inject_packets[vm] # <<>>
  PROVE  /\ packet_received(vm, inject_packets[vm][1], None)
         /\ 1 \in DOMAIN inject_packets[vm] /\ inject_packets[vm][1] \in Packets
         /\ \A v \in Vms : v # vm => inject_packets'[v] = inject_packets[v]
         /\ \A i \in DOMAIN inject_packets'[vm] :
              i + 1 \in DOMAIN inject_packets[vm] /\ i + 1 # 1
              /\ inject_packets'[vm][i] = inject_packets[vm][i + 1] /\ i \in Nat
<1>1. /\ packet_received(vm, Head(inject_packets[vm]), None)
      /\ inject_packets' = [inject_packets EXCEPT ![vm] = Tail(@)]
      /\ inject_packets \in [Vms -> Seq(Packets)]
  BY SMTT(30), Z3T(30), ZenonT(40) DEF finish, pop_injected, TypeOK
<1>2. inject_packets[vm] \in Seq(Packets) /\ inject_packets'[vm] = Tail(inject_packets[vm])
  BY <1>1
<1>3. Head(inject_packets[vm]) = inject_packets[vm][1] /\ 1 \in DOMAIN inject_packets[vm]
  BY SMTT(30), Z3T(30), ZenonT(40), <1>2
<1>4. inject_packets[vm][1] \in Packets
  BY SMTT(30), Z3T(30), ZenonT(40), <1>2, <1>3
<1>5. \A i \in DOMAIN inject_packets'[vm] :
              i + 1 \in DOMAIN inject_packets[vm] /\ i + 1 # 1
              /\ inject_packets'[vm][i] = inject_packets[vm][i + 1] /\ i \in Nat
  BY <1>2
<1>6. \A v \in Vms : v # vm => inject_packets'[v] = inject_packets[v]
  BY SMTT(30), Z3T(30), ZenonT(40), <1>1
<1>. QED
  BY ZenonT(40), <1>1, <1>3, <1>4, <1>5, <1>6

LEMMA InitSorted == Init => SortedInv
<1>. SUFFICES ASSUME Init PROVE SortedInv
  BY SMTT(30), Z3T(30), ZenonT(40)
<1>1. \A vm \in Vms, e \in Etypes : flow[<<vm, e>>] = None
  BY DEF Init
<1>2. \A q \in NicQueues : Line(q) = <<>>
  BY DEF Init, Line
<1>3. \A vm \in Vms : inject_packets[vm] = <<>>
  BY ZenonT(40), SMTT(30), Z3T(30) DEF Init
<1>4. \A vm \in Vms, e \in Etypes, q \in NicQueues : flow[<<vm, e>>] # q
  BY Zenon, <1>1, Constants
<1>. QED
  BY SMTT(30), Z3T(30), ZenonT(40), <1>2, <1>3, <1>4 DEF SortedInv

LEMMA NextSorted ==
  ASSUME TypeOK, ThreadInv, SortedInv, [Next]_vars
  PROVE  SortedInv'
<1>1. \A vm \in Vms, e \in Etypes, q \in NicQueues : flow'[<<vm, e>>] = q => MayGo(vm, e, q)'
  <2>. SUFFICES ASSUME NEW v \in Vms, NEW f \in Etypes, NEW q \in NicQueues, flow'[<<v, f>>] = q
                PROVE  MayGo(v, f, q)'
    BY Zenon
  <2>1. CASE flow'[<<v, f>>] = flow[<<v, f>>]
    <3>1. MayGo(v, f, q)
      BY Zenon, <2>1 DEF SortedInv
    <3>. QED
      BY Zenon, <3>1, SortedStays
  <2>2. ASSUME NEW vm \in Vms, NEW e \in Etypes, NEW d \in RuleQueues, add_rule(vm, e, d),
               flow'[<<v, f>>] # flow[<<v, f>>]
        PROVE  MayGo(v, f, q)'
    <3>1. /\ vm \notin e1000 /\ e1000' = e1000
          /\ rules' = [rules EXCEPT ![vm] = Append(@, [etype |-> e, queue |-> d])]
          /\ vm \in Mediated /\ flow' = [flow EXCEPT ![<<vm, e>>] = NicQueueOf(vm, d)]
      <4>1. /\ vm \notin e1000 /\ e1000' = e1000
            /\ rules' = [rules EXCEPT ![vm] = Append(@, [etype |-> e, queue |-> d])]
            /\ \/ /\ vm \in Mediated /\ flow' = [flow EXCEPT ![<<vm, e>>] = NicQueueOf(vm, d)]
               \/ flow' = flow
        BY Zenon, <2>2 DEF add_rule, add_switch_rule, NicQueueOf
      <4>2. flow' # flow
        BY ZenonT(40), <2>2
      <4>. QED
        BY Zenon, <4>1, <4>2
    <3>2. flow \in [Vms \X Etypes -> NicQueues \cup {None}]
      BY DEF TypeOK
    <3>3. v = vm /\ f = e /\ flow'[<<v, f>>] = NicQueueOf(vm, d)
      BY ZenonT(40), <2>2, <3>1, <3>2
    <3>4. \E r \in DOMAIN rules'[vm] : rules'[vm][r] = [etype |-> e, queue |-> d]
      <4>. DEFINE new == [etype |-> e, queue |-> d]
                  R == [etype : Etypes, queue : RuleQueues]
      <4>1. rules \in [Vms -> Seq(R)] /\ rules' = [rules EXCEPT ![vm] = Append(@, new)]
        BY <3>1, ZenonT(40) DEF TypeOK
      <4>. HIDE DEF new, R
      <4>2. Len(rules[vm]) + 1 \in DOMAIN rules'[vm] /\ rules'[vm][Len(rules[vm]) + 1] = new
        BY SMTT(30), Z3T(30), <4>1
      <4>. QED
        BY <4>2 DEF new
    <3>5. \E r \in DOMAIN rules'[vm] : rules'[vm][r].etype = e /\ rules'[vm][r].queue = d
      BY <3>4
    <3>6. q = NicQueueOf(vm, d)
      BY Zenon, <3>3
    <3>7. MayGo(vm, e, q)'
      BY ZenonT(40), <3>1, <3>5, <3>6
         DEF MayGo, NicQueueOf, dst_queue_of, get_rx_queue_id, vsi0_first_queue
    <3>. QED
      BY ZenonT(40), <3>3, <3>6, <3>7
  <2>3. ASSUME ~ \E vm \in Vms, e \in Etypes, d \in RuleQueues : add_rule(vm, e, d)
        PROVE  UNCHANGED flow
    BY <2>3, OtherSteps, ZenonT(40) DEF nic_receive, recv, Handle, inject, EthRx, ethRx, rx_is_ready, finish, Aside,
         vars, nicVars
  <2>. QED
    BY <2>1, <2>2, <2>3
<1>2. \A q \in NicQueues : \A i \in DOMAIN Line(q)' : Sorted(Line(q)[i], q)'
  <2>. SUFFICES ASSUME NEW q \in NicQueues, NEW i \in DOMAIN Line(q)'
                PROVE  \E p : p = Line(q)'[i] /\ Sorted(p, q)'
    BY SMTT(30), Z3T(30) DEF Sorted, MayGo, NicQueueOf, dst_queue_of, get_rx_queue_id, vsi0_first_queue
  <2>1. ASSUME NEW j \in DOMAIN Line(q), Line(q)'[i] = Line(q)[j]
        PROVE  \E p : p = Line(q)'[i] /\ Sorted(p, q)'
    <3>1. PICK p : p = Line(q)[j]
      OBVIOUS
    <3>2. p \in Packets
      <4>1. Line(q) \in Seq(Packets)
        BY LineParts, ZenonT(40)
      <4>. HIDE DEF Line
      <4>. QED
        BY <3>1, <4>1, ElementIn, Zenon
    <3>3. Sorted(p, q)
      BY ZenonT(40), SMTT(30), Z3T(30), <3>1 DEF SortedInv
    <3>. QED
      BY <2>1, <3>1, <3>2, <3>3, SortedStays, Zenon
  <2>2. ASSUME NEW to \in Vms \cup {Ptp}, NEW e \in Etypes, nic_receive(to, e)
        PROVE  \E p : p = Line(q)'[i] /\ Sorted(p, q)'
    <3>1. PICK r \in NicQueues :
           /\ \A s \in NicQueues : s # r => Line(s)' = Line(s)
           /\ DOMAIN Line(r)' = DOMAIN Line(r) \cup {Len(Line(r)) + 1}
           /\ \A j \in DOMAIN Line(r) : Line(r)'[j] = Line(r)[j]
           /\ Line(r)'[Len(Line(r)) + 1] = Len(arrived) + 1
           /\ \/ to = Ptp /\ r = 0
              \/ to \in Vms /\ r = IF flow[<<to, e>>] # None THEN flow[<<to, e>>] ELSE get_rx_queue_id(to, 0)
      BY <2>2, LineGrows, Zenon
    <3>2. CASE q # r \/ i \in DOMAIN Line(r)
      BY SMTT(30), Z3T(30), ZenonT(40), <2>1, <3>1, <3>2
    <3>3. CASE q = r /\ i = Len(Line(r)) + 1
      <4>1. PICK p : p = Len(arrived) + 1
        OBVIOUS
      <4>2. Line(q)'[i] = p /\ arrived'[p] = [to |-> to, etype |-> e]
        BY ZenonT(40), <2>2, <3>1, <3>3, <4>1, NicReceiveType
      <4>3. CASE to = Ptp
        BY SMTT(30), Z3T(30), ZenonT(40), <3>1, <3>3, <4>2, <4>3, Constants DEF Sorted
      <4>4. CASE to \in Vms
        <5>1. MayGo(to, e, q)
          <6>1. CASE flow[<<to, e>>] # None
            <7>1. flow[<<to, e>>] = q
              BY Zenon, <3>1, <3>3, <4>4, <6>1, Constants
            <7>. QED
              BY Zenon, <4>4, <7>1 DEF SortedInv
          <6>2. CASE flow[<<to, e>>] = None
            BY ZenonT(40), <3>1, <3>3, <4>4, <6>2, Constants DEF MayGo
          <6>. QED
            BY <6>1, <6>2
        <5>2. MayGo(to, e, q)'
          BY ZenonT(40), SMTT(30), Z3T(30), <4>4, <5>1, SortedStays
        <5>3. arrived'[p].to = to /\ arrived'[p].etype = e
          BY SMTT(30), Z3T(30), ZenonT(40), <4>2
        <5>. QED
          BY ZenonT(40), <4>2, <4>4, <5>2, <5>3
             DEF Sorted, MayGo, NicQueueOf, dst_queue_of, get_rx_queue_id, vsi0_first_queue
      <4>. QED
        BY SMTT(30), Z3T(30), ZenonT(40), <4>3, <4>4
    <3>. QED
      BY <3>1, <3>2, <3>3
  <2>3. ASSUME NEW vm \in Vms, finish(vm)
        PROVE  \E p : p = Line(q)'[i] /\ Sorted(p, q)'
    <3>1. CASE q \notin OwnQueues(vm)
      BY ZenonT(40), SMTT(30), Z3T(30), <2>1, <2>3, <3>1, LineShrinks
    <3>2. CASE q \in OwnQueues(vm)
      <4>1. i \in DOMAIN ring[q] /\ Line(q)'[i] = ring[q][i]
        BY <2>3, <3>2, LineShrinks
      <4>2. Len(bufs[q]) + i \in DOMAIN Line(q) /\ Line(q)[Len(bufs[q]) + i] = ring[q][i]
        BY <4>1, LineParts, Zenon
      <4>. QED
        BY SMTT(30), Z3T(30), ZenonT(40), <2>1, <4>1, <4>2
    <3>. QED
      BY SMTT(30), Z3T(30), ZenonT(40), <3>1, <3>2
  <2>. QED
    BY ZenonT(40), <2>1, <2>2, <2>3, LineSteps
<1>3. \A vm \in Vms : \A i \in DOMAIN inject_packets'[vm] : arrived'[inject_packets'[vm][i]].to = Ptp
  <2>. SUFFICES ASSUME NEW v \in Vms, NEW i \in DOMAIN inject_packets'[v]
                PROVE  arrived'[inject_packets'[v][i]].to = Ptp
    BY ZenonT(40), SMTT(30), Z3T(30)
  <2>1. ASSUME NEW j \in DOMAIN inject_packets[v], inject_packets'[v][i] = inject_packets[v][j]
        PROVE  arrived'[inject_packets'[v][i]].to = Ptp
    <3>1. inject_packets[v] \in Seq(Packets)
      BY SMTT(30), Z3T(30), ZenonT(40) DEF TypeOK
    <3>2. inject_packets[v][j] \in Packets
      BY ZenonT(40), SMTT(30), Z3T(30), <3>1, ElementIn
    <3>. QED
      BY SMTT(30), Z3T(30), ZenonT(40), <2>1, <3>2, Growth DEF SortedInv
  <2>2. ASSUME NEW vm \in Vms, inject(vm)
        PROVE  arrived'[inject_packets'[v][i]].to = Ptp
    BY Z3T(30), SMTT(30), <2>1, <2>2, InjectGrows, Growth
  <2>3. ASSUME NEW vm \in Vms, finish(vm), vm \notin e1000, inject_packets[vm] # <<>>
        PROVE  arrived'[inject_packets'[v][i]].to = Ptp
    BY <2>1, <2>3, InjectShrinks
  <2>. QED
    BY ZenonT(40), Z3T(30), SMTT(30), <2>1, <2>2, <2>3, InjectSteps
<1>. QED
  BY ZenonT(40), Z3T(30), SMTT(30), <1>1, <1>2, <1>3 DEF SortedInv

-----------------------------------------------------------------------------
(* The VM and the queue of a packet                                        *)

\* Queue q of the guest of vm is right for packet p.
Named(p, vm, q) ==
  /\ arrived[p].to \in {vm, Ptp}
  /\ \/ q = IF vm \in e1000 THEN 0 ELSE vsi0_first_queue(vm)
     \/ \E r \in DOMAIN rules[vm] :
          /\ rules[vm][r].etype = arrived[p].etype /\ q = rules[vm][r].queue
          /\ \/ vm \in Mediated
             \/ \A s \in DOMAIN rules[vm] : rules[vm][s].etype = arrived[p].etype => r <= s

\* Packet p strays into vm.
Strays(p, vm) == arrived[p].to # Ptp /\ StraysInto(arrived[p].to, arrived[p].etype, vm)

Right(p, vm, q) == Named(p, vm, q) \/ Strays(p, vm)

LEMMA RightForm ==
  RightQueue <=> \A n \in DOMAIN output : Right(output[n].packet, output[n].vm, output[n].queue)
BY ZenonT(40) DEF RightQueue, Right, Named, Strays

LEMMA RightStays ==
  ASSUME TypeOK, ThreadInv, [Next]_vars, NEW p \in Packets, NEW vm \in Vms, NEW q, Right(p, vm, q)
  PROVE  Right(p, vm, q)'
<1>1. /\ arrived'[p] = arrived[p] /\ UNCHANGED e1000
      /\ \A r \in DOMAIN rules[vm] : r \in DOMAIN rules'[vm] /\ rules'[vm][r] = rules[vm][r]
      /\ \A s \in DOMAIN rules'[vm], r \in DOMAIN rules[vm] : s \in DOMAIN rules[vm] \/ r <= s
  BY Growth
<1>2. CASE Named(p, vm, q)
  <2>1. Named(p, vm, q)'
    BY <1>1, <1>2 DEF Named, vsi0_first_queue
  <2>. QED
    BY Zenon, <2>1 DEF Right
<1>3. CASE Strays(p, vm)
  <2>1. PICK to, e : to = arrived[p].to /\ e = arrived[p].etype
    OBVIOUS
  <2>2. to \in Vms
    BY Zenon, <1>3, <2>1, ReceiveAssumption DEF Strays, StraysInto
  <2>3. \A r \in DOMAIN rules[to] : r \in DOMAIN rules'[to] /\ rules'[to][r] = rules[to][r]
    BY Zenon, <2>2, Growth
  <2>4. PICK r \in DOMAIN rules[to] :
          /\ rules[to][r].etype = e /\ rules[to][r].queue \notin GuestQueues(to)
          /\ NicQueueOf(to, rules[to][r].queue) \in OwnQueues(vm)
    BY Zenon, <1>3, <2>1 DEF Strays, StraysInto
  <2>5. /\ arrived'[p].to = to /\ arrived'[p].etype = e /\ to # Ptp /\ to \in Mediated /\ to \notin e1000'
        /\ r \in DOMAIN rules'[to] /\ rules'[to][r] = rules[to][r]
    BY Zenon, <1>1, <1>3, <2>1, <2>3, <2>4 DEF Strays, StraysInto
  <2>6. Strays(p, vm)'
    BY ZenonT(40), <2>4, <2>5
       DEF Strays, StraysInto, NicQueueOf, GuestQueues, OwnQueues, dst_queue_of, get_rx_queue_id, vsi0_first_queue
  <2>. QED
    BY Zenon, <2>6 DEF Right
<1>. QED
  BY Zenon, <1>2, <1>3 DEF Right

\* Whether a packet is where it belongs is a matter of rules and packets.
LEMMA RightUnfolds ==
  ASSUME NEW p, NEW vm, NEW q, NEW n, p = output'[n].packet, vm = output'[n].vm, q = output'[n].queue,
         Right(p, vm, q)'
  PROVE  Right(output[n].packet, output[n].vm, output[n].queue)'
BY ZenonT(40) DEF Right, Named, Strays, StraysInto, NicQueueOf, GuestQueues, OwnQueues, dst_queue_of,
                  get_rx_queue_id, vsi0_first_queue

LEMMA RightAll ==
  ASSUME \A n \in DOMAIN output' : Right(output[n].packet, output[n].vm, output[n].queue)'
  PROVE  RightQueue'
BY ZenonT(40) DEF RightQueue, Right, Named, Strays

\* What the steps do to the packets that guests have received.
LEMMA OutputSteps ==
  ASSUME TypeOK, ThreadInv, [Next]_vars
  PROVE  \/ UNCHANGED output
         \/ \E vm \in Vms, p \in Packets, q \in Nat :
              /\ output' = Append(output, [packet |-> p, vm |-> vm, queue |-> q])
              /\ \/ EthRx(vm) /\ p = CurrentPacket(vm)
                      /\ q = select_queue(vm, p, IF vm \in Mediated THEN Current(vm)[1] ELSE None)
                 \/ ethRx(vm) /\ p = CurrentPacket(vm) /\ q = 0
                 \/ /\ finish(vm) /\ vm \notin e1000 /\ inject_packets[vm] # <<>>
                    /\ p = inject_packets[vm][1] /\ q = select_queue(vm, p, None)
<1>1. ASSUME \/ \E to \in Vms \cup {Ptp}, e \in Etypes : nic_receive(to, e)
             \/ \E vm \in Vms, e \in Etypes, d \in RuleQueues : add_rule(vm, e, d)
             \/ \E vm \in Vms : recv(vm) \/ inject(vm) \/ rx_is_ready(vm)
             \/ Aside \/ UNCHANGED vars
      PROVE  UNCHANGED output
  BY <1>1, AddRuleType, Zenon DEF nic_receive, recv, inject, rx_is_ready, Aside, vars
<1>2. ASSUME NEW vm \in Vms, EthRx(vm), output' # output
      PROVE  \E p \in Packets, q \in Nat :
               /\ output' = Append(output, [packet |-> p, vm |-> vm, queue |-> q])
               /\ p = CurrentPacket(vm)
               /\ q = select_queue(vm, p, IF vm \in Mediated THEN Current(vm)[1] ELSE None)
  <2>1. PICK p \in Packets : p = CurrentPacket(vm)
    BY <1>2, HandleType, ZenonT(40) DEF Handle
  <2>2. PICK h \in QueueIdx \cup {None} : h = IF vm \in Mediated THEN Current(vm)[1] ELSE None
    BY ZenonT(40), <1>2, HandleType, CurrentIsFirst, CurrentBuffer DEF Handle
  <2>3. select_queue(vm, p, h) \in Nat
    BY SelectedQueue, Zenon
  <2>4. output' = Append(output, [packet |-> p, vm |-> vm, queue |-> select_queue(vm, p, h)])
    BY <1>2, <2>1, <2>2 DEF EthRx, packet_received
  <2>. QED
    BY SMTT(30), Z3T(30), ZenonT(40), <2>1, <2>2, <2>3, <2>4
<1>3. ASSUME NEW vm \in Vms, ethRx(vm), output' # output
      PROVE  \E p \in Packets : /\ output' = Append(output, [packet |-> p, vm |-> vm, queue |-> 0])
                                /\ p = CurrentPacket(vm)
  BY <1>3, HandleType, ZenonT(40) DEF Handle, ethRx
<1>4. ASSUME NEW vm \in Vms, finish(vm), output' # output
      PROVE  /\ vm \notin e1000 /\ inject_packets[vm] # <<>>
             /\ \E p \in Packets, q \in Nat :
                  /\ output' = Append(output, [packet |-> p, vm |-> vm, queue |-> q])
                  /\ p = inject_packets[vm][1] /\ q = select_queue(vm, p, None)
  <2>1. vm \notin e1000 /\ inject_packets[vm] # <<>>
    BY ZenonT(40), SMTT(30), Z3T(30), <1>4 DEF finish, pop_injected
  <2>2. inject_packets[vm][1] \in Packets /\ packet_received(vm, inject_packets[vm][1], None)
    BY ZenonT(40), SMTT(30), Z3T(30), <1>4, <2>1, InjectShrinks
  <2>3. select_queue(vm, inject_packets[vm][1], None) \in Nat
    BY ZenonT(40), SMTT(30), Z3T(30), <2>2, SelectedQueue
  <2>. QED
    BY SMTT(30), Z3T(30), ZenonT(40), <1>4, <2>1, <2>2, <2>3 DEF packet_received
<1>. QED
  BY <1>1, <1>2, <1>3, <1>4, OtherSteps, ZenonT(40) DEF Handle

LEMMA OutputGrows ==
  ASSUME TypeOK, NEW vm \in Vms, NEW p \in Packets, NEW q \in Nat,
         output' = Append(output, [packet |-> p, vm |-> vm, queue |-> q])
  PROVE  /\ DOMAIN output' = DOMAIN output \cup {Len(output) + 1} /\ Len(output) + 1 \notin DOMAIN output
         /\ \A n \in DOMAIN output : output'[n] = output[n]
         /\ output'[Len(output) + 1] = [packet |-> p, vm |-> vm, queue |-> q]
<1>. DEFINE R == [packet : Packets, vm : Vms, queue : Nat]
            new == [packet |-> p, vm |-> vm, queue |-> q]
<1>1. output \in Seq(R) /\ output' = Append(output, new)
  BY ZenonT(40), SMTT(30), Z3T(30) DEF TypeOK
<1>. HIDE DEF R, new
<1>2. /\ DOMAIN output' = DOMAIN output \cup {Len(output) + 1} /\ Len(output) + 1 \notin DOMAIN output
      /\ \A n \in DOMAIN output : output'[n] = output[n]
      /\ output'[Len(output) + 1] = new
  BY SMTT(30), Z3T(30), ZenonT(40), <1>1
<1>. QED
  BY ZenonT(40), SMTT(30), Z3T(30), <1>2 DEF new

LEMMA OutputElements ==
  ASSUME TypeOK, NEW n \in DOMAIN output
  PROVE  output[n].packet \in Packets /\ output[n].vm \in Vms /\ output[n].queue \in Nat
<1>1. output \in Seq([packet : Packets, vm : Vms, queue : Nat])
  BY DEF TypeOK
<1>2. output[n] \in [packet : Packets, vm : Vms, queue : Nat]
  BY <1>1, ElementIn, Zenon
<1>. QED
  BY SMTT(30), Z3T(30), ZenonT(40), <1>2

\* A packet of a burst is where the NIC may have put it: in the queue of its
\* address, of a rule for a queue of this VM, or of a rule that leads astray.
LEMMA BurstSorted ==
  ASSUME TypeOK, SortedInv, NEW vm \in Vms, NEW x \in Unhandled(vm), NEW p, p = BufferOf(vm, x)
  PROVE  /\ x[1] \in QueueIdx
         /\ \/ arrived[p].to \in {vm, Ptp} /\ x[1] = 0
            \/ /\ arrived[p].to = vm /\ vm \notin e1000
               /\ \E r \in DOMAIN rules[vm] : /\ rules[vm][r].etype = arrived[p].etype
                                               /\ rules[vm][r].queue = vsi0_first_queue(vm) + x[1]
            \/ Strays(p, vm)
<1>. DEFINE q == get_rx_queue_id(vm, x[1])
<1>1. x[1] \in QueueIdx /\ q \in NicQueues /\ x[2] + 1 \in DOMAIN bufs[q]
      /\ BufferOf(vm, x) = bufs[q][x[2] + 1]
  BY CurrentBuffer
<1>2. x[2] + 1 \in DOMAIN Line(q) /\ BufferOf(vm, x) = Line(q)[x[2] + 1]
  BY <1>1, LineParts, ZenonT(40)
<1>3. Sorted(p, q)
  BY <1>1, <1>2, ZenonT(40) DEF SortedInv
<1>4. CASE arrived[p].to = Ptp /\ q = 0
  <2>1. get_rx_queue_id(vm, x[1]) = get_rx_queue_id(0, 0)
    BY <1>4, QueueIds
  <2>2. x[1] = 0
    <3>1. \A k \in QueueIdx : get_rx_queue_id(vm, k) = get_rx_queue_id(0, 0) => k = 0
      BY SMTT(30), Z3T(30), ZenonT(40), QueueIds, Constants
    <3>. QED
      BY Zenon, <1>1, <2>1, <3>1
  <2>. QED
    BY Zenon, <1>1, <1>4, <2>2
<1>5. ASSUME NEW to \in Vms, to = arrived[p].to, q = get_rx_queue_id(to, 0)
      PROVE  arrived[p].to \in {vm, Ptp} /\ x[1] = 0
  <2>1. \A k \in QueueIdx : get_rx_queue_id(vm, k) = get_rx_queue_id(to, 0) => vm = to /\ k = 0
    BY SMTT(30), Z3T(30), ZenonT(40), QueueIds, Constants
  <2>2. vm = to /\ x[1] = 0
    BY Zenon, <1>1, <1>5, <2>1
  <2>. QED
    BY Zenon, <1>5, <2>2
<1>6. ASSUME NEW to \in Vms, to = arrived[p].to, to \in Mediated, to \notin e1000,
             NEW r \in DOMAIN rules[to], rules[to][r].etype = arrived[p].etype,
             q = NicQueueOf(to, rules[to][r].queue)
      PROVE  \/ /\ to = vm /\ rules[vm][r].queue = vsi0_first_queue(vm) + x[1]
             \/ Strays(p, vm)
  <2>1. rules[to][r].queue \in RuleQueues
    <3>1. rules[to] \in Seq([etype : Etypes, queue : RuleQueues])
      BY Zenon DEF TypeOK
    <3>2. rules[to][r] \in [etype : Etypes, queue : RuleQueues]
      BY Zenon, <1>6, <3>1, ElementIn
    <3>. QED
      BY <3>2
  <2>2. CASE rules[to][r].queue \in GuestQueues(to) \/ to = vm
    <3>1. PICK id \in RuleQueues : id = rules[to][r].queue
      BY Zenon, <2>1
    <3>2. PICK k \in QueueIdx : k = x[1]
      BY Zenon, <1>1
    <3>3. NicQueueOf(to, id) = get_rx_queue_id(vm, k)
      BY Zenon, <1>6, <3>1, <3>2
    <3>4. to = vm /\ id = vsi0_first_queue(to) + k
      BY Zenon, <2>2, <3>1, <3>3, RuleLeads
    <3>. QED
      BY Zenon, <3>1, <3>2, <3>4
  <2>3. CASE rules[to][r].queue \notin GuestQueues(to)
    <3>1. q \in OwnQueues(vm)
      BY Zenon, <1>1 DEF OwnQueues
    <3>2. to # Ptp
      BY Zenon, Constants
    <3>. QED
      BY Zenon, <1>6, <2>3, <3>1, <3>2 DEF Strays, StraysInto
  <2>. QED
    BY Zenon, <2>2, <2>3
<1>7. CASE arrived[p].to \in Vms /\ MayGo(arrived[p].to, arrived[p].etype, q)
  BY ZenonT(40), <1>1, <1>5, <1>6, <1>7 DEF MayGo
<1>. QED
  BY Zenon, <1>1, <1>3, <1>4, <1>7 DEF Sorted

LEMMA InitRight == Init => RightQueue
BY DEF Init, RightQueue

LEMMA NextRight ==
  ASSUME TypeOK, ThreadInv, SortedInv, RightQueue, [Next]_vars
  PROVE  RightQueue'
<1>1. ASSUME NEW n \in DOMAIN output
      PROVE  Right(output[n].packet, output[n].vm, output[n].queue)
             /\ output[n].packet \in Packets /\ output[n].vm \in Vms /\ output[n].queue \in Nat
  BY RightForm, OutputElements
<1>2. CASE UNCHANGED output
  <2>1. ASSUME NEW n \in DOMAIN output'
        PROVE  Right(output[n].packet, output[n].vm, output[n].queue)'
    <3>1. PICK p \in Packets, vm \in Vms, q \in Nat :
            p = output[n].packet /\ vm = output[n].vm /\ q = output[n].queue /\ Right(p, vm, q)
      BY ZenonT(40), SMTT(30), Z3T(30), <1>1, <1>2
    <3>2. Right(p, vm, q)'
      BY <3>1, RightStays
    <3>. QED
      BY <1>2, <3>1, <3>2, Zenon, RightUnfolds
  <2>. QED
    BY Zenon, <2>1, RightAll
<1>3. ASSUME NEW vm \in Vms, NEW p \in Packets, NEW q \in Nat,
             output' = Append(output, [packet |-> p, vm |-> vm, queue |-> q]), Right(p, vm, q)
      PROVE  RightQueue'
  <2>1. ASSUME NEW n \in DOMAIN output'
        PROVE  Right(output[n].packet, output[n].vm, output[n].queue)'
    <3>1. PICK pp \in Packets, v \in Vms, qq \in Nat :
            pp = output'[n].packet /\ v = output'[n].vm /\ qq = output'[n].queue /\ Right(pp, v, qq)
      BY <1>1, <1>3, OutputGrows
    <3>2. Right(pp, v, qq)'
      BY <3>1, RightStays, Zenon
    <3>. QED
      BY <3>1, <3>2, Zenon, RightUnfolds
  <2>. QED
    BY Zenon, <2>1, RightAll
<1>4. ASSUME NEW vm \in Vms, NEW p \in Packets, EthRx(vm), p = CurrentPacket(vm)
      PROVE  Right(p, vm, select_queue(vm, p, IF vm \in Mediated THEN Current(vm)[1] ELSE None))
  <2>1. Current(vm) \in Unhandled(vm) /\ p = BufferOf(vm, Current(vm)) /\ vm \notin e1000
    BY <1>4, CurrentIsFirst DEF EthRx, CurrentPacket
  <2>2. /\ Current(vm)[1] \in QueueIdx
        /\ \/ arrived[p].to \in {vm, Ptp} /\ Current(vm)[1] = 0
           \/ /\ arrived[p].to = vm
              /\ \E r \in DOMAIN rules[vm] : /\ rules[vm][r].etype = arrived[p].etype
                                              /\ rules[vm][r].queue = vsi0_first_queue(vm) + Current(vm)[1]
           \/ Strays(p, vm)
    BY ZenonT(40), <2>1, BurstSorted
  <2>3. CASE Strays(p, vm)
    BY Zenon, <2>3 DEF Right
  <2>4. CASE arrived[p].to \in {vm, Ptp} /\ vm \notin Mediated
    BY SMTT(30), Z3T(30), ZenonT(40), <2>1, <2>4, SelectedQueue DEF Right, Named
  <2>5. CASE arrived[p].to \in {vm, Ptp} /\ ~Strays(p, vm) /\ vm \in Mediated
    <3>1. select_queue(vm, p, Current(vm)[1]) = vsi0_first_queue(vm) + Current(vm)[1]
          /\ vsi0_first_queue(vm) \in Nat
      BY Zenon, <2>2, HintedQueue
    <3>2. CASE Current(vm)[1] = 0
      <4>1. select_queue(vm, p, Current(vm)[1]) = vsi0_first_queue(vm)
        BY <3>1, <3>2
      <4>. QED
        BY ZenonT(40), SMTT(30), <2>1, <2>5, <4>1 DEF Right, Named
    <3>3. CASE Current(vm)[1] # 0
      <4>1. PICK r \in DOMAIN rules[vm] : /\ rules[vm][r].etype = arrived[p].etype
                                          /\ rules[vm][r].queue = vsi0_first_queue(vm) + Current(vm)[1]
        BY Zenon, <2>2, <2>5, <3>3
      <4>. QED
        BY ZenonT(40), <2>5, <3>1, <4>1 DEF Right, Named
    <3>. QED
      BY ZenonT(40), <3>2, <3>3
  <2>. QED
    BY ZenonT(40), <2>2, <2>3, <2>4, <2>5
<1>5. ASSUME NEW vm \in Vms, NEW p \in Packets, ethRx(vm), p = CurrentPacket(vm)
      PROVE  Right(p, vm, 0)
  <2>1. Current(vm) \in Unhandled(vm) /\ p = BufferOf(vm, Current(vm)) /\ vm \in e1000
    BY ZenonT(40), <1>5, CurrentIsFirst DEF ethRx, CurrentPacket, ThreadInv
  <2>. QED
    BY ZenonT(40), <2>1, BurstSorted DEF Right, Named
<1>6. ASSUME NEW vm \in Vms, NEW p \in Packets, finish(vm), vm \notin e1000, inject_packets[vm] # <<>>,
             p = inject_packets[vm][1]
      PROVE  Right(p, vm, select_queue(vm, p, None))
  <2>1. arrived[p].to = Ptp
    BY <1>6, InjectShrinks, Zenon DEF SortedInv
  <2>. QED
    BY <1>6, <2>1, SelectedQueue DEF Right, Named
<1>. QED
  BY ZenonT(40), <1>2, <1>3, <1>4, <1>5, <1>6, OutputSteps

-----------------------------------------------------------------------------
(* A packet exists once                                                    *)

LEMMA BurstPlace ==
  ASSUME TypeOK, NEW vm \in Vms, NEW x \in Unhandled(vm)
  PROVE  /\ x[1] \in QueueIdx /\ x[2] \in Nat /\ x = <<x[1], x[2]>>
         /\ get_rx_queue_id(vm, x[1]) \in NicQueues
         /\ x[2] + 1 \in DOMAIN bufs[get_rx_queue_id(vm, x[1])]
         /\ x[2] + 1 \in DOMAIN Line(get_rx_queue_id(vm, x[1]))
         /\ BufferOf(vm, x) = Line(get_rx_queue_id(vm, x[1]))[x[2] + 1]
<1>. DEFINE q == get_rx_queue_id(vm, x[1])
<1>1. /\ x \in QueueIdx \X (0 .. BURST_SIZE - 1) /\ q \in NicQueues
      /\ x[2] + 1 \in DOMAIN bufs[q] /\ BufferOf(vm, x) = bufs[q][x[2] + 1]
  BY ZenonT(40), SMTT(30), Z3T(30), CurrentBuffer
<1>2. x[1] \in QueueIdx /\ x[2] \in 0 .. BURST_SIZE - 1 /\ x = <<x[1], x[2]>>
  BY SMTT(30), Z3T(30), ZenonT(40), <1>1
<1>3. x[2] \in Nat
  BY <1>2, BufferIndices
<1>4. x[2] + 1 \in DOMAIN Line(q) /\ Line(q)[x[2] + 1] = bufs[q][x[2] + 1]
  BY <1>1, LineParts, Zenon
<1>. QED
  BY <1>1, <1>2, <1>3, <1>4, ZenonT(40)

\* First conjunct of OnceInv
LinesOnce ==
  \A q, r \in NicQueues :
    \A i \in DOMAIN Line(q), j \in DOMAIN Line(r) : Line(q)[i] = Line(r)[j] => q = r /\ i = j

LEMMA BurstOnce ==
  ASSUME TypeOK, LinesOnce, NEW vm \in Vms, NEW x \in Unhandled(vm)
  PROVE  /\ ~ Ahead(BufferOf(vm, x))
         /\ \A w \in Vms : \A y \in Unhandled(w) : BufferOf(w, y) = BufferOf(vm, x) => w = vm /\ y = x
<1>. DEFINE q == get_rx_queue_id(vm, x[1])
<1>1. /\ x[1] \in QueueIdx /\ x[2] \in Nat /\ x = <<x[1], x[2]>> /\ q \in NicQueues
      /\ x[2] + 1 \in DOMAIN bufs[q] /\ x[2] + 1 \in DOMAIN Line(q)
      /\ BufferOf(vm, x) = Line(q)[x[2] + 1]
  BY SMTT(30), Z3T(30), ZenonT(40), BurstPlace
<1>2. ASSUME Ahead(BufferOf(vm, x)) PROVE FALSE
  <2>1. PICK r \in NicQueues : BufferOf(vm, x) \in Range(ring[r])
    BY ZenonT(40), SMTT(30), Z3T(30), <1>2 DEF Ahead
  <2>2. PICK i \in DOMAIN ring[r] : BufferOf(vm, x) = ring[r][i]
    BY <2>1 DEF Range
  <2>3. Len(bufs[r]) + i \in DOMAIN Line(r) /\ Line(r)[Len(bufs[r]) + i] = ring[r][i]
    BY LineParts, Zenon
  <2>4. r = q /\ Len(bufs[r]) + i = x[2] + 1
    <3>1. PICK a : a = Len(bufs[r]) + i
      OBVIOUS
    <3>2. PICK b : b = x[2] + 1
      OBVIOUS
    <3>3. a \in DOMAIN Line(r) /\ b \in DOMAIN Line(q) /\ Line(r)[a] = Line(q)[b] /\ q \in NicQueues
      BY <1>1, <2>2, <2>3, <3>1, <3>2, Zenon
    <3>. HIDE DEF q
    <3>4. r = q /\ a = b
      BY <3>3, ZenonT(40) DEF LinesOnce
    <3>. QED
      BY SMTT(30), Z3T(30), ZenonT(40), <3>1, <3>2, <3>4
  <2>5. bufs[r] \in Seq(Packets) /\ ring[r] \in Seq(Packets)
    BY DEF TypeOK
  <2>6. x[2] + 1 <= Len(bufs[r]) /\ i >= 1 /\ i \in Nat /\ Len(bufs[r]) \in Nat
    BY SMTT(30), Z3T(30), ZenonT(40), <1>1, <2>4, <2>5
  <2>. QED
    BY SMTT(30), Z3T(30), ZenonT(40), <1>1, <2>4, <2>6
<1>3. ASSUME NEW w \in Vms, NEW y \in Unhandled(w), BufferOf(w, y) = BufferOf(vm, x)
      PROVE  w = vm /\ y = x
  <2>. DEFINE r == get_rx_queue_id(w, y[1])
  <2>1. /\ y[1] \in QueueIdx /\ y[2] \in Nat /\ y = <<y[1], y[2]>> /\ r \in NicQueues
        /\ y[2] + 1 \in DOMAIN Line(r) /\ BufferOf(w, y) = Line(r)[y[2] + 1]
    BY SMTT(30), Z3T(30), ZenonT(40), BurstPlace
  <2>2. r = q /\ y[2] + 1 = x[2] + 1
    <3>1. PICK a : a = y[2] + 1
      OBVIOUS
    <3>2. PICK b : b = x[2] + 1
      OBVIOUS
    <3>3. /\ a \in DOMAIN Line(r) /\ b \in DOMAIN Line(q) /\ Line(r)[a] = Line(q)[b]
          /\ q \in NicQueues /\ r \in NicQueues
      BY <1>1, <1>3, <2>1, <3>1, <3>2, Zenon
    <3>. HIDE DEF q, r
    <3>4. r = q /\ a = b
      BY <3>3, ZenonT(40) DEF LinesOnce
    <3>. QED
      BY SMTT(30), Z3T(30), ZenonT(40), <3>1, <3>2, <3>4
  <2>3. \A k, l \in QueueIdx : get_rx_queue_id(w, k) = get_rx_queue_id(vm, l) => w = vm /\ k = l
    BY QueueIds
  <2>4. w = vm /\ y[1] = x[1]
    BY <1>1, <2>1, <2>2, <2>3, Zenon
  <2>5. y[2] = x[2]
    BY SMTT(30), Z3T(30), <1>1, <2>1, <2>2
  <2>. QED
    BY <1>1, <2>1, <2>4, <2>5, Zenon
<1>. QED
  BY ZenonT(40), SMTT(30), Z3T(30), <1>2, <1>3

LEMMA AheadSteps ==
  ASSUME TypeOK, ThreadInv, [Next]_vars, NEW p \in Packets, Ahead(p)'
  PROVE  Ahead(p)
<1>1. PICK q \in NicQueues : \E i \in DOMAIN ring'[q] : ring'[q][i] = p
  BY DEF Ahead, Range
<1>2. PICK i \in DOMAIN ring'[q] : ring'[q][i] = p
  BY ZenonT(40), SMTT(30), Z3T(30), <1>1
<1>3. CASE \E j \in DOMAIN ring[q] : ring[q][j] = p
  BY ZenonT(40), SMTT(30), Z3T(30), <1>3 DEF Ahead, Range
<1>4. ASSUME NEW vm \in Vms, recv(vm) PROVE \E j \in DOMAIN ring[q] : ring[q][j] = p
  <2>1. \E j \in DOMAIN ring[q] : ring'[q][i] = ring[q][j]
    BY ZenonT(40), SMTT(30), Z3T(30), <1>4, RecvMoves
  <2>. QED
    BY ZenonT(40), SMTT(30), Z3T(30), <1>2, <2>1
<1>5. ASSUME NEW to \in Vms \cup {Ptp}, NEW e \in Etypes, nic_receive(to, e)
      PROVE  \E j \in DOMAIN ring[q] : ring[q][j] = p
  <2>1. PICK r \in NicQueues : ring' = [ring EXCEPT ![r] = Append(@, Len(arrived) + 1)]
    BY <1>5, NicReceiveType, ZenonT(40)
  <2>2. Len(arrived) + 1 # p /\ ring \in [NicQueues -> Seq(Packets)]
    BY <1>5, NicReceiveType, Zenon DEF TypeOK
  <2>3. CASE q # r
    BY ZenonT(40), SMTT(30), Z3T(30), <1>2, <2>1, <2>2, <2>3
  <2>4. CASE q = r
    <3>1. ring'[q] = Append(ring[q], Len(arrived) + 1) /\ ring[q] \in Seq(Packets)
      BY ZenonT(40), SMTT(30), Z3T(30), <2>1, <2>2, <2>4
    <3>2. i \in DOMAIN ring[q] /\ ring'[q][i] = ring[q][i]
      BY SMTT(30), Z3T(30), ZenonT(40), <1>2, <2>2, <3>1
    <3>. QED
      BY SMTT(30), Z3T(30), ZenonT(40), <1>2, <3>2
  <2>. QED
    BY <2>3, <2>4
<1>6. ASSUME \/ \E vm \in Vms : Handle(vm) \/ rx_is_ready(vm) \/ finish(vm)
             \/ \E vm \in Vms, e \in Etypes, d \in RuleQueues : add_rule(vm, e, d)
             \/ Aside \/ UNCHANGED vars
      PROVE  UNCHANGED ring
  BY <1>6, AddRuleType, Zenon DEF Handle, inject, EthRx, ethRx, rx_is_ready, finish, Aside, vars, nicVars
<1>. QED
  BY ZenonT(40), SMTT(30), Z3T(30), <1>2, <1>3, <1>4, <1>5, <1>6, OtherSteps

LEMMA WaitingSteps ==
  ASSUME TypeOK, ThreadInv, [Next]_vars, NEW p \in Packets, Waiting(p)'
  PROVE  /\ Waiting(p) \/ Ahead(p)
         /\ \A vm \in Vms : Handle(vm) => \E v \in Vms : \E x \in Unhandled(v) :
              BufferOf(v, x) = p /\ (v # vm \/ x # Current(vm))
<1>1. PICK v \in Vms : \E x \in Unhandled(v)' : BufferOf(v, x)' = p
  BY SMTT(30), Z3T(30), ZenonT(40) DEF Waiting
<1>2. PICK x \in Unhandled(v)' : BufferOf(v, x)' = p
  BY ZenonT(40), SMTT(30), Z3T(30), <1>1
<1>3. ASSUME pc'[v] = "start" <=> pc[v] = "start", pos'[v] = pos[v], \A q \in OwnQueues(v) : bufs'[q] = bufs[q]
      PROVE  Waiting(p) /\ x \in Unhandled(v) /\ BufferOf(v, x) = p
  <2>1. x \in Unhandled(v) /\ BufferOf(v, x)' = BufferOf(v, x)
    BY <1>2, <1>3, SameBurst, Zenon
  <2>. QED
    BY <1>2, <2>1 DEF Waiting
<1>4. pc \in [Vms -> {"start", "packets", "ethRx"}] /\ pos \in [Vms -> QueueIdx \X (0 .. BURST_SIZE)]
  BY ZenonT(40), SMTT(30), Z3T(30) DEF TypeOK
<1>5. ASSUME NEW vm \in Vms, recv(vm) PROVE Waiting(p) \/ Ahead(p)
  <2>1. CASE v # vm
    <3>1. pc'[v] = pc[v] /\ pos'[v] = pos[v]
      BY <1>4, <1>5, <2>1, ZenonT(40) DEF recv
    <3>2. \A q \in OwnQueues(v) : bufs'[q] = bufs[q]
      BY <1>5, <2>1, OwnDisjoint, RecvMoves, ZenonT(40)
    <3>. QED
      BY ZenonT(40), SMTT(30), Z3T(30), <1>3, <3>1, <3>2
  <2>2. CASE v = vm
    <3>. DEFINE q == get_rx_queue_id(v, x[1])
    <3>1. x[1] \in QueueIdx /\ x[2] \in 0 .. BURST_SIZE - 1 /\ x[2] < Len(bufs'[q])
      BY ZenonT(40), SMTT(30), Z3T(30), <1>2 DEF Unhandled, get_rx_queue_id
    <3>2. q \in OwnQueues(v) /\ q \in NicQueues
      BY <3>1, OwnDisjoint
    <3>. HIDE DEF q
    <3>3. bufs'[q] \in Seq(Packets)
      BY <1>5, <3>2, RecvMoves, ZenonT(40)
    <3>4. x[2] + 1 \in DOMAIN bufs'[q]
      BY SMTT(30), Z3T(30), ZenonT(40), <3>1, <3>3, BufferIndices
    <3>5. x[2] + 1 \in DOMAIN ring[q] /\ bufs'[q][x[2] + 1] = ring[q][x[2] + 1]
      BY <1>5, <2>2, <3>2, <3>4, RecvMoves, Zenon
    <3>6. p = bufs'[q][x[2] + 1]
      BY <1>2 DEF BufferOf, q, get_rx_queue_id
    <3>. QED
      BY <3>2, <3>5, <3>6, ZenonT(40) DEF Ahead, Range
  <2>. QED
    BY ZenonT(40), Z3T(30), SMTT(30), <2>1, <2>2
<1>6. ASSUME NEW vm \in Vms, Handle(vm)
      PROVE  x \in Unhandled(v) /\ BufferOf(v, x) = p /\ (v # vm \/ x # Current(vm))
  <2>1. /\ First(vm) # {} /\ next_packet(vm) /\ UNCHANGED bufs
        /\ \A w \in Vms : pc'[w] = "start" <=> pc[w] = "start"
    BY <1>6, HandleType, ZenonT(40)
  <2>. QED
    BY <1>2, <2>1, Handled, ZenonT(40)
<1>7. ASSUME NEW vm \in Vms, finish(vm) PROVE Waiting(p)
  <2>1. v # vm
    BY ZenonT(40), SMTT(30), Z3T(30), <1>2, <1>4, <1>7 DEF finish, Unhandled
  <2>2. pc'[v] = pc[v] /\ pos'[v] = pos[v]
    BY SMTT(30), Z3T(30), ZenonT(40), <1>4, <1>7, <2>1 DEF finish
  <2>3. \A q \in OwnQueues(v) : bufs'[q] = bufs[q]
    BY <1>7, <2>1, OwnDisjoint, Zenon DEF finish, recv_consumed
  <2>. QED
    BY ZenonT(40), SMTT(30), Z3T(30), <1>3, <2>2, <2>3
<1>8. ASSUME NEW vm \in Vms, rx_is_ready(vm) PROVE Waiting(p)
  BY SMTT(30), Z3T(30), ZenonT(40), <1>3, <1>4, <1>8 DEF rx_is_ready, bufVars
<1>9. ASSUME \/ \E to \in Vms \cup {Ptp}, e \in Etypes : nic_receive(to, e)
             \/ \E vm \in Vms, e \in Etypes, d \in RuleQueues : add_rule(vm, e, d)
             \/ Aside \/ UNCHANGED vars
      PROVE  Waiting(p)
  <2>1. UNCHANGED <<pc, pos, bufs>>
    BY <1>9, AddRuleType, Zenon DEF nic_receive, Aside, vars, bufVars, threadVars
  <2>. QED
    BY <1>3, <2>1, ZenonT(40)
<1>10. ASSUME NEW vm \in Vms, Handle(vm) PROVE Waiting(p)
  BY <1>6, <1>10 DEF Waiting
<1>. QED
  BY SMTT(30), Z3T(30), ZenonT(40), <1>5, <1>6, <1>7, <1>8, <1>9, <1>10, OtherSteps

LEMMA BehindPackets ==
  ASSUME TypeOK, NEW p, Behind(p)
  PROVE  p \in Packets
<1>1. ASSUME NEW v \in Vms, p \in Range(inject_packets[v]) PROVE p \in Packets
  <2>1. PICK i \in DOMAIN inject_packets[v] : p = inject_packets[v][i]
    BY ZenonT(40), Z3T(30), SMTT(30), <1>1 DEF Range
  <2>2. inject_packets[v] \in Seq(Packets)
    BY DEF TypeOK
  <2>. QED
    BY SMTT(30), Z3T(30), ZenonT(40), <2>1, <2>2, ElementIn
<1>. QED
  BY <1>1, OutputElements, Zenon DEF Behind

\* Packets get behind the buffers only when they are handled.
LEMMA BehindSteps ==
  ASSUME TypeOK, ThreadInv, [Next]_vars, NEW p, Behind(p)'
  PROVE  p \in Packets /\ (Behind(p) \/ \E vm \in Vms : Handle(vm) /\ p = CurrentPacket(vm))
<1>1. ASSUME NEW v \in Vms, NEW i \in DOMAIN inject_packets'[v], inject_packets'[v][i] = p
      PROVE  Behind(p) \/ \E vm \in Vms : Handle(vm) /\ p = CurrentPacket(vm)
  <2>1. CASE \E j \in DOMAIN inject_packets[v] : inject_packets[v][j] = p
    BY ZenonT(40), SMTT(30), Z3T(30), <2>1 DEF Behind, Range
  <2>2. ASSUME NEW vm \in Vms, inject(vm)
        PROVE  p = CurrentPacket(vm) \/ \E j \in DOMAIN inject_packets[v] : inject_packets[v][j] = p
    BY SMTT(30), Z3T(30), ZenonT(40), <1>1, <2>2, InjectGrows
  <2>3. ASSUME NEW vm \in Vms, finish(vm), vm \notin e1000, inject_packets[vm] # <<>>
        PROVE  \E j \in DOMAIN inject_packets[v] : inject_packets[v][j] = p
    BY <1>1, <2>3, InjectShrinks, ZenonT(40)
  <2>. QED
    BY <1>1, <2>1, <2>2, <2>3, InjectSteps, ZenonT(40) DEF Handle
<1>2. ASSUME NEW n \in DOMAIN output', output'[n].packet = p
      PROVE  Behind(p) \/ \E vm \in Vms : Handle(vm) /\ p = CurrentPacket(vm)
  <2>1. CASE n \in DOMAIN output /\ output[n].packet = p
    BY <2>1, ZenonT(40) DEF Behind
  <2>2. ASSUME NEW vm \in Vms, NEW pp \in Packets, NEW q \in Nat,
               output' = Append(output, [packet |-> pp, vm |-> vm, queue |-> q])
        PROVE  p = pp \/ (n \in DOMAIN output /\ output[n].packet = p)
    BY SMTT(30), Z3T(30), <1>2, <2>2, OutputGrows
  <2>3. ASSUME NEW vm \in Vms, finish(vm), vm \notin e1000, inject_packets[vm] # <<>>
        PROVE  Behind(inject_packets[vm][1])
    <3>1. 1 \in DOMAIN inject_packets[vm]
      BY <2>3, InjectShrinks, ZenonT(40)
    <3>. QED
      BY <3>1 DEF Behind, Range
  <2>. QED
    BY <1>2, <2>1, <2>2, <2>3, OutputSteps, ZenonT(40) DEF Handle
<1>3. Behind(p) \/ \E vm \in Vms : Handle(vm) /\ p = CurrentPacket(vm)
  BY <1>1, <1>2, Zenon DEF Behind, Range
<1>. QED
  BY <1>3, BehindPackets, HandleType, ZenonT(40)

LEMMA NextLinesOnce ==
  ASSUME TypeOK, ThreadInv, LinesOnce, [Next]_vars
  PROVE  LinesOnce'
<1>. SUFFICES ASSUME NEW q \in NicQueues, NEW r \in NicQueues,
                     NEW i \in DOMAIN Line(q)', NEW j \in DOMAIN Line(r)', Line(q)'[i] = Line(r)'[j]
              PROVE  q = r /\ i = j
  BY DEF LinesOnce
<1>1. ASSUME NEW a \in DOMAIN Line(q), NEW b \in DOMAIN Line(r),
             Line(q)'[i] = Line(q)[a], Line(r)'[j] = Line(r)[b]
      PROVE  q = r /\ a = b
  <2>1. Line(q)[a] = Line(r)[b]
    BY <1>1, ZenonT(40)
  <2>. QED
    BY <1>1, <2>1, ZenonT(40) DEF LinesOnce
<1>2. CASE Line(q)' = Line(q) /\ Line(r)' = Line(r)
  BY <1>1, <1>2
<1>3. ASSUME NEW to \in Vms \cup {Ptp}, NEW e \in Etypes, nic_receive(to, e)
      PROVE  q = r /\ i = j
  <2>1. PICK s \in NicQueues :
           /\ \A t \in NicQueues : t # s => Line(t)' = Line(t)
           /\ DOMAIN Line(s)' = DOMAIN Line(s) \cup {Len(Line(s)) + 1}
           /\ \A k \in DOMAIN Line(s) : Line(s)'[k] = Line(s)[k]
           /\ Line(s)'[Len(Line(s)) + 1] = Len(arrived) + 1
    BY <1>3, LineGrows, Zenon
  <2>2. ASSUME NEW t \in NicQueues, NEW k \in DOMAIN Line(t) PROVE Line(t)[k] # Len(arrived) + 1
    <3>1. Line(t) \in Seq(Packets) /\ Len(arrived) + 1 \notin Packets
      BY <1>3, LineParts, NicReceiveType, Zenon
    <3>2. Line(t)[k] \in Packets
      BY <3>1, ElementIn, Zenon
    <3>. QED
      BY <3>1, <3>2
  <2>3. \/ i \in DOMAIN Line(q) /\ Line(q)'[i] = Line(q)[i]
        \/ q = s /\ i = Len(Line(s)) + 1 /\ Line(q)'[i] = Len(arrived) + 1
    BY ZenonT(40), SMTT(30), Z3T(30), <2>1
  <2>4. \/ j \in DOMAIN Line(r) /\ Line(r)'[j] = Line(r)[j]
        \/ r = s /\ j = Len(Line(s)) + 1 /\ Line(r)'[j] = Len(arrived) + 1
    BY ZenonT(40), SMTT(30), Z3T(30), <2>1
  <2>. QED
    BY <1>1, <2>2, <2>3, <2>4
<1>4. ASSUME NEW vm \in Vms, finish(vm) PROVE q = r /\ i = j
  <2>1. ASSUME NEW t \in NicQueues, NEW k \in DOMAIN Line(t)'
        PROVE  LET o == IF t \in OwnQueues(vm) THEN Len(bufs[t]) ELSE 0
               IN  o + k \in DOMAIN Line(t) /\ Line(t)'[k] = Line(t)[o + k] /\ o \in Nat /\ k \in Nat
    <3>1. CASE t \notin OwnQueues(vm)
      <4>1. Line(t)' = Line(t) /\ Line(t) \in Seq(Packets)
        BY <1>4, <3>1, LineShrinks, LineParts, Zenon
      <4>2. k \in Nat
        BY SMTT(30), Z3T(30), <4>1
      <4>. QED
        BY SMTT(30), Z3T(30), ZenonT(40), <3>1, <4>1, <4>2
    <3>2. CASE t \in OwnQueues(vm)
      <4>1. Line(t)' = ring[t] /\ ring[t] \in Seq(Packets) /\ bufs[t] \in Seq(Packets)
        BY <1>4, <3>2, LineShrinks, LineParts, ZenonT(40)
      <4>2. k \in DOMAIN ring[t] /\ k \in Nat /\ Len(bufs[t]) \in Nat
        BY <4>1
      <4>3. Len(bufs[t]) + k \in DOMAIN Line(t) /\ Line(t)[Len(bufs[t]) + k] = ring[t][k]
        BY <4>2, LineParts, ZenonT(40)
      <4>. QED
        BY SMTT(30), Z3T(30), ZenonT(40), <3>2, <4>1, <4>2, <4>3
    <3>. QED
      BY <3>1, <3>2, Zenon
  <2>. DEFINE o(t) == IF t \in OwnQueues(vm) THEN Len(bufs[t]) ELSE 0
  <2>2. o(q) + i \in DOMAIN Line(q) /\ Line(q)'[i] = Line(q)[o(q) + i] /\ o(q) \in Nat /\ i \in Nat
    BY <2>1, ZenonT(40)
  <2>3. o(r) + j \in DOMAIN Line(r) /\ Line(r)'[j] = Line(r)[o(r) + j] /\ o(r) \in Nat /\ j \in Nat
    BY <2>1
  <2>. HIDE DEF o
  <2>4. q = r /\ o(q) + i = o(r) + j
    BY <1>1, <2>2, <2>3, ZenonT(40)
  <2>. QED
    BY SMTT(30), Z3T(30), ZenonT(40), <2>2, <2>3, <2>4
<1>. QED
  BY ZenonT(40), SMTT(30), Z3T(30), <1>2, <1>3, <1>4, LineSteps

LEMMA InitOnce == Init => OnceInv
<1>. SUFFICES ASSUME Init PROVE OnceInv
  OBVIOUS
<1>1. (\A q \in NicQueues : Line(q) = <<>>) /\ (\A v \in Vms : inject_packets[v] = <<>>) /\ output = <<>>
  BY SMTT(30), Z3T(30), ZenonT(40) DEF Init, Line
<1>2. \A p : ~ Behind(p)
  BY <1>1 DEF Behind, Range
<1>. QED
  BY SMTT(30), Z3T(30), ZenonT(40), <1>1, <1>2 DEF OnceInv

\* What OnceInv says about packets behind the buffers.
LEMMA OnceFacts ==
  ASSUME OnceInv
  PROVE  /\ \A v, w \in Vms : \A i \in DOMAIN inject_packets[v], j \in DOMAIN inject_packets[w] :
              inject_packets[v][i] = inject_packets[w][j] => v = w /\ i = j
         /\ \A n, m \in DOMAIN output : output[n].packet = output[m].packet => n = m
         /\ \A n \in DOMAIN output, v \in Vms : \A i \in DOMAIN inject_packets[v] :
              output[n].packet # inject_packets[v][i]
BY Zenon DEF OnceInv

LEMMA NextOnce ==
  ASSUME TypeOK, ThreadInv, OnceInv, [Next]_vars
  PROVE  OnceInv'
<1>0. LinesOnce
  BY Zenon DEF OnceInv, LinesOnce
<1>1. LinesOnce'
  BY <1>0, NextLinesOnce
\* The packet that is handled is not behind the buffers.
<1>2. ASSUME NEW vm \in Vms, Handle(vm)
      PROVE  /\ CurrentPacket(vm) \in Packets /\ Current(vm) \in Unhandled(vm)
             /\ CurrentPacket(vm) = BufferOf(vm, Current(vm))
             /\ ~ Behind(CurrentPacket(vm))
             /\ \A v \in Vms : \A i \in DOMAIN inject_packets[v] : inject_packets[v][i] # CurrentPacket(vm)
             /\ \A n \in DOMAIN output : output[n].packet # CurrentPacket(vm)
  <2>1. CurrentPacket(vm) \in Packets /\ Current(vm) \in Unhandled(vm)
    BY <1>2, HandleType, CurrentIsFirst, Zenon
  <2>2. CurrentPacket(vm) = BufferOf(vm, Current(vm))
    BY SMTT(30), Z3T(30), ZenonT(40) DEF CurrentPacket
  <2>3. Waiting(CurrentPacket(vm))
    BY <2>1, <2>2 DEF Waiting
  <2>4. ~ Behind(CurrentPacket(vm))
    BY <2>1, <2>3, ZenonT(40) DEF OnceInv
  <2>. QED
    BY <2>1, <2>2, <2>4, ZenonT(40) DEF Behind, Range
<1>3. \A v, w \in Vms : \A i \in DOMAIN inject_packets'[v], j \in DOMAIN inject_packets'[w] :
        inject_packets'[v][i] = inject_packets'[w][j] => v = w /\ i = j
  <2>. SUFFICES ASSUME NEW v \in Vms, NEW w \in Vms, NEW i \in DOMAIN inject_packets'[v],
                       NEW j \in DOMAIN inject_packets'[w], inject_packets'[v][i] = inject_packets'[w][j]
                PROVE  v = w /\ i = j
    OBVIOUS
  <2>0. ASSUME NEW a \in DOMAIN inject_packets[v], NEW b \in DOMAIN inject_packets[w],
               inject_packets'[v][i] = inject_packets[v][a], inject_packets'[w][j] = inject_packets[w][b]
        PROVE  v = w /\ a = b
    <3>1. inject_packets[v][a] = inject_packets[w][b]
      BY <2>0, Zenon
    <3>2. \A x \in DOMAIN inject_packets[v], y \in DOMAIN inject_packets[w] :
            inject_packets[v][x] = inject_packets[w][y] => v = w /\ x = y
      BY Zenon DEF OnceInv
    <3>. QED
      BY <2>0, <3>1, <3>2, Zenon
  <2>1. CASE UNCHANGED inject_packets
    BY <2>0, <2>1
  <2>2. ASSUME NEW vm \in Vms, inject(vm) PROVE v = w /\ i = j
    <3>1. PICK t \in Vms :
            /\ \A u \in Vms : u # t => inject_packets'[u] = inject_packets[u]
            /\ DOMAIN inject_packets'[t] = DOMAIN inject_packets[t] \cup {Len(inject_packets[t]) + 1}
            /\ \A k \in DOMAIN inject_packets[t] : inject_packets'[t][k] = inject_packets[t][k]
            /\ inject_packets'[t][Len(inject_packets[t]) + 1] = CurrentPacket(vm)
      BY <2>2, InjectGrows, ZenonT(40)
    <3>2. \/ i \in DOMAIN inject_packets[v] /\ inject_packets'[v][i] = inject_packets[v][i]
          \/ v = t /\ i = Len(inject_packets[t]) + 1 /\ inject_packets'[v][i] = CurrentPacket(vm)
      BY ZenonT(40), SMTT(30), Z3T(30), <3>1
    <3>3. \/ j \in DOMAIN inject_packets[w] /\ inject_packets'[w][j] = inject_packets[w][j]
          \/ w = t /\ j = Len(inject_packets[t]) + 1 /\ inject_packets'[w][j] = CurrentPacket(vm)
      BY <3>1
    <3>4. \A u \in Vms : \A k \in DOMAIN inject_packets[u] : inject_packets[u][k] # CurrentPacket(vm)
      BY <1>2, <2>2, Zenon DEF Handle
    <3>. QED
      BY <2>0, <3>2, <3>3, <3>4, ZenonT(40)
  <2>3. ASSUME NEW vm \in Vms, finish(vm), vm \notin e1000, inject_packets[vm] # <<>>
        PROVE  v = w /\ i = j
    <3>1. /\ \A u \in Vms : u # vm => inject_packets'[u] = inject_packets[u]
          /\ \A k \in DOMAIN inject_packets'[vm] : /\ k + 1 \in DOMAIN inject_packets[vm] /\ k \in Nat
                                                   /\ inject_packets'[vm][k] = inject_packets[vm][k + 1]
      BY <2>3, InjectShrinks, ZenonT(40)
    <3>2. CASE v # vm /\ w # vm
      BY ZenonT(40), SMTT(30), Z3T(30), <2>0, <3>1, <3>2
    <3>3. CASE v = vm /\ w # vm
      BY ZenonT(40), SMTT(30), Z3T(30), <2>0, <3>1, <3>3
    <3>4. CASE v # vm /\ w = vm
      BY ZenonT(40), SMTT(30), Z3T(30), <2>0, <3>1, <3>4
    <3>5. CASE v = vm /\ w = vm
      <4>1. i + 1 = j + 1 /\ i \in Nat /\ j \in Nat
        BY SMTT(30), Z3T(30), ZenonT(40), <2>0, <3>1, <3>5
      <4>. QED
        BY SMTT(30), Z3T(30), <3>5, <4>1
    <3>. QED
      BY SMTT(30), Z3T(30), ZenonT(40), <3>2, <3>3, <3>4, <3>5
  <2>. QED
    BY ZenonT(40), SMTT(30), Z3T(30), <2>1, <2>2, <2>3, InjectSteps
\* A packet that guests have not received and that leaves the injection queues
<1>4. ASSUME NEW vm \in Vms, finish(vm), vm \notin e1000, inject_packets[vm] # <<>>
      PROVE  /\ \A n \in DOMAIN output : output[n].packet # inject_packets[vm][1]
             /\ \A v \in Vms : \A i \in DOMAIN inject_packets'[v] : inject_packets'[v][i] # inject_packets[vm][1]
  <2>1. /\ 1 \in DOMAIN inject_packets[vm]
        /\ \A u \in Vms : u # vm => inject_packets'[u] = inject_packets[u]
        /\ \A k \in DOMAIN inject_packets'[vm] : /\ k + 1 \in DOMAIN inject_packets[vm] /\ k + 1 # 1
                                                 /\ inject_packets'[vm][k] = inject_packets[vm][k + 1]
    BY ZenonT(40), SMTT(30), Z3T(30), <1>4, InjectShrinks
  <2>2. \A n \in DOMAIN output : output[n].packet # inject_packets[vm][1]
    BY ZenonT(40), <2>1, OnceFacts
  <2>3. ASSUME NEW v \in Vms, NEW i \in DOMAIN inject_packets'[v] PROVE inject_packets'[v][i] # inject_packets[vm][1]
    <3>1. \A u \in Vms : \A k \in DOMAIN inject_packets[u] :
            inject_packets[u][k] = inject_packets[vm][1] => u = vm /\ k = 1
      <4>1. ASSUME NEW u \in Vms, NEW k \in DOMAIN inject_packets[u],
                   inject_packets[u][k] = inject_packets[vm][1]
            PROVE  u = vm /\ k = 1
        <5>1. 1 \in DOMAIN inject_packets[vm]
          BY Zenon, <2>1
        <5>2. \A v1, w1 \in Vms : \A i1 \in DOMAIN inject_packets[v1], j1 \in DOMAIN inject_packets[w1] :
                inject_packets[v1][i1] = inject_packets[w1][j1] => v1 = w1 /\ i1 = j1
          BY Zenon, OnceFacts
        <5>. QED
          BY SMTT(30), Z3T(30), <4>1, <5>1, <5>2
      <4>. QED
        BY Zenon, <4>1
    <3>2. CASE v = vm
      <4>1. i \in DOMAIN inject_packets'[vm]
        BY Zenon, <3>2
      <4>2. i + 1 \in DOMAIN inject_packets[vm] /\ i + 1 # 1
            /\ inject_packets'[vm][i] = inject_packets[vm][i + 1]
        BY Zenon, <2>1, <4>1
      <4>. QED
        BY Zenon, <3>1, <3>2, <4>2
    <3>3. CASE v # vm
      BY ZenonT(40), <2>1, <2>3, <3>1, <3>3
    <3>. QED
      BY Zenon, <3>2, <3>3
  <2>. QED
    BY ZenonT(40), Z3T(30), SMTT(30), <2>2, <2>3
<1>5. \A n, m \in DOMAIN output' : output'[n].packet = output'[m].packet => n = m
  <2>1. CASE UNCHANGED output
    BY ZenonT(40), SMTT(30), Z3T(30), <2>1 DEF OnceInv
  <2>2. ASSUME NEW vm \in Vms, NEW p \in Packets, NEW q \in Nat,
               output' = Append(output, [packet |-> p, vm |-> vm, queue |-> q]),
               \A n \in DOMAIN output : output[n].packet # p
        PROVE  \A n, m \in DOMAIN output' : output'[n].packet = output'[m].packet => n = m
    <3>1. /\ DOMAIN output' = DOMAIN output \cup {Len(output) + 1}
          /\ \A n \in DOMAIN output : output'[n] = output[n]
          /\ output'[Len(output) + 1].packet = p
      BY <2>2, OutputGrows
    <3>2. \A n, m \in DOMAIN output : output[n].packet = output[m].packet => n = m
      BY Zenon, OnceFacts
    <3>. DEFINE new == Len(output) + 1
    <3>3. ASSUME NEW n \in DOMAIN output', NEW m \in DOMAIN output', output'[n].packet = output'[m].packet
          PROVE  n = m
      <4>1. (n \in DOMAIN output \/ n = new) /\ (m \in DOMAIN output \/ m = new)
        BY Zenon, <3>1, <3>3
      <4>. HIDE DEF new
      <4>2. output'[new].packet = p
        BY Zenon, <3>1 DEF new
      <4>. QED
        BY ZenonT(40), <2>2, <3>1, <3>2, <3>3, <4>1, <4>2
    <3>. QED
      BY Zenon, <3>3
  <2>3. ASSUME NEW vm \in Vms, NEW p \in Packets, EthRx(vm) \/ ethRx(vm), p = CurrentPacket(vm)
        PROVE  \A n \in DOMAIN output : output[n].packet # p
    BY <1>2, <2>3, ZenonT(40) DEF Handle
  <2>4. ASSUME NEW vm \in Vms, NEW p \in Packets, finish(vm), vm \notin e1000, inject_packets[vm] # <<>>,
               p = inject_packets[vm][1]
        PROVE  \A n \in DOMAIN output : output[n].packet # p
    BY <1>4, <2>4
  <2>. QED
    BY <2>1, <2>2, <2>3, <2>4, OutputSteps, ZenonT(40)
<1>6. \A n \in DOMAIN output', v \in Vms : \A i \in DOMAIN inject_packets'[v] :
        output'[n].packet # inject_packets'[v][i]
  <2>. SUFFICES ASSUME NEW n \in DOMAIN output', NEW v \in Vms, NEW i \in DOMAIN inject_packets'[v]
                PROVE  output'[n].packet # inject_packets'[v][i]
    OBVIOUS
  <2>1. CASE UNCHANGED output
    <3>1. \A a \in DOMAIN inject_packets[v] : output[n].packet # inject_packets[v][a]
      BY SMTT(30), Z3T(30), ZenonT(40), <2>1 DEF OnceInv
    <3>2. CASE UNCHANGED inject_packets
      BY <2>1, <3>1, <3>2
    <3>3. ASSUME NEW vm \in Vms, inject(vm)
          PROVE  (\E a \in DOMAIN inject_packets[v] : inject_packets'[v][i] = inject_packets[v][a])
                 \/ inject_packets'[v][i] = CurrentPacket(vm)
      BY <3>3, InjectGrows, ZenonT(40)
    <3>4. ASSUME NEW vm \in Vms, finish(vm), vm \notin e1000, inject_packets[vm] # <<>>
          PROVE  \E a \in DOMAIN inject_packets[v] : inject_packets'[v][i] = inject_packets[v][a]
      BY <3>4, InjectShrinks, Zenon
    <3>5. ASSUME NEW vm \in Vms, inject(vm) PROVE output'[n].packet # CurrentPacket(vm)
      BY <1>2, <2>1, <3>5, ZenonT(40) DEF Handle
    <3>. QED
      BY <2>1, <3>1, <3>2, <3>3, <3>4, <3>5, InjectSteps, Zenon
  <2>2. ASSUME NEW vm \in Vms, EthRx(vm) \/ ethRx(vm), NEW q \in Nat,
               output' = Append(output, [packet |-> CurrentPacket(vm), vm |-> vm, queue |-> q])
        PROVE  output'[n].packet # inject_packets'[v][i]
    <3>1. UNCHANGED inject_packets
      BY <2>2, Zenon DEF EthRx, ethRx
    <3>2. CurrentPacket(vm) # inject_packets[v][i] /\ CurrentPacket(vm) \in Packets
      BY <1>2, <2>2, <3>1, ZenonT(40) DEF Handle
    <3>3. (n \in DOMAIN output /\ output'[n] = output[n]) \/ output'[n].packet = CurrentPacket(vm)
      <4>1. /\ DOMAIN output' = DOMAIN output \cup {Len(output) + 1}
            /\ \A m \in DOMAIN output : output'[m] = output[m]
            /\ output'[Len(output) + 1].packet = CurrentPacket(vm)
        BY <2>2, <3>2, OutputGrows
      <4>. QED
        BY Zenon, <4>1
    <3>4. \A m \in DOMAIN output, w \in Vms : \A j \in DOMAIN inject_packets[w] :
            output[m].packet # inject_packets[w][j]
      BY Zenon, OnceFacts
    <3>5. i \in DOMAIN inject_packets[v] /\ inject_packets'[v][i] = inject_packets[v][i]
      BY Zenon, <3>1
    <3>. QED
      BY ZenonT(40), SMTT(30), <3>2, <3>3, <3>4, <3>5
  <2>3. ASSUME NEW vm \in Vms, finish(vm), vm \notin e1000, inject_packets[vm] # <<>>, NEW q \in Nat,
               output' = Append(output, [packet |-> inject_packets[vm][1], vm |-> vm, queue |-> q])
        PROVE  output'[n].packet # inject_packets'[v][i]
    <3>1. inject_packets'[v][i] # inject_packets[vm][1] /\ inject_packets[vm][1] \in Packets
      <4>1. inject_packets'[v][i] # inject_packets[vm][1]
        BY ZenonT(40), <1>4, <2>3
      <4>2. inject_packets[vm][1] \in Packets
        BY ZenonT(40), SMTT(30), <2>3, InjectShrinks
      <4>. QED
        BY Zenon, <4>1, <4>2
    <3>2. (n \in DOMAIN output /\ output'[n] = output[n]) \/ output'[n].packet = inject_packets[vm][1]
      <4>1. /\ DOMAIN output' = DOMAIN output \cup {Len(output) + 1}
            /\ \A m \in DOMAIN output : output'[m] = output[m]
            /\ output'[Len(output) + 1].packet = inject_packets[vm][1]
        BY <2>3, <3>1, OutputGrows
      <4>. QED
        BY ZenonT(40), <4>1
    <3>3. \E a \in DOMAIN inject_packets[v] : inject_packets'[v][i] = inject_packets[v][a]
      BY <2>3, InjectShrinks, Zenon
    <3>4. \A m \in DOMAIN output, w \in Vms : \A j \in DOMAIN inject_packets[w] :
            output[m].packet # inject_packets[w][j]
      BY Zenon, OnceFacts
    <3>5. PICK a \in DOMAIN inject_packets[v] : inject_packets'[v][i] = inject_packets[v][a]
      BY Zenon, <3>3
    <3>. QED
      BY ZenonT(40), SMTT(30), <3>1, <3>2, <3>4, <3>5
  <2>. QED
    BY <2>1, <2>2, <2>3, OutputSteps, ZenonT(40)
<1>7. \A p \in Packets' : Behind(p)' => ~ Ahead(p)' /\ ~ Waiting(p)'
  <2>. SUFFICES ASSUME NEW p, Behind(p)', Ahead(p)' \/ Waiting(p)' PROVE FALSE
    BY ZenonT(40), SMTT(30), Z3T(30)
  <2>1. p \in Packets /\ (Behind(p) \/ \E vm \in Vms : Handle(vm) /\ p = CurrentPacket(vm))
    BY ZenonT(40), SMTT(30), Z3T(30), BehindSteps
  <2>2. Ahead(p) \/ Waiting(p)
    BY SMTT(30), Z3T(30), ZenonT(40), <2>1, AheadSteps, WaitingSteps
  <2>3. ~ Behind(p)
    BY <2>1, <2>2, Zenon DEF OnceInv
  <2>4. PICK vm \in Vms : Handle(vm) /\ p = CurrentPacket(vm)
    BY ZenonT(40), SMTT(30), Z3T(30), <2>1, <2>3
  <2>5. /\ ~ Ahead(p)
        /\ \A w \in Vms : \A y \in Unhandled(w) : BufferOf(w, y) = p => w = vm /\ y = Current(vm)
    <3>1. Current(vm) \in Unhandled(vm) /\ p = BufferOf(vm, Current(vm))
      BY ZenonT(40), <1>2, <2>4 DEF CurrentPacket
    <3>. QED
      BY ZenonT(40), <1>0, <3>1, BurstOnce
  <2>6. Waiting(p)'
    BY ZenonT(40), SMTT(30), Z3T(30), <2>1, <2>5, AheadSteps
  <2>. QED
    BY <2>1, <2>4, <2>5, <2>6, WaitingSteps
<1>. QED
  BY <1>1, <1>3, <1>5, <1>6, <1>7, ZenonT(40) DEF OnceInv, LinesOnce

-----------------------------------------------------------------------------
(* Types of the counters                                                   *)

\* What is used of cardinalities: the queues of vm in whose burst packet p is
\* can be counted.
Holding(vm, p) == {q \in OwnQueues(vm) : p \in Range(bufs[q])}
Countable ==
  \A vm \in Vms, p \in 1 .. MaxPackets :
    /\ Cardinality(Holding(vm, p)) \in Nat
    /\ Holding(vm, p) = {} => Cardinality(Holding(vm, p)) = 0
    /\ \A q : Holding(vm, p) = {q} => Cardinality(Holding(vm, p)) = 1

LEMMA FinishType ==
  ASSUME TypeOK, Countable, NEW vm \in Vms, finish(vm)
  PROVE  TypeOK'
<1>1. UNCHANGED <<arrived, flow, ring, rules, ready, e1000, ptp_target_vm_idx, old_id>> /\ Packets' = Packets
  BY ZenonT(40), SMTT(30), Z3T(30) DEF finish, nicVars, guestVars, Packets
<1>2. bufs' \in [NicQueues -> Seq(Packets)] /\ \A q \in NicQueues : Len(bufs'[q]) <= BURST_SIZE
  <2>1. bufs' = [q \in NicQueues |-> IF q \in OwnQueues(vm) THEN <<>> ELSE bufs[q]]
    BY Zenon DEF finish, recv_consumed
  <2>2. bufs \in [NicQueues -> Seq(Packets)] /\ \A q \in NicQueues : Len(bufs[q]) <= BURST_SIZE
    BY Zenon DEF TypeOK
  <2>. QED
    BY <2>1, <2>2, Constants
<1>3. freed' \in [1 .. MaxPackets -> Nat]
  <2>. SUFFICES ASSUME NEW p \in 1 .. MaxPackets PROVE freed[p] + Cardinality(Holding(vm, p)) \in Nat
    BY DEF finish, recv_consumed, Holding
  <2>1. Cardinality(Holding(vm, p)) \in Nat
    BY Zenon DEF Countable
  <2>2. freed[p] \in Nat
    BY Zenon DEF TypeOK
  <2>. QED
    BY <2>1, <2>2
<1>4. pc' \in [Vms -> {"start", "packets", "ethRx"}] /\ ptp_target_vm' \in [Vms -> Vms \cup {None}]
  BY ZenonT(40), SMTT(30), Z3T(30) DEF finish, TypeOK
<1>5. pos' \in [Vms -> QueueIdx \X (0 .. BURST_SIZE)]
  <2>1. pos' = [pos EXCEPT ![vm] = <<0, 0>>]
    BY Zenon DEF finish
  <2>2. pos \in [Vms -> QueueIdx \X (0 .. BURST_SIZE)]
    BY Zenon DEF TypeOK
  <2>3. 0 \in QueueIdx /\ 0 \in 0 .. BURST_SIZE
    BY Constants
  <2>. QED
    BY <2>1, <2>2, <2>3
<1>6. CASE vm \in e1000 \/ inject_packets[vm] = <<>>
  <2>1. UNCHANGED <<inject_packets, output>>
    BY SMTT(30), Z3T(30), ZenonT(40), <1>6 DEF finish, pop_injected
  <2>. QED
    BY <1>1, <1>2, <1>3, <1>4, <1>5, <2>1, ZenonT(40) DEF TypeOK
<1>7. CASE ~(vm \in e1000 \/ inject_packets[vm] = <<>>)
  <2>1. inject_packets[vm] \in Seq(Packets) /\ inject_packets \in [Vms -> Seq(Packets)]
    BY ZenonT(40), SMTT(30), Z3T(30) DEF TypeOK
  <2>2. /\ Head(inject_packets[vm]) \in Packets
        /\ inject_packets' = [inject_packets EXCEPT ![vm] = Tail(@)]
        /\ packet_received(vm, Head(inject_packets[vm]), None)
    BY SMTT(30), Z3T(30), ZenonT(40), <1>7, <2>1 DEF finish, pop_injected
  <2>3. inject_packets' \in [Vms -> Seq(Packets)]
    <3>1. Tail(inject_packets[vm]) \in Seq(Packets)
      BY <1>7, <2>1
    <3>. QED
      BY ZenonT(40), SMTT(30), Z3T(30), <2>1, <2>2, <3>1
  <2>4. select_queue(vm, Head(inject_packets[vm]), None) \in Nat
    BY SMTT(30), Z3T(30), ZenonT(40), <2>2, SelectedQueue
  <2>5. output' \in Seq([packet : Packets, vm : Vms, queue : Nat])
    BY <2>2, <2>4, OutputType, Zenon DEF packet_received, TypeOK
  <2>. QED
    BY ZenonT(40), <1>1, <1>2, <1>3, <1>4, <1>5, <2>3, <2>5 DEF TypeOK
<1>. QED
  BY SMTT(30), Z3T(30), ZenonT(40), <1>6, <1>7

LEMMA NextType ==
  ASSUME TypeOK, Countable, ThreadInv, [Next]_vars
  PROVE  TypeOK'
<1>1. ASSUME NEW vm \in Vms, recv(vm) PROVE TypeOK'
  <2>1. UNCHANGED <<arrived, flow, freed, rules, ready, e1000, pos, inject_packets,
                    ptp_target_vm_idx, old_id, output>> /\ Packets' = Packets
    BY ZenonT(40), SMTT(30), Z3T(30), <1>1 DEF recv, guestVars, Packets
  <2>2. /\ ring' \in [NicQueues -> Seq(Packets)] /\ bufs' \in [NicQueues -> Seq(Packets)]
        /\ \A q \in NicQueues : Len(bufs'[q]) <= BURST_SIZE
    <3>1. /\ ring' = [q \in NicQueues |-> ring'[q]]
          /\ bufs' = [q \in NicQueues |-> bufs'[q]]
      BY ZenonT(40), SMTT(30), Z3T(30), <1>1 DEF recv
    <3>. QED
      BY ZenonT(40), Z3T(30), SMTT(30), <1>1, <3>1, RecvMoves
  <2>3. pc' \in [Vms -> {"start", "packets", "ethRx"}] /\ ptp_target_vm' \in [Vms -> Vms \cup {None}]
    BY ZenonT(40), SMTT(30), Z3T(30), <1>1 DEF recv, TypeOK
  <2>. QED
    BY ZenonT(40), <2>1, <2>2, <2>3 DEF TypeOK
<1>2. ASSUME NEW vm \in Vms, rx_is_ready(vm) PROVE TypeOK'
  <2>1. UNCHANGED <<arrived, flow, ring, bufs, freed, rules, ready, e1000, ptp_target_vm, pos,
                    inject_packets, ptp_target_vm_idx, old_id, output>> /\ Packets' = Packets
    BY ZenonT(40), Z3T(30), SMTT(30), <1>2 DEF rx_is_ready, nicVars, bufVars, guestVars, Packets
  <2>2. pc' \in [Vms -> {"start", "packets", "ethRx"}]
    BY ZenonT(40), SMTT(30), Z3T(30), <1>2 DEF rx_is_ready, TypeOK
  <2>. QED
    BY <2>1, <2>2, Zenon DEF TypeOK
<1>3. CASE UNCHANGED vars
  <2>1. UNCHANGED <<arrived, flow, ring, bufs, freed, rules, ready, e1000, pc, ptp_target_vm, pos,
                    inject_packets, ptp_target_vm_idx, old_id, output>> /\ Packets' = Packets
    BY ZenonT(40), SMTT(30), Z3T(30), <1>3 DEF vars, nicVars, bufVars, guestVars, threadVars, Packets
  <2>. QED
    BY <2>1, Zenon DEF TypeOK
<1>. QED
  BY <1>1, <1>2, <1>3, OtherSteps, NicReceiveType, AddRuleType, HandleType, FinishType, Zenon

-----------------------------------------------------------------------------
(* Buffers are freed once                                                  *)

\* The buffer of a packet is in use.
InUse(p) == \E q \in NicQueues : p \in Range(Line(q))

LEMMA InUseIndex == \A p : InUse(p) <=> \E q \in NicQueues : \E i \in DOMAIN Line(q) : Line(q)[i] = p
BY SMTT(30), Z3T(30), ZenonT(40) DEF InUse, Range

LEMMA FreedForm ==
  FreedInv <=> \A p \in 1 .. MaxPackets : freed[p] = IF p \in Packets /\ ~ InUse(p) THEN 1 ELSE 0
BY SMTT(30), Z3T(30), ZenonT(40) DEF FreedInv, InUse

\* recv_consumed frees the buffer of a packet if the packet is in a burst.
LEMMA FreedByFinish ==
  ASSUME TypeOK, Countable, LinesOnce, NEW vm \in Vms, NEW p \in 1 .. MaxPackets
  PROVE  /\ (\A q \in OwnQueues(vm) : p \notin Range(bufs[q])) => Cardinality(Holding(vm, p)) = 0
         /\ (\E q \in OwnQueues(vm) : p \in Range(bufs[q])) => Cardinality(Holding(vm, p)) = 1
<1>0. Countable
  OBVIOUS
<1>1. ASSUME \A q \in OwnQueues(vm) : p \notin Range(bufs[q]) PROVE Cardinality(Holding(vm, p)) = 0
  <2>1. Holding(vm, p) = {}
    BY <1>1 DEF Holding
  <2>. QED
    BY <1>0, <2>1, Zenon DEF Countable
<1>2. ASSUME NEW q \in OwnQueues(vm), p \in Range(bufs[q]) PROVE Cardinality(Holding(vm, p)) = 1
  <2>1. ASSUME NEW r \in OwnQueues(vm), p \in Range(bufs[r]) PROVE r = q
    <3>1. q \in NicQueues /\ r \in NicQueues
      BY ZenonT(40), SMTT(30), Z3T(30), OwnDisjoint
    <3>2. PICK i \in DOMAIN bufs[q] : bufs[q][i] = p
      BY ZenonT(40), SMTT(30), Z3T(30), <1>2 DEF Range
    <3>3. PICK j \in DOMAIN bufs[r] : bufs[r][j] = p
      BY <2>1 DEF Range
    <3>4. i \in DOMAIN Line(q) /\ Line(q)[i] = p /\ j \in DOMAIN Line(r) /\ Line(r)[j] = p
      BY <3>1, <3>2, <3>3, LineParts, Zenon
    <3>. QED
      BY <3>1, <3>4, ZenonT(40) DEF LinesOnce
  <2>2. Holding(vm, p) = {q}
    BY ZenonT(40), SMTT(30), Z3T(30), <1>2, <2>1 DEF Holding
  <2>. QED
    BY <1>0, <2>2, Zenon DEF Countable
<1>. QED
  BY SMTT(30), Z3T(30), ZenonT(40), <1>1, <1>2

LEMMA InitFreed == Init => FreedInv
BY SMTT(30), Z3T(30), ZenonT(40) DEF Init, FreedInv, Packets

LEMMA NextFreed ==
  ASSUME TypeOK, Countable, ThreadInv, LinesOnce, FreedInv, [Next]_vars
  PROVE  FreedInv'
<1>. SUFFICES ASSUME NEW p \in 1 .. MaxPackets
              PROVE  freed'[p] = IF p \in Packets' /\ ~ InUse(p)' THEN 1 ELSE 0
  BY ZenonT(40), Z3T(30), SMTT(30) DEF FreedInv, InUse
<1>0. freed[p] = (IF p \in Packets /\ ~ InUse(p) THEN 1 ELSE 0) /\ freed \in [1 .. MaxPackets -> Nat]
  BY ZenonT(40), SMTT(30), Z3T(30), FreedForm DEF TypeOK
<1>1. InUse(p) <=> \E q \in NicQueues : \E i \in DOMAIN Line(q) : Line(q)[i] = p
  BY ZenonT(40), Z3T(30), SMTT(30), InUseIndex
<1>2. InUse(p)' <=> \E q \in NicQueues : \E i \in DOMAIN Line(q)' : Line(q)'[i] = p
  BY SMTT(30), Z3T(30), ZenonT(40) DEF InUse, Range
<1>3. ASSUME NEW to \in Vms \cup {Ptp}, NEW e \in Etypes, nic_receive(to, e)
      PROVE  freed'[p] = IF p \in Packets' /\ ~ InUse(p)' THEN 1 ELSE 0
  <2>1. PICK s \in NicQueues :
           /\ \A t \in NicQueues : t # s => Line(t)' = Line(t)
           /\ DOMAIN Line(s)' = DOMAIN Line(s) \cup {Len(Line(s)) + 1}
           /\ \A k \in DOMAIN Line(s) : Line(s)'[k] = Line(s)[k]
           /\ Line(s)'[Len(Line(s)) + 1] = Len(arrived) + 1
    BY <1>3, LineGrows, Zenon
  <2>2. UNCHANGED freed
    BY ZenonT(40), SMTT(30), Z3T(30), <1>3 DEF nic_receive, bufVars
  <2>3. CASE p = Len(arrived) + 1
    <3>1. InUse(p)'
      BY SMTT(30), Z3T(30), ZenonT(40), <1>2, <2>1, <2>3
    <3>2. p \notin Packets
      BY <1>3, <2>3, NicReceiveType, Zenon
    <3>. QED
      BY ZenonT(40), SMTT(30), Z3T(30), <1>0, <2>2, <3>1, <3>2
  <2>4. CASE p # Len(arrived) + 1
    <3>1. p \in Packets' <=> p \in Packets
      <4>1. Packets' = 1 .. Len(arrived) + 1 /\ Len(arrived) \in Nat
        BY <1>3, NicReceiveType, Zenon
      <4>2. Packets = 1 .. Len(arrived)
        BY ZenonT(40), SMTT(30), Z3T(30) DEF Packets
      <4>. QED
        BY SMTT(30), Z3T(30), <2>4, <4>1, <4>2
    <3>2. InUse(p)' <=> InUse(p)
      BY ZenonT(40), SMTT(30), Z3T(30), <1>1, <1>2, <2>1, <2>4
    <3>. QED
      BY ZenonT(40), SMTT(30), Z3T(30), <1>0, <2>2, <3>1, <3>2
  <2>. QED
    BY <2>3, <2>4
<1>4. ASSUME NEW vm \in Vms, finish(vm)
      PROVE  freed'[p] = IF p \in Packets' /\ ~ InUse(p)' THEN 1 ELSE 0
  <2>1. freed'[p] = freed[p] + Cardinality(Holding(vm, p)) /\ Packets' = Packets
    BY ZenonT(40), SMTT(30), Z3T(30), <1>4 DEF finish, recv_consumed, nicVars, Packets, Holding
  <2>2. CASE \E q \in OwnQueues(vm) : p \in Range(bufs[q])
    <3>1. PICK q \in OwnQueues(vm) : \E i \in DOMAIN bufs[q] : bufs[q][i] = p
      BY ZenonT(40), SMTT(30), Z3T(30), <2>2 DEF Range
    <3>2. PICK i \in DOMAIN bufs[q] : bufs[q][i] = p
      BY ZenonT(40), SMTT(30), Z3T(30), <3>1
    <3>3. q \in NicQueues
      BY OwnDisjoint
    <3>4. i \in DOMAIN Line(q) /\ Line(q)[i] = p /\ bufs[q] \in Seq(Packets)
      BY <3>2, <3>3, LineParts, Zenon
    <3>5. InUse(p) /\ p \in Packets
      BY ZenonT(40), SMTT(30), Z3T(30), <1>1, <3>2, <3>3, <3>4, ElementIn
    <3>6. ASSUME NEW r \in NicQueues, NEW j \in DOMAIN Line(r)', Line(r)'[j] = p PROVE FALSE
      <4>1. \A k \in DOMAIN Line(r) : Line(r)[k] = p => q = r /\ i = k
        BY ZenonT(40), SMTT(30), Z3T(30), <3>3, <3>4 DEF LinesOnce
      <4>2. CASE r \notin OwnQueues(vm)
        BY ZenonT(40), SMTT(30), Z3T(30), <1>4, <3>6, <4>1, <4>2, LineShrinks
      <4>3. CASE r \in OwnQueues(vm)
        <5>1. j \in DOMAIN ring[r] /\ ring[r][j] = p /\ ring[r] \in Seq(Packets)
          BY <1>4, <3>6, <4>3, LineShrinks, LineParts, Zenon
        <5>2. Len(bufs[r]) + j \in DOMAIN Line(r) /\ Line(r)[Len(bufs[r]) + j] = p
          BY <5>1, LineParts, Zenon
        <5>3. q = r /\ i = Len(bufs[r]) + j
          BY ZenonT(40), SMTT(30), Z3T(30), <4>1, <5>2
        <5>4. i <= Len(bufs[r]) /\ j >= 1 /\ j \in Nat /\ Len(bufs[r]) \in Nat
          BY SMTT(30), Z3T(30), <3>2, <3>4, <5>1, <5>3
        <5>. QED
          BY SMTT(30), Z3T(30), ZenonT(40), <5>3, <5>4
      <4>. QED
        BY ZenonT(40), SMTT(30), Z3T(30), <4>2, <4>3
    <3>7. ~ InUse(p)'
      BY <1>2, <3>6
    <3>8. Cardinality(Holding(vm, p)) = 1
      BY <2>2, FreedByFinish, Zenon
    <3>9. freed[p] = 0
      BY ZenonT(40), SMTT(30), Z3T(30), <1>0, <3>5
    <3>. QED
      BY SMTT(30), Z3T(30), <2>1, <3>5, <3>7, <3>8, <3>9
  <2>3. CASE ~ \E q \in OwnQueues(vm) : p \in Range(bufs[q])
    <3>1. Cardinality(Holding(vm, p)) = 0
      BY <2>3, FreedByFinish, Zenon
    <3>2. ASSUME InUse(p)' PROVE InUse(p)
      <4>1. PICK r \in NicQueues : \E j \in DOMAIN Line(r)' : Line(r)'[j] = p
        BY SMTT(30), Z3T(30), ZenonT(40), <1>2, <3>2
      <4>2. PICK j \in DOMAIN Line(r)' : Line(r)'[j] = p
        BY ZenonT(40), SMTT(30), Z3T(30), <4>1
      <4>3. CASE r \notin OwnQueues(vm)
        BY ZenonT(40), SMTT(30), Z3T(30), <1>1, <1>4, <4>2, <4>3, LineShrinks
      <4>4. CASE r \in OwnQueues(vm)
        <5>1. j \in DOMAIN ring[r] /\ ring[r][j] = p
          BY SMTT(30), Z3T(30), ZenonT(40), <1>4, <4>2, <4>4, LineShrinks
        <5>2. Len(bufs[r]) + j \in DOMAIN Line(r) /\ Line(r)[Len(bufs[r]) + j] = p
          BY <5>1, LineParts, Zenon
        <5>. QED
          BY ZenonT(40), Z3T(30), SMTT(30), <1>1, <5>2
      <4>. QED
        BY SMTT(30), Z3T(30), ZenonT(40), <4>3, <4>4
    <3>3. ASSUME InUse(p) PROVE InUse(p)'
      <4>1. PICK r \in NicQueues : \E j \in DOMAIN Line(r) : Line(r)[j] = p
        BY SMTT(30), Z3T(30), ZenonT(40), <1>1, <3>3
      <4>2. PICK j \in DOMAIN Line(r) : Line(r)[j] = p
        BY ZenonT(40), SMTT(30), Z3T(30), <4>1
      <4>3. CASE r \notin OwnQueues(vm)
        BY ZenonT(40), SMTT(30), Z3T(30), <1>2, <1>4, <4>2, <4>3, LineShrinks
      <4>4. CASE r \in OwnQueues(vm)
        <5>1. ~ (j \in DOMAIN bufs[r] /\ Line(r)[j] = bufs[r][j])
          BY SMTT(30), Z3T(30), ZenonT(40), <2>3, <4>2, <4>4 DEF Range
        <5>2. j - Len(bufs[r]) \in DOMAIN ring[r] /\ ring[r][j - Len(bufs[r])] = p
          BY <4>2, <5>1, LineParts, ZenonT(40)
        <5>3. Line(r)' = ring[r]
          BY ZenonT(40), SMTT(30), Z3T(30), <1>4, <4>4, LineShrinks
        <5>. QED
          BY ZenonT(40), SMTT(30), Z3T(30), <1>2, <5>2, <5>3
      <4>. QED
        BY SMTT(30), Z3T(30), ZenonT(40), <4>3, <4>4
    <3>. QED
      BY SMTT(30), Z3T(30), ZenonT(40), <1>0, <2>1, <3>1, <3>2, <3>3
  <2>. QED
    BY ZenonT(40), SMTT(30), Z3T(30), <2>2, <2>3
<1>5. ASSUME ~ \E to \in Vms \cup {Ptp}, e \in Etypes : nic_receive(to, e), ~ \E vm \in Vms : finish(vm)
      PROVE  freed'[p] = IF p \in Packets' /\ ~ InUse(p)' THEN 1 ELSE 0
  <2>1. UNCHANGED freed /\ Packets' = Packets
    BY <1>5, OtherSteps, AddRuleType, Zenon DEF recv, Handle, inject, EthRx, ethRx, rx_is_ready, Aside, vars,
         nicVars, bufVars, Packets
  <2>2. \A q \in NicQueues : Line(q)' = Line(q)
    BY ZenonT(40), SMTT(30), Z3T(30), <1>5, LineSteps
  <2>. QED
    BY SMTT(30), Z3T(30), ZenonT(40), <1>0, <1>1, <1>2, <2>1, <2>2
<1>. QED
  BY ZenonT(40), SMTT(30), Z3T(30), <1>3, <1>4, <1>5

LEMMA HandledBeforeFreed ==
  ASSUME IInv
  PROVE  FreedOnce
<1>1. TypeOK /\ FreedInv
  BY ZenonT(40), SMTT(30), Z3T(30) DEF IInv
<1>2. Packets \subseteq 1 .. MaxPackets
  BY Z3T(30), SMTT(30), <1>1, Constants DEF TypeOK, Packets
<1>3. \A p \in Packets : freed[p] = IF ~ InUse(p) THEN 1 ELSE 0
  BY SMTT(30), Z3T(30), ZenonT(40), <1>1, <1>2, FreedForm
<1>4. ASSUME NEW vm \in Vms, NEW x \in Unhandled(vm) PROVE freed[BufferOf(vm, x)] = 0
  <2>1. InUse(BufferOf(vm, x))
    BY ZenonT(40), Z3T(30), SMTT(30), <1>1, BurstPlace, InUseIndex
  <2>2. BufferOf(vm, x) \in Packets
    BY ZenonT(40), Z3T(30), SMTT(30), <1>1, CurrentBuffer
  <2>. QED
    BY ZenonT(40), Z3T(30), SMTT(30), <1>3, <2>1, <2>2
<1>5. ASSUME NEW p \in Packets, freed[p] = 0
      PROVE  \E q \in NicQueues : p \in Range(ring[q]) \cup Range(bufs[q])
  <2>1. PICK q \in NicQueues : \E i \in DOMAIN Line(q) : Line(q)[i] = p
    BY Z3T(30), SMTT(30), <1>3, <1>5, InUseIndex
  <2>2. PICK i \in DOMAIN Line(q) : Line(q)[i] = p
    BY <2>1
  <2>3. \/ i \in DOMAIN bufs[q] /\ Line(q)[i] = bufs[q][i]
        \/ i - Len(bufs[q]) \in DOMAIN ring[q] /\ Line(q)[i] = ring[q][i - Len(bufs[q])]
    BY <1>1, LineParts, Zenon
  <2>. QED
    BY ZenonT(40), Z3T(30), SMTT(30), <2>2, <2>3 DEF Range
<1>6. \A p \in Packets : freed[p] <= 1
  BY SMTT(30), Z3T(30), <1>3
<1>. QED
  BY SMTT(30), Z3T(30), ZenonT(40), <1>4, <1>5, <1>6 DEF FreedOnce

-----------------------------------------------------------------------------
(* The places of a packet                                                  *)

LEMMA OnePlace ==
  ASSUME IInv, NEW p \in Packets, NEW a \in Places(p), NEW b \in Places(p)
  PROVE  a = b
<1>. DEFINE Ring(c) == \E q \in NicQueues : \E i \in DOMAIN ring[q] : ring[q][i] = p /\ c = <<"ring", q, i>>
            Burst_(c) == \E v \in Vms : \E x \in Unhandled(v) : BufferOf(v, x) = p /\ c = <<"burst", v, x>>
            Inject(c) == \E v \in Vms : \E i \in DOMAIN inject_packets[v] :
                           inject_packets[v][i] = p /\ c = <<"inject", v, i>>
            Out(c) == \E n \in DOMAIN output : output[n].packet = p /\ c = <<"output", 0, n>>
<1>0. TypeOK /\ OnceInv /\ LinesOnce
  BY Zenon DEF IInv, OnceInv, LinesOnce
<1>1. ASSUME NEW c \in Places(p) PROVE Ring(c) \/ Burst_(c) \/ Inject(c) \/ Out(c)
  <2>1. ASSUME NEW q \in NicQueues, c \in {<<"ring", q, i>> : i \in Positions(ring[q], p)} PROVE Ring(c)
    BY ZenonT(40), Z3T(30), SMTT(30), <2>1 DEF Positions
  <2>2. ASSUME NEW v \in Vms, c \in {<<"burst", v, x>> : x \in {y \in Unhandled(v) : BufferOf(v, y) = p}}
        PROVE  Burst_(c)
    BY ZenonT(40), Z3T(30), SMTT(30), <2>2
  <2>3. ASSUME NEW v \in Vms, c \in {<<"inject", v, i>> : i \in Positions(inject_packets[v], p)}
        PROVE  Inject(c)
    BY ZenonT(40), SMTT(30), Z3T(30), <2>3 DEF Positions
  <2>4. ASSUME c \in {<<"output", 0, n>> : n \in {m \in DOMAIN output : output[m].packet = p}}
        PROVE  Out(c)
    BY SMTT(30), Z3T(30), ZenonT(40), <2>4
  <2>. HIDE DEF Ring, Burst_, Inject, Out
  <2>. DEFINE
         R == UNION {{<<"ring", q, i>> : i \in Positions(ring[q], p)} : q \in NicQueues}
         B == UNION {{<<"burst", vm, x>> : x \in {y \in Unhandled(vm) : BufferOf(vm, y) = p}} : vm \in Vms}
         I == UNION {{<<"inject", vm, i>> : i \in Positions(inject_packets[vm], p)} : vm \in Vms}
         O == {<<"output", 0, n>> : n \in {m \in DOMAIN output : output[m].packet = p}}
  <2>5. c \in R \/ c \in B \/ c \in I \/ c \in O
    <3>1. Places(p) = R \cup B \cup I \cup O
      BY Zenon DEF Places
    <3>. HIDE DEF R, B, I, O
    <3>. QED
      BY <1>1, <3>1
  <2>6. c \in R => \E q \in NicQueues : c \in {<<"ring", q, i>> : i \in Positions(ring[q], p)}
    BY Zenon
  <2>7. c \in B => \E v \in Vms : c \in {<<"burst", v, x>> : x \in {y \in Unhandled(v) : BufferOf(v, y) = p}}
    BY Zenon
  <2>8. c \in I => \E v \in Vms : c \in {<<"inject", v, i>> : i \in Positions(inject_packets[v], p)}
    BY ZenonT(40)
  <2>. QED
    BY <2>1, <2>2, <2>3, <2>4, <2>5, <2>6, <2>7, <2>8, Zenon DEF O
<1>2. ASSUME NEW c, Ring(c) PROVE Ahead(p)
  BY SMTT(30), Z3T(30), ZenonT(40), <1>2 DEF Ahead, Range
<1>3. ASSUME NEW c, Burst_(c) PROVE Waiting(p)
  BY ZenonT(40), SMTT(30), Z3T(30), <1>3 DEF Waiting
<1>4. ASSUME NEW c, Inject(c) \/ Out(c) PROVE Behind(p)
  BY ZenonT(40), SMTT(30), Z3T(30), <1>4 DEF Behind, Range
<1>5. ASSUME NEW c, NEW d, Ring(c), Ring(d) PROVE c = d
  <2>1. PICK q \in NicQueues : \E i \in DOMAIN ring[q] : ring[q][i] = p /\ c = <<"ring", q, i>>
    BY SMTT(30), Z3T(30), ZenonT(40), <1>5
  <2>1a. PICK i \in DOMAIN ring[q] : ring[q][i] = p /\ c = <<"ring", q, i>>
    BY ZenonT(40), Z3T(30), SMTT(30), <2>1
  <2>2. PICK r \in NicQueues : \E j \in DOMAIN ring[r] : ring[r][j] = p /\ d = <<"ring", r, j>>
    BY SMTT(30), Z3T(30), ZenonT(40), <1>5
  <2>2a. PICK j \in DOMAIN ring[r] : ring[r][j] = p /\ d = <<"ring", r, j>>
    BY <2>2
  <2>3. /\ Len(bufs[q]) + i \in DOMAIN Line(q) /\ Line(q)[Len(bufs[q]) + i] = p
        /\ Len(bufs[r]) + j \in DOMAIN Line(r) /\ Line(r)[Len(bufs[r]) + j] = p
    BY <1>0, <2>1a, <2>2a, LineParts, ZenonT(40)
  <2>4. q = r /\ Len(bufs[q]) + i = Len(bufs[r]) + j
    <3>1. PICK x : x = Len(bufs[q]) + i
      BY ZenonT(40), SMTT(30), Z3T(30)
    <3>2. PICK y : y = Len(bufs[r]) + j
      BY ZenonT(40), Z3T(30), SMTT(30)
    <3>3. x \in DOMAIN Line(q) /\ y \in DOMAIN Line(r) /\ Line(q)[x] = Line(r)[y]
      BY SMTT(30), Z3T(30), ZenonT(40), <2>3, <3>1, <3>2
    <3>4. q = r /\ x = y
      BY <1>0, <3>3, ZenonT(40) DEF LinesOnce
    <3>. QED
      BY ZenonT(40), SMTT(30), Z3T(30), <3>1, <3>2, <3>4
  <2>5. ring[q] \in Seq(Packets) /\ bufs[q] \in Seq(Packets)
    BY <1>0 DEF TypeOK
  <2>6. i = j
    BY Z3T(30), SMTT(30), <2>1a, <2>2a, <2>4, <2>5
  <2>. QED
    BY ZenonT(40), SMTT(30), Z3T(30), <2>1a, <2>2a, <2>4, <2>6
<1>6. ASSUME NEW c, NEW d, Burst_(c), Burst_(d) PROVE c = d
  BY Z3T(30), SMTT(30), ZenonT(40), <1>0, <1>6, BurstOnce
<1>7. ASSUME NEW c, NEW d, Ring(c), Burst_(d) PROVE FALSE
  BY ZenonT(40), Z3T(30), SMTT(30), <1>0, <1>2, <1>7, BurstOnce
<1>8. ASSUME NEW c, NEW d, Inject(c), Inject(d) PROVE c = d
  <2>1. PICK v \in Vms : \E i \in DOMAIN inject_packets[v] : inject_packets[v][i] = p /\ c = <<"inject", v, i>>
    BY SMTT(30), Z3T(30), ZenonT(40), <1>8
  <2>1a. PICK i \in DOMAIN inject_packets[v] : inject_packets[v][i] = p /\ c = <<"inject", v, i>>
    BY ZenonT(40), Z3T(30), SMTT(30), <2>1
  <2>2. PICK w \in Vms : \E j \in DOMAIN inject_packets[w] : inject_packets[w][j] = p /\ d = <<"inject", w, j>>
    BY ZenonT(40), Z3T(30), SMTT(30), <1>8
  <2>2a. PICK j \in DOMAIN inject_packets[w] : inject_packets[w][j] = p /\ d = <<"inject", w, j>>
    BY ZenonT(40), Z3T(30), SMTT(30), <2>2
  <2>3. v = w /\ i = j
    <3>1. \A x, y \in Vms : \A k \in DOMAIN inject_packets[x], l \in DOMAIN inject_packets[y] :
            inject_packets[x][k] = inject_packets[y][l] => x = y /\ k = l
      BY Zenon, <1>0 DEF OnceInv
    <3>. QED
      BY ZenonT(40), <2>1a, <2>2a, <3>1
  <2>. QED
    BY ZenonT(40), Z3T(30), SMTT(30), <2>1a, <2>2a, <2>3
<1>9. ASSUME NEW c, NEW d, Out(c), Out(d) PROVE c = d
  BY ZenonT(40), Z3T(30), SMTT(30), <1>0, <1>9 DEF OnceInv
<1>10. ASSUME NEW c, NEW d, Inject(c), Out(d) PROVE FALSE
  BY ZenonT(40), Z3T(30), SMTT(30), <1>0, <1>10, OnceFacts
<1>11. Behind(p) => ~ Ahead(p) /\ ~ Waiting(p)
  BY ZenonT(40), Z3T(30), SMTT(30), <1>0 DEF OnceInv
<1>12. (Ring(a) \/ Burst_(a) \/ Inject(a) \/ Out(a)) /\ (Ring(b) \/ Burst_(b) \/ Inject(b) \/ Out(b))
  BY ZenonT(40), Z3T(30), SMTT(30), <1>1
<1>. HIDE DEF Ring, Burst_, Inject, Out
<1>. QED
  BY ZenonT(40), SMTT(30), Z3T(30), <1>2, <1>3, <1>4, <1>5, <1>6, <1>7, <1>8, <1>9, <1>10, <1>11, <1>12

-----------------------------------------------------------------------------
(* The invariant and its consequences                                      *)

INSTANCE FiniteSetTheorems

LEMMA Counting == Countable
<1>1. ASSUME NEW vm \in Vms, NEW p \in 1 .. MaxPackets PROVE IsFiniteSet(Holding(vm, p))
  <2>1. IsFiniteSet(NicQueues)
    <3>1. \E a, b \in Int : NicQueues = a .. b
      BY Constants DEF NicQueues
    <3>. QED
      BY Zenon, <3>1, FS_Interval
  <2>2. Holding(vm, p) \subseteq NicQueues
    BY QueueIds DEF OwnQueues, Holding
  <2>. QED
    BY ZenonT(40), Z3T(30), SMTT(30), <2>1, <2>2, FS_Subset
<1>. QED
  BY ZenonT(40), <1>1, FS_CardinalityType, FS_EmptySet, FS_Singleton DEF Countable

LEMMA InvariantHolds == Spec => []IInv
<1>1. Init => IInv
  BY ZenonT(40), InitType, InitSorted, InitThread, InitOnce, InitFreed, InitRight DEF IInv
<1>2. IInv /\ [Next]_vars => IInv'
  <2>. SUFFICES ASSUME IInv, [Next]_vars PROVE IInv'
    BY ZenonT(40), SMTT(30), Z3T(30)
  <2>1. TypeOK /\ SortedInv /\ ThreadInv /\ OnceInv /\ FreedInv /\ RightQueue /\ LinesOnce
    BY Zenon DEF IInv, OnceInv, LinesOnce
  <2>. QED
    <3>1. TypeOK' /\ SortedInv' /\ ThreadInv'
      BY ZenonT(40), <2>1, Counting, NextType, NextSorted, NextThread
    <3>2. OnceInv'
      BY ZenonT(40), <2>1, NextOnce
    <3>3. FreedInv' /\ RightQueue'
      BY ZenonT(40), <2>1, Counting, NextFreed, NextRight
    <3>. QED
      BY ZenonT(40), <3>1, <3>2, <3>3 DEF IInv
<1>. QED
  BY <1>1, <1>2, PTL DEF Spec

\* The state of the NIC queues, the threads and the devices has its type: in
\* particular buffers hold at most a burst, and queue numbers of all VMs are
\* queues of the NIC.
THEOREM TypeCorrect == Spec => []TypeOK
<1>1. IInv => TypeOK
  BY DEF IInv
<1>. QED
  BY <1>1, InvariantHolds, PTL

\* driver_cb delivers packets for the address of a VM to this VM, to a queue that
\* a rule of its guest names or to its default queue, for any number of VMs,
\* queues and rules.  Only a rule of this guest for a queue it does not have can
\* lead them to another VM, and it leads no other packets there.
THEOREM QueuesAreRight == Spec => []RightQueue
<1>1. IInv => RightQueue
  BY ZenonT(40), Z3T(30), SMTT(30) DEF IInv
<1>. QED
  BY <1>1, InvariantHolds, PTL

\* recv_consumed frees the buffer of a packet once, and not before driver_cb has
\* handled the packet.
THEOREM BuffersFreedOnce == Spec => []FreedOnce
<1>1. IInv => FreedOnce
  BY SMTT(30), Z3T(30), ZenonT(40), HandledBeforeFreed
<1>. QED
  BY <1>1, InvariantHolds, PTL

\* A packet exists once, in the NIC, in a burst, in an injection queue or at a
\* guest: driver_cb neither duplicates a packet nor receives one of an earlier
\* burst again.
THEOREM PacketsExistOnce == Spec => []NoDuplicates
<1>1. IInv => NoDuplicates
  <2>. SUFFICES ASSUME IInv, NEW p \in Packets PROVE Cardinality(Places(p)) <= 1
    BY DEF NoDuplicates
  <2>1. CASE Places(p) = {}
    BY SMTT(30), Z3T(30), <2>1, FS_EmptySet
  <2>2. ASSUME NEW a \in Places(p) PROVE Cardinality(Places(p)) = 1
    <3>1. Places(p) = {a}
      BY OnePlace
    <3>. QED
      BY ZenonT(40), SMTT(30), Z3T(30), <3>1, FS_Singleton
  <2>. QED
    BY SMTT(30), Z3T(30), <2>1, <2>2
<1>. QED
  BY <1>1, InvariantHolds, PTL

-----------------------------------------------------------------------------
(* The rounds of driver_cb                                                 *)

LEMMA UnhandledFinite ==
  ASSUME NEW vm \in Vms
  PROVE  IsFiniteSet(Unhandled(vm)) /\ Cardinality(Unhandled(vm)) \in Nat
<1>1. IsFiniteSet(QueueIdx) /\ IsFiniteSet(0 .. BURST_SIZE - 1)
  <2>1. 0 \in Int /\ BURST_SIZE - 1 \in Int /\ MAX_QUEUES_PER_VM - 1 \in Int
    BY Constants
  <2>. QED
    BY Zenon, <2>1, FS_Interval DEF QueueIdx
<1>2. IsFiniteSet(QueueIdx \X (0 .. BURST_SIZE - 1))
  BY Zenon, <1>1, FS_Product
<1>3. Unhandled(vm) \subseteq QueueIdx \X (0 .. BURST_SIZE - 1)
  BY Zenon DEF Unhandled
<1>. QED
  BY Zenon, <1>2, <1>3, FS_Subset, FS_CardinalityType

LEMMA FewerLeft ==
  ASSUME NEW S, NEW T, IsFiniteSet(S), T \subseteq S, NEW x \in S, x \notin T
  PROVE  IsFiniteSet(T) /\ Cardinality(T) < Cardinality(S)
<1>1. T # S /\ T \in SUBSET S
  BY Zenon
<1>2. IsFiniteSet(T) /\ Cardinality(T) <= Cardinality(S) /\ Cardinality(T) # Cardinality(S)
  BY Zenon, <1>1, FS_Subset
<1>3. Cardinality(T) \in Nat /\ Cardinality(S) \in Nat
  BY ZenonT(40), <1>2, FS_CardinalityType
<1>. QED
  BY <1>2, <1>3

LEMMA LessLeft ==
  ASSUME NEW a \in Nat, NEW b \in Nat, b < a
  PROVE  /\ 2 * b + 1 < 2 * a + 0 /\ 2 * b + 1 < 2 * a + 1 /\ 2 * b + 0 < 2 * a + 0
OBVIOUS

\* What a step that is not one of its own changes for a thread.
LEMMA OtherThreads ==
  ASSUME TypeOK, ThreadInv, [Next]_vars, NEW vm \in Vms, ~driver_cb(vm)
  PROVE  pc'[vm] = pc[vm] /\ Unhandled(vm)' = Unhandled(vm)
<1>0. pc \in [Vms -> {"start", "packets", "ethRx"}] /\ pos \in [Vms -> QueueIdx \X (0 .. BURST_SIZE)]
  BY Zenon DEF TypeOK
<1>1. ASSUME pc'[vm] = pc[vm], pos'[vm] = pos[vm], \A q \in OwnQueues(vm) : bufs'[q] = bufs[q]
      PROVE  pc'[vm] = pc[vm] /\ Unhandled(vm)' = Unhandled(vm)
  BY Zenon, <1>1, SameBurst
<1>2. ASSUME NEW v \in Vms, recv(v) PROVE pc'[vm] = pc[vm] /\ Unhandled(vm)' = Unhandled(vm)
  <2>0. v # vm
    BY Zenon, <1>2 DEF driver_cb
  <2>1. pc'[vm] = pc[vm] /\ pos'[vm] = pos[vm]
    BY ZenonT(40), <1>0, <1>2, <2>0 DEF recv
  <2>2. \A q \in OwnQueues(vm) : bufs'[q] = bufs[q]
    BY ZenonT(40), <1>2, <2>0, OwnDisjoint, RecvMoves
  <2>. QED
    BY Zenon, <1>1, <2>1, <2>2
<1>3. ASSUME NEW v \in Vms, Handle(v) PROVE pc'[vm] = pc[vm] /\ Unhandled(vm)' = Unhandled(vm)
  <2>0. v # vm
    BY Zenon, <1>3 DEF driver_cb, Handle
  <2>1. First(v) # {} /\ next_packet(v) /\ UNCHANGED bufs /\ \A w \in Vms : pc'[w] = "start" <=> pc[w] = "start"
    BY Zenon, <1>3, HandleType
  <2>2. Unhandled(vm)' = Unhandled(vm)
    BY ZenonT(40), <2>0, <2>1, Handled
  <2>3. pc'[vm] = pc[vm]
    BY Zenon, <1>0, <1>3, <2>0 DEF Handle, inject, EthRx, ethRx
  <2>. QED
    BY Zenon, <2>2, <2>3
<1>4. ASSUME NEW v \in Vms, rx_is_ready(v) PROVE pc'[vm] = pc[vm] /\ Unhandled(vm)' = Unhandled(vm)
  <2>0. v # vm
    BY Zenon, <1>4 DEF driver_cb
  <2>1. pc'[vm] = pc[vm] /\ UNCHANGED <<pos, bufs>>
    BY ZenonT(40), <1>0, <1>4, <2>0 DEF rx_is_ready, bufVars
  <2>. QED
    BY Zenon, <1>1, <2>1
<1>5. ASSUME NEW v \in Vms, finish(v) PROVE pc'[vm] = pc[vm] /\ Unhandled(vm)' = Unhandled(vm)
  <2>0. v # vm
    BY Zenon, <1>5 DEF driver_cb
  <2>1. pc'[vm] = pc[vm] /\ pos'[vm] = pos[vm]
    BY Zenon, <1>0, <1>5, <2>0 DEF finish
  <2>2. \A q \in OwnQueues(vm) : bufs'[q] = bufs[q]
    BY ZenonT(40), <1>5, <2>0, OwnDisjoint DEF finish, recv_consumed
  <2>. QED
    BY Zenon, <1>1, <2>1, <2>2
<1>6. ASSUME \/ \E to \in Vms \cup {Ptp}, e \in Etypes : nic_receive(to, e)
             \/ \E v \in Vms, e \in Etypes, d \in RuleQueues : add_rule(v, e, d)
             \/ Aside \/ UNCHANGED vars
      PROVE  pc'[vm] = pc[vm] /\ Unhandled(vm)' = Unhandled(vm)
  <2>1. UNCHANGED <<pc, pos, bufs>>
    BY <1>6, AddRuleType, ZenonT(40) DEF nic_receive, Aside, vars, bufVars, threadVars
  <2>. QED
    BY Zenon, <1>1, <2>1
<1>. QED
  BY ZenonT(40), <1>2, <1>3, <1>4, <1>5, <1>6, OtherSteps

\* What a step of its own leaves to do.
LEMMA OwnRound ==
  ASSUME TypeOK, ThreadInv, NEW vm \in Vms, driver_cb(vm), pc[vm] # "start"
  PROVE  RoundLeft(vm)' < RoundLeft(vm)
<1>. DEFINE a == Cardinality(Unhandled(vm))
            b == Cardinality(Unhandled(vm)')
            c == IF pc[vm] = "packets" THEN 1 ELSE 0
            d == IF pc'[vm] = "packets" THEN 1 ELSE 0
<1>0. RoundLeft(vm) = 2 * a + c /\ RoundLeft(vm)' = 2 * b + d
  BY Zenon DEF RoundLeft
<1>1. IsFiniteSet(Unhandled(vm)) /\ a \in Nat
  BY Zenon, UnhandledFinite
<1>2. pc \in [Vms -> {"start", "packets", "ethRx"}] /\ pos \in [Vms -> QueueIdx \X (0 .. BURST_SIZE)]
  BY Zenon DEF TypeOK
<1>3. CASE Handle(vm)
  <2>1. First(vm) # {} /\ next_packet(vm) /\ UNCHANGED bufs /\ \A w \in Vms : pc'[w] = "start" <=> pc[w] = "start"
    BY Zenon, <1>3, HandleType
  <2>2. Unhandled(vm)' \subseteq Unhandled(vm) /\ Current(vm) \notin Unhandled(vm)'
    BY Zenon, <2>1, Handled
  <2>3. Current(vm) \in Unhandled(vm)
    BY Zenon, <2>1, CurrentIsFirst
  <2>4. b \in Nat /\ b < a
    BY ZenonT(40), <1>1, <2>2, <2>3, FewerLeft, FS_CardinalityType
  <2>5. 2 * b + 1 < 2 * a + 0 /\ 2 * b + 1 < 2 * a + 1 /\ 2 * b + 0 < 2 * a + 0
    BY ZenonT(40), <1>1, <2>4, LessLeft
  <2>6. c \in {0, 1} /\ d \in {0, 1} /\ (c = 1 => d = 1)
    BY Zenon, <1>2, <1>3 DEF Handle, inject, EthRx, ethRx
  <2>. QED
    BY Zenon, <1>0, <2>5, <2>6
<1>4. CASE rx_is_ready(vm)
  <2>1. UNCHANGED <<pos, bufs>> /\ pc[vm] = "packets" /\ pc'[vm] = "ethRx"
    BY Zenon, <1>2, <1>4 DEF rx_is_ready, bufVars
  <2>2. Unhandled(vm)' = Unhandled(vm)
    BY ZenonT(40), <2>1, SameBurst
  <2>3. b = a /\ c = 1 /\ d = 0
    BY Zenon, <2>1, <2>2
  <2>4. 2 * a + 0 < 2 * a + 1
    BY <1>1
  <2>. QED
    BY ZenonT(40), <1>0, <2>3, <2>4
<1>5. CASE finish(vm)
  <2>1. Unhandled(vm) = {} /\ pc[vm] = "packets" /\ pc'[vm] = "start"
    BY Zenon, <1>2, <1>5 DEF finish
  <2>2. Unhandled(vm)' = {}
    BY Zenon, <2>1 DEF Unhandled
  <2>3. a = 0 /\ b = 0 /\ c = 1 /\ d = 0
    BY ZenonT(40), <2>1, <2>2, FS_EmptySet
  <2>4. 2 * 0 + 0 < 2 * 0 + 1
    OBVIOUS
  <2>. QED
    BY ZenonT(40), <1>0, <2>3, <2>4
<1>. QED
  BY ZenonT(40), <1>3, <1>4, <1>5 DEF driver_cb, Handle, recv

\* Of RxThread::run: a round of driver_cb has finitely many steps, for any
\* number of queues and any size of bursts.  Every step leaves less to do, and
\* no other thread adds to it.
THEOREM RoundsComeToAnEnd == Spec => RoundsEnd /\ [](\A vm \in Vms : RoundLeft(vm) \in Nat)
<1>1. IInv /\ [Next]_vars =>
        [\A vm \in Vms :
           /\ driver_cb(vm) /\ pc[vm] # "start" => RoundLeft(vm)' < RoundLeft(vm)
           /\ ~driver_cb(vm) => RoundLeft(vm)' = RoundLeft(vm)]_vars
  <2>. SUFFICES ASSUME IInv, [Next]_vars, NEW vm \in Vms
                PROVE  /\ driver_cb(vm) /\ pc[vm] # "start" => RoundLeft(vm)' < RoundLeft(vm)
                       /\ ~driver_cb(vm) => RoundLeft(vm)' = RoundLeft(vm)
    BY Zenon
  <2>0. TypeOK /\ ThreadInv
    BY Zenon DEF IInv
  <2>1. ASSUME ~driver_cb(vm) PROVE RoundLeft(vm)' = RoundLeft(vm)
    BY ZenonT(40), <2>0, <2>1, OtherThreads DEF RoundLeft
  <2>. QED
    BY ZenonT(40), <2>0, <2>1, OwnRound
<1>2. \A vm \in Vms : RoundLeft(vm) \in Nat
  <2>. SUFFICES ASSUME NEW vm \in Vms PROVE RoundLeft(vm) \in Nat
    OBVIOUS
  <2>1. \A a \in Nat : 2 * a + 0 \in Nat /\ 2 * a + 1 \in Nat
    OBVIOUS
  <2>. QED
    BY ZenonT(40), <2>1, UnhandledFinite DEF RoundLeft
<1>. QED
  BY <1>1, <1>2, InvariantHolds, PTL DEF Spec, RoundsEnd

\* Appending leaves what is there where it is.
LEMMA Stays ==
  ASSUME NEW S, NEW s \in Seq(S), NEW i \in DOMAIN s, NEW e \in S
  PROVE  i \in DOMAIN Append(s, e) /\ Append(s, e)[i] = s[i]
<1>1. i \in 1 .. Len(s) /\ Len(s) \in Nat
  OBVIOUS
<1>2. i \in DOMAIN Append(s, e)
  BY <1>1
<1>3. Append(s, e)[i] = s[i]
  BY <1>1
<1>. QED
  BY ZenonT(40), <1>2, <1>3

\* Tail moves it up.
LEMMA Moves ==
  ASSUME NEW S, NEW s \in Seq(S), NEW i \in DOMAIN s, NEW j, j = i - 1, j # 0
  PROVE  j \in DOMAIN Tail(s) /\ Tail(s)[j] = s[i]
<1>1. i \in 1 .. Len(s) /\ Len(s) \in Nat /\ DOMAIN s = 1 .. Len(s)
  OBVIOUS
<1>. QED
  BY <1>1

\* Of RxThread::run and Driver::inject_packets: the queue of packets that other
\* threads inject into an E810 moves up by one with every round, in order, and
\* loses no packet, however many threads push meanwhile.
THEOREM InjectedPacketsMoveUp == Spec => InjectedMoveUp
<1>. DEFINE Up(vm, i) == LET j == IF MovesUp(vm) THEN i - 1 ELSE i
                         IN  j = 0 \/ (j \in DOMAIN inject_packets'[vm]
                                       /\ inject_packets'[vm][j] = inject_packets[vm][i])
<1>1. IInv /\ [Next]_vars => [\A vm \in Vms : \A i \in DOMAIN inject_packets[vm] : Up(vm, i)]_vars
  <2>. SUFFICES ASSUME IInv, [Next]_vars, NEW vm \in Vms, NEW i \in DOMAIN inject_packets[vm]
                PROVE  Up(vm, i)
    BY Zenon
  <2>0. /\ TypeOK /\ ThreadInv /\ inject_packets \in [Vms -> Seq(Packets)]
        /\ pc \in [Vms -> {"start", "packets", "ethRx"}] /\ inject_packets[vm] \in Seq(Packets)
    BY Zenon DEF IInv, TypeOK
  <2>1. /\ i \in Nat /\ i # 0
        /\ \A e \in Packets : i \in DOMAIN Append(inject_packets[vm], e)
                              /\ Append(inject_packets[vm], e)[i] = inject_packets[vm][i]
        /\ i - 1 = 0 \/ (i - 1 \in DOMAIN Tail(inject_packets[vm])
                         /\ Tail(inject_packets[vm])[i - 1] = inject_packets[vm][i])
    <3>. DEFINE s == inject_packets[vm]
    <3>1. s \in Seq(Packets) /\ i \in DOMAIN s
      BY ZenonT(40), <2>0
    <3>. HIDE DEF s
    <3>2. i \in Nat /\ i # 0
      BY <3>1
    <3>3. ASSUME NEW e \in Packets PROVE i \in DOMAIN Append(s, e) /\ Append(s, e)[i] = s[i]
      BY <3>1, <3>3, Stays
    <3>4. i - 1 = 0 \/ (i - 1 \in DOMAIN Tail(s) /\ Tail(s)[i - 1] = s[i])
      BY ZenonT(40), <3>1, Moves
    <3>. QED
      BY ZenonT(40), <3>2, <3>3, <3>4 DEF s
  <2>2. ASSUME ~MovesUp(vm), inject_packets'[vm] = inject_packets[vm] PROVE Up(vm, i)
    BY Zenon, <2>2
  <2>3. ASSUME ~MovesUp(vm), NEW e \in Packets, inject_packets'[vm] = Append(inject_packets[vm], e)
        PROVE  Up(vm, i)
    BY Zenon, <2>1, <2>3
  <2>4. ASSUME NEW v \in Vms, Handle(v) PROVE Up(vm, i)
    <3>1. /\ \A w \in Vms : pc'[w] = "start" <=> pc[w] = "start"
          /\ CurrentPacket(v) \in Packets
      BY ZenonT(40), <2>0, <2>4, HandleType
    <3>2. ~MovesUp(vm)
      BY Zenon, <3>1 DEF MovesUp
    <3>3. CASE inject(v)
      <4>1. CASE vm = ptp_target_vm[v]
        <5>1. inject_packets'[vm] = Append(inject_packets[vm], CurrentPacket(v))
          BY ZenonT(40), <2>0, <3>3, <4>1 DEF inject
        <5>. QED
          BY ZenonT(40), <2>3, <3>1, <3>2, <5>1
      <4>2. CASE vm # ptp_target_vm[v]
        <5>1. inject_packets'[vm] = inject_packets[vm]
          BY ZenonT(40), <2>0, <3>3, <4>2 DEF inject
        <5>. QED
          BY Zenon, <2>2, <3>2, <5>1
      <4>. QED
        BY Zenon, <4>1, <4>2
    <3>4. CASE EthRx(v) \/ ethRx(v)
      BY ZenonT(40), <2>2, <3>2, <3>4 DEF EthRx, ethRx
    <3>. QED
      BY ZenonT(40), <2>4, <3>3, <3>4 DEF Handle
  <2>5. ASSUME NEW v \in Vms, recv(v) \/ rx_is_ready(v) PROVE Up(vm, i)
    <3>1. UNCHANGED inject_packets /\ (pc'[vm] = pc[vm] \/ pc'[vm] # "start")
      BY ZenonT(40), <2>0, <2>5 DEF recv, rx_is_ready
    <3>2. ~MovesUp(vm)
      BY <3>1 DEF MovesUp
    <3>. QED
      BY ZenonT(40), <2>2, <3>1, <3>2
  <2>6. ASSUME NEW v \in Vms, finish(v) PROVE Up(vm, i)
    <3>1. CASE v # vm
      <4>1. pc'[vm] = pc[vm] /\ inject_packets'[vm] = inject_packets[vm]
        BY ZenonT(40), <2>0, <2>6, <3>1 DEF finish, pop_injected
      <4>2. ~MovesUp(vm)
        BY <4>1 DEF MovesUp
      <4>. QED
        BY ZenonT(40), <2>2, <4>1, <4>2
    <3>2. CASE v = vm /\ vm \in e1000
      <4>1. inject_packets'[vm] = inject_packets[vm] /\ ~MovesUp(vm)
        BY Zenon, <2>6, <3>2 DEF finish, pop_injected, MovesUp
      <4>. QED
        BY Zenon, <2>2, <4>1
    <3>3. CASE v = vm /\ vm \notin e1000
      <4>1. inject_packets[vm] # <<>>
        OBVIOUS
      <4>2. MovesUp(vm)
        BY ZenonT(40), <2>0, <2>6, <3>3 DEF finish, MovesUp
      <4>3. inject_packets'[vm] = Tail(inject_packets[vm])
        BY ZenonT(40), <2>0, <2>6, <3>3, <4>1 DEF finish, pop_injected
      <4>. QED
        BY ZenonT(40), <2>1, <4>2, <4>3
    <3>. QED
      BY ZenonT(40), <3>1, <3>2, <3>3
  <2>7. ASSUME \/ \E to \in Vms \cup {Ptp}, e \in Etypes : nic_receive(to, e)
               \/ \E v \in Vms, e \in Etypes, d \in RuleQueues : add_rule(v, e, d)
               \/ Aside \/ UNCHANGED vars
        PROVE  Up(vm, i)
    <3>1. UNCHANGED <<pc, inject_packets>>
      BY <2>7, Zenon DEF nic_receive, add_rule, Aside, vars, threadVars
    <3>2. ~MovesUp(vm)
      BY <3>1 DEF MovesUp
    <3>. QED
      BY ZenonT(40), <2>2, <3>1, <3>2
  <2>. HIDE DEF Up
  <2>. QED
    BY ZenonT(40), <2>0, <2>4, <2>5, <2>6, <2>7, OtherSteps
<1>. QED
  BY <1>1, InvariantHolds, PTL DEF Spec, InjectedMoveUp

=============================================================================
