----------------------------- MODULE ReceivePath -----------------------------
(***************************************************************************)
(* Receiving packets with the DPDK driver: the RxThreads of the VMs run    *)
(* E810EmulatedDevice::driver_cb or E1000EmulatedDevice::driver_cb over    *)
(* their NIC queues, guests install switch rules, and PTP multicasts,      *)
(* which all arrive at the default device (VM 0), are handed by an E810    *)
(* to the VM whose turn it is.                                             *)
(*                                                                         *)
(* A packet is its number in the order of arrival; of its contents the     *)
(* destination address and the ethertype are kept.                         *)
(***************************************************************************)
EXTENDS Integers, FiniteSets, Sequences, Functions

CONSTANTS
  NumVms,             \* devices, E810 or E1000, each with an RxThread
  MAX_QUEUES_PER_VM,
  BURST_SIZE,
  Mediated,           \* VMs in mediation mode, if they are E810
  RssVms,             \* VMs whose driver keeps queue 0 for itself
  MaybeE1000,         \* VMs whose device may be an E1000
  Etypes,             \* ethertypes
  RuleQueues,         \* queue numbers that rules of guests name (a field of 11 bits)
  IdMod,              \* 2^16: queue numbers are uint16_t
  MaxPackets,         \* packets that arrive
  MaxRules            \* switch rules that guests add

Vms == 0 .. NumVms - 1
QueueIdx == 0 .. MAX_QUEUES_PER_VM - 1
NicQueues == 0 .. NumVms * MAX_QUEUES_PER_VM - 1
Ptp == -1             \* destination of PTP multicasts
None == -1

ASSUME ReceiveAssumption ==
  /\ NumVms \in Nat \ {0} /\ MAX_QUEUES_PER_VM \in Nat \ {0} /\ BURST_SIZE \in Nat \ {0}
  /\ Mediated \subseteq Vms /\ RssVms \subseteq Vms /\ MaybeE1000 \subseteq Vms
  /\ IdMod \in Nat /\ IdMod > NumVms * MAX_QUEUES_PER_VM /\ RuleQueues \subseteq 0 .. IdMod - 1
  /\ MaxPackets \in Nat /\ MaxRules \in Nat

VARIABLES
  arrived,            \* packets so far: [to, etype]
  flow,               \* NIC: queue for an address and ethertype
  ring,               \* NIC: packets waiting in its queues
  bufs,               \* the first nb_bufs_used entries of Dpdk::bufs, per queue
  freed,              \* how often the buffer of a packet was freed
  rules,              \* e810_switch::rules and rules_dst_queues, per VM
  ready,              \* VMs that have enabled their receive queues
  e1000,              \* VMs whose device is an E1000
  pc,                 \* driver_cb: "start", "packets", E1000: "ethRx"
  ptp_target_vm,      \* driver_cb: local copy of the target
  pos,                \* driver_cb: <<q_idx, i>>, where it continues
  inject_packets,     \* packets other devices have injected
  ptp_target_vm_idx,  \* target of each device
  old_id,             \* timer_cb: value it has loaded, or None
  output              \* packets in the order of EthRx: [packet, vm, queue]

nicVars == <<arrived, flow, ring>>
bufVars == <<bufs, freed>>
guestVars == <<rules, ready, e1000>>
threadVars == <<pc, ptp_target_vm, pos>>
vars == <<nicVars, bufVars, guestVars, threadVars, inject_packets, ptp_target_vm_idx, old_id, output>>

Packets == 1 .. Len(arrived)

\* State of the NIC queues, the threads and the devices.
TypeOK ==
  /\ arrived \in Seq([to : Vms \cup {Ptp}, etype : Etypes]) /\ Len(arrived) <= MaxPackets
  /\ flow \in [Vms \X Etypes -> NicQueues \cup {None}]
  /\ ring \in [NicQueues -> Seq(Packets)] /\ bufs \in [NicQueues -> Seq(Packets)]
  /\ \A q \in NicQueues : Len(bufs[q]) <= BURST_SIZE
  /\ freed \in [1 .. MaxPackets -> Nat]
  /\ rules \in [Vms -> Seq([etype : Etypes, queue : RuleQueues])]
  /\ ready \subseteq Vms /\ e1000 \subseteq Vms
  /\ pc \in [Vms -> {"start", "packets", "ethRx"}]
  /\ ptp_target_vm \in [Vms -> Vms \cup {None}]
  /\ pos \in [Vms -> QueueIdx \X (0 .. BURST_SIZE)]
  /\ inject_packets \in [Vms -> Seq(Packets)]
  /\ ptp_target_vm_idx \in [Vms -> Vms \cup {None}]
  /\ old_id \in Vms \cup {None}
  /\ output \in Seq([packet : Packets, vm : Vms, queue : Nat])

Init ==
  /\ arrived = <<>>
  /\ flow = [x \in Vms \X Etypes |-> None]
  /\ ring = [q \in NicQueues |-> <<>>]
  /\ bufs = [q \in NicQueues |-> <<>>]
  /\ freed = [p \in 1 .. MaxPackets |-> 0]
  /\ rules = [v \in Vms |-> <<>>] /\ ready = {}
  /\ e1000 \in SUBSET MaybeE1000
  /\ pc = [v \in Vms |-> "start"]
  /\ ptp_target_vm = [v \in Vms |-> None]
  /\ pos = [v \in Vms |-> <<0, 0>>]
  /\ inject_packets = [v \in Vms |-> <<>>]
  /\ ptp_target_vm_idx = [v \in Vms |-> None]
  /\ old_id = None
  /\ output = <<>>

-----------------------------------------------------------------------------
(* Dpdk: queue numbers and flow rules                                      *)

\* Defect: numbers of neighbouring VMs overlap.
get_rx_queue_id_overlap(vm, queue) == (vm * (MAX_QUEUES_PER_VM - 1) + queue) % IdMod

get_rx_queue_id(vm, queue) == (vm * MAX_QUEUES_PER_VM + queue) % IdMod

\* The NIC: the rule for address and ethertype, if there is one; otherwise the
\* first queue of the VM with the address; multicasts go to queue 0.
nic_receive(to, etype) ==
  LET q == IF to = Ptp THEN 0
           ELSE IF flow[<<to, etype>>] # None THEN flow[<<to, etype>>]
           ELSE get_rx_queue_id(to, 0)
  IN  /\ Len(arrived) < MaxPackets
      /\ arrived' = Append(arrived, [to |-> to, etype |-> etype])
      /\ ring' = [ring EXCEPT ![q] = Append(@, Len(arrived) + 1)]
      /\ UNCHANGED <<flow, bufVars, guestVars, threadVars, inject_packets,
                     ptp_target_vm_idx, old_id, output>>

\* Dpdk::add_switch_rule for an ethertype.  Nothing checks that the queue is one
\* of this VM.  The NIC may refuse a rule, and does if it has one with the same
\* pattern or does not have the queue.
add_switch_rule(vm, etype, dst_queue) ==
  \/ /\ vm \in Mediated /\ flow[<<vm, etype>>] = None
     /\ get_rx_queue_id(vm, dst_queue) \in NicQueues
     /\ flow' = [flow EXCEPT ![<<vm, etype>>] = get_rx_queue_id(vm, dst_queue)]
  \/ UNCHANGED flow

-----------------------------------------------------------------------------
(* The guests                                                              *)

\* e810_bm::vsi0_first_queue, set up before the first rule is added
vsi0_first_queue(vm) == IF vm \in RssVms THEN 1 ELSE 0

\* A queue of the guest as the NIC counts them, wherever it lies.
dst_queue_of(vm, queue_id) == (queue_id - vsi0_first_queue(vm)) % IdMod

\* e810_switch::add_rule: the emulated switch gets the rule and, through
\* E810EmulatedDevice::add_switch_etype_rule, the NIC.
add_rule(vm, etype, queue_id) ==
  /\ vm \notin e1000
  /\ Cardinality(UNION {{v} \X DOMAIN rules[v] : v \in Vms}) < MaxRules
  /\ rules' = [rules EXCEPT ![vm] = Append(@, [etype |-> etype, queue |-> queue_id])]
  /\ add_switch_rule(vm, etype, dst_queue_of(vm, queue_id))
  /\ UNCHANGED <<arrived, ring, bufVars, ready, e1000, threadVars, inject_packets,
                 ptp_target_vm_idx, old_id, output>>

\* The guest enables its receive queues.  An E1000 is ready only as long as its
\* receiver is enabled and has buffers; queues of an E810 are not disabled here
\* (E810Queue models that).
enable_queues(vm) ==
  /\ vm \notin ready \/ vm \in e1000
  /\ ready' = IF vm \in ready THEN ready \ {vm} ELSE ready \cup {vm}
  /\ UNCHANGED <<nicVars, bufVars, rules, e1000, threadVars, inject_packets,
                 ptp_target_vm_idx, old_id, output>>

\* PTPManager::set_enabled.  Only the default device gets PTP multicasts, so the
\* target of another device makes no difference.
set_enabled(vm) ==
  /\ vm \notin e1000
  /\ ptp_target_vm_idx' = [ptp_target_vm_idx EXCEPT ![vm] = 0]
  /\ UNCHANGED <<nicVars, bufVars, guestVars, threadVars, inject_packets, old_id, output>>

-----------------------------------------------------------------------------
(* PtpPolicy::timer_cb, on the main thread: load, then store               *)

timer_load ==
  /\ old_id = None /\ ptp_target_vm_idx[0] # None
  /\ old_id' = ptp_target_vm_idx[0]
  /\ UNCHANGED <<nicVars, bufVars, guestVars, threadVars, inject_packets,
                 ptp_target_vm_idx, output>>

\* Defect: the target is not wrapped.
next_target_not_wrapped(id) == id + 1

next_target(id) == (id + 1) % NumVms

timer_store ==
  /\ old_id # None
  /\ ptp_target_vm_idx' = [ptp_target_vm_idx EXCEPT ![0] = next_target(old_id)]
  /\ old_id' = None
  /\ UNCHANGED <<nicVars, bufVars, guestVars, threadVars, inject_packets, output>>

-----------------------------------------------------------------------------
(* lan::packet_received and e810_switch::select_queue                      *)

\* The first rule that matches the packet, if there is one.
MatchingRules(vm, p) ==
  {r \in DOMAIN rules[vm] : /\ rules[vm][r].etype = arrived[p].etype
                            /\ \A s \in 1 .. r - 1 : rules[vm][s].etype # arrived[p].etype}

\* Queue of the guest for a packet, with or without a hint from the NIC.
select_queue(vm, p, hint) ==
  IF hint # None THEN vsi0_first_queue(vm) + hint
  ELSE IF MatchingRules(vm, p) = {} THEN vsi0_first_queue(vm)
  ELSE rules[vm][CHOOSE r \in MatchingRules(vm, p) : TRUE].queue

\* Packets for queues that are not enabled are dropped.
packet_received(vm, p, hint) ==
  output' = IF vm \in ready
              THEN Append(output, [packet |-> p, vm |-> vm, queue |-> select_queue(vm, p, hint)])
              ELSE output

-----------------------------------------------------------------------------
(* driver_cb of the RxThread of vm.  Loading the target and recv form one  *)
(* step, and so do recv_consumed and the pop: the other threads touch      *)
(* neither the NIC queues of this VM nor its buffers.                      *)

\* Dpdk::recv: a burst from every queue of the VM that is not empty.
Burst(q) == IF Len(ring[q]) < BURST_SIZE THEN Len(ring[q]) ELSE BURST_SIZE
OwnQueues(vm) == {get_rx_queue_id(vm, q_idx) : q_idx \in QueueIdx}
Receives(vm, q) == q \in OwnQueues(vm) /\ ring[q] # <<>>

\* The target is loaded once for the whole burst.  An E1000 that is not ready
\* leaves its packets in the NIC.
recv(vm) ==
  /\ pc[vm] = "start"
  /\ vm \in e1000 => vm \in ready
  /\ ptp_target_vm' = [ptp_target_vm EXCEPT ![vm] = ptp_target_vm_idx[vm]]
  /\ bufs' = [q \in NicQueues |-> IF Receives(vm, q) THEN SubSeq(ring[q], 1, Burst(q)) ELSE bufs[q]]
  /\ ring' = [q \in NicQueues |-> IF Receives(vm, q)
                                    THEN SubSeq(ring[q], Burst(q) + 1, Len(ring[q])) ELSE ring[q]]
  /\ pc' = [pc EXCEPT ![vm] = "packets"]
  /\ UNCHANGED <<arrived, flow, freed, guestVars, pos, inject_packets, ptp_target_vm_idx,
                 old_id, output>>

\* Buffers of the burst that are still to be handled, as <<q_idx, i>>, the one
\* that is next, if any, and its packet.
Unhandled(vm) ==
  IF pc[vm] = "start" THEN {}
  ELSE {x \in QueueIdx \X (0 .. BURST_SIZE - 1) :
          /\ x[2] < Len(bufs[get_rx_queue_id(vm, x[1])])
          /\ x[1] > pos[vm][1] \/ (x[1] = pos[vm][1] /\ x[2] >= pos[vm][2])}
First(vm) ==
  {x \in Unhandled(vm) : \A y \in Unhandled(vm) : x[1] < y[1] \/ (x[1] = y[1] /\ x[2] <= y[2])}
Current(vm) == CHOOSE x \in First(vm) : TRUE
BufferOf(vm, x) == bufs[get_rx_queue_id(vm, x[1])][x[2] + 1]
CurrentPacket(vm) == BufferOf(vm, Current(vm))
next_packet(vm) == pos' = [pos EXCEPT ![vm] = <<Current(vm)[1], Current(vm)[2] + 1>>]

IsPtp(vm) == ptp_target_vm[vm] # None /\ arrived[CurrentPacket(vm)].to = Ptp

\* Defect: the packet is received here as well.
inject_and_receive(vm) ==
  /\ vm \notin e1000 /\ First(vm) # {} /\ IsPtp(vm)
  /\ inject_packets' = [inject_packets EXCEPT ![ptp_target_vm[vm]] = Append(@, CurrentPacket(vm))]
  /\ packet_received(vm, CurrentPacket(vm), None)
  /\ next_packet(vm)
  /\ UNCHANGED <<nicVars, bufVars, guestVars, pc, ptp_target_vm, ptp_target_vm_idx, old_id>>

\* A copy of a PTP packet goes to the device whose turn it is.
inject(vm) ==
  /\ vm \notin e1000 /\ First(vm) # {} /\ IsPtp(vm)
  /\ inject_packets' = [inject_packets EXCEPT ![ptp_target_vm[vm]] = Append(@, CurrentPacket(vm))]
  /\ next_packet(vm)
  /\ UNCHANGED <<nicVars, bufVars, guestVars, pc, ptp_target_vm, ptp_target_vm_idx, old_id, output>>

\* Other packets, and PTP packets that could not be pushed, are for this VM.
\* Only with mediation they carry the hint of the NIC.
EthRx(vm) ==
  /\ vm \notin e1000 /\ First(vm) # {}
  /\ packet_received(vm, CurrentPacket(vm), IF vm \in Mediated THEN Current(vm)[1] ELSE None)
  /\ next_packet(vm)
  /\ UNCHANGED <<nicVars, bufVars, guestVars, pc, ptp_target_vm, inject_packets,
                 ptp_target_vm_idx, old_id>>

\* while(!e1000_rx_is_ready): an E1000 keeps its burst until it is ready.
rx_is_ready(vm) ==
  /\ vm \in e1000 /\ pc[vm] = "packets" /\ First(vm) # {}
  /\ vm \in ready
  /\ pc' = [pc EXCEPT ![vm] = "ethRx"]
  /\ UNCHANGED <<nicVars, bufVars, guestVars, ptp_target_vm, pos, inject_packets,
                 ptp_target_vm_idx, old_id, output>>

\* E1000EmulatedDevice::ethRx, with vfu_ctx_mutex: the packet is dropped if the
\* guest has disabled its receiver in the meantime.
ethRx(vm) ==
  /\ pc[vm] = "ethRx"
  /\ output' = IF vm \in ready
                 THEN Append(output, [packet |-> CurrentPacket(vm), vm |-> vm, queue |-> 0])
                 ELSE output
  /\ next_packet(vm)
  /\ pc' = [pc EXCEPT ![vm] = "packets"]
  /\ UNCHANGED <<nicVars, bufVars, guestVars, ptp_target_vm, inject_packets,
                 ptp_target_vm_idx, old_id>>

\* Defect: the buffers are freed, but still count as used.
recv_consumed_keeps_count(vm) ==
  /\ freed' = [p \in 1 .. MaxPackets |->
                 freed[p] + Cardinality({q \in OwnQueues(vm) : p \in Range(bufs[q])})]
  /\ UNCHANGED bufs

\* Dpdk::recv_consumed
recv_consumed(vm) ==
  /\ freed' = [p \in 1 .. MaxPackets |->
                 freed[p] + Cardinality({q \in OwnQueues(vm) : p \in Range(bufs[q])})]
  /\ bufs' = [q \in NicQueues |-> IF q \in OwnQueues(vm) THEN <<>> ELSE bufs[q]]

\* Defect: injected packets wait for packets from the NIC.
pop_injected_with_traffic(vm) ==
  IF vm \in e1000 \/ inject_packets[vm] = <<>> \/ \A q \in OwnQueues(vm) : bufs[q] = <<>>
    THEN UNCHANGED <<inject_packets, output>>
    ELSE /\ packet_received(vm, Head(inject_packets[vm]), None)
         /\ inject_packets' = [inject_packets EXCEPT ![vm] = Tail(@)]

\* At most one injected packet is received in every round, by an E1000 none.
pop_injected(vm) ==
  IF vm \in e1000 \/ inject_packets[vm] = <<>>
    THEN UNCHANGED <<inject_packets, output>>
    ELSE /\ packet_received(vm, Head(inject_packets[vm]), None)
         /\ inject_packets' = [inject_packets EXCEPT ![vm] = Tail(@)]

finish(vm) ==
  /\ pc[vm] = "packets" /\ Unhandled(vm) = {}
  /\ recv_consumed(vm)
  /\ pop_injected(vm)
  /\ pc' = [pc EXCEPT ![vm] = "start"]
  /\ pos' = [pos EXCEPT ![vm] = <<0, 0>>]
  /\ ptp_target_vm' = [ptp_target_vm EXCEPT ![vm] = None]
  /\ UNCHANGED <<nicVars, guestVars, ptp_target_vm_idx, old_id>>

driver_cb(vm) == recv(vm) \/ inject(vm) \/ EthRx(vm) \/ rx_is_ready(vm) \/ ethRx(vm) \/ finish(vm)

timer_cb == timer_load \/ timer_store

Next ==
  \/ \E to \in Vms \cup {Ptp}, e \in Etypes : nic_receive(to, e)
  \/ \E vm \in Vms, e \in Etypes, q \in RuleQueues : add_rule(vm, e, q)
  \/ \E vm \in Vms : enable_queues(vm) \/ driver_cb(vm)
  \/ set_enabled(0)
  \/ timer_cb

\* Every RxThread polls all the time (RxThread::run).
Spec == Init /\ [][Next]_vars /\ \A vm \in Vms : WF_vars(driver_cb(vm))

-----------------------------------------------------------------------------
(* Properties                                                              *)

\* The places in which a packet is still, or has been delivered to.
Positions(seq, p) == {i \in DOMAIN seq : seq[i] = p}
Places(p) ==
  (UNION {{<<"ring", q, i>> : i \in Positions(ring[q], p)} : q \in NicQueues})
  \cup (UNION {{<<"burst", vm, x>> : x \in {y \in Unhandled(vm) : BufferOf(vm, y) = p}} : vm \in Vms})
  \cup (UNION {{<<"inject", vm, i>> : i \in Positions(inject_packets[vm], p)} : vm \in Vms})
  \cup {<<"output", 0, n>> : n \in {m \in DOMAIN output : output[m].packet = p}}

\* A packet exists once: in the NIC, in a burst, in an injection queue or at a
\* guest.  No guest gets a PTP packet that another one gets too (the continue
\* in driver_cb), and no guest gets a packet of an earlier burst again.
NoDuplicates == \A p \in Packets : Cardinality(Places(p)) <= 1

\* The buffer of a packet is freed once, after the packet has been handled:
\* driver_cb never reads a buffer that recv_consumed has given back.
FreedOnce ==
  /\ \A p \in Packets : freed[p] <= 1
  /\ \A vm \in Vms : \A x \in Unhandled(vm) : freed[BufferOf(vm, x)] = 0
  /\ \A p \in Packets : freed[p] = 0 =>
       \E q \in NicQueues : p \in Range(ring[q]) \cup Range(bufs[q])

\* The NIC queue that a rule of vm stands for, and the queues that are its own.
NicQueueOf(vm, queue_id) == get_rx_queue_id(vm, dst_queue_of(vm, queue_id))
GuestQueues(vm) == {vsi0_first_queue(vm) + k : k \in QueueIdx}

\* The guest of `to' has a rule for a queue it does not have, whose number is
\* that of a NIC queue of vm.
StraysInto(to, etype, vm) ==
  /\ to \in Mediated /\ to \notin e1000
  /\ \E r \in DOMAIN rules[to] :
       /\ rules[to][r].etype = etype /\ rules[to][r].queue \notin GuestQueues(to)
       /\ NicQueueOf(to, rules[to][r].queue) \in OwnQueues(vm)

\* Packets for the address of a VM are delivered to this VM, to a queue that a
\* rule of its guest names for the ethertype (without mediation: the first such
\* rule), or to its default queue if the rule was not there in time or the NIC
\* refused it.  Queue numbers survive the way through the NIC (get_rx_queue_id,
\* the hint and vsi0_first_queue).  There is one exception: if the guest with
\* that address itself has a rule for the ethertype and a queue it does not
\* have, its packets may reach the VM whose NIC queue has this number.
RightQueue ==
  \A n \in DOMAIN output :
    LET vm == output[n].vm
        to == arrived[output[n].packet].to
        etype == arrived[output[n].packet].etype
        named == {r \in DOMAIN rules[vm] : rules[vm][r].etype = etype}
        allowed == IF vm \in Mediated THEN named ELSE {r \in named : \A s \in named : r <= s}
    IN  \/ /\ to \in {vm, Ptp}
           /\ output[n].queue \in {rules[vm][r].queue : r \in allowed}
                                \cup {IF vm \in e1000 THEN 0 ELSE vsi0_first_queue(vm)}
        \/ to # Ptp /\ StraysInto(to, etype, vm)

\* Injected packets do not stay in the queue of an E810, whether or not it
\* receives packets of its own.  An E1000 never looks into its queue, although
\* the timer makes it the target like the others (ptp.hpp:78, main.cpp:335).
InjectedHandled ==
  (\E vm \in Vms \ e1000 : inject_packets[vm] # <<>>)
    ~> (\A vm \in Vms \ e1000 : inject_packets[vm] = <<>>)

-----------------------------------------------------------------------------
(* The inductive invariant behind the safety properties                    *)

\* The NIC queues that may be chosen for the address of a VM and an ethertype:
\* its first one, and those of rules the NIC was told.
MayGo(vm, etype, q) ==
  \/ q = get_rx_queue_id(vm, 0)
  \/ /\ vm \in Mediated /\ vm \notin e1000
     /\ \E r \in DOMAIN rules[vm] :
          rules[vm][r].etype = etype /\ q = NicQueueOf(vm, rules[vm][r].queue)

\* The NIC may have put the packet into queue q.
Sorted(p, q) ==
  \/ arrived[p].to = Ptp /\ q = 0
  \/ arrived[p].to \in Vms /\ MayGo(arrived[p].to, arrived[p].etype, q)

\* The packets of a queue whose buffers the driver has not freed.
Line(q) == bufs[q] \o ring[q]

SortedInv ==
  /\ \A vm \in Vms, e \in Etypes, q \in NicQueues : flow[<<vm, e>>] = q => MayGo(vm, e, q)
  /\ \A q \in NicQueues : \A i \in DOMAIN Line(q) : Sorted(Line(q)[i], q)
  /\ \A vm \in Vms : \A i \in DOMAIN inject_packets[vm] : arrived[inject_packets[vm][i]].to = Ptp

\* Between two rounds a thread has no buffers; an E1000 in ethRx has a packet.
ThreadInv ==
  \A vm \in Vms :
    /\ pc[vm] = "start" => /\ pos[vm] = <<0, 0>>
                           /\ \A q \in OwnQueues(vm) : bufs[q] = <<>>
    /\ pc[vm] = "ethRx" => vm \in e1000 /\ First(vm) # {}

\* No packet is twice in the NIC and the buffers, or twice behind them, and
\* none that waits in the NIC or in a burst is behind them already.
Ahead(p) == \E q \in NicQueues : p \in Range(ring[q])
Waiting(p) == \E vm \in Vms : \E x \in Unhandled(vm) : BufferOf(vm, x) = p
Behind(p) == \/ \E vm \in Vms : p \in Range(inject_packets[vm])
             \/ \E n \in DOMAIN output : output[n].packet = p
OnceInv ==
  /\ \A q, r \in NicQueues :
       \A i \in DOMAIN Line(q), j \in DOMAIN Line(r) : Line(q)[i] = Line(r)[j] => q = r /\ i = j
  /\ \A v, w \in Vms : \A i \in DOMAIN inject_packets[v], j \in DOMAIN inject_packets[w] :
       inject_packets[v][i] = inject_packets[w][j] => v = w /\ i = j
  /\ \A n, m \in DOMAIN output : output[n].packet = output[m].packet => n = m
  /\ \A n \in DOMAIN output, v \in Vms : \A i \in DOMAIN inject_packets[v] :
       output[n].packet # inject_packets[v][i]
  /\ \A p \in Packets : Behind(p) => ~Ahead(p) /\ ~Waiting(p)

\* The buffers that have not been freed are those in the NIC and in a burst.
FreedInv ==
  \A p \in 1 .. MaxPackets :
    freed[p] = IF p \in Packets /\ \A q \in NicQueues : p \notin Range(Line(q)) THEN 1 ELSE 0

IInv == TypeOK /\ SortedInv /\ ThreadInv /\ OnceInv /\ FreedInv /\ RightQueue

-----------------------------------------------------------------------------
(* Why injected packets are handled                                        *)

\* What driver_cb still has to do for its burst: per packet a step, for an
\* E1000 two, and recv_consumed.
RoundLeft(vm) == 2 * Cardinality(Unhandled(vm)) + (IF pc[vm] = "packets" THEN 1 ELSE 0)

\* A round of driver_cb comes to its end: every step of it leaves less to do,
\* and no other thread adds to it.
RoundsEnd ==
  [][\A vm \in Vms :
       /\ driver_cb(vm) /\ pc[vm] # "start" => RoundLeft(vm)' < RoundLeft(vm)
       /\ ~driver_cb(vm) => RoundLeft(vm)' = RoundLeft(vm)]_vars

\* Whoever injects packets meanwhile, the end of a round of an E810 takes the
\* first packet from its queue and moves the others up by one; nothing else
\* moves or removes an injected packet.
MovesUp(vm) == vm \notin e1000 /\ pc[vm] = "packets" /\ pc'[vm] = "start"
InjectedMoveUp ==
  [][\A vm \in Vms : \A i \in DOMAIN inject_packets[vm] :
       LET j == IF MovesUp(vm) THEN i - 1 ELSE i
       IN  j = 0 \/ (j \in DOMAIN inject_packets'[vm] /\ inject_packets'[vm][j] = inject_packets[vm][i])]_vars
=============================================================================
