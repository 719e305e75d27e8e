------------------------- MODULE VdpdkThreads_proofs -------------------------
(***************************************************************************)
(* Proofs about VdpdkThreads, for every number of devices, threshold,      *)
(* address set and bound.                                                  *)
(***************************************************************************)
EXTENDS VdpdkThreads, TLAPS

-----------------------------------------------------------------------------
(* VdpdkThreads::start                                                     *)

LEMMA MidFacts ==
  /\ Mid \in Nat
  /\ NumDevs % 2 \in {0, 1}
  /\ NumDevs = 2 * Mid + (NumDevs % 2)
BY CountAssumption DEF Mid

LEMMA SlotFacts ==
  ASSUME NEW i \in Slots
  PROVE  /\ i \in Devs
         /\ i \in Int
         /\ Positions(i) \subseteq {1, 2}
         /\ 1 \in Positions(i)
         /\ \A k \in Positions(i) : DevAt(i, k) \in Devs
BY MidFacts, CountAssumption DEF Slots, Devs, Positions, DevAt, Shared

\* No two positions of any slots are the same device: a device never gets two
\* rx threads or two tx threads from VdpdkThreads::start.
LEMMA ServedAtMostOnce ==
  ASSUME NEW i \in Slots, NEW j \in Slots,
         NEW k \in Positions(i), NEW l \in Positions(j),
         DevAt(i, k) = DevAt(j, l)
  PROVE  i = j /\ k = l
BY MidFacts, CountAssumption DEF Slots, Devs, Positions, DevAt, Shared

\* Every device is at some position of some slot.
LEMMA ServedAtLeastOnce ==
  ASSUME NEW d \in Devs
  PROVE  \E i \in Slots : \E k \in Positions(i) : DevAt(i, k) = d
<1>1. CASE d \in Slots
  BY <1>1, SlotFacts DEF DevAt
<1>2. CASE d \notin Slots
  <2>. DEFINE i == NumDevs - d - 1
  <2>1. /\ i \in Slots
        /\ 2 \in Positions(i)
        /\ DevAt(i, 2) = d
    BY <1>2, MidFacts, CountAssumption DEF Slots, Devs, Positions, DevAt, Shared
  <2>. QED  BY <2>1
<1>. QED  BY <1>1, <1>2

\* VdpdkThreads::start gives every device exactly one rx and one tx thread,
\* at one position, whatever the number of devices and the threshold are.
THEOREM EveryDeviceServedOnce ==
  ASSUME NEW d \in Devs
  PROVE  /\ \E i \in Slots : \E k \in Positions(i) : DevAt(i, k) = d
         /\ \A i, j \in Slots : \A k \in Positions(i), l \in Positions(j) :
              DevAt(i, k) = d /\ DevAt(j, l) = d => i = j /\ k = l
BY ServedAtLeastOnce, ServedAtMostOnce

LEMMA ThreadFacts ==
  ASSUME NEW t \in Threads
  PROVE  /\ t[1] \in {"rx", "tx"}
         /\ t[2] \in Slots
         /\ t = <<t[1], t[2]>>
BY DEF Threads

\* Two threads of the same kind that serve a device are the same thread.
LEMMA SameThread ==
  ASSUME NEW t \in Threads, NEW u \in Threads, t[1] = u[1],
         NEW k \in Positions(t[2]), NEW l \in Positions(u[2]),
         DevAt(t[2], k) = DevAt(u[2], l)
  PROVE  t = u /\ k = l
BY ThreadFacts, ServedAtMostOnce

LEMMA DevFacts ==
  ASSUME LockInv, NEW t \in Threads
  PROVE  /\ pos[t] \in Positions(t[2])
         /\ Dev(t) \in Devs
         /\ Dev(t) = DevAt(t[2], pos[t])
BY ThreadFacts, SlotFacts DEF LockInv, HeldInv, Dev

-----------------------------------------------------------------------------
(* Type correctness                                                        *)

LEMMA InitType == Init => TypeOK
BY CountAssumption DEF Init, TypeOK, RunnerStates, Ops, NoOp, Pcs, RxIdx

LEMMA GotoType ==
  ASSUME TypeOK, NEW t \in Threads, NEW l \in Pcs, Goto(t, l)
  PROVE  pc' \in [Threads -> Pcs]
BY DEF TypeOK, Goto

LEMMA SharedType ==
  ASSUME TypeOK, NEW d \in Devs, NEW S \in SUBSET Threads,
         shared' = [shared EXCEPT ![d] = S] \/ UNCHANGED shared
  PROVE  shared' \in [Devs -> SUBSET Threads]
BY Zenon DEF TypeOK

LEMMA EndPollType ==
  ASSUME TypeOK, NEW t \in Threads, EndPoll(t)
  PROVE  /\ pc' \in [Threads -> Pcs]
         /\ pos' \in [Threads -> {1, 2}]
         /\ inval' \in [Threads -> BOOLEAN]
         /\ queue' \in [Threads -> 0 .. MaxStarts]
         /\ q_idx' \in [Threads -> 0 .. NumRxQueues]
         /\ ring' \in [Threads -> Vaddr \cup {NULL}]
         /\ riova' \in [Threads -> Iova \cup {NULL}]
         /\ sent' \in [Threads -> 0 .. BurstSize]
<1>1. pc' \in [Threads -> Pcs] /\ pos' \in [Threads -> {1, 2}]
  BY Zenon DEF EndPoll, Goto, TypeOK, Pcs
<1>2. /\ inval' \in [Threads -> BOOLEAN]
      /\ ring' \in [Threads -> Vaddr \cup {NULL}]
      /\ riova' \in [Threads -> Iova \cup {NULL}]
  BY DEF EndPoll, TypeOK
<1>3. /\ queue' \in [Threads -> 0 .. MaxStarts]
      /\ q_idx' \in [Threads -> 0 .. NumRxQueues]
      /\ sent' \in [Threads -> 0 .. BurstSize]
  BY CountAssumption DEF EndPoll, TypeOK
<1>. QED  BY <1>1, <1>2, <1>3

LEMMA NextQueueType ==
  ASSUME TypeOK, NEW t \in Threads, NextQueue(t), q_idx[t] < NumRxQueues
  PROVE  /\ pc' \in [Threads -> Pcs]
         /\ pos' \in [Threads -> {1, 2}]
         /\ inval' \in [Threads -> BOOLEAN]
         /\ queue' \in [Threads -> 0 .. MaxStarts]
         /\ q_idx' \in [Threads -> 0 .. NumRxQueues]
         /\ ring' \in [Threads -> Vaddr \cup {NULL}]
         /\ riova' \in [Threads -> Iova \cup {NULL}]
         /\ sent' \in [Threads -> 0 .. BurstSize]
BY SMTT(30), Z3T(30), CountAssumption DEF NextQueue, Goto, TypeOK, Pcs

LEMMA RequestType ==
  ASSUME TypeOK, NEW d \in Devs, GuestRequest(d) \/ FinishRequest(d)
  PROVE  TypeOK'
<1>. USE DEF TypeOK, devVars, queueVars, localVars
<1>1. ASSUME NEW i \in Iova, NEW v \in Vaddr \cup {NULL}, dma_register_cb(d, i, v)
      PROVE  TypeOK'
  BY <1>1 DEF dma_register_cb, RunnerStates, Ops
<1>2. ASSUME NEW i \in Iova, dma_unregister_cb(d, i)
      PROVE  TypeOK'
  BY <1>2 DEF dma_unregister_cb, RunnerStates, Ops
<1>3. ASSUME NEW i \in Iova, TX_QUEUE_START(d, i)
      PROVE  TypeOK'
  <2>1. tx_starts[d] \in 0 .. MaxStarts /\ tx_starts[d] < MaxStarts
    BY Zenon, <1>3 DEF TX_QUEUE_START
  <2>2. tx_starts[d] + 1 \in 0 .. MaxStarts /\ tx_starts[d] + 1 \in 1 .. MaxStarts
    BY SMT, <2>1, CountAssumption
  <2>3. tx_starts' \in [Devs -> 0 .. MaxStarts] /\ tx_queue' \in [Devs -> 0 .. MaxStarts]
    BY Zenon, <1>3, <2>2 DEF TX_QUEUE_START
  <2>4. tx_iova' \in [Devs -> [1 .. MaxStarts -> Iova \cup {NULL}]]
    BY Zenon, <1>3, <2>2 DEF TX_QUEUE_START
  <2>. QED
    BY Zenon, <1>3, <2>3, <2>4 DEF TX_QUEUE_START
<1>4. CASE TX_QUEUE_STOP(d)
  BY Z3T(30), SMTT(30), <1>4, CountAssumption DEF TX_QUEUE_STOP
<1>5. ASSUME NEW q \in RxIdx, NEW i \in Iova, RX_QUEUE_START(d, q, i)
      PROVE  TypeOK'
  BY <1>5 DEF RX_QUEUE_START
<1>6. ASSUME NEW q \in RxIdx, RX_QUEUE_STOP(d, q)
      PROVE  TypeOK'
  BY <1>6 DEF RX_QUEUE_STOP
<1>7. CASE runner_exit(d)
  BY <1>7 DEF runner_exit, RunnerStates
<1>8. CASE dma_lock(d)
  BY <1>8 DEF dma_lock, RunnerStates
<1>9. CASE dma_clear(d)
  BY <1>9 DEF dma_clear, RunnerStates
<1>10. CASE dma_update(d)
  BY Zenon, <1>10 DEF dma_update, RunnerStates, Ops, NoOp
<1>. QED
  BY Zenon, <1>1, <1>2, <1>3, <1>4, <1>5, <1>6, <1>7, <1>8, <1>9, <1>10
     DEF GuestRequest, FinishRequest

LEMMA ThreadType ==
  ASSUME TypeOK, LockInv, RingInv, NEW t \in Threads,
         poll_thread(t) \/ request_stop(t)
  PROVE  TypeOK'
<1>. USE DEF devVars, queueVars, localVars
<1>0. /\ Dev(t) \in Devs
      /\ q_idx[t] \in 0 .. NumRxQueues
  BY DevFacts DEF TypeOK
<1>1. CASE acquire(t)
  BY ZenonT(40), <1>1, <1>0 DEF acquire, Goto, Pcs, TypeOK
<1>2. CASE loop(t)
  <2>1. pc' \in [Threads -> Pcs]
    <3>1. "done" \in Pcs /\ "test" \in Pcs
      BY DEF Pcs
    <3>2. Goto(t, "done") \/ Goto(t, "test")
      BY <1>2 DEF loop
    <3>. QED  BY <3>1, <3>2, GotoType
  <2>2. shared' \in [Devs -> SUBSET Threads]
    BY <1>2 DEF loop, TypeOK
  <2>. QED  BY <1>2, <2>1, <2>2 DEF loop, TypeOK
<1>3. CASE test(t)
  <2>1. pc' \in [Threads -> Pcs]
    <3>1. "spin" \in Pcs /\ "poll" \in Pcs
      BY DEF Pcs
    <3>2. Goto(t, "spin") \/ Goto(t, "poll")
      BY <1>3 DEF test
    <3>. QED  BY <3>1, <3>2, GotoType
  <2>2. shared' \in [Devs -> SUBSET Threads]
    <3>1. shared[Dev(t)] \ {t} \in SUBSET Threads
      BY <1>0 DEF TypeOK
    <3>2. shared' = [shared EXCEPT ![Dev(t)] = shared[Dev(t)] \ {t}] \/ UNCHANGED shared
      BY <1>3 DEF test
    <3>. QED  BY <3>1, <3>2, <1>0, SharedType
  <2>. QED  BY <1>3, <2>1, <2>2 DEF test, TypeOK
<1>4. CASE spin(t)
  BY <1>4 DEF spin, Goto, Pcs, TypeOK
<1>5. CASE relock(t)
  BY ZenonT(40), Z3T(30), SMTT(30), <1>5, <1>0 DEF relock, Goto, Pcs, TypeOK
<1>6. CASE tx_load(t)
  <2>1. CASE tx_queue[Dev(t)] = 0
    BY Zenon, <1>6, <2>1, EndPollType DEF tx_load, TypeOK
  <2>2. CASE tx_queue[Dev(t)] # 0
    <3>1. queue' \in [Threads -> 0 .. MaxStarts]
      <4>1. tx_queue[Dev(t)] \in 0 .. MaxStarts /\ queue \in [Threads -> 0 .. MaxStarts]
        BY <1>0 DEF TypeOK
      <4>2. queue' = [queue EXCEPT ![t] = tx_queue[Dev(t)]]
        BY Zenon, <1>6, <2>2 DEF tx_load
      <4>. QED  BY <4>1, <4>2
    <3>2. pc' \in [Threads -> Pcs]
      <4>1. "ring" \in Pcs
        BY DEF Pcs
      <4>2. Goto(t, "ring")
        BY Zenon, <1>6, <2>2 DEF tx_load
      <4>. QED  BY <4>1, <4>2, GotoType
    <3>. QED  BY SMTT(30), Z3T(30), ZenonT(40), <1>6, <2>2, <3>1, <3>2 DEF tx_load, TypeOK
  <2>. QED  BY <2>1, <2>2
<1>7. CASE tx_translate(t)
  <2>. DEFINE d == Dev(t)
              n == queue[t]
              r == mapping[d][tx_iova[d][n]]
  <2>0. n \in 1 .. MaxStarts /\ tx_iova[d][n] \in Iova /\ r \in Vaddr \cup {NULL}
    <3>1. t[1] = "tx" /\ pc[t] = "ring"
      BY <1>7 DEF tx_translate
    <3>2. TxInv(t, pos[t])
      BY SMTT(30), Z3T(30), ZenonT(40), <3>1, DevFacts DEF RingInv
    <3>3. n \in 1 .. tx_starts[d] /\ tx_starts[d] \in 0 .. MaxStarts
      BY <3>1, <3>2, DevFacts DEF TxInv, TypeOK
    <3>4. n \in 1 .. MaxStarts /\ n <= tx_starts[d]
      BY <3>3, CountAssumption
    <3>5. tx_iova[d][n] \in Iova
      BY Zenon, <3>2, <3>4, DevFacts DEF TxInv
    <3>. QED  BY <3>4, <3>5, <1>0 DEF TypeOK
  <2>3. [tx_ring EXCEPT ![d][n] = r] \in [Devs -> [1 .. MaxStarts -> Vaddr \cup {NULL}]]
    BY <2>0, <1>0 DEF TypeOK
  <2>1. CASE inval[t] \/ tx_ring[d][n] = NULL
    <3>0. tx_ring' = [tx_ring EXCEPT ![d][n] = r]
      BY <1>7, <2>1 DEF tx_translate
    <3>1. CASE r = NULL
      <4>1. EndPoll(t)
        BY <1>7, <2>1, <3>1 DEF tx_translate
      <4>2. tx_ring' \in [Devs -> [1 .. MaxStarts -> Vaddr \cup {NULL}]]
        BY <2>3, <3>0
      <4>3. tx_queue' \in [Devs -> 0 .. MaxStarts]
        BY Z3T(30), SMTT(30), <1>7, <2>1, <3>1, CountAssumption DEF tx_translate, TypeOK
      <4>. QED  BY Zenon, <1>7, <4>1, <4>2, <4>3, EndPollType DEF tx_translate, TypeOK
    <3>2. CASE r # NULL
      <4>1. pc' \in [Threads -> Pcs]
        <5>1. "use" \in Pcs
          BY DEF Pcs
        <5>2. Goto(t, "use")
          BY <1>7, <2>1, <3>2 DEF tx_translate
        <5>. QED  BY <5>1, <5>2, GotoType
      <4>2. tx_ring' \in [Devs -> [1 .. MaxStarts -> Vaddr \cup {NULL}]]
        BY <2>3, <3>0
      <4>. QED  BY ZenonT(40), Z3T(30), SMTT(30), <1>7, <2>1, <3>2, <4>1, <4>2 DEF tx_translate, TypeOK
    <3>. QED  BY <3>1, <3>2
  <2>2. CASE ~(inval[t] \/ tx_ring[d][n] = NULL)
    BY ZenonT(40), <1>7, <2>2 DEF tx_translate, Goto, Pcs, TypeOK
  <2>. QED  BY <2>1, <2>2
<1>8. CASE tx_descriptor(t)
  <2>1. descs' \in [Devs -> 0 .. MaxDescs]
    <3>1. descs[Dev(t)] \in 0 .. MaxDescs /\ descs[Dev(t)] > 0
      BY Zenon, <1>8, <1>0 DEF tx_descriptor, TypeOK
    <3>2. descs[Dev(t)] - 1 \in 0 .. MaxDescs
      BY SMT, <3>1, CountAssumption
    <3>. QED  BY Zenon, <1>8, <3>2 DEF tx_descriptor, TypeOK
  <2>2. sent' \in [Threads -> 0 .. BurstSize]
    <3>1. sent \in [Threads -> 0 .. BurstSize] /\ sent[t] < BurstSize
      BY <1>8 DEF tx_descriptor, TypeOK
    <3>2. sent[t] + 1 \in 0 .. BurstSize
      BY <3>1, CountAssumption
    <3>. QED  BY SMTT(30), Z3T(30), ZenonT(40), <1>8, <3>1, <3>2 DEF tx_descriptor
  <2>. QED  BY ZenonT(40), <1>8, <2>1, <2>2 DEF tx_descriptor, TypeOK
<1>9. CASE tx_bad_iova(t)
  <2>1. tx_queue' \in [Devs -> 0 .. MaxStarts]
    <3>1. tx_queue \in [Devs -> 0 .. MaxStarts] /\ 0 \in 0 .. MaxStarts
      BY CountAssumption DEF TypeOK
    <3>2. tx_queue' = [tx_queue EXCEPT ![Dev(t)] = 0]
      BY Zenon, <1>9 DEF tx_bad_iova
    <3>. QED  BY Zenon, <3>1, <3>2
  <2>. QED  BY Zenon, <1>9, <2>1, EndPollType DEF tx_bad_iova, TypeOK
<1>10. CASE tx_send(t)
  BY Zenon, <1>10, EndPollType DEF tx_send, TypeOK
<1>11. ASSUME NEW i \in Iova \cup {NULL}, Resolve(t, i), q_idx[t] < NumRxQueues,
              UNCHANGED <<devVars, shared, queueVars, descs, stop>>
       PROVE  TypeOK'
  <2>1. CASE i = NULL \/ mapping[Dev(t)][i] = NULL
    BY Zenon, <1>11, <2>1, NextQueueType DEF Resolve, TypeOK
  <2>2. CASE ~(i = NULL \/ mapping[Dev(t)][i] = NULL)
    <3>1. mapping[Dev(t)][i] \in Vaddr \cup {NULL}
      BY <2>2, <1>0 DEF TypeOK
    <3>2. ring' \in [Threads -> Vaddr \cup {NULL}]
      BY Zenon, <1>11, <2>2, <3>1 DEF Resolve, TypeOK
    <3>3. riova' \in [Threads -> Iova \cup {NULL}]
      BY Zenon, <1>11, <2>2 DEF Resolve, TypeOK
    <3>4. pc' \in [Threads -> Pcs]
      BY Zenon, <1>11, <2>2 DEF Resolve, Goto, Pcs, TypeOK
    <3>. QED  BY SMTT(30), Z3T(30), ZenonT(40), <1>11, <2>2, <3>2, <3>3, <3>4 DEF Resolve, TypeOK
  <2>. QED  BY <2>1, <2>2
<1>12. CASE rx_load(t)
  <2>1. CASE NextQueue(t)
    BY Zenon, <1>12, <2>1, NextQueueType DEF rx_load, TypeOK
  <2>2. CASE Goto(t, "fallback") /\ UNCHANGED <<pos, localVars>>
    BY ZenonT(40), SMTT(30), Z3T(30), <1>12, <2>2 DEF rx_load, Goto, Pcs, TypeOK
  <2>3. CASE /\ q_idx[t] < NumRxQueues
             /\ Resolve(t, rx_queues[Dev(t)][q_idx[t]])
    <3>1. rx_queues[Dev(t)][q_idx[t]] \in Iova \cup {NULL}
      BY SMTT(30), Z3T(30), ZenonT(40), <2>3, <1>0, CountAssumption DEF RxIdx, TypeOK
    <3>. QED  BY Zenon, <1>12, <2>3, <3>1, <1>11 DEF rx_load
  <2>. QED  BY Zenon, <1>12, <2>1, <2>2, <2>3 DEF rx_load
<1>13. CASE rx_fallback(t)
  <2>1. q_idx[t] < NumRxQueues
    BY <1>13 DEF rx_fallback, RingInv, RxInv
  <2>2. rx_queues[Dev(t)][0] \in Iova \cup {NULL}
    BY SMTT(30), Z3T(30), <1>0, CountAssumption DEF RxIdx, TypeOK
  <2>. QED  BY Zenon, <1>13, <2>1, <2>2, <1>11 DEF rx_fallback
<1>14. CASE rx_packet(t)
  <2>1. descs' \in [Devs -> 0 .. MaxDescs]
    BY Z3T(30), SMTT(30), <1>14, <1>0, CountAssumption DEF rx_packet, TypeOK
  <2>. QED  BY ZenonT(40), Z3T(30), SMTT(30), <1>14, <2>1 DEF rx_packet, TypeOK
<1>15. CASE rx_break(t)
  <2>1. q_idx[t] < NumRxQueues
    BY Zenon, <1>15 DEF rx_break, RingInv, RxInv
  <2>. QED  BY Zenon, <1>15, <2>1, NextQueueType DEF rx_break, TypeOK
<1>16. CASE rx_return(t)
  BY ZenonT(40), <1>16, EndPollType DEF rx_return, TypeOK
<1>17. CASE request_stop(t)
  BY <1>17 DEF request_stop, TypeOK
<1>. QED
  BY <1>1, <1>2, <1>3, <1>4, <1>5, <1>6, <1>7, <1>8, <1>9, <1>10,
     <1>12, <1>13, <1>14, <1>15, <1>16, <1>17 DEF poll_thread

-----------------------------------------------------------------------------
(* The mutexes                                                             *)

LEMMA InitLock == Init => LockInv
<1>. SUFFICES ASSUME Init PROVE LockInv
  OBVIOUS
<1>1. ASSUME NEW t \in Threads
      PROVE  HeldInv(t)
  <2>1. pos[t] = 1 /\ pc[t] = "acquire"
    BY DEF Init
  <2>2. \A k \in Positions(t[2]) : ~(k < 1)
    BY ThreadFacts, SlotFacts
  <2>. QED  BY <2>1, <2>2, ThreadFacts, SlotFacts DEF HeldInv, Holds
<1>. QED  BY <1>1 DEF Init, LockInv

\* The places where a thread holds the mutexes of all its devices.
Busy == {"loop", "test", "poll", "fallback", "ring", "use"}

\* A request of the guest takes no mutex; the runner is idle before it.
LEMMA GuestRequestRunner ==
  ASSUME TypeOK, NEW d \in Devs, GuestRequest(d)
  PROVE  /\ UNCHANGED exclusive
         /\ runner[d] = "idle"
         /\ \E r \in {"idle", "flagged", "exited"} : runner' = [runner EXCEPT ![d] = r]
<1>. USE DEF devVars
<1>0. runner[d] = "idle" => runner = [runner EXCEPT ![d] = "idle"]
  BY DEF TypeOK
<1>1. ASSUME NEW i \in Iova, NEW v \in Vaddr \cup {NULL}, dma_register_cb(d, i, v)
      PROVE  UNCHANGED exclusive /\ runner[d] = "idle" /\ runner' = [runner EXCEPT ![d] = "flagged"]
  BY Zenon, <1>1 DEF dma_register_cb
<1>2. ASSUME NEW i \in Iova, dma_unregister_cb(d, i)
      PROVE  UNCHANGED exclusive /\ runner[d] = "idle" /\ runner' = [runner EXCEPT ![d] = "flagged"]
  BY Zenon, <1>2 DEF dma_unregister_cb
<1>3. ASSUME \/ \E i \in Iova : TX_QUEUE_START(d, i)
             \/ TX_QUEUE_STOP(d)
             \/ \E q \in RxIdx, i \in Iova : RX_QUEUE_START(d, q, i)
             \/ \E q \in RxIdx : RX_QUEUE_STOP(d, q)
      PROVE  UNCHANGED exclusive /\ runner[d] = "idle" /\ runner' = runner
  BY Zenon, <1>3 DEF TX_QUEUE_START, TX_QUEUE_STOP, RX_QUEUE_START, RX_QUEUE_STOP
<1>4. ASSUME runner_exit(d)
      PROVE  UNCHANGED exclusive /\ runner[d] = "idle" /\ runner' = [runner EXCEPT ![d] = "exited"]
  BY Zenon, <1>4 DEF runner_exit
<1>. QED  BY Zenon, <1>0, <1>1, <1>2, <1>3, <1>4 DEF GuestRequest

LEMMA RequestLock ==
  ASSUME TypeOK, LockInv, NEW d \in Devs, GuestRequest(d) \/ FinishRequest(d)
  PROVE  LockInv'
<1>1. UNCHANGED <<shared, pc, pos>>
  BY DEF GuestRequest, FinishRequest, dma_register_cb, dma_unregister_cb, TX_QUEUE_START,
         TX_QUEUE_STOP, RX_QUEUE_START, RX_QUEUE_STOP, runner_exit, dma_lock, dma_clear, dma_update
<1>2. \A t \in Threads : HeldInv(t)'
  BY <1>1 DEF LockInv, HeldInv, Holds
<1>. USE DEF TypeOK, devVars
<1>3. CASE dma_lock(d)
  BY ZenonT(40), SMTT(30), Z3T(30), <1>2, <1>3 DEF dma_lock, LockInv
<1>4. CASE dma_clear(d)
  BY ZenonT(40), <1>2, <1>4 DEF dma_clear, LockInv
<1>5. CASE dma_update(d)
  BY <1>2, <1>5 DEF dma_update, LockInv
<1>6. CASE GuestRequest(d)
  <2>1. /\ UNCHANGED exclusive
        /\ runner[d] = "idle"
        /\ \E r \in {"idle", "flagged", "exited"} : runner' = [runner EXCEPT ![d] = r]
    BY ZenonT(40), <1>6, GuestRequestRunner
  <2>. QED  BY <1>1, <1>2, <2>1 DEF LockInv
<1>. QED  BY ZenonT(40), <1>3, <1>4, <1>5, <1>6 DEF FinishRequest

\* A step of thread t concerns its own locks only, and takes none that is
\* held exclusively.
LEMMA ThreadLockFrame ==
  ASSUME TypeOK, LockInv, NEW t \in Threads,
         UNCHANGED <<exclusive, runner>>,
         \A u \in Threads \ {t} : pc'[u] = pc[u] /\ pos'[u] = pos[u],
         \A d \in Devs : shared'[d] \ {t} = shared[d] \ {t},
         \A d \in Devs : t \in shared'[d] => t \in shared[d] \/ ~exclusive[d],
         HeldInv(t)'
  PROVE  LockInv'
<1>1. ASSUME NEW u \in Threads
      PROVE  HeldInv(u)'
  <2>1. CASE u = t
    BY SMTT(30), Z3T(30), ZenonT(40), <2>1
  <2>2. CASE u # t
    <3>1. pc'[u] = pc[u] /\ pos'[u] = pos[u] /\ HeldInv(u)
      BY <2>2 DEF LockInv
    <3>2. ASSUME NEW k \in Positions(u[2]), Holds(u, k)'
          PROVE  u \in shared'[DevAt(u[2], k)]
      <4>1. Holds(u, k)
        BY <3>1, <3>2 DEF Holds
      <4>2. u \in shared[DevAt(u[2], k)] /\ DevAt(u[2], k) \in Devs
        BY SMTT(30), Z3T(30), ZenonT(40), <3>1, <4>1, ThreadFacts, SlotFacts DEF HeldInv
      <4>. QED  BY <4>2, <2>2
    <3>. QED  BY <3>1, <3>2 DEF HeldInv
  <2>. QED  BY <2>1, <2>2
<1>2. ASSUME NEW d \in Devs, exclusive'[d]
      PROVE  shared'[d] = {}
  BY <1>2 DEF LockInv
<1>. QED  BY Zenon, <1>1, <1>2 DEF LockInv

LEMMA EndPollPos ==
  ASSUME TypeOK, LockInv, NEW t \in Threads, EndPoll(t)
  PROVE  /\ pc'[t] \in {"test", "loop"}
         /\ pos'[t] \in Positions(t[2])
         /\ \A u \in Threads \ {t} : pc'[u] = pc[u] /\ pos'[u] = pos[u]
<1>0. 1 \in Positions(t[2]) /\ pc \in [Threads -> Pcs] /\ pos \in [Threads -> {1, 2}]
  BY ThreadFacts, SlotFacts DEF TypeOK
<1>1. CASE pos[t] = 1 /\ 2 \in Positions(t[2])
  BY <1>0, <1>1 DEF EndPoll, Goto
<1>2. CASE ~(pos[t] = 1 /\ 2 \in Positions(t[2]))
  BY <1>0, <1>2 DEF EndPoll, Goto
<1>. QED  BY <1>1, <1>2

\* A step between two places at which t holds all its mutexes.
LEMMA BusyLock ==
  ASSUME TypeOK, LockInv, NEW t \in Threads,
         UNCHANGED <<exclusive, runner, shared>>,
         pc[t] \in Busy, pc'[t] \in Busy, pos'[t] \in Positions(t[2]),
         \A u \in Threads \ {t} : pc'[u] = pc[u] /\ pos'[u] = pos[u]
  PROVE  LockInv'
<1>1. HeldInv(t)'
  BY DEF LockInv, HeldInv, Holds, Busy
<1>. QED  BY <1>1, ThreadLockFrame

LEMMA ThreadLock ==
  ASSUME TypeOK, LockInv, RingInv, NEW t \in Threads,
         poll_thread(t) \/ request_stop(t)
  PROVE  LockInv'
<1>. USE DEF devVars, queueVars, localVars
<1>0. /\ pos[t] \in Positions(t[2])
      /\ pos[t] \in {1, 2}
      /\ Dev(t) \in Devs
      /\ Dev(t) = DevAt(t[2], pos[t])
      /\ t[2] \in Slots
      /\ Positions(t[2]) \subseteq {1, 2}
      /\ 1 \in Positions(t[2])
      /\ \A k \in Positions(t[2]) : DevAt(t[2], k) \in Devs
      /\ HeldInv(t)
  BY ZenonT(40), DevFacts, ThreadFacts, SlotFacts DEF TypeOK, LockInv
<1>a. /\ pc \in [Threads -> Pcs]
      /\ pos \in [Threads -> {1, 2}]
      /\ shared \in [Devs -> SUBSET Threads]
  BY DEF TypeOK
<1>1. CASE acquire(t)
  <2>1. /\ pc[t] = "acquire" /\ ~exclusive[Dev(t)]
        /\ shared' = [shared EXCEPT ![Dev(t)] = @ \cup {t}]
        /\ UNCHANGED <<exclusive, runner>>
    BY <1>1 DEF acquire
  <2>2. ASSUME NEW k \in Positions(t[2]), k < pos[t] \/ k = pos[t]
        PROVE  t \in shared'[DevAt(t[2], k)]
    BY <2>1, <2>2, <1>0, <1>a DEF HeldInv, Holds
  <2>3. CASE pos[t] = 1 /\ 2 \in Positions(t[2])
    <3>1. pc' = pc /\ pos' = [pos EXCEPT ![t] = 2]
      BY <1>1, <2>3 DEF acquire
    <3>2. HeldInv(t)'
      BY SMTT(30), Z3T(30), ZenonT(40), <3>1, <2>1, <2>2, <2>3, <1>0, <1>a DEF HeldInv, Holds
    <3>. QED  BY SMTT(30), Z3T(30), ZenonT(40), <3>1, <3>2, <2>1, <1>0, <1>a, ThreadLockFrame
  <2>4. CASE ~(pos[t] = 1 /\ 2 \in Positions(t[2]))
    <3>1. pc' = [pc EXCEPT ![t] = "loop"] /\ pos' = [pos EXCEPT ![t] = 1]
      BY ZenonT(40), <1>1, <2>4 DEF acquire, Goto
    <3>2. \A k \in Positions(t[2]) : k < pos[t] \/ k = pos[t]
      <4>1. \A k \in {1, 2} : k = 1 \/ k = 2
        BY Zenon
      <4>2. 1 < 2
        BY SMT
      <4>. QED  BY Zenon, <2>4, <1>0, <4>1, <4>2
    <3>3. HeldInv(t)'
      BY <3>1, <3>2, <2>2, <1>0, <1>a DEF HeldInv
    <3>. QED  BY <3>1, <3>3, <2>1, <1>0, <1>a, ThreadLockFrame
  <2>. QED  BY Zenon, <2>3, <2>4
<1>2. CASE loop(t)
  <2>1. CASE t \in stop
    <3>1. /\ shared' = [d \in Devs |-> shared[d] \ {t}]
          /\ pc' = [pc EXCEPT ![t] = "done"]
          /\ UNCHANGED <<exclusive, runner, pos>>
      BY <1>2, <2>1 DEF loop, Goto
    <3>2. HeldInv(t)'
      BY <3>1, <1>0, <1>a DEF HeldInv, Holds
    <3>. QED  BY <3>1, <3>2, <1>a, ThreadLockFrame
  <2>2. CASE t \notin stop
    <3>1. /\ pc[t] = "loop"
          /\ pc' = [pc EXCEPT ![t] = "test"]
          /\ UNCHANGED <<exclusive, runner, pos, shared>>
      BY <1>2, <2>2 DEF loop, Goto
    <3>. QED  BY <3>1, <1>0, <1>a, BusyLock DEF Busy
  <2>. QED  BY <2>1, <2>2
<1>3. CASE test(t)
  <2>1. CASE dma_flag[Dev(t)]
    <3>1. /\ pc[t] = "test"
          /\ shared' = [shared EXCEPT ![Dev(t)] = @ \ {t}]
          /\ pc' = [pc EXCEPT ![t] = "spin"]
          /\ UNCHANGED <<exclusive, runner, pos>>
      BY <1>3, <2>1 DEF test, Goto
    <3>2. ASSUME NEW k \in Positions(t[2]), k # pos[t]
          PROVE  t \in shared'[DevAt(t[2], k)]
      <4>1. DevAt(t[2], k) # Dev(t)
        BY <3>2, <1>0, ServedAtMostOnce
      <4>2. t \in shared[DevAt(t[2], k)]
        BY <3>1, <1>0 DEF HeldInv, Holds
      <4>. QED  BY ZenonT(40), <4>1, <4>2, <3>1, <1>0, <1>a
    <3>3. HeldInv(t)'
      BY <3>1, <3>2, <1>0, <1>a DEF HeldInv, Holds
    <3>. QED  BY <3>1, <3>3, <1>0, <1>a, ThreadLockFrame
  <2>2. CASE ~dma_flag[Dev(t)]
    <3>1. /\ pc[t] = "test"
          /\ pc' = [pc EXCEPT ![t] = "poll"]
          /\ UNCHANGED <<exclusive, runner, pos, shared>>
      BY <1>3, <2>2 DEF test, Goto
    <3>. QED  BY <3>1, <1>0, <1>a, BusyLock DEF Busy
  <2>. QED  BY ZenonT(40), <2>1, <2>2
<1>4. CASE spin(t)
  <2>1. /\ pc[t] = "spin"
        /\ pc' = [pc EXCEPT ![t] = "relock"]
        /\ UNCHANGED <<exclusive, runner, pos, shared>>
    BY <1>4 DEF spin, Goto
  <2>2. HeldInv(t)'
    BY <2>1, <1>0, <1>a DEF HeldInv, Holds
  <2>. QED  BY <2>1, <2>2, <1>a, ThreadLockFrame
<1>5. CASE relock(t)
  <2>1. /\ pc[t] = "relock" /\ ~exclusive[Dev(t)]
        /\ shared' = [shared EXCEPT ![Dev(t)] = @ \cup {t}]
        /\ pc' = [pc EXCEPT ![t] = "poll"]
        /\ UNCHANGED <<exclusive, runner, pos>>
    BY <1>5 DEF relock, Goto
  <2>2. ASSUME NEW k \in Positions(t[2])
        PROVE  t \in shared'[DevAt(t[2], k)]
    BY <2>1, <1>0, <1>a DEF HeldInv, Holds
  <2>3. HeldInv(t)'
    BY SMTT(30), Z3T(30), ZenonT(40), <2>1, <2>2, <1>0, <1>a DEF HeldInv
  <2>. QED  BY <2>1, <2>3, <1>0, <1>a, ThreadLockFrame
<1>6. ASSUME pc[t] \in Busy, EndPoll(t), UNCHANGED <<exclusive, runner, shared>>
      PROVE  LockInv'
  BY <1>6, EndPollPos, BusyLock DEF Busy
<1>7. ASSUME pc[t] \in Busy, NEW l \in Busy, Goto(t, l), UNCHANGED <<exclusive, runner, shared, pos>>
      PROVE  LockInv'
  BY SMTT(30), Z3T(30), ZenonT(40), <1>7, <1>0, <1>a, BusyLock DEF Goto
<1>8. CASE tx_load(t)
  BY ZenonT(40), SMTT(30), Z3T(30), <1>8, <1>6, <1>7 DEF tx_load, Busy
<1>9. CASE tx_translate(t)
  BY <1>9, <1>6, <1>7 DEF tx_translate, Busy
<1>10. CASE tx_descriptor(t) \/ rx_packet(t) \/ request_stop(t)
  BY ZenonT(40), <1>10 DEF tx_descriptor, rx_packet, request_stop, LockInv, HeldInv, Holds
<1>11. CASE tx_bad_iova(t) \/ tx_send(t) \/ rx_return(t)
  BY <1>11, <1>6 DEF tx_bad_iova, tx_send, rx_return, Busy
<1>12. CASE rx_load(t) \/ rx_fallback(t) \/ rx_break(t)
  BY Zenon, <1>12, <1>7 DEF rx_load, rx_fallback, rx_break, Resolve, NextQueue, Busy
<1>. QED
  BY ZenonT(40), <1>1, <1>2, <1>3, <1>4, <1>5, <1>8, <1>9, <1>10, <1>11, <1>12 DEF poll_thread

-----------------------------------------------------------------------------
(* The translated rings                                                    *)

LEMMA InitRing == Init => RingInv
<1>. SUFFICES ASSUME Init PROVE RingInv
  OBVIOUS
<1>1. ASSUME NEW t \in Threads
      PROVE  pc[t] = "acquire"
  BY ZenonT(40), SMTT(30), Z3T(30) DEF Init
<1>2. ASSUME NEW t \in Threads, NEW k \in Positions(t[2])
      PROVE  TxInv(t, k)
  <2>1. DevAt(t[2], k) \in Devs
    BY <1>2, ThreadFacts, SlotFacts
  <2>. QED  BY <1>1, <2>1, CountAssumption DEF Init, TxInv, Fresh
<1>3. ASSUME NEW t \in Threads
      PROVE  RxInv(t)
  BY ZenonT(40), Z3T(30), SMTT(30), <1>1 DEF RxInv
<1>. QED  BY <1>1, <1>2, <1>3 DEF RingInv

\* A mapping only changes while no poll thread holds the mutex.
LEMMA UpdateRing ==
  ASSUME TypeOK, LockInv, RingInv, NEW d \in Devs, dma_update(d)
  PROVE  RingInv'
<1>. USE DEF queueVars, localVars
<1>1. /\ UNCHANGED <<tx_queue, tx_iova, tx_ring, tx_starts, pc, pos, inval, queue, q_idx, ring, riova>>
      /\ \A e \in Devs : e # d => mapping'[e] = mapping[e]
      /\ shared[d] = {}
  BY Zenon DEF dma_update, TypeOK, LockInv
<1>2. ASSUME NEW t \in Threads, NEW k \in Positions(t[2]), t[1] = "tx"
      PROVE  TxInv(t, k)'
  <2>. DEFINE e == DevAt(t[2], k)
  <2>1. e \in Devs /\ TxInv(t, k)
    BY <1>2, ThreadFacts, SlotFacts DEF RingInv
  <2>2. CASE e # d
    <3>1. mapping'[e] = mapping[e]
      BY <2>1, <2>2, <1>1
    <3>. QED  BY Zenon, <1>1, <2>1, <3>1 DEF TxInv, Fresh, WillTranslate
  <2>3. CASE e = d
    <3>1. ~Holds(t, k)
      BY <2>3, <1>1 DEF LockInv, HeldInv
    <3>2. CASE pc[t] = "acquire"
      <4>1. tx_queue[e] # 0 => tx_queue[e] \in 1 .. MaxStarts
        <5>1. tx_queue[e] \in 0 .. MaxStarts
          BY Zenon, <2>1 DEF TypeOK
        <5>. QED  BY SMT, <5>1, CountAssumption
      <4>2. \A n \in 1 .. MaxStarts : tx_ring[e][n] = NULL
        BY Zenon, <2>1, <3>2 DEF TxInv
      <4>3. tx_queue[e] # 0 => tx_ring[e][tx_queue[e]] = NULL
        BY Zenon, <4>1, <4>2
      <4>. QED  BY Zenon, <1>1, <2>1, <3>2, <4>3 DEF TxInv, Fresh
    <3>3. CASE pc[t] = "done" \/ (pc[t] \in {"spin", "relock"} /\ k = pos[t])
      BY Zenon, <3>3, <1>1, <2>1 DEF TxInv, WillTranslate
    <3>. QED  BY SMTT(30), Z3T(30), ZenonT(40), <3>1, <3>2, <3>3 DEF Holds
  <2>. QED  BY <2>2, <2>3
<1>3. ASSUME NEW t \in Threads, t[1] = "rx"
      PROVE  RxInv(t)'
  <2>1. RxInv(t) /\ Dev(t) \in Devs /\ Dev(t)' = Dev(t)
    BY Zenon, <1>1, <1>3, DevFacts DEF RingInv, Dev
  <2>2. CASE pc[t] = "use"
    <3>1. Holds(t, pos[t])
      BY <2>2 DEF Holds
    <3>2. t \in shared[Dev(t)]
      <4>1. HeldInv(t)
        BY ZenonT(40) DEF LockInv
      <4>. QED  BY Zenon, <3>1, <4>1, DevFacts DEF HeldInv
    <3>3. mapping'[Dev(t)] = mapping[Dev(t)]
      BY SMTT(30), Z3T(30), ZenonT(40), <3>2, <1>1, <2>1
    <3>. QED  BY Zenon, <3>3, <2>1, <1>1 DEF RxInv
  <2>3. CASE pc[t] # "use"
    BY ZenonT(40), <2>3, <2>1, <1>1 DEF RxInv
  <2>. QED  BY <2>2, <2>3
<1>. QED  BY <1>1, <1>2, <1>3 DEF RingInv

LEMMA RequestRing ==
  ASSUME TypeOK, LockInv, RingInv, NEW d \in Devs, GuestRequest(d) \/ FinishRequest(d)
  PROVE  RingInv'
<1>. USE DEF devVars, queueVars, localVars
<1>1. CASE dma_update(d)
  BY <1>1, UpdateRing
<1>2. CASE UNCHANGED <<mapping, tx_queue, tx_iova, tx_ring, tx_starts,
                       pc, pos, inval, queue, q_idx, ring, riova>>
  <2>1. ASSUME NEW t \in Threads, NEW k \in Positions(t[2]), t[1] = "tx"
        PROVE  TxInv(t, k)'
    <3>1. TxInv(t, k)
      BY Zenon, <2>1 DEF RingInv
    <3>. QED  BY Zenon, <1>2, <3>1 DEF TxInv, Fresh, WillTranslate
  <2>2. ASSUME NEW t \in Threads, t[1] = "rx"
        PROVE  RxInv(t)'
    BY Zenon, <1>2, <2>2 DEF RingInv, RxInv, Dev
  <2>. QED  BY Zenon, <1>2, <2>1, <2>2 DEF RingInv
<1>3. ASSUME NEW t \in Threads, t[1] = "rx",
             UNCHANGED <<mapping, pc, pos, q_idx, ring, riova>>
      PROVE  RxInv(t)'
  BY Zenon, <1>3 DEF RingInv, RxInv, Dev
<1>4. ASSUME NEW i \in Iova, TX_QUEUE_START(d, i)
      PROVE  RingInv'
  <2>0. PICK n \in 1 .. MaxStarts : n = tx_starts[d] + 1
    BY SMTT(30), Z3T(30), <1>4, CountAssumption DEF TX_QUEUE_START, TypeOK
  <2>1. /\ tx_starts[d] \in Nat
        /\ tx_starts' = [tx_starts EXCEPT ![d] = n]
        /\ tx_iova' = [tx_iova EXCEPT ![d][n] = i]
        /\ tx_queue' = [tx_queue EXCEPT ![d] = n]
        /\ UNCHANGED <<mapping, tx_ring, pc, pos, inval, queue, q_idx, ring, riova>>
    BY <1>4, <2>0, CountAssumption DEF TX_QUEUE_START, TypeOK
  <2>2. ASSUME NEW t \in Threads, NEW k \in Positions(t[2]), t[1] = "tx"
        PROVE  TxInv(t, k)'
    <3>. DEFINE e == DevAt(t[2], k)
    <3>1. e \in Devs /\ TxInv(t, k)
      BY <2>2, ThreadFacts, SlotFacts DEF RingInv
    <3>2. CASE e # d
      <4>1. tx_queue'[e] = tx_queue[e] /\ tx_starts'[e] = tx_starts[e] /\ tx_iova'[e] = tx_iova[e]
        BY ZenonT(40), <3>1, <3>2, <2>1 DEF TypeOK
      <4>. QED  BY ZenonT(40), <4>1, <3>1, <2>1 DEF TxInv, Fresh, WillTranslate
    <3>3. CASE e = d
      <4>1. /\ tx_queue'[e] = n /\ tx_starts'[e] = n /\ tx_iova'[e][n] = i
            /\ \A m \in 1 .. MaxStarts : m # n => tx_iova'[e][m] = tx_iova[e][m]
        BY Zenon, <3>1, <3>3, <2>1 DEF TypeOK
      <4>2. tx_ring[e][n] = NULL
        BY SMTT(30), Z3T(30), ZenonT(40), <3>1, <3>3, <2>0, <2>1 DEF TxInv
      <4>3. Fresh(e, n)'
        BY ZenonT(40), <4>2, <2>1 DEF Fresh
      <4>4. /\ \A m \in 1 .. MaxStarts : m <= n => tx_iova'[e][m] \in Iova
            /\ \A m \in 1 .. MaxStarts : m > n => tx_ring'[e][m] = NULL
        BY Z3T(30), SMTT(30), <4>1, <3>1, <3>3, <2>0, <2>1 DEF TxInv
      <4>5. ASSUME pos[t] = k, pc[t] \in {"ring", "use"}
            PROVE  /\ queue'[t] \in 1 .. n
                   /\ \A m \in 1 .. MaxStarts : m > queue'[t] => tx_ring'[e][m] = NULL
                   /\ ~WillTranslate(t, k)' => Fresh(e, queue[t])'
                   /\ pc'[t] = "use" => tx_ring'[e][queue'[t]] # NULL
        <5>1. PICK q : q = queue[t]
          OBVIOUS
        <5>2. /\ q \in 1 .. tx_starts[e]
              /\ \A m \in 1 .. MaxStarts : m > q => tx_ring[e][m] = NULL
              /\ ~WillTranslate(t, k) => Fresh(e, q)
              /\ pc[t] = "use" => tx_ring[e][q] # NULL
          BY Zenon, <5>1, <4>5, <3>1 DEF TxInv
        <5>3. q # n /\ q \in 1 .. n /\ q \in 1 .. MaxStarts
          <6>1. q \in 1 .. tx_starts[d]
            BY ZenonT(40), <5>2, <3>3
          <6>. QED  BY <6>1, <2>0, <2>1, CountAssumption
        <5>4. ~WillTranslate(t, k)' => Fresh(e, q)'
          BY ZenonT(40), <5>2, <5>3, <4>1, <2>1 DEF Fresh, WillTranslate
        <5>. QED  BY <5>1, <5>2, <5>3, <5>4, <2>1
      <4>6. pc'[t] = "acquire" => \A m \in 1 .. MaxStarts : tx_ring'[e][m] = NULL
        BY ZenonT(40), <3>1, <2>1 DEF TxInv
      <4>7. Fresh(e, tx_queue[e])'
        BY <4>1, <4>3
      <4>. QED  BY <4>1, <4>4, <4>5, <4>6, <4>7, <2>1 DEF TxInv
    <3>. QED  BY <3>2, <3>3
  <2>. QED  BY Z3T(30), SMTT(30), ZenonT(40), <2>1, <2>2, <1>3 DEF RingInv
<1>5. CASE TX_QUEUE_STOP(d)
  <2>1. /\ tx_queue' = [tx_queue EXCEPT ![d] = 0]
        /\ UNCHANGED <<mapping, tx_iova, tx_ring, tx_starts, pc, pos, inval, queue, q_idx, ring, riova>>
    BY <1>5 DEF TX_QUEUE_STOP
  <2>2. ASSUME NEW t \in Threads, NEW k \in Positions(t[2]), t[1] = "tx"
        PROVE  TxInv(t, k)'
    <3>1. DevAt(t[2], k) \in Devs /\ TxInv(t, k)
      BY SMTT(30), Z3T(30), ZenonT(40), <2>2, ThreadFacts, SlotFacts DEF RingInv
    <3>2. tx_queue'[DevAt(t[2], k)] \in {0, tx_queue[DevAt(t[2], k)]}
      BY <2>1, <3>1 DEF TypeOK
    <3>. QED  BY Zenon, <2>1, <3>1, <3>2 DEF TxInv, Fresh, WillTranslate
  <2>. QED  BY Zenon, <2>1, <2>2, <1>3 DEF RingInv
<1>. QED
  BY <1>1, <1>2, <1>4, <1>5 DEF GuestRequest, FinishRequest, dma_register_cb, dma_unregister_cb,
     RX_QUEUE_START, RX_QUEUE_STOP, runner_exit, dma_lock, dma_clear

\* TxInv only reads the locals of its thread and the queue of its device.
LEMMA TxSame ==
  ASSUME NEW u \in Threads, NEW l \in Positions(u[2]), TxInv(u, l),
         UNCHANGED <<mapping, tx_iova, tx_starts>>,
         tx_ring'[DevAt(u[2], l)] = tx_ring[DevAt(u[2], l)],
         tx_queue'[DevAt(u[2], l)] = tx_queue[DevAt(u[2], l)],
         pc'[u] = pc[u], pos'[u] = pos[u], inval'[u] = inval[u], queue'[u] = queue[u]
  PROVE  TxInv(u, l)'
BY ZenonT(40) DEF TxInv, Fresh, WillTranslate

\* What the locals of the other threads and the queues of the devices that
\* thread t is not polling have in common before and after a step of t.
LEMMA ThreadRingFrame ==
  ASSUME TypeOK, LockInv, RingInv, NEW t \in Threads,
         UNCHANGED <<mapping, tx_iova, tx_starts>>,
         \A u \in Threads \ {t} :
            /\ pc'[u] = pc[u] /\ pos'[u] = pos[u] /\ inval'[u] = inval[u] /\ queue'[u] = queue[u]
            /\ q_idx'[u] = q_idx[u] /\ ring'[u] = ring[u] /\ riova'[u] = riova[u],
         \A d \in Devs : t[1] # "tx" \/ d # Dev(t) =>
            tx_ring'[d] = tx_ring[d] /\ tx_queue'[d] = tx_queue[d],
         t[1] = "tx" => pc'[t] # "fallback" /\ \A k \in Positions(t[2]) : TxInv(t, k)',
         t[1] = "rx" => RxInv(t)'
  PROVE  RingInv'
<1>1. ASSUME NEW u \in Threads \ {t}, u[1] = "tx", NEW l \in Positions(u[2])
      PROVE  TxInv(u, l)'
  <2>. DEFINE e == DevAt(u[2], l)
  <2>1. e \in Devs /\ TxInv(u, l)
    BY <1>1, ThreadFacts, SlotFacts DEF RingInv
  <2>2. t[1] # "tx" \/ e # Dev(t)
    <3>. SUFFICES ASSUME t[1] = u[1], e = Dev(t) PROVE FALSE
      BY Zenon, <1>1
    <3>1. pos[t] \in Positions(t[2]) /\ e = DevAt(t[2], pos[t])
      BY Zenon, DevFacts
    <3>2. t = u
      BY ZenonT(40), <1>1, <3>1, SameThread
    <3>. QED  BY Zenon, <1>1, <3>2
  <2>3. tx_ring'[e] = tx_ring[e] /\ tx_queue'[e] = tx_queue[e]
    BY Zenon, <2>1, <2>2
  <2>4. pc'[u] = pc[u] /\ pos'[u] = pos[u] /\ inval'[u] = inval[u] /\ queue'[u] = queue[u]
    OBVIOUS
  <2>. QED  BY Zenon, <2>1, <2>3, <2>4, TxSame
<1>2. ASSUME NEW u \in Threads \ {t}, u[1] = "rx"
      PROVE  RxInv(u)'
  BY ZenonT(40), <1>2 DEF RingInv, RxInv, Dev
<1>3. ASSUME NEW u \in Threads \ {t}, u[1] = "tx"
      PROVE  pc'[u] # "fallback"
  BY ZenonT(40), <1>3 DEF RingInv
<1>. QED  BY Zenon, <1>1, <1>2, <1>3 DEF RingInv

\* A step of a tx thread that leaves the queue at position k alone, and after
\* which the thread is not inside tx_poll of that device.
LEMMA TxFrame ==
  ASSUME TypeOK, NEW t \in Threads, NEW k \in Positions(t[2]), TxInv(t, k),
         UNCHANGED <<mapping, tx_iova, tx_starts>>,
         tx_ring'[DevAt(t[2], k)] = tx_ring[DevAt(t[2], k)],
         tx_queue'[DevAt(t[2], k)] = tx_queue[DevAt(t[2], k)],
         pc[t] # "done",
         \/ ~WillTranslate(t, k)
         \/ WillTranslate(t, k)'
         \/ tx_queue[DevAt(t[2], k)] = 0,
         ~(pos'[t] = k /\ pc'[t] \in {"ring", "use"}),
         pc'[t] = "acquire" => pc[t] = "acquire"
  PROVE  TxInv(t, k)'
<1>. DEFINE d == DevAt(t[2], k)
<1>1. /\ tx_queue'[d] \in {0, tx_starts'[d]}
      /\ \A n \in 1 .. MaxStarts : n <= tx_starts'[d] => tx_iova'[d][n] \in Iova
      /\ \A n \in 1 .. MaxStarts : n > tx_starts'[d] => tx_ring'[d][n] = NULL
      /\ pc'[t] = "acquire" => \A n \in 1 .. MaxStarts : tx_ring'[d][n] = NULL
  BY Zenon DEF TxInv
<1>2. ASSUME tx_queue'[d] # 0, ~WillTranslate(t, k)'
      PROVE  Fresh(d, tx_queue[d])'
  BY Zenon, <1>2 DEF TxInv, Fresh
<1>. QED  BY Zenon, <1>1, <1>2 DEF TxInv

\* Returning from a poll moves thread t on and clears its locals.
LEMMA EndPollLocals ==
  ASSUME TypeOK, LockInv, NEW t \in Threads, EndPoll(t)
  PROVE  /\ pc'[t] \in {"test", "loop"}
         /\ \A u \in Threads \ {t} :
            /\ pc'[u] = pc[u] /\ pos'[u] = pos[u] /\ inval'[u] = inval[u] /\ queue'[u] = queue[u]
            /\ q_idx'[u] = q_idx[u] /\ ring'[u] = ring[u] /\ riova'[u] = riova[u]
BY ZenonT(40), EndPollPos DEF EndPoll, TypeOK

LEMMA NextQueueLocals ==
  ASSUME TypeOK, NEW t \in Threads, NextQueue(t)
  PROVE  /\ pc'[t] = "poll"
         /\ \A u \in Threads \ {t} :
            /\ pc'[u] = pc[u] /\ pos'[u] = pos[u] /\ inval'[u] = inval[u] /\ queue'[u] = queue[u]
            /\ q_idx'[u] = q_idx[u] /\ ring'[u] = ring[u] /\ riova'[u] = riova[u]
BY DEF NextQueue, Goto, TypeOK

\* Steps of rx_callback_fn after which the ring is not in use.
LEMMA RxIdle ==
  ASSUME TypeOK, LockInv, RingInv, NEW t \in Threads, t[1] = "rx",
         UNCHANGED <<mapping, tx_iova, tx_starts, tx_ring, tx_queue>>,
         pc'[t] \notin {"ring", "fallback", "use"},
         \A u \in Threads \ {t} :
            /\ pc'[u] = pc[u] /\ pos'[u] = pos[u] /\ inval'[u] = inval[u] /\ queue'[u] = queue[u]
            /\ q_idx'[u] = q_idx[u] /\ ring'[u] = ring[u] /\ riova'[u] = riova[u]
  PROVE  RingInv'
<1>1. RxInv(t)'
  BY ZenonT(40) DEF RxInv
<1>. QED  BY Zenon, <1>1, ThreadRingFrame

LEMMA RxResolve ==
  ASSUME TypeOK, LockInv, RingInv, NEW t \in Threads, t[1] = "rx",
         UNCHANGED <<mapping, tx_iova, tx_starts, tx_ring, tx_queue>>,
         NEW i \in Iova \cup {NULL}, q_idx[t] < NumRxQueues, Resolve(t, i)
  PROVE  RingInv'
<1>1. CASE NextQueue(t)
  BY ZenonT(40), <1>1, NextQueueLocals, RxIdle
<1>2. CASE /\ i # NULL /\ mapping[Dev(t)][i] # NULL
           /\ riova' = [riova EXCEPT ![t] = i]
           /\ ring' = [ring EXCEPT ![t] = mapping[Dev(t)][i]]
           /\ Goto(t, "use")
           /\ UNCHANGED <<pos, inval, queue, q_idx, sent>>
  <2>1. /\ pc'[t] = "use" /\ riova'[t] = i /\ ring'[t] = mapping[Dev(t)][i]
        /\ pos'[t] = pos[t] /\ q_idx'[t] = q_idx[t]
    BY ZenonT(40), <1>2 DEF Goto, TypeOK
  <2>2. \A u \in Threads \ {t} :
            /\ pc'[u] = pc[u] /\ pos'[u] = pos[u] /\ inval'[u] = inval[u] /\ queue'[u] = queue[u]
            /\ q_idx'[u] = q_idx[u] /\ ring'[u] = ring[u] /\ riova'[u] = riova[u]
    BY <1>2 DEF Goto, TypeOK
  <2>3. RxInv(t)'
    BY Zenon, <1>2, <2>1 DEF RxInv, Dev
  <2>. QED  BY Zenon, <2>2, <2>3, ThreadRingFrame
<1>. QED  BY ZenonT(40), <1>1, <1>2 DEF Resolve

\* An rx thread touches no tx queue, and uses a ring right after it
\* translated its address.
LEMMA RxRing ==
  ASSUME TypeOK, LockInv, RingInv, NEW t \in Threads, t[1] = "rx", poll_thread(t)
  PROVE  RingInv'
<1>. USE DEF devVars, queueVars, localVars
<1>0. /\ Dev(t) \in Devs /\ RxInv(t)
      /\ q_idx[t] \in 0 .. NumRxQueues
  BY DevFacts DEF RingInv, TypeOK
<1>1. CASE acquire(t) \/ loop(t) \/ test(t) \/ spin(t) \/ relock(t)
  <2>1. UNCHANGED <<mapping, tx_iova, tx_starts, tx_ring, tx_queue, q_idx, ring, riova, queue>>
    BY Zenon, <1>1 DEF acquire, loop, test, spin, relock
  <2>2. /\ pc'[t] \notin {"ring", "fallback", "use"}
        /\ \A u \in Threads \ {t} : pc'[u] = pc[u] /\ pos'[u] = pos[u] /\ inval'[u] = inval[u]
    <3>1. pc \in [Threads -> Pcs] /\ pos \in [Threads -> {1, 2}] /\ inval \in [Threads -> BOOLEAN]
      BY DEF TypeOK
    <3>. QED  BY Zenon, <1>1, <3>1 DEF acquire, loop, test, spin, relock, Goto
  <2>. QED  BY Zenon, <2>1, <2>2, RxIdle
<1>2. CASE rx_load(t)
  <2>1. UNCHANGED <<mapping, tx_iova, tx_starts, tx_ring, tx_queue>> /\ q_idx[t] < NumRxQueues
    BY <1>2 DEF rx_load
  <2>2. CASE NextQueue(t)
    BY ZenonT(40), <2>1, <2>2, NextQueueLocals, RxIdle
  <2>3. CASE Goto(t, "fallback") /\ UNCHANGED <<pos, localVars>>
    <3>1. pc \in [Threads -> Pcs]
      BY DEF TypeOK
    <3>2. pc'[t] = "fallback" /\ \A u \in Threads \ {t} : pc'[u] = pc[u]
      BY <2>3, <3>1 DEF Goto
    <3>3. RxInv(t)'
      BY Zenon, <2>1, <2>3, <3>2 DEF RxInv
    <3>. QED  BY SMTT(30), Z3T(30), ZenonT(40), <2>1, <2>3, <3>2, <3>3, ThreadRingFrame
  <2>4. CASE Resolve(t, rx_queues[Dev(t)][q_idx[t]])
    <3>1. rx_queues[Dev(t)][q_idx[t]] \in Iova \cup {NULL}
      BY SMTT(30), Z3T(30), ZenonT(40), <2>1, <1>0, CountAssumption DEF RxIdx, TypeOK
    <3>. QED  BY ZenonT(40), <2>1, <2>4, <3>1, RxResolve
  <2>. QED  BY ZenonT(40), <1>2, <2>2, <2>3, <2>4 DEF rx_load
<1>3. CASE rx_fallback(t)
  <2>1. /\ UNCHANGED <<mapping, tx_iova, tx_starts, tx_ring, tx_queue>>
        /\ q_idx[t] < NumRxQueues
    BY Zenon, <1>3, <1>0 DEF rx_fallback, RxInv
  <2>2. rx_queues[Dev(t)][0] \in Iova \cup {NULL}
    BY SMTT(30), Z3T(30), ZenonT(40), <1>0, CountAssumption DEF RxIdx, TypeOK
  <2>. QED  BY Zenon, <1>3, <2>1, <2>2, RxResolve DEF rx_fallback
<1>4. CASE rx_packet(t)
  <2>1. UNCHANGED <<mapping, tx_iova, tx_starts, tx_ring, tx_queue, pc, pos, localVars>>
    BY ZenonT(40), <1>4 DEF rx_packet
  <2>2. RxInv(t)'
    BY ZenonT(40), <2>1, <1>0 DEF RxInv, Dev
  <2>. QED  BY Zenon, <2>1, <2>2, ThreadRingFrame
<1>5. CASE rx_break(t)
  <2>1. UNCHANGED <<mapping, tx_iova, tx_starts, tx_ring, tx_queue>> /\ NextQueue(t)
    BY ZenonT(40), <1>5 DEF rx_break
  <2>. QED  BY ZenonT(40), <2>1, NextQueueLocals, RxIdle
<1>6. CASE rx_return(t)
  <2>1. UNCHANGED <<mapping, tx_iova, tx_starts, tx_ring, tx_queue>> /\ EndPoll(t)
    BY ZenonT(40), <1>6 DEF rx_return
  <2>. QED  BY ZenonT(40), <2>1, EndPollLocals, RxIdle
<1>7. ~(tx_load(t) \/ tx_translate(t) \/ tx_descriptor(t) \/ tx_bad_iova(t) \/ tx_send(t))
  BY DEF tx_load, tx_translate, tx_descriptor, tx_bad_iova, tx_send
<1>. QED  BY ZenonT(40), <1>1, <1>2, <1>3, <1>4, <1>5, <1>6, <1>7 DEF poll_thread

\* A step of tx thread t that changes at most the queue at its own position
\* p, for which TxInv is known to hold afterwards.
LEMMA TxOwn ==
  ASSUME TypeOK, LockInv, RingInv, NEW t \in Threads, t[1] = "tx",
         UNCHANGED <<mapping, tx_iova, tx_starts>>,
         \A d \in Devs : d # Dev(t) => tx_ring'[d] = tx_ring[d] /\ tx_queue'[d] = tx_queue[d],
         \A u \in Threads \ {t} :
            /\ pc'[u] = pc[u] /\ pos'[u] = pos[u] /\ inval'[u] = inval[u] /\ queue'[u] = queue[u]
            /\ q_idx'[u] = q_idx[u] /\ ring'[u] = ring[u] /\ riova'[u] = riova[u],
         pc[t] # "done",
         pc'[t] # "fallback",
         pc'[t] = "acquire" => pc[t] = "acquire",
         pos'[t] = pos[t] \/ pc'[t] \notin {"ring", "use"},
         NEW p \in Positions(t[2]), p = pos[t], TxInv(t, p)'
  PROVE  RingInv'
<1>1. ASSUME NEW k \in Positions(t[2]), k # p
      PROVE  TxInv(t, k)'
  <2>1. TxInv(t, k) /\ DevAt(t[2], k) \in Devs /\ DevAt(t[2], k) # Dev(t)
    <3>1. Dev(t) = DevAt(t[2], p) /\ t[2] \in Slots
      BY ZenonT(40), DevFacts, ThreadFacts
    <3>2. DevAt(t[2], k) # DevAt(t[2], p)
      BY ZenonT(40), Z3T(30), SMTT(30), <1>1, <3>1, ServedAtMostOnce
    <3>. QED  BY ZenonT(40), <3>1, <3>2, SlotFacts DEF RingInv
  <2>2. ~WillTranslate(t, k) /\ ~(pos'[t] = k /\ pc'[t] \in {"ring", "use"})
    BY ZenonT(40), <1>1 DEF WillTranslate
  <2>3. /\ tx_ring'[DevAt(t[2], k)] = tx_ring[DevAt(t[2], k)]
        /\ tx_queue'[DevAt(t[2], k)] = tx_queue[DevAt(t[2], k)]
    BY <2>1
  <2>. QED  BY Zenon, <2>1, <2>2, <2>3, TxFrame
<1>2. \A k \in Positions(t[2]) : TxInv(t, k)'
  BY Zenon, <1>1
<1>. QED  BY Zenon, <1>2, ThreadRingFrame

\* The steps of a tx thread outside tx_poll.
LEMMA TxOutside ==
  ASSUME TypeOK, LockInv, RingInv, NEW t \in Threads, t[1] = "tx",
         acquire(t) \/ loop(t) \/ test(t) \/ spin(t) \/ relock(t)
  PROVE  RingInv'
<1>. USE DEF devVars, queueVars, localVars
<1>0. PICK p \in Positions(t[2]) : p = pos[t]
  BY DevFacts
<1>1. UNCHANGED <<mapping, tx_iova, tx_starts, tx_ring, tx_queue, q_idx, ring, riova, queue>>
  BY Zenon DEF acquire, loop, test, spin, relock
<1>2. /\ pc[t] # "done" /\ pc'[t] \notin {"ring", "use", "fallback"}
      /\ pc'[t] = "acquire" => pc[t] = "acquire"
      /\ \/ pc[t] \notin {"spin", "relock", "poll", "ring"}
         \/ pos'[t] = pos[t] /\ pc'[t] = "relock"
         \/ pos'[t] = pos[t] /\ pc'[t] = "poll" /\ inval'[t]
      /\ \A u \in Threads \ {t} : pc'[u] = pc[u] /\ pos'[u] = pos[u] /\ inval'[u] = inval[u]
  <2>1. pc \in [Threads -> Pcs] /\ pos \in [Threads -> {1, 2}] /\ inval \in [Threads -> BOOLEAN]
    BY ZenonT(40) DEF TypeOK
  <2>2. CASE acquire(t)
    BY ZenonT(40), <2>1, <2>2 DEF acquire, Goto
  <2>3. CASE loop(t)
    BY ZenonT(40), <2>1, <2>3 DEF loop, Goto
  <2>4. CASE test(t)
    BY ZenonT(40), <2>1, <2>4 DEF test, Goto
  <2>5. CASE spin(t)
    BY ZenonT(40), <2>1, <2>5 DEF spin, Goto
  <2>6. CASE relock(t)
    BY <2>1, <2>6 DEF relock, Goto
  <2>. QED  BY ZenonT(40), <2>2, <2>3, <2>4, <2>5, <2>6
<1>3. ~WillTranslate(t, p) \/ WillTranslate(t, p)'
  BY Zenon, <1>0, <1>2 DEF WillTranslate
<1>4. TxInv(t, p)'
  <2>1. TxInv(t, p)
    BY Zenon DEF RingInv
  <2>. QED  BY Zenon, <2>1, <1>1, <1>2, <1>3, TxFrame
<1>. QED  BY ZenonT(40), <1>0, <1>1, <1>2, <1>4, TxOwn

\* tx_poll translates the ring of the queue it loaded, and leaves every queue
\* it can find installed later untranslated or freshly translated.
LEMMA TxTranslate ==
  ASSUME TypeOK, LockInv, RingInv, NEW t \in Threads, tx_translate(t)
  PROVE  RingInv'
<1>. USE DEF devVars, queueVars, localVars
<1>0. PICK p \in Positions(t[2]), d \in Devs, q \in 0 .. MaxStarts :
        p = pos[t] /\ d = Dev(t) /\ q = queue[t]
  BY ZenonT(40), DevFacts DEF TypeOK
<1>1. /\ t[1] = "tx" /\ pc[t] = "ring"
      /\ UNCHANGED <<mapping, tx_iova, tx_starts>>
      /\ d = DevAt(t[2], p)
  BY ZenonT(40), <1>0, DevFacts DEF tx_translate
<1>2. TxInv(t, p)
  BY ZenonT(40), SMTT(30), Z3T(30), <1>1 DEF RingInv
<1>3. /\ tx_starts[d] \in 0 .. MaxStarts /\ tx_queue[d] \in {0, tx_starts[d]}
      /\ q \in 1 .. tx_starts[d]
      /\ \A n \in 1 .. MaxStarts : n <= tx_starts[d] => tx_iova[d][n] \in Iova
      /\ \A n \in 1 .. MaxStarts : n > q => tx_ring[d][n] = NULL
      /\ ~inval[t] => Fresh(d, q)
      /\ tx_queue[d] # 0 /\ ~inval[t] => Fresh(d, tx_queue[d])
  <2>1. tx_starts[d] \in 0 .. MaxStarts
    BY ZenonT(40) DEF TypeOK
  <2>2. /\ pos[t] = p /\ queue[t] = q /\ DevAt(t[2], p) = d
        /\ pc[t] = "ring" /\ pc[t] \notin {"spin", "relock"} /\ pc[t] # "done"
    BY ZenonT(40), SMTT(30), Z3T(30), <1>0, <1>1
  <2>. QED  BY Zenon, <2>1, <2>2, <1>2 DEF TxInv, WillTranslate
<1>4. q \in 1 .. MaxStarts
  <2>1. tx_starts[d] \in 0 .. MaxStarts /\ q \in 1 .. tx_starts[d]
    BY Zenon, <1>3
  <2>. HIDE DEF devVars, queueVars, localVars
  <2>. QED  BY <2>1, CountAssumption
<1>5. PICK r : r = mapping[d][tx_iova[d][q]]
  BY Zenon
<1>6. /\ tx_ring \in [Devs -> [1 .. MaxStarts -> Vaddr \cup {NULL}]]
      /\ tx_queue \in [Devs -> 0 .. MaxStarts] /\ pc \in [Threads -> Pcs]
  BY DEF TypeOK
<1>7. ASSUME tx_ring' = [tx_ring EXCEPT ![d][q] = r]
      PROVE  /\ tx_ring'[d][q] = r
             /\ \A n \in 1 .. MaxStarts : n # q => tx_ring'[d][n] = tx_ring[d][n]
             /\ \A e \in Devs : e # d => tx_ring'[e] = tx_ring[e]
  BY Zenon, <1>4, <1>6, <1>7
<1>8. CASE (inval[t] \/ tx_ring[d][q] = NULL) /\ r = NULL
  <2>1. /\ tx_ring' = [tx_ring EXCEPT ![d][q] = r]
        /\ tx_queue' = [tx_queue EXCEPT ![d] = 0]
        /\ EndPoll(t)
    BY <1>0, <1>5, <1>8 DEF tx_translate
  <2>2. pc'[t] \in {"test", "loop"}
    BY ZenonT(40), <2>1, EndPollLocals
  <2>3. \A n \in 1 .. MaxStarts : n > tx_starts[d] => tx_ring'[d][n] = NULL
    BY <2>1, <1>3, <1>7, <1>8
  <2>4. tx_queue'[d] = 0 /\ \A e \in Devs : e # d => tx_queue'[e] = tx_queue[e]
    BY <2>1, <1>6
  <2>5. TxInv(t, p)'
    BY Zenon, <2>2, <2>3, <2>4, <1>1, <1>3 DEF TxInv
  <2>. QED  BY ZenonT(40), <2>1, <2>2, <2>4, <2>5, <1>0, <1>1, <1>7, EndPollLocals, TxOwn
<1>9. CASE ~((inval[t] \/ tx_ring[d][q] = NULL) /\ r = NULL)
  <2>1. pc'[t] = "use" /\ \A u \in Threads \ {t} : pc'[u] = pc[u]
    BY ZenonT(40), <1>0, <1>5, <1>6, <1>9 DEF tx_translate, Goto
  <2>2. UNCHANGED <<tx_queue, pos, localVars>>
    BY ZenonT(40), <1>0, <1>5, <1>9 DEF tx_translate
  <2>3. /\ tx_ring'[d][q] = r /\ r # NULL
        /\ \A n \in 1 .. MaxStarts : n # q => tx_ring'[d][n] = tx_ring[d][n]
        /\ \A e \in Devs : e # d => tx_ring'[e] = tx_ring[e]
    <3>1. CASE inval[t] \/ tx_ring[d][q] = NULL
      <4>1. tx_ring' = [tx_ring EXCEPT ![d][q] = r]
        BY SMTT(30), Z3T(30), ZenonT(40), <1>0, <1>5, <3>1 DEF tx_translate
      <4>. QED  BY ZenonT(40), <4>1, <1>7, <1>9, <3>1
    <3>2. CASE ~(inval[t] \/ tx_ring[d][q] = NULL)
      <4>1. tx_ring' = tx_ring
        BY SMTT(30), Z3T(30), ZenonT(40), <1>0, <1>5, <3>2 DEF tx_translate
      <4>2. tx_ring[d][q] # NULL /\ tx_ring[d][q] = r
        BY ZenonT(40), <1>3, <1>5, <3>2 DEF Fresh
      <4>. QED  BY ZenonT(40), <4>1, <4>2
    <3>. QED  BY <3>1, <3>2
  <2>4. Fresh(d, q)'
    BY <2>3, <1>1, <1>5 DEF Fresh
  <2>5. PICK m : m = tx_queue[d]
    OBVIOUS
  <2>6. m # 0 => Fresh(d, m)'
    <3>1. CASE m = q
      BY ZenonT(40), <2>4, <3>1
    <3>2. CASE m # q /\ m # 0
      <4>1. m \in 1 .. MaxStarts /\ m > q
        <5>1. m = tx_starts[d] /\ tx_starts[d] \in 0 .. MaxStarts /\ q \in 1 .. tx_starts[d]
          BY Zenon, <2>5, <3>2, <1>3
        <5>. QED  BY SMT, <5>1, <3>2, CountAssumption
      <4>2. tx_ring'[d][m] = NULL
        BY Zenon, <4>1, <3>2, <2>3, <1>3
      <4>. QED  BY Zenon, <4>2 DEF Fresh
    <3>. QED  BY <3>1, <3>2
  <2>7. \A n \in 1 .. MaxStarts : n > q => tx_ring'[d][n] = NULL
    <3>1. \A n \in 1 .. MaxStarts : n > q => n # q
      BY SMT, <1>4
    <3>. QED  BY Zenon, <3>1, <2>3, <1>3
  <2>8. \A n \in 1 .. MaxStarts : n > tx_starts[d] => tx_ring'[d][n] = NULL
    <3>1. tx_starts[d] \in 0 .. MaxStarts /\ q \in 1 .. tx_starts[d]
      BY Zenon, <1>3
    <3>2. \A n \in 1 .. MaxStarts : n > tx_starts[d] => n > q
      BY SMT, <3>1, CountAssumption
    <3>. QED  BY Zenon, <3>2, <2>7
  <2>9. queue'[t] = q /\ tx_queue'[d] = m /\ tx_starts' = tx_starts /\ tx_iova' = tx_iova
    BY SMTT(30), Z3T(30), ZenonT(40), <2>2, <2>5, <1>0, <1>1
  <2>10. Fresh(d, tx_queue[d])' \/ m = 0
    BY <2>6, <2>9
  <2>11. Fresh(d, queue[t])'
    BY <2>4, <2>9
  <2>12. TxInv(t, p)'
    BY Zenon, <2>1, <2>3, <2>5, <2>7, <2>8, <2>9, <2>10, <2>11, <1>1, <1>3 DEF TxInv
  <2>. QED  BY Zenon, <2>1, <2>2, <2>3, <2>12, <1>0, <1>1, TxOwn
<1>. QED  BY ZenonT(40), <1>8, <1>9

LEMMA TxLoad ==
  ASSUME TypeOK, LockInv, RingInv, NEW t \in Threads, tx_load(t)
  PROVE  RingInv'
<1>. USE DEF devVars, queueVars, localVars
<1>0. PICK p \in Positions(t[2]), d \in Devs : p = pos[t] /\ d = Dev(t)
  BY DevFacts
<1>1. /\ t[1] = "tx" /\ pc[t] = "poll"
      /\ UNCHANGED <<mapping, tx_iova, tx_starts, tx_ring, tx_queue>>
      /\ d = DevAt(t[2], p)
  BY Zenon, <1>0, DevFacts DEF tx_load
<1>2. TxInv(t, p)
  BY Zenon, <1>1 DEF RingInv
<1>3. CASE tx_queue[d] = 0
  <2>1. EndPoll(t)
    BY ZenonT(40), <1>0, <1>3 DEF tx_load
  <2>2. pc'[t] \in {"test", "loop"}
    BY <2>1, EndPollLocals
  <2>3. TxInv(t, p)'
    BY Zenon, <2>2, <1>1, <1>2, <1>3, TxFrame
  <2>. QED  BY Zenon, <2>1, <2>2, <2>3, <1>0, <1>1, EndPollLocals, TxOwn
<1>4. CASE tx_queue[d] # 0
  <2>1. PICK q : q = tx_queue[d]
    OBVIOUS
  <2>2. /\ pc'[t] = "ring" /\ queue'[t] = q
        /\ \A u \in Threads \ {t} : pc'[u] = pc[u] /\ queue'[u] = queue[u]
        /\ UNCHANGED <<pos, inval, q_idx, ring, riova>>
    <3>1. pc \in [Threads -> Pcs] /\ queue \in [Threads -> 0 .. MaxStarts]
      BY ZenonT(40) DEF TypeOK
    <3>. QED  BY Zenon, <3>1, <2>1, <1>0, <1>4 DEF tx_load, Goto
  <2>3. /\ q = tx_starts[d] /\ q \in 1 .. tx_starts[d]
        /\ \A n \in 1 .. MaxStarts : n > q => tx_ring[d][n] = NULL
    <3>1. /\ q \in {0, tx_starts[d]} /\ q # 0 /\ tx_starts[d] \in 0 .. MaxStarts
          /\ \A n \in 1 .. MaxStarts : n > tx_starts[d] => tx_ring[d][n] = NULL
      BY Zenon, <2>1, <1>1, <1>2, <1>4 DEF TxInv, TypeOK
    <3>2. q = tx_starts[d]
      BY Zenon, <3>1
    <3>3. q \in 1 .. tx_starts[d]
      BY SMT, <3>1, <3>2, CountAssumption
    <3>. QED  BY Zenon, <3>1, <3>2, <3>3
  <2>4. WillTranslate(t, p)' \/ Fresh(d, q)'
    <3>1. WillTranslate(t, p) \/ Fresh(d, q)
      BY Zenon, <2>1, <1>1, <1>2, <1>4 DEF TxInv
    <3>2. WillTranslate(t, p) => WillTranslate(t, p)'
      BY Zenon, <2>2, <1>0, <1>1 DEF WillTranslate
    <3>3. Fresh(d, q) => Fresh(d, q)'
      BY Zenon, <1>1 DEF Fresh
    <3>. QED  BY <3>1, <3>2, <3>3
  <2>5. /\ WillTranslate(t, p)' \/ Fresh(d, tx_queue[d])'
        /\ WillTranslate(t, p)' \/ Fresh(d, queue[t])'
    BY Zenon, <2>1, <2>2, <2>4, <1>1
  <2>6. TxInv(t, p)'
    BY Zenon, <2>1, <2>2, <2>3, <2>5, <1>1, <1>2 DEF TxInv
  <2>. QED  BY Zenon, <2>2, <2>6, <1>0, <1>1, TxOwn
<1>. QED  BY SMTT(30), Z3T(30), ZenonT(40), <1>3, <1>4

\* The steps of a tx thread.
LEMMA TxRing ==
  ASSUME TypeOK, LockInv, RingInv, NEW t \in Threads, t[1] = "tx", poll_thread(t)
  PROVE  RingInv'
<1>. USE DEF devVars, queueVars, localVars
<1>0. PICK p \in Positions(t[2]), d \in Devs : p = pos[t] /\ d = Dev(t)
  BY ZenonT(40), DevFacts
<1>a. d = DevAt(t[2], p) /\ TxInv(t, p)
  BY ZenonT(40), <1>0, DevFacts DEF RingInv
<1>1. CASE tx_descriptor(t)
  <2>1. UNCHANGED <<mapping, tx_iova, tx_starts, tx_ring, tx_queue,
                    pc, pos, inval, queue, q_idx, ring, riova>>
    BY <1>1 DEF tx_descriptor
  <2>2. TxInv(t, p)'
    BY ZenonT(40), <2>1, <1>a, TxSame
  <2>3. pc[t] = "use"
    BY <1>1 DEF tx_descriptor
  <2>. QED  BY ZenonT(40), <2>1, <2>2, <2>3, <1>0, TxOwn
<1>2. CASE tx_bad_iova(t)
  <2>1. /\ EndPoll(t) /\ pc[t] = "use"
        /\ tx_queue' = [tx_queue EXCEPT ![d] = 0]
        /\ UNCHANGED <<mapping, tx_iova, tx_starts, tx_ring>>
    BY Zenon, <1>0, <1>2 DEF tx_bad_iova
  <2>2. pc'[t] \in {"test", "loop"}
    BY Zenon, <2>1, EndPollLocals
  <2>3. tx_queue'[d] = 0 /\ \A e \in Devs : e # d => tx_queue'[e] = tx_queue[e]
    BY <2>1 DEF TypeOK
  <2>4. TxInv(t, p)'
    BY Zenon, <2>1, <2>2, <2>3, <1>a DEF TxInv
  <2>. QED  BY Zenon, <2>1, <2>2, <2>3, <2>4, <1>0, EndPollLocals, TxOwn
<1>3. CASE tx_send(t)
  <2>1. /\ EndPoll(t) /\ pc[t] = "use"
        /\ UNCHANGED <<mapping, tx_iova, tx_starts, tx_ring, tx_queue>>
    BY Zenon, <1>3 DEF tx_send
  <2>2. pc'[t] \in {"test", "loop"}
    BY Zenon, <2>1, EndPollLocals
  <2>3. ~WillTranslate(t, p)
    BY Zenon, <2>1 DEF WillTranslate
  <2>4. TxInv(t, p)'
    BY Zenon, <2>1, <2>2, <2>3, <1>a, TxFrame
  <2>. QED  BY Zenon, <2>1, <2>2, <2>4, <1>0, EndPollLocals, TxOwn
<1>4. ~(rx_load(t) \/ rx_fallback(t) \/ rx_packet(t) \/ rx_break(t) \/ rx_return(t))
  BY Zenon DEF rx_load, rx_fallback, rx_packet, rx_break, rx_return
<1>. QED  BY <1>1, <1>2, <1>3, <1>4, TxOutside, TxTranslate, TxLoad DEF poll_thread

\* RingInv only reads these variables.
LEMMA SameRing ==
  ASSUME RingInv,
         UNCHANGED <<mapping, tx_iova, tx_starts, tx_ring, tx_queue,
                     pc, pos, inval, queue, q_idx, ring, riova>>
  PROVE  RingInv'
<1>1. UNCHANGED <<mapping, tx_iova, tx_starts, tx_ring, tx_queue,
                  pc, pos, inval, queue, q_idx, ring, riova>>
  OBVIOUS
<1>2. ASSUME NEW u \in Threads, u[1] = "tx", NEW k \in Positions(u[2])
      PROVE  TxInv(u, k)'
  <2>1. TxInv(u, k)
    BY ZenonT(40), <1>2 DEF RingInv
  <2>. QED  BY Zenon, <1>1, <2>1, TxSame
<1>3. ASSUME NEW u \in Threads, u[1] = "rx"
      PROVE  RxInv(u)'
  BY <1>1, <1>3 DEF RingInv, RxInv, Dev
<1>. QED  BY Zenon, <1>1, <1>2, <1>3 DEF RingInv

LEMMA StopRing ==
  ASSUME RingInv, NEW t \in Threads, request_stop(t)
  PROVE  RingInv'
BY SameRing DEF request_stop, devVars, queueVars, localVars

-----------------------------------------------------------------------------
(* The theorems                                                            *)

LEMMA StutterInv == IInv /\ UNCHANGED vars => IInv'
<1>. SUFFICES ASSUME IInv, UNCHANGED vars PROVE IInv'
  BY ZenonT(40)
<1>. USE DEF vars, devVars, queueVars, localVars
<1>1. TypeOK'
  BY DEF IInv, TypeOK
<1>2. LockInv'
  BY DEF IInv, LockInv, HeldInv, Holds
<1>3. RingInv'
  BY SameRing DEF IInv
<1>. QED  BY <1>1, <1>2, <1>3 DEF IInv

\* IInv holds initially and is preserved by every step of every vfio-user
\* thread, poll thread and the destructor of VdpdkThreads.
THEOREM Invariance == Spec => []IInv
<1>1. Init => IInv
  BY InitType, InitLock, InitRing DEF IInv
<1>2. IInv /\ [Next]_vars => IInv'
  <2>. SUFFICES ASSUME IInv, [Next]_vars PROVE IInv'
    OBVIOUS
  <2>0. TypeOK /\ LockInv /\ RingInv
    BY DEF IInv
  <2>1. ASSUME NEW d \in Devs, GuestRequest(d) \/ FinishRequest(d)
        PROVE  IInv'
    BY <2>0, <2>1, RequestType, RequestLock, RequestRing DEF IInv
  <2>2. ASSUME NEW t \in Threads, poll_thread(t) \/ request_stop(t)
        PROVE  IInv'
    BY <2>0, <2>2, ThreadType, ThreadLock, ThreadFacts, RxRing, TxRing, StopRing DEF IInv
  <2>3. CASE UNCHANGED vars
    BY <2>3, StutterInv
  <2>. QED  BY <2>1, <2>2, <2>3 DEF Next, Terminated
<1>. QED  BY <1>1, <1>2, PTL DEF Spec

\* All the state of the devices, of their queues and of the poll threads
\* keeps its type.
THEOREM TypeCorrect == Spec => []TypeOK
<1>1. IInv => TypeOK
  BY DEF IInv
<1>. QED  BY <1>1, Invariance, PTL

\* For any number of devices, regions and threads, tx_poll and rx_callback_fn
\* only ever dereference the current translation of their ring.
THEOREM RingsAreCurrent == Spec => []NoStaleRing
<1>1. IInv => NoStaleRing
  <2>. SUFFICES ASSUME IInv, NEW t \in Threads, pc[t] = "use"
                PROVE  LET d == Dev(t)
                           i == IF t[1] = "tx" THEN tx_iova[d][queue[t]] ELSE riova[t]
                           r == IF t[1] = "tx" THEN tx_ring[d][queue[t]] ELSE ring[t]
                       IN  r # NULL /\ i \in Iova /\ r = mapping[d][i]
    BY Zenon DEF NoStaleRing
  <2>0. TypeOK /\ LockInv /\ RingInv
    BY DEF IInv
  <2>1. CASE t[1] = "rx"
    BY Zenon, <2>0, <2>1 DEF RingInv, RxInv
  <2>2. CASE t[1] = "tx"
    <3>1. TxInv(t, pos[t]) /\ Dev(t) = DevAt(t[2], pos[t]) /\ Dev(t) \in Devs
      BY <2>0, <2>2, DevFacts DEF RingInv
    <3>2. /\ queue[t] \in 1 .. tx_starts[Dev(t)]
          /\ Fresh(Dev(t), queue[t])
          /\ tx_ring[Dev(t)][queue[t]] # NULL
      BY ZenonT(40), <3>1 DEF TxInv, WillTranslate
    <3>3. queue[t] \in 1 .. MaxStarts /\ queue[t] <= tx_starts[Dev(t)]
      BY <2>0, <3>1, <3>2, CountAssumption DEF TypeOK
    <3>4. tx_iova[Dev(t)][queue[t]] \in Iova
      BY Zenon, <3>1, <3>3 DEF TxInv
    <3>. QED  BY ZenonT(40), <2>2, <3>2, <3>4 DEF Fresh
  <2>. QED  BY <2>1, <2>2, ThreadFacts
<1>. QED  BY <1>1, Invariance, PTL

\* No step changes a mapping of a device that a thread is polling.
THEOREM MappingsAreStable == Spec => NoChangeWhilePolling
<1>. DEFINE Stable == \A d \in Devs : mapping'[d] # mapping[d] =>
                        \A t \in Threads : ~Polling(t, d)
<1>1. IInv /\ [Next]_vars => [Stable]_vars
  <2>. SUFFICES ASSUME IInv, Next, NEW d \in Devs, mapping'[d] # mapping[d],
                       NEW t \in Threads, Polling(t, d)
                PROVE  FALSE
    BY Zenon
  <2>0. TypeOK /\ LockInv
    BY Zenon DEF IInv
  <2>1. dma_update(d)
    <3>. USE DEF devVars, vars
    <3>1. \A u \in Threads : ~poll_thread(u) /\ ~request_stop(u)
      BY ZenonT(40) DEF poll_thread, request_stop, acquire, loop, test, spin, relock, tx_load, tx_translate,
             tx_descriptor, tx_bad_iova, tx_send, rx_load, rx_fallback, rx_packet, rx_break, rx_return
    <3>2. ASSUME NEW e \in Devs, GuestRequest(e) \/ dma_lock(e) \/ dma_clear(e)
          PROVE  FALSE
      BY Zenon, <3>2 DEF GuestRequest, dma_register_cb, dma_unregister_cb, TX_QUEUE_START,
             TX_QUEUE_STOP, RX_QUEUE_START, RX_QUEUE_STOP, runner_exit, dma_lock, dma_clear
    <3>3. ASSUME NEW e \in Devs, dma_update(e)
          PROVE  e = d
      BY Zenon, <2>0, <3>3 DEF dma_update, TypeOK
    <3>. QED  BY <3>1, <3>2, <3>3 DEF Next, FinishRequest, Terminated
  <2>2. shared[d] = {}
    BY <2>0, <2>1 DEF dma_update, LockInv
  <2>3. t \in shared[d]
    <3>1. Holds(t, pos[t]) /\ Dev(t) = d
      BY DEF Polling, Holds
    <3>. QED  BY ZenonT(40), <2>0, <3>1, DevFacts DEF LockInv, HeldInv
  <2>. QED  BY Zenon, <2>2, <2>3
<1>. QED  BY <1>1, Invariance, PTL DEF Spec, NoChangeWhilePolling

\* A step takes a transmit queue away only on behalf of its guest, or of the tx
\* thread that polls this queue or an older one and looked up an unmapped address.
THEOREM QueuesAreKept == Spec => QueueKept
<1>. DEFINE Blamed(d) ==
              \E t \in Threads : /\ t[1] = "tx" /\ Polling(t, d) /\ queue[t] \in 1 .. tx_queue[d]
                                 /\ \E i \in Addressed(t) : mapping[d][i] = NULL
            Kept == \A d \in Devs : tx_queue[d] # 0 /\ tx_queue'[d] = 0 =>
                      \/ TX_QUEUE_STOP(d)
                      \/ \E t \in Threads : /\ t[1] = "tx" /\ Polling(t, d) /\ queue[t] \in 1 .. tx_queue[d]
                                           /\ \E i \in Addressed(t) : mapping[d][i] = NULL
<1>1. IInv /\ [Next]_vars => [Kept]_vars
  <2>. SUFFICES ASSUME IInv, Next, NEW d \in Devs, tx_queue[d] # 0, tx_queue'[d] = 0,
                       ~TX_QUEUE_STOP(d)
                PROVE  Blamed(d)
    BY Zenon
  <2>0. TypeOK /\ LockInv /\ RingInv
    BY ZenonT(40) DEF IInv
  <2>1. ASSUME NEW t \in Threads, t[1] = "tx", pc[t] \in {"ring", "use"},
               tx_queue' = [tx_queue EXCEPT ![Dev(t)] = 0],
               pc[t] = "ring" => mapping[Dev(t)][tx_iova[Dev(t)][queue[t]]] = NULL,
               pc[t] = "use" => \E i \in Iova : mapping[Dev(t)][i] = NULL
        PROVE  Blamed(d)
    <3>1. Dev(t) = d
      BY SMTT(30), Z3T(30), ZenonT(40), <2>0, <2>1 DEF TypeOK
    <3>2. TxInv(t, pos[t]) /\ DevAt(t[2], pos[t]) = d
      BY ZenonT(40), <2>0, <2>1, <3>1, DevFacts DEF RingInv
    <3>3. queue[t] \in 1 .. tx_starts[d] /\ tx_queue[d] = tx_starts[d]
      <4>1. /\ tx_queue[d] \in {0, tx_starts[d]}
            /\ pc[t] \in {"ring", "use"} => queue[t] \in 1 .. tx_starts[d]
        BY Zenon, <3>2 DEF TxInv
      <4>. QED  BY Zenon, <2>1, <4>1
    <3>4. \E i \in Addressed(t) : mapping[d][i] = NULL
      BY ZenonT(40), <2>1, <3>1 DEF Addressed
    <3>5. Polling(t, d)
      BY SMTT(30), Z3T(30), ZenonT(40), <2>1, <3>1 DEF Polling
    <3>. QED  BY ZenonT(40), <2>1, <3>3, <3>4, <3>5
  <2>. USE DEF devVars, queueVars, vars
  <2>2. ASSUME NEW t \in Threads, tx_translate(t)
        PROVE  Blamed(d)
    <3>1. tx_queue' # tx_queue
      OBVIOUS
    <3>2. /\ t[1] = "tx" /\ pc[t] = "ring" /\ tx_queue' = [tx_queue EXCEPT ![Dev(t)] = 0]
          /\ mapping[Dev(t)][tx_iova[Dev(t)][queue[t]]] = NULL
      BY <2>2, <3>1, Zenon DEF tx_translate
    <3>. QED  BY Zenon, <2>1, <3>2
  <2>3. ASSUME NEW t \in Threads, tx_bad_iova(t)
        PROVE  Blamed(d)
    <3>1. /\ t[1] = "tx" /\ pc[t] = "use" /\ tx_queue' = [tx_queue EXCEPT ![Dev(t)] = 0]
          /\ \E i \in Iova : mapping[Dev(t)][i] = NULL
      BY <2>3, Zenon DEF tx_bad_iova
    <3>. QED  BY ZenonT(40), <2>1, <3>1
  <2>4. ASSUME NEW e \in Devs, NEW i \in Iova, TX_QUEUE_START(e, i)
        PROVE  FALSE
    <3>1. /\ tx_queue' = [tx_queue EXCEPT ![e] = tx_starts[e] + 1]
          /\ tx_starts[e] \in 0 .. MaxStarts
      BY Zenon, <2>0, <2>4 DEF TX_QUEUE_START, TypeOK
    <3>2. tx_starts[e] + 1 # 0
      BY SMT, <3>1, CountAssumption
    <3>. QED  BY Zenon, <2>0, <3>1, <3>2 DEF TypeOK
  <2>5. ASSUME NEW e \in Devs, TX_QUEUE_STOP(e)
        PROVE  FALSE
    <3>1. e # d /\ tx_queue' = [tx_queue EXCEPT ![e] = 0]
      BY Zenon, <2>5 DEF TX_QUEUE_STOP
    <3>. QED  BY SMTT(30), ZenonT(40), Z3T(30), <2>0, <3>1 DEF TypeOK
  <2>6. ASSUME NEW t \in Threads, poll_thread(t) \/ request_stop(t)
        PROVE  tx_translate(t) \/ tx_bad_iova(t)
    BY ZenonT(40), <2>6 DEF poll_thread, request_stop, acquire, loop, test, spin, relock, tx_load,
       tx_descriptor, tx_send, rx_load, rx_fallback, rx_packet, rx_break, rx_return
  <2>7. ASSUME NEW e \in Devs, GuestRequest(e) \/ FinishRequest(e)
        PROVE  FALSE
    BY ZenonT(40), <2>4, <2>5, <2>7 DEF GuestRequest, FinishRequest, dma_register_cb,
       dma_unregister_cb, RX_QUEUE_START, RX_QUEUE_STOP, runner_exit, dma_lock, dma_clear, dma_update
  <2>. QED  BY Zenon, <2>2, <2>3, <2>6, <2>7 DEF Next, Terminated
<1>. QED  BY <1>1, Invariance, PTL DEF Spec, QueueKept

-----------------------------------------------------------------------------
(* Every device has poll threads of its own                                *)

LEMMA OneDevice ==
  ASSUME ~Shared, LockInv, NEW t \in Threads
  PROVE  pos[t] = 1 /\ Dev(t) = t[2] /\ t[2] \in Devs /\ 2 \notin Positions(t[2])
<1>1. t[2] \in Slots
  BY ThreadFacts
<1>2. Positions(t[2]) = {1} /\ 2 \notin {1}
  BY SMT DEF Positions
<1>3. pos[t] = 1
  BY <1>2, DevFacts
<1>. QED
  BY Zenon, <1>1, <1>2, <1>3, SlotFacts DEF Dev, DevAt

\* ToRelease of a thread at place p, with q_idx = q and n descriptors left.
Steps(p, q, n) ==
  LET rest == 3 * (NumRxQueues - q) + n IN
  CASE p \in {"spin", "done"} -> 0
    [] p = "test" -> 1
    [] p = "loop" -> 2
    [] p = "acquire" -> 3
    [] p = "use" -> 3 + rest
    [] p \in {"ring", "fallback"} -> 4 + rest
    [] p = "poll" -> 5 + rest
    [] p = "relock" -> 6 + rest

LEMMA StepsAt ==
  ASSUME NEW q \in 0 .. NumRxQueues, NEW n \in Nat
  PROVE  /\ Steps("spin", q, n) = 0 /\ Steps("done", q, n) = 0
         /\ Steps("test", q, n) = 1 /\ Steps("loop", q, n) = 2 /\ Steps("acquire", q, n) = 3
         /\ Steps("use", q, n) = 3 + (3 * (NumRxQueues - q) + n)
         /\ Steps("ring", q, n) = 4 + (3 * (NumRxQueues - q) + n)
         /\ Steps("fallback", q, n) = 4 + (3 * (NumRxQueues - q) + n)
         /\ Steps("poll", q, n) = 5 + (3 * (NumRxQueues - q) + n)
         /\ Steps("relock", q, n) = 6 + (3 * (NumRxQueues - q) + n)
BY Zenon DEF Steps

LEMMA StepsType ==
  ASSUME NEW p \in Pcs, NEW q \in 0 .. NumRxQueues, NEW n \in Nat, NEW m \in Nat, m <= n
  PROVE  /\ Steps(p, q, n) \in Nat
         /\ Steps(p, q, m) <= Steps(p, q, n)
         /\ Steps(p, q, n) = 0 => p \in {"spin", "done"}
<1>1. 3 * (NumRxQueues - q) \in Nat
  BY SMT, CountAssumption
<1>. DEFINE r == 3 * (NumRxQueues - q)
<1>. HIDE DEF r
<1>2. ASSUME NEW k \in Nat
      PROVE  /\ Steps("spin", q, k) = 0 /\ Steps("done", q, k) = 0
             /\ Steps("test", q, k) = 1 /\ Steps("loop", q, k) = 2 /\ Steps("acquire", q, k) = 3
             /\ Steps("use", q, k) = 3 + (r + k) /\ Steps("ring", q, k) = 4 + (r + k)
             /\ Steps("fallback", q, k) = 4 + (r + k) /\ Steps("poll", q, k) = 5 + (r + k)
             /\ Steps("relock", q, k) = 6 + (r + k)
  BY Zenon, StepsAt DEF r
<1>3. r \in Nat
  BY Zenon, <1>1 DEF r
<1>. QED
  BY SMT, <1>2, <1>3 DEF Pcs

\* What a poll does with the steps left: it goes on to a later place with the
\* same queue, to the next queue, or to the top of the loop.
LEMMA StepsFall ==
  ASSUME NEW q \in 0 .. NumRxQueues, NEW n \in Nat
  PROVE  /\ \A z \in 0 .. NumRxQueues, p \in {"poll", "fallback", "ring", "use"} :
              Steps("loop", z, n) < Steps(p, q, n)
         /\ Steps("ring", q, n) < Steps("poll", q, n)
         /\ Steps("fallback", q, n) < Steps("poll", q, n)
         /\ Steps("use", q, n) < Steps("poll", q, n)
         /\ Steps("use", q, n) < Steps("ring", q, n)
         /\ Steps("use", q, n) < Steps("fallback", q, n)
         /\ n > 0 => n - 1 \in Nat /\ n - 1 <= n /\ Steps("use", q, n - 1) < Steps("use", q, n)
         /\ q < NumRxQueues => /\ q + 1 \in 0 .. NumRxQueues
                               /\ \A p \in {"poll", "fallback", "use"} :
                                    Steps("poll", q + 1, n) < Steps(p, q, n)
<1>. USE CountAssumption
<1>. DEFINE r(z) == 3 * (NumRxQueues - z)
<1>1. \A z \in 0 .. NumRxQueues : r(z) \in Nat
  BY SMT
<1>2. q < NumRxQueues => q + 1 \in 0 .. NumRxQueues /\ r(q + 1) + 3 = r(q)
  BY SMT
<1>3. ASSUME NEW z \in 0 .. NumRxQueues, NEW k \in Nat
      PROVE  /\ Steps("loop", z, k) = 2
             /\ Steps("use", z, k) = 3 + (r(z) + k) /\ Steps("ring", z, k) = 4 + (r(z) + k)
             /\ Steps("fallback", z, k) = 4 + (r(z) + k) /\ Steps("poll", z, k) = 5 + (r(z) + k)
  BY Zenon, StepsAt
<1>4. n > 0 => n - 1 \in Nat /\ n - 1 <= n
  BY SMT
<1>. HIDE DEF r
<1>5. \A z \in 0 .. NumRxQueues, p \in {"poll", "fallback", "ring", "use"} :
        Steps("loop", z, n) < Steps(p, q, n)
  BY SMT, <1>1, <1>3
<1>6. /\ Steps("ring", q, n) < Steps("poll", q, n)
      /\ Steps("fallback", q, n) < Steps("poll", q, n)
      /\ Steps("use", q, n) < Steps("poll", q, n)
      /\ Steps("use", q, n) < Steps("ring", q, n)
      /\ Steps("use", q, n) < Steps("fallback", q, n)
  BY SMT, <1>1, <1>3
<1>7. n > 0 => Steps("use", q, n - 1) < Steps("use", q, n)
  BY SMT, <1>1, <1>3, <1>4
<1>8. q < NumRxQueues => \A p \in {"poll", "fallback", "use"} :
                           Steps("poll", q + 1, n) < Steps(p, q, n)
  BY SMT, <1>1, <1>2, <1>3
<1>. QED
  BY Zenon, <1>2, <1>4, <1>5, <1>6, <1>7, <1>8

\* Thread t goes on at place p, with q_idx = q and n descriptors left.
Moved(t, p, q, n) ==
  /\ pc' = [pc EXCEPT ![t] = p]
  /\ q_idx' = [q_idx EXCEPT ![t] = q]
  /\ descs' = [descs EXCEPT ![t[2]] = n]

\* A step of tx_poll or rx_callback_fn shortens the rest of the poll, and takes
\* or releases no mutex.
LEMMA PollStep ==
  ASSUME ~Shared, TypeOK, LockInv, RingInv, NEW t \in Threads,
         poll_thread(t), pc[t] \notin {"acquire", "loop", "test", "spin", "relock"}
  PROVE  /\ UNCHANGED <<dma_flag, exclusive, runner, shared>>
         /\ pc[t] \in Busy
         /\ \E p \in Busy, q \in 0 .. NumRxQueues, n \in Nat :
              /\ Moved(t, p, q, n) /\ n <= descs[t[2]]
              /\ Steps(p, q, n) < Steps(pc[t], q_idx[t], descs[t[2]])
<1>. USE DEF devVars, queueVars, localVars
<1>. DEFINE Q == q_idx[t]
            N == descs[t[2]]
            Shorter == \E p \in Busy, q \in 0 .. NumRxQueues, n \in Nat :
                         /\ Moved(t, p, q, n) /\ n <= N
                         /\ Steps(p, q, n) < Steps(pc[t], Q, N)
<1>0. /\ pos[t] = 1 /\ Dev(t) = t[2] /\ t[2] \in Devs /\ 2 \notin Positions(t[2])
  BY Zenon, OneDevice
<1>1. /\ q_idx = [q_idx EXCEPT ![t] = Q] /\ descs = [descs EXCEPT ![t[2]] = N]
      /\ pc = [pc EXCEPT ![t] = pc[t]]
      /\ Q \in 0 .. NumRxQueues /\ N \in Nat /\ N <= N /\ 0 \in 0 .. NumRxQueues
  <2>1. descs[t[2]] \in 0 .. MaxDescs
    BY Zenon, <1>0 DEF TypeOK
  <2>2. descs[t[2]] \in Nat /\ descs[t[2]] <= descs[t[2]] /\ 0 \in 0 .. NumRxQueues
    BY SMT, <2>1, CountAssumption
  <2>. QED
    BY Zenon, <1>0, <2>2 DEF TypeOK
<1>2. /\ {"poll", "fallback", "ring", "use", "loop"} \subseteq Busy
  BY Zenon DEF Busy
<1>a. ASSUME pc[t] \in {"poll", "fallback", "ring", "use"}, EndPoll(t), UNCHANGED descs
      PROVE  Shorter
  <2>1. Moved(t, "loop", 0, N)
    BY Zenon, <1>a, <1>0, <1>1 DEF EndPoll, Goto, Moved
  <2>2. Steps("loop", 0, N) < Steps(pc[t], Q, N)
    BY Zenon, <1>a, <1>1, StepsFall
  <2>. QED
    BY Zenon, <2>1, <2>2, <1>1, <1>2
<1>b. ASSUME NEW p \in Busy, Steps(p, Q, N) < Steps(pc[t], Q, N), Goto(t, p), UNCHANGED <<q_idx, descs>>
      PROVE  Shorter
  <2>1. Moved(t, p, Q, N)
    BY Zenon, <1>b, <1>1 DEF Goto, Moved
  <2>. QED
    BY Zenon, <2>1, <1>b, <1>1
<1>c. ASSUME pc[t] \in {"poll", "fallback", "use"}, Q < NumRxQueues, NextQueue(t), UNCHANGED descs
      PROVE  Shorter
  <2>1. Moved(t, "poll", Q + 1, N)
    BY Zenon, <1>c, <1>1 DEF NextQueue, Goto, Moved
  <2>2. Q + 1 \in 0 .. NumRxQueues /\ Steps("poll", Q + 1, N) < Steps(pc[t], Q, N)
    BY Zenon, <1>c, <1>1, StepsFall
  <2>. QED
    BY Zenon, <2>1, <2>2, <1>1, <1>2
<1>d. ASSUME pc[t] = "use", N > 0, descs' = [descs EXCEPT ![t[2]] = N - 1], UNCHANGED <<pc, q_idx>>
      PROVE  Shorter
  <2>1. Moved(t, "use", Q, N - 1)
    BY Zenon, <1>d, <1>1 DEF Moved
  <2>2. N - 1 \in Nat /\ N - 1 <= N /\ Steps("use", Q, N - 1) < Steps(pc[t], Q, N)
    BY Zenon, <1>d, <1>1, StepsFall
  <2>. QED
    BY Zenon, <2>1, <2>2, <1>1, <1>2
<1>e. ASSUME pc[t] \in {"poll", "fallback"}, Q < NumRxQueues, NEW i, Resolve(t, i), UNCHANGED descs
      PROVE  Shorter
  <2>1. CASE NextQueue(t)
    BY Zenon, <1>c, <1>e, <2>1
  <2>2. CASE Goto(t, "use") /\ UNCHANGED q_idx
    BY Zenon, <1>b, <1>e, <2>2, <1>1, <1>2, StepsFall
  <2>. QED
    BY Zenon, <1>e, <2>1, <2>2 DEF Resolve
<1>3. CASE tx_load(t)
  <2>1. /\ pc[t] = "poll" /\ UNCHANGED <<dma_flag, exclusive, runner, shared, descs>>
        /\ EndPoll(t) \/ (Goto(t, "ring") /\ UNCHANGED q_idx)
    BY Zenon, <1>3 DEF tx_load
  <2>. QED
    BY Zenon, <2>1, <1>1, <1>2, <1>a, <1>b, StepsFall
<1>4. CASE tx_translate(t)
  <2>1. /\ pc[t] = "ring" /\ UNCHANGED <<dma_flag, exclusive, runner, shared, descs>>
        /\ EndPoll(t) \/ (Goto(t, "use") /\ UNCHANGED q_idx)
    BY Zenon, <1>4 DEF tx_translate
  <2>. QED
    BY Zenon, <2>1, <1>1, <1>2, <1>a, <1>b, StepsFall
<1>5. CASE tx_descriptor(t) \/ rx_packet(t)
  <2>1. /\ pc[t] = "use" /\ N > 0 /\ UNCHANGED <<dma_flag, exclusive, runner, shared, pc, q_idx>>
        /\ descs' = [descs EXCEPT ![t[2]] = N - 1]
    BY Zenon, <1>5, <1>0 DEF tx_descriptor, rx_packet
  <2>. QED
    BY Zenon, <2>1, <1>2, <1>d
<1>6. CASE tx_bad_iova(t) \/ tx_send(t) \/ rx_return(t)
  <2>1. /\ pc[t] \in {"poll", "use"} /\ UNCHANGED <<dma_flag, exclusive, runner, shared, descs>>
        /\ EndPoll(t)
    BY Zenon, <1>6 DEF tx_bad_iova, tx_send, rx_return
  <2>. QED
    BY Zenon, <2>1, <1>2, <1>a
<1>7. CASE rx_load(t)
  <2>1. /\ pc[t] = "poll" /\ Q < NumRxQueues /\ UNCHANGED <<dma_flag, exclusive, runner, shared, descs>>
        /\ \/ NextQueue(t)
           \/ Goto(t, "fallback") /\ UNCHANGED q_idx
           \/ \E i : Resolve(t, i)
    BY Zenon, <1>7 DEF rx_load
  <2>2. CASE NextQueue(t)
    BY Zenon, <2>1, <2>2, <1>2, <1>c
  <2>3. CASE Goto(t, "fallback") /\ UNCHANGED q_idx
    BY Zenon, <2>1, <2>3, <1>1, <1>2, <1>b, StepsFall
  <2>4. CASE \E i : Resolve(t, i)
    BY Zenon, <2>1, <2>4, <1>2, <1>e
  <2>. QED
    BY Zenon, <2>1, <2>2, <2>3, <2>4
<1>8. CASE rx_fallback(t) \/ rx_break(t)
  <2>1. /\ pc[t] \in {"fallback", "use"} /\ UNCHANGED <<dma_flag, exclusive, runner, shared, descs>>
        /\ NextQueue(t) \/ (pc[t] = "fallback" /\ \E i : Resolve(t, i))
        /\ t[1] = "rx"
    BY Zenon, <1>8 DEF rx_fallback, rx_break
  <2>2. Q < NumRxQueues
    BY Zenon, <2>1 DEF RingInv, RxInv
  <2>. QED
    BY Zenon, <2>1, <2>2, <1>2, <1>c, <1>e
<1>9. ~(acquire(t) \/ loop(t) \/ test(t) \/ spin(t) \/ relock(t))
  BY Zenon DEF acquire, loop, test, spin, relock
<1>. QED
  BY Zenon, <1>3, <1>4, <1>5, <1>6, <1>7, <1>8, <1>9 DEF poll_thread

\* A step of thread t outside a poll: it takes dma_mutex, lets go of it, or
\* looks at the stop token or the flag.
LEMMA MutexStep ==
  ASSUME ~Shared, TypeOK, LockInv, NEW t \in Threads,
         poll_thread(t), pc[t] \in {"acquire", "loop", "test", "spin", "relock"}
  PROVE  /\ UNCHANGED <<dma_flag, exclusive, runner, descs, q_idx>>
         /\ \E p \in Pcs :
              /\ pc' = [pc EXCEPT ![t] = p]
              /\ \/ /\ <<pc[t], p>> \in {<<"acquire", "loop">>, <<"relock", "poll">>}
                    /\ shared' = [shared EXCEPT ![t[2]] = @ \cup {t}]
                 \/ /\ pc[t] = "loop" /\ p = "done"
                    /\ shared' = [d \in Devs |-> shared[d] \ {t}]
                 \/ /\ pc[t] = "test" /\ p = "spin"
                    /\ shared' = [shared EXCEPT ![t[2]] = @ \ {t}]
                 \/ /\ pc[t] = "loop" /\ p = "test"
                    /\ UNCHANGED shared
                 \/ /\ <<pc[t], p>> \in {<<"test", "poll">>, <<"spin", "relock">>}
                    /\ ~dma_flag[t[2]]
                    /\ UNCHANGED shared
<1>. USE DEF devVars, queueVars, localVars
<1>0. /\ pos[t] = 1 /\ Dev(t) = t[2] /\ t[2] \in Devs /\ 2 \notin Positions(t[2])
  BY Zenon, OneDevice
<1>1. {"loop", "done", "test", "spin", "relock", "poll"} \subseteq Pcs
  BY Zenon DEF Pcs
<1>2. CASE acquire(t)
  BY Zenon, <1>0, <1>1, <1>2 DEF acquire, Goto
<1>3. CASE loop(t)
  BY Zenon, <1>0, <1>1, <1>3 DEF loop, Goto
<1>4. CASE test(t)
  BY Zenon, <1>0, <1>1, <1>4 DEF test, Goto
<1>5. CASE spin(t)
  BY Zenon, <1>0, <1>1, <1>5 DEF spin, Goto
<1>6. CASE relock(t)
  BY Zenon, <1>0, <1>1, <1>6 DEF relock, Goto
<1>7. ~(\/ tx_load(t) \/ tx_translate(t) \/ tx_descriptor(t) \/ tx_bad_iova(t) \/ tx_send(t)
        \/ rx_load(t) \/ rx_fallback(t) \/ rx_packet(t) \/ rx_break(t) \/ rx_return(t))
  BY Zenon DEF tx_load, tx_translate, tx_descriptor, tx_bad_iova, tx_send, rx_load, rx_fallback,
         rx_packet, rx_break, rx_return
<1>. QED
  BY Zenon, <1>2, <1>3, <1>4, <1>5, <1>6, <1>7 DEF poll_thread

LEMMA OwnFrame ==
  ASSUME OwnInv, NEW t \in Threads, UNCHANGED <<dma_flag, runner>>,
         \A u \in Threads \ {t} : pc'[u] = pc[u],
         \A d \in Devs : shared'[d] \subseteq Threads,
         \A d \in Devs : \A u \in shared'[d] : u # t => u \in shared[d],
         \A d \in Devs : t \in shared'[d] =>
           t[2] = d /\ pc'[t] \notin {"acquire", "spin", "relock", "done"}
  PROVE  OwnInv'
<1>1. ASSUME NEW d \in Devs, NEW u \in shared'[d]
      PROVE  u[2] = d /\ pc'[u] \notin {"acquire", "spin", "relock", "done"}
  <2>1. CASE u = t
    BY Zenon, <1>1, <2>1
  <2>2. CASE u # t
    <3>1. u \in shared[d] /\ pc'[u] = pc[u]
      BY Zenon, <1>1, <2>2
    <3>. QED
      BY Zenon, <3>1 DEF OwnInv
  <2>. QED
    BY Zenon, <2>1, <2>2
<1>2. \A d \in Devs : dma_flag'[d] <=> runner'[d] \in {"flagged", "locked"}
  BY Zenon DEF OwnInv
<1>. QED
  BY Zenon, <1>1, <1>2 DEF OwnInv

LEMMA OwnThread ==
  ASSUME ~Shared, TypeOK, TypeOK', LockInv, RingInv, OwnInv, NEW t \in Threads, poll_thread(t)
  PROVE  OwnInv'
<1>1. CASE pc[t] \in {"acquire", "loop", "test", "spin", "relock"}
  <2>0. UNCHANGED <<dma_flag, runner>> /\ t[2] \in Devs
    BY Zenon, <1>1, MutexStep, OneDevice
  <2>a. /\ pc \in [Threads -> Pcs] /\ shared \in [Devs -> SUBSET Threads]
        /\ \A d \in Devs : shared'[d] \subseteq Threads
    BY Zenon DEF TypeOK
  <2>b. PICK p \in Pcs :
          /\ pc' = [pc EXCEPT ![t] = p]
          /\ \/ /\ <<pc[t], p>> \in {<<"acquire", "loop">>, <<"relock", "poll">>}
                /\ shared' = [shared EXCEPT ![t[2]] = @ \cup {t}]
             \/ /\ pc[t] = "loop" /\ p = "done"
                /\ shared' = [d \in Devs |-> shared[d] \ {t}]
             \/ /\ pc[t] = "test" /\ p = "spin"
                /\ shared' = [shared EXCEPT ![t[2]] = @ \ {t}]
             \/ /\ pc[t] = "loop" /\ p = "test"
                /\ UNCHANGED shared
             \/ /\ <<pc[t], p>> \in {<<"test", "poll">>, <<"spin", "relock">>}
                /\ ~dma_flag[t[2]]
                /\ UNCHANGED shared
    BY Zenon, <1>1, MutexStep
  <2>c. pc'[t] = p /\ \A u \in Threads \ {t} : pc'[u] = pc[u]
    BY Zenon, <2>a, <2>b
  <2>d. ASSUME NEW d \in Devs
        PROVE  /\ t \in shared[d] => t[2] = d /\ pc[t] \notin {"acquire", "spin", "relock", "done"}
               /\ shared[d] \in SUBSET Threads
    BY Zenon, <2>a DEF OwnInv
  <2>1. CASE /\ p \in {"loop", "poll"}
             /\ shared' = [shared EXCEPT ![t[2]] = @ \cup {t}]
    <3>1. ASSUME NEW d \in Devs
          PROVE  shared'[d] = IF d = t[2] THEN shared[d] \cup {t} ELSE shared[d]
      BY Zenon, <2>1, <2>a, <2>0
    <3>2. p \notin {"acquire", "spin", "relock", "done"}
      BY Zenon, <2>1
    <3>3. ASSUME NEW d \in Devs, t \in shared'[d]
          PROVE  t[2] = d /\ pc'[t] \notin {"acquire", "spin", "relock", "done"}
      BY Zenon, <3>1, <3>2, <3>3, <2>c, <2>d
    <3>4. ASSUME NEW d \in Devs, NEW u \in shared'[d], u # t
          PROVE  u \in shared[d]
      BY Zenon, <3>1, <3>4
    <3>. QED
      BY Zenon, <3>3, <3>4, <2>0, <2>a, <2>c, OwnFrame
  <2>2. CASE p \in {"done", "spin"} /\ \/ shared' = [d \in Devs |-> shared[d] \ {t}]
                                       \/ shared' = [shared EXCEPT ![t[2]] = @ \ {t}]
    <3>1. ASSUME NEW d \in Devs
          PROVE  t \notin shared'[d] /\ \A u \in shared'[d] : u \in shared[d]
      <4>1. CASE shared' = [e \in Devs |-> shared[e] \ {t}]
        BY Zenon, <4>1
      <4>2. CASE shared' = [shared EXCEPT ![t[2]] = @ \ {t}]
        BY Zenon, <4>2, <2>a, <2>0, <2>d
      <4>. QED
        BY Zenon, <2>2, <4>1, <4>2
    <3>. QED
      BY Zenon, <3>1, <2>0, <2>a, <2>c, OwnFrame
  <2>3. CASE /\ UNCHANGED shared
             /\ <<pc[t], p>> \in {<<"loop", "test">>, <<"test", "poll">>, <<"spin", "relock">>}
    <3>1. p \notin {"acquire", "spin", "relock", "done"} \/ pc[t] = "spin"
      BY SMT, <2>3
    <3>. QED
      BY Zenon, <3>1, <2>3, <2>0, <2>a, <2>c, <2>d, OwnFrame
  <2>. QED
    BY SMT, <2>b, <2>1, <2>2, <2>3
<1>2. CASE pc[t] \notin {"acquire", "loop", "test", "spin", "relock"}
  <2>1. UNCHANGED <<dma_flag, runner, shared>>
    BY Zenon, <1>2, PollStep
  <2>2. PICK p \in Busy : pc' = [pc EXCEPT ![t] = p]
    BY Zenon, <1>2, PollStep DEF Moved
  <2>3. /\ pc \in [Threads -> Pcs] /\ \A d \in Devs : shared'[d] \subseteq Threads
        /\ p \notin {"acquire", "spin", "relock", "done"}
    BY Zenon DEF TypeOK, Busy
  <2>4. pc'[t] = p /\ \A u \in Threads \ {t} : pc'[u] = pc[u]
    BY Zenon, <2>2, <2>3
  <2>. QED
    BY Zenon, <2>1, <2>3, <2>4, OwnFrame DEF OwnInv
<1>. QED
  BY ZenonT(40), <1>1, <1>2

\* A step of a vfio-user thread leaves the poll threads where they are; the
\* flag is set from the request until the thread has dma_mutex.
LEMMA RequestStep ==
  ASSUME TypeOK, NEW d \in Devs, GuestRequest(d) \/ FinishRequest(d),
         \A e \in Devs : dma_flag[e] <=> runner[e] \in {"flagged", "locked"}
  PROVE  /\ UNCHANGED <<shared, pc, pos, q_idx, descs>>
         /\ \A e \in Devs : dma_flag'[e] <=> runner'[e] \in {"flagged", "locked"}
<1>. USE DEF devVars, localVars
<1>1. UNCHANGED <<shared, pc, pos, q_idx, descs>>
  BY Zenon DEF GuestRequest, FinishRequest, dma_register_cb, dma_unregister_cb, TX_QUEUE_START,
         TX_QUEUE_STOP, RX_QUEUE_START, RX_QUEUE_STOP, runner_exit, dma_lock, dma_clear, dma_update
<1>2. \/ UNCHANGED <<dma_flag, runner>>
      \/ /\ dma_flag' = [dma_flag EXCEPT ![d] = TRUE]
         /\ runner' = [runner EXCEPT ![d] = "flagged"]
      \/ /\ UNCHANGED dma_flag /\ runner[d] = "flagged"
         /\ runner' = [runner EXCEPT ![d] = "locked"]
      \/ /\ dma_flag' = [dma_flag EXCEPT ![d] = FALSE]
         /\ runner' = [runner EXCEPT ![d] = "cleared"]
      \/ /\ UNCHANGED dma_flag /\ runner[d] \in {"cleared", "idle"}
         /\ \E r \in {"idle", "exited"} : runner' = [runner EXCEPT ![d] = r]
  BY Zenon DEF GuestRequest, FinishRequest, dma_register_cb, dma_unregister_cb, TX_QUEUE_START,
         TX_QUEUE_STOP, RX_QUEUE_START, RX_QUEUE_STOP, runner_exit, dma_lock, dma_clear, dma_update
<1>3. dma_flag \in [Devs -> BOOLEAN] /\ runner \in [Devs -> RunnerStates]
  BY Zenon DEF TypeOK
<1>4. ASSUME NEW e \in Devs
      PROVE  dma_flag'[e] <=> runner'[e] \in {"flagged", "locked"}
  <2>1. CASE e # d
    <3>1. dma_flag'[e] = dma_flag[e] /\ runner'[e] = runner[e]
      BY Zenon, <1>2, <1>3, <2>1
    <3>. QED
      BY Zenon, <3>1
  <2>2. CASE e = d
    BY Zenon, <1>2, <1>3, <2>2
  <2>. QED
    BY Zenon, <2>1, <2>2
<1>. QED
  BY Zenon, <1>1, <1>4

LEMMA OwnHolds == ~Shared /\ Spec => []OwnInv
<1>1. Init => OwnInv
  BY Zenon DEF Init, OwnInv
<1>2. ~Shared /\ IInv /\ IInv' /\ OwnInv /\ [Next]_vars => OwnInv'
  <2>. SUFFICES ASSUME ~Shared, IInv, IInv', OwnInv, [Next]_vars
                PROVE  OwnInv'
    BY Zenon
  <2>0. TypeOK /\ TypeOK' /\ LockInv /\ RingInv
    BY Zenon DEF IInv
  <2>1. ASSUME NEW d \in Devs, GuestRequest(d) \/ FinishRequest(d)
        PROVE  OwnInv'
    <3>1. \A e \in Devs : dma_flag[e] <=> runner[e] \in {"flagged", "locked"}
      BY Zenon DEF OwnInv
    <3>2. /\ UNCHANGED <<shared, pc>>
          /\ \A e \in Devs : dma_flag'[e] <=> runner'[e] \in {"flagged", "locked"}
      BY Zenon, <2>0, <2>1, <3>1, RequestStep
    <3>. QED
      BY Zenon, <3>2 DEF OwnInv
  <2>2. ASSUME NEW t \in Threads, poll_thread(t)
        PROVE  OwnInv'
    BY Zenon, <2>0, <2>2, OwnThread
  <2>3. ASSUME NEW t \in Threads, request_stop(t)
        PROVE  OwnInv'
    BY Zenon, <2>3 DEF request_stop, devVars, OwnInv
  <2>4. CASE UNCHANGED vars
    BY Zenon, <2>4 DEF vars, devVars, OwnInv
  <2>. QED
    BY Zenon, <2>1, <2>2, <2>3, <2>4 DEF Next, Terminated
<1>3. CASE ~Shared
  BY <1>1, <1>2, <1>3, Invariance, PTL DEF Spec
<1>4. CASE Shared
  BY <1>4
<1>. QED
  BY <1>3, <1>4

\* If no poll thread serves two devices, the threads and the vfio-user threads
\* never wait for each other in a circle, for any number of devices.
THEOREM WaitsNeverLock == ~Shared /\ Spec => []WaitsEnd
<1>1. ~Shared /\ IInv /\ OwnInv => WaitsEnd
  <2>. SUFFICES ASSUME ~Shared, IInv, OwnInv
                PROVE  WaitsEnd
    BY Zenon
  <2>0. TypeOK /\ LockInv
    BY Zenon DEF IInv
  <2>1. ASSUME NEW t \in Threads, ThreadWaits(t)
        PROVE  runner[Dev(t)] \in {"flagged", "locked", "cleared"}
    <3>1. Dev(t) \in Devs
      BY Zenon, <2>0, OneDevice
    <3>2. exclusive[Dev(t)] \/ dma_flag[Dev(t)]
      BY Zenon, <2>1 DEF ThreadWaits
    <3>. QED
      BY Zenon, <2>0, <3>1, <3>2 DEF LockInv, OwnInv
  <2>2. ASSUME NEW d \in Devs, RunnerWaits(d), NEW t \in shared[d]
        PROVE  Dev(t) = d /\ ~ThreadWaits(t) /\ pc[t] # "done"
    <3>1. t[2] = d /\ pc[t] \notin {"acquire", "spin", "relock", "done"}
      BY Zenon DEF OwnInv
    <3>2. t \in Threads
      BY Zenon, <2>0 DEF TypeOK
    <3>. QED
      BY Zenon, <2>0, <3>1, <3>2, OneDevice DEF ThreadWaits
  <2>. QED
    BY Zenon, <2>1, <2>2 DEF WaitsEnd, WaitsForRequest
<1>2. CASE ~Shared
  BY <1>1, <1>2, OwnHolds, Invariance, PTL
<1>3. CASE Shared
  BY <1>3
<1>. QED
  BY <1>2, <1>3

\* Poll threads wait for vfio-user threads during requests only, also if they
\* serve two devices: once the vfio-user threads are gone, no poll thread waits
\* for a mutex or for a flag, and ~VdpdkThreads waits for threads that go on.
THEOREM PollThreadsWaitForRequests == Spec => []WaitsForRequest
<1>. DEFINE FlagInv == \A d \in Devs : dma_flag[d] <=> runner[d] \in {"flagged", "locked"}
<1>1. Init => FlagInv
  BY Zenon DEF Init
<1>2. IInv /\ FlagInv /\ [Next]_vars => FlagInv'
  <2>. SUFFICES ASSUME IInv, FlagInv, [Next]_vars
                PROVE  FlagInv'
    BY Zenon
  <2>0. TypeOK
    BY Zenon DEF IInv
  <2>1. ASSUME NEW d \in Devs, GuestRequest(d) \/ FinishRequest(d)
        PROVE  FlagInv'
    BY Zenon, <2>0, <2>1, RequestStep
  <2>2. ASSUME NEW t \in Threads, poll_thread(t)
        PROVE  UNCHANGED <<dma_flag, runner>>
    <3>1. CASE acquire(t) \/ loop(t) \/ test(t) \/ spin(t) \/ relock(t)
      BY Zenon, <3>1 DEF acquire, loop, test, spin, relock, devVars
    <3>2. CASE tx_load(t) \/ tx_translate(t) \/ tx_descriptor(t) \/ tx_bad_iova(t) \/ tx_send(t)
      BY Zenon, <3>2 DEF tx_load, tx_translate, tx_descriptor, tx_bad_iova, tx_send, devVars
    <3>3. CASE rx_load(t) \/ rx_fallback(t) \/ rx_packet(t) \/ rx_break(t) \/ rx_return(t)
      BY Zenon, <3>3 DEF rx_load, rx_fallback, rx_packet, rx_break, rx_return, devVars
    <3>. QED
      BY Zenon, <2>2, <3>1, <3>2, <3>3 DEF poll_thread
  <2>3. ASSUME NEW t \in Threads, request_stop(t)
        PROVE  UNCHANGED <<dma_flag, runner>>
    BY Zenon, <2>3 DEF request_stop, devVars
  <2>4. CASE UNCHANGED <<dma_flag, runner>>
    BY Zenon, <2>4
  <2>5. UNCHANGED vars => UNCHANGED <<dma_flag, runner>>
    BY Zenon DEF vars, devVars
  <2>. QED
    BY Zenon, <2>1, <2>2, <2>3, <2>4, <2>5 DEF Next, Terminated
<1>3. IInv /\ FlagInv => WaitsForRequest
  <2>. SUFFICES ASSUME IInv, FlagInv, NEW t \in Threads, ThreadWaits(t)
                PROVE  runner[Dev(t)] \in {"flagged", "locked", "cleared"}
    BY Zenon DEF WaitsForRequest
  <2>1. LockInv /\ Dev(t) \in Devs
    BY Zenon, DevFacts DEF IInv
  <2>2. exclusive[Dev(t)] \/ dma_flag[Dev(t)]
    BY Zenon DEF ThreadWaits
  <2>. QED
    BY Zenon, <2>1, <2>2 DEF LockInv
<1>. HIDE DEF FlagInv
<1>. QED
  BY <1>1, <1>2, <1>3, Invariance, PTL DEF Spec

LEMMA ToReleaseSteps ==
  ASSUME ~Shared, TypeOK, LockInv, NEW t \in Threads
  PROVE  /\ ToRelease(t) = Steps(pc[t], q_idx[t], descs[t[2]])
         /\ pc[t] \in Pcs /\ q_idx[t] \in 0 .. NumRxQueues /\ descs[t[2]] \in Nat
         /\ ToRelease(t) \in Nat
         /\ ToRelease(t) = 0 => pc[t] \in {"spin", "done"}
<1>1. Dev(t) = t[2] /\ t[2] \in Devs
  BY Zenon, OneDevice
<1>2. ToRelease(t) = Steps(pc[t], q_idx[t], descs[t[2]])
  BY Zenon, <1>1 DEF ToRelease, Steps
<1>3. pc[t] \in Pcs /\ q_idx[t] \in 0 .. NumRxQueues /\ descs[t[2]] \in 0 .. MaxDescs
  BY Zenon, <1>1 DEF TypeOK
<1>4. descs[t[2]] \in Nat /\ descs[t[2]] <= descs[t[2]]
  BY SMT, <1>3, CountAssumption
<1>. QED
  BY Zenon, <1>2, <1>3, <1>4, StepsType

LEMMA OwnStepNears ==
  ASSUME ~Shared, TypeOK, LockInv, RingInv, OwnInv, NEW t \in Threads,
         runner[t[2]] = "flagged", poll_thread(t)
  PROVE  Steps(pc'[t], q_idx'[t], descs'[t[2]]) < Steps(pc[t], q_idx[t], descs[t[2]])
<1>0. t[2] \in Devs /\ q_idx[t] \in 0 .. NumRxQueues /\ descs[t[2]] \in Nat
  BY Zenon, OneDevice, ToReleaseSteps
<1>a. /\ pc \in [Threads -> Pcs] /\ q_idx \in [Threads -> 0 .. NumRxQueues]
      /\ descs \in [Devs -> 0 .. MaxDescs]
  BY Zenon DEF TypeOK
<1>1. CASE pc[t] \in {"acquire", "loop", "test", "spin", "relock"}
  <2>1. dma_flag[t[2]]
    BY Zenon, <1>0 DEF OwnInv
  <2>2. UNCHANGED <<q_idx, descs>>
    BY Zenon, <1>1, MutexStep
  <2>3. PICK p \in Pcs :
          /\ pc' = [pc EXCEPT ![t] = p]
          /\ <<pc[t], p>> \in {<<"acquire", "loop">>, <<"relock", "poll">>, <<"loop", "done">>,
                               <<"loop", "test">>, <<"test", "spin">>}
    BY ZenonT(40), <1>1, <2>1, MutexStep
  <2>4. pc'[t] = p
    BY Zenon, <1>a, <2>3
  <2>5. ASSUME NEW q \in 0 .. NumRxQueues, NEW n \in Nat
        PROVE  Steps(p, q, n) < Steps(pc[t], q, n)
    <3>1. 3 * (NumRxQueues - q) \in Nat
      BY SMT, CountAssumption
    <3>. DEFINE r == 3 * (NumRxQueues - q)
    <3>2. /\ Steps("spin", q, n) = 0 /\ Steps("done", q, n) = 0
          /\ Steps("test", q, n) = 1 /\ Steps("loop", q, n) = 2 /\ Steps("acquire", q, n) = 3
          /\ Steps("poll", q, n) = 5 + (r + n) /\ Steps("relock", q, n) = 6 + (r + n)
      BY Zenon, StepsAt
    <3>3. r \in Nat
      BY Zenon, <3>1
    <3>. HIDE DEF r
    <3>. QED
      BY SMT, <2>3, <3>2, <3>3
  <2>. QED
    BY Zenon, <1>0, <2>2, <2>4, <2>5
<1>2. CASE pc[t] \notin {"acquire", "loop", "test", "spin", "relock"}
  <2>1. PICK p \in Busy, q \in 0 .. NumRxQueues, n \in Nat :
          /\ Moved(t, p, q, n)
          /\ Steps(p, q, n) < Steps(pc[t], q_idx[t], descs[t[2]])
    BY Zenon, <1>2, PollStep
  <2>2. pc'[t] = p /\ q_idx'[t] = q /\ descs'[t[2]] = n
    BY Zenon, <1>0, <1>a, <2>1 DEF Moved
  <2>. QED
    BY Zenon, <2>1, <2>2
<1>. QED
  BY Zenon, <1>1, <1>2

LEMMA OtherStepNears ==
  ASSUME ~Shared, TypeOK, LockInv, RingInv, NEW t \in Threads, NEW u \in Threads, u # t, poll_thread(u)
  PROVE  /\ pc'[t] = pc[t] /\ q_idx'[t] = q_idx[t]
         /\ descs'[t[2]] \in Nat /\ descs'[t[2]] <= descs[t[2]]
<1>0. t[2] \in Devs /\ u[2] \in Devs /\ descs[t[2]] \in Nat
  BY Zenon, OneDevice, ToReleaseSteps
<1>a. /\ pc \in [Threads -> Pcs] /\ q_idx \in [Threads -> 0 .. NumRxQueues]
      /\ descs \in [Devs -> 0 .. MaxDescs]
  BY Zenon DEF TypeOK
<1>b. descs[t[2]] <= descs[t[2]]
  BY SMT, <1>0
<1>1. CASE pc[u] \in {"acquire", "loop", "test", "spin", "relock"}
  <2>1. UNCHANGED <<q_idx, descs>> /\ \E p \in Pcs : pc' = [pc EXCEPT ![u] = p]
    BY Zenon, <1>1, MutexStep
  <2>. QED
    BY Zenon, <1>0, <1>a, <1>b, <2>1
<1>2. CASE pc[u] \notin {"acquire", "loop", "test", "spin", "relock"}
  <2>1. PICK p \in Busy, q \in 0 .. NumRxQueues, n \in Nat : Moved(u, p, q, n) /\ n <= descs[u[2]]
    BY Zenon, <1>2, PollStep
  <2>2. pc'[t] = pc[t] /\ q_idx'[t] = q_idx[t]
    BY Zenon, <1>a, <2>1 DEF Moved
  <2>3. descs'[t[2]] = IF t[2] = u[2] THEN n ELSE descs[t[2]]
    BY Zenon, <1>0, <1>a, <2>1 DEF Moved
  <2>4. CASE t[2] = u[2]
    BY Zenon, <2>1, <2>2, <2>3, <2>4
  <2>5. CASE t[2] # u[2]
    BY Zenon, <1>0, <1>b, <2>2, <2>3, <2>5
  <2>. QED
    BY Zenon, <2>4, <2>5
<1>. QED
  BY Zenon, <1>1, <1>2

\* If no poll thread serves two devices, a poll thread of a device with a waiting
\* request has a number of steps left before it lets the request go first
\* (tx_poll_thread_single, rx_poll_thread_single); its steps lower the number,
\* nothing raises it, and at zero the thread does not hold dma_mutex.
THEOREM RequestsComeNearer ==
  ~Shared /\ Spec => RequestNears /\ [](\A t \in Threads : ToRelease(t) \in Nat)
<1>. DEFINE Near(t) ==
              runner[Dev(t)] = "flagged" /\ runner'[Dev(t)] = "flagged" =>
                /\ Dev(t)' = Dev(t)
                /\ ToRelease(t)' <= ToRelease(t)
                /\ poll_thread(t) => ToRelease(t)' < ToRelease(t)
                /\ ToRelease(t)' = 0 => t \notin shared'[Dev(t)]
            Value == \A t \in Threads :
                       /\ Dev(t) = t[2] /\ t[2] \in Devs
                       /\ ToRelease(t) = Steps(pc[t], q_idx[t], descs[t[2]])
                       /\ pc[t] \in Pcs /\ q_idx[t] \in 0 .. NumRxQueues /\ descs[t[2]] \in Nat
                       /\ ToRelease(t) \in Nat
                       /\ ToRelease(t) = 0 => pc[t] \in {"spin", "done"}
<1>1. ~Shared /\ IInv => Value
  BY Zenon, OneDevice, ToReleaseSteps DEF IInv
<1>2. (~Shared /\ IInv => Value)'
  BY <1>1, PTL
<1>3. Value => \A t \in Threads : ToRelease(t) \in Nat
  BY Zenon
<1>4. ~Shared /\ IInv /\ IInv' /\ OwnInv /\ OwnInv' /\ [Next]_vars => [\A t \in Threads : Near(t)]_vars
  <2>. SUFFICES ASSUME ~Shared, IInv, IInv', OwnInv, OwnInv', Next, NEW t \in Threads,
                       runner[Dev(t)] = "flagged"
                PROVE  /\ Dev(t)' = Dev(t)
                       /\ ToRelease(t)' <= ToRelease(t)
                       /\ poll_thread(t) => ToRelease(t)' < ToRelease(t)
                       /\ ToRelease(t)' = 0 => t \notin shared'[Dev(t)]
    BY Zenon
  <2>0. TypeOK /\ LockInv /\ RingInv
    BY Zenon DEF IInv
  <2>1. /\ Dev(t) = t[2] /\ t[2] \in Devs
        /\ ToRelease(t) = Steps(pc[t], q_idx[t], descs[t[2]])
        /\ pc[t] \in Pcs /\ q_idx[t] \in 0 .. NumRxQueues /\ descs[t[2]] \in Nat
        /\ ToRelease(t) \in Nat
    BY Zenon, <1>1
  <2>2. /\ Dev(t)' = t[2]
        /\ ToRelease(t)' = Steps(pc'[t], q_idx'[t], descs'[t[2]])
        /\ ToRelease(t)' \in Nat
        /\ ToRelease(t)' = 0 => pc'[t] \in {"spin", "done"}
    BY Zenon, <1>2
  <2>3. ToRelease(t)' = 0 => t \notin shared'[Dev(t)]
    <3>1. t \in shared'[t[2]] => pc'[t] \notin {"acquire", "spin", "relock", "done"}
      BY Zenon, <2>1 DEF OwnInv
    <3>2. pc'[t] \in {"spin", "done"} => pc'[t] \in {"acquire", "spin", "relock", "done"}
      BY Zenon
    <3>. QED
      BY Zenon, <2>1, <2>2, <3>1, <3>2
  <2>4. poll_thread(t) => ToRelease(t)' < ToRelease(t)
    BY Zenon, <2>0, <2>1, <2>2, OwnStepNears
  <2>5. ToRelease(t)' <= ToRelease(t)
    <3>1. ASSUME pc'[t] = pc[t], q_idx'[t] = q_idx[t], descs'[t[2]] \in Nat, descs'[t[2]] <= descs[t[2]]
          PROVE  ToRelease(t)' <= ToRelease(t)
      <4>1. Steps(pc[t], q_idx[t], descs'[t[2]]) <= Steps(pc[t], q_idx[t], descs[t[2]])
        BY Zenon, <3>1, <2>1, StepsType
      <4>2. ToRelease(t)' = Steps(pc[t], q_idx[t], descs'[t[2]])
        BY Zenon, <3>1, <2>2
      <4>. QED
        BY Zenon, <4>1, <4>2, <2>1
    <3>2. ASSUME UNCHANGED <<pc, q_idx, descs>>
          PROVE  ToRelease(t)' <= ToRelease(t)
      <4>1. descs[t[2]] <= descs[t[2]]
        BY SMT, <2>1
      <4>. QED
        BY ZenonT(40), <3>1, <3>2, <4>1, <2>1
    <3>3. ASSUME poll_thread(t)
          PROVE  ToRelease(t)' <= ToRelease(t)
      <4>1. \A x, y \in Nat : x < y => x <= y
        BY SMT
      <4>. QED
        BY Zenon, <3>3, <4>1, <2>1, <2>2, <2>4
    <3>4. ASSUME NEW u \in Threads, u # t, poll_thread(u)
          PROVE  ToRelease(t)' <= ToRelease(t)
      BY Zenon, <2>0, <3>1, <3>4, OtherStepNears
    <3>5. ASSUME NEW u \in Threads, request_stop(u)
          PROVE  UNCHANGED <<pc, q_idx, descs>>
      BY Zenon, <3>5 DEF request_stop, localVars
    <3>6. ASSUME NEW d \in Devs, GuestRequest(d) \/ FinishRequest(d)
          PROVE  UNCHANGED <<pc, q_idx, descs>>
      BY Zenon, <2>0, <3>6, RequestStep DEF OwnInv
    <3>7. ASSUME Terminated
          PROVE  UNCHANGED <<pc, q_idx, descs>>
      BY Zenon, <3>7 DEF Terminated, vars, localVars
    <3>. QED
      BY Zenon, <3>2, <3>3, <3>4, <3>5, <3>6, <3>7 DEF Next
  <2>. QED
    BY Zenon, <2>1, <2>2, <2>3, <2>4, <2>5
<1>5. CASE ~Shared
  BY <1>1, <1>3, <1>4, <1>5, OwnHolds, Invariance, PTL DEF Spec, RequestNears
<1>6. CASE Shared
  BY <1>6
<1>. QED
  BY <1>5, <1>6
=============================================================================
