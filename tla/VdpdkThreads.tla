---------------------------- MODULE VdpdkThreads ----------------------------
(***************************************************************************)
(* The poll threads of the vDPDK devices and their handshake with the      *)
(* vfio-user threads over the guest's DMA mappings (devices/vdpdk.cpp).    *)
(*                                                                         *)
(* Every device has one vfio-user thread (its VmuxRunner), which executes  *)
(* the guest's register accesses and DMA (un)registrations one at a time.  *)
(* VdpdkThreads::start creates the poll threads: one rx and one tx thread  *)
(* per device, or, above sharing_thresh devices, one pair per two devices. *)
(* A poll thread holds the dma_mutex of all its devices shared and gives   *)
(* one up only when it sees that device's dma_flag.                        *)
(*                                                                         *)
(* Data are abstracted: an iova names a whole DMA region, a packet is a    *)
(* descriptor the guest published, and what a poll finds in a descriptor   *)
(* is a choice.                                                            *)
(***************************************************************************)
EXTENDS Integers

CONSTANTS
  NumDevs,        \* number of vDPDK devices, start_info.size()
  SharingThresh,  \* VdpdkThreads::sharing_thresh
  NumRxQueues,    \* MAX_RX_QUEUES and driver->max_queues_per_vm (both 4)
  Iova,           \* guest addresses of DMA regions
  Vaddr,          \* addresses at which vmux maps such regions
  NULL,           \* the null pointer
  BurstSize,      \* burst_size of tx_poll
  MaxStarts,      \* bound: TxQueues made per device
  MaxDescs        \* bound: descriptors a guest publishes / packets received

ASSUME CountAssumption ==
  /\ NumDevs \in Nat
  /\ SharingThresh \in Nat
  /\ NumRxQueues \in Nat \ {0}
  /\ BurstSize \in Nat \ {0}
  /\ MaxStarts \in Nat
  /\ MaxDescs \in Nat

ASSUME NullAssumption == NULL \notin Vaddr

Devs == 0 .. NumDevs - 1

RxIdx == 0 .. NumRxQueues - 1

-----------------------------------------------------------------------------
(* VdpdkThreads::start: which threads there are and which devices each one *)
(* serves, in the order it polls them.                                     *)

\* Poll threads are shared between VMs.
Shared == NumDevs > SharingThresh

Mid == NumDevs \div 2

\* One rx and one tx thread per slot; a slot is named by its first device.
Slots == IF Shared THEN 0 .. (Mid + (NumDevs % 2) - 1) ELSE Devs

\* The positions of a slot: both threads of a slot below Mid serve two devices.
Positions(i) == IF Shared /\ i < Mid THEN {1, 2} ELSE {1}

\* dev1 is start_info[i], dev2 is start_info[count - i - 1].
DevAt(i, k) == IF k = 1 THEN i ELSE NumDevs - i - 1

Threads == {"rx", "tx"} \X Slots

-----------------------------------------------------------------------------
VARIABLES
  \* per device
  dma_flag,   \* set while the vfio-user thread wants to change the mapping
  exclusive,  \* the vfio-user thread holds dma_mutex exclusively
  shared,     \* the poll threads holding dma_mutex shared
  mapping,    \* VfioUserServer::mappings: iova -> vaddr, or NULL
  runner,     \* what the vfio-user thread is doing
  op,         \* the DMA (un)registration it is executing
  tx_queue,   \* the installed TxQueue (a number, 0 for nullptr)
  tx_iova,    \* TxQueue::ring_iova of every TxQueue made so far
  tx_ring,    \* TxQueue::ring of every TxQueue made so far
  tx_starts,  \* number of TxQueues made so far
  rx_queues,  \* ring_iova of the installed RxQueues, or NULL
  descs,      \* descriptors and packets still to come
  \* per thread
  pc,         \* where the thread is
  pos,        \* position in its slot: which device it is polling
  inval,      \* dma_invalidated
  queue,      \* tx_poll: queue_data (0 for nullptr)
  q_idx,      \* rx_callback_fn: q_idx
  ring,       \* rx_callback_fn: ring
  riova,      \* rx_callback_fn: rxq->ring_iova
  sent,       \* tx_poll: nb_mbufs_used
  stop        \* the threads that were requested to stop

devVars == <<dma_flag, exclusive, mapping, runner, op>>
queueVars == <<tx_queue, tx_iova, tx_ring, tx_starts, rx_queues>>
localVars == <<inval, queue, q_idx, ring, riova, sent>>
vars == <<devVars, shared, queueVars, descs, pc, pos, localVars, stop>>

NoOp == [kind |-> "none", iova |-> NULL, vaddr |-> NULL]

Ops == [kind : {"none", "map", "unmap"},
        iova : Iova \cup {NULL}, vaddr : Vaddr \cup {NULL}]

RunnerStates == {"idle", "flagged", "locked", "cleared", "exited"}

Pcs == {"acquire", "loop", "test", "spin", "relock",
        "poll", "fallback", "ring", "use", "done"}

TypeOK ==
  /\ dma_flag \in [Devs -> BOOLEAN]
  /\ exclusive \in [Devs -> BOOLEAN]
  /\ shared \in [Devs -> SUBSET Threads]
  /\ mapping \in [Devs -> [Iova -> Vaddr \cup {NULL}]]
  /\ runner \in [Devs -> RunnerStates]
  /\ op \in [Devs -> Ops]
  /\ tx_queue \in [Devs -> 0 .. MaxStarts]
  /\ tx_starts \in [Devs -> 0 .. MaxStarts]
  /\ tx_iova \in [Devs -> [1 .. MaxStarts -> Iova \cup {NULL}]]
  /\ tx_ring \in [Devs -> [1 .. MaxStarts -> Vaddr \cup {NULL}]]
  /\ rx_queues \in [Devs -> [RxIdx -> Iova \cup {NULL}]]
  /\ descs \in [Devs -> 0 .. MaxDescs]
  /\ pc \in [Threads -> Pcs]
  /\ pos \in [Threads -> {1, 2}]
  /\ inval \in [Threads -> BOOLEAN]
  /\ queue \in [Threads -> 0 .. MaxStarts]
  /\ q_idx \in [Threads -> 0 .. NumRxQueues]
  /\ ring \in [Threads -> Vaddr \cup {NULL}]
  /\ riova \in [Threads -> Iova \cup {NULL}]
  /\ sent \in [Threads -> 0 .. BurstSize]
  /\ stop \in SUBSET Threads

Init ==
  /\ dma_flag = [d \in Devs |-> FALSE]
  /\ exclusive = [d \in Devs |-> FALSE]
  /\ shared = [d \in Devs |-> {}]
  /\ mapping = [d \in Devs |-> [i \in Iova |-> NULL]]
  /\ runner = [d \in Devs |-> "idle"]
  /\ op = [d \in Devs |-> NoOp]
  /\ tx_queue = [d \in Devs |-> 0]
  /\ tx_starts = [d \in Devs |-> 0]
  /\ tx_iova = [d \in Devs |-> [n \in 1 .. MaxStarts |-> NULL]]
  /\ tx_ring = [d \in Devs |-> [n \in 1 .. MaxStarts |-> NULL]]
  /\ rx_queues = [d \in Devs |-> [i \in RxIdx |-> NULL]]
  /\ descs = [d \in Devs |-> MaxDescs]
  /\ pc = [t \in Threads |-> "acquire"]
  /\ pos = [t \in Threads |-> 1]
  /\ inval = [t \in Threads |-> FALSE]
  /\ queue = [t \in Threads |-> 0]
  /\ q_idx = [t \in Threads |-> 0]
  /\ ring = [t \in Threads |-> NULL]
  /\ riova = [t \in Threads |-> NULL]
  /\ sent = [t \in Threads |-> 0]
  /\ stop = {}

-----------------------------------------------------------------------------
(* The vfio-user thread of device d.                                       *)

\* dma_register_cb, up to the point where it waits for dma_mutex.  A region
\* that cannot be mapped is registered with a null vaddr.
dma_register_cb(d, i, v) ==
  /\ runner[d] = "idle"
  /\ mapping[d][i] = NULL
  /\ v # NULL => \A j \in Iova : mapping[d][j] # v
  /\ dma_flag' = [dma_flag EXCEPT ![d] = TRUE]
  /\ op' = [op EXCEPT ![d] = [kind |-> "map", iova |-> i, vaddr |-> v]]
  /\ runner' = [runner EXCEPT ![d] = "flagged"]
  /\ UNCHANGED <<exclusive, mapping, shared, queueVars, descs, pc, pos, localVars, stop>>

\* dma_unregister_cb, up to the point where it waits for dma_mutex.
dma_unregister_cb(d, i) ==
  /\ runner[d] = "idle"
  /\ mapping[d][i] # NULL
  /\ dma_flag' = [dma_flag EXCEPT ![d] = TRUE]
  /\ op' = [op EXCEPT ![d] = [kind |-> "unmap", iova |-> i, vaddr |-> NULL]]
  /\ runner' = [runner EXCEPT ![d] = "flagged"]
  /\ UNCHANGED <<exclusive, mapping, shared, queueVars, descs, pc, pos, localVars, stop>>

\* Defect: the vfio-user thread does not wait for the poll threads.
dma_lock_no_wait(d) ==
  /\ runner[d] = "flagged"
  /\ exclusive' = [exclusive EXCEPT ![d] = TRUE]
  /\ runner' = [runner EXCEPT ![d] = "locked"]
  /\ UNCHANGED <<dma_flag, mapping, op, shared, queueVars, descs, pc, pos, localVars, stop>>

\* std::lock_guard guard(dma_mutex)
dma_lock(d) ==
  /\ runner[d] = "flagged"
  /\ shared[d] = {}
  /\ exclusive' = [exclusive EXCEPT ![d] = TRUE]
  /\ runner' = [runner EXCEPT ![d] = "locked"]
  /\ UNCHANGED <<dma_flag, mapping, op, shared, queueVars, descs, pc, pos, localVars, stop>>

\* dma_flag.clear()
dma_clear(d) ==
  /\ runner[d] = "locked"
  /\ dma_flag' = [dma_flag EXCEPT ![d] = FALSE]
  /\ runner' = [runner EXCEPT ![d] = "cleared"]
  /\ UNCHANGED <<exclusive, mapping, op, shared, queueVars, descs, pc, pos, localVars, stop>>

\* map_dma_here or unmap_dma_here, and the guard's destructor.
dma_update(d) ==
  /\ runner[d] = "cleared"
  /\ mapping' = [mapping EXCEPT ![d][op[d].iova] = op[d].vaddr]
  /\ exclusive' = [exclusive EXCEPT ![d] = FALSE]
  /\ op' = [op EXCEPT ![d] = NoOp]
  /\ runner' = [runner EXCEPT ![d] = "idle"]
  /\ UNCHANGED <<dma_flag, shared, queueVars, descs, pc, pos, localVars, stop>>

\* region_access_read, TX_QUEUE_START: install a new TxQueue whose ring has
\* not been translated yet.
TX_QUEUE_START(d, i) ==
  /\ runner[d] = "idle"
  /\ tx_starts[d] < MaxStarts
  /\ LET n == tx_starts[d] + 1 IN
       /\ tx_starts' = [tx_starts EXCEPT ![d] = n]
       /\ tx_iova' = [tx_iova EXCEPT ![d][n] = i]
       /\ tx_queue' = [tx_queue EXCEPT ![d] = n]
  /\ UNCHANGED <<devVars, shared, tx_ring, rx_queues, descs, pc, pos, localVars, stop>>

\* region_access_write, TX_QUEUE_STOP
TX_QUEUE_STOP(d) ==
  /\ runner[d] = "idle"
  /\ tx_queue' = [tx_queue EXCEPT ![d] = 0]
  /\ UNCHANGED <<devVars, shared, tx_iova, tx_ring, tx_starts, rx_queues,
                 descs, pc, pos, localVars, stop>>

\* region_access_read, RX_QUEUE_START
RX_QUEUE_START(d, q, i) ==
  /\ runner[d] = "idle"
  /\ rx_queues' = [rx_queues EXCEPT ![d][q] = i]
  /\ UNCHANGED <<devVars, shared, tx_queue, tx_iova, tx_ring, tx_starts,
                 descs, pc, pos, localVars, stop>>

\* region_access_write, RX_QUEUE_STOP
RX_QUEUE_STOP(d, q) ==
  /\ runner[d] = "idle"
  /\ rx_queues' = [rx_queues EXCEPT ![d][q] = NULL]
  /\ UNCHANGED <<devVars, shared, tx_queue, tx_iova, tx_ring, tx_starts,
                 descs, pc, pos, localVars, stop>>

\* The main thread joins the vfio-user thread (VmuxRunner::join).
runner_exit(d) ==
  /\ runner[d] = "idle"
  /\ runner' = [runner EXCEPT ![d] = "exited"]
  /\ UNCHANGED <<dma_flag, exclusive, mapping, op, shared, queueVars, descs,
                 pc, pos, localVars, stop>>

\* ~VdpdkThreads runs after the vfio-user threads were joined; it requests
\* each jthread in turn to stop and joins it.
request_stop(t) ==
  /\ \A d \in Devs : runner[d] = "exited"
  /\ t \notin stop
  /\ \A u \in stop : pc[u] = "done"
  /\ stop' = stop \cup {t}
  /\ UNCHANGED <<devVars, shared, queueVars, descs, pc, pos, localVars>>

-----------------------------------------------------------------------------
(* A poll thread t.                                                        *)

Dev(t) == DevAt(t[2], pos[t])

Goto(t, l) == pc' = [pc EXCEPT ![t] = l]

\* std::shared_lock dma_lock(dev->dma_mutex), for each device in order.
acquire(t) ==
  /\ pc[t] = "acquire"
  /\ ~exclusive[Dev(t)]
  /\ shared' = [shared EXCEPT ![Dev(t)] = @ \cup {t}]
  /\ IF pos[t] = 1 /\ 2 \in Positions(t[2])
       THEN pos' = [pos EXCEPT ![t] = 2] /\ UNCHANGED pc
       ELSE pos' = [pos EXCEPT ![t] = 1] /\ Goto(t, "loop")
  /\ UNCHANGED <<devVars, queueVars, descs, localVars, stop>>

\* Defect: the stop token is not looked at.
loop_ignores_stop(t) ==
  /\ pc[t] = "loop"
  /\ Goto(t, "test")
  /\ UNCHANGED <<devVars, shared, queueVars, descs, pos, localVars, stop>>

\* The top of the loop: leave it, which releases the locks, or poll.
loop(t) ==
  /\ pc[t] = "loop"
  /\ IF t \in stop
       THEN /\ shared' = [d \in Devs |-> shared[d] \ {t}]
            /\ Goto(t, "done")
       ELSE /\ Goto(t, "test")
            /\ UNCHANGED shared
  /\ UNCHANGED <<devVars, queueVars, descs, pos, localVars, stop>>

\* Defect: the thread does not look at the flag.
test_ignores_flag(t) ==
  /\ pc[t] = "test"
  /\ Goto(t, "poll")
  /\ UNCHANGED <<devVars, shared, queueVars, descs, pos, localVars, stop>>

\* if (dev->dma_flag.test()) dma_lock.unlock(): nobody can clear the flag
\* between the two as long as this thread holds dma_mutex.
test(t) ==
  /\ pc[t] = "test"
  /\ IF dma_flag[Dev(t)]
       THEN /\ shared' = [shared EXCEPT ![Dev(t)] = @ \ {t}]
            /\ Goto(t, "spin")
       ELSE /\ Goto(t, "poll")
            /\ UNCHANGED shared
  /\ UNCHANGED <<devVars, queueVars, descs, pos, localVars, stop>>

\* while (dev->dma_flag.test());
spin(t) ==
  /\ pc[t] = "spin"
  /\ ~dma_flag[Dev(t)]
  /\ Goto(t, "relock")
  /\ UNCHANGED <<devVars, shared, queueVars, descs, pos, localVars, stop>>

\* Defect: the poll is not told to look up its addresses again.
relock_no_invalidation(t) ==
  /\ pc[t] = "relock"
  /\ ~exclusive[Dev(t)]
  /\ shared' = [shared EXCEPT ![Dev(t)] = @ \cup {t}]
  /\ Goto(t, "poll")
  /\ UNCHANGED <<devVars, queueVars, descs, pos, localVars, stop>>

\* dma_lock.lock(); dma_invalidated = true
relock(t) ==
  /\ pc[t] = "relock"
  /\ ~exclusive[Dev(t)]
  /\ shared' = [shared EXCEPT ![Dev(t)] = @ \cup {t}]
  /\ inval' = [inval EXCEPT ![t] = TRUE]
  /\ Goto(t, "poll")
  /\ UNCHANGED <<devVars, queueVars, descs, pos, queue, q_idx, ring, riova, sent, stop>>

\* Return from tx_poll or rx_callback_fn, to the next device or to the loop.
EndPoll(t) ==
  /\ IF pos[t] = 1 /\ 2 \in Positions(t[2])
       THEN pos' = [pos EXCEPT ![t] = 2] /\ Goto(t, "test")
       ELSE pos' = [pos EXCEPT ![t] = 1] /\ Goto(t, "loop")
  /\ inval' = [inval EXCEPT ![t] = FALSE]
  /\ queue' = [queue EXCEPT ![t] = 0]
  /\ q_idx' = [q_idx EXCEPT ![t] = 0]
  /\ ring' = [ring EXCEPT ![t] = NULL]
  /\ riova' = [riova EXCEPT ![t] = NULL]
  /\ sent' = [sent EXCEPT ![t] = 0]

-----------------------------------------------------------------------------
(* tx_poll                                                                 *)

\* tx_queue.load()
tx_load(t) ==
  /\ t[1] = "tx" /\ pc[t] = "poll"
  /\ IF tx_queue[Dev(t)] = 0
       THEN EndPoll(t)
       ELSE /\ queue' = [queue EXCEPT ![t] = tx_queue[Dev(t)]]
            /\ Goto(t, "ring")
            /\ UNCHANGED <<pos, inval, q_idx, ring, riova, sent>>
  /\ UNCHANGED <<devVars, shared, queueVars, descs, stop>>

\* Defect: a queue whose translation was invalidated is uninstalled for the
\* guest to start again.
tx_translate_gives_up(t) ==
  LET d == Dev(t)
      n == queue[t]
      r == IF inval[t] THEN NULL ELSE mapping[d][tx_iova[d][n]] IN
  /\ t[1] = "tx" /\ pc[t] = "ring"
  /\ IF inval[t] \/ tx_ring[d][n] = NULL
       THEN /\ tx_ring' = [tx_ring EXCEPT ![d][n] = r]
            /\ IF r = NULL
                 THEN /\ tx_queue' = [tx_queue EXCEPT ![d] = 0]
                      /\ EndPoll(t)
                 ELSE /\ Goto(t, "use")
                      /\ UNCHANGED <<tx_queue, pos, localVars>>
       ELSE /\ Goto(t, "use")
            /\ UNCHANGED <<tx_ring, tx_queue, pos, localVars>>
  /\ UNCHANGED <<devVars, shared, tx_iova, tx_starts, rx_queues, descs, stop>>

\* Translate the ring unless the cached translation may be kept; if there is
\* none, uninstall whatever queue is installed now.
tx_translate(t) ==
  LET d == Dev(t)
      n == queue[t]
      r == mapping[d][tx_iova[d][n]] IN
  /\ t[1] = "tx" /\ pc[t] = "ring"
  /\ IF inval[t] \/ tx_ring[d][n] = NULL
       THEN /\ tx_ring' = [tx_ring EXCEPT ![d][n] = r]
            /\ IF r = NULL
                 THEN /\ tx_queue' = [tx_queue EXCEPT ![d] = 0]
                      /\ EndPoll(t)
                 ELSE /\ Goto(t, "use")
                      /\ UNCHANGED <<tx_queue, pos, localVars>>
       ELSE /\ Goto(t, "use")
            /\ UNCHANGED <<tx_ring, tx_queue, pos, localVars>>
  /\ UNCHANGED <<devVars, shared, tx_iova, tx_starts, rx_queues, descs, stop>>

\* One descriptor whose buffer translates: it is copied into an mbuf, or
\* dropped because it is too large, and handed back to the guest.
tx_descriptor(t) ==
  /\ t[1] = "tx" /\ pc[t] = "use"
  /\ sent[t] < BurstSize
  /\ descs[Dev(t)] > 0
  /\ \E i \in Iova : mapping[Dev(t)][i] # NULL
  /\ descs' = [descs EXCEPT ![Dev(t)] = @ - 1]
  /\ \/ sent' = [sent EXCEPT ![t] = @ + 1]
     \/ UNCHANGED sent
  /\ UNCHANGED <<devVars, shared, queueVars, pc, pos, inval, queue, q_idx, ring, riova, stop>>

\* One descriptor whose buffer does not translate: uninstall whatever queue
\* is installed now and return without sending.
tx_bad_iova(t) ==
  /\ t[1] = "tx" /\ pc[t] = "use"
  /\ sent[t] < BurstSize
  /\ descs[Dev(t)] > 0
  /\ \E i \in Iova : mapping[Dev(t)][i] = NULL
  /\ tx_queue' = [tx_queue EXCEPT ![Dev(t)] = 0]
  /\ EndPoll(t)
  /\ UNCHANGED <<devVars, shared, tx_iova, tx_ring, tx_starts, rx_queues, descs, stop>>

\* The burst is full, the next descriptor is not available, or no mbuf could
\* be allocated: send the burst and return.
tx_send(t) ==
  /\ t[1] = "tx" /\ pc[t] = "use"
  /\ EndPoll(t)
  /\ UNCHANGED <<devVars, shared, queueVars, descs, stop>>

-----------------------------------------------------------------------------
(* rx_callback_fn                                                          *)

\* Break out of the loop over the packets of driver queue q_idx.
NextQueue(t) ==
  /\ q_idx' = [q_idx EXCEPT ![t] = @ + 1]
  /\ ring' = [ring EXCEPT ![t] = NULL]
  /\ riova' = [riova EXCEPT ![t] = NULL]
  /\ Goto(t, "poll")
  /\ UNCHANGED <<pos, inval, queue, sent>>

\* Resolve the ring of the rx queue at guest address i (NULL for no queue).
Resolve(t, i) ==
  IF i = NULL \/ mapping[Dev(t)][i] = NULL
    THEN NextQueue(t)
    ELSE /\ riova' = [riova EXCEPT ![t] = i]
         /\ ring' = [ring EXCEPT ![t] = mapping[Dev(t)][i]]
         /\ Goto(t, "use")
         /\ UNCHANGED <<pos, inval, queue, q_idx, sent>>

\* No packets on driver queue q_idx; or, if there are, load rx_queues[q_idx].
rx_load(t) ==
  /\ t[1] = "rx" /\ pc[t] = "poll"
  /\ q_idx[t] < NumRxQueues
  /\ \/ NextQueue(t)
     \/ /\ descs[Dev(t)] > 0
        /\ LET i == rx_queues[Dev(t)][q_idx[t]] IN
             IF i = NULL
               THEN Goto(t, "fallback") /\ UNCHANGED <<pos, localVars>>
               ELSE Resolve(t, i)
  /\ UNCHANGED <<devVars, shared, queueVars, descs, stop>>

\* A queue with this index does not exist, fall back to queue 0.
rx_fallback(t) ==
  /\ t[1] = "rx" /\ pc[t] = "fallback"
  /\ Resolve(t, rx_queues[Dev(t)][0])
  /\ UNCHANGED <<devVars, shared, queueVars, descs, stop>>

\* Defect: one packet more than there are is copied.
rx_packet_beyond(t) ==
  /\ t[1] = "rx" /\ pc[t] = "use"
  /\ descs[Dev(t)] >= 0
  /\ descs' = [descs EXCEPT ![Dev(t)] = @ - 1]
  /\ UNCHANGED <<devVars, shared, queueVars, pc, pos, localVars, stop>>

\* One packet is copied into the guest's buffer.
rx_packet(t) ==
  /\ t[1] = "rx" /\ pc[t] = "use"
  /\ descs[Dev(t)] > 0
  /\ descs' = [descs EXCEPT ![Dev(t)] = @ - 1]
  /\ UNCHANGED <<devVars, shared, queueVars, pc, pos, localVars, stop>>

\* No more packets, or the next one does not fit the next descriptor.
rx_break(t) ==
  /\ t[1] = "rx" /\ pc[t] = "use"
  /\ NextQueue(t)
  /\ UNCHANGED <<devVars, shared, queueVars, descs, stop>>

\* driver->recv_consumed
rx_return(t) ==
  /\ t[1] = "rx" /\ pc[t] = "poll"
  /\ q_idx[t] = NumRxQueues
  /\ EndPoll(t)
  /\ UNCHANGED <<devVars, shared, queueVars, descs, stop>>

-----------------------------------------------------------------------------
GuestRequest(d) ==
  \/ \E i \in Iova, v \in Vaddr \cup {NULL} : dma_register_cb(d, i, v)
  \/ \E i \in Iova : dma_unregister_cb(d, i)
  \/ \E i \in Iova : TX_QUEUE_START(d, i)
  \/ TX_QUEUE_STOP(d)
  \/ \E q \in RxIdx, i \in Iova : RX_QUEUE_START(d, q, i)
  \/ \E q \in RxIdx : RX_QUEUE_STOP(d, q)
  \/ runner_exit(d)

FinishRequest(d) == dma_lock(d) \/ dma_clear(d) \/ dma_update(d)

poll_thread(t) ==
  \/ acquire(t) \/ loop(t) \/ test(t) \/ spin(t) \/ relock(t)
  \/ tx_load(t) \/ tx_translate(t) \/ tx_descriptor(t) \/ tx_bad_iova(t) \/ tx_send(t)
  \/ rx_load(t) \/ rx_fallback(t) \/ rx_packet(t) \/ rx_break(t) \/ rx_return(t)

Terminated ==
  /\ \A t \in Threads : pc[t] = "done"
  /\ UNCHANGED vars

Next ==
  \/ \E d \in Devs : GuestRequest(d) \/ FinishRequest(d)
  \/ \E t \in Threads : poll_thread(t) \/ request_stop(t)
  \/ Terminated

\* A thread that can take a step eventually does: poll threads never block
\* except on a mutex, a vfio-user thread finishes the request it is executing
\* once the mutex is free, and the destructor's loop goes on.  Nothing is
\* assumed of the guests' requests.
Fairness ==
  /\ \A d \in Devs : WF_vars(FinishRequest(d))
  /\ \A t \in Threads : WF_vars(poll_thread(t)) /\ WF_vars(request_stop(t))

\* A poll thread that waits for a mutex or a flag is moreover not passed over
\* for ever while the mutex or the flag keeps becoming free.
StrongFairness == \A t \in Threads : SF_vars(acquire(t) \/ relock(t) \/ spin(t))

Spec == Init /\ [][Next]_vars
FairSpec == Spec /\ Fairness
StrongSpec == FairSpec /\ StrongFairness

-----------------------------------------------------------------------------
(* Properties                                                              *)

Polling(t, d) == /\ pc[t] \in {"poll", "fallback", "ring", "use"}
                 /\ Dev(t) = d

\* While a poll dereferences its ring, the pointer it uses is where the
\* ring's guest address is mapped now: a translation cached in TxQueue::ring
\* never outlives the mapping (tx_poll relies on dma_invalidated for this),
\* nor does the local one of rx_callback_fn.
NoStaleRing ==
  \A t \in Threads : pc[t] = "use" =>
    LET d == Dev(t)
        i == IF t[1] = "tx" THEN tx_iova[d][queue[t]] ELSE riova[t]
        r == IF t[1] = "tx" THEN tx_ring[d][queue[t]] ELSE ring[t]
    IN  r # NULL /\ i \in Iova /\ r = mapping[d][i]

\* No DMA mapping of a device is added or released while a poll thread is
\* inside tx_poll or rx_callback_fn of that device (the purpose of dma_mutex,
\* vdpdk.hpp:29-30).
NoChangeWhilePolling ==
  [][\A d \in Devs : mapping'[d] # mapping[d] =>
       \A t \in Threads : ~Polling(t, d)]_vars

\* The guest addresses a transmit poll may look up: first that of its ring,
\* then those in the descriptors, which can be any.
Addressed(t) == IF pc[t] = "ring" THEN {tx_iova[Dev(t)][queue[t]]} ELSE Iova

\* A transmit queue is uninstalled only if its guest stops it, or if the tx
\* thread of its device looked up an address that is not mapped now, polling
\* this queue or one the guest has replaced by it during the poll: tx_poll
\* clears the queue that is installed, not the one it loaded (vdpdk.cpp:422),
\* but no queue is lost to a poll of another device or without such an address.
QueueKept ==
  [][\A d \in Devs : tx_queue[d] # 0 /\ tx_queue'[d] = 0 =>
       \/ TX_QUEUE_STOP(d)
       \/ \E t \in Threads : /\ t[1] = "tx" /\ Polling(t, d) /\ queue[t] \in 1 .. tx_queue[d]
                            /\ \E i \in Addressed(t) : mapping[d][i] = NULL]_vars

\* A request to change a mapping is executed: the poll threads let go of
\* dma_mutex ("Wait until vfio-user thread holds mutex", vdpdk.cpp:658).
RequestServed ==
  \A d \in Devs : runner[d] = "flagged" ~> runner[d] = "locked"

\* Once all vfio-user threads are gone, ~VdpdkThreads joins every poll thread.
ThreadsJoin ==
  (\A d \in Devs : runner[d] = "exited") ~> (\A t \in Threads : pc[t] = "done")
-----------------------------------------------------------------------------
(* The inductive invariant behind NoStaleRing and NoChangeWhilePolling.    *)

\* Thread t holds the dma_mutex of the device at position k of its slot.
Holds(t, k) ==
  CASE pc[t] = "acquire" -> k < pos[t]
    [] pc[t] \in {"spin", "relock"} -> k # pos[t]
    [] pc[t] = "done" -> FALSE
    [] OTHER -> TRUE

HeldInv(t) ==
  /\ pos[t] \in Positions(t[2])
  /\ \A k \in Positions(t[2]) : Holds(t, k) => t \in shared[DevAt(t[2], k)]

LockInv ==
  /\ \A d \in Devs : exclusive[d] <=> runner[d] \in {"locked", "cleared"}
  /\ \A d \in Devs : exclusive[d] => shared[d] = {}
  /\ \A t \in Threads : HeldInv(t)

\* Thread t will translate the ring of the device at position k again before
\* it uses it.
WillTranslate(t, k) ==
  /\ pos[t] = k
  /\ \/ pc[t] \in {"spin", "relock"}
     \/ pc[t] \in {"poll", "ring"} /\ inval[t]

\* TxQueue n of device d is untranslated, or translated as mapped now.
Fresh(d, n) == tx_ring[d][n] \in {NULL, mapping[d][tx_iova[d][n]]}

TxInv(t, k) ==
  LET d == DevAt(t[2], k)
      q == queue[t]
  IN  /\ tx_queue[d] \in {0, tx_starts[d]}
      /\ \A n \in 1 .. MaxStarts : n <= tx_starts[d] => tx_iova[d][n] \in Iova
      /\ \A n \in 1 .. MaxStarts : n > tx_starts[d] => tx_ring[d][n] = NULL
      /\ pc[t] = "acquire" => \A n \in 1 .. MaxStarts : tx_ring[d][n] = NULL
      /\ tx_queue[d] # 0 /\ pc[t] # "done" /\ ~WillTranslate(t, k) => Fresh(d, tx_queue[d])
      /\ pos[t] = k /\ pc[t] \in {"ring", "use"} =>
           /\ q \in 1 .. tx_starts[d]
           /\ \A n \in 1 .. MaxStarts : n > q => tx_ring[d][n] = NULL
           /\ ~WillTranslate(t, k) => Fresh(d, q)
           /\ pc[t] = "use" => tx_ring[d][q] # NULL

RxInv(t) ==
  /\ pc[t] # "ring"
  /\ pc[t] \in {"fallback", "use"} => q_idx[t] < NumRxQueues
  /\ pc[t] = "use" =>
       /\ riova[t] \in Iova
       /\ ring[t] # NULL
       /\ ring[t] = mapping[Dev(t)][riova[t]]

RingInv ==
  \A t \in Threads :
    /\ t[1] = "tx" => pc[t] # "fallback" /\ \A k \in Positions(t[2]) : TxInv(t, k)
    /\ t[1] = "rx" => RxInv(t)

IInv == TypeOK /\ LockInv /\ RingInv

-----------------------------------------------------------------------------
(* Why a request is served, if every device has poll threads of its own.   *)

\* Thread t waits for a vfio-user thread: to lock dma_mutex, or for the flag.
ThreadWaits(t) ==
  \/ pc[t] \in {"acquire", "relock"} /\ exclusive[Dev(t)]
  \/ pc[t] = "spin" /\ dma_flag[Dev(t)]

\* The vfio-user thread of d waits for the poll threads that hold dma_mutex.
RunnerWaits(d) == runner[d] = "flagged" /\ shared[d] # {}

\* A poll thread waits for a vfio-user thread only during a request of the
\* device, whether or not it serves two devices.  None waits once the vfio-user
\* threads are gone, so ~VdpdkThreads can join them all.
WaitsForRequest ==
  \A t \in Threads : ThreadWaits(t) => runner[Dev(t)] \in {"flagged", "locked", "cleared"}

\* Nobody waits for somebody who is waiting in turn, except for a vfio-user
\* thread whose poll threads all go on: whoever holds dma_mutex neither waits
\* nor has returned (tx_poll_thread_single, rx_poll_thread_single,
\* vdpdk.cpp:645-665).
WaitsEnd ==
  /\ WaitsForRequest
  /\ \A d \in Devs : RunnerWaits(d) =>
       \A t \in shared[d] : Dev(t) = d /\ ~ThreadWaits(t) /\ pc[t] # "done"

\* A bound on the steps thread t takes before it has let go of dma_mutex for
\* a request of its device: the rest of its poll, the top of the loop, the test.
ToRelease(t) ==
  LET rest == 3 * (NumRxQueues - q_idx[t]) + descs[Dev(t)] IN
  CASE pc[t] \in {"spin", "done"} -> 0
    [] pc[t] = "test" -> 1
    [] pc[t] = "loop" -> 2
    [] pc[t] = "acquire" -> 3
    [] pc[t] = "use" -> 3 + rest
    [] pc[t] \in {"ring", "fallback"} -> 4 + rest
    [] pc[t] = "poll" -> 5 + rest
    [] pc[t] = "relock" -> 6 + rest

\* While a request waits for dma_mutex, every step of a poll thread of its
\* device brings that thread nearer to letting go of it, and no step of another
\* thread takes it back; at zero the thread does not hold it.
RequestNears ==
  [][\A t \in Threads :
       runner[Dev(t)] = "flagged" /\ runner'[Dev(t)] = "flagged" =>
         /\ Dev(t)' = Dev(t)
         /\ ToRelease(t)' <= ToRelease(t)
         /\ poll_thread(t) => ToRelease(t)' < ToRelease(t)
         /\ ToRelease(t)' = 0 => t \notin shared'[Dev(t)]]_vars

\* A dma_flag is set from a request until the vfio-user thread has dma_mutex,
\* and only a thread that is between acquire and done, and not letting a
\* request go first, holds its device's dma_mutex.
OwnInv ==
  /\ \A d \in Devs : dma_flag[d] <=> runner[d] \in {"flagged", "locked"}
  /\ \A d \in Devs : \A t \in shared[d] :
       t[2] = d /\ pc[t] \notin {"acquire", "spin", "relock", "done"}
=============================================================================
