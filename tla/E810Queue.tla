------------------------------ MODULE E810Queue ------------------------------
(***************************************************************************)
(* The descriptor queue engine of the E810 model (e810_queues.cc) and its  *)
(* three uses: the admin send queue (e810_adminq.cc), the LAN receive and  *)
(* the LAN transmit queues (e810_lan.cc).                                  *)
(*                                                                         *)
(* The engine was written for DMA that completes later.  In vmux           *)
(* CallbackAdaptor::IssueDma copies at once and calls the completion       *)
(* handler before it returns, so fetching, processing and writing back     *)
(* call each other: stack is the chain of C++ calls that have not          *)
(* returned, each with the locals it still needs.  vfu_ctx_mutex makes     *)
(* every call from outside wait until the stack is empty.                  *)
(*                                                                         *)
(* A descriptor is its ring index; whether it has a buffer to fetch, how   *)
(* its processing ends and how many descriptors a packet fills are choices.*)
(***************************************************************************)
EXTENDS Integers, Sequences, FiniteSets

CONSTANTS
  Kinds,      \* which subclasses of queue_base: "atq", "rx", "tx"
  RingLen,    \* len, the guest's ring size
  MaxActive,  \* MAX_ACTIVE_DESCS
  WordMod,    \* 2^32: the index arithmetic is on uint32_t
  Restarts    \* whether the guest enables a disabled queue without a reset

ASSUME QueueAssumption ==
  /\ Kinds \subseteq {"atq", "rx", "tx"}
  /\ RingLen \in Nat \ {0}
  /\ MaxActive \in Nat \ {0}
  /\ WordMod \in Nat /\ WordMod > RingLen
  /\ Restarts \in BOOLEAN

\* enum desc_ctx::state, in its order.
DESC_EMPTY == 0
DESC_FETCHING == 1
DESC_PREPARED == 3
DESC_PROCESSING == 4
DESC_PROCESSED == 5
States == {DESC_EMPTY, DESC_FETCHING, DESC_PREPARED, DESC_PROCESSING, DESC_PROCESSED}

Pos == 0 .. MaxActive - 1
Idx == 0 .. RingLen - 1

VARIABLES
  kind,              \* subclass of this queue
  enabled,           \* the queue is enabled
  active_first_pos,  \* context of the oldest active descriptor
  active_first_idx,  \* its ring index
  active_cnt,        \* number of active descriptors
  reg_tail,          \* the guest's tail doorbell
  reg_head,          \* the head the guest sees (LAN: from written back descriptors)
  state,             \* desc_ctxs[p]->state
  index,             \* desc_ctxs[p]->index
  segments,          \* dcache (rx) or ready_segments (tx)
  stack              \* calls that have not returned, innermost last

window == <<active_first_pos, active_first_idx, active_cnt>>
vars == <<kind, enabled, window, reg_tail, reg_head, state, index, segments, stack>>

\* The context of the k-th active descriptor, and descriptors published by
\* the guest but not written back yet.
At(k) == (active_first_pos + k) % MaxActive
Published == (reg_tail - active_first_idx) % RingLen

\* trigger() about to call trigger_fetch, trigger_process or
\* trigger_writeback; the loop of trigger_process at i + j; dma_fetch::done
\* about to prepare the i-th of cnt contexts, read from ring index idx on;
\* lan_queue_rx::packet_received with descriptors left to fill.
Frames ==
  [fn : {"fetch", "process", "writeback"}]
  \cup [fn : {"loop"}, at : 0 .. MaxActive]
  \cup [fn : {"fetched"}, pos : Pos, idx : Idx, i : 0 .. MaxActive, cnt : 1 .. MaxActive]
  \cup [fn : {"receive"}, left : 0 .. MaxActive]

Trigger == [fn |-> "fetch"]
Top == stack[Len(stack)]
Callers == SubSeq(stack, 1, Len(stack) - 1)
In(f) == stack # <<>> /\ Top.fn = f
Become(frame) == stack' = Append(Callers, frame)
Call(frame, callee) == stack' = Callers \o <<frame, callee>>
Return == stack' = Callers

TypeOK ==
  /\ kind \in Kinds
  /\ enabled \in BOOLEAN
  /\ active_first_pos \in Pos
  /\ active_first_idx \in Idx
  /\ active_cnt \in 0 .. MaxActive
  /\ reg_tail \in Idx
  /\ reg_head \in Idx
  /\ state \in [Pos -> States]
  /\ index \in [Pos -> Idx]
  /\ segments \in Seq(Pos)
  /\ stack \in Seq(Frames)

Init ==
  /\ kind \in Kinds
  /\ enabled = TRUE
  /\ active_first_pos = 0
  /\ active_first_idx = 0
  /\ active_cnt = 0
  /\ reg_tail = 0
  /\ reg_head = 0
  /\ state = [p \in Pos |-> DESC_EMPTY]
  /\ index = [p \in Pos |-> 0]
  /\ segments = <<>>
  /\ stack = <<>>

-----------------------------------------------------------------------------
(* Calls from outside                                                      *)

\* The guest publishes n descriptors; it never fills the ring completely.  n is 0
\* when it writes the same tail again, and when queue 0 is triggered because
\* another receive queue was enabled (see enable).
reg_updated(n) ==
  /\ stack = <<>> /\ enabled
  /\ n <= RingLen - 1 - ((reg_tail - reg_head) % RingLen)
  /\ reg_tail' = (reg_tail + n) % RingLen
  /\ stack' = <<Trigger>>
  /\ UNCHANGED <<kind, enabled, window, reg_head, state, index, segments>>

\* lan_queue_rx::packet_received, a packet that needs n descriptors.
packet_received(n) ==
  /\ kind = "rx" /\ stack = <<>> /\ enabled
  /\ Len(segments) >= n
  /\ stack' = <<[fn |-> "receive", left |-> n]>>
  /\ UNCHANGED <<kind, enabled, window, reg_tail, reg_head, state, index, segments>>

\* Defects: a reset that forgets the contexts, or the cached descriptors.
reset_keeps_contexts ==
  /\ stack = <<>>
  /\ enabled' = FALSE
  /\ active_first_pos' = 0 /\ active_first_idx' = 0 /\ active_cnt' = 0
  /\ reg_tail' = 0 /\ reg_head' = 0
  /\ segments' = <<>>
  /\ UNCHANGED <<kind, state, index, stack>>

reset_keeps_segments ==
  /\ stack = <<>>
  /\ enabled' = FALSE
  /\ active_first_pos' = 0 /\ active_first_idx' = 0 /\ active_cnt' = 0
  /\ reg_tail' = 0 /\ reg_head' = 0
  /\ state' = [p \in Pos |-> DESC_EMPTY]
  /\ UNCHANGED <<kind, index, segments, stack>>

\* e810_bm::reset: the queue's reset, and all registers are cleared.
reset ==
  /\ stack = <<>>
  /\ enabled' = FALSE
  /\ active_first_pos' = 0 /\ active_first_idx' = 0 /\ active_cnt' = 0
  /\ reg_tail' = 0 /\ reg_head' = 0
  /\ state' = [p \in Pos |-> DESC_EMPTY]
  /\ segments' = <<>>
  /\ UNCHANGED <<kind, index, stack>>

\* lan_queue_base::disable, or the admin queue's length register.
disable ==
  /\ stack = <<>> /\ enabled
  /\ enabled' = FALSE
  /\ UNCHANGED <<kind, window, reg_tail, reg_head, state, index, segments, stack>>

\* lan_queue_base::enable, which ends with a trigger.  The guest starts with an
\* empty ring: it has written 0 to the tail register, and to the head of the
\* receive context that initialize reads.  qena_updated then hands the tail to
\* tail_updated as if it were a queue number, so receive queue 0 is triggered
\* once more: this queue, or another one (reg_updated(0)).
enable ==
  /\ stack = <<>> /\ ~enabled
  /\ Restarts \/ (active_cnt = 0 /\ active_first_idx = 0)
  /\ enabled' = TRUE
  /\ reg_tail' = 0 /\ reg_head' = 0
  /\ \/ stack' = <<Trigger>>
     \/ kind = "rx" /\ stack' = <<Trigger, Trigger>>
  /\ UNCHANGED <<kind, window, state, index, segments>>

-----------------------------------------------------------------------------
(* The engine                                                              *)

MinOf(a, b) == IF a < b THEN a ELSE b

\* Defects: more contexts than there are; the entry at the tail as well; a
\* batch across the end of the ring.
FetchCount_unlimited(next_idx) ==
  MinOf(((reg_tail - next_idx) % WordMod) % RingLen, RingLen - next_idx)

FetchCount_tail_included(next_idx) ==
  LET avail == ((reg_tail - next_idx) % WordMod) % RingLen
  IN  MinOf(MinOf(avail + 1, MaxActive - active_cnt), RingLen - next_idx)

\* How many descriptors trigger_fetch fetches: what is available, as far as
\* there are contexts and as far as the end of the ring.
FetchCount(next_idx) ==
  LET desc_avail == ((reg_tail - next_idx) % WordMod) % RingLen
      fetch_cnt == MinOf(desc_avail, MaxActive - active_cnt)
  IN  IF next_idx + fetch_cnt > RingLen THEN RingLen - next_idx ELSE fetch_cnt

trigger_fetch ==
  LET next_idx == (active_first_idx + active_cnt) % RingLen
      cnt == FetchCount(next_idx)
      Nth(p) == (p - At(active_cnt)) % MaxActive
      Fetched(p) == Nth(p) < cnt
  IN  /\ In("fetch")
      /\ state' = [p \in Pos |-> IF Fetched(p) THEN DESC_FETCHING ELSE state[p]]
      /\ index' = [p \in Pos |-> IF Fetched(p) THEN (next_idx + Nth(p)) % RingLen ELSE index[p]]
      /\ active_cnt' = active_cnt + cnt
      /\ IF cnt = 0
           THEN Become([fn |-> "process"])
           ELSE Call([fn |-> "process"],
                     [fn |-> "fetched", pos |-> At(active_cnt), idx |-> next_idx,
                      i |-> 0, cnt |-> cnt])
      /\ UNCHANGED <<kind, enabled, active_first_pos, active_first_idx, reg_tail, reg_head, segments>>

\* dma_fetch::done, one descriptor.  A descriptor with a buffer fetches it in
\* prepare; the completion of that DMA calls trigger.
prepare ==
  LET next == [Top EXCEPT !.i = @ + 1]
  IN  /\ In("fetched") /\ Top.i < Top.cnt
      /\ state' = [state EXCEPT ![(Top.pos + Top.i) % MaxActive] = DESC_PREPARED]
      /\ \/ Become(next)
         \/ kind # "rx" /\ Call(next, Trigger)
      /\ UNCHANGED <<kind, enabled, window, reg_tail, reg_head, index, segments>>

\* Defect: the last trigger of dma_fetch::done is missing.
prepared_all_no_trigger ==
  /\ In("fetched") /\ Top.i = Top.cnt
  /\ Return
  /\ UNCHANGED <<kind, enabled, window, reg_tail, reg_head, state, index, segments>>

\* dma_fetch::done, after its loop.
prepared_all ==
  /\ In("fetched") /\ Top.i = Top.cnt
  /\ Become(Trigger)
  /\ UNCHANGED <<kind, enabled, window, reg_tail, reg_head, state, index, segments>>

\* Defect: go to the first prepared descriptor, whatever is before it.
trigger_process_any ==
  \E first \in 0 .. active_cnt :
    /\ In("process")
    /\ \A k \in 0 .. first - 1 : state[At(k)] # DESC_PREPARED
    /\ first < active_cnt => state[At(first)] = DESC_PREPARED
    /\ Become([fn |-> "loop", at |-> first])
    /\ UNCHANGED <<kind, enabled, window, reg_tail, reg_head, state, index, segments>>

\* Skip over descriptors that have been processed.
trigger_process ==
  \E first \in 0 .. active_cnt :
    /\ In("process")
    /\ \A k \in 0 .. first - 1 : state[At(k)] > DESC_PREPARED
    /\ first < active_cnt => state[At(first)] <= DESC_PREPARED
    /\ Become([fn |-> "loop", at |-> first])
    /\ UNCHANGED <<kind, enabled, window, reg_tail, reg_head, state, index, segments>>

\* admin_desc_ctx::process; an indirect command writes its answer to guest
\* memory, and the completion of that DMA calls trigger.
process_admin(p, next) ==
  /\ kind = "atq"
  /\ state' = [state EXCEPT ![p] = DESC_PROCESSED]
  /\ Become(next) \/ Call(next, Trigger)
  /\ UNCHANGED segments

\* rx_desc_ctx::process
process_rx(p, next) ==
  /\ kind = "rx"
  /\ state' = [state EXCEPT ![p] = DESC_PROCESSING]
  /\ segments' = Append(segments, p)
  /\ Become(next)

\* tx_desc_ctx::process: with the last descriptor of a packet, trigger_tx
\* sends the packet and is done with all its descriptors.
process_tx(p, next) ==
  /\ kind = "tx"
  /\ \/ /\ state' = [state EXCEPT ![p] = DESC_PROCESSING]
        /\ segments' = Append(segments, p)
     \/ /\ state' = [q \in Pos |-> IF q = p \/ \E s \in 1 .. Len(segments) : segments[s] = q
                                     THEN DESC_PROCESSED ELSE state[q]]
        /\ segments' = <<>>
  /\ Become(next)

\* One iteration of trigger_process, at whatever the window is now.
process ==
  LET p == At(Top.at)
      next == [Top EXCEPT !.at = @ + 1]
  IN  /\ In("loop")
      /\ Top.at < active_cnt /\ state[p] = DESC_PREPARED
      /\ process_admin(p, next) \/ process_rx(p, next) \/ process_tx(p, next)
      /\ UNCHANGED <<kind, enabled, window, reg_tail, reg_head, index>>

process_break ==
  /\ In("loop")
  /\ ~(Top.at < active_cnt /\ state[At(Top.at)] = DESC_PREPARED)
  /\ Become([fn |-> "writeback"])
  /\ UNCHANGED <<kind, enabled, window, reg_tail, reg_head, state, index, segments>>

\* Defect: trigger again although nothing was written back.
trigger_writeback_forever ==
  /\ In("writeback")
  /\ Become(Trigger)
  /\ UNCHANGED <<kind, enabled, window, reg_tail, reg_head, state, index, segments>>

\* do_writeback, dma_wb::done (or dma_hwb::done) and writeback_done: the
\* first cnt descriptors are given back, then trigger is called again.
writeback_done(cnt) ==
  LET Freed(p) == (p - active_first_pos) % MaxActive < cnt
  IN  /\ state' = [p \in Pos |-> IF Freed(p) THEN DESC_EMPTY ELSE state[p]]
      /\ active_first_pos' = At(cnt)
      /\ active_first_idx' = (active_first_idx + cnt) % RingLen
      /\ active_cnt' = active_cnt - cnt
      /\ reg_head' = active_first_idx'
      /\ Become(Trigger)

\* Write the processed prefix back, as far as the end of the ring.
trigger_writeback ==
  \E avail \in 0 .. active_cnt :
    LET cnt == IF active_first_idx + avail > RingLen THEN RingLen - active_first_idx ELSE avail
    IN  /\ In("writeback")
        /\ \A k \in 0 .. avail - 1 : state[At(k)] = DESC_PROCESSED
        /\ avail < active_cnt => state[At(avail)] # DESC_PROCESSED
        /\ IF cnt = 0
             THEN Return /\ UNCHANGED <<window, reg_head, state>>
             ELSE writeback_done(cnt)
        /\ UNCHANGED <<kind, enabled, reg_tail, index, segments>>

\* One descriptor of a received packet is filled; the completion of the DMA
\* calls trigger.
receive ==
  /\ In("receive")
  /\ IF Top.left = 0
       THEN Return /\ UNCHANGED <<state, segments>>
       ELSE /\ state' = [state EXCEPT ![segments[1]] = DESC_PROCESSED]
            /\ segments' = Tail(segments)
            /\ Call([Top EXCEPT !.left = @ - 1], Trigger)
  /\ UNCHANGED <<kind, enabled, window, reg_tail, reg_head, index>>

-----------------------------------------------------------------------------
Step ==
  \/ trigger_fetch \/ prepare \/ prepared_all
  \/ trigger_process \/ process \/ process_break
  \/ trigger_writeback \/ receive

Next ==
  \/ \E n \in 0 .. RingLen - 1 : reg_updated(n)
  \/ \E n \in 1 .. MaxActive : packet_received(n)
  \/ reset \/ disable \/ enable
  \/ Step

\* A call that has been made runs until it returns.
Spec == Init /\ [][Next]_vars
FairSpec == Spec /\ WF_vars(Step)

-----------------------------------------------------------------------------
(* Properties                                                              *)

\* The contexts of the window are in use and stand for consecutive ring
\* entries, the others are free.  This is what trigger_fetch asserts
\* (e810_queues.cc:90) when it takes contexts for new descriptors.  A batch is
\* read by one DMA, so that none crosses the end of the ring.
WindowConsecutive ==
  /\ \A k \in 0 .. MaxActive - 1 :
       IF k < active_cnt
         THEN state[At(k)] # DESC_EMPTY /\ index[At(k)] = (active_first_idx + k) % RingLen
         ELSE state[At(k)] = DESC_EMPTY
  /\ \A f \in 1 .. Len(stack) :
       stack[f].fn = "fetched" => stack[f].idx + stack[f].cnt <= RingLen

\* What is read from the ring has been published and not been given back:
\* trigger_fetch is to "abort if nothign to fetch" (e810_queues.cc:81).
ReadsPublished ==
  \A f \in 1 .. Len(stack) :
    stack[f].fn = "fetched" =>
      \A k \in stack[f].i .. stack[f].cnt - 1 :
        (stack[f].idx + k - reg_head) % RingLen < (reg_tail - reg_head) % RingLen

\* Processing starts in ring order ("Guaranteed to be called in order",
\* e810_bm.h:108-109): no descriptor has been processed before one that was
\* published earlier.
ProcessInOrder ==
  \A k, l \in 0 .. active_cnt - 1 :
    k < l /\ state[At(k)] <= DESC_PREPARED => state[At(l)] <= DESC_PREPARED

\* dcache and ready_segments hold exactly the descriptors being processed, in
\* ring order: packets are stored and sent in the order of the ring.
SegmentsInOrder ==
  LET Working == {k \in 0 .. active_cnt - 1 : state[At(k)] = DESC_PROCESSING}
      OffsetOf(s) == (segments[s] - active_first_pos) % MaxActive
  IN  /\ {OffsetOf(s) : s \in 1 .. Len(segments)} = Working
      /\ \A s, u \in 1 .. Len(segments) : s < u => OffsetOf(s) < OffsetOf(u)

\* When the outermost call returns nothing is left to do that only another
\* call would notice: no descriptor waits to be processed or written back,
\* and all published ones have been fetched unless every context is in use.
NothingForgotten ==
  stack = <<>> /\ enabled =>
    /\ \A k \in 0 .. active_cnt - 1 : state[At(k)] = DESC_PROCESSING
    /\ active_cnt = MinOf(MaxActive, Published)

\* Every call from outside returns: the mutual recursion ends.
CallReturns == stack # <<>> ~> stack = <<>>

\* The engine is an in-order consumer of the guest's ring (RingContract):
\* descriptors start one at a time in ring order and are given back in ring
\* order, only after they were started.  The admin queue is not (see
\* ProcessInOrder) and stands for an idle ring here.
Lan(x) == IF kind = "atq" THEN 0 ELSE x
Started == {k \in 0 .. active_cnt - 1 : state[At(k)] > DESC_PREPARED}

Contract ==
  INSTANCE RingContract WITH
    head <- Lan(active_first_idx),
    tail <- Lan(reg_tail),
    started <- IF kind = "atq" THEN {} ELSE {index[At(k)] : k \in Started}

InOrderConsumer == Contract!Spec

-----------------------------------------------------------------------------
(* Why the properties hold                                                 *)

\* The place of a context in the window.
Offset(p) == (p - active_first_pos) % MaxActive

\* Contexts of the window are in use, the others are free.
WindowInv ==
  \A p \in Pos :
    IF Offset(p) < active_cnt
      THEN state[p] # DESC_EMPTY /\ index[p] = (active_first_idx + Offset(p)) % RingLen
      ELSE state[p] = DESC_EMPTY

\* A context is being fetched iff exactly one call of dma_fetch::done has yet to
\* prepare it; this call knows its ring index.
Reads(frame) ==
  IF frame.fn = "fetched"
    THEN {(frame.pos + j) % MaxActive : j \in frame.i .. frame.cnt - 1}
    ELSE {}

FetchedInv ==
  /\ \A f \in 1 .. Len(stack) :
       stack[f].fn = "fetched" =>
         /\ stack[f].i <= stack[f].cnt /\ stack[f].idx + stack[f].cnt <= RingLen
         /\ \A j \in stack[f].i .. stack[f].cnt - 1 :
              index[(stack[f].pos + j) % MaxActive] = stack[f].idx + j
  /\ \A f \in 1 .. Len(stack) : \A p \in Reads(stack[f]) : state[p] = DESC_FETCHING
  /\ \A f, g \in 1 .. Len(stack) : f # g => Reads(stack[f]) \cap Reads(stack[g]) = {}
  /\ \A p \in Pos : state[p] = DESC_FETCHING => \E f \in 1 .. Len(stack) : p \in Reads(stack[f])

\* A LAN queue starts and finishes its descriptors in order; an admin command
\* is finished in the step that starts it.
OrderInv ==
  IF kind = "atq"
    THEN \A p \in Pos : state[p] # DESC_PROCESSING
    ELSE \A p, q \in Pos : Offset(p) < Offset(q) =>
           /\ state[q] > DESC_PREPARED => state[p] > DESC_PREPARED
           /\ state[q] = DESC_PROCESSED => state[p] = DESC_PROCESSED

SegmentsInv ==
  /\ \A s \in 1 .. Len(segments) : state[segments[s]] = DESC_PROCESSING
  /\ \A p \in Pos : state[p] = DESC_PROCESSING => \E s \in 1 .. Len(segments) : segments[s] = p
  /\ \A s, u \in 1 .. Len(segments) : s < u => Offset(segments[s]) < Offset(segments[u])

\* trigger_process of a LAN queue is not interrupted and is at the border of
\* what is started; a packet is received by the outermost call, and there are
\* descriptors for the rest of it.
CallInv ==
  \A f \in 1 .. Len(stack) :
    /\ kind # "atq" /\ stack[f].fn = "loop" =>
         /\ f = Len(stack) /\ stack[f].at <= active_cnt
         /\ \A p \in Pos : Offset(p) < stack[f].at <=> state[p] > DESC_PREPARED
    /\ stack[f].fn = "receive" => f = 1 /\ kind = "rx" /\ stack[f].left <= Len(segments)

\* What is active has been published, if a queue is reset before it is enabled.
RingInv == reg_head = active_first_idx /\ active_cnt <= Published

\* What trigger_fetch, trigger_process and trigger_writeback have left to do.
FetchDone == active_cnt = MinOf(MaxActive, Published)
ProcessDone ==
  \A p \in Pos : state[p] = DESC_PREPARED =>
    \E q \in Pos : Offset(q) < Offset(p) /\ state[q] = DESC_FETCHING
Quiet == FetchDone /\ ProcessDone /\ state[active_first_pos] # DESC_PROCESSED

\* Whoever returns leaves nothing to do that no caller does.
ProgressInv ==
  /\ stack = <<>> /\ enabled => Quiet
  /\ In("process") => FetchDone
  /\ In("loop") =>
       /\ FetchDone
       /\ ProcessDone \/ /\ Top.at <= active_cnt
                         /\ \A p \in Pos : Offset(p) < Top.at => state[p] > DESC_PREPARED
  /\ In("writeback") => FetchDone /\ (ProcessDone \/ state[active_first_pos] = DESC_PROCESSED)
  /\ In("receive") => Quiet

IInv == TypeOK /\ WindowInv /\ FetchedInv /\ OrderInv /\ SegmentsInv /\ CallInv
PInv == RingInv /\ ProgressInv

-----------------------------------------------------------------------------
(* Why a call returns                                                      *)

\* Descriptors of the guest behind the window.
Unfetched == (reg_tail - (active_first_idx + active_cnt)) % RingLen

InState(s) == {p \in Pos : state[p] = s}

\* How far the innermost call is from its end, or from calling again.
Distance(frame) ==
  CASE frame.fn = "fetched" -> 5
    [] frame.fn = "fetch" -> 4
    [] frame.fn = "process" -> 3
    [] frame.fn = "loop" -> 2
    [] OTHER -> 1

\* What is left to do, what weighs most first: descriptors to fetch, to write
\* back, to prepare, to start, to finish; calls that have not returned; the
\* innermost call.
Rank ==
  <<Unfetched, active_cnt, Cardinality(InState(DESC_FETCHING)),
    Cardinality(InState(DESC_PREPARED)), Cardinality(InState(DESC_PROCESSING)),
    Len(stack), IF stack = <<>> THEN 0 ELSE Distance(Top)>>

Below(r, s) == \E j \in 1 .. 7 : r[j] < s[j] /\ \A i \in 1 .. j - 1 : r[i] = s[i]

\* Every step of a call from outside leaves less to do, whichever functions call
\* each other, however deep, and also in a queue that was enabled again without
\* a reset: this is why CallReturns holds.
CallsRecede == [][Step => Below(Rank', Rank)]_vars

=============================================================================
