----------------------------- MODULE E810Transmit -----------------------------
(***************************************************************************)
(* Sending a packet: lan_queue_tx (e810_lan.cc) gathers the descriptors of *)
(* a packet and sends it through the DPDK driver (drivers/dpdk.hpp).  A    *)
(* TCP segmentation offload (TSO) unit is offered to the NIC buffer by     *)
(* buffer; if the driver refuses at any point, the model cuts the unit     *)
(* into frames itself.                                                     *)
(*                                                                         *)
(* A descriptor gives the size of its buffer in 14 bits, but trigger_tx    *)
(* and prepare also read the two bits above, which belong to the VLAN tag. *)
(* The total of a unit adds up the sizes, the offsets of its data add up   *)
(* what is read.  Nothing checks a size or a segment size: both may be     *)
(* zero, and a unit may be shorter than its headers or longer than MTU.    *)
(*                                                                         *)
(* A byte is its unit (units alternate between 0 and 1, so that data of    *)
(* the previous unit can be told from data of this one) and its offset.    *)
(* Of the header fields only the TCP sequence number is kept, relative to  *)
(* the one of the unit.  The driver has one port (Dpdk's constructor).     *)
(***************************************************************************)
EXTENDS Integers, Sequences

CONSTANTS
  Lens,      \* buffer sizes the guest uses
  TagLens,   \* what the bits of the VLAN tag add to a size, with 0 for no tag
  MaxData,   \* data descriptors of a unit
  Hdr,       \* maclen + iplen + l4len; a frame without has no sequence number
  Msss,      \* values of tso_mss
  MTU,       \* longest frame
  MbufRoom,  \* bytes that fit into an mbuf
  Pool       \* mbufs of the transmit pool

ASSUME TransmitAssumption ==
  /\ Lens \subseteq Nat /\ TagLens \subseteq Nat
  /\ MaxData \in Nat \ {0}
  /\ Hdr \in Nat \ {0} /\ Msss \subseteq Nat /\ MTU \in Nat
  /\ MbufRoom \in Nat \ {0} /\ Pool \in Nat

VARIABLES
  unit,            \* the unit being fetched: [id, tso, mss, total, fetched]
  ready_segments,  \* its descriptors
  eop,             \* the last of them ends the packet
  tso_off,         \* bytes of the unit that have been copied
  tso_len,         \* bytes of pktbuf that the next frame starts with
  pktbuf,          \* the last frame built
  sent_seq,        \* sequence number in its header
  pc,              \* "idle", "tx" (trigger_tx_packet), "hw" (EthSendTso),
                   \* "sw" (copy), "rest" (not all given back), "aborted"
  seg,             \* data descriptor that EthSendTso is called with
  tso_supported,   \* Dpdk::tso_supported; FALSE also stands for the tap driver
  tso_seg,         \* Dpdk::tso_seg: data in the chain of mbufs
  nb_segs,         \* mbufs in the chain, 0 if tso_seg is null
  free,            \* mbufs in the pool
  nic,             \* mbufs the NIC has not sent yet
  sent,            \* frames of this unit given to the NIC
  lost             \* data of this unit was dropped

segments == <<ready_segments, eop>>
frameVars == <<tso_off, tso_len, pktbuf, sent_seq>>
driverVars == <<tso_seg, nb_segs, free, nic>>
vars == <<unit, segments, frameVars, pc, seg, tso_supported, driverVars, sent, lost>>

MinOf(a, b) == IF a < b THEN a ELSE b

\* Bytes from .. to - 1 of the unit.
Bytes(from, to) == [n \in 1 .. to - from |-> <<unit.id, from + n - 1>>]

\* A buffer holds the bytes from .. to - 1 of what is read for the unit; the
\* sizes of the buffers before it add up to low.  A context descriptor holds
\* none.
Buffer(from, to, low) == [ctx |-> FALSE, from |-> from, to |-> to, low |-> low]
Context == [ctx |-> TRUE, from |-> 0, to |-> 0, low |-> 0]

\* Data descriptors of the unit, and the data of the one at seg.
d_skip == IF ready_segments # <<>> /\ ready_segments[1].ctx THEN 1 ELSE 0
NumData == Len(ready_segments) - d_skip
Data == Bytes(ready_segments[d_skip + seg].from, ready_segments[d_skip + seg].to)

\* mbufs of a chain with n bytes: the first one is allocated in any case, and
\* each is filled before the next one.
Mbufs(n) == IF n = 0 THEN 1 ELSE (n + MbufRoom - 1) \div MbufRoom

Byte == {0, 1} \X Nat

\* State of the transmit queue and of the driver.
TypeOK ==
  /\ unit \in [id : {0, 1}, tso : BOOLEAN, mss : Nat, total : Nat, fetched : Nat]
  /\ ready_segments \in Seq([ctx : BOOLEAN, from : Nat, to : Nat, low : Nat])
  /\ Len(ready_segments) <= MaxData + 1
  /\ eop \in BOOLEAN
  /\ tso_off \in 0 .. unit.total
  /\ tso_len \in {0, Hdr}
  /\ pktbuf \in Seq(Byte)
  /\ sent_seq \in Nat
  /\ pc \in {"idle", "tx", "hw", "sw", "rest", "aborted"}
  /\ seg \in 1 .. MaxData
  /\ tso_supported \in BOOLEAN
  /\ tso_seg \in Seq(Byte) /\ nb_segs \in 0 .. Pool
  /\ free \in 0 .. Pool /\ nic \in 0 .. Pool
  /\ sent \in Seq([hw : BOOLEAN, seq : Nat, bytes : Seq(Byte)])
  /\ lost \in BOOLEAN

Init ==
  /\ unit = [id |-> 0, tso |-> FALSE, mss |-> 0, total |-> 0, fetched |-> 0]
  /\ ready_segments = <<>> /\ eop = FALSE
  /\ tso_off = 0 /\ tso_len = 0 /\ pktbuf = <<>> /\ sent_seq = 0
  /\ pc = "idle" /\ seg = 1
  /\ tso_supported \in BOOLEAN
  /\ tso_seg = <<>> /\ nb_segs = 0 /\ free = Pool /\ nic = 0
  /\ sent = <<>> /\ lost = FALSE

-----------------------------------------------------------------------------
(* tx_desc_ctx::process: the next descriptor of the guest is ready         *)

NewUnit(tso, mss) ==
  [id |-> 1 - unit.id, tso |-> tso, mss |-> mss, total |-> 0, fetched |-> 0]

\* abort() or a failed assertion ends the process.
abort ==
  /\ pc' = "aborted"
  /\ UNCHANGED <<unit, segments, frameVars, seg, tso_supported, driverVars, sent, lost>>

\* A context descriptor (for TSO or for time stamping) before its data.
process_context(tso, mss) ==
  /\ pc = "idle" /\ ready_segments = <<>>
  /\ unit' = NewUnit(tso, mss)
  /\ sent' = <<>> /\ lost' = FALSE
  /\ ready_segments' = <<Context>> /\ eop' = FALSE
  /\ pc' = "tx"
  /\ UNCHANGED <<frameVars, seg, tso_supported, driverVars>>

\* A context descriptor behind another descriptor of the unit.
process_context_late ==
  /\ pc = "idle" /\ ready_segments # <<>>
  /\ abort

\* A buffer of n bytes, with n + tag bytes read.  The guest ends a unit after
\* MaxData buffers.
process_data(n, tag, last) ==
  LET first == ready_segments = <<>>
      u == IF first THEN NewUnit(FALSE, 0) ELSE unit
  IN  /\ pc = "idle"
      /\ NumData < MaxData - 1 \/ last
      /\ unit' = [u EXCEPT !.total = @ + n, !.fetched = @ + n + tag]
      /\ sent' = IF first THEN <<>> ELSE sent
      /\ lost' = IF first THEN FALSE ELSE lost
      /\ ready_segments' =
           Append(ready_segments, Buffer(u.fetched, u.fetched + n + tag, u.total))
      /\ eop' = last
      /\ pc' = "tx"
      /\ UNCHANGED <<frameVars, seg, tso_supported, driverVars>>

\* lan_queue_tx::reset drops a unit that is not complete.
reset ==
  /\ pc = "idle"
  /\ ready_segments' = <<>> /\ eop' = FALSE
  /\ tso_off' = 0 /\ tso_len' = 0
  /\ lost' = (lost \/ ready_segments # <<>>)
  /\ UNCHANGED <<unit, pktbuf, sent_seq, pc, seg, tso_supported, driverVars, sent>>

-----------------------------------------------------------------------------
(* lan_queue_tx::trigger_tx_packet, called until it returns false          *)

\* Defect: a unit that is not completely fetched is tried again at once.
incomplete_tries_again ==
  /\ pc = "tx" /\ ~eop
  /\ pc' = IF ready_segments = <<>> THEN "idle" ELSE "tx"
  /\ UNCHANGED <<unit, segments, frameVars, seg, tso_supported, driverVars, sent, lost>>

\* Nothing queued, or the unit is not completely fetched yet.
incomplete ==
  /\ pc = "tx" /\ ~eop
  /\ pc' = "idle"
  /\ UNCHANGED <<unit, segments, frameVars, seg, tso_supported, driverVars, sent, lost>>

\* Nothing of a TSO unit has been sent yet: the NIC is tried first.
TriesNic == unit.tso /\ tso_len = 0 /\ tso_off = 0

\* Only a unit without TSO has to be within MTU here.
LengthAccepted == unit.tso \/ unit.total <= MTU

too_long ==
  /\ pc = "tx" /\ eop
  /\ ~LengthAccepted
  /\ abort

\* Defect: the NIC is tried again for the rest of a unit.
choose_path_again ==
  /\ pc = "tx" /\ eop
  /\ LengthAccepted
  /\ pc' = IF unit.tso THEN "hw" ELSE "sw"
  /\ seg' = 1
  /\ UNCHANGED <<unit, segments, frameVars, tso_supported, driverVars, sent, lost>>

\* Try the NIC, unless part of the unit has been sent.
choose_path ==
  /\ pc = "tx" /\ eop
  /\ LengthAccepted
  /\ pc' = IF TriesNic THEN "hw" ELSE "sw"
  /\ seg' = 1
  /\ UNCHANGED <<unit, segments, frameVars, tso_supported, driverVars, sent, lost>>

\* All descriptors of the unit are given back.
unit_done ==
  /\ ready_segments' = <<>> /\ eop' = FALSE
  /\ pc' = "tx"

-----------------------------------------------------------------------------
(* CallbackAdaptor::EthSendTso and Dpdk::send_tso                          *)

\* Defect: the chain is forgotten without being freed.
tso_refused_leaks ==
  /\ tso_seg' = <<>> /\ nb_segs' = 0
  /\ pc' = "sw"
  /\ UNCHANGED <<unit, segments, frameVars, seg, tso_supported, free, nic, sent, lost>>

\* Return false: the chain is freed and forgotten.
tso_refused ==
  /\ tso_seg' = <<>> /\ nb_segs' = 0 /\ free' = free + nb_segs
  /\ pc' = "sw"
  /\ UNCHANGED <<unit, segments, frameVars, seg, tso_supported, nic, sent, lost>>

\* Append a buffer to the chain and return true.
tso_extended(chain, needed) ==
  /\ tso_seg' = chain /\ nb_segs' = nb_segs + needed /\ free' = free - needed
  /\ seg' = seg + 1
  /\ UNCHANGED <<unit, segments, frameVars, pc, tso_supported, nic, sent, lost>>

\* Defect: the chain of a unit that was sent is not forgotten.
tso_sent_keeps_chain(chain, needed) ==
  /\ tso_seg' = chain /\ nb_segs' = nb_segs + needed /\ free' = free - needed
  /\ nic' = nic + nb_segs + needed
  /\ sent' = Append(sent, [hw |-> TRUE, seq |-> 0, bytes |-> chain])
  /\ unit_done
  /\ UNCHANGED <<unit, frameVars, seg, tso_supported, lost>>

\* The NIC takes the chain; the unit is done.
tso_sent(chain, needed) ==
  /\ tso_seg' = <<>> /\ nb_segs' = 0 /\ free' = free - needed
  /\ nic' = nic + nb_segs + needed
  /\ sent' = Append(sent, [hw |-> TRUE, seq |-> 0, bytes |-> chain])
  /\ unit_done
  /\ UNCHANGED <<unit, frameVars, seg, tso_supported, lost>>

\* One call, with data descriptor seg.  It fails without TSO in the NIC,
\* without mbufs, with headers that are too large for the first mbuf, and
\* when rte_eth_tx_burst has no room.
send_tso ==
  LET chain == tso_seg \o Data
      needed == Mbufs(Len(chain)) - nb_segs
      fits == tso_supported /\ needed <= free
      headers_fit == Hdr <= MinOf(Len(chain), MbufRoom)
  IN  /\ pc = "hw"
      /\ \/ ~fits /\ tso_refused
         \/ fits /\ seg < NumData /\ tso_extended(chain, needed)
         \/ fits /\ seg = NumData /\ tso_refused
         \/ fits /\ seg = NumData /\ headers_fit /\ tso_sent(chain, needed)

-----------------------------------------------------------------------------
(* Software segmentation and Dpdk::send                                    *)

\* Where the next frame ends in the unit.
data_limit ==
  IF ~unit.tso THEN unit.total
  ELSE MinOf(unit.total, IF tso_off = 0 THEN Hdr + unit.mss ELSE tso_off + unit.mss)

\* Not done yet with this TSO unit, after the frame up to data_limit.
unit_unfinished == unit.tso /\ data_limit < unit.total

\* The next frame adds no data, and no descriptor is given back after it:
\* trigger_tx_packet leaves everything as it is and asks to be called again.
\* This is a TSO unit with tso_mss = 0, or one buffer of size 0 or more of
\* them that nothing else of their packet is in front of any more.
Stalled == eop /\ data_limit = tso_off /\ (unit_unfinished \/ d_skip = 0)

\* send copies a frame into one mbuf.  Without an mbuf, or without room in the
\* ring of the NIC, the frame is dropped.  The frames that a stalled unit
\* repeats are recorded in neither sent nor lost (a bound).
send(seq, bytes) ==
  \/ /\ free > 0
     /\ sent' = IF Stalled THEN sent
                ELSE Append(sent, [hw |-> FALSE, seq |-> seq, bytes |-> bytes])
     /\ free' = free - 1 /\ nic' = nic + 1
     /\ UNCHANGED <<tso_seg, nb_segs, lost>>
  \/ /\ lost' = (lost \/ ~Stalled)
     /\ UNCHANGED <<driverVars, sent>>

\* The sequence number in the header of the next frame.
tso_postupdate_header(seq, paylen) == seq + paylen

\* The next bytes behind the header in pktbuf (behind nothing in the first
\* frame, which brings its header).
frame == SubSeq(pktbuf, 1, tso_len) \o Bytes(tso_off, data_limit)

\* In 32 bits, the length of a frame that is shorter than its headers wraps.
tso_paylen == IF Len(frame) < Hdr THEN unit.mss ELSE MinOf(Len(frame) - Hdr, unit.mss)

\* assert(tso_len <= MTU), after the copy.
frame_too_long ==
  /\ pc = "sw" /\ Len(frame) > MTU
  /\ abort

\* After the last frame: the context descriptor and the buffers that start
\* below data_limit are given back, which is where the copy loop stops.
give_back ==
  \E dcnt \in d_skip .. Len(ready_segments) :
    /\ \A i \in d_skip + 1 .. Len(ready_segments) :
         i <= dcnt <=> ready_segments[i].from < data_limit
    /\ IF dcnt = Len(ready_segments)
         THEN unit_done
         ELSE /\ ready_segments' = SubSeq(ready_segments, dcnt + 1, Len(ready_segments))
              /\ eop' = eop
              /\ pc' = "rest"

\* Copy and send the next frame.
copy_and_send ==
  LET seq == IF tso_len = 0 THEN 0 ELSE sent_seq
  IN  /\ pc = "sw" /\ Len(frame) <= MTU
      /\ send(seq, frame)
      /\ pktbuf' = frame
      /\ sent_seq' = IF unit.tso THEN tso_postupdate_header(seq, tso_paylen) ELSE seq
      /\ IF unit_unfinished
           THEN tso_off' = data_limit /\ tso_len' = Hdr /\ pc' = "tx" /\ UNCHANGED segments
           ELSE tso_off' = 0 /\ tso_len' = 0 /\ give_back
      /\ UNCHANGED <<unit, seg, tso_supported>>

\* Descriptors that are left over are a unit of their own from the next call
\* on, without TSO.
rest_is_unit ==
  LET start == ready_segments[1]
  IN  /\ pc = "rest"
      /\ unit' = [NewUnit(FALSE, 0) EXCEPT !.total = unit.total - start.low,
                                           !.fetched = unit.fetched - start.from]
      /\ ready_segments' =
           [i \in 1 .. Len(ready_segments) |->
              Buffer(ready_segments[i].from - start.from, ready_segments[i].to - start.from,
                     ready_segments[i].low - start.low)]
      /\ sent' = <<>> /\ lost' = FALSE
      /\ pc' = "tx"
      /\ UNCHANGED <<eop, frameVars, seg, tso_supported, driverVars>>

\* The NIC has sent frames and puts their mbufs back.
nic_done(n) ==
  /\ pc # "aborted"
  /\ nic' = nic - n /\ free' = free + n
  /\ UNCHANGED <<unit, segments, frameVars, pc, seg, tso_supported, tso_seg, nb_segs, sent, lost>>

trigger_tx ==
  \/ incomplete \/ too_long \/ choose_path
  \/ send_tso
  \/ frame_too_long \/ copy_and_send \/ rest_is_unit

Next ==
  \/ process_context(FALSE, 0)
  \/ \E mss \in Msss : process_context(TRUE, mss)
  \/ process_context_late
  \/ \E n \in Lens, tag \in TagLens, last \in BOOLEAN : process_data(n, tag, last)
  \/ reset
  \/ trigger_tx
  \/ \E n \in 1 .. nic : nic_done(n)

\* process and the loop in trigger_tx run on one thread without waiting.
Spec == Init /\ [][Next]_vars /\ WF_vars(trigger_tx)

-----------------------------------------------------------------------------
(* Properties                                                              *)

\* Reference: headers and payload of a unit, frame k of its segmentation.  A
\* unit that is not longer than its headers is one frame.
Headers == Bytes(0, MinOf(Hdr, unit.total))
Payload(k) == Bytes(Hdr + k * unit.mss, MinOf(Hdr + (k + 1) * unit.mss, unit.total))
NumFrames ==
  IF unit.total <= Hdr THEN 1 ELSE (unit.total - Hdr + unit.mss - 1) \div unit.mss
Reference(k) == [hw |-> FALSE, seq |-> k * unit.mss, bytes |-> Headers \o Payload(k)]
FirstFrames(n) == [k \in 1 .. n |-> Reference(k - 1)]
FramesBelow(n) ==
  \E index \in [1 .. Len(sent) -> 0 .. n - 1] :
    /\ \A f \in 1 .. Len(sent) : sent[f] = Reference(index[f])
    /\ \A f, g \in 1 .. Len(sent) : f < g => index[f] < index[g]
Whole(hw) == [hw |-> hw, seq |-> 0, bytes |-> Bytes(0, unit.total)]

\* The queue is done with the unit.
GivenBack == ready_segments = <<>> \/ pc = "rest"

\* What is read for the unit is what its sizes say, and there is a segment
\* size to cut it with.
WellFormed == unit.fetched = unit.total /\ (unit.tso => unit.mss > 0)

\* What reaches the NIC for a well-formed TSO unit is either the unit as a
\* whole, for the NIC to cut, or frames of its segmentation: the header with
\* the sequence number of their payload, at most tso_mss bytes of payload, none
\* of them sent twice, in order.  This holds wherever the driver starts to
\* refuse the buffers of the unit ("if this function returns false at any
\* moment, no data was sent", driver.hpp), and nothing of an earlier unit is
\* mixed in.  When the queue is done with any unit that has data, all of it has
\* been sent, except for frames that Dpdk::send dropped and units that a reset
\* dropped.
SentIsSegmentation ==
  WellFormed =>
    /\ unit.tso => sent = <<Whole(TRUE)>> \/ FramesBelow(NumFrames)
    /\ (GivenBack /\ unit.total > 0 /\ ~lost) =>
         \/ sent = <<Whole(unit.tso)>>
         \/ unit.tso /\ sent = FirstFrames(NumFrames)

\* Every mbuf is in the pool, with the NIC, or in the chain of the unit being
\* offered: no way out of send_tso loses one, or leaves one in the chain for
\* the next unit.
MbufsAccounted ==
  /\ free + nic + nb_segs = Pool
  /\ nb_segs > 0 => pc = "hw"

\* trigger_tx comes to an end, or the process does, for every unit that does
\* not stall.
UnitFinishes == (pc # "idle") ~> (pc \in {"idle", "aborted"} \/ Stalled)

-----------------------------------------------------------------------------
(* Why the properties hold                                                 *)

\* The buffers of a unit lie one behind the other, a context descriptor is in
\* front of them, and what is left over is the end of the unit.
BuffersInv ==
  /\ ready_segments # <<>> /\ pc # "rest" => ready_segments[1].from = 0
  /\ ready_segments # <<>> => ready_segments[Len(ready_segments)].to = unit.fetched
  /\ \A i \in 1 .. Len(ready_segments) :
       /\ ready_segments[i].from <= ready_segments[i].to
       /\ ready_segments[i].to <= unit.fetched
       /\ ready_segments[i].low <= unit.total
       /\ ready_segments[i].ctx => i = 1 /\ ready_segments[i].to = 0 /\ pc # "rest"
  /\ \A i \in 1 .. Len(ready_segments) - 1 :
       ready_segments[i + 1].from = ready_segments[i].to
  /\ \A i, j \in 1 .. Len(ready_segments) :
       i <= j => /\ ready_segments[i].from <= ready_segments[j].from
                 /\ ready_segments[i].low <= ready_segments[j].low
  /\ NumData <= IF eop THEN MaxData ELSE MaxData - 1
  /\ eop => NumData > 0
  /\ unit.tso /\ ready_segments # <<>> /\ pc # "rest" => d_skip = 1

\* What trigger_tx_packet and EthSendTso know of the unit where they stand: the
\* chain holds the buffers before seg.
StepInv ==
  /\ pc = "idle" => ~eop
  /\ pc \in {"hw", "sw", "rest"} => eop
  /\ pc = "rest" => tso_off = 0
  /\ pc # "hw" => tso_seg = <<>>
  /\ pc = "hw" =>
       /\ unit.tso /\ tso_off = 0
       /\ seg <= NumData
       /\ tso_seg = Bytes(0, ready_segments[d_skip + seg].from)
       /\ nb_segs = IF seg = 1 THEN 0 ELSE Mbufs(Len(tso_seg))

\* Between two frames of a unit: k of them are built, the header in pktbuf is
\* the one of the unit with the sequence number of the next frame, and what was
\* sent are some of the k frames, all of them unless one was dropped.
BetweenFrames(k) ==
  /\ unit.tso /\ eop
  /\ tso_off = Hdr + k * unit.mss /\ tso_off < unit.total
  /\ tso_len = Hdr /\ Hdr <= MTU /\ sent_seq = k * unit.mss
  /\ Len(pktbuf) >= Hdr /\ SubSeq(pktbuf, 1, Hdr) = Bytes(0, Hdr)
  /\ FramesBelow(k)
  /\ ~lost => sent = FirstFrames(k)

FramesInv ==
  IF tso_off = 0
    THEN /\ tso_len = 0
         /\ ~GivenBack => sent = <<>> /\ ~lost
    ELSE \E k \in 1 .. tso_off : BetweenFrames(k)

IInv ==
  TypeOK /\ BuffersInv /\ StepInv /\ FramesInv /\ MbufsAccounted /\ SentIsSegmentation

-----------------------------------------------------------------------------
(* Why trigger_tx comes to an end                                          *)

\* A bound on the calls of trigger_tx_packet that are left: one for every byte
\* of the unit that is still to be copied, and for every descriptor as many as
\* a unit that starts with it may need.
CallsLeft == Len(ready_segments) * (unit.total + 1) + (unit.total - tso_off)

\* A bound on the steps until trigger_tx_packet returns false: each call offers
\* the buffers to the NIC and copies a frame.
StepsLeft ==
  CASE pc \in {"idle", "aborted"} -> 0
    [] pc \notin {"idle", "aborted"} /\ ~eop -> 1
    [] pc = "rest" /\ eop -> CallsLeft * (MaxData + 4) + (MaxData + 3)
    [] pc = "tx" /\ eop -> CallsLeft * (MaxData + 4) + (MaxData + 2)
    [] pc = "hw" /\ eop -> CallsLeft * (MaxData + 4) + (MaxData + 2 - seg)
    [] pc = "sw" /\ eop -> CallsLeft * (MaxData + 4) + 1

\* Unless the unit is stalled, every step of trigger_tx lowers the bound,
\* whatever the driver refuses and however the data are cut, and nothing raises
\* it before trigger_tx returns; it is zero only then.  This is why UnitFinishes
\* holds.  A stalled unit stays stalled: the loop in trigger_tx never returns.
TransmitRecedes ==
  [][/\ trigger_tx /\ ~Stalled => StepsLeft' < StepsLeft
     /\ pc \notin {"idle", "aborted"} /\ ~Stalled => StepsLeft' <= StepsLeft
     /\ pc \notin {"idle", "aborted"} => StepsLeft > 0
     /\ Stalled => Stalled' /\ pc' # "aborted"]_vars
=============================================================================
