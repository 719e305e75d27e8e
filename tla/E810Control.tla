----------------------------- MODULE E810Control -----------------------------
(***************************************************************************)
(* How a guest controls the E810 model (sims/nic/e810_bm/): the queue      *)
(* enable registers, the admin commands that keep state (transmit queues   *)
(* and scheduler nodes), the control queue pair of the RDMA driver, and    *)
(* the PF reset.  The queue engine under the admin queue is E810Queue;     *)
(* here a command is fetched, executed and answered in one step, as one    *)
(* register write does when every DMA completes at once.                   *)
(*                                                                         *)
(* The answer of most commands is a constant; what a command leaves behind *)
(* is the content of its desc_ctx data buffer, which the next command in   *)
(* the same context overwrites.  A CEQ only issues an interrupt:           *)
(* completion_event_queue::enable returns unless it is enabled already, so *)
(* no CEQ ever is.  Switch rules and receive queue choice are in           *)
(* ReceivePath.  PFPE_CCQPSTATUS and PFPE_CQPTAIL are registers a guest    *)
(* only reads: a write, which the model would store, is left out.          *)
(***************************************************************************)
EXTENDS Integers, Sequences

CONSTANTS
  Queues,     \* LAN queues
  Contexts,   \* contents of a transmit queue context
  NULL,       \* no context, no buffer, no completion
  WordMod,    \* 2^32: registers are uint32_t
  NumDescs,   \* MAX_ACTIVE_DESCS (128)
  FirstNode,  \* E810_STATIC_NODES + 1 (60)
  SqLens,     \* lengths of a control queue (4 to 2048)
  HeadMod,    \* 0x3ff + 1: what the doorbell keeps of the guest's head index
  MaxElems,   \* bound: nodes per add_sched_elems
  MaxNode,    \* bound: node numbers
  MaxCommands,  \* bound: admin commands between two resets
  MaxAdds,    \* bound: add_txqs of a queue between two resets
  MaxPosts,   \* bound: requests posted to one control queue
  MaxCqps     \* bound: control queues the guest sets up

ASSUME ControlAssumption ==
  /\ {WordMod, NumDescs, HeadMod} \subseteq Nat \ {0} /\ SqLens \subseteq Nat \ {0}
  /\ WordMod % 8 = 0
  /\ {FirstNode, MaxElems, MaxNode, MaxCommands, MaxAdds, MaxPosts, MaxCqps} \subseteq Nat
  /\ FirstNode <= MaxNode
  /\ NULL \notin Contexts /\ NULL \notin Nat
  /\ NULL \notin [ctx : 0 .. NumDescs - 1, i : 1 .. MaxElems]

Nodes == FirstNode .. MaxNode

\* Requests of the control queue: "poll" is answered through CQPTAIL alone
\* (QUERY_FPM_VAL, SHMC_PAGES_ALLOCATED and every unknown opcode),
\* "create_ccq" is CREATE_CQ of id 0, "cqe" any other.
Opcodes == {"poll", "create_ccq", "cqe"}

VARIABLES
  QRX_CTRL,   \* regs.QRX_CTRL, also the request bit of regs.qrx_ena
  rx_enabled, \* rxqs[q]->enabled
  qtx_ena,    \* request bit of regs.qtx_ena
  tx_ring,    \* context lan_queue_tx::initialize read, NULL: not enabled
  ctx_addr,   \* dev.ctx_addr
  adds,       \* add_txqs commands for a queue since the reset
  atq_enabled,
  commands,   \* admin commands since the reset
  data,       \* desc_ctxs[i]->data: node numbers of add_sched_elems, or none
  last_returned_node,
  sched_nodes,  \* node -> where its element is, [ctx, i]
  added,      \* node -> command that added it, since the reset
  leaf,       \* queue -> its q_teid and the command that gave it, since the reset
  cqp_enabled, CCQPSTATUS, CQPTAIL,
  cqp_ring,   \* the control queue whose context was fetched
  cnt,        \* next slot of the completion queue, NULL before create_ccq
  cqes,       \* completions in the guest's memory: slot -> WQE index
  gen,        \* control queues set up by the guest
  live,       \* the guest uses the control queue it set up last
  sq_len,     \* its length
  posted,     \* requests posted to it
  due         \* WQE indices whose completions the guest expects, in order

lanVars == <<QRX_CTRL, rx_enabled, qtx_ena, tx_ring, ctx_addr, adds>>
atqVars == <<atq_enabled, commands, data, last_returned_node, sched_nodes, added, leaf>>
cqpVars == <<cqp_enabled, CCQPSTATUS, CQPTAIL, cqp_ring, cnt, cqes, gen, live, sq_len,
             posted, due>>
vars == <<lanVars, atqVars, cqpVars>>

\* Registers fit their width; buffers, nodes and completions are as declared.
TypeOK ==
  /\ QRX_CTRL \in [Queues -> 0 .. WordMod - 1]
  /\ rx_enabled \in [Queues -> BOOLEAN] /\ qtx_ena \in [Queues -> BOOLEAN]
  /\ tx_ring \in [Queues -> Contexts \cup {NULL}]
  /\ ctx_addr \in [Queues -> Contexts \cup {NULL}]
  /\ adds \in [Queues -> 0 .. MaxAdds]
  /\ atq_enabled \in BOOLEAN /\ commands \in 0 .. MaxCommands
  /\ data \in [0 .. NumDescs - 1 -> Seq(Nodes)]
  /\ last_returned_node \in FirstNode .. MaxNode + 1
  /\ sched_nodes \in [Nodes -> [ctx : 0 .. NumDescs - 1, i : 1 .. MaxElems] \cup {NULL}]
  /\ added \in [Nodes -> (0 .. MaxCommands) \cup {NULL}]
  /\ leaf \in [Queues -> [teid : FirstNode .. MaxNode + 1, cmd : 0 .. MaxCommands] \cup {NULL}]
  /\ cqp_enabled \in BOOLEAN /\ CCQPSTATUS \in {0, 1, WordMod \div 2}
  /\ CQPTAIL \in 0 .. HeadMod - 1
  /\ cqp_ring \in 0 .. MaxCqps /\ cnt \in (0 .. HeadMod) \cup {NULL}
  /\ cqes \in [0 .. HeadMod - 1 -> (0 .. HeadMod - 1) \cup {NULL}]
  /\ gen \in 0 .. MaxCqps /\ live \in BOOLEAN /\ sq_len \in SqLens /\ posted \in 0 .. MaxPosts
  /\ due \in Seq(0 .. MaxPosts)

Init ==
  /\ QRX_CTRL = [q \in Queues |-> 0] /\ rx_enabled = [q \in Queues |-> FALSE]
  /\ qtx_ena = [q \in Queues |-> FALSE] /\ tx_ring = [q \in Queues |-> NULL]
  /\ ctx_addr = [q \in Queues |-> NULL] /\ adds = [q \in Queues |-> 0]
  /\ atq_enabled = FALSE /\ commands = 0
  /\ data = [i \in 0 .. NumDescs - 1 |-> <<>>]
  /\ last_returned_node = FirstNode
  /\ sched_nodes = [t \in Nodes |-> NULL] /\ added = [t \in Nodes |-> NULL]
  /\ leaf = [q \in Queues |-> NULL]
  /\ cqp_enabled = FALSE /\ CCQPSTATUS = 0 /\ CQPTAIL = 0 /\ cqp_ring = 0
  /\ cnt = NULL /\ cqes = [k \in 0 .. HeadMod - 1 |-> NULL]
  /\ gen = 0 /\ live = FALSE /\ sq_len \in SqLens /\ posted = 0 /\ due = <<>>

-----------------------------------------------------------------------------
(* LAN queues                                                              *)

QENA_REQ(v) == v % 2 = 1
QENA_STAT(v) == (v \div 4) % 2 = 1

\* Defect: the status bit is set, whatever the request.
status_set(val) == IF QENA_STAT(val) THEN val ELSE val + 4

\* "val+4; // set queue enable status bit (given it was 0 before)".
status_toggled(val) == (val + 4) % WordMod

\* The driver switches a receive queue: it reads QRX_CTRL, does nothing if
\* the queue is in the state it wants, else changes the request bit and
\* writes the register back; qena_updated follows the request.
QRX_CTRL_write(q, ena) ==
  /\ QENA_STAT(QRX_CTRL[q]) # ena
  /\ LET read == QRX_CTRL[q]
         val == read - (read % 2) + (IF ena THEN 1 ELSE 0)
     IN /\ QRX_CTRL' = [QRX_CTRL EXCEPT ![q] = status_toggled(val)]
        /\ rx_enabled' = [rx_enabled EXCEPT ![q] = QENA_REQ(val)]
  /\ UNCHANGED <<qtx_ena, tx_ring, ctx_addr, adds, atqVars, cqpVars>>

\* lan::qena_updated for a transmit queue whose request bit is req and whose
\* context is c: a queue that is enabled already keeps its ring.
tx_qena_updated(q, req, c) ==
  tx_ring' = [tx_ring EXCEPT ![q] = IF ~req THEN NULL
                                    ELSE IF @ = NULL THEN c ELSE @]

\* A write to QINT_TQCTL calls qena_updated, too.
QINT_TQCTL_write(q) ==
  /\ tx_qena_updated(q, qtx_ena[q], ctx_addr[q])
  /\ UNCHANGED <<QRX_CTRL, rx_enabled, qtx_ena, ctx_addr, adds, atqVars, cqpVars>>

-----------------------------------------------------------------------------
(* Admin queue                                                             *)

\* queue_admin_tx::reg_updated after a write to PF_FW_ATQLEN.
ATQLEN_write(ena) ==
  /\ atq_enabled' = ena
  /\ UNCHANGED <<lanVars, commands, data, last_returned_node, sched_nodes, added, leaf, cqpVars>>

\* The context of the next command.
ctx_pos == commands % NumDescs

\* The next command is executed in its context, whose buffer becomes d.
Execute(d) ==
  /\ atq_enabled /\ commands < MaxCommands
  /\ commands' = commands + 1
  /\ data' = [data EXCEPT ![ctx_pos] = d]
  /\ UNCHANGED <<atq_enabled, cqpVars>>

\* Commands without a buffer and those the model answers with a constant.
direct_command ==
  /\ Execute(data[ctx_pos])
  /\ UNCHANGED <<lanVars, last_returned_node, sched_nodes, added, leaf>>

\* Commands with a buffer that change nothing else, delete_sched_elems and
\* dis_txqs included.
buffer_command ==
  /\ Execute(<<>>)
  /\ UNCHANGED <<lanVars, last_returned_node, sched_nodes, added, leaf>>

\* The nodes handed out for n elements.
NewNodes(n) == last_returned_node .. last_returned_node + n - 1

\* Defect: one node number too few is used up.
add_sched_elems_reuses(n) ==
  /\ last_returned_node + n - 1 <= MaxNode
  /\ Execute([k \in 1 .. n |-> last_returned_node + k - 1])
  /\ sched_nodes' = [t \in Nodes |-> IF t \in NewNodes(n)
                       THEN [ctx |-> ctx_pos, i |-> t - last_returned_node + 1]
                       ELSE sched_nodes[t]]
  /\ added' = [t \in Nodes |-> IF t \in NewNodes(n) THEN commands ELSE added[t]]
  /\ last_returned_node' = last_returned_node + n - 1
  /\ UNCHANGED <<lanVars, leaf>>

\* add_sched_elems: number the elements in the buffer, remember where they are.
add_sched_elems(n) ==
  /\ last_returned_node + n - 1 <= MaxNode
  /\ Execute([k \in 1 .. n |-> last_returned_node + k - 1])
  /\ sched_nodes' = [t \in Nodes |-> IF t \in NewNodes(n)
                       THEN [ctx |-> ctx_pos, i |-> t - last_returned_node + 1]
                       ELSE sched_nodes[t]]
  /\ added' = [t \in Nodes |-> IF t \in NewNodes(n) THEN commands ELSE added[t]]
  /\ last_returned_node' = last_returned_node + n
  /\ UNCHANGED <<lanVars, leaf>>

\* The node get_sched_elems, as the next command, finds for node t: what is
\* in the buffer now; the command's own buffer holds its request by then.
get_sched_elems(t) ==
  LET e == sched_nodes[t]
  IN IF e = NULL \/ e.ctx = ctx_pos \/ e.i \notin DOMAIN data[e.ctx] THEN NULL
     ELSE data[e.ctx][e.i]

\* add_txqs: give the queue the next node number, without using it up, copy
\* the context, request the queue, qena_updated.
add_txqs(q, c) ==
  /\ adds[q] < MaxAdds
  /\ Execute(<<>>)
  /\ ctx_addr' = [ctx_addr EXCEPT ![q] = c]
  /\ adds' = [adds EXCEPT ![q] = @ + 1]
  /\ qtx_ena' = [qtx_ena EXCEPT ![q] = TRUE]
  /\ tx_qena_updated(q, TRUE, c)
  /\ leaf' = [leaf EXCEPT ![q] = [teid |-> last_returned_node, cmd |-> commands]]
  /\ UNCHANGED <<QRX_CTRL, rx_enabled, last_returned_node, sched_nodes, added>>

-----------------------------------------------------------------------------
(* Control queue pair                                                      *)

\* The guest sets up a control queue of n requests and writes its address to
\* CCQPHIGH and CCQPLOW, low_zero: the lower half is 0.  create_cqp fetches it
\* only if none was fetched before.
create_cqp(n, low_zero) ==
  /\ ~live /\ gen < MaxCqps
  /\ gen' = gen + 1 /\ live' = TRUE /\ sq_len' = n
  /\ IF cqp_enabled THEN UNCHANGED <<cqp_enabled, CCQPSTATUS, CQPTAIL, cqp_ring>>
     ELSE /\ cqp_enabled' = TRUE /\ cqp_ring' = gen + 1
          /\ CQPTAIL' = 0 /\ CCQPSTATUS' = IF low_zero THEN WordMod \div 2 ELSE 1
  /\ UNCHANGED <<cnt, cqes, posted, due, lanVars, atqVars>>

\* The guest gives its control queue up and writes 0: create_cqp returns.
destroy_cqp ==
  /\ live
  /\ live' = FALSE /\ posted' = 0 /\ due' = <<>>
  /\ UNCHANGED <<cqp_enabled, CCQPSTATUS, CQPTAIL, cqp_ring, cnt, cqes, gen, sq_len,
                 lanVars, atqVars>>

\* Defect: the slot is not advanced after CREATE_CQ.
process_ccq_stays(op, wqe) ==
  /\ CQPTAIL' = CQPTAIL + 1
  /\ IF op = "poll" THEN UNCHANGED <<cnt, cqes>>
     ELSE LET slot == IF op = "create_ccq" THEN 0 ELSE cnt
          IN /\ cqes' = [cqes EXCEPT ![slot] = wqe]
             /\ cnt' = IF op = "create_ccq" THEN 0 ELSE slot + 1

\* admin_desc_ctx::process of the control queue: the completion, if any, goes
\* to the next slot.
process(op, wqe) ==
  /\ CQPTAIL' = CQPTAIL + 1
  /\ IF op = "poll" THEN UNCHANGED <<cnt, cqes>>
     ELSE LET slot == IF op = "create_ccq" THEN 0 ELSE cnt
          IN /\ cqes' = [cqes EXCEPT ![slot] = wqe]
             /\ cnt' = slot + 1

\* Defect: the doorbell also fetches the request at the guest's head.
doorbell_new_equal(val) == val # 0 /\ val % HeadMod >= CQPTAIL

\* Whether a write of val to PFPE_CQPDB makes the model fetch a request.
doorbell_new(val) == val # 0 /\ val % HeadMod > CQPTAIL

\* The model fetches the WQE at CQPTAIL of the queue it knows: op if that is
\* the guest's queue, otherwise what an earlier one had there.
trigger_fetch(op) ==
  \E wqe_op \in Opcodes :
    /\ cqp_ring = gen => wqe_op = op
    /\ wqe_op = "cqe" => cnt # NULL
    /\ process(wqe_op, CQPTAIL)

\* The guest posts a request and rings the doorbell with its new head index,
\* which wraps.  Completions are expected once the queue for them exists.
CQPDB_write(op) ==
  /\ live /\ CCQPSTATUS = 1 /\ posted < MaxPosts
  /\ op = "cqe" => due # <<>>
  /\ posted' = posted + 1
  /\ due' = CASE op = "poll" -> due
              [] op = "create_ccq" -> <<posted>>
              [] op = "cqe" -> Append(due, posted)
  /\ IF doorbell_new((posted + 1) % sq_len) THEN trigger_fetch(op)
     ELSE UNCHANGED <<CQPTAIL, cnt, cqes>>
  /\ UNCHANGED <<cqp_enabled, CCQPSTATUS, cqp_ring, gen, live, sq_len, lanVars, atqVars>>

-----------------------------------------------------------------------------
(* PF reset                                                                *)

\* Defect: the LAN queues are not reset.
lan_reset_forgotten == UNCHANGED <<rx_enabled, tx_ring>>

\* lan::reset.
lan_reset ==
  /\ rx_enabled' = [q \in Queues |-> FALSE]
  /\ tx_ring' = [q \in Queues |-> NULL]

\* e810_bm::reset: the admin queue, the LAN queues and all registers; not the
\* control queue, the scheduler nodes and the transmit contexts.  The guest's
\* drivers start over.
reset ==
  /\ atq_enabled' = FALSE /\ commands' = 0
  /\ lan_reset
  /\ QRX_CTRL' = [q \in Queues |-> 0] /\ qtx_ena' = [q \in Queues |-> FALSE]
  /\ CCQPSTATUS' = 0 /\ CQPTAIL' = 0
  /\ adds' = [q \in Queues |-> 0] /\ added' = [t \in Nodes |-> NULL]
  /\ leaf' = [q \in Queues |-> NULL]
  /\ live' = FALSE /\ posted' = 0 /\ due' = <<>>
  /\ UNCHANGED <<ctx_addr, data, last_returned_node, sched_nodes,
                 cqp_enabled, cqp_ring, cnt, cqes, gen, sq_len>>

Next ==
  \/ \E q \in Queues, ena \in BOOLEAN : QRX_CTRL_write(q, ena)
  \/ \E q \in Queues : QINT_TQCTL_write(q)
  \/ \E ena \in BOOLEAN : ATQLEN_write(ena)
  \/ direct_command
  \/ buffer_command
  \/ \E n \in 1 .. MaxElems : add_sched_elems(n)
  \/ \E q \in Queues, c \in Contexts : add_txqs(q, c)
  \/ \E n \in SqLens, low_zero \in BOOLEAN : create_cqp(n, low_zero)
  \/ destroy_cqp
  \/ \E op \in Opcodes : CQPDB_write(op)
  \/ reset

Spec == Init /\ [][Next]_vars

-----------------------------------------------------------------------------
\* The status bit the driver polls tells whether the receive queue runs, for
\* any number of switches and resets, although every write adds 4 to the
\* register (e810_bm.cc:672).
StatusTellsEnabled ==
  \A q \in Queues : /\ QENA_STAT(QRX_CTRL[q]) = rx_enabled[q]
                    /\ QENA_REQ(QRX_CTRL[q]) = rx_enabled[q]

\* A transmit queue added once since the reset uses the ring of that command,
\* also if it was in use before the reset.  A second add_txqs without a reset
\* is not covered: dis_txqs does not disable the queue (e810_adminq.cc:684),
\* so the queue keeps its first ring.
TxRingIsAdded ==
  \A q \in Queues : /\ qtx_ena[q] = (tx_ring[q] # NULL)
                    /\ adds[q] = 1 => tx_ring[q] = ctx_addr[q]

\* add_sched_elems never hands out a number it handed out before, resets
\* included, for which the nodes are kept (e810_adminq.cc:611).  The number
\* may be the one add_txqs gave to a queue, which does not use it up (:648):
\* then the node was added after the queue, so that a queue never gets the
\* number of a node that exists.  A node can be queried as long as fewer than
\* NumDescs commands were sent since it was added, although its element stays
\* in the buffer of a descriptor context that other commands reuse (:612);
\* nothing is said of an older one.
RecentNodeFound ==
  \A t \in Nodes :
    /\ t >= last_returned_node => sched_nodes[t] = NULL
    /\ added[t] # NULL /\ commands - added[t] < NumDescs => get_sched_elems(t) = t
    /\ \A q \in Queues : leaf[q] # NULL /\ leaf[q].teid = t /\ sched_nodes[t] # NULL =>
                         added[t] # NULL /\ added[t] > leaf[q].cmd

\* Every request of a control queue the model knows is processed when the
\* guest rings for it, until the queue wraps or, if it is longer than that,
\* up to request HeadMod: later requests are never processed, because CQPTAIL
\* does not wrap (e810_cqp.cc:516) and the doorbell keeps ten bits of the head
\* index (e810_bm.cc:886), while a queue may have 2048 entries.  Until then the
\* completions are in the guest's completion queue, one per slot, in the order
\* of the requests, without a gap.
RequestsCompleted ==
  live /\ CCQPSTATUS = 1 /\ cqp_ring = gen /\ posted < sq_len /\ posted < HeadMod =>
    /\ CQPTAIL = posted
    /\ \A k \in DOMAIN due : cqes[k - 1] = due[k]

-----------------------------------------------------------------------------
(* The inductive invariant behind these properties.                        *)

\* Of the three low bits of QRX_CTRL only the request and the status are used.
RegisterInv ==
  \A q \in Queues : QRX_CTRL[q] % 8 = IF rx_enabled[q] THEN 5 ELSE 0

TxInv ==
  \A q \in Queues : /\ qtx_ena[q] <=> tx_ring[q] # NULL
                    /\ adds[q] = 0 => tx_ring[q] = NULL
                    /\ adds[q] = 1 => tx_ring[q] = ctx_addr[q]

\* A node's element is at sched_nodes until NumDescs further commands have
\* used every context once.
NodeInv ==
  \A t \in Nodes :
    /\ t >= last_returned_node => sched_nodes[t] = NULL
    /\ sched_nodes[t] = NULL => added[t] = NULL
    /\ added[t] # NULL =>
         /\ added[t] < commands
         /\ sched_nodes[t].ctx = added[t] % NumDescs
         /\ commands - added[t] <= NumDescs =>
              /\ sched_nodes[t].i \in DOMAIN data[sched_nodes[t].ctx]
              /\ data[sched_nodes[t].ctx][sched_nodes[t].i] = t

\* A node with the number of a queue was added after it.
LeafInv ==
  \A q \in Queues : leaf[q] # NULL =>
    /\ leaf[q].teid <= last_returned_node /\ leaf[q].cmd < commands
    /\ \A t \in Nodes : leaf[q].teid = t /\ sched_nodes[t] # NULL =>
                        added[t] # NULL /\ added[t] > leaf[q].cmd

\* The model works on the control queue the guest uses now.
Known == live /\ CCQPSTATUS = 1 /\ cqp_ring = gen

CqpInv ==
  /\ cqp_ring <= gen
  /\ ~cqp_enabled => gen = 0 /\ CCQPSTATUS = 0 /\ cnt = NULL
  /\ ~live => posted = 0 /\ due = <<>>
  /\ CCQPSTATUS = 1 /\ cnt # NULL => cnt <= CQPTAIL
  /\ Known /\ posted < sq_len /\ posted < HeadMod =>
       /\ CQPTAIL = posted /\ Len(due) <= posted
       /\ due # <<>> => cnt = Len(due)
       /\ \A k \in DOMAIN due : cqes[k - 1] = due[k]

IInv == TypeOK /\ RegisterInv /\ TxInv /\ NodeInv /\ LeafInv /\ CqpInv
=============================================================================
