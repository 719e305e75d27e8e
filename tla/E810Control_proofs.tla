-------------------------- MODULE E810Control_proofs --------------------------
(***************************************************************************)
(* Proofs about E810Control, for every number of queues, contexts and      *)
(* descriptors, every length of a control queue and every bound.           *)
(*                                                                         *)
(* The LAN queues, the admin queue and the control queue share no          *)
(* variable, so that the invariant falls into three parts; an action       *)
(* changes one of them, add_txqs two, and only the reset all three.        *)
(***************************************************************************)
EXTENDS E810Control, TLAPS

LanInv ==
  /\ QRX_CTRL \in [Queues -> 0 .. WordMod - 1]
  /\ rx_enabled \in [Queues -> BOOLEAN] /\ qtx_ena \in [Queues -> BOOLEAN]
  /\ tx_ring \in [Queues -> Contexts \cup {NULL}]
  /\ ctx_addr \in [Queues -> Contexts \cup {NULL}]
  /\ adds \in [Queues -> 0 .. MaxAdds]
  /\ RegisterInv
  /\ TxInv

AtqInv ==
  /\ atq_enabled \in BOOLEAN /\ commands \in 0 .. MaxCommands
  /\ data \in [0 .. NumDescs - 1 -> Seq(Nodes)]
  /\ last_returned_node \in FirstNode .. MaxNode + 1
  /\ sched_nodes \in [Nodes -> [ctx : 0 .. NumDescs - 1, i : 1 .. MaxElems] \cup {NULL}]
  /\ added \in [Nodes -> (0 .. MaxCommands) \cup {NULL}]
  /\ leaf \in [Queues -> [teid : FirstNode .. MaxNode + 1, cmd : 0 .. MaxCommands] \cup {NULL}]
  /\ NodeInv /\ LeafInv

ControlInv ==
  /\ cqp_enabled \in BOOLEAN /\ CCQPSTATUS \in {0, 1, WordMod \div 2} /\ CQPTAIL \in 0 .. HeadMod - 1
  /\ cqp_ring \in 0 .. MaxCqps /\ cnt \in (0 .. HeadMod) \cup {NULL}
  /\ cqes \in [0 .. HeadMod - 1 -> (0 .. HeadMod - 1) \cup {NULL}]
  /\ gen \in 0 .. MaxCqps /\ live \in BOOLEAN /\ sq_len \in SqLens /\ posted \in 0 .. MaxPosts
  /\ due \in Seq(0 .. MaxPosts)
  /\ CqpInv

LEMMA Parts == IInv <=> LanInv /\ AtqInv /\ ControlInv
BY Zenon DEF IInv, TypeOK, LanInv, AtqInv, ControlInv

LEMMA Constants ==
  /\ WordMod \in Nat \ {0} /\ NumDescs \in Nat \ {0} /\ HeadMod \in Nat \ {0}
  /\ WordMod % 8 = 0 /\ WordMod >= 8
  /\ FirstNode \in Nat /\ MaxElems \in Nat /\ MaxNode \in Nat /\ MaxCommands \in Nat
  /\ MaxAdds \in Nat /\ MaxPosts \in Nat /\ MaxCqps \in Nat /\ FirstNode <= MaxNode
  /\ NULL \notin Contexts /\ NULL \notin Nat
  /\ NULL \notin [ctx : 0 .. NumDescs - 1, i : 1 .. MaxElems]
BY ControlAssumption

LEMMA QueueLength ==
  ASSUME ControlInv
  PROVE  sq_len \in Nat \ {0}
BY ControlAssumption DEF ControlInv

-----------------------------------------------------------------------------
(* Arithmetic                                                              *)

LEMMA DivMod ==
  ASSUME NEW N \in Nat \ {0}, NEW a \in Nat
  PROVE  /\ a = N * (a \div N) + (a % N)
         /\ a % N \in 0 .. N - 1
         /\ a \div N \in Nat
OBVIOUS

LEMMA ModSmall ==
  ASSUME NEW N \in Nat \ {0}, NEW x \in 0 .. N - 1
  PROVE  x % N = x
OBVIOUS

LEMMA ModWrap ==
  ASSUME NEW N \in Nat \ {0}, NEW x \in N .. 2 * N - 1
  PROVE  x % N = x - N
OBVIOUS

\* Contexts are reused in turn: numbers less than N apart differ modulo N.
LEMMA ModDiffers ==
  ASSUME NEW N \in Nat \ {0}, NEW a \in Nat, NEW b \in Nat, a < b, b - a < N
  PROVE  a % N # b % N
<1>. SUFFICES ASSUME a % N = b % N PROVE FALSE
  OBVIOUS
<1>1. /\ a = N * (a \div N) + (a % N) /\ a \div N \in Nat
      /\ b = N * (b \div N) + (b % N) /\ b \div N \in Nat
  BY Zenon, DivMod
<1>. DEFINE k == (b \div N) - (a \div N)
<1>2. k \in Int /\ b - a = N * k
  BY <1>1
<1>. HIDE DEF k
<1>3. \A j \in Int : ~(0 < N * j /\ N * j < N)
  OBVIOUS
<1>. QED
  BY <1>2, <1>3

\* What status_toggled does to a register whose low bits say "off" or "on".
LEMMA Toggled ==
  ASSUME NEW read \in 0 .. WordMod - 1, NEW ena \in BOOLEAN,
         read % 8 = IF ena THEN 0 ELSE 5
  PROVE  LET val == read - (read % 2) + (IF ena THEN 1 ELSE 0)
         IN  /\ status_toggled(val) \in 0 .. WordMod - 1
             /\ status_toggled(val) % 8 = IF ena THEN 5 ELSE 0
             /\ QENA_REQ(val) = ena
<1>. DEFINE val == read - (read % 2) + (IF ena THEN 1 ELSE 0)
<1>1. /\ val \in 0 .. WordMod - 1
      /\ (val + 4) % 8 = IF ena THEN 5 ELSE 0
      /\ (val % 2 = 1) = ena
  BY Constants
<1>. HIDE DEF val
<1>2. status_toggled(val) = val + 4 \/ status_toggled(val) = val + 4 - WordMod
  <2>1. CASE val + 4 < WordMod
    BY <1>1, <2>1, Constants, ModSmall DEF status_toggled
  <2>2. CASE val + 4 >= WordMod
    <3>1. val + 4 \in WordMod .. 2 * WordMod - 1
      BY <1>1, <2>2, Constants
    <3>2. \A x \in WordMod .. 2 * WordMod - 1 : x % WordMod = x - WordMod
      BY Zenon, Constants, ModWrap
    <3>. QED
      BY <1>1, <3>1, <3>2, Constants DEF status_toggled
  <2>. QED
    BY <1>1, <2>1, <2>2, Constants
<1>3. status_toggled(val) \in 0 .. WordMod - 1
  BY <1>1, Constants DEF status_toggled
<1>4. status_toggled(val) % 8 = (val + 4) % 8
  BY <1>1, <1>2, Constants
<1>5. QENA_REQ(val) = ena
  BY <1>1 DEF QENA_REQ
<1>. QED
  BY <1>1, <1>3, <1>4, <1>5 DEF val

LEMMA StatusOfLowBits ==
  ASSUME NEW v \in Nat, NEW on \in BOOLEAN, v % 8 = IF on THEN 5 ELSE 0
  PROVE  QENA_STAT(v) = on /\ QENA_REQ(v) = on
BY DEF QENA_STAT, QENA_REQ

-----------------------------------------------------------------------------
(* LAN queues                                                              *)

LEMMA LanUnchanged ==
  ASSUME LanInv, UNCHANGED lanVars
  PROVE  LanInv'
BY DEF LanInv, RegisterInv, TxInv, lanVars

LEMMA QrxCtrlWrite ==
  ASSUME LanInv, NEW q \in Queues, NEW ena \in BOOLEAN, QRX_CTRL_write(q, ena)
  PROVE  LanInv'
<1>. DEFINE read == QRX_CTRL[q]
            val == read - (read % 2) + (IF ena THEN 1 ELSE 0)
<1>1. read \in 0 .. WordMod - 1 /\ read \in Nat
  BY Constants DEF LanInv
<1>2. read % 8 = IF ena THEN 0 ELSE 5
  <2>1. rx_enabled[q] \in BOOLEAN /\ read % 8 = IF rx_enabled[q] THEN 5 ELSE 0
    BY DEF LanInv, RegisterInv
  <2>2. QENA_STAT(read) = rx_enabled[q]
    BY <1>1, <2>1, StatusOfLowBits
  <2>. QED
    BY <2>1, <2>2 DEF QRX_CTRL_write
<1>3. /\ status_toggled(val) \in 0 .. WordMod - 1
      /\ status_toggled(val) % 8 = IF ena THEN 5 ELSE 0
      /\ QENA_REQ(val) = ena
  BY Zenon, <1>1, <1>2, Toggled
<1>4. /\ QRX_CTRL' = [QRX_CTRL EXCEPT ![q] = status_toggled(val)]
      /\ rx_enabled' = [rx_enabled EXCEPT ![q] = ena]
      /\ UNCHANGED <<qtx_ena, tx_ring, ctx_addr, adds>>
  BY Zenon, <1>3 DEF QRX_CTRL_write
<1>. HIDE DEF val
<1>5. RegisterInv'
  BY <1>3, <1>4 DEF LanInv, RegisterInv
<1>. QED
  BY <1>3, <1>4, <1>5 DEF LanInv, TxInv

LEMMA QintTqctlWrite ==
  ASSUME LanInv, NEW q \in Queues, QINT_TQCTL_write(q)
  PROVE  LanInv'
BY Constants DEF LanInv, RegisterInv, TxInv, QINT_TQCTL_write, tx_qena_updated

LEMMA AddTxqs ==
  ASSUME LanInv, NEW q \in Queues, NEW c \in Contexts, add_txqs(q, c)
  PROVE  LanInv'
<1>. USE Constants DEF add_txqs, tx_qena_updated, LanInv
<1>1. TxInv'
  <2>. SUFFICES ASSUME NEW r \in Queues
                PROVE  /\ qtx_ena'[r] <=> tx_ring'[r] # NULL
                       /\ adds'[r] = 0 => tx_ring'[r] = NULL
                       /\ adds'[r] = 1 => tx_ring'[r] = ctx_addr'[r]
    BY DEF TxInv
  <2>1. CASE r # q
    BY <2>1 DEF TxInv
  <2>2. CASE r = q
    BY <2>2 DEF TxInv
  <2>. QED
    BY <2>1, <2>2
<1>2. RegisterInv'
  BY DEF RegisterInv
<1>. QED
  BY <1>1, <1>2

LEMMA LanReset ==
  ASSUME LanInv, reset
  PROVE  LanInv'
<1>. USE Constants DEF reset, lan_reset
<1>1. RegisterInv'
  BY DEF RegisterInv
<1>2. TxInv'
  BY DEF TxInv
<1>. QED
  BY <1>1, <1>2 DEF LanInv

-----------------------------------------------------------------------------
(* Admin queue                                                             *)

LEMMA AtqUnchanged ==
  ASSUME AtqInv, UNCHANGED atqVars
  PROVE  AtqInv'
BY DEF AtqInv, NodeInv, LeafInv, atqVars

LEMMA AtqLenWrite ==
  ASSUME AtqInv, NEW ena \in BOOLEAN, ATQLEN_write(ena)
  PROVE  AtqInv'
BY DEF AtqInv, NodeInv, LeafInv, ATQLEN_write

LEMMA AtqReset ==
  ASSUME AtqInv, reset
  PROVE  AtqInv'
<1>. USE Constants DEF reset
<1>1. NodeInv' /\ LeafInv'
  BY DEF NodeInv, LeafInv, AtqInv
<1>2. atq_enabled' \in BOOLEAN
  BY Zenon
<1>3. /\ commands' \in 0 .. MaxCommands
      /\ added' \in [Nodes -> (0 .. MaxCommands) \cup {NULL}]
      /\ leaf' \in [Queues -> [teid : FirstNode .. MaxNode + 1, cmd : 0 .. MaxCommands] \cup {NULL}]
  OBVIOUS
<1>4. UNCHANGED <<data, last_returned_node, sched_nodes>>
  OBVIOUS
<1>. HIDE DEF reset
<1>. QED
  BY ZenonT(40), SMTT(30), Z3T(30), <1>1, <1>2, <1>3, <1>4 DEF AtqInv

LEMMA OlderByOne ==
  ASSUME NEW a \in Nat, NEW c \in Nat, NEW e, NEW n \in Nat, a < c, e = c + 1
  PROVE  a < e /\ (e - a <= n => c - a <= n)
BY SMT

\* The numbers of the queues after a command that gives none.
LEMMA LeavesStay ==
  ASSUME AtqInv, commands' = commands + 1, UNCHANGED <<last_returned_node, sched_nodes, added, leaf>>
  PROVE  /\ LeafInv'
         /\ leaf' \in [Queues -> [teid : FirstNode .. MaxNode + 1, cmd : 0 .. MaxCommands] \cup {NULL}]
<1>1. commands \in Nat
  BY Constants DEF AtqInv
<1>2. ASSUME NEW q \in Queues, leaf[q] # NULL
      PROVE  leaf[q].cmd < commands + 1
  <2>1. leaf[q].cmd \in Nat /\ leaf[q].cmd < commands
    BY <1>2, Constants DEF AtqInv, LeafInv
  <2>. QED
    BY <1>1, <2>1
<1>. QED
  BY ZenonT(40), <1>2 DEF AtqInv, LeafInv

\* add_txqs gives a queue a number no node has.
LEMMA LeafGiven ==
  ASSUME AtqInv, NEW q \in Queues, NEW c \in Contexts, add_txqs(q, c)
  PROVE  /\ LeafInv'
         /\ leaf' \in [Queues -> [teid : FirstNode .. MaxNode + 1, cmd : 0 .. MaxCommands] \cup {NULL}]
<1>. USE Constants
<1>. DEFINE e == [teid |-> last_returned_node, cmd |-> commands]
<1>1. /\ leaf' = [leaf EXCEPT ![q] = e] /\ commands' = commands + 1
      /\ UNCHANGED <<last_returned_node, sched_nodes, added>>
  BY Zenon DEF add_txqs, Execute
<1>2. /\ commands \in Nat /\ commands < commands + 1 /\ commands \in 0 .. MaxCommands
      /\ last_returned_node \in FirstNode .. MaxNode + 1
      /\ last_returned_node \in Nat /\ last_returned_node <= last_returned_node
      /\ leaf \in [Queues -> [teid : FirstNode .. MaxNode + 1, cmd : 0 .. MaxCommands] \cup {NULL}]
  BY DEF AtqInv
<1>3. e \in [teid : FirstNode .. MaxNode + 1, cmd : 0 .. MaxCommands]
      /\ e.teid = last_returned_node /\ e.cmd = commands
  BY <1>2
<1>. HIDE DEF e
<1>4. leaf' \in [Queues -> [teid : FirstNode .. MaxNode + 1, cmd : 0 .. MaxCommands] \cup {NULL}]
  BY <1>1, <1>2, <1>3
<1>5. \A t \in Nodes : t = last_returned_node => sched_nodes[t] = NULL
  BY <1>2 DEF AtqInv, NodeInv
<1>6. ASSUME NEW r \in Queues, leaf'[r] # NULL
      PROVE  /\ leaf'[r].teid <= last_returned_node /\ leaf'[r].cmd < commands + 1
             /\ \A t \in Nodes : leaf'[r].teid = t /\ sched_nodes[t] # NULL =>
                                 added[t] # NULL /\ added[t] > leaf'[r].cmd
  <2>1. CASE r = q
    <3>1. leaf'[r] = e
      BY <1>1, <1>2, <2>1
    <3>. QED
      BY Zenon, <1>2, <1>3, <1>5, <3>1
  <2>2. CASE r # q
    <3>1. leaf'[r] = leaf[r]
      BY <1>1, <1>2, <2>2
    <3>2. leaf[r].cmd \in Nat /\ leaf[r].cmd < commands
      BY <1>2, <1>6, <3>1 DEF AtqInv, LeafInv
    <3>3. leaf[r].cmd < commands + 1
      BY <1>2, <3>2
    <3>. QED
      BY Zenon, <1>6, <3>1, <3>3 DEF AtqInv, LeafInv
  <2>. QED
    BY Zenon, <2>1, <2>2
<1>. QED
  BY Zenon, <1>1, <1>4, <1>6 DEF LeafInv

\* A command that adds no node.  It overwrites the context NumDescs commands
\* later than a node added there.
LEMMA OtherCommand ==
  ASSUME AtqInv, NEW d \in Seq(Nodes), Execute(d),
         UNCHANGED <<last_returned_node, sched_nodes, added>>,
         LeafInv', leaf' \in [Queues -> [teid : FirstNode .. MaxNode + 1, cmd : 0 .. MaxCommands] \cup {NULL}]
  PROVE  AtqInv'
<1>. USE Constants
<1>1. /\ commands \in Nat /\ commands' = commands + 1 /\ commands' \in 0 .. MaxCommands
      /\ ctx_pos = commands % NumDescs /\ ctx_pos \in 0 .. NumDescs - 1
  <2>1. commands \in 0 .. MaxCommands
    BY Zenon DEF AtqInv
  <2>2. commands < MaxCommands /\ commands' = commands + 1
    BY Zenon DEF Execute
  <2>3. ctx_pos = commands % NumDescs
    BY Zenon DEF ctx_pos
  <2>. QED
    BY SMTT(30), Z3T(30), ZenonT(40), <2>1, <2>2, <2>3
<1>2. data' = [data EXCEPT ![ctx_pos] = d] /\ data' \in [0 .. NumDescs - 1 -> Seq(Nodes)]
  BY <1>1 DEF AtqInv, Execute
<1>3. ASSUME NEW t \in Nodes, added[t] # NULL, commands' - added[t] <= NumDescs
      PROVE  sched_nodes[t].ctx # ctx_pos
  <2>1. added[t] \in Nat /\ added[t] < commands /\ sched_nodes[t].ctx = added[t] % NumDescs
    BY <1>3 DEF AtqInv, NodeInv
  <2>2. sched_nodes[t].ctx # ctx_pos
    <3>1. commands - added[t] < NumDescs
      <4>1. \A x, y, n \in Nat : (x + 1) - y <= n => x - y < n
        BY SMT
      <4>2. commands \in Nat /\ NumDescs \in Nat /\ (commands + 1) - added[t] <= NumDescs
        BY Zenon, <1>1, <1>3
      <4>. QED
        BY Zenon, <2>1, <4>1, <4>2
    <3>. QED
      BY Zenon, <1>1, <2>1, <3>1, ModDiffers
  <2>. QED
    BY Zenon, <2>2
<1>4. ASSUME NEW t \in Nodes, added[t] # NULL
      PROVE  sched_nodes[t].ctx \in 0 .. NumDescs - 1
  BY <1>4 DEF AtqInv, NodeInv
<1>5. ASSUME NEW t \in Nodes, added[t] # NULL, commands' - added[t] <= NumDescs
      PROVE  data'[sched_nodes[t].ctx] = data[sched_nodes[t].ctx]
  BY <1>2, <1>3, <1>4, <1>5 DEF AtqInv
<1>6. ASSUME NEW t \in Nodes, added[t] # NULL
      PROVE  added[t] \in Nat
  BY <1>6 DEF AtqInv
<1>7. NodeInv'
  <2>. SUFFICES ASSUME NEW t \in Nodes
                PROVE  /\ t >= last_returned_node => sched_nodes[t] = NULL
                       /\ sched_nodes[t] = NULL => added[t] = NULL
                       /\ added[t] # NULL =>
                            /\ added[t] < commands'
                            /\ sched_nodes[t].ctx = added[t] % NumDescs
                            /\ commands' - added[t] <= NumDescs =>
                                 /\ sched_nodes[t].i \in DOMAIN data'[sched_nodes[t].ctx]
                                 /\ data'[sched_nodes[t].ctx][sched_nodes[t].i] = t
    BY DEF NodeInv
  <2>1. CASE added[t] = NULL
    BY <2>1 DEF NodeInv, AtqInv
  <2>2. CASE added[t] # NULL
    <3>1. added[t] < commands' /\ (commands' - added[t] <= NumDescs => commands - added[t] <= NumDescs)
      <4>1. added[t] < commands
        BY <2>2 DEF NodeInv, AtqInv
      <4>2. added[t] \in Nat
        BY <1>6, <2>2
      <4>3. NumDescs \in Nat /\ commands \in Nat /\ commands' = commands + 1
        BY <1>1
      <4>. QED
        BY Zenon, <4>1, <4>2, <4>3, OlderByOne
    <3>. QED
      BY ZenonT(40), Z3T(30), SMTT(30), <1>5, <2>2, <3>1 DEF NodeInv, AtqInv
  <2>. QED
    BY <2>1, <2>2
<1>. QED
  BY Zenon, <1>1, <1>2, <1>7 DEF AtqInv, Execute

\* The numbers handed out are new, and the elements of older nodes are in
\* other contexts.
LEMMA AddSchedElems ==
  ASSUME AtqInv, NEW n \in 1 .. MaxElems, add_sched_elems(n)
  PROVE  AtqInv'
<1>. USE Constants
<1>. DEFINE L == last_returned_node
            d == [k \in 1 .. n |-> L + k - 1]
<1>1. /\ commands \in Nat /\ commands' = commands + 1 /\ commands' \in 0 .. MaxCommands
      /\ commands \in 0 .. MaxCommands
      /\ ctx_pos = commands % NumDescs /\ ctx_pos \in 0 .. NumDescs - 1
  BY SMTT(30), Z3T(30) DEF AtqInv, add_sched_elems, Execute, ctx_pos
<1>2. /\ L \in Nat /\ L >= FirstNode /\ L + n - 1 <= MaxNode /\ L' = L + n
      /\ L' \in FirstNode .. MaxNode + 1
  BY DEF AtqInv, add_sched_elems
<1>3. d \in Seq(Nodes) /\ DOMAIN d = 1 .. n
  BY <1>2 DEF Nodes
<1>4. data' = [data EXCEPT ![ctx_pos] = d] /\ data' \in [0 .. NumDescs - 1 -> Seq(Nodes)]
  BY <1>1, <1>3 DEF AtqInv, add_sched_elems, Execute
<1>5. ASSUME NEW t \in Nodes, t \in NewNodes(n)
      PROVE  /\ sched_nodes'[t] = [ctx |-> ctx_pos, i |-> t - L + 1]
             /\ sched_nodes'[t].ctx = ctx_pos /\ sched_nodes'[t].i = t - L + 1
             /\ sched_nodes'[t] \in [ctx : 0 .. NumDescs - 1, i : 1 .. MaxElems]
             /\ added'[t] = commands
             /\ t \in Nat /\ t - L + 1 \in 1 .. n /\ d[t - L + 1] = t /\ t < L'
  <2>1. t \in L .. L + n - 1
    BY Zenon, <1>5 DEF NewNodes
  <2>2. /\ t \in Nat /\ t - L + 1 \in 1 .. n /\ t - L + 1 \in 1 .. MaxElems /\ t < L'
        /\ L + (t - L + 1) - 1 = t
    BY SMTT(30), <1>2, <2>1
  <2>3. d[t - L + 1] = t
    BY Zenon, <2>2
  <2>. HIDE DEF d
  <2>4. /\ sched_nodes'[t] = [ctx |-> ctx_pos, i |-> t - L + 1]
        /\ added'[t] = commands
    BY Zenon, <1>5 DEF add_sched_elems
  <2>5. /\ sched_nodes'[t].ctx = ctx_pos /\ sched_nodes'[t].i = t - L + 1
        /\ sched_nodes'[t] \in [ctx : 0 .. NumDescs - 1, i : 1 .. MaxElems]
    BY SMTT(30), <1>1, <2>2, <2>4
  <2>. QED
    BY Zenon, <2>2, <2>3, <2>4, <2>5
<1>. HIDE DEF d
<1>6. ASSUME NEW t \in Nodes, t \notin NewNodes(n)
      PROVE  /\ sched_nodes'[t] = sched_nodes[t] /\ added'[t] = added[t]
             /\ t >= L' => t >= L
  BY <1>2, <1>6 DEF add_sched_elems, NewNodes, Nodes
<1>7. sched_nodes' \in [Nodes -> [ctx : 0 .. NumDescs - 1, i : 1 .. MaxElems] \cup {NULL}]
  <2>1. sched_nodes' = [t \in Nodes |-> sched_nodes'[t]]
    BY DEF add_sched_elems
  <2>2. \A t \in Nodes : sched_nodes'[t] \in [ctx : 0 .. NumDescs - 1, i : 1 .. MaxElems] \cup {NULL}
    BY Zenon, <1>5, <1>6 DEF AtqInv
  <2>. QED
    BY <2>1, <2>2
<1>8. added' \in [Nodes -> (0 .. MaxCommands) \cup {NULL}]
  <2>1. added' = [t \in Nodes |-> added'[t]]
    BY DEF add_sched_elems
  <2>2. \A t \in Nodes : added'[t] \in (0 .. MaxCommands) \cup {NULL}
    BY ZenonT(60), <1>1, <1>5, <1>6 DEF AtqInv
  <2>. QED
    BY <2>1, <2>2
<1>9. NodeInv'
  <2>. SUFFICES ASSUME NEW t \in Nodes
                PROVE  /\ t >= L' => sched_nodes'[t] = NULL
                       /\ sched_nodes'[t] = NULL => added'[t] = NULL
                       /\ added'[t] # NULL =>
                            /\ added'[t] < commands'
                            /\ sched_nodes'[t].ctx = added'[t] % NumDescs
                            /\ commands' - added'[t] <= NumDescs =>
                                 /\ sched_nodes'[t].i \in DOMAIN data'[sched_nodes'[t].ctx]
                                 /\ data'[sched_nodes'[t].ctx][sched_nodes'[t].i] = t
    BY DEF NodeInv
  <2>1. CASE t \in NewNodes(n)
    <3>1. data'[ctx_pos] = d
      BY <1>1, <1>4 DEF AtqInv
    <3>2. sched_nodes'[t] # NULL
      BY ZenonT(40), <1>5, <2>1
    <3>3. t \in Nat /\ t < L' /\ L' \in Nat
      <4>1. t \in Nat /\ t < L'
        BY <1>5, <2>1, Zenon
      <4>. QED
        BY <1>2, <4>1
    <3>4. ~(t >= L')
      BY <3>3
    <3>5. added'[t] < commands' /\ sched_nodes'[t].ctx = added'[t] % NumDescs
      <4>1. added'[t] = commands /\ sched_nodes'[t].ctx = ctx_pos
        BY <1>5, <2>1, Zenon
      <4>. QED
        BY <1>1, <4>1
    <3>6. /\ sched_nodes'[t].i \in DOMAIN data'[sched_nodes'[t].ctx]
          /\ data'[sched_nodes'[t].ctx][sched_nodes'[t].i] = t
      <4>1. /\ sched_nodes'[t].ctx = ctx_pos /\ sched_nodes'[t].i = t - L + 1
            /\ t - L + 1 \in 1 .. n /\ d[t - L + 1] = t
        BY Zenon, <1>5, <2>1
      <4>. QED
        BY <1>3, <3>1, <4>1
    <3>. QED
      BY <3>2, <3>4, <3>5, <3>6
  <2>2. CASE t \notin NewNodes(n) /\ added[t] = NULL
    BY <1>6, <2>2 DEF NodeInv, AtqInv
  <2>3. CASE t \notin NewNodes(n) /\ added[t] # NULL
    <3>1. /\ added[t] \in Nat /\ added[t] < commands
          /\ sched_nodes[t].ctx = added[t] % NumDescs /\ sched_nodes[t] # NULL
          /\ t >= L => sched_nodes[t] = NULL
      BY <2>3 DEF NodeInv, AtqInv
    <3>2. sched_nodes[t].ctx \in 0 .. NumDescs - 1
      BY Zenon, <3>1 DEF AtqInv
    <3>3. ASSUME commands' - added[t] <= NumDescs
          PROVE  /\ sched_nodes[t].i \in DOMAIN data'[sched_nodes[t].ctx]
                 /\ data'[sched_nodes[t].ctx][sched_nodes[t].i] = t
      <4>1. sched_nodes[t].ctx # ctx_pos
        <5>1. commands - added[t] < NumDescs
          BY SMT, <1>1, <3>1, <3>3
        <5>. QED
          BY Zenon, <1>1, <3>1, <5>1, ModDiffers
      <4>2. data'[sched_nodes[t].ctx] = data[sched_nodes[t].ctx]
        BY <1>4, <3>2, <4>1 DEF AtqInv
      <4>3. commands - added[t] <= NumDescs
        BY <1>1, <3>1, <3>3
      <4>. QED
        BY <2>3, <4>2, <4>3 DEF NodeInv, AtqInv
    <3>4. added[t] < commands'
      BY <1>1, <3>1
    <3>. QED
      BY <1>6, <2>3, <3>1, <3>3, <3>4
  <2>. QED
    BY <2>1, <2>2, <2>3
<1>10. leaf' = leaf
  BY Zenon DEF add_sched_elems
<1>11. ASSUME NEW q \in Queues, leaf[q] # NULL
       PROVE  /\ leaf[q].teid <= L' /\ leaf[q].cmd < commands'
              /\ \A t \in Nodes : leaf[q].teid = t /\ sched_nodes'[t] # NULL =>
                                  added'[t] # NULL /\ added'[t] > leaf[q].cmd
  <2>1. leaf[q].teid \in Nat /\ leaf[q].cmd \in Nat /\ leaf[q].teid <= L /\ leaf[q].cmd < commands
    BY <1>11 DEF AtqInv, LeafInv
  <2>2. leaf[q].teid <= L' /\ leaf[q].cmd < commands'
    BY <1>1, <1>2, <2>1
  <2>3. ASSUME NEW t \in Nodes, leaf[q].teid = t, sched_nodes'[t] # NULL
        PROVE  added'[t] # NULL /\ added'[t] > leaf[q].cmd
    <3>1. CASE t \in NewNodes(n)
      <4>1. added'[t] = commands
        BY Zenon, <1>5, <3>1
      <4>2. commands # NULL /\ commands > leaf[q].cmd
        BY <1>1, <2>1
      <4>. QED
        BY Zenon, <4>1, <4>2
    <3>2. CASE t \notin NewNodes(n)
      BY Zenon, <1>6, <1>11, <2>3, <3>2 DEF AtqInv, LeafInv
    <3>. QED
      BY Zenon, <3>1, <3>2
  <2>. QED
    BY Zenon, <2>2, <2>3
<1>12. LeafInv'
  BY Zenon, <1>10, <1>11 DEF LeafInv
<1>. QED
  BY Zenon, <1>1, <1>2, <1>4, <1>7, <1>8, <1>9, <1>10, <1>12 DEF AtqInv, add_sched_elems, Execute

-----------------------------------------------------------------------------
(* Control queue                                                           *)

LEMMA ControlUnchanged ==
  ASSUME ControlInv, UNCHANGED cqpVars
  PROVE  ControlInv'
BY DEF ControlInv, CqpInv, Known, cqpVars

LEMMA ControlReset ==
  ASSUME ControlInv, reset
  PROVE  ControlInv'
<1>. USE Constants DEF reset
<1>1. CqpInv'
  BY DEF ControlInv, CqpInv, Known
<1>2. live' \in BOOLEAN /\ cqp_enabled' \in BOOLEAN
  BY Zenon DEF ControlInv
<1>3. /\ CCQPSTATUS' \in {0, 1, WordMod \div 2} /\ CQPTAIL' \in 0 .. HeadMod - 1 /\ posted' \in 0 .. MaxPosts
      /\ due' \in Seq(0 .. MaxPosts)
  OBVIOUS
<1>4. UNCHANGED <<cqp_ring, cnt, cqes, gen, sq_len>>
  OBVIOUS
<1>. HIDE DEF reset
<1>. QED
  BY <1>1, <1>2, <1>3, <1>4 DEF ControlInv

LEMMA CreateCqp ==
  ASSUME ControlInv, NEW n \in SqLens, NEW low_zero \in BOOLEAN, create_cqp(n, low_zero)
  PROVE  ControlInv'
<1>. USE Constants
<1>1. CASE cqp_enabled
  <2>1. /\ gen' = gen + 1 /\ gen' \in 0 .. MaxCqps /\ cqp_ring < gen'
        /\ UNCHANGED <<cqp_enabled, CCQPSTATUS, CQPTAIL, cqp_ring, cnt, cqes, posted, due>>
    BY <1>1 DEF ControlInv, CqpInv, create_cqp
  <2>2. live' /\ live' \in BOOLEAN /\ sq_len' \in SqLens
    BY Zenon DEF create_cqp
  <2>3. CqpInv'
    BY <1>1, <2>1, <2>2 DEF ControlInv, CqpInv, Known
  <2>. QED
    BY <2>1, <2>2, <2>3 DEF ControlInv
<1>2. CASE ~cqp_enabled
  <2>1. /\ gen' = gen + 1 /\ gen' \in 0 .. MaxCqps /\ cqp_ring' = gen' /\ CQPTAIL' = 0
        /\ CCQPSTATUS' \in {0, 1, WordMod \div 2} /\ posted = 0 /\ due = <<>> /\ cnt = NULL
        /\ UNCHANGED <<cnt, cqes, posted, due>>
    BY <1>2 DEF ControlInv, CqpInv, create_cqp
  <2>2. live' /\ live' \in BOOLEAN /\ cqp_enabled' /\ cqp_enabled' \in BOOLEAN /\ sq_len' \in SqLens
    BY <1>2, Zenon DEF create_cqp
  <2>3. CqpInv'
    BY <1>2, <2>1, <2>2 DEF ControlInv, CqpInv, Known
  <2>. QED
    BY <2>1, <2>2, <2>3 DEF ControlInv
<1>. QED
  BY <1>1, <1>2

LEMMA DestroyCqp ==
  ASSUME ControlInv, destroy_cqp
  PROVE  ControlInv'
<1>. USE Constants DEF destroy_cqp
<1>1. CqpInv'
  BY DEF ControlInv, CqpInv, Known
<1>2. live' \in BOOLEAN
  BY Zenon
<1>3. /\ posted' \in 0 .. MaxPosts /\ due' \in Seq(0 .. MaxPosts)
      /\ UNCHANGED <<cqp_enabled, CCQPSTATUS, CQPTAIL, cqp_ring, cnt, cqes, gen, sq_len>>
  OBVIOUS
<1>. HIDE DEF destroy_cqp
<1>. QED
  BY <1>1, <1>2, <1>3 DEF ControlInv

\* A fetched request moves CQPTAIL by one, within the queue, and uses a slot
\* below it.
LEMMA Fetch ==
  ASSUME ControlInv, NEW op \in Opcodes, CCQPSTATUS = 1, posted < MaxPosts,
         doorbell_new((posted + 1) % sq_len), trigger_fetch(op)
  PROVE  /\ CQPTAIL' = CQPTAIL + 1 /\ CQPTAIL' \in 0 .. HeadMod - 1
         /\ cnt' \in (0 .. HeadMod) \cup {NULL}
         /\ cnt' # NULL => cnt' <= CQPTAIL'
         /\ cqes' \in [0 .. HeadMod - 1 -> (0 .. HeadMod - 1) \cup {NULL}]
<1>. USE Constants
<1>1. PICK wqe_op \in Opcodes : /\ wqe_op = "cqe" => cnt # NULL
                                /\ process(wqe_op, CQPTAIL)
  BY DEF trigger_fetch
<1>2. /\ CQPTAIL \in 0 .. HeadMod - 1 /\ posted \in Nat /\ cnt \in (0 .. HeadMod) \cup {NULL}
      /\ cqes \in [0 .. HeadMod - 1 -> (0 .. HeadMod - 1) \cup {NULL}]
      /\ cnt # NULL => cnt <= CQPTAIL
  BY DEF ControlInv, CqpInv
<1>3. \E h \in 0 .. HeadMod - 1 : h > CQPTAIL
  <2>1. sq_len \in Nat \ {0} /\ posted + 1 \in Nat
    BY <1>2, QueueLength
  <2>. DEFINE v == posted + 1
  <2>2. v % sq_len \in Nat
    <3>1. v \in Nat
      BY Zenon, <2>1
    <3>. HIDE DEF v
    <3>. QED
      BY SMT, <2>1, <3>1
  <2>3. ((posted + 1) % sq_len) % HeadMod \in 0 .. HeadMod - 1
    BY <2>2, DivMod
  <2>. QED
    BY Zenon, <2>3 DEF doorbell_new
<1>4. CQPTAIL' = CQPTAIL + 1 /\ CQPTAIL' \in 0 .. HeadMod - 1
  BY <1>1, <1>2, <1>3 DEF process
<1>5. CASE wqe_op = "poll"
  BY <1>1, <1>2, <1>4, <1>5 DEF process
<1>6. CASE wqe_op = "create_ccq"
  BY <1>1, <1>2, <1>4, <1>6 DEF process
<1>7. CASE wqe_op = "cqe"
  BY <1>1, <1>2, <1>4, <1>7 DEF process
<1>. QED
  BY <1>5, <1>6, <1>7 DEF Opcodes

LEMMA DueType ==
  ASSUME ControlInv, NEW op \in Opcodes, CQPDB_write(op)
  PROVE  /\ posted \in Nat /\ posted' = posted + 1 /\ posted' \in 0 .. MaxPosts
         /\ due' \in Seq(0 .. MaxPosts)
         /\ UNCHANGED <<cqp_enabled, CCQPSTATUS, cqp_ring, gen, live, sq_len>>
         /\ live /\ CCQPSTATUS = 1
<1>. USE Constants
<1>0. /\ posted < MaxPosts /\ posted' = posted + 1 /\ CCQPSTATUS = 1 /\ live
      /\ UNCHANGED <<cqp_enabled, CCQPSTATUS, cqp_ring, gen, live, sq_len>>
  BY Zenon DEF CQPDB_write
<1>1. /\ posted \in Nat /\ posted' = posted + 1 /\ posted' \in 0 .. MaxPosts
      /\ posted \in 0 .. MaxPosts /\ due \in Seq(0 .. MaxPosts)
  <2>1. posted \in 0 .. MaxPosts /\ due \in Seq(0 .. MaxPosts)
    BY Zenon DEF ControlInv
  <2>2. posted \in Nat /\ posted + 1 \in 0 .. MaxPosts
    BY SMT, <1>0, <2>1
  <2>. QED
    BY Zenon, <1>0, <2>1, <2>2
<1>2. CASE op = "poll"
  BY <1>1, <1>2 DEF CQPDB_write
<1>3. CASE op = "create_ccq"
  BY <1>1, <1>3 DEF CQPDB_write
<1>4. CASE op = "cqe"
  BY <1>1, <1>4 DEF CQPDB_write
<1>. QED
  BY <1>0, <1>1, <1>2, <1>3, <1>4 DEF Opcodes

\* Until the queue wraps, the request fetched is the one just posted.
LEMMA InStep ==
  ASSUME ControlInv, NEW op \in Opcodes, CQPDB_write(op), Known, posted + 1 < sq_len, posted + 1 < HeadMod
  PROVE  /\ CQPTAIL = posted /\ CQPTAIL' = posted + 1
         /\ process(op, posted)
         /\ op = "cqe" => due # <<>>
         /\ Len(due) <= posted
         /\ due # <<>> => cnt = Len(due)
         /\ \A k \in DOMAIN due : cqes[k - 1] = due[k]
<1>. USE Constants
<1>1. posted \in Nat /\ sq_len \in Nat \ {0}
  BY QueueLength DEF ControlInv
<1>2. /\ CQPTAIL = posted /\ Len(due) <= posted
      /\ due # <<>> => cnt = Len(due)
      /\ \A k \in DOMAIN due : cqes[k - 1] = due[k]
  BY <1>1 DEF ControlInv, CqpInv
<1>3. (posted + 1) % sq_len = posted + 1 /\ (posted + 1) % HeadMod = posted + 1
  <2>1. posted + 1 \in 0 .. sq_len - 1 /\ posted + 1 \in 0 .. HeadMod - 1
    BY SMT, <1>1
  <2>. QED
    BY Zenon, <1>1, <2>1, ModSmall
<1>4. doorbell_new((posted + 1) % sq_len)
  <2>1. posted + 1 # 0 /\ posted + 1 > posted
    BY SMT, <1>1
  <2>. QED
    BY Zenon, <1>2, <1>3, <2>1 DEF doorbell_new
<1>5. trigger_fetch(op) /\ (op = "cqe" => due # <<>>)
  BY <1>4 DEF CQPDB_write
<1>6. process(op, posted)
  BY <1>2, <1>5 DEF trigger_fetch, Known
<1>. QED
  BY <1>2, <1>5, <1>6 DEF process

LEMMA CqpdbWrite ==
  ASSUME ControlInv, NEW op \in Opcodes, CQPDB_write(op)
  PROVE  ControlInv'
<1>. USE Constants
<1>1. /\ posted \in Nat /\ posted' = posted + 1 /\ posted' \in 0 .. MaxPosts
      /\ due' \in Seq(0 .. MaxPosts) /\ due \in Seq(0 .. MaxPosts)
      /\ UNCHANGED <<cqp_enabled, CCQPSTATUS, cqp_ring, gen, live, sq_len>>
      /\ live /\ CCQPSTATUS = 1
  BY DueType DEF ControlInv
<1>2. /\ CQPTAIL' \in 0 .. HeadMod - 1 /\ cnt' \in (0 .. HeadMod) \cup {NULL}
      /\ cqes' \in [0 .. HeadMod - 1 -> (0 .. HeadMod - 1) \cup {NULL}]
      /\ cnt' # NULL => cnt' <= CQPTAIL'
  <2>1. CASE doorbell_new((posted + 1) % sq_len)
    <3>1. trigger_fetch(op) /\ posted < MaxPosts
      BY <2>1 DEF CQPDB_write
    <3>. QED
      BY <1>1, <2>1, <3>1, Fetch
  <2>2. CASE ~doorbell_new((posted + 1) % sq_len)
    <3>1. UNCHANGED <<CQPTAIL, cnt, cqes>>
      BY <2>2 DEF CQPDB_write
    <3>. QED
      BY <1>1, <3>1 DEF ControlInv, CqpInv
  <2>. QED
    BY <2>1, <2>2
<1>3. ASSUME Known, posted + 1 < sq_len, posted + 1 < HeadMod
      PROVE  /\ CQPTAIL' = posted' /\ Len(due') <= posted'
             /\ due' # <<>> => cnt' = Len(due')
             /\ \A k \in DOMAIN due' : cqes'[k - 1] = due'[k]
  <2>1. /\ CQPTAIL = posted /\ CQPTAIL' = posted + 1
        /\ process(op, posted)
        /\ op = "cqe" => due # <<>>
        /\ Len(due) <= posted
        /\ due # <<>> => cnt = Len(due)
        /\ \A k \in DOMAIN due : cqes[k - 1] = due[k]
    BY <1>3, InStep
  <2>2. cqes \in [0 .. HeadMod - 1 -> (0 .. HeadMod - 1) \cup {NULL}]
    BY DEF ControlInv
  <2>3. CASE op = "poll"
    <3>1. due' = due /\ UNCHANGED <<cnt, cqes>>
      BY <2>1, <2>3 DEF CQPDB_write, process
    <3>. QED
      BY <1>1, <2>1, <3>1
  <2>4. CASE op = "create_ccq"
    <3>1. due' = <<posted>> /\ cqes' = [cqes EXCEPT ![0] = posted] /\ cnt' = 1
      BY <2>1, <2>4 DEF CQPDB_write, process
    <3>2. Len(due') = 1 /\ DOMAIN due' = {1} /\ due'[1] = posted /\ cqes'[0] = posted
      BY <2>2, <3>1
    <3>. QED
      BY <1>1, <2>1, <3>1, <3>2
  <2>5. CASE op = "cqe"
    <3>1. /\ due' = Append(due, posted) /\ cqes' = [cqes EXCEPT ![cnt] = posted]
          /\ cnt' = cnt + 1 /\ cnt = Len(due) /\ due # <<>>
      BY ZenonT(40), Z3T(30), SMTT(30), <2>1, <2>5 DEF CQPDB_write, process
    <3>2. /\ Len(due') = Len(due) + 1 /\ DOMAIN due' = 1 .. Len(due) + 1
          /\ \A k \in 1 .. Len(due) : due'[k] = due[k]
          /\ due'[Len(due) + 1] = posted /\ Len(due) \in Nat /\ DOMAIN due = 1 .. Len(due)
      BY <1>1, <3>1
    <3>3. cnt \in 0 .. HeadMod - 1
      BY <1>1, <1>3, <2>1, <3>1, <3>2
    <3>4. /\ cqes'[cnt] = posted
          /\ \A k \in 1 .. Len(due) : cqes'[k - 1] = cqes[k - 1]
      BY <2>2, <3>1, <3>2, <3>3
    <3>5. \A k \in DOMAIN due' : cqes'[k - 1] = due'[k]
      <4>. SUFFICES ASSUME NEW k \in 1 .. Len(due) + 1 PROVE cqes'[k - 1] = due'[k]
        BY <3>2
      <4>1. CASE k = Len(due) + 1
        BY <3>1, <3>2, <3>4, <4>1
      <4>2. CASE k \in 1 .. Len(due)
        BY <2>1, <3>2, <3>4, <4>2
      <4>. QED
        BY <3>2, <4>1, <4>2
    <3>. QED
      BY <1>1, <2>1, <3>1, <3>2, <3>5
  <2>. QED
    BY <2>3, <2>4, <2>5 DEF Opcodes
<1>4. CqpInv'
  <2>1. cqp_ring' <= gen' /\ (~cqp_enabled' => gen' = 0 /\ CCQPSTATUS' = 0 /\ cnt' = NULL)
    BY <1>1 DEF ControlInv, CqpInv
  <2>2. Known' <=> Known
    BY <1>1 DEF Known
  <2>3. (posted' < sq_len' => posted + 1 < sq_len) /\ (posted' < HeadMod => posted + 1 < HeadMod)
    BY <1>1
  <2>. QED
    BY <1>1, <1>2, <1>3, <2>1, <2>2, <2>3 DEF CqpInv
<1>. QED
  BY <1>1, <1>2, <1>4 DEF ControlInv

-----------------------------------------------------------------------------
(* The invariant and the properties                                        *)

LEMMA InitInv == Init => IInv
<1>. SUFFICES ASSUME Init PROVE IInv
  OBVIOUS
<1>. USE Constants DEF Init
<1>1. LanInv
  <2>1. RegisterInv /\ TxInv
    BY DEF RegisterInv, TxInv
  <2>2. rx_enabled \in [Queues -> BOOLEAN] /\ qtx_ena \in [Queues -> BOOLEAN]
    OBVIOUS
  <2>3. /\ QRX_CTRL \in [Queues -> 0 .. WordMod - 1] /\ adds \in [Queues -> 0 .. MaxAdds]
        /\ tx_ring \in [Queues -> Contexts \cup {NULL}]
        /\ ctx_addr \in [Queues -> Contexts \cup {NULL}]
    OBVIOUS
  <2>. HIDE DEF Init
  <2>. QED
    BY <2>1, <2>2, <2>3 DEF LanInv
<1>2. AtqInv
  <2>1. NodeInv /\ LeafInv
    BY DEF NodeInv, LeafInv
  <2>2. atq_enabled \in BOOLEAN
    BY Zenon
  <2>3. /\ commands \in 0 .. MaxCommands /\ last_returned_node \in FirstNode .. MaxNode + 1
        /\ data \in [0 .. NumDescs - 1 -> Seq(Nodes)]
        /\ sched_nodes \in [Nodes -> [ctx : 0 .. NumDescs - 1, i : 1 .. MaxElems] \cup {NULL}]
        /\ added \in [Nodes -> (0 .. MaxCommands) \cup {NULL}]
        /\ leaf \in [Queues -> [teid : FirstNode .. MaxNode + 1, cmd : 0 .. MaxCommands] \cup {NULL}]
    OBVIOUS
  <2>. HIDE DEF Init
  <2>. QED
    BY <2>1, <2>2, <2>3 DEF AtqInv
<1>3. ControlInv
  <2>1. CqpInv
    BY DEF CqpInv, Known
  <2>2. cqp_enabled \in BOOLEAN /\ live \in BOOLEAN
    BY Zenon
  <2>3. /\ CCQPSTATUS \in {0, 1, WordMod \div 2} /\ CQPTAIL \in 0 .. HeadMod - 1 /\ cqp_ring \in 0 .. MaxCqps
        /\ cnt \in (0 .. HeadMod) \cup {NULL} /\ gen \in 0 .. MaxCqps
        /\ cqes \in [0 .. HeadMod - 1 -> (0 .. HeadMod - 1) \cup {NULL}]
        /\ posted \in 0 .. MaxPosts /\ due \in Seq(0 .. MaxPosts) /\ sq_len \in SqLens
    OBVIOUS
  <2>. HIDE DEF Init
  <2>. QED
    BY <2>1, <2>2, <2>3 DEF ControlInv
<1>. QED
  BY <1>1, <1>2, <1>3, Parts

LEMMA NextInv == IInv /\ [Next]_vars => IInv'
<1>. SUFFICES ASSUME LanInv, AtqInv, ControlInv, [Next]_vars
              PROVE  LanInv' /\ AtqInv' /\ ControlInv'
  BY Parts, PTL
<1>1. ASSUME NEW q \in Queues, NEW ena \in BOOLEAN, QRX_CTRL_write(q, ena)
      PROVE  LanInv' /\ AtqInv' /\ ControlInv'
  <2>1. UNCHANGED <<atqVars, cqpVars>>
    BY <1>1 DEF QRX_CTRL_write
  <2>. QED
    BY <1>1, <2>1, QrxCtrlWrite, AtqUnchanged, ControlUnchanged
<1>2. ASSUME NEW q \in Queues, QINT_TQCTL_write(q)
      PROVE  LanInv' /\ AtqInv' /\ ControlInv'
  <2>1. UNCHANGED <<atqVars, cqpVars>>
    BY <1>2 DEF QINT_TQCTL_write
  <2>. QED
    BY <1>2, <2>1, QintTqctlWrite, AtqUnchanged, ControlUnchanged
<1>3. ASSUME NEW ena \in BOOLEAN, ATQLEN_write(ena)
      PROVE  LanInv' /\ AtqInv' /\ ControlInv'
  <2>1. UNCHANGED <<lanVars, cqpVars>>
    BY <1>3 DEF ATQLEN_write
  <2>. QED
    BY <1>3, <2>1, AtqLenWrite, LanUnchanged, ControlUnchanged
<1>4. CASE direct_command
  <2>1. /\ Execute(data[ctx_pos]) /\ UNCHANGED <<last_returned_node, sched_nodes, added, leaf>>
        /\ UNCHANGED lanVars /\ UNCHANGED cqpVars /\ commands' = commands + 1
    BY <1>4 DEF direct_command, Execute
  <2>2. data[ctx_pos] \in Seq(Nodes)
    BY Constants DEF AtqInv, ctx_pos
  <2>. QED
    BY Zenon, <2>1, <2>2, LeavesStay, OtherCommand, LanUnchanged, ControlUnchanged
<1>5. CASE buffer_command
  <2>1. /\ Execute(<<>>) /\ UNCHANGED <<last_returned_node, sched_nodes, added, leaf>>
        /\ UNCHANGED lanVars /\ UNCHANGED cqpVars /\ commands' = commands + 1
    BY <1>5 DEF buffer_command, Execute
  <2>2. <<>> \in Seq(Nodes)
    OBVIOUS
  <2>. QED
    BY Zenon, <2>1, <2>2, LeavesStay, OtherCommand, LanUnchanged, ControlUnchanged
<1>6. ASSUME NEW n \in 1 .. MaxElems, add_sched_elems(n)
      PROVE  LanInv' /\ AtqInv' /\ ControlInv'
  <2>1. UNCHANGED lanVars /\ UNCHANGED cqpVars
    BY <1>6 DEF add_sched_elems, Execute
  <2>. QED
    BY <1>6, <2>1, AddSchedElems, LanUnchanged, ControlUnchanged
<1>7. ASSUME NEW q \in Queues, NEW c \in Contexts, add_txqs(q, c)
      PROVE  LanInv' /\ AtqInv' /\ ControlInv'
  <2>1. /\ Execute(<<>>) /\ UNCHANGED <<last_returned_node, sched_nodes, added>>
        /\ UNCHANGED cqpVars
    BY <1>7 DEF add_txqs, Execute
  <2>2. <<>> \in Seq(Nodes)
    OBVIOUS
  <2>. QED
    BY Zenon, <1>7, <2>1, <2>2, AddTxqs, LeafGiven, OtherCommand, ControlUnchanged
<1>8. ASSUME NEW n \in SqLens, NEW low_zero \in BOOLEAN, create_cqp(n, low_zero)
      PROVE  LanInv' /\ AtqInv' /\ ControlInv'
  <2>1. UNCHANGED <<lanVars, atqVars>>
    BY <1>8 DEF create_cqp
  <2>. QED
    BY <1>8, <2>1, CreateCqp, LanUnchanged, AtqUnchanged
<1>9. CASE destroy_cqp
  <2>1. UNCHANGED <<lanVars, atqVars>>
    BY <1>9 DEF destroy_cqp
  <2>. QED
    BY <1>9, <2>1, DestroyCqp, LanUnchanged, AtqUnchanged
<1>10. ASSUME NEW op \in Opcodes, CQPDB_write(op)
       PROVE  LanInv' /\ AtqInv' /\ ControlInv'
  <2>1. UNCHANGED <<lanVars, atqVars>>
    BY <1>10, Zenon DEF CQPDB_write
  <2>. QED
    BY <1>10, <2>1, CqpdbWrite, LanUnchanged, AtqUnchanged
<1>11. CASE reset
  BY <1>11, LanReset, AtqReset, ControlReset
<1>12. CASE UNCHANGED vars
  BY <1>12, LanUnchanged, AtqUnchanged, ControlUnchanged DEF vars
<1>. QED
  BY <1>1, <1>2, <1>3, <1>4, <1>5, <1>6, <1>7, <1>8, <1>9, <1>10, <1>11, <1>12 DEF Next

\* Every reachable state of the registers, the admin queue and the control
\* queue satisfies the invariant, whatever the guest writes and when it resets
\* the function.
THEOREM InvariantHolds == Spec => []IInv
<1>. QED
  BY InitInv, NextInv, PTL DEF Spec

\* Registers keep their width, no context, node, slot or index leaves its
\* range: in particular the admin commands never store outside desc_ctxs, and
\* the control queue never outside its completion queue.
THEOREM TypeCorrect == Spec => []TypeOK
<1>1. IInv => TypeOK
  BY DEF IInv
<1>. QED
  BY <1>1, InvariantHolds, PTL

\* The status bit of QRX_CTRL tells whether the receive queue runs, for any
\* register width that is a multiple of 8 and any number of writes.
THEOREM StatusIsTold == Spec => []StatusTellsEnabled
<1>1. IInv => StatusTellsEnabled
  <2>. SUFFICES ASSUME LanInv, NEW q \in Queues
                PROVE  /\ QENA_STAT(QRX_CTRL[q]) = rx_enabled[q]
                       /\ QENA_REQ(QRX_CTRL[q]) = rx_enabled[q]
    BY ZenonT(40), Parts DEF StatusTellsEnabled
  <2>1. QRX_CTRL[q] \in Nat /\ rx_enabled[q] \in BOOLEAN
    BY Constants DEF LanInv
  <2>2. QRX_CTRL[q] % 8 = IF rx_enabled[q] THEN 5 ELSE 0
    BY DEF LanInv, RegisterInv
  <2>. QED
    BY <2>1, <2>2, StatusOfLowBits
<1>. QED
  BY <1>1, InvariantHolds, PTL

\* A transmit queue added once since the reset works on the ring of that
\* add_txqs.
THEOREM AddedRingIsUsed == Spec => []TxRingIsAdded
<1>1. IInv => TxRingIsAdded
  <2>. SUFFICES ASSUME LanInv, NEW q \in Queues
                PROVE  /\ qtx_ena[q] = (tx_ring[q] # NULL)
                       /\ adds[q] = 1 => tx_ring[q] = ctx_addr[q]
    BY ZenonT(40), Parts DEF TxRingIsAdded
  <2>1. qtx_ena[q] \in BOOLEAN
    BY DEF LanInv
  <2>2. /\ qtx_ena[q] <=> tx_ring[q] # NULL
        /\ adds[q] = 1 => tx_ring[q] = ctx_addr[q]
    BY DEF LanInv, TxInv
  <2>. QED
    BY <2>1, <2>2, Zenon
<1>. QED
  BY <1>1, InvariantHolds, PTL

\* A scheduler node is found by get_sched_elems until NumDescs commands later,
\* no number is handed out twice by add_sched_elems, and a node whose number a
\* queue has, too, was added after that queue.
THEOREM NodesAreFound == Spec => []RecentNodeFound
<1>1. IInv => RecentNodeFound
  <2>. SUFFICES ASSUME AtqInv, NEW t \in Nodes
                PROVE  /\ t >= last_returned_node => sched_nodes[t] = NULL
                       /\ added[t] # NULL /\ commands - added[t] < NumDescs =>
                            get_sched_elems(t) = t
                       /\ \A q \in Queues : leaf[q] # NULL /\ leaf[q].teid = t /\ sched_nodes[t] # NULL =>
                                            added[t] # NULL /\ added[t] > leaf[q].cmd
    BY Zenon, Parts DEF RecentNodeFound
  <2>1. t >= last_returned_node => sched_nodes[t] = NULL
    BY ZenonT(40), Z3T(30), SMTT(30) DEF AtqInv, NodeInv
  <2>2. ASSUME added[t] # NULL, commands - added[t] < NumDescs
        PROVE  get_sched_elems(t) = t
    <3>1. /\ added[t] \in Nat /\ commands \in Nat /\ added[t] < commands
          /\ sched_nodes[t] # NULL /\ sched_nodes[t].ctx = added[t] % NumDescs
      BY SMTT(30), Z3T(30), <2>2, Constants DEF AtqInv, NodeInv
    <3>2. sched_nodes[t].ctx # ctx_pos
      BY Zenon, <2>2, <3>1, ModDiffers, Constants DEF ctx_pos
    <3>3. commands - added[t] <= NumDescs
      BY <2>2, <3>1, Constants
    <3>4. /\ sched_nodes[t].i \in DOMAIN data[sched_nodes[t].ctx]
          /\ data[sched_nodes[t].ctx][sched_nodes[t].i] = t
      BY <2>2, <3>3 DEF AtqInv, NodeInv
    <3>. QED
      BY ZenonT(40), Z3T(30), SMTT(30), <3>1, <3>2, <3>4 DEF get_sched_elems
  <2>3. \A q \in Queues : leaf[q] # NULL /\ leaf[q].teid = t /\ sched_nodes[t] # NULL =>
                           added[t] # NULL /\ added[t] > leaf[q].cmd
    BY Zenon DEF AtqInv, LeafInv
  <2>. QED
    BY Zenon, <2>1, <2>2, <2>3
<1>. QED
  BY <1>1, InvariantHolds, PTL

\* Until the control queue wraps, and within the ten bits of the doorbell, every
\* request of a queue the model knows is processed and its completion is in the
\* guest's memory, in order.
THEOREM RequestsAreCompleted == Spec => []RequestsCompleted
<1>1. IInv => RequestsCompleted
  BY DEF IInv, CqpInv, Known, RequestsCompleted
<1>. QED
  BY <1>1, InvariantHolds, PTL
=============================================================================
