--------------------------- MODULE E810Queue_proofs ---------------------------
(***************************************************************************)
(* Proofs about E810Queue, for every ring length and any number of         *)
(* contexts.                                                               *)
(*                                                                         *)
(* Contexts are positions in a circle.  The proofs look at a context by    *)
(* its place in the window (Offset), which turns the modular arithmetic of *)
(* the code into linear one: Moves says how all places change when the     *)
(* window moves.                                                           *)
(***************************************************************************)
EXTENDS E810Queue, TLAPS

-----------------------------------------------------------------------------
(* Circles                                                                 *)

LEMMA Constants ==
  /\ RingLen \in Nat \ {0} /\ MaxActive \in Nat \ {0} /\ WordMod \in Nat \ {0}
  /\ RingLen < WordMod
BY QueueAssumption

LEMMA ModType ==
  ASSUME NEW n \in Nat \ {0}, NEW a \in Int
  PROVE  a % n \in 0 .. n - 1
OBVIOUS

LEMMA ModIs ==
  ASSUME NEW n \in Nat \ {0}, NEW b \in 0 .. n - 1, NEW a \in {b - n, b, b + n}
  PROVE  a % n = b
OBVIOUS

\* A place on a circle and the distance to it determine each other.
LEMMA Circle ==
  ASSUME NEW n \in Nat \ {0}, NEW f \in 0 .. n - 1
  PROVE  /\ \A p \in 0 .. n - 1 : (p - f) % n \in 0 .. n - 1 /\ (f + ((p - f) % n)) % n = p
         /\ \A k \in 0 .. n - 1 : (f + k) % n \in 0 .. n - 1 /\ (((f + k) % n) - f) % n = k
<1>1. ASSUME NEW p \in 0 .. n - 1
      PROVE  (p - f) % n \in 0 .. n - 1 /\ (f + ((p - f) % n)) % n = p
  <2>. DEFINE o == IF p < f THEN p - f + n ELSE p - f
              d == p - f
              q == f + o
  <2>1. o \in 0 .. n - 1 /\ d \in {o - n, o, o + n} /\ q \in {p - n, p, p + n}
    OBVIOUS
  <2>. HIDE DEF o, d, q
  <2>2. d % n = o /\ q % n = p
    BY Zenon, <2>1, ModIs
  <2>. QED
    BY Zenon, <2>1, <2>2 DEF d, q
<1>2. ASSUME NEW k \in 0 .. n - 1
      PROVE  (f + k) % n \in 0 .. n - 1 /\ (((f + k) % n) - f) % n = k
  <2>. DEFINE p == IF f + k < n THEN f + k ELSE f + k - n
              d == p - f
              q == f + k
  <2>1. p \in 0 .. n - 1 /\ d \in {k - n, k, k + n} /\ q \in {p - n, p, p + n}
    OBVIOUS
  <2>. HIDE DEF p, d, q
  <2>2. d % n = k /\ q % n = p
    BY Zenon, <2>1, ModIs
  <2>. QED
    BY Zenon, <2>1, <2>2 DEF d, q
<1>. QED
  BY Zenon, <1>1, <1>2

\* How distances change when the place they are measured from moves by c.
LEMMA Moves ==
  ASSUME NEW n \in Nat \ {0}, NEW f \in 0 .. n - 1, NEW p \in 0 .. n - 1, NEW c \in 0 .. n
  PROVE  (p - ((f + c) % n)) % n
           = IF (p - f) % n >= c THEN ((p - f) % n) - c ELSE ((p - f) % n) - c + n
<1>. DEFINE o == IF p < f THEN p - f + n ELSE p - f
            g == IF f + c < n THEN f + c ELSE f + c - n
            r == IF o >= c THEN o - c ELSE o - c + n
            x == p - f
            y == f + c
            z == p - g
<1>1. /\ o \in 0 .. n - 1 /\ x \in {o - n, o, o + n}
      /\ g \in 0 .. n - 1 /\ y \in {g - n, g, g + n}
      /\ r \in 0 .. n - 1 /\ z \in {r - n, r, r + n}
  OBVIOUS
<1>. HIDE DEF o, g, r, x, y, z
<1>2. x % n = o /\ y % n = g /\ z % n = r
  BY Zenon, <1>1, ModIs
<1>. QED
  BY Zenon, <1>2 DEF x, y, z, r

\* When the guest publishes c more entries, there are c more.
LEMMA Grows ==
  ASSUME NEW n \in Nat \ {0}, NEW f \in 0 .. n - 1, NEW t \in 0 .. n - 1, NEW c \in 0 .. n - 1,
         ((t - f) % n) + c < n
  PROVE  (((t + c) % n) - f) % n = ((t - f) % n) + c
<1>. DEFINE o == IF t < f THEN t - f + n ELSE t - f
            g == IF t + c < n THEN t + c ELSE t + c - n
            x == t - f
            y == t + c
            z == g - f
            r == o + c
<1>1. /\ o \in 0 .. n - 1 /\ x \in {o - n, o, o + n}
      /\ g \in 0 .. n - 1 /\ y \in {g - n, g, g + n}
  OBVIOUS
<1>. HIDE DEF o, g, x, y
<1>2. x % n = o /\ y % n = g
  BY Zenon, <1>1, ModIs
<1>3. o + c < n
  BY Zenon, <1>2 DEF x
<1>4. r \in 0 .. n - 1 /\ z \in {r - n, r, r + n}
  BY <1>1, <1>3 DEF o, g
<1>. HIDE DEF z, r
<1>5. z % n = r
  BY Zenon, <1>4, ModIs
<1>. QED
  BY Zenon, <1>2, <1>5 DEF x, y, z, r

LEMMA ModUnique ==
  ASSUME NEW n \in Nat \ {0}, NEW d \in Int, NEW r \in 0 .. n - 1
  PROVE  (n * d + r) % n = r
<1>. DEFINE y == n * d + r
            m == y % n
            k == (y \div n) - d
<1>1. y \in Int
  OBVIOUS
<1>2. \A x \in Int : x = n * (x \div n) + (x % n) /\ x % n \in 0 .. n - 1 /\ x \div n \in Int
  OBVIOUS
<1>3. y = n * (y \div n) + m /\ m \in 0 .. n - 1 /\ y \div n \in Int
  BY ZenonT(40), SMTT(30), Z3T(30), <1>1, <1>2
<1>4. k \in Int /\ n * k = r - m
  BY <1>3
<1>5. \A j \in Int : ~(0 < n * j /\ n * j < n) /\ ~(-n < n * j /\ n * j < 0)
  OBVIOUS
<1>. HIDE DEF k, m
<1>6. ~(0 < n * k /\ n * k < n) /\ ~(-n < n * k /\ n * k < 0)
  BY Zenon, <1>4, <1>5
<1>7. m = r
  BY <1>3, <1>4, <1>6
<1>. QED
  BY Zenon, <1>7 DEF m

LEMMA AddMod ==
  ASSUME NEW n \in Nat \ {0}, NEW a \in Int, NEW b \in Int
  PROVE  ((a % n) + b) % n = (a + b) % n
<1>. DEFINE r == a % n
            c == r + b
            t == c % n
<1>1. \A x \in Int : x = n * (x \div n) + (x % n) /\ x % n \in 0 .. n - 1 /\ x \div n \in Int
  OBVIOUS
<1>2. a = n * (a \div n) + r /\ r \in 0 .. n - 1 /\ a \div n \in Int
  BY <1>1
<1>3. c \in Int
  BY <1>2
<1>4. c = n * (c \div n) + t /\ t \in 0 .. n - 1 /\ c \div n \in Int
  BY Zenon, <1>1, <1>3
<1>. HIDE DEF r, t
<1>5. PICK d \in Int, e \in Int : a = n * d + r /\ c = n * e + t
  BY Zenon, <1>2, <1>4
<1>6. a + b = n * (d + e) + t /\ d + e \in Int
  BY <1>2, <1>4, <1>5
<1>7. (n * (d + e) + t) % n = t
  BY Zenon, <1>4, <1>6, ModUnique
<1>. QED
  BY Zenon, <1>6, <1>7 DEF r, t

\* uint32_t arithmetic before % len, if len divides 2^32.
LEMMA WordDistance ==
  ASSUME NEW n \in Nat \ {0}, NEW w \in Nat \ {0}, w % n = 0, n < w, NEW a \in 1 - n .. n - 1
  PROVE  (a % w) % n = a % n
<1>. DEFINE b == IF a < 0 THEN a + w ELSE a
            c == IF a < 0 THEN a + n ELSE a
<1>1. b \in 0 .. w - 1 /\ a \in {b - w, b, b + w} /\ c \in 0 .. n - 1 /\ a \in {c - n, c, c + n}
  OBVIOUS
<1>. HIDE DEF b, c
<1>2. a % w = b /\ a % n = c
  BY ZenonT(40), <1>1, ModIs
<1>3. CASE a >= 0
  <2>1. b = a
    BY <1>3 DEF b
  <2>. QED
    BY Zenon, <1>2, <2>1
<1>4. CASE a < 0
  <2>1. PICK q \in Int : w = n * q
    <3>1. \A x \in Int : x = n * (x \div n) + (x % n) /\ x \div n \in Int
      OBVIOUS
    <3>. QED
      BY <3>1
  <2>. DEFINE d == q - 1
              g == a + n
  <2>2. b = n * d + g /\ d \in Int /\ g \in 0 .. n - 1 /\ c = g
    BY <1>4, <2>1 DEF b, c
  <2>. HIDE DEF d, g
  <2>3. (n * d + g) % n = g
    BY Zenon, <2>2, ModUnique
  <2>. QED
    BY Zenon, <1>2, <2>2, <2>3
<1>. QED
  BY <1>3, <1>4

-----------------------------------------------------------------------------
(* Contexts and calls                                                      *)

LEMMA Places ==
  ASSUME active_first_pos \in Pos
  PROVE  /\ \A p \in Pos : Offset(p) \in 0 .. MaxActive - 1 /\ At(Offset(p)) = p
         /\ \A k \in 0 .. MaxActive - 1 : At(k) \in Pos /\ Offset(At(k)) = k
         /\ Offset(active_first_pos) = 0
<1>1. MaxActive \in Nat \ {0} /\ active_first_pos \in 0 .. MaxActive - 1
  BY Constants DEF Pos
<1>2. /\ \A p \in Pos : Offset(p) \in 0 .. MaxActive - 1 /\ At(Offset(p)) = p
      /\ \A k \in 0 .. MaxActive - 1 : At(k) \in Pos /\ Offset(At(k)) = k
  BY Zenon, <1>1, Circle DEF Pos, At, Offset
<1>3. At(0) = active_first_pos
  BY <1>1 DEF At
<1>4. 0 \in 0 .. MaxActive - 1
  BY <1>1
<1>. QED
  BY Zenon, <1>2, <1>3, <1>4

LEMMA StateNumbers ==
  /\ \A s \in States : s > DESC_PREPARED <=> s \in {DESC_PROCESSING, DESC_PROCESSED}
  /\ \A s \in States : s <= DESC_PREPARED <=> ~(s > DESC_PREPARED)
  /\ \A s \in States : s \in {DESC_EMPTY, DESC_FETCHING, DESC_PREPARED, DESC_PROCESSING, DESC_PROCESSED}
  /\ DESC_EMPTY \in States /\ DESC_FETCHING \in States /\ DESC_PREPARED \in States
  /\ DESC_PROCESSING \in States /\ DESC_PROCESSED \in States
  /\ DESC_EMPTY # DESC_FETCHING /\ DESC_EMPTY # DESC_PREPARED /\ DESC_EMPTY # DESC_PROCESSING
  /\ DESC_EMPTY # DESC_PROCESSED /\ DESC_FETCHING # DESC_PREPARED /\ DESC_FETCHING # DESC_PROCESSING
  /\ DESC_FETCHING # DESC_PROCESSED /\ DESC_PREPARED # DESC_PROCESSING
  /\ DESC_PREPARED # DESC_PROCESSED /\ DESC_PROCESSING # DESC_PROCESSED
BY DEF States, DESC_EMPTY, DESC_FETCHING, DESC_PREPARED, DESC_PROCESSING, DESC_PROCESSED

LEMMA SamePlace ==
  ASSUME active_first_pos \in Pos, NEW p \in Pos, NEW q \in Pos, Offset(p) = Offset(q)
  PROVE  p = q
BY Zenon, Places

LEMMA FrameTypes ==
  ASSUME NEW x \in Frames
  PROVE  /\ x.fn \in {"fetch", "process", "writeback", "loop", "fetched", "receive"}
         /\ x.fn = "loop" => /\ x.at \in 0 .. MaxActive
                             /\ \A n \in 0 .. MaxActive : [x EXCEPT !.at = n] = [fn |-> "loop", at |-> n]
         /\ x.fn = "fetched" =>
              /\ x.pos \in Pos /\ x.idx \in Idx /\ x.i \in 0 .. MaxActive /\ x.cnt \in 1 .. MaxActive
              /\ \A n \in 0 .. MaxActive :
                   [x EXCEPT !.i = n] = [fn |-> "fetched", pos |-> x.pos, idx |-> x.idx, i |-> n, cnt |-> x.cnt]
         /\ x.fn = "receive" =>
              /\ x.left \in 0 .. MaxActive
              /\ \A n \in 0 .. MaxActive : [x EXCEPT !.left = n] = [fn |-> "receive", left |-> n]
BY DEF Frames

LEMMA AreFrames ==
  /\ [fn |-> "fetch"] \in Frames /\ [fn |-> "process"] \in Frames /\ [fn |-> "writeback"] \in Frames
  /\ \A n \in 0 .. MaxActive :
       [fn |-> "loop", at |-> n] \in Frames /\ [fn |-> "receive", left |-> n] \in Frames
  /\ \A p \in Pos, d \in Idx, n \in 0 .. MaxActive, c \in 1 .. MaxActive :
       [fn |-> "fetched", pos |-> p, idx |-> d, i |-> n, cnt |-> c] \in Frames
BY DEF Frames

LEMMA Prefix ==
  ASSUME NEW S, NEW s \in Seq(S), NEW n \in 0 .. Len(s)
  PROVE  /\ SubSeq(s, 1, n) \in Seq(S) /\ Len(SubSeq(s, 1, n)) = n
         /\ \A f \in 1 .. n : SubSeq(s, 1, n)[f] = s[f]
<1>1. SubSeq(s, 1, n) \in Seq(S)
  OBVIOUS
<1>2. Len(SubSeq(s, 1, n)) = n
  OBVIOUS
<1>3. \A f \in 1 .. n : SubSeq(s, 1, n)[f] = s[f]
  OBVIOUS
<1>. QED
  BY <1>1, <1>2, <1>3

LEMMA TopFrame ==
  ASSUME stack \in Seq(Frames), stack # <<>>
  PROVE  /\ Len(stack) \in Nat \ {0} /\ Top = stack[Len(stack)] /\ Top \in Frames
         /\ Callers \in Seq(Frames) /\ Len(Callers) = Len(stack) - 1
         /\ \A f \in 1 .. Len(stack) - 1 : Callers[f] = stack[f]
<1>1. Len(stack) \in Nat \ {0}
  OBVIOUS
<1>2. Top = stack[Len(stack)] /\ Top \in Frames
  BY <1>1 DEF Top
<1>. DEFINE n == Len(stack) - 1
<1>3. n \in 0 .. Len(stack)
  BY <1>1
<1>4. /\ SubSeq(stack, 1, n) \in Seq(Frames) /\ Len(SubSeq(stack, 1, n)) = n
      /\ \A f \in 1 .. n : SubSeq(stack, 1, n)[f] = stack[f]
  BY Zenon, <1>3, Prefix
<1>. QED
  BY <1>1, <1>2, <1>4 DEF Callers

LEMMA BecomeStack ==
  ASSUME stack \in Seq(Frames), stack # <<>>, NEW x \in Frames, Become(x)
  PROVE  /\ stack' \in Seq(Frames) /\ Len(stack') = Len(stack) /\ stack' # <<>> /\ Top' = x
         /\ \A f \in 1 .. Len(stack) : stack'[f] = IF f < Len(stack) THEN stack[f] ELSE x
<1>. DEFINE c == Callers
<1>1. /\ Len(stack) \in Nat \ {0} /\ c \in Seq(Frames) /\ Len(c) = Len(stack) - 1
      /\ \A f \in 1 .. Len(stack) - 1 : c[f] = stack[f]
      /\ stack' = Append(c, x)
  BY TopFrame DEF Become
<1>. HIDE DEF c
<1>2. /\ stack' \in Seq(Frames) /\ Len(stack') = Len(stack) /\ stack' # <<>>
      /\ \A f \in 1 .. Len(stack) : stack'[f] = IF f < Len(stack) THEN stack[f] ELSE x
  BY <1>1
<1>. QED
  BY <1>1, <1>2 DEF Top

LEMMA CallStack ==
  ASSUME stack \in Seq(Frames), stack # <<>>, NEW x \in Frames, NEW y \in Frames, Call(x, y)
  PROVE  /\ stack' \in Seq(Frames) /\ Len(stack') = Len(stack) + 1 /\ stack' # <<>> /\ Top' = y
         /\ \A f \in 1 .. Len(stack) + 1 :
              stack'[f] = IF f < Len(stack) THEN stack[f] ELSE IF f = Len(stack) THEN x ELSE y
<1>. DEFINE c == Callers
<1>1. /\ Len(stack) \in Nat \ {0} /\ c \in Seq(Frames) /\ Len(c) = Len(stack) - 1
      /\ \A f \in 1 .. Len(stack) - 1 : c[f] = stack[f]
      /\ stack' = c \o <<x, y>>
  BY TopFrame DEF Call
<1>. HIDE DEF c
<1>2. /\ stack' \in Seq(Frames) /\ Len(stack') = Len(stack) + 1 /\ stack' # <<>>
      /\ \A f \in 1 .. Len(stack) + 1 :
           stack'[f] = IF f < Len(stack) THEN stack[f] ELSE IF f = Len(stack) THEN x ELSE y
  BY <1>1
<1>. QED
  BY SMTT(30), Z3T(30), ZenonT(40), <1>1, <1>2 DEF Top

LEMMA ReturnStack ==
  ASSUME stack \in Seq(Frames), stack # <<>>, Return
  PROVE  /\ stack' \in Seq(Frames) /\ Len(stack') = Len(stack) - 1
         /\ \A f \in 1 .. Len(stack) - 1 : stack'[f] = stack[f]
         /\ stack' # <<>> => Top' \in Frames
<1>1. /\ stack' \in Seq(Frames) /\ Len(stack') = Len(stack) - 1
      /\ \A f \in 1 .. Len(stack) - 1 : stack'[f] = stack[f]
  BY TopFrame DEF Return
<1>. QED
  BY <1>1 DEF Top

-----------------------------------------------------------------------------
(* What keeps the parts of the invariant                                   *)

LEMMA WindowKept ==
  ASSUME WindowInv, UNCHANGED <<window, index>>,
         \A p \in Pos : state'[p] = DESC_EMPTY <=> state[p] = DESC_EMPTY
  PROVE  WindowInv'
<1>1. /\ active_first_pos' = active_first_pos /\ active_first_idx' = active_first_idx
      /\ active_cnt' = active_cnt /\ index' = index
  BY DEF window
<1>. QED
  BY Zenon, <1>1 DEF WindowInv, Offset

LEMMA FetchedKept ==
  ASSUME FetchedInv, index' = index,
         \A p \in Pos : state'[p] = DESC_FETCHING <=> state[p] = DESC_FETCHING,
         \A f \in 1 .. Len(stack) : Reads(stack[f]) \subseteq Pos,
         \A f \in 1 .. Len(stack') :
           stack'[f].fn = "fetched" => f \in 1 .. Len(stack) /\ stack'[f] = stack[f],
         \A f \in 1 .. Len(stack) :
           Reads(stack[f]) # {} => f \in 1 .. Len(stack') /\ stack'[f] = stack[f]
  PROVE  FetchedInv'
<1>1. ASSUME NEW f \in 1 .. Len(stack'), NEW p \in Reads(stack'[f])
      PROVE  f \in 1 .. Len(stack) /\ stack'[f] = stack[f] /\ p \in Reads(stack[f])
  <2>1. stack'[f].fn = "fetched"
    BY Zenon, <1>1 DEF Reads
  <2>. QED
    BY Zenon, <1>1, <2>1
<1>2. \A f \in 1 .. Len(stack') :
        stack'[f].fn = "fetched" =>
          /\ stack'[f].i <= stack'[f].cnt /\ stack'[f].idx + stack'[f].cnt <= RingLen
          /\ \A j \in stack'[f].i .. stack'[f].cnt - 1 :
               index'[(stack'[f].pos + j) % MaxActive] = stack'[f].idx + j
  BY ZenonT(40) DEF FetchedInv
<1>3. \A f \in 1 .. Len(stack') : \A p \in Reads(stack'[f]) : state'[p] = DESC_FETCHING
  BY Zenon, <1>1 DEF FetchedInv
<1>4. ASSUME NEW f \in 1 .. Len(stack'), NEW g \in 1 .. Len(stack'), f # g,
             NEW p \in Reads(stack'[f]), p \in Reads(stack'[g])
      PROVE  FALSE
  BY Zenon, <1>1, <1>4 DEF FetchedInv
<1>5. ASSUME NEW p \in Pos, state'[p] = DESC_FETCHING
      PROVE  \E f \in 1 .. Len(stack') : p \in Reads(stack'[f])
  <2>1. PICK f \in 1 .. Len(stack) : p \in Reads(stack[f])
    BY Zenon, <1>5 DEF FetchedInv
  <2>. QED
    BY Zenon, <2>1
<1>. QED
  BY Zenon, <1>2, <1>3, <1>4, <1>5 DEF FetchedInv, Reads

LEMMA OrderKept ==
  ASSUME OrderInv, UNCHANGED <<kind, active_first_pos>>,
         state \in [Pos -> States], state' \in [Pos -> States],
         \A p \in Pos : state'[p] = state[p] \/ (state[p] <= DESC_PREPARED /\ state'[p] <= DESC_PREPARED)
  PROVE  OrderInv'
<1>1. /\ \A p \in Pos : state'[p] > DESC_PREPARED => state'[p] = state[p]
      /\ \A p \in Pos : state[p] > DESC_PREPARED => state'[p] = state[p]
  BY DEF States, DESC_EMPTY, DESC_FETCHING, DESC_PREPARED, DESC_PROCESSING, DESC_PROCESSED
<1>2. DESC_PROCESSING > DESC_PREPARED /\ DESC_PROCESSED > DESC_PREPARED
  BY DEF DESC_PREPARED, DESC_PROCESSING, DESC_PROCESSED
<1>3. CASE kind = "atq"
  BY Zenon, <1>1, <1>2, <1>3 DEF OrderInv
<1>4. CASE kind # "atq"
  BY Zenon, <1>1, <1>2, <1>4 DEF OrderInv, Offset
<1>. QED
  BY <1>3, <1>4

LEMMA SegmentsKept ==
  ASSUME SegmentsInv, segments \in Seq(Pos), UNCHANGED <<segments, active_first_pos>>,
         \A p \in Pos : state'[p] = DESC_PROCESSING <=> state[p] = DESC_PROCESSING
  PROVE  SegmentsInv'
<1>1. \A s \in 1 .. Len(segments) : segments[s] \in Pos
  OBVIOUS
<1>. QED
  BY Zenon, <1>1 DEF SegmentsInv, Offset

LEMMA NoLoopBelow ==
  ASSUME CallInv, kind # "atq", stack \in Seq(Frames)
  PROVE  \A f \in 1 .. Len(stack) - 1 : stack[f].fn # "loop"
BY DEF CallInv

\* A LAN queue is not in trigger_process after the step, and the rest of a
\* received packet still finds its descriptors.
LEMMA CallKept ==
  ASSUME CallInv, segments \in Seq(Pos), segments' \in Seq(Pos), stack \in Seq(Frames),
         kind' = kind, Len(segments) <= Len(segments'),
         \A f \in 1 .. Len(stack') :
           stack'[f].fn = "receive" => f \in 1 .. Len(stack) /\ stack'[f] = stack[f],
         kind # "atq" => \A f \in 1 .. Len(stack') : stack'[f].fn # "loop"
  PROVE  CallInv'
<1>1. ASSUME NEW f \in 1 .. Len(stack'), stack'[f].fn = "receive"
      PROVE  f = 1 /\ kind' = "rx" /\ stack'[f].left <= Len(segments')
  <2>1. /\ f \in 1 .. Len(stack) /\ stack'[f] = stack[f] /\ stack[f].fn = "receive"
        /\ f = 1 /\ kind = "rx" /\ stack[f].left <= Len(segments)
    BY Zenon, <1>1 DEF CallInv
  <2>2. stack[f].left \in 0 .. MaxActive
    BY <2>1, FrameTypes
  <2>3. stack[f].left <= Len(segments')
    BY <2>1, <2>2, Constants
  <2>. QED
    BY Zenon, <2>1, <2>3
<1>. QED
  BY Zenon, <1>1 DEF CallInv

LEMMA ReadsType ==
  ASSUME NEW x \in Frames
  PROVE  Reads(x) \subseteq Pos
<1>1. CASE x.fn = "fetched"
  <2>1. x.pos \in Int /\ x.i \in Int /\ x.cnt \in Int
    BY <1>1, FrameTypes, Constants DEF Pos
  <2>2. \A j \in x.i .. x.cnt - 1 : (x.pos + j) \in Int
    BY <2>1
  <2>3. \A j \in x.i .. x.cnt - 1 : (x.pos + j) % MaxActive \in Pos
    BY Zenon, <2>2, ModType, Constants DEF Pos
  <2>. QED
    BY Zenon, <1>1, <2>3 DEF Reads
<1>2. CASE x.fn # "fetched"
  BY Zenon, <1>2 DEF Reads
<1>. QED
  BY <1>1, <1>2

LEMMA AllReadsType ==
  ASSUME stack \in Seq(Frames)
  PROVE  \A f \in 1 .. Len(stack) : stack[f] \in Frames /\ Reads(stack[f]) \subseteq Pos
<1>1. \A f \in 1 .. Len(stack) : stack[f] \in Frames
  OBVIOUS
<1>. QED
  BY Zenon, <1>1, ReadsType

-----------------------------------------------------------------------------
(* Calls from outside                                                      *)

LEMMA InitInv == Init => IInv
<1>. SUFFICES ASSUME Init PROVE IInv
  OBVIOUS
<1>1. TypeOK
  BY Constants DEF Init, TypeOK, Pos, Idx, States
<1>2. WindowInv
  <2>1. active_first_pos \in Pos
    BY <1>1 DEF TypeOK
  <2>2. \A p \in Pos : ~(Offset(p) < 0)
    BY <2>1, Places
  <2>. QED
    BY <2>2 DEF Init, WindowInv
<1>3. FetchedInv
  BY DEF Init, FetchedInv, DESC_EMPTY, DESC_FETCHING
<1>4. OrderInv
  BY DEF Init, OrderInv, DESC_EMPTY, DESC_PREPARED, DESC_PROCESSING, DESC_PROCESSED
<1>5. SegmentsInv
  BY DEF Init, SegmentsInv, DESC_EMPTY, DESC_PROCESSING
<1>6. CallInv
  BY DEF Init, CallInv
<1>. QED
  BY <1>1, <1>2, <1>3, <1>4, <1>5, <1>6 DEF IInv

\* A call from outside that only starts: its frame is neither a loop nor one
\* of dma_fetch::done.
LEMMA CallStarts ==
  ASSUME IInv, TypeOK', stack = <<>>, UNCHANGED <<kind, window, state, index, segments>>,
         \A f \in 1 .. Len(stack') : stack'[f].fn \notin {"loop", "fetched"},
         \A f \in 1 .. Len(stack') : stack'[f].fn = "receive" =>
           f = 1 /\ kind = "rx" /\ stack'[f].left <= Len(segments)
  PROVE  IInv'
<1>1. /\ state' = state /\ index' = index /\ active_first_pos' = active_first_pos
      /\ kind' = kind /\ segments' = segments
  BY DEF window
<1>2. /\ WindowInv /\ FetchedInv /\ OrderInv /\ SegmentsInv
      /\ state \in [Pos -> States] /\ segments \in Seq(Pos)
  BY DEF IInv, TypeOK
<1>3. WindowInv'
  BY Zenon, <1>1, <1>2, WindowKept
<1>4. FetchedInv'
  <2>1. 1 .. Len(stack) = {}
    OBVIOUS
  <2>. QED
    BY Zenon, <1>1, <1>2, <2>1, FetchedKept
<1>5. OrderInv'
  BY Zenon, <1>1, <1>2, OrderKept
<1>6. SegmentsInv'
  BY Zenon, <1>1, <1>2, SegmentsKept
<1>7. CallInv'
  BY Zenon, <1>1 DEF CallInv
<1>. QED
  BY Zenon, <1>3, <1>4, <1>5, <1>6, <1>7 DEF IInv

LEMMA RegUpdatedKeeps ==
  ASSUME IInv, NEW n \in 0 .. RingLen - 1, reg_updated(n)
  PROVE  IInv'
<1>1. (reg_tail + n) % RingLen \in Idx
  <2>1. reg_tail + n \in Int
    BY Constants DEF IInv, TypeOK, Idx
  <2>. QED
    BY Zenon, <2>1, ModType, Constants DEF Idx
<1>2. stack' \in Seq(Frames) /\ Len(stack') = 1 /\ stack'[1] = [fn |-> "fetch"]
  <2>1. stack' = <<[fn |-> "fetch"]>> /\ [fn |-> "fetch"] \in Frames
    BY Zenon, AreFrames DEF reg_updated, Trigger
  <2>. QED
    BY <2>1
<1>3. TypeOK'
  BY <1>1, <1>2 DEF IInv, TypeOK, reg_updated, window
<1>4. \A f \in 1 .. Len(stack') : stack'[f].fn = "fetch"
  BY <1>2
<1>5. stack = <<>> /\ UNCHANGED <<kind, window, state, index, segments>>
  BY Zenon DEF reg_updated
<1>. QED
  BY <1>3, <1>4, <1>5, CallStarts

LEMMA PacketReceivedKeeps ==
  ASSUME IInv, NEW n \in 1 .. MaxActive, packet_received(n)
  PROVE  IInv'
<1>1. stack' \in Seq(Frames) /\ Len(stack') = 1 /\ stack'[1] = [fn |-> "receive", left |-> n]
  <2>1. n \in 0 .. MaxActive
    BY Constants
  <2>2. stack' = <<[fn |-> "receive", left |-> n]>> /\ [fn |-> "receive", left |-> n] \in Frames
    BY Zenon, <2>1, AreFrames DEF packet_received
  <2>. QED
    BY <2>2
<1>2. TypeOK'
  BY <1>1 DEF IInv, TypeOK, packet_received, window
<1>3. \A f \in 1 .. Len(stack') : f = 1 /\ stack'[f].fn = "receive" /\ stack'[f].left = n
  BY <1>1
<1>4. n <= Len(segments)
  BY DEF packet_received, IInv, TypeOK
<1>5. stack = <<>> /\ kind = "rx" /\ UNCHANGED <<kind, window, state, index, segments>>
  BY Zenon DEF packet_received
<1>. QED
  BY SMTT(30), Z3T(30), ZenonT(40), <1>2, <1>3, <1>4, <1>5, CallStarts

LEMMA DisableKeeps ==
  ASSUME IInv, disable
  PROVE  IInv'
<1>1. TypeOK'
  BY ZenonT(40) DEF IInv, TypeOK, disable, window
<1>2. Len(stack') = 0
  BY DEF disable
<1>. QED
  BY <1>1, <1>2, CallStarts DEF disable

LEMMA EnableKeeps ==
  ASSUME IInv, enable
  PROVE  IInv'
<1>1. /\ stack' \in Seq(Frames)
      /\ \A f \in 1 .. Len(stack') : stack'[f] = [fn |-> "fetch"]
  <2>1. /\ stack' = <<[fn |-> "fetch"]>> \/ stack' = <<[fn |-> "fetch"], [fn |-> "fetch"]>>
        /\ [fn |-> "fetch"] \in Frames
    BY Zenon, AreFrames DEF enable, Trigger
  <2>2. CASE stack' = <<[fn |-> "fetch"]>>
    BY <2>1, <2>2
  <2>3. CASE stack' = <<[fn |-> "fetch"], [fn |-> "fetch"]>>
    BY <2>1, <2>3
  <2>. QED
    BY Zenon, <2>1, <2>2, <2>3
<1>2. TypeOK'
  BY <1>1, Constants DEF IInv, TypeOK, enable, window, Idx
<1>3. \A f \in 1 .. Len(stack') : stack'[f].fn = "fetch"
  BY <1>1
<1>4. stack = <<>> /\ UNCHANGED <<kind, window, state, index, segments>>
  BY Zenon DEF enable
<1>. QED
  BY <1>2, <1>3, <1>4, CallStarts

LEMMA ResetKeeps ==
  ASSUME IInv, reset
  PROVE  IInv'
<1>1. TypeOK'
  <2>1. 0 \in Pos /\ 0 \in Idx /\ 0 \in 0 .. MaxActive /\ <<>> \in Seq(Pos)
    BY Constants DEF Pos, Idx
  <2>2. DESC_EMPTY \in States
    BY DEF States
  <2>. QED
    BY <2>1, <2>2 DEF IInv, TypeOK, reset
<1>2. /\ state' = [p \in Pos |-> DESC_EMPTY] /\ active_cnt' = 0 /\ active_first_pos' = 0
      /\ stack' = <<>> /\ segments' = <<>>
  BY DEF reset
<1>3. WindowInv'
  <2>1. active_first_pos' \in Pos
    BY <1>1 DEF TypeOK
  <2>2. MaxActive \in Nat \ {0} /\ active_first_pos' \in 0 .. MaxActive - 1
    BY <2>1, Constants DEF Pos
  <2>3. \A p \in Pos : (p - active_first_pos') % MaxActive \in 0 .. MaxActive - 1
    BY Zenon, <2>2, Circle DEF Pos
  <2>4. \A p \in Pos : ~((p - active_first_pos') % MaxActive < 0)
    BY <2>2, <2>3
  <2>. QED
    BY Zenon, <1>2, <2>4 DEF WindowInv, Offset
<1>4. FetchedInv'
  BY <1>2 DEF FetchedInv, DESC_EMPTY, DESC_FETCHING
<1>5. OrderInv'
  BY <1>2 DEF OrderInv, DESC_EMPTY, DESC_PREPARED, DESC_PROCESSING, DESC_PROCESSED
<1>6. SegmentsInv'
  BY <1>2 DEF SegmentsInv, DESC_EMPTY, DESC_PROCESSING
<1>7. CallInv'
  BY <1>2 DEF CallInv
<1>. QED
  BY Zenon, <1>1, <1>3, <1>4, <1>5, <1>6, <1>7 DEF IInv

-----------------------------------------------------------------------------
(* Steps of the engine that only change the calls                          *)

\* The innermost call becomes x or returns; it was not preparing contexts.
LEMMA OnlyFrames ==
  ASSUME IInv, stack # <<>>, Reads(Top) = {}, NEW x \in Frames, x.fn \notin {"fetched", "receive"},
         Become(x) \/ Return,
         UNCHANGED <<kind, enabled, window, reg_tail, reg_head, state, index, segments>>
  PROVE  /\ TypeOK' /\ WindowInv' /\ FetchedInv' /\ OrderInv' /\ SegmentsInv'
         /\ (kind # "atq" => x.fn # "loop") => IInv'
<1>1. /\ state' = state /\ index' = index /\ active_first_pos' = active_first_pos
      /\ kind' = kind /\ segments' = segments /\ enabled' = enabled
      /\ active_first_idx' = active_first_idx /\ active_cnt' = active_cnt
      /\ reg_tail' = reg_tail /\ reg_head' = reg_head
  BY DEF window
<1>2. /\ TypeOK /\ WindowInv /\ FetchedInv /\ OrderInv /\ SegmentsInv /\ CallInv
      /\ state \in [Pos -> States] /\ segments \in Seq(Pos) /\ stack \in Seq(Frames)
  BY DEF IInv, TypeOK
<1>3. /\ Len(stack) \in Nat \ {0} /\ Top = stack[Len(stack)]
      /\ stack' \in Seq(Frames) /\ Len(stack') \in {Len(stack) - 1, Len(stack)}
      /\ \A f \in 1 .. Len(stack) - 1 : stack'[f] = stack[f]
      /\ Len(stack') = Len(stack) => stack'[Len(stack)] = x
  <2>1. Len(stack) \in Nat \ {0} /\ Top = stack[Len(stack)]
    BY Zenon, <1>2, TopFrame
  <2>2. CASE Become(x)
    <3>1. /\ stack' \in Seq(Frames) /\ Len(stack') = Len(stack)
          /\ \A f \in 1 .. Len(stack) : stack'[f] = IF f < Len(stack) THEN stack[f] ELSE x
      BY Zenon, <1>2, <2>2, BecomeStack
    <3>. QED
      BY <2>1, <3>1
  <2>3. CASE Return
    <3>1. /\ stack' \in Seq(Frames) /\ Len(stack') = Len(stack) - 1
          /\ \A f \in 1 .. Len(stack) - 1 : stack'[f] = stack[f]
      BY Zenon, <1>2, <2>3, ReturnStack
    <3>. QED
      BY <2>1, <3>1
  <2>. QED
    BY Zenon, <2>2, <2>3
<1>4. \A f \in 1 .. Len(stack') : \/ f \in 1 .. Len(stack) - 1 /\ f \in 1 .. Len(stack) /\ stack'[f] = stack[f]
                                  \/ stack'[f] = x
  BY <1>3
<1>5. \A f \in 1 .. Len(stack) : f = Len(stack) \/ (f \in 1 .. Len(stack') /\ stack'[f] = stack[f])
  BY <1>3
<1>6. TypeOK'
  BY Zenon, <1>1, <1>2, <1>3 DEF TypeOK
<1>7. WindowInv'
  BY Zenon, <1>1, <1>2, WindowKept DEF window
<1>8. FetchedInv'
  BY Zenon, <1>1, <1>2, <1>3, <1>4, <1>5, AllReadsType, FetchedKept
<1>9. OrderInv'
  BY Zenon, <1>1, <1>2, OrderKept
<1>10. SegmentsInv'
  BY Zenon, <1>1, <1>2, SegmentsKept
<1>11. ASSUME kind # "atq" => x.fn # "loop" PROVE CallInv'
  <2>1. Len(segments) <= Len(segments')
    BY <1>1, <1>2
  <2>2. kind # "atq" => \A f \in 1 .. Len(stack') : stack'[f].fn # "loop"
    BY Zenon, <1>2, <1>4, <1>11, NoLoopBelow
  <2>3. \A f \in 1 .. Len(stack') :
          stack'[f].fn = "receive" => f \in 1 .. Len(stack) /\ stack'[f] = stack[f]
    BY Zenon, <1>4
  <2>. QED
    BY Zenon, <1>1, <1>2, <2>1, <2>2, <2>3, CallKept
<1>. QED
  BY Zenon, <1>6, <1>7, <1>8, <1>9, <1>10, <1>11 DEF IInv

LEMMA PreparedAllKeeps ==
  ASSUME IInv, prepared_all
  PROVE  IInv'
<1>1. /\ stack # <<>> /\ Top.fn = "fetched" /\ Top.i = Top.cnt /\ Become([fn |-> "fetch"])
      /\ UNCHANGED <<kind, enabled, window, reg_tail, reg_head, state, index, segments>>
  BY Zenon DEF prepared_all, In, Trigger
<1>2. Reads(Top) = {}
  <2>1. Top \in Frames
    BY <1>1, TopFrame DEF IInv, TypeOK
  <2>2. Top.cnt \in Int
    BY <1>1, <2>1, FrameTypes, Constants
  <2>3. Top.i .. Top.cnt - 1 = {}
    BY <1>1, <2>2
  <2>. QED
    BY <1>1, <2>3 DEF Reads
<1>3. /\ [fn |-> "fetch"] \in Frames /\ [fn |-> "fetch"].fn \notin {"fetched", "receive"}
      /\ [fn |-> "fetch"].fn # "loop"
  BY AreFrames
<1>. QED
  BY Zenon, <1>1, <1>2, <1>3, OnlyFrames

LEMMA ProcessBreakKeeps ==
  ASSUME IInv, process_break
  PROVE  IInv'
<1>1. /\ stack # <<>> /\ Top.fn = "loop" /\ Become([fn |-> "writeback"])
      /\ UNCHANGED <<kind, enabled, window, reg_tail, reg_head, state, index, segments>>
  BY Zenon DEF process_break, In
<1>2. Reads(Top) = {}
  BY <1>1 DEF Reads
<1>3. /\ [fn |-> "writeback"] \in Frames /\ [fn |-> "writeback"].fn \notin {"fetched", "receive"}
      /\ [fn |-> "writeback"].fn # "loop"
  BY AreFrames
<1>. QED
  BY Zenon, <1>1, <1>2, <1>3, OnlyFrames

LEMMA TriggerProcessKeeps ==
  ASSUME IInv, trigger_process
  PROVE  IInv'
<1>1. PICK first \in 0 .. active_cnt :
        /\ stack # <<>> /\ Top.fn = "process"
        /\ \A k \in 0 .. first - 1 : state[At(k)] > DESC_PREPARED
        /\ first < active_cnt => state[At(first)] <= DESC_PREPARED
        /\ Become([fn |-> "loop", at |-> first])
        /\ UNCHANGED <<kind, enabled, window, reg_tail, reg_head, state, index, segments>>
  BY Zenon DEF trigger_process, In
<1>. DEFINE x == [fn |-> "loop", at |-> first]
<1>2. /\ active_cnt \in 0 .. MaxActive /\ active_first_pos \in Pos /\ state \in [Pos -> States]
      /\ stack \in Seq(Frames) /\ CallInv /\ OrderInv /\ WindowInv
  BY DEF IInv, TypeOK
<1>3. first \in 0 .. MaxActive /\ x \in Frames
  <2>1. first \in 0 .. MaxActive
    BY <1>1, <1>2, Constants
  <2>. QED
    BY Zenon, <2>1, AreFrames
<1>4. /\ TypeOK' /\ WindowInv' /\ FetchedInv' /\ OrderInv' /\ SegmentsInv'
      /\ kind = "atq" => IInv'
  <2>1. Reads(Top) = {}
    BY <1>1 DEF Reads
  <2>2. x.fn \notin {"fetched", "receive"}
    OBVIOUS
  <2>. QED
    BY Zenon, <1>1, <1>3, <2>1, <2>2, OnlyFrames
<1>5. ASSUME kind # "atq" PROVE CallInv'
  <2>1. ASSUME NEW p \in Pos PROVE Offset(p) < first <=> state[p] > DESC_PREPARED
    <3>1. Offset(p) \in 0 .. MaxActive - 1 /\ At(Offset(p)) = p
      BY <1>2, Places
    <3>2. CASE Offset(p) < first
      BY <1>1, <3>1, <3>2, Constants
    <3>3. CASE Offset(p) >= first /\ first = active_cnt
      <4>1. state[p] = DESC_EMPTY
        BY <1>2, <3>1, <3>3, Constants DEF WindowInv
      <4>. QED
        BY <1>2, <3>1, <3>3, <4>1, Constants DEF DESC_EMPTY, DESC_PREPARED
    <3>4. CASE Offset(p) >= first /\ first < active_cnt
      <4>1. first \in 0 .. MaxActive - 1
        BY <1>2, <3>4, Constants
      <4>2. At(first) \in Pos /\ Offset(At(first)) = first /\ state[At(first)] <= DESC_PREPARED
        BY <1>1, <1>2, <3>4, <4>1, Places
      <4>3. CASE Offset(p) = first
        <5>1. p = At(first)
          BY <3>1, <4>3
        <5>. QED
          BY <1>2, <3>1, <3>4, <4>2, <5>1, Constants DEF States, DESC_EMPTY, DESC_FETCHING, DESC_PREPARED, DESC_PROCESSING, DESC_PROCESSED
      <4>4. CASE Offset(p) > first
        <5>1. ~(state[p] > DESC_PREPARED)
          <6>1. state[p] > DESC_PREPARED => state[At(first)] > DESC_PREPARED
            BY <1>2, <1>5, <4>2, <4>4 DEF OrderInv
          <6>. QED
            BY <1>2, <4>2, <6>1 DEF States, DESC_EMPTY, DESC_FETCHING, DESC_PREPARED, DESC_PROCESSING, DESC_PROCESSED
        <5>. QED
          BY <3>1, <4>1, <4>4, <5>1
      <4>. QED
        BY <3>1, <3>4, <4>1, <4>3, <4>4
    <3>. QED
      BY <1>1, <1>2, <3>1, <3>2, <3>3, <3>4
  <2>2. /\ Len(stack) \in Nat \ {0} /\ Len(stack') = Len(stack)
        /\ \A f \in 1 .. Len(stack) : stack'[f] = IF f < Len(stack) THEN stack[f] ELSE x
    BY Zenon, <1>1, <1>2, <1>3, BecomeStack, TopFrame
  <2>3. /\ kind' = kind /\ segments' = segments /\ active_cnt' = active_cnt /\ state' = state
        /\ \A p \in Pos : Offset(p)' = Offset(p)
    BY <1>1 DEF window, Offset
  <2>4. ASSUME NEW f \in 1 .. Len(stack')
        PROVE  \/ f \in 1 .. Len(stack) - 1 /\ stack'[f] = stack[f] /\ f \in 1 .. Len(stack)
               \/ f = Len(stack') /\ stack'[f] = x
    BY <2>2
  <2>5. \A f \in 1 .. Len(stack) - 1 : stack[f].fn # "loop"
    BY <1>2, <1>5, NoLoopBelow
  <2>6. x.at = first /\ x.fn = "loop" /\ first <= active_cnt
    BY <1>1, <1>2
  <2>. HIDE DEF x
  <2>. QED
    BY Zenon, <1>2, <2>1, <2>3, <2>4, <2>5, <2>6 DEF CallInv
<1>. QED
  BY Zenon, <1>4, <1>5 DEF IInv

-----------------------------------------------------------------------------
(* Processing a descriptor                                                 *)

LEMMA LoopFacts ==
  ASSUME IInv, process
  PROVE  LET at == Top.at
             p == At(Top.at)
             next == [fn |-> "loop", at |-> Top.at + 1]
         IN  /\ stack # <<>> /\ Top.fn = "loop" /\ Reads(Top) = {}
             /\ at \in 0 .. MaxActive - 1 /\ at < active_cnt /\ at + 1 <= active_cnt
             /\ p \in Pos /\ Offset(p) = at /\ state[p] = DESC_PREPARED
             /\ next \in Frames
             /\ process_admin(p, next) \/ process_rx(p, next) \/ process_tx(p, next)
             /\ UNCHANGED <<kind, enabled, window, reg_tail, reg_head, index>>
<1>. DEFINE at == Top.at
            next == [fn |-> "loop", at |-> at + 1]
<1>1. /\ stack # <<>> /\ Top.fn = "loop" /\ at < active_cnt /\ state[At(at)] = DESC_PREPARED
      /\ \/ process_admin(At(at), [Top EXCEPT !.at = at + 1])
         \/ process_rx(At(at), [Top EXCEPT !.at = at + 1])
         \/ process_tx(At(at), [Top EXCEPT !.at = at + 1])
      /\ UNCHANGED <<kind, enabled, window, reg_tail, reg_head, index>>
  BY Zenon DEF process, In
<1>2. Top \in Frames /\ active_cnt \in 0 .. MaxActive /\ active_first_pos \in Pos
  BY <1>1, TopFrame DEF IInv, TypeOK
<1>3. at \in 0 .. MaxActive /\ \A n \in 0 .. MaxActive : [Top EXCEPT !.at = n] = [fn |-> "loop", at |-> n]
  BY Zenon, <1>1, <1>2, FrameTypes
<1>4. at \in 0 .. MaxActive - 1 /\ at + 1 \in 0 .. MaxActive /\ at + 1 <= active_cnt
  BY <1>1, <1>2, <1>3, Constants
<1>5. [Top EXCEPT !.at = at + 1] = next /\ next \in Frames
  BY Zenon, <1>3, <1>4, AreFrames
<1>6. At(at) \in Pos /\ Offset(At(at)) = at
  BY Zenon, <1>2, <1>4, Places
<1>7. Reads(Top) = {}
  BY <1>1 DEF Reads
<1>. QED
  BY Zenon, <1>1, <1>4, <1>5, <1>6, <1>7

\* What processing does to the parts of the invariant that do not depend on
\* the subclass of the queue.
LEMMA ProcessedContexts ==
  ASSUME IInv, process, state' \in [Pos -> States], segments' \in Seq(Pos),
         \A q \in Pos : state'[q] = state[q] \/
            (state[q] \in {DESC_PREPARED, DESC_PROCESSING} /\ state'[q] \in {DESC_PROCESSING, DESC_PROCESSED}),
         Become([fn |-> "loop", at |-> Top.at + 1]) \/ Call([fn |-> "loop", at |-> Top.at + 1], Trigger)
  PROVE  TypeOK' /\ WindowInv' /\ FetchedInv'
<1>. DEFINE x == [fn |-> "loop", at |-> Top.at + 1]
<1>1. /\ kind' = kind /\ enabled' = enabled /\ active_first_pos' = active_first_pos
      /\ active_first_idx' = active_first_idx /\ active_cnt' = active_cnt
      /\ reg_tail' = reg_tail /\ reg_head' = reg_head /\ index' = index
      /\ stack # <<>> /\ Reads(Top) = {} /\ x \in Frames
  BY LoopFacts DEF window
<1>2. /\ TypeOK /\ WindowInv /\ FetchedInv /\ stack \in Seq(Frames)
  BY SMTT(30), Z3T(30), ZenonT(40) DEF IInv, TypeOK
<1>3. x.fn = "loop" /\ Trigger.fn = "fetch" /\ Trigger \in Frames
  BY SMTT(30), Z3T(30), ZenonT(40), AreFrames DEF Trigger
<1>4. /\ Len(stack) \in Nat \ {0} /\ Top = stack[Len(stack)]
      /\ stack' \in Seq(Frames) /\ Len(stack') \in {Len(stack), Len(stack) + 1}
      /\ \A f \in 1 .. Len(stack) - 1 : stack'[f] = stack[f]
      /\ stack'[Len(stack)] = x
      /\ Len(stack') = Len(stack) + 1 => stack'[Len(stack) + 1] = Trigger
  <2>. HIDE DEF x
  <2>1. Len(stack) \in Nat \ {0} /\ Top = stack[Len(stack)]
    BY <1>1, <1>2, TopFrame
  <2>2. CASE Become(x)
    <3>1. /\ stack' \in Seq(Frames) /\ Len(stack') = Len(stack)
          /\ \A f \in 1 .. Len(stack) : stack'[f] = IF f < Len(stack) THEN stack[f] ELSE x
      BY Zenon, <1>1, <1>2, <2>2, BecomeStack
    <3>. QED
      BY <2>1, <3>1
  <2>3. CASE Call(x, Trigger)
    <3>1. /\ stack' \in Seq(Frames) /\ Len(stack') = Len(stack) + 1
          /\ \A f \in 1 .. Len(stack) + 1 :
               stack'[f] = IF f < Len(stack) THEN stack[f] ELSE IF f = Len(stack) THEN x ELSE Trigger
      BY Zenon, <1>1, <1>2, <1>3, <2>3, CallStack
    <3>. QED
      BY <2>1, <3>1
  <2>. QED
    BY Zenon, <2>2, <2>3 DEF x
<1>. HIDE DEF x
<1>5. \A f \in 1 .. Len(stack') :
        \/ f \in 1 .. Len(stack) - 1 /\ f \in 1 .. Len(stack) /\ stack'[f] = stack[f]
        \/ stack'[f] = x
        \/ stack'[f] = Trigger
  BY <1>4
<1>6. \A f \in 1 .. Len(stack) : f = Len(stack) \/ (f \in 1 .. Len(stack') /\ stack'[f] = stack[f])
  BY SMTT(30), Z3T(30), <1>4
<1>7. TypeOK'
  BY Zenon, <1>1, <1>2, <1>4 DEF TypeOK
<1>8. WindowInv'
  BY Zenon, <1>1, <1>2, WindowKept, StateNumbers DEF window
<1>9. FetchedInv'
  <2>1. \A f \in 1 .. Len(stack') :
          stack'[f].fn = "fetched" => f \in 1 .. Len(stack) /\ stack'[f] = stack[f]
    BY Zenon, <1>3, <1>5
  <2>2. \A p \in Pos : state'[p] = DESC_FETCHING <=> state[p] = DESC_FETCHING
    BY Zenon, StateNumbers
  <2>. QED
    BY Zenon, <1>1, <1>2, <1>4, <1>6, <2>1, <2>2, AllReadsType, FetchedKept
<1>. QED
  BY <1>7, <1>8, <1>9

\* The loop of a LAN queue goes on behind the descriptor it has started.
LEMMA LanLoopGoesOn ==
  ASSUME IInv, process, kind # "atq", segments' \in Seq(Pos), state' \in [Pos -> States],
         \A q \in Pos : Offset(q) <= Top.at <=> state'[q] > DESC_PREPARED,
         Become([fn |-> "loop", at |-> Top.at + 1]),
         kind = "rx" => Len(segments) <= Len(segments')
  PROVE  CallInv'
<1>. DEFINE at == Top.at
            x == [fn |-> "loop", at |-> at + 1]
<1>1. /\ stack \in Seq(Frames) /\ CallInv /\ active_first_pos \in Pos /\ segments \in Seq(Pos)
  BY DEF IInv, TypeOK
<1>2. /\ kind' = kind /\ active_first_pos' = active_first_pos /\ active_cnt' = active_cnt
      /\ stack # <<>> /\ x \in Frames /\ at \in 0 .. MaxActive - 1 /\ at + 1 <= active_cnt
  BY LoopFacts DEF window
<1>3. x.fn = "loop" /\ x.at = at + 1
  OBVIOUS
<1>. HIDE DEF x
<1>4. /\ Len(stack) \in Nat \ {0} /\ Len(stack') = Len(stack)
      /\ \A f \in 1 .. Len(stack) : stack'[f] = IF f < Len(stack) THEN stack[f] ELSE x
  <2>1. Become(x)
    BY DEF x
  <2>. QED
    BY Zenon, <1>1, <1>2, <2>1, BecomeStack, TopFrame
<1>5. ASSUME NEW f \in 1 .. Len(stack')
      PROVE  \/ f \in 1 .. Len(stack) - 1 /\ stack'[f] = stack[f] /\ f \in 1 .. Len(stack)
             \/ f = Len(stack') /\ stack'[f] = x
  BY <1>4
<1>6. \A f \in 1 .. Len(stack) - 1 : stack[f].fn # "loop"
  BY <1>1, NoLoopBelow
<1>7. ASSUME NEW q \in Pos PROVE Offset(q)' < at + 1 <=> state'[q] > DESC_PREPARED
  <2>1. Offset(q)' = Offset(q) /\ Offset(q) \in 0 .. MaxActive - 1
    BY <1>1, <1>2, Places DEF Offset
  <2>. QED
    BY <1>2, <2>1, Constants
<1>8. ASSUME NEW f \in 1 .. Len(stack'), stack'[f].fn = "receive"
      PROVE  f = 1 /\ kind' = "rx" /\ stack'[f].left <= Len(segments')
  <2>1. /\ f \in 1 .. Len(stack) /\ stack'[f] = stack[f] /\ stack[f].fn = "receive"
    BY <1>3, <1>5, <1>8
  <2>2. f = 1 /\ kind = "rx" /\ stack[f].left <= Len(segments)
    BY Zenon, <1>1, <2>1 DEF CallInv
  <2>3. stack[f].left \in 0 .. MaxActive
    BY <1>1, <2>1, FrameTypes
  <2>4. stack[f].left <= Len(segments')
    BY SMTT(30), Z3T(30), ZenonT(40), <1>1, <2>2, <2>3, Constants
  <2>. QED
    BY Zenon, <1>2, <2>1, <2>2, <2>4
<1>9. ASSUME NEW f \in 1 .. Len(stack'), stack'[f].fn = "loop"
      PROVE  f = Len(stack') /\ stack'[f].at = at + 1 /\ stack'[f].at <= active_cnt'
  BY Zenon, <1>2, <1>3, <1>5, <1>6, <1>9
<1>. QED
  BY Zenon, <1>7, <1>8, <1>9 DEF CallInv

\* What is started before the loop: exactly what is before its place.
LEMMA LanStarted ==
  ASSUME IInv, process, kind # "atq"
  PROVE  \A q \in Pos : Offset(q) < Top.at <=> state[q] > DESC_PREPARED
<1>1. stack \in Seq(Frames) /\ CallInv /\ stack # <<>> /\ Top.fn = "loop"
  BY LoopFacts DEF IInv, TypeOK
<1>2. Len(stack) \in 1 .. Len(stack) /\ Top = stack[Len(stack)]
  BY <1>1, TopFrame
<1>. QED
  BY Zenon, <1>1, <1>2 DEF CallInv

LEMMA ProcessAdminKeeps ==
  ASSUME IInv, process, kind = "atq",
         process_admin(At(Top.at), [fn |-> "loop", at |-> Top.at + 1])
  PROVE  IInv'
<1>. DEFINE p == At(Top.at)
            x == [fn |-> "loop", at |-> Top.at + 1]
<1>1. /\ p \in Pos /\ state[p] = DESC_PREPARED
      /\ stack # <<>> /\ kind' = kind /\ active_first_pos' = active_first_pos /\ x \in Frames
  BY LoopFacts DEF window
<1>2. /\ stack \in Seq(Frames) /\ state \in [Pos -> States] /\ segments \in Seq(Pos)
      /\ OrderInv /\ SegmentsInv /\ CallInv
  BY DEF IInv, TypeOK
<1>3. /\ state' = [state EXCEPT ![p] = DESC_PROCESSED] /\ segments' = segments
      /\ Become(x) \/ Call(x, Trigger)
  BY SMTT(30), Z3T(30), ZenonT(40) DEF process_admin
<1>4. state' \in [Pos -> States] /\ \A q \in Pos : state'[q] = IF q = p THEN DESC_PROCESSED ELSE state[q]
  BY <1>1, <1>2, <1>3, StateNumbers
<1>5. TypeOK' /\ WindowInv' /\ FetchedInv'
  BY Zenon, <1>1, <1>2, <1>3, <1>4, StateNumbers, ProcessedContexts
<1>6. OrderInv'
  BY Zenon, <1>1, <1>2, <1>4, StateNumbers DEF OrderInv
<1>7. SegmentsInv'
  BY Zenon, <1>1, <1>2, <1>3, <1>4, StateNumbers, SegmentsKept
<1>8. CallInv'
  <2>1. x.fn = "loop" /\ Trigger.fn = "fetch" /\ Trigger \in Frames
    BY AreFrames DEF Trigger
  <2>2. Len(segments) <= Len(segments')
    BY SMTT(30), Z3T(30), ZenonT(40), <1>2, <1>3
  <2>. HIDE DEF x
  <2>3. ASSUME NEW f \in 1 .. Len(stack'), stack'[f].fn = "receive"
        PROVE  f \in 1 .. Len(stack) /\ stack'[f] = stack[f]
    <3>1. CASE Become(x)
      BY ZenonT(40), SMTT(30), Z3T(30), <1>1, <1>2, <2>1, <2>3, <3>1, BecomeStack, TopFrame
    <3>2. CASE Call(x, Trigger)
      BY Z3T(30), SMTT(30), <1>1, <1>2, <2>1, <2>3, <3>2, CallStack, TopFrame
    <3>. QED
      BY SMTT(30), Z3T(30), ZenonT(40), <1>3, <3>1, <3>2
  <2>. QED
    BY Zenon, <1>1, <1>2, <1>3, <2>2, <2>3, CallKept
<1>. QED
  BY Zenon, <1>5, <1>6, <1>7, <1>8 DEF IInv

\* A LAN queue starts a descriptor and keeps it (receive: to be filled;
\* transmit: the packet goes on).
LEMMA LanStartKeeps ==
  ASSUME IInv, process, kind # "atq",
         state' = [state EXCEPT ![At(Top.at)] = DESC_PROCESSING],
         segments' = Append(segments, At(Top.at)),
         Become([fn |-> "loop", at |-> Top.at + 1])
  PROVE  IInv'
<1>. DEFINE at == Top.at
            p == At(at)
            n == Len(segments)
<1>1. /\ p \in Pos /\ Offset(p) = at /\ state[p] = DESC_PREPARED /\ at \in 0 .. MaxActive - 1
      /\ kind' = kind /\ active_first_pos' = active_first_pos
  BY LoopFacts DEF window
<1>2. /\ state \in [Pos -> States] /\ segments \in Seq(Pos) /\ active_first_pos \in Pos
      /\ OrderInv /\ SegmentsInv
  BY SMTT(30), Z3T(30), ZenonT(40) DEF IInv, TypeOK
<1>3. /\ \A q \in Pos : Offset(q) < at <=> state[q] > DESC_PREPARED
      /\ \A q \in Pos : Offset(q)' = Offset(q) /\ Offset(q) \in 0 .. MaxActive - 1
  BY SMTT(30), Z3T(30), ZenonT(40), <1>1, <1>2, LanStarted, Places DEF Offset
<1>4. state' \in [Pos -> States] /\ \A q \in Pos : state'[q] = IF q = p THEN DESC_PROCESSING ELSE state[q]
  BY <1>1, <1>2, StateNumbers
<1>5. segments' = Append(segments, p)
  OBVIOUS
<1>. HIDE DEF p
<1>6. /\ segments' \in Seq(Pos) /\ n \in Nat /\ Len(segments') = n + 1
      /\ \A s \in 1 .. n : segments'[s] = segments[s] /\ segments[s] \in Pos
      /\ segments'[n + 1] = p
  BY <1>1, <1>2, <1>5
<1>. HIDE DEF n
<1>7. TypeOK' /\ WindowInv' /\ FetchedInv'
  <2>1. \A q \in Pos : state'[q] = state[q] \/
          (state[q] \in {DESC_PREPARED, DESC_PROCESSING} /\ state'[q] \in {DESC_PROCESSING, DESC_PROCESSED})
    BY <1>1, <1>4
  <2>. QED
    BY Zenon, <1>4, <1>6, <2>1, ProcessedContexts
<1>8. \A q \in Pos : Offset(q) <= at <=> state'[q] > DESC_PREPARED
  <2>1. ASSUME NEW q \in Pos PROVE Offset(q) <= at <=> (Offset(q) < at \/ q = p)
    <3>1. Offset(q) = at => q = p
      BY Zenon, <1>1, <1>2, SamePlace
    <3>. QED
      BY <1>1, <1>3, <3>1, Constants
  <2>. QED
    BY Zenon, <1>1, <1>3, <1>4, <2>1, StateNumbers
<1>9. OrderInv'
  <2>1. ASSUME NEW q \in Pos, NEW r \in Pos, Offset(q) < Offset(r)
        PROVE  /\ state'[r] > DESC_PREPARED => state'[q] > DESC_PREPARED
               /\ state'[r] = DESC_PROCESSED => state'[q] = DESC_PROCESSED
    <3>1. state'[r] > DESC_PREPARED => Offset(q) <= at
      BY SMTT(30), Z3T(30), ZenonT(40), <1>1, <1>3, <1>8, <2>1, Constants
    <3>2. ASSUME state'[r] = DESC_PROCESSED PROVE state'[q] = DESC_PROCESSED
      <4>1. r # p /\ state[r] = DESC_PROCESSED
        BY Zenon, <1>4, <3>2, StateNumbers
      <4>2. state[q] = DESC_PROCESSED
        BY Zenon, <1>2, <2>1, <4>1 DEF OrderInv
      <4>. QED
        BY Zenon, <1>1, <1>4, <4>2, StateNumbers
    <3>. QED
      BY Zenon, <1>8, <3>1, <3>2
  <2>. QED
    BY Zenon, <1>1, <1>3, <2>1 DEF OrderInv
<1>10. SegmentsInv'
  <2>1. ASSUME NEW s \in 1 .. Len(segments')
        PROVE  (s \in 1 .. n /\ segments'[s] = segments[s]) \/ (s = n + 1 /\ segments'[s] = p)
    BY <1>6
  <2>2. ASSUME NEW s \in 1 .. n PROVE segments[s] # p /\ Offset(segments[s]) < at
    <3>1. state[segments[s]] = DESC_PROCESSING
      BY Zenon, <1>2 DEF SegmentsInv, n
    <3>2. state[segments[s]] > DESC_PREPARED
      BY Zenon, <3>1, StateNumbers
    <3>. QED
      BY Zenon, <1>1, <1>3, <1>6, <3>1, <3>2, StateNumbers
  <2>3. \A s \in 1 .. Len(segments') : state'[segments'[s]] = DESC_PROCESSING
    <3>1. \A s \in 1 .. n : state[segments[s]] = DESC_PROCESSING
      BY Zenon, <1>2 DEF SegmentsInv, n
    <3>2. \A s \in 1 .. n : state'[segments[s]] = DESC_PROCESSING
      BY Zenon, <1>4, <1>6, <3>1
    <3>3. state'[p] = DESC_PROCESSING
      BY Zenon, <1>1, <1>4
    <3>. QED
      BY Zenon, <2>1, <3>2, <3>3
  <2>4. ASSUME NEW q \in Pos, state'[q] = DESC_PROCESSING
        PROVE  \E s \in 1 .. Len(segments') : segments'[s] = q
    <3>1. CASE q = p
      <4>1. n + 1 \in 1 .. Len(segments')
        BY <1>6
      <4>. QED
        BY Zenon, <1>6, <3>1, <4>1
    <3>2. CASE q # p
      <4>1. PICK s \in 1 .. n : segments[s] = q
        BY Zenon, <1>2, <1>4, <2>4, <3>2 DEF SegmentsInv, n
      <4>2. s \in 1 .. Len(segments')
        BY <1>6
      <4>. QED
        BY Zenon, <1>6, <4>1, <4>2
    <3>. QED
      BY <3>1, <3>2
  <2>5. ASSUME NEW s \in 1 .. Len(segments'), NEW u \in 1 .. Len(segments'), s < u
        PROVE  Offset(segments'[s]) < Offset(segments'[u])
    <3>1. s \in 1 .. n /\ segments'[s] = segments[s] /\ segments[s] \in Pos
      BY <1>6, <2>5
    <3>2. CASE u \in 1 .. n
      <4>1. Offset(segments[s]) < Offset(segments[u]) /\ segments'[u] = segments[u] /\ segments[u] \in Pos
        BY Zenon, <1>2, <1>6, <2>5, <3>1, <3>2 DEF SegmentsInv, n
      <4>. QED
        BY Zenon, <3>1, <4>1
    <3>3. CASE segments'[u] = p
      <4>1. Offset(segments[s]) < Offset(p)
        BY Zenon, <1>1, <2>2, <3>1
      <4>. QED
        BY Zenon, <3>1, <3>3, <4>1
    <3>. QED
      BY Zenon, <2>1, <3>2, <3>3
  <2>. QED
    BY Zenon, <1>1, <2>3, <2>4, <2>5 DEF SegmentsInv, Offset
<1>11. CallInv'
  <2>1. Len(segments) <= Len(segments')
    BY <1>6 DEF n
  <2>. QED
    BY Zenon, <1>4, <1>6, <1>8, <2>1, LanLoopGoesOn
<1>. QED
  BY Zenon, <1>7, <1>9, <1>10, <1>11 DEF IInv

\* trigger_tx sends the packet: everything started is done.
LEMMA TxSentKeeps ==
  ASSUME IInv, process, kind = "tx",
         state' = [q \in Pos |-> IF q = At(Top.at) \/ \E s \in 1 .. Len(segments) : segments[s] = q
                                   THEN DESC_PROCESSED ELSE state[q]],
         segments' = <<>>,
         Become([fn |-> "loop", at |-> Top.at + 1])
  PROVE  IInv'
<1>. DEFINE at == Top.at
            p == At(at)
<1>1. /\ p \in Pos /\ Offset(p) = at /\ state[p] = DESC_PREPARED /\ at \in 0 .. MaxActive - 1
      /\ kind' = kind /\ active_first_pos' = active_first_pos
  BY SMTT(30), Z3T(30), ZenonT(40), LoopFacts DEF window
<1>2. /\ state \in [Pos -> States] /\ active_first_pos \in Pos /\ OrderInv /\ SegmentsInv
      /\ kind # "atq" /\ kind # "rx"
  BY ZenonT(40), SMTT(30), Z3T(30) DEF IInv, TypeOK
<1>3. /\ \A q \in Pos : Offset(q) < at <=> state[q] > DESC_PREPARED
      /\ \A q \in Pos : Offset(q)' = Offset(q) /\ Offset(q) \in 0 .. MaxActive - 1
  BY SMTT(30), Z3T(30), ZenonT(40), <1>1, <1>2, LanStarted, Places DEF Offset
<1>4. ASSUME NEW q \in Pos
      PROVE  state'[q] = IF q = p \/ state[q] = DESC_PROCESSING THEN DESC_PROCESSED ELSE state[q]
  <2>1. (\E s \in 1 .. Len(segments) : segments[s] = q) <=> state[q] = DESC_PROCESSING
    BY Zenon, <1>2 DEF SegmentsInv
  <2>. QED
    BY <2>1
<1>. HIDE DEF p
<1>5. ASSUME NEW q \in Pos
      PROVE  /\ state'[q] \in States
             /\ Offset(q) <= at => state'[q] = DESC_PROCESSED
             /\ ~(Offset(q) <= at) => state'[q] = state[q] /\ ~(state[q] > DESC_PREPARED)
  <2>1. Offset(q) <= at <=> (Offset(q) < at \/ q = p)
    <3>1. Offset(q) = at => q = p
      BY Zenon, <1>1, <1>2, SamePlace
    <3>. QED
      BY SMTT(30), Z3T(30), ZenonT(40), <1>1, <1>3, <3>1, Constants
  <2>2. state[q] \in States
    BY SMTT(30), Z3T(30), ZenonT(40), <1>2
  <2>. QED
    BY ZenonT(40), <1>1, <1>3, <1>4, <2>1, <2>2, StateNumbers
<1>6. state' \in [Pos -> States] /\ segments' \in Seq(Pos)
  <2>1. state' = [q \in Pos |-> state'[q]]
    OBVIOUS
  <2>. QED
    BY SMTT(30), Z3T(30), <1>5, <2>1
<1>7. TypeOK' /\ WindowInv' /\ FetchedInv'
  <2>1. \A q \in Pos : state'[q] = state[q] \/
          (state[q] \in {DESC_PREPARED, DESC_PROCESSING} /\ state'[q] \in {DESC_PROCESSING, DESC_PROCESSED})
    BY SMTT(30), Z3T(30), ZenonT(40), <1>1, <1>4
  <2>. QED
    BY Zenon, <1>6, <2>1, ProcessedContexts
<1>8. \A q \in Pos : Offset(q) <= at <=> state'[q] > DESC_PREPARED
  BY Zenon, <1>5, StateNumbers
<1>9. OrderInv'
  <2>1. ASSUME NEW q \in Pos, NEW r \in Pos, Offset(q) < Offset(r)
        PROVE  /\ state'[r] > DESC_PREPARED => state'[q] > DESC_PREPARED
               /\ state'[r] = DESC_PROCESSED => state'[q] = DESC_PROCESSED
    <3>1. Offset(r) <= at => Offset(q) <= at
      BY SMTT(30), Z3T(30), ZenonT(40), <1>1, <1>3, <2>1, Constants
    <3>. QED
      BY Zenon, <1>5, <1>8, <3>1, StateNumbers
  <2>. QED
    BY ZenonT(40), <1>1, <1>2, <1>3, <2>1 DEF OrderInv
<1>10. SegmentsInv'
  <2>1. \A q \in Pos : state'[q] # DESC_PROCESSING
    BY Zenon, <1>5, StateNumbers
  <2>. QED
    BY <2>1 DEF SegmentsInv
<1>11. CallInv'
  BY Zenon, <1>2, <1>6, <1>8, LanLoopGoesOn
<1>. QED
  BY ZenonT(40), <1>7, <1>9, <1>10, <1>11 DEF IInv

LEMMA ProcessKeeps ==
  ASSUME IInv, process
  PROVE  IInv'
<1>. DEFINE p == At(Top.at)
            x == [fn |-> "loop", at |-> Top.at + 1]
<1>1. process_admin(p, x) \/ process_rx(p, x) \/ process_tx(p, x)
  BY Zenon, LoopFacts
<1>2. CASE process_admin(p, x)
  BY Zenon, <1>2, ProcessAdminKeeps DEF process_admin
<1>3. CASE process_rx(p, x)
  <2>1. kind # "atq"
    BY <1>3 DEF process_rx
  <2>. QED
    BY Zenon, <1>3, <2>1, LanStartKeeps DEF process_rx
<1>4. CASE process_tx(p, x)
  <2>1. kind # "atq"
    BY <1>4 DEF process_tx
  <2>. QED
    BY Zenon, <1>4, <2>1, LanStartKeeps, TxSentKeeps DEF process_tx
<1>. QED
  BY Zenon, <1>1, <1>2, <1>3, <1>4

-----------------------------------------------------------------------------
(* Receiving                                                               *)

LEMMA ReceiveKeeps ==
  ASSUME IInv, receive
  PROVE  IInv'
<1>1. /\ stack # <<>> /\ Top.fn = "receive" /\ Reads(Top) = {}
      /\ UNCHANGED <<kind, enabled, window, reg_tail, reg_head, index>>
      /\ kind' = kind /\ enabled' = enabled /\ active_first_pos' = active_first_pos
      /\ active_first_idx' = active_first_idx /\ active_cnt' = active_cnt
      /\ reg_tail' = reg_tail /\ reg_head' = reg_head /\ index' = index
  BY SMTT(30), Z3T(30), ZenonT(40) DEF receive, In, window, Reads
<1>2. /\ TypeOK /\ WindowInv /\ FetchedInv /\ OrderInv /\ SegmentsInv /\ CallInv
      /\ state \in [Pos -> States] /\ segments \in Seq(Pos) /\ stack \in Seq(Frames)
      /\ active_first_pos \in Pos
  BY SMTT(30), Z3T(30), ZenonT(40) DEF IInv, TypeOK
<1>3. /\ Len(stack) \in Nat \ {0} /\ Top = stack[Len(stack)] /\ Top \in Frames
  BY SMTT(30), Z3T(30), ZenonT(40), <1>1, <1>2, TopFrame
<1>4. Len(stack) = 1 /\ kind = "rx" /\ Top.left <= Len(segments) /\ Top.left \in 0 .. MaxActive
  <2>1. Len(stack) \in 1 .. Len(stack)
    BY <1>3
  <2>. QED
    BY Zenon, <1>1, <1>2, <1>3, <2>1, FrameTypes DEF CallInv
<1>5. CASE Top.left = 0
  <2>1. Return /\ state' = state /\ segments' = segments
    BY SMTT(30), Z3T(30), ZenonT(40), <1>5 DEF receive
  <2>2. [fn |-> "fetch"] \in Frames /\ [fn |-> "fetch"].fn \notin {"fetched", "receive", "loop"}
    BY SMTT(30), Z3T(30), ZenonT(40), AreFrames
  <2>3. [fn |-> "fetch"].fn \notin {"fetched", "receive"} /\ [fn |-> "fetch"].fn # "loop"
    BY SMTT(30), Z3T(30), ZenonT(40), <2>2
  <2>. QED
    BY Zenon, <1>1, <2>1, <2>2, <2>3, OnlyFrames
<1>6. CASE Top.left # 0
  <2>. DEFINE p == segments[1]
              left == Top.left - 1
              x == [fn |-> "receive", left |-> left]
  <2>1. left \in 0 .. MaxActive /\ 1 \in 1 .. Len(segments) /\ left <= Len(segments) - 1
        /\ p \in Pos
    BY SMTT(30), Z3T(30), ZenonT(40), <1>2, <1>4, <1>6, Constants
  <2>2. x \in Frames /\ [Top EXCEPT !.left = left] = x
    BY Zenon, <1>1, <1>3, <2>1, AreFrames, FrameTypes
  <2>3. /\ state' = [state EXCEPT ![p] = DESC_PROCESSED] /\ segments' = Tail(segments)
        /\ Call(x, Trigger)
    BY Zenon, <1>6, <2>2 DEF receive
  <2>4. /\ state' \in [Pos -> States]
        /\ \A q \in Pos : state'[q] = IF q = p THEN DESC_PROCESSED ELSE state[q]
    BY ZenonT(40), SMTT(30), Z3T(30), <1>2, <2>1, <2>3, StateNumbers
  <2>5. /\ segments' \in Seq(Pos) /\ Len(segments') = Len(segments) - 1
        /\ \A s \in 1 .. Len(segments') : s + 1 \in 1 .. Len(segments) /\ segments'[s] = segments[s + 1]
    BY SMTT(30), Z3T(30), ZenonT(40), <1>2, <2>1, <2>3
  <2>6. state[p] = DESC_PROCESSING
    BY Zenon, <1>2, <2>1 DEF SegmentsInv
  <2>7. Trigger \in Frames /\ Trigger.fn = "fetch" /\ x.fn = "receive" /\ x.left = left
    BY SMTT(30), Z3T(30), ZenonT(40), AreFrames DEF Trigger
  <2>. HIDE DEF x, p, left
  <2>8. /\ stack' \in Seq(Frames) /\ Len(stack') = 2 /\ stack'[1] = x /\ stack'[2] = Trigger
    <3>1. /\ stack' \in Seq(Frames) /\ Len(stack') = Len(stack) + 1
          /\ \A f \in 1 .. Len(stack) + 1 :
               stack'[f] = IF f < Len(stack) THEN stack[f] ELSE IF f = Len(stack) THEN x ELSE Trigger
      BY Zenon, <1>1, <1>2, <2>2, <2>3, <2>7, CallStack
    <3>. QED
      BY <1>4, <3>1
  <2>9. TypeOK'
    BY Zenon, <1>1, <1>2, <2>4, <2>5, <2>8 DEF TypeOK
  <2>10. WindowInv'
    BY Zenon, <1>1, <1>2, <2>4, <2>6, WindowKept, StateNumbers DEF window
  <2>11. \A q \in Pos : state[q] = DESC_FETCHING => FALSE
    <3>1. ASSUME NEW f \in 1 .. Len(stack) PROVE Reads(stack[f]) = {}
      <4>1. f = Len(stack)
        BY <1>4
      <4>. QED
        BY Zenon, <1>1, <1>3, <4>1
    <3>. QED
      BY Zenon, <1>2, <3>1 DEF FetchedInv
  <2>12. FetchedInv'
    <3>1. ASSUME NEW f \in 1 .. Len(stack') PROVE stack'[f].fn # "fetched"
      BY <2>7, <2>8
    <3>. QED
      BY Zenon, <2>4, <2>11, <3>1, StateNumbers DEF FetchedInv, Reads
  <2>13. ASSUME NEW q \in Pos, Offset(q) < Offset(p) PROVE state[q] = DESC_PROCESSED
    <3>1. state[q] \in {DESC_PROCESSING, DESC_PROCESSED}
      BY Zenon, <1>2, <1>4, <2>1, <2>6, <2>13, StateNumbers DEF OrderInv
    <3>2. ASSUME NEW s \in 1 .. Len(segments), segments[s] = q PROVE FALSE
      <4>1. s = 1 \/ Offset(p) < Offset(segments[s])
        BY SMTT(30), Z3T(30), ZenonT(40), <1>2, <2>1 DEF SegmentsInv, p
      <4>2. Offset(q) \in Int /\ Offset(p) \in Int
        BY SMTT(30), Z3T(30), ZenonT(40), <1>2, <2>1, Places, Constants
      <4>. QED
        BY SMTT(30), Z3T(30), ZenonT(40), <2>13, <3>2, <4>1, <4>2 DEF p
    <3>. QED
      BY Zenon, <1>2, <3>1, <3>2 DEF SegmentsInv
  <2>14. OrderInv'
    <3>1. ASSUME NEW q \in Pos, NEW r \in Pos, Offset(q) < Offset(r)
          PROVE  /\ state'[r] > DESC_PREPARED => state'[q] > DESC_PREPARED
                 /\ state'[r] = DESC_PROCESSED => state'[q] = DESC_PROCESSED
      <4>1. CASE r = p
        BY Zenon, <2>4, <2>13, <3>1, <4>1, StateNumbers
      <4>2. CASE r # p
        BY Zenon, <1>2, <1>4, <2>4, <2>6, <3>1, <4>2, StateNumbers DEF OrderInv
      <4>. QED
        BY <4>1, <4>2
    <3>2. kind' # "atq"
      BY <1>1, <1>4
    <3>. QED
      BY Zenon, <1>1, <3>1, <3>2 DEF OrderInv, Offset
  <2>15. SegmentsInv'
    <3>1. \A q \in Pos : state'[q] = DESC_PROCESSING <=> q # p /\ state[q] = DESC_PROCESSING
      BY Zenon, <2>4, StateNumbers
    <3>2. ASSUME NEW s \in 2 .. Len(segments)
          PROVE  /\ segments[s] \in Pos /\ segments[s] # p /\ state[segments[s]] = DESC_PROCESSING
                 /\ s - 1 \in 1 .. Len(segments') /\ segments'[s - 1] = segments[s]
      <4>1. Offset(p) < Offset(segments[s]) /\ segments[s] \in Pos /\ state[segments[s]] = DESC_PROCESSING
        BY SMTT(30), Z3T(30), ZenonT(40), <1>2, <2>1 DEF SegmentsInv, p
      <4>2. Offset(p) \in Int
        BY SMTT(30), Z3T(30), ZenonT(40), <1>2, <2>1, Places, Constants
      <4>. QED
        BY SMTT(30), Z3T(30), ZenonT(40), <1>2, <2>5, <4>1, <4>2
    <3>3. \A s \in 1 .. Len(segments') : s + 1 \in 2 .. Len(segments) /\ segments'[s] = segments[s + 1]
      BY SMTT(30), Z3T(30), ZenonT(40), <1>2, <2>5
    <3>4. \A s \in 1 .. Len(segments') : state'[segments'[s]] = DESC_PROCESSING
      <4>1. \A s \in 2 .. Len(segments) : state'[segments[s]] = DESC_PROCESSING
        BY Zenon, <3>1, <3>2
      <4>. QED
        BY SMTT(30), Z3T(30), ZenonT(40), <3>3, <4>1
    <3>5. ASSUME NEW q \in Pos, state'[q] = DESC_PROCESSING
          PROVE  \E s \in 1 .. Len(segments') : segments'[s] = q
      <4>1. PICK s \in 1 .. Len(segments) : segments[s] = q
        BY Zenon, <1>2, <3>1, <3>5 DEF SegmentsInv
      <4>2. s \in 2 .. Len(segments)
        BY SMTT(30), Z3T(30), ZenonT(40), <1>2, <3>1, <3>5, <4>1 DEF p
      <4>. QED
        BY Zenon, <3>2, <4>1, <4>2
    <3>6. ASSUME NEW s \in 1 .. Len(segments'), NEW u \in 1 .. Len(segments'), s < u
          PROVE  Offset(segments'[s]) < Offset(segments'[u])
      <4>1. s + 1 < u + 1
        BY SMTT(30), Z3T(30), ZenonT(40), <2>5, <3>6
      <4>. QED
        BY Zenon, <1>2, <2>5, <4>1 DEF SegmentsInv
    <3>. QED
      BY Zenon, <1>1, <3>4, <3>5, <3>6 DEF SegmentsInv, Offset
  <2>16. CallInv'
    <3>1. ASSUME NEW f \in 1 .. Len(stack')
          PROVE  /\ stack'[f].fn # "loop"
                 /\ stack'[f].fn = "receive" => f = 1 /\ stack'[f].left <= Len(segments')
      BY SMTT(30), Z3T(30), ZenonT(40), <1>2, <2>1, <2>5, <2>7, <2>8
    <3>. QED
      BY Zenon, <1>1, <1>4, <3>1 DEF CallInv
  <2>. QED
    BY Zenon, <2>9, <2>10, <2>12, <2>14, <2>15, <2>16 DEF IInv
<1>. QED
  BY Zenon, <1>5, <1>6

-----------------------------------------------------------------------------
(* Writing back                                                            *)

\* What writing cnt descriptors back does to the window.
LEMMA WrittenBack ==
  ASSUME IInv, NEW cnt \in 1 .. active_cnt, writeback_done(cnt),
         \A p \in Pos : Offset(p) < cnt => state[p] = DESC_PROCESSED
  PROVE  /\ active_cnt \in 0 .. MaxActive /\ cnt \in 0 .. MaxActive
         /\ active_first_pos' \in Pos /\ active_first_idx' \in Idx /\ active_cnt' = active_cnt - cnt
         /\ state' \in [Pos -> States]
         /\ \A p \in Pos :
              /\ Offset(p) \in 0 .. MaxActive - 1
              /\ Offset(p)' = IF Offset(p) >= cnt THEN Offset(p) - cnt ELSE Offset(p) - cnt + MaxActive
              /\ state'[p] = IF Offset(p) < cnt THEN DESC_EMPTY ELSE state[p]
<1>1. /\ active_cnt \in 0 .. MaxActive /\ active_first_pos \in Pos /\ active_first_idx \in Idx
      /\ state \in [Pos -> States]
  BY SMTT(30), Z3T(30), ZenonT(40) DEF IInv, TypeOK
<1>2. cnt \in 0 .. MaxActive /\ active_first_pos + cnt \in Int /\ active_first_idx + cnt \in Int
  BY SMTT(30), Z3T(30), ZenonT(40), <1>1, Constants DEF Pos, Idx
<1>3. /\ active_first_pos' = (active_first_pos + cnt) % MaxActive
      /\ active_first_idx' = (active_first_idx + cnt) % RingLen
      /\ active_cnt' = active_cnt - cnt
      /\ state' = [p \in Pos |-> IF Offset(p) < cnt THEN DESC_EMPTY ELSE state[p]]
  BY Zenon DEF writeback_done, At, Offset
<1>4. active_first_pos' \in Pos /\ active_first_idx' \in Idx
  BY Zenon, <1>2, <1>3, ModType, Constants DEF Pos, Idx
<1>5. ASSUME NEW p \in Pos
      PROVE  /\ Offset(p) \in 0 .. MaxActive - 1
             /\ Offset(p)' = IF Offset(p) >= cnt THEN Offset(p) - cnt ELSE Offset(p) - cnt + MaxActive
  <2>1. Offset(p) \in 0 .. MaxActive - 1
    BY Zenon, <1>1, Places
  <2>2. Offset(p)' = (p - ((active_first_pos + cnt) % MaxActive)) % MaxActive
    BY Zenon, <1>3 DEF Offset
  <2>3. MaxActive \in Nat \ {0} /\ active_first_pos \in 0 .. MaxActive - 1 /\ p \in 0 .. MaxActive - 1
    BY SMTT(30), Z3T(30), ZenonT(40), <1>1, Constants DEF Pos
  <2>. QED
    BY Zenon, <1>2, <2>1, <2>2, <2>3, Moves DEF Offset
<1>6. state' \in [Pos -> States]
  BY SMTT(30), Z3T(30), ZenonT(40), <1>1, <1>3, StateNumbers
<1>. QED
  BY Zenon, <1>1, <1>2, <1>3, <1>4, <1>5, <1>6

LEMMA WrittenBackWindow ==
  ASSUME IInv, NEW cnt \in 1 .. active_cnt, writeback_done(cnt), index' = index,
         \A p \in Pos : Offset(p) < cnt => state[p] = DESC_PROCESSED
  PROVE  WindowInv'
<1>1. ASSUME NEW p \in Pos
      PROVE  IF Offset(p)' < active_cnt'
               THEN state'[p] # DESC_EMPTY /\ index'[p] = (active_first_idx' + Offset(p)') % RingLen
               ELSE state'[p] = DESC_EMPTY
  <2>1. /\ active_cnt \in 0 .. MaxActive /\ cnt \in 0 .. MaxActive /\ active_cnt' = active_cnt - cnt
        /\ Offset(p) \in 0 .. MaxActive - 1
        /\ Offset(p)' = IF Offset(p) >= cnt THEN Offset(p) - cnt ELSE Offset(p) - cnt + MaxActive
        /\ state'[p] = IF Offset(p) < cnt THEN DESC_EMPTY ELSE state[p]
    BY Zenon, WrittenBack
  <2>2. WindowInv /\ active_first_idx \in Idx
    BY SMTT(30), Z3T(30), ZenonT(40) DEF IInv, TypeOK
  <2>3. CASE Offset(p) < cnt
    BY SMTT(30), Z3T(30), ZenonT(40), <2>1, <2>3, Constants
  <2>4. CASE Offset(p) >= active_cnt
    <3>1. state[p] = DESC_EMPTY
      BY SMTT(30), Z3T(30), ZenonT(40), <2>1, <2>2, <2>4, Constants DEF WindowInv
    <3>. QED
      BY SMTT(30), Z3T(30), ZenonT(40), <2>1, <2>4, <3>1, Constants
  <2>5. CASE Offset(p) >= cnt /\ Offset(p) < active_cnt
    <3>1. state[p] # DESC_EMPTY /\ index[p] = (active_first_idx + Offset(p)) % RingLen
      BY Zenon, <2>2, <2>5 DEF WindowInv
    <3>2. /\ Offset(p)' = Offset(p) - cnt /\ Offset(p)' < active_cnt' /\ state'[p] = state[p]
          /\ active_first_idx + cnt \in Int /\ Offset(p) - cnt \in Int
          /\ (active_first_idx + cnt) + (Offset(p) - cnt) = active_first_idx + Offset(p)
      BY SMTT(30), Z3T(30), ZenonT(40), <2>1, <2>2, <2>5, Constants DEF Idx
    <3>3. active_first_idx' = (active_first_idx + cnt) % RingLen
      BY Zenon DEF writeback_done
    <3>4. (((active_first_idx + cnt) % RingLen) + (Offset(p) - cnt)) % RingLen
            = ((active_first_idx + cnt) + (Offset(p) - cnt)) % RingLen
      BY Zenon, <3>2, AddMod, Constants
    <3>. QED
      BY Zenon, <3>1, <3>2, <3>3, <3>4
  <2>. QED
    BY SMTT(30), Z3T(30), ZenonT(40), <2>1, <2>3, <2>4, <2>5, Constants
<1>. QED
  BY Zenon, <1>1 DEF WindowInv

LEMMA WritebackKeeps ==
  ASSUME IInv, NEW cnt \in 1 .. active_cnt, writeback_done(cnt), In("writeback"),
         \A p \in Pos : Offset(p) < cnt => state[p] = DESC_PROCESSED,
         UNCHANGED <<kind, enabled, reg_tail, index, segments>>
  PROVE  IInv'
<1>1. /\ stack # <<>> /\ Top.fn = "writeback" /\ Reads(Top) = {} /\ reg_head' = active_first_idx'
      /\ kind' = kind /\ enabled' = enabled /\ reg_tail' = reg_tail /\ index' = index
      /\ segments' = segments /\ Become(Trigger)
  BY SMTT(30), Z3T(30), ZenonT(40) DEF In, Reads, writeback_done
<1>2. /\ TypeOK /\ WindowInv /\ FetchedInv /\ OrderInv /\ SegmentsInv /\ CallInv
      /\ state \in [Pos -> States] /\ segments \in Seq(Pos) /\ stack \in Seq(Frames)
  BY DEF IInv, TypeOK
<1>3. /\ active_cnt \in 0 .. MaxActive /\ cnt \in 0 .. MaxActive
      /\ active_first_pos' \in Pos /\ active_first_idx' \in Idx /\ active_cnt' = active_cnt - cnt
      /\ state' \in [Pos -> States]
      /\ \A p \in Pos :
           /\ Offset(p) \in 0 .. MaxActive - 1
           /\ Offset(p)' = IF Offset(p) >= cnt THEN Offset(p) - cnt ELSE Offset(p) - cnt + MaxActive
           /\ state'[p] = IF Offset(p) < cnt THEN DESC_EMPTY ELSE state[p]
  BY Zenon, WrittenBack
<1>4. active_cnt' \in 0 .. MaxActive
  BY SMTT(30), Z3T(30), <1>3, Constants
<1>5. Trigger \in Frames /\ Trigger.fn = "fetch"
  BY AreFrames DEF Trigger
<1>6. /\ Len(stack) \in Nat \ {0} /\ Top = stack[Len(stack)]
      /\ stack' \in Seq(Frames) /\ Len(stack') = Len(stack)
      /\ \A f \in 1 .. Len(stack) : stack'[f] = IF f < Len(stack) THEN stack[f] ELSE Trigger
  BY Zenon, <1>1, <1>2, <1>5, BecomeStack, TopFrame
<1>7. \A f \in 1 .. Len(stack') : \/ f \in 1 .. Len(stack) - 1 /\ f \in 1 .. Len(stack) /\ stack'[f] = stack[f]
                                  \/ stack'[f].fn = "fetch"
  BY SMTT(30), Z3T(30), <1>5, <1>6
<1>8. \A f \in 1 .. Len(stack) : f = Len(stack) \/ (f \in 1 .. Len(stack') /\ stack'[f] = stack[f])
  BY <1>6
<1>9. TypeOK'
  BY Zenon, <1>1, <1>2, <1>3, <1>4, <1>6 DEF TypeOK
<1>10. WindowInv'
  BY Zenon, <1>1, WrittenBackWindow
<1>11. FetchedInv'
  <2>1. \A p \in Pos : state'[p] = DESC_FETCHING <=> state[p] = DESC_FETCHING
    BY Zenon, <1>3, StateNumbers
  <2>2. \A f \in 1 .. Len(stack') :
          stack'[f].fn = "fetched" => f \in 1 .. Len(stack) /\ stack'[f] = stack[f]
    BY Zenon, <1>7
  <2>. QED
    BY Zenon, <1>1, <1>2, <1>6, <1>8, <2>1, <2>2, AllReadsType, FetchedKept
<1>12. OrderInv'
  <2>1. CASE kind = "atq"
    BY Zenon, <1>1, <1>2, <1>3, <2>1, StateNumbers DEF OrderInv
  <2>2. CASE kind # "atq"
    <3>1. ASSUME NEW q \in Pos, NEW r \in Pos, Offset(q)' < Offset(r)'
          PROVE  /\ state'[r] > DESC_PREPARED => state'[q] > DESC_PREPARED
                 /\ state'[r] = DESC_PROCESSED => state'[q] = DESC_PROCESSED
      <4>1. CASE Offset(r) < cnt
        BY Zenon, <1>3, <4>1, StateNumbers
      <4>2. CASE ~(Offset(r) < cnt)
        <5>1. Offset(q) < Offset(r) /\ ~(Offset(q) < cnt)
          BY SMTT(30), Z3T(30), ZenonT(40), <1>3, <3>1, <4>2, Constants
        <5>. QED
          BY Zenon, <1>2, <1>3, <2>2, <4>2, <5>1 DEF OrderInv
      <4>. QED
        BY SMTT(30), Z3T(30), ZenonT(40), <4>1, <4>2
    <3>. QED
      BY Zenon, <1>1, <2>2, <3>1 DEF OrderInv
  <2>. QED
    BY SMTT(30), Z3T(30), ZenonT(40), <2>1, <2>2
<1>13. SegmentsInv'
  <2>1. ASSUME NEW s \in 1 .. Len(segments)
        PROVE  /\ segments[s] \in Pos /\ state[segments[s]] = DESC_PROCESSING
               /\ ~(Offset(segments[s]) < cnt)
    <3>1. segments[s] \in Pos
      BY <1>2
    <3>. QED
      BY Zenon, <1>2, <3>1, StateNumbers DEF SegmentsInv
  <2>2. ASSUME NEW s \in 1 .. Len(segments), NEW u \in 1 .. Len(segments), s < u
        PROVE  (segments[s] - active_first_pos') % MaxActive < (segments[u] - active_first_pos') % MaxActive
    <3>1. Offset(segments[s]) < Offset(segments[u])
      BY Zenon, <1>2, <2>2 DEF SegmentsInv
    <3>2. ASSUME NEW p \in Pos, NEW q \in Pos, ~(Offset(p) < cnt), ~(Offset(q) < cnt), Offset(p) < Offset(q)
          PROVE  (p - active_first_pos') % MaxActive < (q - active_first_pos') % MaxActive
      <4>1. Offset(p)' < Offset(q)'
        BY SMTT(30), Z3T(30), ZenonT(40), <1>3, <3>2, Constants
      <4>. QED
        BY Zenon, <4>1 DEF Offset
    <3>. QED
      BY Zenon, <2>1, <3>1, <3>2
  <2>3. \A p \in Pos : state'[p] = DESC_PROCESSING <=> state[p] = DESC_PROCESSING
    BY Zenon, <1>3, StateNumbers
  <2>. QED
    BY Zenon, <1>1, <1>2, <2>1, <2>2, <2>3 DEF SegmentsInv, Offset
<1>14. CallInv'
  <2>1. Len(segments) <= Len(segments')
    BY SMTT(30), Z3T(30), ZenonT(40), <1>1, <1>2
  <2>2. kind # "atq" => \A f \in 1 .. Len(stack') : stack'[f].fn # "loop"
    BY Zenon, <1>2, <1>7, NoLoopBelow
  <2>3. \A f \in 1 .. Len(stack') :
          stack'[f].fn = "receive" => f \in 1 .. Len(stack) /\ stack'[f] = stack[f]
    BY Zenon, <1>7
  <2>. QED
    BY Zenon, <1>1, <1>2, <2>1, <2>2, <2>3, CallKept
<1>. QED
  BY Zenon, <1>9, <1>10, <1>11, <1>12, <1>13, <1>14 DEF IInv

LEMMA WritebackCases ==
  ASSUME IInv, trigger_writeback
  PROVE  /\ In("writeback")
         /\ \/ /\ Return /\ state[active_first_pos] # DESC_PROCESSED
               /\ UNCHANGED <<kind, enabled, window, reg_tail, reg_head, state, index, segments>>
            \/ \E cnt \in 1 .. active_cnt :
                 /\ writeback_done(cnt)
                 /\ \A p \in Pos : Offset(p) < cnt => state[p] = DESC_PROCESSED
                 /\ UNCHANGED <<kind, enabled, reg_tail, index, segments>>
<1>. DEFINE Cnt(avail) == IF active_first_idx + avail > RingLen THEN RingLen - active_first_idx ELSE avail
<1>1. PICK avail \in 0 .. active_cnt :
        /\ In("writeback")
        /\ \A k \in 0 .. avail - 1 : state[At(k)] = DESC_PROCESSED
        /\ avail < active_cnt => state[At(avail)] # DESC_PROCESSED
        /\ Cnt(avail) = 0 => Return /\ UNCHANGED <<window, reg_head, state>>
        /\ Cnt(avail) # 0 => writeback_done(Cnt(avail))
        /\ UNCHANGED <<kind, enabled, reg_tail, index, segments>>
  BY Zenon DEF trigger_writeback
<1>2. /\ active_cnt \in 0 .. MaxActive /\ active_first_pos \in Pos /\ active_first_idx \in Idx
      /\ WindowInv
  BY ZenonT(40), Z3T(30), SMTT(30) DEF IInv, TypeOK
<1>. DEFINE cnt == Cnt(avail)
<1>3. cnt \in 0 .. avail /\ (cnt = 0 => avail = 0)
  BY SMTT(30), Z3T(30), ZenonT(40), <1>1, <1>2, Constants DEF Idx
<1>4. Cnt(avail) = cnt
  OBVIOUS
<1>. HIDE DEF cnt, Cnt
<1>5. /\ \A p \in Pos : Offset(p) \in 0 .. MaxActive - 1 /\ At(Offset(p)) = p
      /\ Offset(active_first_pos) = 0 /\ At(0) = active_first_pos
  <2>1. 0 \in 0 .. MaxActive - 1
    BY Constants
  <2>. QED
    BY Zenon, <1>2, <2>1, Places
<1>6. CASE cnt = 0
  <2>1. state[active_first_pos] # DESC_PROCESSED
    <3>1. CASE active_cnt = 0
      <4>1. state[active_first_pos] = DESC_EMPTY
        BY SMTT(30), Z3T(30), ZenonT(40), <1>2, <1>5, <3>1 DEF WindowInv
      <4>. QED
        BY SMTT(30), Z3T(30), ZenonT(40), <4>1, StateNumbers
    <3>2. CASE active_cnt # 0
      <4>1. avail = 0 /\ avail < active_cnt
        BY SMTT(30), Z3T(30), ZenonT(40), <1>2, <1>3, <1>6, <3>2
      <4>. QED
        BY Zenon, <1>1, <1>5, <4>1
    <3>. QED
      BY SMTT(30), Z3T(30), ZenonT(40), <3>1, <3>2
  <2>. QED
    BY Zenon, <1>1, <1>4, <1>6, <2>1
<1>7. CASE cnt # 0
  <2>1. cnt \in 1 .. active_cnt
    BY SMTT(30), Z3T(30), ZenonT(40), <1>1, <1>2, <1>3, <1>7
  <2>2. ASSUME NEW p \in Pos, Offset(p) < cnt PROVE state[p] = DESC_PROCESSED
    <3>1. Offset(p) \in 0 .. avail - 1
      BY SMTT(30), Z3T(30), ZenonT(40), <1>1, <1>2, <1>3, <1>5, <2>2, Constants
    <3>. QED
      BY Zenon, <1>1, <1>5, <3>1
  <2>. QED
    BY Zenon, <1>1, <1>4, <1>7, <2>1, <2>2
<1>. QED
  BY SMTT(30), Z3T(30), ZenonT(40), <1>6, <1>7

LEMMA TriggerWritebackKeeps ==
  ASSUME IInv, trigger_writeback
  PROVE  IInv'
<1>1. In("writeback")
  BY Zenon, WritebackCases
<1>2. CASE Return /\ UNCHANGED <<kind, enabled, window, reg_tail, reg_head, state, index, segments>>
  <2>1. stack # <<>> /\ Reads(Top) = {}
    BY SMTT(30), Z3T(30), ZenonT(40), <1>1 DEF In, Reads
  <2>2. /\ [fn |-> "fetch"] \in Frames /\ [fn |-> "fetch"].fn \notin {"fetched", "receive"}
        /\ [fn |-> "fetch"].fn # "loop"
    BY AreFrames
  <2>. QED
    BY Zenon, <1>2, <2>1, <2>2, OnlyFrames
<1>. QED
  BY Zenon, <1>1, <1>2, WritebackCases, WritebackKeeps

-----------------------------------------------------------------------------
(* Fetching                                                                *)

LEMMA FetchFacts ==
  ASSUME IInv
  PROVE  LET next_idx == (active_first_idx + active_cnt) % RingLen
             cnt == FetchCount(next_idx)
         IN  /\ next_idx \in Idx
             /\ active_cnt \in 0 .. MaxActive
             /\ cnt \in 0 .. MaxActive /\ active_cnt + cnt <= MaxActive /\ next_idx + cnt <= RingLen
             /\ At(active_cnt) \in Pos
             /\ \A p \in Pos :
                  /\ Offset(p) \in 0 .. MaxActive - 1
                  /\ (p - At(active_cnt)) % MaxActive
                       = IF Offset(p) >= active_cnt THEN Offset(p) - active_cnt
                         ELSE Offset(p) - active_cnt + MaxActive
<1>. DEFINE next_idx == (active_first_idx + active_cnt) % RingLen
            avail == ((reg_tail - next_idx) % WordMod) % RingLen
            cnt == FetchCount(next_idx)
<1>1. /\ active_cnt \in 0 .. MaxActive /\ active_first_pos \in Pos /\ active_first_idx \in Idx
      /\ reg_tail \in Idx
  BY SMTT(30), Z3T(30), ZenonT(40) DEF IInv, TypeOK
<1>2. active_first_idx + active_cnt \in Int /\ active_first_pos + active_cnt \in Int
  BY <1>1, Constants DEF Pos, Idx
<1>3. next_idx \in Idx /\ At(active_cnt) \in Pos
  BY Zenon, <1>2, ModType, Constants DEF Idx, Pos, At
<1>4. avail \in Nat
  <2>. HIDE DEF next_idx
  <2>1. reg_tail - next_idx \in Int
    BY SMTT(30), Z3T(30), ZenonT(40), <1>1, <1>3, Constants DEF Idx
  <2>2. (reg_tail - next_idx) % WordMod \in 0 .. WordMod - 1
    BY Zenon, <2>1, ModType, Constants
  <2>3. (reg_tail - next_idx) % WordMod \in Int
    BY SMTT(30), Z3T(30), ZenonT(40), <2>2, Constants
  <2>4. avail \in 0 .. RingLen - 1
    BY Zenon, <2>3, ModType, Constants
  <2>. QED
    BY SMTT(30), Z3T(30), ZenonT(40), <2>4, Constants
<1>5. cnt = LET fetch_cnt == IF avail < MaxActive - active_cnt THEN avail ELSE MaxActive - active_cnt
            IN  IF next_idx + fetch_cnt > RingLen THEN RingLen - next_idx ELSE fetch_cnt
  BY SMTT(30), Z3T(30), ZenonT(40) DEF FetchCount, MinOf
<1>6. cnt \in 0 .. MaxActive /\ active_cnt + cnt <= MaxActive /\ next_idx + cnt <= RingLen
  <2>. HIDE DEF cnt, avail, next_idx
  <2>. QED
    BY SMTT(30), Z3T(30), ZenonT(40), <1>1, <1>3, <1>4, <1>5, Constants DEF Idx
<1>7. ASSUME NEW p \in Pos
      PROVE  /\ Offset(p) \in 0 .. MaxActive - 1
             /\ (p - At(active_cnt)) % MaxActive
                  = IF Offset(p) >= active_cnt THEN Offset(p) - active_cnt
                    ELSE Offset(p) - active_cnt + MaxActive
  <2>1. MaxActive \in Nat \ {0} /\ active_first_pos \in 0 .. MaxActive - 1 /\ p \in 0 .. MaxActive - 1
    BY <1>1, Constants DEF Pos
  <2>. QED
    BY ZenonT(40), <1>1, <2>1, Moves, Places DEF Offset, At
<1>. QED
  BY Zenon, <1>1, <1>3, <1>6, <1>7

\* The contexts that trigger_fetch takes are the first cnt behind the window.
LEMMA FetchEffect ==
  ASSUME IInv, trigger_fetch
  PROVE  LET next_idx == (active_first_idx + active_cnt) % RingLen
             cnt == FetchCount(next_idx)
             Taken(p) == active_cnt <= Offset(p) /\ Offset(p) < active_cnt + cnt
         IN  /\ stack # <<>> /\ Top.fn = "fetch" /\ Reads(Top) = {}
             /\ state' \in [Pos -> States] /\ index' \in [Pos -> Idx]
             /\ \A p \in Pos : state'[p] = IF Taken(p) THEN DESC_FETCHING ELSE state[p]
             /\ \A p \in Pos : index'[p] = IF Taken(p) THEN (active_first_idx + Offset(p)) % RingLen ELSE index[p]
             /\ active_cnt' = active_cnt + cnt
             /\ UNCHANGED <<kind, enabled, active_first_pos, active_first_idx, reg_tail, reg_head, segments>>
<1>. DEFINE next_idx == (active_first_idx + active_cnt) % RingLen
            cnt == FetchCount(next_idx)
            Nth(p) == (p - At(active_cnt)) % MaxActive
            Taken(p) == active_cnt <= Offset(p) /\ Offset(p) < active_cnt + cnt
<1>1. /\ stack # <<>> /\ Top.fn = "fetch"
      /\ state' = [p \in Pos |-> IF Nth(p) < cnt THEN DESC_FETCHING ELSE state[p]]
      /\ index' = [p \in Pos |-> IF Nth(p) < cnt THEN (next_idx + Nth(p)) % RingLen ELSE index[p]]
      /\ active_cnt' = active_cnt + cnt
      /\ UNCHANGED <<kind, enabled, active_first_pos, active_first_idx, reg_tail, reg_head, segments>>
  BY Zenon DEF trigger_fetch, In
<1>2. Reads(Top) = {}
  BY <1>1 DEF Reads
<1>3. /\ state \in [Pos -> States] /\ index \in [Pos -> Idx] /\ active_first_idx \in Idx
  BY DEF IInv, TypeOK
<1>4. /\ active_cnt \in 0 .. MaxActive /\ cnt \in 0 .. MaxActive /\ active_cnt + cnt <= MaxActive
      /\ \A p \in Pos : Offset(p) \in 0 .. MaxActive - 1
      /\ \A p \in Pos : Nth(p) = IF Offset(p) >= active_cnt THEN Offset(p) - active_cnt
                                 ELSE Offset(p) - active_cnt + MaxActive
  BY Zenon, FetchFacts
<1>5. active_first_idx + active_cnt \in Int
  BY SMTT(30), Z3T(30), ZenonT(40), <1>3, <1>4, Constants DEF Idx
<1>6. ASSUME NEW p \in Pos
      PROVE  /\ Nth(p) < cnt <=> Taken(p)
             /\ Taken(p) => (next_idx + Nth(p)) % RingLen = (active_first_idx + Offset(p)) % RingLen
             /\ (active_first_idx + Offset(p)) % RingLen \in Idx
  <2>. DEFINE nth == Nth(p)
  <2>1. /\ Offset(p) \in 0 .. MaxActive - 1
        /\ nth = IF Offset(p) >= active_cnt THEN Offset(p) - active_cnt
                 ELSE Offset(p) - active_cnt + MaxActive
    BY Zenon, <1>4
  <2>. HIDE DEF nth, cnt
  <2>2. nth < cnt <=> Taken(p)
    BY SMTT(30), Z3T(30), ZenonT(40), <1>4, <2>1, Constants
  <2>3. /\ nth \in Int /\ active_first_idx + Offset(p) \in Int
        /\ Taken(p) => (active_first_idx + active_cnt) + nth = active_first_idx + Offset(p)
    BY SMTT(30), Z3T(30), ZenonT(40), <1>3, <1>4, <2>1, Constants DEF Idx
  <2>4. (((active_first_idx + active_cnt) % RingLen) + nth) % RingLen
          = ((active_first_idx + active_cnt) + nth) % RingLen
    BY Zenon, <1>5, <2>3, AddMod, Constants
  <2>5. (active_first_idx + Offset(p)) % RingLen \in Idx
    BY Zenon, <2>3, ModType, Constants DEF Idx
  <2>. QED
    BY Zenon, <2>2, <2>3, <2>4, <2>5 DEF nth
<1>. HIDE DEF Nth, cnt, next_idx
<1>7. /\ \A p \in Pos : state'[p] = IF Taken(p) THEN DESC_FETCHING ELSE state[p]
      /\ \A p \in Pos : index'[p] = IF Taken(p) THEN (active_first_idx + Offset(p)) % RingLen ELSE index[p]
  <2>1. \A p \in Pos : state'[p] = IF Nth(p) < cnt THEN DESC_FETCHING ELSE state[p]
    BY Zenon, <1>1
  <2>2. \A p \in Pos : index'[p] = IF Nth(p) < cnt THEN (next_idx + Nth(p)) % RingLen ELSE index[p]
    BY Zenon, <1>1
  <2>. QED
    BY Zenon, <1>6, <2>1, <2>2
<1>8. state' \in [Pos -> States] /\ index' \in [Pos -> Idx]
  <2>1. \A p \in Pos : state'[p] \in States /\ index'[p] \in Idx
    BY Zenon, <1>3, <1>6, <1>7, StateNumbers
  <2>. QED
    BY Zenon, <1>1, <2>1
<1>. QED
  BY Zenon, <1>1, <1>2, <1>7, <1>8 DEF cnt, next_idx

LEMMA FetchKeepsRest ==
  ASSUME IInv, trigger_fetch
  PROVE  WindowInv' /\ OrderInv' /\ SegmentsInv'
<1>. DEFINE next_idx == (active_first_idx + active_cnt) % RingLen
            cnt == FetchCount(next_idx)
            Taken(p) == active_cnt <= Offset(p) /\ Offset(p) < active_cnt + cnt
<1>1. /\ state' \in [Pos -> States] /\ index' \in [Pos -> Idx]
      /\ \A p \in Pos : state'[p] = IF Taken(p) THEN DESC_FETCHING ELSE state[p]
      /\ \A p \in Pos : index'[p] = IF Taken(p) THEN (active_first_idx + Offset(p)) % RingLen ELSE index[p]
      /\ active_cnt' = active_cnt + cnt
      /\ kind' = kind /\ active_first_pos' = active_first_pos /\ active_first_idx' = active_first_idx
      /\ segments' = segments
  BY Zenon, FetchEffect
<1>2. /\ WindowInv /\ OrderInv /\ SegmentsInv /\ state \in [Pos -> States] /\ segments \in Seq(Pos)
  BY DEF IInv, TypeOK
<1>3. /\ active_cnt \in 0 .. MaxActive /\ cnt \in 0 .. MaxActive /\ active_cnt + cnt <= MaxActive
      /\ \A p \in Pos : Offset(p) \in 0 .. MaxActive - 1
  BY Zenon, FetchFacts
<1>. HIDE DEF cnt
<1>4. ASSUME NEW p \in Pos
      PROVE  /\ Offset(p) < active_cnt' <=> (Offset(p) < active_cnt \/ Taken(p))
             /\ ~(Offset(p) < active_cnt /\ Taken(p))
  BY SMTT(30), Z3T(30), ZenonT(40), <1>1, <1>3, Constants
<1>5. \A p \in Pos : Taken(p) => state[p] = DESC_EMPTY
  BY Zenon, <1>2, <1>4 DEF WindowInv
<1>. HIDE DEF Taken
<1>6. WindowInv'
  <2>1. ASSUME NEW p \in Pos
        PROVE  IF Offset(p) < active_cnt'
                 THEN state'[p] # DESC_EMPTY /\ index'[p] = (active_first_idx + Offset(p)) % RingLen
                 ELSE state'[p] = DESC_EMPTY
    BY Zenon, <1>1, <1>2, <1>4, StateNumbers DEF WindowInv
  <2>. QED
    BY Zenon, <1>1, <2>1 DEF WindowInv, Offset
<1>7. OrderInv'
  <2>1. DESC_EMPTY <= DESC_PREPARED /\ DESC_FETCHING <= DESC_PREPARED
    BY DEF DESC_EMPTY, DESC_PREPARED, DESC_FETCHING
  <2>. QED
    BY Zenon, <1>1, <1>2, <1>5, <2>1, OrderKept
<1>8. SegmentsInv'
  BY Zenon, <1>1, <1>2, <1>5, StateNumbers, SegmentsKept
<1>. QED
  BY <1>6, <1>7, <1>8

\* dma_fetch::done will prepare exactly the contexts just taken.
LEMMA FetchedReads ==
  ASSUME active_first_pos \in Pos, NEW c \in 0 .. MaxActive, NEW n \in 0 .. MaxActive, c + n <= MaxActive
  PROVE  /\ \A j \in 0 .. n - 1 : (At(c) + j) % MaxActive \in Pos /\ Offset((At(c) + j) % MaxActive) = c + j
         /\ {(At(c) + j) % MaxActive : j \in 0 .. n - 1}
              = {p \in Pos : c <= Offset(p) /\ Offset(p) < c + n}
<1>1. ASSUME NEW j \in 0 .. n - 1
      PROVE  /\ (At(c) + j) % MaxActive = At(c + j) /\ At(c + j) \in Pos /\ Offset(At(c + j)) = c + j
  <2>. DEFINE a == active_first_pos + c
  <2>1. /\ a \in Int /\ j \in Int /\ c + j \in 0 .. MaxActive - 1
        /\ a + j = active_first_pos + (c + j)
    BY Constants DEF Pos
  <2>. HIDE DEF a
  <2>2. ((a % MaxActive) + j) % MaxActive = (a + j) % MaxActive
    BY Zenon, <2>1, AddMod, Constants
  <2>3. (At(c) + j) % MaxActive = At(c + j)
    BY Zenon, <2>1, <2>2 DEF At, a
  <2>. QED
    BY Zenon, <2>1, <2>3, Places
<1>2. \A j \in 0 .. n - 1 : (At(c) + j) % MaxActive \in Pos /\ Offset((At(c) + j) % MaxActive) = c + j
  BY Zenon, <1>1
<1>3. \A j \in 0 .. n - 1 : c <= c + j /\ c + j < c + n
  OBVIOUS
<1>4. ASSUME NEW p \in Pos, c <= Offset(p), Offset(p) < c + n
      PROVE  \E j \in 0 .. n - 1 : p = (At(c) + j) % MaxActive
  <2>1. Offset(p) \in 0 .. MaxActive - 1 /\ At(Offset(p)) = p
    BY Zenon, Places
  <2>. DEFINE j == Offset(p) - c
  <2>2. j \in 0 .. n - 1 /\ c + j = Offset(p)
    BY SMTT(30), Z3T(30), ZenonT(40), <1>4, <2>1, Constants
  <2>. HIDE DEF j
  <2>. QED
    BY Zenon, <1>1, <2>1, <2>2
<1>. QED
  BY Zenon, <1>2, <1>3, <1>4

LEMMA FetchNothingKeeps ==
  ASSUME IInv, trigger_fetch, FetchCount((active_first_idx + active_cnt) % RingLen) = 0
  PROVE  /\ IInv' /\ Become([fn |-> "process"])
         /\ UNCHANGED <<kind, enabled, window, reg_tail, reg_head, state, index, segments>>
<1>. DEFINE cnt == FetchCount((active_first_idx + active_cnt) % RingLen)
            Taken(p) == active_cnt <= Offset(p) /\ Offset(p) < active_cnt + cnt
<1>1. /\ stack # <<>> /\ Top.fn = "fetch" /\ Reads(Top) = {}
      /\ state' \in [Pos -> States] /\ index' \in [Pos -> Idx]
      /\ \A p \in Pos : state'[p] = IF Taken(p) THEN DESC_FETCHING ELSE state[p]
      /\ \A p \in Pos : index'[p] = IF Taken(p) THEN (active_first_idx + Offset(p)) % RingLen ELSE index[p]
      /\ active_cnt' = active_cnt + cnt
      /\ UNCHANGED <<kind, enabled, active_first_pos, active_first_idx, reg_tail, reg_head, segments>>
  BY Zenon, FetchEffect
<1>2. /\ active_cnt \in 0 .. MaxActive /\ state \in [Pos -> States] /\ index \in [Pos -> Idx]
      /\ active_first_pos \in Pos
  BY DEF IInv, TypeOK
<1>3. cnt = 0
  BY SMTT(30), Z3T(30), ZenonT(40)
<1>4. \A p \in Pos : ~Taken(p)
  <2>1. \A p \in Pos : Offset(p) \in 0 .. MaxActive - 1
    BY Zenon, <1>2, Places
  <2>. HIDE DEF cnt
  <2>. QED
    BY SMTT(30), Z3T(30), ZenonT(40), <1>2, <1>3, <2>1, Constants
<1>5. active_cnt' = active_cnt
  <2>. HIDE DEF cnt
  <2>. QED
    BY SMTT(30), Z3T(30), <1>1, <1>2, <1>3, Constants
<1>. HIDE DEF Taken
<1>6. state' = state /\ index' = index
  BY SMTT(30), Z3T(30), ZenonT(40), <1>1, <1>2, <1>4
<1>7. Become([fn |-> "process"])
  BY Zenon, <1>3 DEF trigger_fetch
<1>8. UNCHANGED <<kind, enabled, window, reg_tail, reg_head, state, index, segments>>
  BY ZenonT(40), SMTT(30), Z3T(30), <1>1, <1>5, <1>6 DEF window
<1>9. /\ [fn |-> "process"] \in Frames /\ [fn |-> "process"].fn \notin {"fetched", "receive"}
      /\ [fn |-> "process"].fn # "loop"
  BY SMTT(30), Z3T(30), ZenonT(40), AreFrames
<1>. QED
  BY Zenon, <1>1, <1>7, <1>8, <1>9, OnlyFrames

LEMMA FetchSomeKeeps ==
  ASSUME IInv, trigger_fetch, FetchCount((active_first_idx + active_cnt) % RingLen) # 0
  PROVE  IInv'
<1>. DEFINE next_idx == (active_first_idx + active_cnt) % RingLen
            cnt == FetchCount(next_idx)
            Taken(p) == active_cnt <= Offset(p) /\ Offset(p) < active_cnt + cnt
            x == [fn |-> "process"]
            y == [fn |-> "fetched", pos |-> At(active_cnt), idx |-> next_idx, i |-> 0, cnt |-> cnt]
<1>1. /\ stack # <<>> /\ Top.fn = "fetch" /\ Reads(Top) = {}
      /\ state' \in [Pos -> States] /\ index' \in [Pos -> Idx]
      /\ \A p \in Pos : state'[p] = IF Taken(p) THEN DESC_FETCHING ELSE state[p]
      /\ \A p \in Pos : index'[p] = IF Taken(p) THEN (active_first_idx + Offset(p)) % RingLen ELSE index[p]
      /\ active_cnt' = active_cnt + cnt
      /\ kind' = kind /\ enabled' = enabled /\ active_first_pos' = active_first_pos
      /\ active_first_idx' = active_first_idx /\ reg_tail' = reg_tail /\ reg_head' = reg_head
      /\ segments' = segments
  BY Zenon, FetchEffect
<1>2. /\ TypeOK /\ WindowInv /\ FetchedInv /\ CallInv /\ active_first_pos \in Pos /\ stack \in Seq(Frames)
      /\ segments \in Seq(Pos) /\ active_first_idx \in Idx
  BY DEF IInv, TypeOK
<1>3. /\ active_cnt \in 0 .. MaxActive /\ cnt \in 0 .. MaxActive /\ active_cnt + cnt <= MaxActive
      /\ next_idx \in Idx /\ next_idx + cnt <= RingLen /\ At(active_cnt) \in Pos
      /\ \A p \in Pos : Offset(p) \in 0 .. MaxActive - 1
  BY Zenon, FetchFacts
<1>4. cnt # 0 /\ Call(x, y)
  BY Zenon DEF trigger_fetch
<1>5. /\ y.fn = "fetched" /\ y.pos = At(active_cnt) /\ y.idx = next_idx /\ y.i = 0 /\ y.cnt = cnt
      /\ x.fn = "process"
  BY SMTT(30), Z3T(30), ZenonT(40)
<1>. HIDE DEF cnt, next_idx
<1>6. active_cnt' \in 0 .. MaxActive /\ cnt \in 1 .. MaxActive /\ 0 \in 0 .. MaxActive
  <2>1. /\ active_cnt' = active_cnt + cnt /\ cnt # 0 /\ MaxActive \in Nat
        /\ active_cnt \in 0 .. MaxActive /\ cnt \in 0 .. MaxActive /\ active_cnt + cnt <= MaxActive
    BY Zenon, <1>1, <1>3, <1>4, Constants
  <2>. QED
    BY <2>1
<1>7. x \in Frames /\ y \in Frames
  BY Zenon, <1>3, <1>6, AreFrames
<1>. HIDE DEF x, y
<1>8. /\ Len(stack) \in Nat \ {0} /\ Top = stack[Len(stack)]
      /\ stack' \in Seq(Frames) /\ Len(stack') = Len(stack) + 1
      /\ \A f \in 1 .. Len(stack) + 1 :
           stack'[f] = IF f < Len(stack) THEN stack[f] ELSE IF f = Len(stack) THEN x ELSE y
  BY ZenonT(40), <1>1, <1>2, <1>4, <1>7, CallStack, TopFrame
<1>9. ASSUME NEW f \in 1 .. Len(stack')
      PROVE  \/ f \in 1 .. Len(stack) - 1 /\ f \in 1 .. Len(stack) /\ stack'[f] = stack[f]
             \/ f = Len(stack) /\ stack'[f] = x
             \/ f = Len(stack') /\ stack'[f] = y /\ f \notin 1 .. Len(stack)
  BY SMTT(30), Z3T(30), ZenonT(40), <1>8
<1>10. /\ \A f \in 1 .. Len(stack) : f = Len(stack) \/ (f \in 1 .. Len(stack') /\ stack'[f] = stack[f])
       /\ Len(stack') \in 1 .. Len(stack') /\ stack'[Len(stack')] = y
  BY SMTT(30), Z3T(30), ZenonT(40), <1>8
<1>11. TypeOK'
  BY Zenon, <1>1, <1>2, <1>6, <1>8 DEF TypeOK
<1>12. Reads(y) = {p \in Pos : Taken(p)}
  <2>1. Reads(y) = {(At(active_cnt) + j) % MaxActive : j \in 0 .. cnt - 1}
    BY Zenon, <1>5 DEF Reads
  <2>. QED
    BY Zenon, <1>2, <1>3, <2>1, FetchedReads
<1>13. \A p \in Pos : Taken(p) => state[p] = DESC_EMPTY
  <2>1. \A p \in Pos : Taken(p) => ~(Offset(p) < active_cnt)
    BY SMTT(30), Z3T(30), ZenonT(40), <1>3, Constants
  <2>. QED
    BY Zenon, <1>2, <2>1 DEF WindowInv
<1>14. ASSUME NEW j \in 0 .. cnt - 1
       PROVE  index'[(At(active_cnt) + j) % MaxActive] = next_idx + j
  <2>. DEFINE p == (At(active_cnt) + j) % MaxActive
  <2>1. p \in Pos /\ Offset(p) = active_cnt + j
    BY Zenon, <1>2, <1>3, FetchedReads
  <2>. HIDE DEF p
  <2>2. Taken(p)
    BY SMTT(30), Z3T(30), ZenonT(40), <1>3, <2>1, Constants
  <2>3. index'[p] = (active_first_idx + (active_cnt + j)) % RingLen
    BY Zenon, <1>1, <2>1, <2>2
  <2>4. /\ active_first_idx + (active_cnt + j) = (active_first_idx + active_cnt) + j
        /\ active_first_idx + active_cnt \in Int /\ j \in Int
    BY SMTT(30), Z3T(30), ZenonT(40), <1>2, <1>3, Constants DEF Idx
  <2>5. (((active_first_idx + active_cnt) % RingLen) + j) % RingLen
          = ((active_first_idx + active_cnt) + j) % RingLen
    BY Zenon, <2>4, AddMod, Constants
  <2>6. index'[p] = (next_idx + j) % RingLen
    BY Zenon, <2>3, <2>4, <2>5 DEF next_idx
  <2>. DEFINE d == next_idx + j
  <2>7. d \in 0 .. RingLen - 1 /\ d \in {d - RingLen, d, d + RingLen}
    BY SMTT(30), Z3T(30), ZenonT(40), <1>3, Constants DEF Idx
  <2>. HIDE DEF d
  <2>8. d % RingLen = d
    BY Zenon, <2>7, ModIs, Constants
  <2>. QED
    BY Zenon, <2>6, <2>8 DEF d, p
<1>. HIDE DEF Taken
<1>15. FetchedInv'
  <2>1. /\ \A f \in 1 .. Len(stack) : \A p \in Reads(stack[f]) :
             p \in Pos /\ state[p] = DESC_FETCHING /\ ~Taken(p)
    BY ZenonT(40), <1>2, <1>13, AllReadsType, StateNumbers DEF FetchedInv
  <2>2. Reads(x) = {}
    BY <1>5 DEF Reads
  <2>3. ASSUME NEW f \in 1 .. Len(stack'), stack'[f].fn = "fetched"
        PROVE  /\ stack'[f].i <= stack'[f].cnt /\ stack'[f].idx + stack'[f].cnt <= RingLen
               /\ \A j \in stack'[f].i .. stack'[f].cnt - 1 :
                    index'[(stack'[f].pos + j) % MaxActive] = stack'[f].idx + j
    <3>1. CASE stack'[f] = y
      <4>1. 0 <= cnt
        BY <1>3
      <4>. QED
        BY Zenon, <1>3, <1>5, <1>14, <3>1, <4>1
    <3>2. CASE f \in 1 .. Len(stack) /\ stack'[f] = stack[f]
      <4>1. ASSUME NEW j \in stack[f].i .. stack[f].cnt - 1
            PROVE  index'[(stack[f].pos + j) % MaxActive] = stack[f].idx + j
        <5>. DEFINE p == (stack[f].pos + j) % MaxActive
        <5>1. p \in Reads(stack[f])
          BY Zenon, <2>3, <3>2 DEF Reads
        <5>2. index'[p] = index[p]
          BY Zenon, <1>1, <2>1, <3>2, <5>1
        <5>. QED
          BY Zenon, <1>2, <2>3, <3>2, <5>2 DEF FetchedInv
      <4>. QED
        BY Zenon, <1>2, <2>3, <3>2, <4>1 DEF FetchedInv
    <3>3. stack'[f] # x
      BY SMTT(30), Z3T(30), ZenonT(40), <1>5, <2>3
    <3>. QED
      BY Zenon, <1>9, <3>1, <3>2, <3>3
  <2>4. ASSUME NEW f \in 1 .. Len(stack'), NEW p \in Reads(stack'[f])
        PROVE  /\ state'[p] = DESC_FETCHING
               /\ \/ f \in 1 .. Len(stack) /\ stack'[f] = stack[f] /\ ~Taken(p)
                  \/ f = Len(stack') /\ Taken(p)
    BY Zenon, <1>1, <1>9, <1>12, <2>1, <2>2, <2>4
  <2>5. ASSUME NEW f \in 1 .. Len(stack'), NEW g \in 1 .. Len(stack'), f # g,
               NEW p \in Reads(stack'[f]), p \in Reads(stack'[g])
        PROVE  FALSE
    BY Zenon, <1>2, <2>4, <2>5 DEF FetchedInv
  <2>6. ASSUME NEW p \in Pos, state'[p] = DESC_FETCHING
        PROVE  \E f \in 1 .. Len(stack') : p \in Reads(stack'[f])
    <3>1. CASE Taken(p)
      BY Zenon, <1>10, <1>12, <3>1
    <3>2. CASE ~Taken(p)
      <4>1. PICK f \in 1 .. Len(stack) : p \in Reads(stack[f])
        BY Zenon, <1>1, <1>2, <2>6, <3>2 DEF FetchedInv
      <4>2. f # Len(stack)
        BY Zenon, <1>1, <1>8, <4>1
      <4>. QED
        BY Zenon, <1>10, <4>1, <4>2
    <3>. QED
      BY SMTT(30), Z3T(30), ZenonT(40), <3>1, <3>2
  <2>. QED
    BY Zenon, <2>3, <2>4, <2>5, <2>6 DEF FetchedInv, Reads
<1>16. CallInv'
  <2>1. Len(segments) <= Len(segments')
    BY SMTT(30), Z3T(30), ZenonT(40), <1>1, <1>2
  <2>2. x.fn # "loop" /\ y.fn # "loop" /\ x.fn # "receive" /\ y.fn # "receive"
    BY SMTT(30), Z3T(30), ZenonT(40), <1>5
  <2>3. kind # "atq" => \A f \in 1 .. Len(stack') : stack'[f].fn # "loop"
    BY Zenon, <1>2, <1>9, <2>2, NoLoopBelow
  <2>4. \A f \in 1 .. Len(stack') :
          stack'[f].fn = "receive" => f \in 1 .. Len(stack) /\ stack'[f] = stack[f]
    BY Zenon, <1>9, <2>2
  <2>. QED
    BY ZenonT(40), <1>1, <1>2, <2>1, <2>3, <2>4, CallKept
<1>. QED
  BY Zenon, <1>11, <1>15, <1>16, FetchKeepsRest DEF IInv

LEMMA TriggerFetchKeeps ==
  ASSUME IInv, trigger_fetch
  PROVE  IInv'
BY Zenon, FetchNothingKeeps, FetchSomeKeeps

-----------------------------------------------------------------------------
(* dma_fetch::done                                                         *)

\* One context less is to be prepared, by the call that prepares it.
LEMMA PrepareEffect ==
  ASSUME IInv, prepare
  PROVE  /\ stack # <<>> /\ Top.fn = "fetched" /\ Len(stack) \in 1 .. Len(stack) /\ Top = stack[Len(stack)]
         /\ UNCHANGED <<kind, enabled, window, reg_tail, reg_head, index, segments>>
         /\ \E x \in Frames, p \in Pos :
              /\ x.fn = "fetched" /\ x.pos = Top.pos /\ x.idx = Top.idx /\ x.cnt = Top.cnt
              /\ x.i = Top.i + 1 /\ x.i <= x.cnt
              /\ Reads(x) = Reads(Top) \ {p} /\ p \in Reads(Top)
              /\ x.i .. x.cnt - 1 \subseteq Top.i .. Top.cnt - 1
              /\ state[p] = DESC_FETCHING /\ state' = [state EXCEPT ![p] = DESC_PREPARED]
              /\ Become(x) \/ (kind # "rx" /\ Call(x, Trigger))
<1>. DEFINE x == [Top EXCEPT !.i = @ + 1]
            p == (Top.pos + Top.i) % MaxActive
<1>1. /\ stack # <<>> /\ Top.fn = "fetched" /\ Top.i < Top.cnt
      /\ state' = [state EXCEPT ![p] = DESC_PREPARED]
      /\ Become(x) \/ (kind # "rx" /\ Call(x, Trigger))
      /\ UNCHANGED <<kind, enabled, window, reg_tail, reg_head, index, segments>>
  BY Zenon DEF prepare, In
<1>2. stack \in Seq(Frames) /\ FetchedInv
  BY DEF IInv, TypeOK
<1>3. Top = stack[Len(stack)] /\ Top \in Frames /\ Len(stack) \in 1 .. Len(stack)
  BY SMTT(30), Z3T(30), ZenonT(40), <1>1, <1>2, TopFrame
<1>4. /\ Top.pos \in Pos /\ Top.idx \in Idx /\ Top.i \in 0 .. MaxActive /\ Top.cnt \in 1 .. MaxActive
      /\ \A n \in 0 .. MaxActive :
           [Top EXCEPT !.i = n] = [fn |-> "fetched", pos |-> Top.pos, idx |-> Top.idx, i |-> n, cnt |-> Top.cnt]
  BY Zenon, <1>1, <1>3, FrameTypes
<1>. DEFINE n == Top.i + 1
<1>5. n \in 0 .. MaxActive
  BY SMTT(30), Z3T(30), ZenonT(40), <1>1, <1>4, Constants
<1>6. x = [fn |-> "fetched", pos |-> Top.pos, idx |-> Top.idx, i |-> n, cnt |-> Top.cnt]
  BY Zenon, <1>4, <1>5
<1>7. /\ x \in Frames
      /\ x.fn = "fetched" /\ x.pos = Top.pos /\ x.idx = Top.idx /\ x.cnt = Top.cnt /\ x.i = n
  BY SMTT(30), Z3T(30), <1>4, <1>5, <1>6, AreFrames
<1>8. /\ n <= Top.cnt /\ n .. Top.cnt - 1 \subseteq Top.i .. Top.cnt - 1 /\ Top.i \in Top.i .. Top.cnt - 1
      /\ \A j \in Top.i .. Top.cnt - 1 : j = Top.i \/ j \in n .. Top.cnt - 1
      /\ \A j \in n .. Top.cnt - 1 : j # Top.i
      /\ \A j \in Top.i .. Top.cnt - 1 : j \in 0 .. MaxActive - 1
  BY SMTT(30), Z3T(30), <1>1, <1>4, Constants
<1>9. MaxActive \in Nat \ {0} /\ Top.pos \in 0 .. MaxActive - 1
  BY <1>4, Constants DEF Pos
<1>10. \A j \in n .. Top.cnt - 1 : (Top.pos + j) % MaxActive # p
  BY ZenonT(40), <1>8, <1>9, Circle
<1>11. p \in Pos
  BY Zenon, <1>8, <1>9, Circle DEF Pos
<1>12. p \in Reads(Top)
  BY Zenon, <1>1, <1>8 DEF Reads
<1>13. state[p] = DESC_FETCHING
  BY Zenon, <1>2, <1>3, <1>12 DEF FetchedInv
<1>14. Reads(x) = {(Top.pos + j) % MaxActive : j \in n .. Top.cnt - 1}
  BY Zenon, <1>7 DEF Reads
<1>15. Reads(Top) = {(Top.pos + j) % MaxActive : j \in Top.i .. Top.cnt - 1}
  BY Zenon, <1>1 DEF Reads
<1>16. Reads(x) = Reads(Top) \ {p}
  BY Zenon, <1>8, <1>10, <1>14, <1>15
<1>. HIDE DEF x, p
<1>17. n = Top.i + 1 /\ x.i <= x.cnt /\ x.i .. x.cnt - 1 \subseteq Top.i .. Top.cnt - 1
  BY Zenon, <1>7, <1>8
<1>. QED
  BY Zenon, <1>1, <1>3, <1>7, <1>11, <1>12, <1>13, <1>16, <1>17

LEMMA PrepareKeeps ==
  ASSUME IInv, prepare
  PROVE  IInv'
<1>1. PICK x \in Frames, p \in Pos :
        /\ x.fn = "fetched" /\ x.pos = Top.pos /\ x.idx = Top.idx /\ x.cnt = Top.cnt
        /\ x.i = Top.i + 1 /\ x.i <= x.cnt
        /\ Reads(x) = Reads(Top) \ {p} /\ p \in Reads(Top)
        /\ x.i .. x.cnt - 1 \subseteq Top.i .. Top.cnt - 1
        /\ state[p] = DESC_FETCHING /\ state' = [state EXCEPT ![p] = DESC_PREPARED]
        /\ Become(x) \/ (kind # "rx" /\ Call(x, Trigger))
  BY Zenon, PrepareEffect
<1>2. /\ stack # <<>> /\ Top.fn = "fetched" /\ Len(stack) \in 1 .. Len(stack) /\ Top = stack[Len(stack)]
      /\ index' = index /\ kind' = kind /\ segments' = segments /\ enabled' = enabled
      /\ active_first_pos' = active_first_pos /\ active_first_idx' = active_first_idx
      /\ active_cnt' = active_cnt /\ reg_tail' = reg_tail /\ reg_head' = reg_head
  <2>1. UNCHANGED <<kind, enabled, window, reg_tail, reg_head, index, segments>>
    BY Zenon, PrepareEffect
  <2>2. stack # <<>> /\ Top.fn = "fetched" /\ Len(stack) \in 1 .. Len(stack) /\ Top = stack[Len(stack)]
    BY Zenon, PrepareEffect
  <2>. QED
    BY SMTT(30), Z3T(30), ZenonT(40), <2>1, <2>2 DEF window
<1>3. /\ TypeOK /\ WindowInv /\ FetchedInv /\ OrderInv /\ SegmentsInv /\ CallInv
      /\ state \in [Pos -> States] /\ segments \in Seq(Pos) /\ stack \in Seq(Frames)
  BY ZenonT(40), SMTT(30), Z3T(30) DEF IInv, TypeOK
<1>4. /\ Trigger \in Frames /\ Trigger.fn = "fetch"
  BY SMTT(30), Z3T(30), ZenonT(40), AreFrames DEF Trigger
<1>5. Reads(Trigger) = {}
  BY SMTT(30), Z3T(30), ZenonT(40), <1>4 DEF Reads
<1>6. /\ stack' \in Seq(Frames) /\ Len(stack') \in {Len(stack), Len(stack) + 1}
      /\ \A f \in 1 .. Len(stack) : stack'[f] = IF f < Len(stack) THEN stack[f] ELSE x
      /\ Len(stack') = Len(stack) + 1 => stack'[Len(stack) + 1] = Trigger
  <2>1. CASE Become(x)
    BY SMTT(30), Z3T(30), <1>2, <1>3, <2>1, BecomeStack
  <2>2. CASE Call(x, Trigger)
    BY SMTT(30), Z3T(30), <1>2, <1>3, <1>4, <2>2, CallStack
  <2>. QED
    BY ZenonT(40), <1>1, <2>1, <2>2
<1>7. ASSUME NEW f \in 1 .. Len(stack')
      PROVE  \/ f \in 1 .. Len(stack) - 1 /\ f \in 1 .. Len(stack) /\ f # Len(stack) /\ stack'[f] = stack[f]
             \/ f = Len(stack) /\ stack'[f] = x
             \/ stack'[f] = Trigger
  BY SMTT(30), Z3T(30), <1>3, <1>6
<1>8. /\ \A f \in 1 .. Len(stack) : f = Len(stack) \/ (f \in 1 .. Len(stack') /\ stack'[f] = stack[f])
      /\ Len(stack) \in 1 .. Len(stack') /\ stack'[Len(stack)] = x
  BY SMTT(30), Z3T(30), <1>2, <1>3, <1>6
<1>9. /\ \A q \in Pos : state'[q] = IF q = p THEN DESC_PREPARED ELSE state[q]
      /\ state' \in [Pos -> States]
  BY ZenonT(40), SMTT(30), Z3T(30), <1>1, <1>3, StateNumbers
<1>10. TypeOK'
  BY Zenon, <1>2, <1>3, <1>6, <1>9 DEF TypeOK
<1>11. WindowInv'
  BY Zenon, <1>1, <1>2, <1>3, <1>9, StateNumbers, WindowKept DEF window
<1>12. OrderInv'
  <2>1. DESC_FETCHING <= DESC_PREPARED /\ DESC_PREPARED <= DESC_PREPARED
    BY DEF DESC_FETCHING, DESC_PREPARED
  <2>. QED
    BY Zenon, <1>1, <1>2, <1>3, <1>9, <2>1, OrderKept
<1>13. SegmentsInv'
  BY ZenonT(40), <1>1, <1>2, <1>3, <1>9, StateNumbers, SegmentsKept
<1>14. CallInv'
  <2>1. Len(segments) <= Len(segments')
    BY SMTT(30), Z3T(30), <1>2, <1>3
  <2>2. x.fn # "loop" /\ x.fn # "receive" /\ Trigger.fn # "loop" /\ Trigger.fn # "receive"
    BY SMTT(30), Z3T(30), ZenonT(40), <1>1, <1>4
  <2>3. kind # "atq" => \A f \in 1 .. Len(stack') : stack'[f].fn # "loop"
    BY Zenon, <1>3, <1>7, <2>2, NoLoopBelow
  <2>4. \A f \in 1 .. Len(stack') :
          stack'[f].fn = "receive" => f \in 1 .. Len(stack) /\ stack'[f] = stack[f]
    BY Zenon, <1>7, <2>2
  <2>. QED
    BY ZenonT(40), <1>2, <1>3, <2>1, <2>3, <2>4, CallKept
<1>15. FetchedInv'
  <2>1. \A f \in 1 .. Len(stack) : \A q \in Reads(stack[f]) : q \in Pos
    BY Zenon, <1>3, AllReadsType
  <2>2. Trigger.fn # "fetched"
    BY SMTT(30), Z3T(30), ZenonT(40), <1>4
  <2>3. ASSUME NEW f \in 1 .. Len(stack'), stack'[f].fn = "fetched"
        PROVE  /\ stack'[f].i <= stack'[f].cnt /\ stack'[f].idx + stack'[f].cnt <= RingLen
               /\ \A j \in stack'[f].i .. stack'[f].cnt - 1 :
                    index'[(stack'[f].pos + j) % MaxActive] = stack'[f].idx + j
    <3>1. CASE f \in 1 .. Len(stack) /\ stack'[f] = stack[f]
      BY ZenonT(40), <1>2, <1>3, <2>3, <3>1 DEF FetchedInv
    <3>2. CASE stack'[f] = x
      <4>1. /\ Top.idx + Top.cnt <= RingLen
            /\ \A j \in Top.i .. Top.cnt - 1 : index[(Top.pos + j) % MaxActive] = Top.idx + j
        BY Zenon, <1>2, <1>3 DEF FetchedInv
      <4>2. \A j \in x.i .. x.cnt - 1 : j \in Top.i .. Top.cnt - 1
        BY Zenon, <1>1
      <4>3. \A j \in x.i .. x.cnt - 1 : index'[(x.pos + j) % MaxActive] = x.idx + j
        BY Zenon, <1>1, <1>2, <4>1, <4>2
      <4>. QED
        BY Zenon, <1>1, <3>2, <4>1, <4>3
    <3>. QED
      BY Zenon, <1>7, <2>2, <2>3, <3>1, <3>2
  <2>4. ASSUME NEW f \in 1 .. Len(stack'), NEW q \in Reads(stack'[f])
        PROVE  f \in 1 .. Len(stack) /\ q \in Reads(stack[f]) /\ q # p /\ q \in Pos
    <3>1. CASE f \in 1 .. Len(stack) /\ f # Len(stack) /\ stack'[f] = stack[f]
      <4>1. q \in Reads(stack[f]) /\ p \in Reads(stack[Len(stack)])
        BY Zenon, <1>1, <1>2, <2>4, <3>1
      <4>2. Reads(stack[f]) \cap Reads(stack[Len(stack)]) = {}
        BY Zenon, <1>2, <1>3, <3>1 DEF FetchedInv
      <4>. QED
        BY Zenon, <2>1, <3>1, <4>1, <4>2
    <3>2. CASE f = Len(stack) /\ stack'[f] = x
      BY Zenon, <1>1, <1>2, <2>1, <2>4, <3>2
    <3>. QED
      BY Zenon, <1>5, <1>7, <2>4, <3>1, <3>2
  <2>5. ASSUME NEW f \in 1 .. Len(stack'), NEW q \in Reads(stack'[f])
        PROVE  state'[q] = DESC_FETCHING
    BY Zenon, <1>3, <1>9, <2>4, <2>5 DEF FetchedInv
  <2>6. ASSUME NEW f \in 1 .. Len(stack'), NEW g \in 1 .. Len(stack'), f # g,
               NEW q \in Reads(stack'[f]), q \in Reads(stack'[g])
        PROVE  FALSE
    BY Zenon, <1>3, <2>4, <2>6 DEF FetchedInv
  <2>7. ASSUME NEW q \in Pos, state'[q] = DESC_FETCHING
        PROVE  \E f \in 1 .. Len(stack') : q \in Reads(stack'[f])
    <3>1. q # p /\ state[q] = DESC_FETCHING
      BY Zenon, <1>9, <2>7, StateNumbers
    <3>2. PICK f \in 1 .. Len(stack) : q \in Reads(stack[f])
      BY Zenon, <1>3, <3>1 DEF FetchedInv
    <3>. QED
      BY Zenon, <1>1, <1>2, <1>8, <3>1, <3>2
  <2>. QED
    BY Zenon, <2>3, <2>5, <2>6, <2>7 DEF FetchedInv, Reads
<1>. QED
  BY Zenon, <1>10, <1>11, <1>12, <1>13, <1>14, <1>15 DEF IInv

-----------------------------------------------------------------------------
(* The invariant holds                                                     *)

LEMMA NextKeeps == IInv /\ [Next]_vars => IInv'
<1>. SUFFICES ASSUME IInv, [Next]_vars PROVE IInv'
  OBVIOUS
<1>1. ASSUME NEW n \in 0 .. RingLen - 1, reg_updated(n) PROVE IInv'
  BY Zenon, <1>1, RegUpdatedKeeps
<1>2. ASSUME NEW n \in 1 .. MaxActive, packet_received(n) PROVE IInv'
  BY Zenon, <1>2, PacketReceivedKeeps
<1>3. CASE reset
  BY Zenon, <1>3, ResetKeeps
<1>4. CASE disable
  BY ZenonT(40), <1>4, DisableKeeps
<1>5. CASE enable
  BY Zenon, <1>5, EnableKeeps
<1>6. CASE trigger_fetch
  BY Zenon, <1>6, TriggerFetchKeeps
<1>7. CASE prepare
  BY Zenon, <1>7, PrepareKeeps
<1>8. CASE prepared_all
  BY Zenon, <1>8, PreparedAllKeeps
<1>9. CASE trigger_process
  BY Zenon, <1>9, TriggerProcessKeeps
<1>10. CASE process
  BY Zenon, <1>10, ProcessKeeps
<1>11. CASE process_break
  BY Zenon, <1>11, ProcessBreakKeeps
<1>12. CASE trigger_writeback
  BY Zenon, <1>12, TriggerWritebackKeeps
<1>13. CASE receive
  BY Zenon, <1>13, ReceiveKeeps
<1>14. CASE UNCHANGED vars
  <2>1. /\ kind' = kind /\ enabled' = enabled /\ active_first_pos' = active_first_pos
        /\ active_first_idx' = active_first_idx /\ active_cnt' = active_cnt /\ reg_tail' = reg_tail
        /\ reg_head' = reg_head /\ state' = state /\ index' = index /\ segments' = segments
        /\ stack' = stack
    BY SMTT(30), Z3T(30), ZenonT(40), <1>14 DEF vars, window
  <2>2. TypeOK' /\ WindowInv'
    BY Zenon, <2>1 DEF IInv, TypeOK, WindowInv, Offset
  <2>3. FetchedInv'
    BY Zenon, <2>1, AllReadsType, FetchedKept DEF IInv, TypeOK
  <2>4. OrderInv'
    BY Zenon, <2>1, OrderKept DEF IInv, TypeOK
  <2>5. SegmentsInv'
    BY Zenon, <2>1 DEF IInv, SegmentsInv, Offset
  <2>6. CallInv'
    BY Zenon, <2>1 DEF IInv, CallInv, Offset
  <2>. QED
    BY Zenon, <2>2, <2>3, <2>4, <2>5, <2>6 DEF IInv
<1>. QED
  BY ZenonT(40), <1>1, <1>2, <1>3, <1>4, <1>5, <1>6, <1>7, <1>8, <1>9, <1>10, <1>11, <1>12, <1>13, <1>14
     DEF Next, Step

\* The inductive invariant holds whatever the ring, the number of contexts and
\* the way the guest resets, disables and enables the queue.
LEMMA InvariantHolds == Spec => []IInv
BY InitInv, NextKeeps, PTL DEF Spec

\* The window, the contexts and the calls of the queue engine stay within their
\* types: active_cnt never exceeds MAX_ACTIVE_DESCS and indices stay in the ring.
THEOREM TypeCorrect == Spec => []TypeOK
<1>1. IInv => TypeOK
  BY DEF IInv
<1>. QED
  BY <1>1, InvariantHolds, PTL

\* trigger_fetch finds the contexts it takes free, as it asserts: those in use
\* are the active_cnt ones from active_first_pos on and stand for consecutive
\* ring entries.  No batch that is read by one DMA crosses the end of the ring.
THEOREM ContextsFollowRing == Spec => []WindowConsecutive
<1>1. IInv => WindowConsecutive
  <2>. SUFFICES ASSUME IInv PROVE WindowConsecutive
    BY SMTT(30), Z3T(30), ZenonT(40)
  <2>1. active_first_pos \in Pos
    BY DEF IInv, TypeOK
  <2>2. ASSUME NEW k \in 0 .. MaxActive - 1
        PROVE  IF k < active_cnt
                 THEN state[At(k)] # DESC_EMPTY /\ index[At(k)] = (active_first_idx + k) % RingLen
                 ELSE state[At(k)] = DESC_EMPTY
    <3>1. At(k) \in Pos /\ Offset(At(k)) = k
      BY Zenon, <2>1, Places
    <3>. QED
      BY Zenon, <3>1 DEF IInv, WindowInv
  <2>3. \A f \in 1 .. Len(stack) :
          stack[f].fn = "fetched" => stack[f].idx + stack[f].cnt <= RingLen
    BY Zenon DEF IInv, FetchedInv
  <2>. QED
    BY Zenon, <2>2, <2>3 DEF WindowConsecutive
<1>. QED
  BY <1>1, InvariantHolds, PTL

\* dcache and ready_segments hold exactly the descriptors whose processing has
\* begun and not ended, in the order of the ring, so that packets are stored in
\* and sent from descriptors in that order.
THEOREM PacketsFollowRing == Spec => []SegmentsInOrder
<1>1. IInv => SegmentsInOrder
  <2>. SUFFICES ASSUME IInv PROVE SegmentsInOrder
    OBVIOUS
  <2>. DEFINE Working == {k \in 0 .. active_cnt - 1 : state[At(k)] = DESC_PROCESSING}
  <2>1. /\ active_first_pos \in Pos /\ active_cnt \in 0 .. MaxActive /\ segments \in Seq(Pos)
        /\ SegmentsInv /\ WindowInv
    BY DEF IInv, TypeOK
  <2>2. \A s \in 1 .. Len(segments) : segments[s] \in Pos
    BY SMTT(30), Z3T(30), ZenonT(40), <2>1
  <2>3. ASSUME NEW s \in 1 .. Len(segments) PROVE Offset(segments[s]) \in Working
    <3>. DEFINE p == segments[s]
    <3>1. p \in Pos /\ state[p] = DESC_PROCESSING
      BY Zenon, <2>1, <2>2 DEF SegmentsInv
    <3>2. Offset(p) < active_cnt
      BY Zenon, <2>1, <3>1, StateNumbers DEF WindowInv
    <3>3. Offset(p) \in 0 .. MaxActive - 1 /\ At(Offset(p)) = p
      BY Zenon, <2>1, <3>1, Places
    <3>4. Offset(p) \in 0 .. active_cnt - 1
      BY SMTT(30), Z3T(30), <2>1, <3>2, <3>3, Constants
    <3>. QED
      BY Zenon, <3>1, <3>3, <3>4
  <2>4. ASSUME NEW k \in Working PROVE \E s \in 1 .. Len(segments) : k = Offset(segments[s])
    <3>1. k \in 0 .. MaxActive - 1 /\ state[At(k)] = DESC_PROCESSING
      BY SMTT(30), Z3T(30), ZenonT(40), <2>1, Constants
    <3>2. At(k) \in Pos /\ Offset(At(k)) = k
      BY Zenon, <2>1, <3>1, Places
    <3>3. PICK s \in 1 .. Len(segments) : segments[s] = At(k)
      BY Zenon, <2>1, <3>1, <3>2 DEF SegmentsInv
    <3>. QED
      BY Zenon, <3>2, <3>3
  <2>5. {Offset(segments[s]) : s \in 1 .. Len(segments)} = Working
    BY Zenon, <2>3, <2>4
  <2>6. \A s, u \in 1 .. Len(segments) : s < u => Offset(segments[s]) < Offset(segments[u])
    BY Zenon, <2>1 DEF SegmentsInv
  <2>. QED
    BY Zenon, <2>5, <2>6 DEF SegmentsInOrder, Offset
<1>. QED
  BY <1>1, InvariantHolds, PTL

-----------------------------------------------------------------------------
(* A queue that is reset before it is enabled, with a ring whose length     *)
(* divides 2^32                                                             *)

Orderly == ~Restarts /\ WordMod % RingLen = 0

\* Giving back or taking c entries at the front of the published ones.
LEMMA PublishedLeft ==
  ASSUME IInv, NEW c \in 0 .. Published
  PROVE  /\ (active_first_idx + c) % RingLen \in Idx
         /\ (reg_tail - ((active_first_idx + c) % RingLen)) % RingLen = Published - c
         /\ Published \in 0 .. RingLen - 1
<1>1. RingLen \in Nat \ {0} /\ active_first_idx \in 0 .. RingLen - 1 /\ reg_tail \in 0 .. RingLen - 1
  BY ZenonT(40), SMTT(30), Z3T(30), Constants DEF IInv, TypeOK, Idx
<1>2. Published \in 0 .. RingLen - 1
  BY Zenon, <1>1, Circle DEF Published
<1>3. c \in 0 .. RingLen /\ Published >= c /\ active_first_idx + c \in Int
  BY SMTT(30), Z3T(30), ZenonT(40), <1>1, <1>2
<1>4. (reg_tail - ((active_first_idx + c) % RingLen)) % RingLen = Published - c
  BY Zenon, <1>1, <1>3, Moves DEF Published
<1>5. (active_first_idx + c) % RingLen \in Idx
  BY Zenon, <1>1, <1>3, ModType DEF Idx
<1>. QED
  BY Zenon, <1>2, <1>4, <1>5

\* What trigger_fetch takes is published and not active yet; nothing means that
\* all is active, or every context in use.
LEMMA FetchesPublished ==
  ASSUME Orderly, IInv, RingInv
  PROVE  /\ active_cnt + FetchCount((active_first_idx + active_cnt) % RingLen) <= Published
         /\ FetchCount((active_first_idx + active_cnt) % RingLen) = 0 => FetchDone
<1>. DEFINE next_idx == (active_first_idx + active_cnt) % RingLen
            a == reg_tail - next_idx
            avail == (a % WordMod) % RingLen
<1>1. /\ active_cnt \in 0 .. MaxActive /\ active_first_idx \in Idx /\ reg_tail \in Idx
      /\ active_cnt <= Published
  BY ZenonT(40), SMTT(30), Z3T(30) DEF IInv, TypeOK, RingInv
<1>2. Published \in 0 .. RingLen - 1
  BY SMTT(30), Z3T(30), ZenonT(40), <1>1, Constants DEF Published, Idx
<1>3. active_cnt \in 0 .. Published
  BY SMTT(30), Z3T(30), ZenonT(40), <1>1, <1>2, Constants
<1>4. next_idx \in Idx /\ a % RingLen = Published - active_cnt
  BY Zenon, <1>3, PublishedLeft
<1>. HIDE DEF next_idx
<1>5. a \in 1 - RingLen .. RingLen - 1
  BY SMTT(30), Z3T(30), ZenonT(40), <1>1, <1>4, Constants DEF Idx
<1>. HIDE DEF a
<1>6. avail = Published - active_cnt
  BY Zenon, <1>4, <1>5, WordDistance, Constants DEF Orderly
<1>. DEFINE cnt == FetchCount(next_idx)
            fetch_cnt == MinOf(avail, MaxActive - active_cnt)
<1>7. cnt = IF next_idx + fetch_cnt > RingLen THEN RingLen - next_idx ELSE fetch_cnt
  BY Zenon DEF FetchCount, a
<1>. HIDE DEF avail, cnt
<1>8. /\ active_cnt + cnt <= Published
      /\ cnt = 0 => active_cnt = Published \/ active_cnt = MaxActive
  BY SMTT(30), Z3T(30), <1>1, <1>2, <1>4, <1>6, <1>7, Constants DEF MinOf, Idx
<1>9. cnt = 0 => FetchDone
  BY SMTT(30), Z3T(30), ZenonT(40), <1>1, <1>2, <1>8, Constants DEF FetchDone, MinOf
<1>. QED
  BY Zenon, <1>8, <1>9 DEF cnt, next_idx

LEMMA RingKept ==
  ASSUME RingInv, UNCHANGED <<active_first_idx, active_cnt, reg_tail, reg_head>>
  PROVE  RingInv'
BY DEF RingInv, Published

\* Nothing is active that the guest has not published.
LEMMA RingNext ==
  ASSUME Orderly, IInv, RingInv, [Next]_vars
  PROVE  RingInv'
<1>1. /\ active_cnt \in 0 .. MaxActive /\ active_first_idx \in Idx /\ reg_tail \in Idx
      /\ active_cnt <= Published /\ reg_head = active_first_idx
  BY SMTT(30), Z3T(30), ZenonT(40) DEF IInv, TypeOK, RingInv
<1>2. Published \in 0 .. RingLen - 1
  BY SMTT(30), Z3T(30), ZenonT(40), <1>1, Constants DEF Published, Idx
<1>3. ASSUME NEW n \in 0 .. RingLen - 1, reg_updated(n) PROVE RingInv'
  <2>1. /\ n <= RingLen - 1 - ((reg_tail - reg_head) % RingLen)
        /\ reg_tail' = (reg_tail + n) % RingLen
        /\ active_first_idx' = active_first_idx /\ active_cnt' = active_cnt /\ reg_head' = reg_head
    BY SMTT(30), Z3T(30), ZenonT(40), <1>3 DEF reg_updated, window
  <2>. DEFINE o == (reg_tail - active_first_idx) % RingLen
  <2>2. o = Published /\ n <= RingLen - 1 - o
    BY Zenon, <1>1, <2>1 DEF Published
  <2>. HIDE DEF o
  <2>3. /\ RingLen \in Nat \ {0} /\ active_first_idx \in 0 .. RingLen - 1 /\ reg_tail \in 0 .. RingLen - 1
        /\ n \in 0 .. RingLen - 1 /\ o + n < RingLen
    BY SMTT(30), Z3T(30), <1>1, <1>2, <2>2, Constants DEF Idx
  <2>4. (((reg_tail + n) % RingLen) - active_first_idx) % RingLen = o + n
    BY Zenon, <2>3, Grows DEF o
  <2>5. Published' = o + n
    BY Zenon, <2>1, <2>4 DEF Published
  <2>6. active_cnt <= o + n
    BY SMTT(30), Z3T(30), <1>1, <1>2, <2>2, Constants
  <2>. QED
    BY Zenon, <1>1, <2>1, <2>5, <2>6 DEF RingInv
<1>4. ASSUME NEW n \in 1 .. MaxActive, packet_received(n) PROVE RingInv'
  BY SMTT(30), Z3T(30), ZenonT(40), <1>4, RingKept DEF packet_received, window
<1>5. CASE reset \/ enable
  <2>1. active_cnt' = 0 /\ active_first_idx' = 0 /\ reg_head' = 0 /\ reg_tail' = 0
    BY SMTT(30), Z3T(30), ZenonT(40), <1>5 DEF Orderly, reset, enable, window
  <2>2. 0 <= (0 - 0) % RingLen
    BY SMTT(30), Z3T(30), ZenonT(40), Constants
  <2>. QED
    BY Zenon, <2>1, <2>2 DEF RingInv, Published
<1>6. CASE disable
  BY SMTT(30), Z3T(30), ZenonT(40), <1>6, RingKept DEF disable, window
<1>7. CASE trigger_fetch
  <2>. DEFINE cnt == FetchCount((active_first_idx + active_cnt) % RingLen)
  <2>1. /\ active_cnt' = active_cnt + cnt /\ active_first_idx' = active_first_idx
        /\ reg_tail' = reg_tail /\ reg_head' = reg_head
    BY SMTT(30), Z3T(30), ZenonT(40), <1>7 DEF trigger_fetch
  <2>2. active_cnt + cnt <= Published
    BY Zenon, FetchesPublished
  <2>. QED
    BY ZenonT(40), <1>1, <2>1, <2>2 DEF RingInv, Published
<1>8. CASE prepare
  BY ZenonT(40), SMTT(30), Z3T(30), <1>8, RingKept DEF prepare, window
<1>9. CASE prepared_all
  BY ZenonT(40), Z3T(30), SMTT(30), <1>9, RingKept DEF prepared_all, window
<1>10. CASE trigger_process
  BY SMTT(30), Z3T(30), ZenonT(40), <1>10, RingKept DEF trigger_process, window
<1>11. CASE process
  BY ZenonT(40), SMTT(30), Z3T(30), <1>11, RingKept DEF process, window
<1>12. CASE process_break
  BY SMTT(30), Z3T(30), ZenonT(40), <1>12, RingKept DEF process_break, window
<1>13. CASE trigger_writeback
  <2>1. CASE UNCHANGED <<kind, enabled, window, reg_tail, reg_head, state, index, segments>>
    BY SMTT(30), Z3T(30), ZenonT(40), <2>1, RingKept DEF window
  <2>2. ASSUME NEW cnt \in 1 .. active_cnt, writeback_done(cnt), UNCHANGED <<kind, enabled, reg_tail, index, segments>>
        PROVE  RingInv'
    <3>1. /\ active_first_idx' = (active_first_idx + cnt) % RingLen /\ reg_head' = active_first_idx'
          /\ active_cnt' = active_cnt - cnt /\ reg_tail' = reg_tail
      BY SMTT(30), Z3T(30), ZenonT(40), <2>2 DEF writeback_done
    <3>2. cnt \in 0 .. Published
      BY SMTT(30), Z3T(30), ZenonT(40), <1>1, <1>2, Constants
    <3>3. Published' = Published - cnt
      BY Zenon, <3>1, <3>2, PublishedLeft DEF Published
    <3>4. active_cnt - cnt <= Published - cnt
      BY SMTT(30), Z3T(30), ZenonT(40), <1>1, <1>2, Constants
    <3>. QED
      BY Zenon, <3>1, <3>3, <3>4 DEF RingInv
  <2>. QED
    BY Zenon, <1>13, <2>1, <2>2, WritebackCases
<1>14. CASE receive
  BY ZenonT(40), SMTT(30), Z3T(30), <1>14, RingKept DEF receive, window
<1>15. CASE UNCHANGED vars
  BY SMTT(30), Z3T(30), ZenonT(40), <1>15, RingKept DEF vars, window
<1>. QED
  BY ZenonT(40), <1>3, <1>4, <1>5, <1>6, <1>7, <1>8, <1>9, <1>10, <1>11, <1>12, <1>13, <1>14, <1>15
     DEF Next, Step

\* After trigger has been called, or while descriptors are prepared, everything
\* is still going to be done.
LEMMA BusyProgress ==
  ASSUME stack' # <<>>, Top'.fn \in {"fetch", "fetched"}
  PROVE  ProgressInv'
<1>1. /\ Top'.fn # "process" /\ Top'.fn # "loop" /\ Top'.fn # "writeback" /\ Top'.fn # "receive"
  OBVIOUS
<1>. QED
  BY Zenon, <1>1 DEF ProgressInv, In

\* When nothing is left to do, any caller may go on.
LEMMA QuietProgress ==
  ASSUME Quiet, UNCHANGED <<window, reg_tail, state>>
  PROVE  Quiet' /\ ProgressInv'
<1>1. Quiet'
  <2>1. /\ active_first_pos' = active_first_pos /\ active_first_idx' = active_first_idx
        /\ active_cnt' = active_cnt /\ reg_tail' = reg_tail /\ state' = state
    BY DEF window
  <2>2. FetchDone'
    BY Zenon, <2>1 DEF Quiet, FetchDone, Published, MinOf
  <2>3. ProcessDone'
    BY Zenon, <2>1 DEF Quiet, ProcessDone, Offset
  <2>. QED
    BY Zenon, <2>1, <2>2, <2>3 DEF Quiet
<1>. QED
  BY Zenon, <1>1 DEF ProgressInv, Quiet

\* One iteration of trigger_process.
LEMMA ProcessProgress ==
  ASSUME IInv, ProgressInv, process
  PROVE  ProgressInv'
<1>. DEFINE at == Top.at
            p == At(Top.at)
            x == [fn |-> "loop", at |-> Top.at + 1]
<1>1. /\ stack # <<>> /\ Top.fn = "loop" /\ at \in 0 .. MaxActive - 1 /\ at + 1 <= active_cnt
      /\ p \in Pos /\ Offset(p) = at /\ state[p] = DESC_PREPARED /\ x \in Frames
      /\ process_admin(p, x) \/ process_rx(p, x) \/ process_tx(p, x)
      /\ UNCHANGED <<kind, enabled, window, reg_tail, reg_head, index>>
  BY Zenon, LoopFacts
<1>2. /\ active_first_pos' = active_first_pos /\ active_first_idx' = active_first_idx
      /\ active_cnt' = active_cnt /\ reg_tail' = reg_tail
  BY ZenonT(40), SMTT(30), Z3T(30), <1>1 DEF window
<1>3. /\ stack \in Seq(Frames) /\ state \in [Pos -> States] /\ SegmentsInv /\ segments \in Seq(Pos)
      /\ active_first_pos \in Pos /\ active_cnt \in 0 .. MaxActive
  BY DEF IInv, TypeOK
<1>4. CASE Call(x, Trigger)
  <2>1. Trigger \in Frames /\ Trigger.fn = "fetch"
    BY ZenonT(40), SMTT(30), Z3T(30), AreFrames DEF Trigger
  <2>2. stack' # <<>> /\ Top' = Trigger
    BY Zenon, <1>1, <1>3, <1>4, <2>1, CallStack
  <2>3. Top'.fn \in {"fetch", "fetched"}
    BY Zenon, <2>1, <2>2
  <2>. QED
    BY ZenonT(40), <2>2, <2>3, BusyProgress
<1>5. CASE Become(x)
  <2>1. stack' # <<>> /\ Top' = x
    BY Zenon, <1>1, <1>3, <1>5, BecomeStack
  <2>2. Top'.fn = "loop" /\ Top'.at = at + 1
    BY SMTT(30), Z3T(30), ZenonT(40), <2>1
  <2>3. /\ state'[p] \in {DESC_PROCESSING, DESC_PROCESSED}
        /\ \A q \in Pos : \/ state'[q] = state[q]
                          \/ q = p
                          \/ state[q] = DESC_PROCESSING /\ state'[q] = DESC_PROCESSED
    <3>1. CASE state' = [state EXCEPT ![p] = DESC_PROCESSED]
      BY ZenonT(40), SMTT(30), Z3T(30), <1>1, <1>3, <3>1
    <3>2. CASE state' = [state EXCEPT ![p] = DESC_PROCESSING]
      BY SMTT(30), Z3T(30), ZenonT(40), <1>1, <1>3, <3>2
    <3>3. CASE state' = [q \in Pos |-> IF q = p \/ \E s \in 1 .. Len(segments) : segments[s] = q
                                         THEN DESC_PROCESSED ELSE state[q]]
      <4>1. \A q \in Pos : (\E s \in 1 .. Len(segments) : segments[s] = q) => state[q] = DESC_PROCESSING
        BY Zenon, <1>3 DEF SegmentsInv
      <4>. QED
        BY Zenon, <1>1, <3>3, <4>1
    <3>. QED
      BY ZenonT(40), <1>1, <3>1, <3>2, <3>3 DEF process_admin, process_rx, process_tx
  <2>4. FetchDone'
    BY Zenon, <1>1, <1>2 DEF ProgressInv, In, FetchDone, Published, MinOf
  <2>5. CASE ProcessDone
    <3>1. ASSUME NEW r \in Pos, state'[r] = DESC_PREPARED
          PROVE  \E q \in Pos : Offset(q) < Offset(r) /\ state'[q] = DESC_FETCHING
      <4>1. state[r] = DESC_PREPARED
        BY Zenon, <2>3, <3>1, StateNumbers
      <4>2. PICK q \in Pos : Offset(q) < Offset(r) /\ state[q] = DESC_FETCHING
        BY Zenon, <2>5, <4>1 DEF ProcessDone
      <4>3. state'[q] = DESC_FETCHING
        BY Zenon, <1>1, <2>3, <4>2, StateNumbers
      <4>. QED
        BY Zenon, <4>2, <4>3
    <3>2. ProcessDone'
      BY Zenon, <1>2, <3>1 DEF ProcessDone, Offset
    <3>3. Top'.fn # "process" /\ Top'.fn # "writeback" /\ Top'.fn # "receive"
      BY SMTT(30), Z3T(30), ZenonT(40), <2>2
    <3>. QED
      BY Zenon, <2>1, <2>4, <3>2, <3>3 DEF ProgressInv, In
  <2>6. CASE \A q \in Pos : Offset(q) < at => state[q] > DESC_PREPARED
    <3>1. ASSUME NEW q \in Pos, Offset(q) < at + 1
          PROVE  state'[q] > DESC_PREPARED
      <4>1. /\ DESC_PROCESSED > DESC_PREPARED /\ DESC_PROCESSING > DESC_PREPARED
        BY DEF DESC_PREPARED, DESC_PROCESSED, DESC_PROCESSING
      <4>2. Offset(q) \in 0 .. MaxActive - 1
        BY ZenonT(40), <1>3, Places
      <4>3. Offset(q) < at \/ Offset(q) = at
        BY SMTT(30), Z3T(30), <1>1, <3>1, <4>2, Constants
      <4>4. CASE Offset(q) = at
        <5>1. q = p
          BY Zenon, <1>1, <1>3, <4>4, SamePlace
        <5>. QED
          BY Zenon, <2>3, <4>1, <5>1
      <4>5. CASE Offset(q) < at /\ q # p
        BY Zenon, <2>3, <2>6, <4>1, <4>5
      <4>. QED
        BY Zenon, <1>1, <4>3, <4>4, <4>5
    <3>2. \A q \in Pos : Offset(q)' < Top'.at => state'[q] > DESC_PREPARED
      BY Zenon, <1>2, <2>2, <3>1 DEF Offset
    <3>3. Top'.fn # "process" /\ Top'.fn # "writeback" /\ Top'.fn # "receive"
      BY <2>2
    <3>4. Top'.at <= active_cnt'
      BY Zenon, <1>1, <1>2, <2>2
    <3>. QED
      BY Zenon, <2>1, <2>4, <3>2, <3>3, <3>4 DEF ProgressInv, In
  <2>. QED
    BY Zenon, <1>1, <2>5, <2>6 DEF ProgressInv, In
<1>. QED
  BY Zenon, <1>1, <1>4, <1>5 DEF process_admin, process_rx, process_tx

\* When the loop of trigger_process ends, a descriptor that is prepared waits
\* for an earlier one, or there is one to be written back.
LEMMA BreakProgress ==
  ASSUME IInv, ProgressInv, process_break
  PROVE  ProgressInv'
<1>. DEFINE at == Top.at
            x == [fn |-> "writeback"]
<1>1. /\ stack # <<>> /\ Top.fn = "loop" /\ Become(x)
      /\ ~(at < active_cnt /\ state[At(at)] = DESC_PREPARED)
      /\ UNCHANGED <<kind, enabled, window, reg_tail, reg_head, state, index, segments>>
  BY Zenon DEF process_break, In
<1>2. /\ active_first_pos' = active_first_pos /\ active_first_idx' = active_first_idx
      /\ active_cnt' = active_cnt /\ reg_tail' = reg_tail /\ state' = state
  BY ZenonT(40), SMTT(30), Z3T(30), <1>1 DEF window
<1>3. /\ stack \in Seq(Frames) /\ state \in [Pos -> States] /\ WindowInv /\ OrderInv /\ CallInv
      /\ active_first_pos \in Pos /\ active_cnt \in 0 .. MaxActive
  BY DEF IInv, TypeOK
<1>4. x \in Frames
  BY Zenon, AreFrames
<1>5. stack' # <<>> /\ Top' = x
  BY Zenon, <1>1, <1>3, <1>4, BecomeStack
<1>6. Top'.fn # "process" /\ Top'.fn # "loop" /\ Top'.fn # "receive"
  BY SMTT(30), Z3T(30), ZenonT(40), <1>5
<1>7. FetchDone
  BY Zenon, <1>1 DEF ProgressInv, In
<1>8. ProcessDone \/ state[active_first_pos] = DESC_PROCESSED
  <2>. SUFFICES ASSUME at <= active_cnt, \A q \in Pos : Offset(q) < at => state[q] > DESC_PREPARED
                PROVE  ProcessDone \/ state[active_first_pos] = DESC_PROCESSED
    BY Zenon, <1>1 DEF ProgressInv, In
  <2>1. at \in 0 .. MaxActive
    BY Zenon, <1>1, <1>3, TopFrame, FrameTypes
  <2>2. /\ \A q \in Pos : Offset(q) \in 0 .. MaxActive - 1
        /\ \A k \in 0 .. MaxActive - 1 : At(k) \in Pos /\ Offset(At(k)) = k
        /\ Offset(active_first_pos) = 0
    BY Zenon, <1>3, Places
  <2>3. ASSUME NEW r \in Pos, state[r] = DESC_PREPARED
        PROVE  at <= Offset(r) /\ Offset(r) < active_cnt
    <3>1. ~(Offset(r) < at)
      BY Zenon, <1>3, <2>3, StateNumbers
    <3>2. Offset(r) < active_cnt
      BY Zenon, <1>3, <2>3, StateNumbers DEF WindowInv
    <3>. QED
      BY SMTT(30), Z3T(30), <2>1, <2>2, <3>1, <3>2, Constants
  <2>4. CASE at = active_cnt
    <3>1. \A r \in Pos : ~(active_cnt <= Offset(r) /\ Offset(r) < active_cnt)
      BY SMTT(30), Z3T(30), <1>3, <2>2, Constants
    <3>. QED
      BY Zenon, <2>3, <2>4, <3>1 DEF ProcessDone
  <2>5. CASE at < active_cnt
    <3>1. at \in 0 .. MaxActive - 1
      BY SMTT(30), Z3T(30), <1>3, <2>1, <2>5, Constants
    <3>. DEFINE b == At(at)
    <3>2. b \in Pos /\ Offset(b) = at /\ state[b] # DESC_PREPARED /\ state[b] # DESC_EMPTY
      BY Zenon, <1>1, <1>3, <2>2, <2>5, <3>1 DEF WindowInv
    <3>. HIDE DEF b
    <3>3. CASE state[b] = DESC_FETCHING
      <4>1. \A r \in Pos : at <= Offset(r) => Offset(r) = at \/ at < Offset(r)
        BY SMTT(30), Z3T(30), <2>1, <2>2, Constants
      <4>2. ASSUME NEW r \in Pos, state[r] = DESC_PREPARED
            PROVE  Offset(b) < Offset(r)
        <5>1. Offset(r) # at
          BY Zenon, <1>3, <3>2, <4>2, SamePlace
        <5>. QED
          BY Zenon, <2>3, <3>2, <4>1, <4>2, <5>1
      <4>. QED
        BY Zenon, <3>2, <3>3, <4>2 DEF ProcessDone
    <3>4. CASE state[b] > DESC_PREPARED
      <4>1. kind = "atq"
        <5>1. CASE kind # "atq"
          <6>1. Len(stack) \in 1 .. Len(stack) /\ Top = stack[Len(stack)]
            BY SMTT(30), Z3T(30), <1>1, <1>3, TopFrame
          <6>2. Offset(b) < at
            BY Zenon, <1>1, <1>3, <3>2, <3>4, <5>1, <6>1 DEF CallInv
          <6>. QED
            BY SMTT(30), Z3T(30), <2>1, <3>2, <6>2, Constants
        <5>. QED
          BY ZenonT(40), SMTT(30), Z3T(30), <5>1
      <4>2. state[active_first_pos] > DESC_PREPARED
        <5>1. CASE at = 0
          BY Zenon, <1>3, <2>2, <3>2, <3>4, <5>1, SamePlace
        <5>2. CASE at # 0
          <6>1. Offset(active_first_pos) < at
            BY SMTT(30), Z3T(30), <2>1, <2>2, <5>2, Constants
          <6>. QED
            BY Zenon, <1>3, <6>1
        <5>. QED
          BY ZenonT(40), SMTT(30), Z3T(30), <5>1, <5>2
      <4>3. state[active_first_pos] \in {DESC_PROCESSING, DESC_PROCESSED}
        BY Zenon, <1>3, <4>2, StateNumbers
      <4>. QED
        BY Zenon, <1>3, <4>1, <4>3 DEF OrderInv
    <3>. QED
      BY Zenon, <1>3, <3>2, <3>3, <3>4, StateNumbers
  <2>. QED
    BY SMTT(30), Z3T(30), <1>3, <2>1, <2>4, <2>5, Constants
<1>9. FetchDone'
  BY Zenon, <1>2, <1>7 DEF FetchDone, Published, MinOf
<1>10. (ProcessDone \/ state[active_first_pos] = DESC_PROCESSED)'
  BY Zenon, <1>2, <1>8 DEF ProcessDone, Offset
<1>. QED
  BY Zenon, <1>5, <1>6, <1>9, <1>10 DEF ProgressInv, In

\* Whoever returns leaves nothing to do that no caller does.
LEMMA ProgressNext ==
  ASSUME Orderly, IInv, RingInv, ProgressInv, [Next]_vars
  PROVE  ProgressInv'
<1>1. stack \in Seq(Frames) /\ active_first_pos \in Pos /\ active_cnt \in 0 .. MaxActive
  BY ZenonT(40), SMTT(30), Z3T(30) DEF IInv, TypeOK
<1>2. Trigger \in Frames /\ Trigger.fn \in {"fetch", "fetched"}
  BY AreFrames DEF Trigger
<1>3. ASSUME stack' = <<Trigger>> \/ stack' = <<Trigger, Trigger>> PROVE ProgressInv'
  <2>1. stack' # <<>> /\ Top' = Trigger
    <3>1. CASE stack' = <<Trigger>>
      BY ZenonT(40), SMTT(30), Z3T(30), <3>1 DEF Top
    <3>2. CASE stack' = <<Trigger, Trigger>>
      BY SMTT(30), Z3T(30), <3>2 DEF Top
    <3>. QED
      BY Zenon, <1>3, <3>1, <3>2
  <2>. QED
    BY Zenon, <1>2, <2>1, BusyProgress
<1>4. ASSUME stack # <<>>, Become(Trigger) PROVE ProgressInv'
  <2>1. stack' # <<>> /\ Top' = Trigger
    BY Zenon, <1>1, <1>2, <1>4, BecomeStack
  <2>. QED
    BY Zenon, <1>2, <2>1, BusyProgress
<1>5. ASSUME stack # <<>>, NEW x \in Frames, Call(x, Trigger) PROVE ProgressInv'
  <2>1. stack' # <<>> /\ Top' = Trigger
    BY Zenon, <1>1, <1>2, <1>5, CallStack
  <2>. QED
    BY Zenon, <1>2, <2>1, BusyProgress
<1>6. ASSUME NEW n \in 0 .. RingLen - 1, reg_updated(n) PROVE ProgressInv'
  BY Zenon, <1>3, <1>6 DEF reg_updated
<1>7. ASSUME NEW n \in 1 .. MaxActive, packet_received(n) PROVE ProgressInv'
  <2>1. Quiet
    BY Zenon, <1>7 DEF packet_received, ProgressInv
  <2>2. UNCHANGED <<window, reg_tail, state>>
    BY SMTT(30), Z3T(30), ZenonT(40), <1>7 DEF packet_received
  <2>. QED
    BY Zenon, <2>1, <2>2, QuietProgress
<1>8. CASE reset \/ disable
  <2>1. stack' = <<>> /\ enabled' = FALSE
    BY <1>8 DEF reset, disable
  <2>. QED
    BY Zenon, <2>1 DEF ProgressInv, In
<1>9. CASE enable
  BY Zenon, <1>3, <1>9 DEF enable
<1>10. CASE trigger_fetch
  <2>. DEFINE next_idx == (active_first_idx + active_cnt) % RingLen
              cnt == FetchCount(next_idx)
              x == [fn |-> "process"]
              y == [fn |-> "fetched", pos |-> At(active_cnt), idx |-> next_idx, i |-> 0, cnt |-> cnt]
  <2>1. stack # <<>>
    BY Zenon, <1>10 DEF trigger_fetch, In
  <2>2. CASE cnt = 0
    <3>1. /\ Become(x)
          /\ UNCHANGED <<kind, enabled, window, reg_tail, reg_head, state, index, segments>>
      BY Zenon, <1>10, <2>2, FetchNothingKeeps
    <3>2. x \in Frames
      BY Zenon, AreFrames
    <3>3. stack' # <<>> /\ Top' = x
      BY Zenon, <1>1, <2>1, <3>1, <3>2, BecomeStack
    <3>4. Top'.fn # "loop" /\ Top'.fn # "writeback" /\ Top'.fn # "receive"
      BY ZenonT(40), SMTT(30), Z3T(30), <3>3
    <3>5. active_first_idx' = active_first_idx /\ active_cnt' = active_cnt /\ reg_tail' = reg_tail
      BY SMTT(30), Z3T(30), ZenonT(40), <3>1 DEF window
    <3>6. FetchDone
      BY Zenon, <2>2, FetchesPublished
    <3>7. FetchDone'
      BY Zenon, <3>5, <3>6 DEF FetchDone, Published, MinOf
    <3>. QED
      BY Zenon, <3>3, <3>4, <3>7 DEF ProgressInv, In
  <2>3. CASE cnt # 0
    <3>1. Call(x, y)
      BY Zenon, <1>10, <2>3 DEF trigger_fetch
    <3>2. cnt \in 0 .. MaxActive /\ next_idx \in Idx /\ At(active_cnt) \in Pos
      BY Zenon, FetchFacts
    <3>3. y.fn = "fetched"
      BY SMTT(30), Z3T(30), ZenonT(40)
    <3>. HIDE DEF cnt, next_idx
    <3>4. cnt \in 1 .. MaxActive /\ 0 \in 0 .. MaxActive
      BY SMTT(30), Z3T(30), ZenonT(40), <2>3, <3>2, Constants
    <3>5. x \in Frames /\ y \in Frames
      BY Zenon, <3>2, <3>4, AreFrames
    <3>. HIDE DEF x, y
    <3>6. stack' # <<>> /\ Top' = y
      BY Zenon, <1>1, <2>1, <3>1, <3>5, CallStack
    <3>7. Top'.fn \in {"fetch", "fetched"}
      BY SMTT(30), Z3T(30), ZenonT(40), <3>3, <3>6
    <3>. QED
      BY Zenon, <3>6, <3>7, BusyProgress
  <2>. QED
    BY SMTT(30), Z3T(30), ZenonT(40), <2>2, <2>3
<1>11. CASE prepare
  <2>1. PICK x \in Frames : x.fn = "fetched" /\ (Become(x) \/ Call(x, Trigger))
    BY Zenon, <1>11, PrepareEffect
  <2>2. stack # <<>>
    BY Zenon, <1>11 DEF prepare, In
  <2>3. CASE Become(x)
    <3>1. stack' # <<>> /\ Top' = x
      BY Zenon, <1>1, <2>2, <2>3, BecomeStack
    <3>2. Top'.fn \in {"fetch", "fetched"}
      BY SMTT(30), Z3T(30), ZenonT(40), <2>1, <3>1
    <3>. QED
      BY Zenon, <3>1, <3>2, BusyProgress
  <2>. QED
    BY Zenon, <1>5, <2>1, <2>2, <2>3
<1>12. CASE prepared_all
  BY Zenon, <1>4, <1>12 DEF prepared_all, In
<1>13. CASE trigger_process
  <2>1. PICK first \in 0 .. active_cnt :
          /\ stack # <<>> /\ Top.fn = "process"
          /\ \A k \in 0 .. first - 1 : state[At(k)] > DESC_PREPARED
          /\ Become([fn |-> "loop", at |-> first])
          /\ UNCHANGED <<kind, enabled, window, reg_tail, reg_head, state, index, segments>>
    BY Zenon, <1>13 DEF trigger_process, In
  <2>. DEFINE x == [fn |-> "loop", at |-> first]
  <2>2. first \in 0 .. MaxActive /\ first <= active_cnt
    BY SMTT(30), Z3T(30), ZenonT(40), <1>1, Constants
  <2>3. x \in Frames
    BY Zenon, <2>2, AreFrames
  <2>4. stack' # <<>> /\ Top' = x
    BY Zenon, <1>1, <2>1, <2>3, BecomeStack
  <2>5. Top'.fn # "process" /\ Top'.fn # "writeback" /\ Top'.fn # "receive" /\ Top'.at = first
    BY ZenonT(40), SMTT(30), Z3T(30), <2>4
  <2>6. /\ active_first_pos' = active_first_pos /\ active_first_idx' = active_first_idx
        /\ active_cnt' = active_cnt /\ reg_tail' = reg_tail /\ state' = state
    BY SMTT(30), Z3T(30), ZenonT(40), <2>1 DEF window
  <2>7. FetchDone
    BY Zenon, <2>1 DEF ProgressInv, In
  <2>8. FetchDone'
    BY Zenon, <2>6, <2>7 DEF FetchDone, Published, MinOf
  <2>9. ASSUME NEW q \in Pos, Offset(q) < first PROVE state[q] > DESC_PREPARED
    <3>1. Offset(q) \in 0 .. MaxActive - 1 /\ At(Offset(q)) = q
      BY Zenon, <1>1, Places
    <3>2. Offset(q) \in 0 .. first - 1
      BY SMTT(30), Z3T(30), ZenonT(40), <2>2, <2>9, <3>1, Constants
    <3>. QED
      BY Zenon, <2>1, <3>1, <3>2
  <2>10. \A q \in Pos : Offset(q)' < Top'.at => state'[q] > DESC_PREPARED
    BY Zenon, <2>5, <2>6, <2>9 DEF Offset
  <2>. QED
    BY Zenon, <2>2, <2>4, <2>5, <2>6, <2>8, <2>10 DEF ProgressInv, In
<1>14. CASE process
  BY Zenon, <1>14, ProcessProgress
<1>15. CASE process_break
  BY Zenon, <1>15, BreakProgress
<1>16. CASE trigger_writeback
  <2>1. stack # <<>> /\ Top.fn = "writeback"
    BY Zenon, <1>16, WritebackCases DEF In
  <2>2. CASE /\ state[active_first_pos] # DESC_PROCESSED
             /\ UNCHANGED <<kind, enabled, window, reg_tail, reg_head, state, index, segments>>
    <3>1. Quiet
      BY Zenon, <2>1, <2>2 DEF ProgressInv, In, Quiet
    <3>2. UNCHANGED <<window, reg_tail, state>>
      BY SMTT(30), Z3T(30), ZenonT(40), <2>2
    <3>. QED
      BY Zenon, <3>1, <3>2, QuietProgress
  <2>3. ASSUME NEW cnt \in 1 .. active_cnt, writeback_done(cnt) PROVE ProgressInv'
    BY Zenon, <1>4, <2>1, <2>3 DEF writeback_done
  <2>. QED
    BY Zenon, <1>16, <2>2, <2>3, WritebackCases
<1>17. CASE receive
  <2>1. stack # <<>> /\ Top.fn = "receive" /\ UNCHANGED <<window, reg_tail>>
    BY SMTT(30), Z3T(30), ZenonT(40), <1>17 DEF receive, In
  <2>2. Quiet
    BY Zenon, <2>1 DEF ProgressInv, In
  <2>3. CASE Top.left = 0
    <3>1. UNCHANGED <<window, reg_tail, state>>
      BY SMTT(30), Z3T(30), ZenonT(40), <1>17, <2>3 DEF receive
    <3>. QED
      BY Zenon, <2>2, <3>1, QuietProgress
  <2>4. CASE Top.left # 0
    <3>. DEFINE n == Top.left - 1
                x == [Top EXCEPT !.left = n]
    <3>1. Call(x, Trigger)
      BY Zenon, <1>17, <2>4 DEF receive
    <3>2. Top \in Frames
      BY Zenon, <1>1, <2>1, TopFrame
    <3>3. /\ Top.left \in 0 .. MaxActive
          /\ \A m \in 0 .. MaxActive : [Top EXCEPT !.left = m] = [fn |-> "receive", left |-> m]
      BY Zenon, <2>1, <3>2, FrameTypes
    <3>4. n \in 0 .. MaxActive
      BY SMTT(30), Z3T(30), <2>4, <3>3, Constants
    <3>5. x \in Frames
      BY Zenon, <3>3, <3>4, AreFrames
    <3>. QED
      BY Zenon, <1>5, <2>1, <3>1, <3>5
  <2>. QED
    BY SMTT(30), Z3T(30), ZenonT(40), <2>3, <2>4
<1>18. CASE UNCHANGED vars
  <2>1. /\ active_first_pos' = active_first_pos /\ active_first_idx' = active_first_idx
        /\ active_cnt' = active_cnt /\ reg_tail' = reg_tail /\ state' = state
        /\ stack' = stack /\ enabled' = enabled
    BY SMTT(30), Z3T(30), ZenonT(40), <1>18 DEF vars, window
  <2>2. /\ FetchDone' <=> FetchDone
        /\ ProcessDone' <=> ProcessDone
    BY Zenon, <2>1 DEF FetchDone, Published, MinOf, ProcessDone, Offset
  <2>3. Quiet' <=> Quiet
    BY Zenon, <2>1, <2>2 DEF Quiet
  <2>. QED
    BY ZenonT(40), <2>1, <2>2, <2>3 DEF ProgressInv, In, Top, Offset
<1>. QED
  BY ZenonT(40), <1>6, <1>7, <1>8, <1>9, <1>10, <1>11, <1>12, <1>13, <1>14, <1>15, <1>16, <1>17, <1>18
     DEF Next, Step

LEMMA InitProgress == Init => PInv
<1>. SUFFICES ASSUME Init PROVE PInv
  OBVIOUS
<1>1. Published = 0
  BY SMTT(30), Z3T(30), ZenonT(40), Constants DEF Init, Published
<1>2. RingInv
  BY SMTT(30), Z3T(30), ZenonT(40), <1>1 DEF Init, RingInv
<1>3. FetchDone
  BY SMTT(30), Z3T(30), <1>1, Constants DEF Init, FetchDone, MinOf
<1>4. active_first_pos \in Pos
  BY SMTT(30), Z3T(30), ZenonT(40), Constants DEF Init, Pos
<1>5. \A p \in Pos : state[p] = DESC_EMPTY
  BY DEF Init
<1>6. ProcessDone /\ state[active_first_pos] # DESC_PROCESSED
  BY Zenon, <1>4, <1>5, StateNumbers DEF ProcessDone
<1>7. stack = <<>>
  BY DEF Init
<1>. QED
  BY Zenon, <1>2, <1>3, <1>6, <1>7 DEF PInv, ProgressInv, Quiet, In

LEMMA ProgressHolds == Orderly /\ Spec => []PInv
<1>. SUFFICES ASSUME Orderly PROVE Spec => []PInv
  OBVIOUS
<1>1. IInv /\ PInv /\ [Next]_vars => PInv'
  BY Zenon, RingNext, ProgressNext DEF PInv
<1>. QED
  BY <1>1, InitProgress, InvariantHolds, PTL DEF Spec

\* trigger_fetch never reads an entry the guest has not published or has been
\* given back, if the guest resets a queue before it enables it again and the
\* length of its ring divides 2^32 (the index arithmetic wraps there first).
THEOREM OnlyPublishedRead == Orderly /\ Spec => []ReadsPublished
<1>. SUFFICES ASSUME Orderly PROVE Spec => []ReadsPublished
  OBVIOUS
<1>1. IInv /\ PInv => ReadsPublished
  <2>. SUFFICES ASSUME IInv, PInv, NEW f \in 1 .. Len(stack), stack[f].fn = "fetched",
                       NEW k \in stack[f].i .. stack[f].cnt - 1
                PROVE  (stack[f].idx + k - reg_head) % RingLen < (reg_tail - reg_head) % RingLen
    BY Zenon DEF ReadsPublished
  <2>1. /\ active_cnt \in 0 .. MaxActive /\ active_first_idx \in Idx /\ reg_tail \in Idx
        /\ active_first_pos \in Pos /\ active_cnt <= Published /\ reg_head = active_first_idx
        /\ stack \in Seq(Frames) /\ FetchedInv /\ WindowInv
    BY ZenonT(40), SMTT(30), Z3T(30) DEF IInv, TypeOK, PInv, RingInv
  <2>2. Published \in 0 .. RingLen - 1
    BY SMTT(30), Z3T(30), <2>1, Constants DEF Published, Idx
  <2>. DEFINE p == (stack[f].pos + k) % MaxActive
              o == Offset(p)
  <2>3. p \in Reads(stack[f])
    BY Zenon DEF Reads
  <2>4. p \in Pos /\ state[p] = DESC_FETCHING /\ index[p] = stack[f].idx + k
    BY Zenon, <2>1, <2>3, AllReadsType DEF FetchedInv
  <2>. HIDE DEF p
  <2>5. o < active_cnt /\ index[p] = (active_first_idx + o) % RingLen
    BY Zenon, <2>1, <2>4, StateNumbers DEF WindowInv
  <2>6. o \in 0 .. MaxActive - 1
    BY Zenon, <2>1, <2>4, Places
  <2>. HIDE DEF o
  <2>7. o \in 0 .. RingLen - 1 /\ o < Published
    BY SMTT(30), Z3T(30), <2>1, <2>2, <2>5, <2>6, Constants
  <2>8. RingLen \in Nat \ {0} /\ active_first_idx \in 0 .. RingLen - 1
    BY SMTT(30), Z3T(30), ZenonT(40), <2>1, Constants DEF Idx
  <2>9. (((active_first_idx + o) % RingLen) - active_first_idx) % RingLen = o
    BY ZenonT(40), <2>7, <2>8, Circle
  <2>10. stack[f].idx + k = (active_first_idx + o) % RingLen
    BY Zenon, <2>4, <2>5
  <2>11. (stack[f].idx + k - reg_head) % RingLen = o
    <3>1. stack[f] \in Frames
      BY Zenon, <2>1, AllReadsType
    <3>2. stack[f].idx \in Int /\ k \in Int /\ reg_head \in Int
      BY Z3T(30), SMTT(30), <2>1, <3>1, FrameTypes, Constants DEF Idx
    <3>3. stack[f].idx + k - reg_head = (stack[f].idx + k) - reg_head
      BY SMTT(30), Z3T(30), ZenonT(40), <3>2
    <3>. QED
      BY Zenon, <2>1, <2>9, <2>10, <3>3
  <2>12. (reg_tail - reg_head) % RingLen = Published
    BY Zenon, <2>1 DEF Published
  <2>. QED
    BY Zenon, <2>7, <2>11, <2>12
<1>. QED
  BY <1>1, InvariantHolds, ProgressHolds, PTL

\* When the outermost call returns to the guest or to the receive thread, no
\* descriptor waits to be processed or written back and every published one has
\* been fetched, as far as there are contexts: no doorbell has to be rung twice.
THEOREM CallsFinishTheWork == Orderly /\ Spec => []NothingForgotten
<1>. SUFFICES ASSUME Orderly PROVE Spec => []NothingForgotten
  OBVIOUS
<1>1. IInv /\ PInv => NothingForgotten
  <2>. SUFFICES ASSUME IInv, PInv, stack = <<>>, enabled
                PROVE  /\ \A k \in 0 .. active_cnt - 1 : state[At(k)] = DESC_PROCESSING
                       /\ FetchDone
    BY Zenon DEF NothingForgotten, FetchDone
  <2>1. Quiet
    BY Zenon DEF PInv, ProgressInv
  <2>2. /\ active_cnt \in 0 .. MaxActive /\ active_first_pos \in Pos /\ state \in [Pos -> States]
        /\ FetchedInv /\ WindowInv /\ OrderInv
    BY DEF IInv, TypeOK
  <2>3. \A p \in Pos : state[p] # DESC_FETCHING
    <3>1. 1 .. Len(stack) = {}
      OBVIOUS
    <3>. QED
      BY Zenon, <2>2, <3>1 DEF FetchedInv
  <2>4. \A p \in Pos : state[p] # DESC_PREPARED
    BY Zenon, <2>1, <2>3 DEF Quiet, ProcessDone
  <2>5. /\ \A k \in 0 .. MaxActive - 1 : At(k) \in Pos /\ Offset(At(k)) = k
        /\ \A p \in Pos : Offset(p) \in 0 .. MaxActive - 1
        /\ Offset(active_first_pos) = 0
    BY Zenon, <2>2, Places
  <2>6. ASSUME NEW k \in 0 .. active_cnt - 1 PROVE state[At(k)] = DESC_PROCESSING
    <3>. DEFINE p == At(k)
    <3>1. k \in 0 .. MaxActive - 1 /\ 0 < active_cnt /\ k < active_cnt
      BY SMTT(30), Z3T(30), ZenonT(40), <2>2, Constants
    <3>2. p \in Pos /\ Offset(p) = k
      BY Zenon, <2>5, <3>1
    <3>. HIDE DEF p
    <3>3. /\ state[p] \in {DESC_PROCESSING, DESC_PROCESSED}
          /\ state[active_first_pos] \in {DESC_PROCESSING, DESC_PROCESSED}
      <4>1. state[p] # DESC_EMPTY /\ state[active_first_pos] # DESC_EMPTY
        BY Zenon, <2>2, <2>5, <3>1, <3>2 DEF WindowInv
      <4>. QED
        BY Zenon, <2>2, <2>3, <2>4, <3>2, <4>1, StateNumbers
    <3>4. state[active_first_pos] = DESC_PROCESSING
      BY Zenon, <2>1, <3>3 DEF Quiet
    <3>5. state[p] # DESC_PROCESSED
      <4>1. kind # "atq"
        BY Zenon, <2>2, <3>4 DEF OrderInv
      <4>2. CASE p = active_first_pos
        BY Zenon, <3>4, <4>2, StateNumbers
      <4>3. CASE p # active_first_pos
        <5>1. Offset(active_first_pos) # Offset(p)
          BY Zenon, <2>2, <3>2, <4>3, SamePlace
        <5>2. Offset(active_first_pos) < Offset(p)
          BY SMTT(30), Z3T(30), ZenonT(40), <2>5, <3>1, <3>2, <5>1
        <5>. QED
          BY Zenon, <2>2, <3>2, <3>4, <4>1, <5>2, StateNumbers DEF OrderInv
      <4>. QED
        BY SMTT(30), Z3T(30), ZenonT(40), <4>2, <4>3
    <3>. QED
      BY Zenon, <3>3, <3>5 DEF p
  <2>. QED
    BY Zenon, <2>1, <2>6 DEF Quiet
<1>. QED
  BY <1>1, InvariantHolds, ProgressHolds, PTL

-----------------------------------------------------------------------------
(* A LAN queue consumes its ring in order                                  *)

LEMMA Apart ==
  ASSUME NEW n \in Nat \ {0}, NEW f \in 0 .. n - 1, NEW k \in 0 .. n - 1, NEW l \in 0 .. n - 1,
         (f + k) % n = (f + l) % n
  PROVE  k = l
<1>1. (((f + k) % n) - f) % n = k /\ (((f + l) % n) - f) % n = l
  BY ZenonT(40), Circle
<1>. QED
  BY Zenon, <1>1

\* The entries whose processing has started, by the contexts that stand for them.
Begun == {index[p] : p \in {q \in Pos : state[q] > DESC_PREPARED}}

LEMMA BegunIsStarted == IInv => {index[At(k)] : k \in Started} = Begun
<1>. SUFFICES ASSUME IInv PROVE {index[At(k)] : k \in Started} = Begun
  OBVIOUS
<1>1. /\ active_first_pos \in Pos /\ active_cnt \in 0 .. MaxActive /\ state \in [Pos -> States]
      /\ WindowInv
  BY DEF IInv, TypeOK
<1>2. ASSUME NEW k \in Started PROVE At(k) \in {q \in Pos : state[q] > DESC_PREPARED}
  <2>1. k \in 0 .. active_cnt - 1 /\ state[At(k)] > DESC_PREPARED
    BY Zenon, <1>2 DEF Started
  <2>2. k \in 0 .. MaxActive - 1
    BY SMTT(30), Z3T(30), ZenonT(40), <1>1, <2>1, Constants
  <2>. QED
    BY Zenon, <1>1, <2>1, <2>2, Places
<1>3. ASSUME NEW q \in Pos, state[q] > DESC_PREPARED
      PROVE  Offset(q) \in Started /\ At(Offset(q)) = q
  <2>1. Offset(q) \in 0 .. MaxActive - 1 /\ At(Offset(q)) = q
    BY Zenon, <1>1, Places
  <2>2. Offset(q) < active_cnt
    BY Zenon, <1>1, <1>3, StateNumbers DEF WindowInv
  <2>3. Offset(q) \in 0 .. active_cnt - 1
    BY SMTT(30), Z3T(30), <1>1, <2>1, <2>2, Constants
  <2>. QED
    BY Zenon, <1>3, <2>1, <2>3 DEF Started
<1>. QED
  BY Zenon, <1>2, <1>3 DEF Begun

\* Entries of the window differ.
LEMMA EntriesDiffer ==
  ASSUME IInv, RingInv
  PROVE  /\ \A p \in Pos : Offset(p) < active_cnt =>
              /\ Offset(p) \in 0 .. RingLen - 1 /\ Offset(p) < Published
              /\ index[p] = (active_first_idx + Offset(p)) % RingLen
         /\ \A k, l \in 0 .. RingLen - 1 :
              (active_first_idx + k) % RingLen = (active_first_idx + l) % RingLen => k = l
         /\ Published \in 0 .. RingLen - 1 /\ active_cnt <= Published
         /\ active_first_idx \in 0 .. RingLen - 1 /\ RingLen \in Nat \ {0}
<1>1. /\ active_cnt \in 0 .. MaxActive /\ active_first_idx \in Idx /\ reg_tail \in Idx
      /\ active_first_pos \in Pos /\ active_cnt <= Published /\ WindowInv
  BY ZenonT(40), SMTT(30), Z3T(30) DEF IInv, TypeOK, RingInv
<1>2. /\ active_first_idx \in 0 .. RingLen - 1 /\ reg_tail \in 0 .. RingLen - 1 /\ RingLen \in Nat \ {0}
  BY SMTT(30), Z3T(30), ZenonT(40), <1>1, Constants DEF Idx
<1>3. Published \in 0 .. RingLen - 1
  BY Zenon, <1>2, Circle DEF Published
<1>4. \A k, l \in 0 .. RingLen - 1 :
        (active_first_idx + k) % RingLen = (active_first_idx + l) % RingLen => k = l
  BY Zenon, <1>2, Apart
<1>5. ASSUME NEW p \in Pos, Offset(p) < active_cnt
      PROVE  /\ Offset(p) \in 0 .. RingLen - 1 /\ Offset(p) < Published
             /\ index[p] = (active_first_idx + Offset(p)) % RingLen
  <2>1. Offset(p) \in 0 .. MaxActive - 1
    BY Zenon, <1>1, Places
  <2>2. Offset(p) \in 0 .. RingLen - 1 /\ Offset(p) < Published
    BY SMTT(30), Z3T(30), <1>1, <1>2, <1>3, <1>5, <2>1, Constants
  <2>. QED
    BY Zenon, <1>1, <1>5, <2>2 DEF WindowInv
<1>. QED
  BY Zenon, <1>1, <1>2, <1>3, <1>4, <1>5

LEMMA BegunKept ==
  ASSUME index' = index, \A p \in Pos : state'[p] > DESC_PREPARED <=> state[p] > DESC_PREPARED
  PROVE  Begun' = Begun
BY Zenon DEF Begun

\* What the contract sees of a LAN queue; it sees nothing of the admin queue.
LEMMA ContractView ==
  /\ IInv /\ kind # "atq" =>
       /\ Lan(active_first_idx) = active_first_idx /\ Lan(reg_tail) = reg_tail
       /\ (IF kind = "atq" THEN {} ELSE {index[At(k)] : k \in Started}) = Begun
  /\ kind = "atq" =>
       /\ Lan(active_first_idx) = 0 /\ Lan(reg_tail) = 0
       /\ (IF kind = "atq" THEN {} ELSE {index[At(k)] : k \in Started}) = {}
BY ZenonT(40), BegunIsStarted DEF Lan

LEMMA ContractStutters ==
  ASSUME IInv, IInv', kind' = kind,
         kind # "atq" => /\ active_first_idx' = active_first_idx /\ reg_tail' = reg_tail
                         /\ Begun' = Begun
  PROVE  [Contract!Next]_<<Lan(active_first_idx), Lan(reg_tail),
                           IF kind = "atq" THEN {} ELSE {index[At(k)] : k \in Started}>>
<1>1. ContractView!:'
  BY ContractView, PTL
<1>. QED
  BY ZenonT(40), SMTT(30), <1>1, ContractView

\* The guest's doorbell publishes entries.
LEMMA RegUpdatedPublishes ==
  ASSUME IInv, IInv', RingInv, kind # "atq", NEW n \in 1 .. RingLen - 1, reg_updated(n)
  PROVE  Contract!Publish
<1>1. ContractView!:'
  BY ContractView, PTL
<1>2. /\ n <= RingLen - 1 - ((reg_tail - reg_head) % RingLen) /\ reg_head = active_first_idx
      /\ reg_tail' = (reg_tail + n) % RingLen
      /\ active_first_idx' = active_first_idx /\ index' = index /\ state' = state /\ kind' = kind
  BY SMTT(30), Z3T(30), ZenonT(40) DEF reg_updated, window, RingInv
<1>3. Begun' = Begun
  BY ZenonT(40), <1>2, BegunKept
<1>4. n \in 1 .. RingLen - 1 - ((reg_tail - active_first_idx) % RingLen)
  <2>1. reg_tail - active_first_idx \in Int
    BY Z3T(30), SMTT(30), Constants DEF IInv, TypeOK, Idx
  <2>2. (reg_tail - active_first_idx) % RingLen \in Int
    BY SMTT(30), Z3T(30), ZenonT(40), <2>1, Constants
  <2>. QED
    BY Z3T(30), SMTT(30), <1>2, <2>2, Constants
<1>. QED
  BY ZenonT(40), <1>1, <1>2, <1>3, <1>4, ContractView DEF Contract!Publish

LEMMA ResetResets ==
  ASSUME IInv, IInv', kind # "atq", kind' = kind, active_first_idx' = 0, reg_tail' = 0, active_cnt' = 0
  PROVE  Contract!Reset
<1>1. ContractView!:'
  BY ContractView, PTL
<1>2. \A p \in Pos : state'[p] = DESC_EMPTY
  <2>1. active_first_pos' \in 0 .. MaxActive - 1 /\ MaxActive \in Nat \ {0}
    BY ZenonT(40), Z3T(30), SMTT(30), Constants DEF IInv, TypeOK, Pos
  <2>2. \A p \in Pos : (p - active_first_pos') % MaxActive \in 0 .. MaxActive - 1
    BY Zenon, <2>1, Circle DEF Pos
  <2>3. \A p \in Pos : ~((p - active_first_pos') % MaxActive < 0)
    BY Z3T(30), SMTT(30), <2>1, <2>2
  <2>. QED
    BY ZenonT(40), <2>3 DEF IInv, WindowInv, Offset
<1>3. ~(DESC_EMPTY > DESC_PREPARED)
  BY DEF DESC_EMPTY, DESC_PREPARED
<1>4. Begun' = {}
  BY Zenon, <1>2, <1>3 DEF Begun
<1>. QED
  BY Zenon, <1>1, <1>4 DEF Contract!Reset

\* trigger_process starts the entry behind the started ones.
LEMMA ProcessStarts ==
  ASSUME IInv, IInv', RingInv, kind # "atq", process
  PROVE  Contract!Start
<1>. DEFINE at == Top.at
            p == At(Top.at)
            x == [fn |-> "loop", at |-> Top.at + 1]
            e == (active_first_idx + at) % RingLen
<1>1. ContractView!:'
  BY ContractView, PTL
<1>2. /\ at \in 0 .. MaxActive - 1 /\ at < active_cnt
      /\ p \in Pos /\ Offset(p) = at /\ state[p] = DESC_PREPARED
      /\ process_admin(p, x) \/ process_rx(p, x) \/ process_tx(p, x)
      /\ UNCHANGED <<kind, enabled, window, reg_tail, reg_head, index>>
  BY Zenon, LoopFacts
<1>3. /\ kind' = kind /\ active_first_idx' = active_first_idx /\ reg_tail' = reg_tail /\ index' = index
  BY SMTT(30), Z3T(30), ZenonT(40), <1>2 DEF window
<1>4. /\ \A q \in Pos : Offset(q) < active_cnt =>
           /\ Offset(q) \in 0 .. RingLen - 1 /\ Offset(q) < Published
           /\ index[q] = (active_first_idx + Offset(q)) % RingLen
      /\ \A k, l \in 0 .. RingLen - 1 :
           (active_first_idx + k) % RingLen = (active_first_idx + l) % RingLen => k = l
      /\ Published \in 0 .. RingLen - 1 /\ active_cnt <= Published
      /\ active_first_idx \in 0 .. RingLen - 1 /\ RingLen \in Nat \ {0}
  BY Zenon, EntriesDiffer
<1>5. /\ active_first_pos \in Pos /\ active_cnt \in 0 .. MaxActive /\ state \in [Pos -> States]
      /\ SegmentsInv /\ WindowInv
  BY DEF IInv, TypeOK
<1>6. index[p] = e /\ at < Published /\ at \in 0 .. RingLen - 1
  <2>1. Offset(p) < active_cnt
    BY Zenon, <1>2
  <2>2. /\ Offset(p) \in 0 .. RingLen - 1 /\ Offset(p) < Published
        /\ index[p] = (active_first_idx + Offset(p)) % RingLen
    BY Zenon, <1>2, <1>4, <2>1
  <2>. QED
    BY Zenon, <1>2, <2>2
<1>7. \A q \in Pos : Offset(q) < at <=> state[q] > DESC_PREPARED
  BY Zenon, LanStarted
<1>8. \A q \in Pos : state'[q] > DESC_PREPARED <=> (q = p \/ state[q] > DESC_PREPARED)
  <2>1. DESC_PROCESSING > DESC_PREPARED /\ DESC_PROCESSED > DESC_PREPARED
    BY DEF DESC_PREPARED, DESC_PROCESSING, DESC_PROCESSED
  <2>2. CASE state' = [state EXCEPT ![p] = DESC_PROCESSING]
    BY Zenon, <1>2, <1>5, <2>1, <2>2
  <2>3. CASE state' = [q \in Pos |-> IF q = p \/ \E s \in 1 .. Len(segments) : segments[s] = q
                                       THEN DESC_PROCESSED ELSE state[q]]
    BY Zenon, <1>2, <1>5, <2>1, <2>3 DEF SegmentsInv
  <2>. QED
    BY Zenon, <1>2, <2>2, <2>3 DEF process_admin, process_rx, process_tx
<1>. HIDE DEF p, x, at, e
<1>9. Begun' = Begun \cup {e}
  BY Zenon, <1>2, <1>3, <1>6, <1>8 DEF Begun
<1>10. Begun = {(active_first_idx + k) % RingLen : k \in 0 .. at - 1}
  <2>1. ASSUME NEW q \in Pos, state[q] > DESC_PREPARED
        PROVE  Offset(q) \in 0 .. at - 1 /\ index[q] = (active_first_idx + Offset(q)) % RingLen
    <3>1. Offset(q) < at /\ Offset(q) \in 0 .. MaxActive - 1
      BY Zenon, <1>5, <1>7, <2>1, Places
    <3>2. Offset(q) < active_cnt /\ Offset(q) \in 0 .. at - 1
      BY Z3T(30), SMTT(30), <1>2, <1>5, <3>1, Constants
    <3>. QED
      BY Zenon, <1>4, <3>2
  <2>2. ASSUME NEW k \in 0 .. at - 1
        PROVE  /\ At(k) \in Pos /\ state[At(k)] > DESC_PREPARED
               /\ index[At(k)] = (active_first_idx + k) % RingLen
    <3>1. k \in 0 .. MaxActive - 1 /\ k < at /\ k < active_cnt
      BY SMTT(30), Z3T(30), ZenonT(40), <1>2, <1>5, Constants
    <3>2. At(k) \in Pos /\ Offset(At(k)) = k
      BY Zenon, <1>5, <3>1, Places
    <3>. QED
      BY Zenon, <1>4, <1>7, <3>1, <3>2
  <2>. QED
    BY Zenon, <2>1, <2>2 DEF Begun
<1>11. /\ Begun' = {(active_first_idx + k) % RingLen : k \in 0 .. (at + 1) - 1}
  <2>1. /\ \A k \in 0 .. (at + 1) - 1 : k = at \/ k \in 0 .. at - 1
        /\ \A k \in 0 .. at - 1 : k \in 0 .. (at + 1) - 1
        /\ at \in 0 .. (at + 1) - 1
    BY SMTT(30), Z3T(30), ZenonT(40), <1>6
  <2>. QED
    BY Zenon, <1>9, <1>10, <2>1 DEF e
<1>12. at \in 0 .. ((reg_tail - active_first_idx) % RingLen) - 1
  <2>1. at \in 0 .. Published - 1
    BY SMTT(30), Z3T(30), ZenonT(40), <1>4, <1>6
  <2>. QED
    BY Zenon, <2>1 DEF Published
<1>13. /\ Lan(active_first_idx) = active_first_idx /\ Lan(reg_tail) = reg_tail
       /\ (IF kind = "atq" THEN {} ELSE {index[At(k)] : k \in Started}) = Begun
  BY Zenon, ContractView
<1>14. /\ Lan(active_first_idx)' = Lan(active_first_idx) /\ Lan(reg_tail)' = Lan(reg_tail)
       /\ (IF kind = "atq" THEN {} ELSE {index[At(k)] : k \in Started})' = Begun'
  BY Zenon, <1>1, <1>3, <1>13
<1>15. /\ at \in 0 .. ((Lan(reg_tail) - Lan(active_first_idx)) % RingLen) - 1
       /\ Contract!FirstOwned(at) = Begun /\ Contract!FirstOwned(at + 1) = Begun'
  BY Zenon, <1>10, <1>11, <1>12, <1>13 DEF Contract!FirstOwned
<1>. QED
  BY Zenon, <1>13, <1>14, <1>15 DEF Contract!Start

\* writeback_done gives back the oldest entries, which have been processed.
LEMMA WritebackGivesBack ==
  ASSUME IInv, IInv', RingInv, kind # "atq", kind' = kind, NEW cnt \in 1 .. active_cnt, writeback_done(cnt),
         reg_tail' = reg_tail, index' = index,
         \A p \in Pos : Offset(p) < cnt => state[p] = DESC_PROCESSED
  PROVE  Contract!GiveBack
<1>. DEFINE First == {(active_first_idx + k) % RingLen : k \in 0 .. cnt - 1}
<1>1. ContractView!:'
  BY ContractView, PTL
<1>2. active_first_idx' = (active_first_idx + cnt) % RingLen
  BY Zenon DEF writeback_done
<1>3. /\ \A q \in Pos : Offset(q) < active_cnt =>
           /\ Offset(q) \in 0 .. RingLen - 1 /\ Offset(q) < Published
           /\ index[q] = (active_first_idx + Offset(q)) % RingLen
      /\ \A k, l \in 0 .. RingLen - 1 :
           (active_first_idx + k) % RingLen = (active_first_idx + l) % RingLen => k = l
      /\ Published \in 0 .. RingLen - 1 /\ active_cnt <= Published
      /\ active_first_idx \in 0 .. RingLen - 1 /\ RingLen \in Nat \ {0}
  BY Zenon, EntriesDiffer
<1>4. /\ active_first_pos \in Pos /\ active_cnt \in 0 .. MaxActive /\ state \in [Pos -> States]
      /\ index \in [Pos -> Idx] /\ WindowInv
  BY ZenonT(40), Z3T(30), SMTT(30) DEF IInv, TypeOK
<1>5. /\ cnt \in 0 .. MaxActive
      /\ \A p \in Pos : /\ Offset(p) \in 0 .. MaxActive - 1
                        /\ state'[p] = IF Offset(p) < cnt THEN DESC_EMPTY ELSE state[p]
  BY Zenon, WrittenBack
<1>6. cnt \in 0 .. RingLen /\ \A k \in 0 .. cnt - 1 : k \in 0 .. RingLen - 1 /\ k \in 0 .. MaxActive - 1 /\ k < active_cnt
  BY Z3T(30), SMTT(30), <1>3, <1>4, <1>5, Constants
<1>7. ASSUME NEW k \in 0 .. cnt - 1
      PROVE  /\ At(k) \in Pos /\ state[At(k)] = DESC_PROCESSED
             /\ index[At(k)] = (active_first_idx + k) % RingLen
  <2>1. At(k) \in Pos /\ Offset(At(k)) = k
    BY ZenonT(40), <1>4, <1>6, Places
  <2>2. k < cnt /\ k < active_cnt
    BY Z3T(30), SMTT(30), <1>5, <1>6
  <2>. QED
    BY Zenon, <1>3, <2>1, <2>2
<1>8. /\ DESC_PROCESSED > DESC_PREPARED /\ ~(DESC_EMPTY > DESC_PREPARED)
  BY DEF DESC_EMPTY, DESC_PREPARED, DESC_PROCESSED
<1>9. First \subseteq Begun
  BY Zenon, <1>7, <1>8 DEF Begun
<1>10. cnt \in 1 .. ((reg_tail - active_first_idx) % RingLen)
  <2>1. cnt \in 1 .. Published
    BY Z3T(30), SMTT(30), <1>3, <1>4, <1>5
  <2>. QED
    BY Zenon, <2>1 DEF Published
<1>11. Begun' = Begun \ First
  <2>1. ASSUME NEW p \in Pos, state[p] > DESC_PREPARED
        PROVE  index[p] \in First <=> Offset(p) < cnt
    <3>1. Offset(p) < active_cnt
      BY Zenon, <1>4, <2>1, StateNumbers DEF WindowInv
    <3>2. Offset(p) \in 0 .. RingLen - 1 /\ index[p] = (active_first_idx + Offset(p)) % RingLen
      BY Zenon, <1>3, <3>1
    <3>3. index[p] \in First <=> Offset(p) \in 0 .. cnt - 1
      BY ZenonT(40), <1>3, <1>6, <3>2
    <3>. QED
      BY Z3T(30), SMTT(30), <1>5, <3>3
  <2>2. ASSUME NEW p \in Pos
        PROVE  state'[p] > DESC_PREPARED <=> (state[p] > DESC_PREPARED /\ ~(Offset(p) < cnt))
    BY Zenon, <1>5, <1>8
  <2>. HIDE DEF First
  <2>. QED
    BY ZenonT(40), <2>1, <2>2 DEF Begun
<1>12. /\ Lan(active_first_idx) = active_first_idx /\ Lan(reg_tail) = reg_tail
       /\ (IF kind = "atq" THEN {} ELSE {index[At(k)] : k \in Started}) = Begun
  BY Zenon, ContractView
<1>13. /\ Lan(active_first_idx)' = (Lan(active_first_idx) + cnt) % RingLen
       /\ Lan(reg_tail)' = Lan(reg_tail)
       /\ (IF kind = "atq" THEN {} ELSE {index[At(k)] : k \in Started})' = Begun'
  BY Zenon, <1>1, <1>2, <1>12
<1>14. Contract!FirstOwned(cnt) = First
  BY Zenon, <1>12 DEF Contract!FirstOwned
<1>. HIDE DEF First
<1>. DEFINE S == IF kind = "atq" THEN {} ELSE {index[At(k)] : k \in Started}
<1>15. /\ cnt \in 1 .. ((Lan(reg_tail) - Lan(active_first_idx)) % RingLen)
       /\ Contract!FirstOwned(cnt) \subseteq S
  BY Zenon, <1>9, <1>10, <1>12, <1>14
<1>16. S' = S \ Contract!FirstOwned(cnt)
  BY Zenon, <1>11, <1>12, <1>13, <1>14
<1>. QED
  BY Zenon, <1>13, <1>15, <1>16 DEF Contract!GiveBack

\* Steps between which the contract sees no difference.
LEMMA OtherStepsStutter ==
  ASSUME IInv, \/ \E n \in 1 .. MaxActive : packet_received(n)
               \/ disable \/ trigger_fetch \/ prepare \/ prepared_all
               \/ trigger_process \/ process_break \/ receive \/ UNCHANGED vars
  PROVE  /\ kind' = kind /\ active_first_idx' = active_first_idx /\ reg_tail' = reg_tail
         /\ Begun' = Begun
<1>1. ASSUME state' = state, index' = index PROVE Begun' = Begun
  BY Zenon, <1>1, BegunKept
<1>2. /\ state \in [Pos -> States] /\ index \in [Pos -> Idx] /\ SegmentsInv /\ WindowInv
      /\ segments \in Seq(Pos) /\ active_first_pos \in Pos /\ active_cnt \in 0 .. MaxActive
  BY ZenonT(40), Z3T(30), SMTT(30) DEF IInv, TypeOK
<1>3. /\ ~(DESC_EMPTY > DESC_PREPARED) /\ ~(DESC_FETCHING > DESC_PREPARED) /\ ~(DESC_PREPARED > DESC_PREPARED)
      /\ DESC_PROCESSING > DESC_PREPARED /\ DESC_PROCESSED > DESC_PREPARED
  BY DEF DESC_EMPTY, DESC_FETCHING, DESC_PREPARED, DESC_PROCESSING, DESC_PROCESSED
<1>4. CASE \/ \E n \in 1 .. MaxActive : packet_received(n)
           \/ disable \/ prepared_all \/ trigger_process \/ process_break \/ UNCHANGED vars
  <2>1. /\ UNCHANGED <<kind, window, reg_tail>>
        /\ state' = state /\ index' = index
    <3>1. ASSUME NEW n \in 1 .. MaxActive, packet_received(n)
          PROVE  UNCHANGED <<kind, window, reg_tail>> /\ state' = state /\ index' = index
      BY ZenonT(40), Z3T(30), SMTT(30), <3>1 DEF packet_received
    <3>2. CASE disable \/ prepared_all \/ process_break
      BY ZenonT(40), Z3T(30), SMTT(30), <3>2 DEF disable, prepared_all, process_break
    <3>3. CASE trigger_process
      BY ZenonT(40), Z3T(30), SMTT(30), <3>3 DEF trigger_process
    <3>4. CASE UNCHANGED vars
      BY SMTT(30), Z3T(30), ZenonT(40), <3>4 DEF vars
    <3>. QED
      BY ZenonT(40), <1>4, <3>1, <3>2, <3>3, <3>4
  <2>2. active_first_idx' = active_first_idx /\ kind' = kind /\ reg_tail' = reg_tail
    BY SMTT(30), Z3T(30), ZenonT(40), <2>1 DEF window
  <2>. QED
    BY Zenon, <1>1, <2>1, <2>2
<1>5. CASE trigger_fetch
  <2>. DEFINE cnt == FetchCount((active_first_idx + active_cnt) % RingLen)
              Taken(p) == active_cnt <= Offset(p) /\ Offset(p) < active_cnt + cnt
  <2>1. /\ \A p \in Pos : state'[p] = IF Taken(p) THEN DESC_FETCHING ELSE state[p]
        /\ \A p \in Pos : index'[p] = IF Taken(p) THEN (active_first_idx + Offset(p)) % RingLen ELSE index[p]
        /\ UNCHANGED <<kind, enabled, active_first_pos, active_first_idx, reg_tail, reg_head, segments>>
    BY ZenonT(40), <1>5, FetchEffect
  <2>2. kind' = kind /\ active_first_idx' = active_first_idx /\ reg_tail' = reg_tail
    BY SMTT(30), Z3T(30), ZenonT(40), <2>1
  <2>3. ASSUME NEW p \in Pos
        PROVE  /\ state'[p] > DESC_PREPARED <=> state[p] > DESC_PREPARED
               /\ state[p] > DESC_PREPARED => index'[p] = index[p]
    <3>1. Offset(p) \in 0 .. MaxActive - 1
      BY Zenon, <1>2, Places
    <3>2. Taken(p) => ~(Offset(p) < active_cnt)
      BY Z3T(30), SMTT(30), <1>2, <3>1, Constants
    <3>3. Taken(p) => state[p] = DESC_EMPTY
      BY Zenon, <1>2, <3>2 DEF WindowInv
    <3>. HIDE DEF Taken
    <3>. QED
      BY Zenon, <1>3, <2>1, <3>3
  <2>4. Begun' = Begun
    BY Zenon, <2>3 DEF Begun
  <2>. QED
    BY Zenon, <2>2, <2>4
<1>6. CASE prepare
  <2>1. UNCHANGED <<kind, enabled, window, reg_tail, reg_head, index, segments>>
    BY Zenon, <1>6, PrepareEffect
  <2>2. kind' = kind /\ active_first_idx' = active_first_idx /\ reg_tail' = reg_tail /\ index' = index
    BY SMTT(30), Z3T(30), ZenonT(40), <2>1 DEF window
  <2>3. PICK p \in Pos : state[p] = DESC_FETCHING /\ state' = [state EXCEPT ![p] = DESC_PREPARED]
    BY Zenon, <1>6, PrepareEffect
  <2>4. \A q \in Pos : state'[q] > DESC_PREPARED <=> state[q] > DESC_PREPARED
    BY Zenon, <1>2, <1>3, <2>3
  <2>. QED
    BY Zenon, <2>2, <2>4, BegunKept
<1>7. CASE receive
  <2>1. kind' = kind /\ active_first_idx' = active_first_idx /\ reg_tail' = reg_tail /\ index' = index
    BY SMTT(30), Z3T(30), ZenonT(40), <1>7 DEF receive, window
  <2>2. CASE Top.left = 0
    <3>1. state' = state
      BY SMTT(30), Z3T(30), ZenonT(40), <1>7, <2>2 DEF receive
    <3>. QED
      BY Zenon, <1>1, <2>1, <3>1
  <2>3. CASE Top.left # 0
    <3>1. state' = [state EXCEPT ![segments[1]] = DESC_PROCESSED]
      BY Zenon, <1>7, <2>3 DEF receive
    <3>2. 1 \in 1 .. Len(segments)
      <4>1. stack # <<>> /\ Top.fn = "receive" /\ stack \in Seq(Frames)
        BY ZenonT(40), Z3T(30), SMTT(30), <1>7 DEF receive, In, IInv, TypeOK
      <4>2. Top = stack[Len(stack)] /\ Top \in Frames /\ Len(stack) \in 1 .. Len(stack)
        BY Z3T(30), SMTT(30), <4>1, TopFrame
      <4>3. Top.left <= Len(segments)
        BY ZenonT(40), <4>1, <4>2 DEF IInv, CallInv
      <4>4. Top.left \in 0 .. MaxActive
        BY Zenon, <4>1, <4>2, FrameTypes
      <4>. QED
        BY Z3T(30), SMTT(30), <1>2, <2>3, <4>3, <4>4, Constants
    <3>3. state[segments[1]] = DESC_PROCESSING
      BY Zenon, <1>2, <3>2 DEF SegmentsInv
    <3>4. \A q \in Pos : state'[q] > DESC_PREPARED <=> state[q] > DESC_PREPARED
      BY ZenonT(40), <1>2, <1>3, <3>1, <3>3
    <3>. QED
      BY Zenon, <2>1, <3>4, BegunKept
  <2>. QED
    BY SMTT(30), Z3T(30), ZenonT(40), <2>2, <2>3
<1>. QED
  BY Zenon, <1>4, <1>5, <1>6, <1>7

LEMMA ContractNext ==
  ASSUME Orderly, IInv, IInv', RingInv, [Next]_vars
  PROVE  [Contract!Next]_<<Lan(active_first_idx), Lan(reg_tail),
                           IF kind = "atq" THEN {} ELSE {index[At(k)] : k \in Started}>>
<1>1. CASE kind = "atq"
  <2>1. kind' = kind
    <3>1. ASSUME NEW n, reg_updated(n) \/ packet_received(n) PROVE kind' = kind
      BY ZenonT(40), Z3T(30), SMTT(30), <3>1 DEF reg_updated, packet_received
    <3>2. CASE reset \/ disable \/ enable \/ UNCHANGED vars
      BY ZenonT(40), Z3T(30), SMTT(30), <3>2 DEF reset, disable, enable, vars
    <3>3. CASE trigger_fetch \/ prepare \/ prepared_all
      BY ZenonT(40), Z3T(30), SMTT(30), <3>3 DEF trigger_fetch, prepare, prepared_all
    <3>4. CASE process_break
      BY ZenonT(40), Z3T(30), SMTT(30), <3>4 DEF process_break
    <3>5. CASE trigger_writeback
      BY SMTT(30), Z3T(30), ZenonT(40), <3>5 DEF trigger_writeback
    <3>6. CASE receive
      BY ZenonT(40), Z3T(30), SMTT(30), <3>6 DEF receive
    <3>7. CASE trigger_process
      BY SMTT(30), Z3T(30), ZenonT(40), <3>7 DEF trigger_process
    <3>8. CASE process
      BY SMTT(30), Z3T(30), ZenonT(40), <3>8 DEF process
    <3>. QED
      BY ZenonT(40), <3>1, <3>2, <3>3, <3>4, <3>5, <3>6, <3>7, <3>8 DEF Next, Step
  <2>. QED
    BY Zenon, <1>1, <2>1, ContractStutters
<1>2. CASE kind # "atq"
  <2>1. ASSUME NEW n \in 1 .. RingLen - 1, reg_updated(n) PROVE Contract!Next
    BY Zenon, <1>2, <2>1, RegUpdatedPublishes DEF Contract!Next
  <2>6. ASSUME reg_updated(0)
        PROVE  [Contract!Next]_<<Lan(active_first_idx), Lan(reg_tail),
                                 IF kind = "atq" THEN {} ELSE {index[At(k)] : k \in Started}>>
    <3>1. /\ kind' = kind /\ active_first_idx' = active_first_idx /\ state' = state /\ index' = index
          /\ reg_tail' = (reg_tail + 0) % RingLen
      BY SMTT(30), Z3T(30), ZenonT(40), <2>6 DEF reg_updated, window
    <3>2. reg_tail' = reg_tail
      <4>1. reg_tail \in 0 .. RingLen - 1
        BY ZenonT(40) DEF IInv, TypeOK, Idx
      <4>. QED
        BY SMTT(30), Z3T(30), <3>1, <4>1, Constants
    <3>. QED
      BY Zenon, <3>1, <3>2, BegunKept, ContractStutters
  <2>7. ASSUME NEW n \in 0 .. RingLen - 1, n \notin 1 .. RingLen - 1 PROVE n = 0
    BY SMTT(30), Z3T(30), <2>7, Constants
  <2>2. CASE reset \/ enable
    <3>1. kind' = kind /\ active_first_idx' = 0 /\ reg_tail' = 0 /\ active_cnt' = 0
      BY SMTT(30), Z3T(30), ZenonT(40), <2>2 DEF reset, enable, window, Orderly
    <3>. QED
      BY Zenon, <1>2, <3>1, ResetResets DEF Contract!Next
  <2>3. CASE process
    BY Zenon, <1>2, <2>3, ProcessStarts DEF Contract!Next
  <2>4. CASE trigger_writeback
    <3>1. CASE UNCHANGED <<kind, enabled, window, reg_tail, reg_head, state, index, segments>>
      <4>1. /\ kind' = kind /\ active_first_idx' = active_first_idx /\ reg_tail' = reg_tail
            /\ state' = state /\ index' = index
        BY SMTT(30), Z3T(30), ZenonT(40), <3>1 DEF window
      <4>. QED
        BY Zenon, <4>1, BegunKept, ContractStutters
    <3>2. ASSUME NEW cnt \in 1 .. active_cnt, writeback_done(cnt),
                 \A p \in Pos : Offset(p) < cnt => state[p] = DESC_PROCESSED,
                 UNCHANGED <<kind, enabled, reg_tail, index, segments>>
          PROVE  Contract!Next
      <4>1. kind' = kind /\ reg_tail' = reg_tail /\ index' = index
        BY SMTT(30), Z3T(30), ZenonT(40), <3>2
      <4>. QED
        BY Zenon, <1>2, <3>2, <4>1, WritebackGivesBack DEF Contract!Next
    <3>. QED
      BY Zenon, <2>4, <3>1, <3>2, WritebackCases
  <2>5. CASE \/ \E n \in 1 .. MaxActive : packet_received(n)
             \/ disable \/ trigger_fetch \/ prepare \/ prepared_all
             \/ trigger_process \/ process_break \/ receive \/ UNCHANGED vars
    <3>1. /\ kind' = kind /\ active_first_idx' = active_first_idx /\ reg_tail' = reg_tail
          /\ Begun' = Begun
      BY Zenon, <2>5, OtherStepsStutter
    <3>. QED
      BY Zenon, <3>1, ContractStutters
  <2>. QED
    BY ZenonT(40), <2>1, <2>2, <2>3, <2>4, <2>5, <2>6, <2>7 DEF Next, Step
<1>. QED
  BY SMTT(30), Z3T(30), ZenonT(40), <1>1, <1>2

\* The receive and the transmit queue implement the ring contract: whatever
\* triggers nest, descriptors are started one at a time in ring order and given
\* back in ring order once they are done.  The queue is reset before it is
\* enabled again, and the length of its ring divides 2^32.
THEOREM EngineKeepsContract == Orderly /\ Spec => InOrderConsumer
<1>. SUFFICES ASSUME Orderly PROVE Spec => InOrderConsumer
  OBVIOUS
<1>1. Init => Contract!Init
  <2>. SUFFICES ASSUME Init PROVE Contract!Init
    OBVIOUS
  <2>1. IInv
    BY Zenon, InitInv
  <2>2. active_first_idx = 0 /\ reg_tail = 0 /\ \A p \in Pos : state[p] = DESC_EMPTY
    BY SMTT(30), Z3T(30), ZenonT(40) DEF Init
  <2>3. ~(DESC_EMPTY > DESC_PREPARED)
    BY DEF DESC_EMPTY, DESC_PREPARED
  <2>4. Begun = {}
    BY Zenon, <2>2, <2>3 DEF Begun
  <2>. QED
    BY Zenon, <2>1, <2>2, <2>4, ContractView DEF Contract!Init
<1>2. IInv /\ IInv' /\ PInv /\ [Next]_vars =>
        [Contract!Next]_<<Lan(active_first_idx), Lan(reg_tail),
                          IF kind = "atq" THEN {} ELSE {index[At(k)] : k \in Started}>>
  BY Zenon, ContractNext DEF PInv
<1>. QED
  BY <1>1, <1>2, InvariantHolds, ProgressHolds, PTL DEF Spec, InOrderConsumer, Contract!Spec

-----------------------------------------------------------------------------
(* Why a call returns                                                      *)

\* How many contexts are in a state: nothing changes the number, or one context
\* less is in the state.  Counting shows this, with the facts about finite sets.
Counted ==
  \A s : /\ Cardinality(InState(s)) \in Nat
         /\ (\A p \in Pos : state'[p] = s <=> state[p] = s)
              => Cardinality(InState(s))' = Cardinality(InState(s))
         /\ \A q \in Pos :
              state[q] = s /\ (\A p \in Pos : state'[p] = s <=> p # q /\ state[p] = s)
                => Cardinality(InState(s))' < Cardinality(InState(s))

\* The order, one component after the other.
LEMMA Lexicographic ==
  ASSUME NEW r, NEW t
  PROVE  /\ r[1] < t[1] => Below(r, t)
         /\ r[1] = t[1] =>
              /\ r[2] < t[2] => Below(r, t)
              /\ r[2] = t[2] =>
                   /\ r[3] < t[3] => Below(r, t)
                   /\ r[3] = t[3] /\ r[4] < t[4] => Below(r, t)
                   /\ r[3] = t[3] /\ r[4] = t[4] =>
                        /\ r[5] < t[5] => Below(r, t)
                        /\ r[5] = t[5] /\ r[6] < t[6] => Below(r, t)
                        /\ r[5] = t[5] /\ r[6] = t[6] /\ r[7] < t[7] => Below(r, t)
<1>1. ASSUME NEW j \in 1 .. 7, r[j] < t[j], \A i \in 1 .. j - 1 : r[i] = t[i]
      PROVE  Below(r, t)
  BY Zenon, <1>1 DEF Below
<1>2. r[1] < t[1] => Below(r, t)
  BY <1>1
<1>3. r[1] = t[1] /\ r[2] < t[2] => Below(r, t)
  BY <1>1
<1>4. r[1] = t[1] /\ r[2] = t[2] /\ r[3] < t[3] => Below(r, t)
  BY <1>1
<1>5. r[1] = t[1] /\ r[2] = t[2] /\ r[3] = t[3] /\ r[4] < t[4] => Below(r, t)
  BY <1>1
<1>6. r[1] = t[1] /\ r[2] = t[2] /\ r[3] = t[3] /\ r[4] = t[4] /\ r[5] < t[5] => Below(r, t)
  BY <1>1
<1>7. r[1] = t[1] /\ r[2] = t[2] /\ r[3] = t[3] /\ r[4] = t[4] /\ r[5] = t[5] /\ r[6] < t[6]
        => Below(r, t)
  BY <1>1
<1>8. /\ r[1] = t[1] /\ r[2] = t[2] /\ r[3] = t[3] /\ r[4] = t[4] /\ r[5] = t[5] /\ r[6] = t[6]
      /\ r[7] < t[7]
      => Below(r, t)
  BY <1>1
<1>. QED
  BY Zenon, <1>2, <1>3, <1>4, <1>5, <1>6, <1>7, <1>8

\* The same for the rank.
LEMMA RankBelow ==
  LET Kept(s) == Cardinality(InState(s))' = Cardinality(InState(s))
      Less(s) == Cardinality(InState(s))' < Cardinality(InState(s))
      Inner == IF stack = <<>> THEN 0 ELSE Distance(Top)
  IN  /\ Unfetched' < Unfetched => Below(Rank', Rank)
      /\ Unfetched' = Unfetched /\ active_cnt' < active_cnt => Below(Rank', Rank)
      /\ Unfetched' = Unfetched /\ active_cnt' = active_cnt =>
           /\ Less(DESC_FETCHING) => Below(Rank', Rank)
           /\ Kept(DESC_FETCHING) /\ Less(DESC_PREPARED) => Below(Rank', Rank)
           /\ Kept(DESC_FETCHING) /\ Kept(DESC_PREPARED) =>
                /\ Less(DESC_PROCESSING) => Below(Rank', Rank)
                /\ Kept(DESC_PROCESSING) /\ Len(stack)' < Len(stack) => Below(Rank', Rank)
                /\ Kept(DESC_PROCESSING) /\ Len(stack)' = Len(stack) /\ Inner' < Inner
                     => Below(Rank', Rank)
<1>1. /\ Rank[1] = Unfetched /\ Rank[2] = active_cnt
      /\ Rank[3] = Cardinality(InState(DESC_FETCHING)) /\ Rank[4] = Cardinality(InState(DESC_PREPARED))
      /\ Rank[5] = Cardinality(InState(DESC_PROCESSING)) /\ Rank[6] = Len(stack)
      /\ Rank[7] = IF stack = <<>> THEN 0 ELSE Distance(Top)
  BY DEF Rank
<1>2. <1>1!:'
  BY <1>1, PTL
<1>. QED
  BY ZenonT(40), <1>1, <1>2, Lexicographic

\* A call that goes on without touching a descriptor.
LEMMA GoesOn ==
  ASSUME IInv, Counted, stack # <<>>, NEW x \in Frames, Become(x),
         UNCHANGED <<window, reg_tail, state>>, Distance(x) < Distance(Top)
  PROVE  Below(Rank', Rank)
<1>1. /\ stack' # <<>> /\ Len(stack') = Len(stack) /\ Top' = x
  BY Zenon, BecomeStack DEF IInv, TypeOK
<1>2. Unfetched' = Unfetched /\ active_cnt' = active_cnt /\ state' = state
  BY DEF Unfetched, window
<1>3. \A s : Cardinality(InState(s))' = Cardinality(InState(s))
  BY Zenon, <1>2 DEF Counted
<1>4. Distance(Top)' = Distance(x)
  BY Zenon, <1>1 DEF Distance
<1>. QED
  BY Zenon, <1>1, <1>2, <1>3, <1>4, RankBelow

\* A call that returns.
LEMMA GoesBack ==
  ASSUME IInv, Counted, stack # <<>>, Return, UNCHANGED <<window, reg_tail, state>>
  PROVE  Below(Rank', Rank)
<1>1. /\ Len(stack') = Len(stack) - 1 /\ Len(stack) \in Nat
  BY ReturnStack DEF IInv, TypeOK
<1>2. Unfetched' = Unfetched /\ active_cnt' = active_cnt /\ state' = state
  BY DEF Unfetched, window
<1>3. \A s : Cardinality(InState(s))' = Cardinality(InState(s))
  BY Zenon, <1>2 DEF Counted
<1>4. Len(stack)' < Len(stack)
  BY <1>1
<1>. QED
  BY Zenon, <1>2, <1>3, <1>4, RankBelow

LEMMA Distances ==
  /\ \A x \in Frames : Distance(x) =
       IF x.fn = "fetched" THEN 5 ELSE IF x.fn = "fetch" THEN 4 ELSE IF x.fn = "process" THEN 3
       ELSE IF x.fn = "loop" THEN 2 ELSE 1
BY DEF Distance, Frames

\* Fetching takes what it fetches from what is behind the window, whatever the
\* word width does to the difference of the pointers.
LEMMA FetchRecedes ==
  ASSUME IInv, Counted, trigger_fetch
  PROVE  Below(Rank', Rank)
<1>. DEFINE next_idx == (active_first_idx + active_cnt) % RingLen
            cnt == FetchCount(next_idx)
            avail == ((reg_tail - next_idx) % WordMod) % RingLen
            dist == IF next_idx <= reg_tail THEN reg_tail - next_idx
                    ELSE reg_tail - next_idx + RingLen
<1>1. /\ next_idx \in Idx /\ cnt \in 0 .. MaxActive /\ next_idx + cnt <= RingLen
      /\ reg_tail \in Idx /\ active_first_idx \in Idx /\ active_cnt \in 0 .. MaxActive
      /\ stack \in Seq(Frames)
  BY Zenon, FetchFacts DEF IInv, TypeOK
<1>2. /\ stack # <<>> /\ Top.fn = "fetch" /\ active_cnt' = active_cnt + cnt
      /\ reg_tail' = reg_tail /\ active_first_idx' = active_first_idx
      /\ active_first_pos' = active_first_pos
      /\ state' \in [Pos -> States] /\ state \in [Pos -> States]
  BY ZenonT(40), FetchEffect DEF IInv, TypeOK
<1>3. dist \in 0 .. RingLen - 1
  <2>. HIDE DEF next_idx
  <2>. QED
    BY <1>1, Constants DEF Idx
<1>4. cnt <= dist
  <2>1. CASE next_idx <= reg_tail
    <3>1. (reg_tail - next_idx) % WordMod = reg_tail - next_idx
      <4>. DEFINE d == reg_tail - next_idx
      <4>. HIDE DEF next_idx
      <4>1. d \in 0 .. WordMod - 1
        BY <1>1, <2>1, Constants DEF Idx
      <4>. HIDE DEF d
      <4>2. d % WordMod = d
        BY <4>1, Constants, ModIs
      <4>. QED
        BY Zenon, <4>2 DEF d
    <3>2. avail = reg_tail - next_idx
      <4>. HIDE DEF next_idx
      <4>. DEFINE d == reg_tail - next_idx
      <4>1. d \in 0 .. RingLen - 1
        BY <1>1, <2>1, Constants DEF Idx
      <4>. HIDE DEF d
      <4>2. d % RingLen = d
        BY <4>1, Constants, ModIs
      <4>. QED
        BY Zenon, <3>1, <4>2 DEF d
    <3>3. cnt = IF next_idx + MinOf(avail, MaxActive - active_cnt) > RingLen THEN RingLen - next_idx
                ELSE MinOf(avail, MaxActive - active_cnt)
      BY Zenon DEF FetchCount
    <3>. HIDE DEF cnt, avail, next_idx
    <3>. QED
      BY <1>1, <2>1, <3>2, <3>3, Constants DEF MinOf, Idx
  <2>2. CASE ~(next_idx <= reg_tail)
    <3>. HIDE DEF cnt, avail, next_idx
    <3>. QED
      BY <1>1, <2>2, Constants DEF Idx
  <2>. HIDE DEF cnt, dist, next_idx
  <2>. QED
    BY Zenon, <2>1, <2>2
<1>5. ASSUME NEW c \in 0 .. dist
      PROVE  (reg_tail - (active_first_idx + (active_cnt + c))) % RingLen = dist - c
  <2>. DEFINE a == active_first_idx + active_cnt
              k == a \div RingLen
              r == dist - c
  <2>1. a \in Int /\ a = RingLen * k + next_idx /\ k \in Int
    BY <1>1, Constants DEF Idx
  <2>2. r \in 0 .. RingLen - 1 /\ c \in Int
    <3>. HIDE DEF next_idx, dist
    <3>. QED
      BY <1>3, <1>5, Constants
  <2>. DEFINE j == IF next_idx <= reg_tail THEN 0 - k ELSE 0 - k - 1
  <2>3. j \in Int /\ reg_tail - (a + c) = RingLen * j + r
    <3>. HIDE DEF a, k, next_idx
    <3>1. CASE next_idx <= reg_tail
      BY <1>1, <2>1, <2>2, <3>1, Constants DEF Idx
    <3>2. CASE ~(next_idx <= reg_tail)
      BY <1>1, <2>1, <2>2, <3>2, Constants DEF Idx
    <3>. QED
      BY Zenon, <3>1, <3>2
  <2>4. reg_tail - (active_first_idx + (active_cnt + c)) = reg_tail - (a + c)
    BY <1>1, <2>2, Constants DEF Idx
  <2>. HIDE DEF a, k, j, r, next_idx, dist
  <2>5. (RingLen * j + r) % RingLen = r
    BY Zenon, <2>2, <2>3, Constants, ModUnique
  <2>. QED
    BY Zenon, <2>3, <2>4, <2>5 DEF r
<1>6. Unfetched = dist /\ Unfetched' = dist - cnt
  <2>1. 0 \in 0 .. dist /\ cnt \in 0 .. dist /\ active_cnt + 0 = active_cnt /\ dist - 0 = dist
    <3>. HIDE DEF next_idx, dist, cnt
    <3>. QED
      BY <1>1, <1>3, <1>4, Constants
  <2>2. (reg_tail - (active_first_idx + active_cnt)) % RingLen = dist
    <3>. HIDE DEF next_idx, dist
    <3>. QED
      BY Zenon, <1>5, <2>1
  <2>3. (reg_tail - (active_first_idx + (active_cnt + cnt))) % RingLen = dist - cnt
    <3>. HIDE DEF next_idx, dist, cnt
    <3>. QED
      BY Zenon, <1>5, <2>1
  <2>. HIDE DEF next_idx, dist, cnt
  <2>. QED
    BY Zenon, <1>2, <2>2, <2>3 DEF Unfetched
<1>7. CASE cnt = 0
  <2>1. Become([fn |-> "process"]) /\ [fn |-> "process"] \in Frames
    BY Zenon, <1>7, AreFrames DEF trigger_fetch
  <2>2. \A p \in Pos : state'[p] = state[p]
    <3>1. \A p \in Pos : state'[p] = IF active_cnt <= Offset(p) /\ Offset(p) < active_cnt + cnt
                                       THEN DESC_FETCHING ELSE state[p]
      BY Zenon, FetchEffect
    <3>2. \A p \in Pos : Offset(p) \in 0 .. MaxActive - 1
      BY Zenon, FetchFacts
    <3>3. \A p \in Pos : ~(active_cnt <= Offset(p) /\ Offset(p) < active_cnt + cnt)
      <4>. HIDE DEF cnt
      <4>. QED
        BY <1>1, <1>7, <3>2, Constants
    <3>. QED
      BY Zenon, <3>1, <3>3
  <2>3. state' = state
    BY <1>2, <2>2
  <2>4. active_cnt' = active_cnt
    <3>. HIDE DEF cnt
    <3>. QED
      BY <1>1, <1>2, <1>7
  <2>5. Distance([fn |-> "process"]) = 3 /\ Distance(Top) = 4
    BY <1>1, <1>2, <2>1, TopFrame, Distances
  <2>6. 3 < 4
    OBVIOUS
  <2>. QED
    BY Zenon, <1>2, <2>1, <2>3, <2>4, <2>5, <2>6, GoesOn DEF window
<1>8. CASE cnt # 0
  <2>1. Unfetched' < Unfetched
    <3>. HIDE DEF cnt, dist
    <3>. QED
      BY <1>1, <1>3, <1>6, <1>8, Constants
  <2>. QED
    BY Zenon, <2>1, RankBelow
<1>. QED
  BY Zenon, <1>7, <1>8

\* A descriptor that is prepared, started or finished.
LEMMA PrepareRecedes ==
  ASSUME IInv, Counted, prepare
  PROVE  Below(Rank', Rank)
<1>1. PICK p \in Pos : state[p] = DESC_FETCHING /\ state' = [state EXCEPT ![p] = DESC_PREPARED]
  BY Zenon, PrepareEffect
<1>2. UNCHANGED <<window, reg_tail>> /\ state \in [Pos -> States]
  BY Zenon, PrepareEffect DEF IInv, TypeOK
<1>3. \A q \in Pos : state'[q] = DESC_FETCHING <=> q # p /\ state[q] = DESC_FETCHING
  BY <1>1, <1>2, StateNumbers
<1>4. Unfetched' = Unfetched /\ active_cnt' = active_cnt
  BY <1>2 DEF Unfetched, window
<1>. QED
  BY Zenon, <1>1, <1>3, <1>4, RankBelow DEF Counted

LEMMA ProcessRecedes ==
  ASSUME IInv, Counted, process
  PROVE  Below(Rank', Rank)
<1>. DEFINE p == At(Top.at)
            x == [fn |-> "loop", at |-> Top.at + 1]
<1>1. /\ p \in Pos /\ state[p] = DESC_PREPARED
      /\ process_admin(p, x) \/ process_rx(p, x) \/ process_tx(p, x)
      /\ UNCHANGED <<window, reg_tail>>
  BY Zenon, LoopFacts
<1>2. /\ state \in [Pos -> States]
      /\ \A n \in 1 .. Len(segments) : segments[n] \in Pos /\ state[segments[n]] = DESC_PROCESSING
  <2>1. segments \in Seq(Pos) /\ state \in [Pos -> States] /\ SegmentsInv
    BY DEF IInv, TypeOK
  <2>2. \A n \in 1 .. Len(segments) : segments[n] \in Pos
    BY <2>1
  <2>. QED
    BY Zenon, <2>1, <2>2 DEF SegmentsInv
<1>. HIDE DEF p, x
<1>3. /\ \A q \in Pos : state'[q] = DESC_FETCHING <=> state[q] = DESC_FETCHING
      /\ \A q \in Pos : state'[q] = DESC_PREPARED <=> q # p /\ state[q] = DESC_PREPARED
  <2>1. CASE process_admin(p, x) \/ process_rx(p, x)
    <3>1. \E t \in {DESC_PROCESSING, DESC_PROCESSED} : state' = [state EXCEPT ![p] = t]
      BY Zenon, <2>1 DEF process_admin, process_rx
    <3>. QED
      BY <1>1, <1>2, <3>1, StateNumbers
  <2>2. CASE process_tx(p, x)
    <3>1. CASE state' = [state EXCEPT ![p] = DESC_PROCESSING]
      BY <1>1, <1>2, <3>1, StateNumbers
    <3>2. CASE state' = [q \in Pos |-> IF q = p \/ \E n \in 1 .. Len(segments) : segments[n] = q
                                         THEN DESC_PROCESSED ELSE state[q]]
      <4>1. ASSUME NEW q \in Pos
            PROVE  /\ state'[q] = DESC_FETCHING <=> state[q] = DESC_FETCHING
                   /\ state'[q] = DESC_PREPARED <=> q # p /\ state[q] = DESC_PREPARED
        <5>1. state'[q] = IF q = p \/ \E n \in 1 .. Len(segments) : segments[n] = q
                            THEN DESC_PROCESSED ELSE state[q]
          BY Zenon, <3>2
        <5>2. (\E n \in 1 .. Len(segments) : segments[n] = q) => state[q] = DESC_PROCESSING
          BY Zenon, <1>2
        <5>. QED
          BY Zenon, <1>1, <5>1, <5>2, StateNumbers
      <4>. QED
        BY Zenon, <4>1
    <3>. QED
      BY Zenon, <2>2, <3>1, <3>2 DEF process_tx
  <2>. QED
    BY Zenon, <1>1, <2>1, <2>2
<1>4. Unfetched' = Unfetched /\ active_cnt' = active_cnt
  BY <1>1 DEF Unfetched, window
<1>. QED
  BY Zenon, <1>1, <1>3, <1>4, RankBelow DEF Counted

LEMMA ReceiveRecedes ==
  ASSUME IInv, Counted, receive
  PROVE  Below(Rank', Rank)
<1>1. stack # <<>> /\ Top.fn = "receive" /\ UNCHANGED <<window, reg_tail>>
  BY Zenon DEF receive, In
<1>2. CASE Top.left = 0
  <2>1. Return /\ state' = state
    BY Zenon, <1>2 DEF receive
  <2>. QED
    BY Zenon, <1>1, <2>1, GoesBack
<1>3. CASE Top.left # 0
  <2>. DEFINE p == segments[1]
  <2>1. state' = [state EXCEPT ![p] = DESC_PROCESSED]
    BY Zenon, <1>3 DEF receive
  <2>2. /\ stack \in Seq(Frames) /\ segments \in Seq(Pos) /\ state \in [Pos -> States]
        /\ CallInv /\ SegmentsInv
    BY DEF IInv, TypeOK
  <2>3. Top \in Frames /\ Len(stack) \in 1 .. Len(stack) /\ Top = stack[Len(stack)]
    BY <1>1, <2>2, TopFrame
  <2>4. Top.left <= Len(segments) /\ Top.left \in 0 .. MaxActive
    BY Zenon, <1>1, <2>2, <2>3, FrameTypes DEF CallInv
  <2>5. 1 \in 1 .. Len(segments) /\ p \in Pos
    BY <1>3, <2>2, <2>4, Constants
  <2>6. state[p] = DESC_PROCESSING
    BY Zenon, <2>2, <2>5 DEF SegmentsInv
  <2>. HIDE DEF p
  <2>7. /\ \A q \in Pos : state'[q] = DESC_FETCHING <=> state[q] = DESC_FETCHING
        /\ \A q \in Pos : state'[q] = DESC_PREPARED <=> state[q] = DESC_PREPARED
        /\ \A q \in Pos : state'[q] = DESC_PROCESSING <=> q # p /\ state[q] = DESC_PROCESSING
    BY <2>1, <2>2, <2>5, <2>6, StateNumbers
  <2>8. Unfetched' = Unfetched /\ active_cnt' = active_cnt
    BY <1>1 DEF Unfetched, window
  <2>. QED
    BY Zenon, <2>5, <2>6, <2>7, <2>8, RankBelow DEF Counted
<1>. QED
  BY Zenon, <1>2, <1>3

\* Writing back shortens the window and leaves what is behind it alone.
LEMMA WritebackRecedes ==
  ASSUME IInv, Counted, trigger_writeback
  PROVE  Below(Rank', Rank)
<1>1. stack # <<>>
  BY Zenon, WritebackCases DEF In
<1>2. CASE Return /\ UNCHANGED <<window, reg_tail, state>>
  BY Zenon, <1>1, <1>2, GoesBack
<1>3. ASSUME NEW cnt \in 1 .. active_cnt, writeback_done(cnt), reg_tail' = reg_tail
      PROVE  Below(Rank', Rank)
  <2>1. /\ active_first_idx' = (active_first_idx + cnt) % RingLen /\ active_cnt' = active_cnt - cnt
    BY Zenon, <1>3 DEF writeback_done
  <2>2. active_first_idx \in Idx /\ active_cnt \in 0 .. MaxActive /\ reg_tail \in Idx
    BY DEF IInv, TypeOK
  <2>. DEFINE a == active_first_idx + cnt
              m == a % RingLen
              k == a \div RingLen
              u == reg_tail - (active_first_idx + active_cnt)
              v == reg_tail - (m + (active_cnt - cnt))
  <2>3. a \in Int /\ u \in Int
    BY <2>2, Constants DEF Idx
  <2>4. m \in Int /\ k \in Int /\ a = RingLen * k + m
    <3>. HIDE DEF a
    <3>. QED
      BY <2>3, Constants
  <2>5. v = u + RingLen * k
    <3>. HIDE DEF m, k
    <3>. QED
      BY <2>2, <2>4, Constants DEF Idx
  <2>6. (u % RingLen) \in 0 .. RingLen - 1 /\ u \div RingLen \in Int
        /\ u = RingLen * (u \div RingLen) + (u % RingLen)
    <3>. HIDE DEF u
    <3>. QED
      BY <2>3, Constants
  <2>7. v % RingLen = u % RingLen
    <3>. DEFINE r == u % RingLen
                j == u \div RingLen
    <3>. HIDE DEF u, v, k, r, j
    <3>1. r \in 0 .. RingLen - 1 /\ j \in Int /\ u = RingLen * j + r
      BY Zenon, <2>6 DEF r, j
    <3>2. v = RingLen * (j + k) + r /\ j + k \in Int
      BY <2>4, <2>5, <3>1, Constants
    <3>3. (RingLen * (j + k) + r) % RingLen = r
      BY Zenon, <3>1, <3>2, Constants, ModUnique
    <3>. QED
      BY Zenon, <3>2, <3>3 DEF r
  <2>8. Unfetched' = Unfetched
    BY Zenon, <1>3, <2>1, <2>7 DEF Unfetched
  <2>9. active_cnt - cnt < active_cnt
    BY <2>2, Constants
  <2>. QED
    BY Zenon, <2>1, <2>8, <2>9, RankBelow
<1>. QED
  BY Zenon, <1>2, <1>3, WritebackCases

\* Every step leaves less to do, if contexts can be counted.
LEMMA StepRecedes ==
  ASSUME IInv, Counted, Step
  PROVE  Below(Rank', Rank)
<1>1. stack # <<>> /\ stack \in Seq(Frames) /\ Top \in Frames
  <2>1. stack # <<>>
    BY Zenon DEF Step, trigger_fetch, prepare, prepared_all, trigger_process, process,
         process_break, trigger_writeback, receive, In
  <2>. QED
    BY Zenon, <2>1, TopFrame DEF IInv, TypeOK
<1>2. CASE prepared_all
  <2>1. /\ Top.fn = "fetched" /\ Become(Trigger) /\ UNCHANGED <<window, reg_tail, state>>
    BY ZenonT(40), <1>2 DEF prepared_all, In
  <2>2. Trigger \in Frames /\ Distance(Trigger) < Distance(Top)
    BY <1>1, <2>1, AreFrames, Distances DEF Trigger
  <2>. QED
    BY Zenon, <1>1, <2>1, <2>2, GoesOn
<1>3. CASE trigger_process
  <2>1. PICK first \in 0 .. active_cnt :
          /\ Top.fn = "process" /\ Become([fn |-> "loop", at |-> first])
          /\ UNCHANGED <<window, reg_tail, state>>
    BY Zenon, <1>3 DEF trigger_process, In
  <2>. DEFINE x == [fn |-> "loop", at |-> first]
  <2>2. first \in 0 .. MaxActive
    BY Constants DEF IInv, TypeOK
  <2>3. x \in Frames /\ x.fn = "loop"
    BY Zenon, <2>2, AreFrames
  <2>. HIDE DEF x
  <2>4. Distance(x) < Distance(Top)
    BY <1>1, <2>1, <2>3, Distances
  <2>. QED
    BY Zenon, <1>1, <2>1, <2>3, <2>4, GoesOn DEF x
<1>4. CASE process_break
  <2>. DEFINE x == [fn |-> "writeback"]
  <2>1. /\ Top.fn = "loop" /\ Become(x) /\ UNCHANGED <<window, reg_tail, state>>
    BY Zenon, <1>4 DEF process_break, In
  <2>2. x \in Frames /\ x.fn = "writeback"
    BY Zenon, AreFrames
  <2>. HIDE DEF x
  <2>3. Distance(x) < Distance(Top)
    BY <1>1, <2>1, <2>2, Distances
  <2>. QED
    BY Zenon, <1>1, <2>1, <2>2, <2>3, GoesOn
<1>. QED
  BY Zenon, <1>2, <1>3, <1>4, FetchRecedes, PrepareRecedes, ProcessRecedes,
     WritebackRecedes, ReceiveRecedes DEF Step

\* What is left to do is counted in natural numbers.
LEMMA RankType ==
  ASSUME IInv, Counted
  PROVE  Rank \in [1 .. 7 -> Nat]
<1>1. /\ active_first_idx \in Idx /\ active_cnt \in 0 .. MaxActive /\ reg_tail \in Idx
      /\ stack \in Seq(Frames)
  BY DEF IInv, TypeOK
<1>2. Unfetched \in Nat
  <2>. DEFINE u == reg_tail - (active_first_idx + active_cnt)
  <2>1. u \in Int
    BY <1>1, Constants DEF Idx
  <2>. HIDE DEF u
  <2>2. u % RingLen \in 0 .. RingLen - 1
    BY Zenon, <2>1, Constants, ModType
  <2>3. u % RingLen \in Nat
    BY <2>2, Constants
  <2>. QED
    BY Zenon, <2>3 DEF Unfetched, u
<1>3. active_cnt \in Nat /\ Len(stack) \in Nat
  BY <1>1, Constants
<1>4. \A s : Cardinality(InState(s)) \in Nat
  BY Zenon DEF Counted
<1>5. (IF stack = <<>> THEN 0 ELSE Distance(Top)) \in Nat
  <2>1. stack # <<>> => Top \in Frames
    BY Zenon, <1>1, TopFrame
  <2>. QED
    BY <2>1, Distances
<1>. QED
  BY <1>2, <1>3, <1>4, <1>5 DEF Rank

INSTANCE FiniteSetTheorems

LEMMA Counting == Counted
<1>. SUFFICES ASSUME NEW s
              PROVE  /\ Cardinality(InState(s)) \in Nat
                     /\ (\A p \in Pos : state'[p] = s <=> state[p] = s)
                          => Cardinality(InState(s))' = Cardinality(InState(s))
                     /\ \A q \in Pos :
                          state[q] = s /\ (\A p \in Pos : state'[p] = s <=> p # q /\ state[p] = s)
                            => Cardinality(InState(s))' < Cardinality(InState(s))
  BY Zenon DEF Counted
<1>. DEFINE S == InState(s)
            T == {p \in Pos : state'[p] = s}
<1>1. IsFiniteSet(Pos)
  BY Constants, FS_Interval DEF Pos
<1>2. S \in SUBSET Pos /\ InState(s)' = T
  BY Zenon DEF InState
<1>3. IsFiniteSet(S)
  BY ZenonT(40), <1>1, <1>2, FS_Subset
<1>4. Cardinality(S) \in Nat
  BY Zenon, <1>3, FS_CardinalityType
<1>5. ASSUME \A p \in Pos : state'[p] = s <=> state[p] = s
      PROVE  T = S
  BY Zenon, <1>5 DEF InState
<1>6. ASSUME NEW q \in Pos, state[q] = s, \A p \in Pos : state'[p] = s <=> p # q /\ state[p] = s
      PROVE  Cardinality(T) < Cardinality(S)
  <2>1. q \in S /\ T = S \ {q}
    BY Zenon, <1>6 DEF InState
  <2>2. Cardinality(S \ {q}) = Cardinality(S) - 1
    BY ZenonT(40), <1>3, <2>1, FS_RemoveElement
  <2>. HIDE DEF S, T
  <2>. QED
    BY <1>4, <2>1, <2>2
<1>. HIDE DEF S, T
<1>7. Cardinality(InState(s)) = Cardinality(S) /\ Cardinality(InState(s))' = Cardinality(T)
  BY Zenon, <1>2 DEF S
<1>. QED
  BY ZenonT(40), <1>4, <1>5, <1>6, <1>7

\* Every step inside a call from outside (a doorbell, a DMA completion, a packet)
\* leaves less to do, in the order of Below: fetching, preparing, processing and
\* writing back each bring some context forward or take a trigger off the stack
\* (e810_queues.cc), whatever the callbacks nest.
THEOREM EveryCallRecedes == Spec => CallsRecede
<1>1. IInv /\ Step => Below(Rank', Rank)
  BY Zenon, StepRecedes, Counting
<1>. QED
  BY <1>1, InvariantHolds, PTL DEF Spec, CallsRecede

INSTANCE WellFoundedInduction

\* What is left to do is always counted in natural numbers, and numbers ordered
\* in this way cannot become less for ever: so no call from outside can go on
\* for ever, as long as Step is taken.
THEOREM NothingRecedesForever ==
  /\ Spec => [](Rank \in [1 .. 7 -> Nat])
  /\ ~ \E f \in [Nat -> [1 .. 7 -> Nat]] : \A n \in Nat : Below(f[n + 1], f[n])
<1>1. IInv => Rank \in [1 .. 7 -> Nat]
  BY ZenonT(40), RankType, Counting
<1>2. ASSUME NEW f \in [Nat -> [1 .. 7 -> Nat]], \A n \in Nat : Below(f[n + 1], f[n])
      PROVE  FALSE
  <2>. DEFINE R == OpToRel(<, Nat)
              L == LexProductOrdering(R, Nat, 7)
  <2>1. \A i, j \in Nat : i < j => <<i, j>> \in R
    BY Zenon DEF OpToRel
  <2>. HIDE DEF R
  <2>2. IsWellFoundedOn(R, Nat)
    BY ZenonT(40), NatLessThanWellFounded DEF R
  <2>3. IsWellFoundedOn(L, [1 .. 7 -> Nat])
    BY ZenonT(40), <2>2, WFLexProductOrdering, 7 \in Nat
  <2>4. ASSUME NEW n \in Nat
        PROVE  <<f[n + 1], f[n]>> \in L
    <3>1. n + 1 \in Nat /\ f[n + 1] \in [1 .. 7 -> Nat] /\ f[n] \in [1 .. 7 -> Nat]
      OBVIOUS
    <3>. DEFINE r == f[n + 1]
                t == f[n]
    <3>2. Below(r, t)
      BY ZenonT(40), <1>2
    <3>. HIDE DEF r, t
    <3>3. PICK j \in 1 .. 7 : r[j] < t[j] /\ \A i \in 1 .. j - 1 : r[i] = t[i]
      BY ZenonT(40), <3>2 DEF Below
    <3>4. r \in [1 .. 7 -> Nat] /\ t \in [1 .. 7 -> Nat]
      BY ZenonT(40), <3>1 DEF r, t
    <3>5. <<r[j], t[j]>> \in R
      BY ZenonT(40), <2>1, <3>3, <3>4
    <3>6. <<r, t>> \in L
      BY ZenonT(40), <3>3, <3>4, <3>5 DEF LexProductOrdering
    <3>. QED
      BY ZenonT(40), <3>6 DEF r, t
  <2>. HIDE DEF L
  <2>. QED
    BY ZenonT(40), <2>3, <2>4 DEF IsWellFoundedOn
<1>3. Spec => [](Rank \in [1 .. 7 -> Nat])
  BY <1>1, InvariantHolds, PTL
<1>. QED
  BY ZenonT(40), <1>2, <1>3
===============================================================================
