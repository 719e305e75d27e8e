-------------------------- MODULE E810Transmit_proofs --------------------------
(***************************************************************************)
(* What a guest sends: the frames given to the NIC are those of the        *)
(* segmentation of the unit, and no mbuf is lost, for any buffer sizes,    *)
(* headers, segment size and pool.  IInv is inductive.                     *)
(***************************************************************************)
EXTENDS E810Transmit, SequenceTheorems, TLAPS

-----------------------------------------------------------------------------
(* Numbers                                                                 *)

\* Division rounding up, as a bound from both sides.
LEMMA DivUp ==
  ASSUME NEW x \in Int, NEW m \in Nat \ {0}
  PROVE  /\ (x + m - 1) \div m \in Int
         /\ x <= ((x + m - 1) \div m) * m
         /\ ((x + m - 1) \div m - 1) * m < x
<1> DEFINE y == x + m - 1
           q == y \div m
<1>1. y \in Int /\ q \in Int
  OBVIOUS
<1>2. q * m <= y /\ y < q * m + m
  <2>1. y = q * m + (y % m) /\ y % m \in 0 .. m - 1
    BY <1>1, SMTT(30), Z3T(30), ZenonT(40)
  <2>2. q * m \in Int
    BY <1>1
  <2> HIDE DEF q, y
  <2>. QED
    BY <1>1, <2>1, <2>2
<1>3. (q - 1) * m = q * m - m /\ q * m \in Int
  BY <1>1
<1>. QED
  BY <1>1, <1>2, <1>3

\* The order of multiples of m.
LEMMA Multiples ==
  ASSUME NEW a \in Int, NEW b \in Int, NEW m \in Nat
  PROVE  /\ a * m \in Int /\ b * m \in Int
         /\ (a + 1) * m = a * m + m /\ (a - 1) * m = a * m - m
         /\ a * m < b * m => a + 1 <= b
         /\ a <= b => a * m <= b * m
<1>1. a * m \in Int /\ b * m \in Int
  OBVIOUS
<1>2. (a + 1) * m = a * m + m /\ (a - 1) * m = a * m - m
  OBVIOUS
<1>3. a <= b => a * m <= b * m
  BY SMTT(30), Z3T(30), ZenonT(40)
<1>4. b <= a => b * m <= a * m
  BY SMTT(30), Z3T(30), ZenonT(40)
<1>. QED
  BY <1>1, <1>2, <1>3, <1>4

\* More bytes need as many mbufs or more, and at least one.
LEMMA MbufsGrow ==
  ASSUME NEW a \in Nat, NEW b \in Nat, a <= b
  PROVE  Mbufs(a) \in Nat \ {0} /\ Mbufs(b) \in Nat /\ Mbufs(a) <= Mbufs(b)
<1> DEFINE R == MbufRoom
           q(n) == (n + R - 1) \div R
<1>1. R \in Nat \ {0}
  BY TransmitAssumption
<1>2. \A n \in Nat : q(n) \in Int /\ n <= q(n) * R /\ (q(n) - 1) * R < n
  BY <1>1, DivUp
<1>3. \A n \in Nat : Mbufs(n) = IF n = 0 THEN 1 ELSE q(n)
  BY DEF Mbufs
<1> HIDE DEF q
<1>4. ASSUME NEW n \in Nat, n # 0
      PROVE  q(n) \in Nat \ {0}
  <2>1. q(n) \in Int /\ n <= q(n) * R
    BY <1>2
  <2>2. q(n) <= 0 => q(n) * R <= 0 * R
    BY <1>1, <2>1, Multiples
  <2>3. 0 * R = 0 /\ q(n) * R \in Int
    BY <1>1, <2>1
  <2> HIDE DEF R
  <2>. QED
    BY <1>4, <2>1, <2>2, <2>3
<1>5. a # 0 => q(a) <= q(b)
  <2> SUFFICES ASSUME a # 0  PROVE  q(a) <= q(b)
    OBVIOUS
  <2>1. q(a) - 1 \in Int /\ q(b) \in Int /\ q(a) \in Int
    BY <1>2
  <2>2. (q(a) - 1) * R \in Int /\ q(b) * R \in Int
    BY <1>1, <2>1, Multiples
  <2>3. (q(a) - 1) * R < a /\ b <= q(b) * R
    BY <1>2
  <2>4. (q(a) - 1) * R < q(b) * R
    <3> HIDE DEF R
    <3>. QED
      BY <2>2, <2>3
  <2>5. q(a) - 1 + 1 <= q(b)
    BY <1>1, <2>1, <2>4, Multiples
  <2>. QED
    BY <2>1, <2>5
<1>6. b = 0 => a = 0
  OBVIOUS
<1>. QED
  BY <1>3, <1>4, <1>5, <1>6

\* The unit has n frames if its end lies in the n-th one.
LEMMA FramesCount ==
  ASSUME unit.total \in Nat, unit.mss \in Nat \ {0},
         NEW k \in Nat, k = 0 \/ unit.total > Hdr + k * unit.mss
  PROVE  /\ NumFrames \in Nat /\ k + 1 <= NumFrames
         /\ unit.total <= Hdr + (k + 1) * unit.mss => NumFrames = k + 1
<1> DEFINE x == unit.total - Hdr
           q == NumFrames
           m == unit.mss
<1>1. m \in Nat \ {0} /\ Hdr \in Nat /\ x \in Int
  BY TransmitAssumption
<1>2. k * m \in Nat /\ 0 * m = 0
  <2>1. k \in Int /\ 0 \in Int /\ 0 <= k /\ m \in Nat
    BY <1>1
  <2>2. 0 * m <= k * m /\ k * m \in Int /\ 0 * m = 0
    BY <1>1, <2>1, Multiples
  <2> HIDE DEF m
  <2>. QED
    BY <2>2
<1>3. CASE unit.total <= Hdr
  <2>1. k = 0
    <3> DEFINE a == k * m
    <3>1. a \in Nat /\ (k = 0 \/ unit.total > Hdr + a)
      BY Zenon, <1>2
    <3> HIDE DEF a, m
    <3>. QED
      BY SMT, <1>1, <1>3, <3>1
  <2>2. q = 1
    BY Zenon, <1>3 DEF NumFrames
  <2>. QED
    BY SMT, <2>1, <2>2
<1>4. CASE ~(unit.total <= Hdr)
  <2>1. q = (x + m - 1) \div m
    BY <1>4 DEF NumFrames
  <2>2. q \in Int /\ x <= q * m /\ (q - 1) * m < x
    BY ZenonT(40), <1>1, <2>1, DivUp
  <2> HIDE DEF m, q
  <2>3. (k + 1) * m \in Int /\ q * m \in Int /\ (q - 1) * m \in Int
    BY <1>1, <2>2
  <2>4. k * m < x /\ (unit.total <= Hdr + (k + 1) * m => x <= (k + 1) * m)
    <3> DEFINE a == k * m
               b == (k + 1) * m
    <3>1. a \in Nat /\ b \in Int /\ (k = 0 => a = 0) /\ (k = 0 \/ unit.total > Hdr + a)
      BY Zenon, <1>2, <2>3 DEF m
    <3> HIDE DEF a, b
    <3>2. a < x /\ (unit.total <= Hdr + b => x <= b)
      BY SMT, <1>1, <1>4, <3>1
    <3>. QED
      BY Zenon, <3>2 DEF a, b
  <2>5. k * m < q * m
    BY <2>2, <2>3, <2>4, <1>1
  <2>6. k + 1 <= q
    BY <1>1, <2>2, <2>5, Multiples
  <2>7. ASSUME x <= (k + 1) * m  PROVE  q - 1 + 1 <= k + 1
    <3>1. (q - 1) * m < (k + 1) * m
      BY <2>2, <2>3, <2>7, <1>1
    <3>. QED
      BY <1>1, <2>2, <3>1, Multiples
  <2>8. x <= (k + 1) * m => q = k + 1
    BY SMT, <2>2, <2>6, <2>7
  <2>9. q \in Nat
    BY SMT, <2>2, <2>6
  <2>. QED
    BY Zenon, <2>4, <2>6, <2>8, <2>9 DEF m, q
<1>. QED
  BY Zenon, <1>3, <1>4

-----------------------------------------------------------------------------
(* Sequences and the bytes of a unit                                       *)

LEMMA Appended ==
  ASSUME NEW S, NEW s \in Seq(S), NEW x \in S
  PROVE  /\ Append(s, x) \in Seq(S) /\ Len(Append(s, x)) = Len(s) + 1 /\ Append(s, x) # <<>>
         /\ \A i \in 1 .. Len(s) : Append(s, x)[i] = s[i]
         /\ Append(s, x)[Len(s) + 1] = x
BY AppendProperties

LEMMA BytesType ==
  ASSUME unit.id \in {0, 1}, NEW a \in Nat, NEW b \in Nat
  PROVE  /\ Bytes(a, b) \in Seq(Byte)
         /\ a <= b => Len(Bytes(a, b)) = b - a
         /\ b <= a => Bytes(a, b) = <<>>
<1>1. \A n \in 1 .. b - a : <<unit.id, a + n - 1>> \in Byte
  <2> TAKE n \in 1 .. b - a
  <2>1. a + n - 1 \in Nat
    OBVIOUS
  <2>. QED
    BY <2>1 DEF Byte
<1>2. Bytes(a, b) \in [1 .. b - a -> Byte]
  BY <1>1 DEF Bytes
<1>3. CASE a <= b
  <2>1. b - a \in Nat
    BY <1>3
  <2>2. Bytes(a, b) \in Seq(Byte) /\ Len(Bytes(a, b)) = b - a
    BY <1>2, <2>1
  <2>3. b <= a => Bytes(a, b) = <<>>
    <3> SUFFICES ASSUME b <= a  PROVE  Bytes(a, b) = <<>>
      OBVIOUS
    <3>1. b - a = 0
      BY <1>3
    <3>2. Len(Bytes(a, b)) = 0
      BY Zenon, <2>2, <3>1
    <3>. QED
      BY Zenon, <2>2, <3>2, EmptySeq
  <2>. QED
    BY Zenon, <2>2, <2>3
<1>4. CASE ~(a <= b)
  <2>1. 1 .. b - a = {}
    BY <1>4
  <2>2. Bytes(a, b) = <<>>
    BY <2>1 DEF Bytes
  <2>3. <<>> \in Seq(Byte)
    BY Zenon, EmptySeq
  <2>. QED
    BY Zenon, <1>4, <2>2, <2>3
<1>. QED
  BY Zenon, <1>3, <1>4

\* Bytes that follow each other.
LEMMA BytesJoin ==
  ASSUME unit.id \in {0, 1}, NEW a \in Nat, NEW b \in Nat, NEW c \in Nat, a <= b, b <= c
  PROVE  Bytes(a, b) \o Bytes(b, c) = Bytes(a, c)
<1> DEFINE l == Bytes(a, b)
           r == Bytes(b, c)
           t == Bytes(a, c)
<1>0. a <= c
  OBVIOUS
<1>1. /\ l \in Seq(Byte) /\ Len(l) = b - a
      /\ r \in Seq(Byte) /\ Len(r) = c - b
      /\ t \in Seq(Byte) /\ Len(t) = c - a
  BY Zenon, <1>0, BytesType
<1>2. \A n \in 1 .. b - a : l[n] = <<unit.id, a + n - 1>>
  BY DEF Bytes
<1>3. \A n \in 1 .. c - b : r[n] = <<unit.id, b + n - 1>>
  BY DEF Bytes
<1>4. \A n \in 1 .. c - a : t[n] = <<unit.id, a + n - 1>>
  BY DEF Bytes
<1> HIDE DEF l, r, t
<1>5. /\ l \o r \in Seq(Byte) /\ Len(l \o r) = Len(l) + Len(r)
      /\ \A n \in 1 .. Len(l) + Len(r) : (l \o r)[n] = IF n <= Len(l) THEN l[n] ELSE r[n - Len(l)]
  BY Zenon, <1>1, ConcatProperties
<1>6. Len(l \o r) = Len(t) /\ Len(t) = Len(l) + Len(r)
  BY <1>1, <1>5
<1>7. ASSUME NEW n \in 1 .. Len(t)  PROVE  (l \o r)[n] = t[n]
  <2>1. (l \o r)[n] = IF n <= Len(l) THEN l[n] ELSE r[n - Len(l)]
    BY Zenon, <1>5, <1>6, <1>7
  <2>2. n \in 1 .. c - a /\ t[n] = <<unit.id, a + n - 1>>
    BY Zenon, <1>1, <1>4, <1>7
  <2>3. CASE n <= Len(l)
    <3>1. n \in 1 .. b - a
      BY <1>1, <2>2, <2>3
    <3>. QED
      BY Zenon, <1>2, <2>1, <2>2, <2>3, <3>1
  <2>4. CASE ~(n <= Len(l))
    <3> DEFINE j == n - Len(l)
    <3>1. j \in 1 .. c - b /\ b + j - 1 = a + n - 1
      BY <1>1, <2>2, <2>4
    <3>2. (l \o r)[n] = r[j]
      BY Zenon, <2>1, <2>4
    <3> HIDE DEF j
    <3>. QED
      BY Zenon, <1>3, <2>2, <3>1, <3>2
  <2>. QED
    BY Zenon, <2>3, <2>4
<1>8. l \o r = t
  <2>1. \A n \in 1 .. Len(l \o r) : (l \o r)[n] = t[n]
    BY Zenon, <1>6, <1>7
  <2>. QED
    BY Zenon, <1>1, <1>5, <1>6, <2>1, SeqEqual
<1>. QED
  BY Zenon, <1>8 DEF l, r, t

\* A sequence that starts with the bytes of the unit.
LEMMA BytesPrefix ==
  ASSUME unit.id \in {0, 1}, NEW a \in Nat, NEW s \in Seq(Byte)
  PROVE  /\ Len(Bytes(0, a) \o s) >= a
         /\ SubSeq(Bytes(0, a) \o s, 1, a) = Bytes(0, a)
<1> DEFINE h == Bytes(0, a)
           t == h \o s
           p == SubSeq(t, 1, a)
<1>1. h \in Seq(Byte) /\ Len(h) = a - 0
  <2>1. 0 \in Nat /\ 0 <= a
    OBVIOUS
  <2>. QED
    BY Zenon, <2>1, BytesType
<1>2. Len(h) = a /\ Len(s) \in Nat
  BY <1>1
<1> HIDE DEF h
<1>3. /\ t \in Seq(Byte) /\ Len(t) = Len(h) + Len(s)
      /\ \A n \in 1 .. Len(h) + Len(s) : t[n] = IF n <= Len(h) THEN h[n] ELSE s[n - Len(h)]
  BY Zenon, <1>1, ConcatProperties
<1> HIDE DEF t
<1>4. \A n \in 1 .. a : n \in 1 .. Len(h) + Len(s) /\ n <= Len(h)
  BY <1>2
<1>5. \A n \in 1 .. a : t[n] = h[n]
  BY Zenon, <1>3, <1>4
<1>6. \A n \in 1 .. a : h[n] \in Byte
  BY Zenon, <1>1, <1>2, ElementOfSeq
<1>7. \A n \in 1 .. a : t[n] \in Byte
  BY Zenon, <1>5, <1>6
<1>8. /\ p \in Seq(Byte) /\ Len(p) = IF 1 <= a THEN a - 1 + 1 ELSE 0
      /\ \A n \in 1 .. a - 1 + 1 : p[n] = t[1 + n - 1]
  BY SMTT(30), Z3T(30), ZenonT(40), <1>7, SubSeqProperties
<1> HIDE DEF p
<1>9. Len(p) = a /\ \A n \in 1 .. a : p[n] = t[n]
  <2>1. Len(p) = a
    BY <1>8
  <2>2. \A n \in 1 .. a : n \in 1 .. a - 1 + 1 /\ 1 + n - 1 = n
    OBVIOUS
  <2>. QED
    BY Zenon, <1>8, <2>1, <2>2
<1>10. p = h
  <2>1. Len(p) = Len(h) /\ \A n \in 1 .. Len(p) : p[n] = h[n]
    BY Zenon, <1>2, <1>5, <1>9
  <2>. QED
    BY Zenon, <1>1, <1>8, <2>1, SeqEqual
<1>11. Len(t) >= a
  BY <1>2, <1>3
<1>. QED
  BY Zenon, <1>10, <1>11 DEF p, t, h

-----------------------------------------------------------------------------
(* Frames                                                                  *)

LEMMA Constants ==
  /\ Hdr \in Nat \ {0} /\ MTU \in Nat /\ Pool \in Nat /\ MaxData \in Nat \ {0}
  /\ Lens \subseteq Nat /\ TagLens \subseteq Nat /\ Msss \subseteq Nat
BY TransmitAssumption

Frame == [hw : BOOLEAN, seq : Nat, bytes : Seq(Byte)]
Unit == [id : {0, 1}, tso : BOOLEAN, mss : Nat, total : Nat, fetched : Nat]
Segment == [ctx : BOOLEAN, from : Nat, to : Nat, low : Nat]

\* What is typed in TypeOK, under one name each.
LEMMA Types ==
  ASSUME TypeOK
  PROVE  /\ unit \in Unit /\ unit.id \in {0, 1} /\ unit.tso \in BOOLEAN /\ unit.total \in Nat
         /\ unit.mss \in Nat /\ unit.fetched \in Nat
         /\ ready_segments \in Seq(Segment)
         /\ sent \in Seq(Frame) /\ Len(sent) \in Nat /\ Len(ready_segments) \in Nat
         /\ tso_off \in Nat /\ tso_off <= unit.total
         /\ free \in Nat /\ nic \in Nat /\ nb_segs \in Nat
<1>1. unit \in Unit
  BY Zenon DEF TypeOK, Unit
<1>2. /\ unit.id \in {0, 1} /\ unit.tso \in BOOLEAN /\ unit.total \in Nat
      /\ unit.mss \in Nat /\ unit.fetched \in Nat
  BY <1>1 DEF Unit
<1>3. sent \in Seq(Frame) /\ ready_segments \in Seq(Segment)
  BY Zenon DEF TypeOK, Frame, Segment
<1>4. tso_off \in 0 .. unit.total /\ free \in 0 .. Pool /\ nic \in 0 .. Pool /\ nb_segs \in 0 .. Pool
  BY Zenon DEF TypeOK
<1>5. tso_off \in Nat /\ tso_off <= unit.total /\ free \in Nat /\ nic \in Nat /\ nb_segs \in Nat
  BY <1>2, <1>4, Constants
<1>6. Len(sent) \in Nat /\ Len(ready_segments) \in Nat
  BY Zenon, <1>3, LenProperties
<1>. QED
  BY Zenon, <1>1, <1>2, <1>3, <1>5, <1>6

\* Nothing sent is some of the frames.
LEMMA NoFramesBelow ==
  ASSUME sent = <<>>, NEW n
  PROVE  FramesBelow(n)
<1>1. Len(sent) = 0 /\ 1 .. 0 = {}
  OBVIOUS
<1> DEFINE index == [f \in 1 .. Len(sent) |-> 0]
<1>2. index \in [1 .. Len(sent) -> 0 .. n - 1]
  BY <1>1
<1>3. \A f \in 1 .. Len(sent) : FALSE
  BY <1>1
<1>. QED
  BY Zenon, <1>2, <1>3 DEF FramesBelow

LEMMA NoFrames ==
  sent = <<>> => FramesBelow(NumFrames)
BY Zenon, NoFramesBelow

\* Some of the first frames are some of more.
LEMMA MoreFrames ==
  ASSUME NEW k \in Nat, NEW n \in Nat, k <= n, FramesBelow(k)
  PROVE  FramesBelow(n)
<1>1. PICK index \in [1 .. Len(sent) -> 0 .. k - 1] :
        /\ \A f \in 1 .. Len(sent) : sent[f] = Reference(index[f])
        /\ \A f, g \in 1 .. Len(sent) : f < g => index[f] < index[g]
  BY Zenon DEF FramesBelow
<1>2. 0 .. k - 1 \subseteq 0 .. n - 1
  OBVIOUS
<1>3. index \in [1 .. Len(sent) -> 0 .. n - 1]
  BY <1>2
<1>. QED
  BY Zenon, <1>1, <1>3 DEF FramesBelow

\* A frame of the segmentation.
LEMMA ReferenceType ==
  ASSUME TypeOK, NEW k \in Nat
  PROVE  /\ k * unit.mss \in Nat /\ (k + 1) * unit.mss = k * unit.mss + unit.mss
         /\ Headers \in Seq(Byte) /\ Payload(k) \in Seq(Byte)
         /\ Reference(k) \in Frame
<1> DEFINE m == unit.mss
           a == k * m
           b == (k + 1) * m
<1>1. unit.total \in Nat /\ unit.id \in {0, 1} /\ m \in Nat /\ Hdr \in Nat
  BY SMT, Types, Constants
<1>2. a \in Nat /\ b = a + m
  <2>1. k \in Int /\ 0 \in Int /\ 0 <= k
    OBVIOUS
  <2>2. a \in Int /\ b = a + m /\ 0 * m <= a /\ 0 * m = 0
    BY <1>1, <2>1, Multiples
  <2> HIDE DEF a, b
  <2>. QED
    BY SMT, <2>2
<1> HIDE DEF m, a, b
<1>3. /\ Hdr + a \in Nat /\ MinOf(Hdr + b, unit.total) \in Nat /\ MinOf(Hdr, unit.total) \in Nat
      /\ 0 \in Nat
  BY SMT, <1>1, <1>2 DEF MinOf
<1>4. Payload(k) \in Seq(Byte)
  BY Zenon, <1>1, <1>3, BytesType DEF Payload, a, b, m
<1>5. Headers \in Seq(Byte)
  BY Zenon, <1>1, <1>3, BytesType DEF Headers
<1>6. Headers \o Payload(k) \in Seq(Byte)
  BY Zenon, <1>4, <1>5, ConcatProperties
<1>7. Reference(k) = [hw |-> FALSE, seq |-> a, bytes |-> Headers \o Payload(k)]
  BY Zenon DEF Reference, a, m
<1>8. Reference(k) \in Frame
  BY <1>2, <1>6, <1>7 DEF Frame
<1>. QED
  BY Zenon, <1>2, <1>4, <1>5, <1>8 DEF a, b, m

\* The frames of the segmentation one after the other.
LEMMA NextFirstFrames ==
  ASSUME TypeOK, NEW k \in Nat
  PROVE  Append(FirstFrames(k), Reference(k)) = FirstFrames(k + 1)
<1> DEFINE s == FirstFrames(k)
           t == FirstFrames(k + 1)
           x == Reference(k)
<1>1. \A i \in 1 .. k + 1 : Reference(i - 1) \in Frame
  <2> TAKE i \in 1 .. k + 1
  <2>1. i - 1 \in Nat
    OBVIOUS
  <2>. QED
    BY Zenon, <2>1, ReferenceType
<1>2. t \in [1 .. k + 1 -> Frame] /\ \A i \in 1 .. k + 1 : t[i] = Reference(i - 1)
  BY Zenon, <1>1 DEF FirstFrames
<1>3. \A i \in 1 .. k : i \in 1 .. k + 1
  OBVIOUS
<1>4. s \in [1 .. k -> Frame] /\ \A i \in 1 .. k : s[i] = Reference(i - 1)
  BY Zenon, <1>1, <1>3 DEF FirstFrames
<1>5. x \in Frame
  BY Zenon, ReferenceType
<1>6. t[k + 1] = x
  <2>1. k + 1 \in 1 .. k + 1 /\ (k + 1) - 1 = k
    OBVIOUS
  <2>2. t[k + 1] = Reference((k + 1) - 1)
    BY Zenon, <1>2, <2>1
  <2>. QED
    BY <2>1, <2>2
<1> HIDE DEF s, t, x
<1>7. s \in Seq(Frame) /\ Len(s) = k /\ t \in Seq(Frame) /\ Len(t) = k + 1
  BY <1>2, <1>4
<1>8. /\ Append(s, x) \in Seq(Frame) /\ Len(Append(s, x)) = k + 1
      /\ \A i \in 1 .. k : Append(s, x)[i] = s[i]
      /\ Append(s, x)[k + 1] = x
  <2>1. /\ Append(s, x) \in Seq(Frame) /\ Len(Append(s, x)) = Len(s) + 1
        /\ \A i \in 1 .. Len(s) : Append(s, x)[i] = s[i]
        /\ Append(s, x)[Len(s) + 1] = x
    BY <1>5, <1>7, AppendProperties
  <2>. QED
    BY Zenon, <1>7, <2>1
<1>9. \A i \in 1 .. k + 1 : Append(s, x)[i] = t[i]
  <2> TAKE i \in 1 .. k + 1
  <2>1. i \in 1 .. k \/ i = k + 1
    OBVIOUS
  <2>. QED
    BY Zenon, <1>2, <1>4, <1>6, <1>8, <2>1
<1>10. Append(s, x) = t
  BY Zenon, <1>7, <1>8, <1>9, SeqEqual
<1>. QED
  BY Zenon, <1>10 DEF s, t, x

\* Nothing that is said of a unit changes while the unit stays.
LEMMA SameUnit ==
  ASSUME unit' = unit
  PROVE  /\ \A a, b : Bytes(a, b)' = Bytes(a, b)
         /\ \A k : Reference(k)' = Reference(k)
         /\ \A n : FirstFrames(n)' = FirstFrames(n)
         /\ \A hw : Whole(hw)' = Whole(hw)
         /\ NumFrames' = NumFrames
         /\ WellFormed' <=> WellFormed
<1>1. ASSUME NEW a, NEW b  PROVE  Bytes(a, b)' = Bytes(a, b)
  BY Zenon DEF Bytes
<1>2. ASSUME NEW k  PROVE  Reference(k)' = Reference(k)
  BY Zenon DEF Reference, Headers, Payload, Bytes
<1>3. ASSUME NEW n  PROVE  FirstFrames(n)' = FirstFrames(n)
  BY Zenon DEF FirstFrames, Reference, Headers, Payload, Bytes
<1>4. ASSUME NEW hw  PROVE  Whole(hw)' = Whole(hw)
  BY Zenon DEF Whole, Bytes
<1>5. NumFrames' = NumFrames
  BY Zenon DEF NumFrames
<1>6. WellFormed' <=> WellFormed
  BY Zenon DEF WellFormed
<1>. QED
  BY Zenon, <1>1, <1>2, <1>3, <1>4, <1>5, <1>6

LEMMA SameFrames ==
  ASSUME unit' = unit, sent' = sent, NEW n
  PROVE  FramesBelow(n)' <=> FramesBelow(n)
<1>1. \A k : Reference(k)' = Reference(k)
  BY Zenon, SameUnit
<1>. QED
  BY Zenon, <1>1 DEF FramesBelow

\* Sending the next frame, or dropping it.
LEMMA NextFrame ==
  ASSUME TypeOK, NEW k \in Nat, FramesBelow(k), unit' = unit,
         sent' = sent \/ sent' = Append(sent, Reference(k)),
         NEW n \in Nat, k + 1 <= n
  PROVE  FramesBelow(n)'
<1>1. CASE sent' = sent
  <2>1. k <= n
    OBVIOUS
  <2>2. FramesBelow(n)
    BY Zenon, <2>1, MoreFrames
  <2>. QED
    BY Zenon, <1>1, <2>2, SameFrames
<1>2. CASE sent' = Append(sent, Reference(k))
  <2>1. \A i : Reference(i)' = Reference(i)
    BY Zenon, SameUnit
  <2>2. PICK index \in [1 .. Len(sent) -> 0 .. k - 1] :
          /\ \A f \in 1 .. Len(sent) : sent[f] = Reference(index[f])
          /\ \A f, g \in 1 .. Len(sent) : f < g => index[f] < index[g]
    BY Zenon DEF FramesBelow
  <2>3. sent \in Seq(Frame) /\ Len(sent) \in Nat /\ Reference(k) \in Frame
    BY Zenon, Types, ReferenceType
  <2> DEFINE l == Len(sent)
             x == Reference(k)
             all == [f \in 1 .. l + 1 |-> IF f <= l THEN index[f] ELSE k]
  <2>4. /\ Len(sent') = l + 1
        /\ \A f \in 1 .. l : sent'[f] = sent[f]
        /\ sent'[l + 1] = x
    <3> HIDE DEF x
    <3>1. x \in Frame /\ sent' = Append(sent, x)
      BY Zenon, <1>2, <2>3 DEF x
    <3>. QED
      BY <2>3, <3>1
  <2> HIDE DEF x
  <2>5. \A f \in 1 .. l : index[f] \in 0 .. k - 1
    OBVIOUS
  <2>6. \A f \in 1 .. l + 1 : (f \in 1 .. l /\ f <= l) \/ (f = l + 1 /\ ~(f <= l))
    BY <2>3
  <2>7. \A f \in 1 .. l + 1 : all[f] = IF f <= l THEN index[f] ELSE k
    OBVIOUS
  <2>8. all \in [1 .. l + 1 -> 0 .. n - 1]
    <3>1. \A f \in 1 .. l + 1 : (IF f <= l THEN index[f] ELSE k) \in 0 .. n - 1
      BY <2>5, <2>6
    <3>. QED
      BY Zenon, <3>1
  <2> HIDE DEF all, l
  <2>9. \A f \in 1 .. l + 1 : sent'[f] = Reference(all[f])
    BY Zenon, <2>2, <2>4, <2>6, <2>7 DEF x, l
  <2>10. \A f, g \in 1 .. l + 1 : f < g => all[f] < all[g]
    <3> TAKE f, g \in 1 .. l + 1
    <3> HAVE f < g
    <3>1. l \in Nat /\ \A i, j \in 1 .. l : i < j => index[i] < index[j]
      BY Zenon, <2>2, <2>3 DEF l
    <3>2. f \in 1 .. l /\ all[f] = index[f] /\ index[f] \in 0 .. k - 1
      <4>1. f <= l /\ f \in 1 .. l
        BY <3>1
      <4>. QED
        BY Zenon, <2>5, <2>7, <4>1
    <3>3. CASE g <= l
      <4>1. g \in 1 .. l
        BY <3>1, <3>3
      <4>. QED
        BY Zenon, <2>7, <3>1, <3>2, <3>3, <4>1
    <3>4. CASE ~(g <= l)
      <4>1. all[g] = k
        BY Zenon, <2>7, <3>4
      <4>. QED
        BY <3>2, <4>1
    <3>. QED
      BY Zenon, <3>3, <3>4
  <2>11. PICK next \in [1 .. l + 1 -> 0 .. n - 1] :
           /\ \A f \in 1 .. l + 1 : sent'[f] = Reference(next[f])
           /\ \A f, g \in 1 .. l + 1 : f < g => next[f] < next[g]
    BY Zenon, <2>8, <2>9, <2>10
  <2>12. \A f \in 1 .. l + 1 : sent'[f] = Reference(next[f])'
    BY Zenon, <2>1, <2>11
  <2>. QED
    BY Zenon, <2>4, <2>11, <2>12 DEF FramesBelow
<1>. QED
  BY Zenon, <1>1, <1>2

\* What was sent stays right unless descriptors are given back.
LEMMA SameSegmentation ==
  ASSUME SentIsSegmentation, unit' = unit, sent' = sent,
         GivenBack' /\ ~lost' => GivenBack /\ ~lost
  PROVE  SentIsSegmentation'
<1>1. /\ \A n : FirstFrames(n)' = FirstFrames(n)
      /\ \A hw : Whole(hw)' = Whole(hw)
      /\ NumFrames' = NumFrames
      /\ WellFormed' <=> WellFormed
  BY Zenon, SameUnit
<1>2. \A n : FramesBelow(n)' <=> FramesBelow(n)
  BY Zenon, SameFrames
<1>3. FramesBelow(NumFrames)' <=> FramesBelow(NumFrames)
  <2>1. \A n : n = NumFrames => (FramesBelow(NumFrames)' <=> FramesBelow(n))
    BY ZenonT(40), <1>1, <1>2, SameUnit DEF FramesBelow
  <2>. QED
    BY Zenon, <2>1
<1>4. FirstFrames(NumFrames)' = FirstFrames(NumFrames)
  BY Zenon, <1>1, SameUnit DEF FirstFrames
<1>5. Whole(unit.tso)' = Whole(unit.tso) /\ Whole(TRUE)' = Whole(TRUE)
  BY Zenon, <1>1 DEF Whole, Bytes
<1>6. ASSUME WellFormed'
      PROVE  (unit.tso => sent = <<Whole(TRUE)>> \/ FramesBelow(NumFrames))'
  BY Zenon, <1>1, <1>3, <1>5, <1>6 DEF SentIsSegmentation
<1>7. ASSUME WellFormed', (GivenBack /\ unit.total > 0 /\ ~lost)'
      PROVE  (sent = <<Whole(unit.tso)>> \/ (unit.tso /\ sent = FirstFrames(NumFrames)))'
  <2>1. GivenBack /\ unit.total > 0 /\ ~lost
    BY Zenon, <1>7
  <2>2. sent = <<Whole(unit.tso)>> \/ (unit.tso /\ sent = FirstFrames(NumFrames))
    BY Zenon, <1>1, <1>7, <2>1 DEF SentIsSegmentation
  <2>. QED
    BY Zenon, <1>4, <1>5, <2>2
<1>. QED
  BY Zenon, <1>6, <1>7 DEF SentIsSegmentation

-----------------------------------------------------------------------------
(* Steps that leave the unit and what was sent of it alone                 *)

LEMMA UnitAlone ==
  ASSUME IInv, UNCHANGED <<unit, segments, frameVars, sent, lost>>, pc' = "rest" <=> pc = "rest"
  PROVE  BuffersInv' /\ FramesInv' /\ SentIsSegmentation'
<1>1. /\ unit' = unit /\ ready_segments' = ready_segments /\ eop' = eop /\ tso_off' = tso_off
      /\ tso_len' = tso_len /\ pktbuf' = pktbuf /\ sent_seq' = sent_seq /\ sent' = sent /\ lost' = lost
  BY Zenon DEF segments, frameVars
<1>9. GivenBack' <=> GivenBack
  BY Zenon, <1>1 DEF GivenBack
<1>2. BuffersInv'
  <2>1. BuffersInv /\ NumData' = NumData /\ d_skip' = d_skip
    BY Zenon, <1>1 DEF IInv, NumData, d_skip
  <2>. QED
    BY ZenonT(40), <1>1, <2>1 DEF BuffersInv
<1>3. /\ \A a, b : Bytes(a, b)' = Bytes(a, b)
      /\ \A n : FirstFrames(n)' = FirstFrames(n)
  BY Zenon, <1>1, SameUnit
<1>4. \A n : FramesBelow(n)' <=> FramesBelow(n)
  BY Zenon, <1>1, SameFrames
<1>5. FramesInv'
  <2>1. ASSUME NEW k, BetweenFrames(k)  PROVE  BetweenFrames(k)'
    BY SMTT(30), Z3T(30), ZenonT(40), <1>1, <1>3, <1>4, <2>1 DEF BetweenFrames
  <2>. QED
    BY SMTT(30), Z3T(30), ZenonT(40), <1>1, <1>9, <2>1 DEF IInv, FramesInv
<1>6. SentIsSegmentation'
  <2>1. SentIsSegmentation
    BY Zenon DEF IInv
  <2>2. GivenBack' /\ ~lost' => GivenBack /\ ~lost
    BY SMTT(30), Z3T(30), ZenonT(40), <1>9, <1>1
  <2>. QED
    BY Zenon, <1>1, <2>1, <2>2, SameSegmentation
<1>. QED
  BY Zenon, <1>2, <1>5, <1>6

\* No part of the unit has been copied while its descriptors are gathered.
LEMMA Gathering ==
  ASSUME IInv, ~eop
  PROVE  tso_off = 0 /\ tso_len = 0 /\ (ready_segments # <<>> => sent = <<>> /\ ~lost)
<1>1. tso_off = 0
  BY Zenon DEF IInv, FramesInv, BetweenFrames
<1>2. pc # "rest"
  BY Zenon DEF IInv, StepInv
<1>. QED
  BY Zenon, <1>1, <1>2 DEF IInv, FramesInv, GivenBack

LEMMA InitHolds ==
  Init => IInv
<1> SUFFICES ASSUME Init  PROVE  IInv
  OBVIOUS
<1>1. TypeOK
  <2>1. <<>> \in Seq(Byte) /\ <<>> \in Seq([ctx : BOOLEAN, from : Nat, to : Nat, low : Nat])
        /\ Len(<<>>) = 0 /\ <<>> \in Seq([hw : BOOLEAN, seq : Nat, bytes : Seq(Byte)])
    BY Zenon, EmptySeq
  <2>2. /\ unit \in [id : {0, 1}, tso : BOOLEAN, mss : Nat, total : Nat, fetched : Nat]
        /\ unit.total = 0
    BY DEF Init
  <2>3. 0 \in 0 .. 0 /\ 0 \in 0 .. Pool /\ Pool \in 0 .. Pool /\ 0 <= MaxData + 1 /\ 1 \in 1 .. MaxData
    BY Constants
  <2>. QED
    BY Zenon, <2>1, <2>2, <2>3 DEF Init, TypeOK
<1>2. d_skip = 0 /\ NumData = 0
  BY DEF Init, d_skip, NumData
<1>3. BuffersInv
  BY <1>2, Constants DEF Init, BuffersInv
<1>4. StepInv /\ FramesInv
  BY DEF Init, StepInv, FramesInv, GivenBack
<1>5. MbufsAccounted
  BY SMT, Constants DEF Init, MbufsAccounted
<1>6. SentIsSegmentation
  BY DEF Init, SentIsSegmentation
<1>. QED
  BY <1>1, <1>3, <1>4, <1>5, <1>6 DEF IInv

\* Everything lies in the pool or with the NIC while no chain is built.
LEMMA NoChain ==
  ASSUME IInv, pc # "hw"
  PROVE  /\ tso_seg = <<>> /\ nb_segs = 0 /\ free + nic = Pool /\ free \in Nat /\ nic \in Nat
<1>1. tso_seg = <<>> /\ free + nic + nb_segs = Pool /\ ~(nb_segs > 0)
  BY Zenon DEF IInv, MbufsAccounted, StepInv
<1>2. free \in Nat /\ nic \in Nat /\ nb_segs \in Nat
  BY Zenon, Types DEF IInv
<1>3. nb_segs = 0 /\ free + nic = Pool
  BY SMT, <1>1, <1>2
<1>. QED
  BY Zenon, <1>1, <1>2, <1>3

LEMMA NoChainAccounted ==
  ASSUME NEW f \in Nat, NEW n \in Nat, f + n = Pool, free' = f, nic' = n, nb_segs' = 0
  PROVE  MbufsAccounted' /\ free' \in 0 .. Pool /\ nic' \in 0 .. Pool /\ nb_segs' \in 0 .. Pool
<1>1. f + n + 0 = Pool /\ f \in 0 .. Pool /\ n \in 0 .. Pool /\ 0 \in 0 .. Pool /\ ~(0 > 0)
  BY SMT, Constants
<1>. QED
  BY Zenon, <1>1 DEF MbufsAccounted

\* The driver is left alone.
LEMMA DriverAlone ==
  ASSUME IInv, pc # "hw", UNCHANGED driverVars
  PROVE  MbufsAccounted' /\ tso_seg' = <<>>
<1>1. tso_seg' = tso_seg /\ nb_segs' = nb_segs /\ free' = free /\ nic' = nic
  BY Zenon DEF driverVars
<1>. QED
  BY Zenon, <1>1, NoChain, NoChainAccounted

LEMMA IncompleteKeeps ==
  ASSUME IInv, incomplete
  PROVE  IInv'
<1>1. pc = "tx" /\ ~eop /\ pc' = "idle" /\ eop' = eop
  BY Zenon DEF incomplete, segments
<1>2. BuffersInv' /\ FramesInv' /\ SentIsSegmentation'
  BY Zenon, <1>1, UnitAlone DEF incomplete
<1>3. TypeOK'
  BY Zenon, <1>1 DEF IInv, TypeOK, incomplete, segments, frameVars, driverVars
<1>4. MbufsAccounted' /\ tso_seg' = <<>>
  BY Zenon, <1>1, DriverAlone DEF incomplete
<1>5. StepInv'
  BY Zenon, <1>1, <1>4 DEF StepInv
<1>. QED
  BY Zenon, <1>2, <1>3, <1>4, <1>5 DEF IInv

LEMMA AbortKeeps ==
  ASSUME IInv, pc \notin {"hw", "rest"}, abort
  PROVE  IInv'
<1>1. pc' = "aborted" /\ pc # "hw" /\ pc # "rest"
  BY Zenon DEF abort
<1>2. BuffersInv' /\ FramesInv' /\ SentIsSegmentation'
  BY Zenon, <1>1, UnitAlone DEF abort
<1>3. TypeOK'
  BY Zenon, <1>1 DEF IInv, TypeOK, abort, segments, frameVars, driverVars
<1>4. MbufsAccounted' /\ tso_seg' = <<>>
  BY Zenon, <1>1, DriverAlone DEF abort
<1>5. StepInv'
  BY Zenon, <1>1, <1>4 DEF StepInv
<1>. QED
  BY Zenon, <1>2, <1>3, <1>4, <1>5 DEF IInv

\* What is known of the chain stays the same with the unit and the chain.
LEMMA SameStep ==
  ASSUME StepInv, UNCHANGED <<unit, segments, frameVars, pc, seg, tso_seg, nb_segs>>
  PROVE  StepInv'
<1>1. /\ unit' = unit /\ ready_segments' = ready_segments /\ eop' = eop /\ tso_off' = tso_off
      /\ pc' = pc /\ seg' = seg /\ tso_seg' = tso_seg /\ nb_segs' = nb_segs
  BY Zenon DEF segments, frameVars
<1>2. d_skip' = d_skip /\ NumData' = NumData
  BY Zenon, <1>1 DEF d_skip, NumData
<1>3. \A a, b : Bytes(a, b)' = Bytes(a, b)
  BY Zenon, <1>1, SameUnit
<1>4. (Bytes(0, ready_segments[d_skip + seg].from))' = Bytes(0, ready_segments[d_skip + seg].from)
  BY Zenon, <1>1, <1>2, <1>3 DEF Bytes
<1>5. Mbufs(Len(tso_seg))' = Mbufs(Len(tso_seg))
  BY Zenon, <1>1 DEF Mbufs
<1>. QED
  BY Zenon, <1>1, <1>2, <1>4, <1>5 DEF StepInv

LEMMA NicKeeps ==
  ASSUME IInv, NEW n \in 1 .. nic, nic_done(n)
  PROVE  IInv'
<1>1. /\ nic' = nic - n /\ free' = free + n /\ nb_segs' = nb_segs /\ pc' = pc
      /\ UNCHANGED <<unit, segments, frameVars, sent, lost>>
      /\ UNCHANGED <<unit, segments, frameVars, pc, seg, tso_seg, nb_segs>>
  BY Zenon DEF nic_done
<1>2. BuffersInv' /\ FramesInv' /\ SentIsSegmentation'
  BY Zenon, <1>1, UnitAlone
<1>3. TypeOK /\ MbufsAccounted /\ StepInv /\ free \in Nat /\ nic \in Nat /\ nb_segs \in Nat
  BY Zenon, Types DEF IInv
<1>4. free' + nic' + nb_segs = Pool /\ free' \in 0 .. Pool /\ nic' \in 0 .. Pool
  <2>1. free + nic + nb_segs = Pool /\ Pool \in Nat
    BY Zenon, <1>3, Constants DEF MbufsAccounted
  <2>. QED
    BY SMT, <1>1, <1>3, <2>1
<1>5. MbufsAccounted'
  BY Zenon, <1>1, <1>3, <1>4 DEF MbufsAccounted
<1>6. TypeOK'
  BY Zenon, <1>3, <1>4 DEF TypeOK, nic_done, segments, frameVars
<1>7. StepInv'
  BY Zenon, <1>1, <1>3, SameStep
<1>. QED
  BY Zenon, <1>2, <1>5, <1>6, <1>7 DEF IInv

\* The first buffer of a unit starts at 0.
LEMMA FirstBuffer ==
  ASSUME IInv, eop, pc # "rest"
  PROVE  /\ d_skip \in {0, 1} /\ 1 <= NumData
         /\ d_skip + 1 \in 1 .. Len(ready_segments)
         /\ ready_segments[d_skip + 1].from = 0
<1> DEFINE l == Len(ready_segments)
<1>1. /\ TypeOK /\ BuffersInv /\ l \in Nat /\ d_skip \in {0, 1} /\ NumData = l - d_skip
  <2>1. d_skip \in {0, 1}
    BY DEF d_skip
  <2>. QED
    BY Zenon, <2>1, Types DEF IInv, NumData
<1>2. NumData > 0
  BY Zenon, <1>1 DEF BuffersInv
<1> HIDE DEF l
<1>3. 1 <= NumData /\ d_skip + 1 \in 1 .. l /\ 1 \in 1 .. l /\ (d_skip = 1 => 1 \in 1 .. l - 1)
  BY SMT, <1>1, <1>2
<1>4. ready_segments # <<>>
  <2>1. Len(<<>>) = 0 /\ ~(0 \in Nat /\ 1 \in 1 .. 0)
    BY SMT
  <2>. QED
    BY Zenon, <1>1, <1>3, <2>1 DEF l
<1>5. CASE d_skip = 0
  <2>1. ready_segments[1].from = 0 /\ 0 + 1 = 1
    BY Zenon, <1>1, <1>4, SMT DEF BuffersInv
  <2>. QED
    BY Zenon, <1>1, <1>3, <1>5, <2>1 DEF l
<1>6. CASE d_skip # 0
  <2>1. d_skip = 1 /\ ready_segments[1].ctx
    BY Zenon, <1>1, <1>6 DEF d_skip
  <2>2. ready_segments[1].to = 0
    BY Zenon, <1>1, <1>3, <2>1 DEF BuffersInv, l
  <2>3. ready_segments[1 + 1].from = ready_segments[1].to
    BY Zenon, <1>1, <1>3, <2>1 DEF BuffersInv, l
  <2>. QED
    BY Zenon, <1>1, <1>3, <2>1, <2>2, <2>3 DEF l
<1>. QED
  BY Zenon, <1>5, <1>6

LEMMA ChoosePathKeeps ==
  ASSUME IInv, choose_path
  PROVE  IInv'
<1>1. /\ pc = "tx" /\ eop /\ pc' = (IF TriesNic THEN "hw" ELSE "sw") /\ seg' = 1
      /\ unit' = unit /\ ready_segments' = ready_segments /\ eop' = eop /\ tso_off' = tso_off
      /\ d_skip' = d_skip /\ NumData' = NumData /\ nb_segs' = nb_segs
      /\ UNCHANGED driverVars /\ UNCHANGED <<unit, segments, frameVars, sent, lost>>
  BY Zenon DEF choose_path, segments, frameVars, driverVars, NumData, d_skip
<1>2. pc # "hw" /\ pc # "rest" /\ pc' # "rest" /\ pc' # "idle" /\ pc' \in {"hw", "sw"}
  BY Zenon, <1>1
<1>3. BuffersInv' /\ FramesInv' /\ SentIsSegmentation'
  BY Zenon, <1>1, <1>2, UnitAlone
<1>4. nb_segs = 0 /\ tso_seg' = <<>> /\ MbufsAccounted'
  BY Zenon, <1>1, <1>2, NoChain, DriverAlone
<1>5. TypeOK'
  <2>1. 1 \in 1 .. MaxData
    BY Constants
  <2>. QED
    BY Zenon, <1>1, <1>2, <2>1 DEF IInv, TypeOK, choose_path, segments, frameVars, driverVars
<1>6. 1 <= NumData /\ ready_segments[d_skip + 1].from = 0
  BY Zenon, <1>1, <1>2, FirstBuffer
<1>7. ASSUME pc' = "hw"
      PROVE  (/\ unit.tso /\ tso_off = 0 /\ seg <= NumData
              /\ tso_seg = Bytes(0, ready_segments[d_skip + seg].from)
              /\ nb_segs = IF seg = 1 THEN 0 ELSE Mbufs(Len(tso_seg)))'
  <2>1. unit.tso /\ tso_off = 0
    BY Zenon, <1>1, <1>7 DEF TriesNic
  <2>2. Bytes(0, 0)' = <<>>
    BY SMTT(30), Z3T(30), ZenonT(40) DEF Bytes
  <2>3. (ready_segments[d_skip + seg].from)' = 0
    BY Zenon, <1>1, <1>6
  <2>4. Bytes(0, ready_segments[d_skip + seg].from)' = Bytes(0, 0)'
    BY Zenon, <2>3 DEF Bytes
  <2>. QED
    BY Zenon, <1>1, <1>4, <1>6, <2>1, <2>2, <2>4
<1>8. StepInv'
  BY Zenon, <1>1, <1>2, <1>4, <1>7 DEF StepInv
<1>. QED
  BY Zenon, <1>3, <1>4, <1>5, <1>8 DEF IInv

-----------------------------------------------------------------------------
(* The guest's descriptors                                                 *)

\* Nothing of a unit is sent while its descriptors are gathered.
LEMMA NothingSent ==
  ASSUME ready_segments' # <<>>, pc' # "rest",
         sent' = <<>>, lost' = FALSE, tso_off' = 0, tso_len' = 0
  PROVE  FramesInv' /\ SentIsSegmentation'
<1>1. NoFrames!:'
  BY NoFrames, PTL
<1>2. ~GivenBack'
  BY Zenon DEF GivenBack
<1>3. SentIsSegmentation'
  BY Zenon, <1>1, <1>2 DEF SentIsSegmentation
<1>4. FramesInv'
  BY Zenon DEF FramesInv
<1>. QED
  BY Zenon, <1>3, <1>4

\* A new unit has the other number.
LEMMA NewUnitType ==
  ASSUME TypeOK, NEW tso \in BOOLEAN, NEW mss \in Nat
  PROVE  /\ NewUnit(tso, mss) \in Unit
         /\ NewUnit(tso, mss).total = 0 /\ NewUnit(tso, mss).fetched = 0 /\ NewUnit(tso, mss).tso = tso
<1>1. unit.id \in {0, 1}
  BY Zenon, Types
<1>2. 1 - unit.id \in {0, 1}
  BY SMT, <1>1
<1>. QED
  BY <1>2 DEF NewUnit, Unit

LEMMA ContextKeeps ==
  ASSUME IInv, NEW tso \in BOOLEAN, NEW mss \in Nat, process_context(tso, mss)
  PROVE  IInv'
<1>1. TypeOK /\ pc = "idle" /\ ~eop /\ pc # "hw"
  BY DEF IInv, StepInv, process_context
<1>2. tso_off = 0 /\ tso_len = 0
  BY Zenon, <1>1, Gathering
<1>3. /\ ready_segments' = <<Context>> /\ eop' = FALSE /\ pc' = "tx"
      /\ sent' = <<>> /\ lost' = FALSE /\ tso_off' = tso_off /\ tso_len' = tso_len
      /\ unit' = NewUnit(tso, mss)
  BY Zenon DEF process_context, frameVars
<1>4. MbufsAccounted' /\ tso_seg' = <<>>
  BY Zenon, <1>1, DriverAlone DEF process_context
<1>5. Len(<<Context>>) = 1 /\ <<Context>>[1] = Context /\ <<Context>> # <<>>
  OBVIOUS
<1>6. /\ Context \in Segment /\ Context.from = 0 /\ Context.to = 0 /\ Context.low = 0
      /\ Context.ctx = TRUE
  BY DEF Context, Segment
<1>7. unit' \in Unit /\ unit'.total = 0 /\ unit'.fetched = 0
  BY Zenon, <1>1, <1>3, NewUnitType
<1>8. TypeOK'
  <2>1. ready_segments' \in Seq([ctx : BOOLEAN, from : Nat, to : Nat, low : Nat])
    BY <1>3, <1>6 DEF Segment
  <2>2. Len(ready_segments') = 1 /\ 1 <= MaxData + 1 /\ 0 \in 0 .. 0
    BY <1>3, <1>5, Constants
  <2>3. (tso_off \in 0 .. unit.total)' /\ (Len(ready_segments) <= MaxData + 1)'
    BY Zenon, <1>2, <1>3, <1>7, <2>2
  <2>4. sent' \in Seq([hw : BOOLEAN, seq : Nat, bytes : Seq(Byte)])
    BY Zenon, <1>3, EmptySeq
  <2>5. unit' \in [id : {0, 1}, tso : BOOLEAN, mss : Nat, total : Nat, fetched : Nat]
    BY Zenon, <1>7 DEF Unit
  <2>. QED
    BY Zenon, <1>1, <1>3, <2>1, <2>3, <2>4, <2>5 DEF TypeOK, process_context, frameVars, driverVars
<1>9. FramesInv' /\ SentIsSegmentation'
  BY Zenon, <1>2, <1>3, <1>5, NothingSent
<1>10. BuffersInv'
  <2>1. d_skip' = 1 /\ NumData' = 1 - 1
    BY Zenon, <1>3, <1>5, <1>6 DEF d_skip, NumData
  <2>2. NumData' <= MaxData - 1
    BY <2>1, Constants
  <2>3. 0 <= 0 /\ \A i \in 1 .. 1 : i = 1 /\ <<Context>>[i] = Context
    BY <1>5
  <2>4. \A i \in 1 .. 1 - 1 : FALSE
    OBVIOUS
  <2>5. /\ ready_segments'[1].from = 0
        /\ ready_segments'[Len(ready_segments')].to = unit'.fetched
    BY Zenon, <1>3, <1>5, <1>6, <1>7
  <2>6. \A i \in 1 .. Len(ready_segments') :
          /\ i = 1 /\ ready_segments'[i].from = 0 /\ ready_segments'[i].to = 0
          /\ ready_segments'[i].low = 0
    BY Zenon, <1>3, <1>5, <1>6, <2>3
  <2>7. \A i \in 1 .. Len(ready_segments') - 1 : FALSE
    BY Zenon, <1>3, <1>5, <2>4
  <2>8. \A i \in 1 .. Len(ready_segments') :
          /\ ready_segments'[i].from <= ready_segments'[i].to
          /\ ready_segments'[i].to <= unit'.fetched
          /\ ready_segments'[i].low <= unit'.total
          /\ ready_segments'[i].ctx => i = 1 /\ ready_segments'[i].to = 0 /\ pc' # "rest"
    BY Zenon, <1>3, <1>7, <2>3, <2>6
  <2>9. \A i, j \in 1 .. Len(ready_segments') :
          i <= j => /\ ready_segments'[i].from <= ready_segments'[j].from
                    /\ ready_segments'[i].low <= ready_segments'[j].low
    BY Zenon, <2>3, <2>6
  <2>. QED
    BY Zenon, <1>3, <2>1, <2>2, <2>5, <2>7, <2>8, <2>9 DEF BuffersInv
<1>11. StepInv'
  BY Zenon, <1>3, <1>4 DEF StepInv
<1>. QED
  BY Zenon, <1>4, <1>8, <1>9, <1>10, <1>11 DEF IInv

\* Giving back all descriptors of a unit.
LEMMA AllGivenBack ==
  ASSUME ready_segments' = <<>>, eop' = FALSE, pc' \in {"idle", "tx"}, tso_off' = 0, tso_len' = 0,
         tso_seg' = <<>>
  PROVE  BuffersInv' /\ StepInv' /\ FramesInv' /\ GivenBack'
<1>1. d_skip' = 0 /\ NumData' = Len(<<>>) - 0
  BY Zenon DEF d_skip, NumData
<1>2. Len(<<>>) = 0 /\ Len(<<>>) - 0 <= MaxData - 1 /\ \A i \in 1 .. 0 : FALSE
  BY Constants
<1>3. \A i \in 1 .. 0 - 1 : FALSE
  OBVIOUS
<1>4. NumData' <= MaxData - 1 /\ Len(ready_segments') = 0
  BY Zenon, <1>1, <1>2
<1>5. /\ \A i \in 1 .. Len(ready_segments') : FALSE
      /\ \A i \in 1 .. Len(ready_segments') - 1 : FALSE
  BY Zenon, <1>2, <1>3, <1>4
<1>6. BuffersInv'
  BY Zenon, <1>4, <1>5 DEF BuffersInv
<1>7. GivenBack'
  BY Zenon DEF GivenBack
<1>8. StepInv' /\ FramesInv'
  <2>1. pc' \notin {"hw", "sw", "rest"} /\ pc' # "hw" /\ pc' # "rest"
    OBVIOUS
  <2>. QED
    BY Zenon, <1>7, <2>1 DEF StepInv, FramesInv
<1>. QED
  BY Zenon, <1>6, <1>7, <1>8

LEMMA ResetKeeps ==
  ASSUME IInv, reset
  PROVE  IInv'
<1>1. TypeOK /\ pc = "idle" /\ ~eop /\ pc # "hw" /\ SentIsSegmentation
  BY DEF IInv, StepInv, reset
<1>2. /\ ready_segments' = <<>> /\ eop' = FALSE /\ tso_off' = 0 /\ tso_len' = 0
      /\ lost' = (lost \/ ready_segments # <<>>)
      /\ unit' = unit /\ sent' = sent /\ pc' = pc
  BY Zenon DEF reset
<1>3. MbufsAccounted' /\ tso_seg' = <<>>
  BY Zenon, <1>1, DriverAlone DEF reset
<1>4. TypeOK'
  <2>1. <<>> \in Seq([ctx : BOOLEAN, from : Nat, to : Nat, low : Nat]) /\ Len(<<>>) = 0
    BY Zenon, EmptySeq
  <2>2. 0 <= MaxData + 1 /\ 0 \in 0 .. unit.total
    BY SMT, <1>1, Constants, Types
  <2>3. lost' \in BOOLEAN
    BY Zenon, <1>2
  <2>. QED
    BY Zenon, <1>1, <1>2, <2>1, <2>2, <2>3 DEF TypeOK, reset, driverVars
<1>5. BuffersInv' /\ StepInv' /\ FramesInv'
  BY Zenon, <1>1, <1>2, <1>3, AllGivenBack
<1>6. SentIsSegmentation'
  <2>1. GivenBack' /\ ~lost' => GivenBack /\ ~lost
    BY Zenon, <1>2 DEF GivenBack
  <2>. QED
    BY Zenon, <1>1, <1>2, <2>1, SameSegmentation
<1>. QED
  BY Zenon, <1>3, <1>4, <1>5, <1>6 DEF IInv

\* The unit that a buffer is added to.
Gathered == IF ready_segments = <<>> THEN NewUnit(FALSE, 0) ELSE unit

LEMMA GatheredFacts ==
  ASSUME IInv
  PROVE  /\ Gathered \in Unit /\ Gathered.total \in Nat /\ Gathered.fetched \in Nat
         /\ ready_segments = <<>> => Gathered.total = 0 /\ Gathered.fetched = 0 /\ Gathered.tso = FALSE
         /\ ready_segments # <<>> => Gathered = unit
<1>1. TypeOK /\ FALSE \in BOOLEAN /\ 0 \in Nat
  BY Zenon, SMT DEF IInv
<1>2. /\ ready_segments = <<>> => Gathered = NewUnit(FALSE, 0)
      /\ ready_segments # <<>> => Gathered = unit
  BY Zenon DEF Gathered
<1>3. unit \in Unit
  BY Zenon, <1>1, Types
<1>4. /\ NewUnit(FALSE, 0) \in Unit /\ NewUnit(FALSE, 0).total = 0 /\ NewUnit(FALSE, 0).fetched = 0
      /\ NewUnit(FALSE, 0).tso = FALSE
  BY Zenon, <1>1, NewUnitType
<1>5. Gathered \in Unit
  BY Zenon, <1>2, <1>3, <1>4
<1>6. Gathered.total \in Nat /\ Gathered.fetched \in Nat
  BY <1>5 DEF Unit
<1>. QED
  BY Zenon, <1>2, <1>4, <1>5, <1>6

LEMMA DataEffect ==
  ASSUME IInv, NEW n \in Lens, NEW tag \in TagLens, NEW last \in BOOLEAN, process_data(n, tag, last)
  PROVE  /\ n \in Nat /\ tag \in Nat
         /\ unit' \in Unit
         /\ unit'.total = Gathered.total + n /\ unit'.fetched = Gathered.fetched + n + tag
         /\ unit'.tso = Gathered.tso
         /\ ready_segments' = Append(ready_segments,
              Buffer(Gathered.fetched, Gathered.fetched + n + tag, Gathered.total))
<1>1. n \in Nat /\ tag \in Nat
  BY Zenon, Constants
<1>2. /\ unit' = [Gathered EXCEPT !.total = @ + n, !.fetched = @ + n + tag]
      /\ ready_segments' = Append(ready_segments,
           Buffer(Gathered.fetched, Gathered.fetched + n + tag, Gathered.total))
  BY Zenon DEF process_data, Gathered
<1>3. Gathered \in Unit
  BY Zenon, GatheredFacts
<1> DEFINE g == Gathered
<1> HIDE DEF g
<1>4. g \in Unit /\ unit' = [g EXCEPT !.total = @ + n, !.fetched = @ + n + tag]
  BY Zenon, <1>2, <1>3 DEF g
<1>5. /\ unit' \in Unit /\ unit'.total = g.total + n /\ unit'.fetched = g.fetched + n + tag
      /\ unit'.tso = g.tso
  <2> DEFINE t == g.total + n
             f == g.fetched + n + tag
  <2>1. g.total \in Nat /\ g.fetched \in Nat
    BY <1>4 DEF Unit
  <2>2. t \in Nat /\ f \in Nat
    BY <1>1, <2>1
  <2>3. unit' = [g EXCEPT !.total = t, !.fetched = f]
    BY Zenon, <1>4
  <2> HIDE DEF t, f
  <2>4. unit' \in Unit /\ unit'.total = t /\ unit'.fetched = f /\ unit'.tso = g.tso
    BY <1>4, <2>2, <2>3 DEF Unit
  <2>. QED
    BY Zenon, <2>4 DEF t, f
<1>. QED
  BY Zenon, <1>1, <1>2, <1>5 DEF g

\* The buffers of a unit with one more buffer.
LEMMA DataBuffers ==
  ASSUME IInv, NEW n \in Lens, NEW tag \in TagLens, NEW last \in BOOLEAN, process_data(n, tag, last)
  PROVE  BuffersInv' /\ ready_segments' \in Seq(Segment)
         /\ Len(ready_segments') <= MaxData + 1 /\ ready_segments' # <<>>
<1> DEFINE s == ready_segments
           l == Len(s)
           low == Gathered.total
           from == Gathered.fetched
           to == from + n + tag
           b == Buffer(from, to, low)
<1>1. TypeOK /\ BuffersInv /\ pc = "idle" /\ ~eop /\ pc # "rest" /\ pc' = "tx" /\ eop' = last
  BY DEF IInv, StepInv, process_data
<1>2. /\ s \in Seq(Segment) /\ l \in Nat /\ MaxData \in Nat \ {0}
  BY Zenon, <1>1, Types, Constants
<1>3. /\ low \in Nat /\ from \in Nat
      /\ s = <<>> => low = 0 /\ from = 0 /\ Gathered.tso = FALSE
      /\ s # <<>> => unit.total = low /\ unit.fetched = from /\ unit.tso = Gathered.tso
  BY Zenon, GatheredFacts
<1>4. /\ n \in Nat /\ tag \in Nat /\ unit'.total = low + n /\ unit'.fetched = to
      /\ unit'.tso = Gathered.tso /\ s' = Append(s, b)
  BY Zenon, DataEffect
<1>5. \A i \in 1 .. l : /\ s[i].from \in Nat /\ s[i].to \in Nat /\ s[i].low \in Nat /\ s[i].ctx \in BOOLEAN
  <2> TAKE i \in 1 .. l
  <2>1. s[i] \in Segment
    BY Zenon, <1>2, ElementOfSeq
  <2>. QED
    BY <2>1 DEF Segment
<1>6. s = <<>> <=> l = 0
  BY Zenon, <1>2, EmptySeq
<1>7. NumData < MaxData - 1 \/ last
  BY Zenon DEF process_data
<1> HIDE DEF low, from
<1>8. to \in Nat /\ from <= to /\ low + n \in Nat /\ low <= low + n
  BY SMT, <1>3, <1>4
<1> HIDE DEF to
<1>9. b.from = from /\ b.to = to /\ b.low = low /\ b.ctx = FALSE /\ b \in Segment
  BY <1>3, <1>8 DEF Buffer, Segment
<1> HIDE DEF b, l
<1>10. /\ s' \in Seq(Segment) /\ Len(s') = l + 1 /\ s' # <<>>
       /\ \A i \in 1 .. l : s'[i] = s[i]
       /\ s'[l + 1] = b
  <2>1. s \in Seq(Segment) /\ b \in Segment
    BY Zenon, <1>2, <1>9
  <2> HIDE DEF s
  <2>2. /\ Append(s, b) \in Seq(Segment) /\ Len(Append(s, b)) = Len(s) + 1 /\ Append(s, b) # <<>>
        /\ \A i \in 1 .. Len(s) : Append(s, b)[i] = s[i]
        /\ Append(s, b)[Len(s) + 1] = b
    BY Zenon, <2>1, Appended
  <2>. QED
    BY Zenon, <1>4, <2>2 DEF l, s
<1>11. d_skip \in {0, 1}
  BY Zenon DEF d_skip
<1>12. s # <<>> => 1 \in 1 .. l
  BY SMT, <1>2, <1>6
<1>13. d_skip' = (IF s = <<>> THEN 0 ELSE d_skip) /\ NumData' = (l + 1) - d_skip'
  <2>1. NumData' = (l + 1) - d_skip'
    BY Zenon, <1>10 DEF NumData
  <2>2. CASE s = <<>>
    <3>1. l + 1 = 1
      BY SMT, <1>6, <2>2
    <3>2. s'[1] = b
      BY Zenon, <1>10, <3>1
    <3>. QED
      BY Zenon, <1>9, <2>1, <2>2, <3>2 DEF d_skip
  <2>3. CASE s # <<>>
    <3>1. s'[1] = s[1]
      BY Zenon, <1>10, <1>12, <2>3
    <3>. QED
      BY Zenon, <1>10, <2>1, <2>3, <3>1 DEF d_skip
  <2>. QED
    BY Zenon, <2>2, <2>3
<1>14. l - d_skip <= MaxData - 1 /\ (l - d_skip < MaxData - 1 \/ last)
  BY Zenon, <1>1, <1>7 DEF BuffersInv, NumData, l
<1>15. /\ NumData' <= (IF eop THEN MaxData ELSE MaxData - 1)' /\ l + 1 <= MaxData + 1
       /\ NumData' > 0
  <2>1. CASE s = <<>>
    <3>1. d_skip = 0 /\ d_skip' = 0 /\ l = 0
      BY Zenon, <1>6, <1>13, <2>1 DEF d_skip
    <3>. QED
      BY SMTT(30), Z3T(30), ZenonT(40), <1>1, <1>2, <1>13, <1>14, <3>1
  <2>2. CASE s # <<>>
    <3>1. d_skip' = d_skip
      BY Zenon, <1>13, <2>2
    <3>. QED
      BY SMTT(30), Z3T(30), ZenonT(40), <1>1, <1>2, <1>11, <1>12, <1>13, <1>14, <2>2, <3>1
  <2>. QED
    BY Zenon, <2>1, <2>2
<1>16. (s[1].from = 0 /\ s[Len(s)].to = unit.fetched)'
  <2>1. s'[Len(s')] = b
    BY Zenon, <1>10
  <2>2. CASE s = <<>>
    <3>1. l + 1 = 1
      BY SMT, <1>6, <2>2
    <3>. QED
      BY Zenon, <1>3, <1>4, <1>9, <1>10, <2>1, <2>2, <3>1
  <2>3. CASE s # <<>>
    <3>1. s[1].from = 0
      BY Zenon, <1>1, <2>3 DEF BuffersInv
    <3>. QED
      BY Zenon, <1>4, <1>9, <1>10, <1>12, <2>1, <2>3, <3>1
  <2>. QED
    BY Zenon, <2>2, <2>3
<1>17. ASSUME NEW i \in 1 .. l
       PROVE  /\ s[i].from <= s[i].to /\ s[i].to <= from /\ s[i].low <= low
              /\ s[i].ctx => i = 1 /\ s[i].to = 0
  <2>1. s # <<>>
    <3>1. l # 0
      BY SMT, <1>2
    <3>. QED
      BY Zenon, <1>6, <3>1
  <2>. QED
    BY Zenon, <1>1, <1>3, <2>1 DEF BuffersInv, l
<1>18. ASSUME NEW i \in 1 .. l + 1
       PROVE  /\ s'[i].from <= s'[i].to /\ s'[i].to <= unit'.fetched /\ s'[i].low <= unit'.total
              /\ s'[i].ctx => i = 1 /\ s'[i].to = 0 /\ pc' # "rest"
  <2>1. CASE i \in 1 .. l
    <3>1. s[i].to <= to /\ s[i].low <= low + n
      BY SMT, <1>3, <1>4, <1>5, <1>8, <1>17, <2>1
    <3>. QED
      BY Zenon, <1>1, <1>4, <1>10, <1>17, <2>1, <3>1
  <2>2. CASE i \notin 1 .. l
    <3>1. i = l + 1 /\ to <= to
      BY SMT, <1>2, <1>8, <2>2
    <3>. QED
      BY Zenon, <1>4, <1>8, <1>9, <1>10, <3>1
  <2>. QED
    BY Zenon, <2>1, <2>2
<1>19. ASSUME NEW i \in 1 .. l  PROVE  s'[i + 1].from = s'[i].to
  <2>1. CASE i \in 1 .. l - 1
    <3>1. i + 1 \in 1 .. l
      BY SMT, <1>2, <2>1
    <3>2. s[i + 1].from = s[i].to
      BY Zenon, <1>1, <2>1 DEF BuffersInv, l
    <3>. QED
      BY Zenon, <1>10, <3>1, <3>2
  <2>2. CASE i \notin 1 .. l - 1
    <3>1. i = l /\ l # 0
      BY SMT, <1>2, <2>2
    <3>2. s[l].to = from
      BY Zenon, <1>1, <1>3, <1>6, <3>1 DEF BuffersInv, l
    <3>. QED
      BY Zenon, <1>9, <1>10, <3>1, <3>2
  <2>. QED
    BY Zenon, <2>1, <2>2
<1>20. ASSUME NEW i \in 1 .. l + 1, NEW j \in 1 .. l + 1, i <= j
       PROVE  s'[i].from <= s'[j].from /\ s'[i].low <= s'[j].low
  <2>1. CASE j \in 1 .. l
    <3>1. i \in 1 .. l
      BY SMT, <1>2, <1>20, <2>1
    <3>2. s[i].from <= s[j].from /\ s[i].low <= s[j].low
      BY Zenon, <1>1, <1>20, <2>1, <3>1 DEF BuffersInv, l
    <3>. QED
      BY Zenon, <1>10, <2>1, <3>1, <3>2
  <2>2. CASE j \notin 1 .. l
    <3>1. j = l + 1
      BY SMT, <1>2, <2>2
    <3>2. CASE i \in 1 .. l
      <4>1. s[i].from <= from
        BY SMT, <1>3, <1>5, <1>17, <3>2
      <4>. QED
        BY Zenon, <1>9, <1>10, <1>17, <3>1, <3>2, <4>1
    <3>3. CASE i \notin 1 .. l
      <4>1. i = l + 1 /\ from <= from /\ low <= low
        BY SMT, <1>2, <1>3, <3>3
      <4>. QED
        BY Zenon, <1>9, <1>10, <3>1, <4>1
    <3>. QED
      BY Zenon, <3>2, <3>3
  <2>. QED
    BY Zenon, <2>1, <2>2
<1>21. (unit.tso => d_skip = 1)'
  <2>1. s # <<>> => (unit.tso => d_skip = 1)
    BY Zenon, <1>1 DEF BuffersInv
  <2>. QED
    BY ZenonT(40), <1>3, <1>4, <1>13, <2>1
<1>22. BuffersInv'
  <2>1. Len(s') - 1 = l
    BY SMT, <1>2, <1>10
  <2>2. \A i \in 1 .. Len(s') - 1 : s'[i + 1].from = s'[i].to
    BY Zenon, <2>1, <1>19
  <2>3. \A i \in 1 .. Len(s') :
          /\ s'[i].from <= s'[i].to /\ s'[i].to <= unit'.fetched /\ s'[i].low <= unit'.total
          /\ s'[i].ctx => i = 1 /\ s'[i].to = 0 /\ pc' # "rest"
    BY Zenon, <1>10, <1>18
  <2>4. \A i, j \in 1 .. Len(s') :
          i <= j => s'[i].from <= s'[j].from /\ s'[i].low <= s'[j].low
    BY Zenon, <1>10, <1>20
  <2>. QED
    BY Zenon, <1>15, <1>16, <1>21, <2>2, <2>3, <2>4 DEF BuffersInv
<1>. QED
  BY Zenon, <1>10, <1>15, <1>22

LEMMA DataKeeps ==
  ASSUME IInv, NEW n \in Lens, NEW tag \in TagLens, NEW last \in BOOLEAN, process_data(n, tag, last)
  PROVE  IInv'
<1>1. TypeOK /\ pc = "idle" /\ ~eop /\ pc # "hw"
  BY DEF IInv, StepInv, process_data
<1>2. /\ tso_off = 0 /\ tso_len = 0
      /\ ready_segments # <<>> => sent = <<>> /\ ~lost
  BY Zenon, <1>1, Gathering
<1>3. /\ BuffersInv' /\ ready_segments' \in Seq(Segment)
      /\ Len(ready_segments') <= MaxData + 1 /\ ready_segments' # <<>>
  BY Zenon, DataBuffers
<1>4. /\ sent' = <<>> /\ lost' = FALSE /\ eop' = last /\ pc' = "tx" /\ pc' # "rest"
      /\ tso_off' = tso_off /\ tso_len' = tso_len
  <2>1. lost \in BOOLEAN
    BY Zenon, <1>1 DEF TypeOK
  <2>2. /\ sent' = IF ready_segments = <<>> THEN <<>> ELSE sent
        /\ lost' = IF ready_segments = <<>> THEN FALSE ELSE lost
    BY Zenon DEF process_data
  <2>3. sent' = <<>> /\ lost' = FALSE
    BY SMTT(30), Z3T(30), ZenonT(40), <1>2, <2>1, <2>2
  <2>. QED
    BY Zenon, <2>3 DEF process_data, frameVars
<1>5. unit' \in Unit
  BY Zenon, DataEffect
<1>6. FramesInv' /\ SentIsSegmentation'
  BY Zenon, <1>2, <1>3, <1>4, NothingSent
<1>7. TypeOK'
  <2>1. unit'.total \in Nat
    BY <1>5 DEF Unit
  <2>2. \A t \in Nat : 0 \in 0 .. t
    OBVIOUS
  <2>3. (tso_off \in 0 .. unit.total)'
    BY Zenon, <1>2, <1>4, <2>1, <2>2
  <2>4. sent' \in Seq([hw : BOOLEAN, seq : Nat, bytes : Seq(Byte)])
    BY Zenon, <1>4, EmptySeq
  <2>. QED
    BY Zenon, <1>1, <1>3, <1>4, <1>5, <2>3, <2>4
    DEF TypeOK, Unit, Segment, process_data, frameVars, driverVars
<1>8. MbufsAccounted' /\ tso_seg' = <<>>
  BY Zenon, <1>1, DriverAlone DEF process_data
<1>9. StepInv'
  BY Zenon, <1>4, <1>8 DEF StepInv
<1>. QED
  BY Zenon, <1>3, <1>6, <1>7, <1>8, <1>9 DEF IInv

-----------------------------------------------------------------------------
(* The unit offered to the NIC                                             *)

\* The chain with the next buffer, and the mbufs it takes.
Chain == tso_seg \o Data
Needed == Mbufs(Len(Chain)) - nb_segs

\* The chain always holds the beginning of the unit.
LEMMA ChainFacts ==
  ASSUME IInv, pc = "hw"
  PROVE  LET i == d_skip + seg IN
         /\ i \in 1 .. Len(ready_segments) /\ d_skip \in {0, 1} /\ unit.tso /\ eop /\ tso_off = 0
         /\ sent = <<>> /\ lost = FALSE
         /\ Chain = Bytes(0, ready_segments[i].to) /\ Chain \in Seq(Byte)
         /\ Mbufs(Len(Chain)) \in Nat /\ Needed \in Nat /\ nb_segs \in Nat
         /\ Needed + nb_segs = Mbufs(Len(Chain))
         /\ seg < NumData => ready_segments[i + 1].from = ready_segments[i].to
         /\ seg = NumData => ready_segments[i].to = unit.fetched
<1> DEFINE i == d_skip + seg
           l == Len(ready_segments)
           from == ready_segments[i].from
           to == ready_segments[i].to
<1>1. /\ TypeOK /\ BuffersInv /\ eop /\ unit.tso /\ tso_off = 0 /\ seg <= NumData
      /\ tso_seg = Bytes(0, from) /\ FramesInv
      /\ nb_segs = IF seg = 1 THEN 0 ELSE Mbufs(Len(tso_seg))
  BY Zenon DEF IInv, StepInv
<1>2. /\ unit.id \in {0, 1} /\ ready_segments \in Seq(Segment) /\ l \in Nat /\ nb_segs \in Nat
      /\ seg \in 1 .. MaxData /\ MaxData \in Nat /\ lost \in BOOLEAN
      /\ NumData = l - d_skip /\ d_skip \in {0, 1}
  <2>1. seg \in 1 .. MaxData /\ lost \in BOOLEAN
    BY Zenon, <1>1 DEF TypeOK
  <2>2. NumData = l - d_skip
    BY Zenon DEF NumData
  <2>3. d_skip \in {0, 1}
    BY Zenon DEF d_skip
  <2>. QED
    BY Zenon, <1>1, <2>1, <2>2, <2>3, Types, Constants
<1> HIDE DEF l
<1>4. i \in 1 .. l /\ (seg < NumData => i \in 1 .. l - 1) /\ (seg = NumData => i = l) /\ l # 0
  <2>1. seg \in Nat /\ seg >= 1
    BY SMT, <1>2
  <2>. QED
    BY SMT, <1>1, <1>2, <2>1
<1>5. ready_segments # <<>> /\ ~GivenBack
  BY Zenon, <1>2, <1>4, EmptySeq DEF GivenBack, l
<1>6. from \in Nat /\ to \in Nat /\ from <= to
  <2>1. ready_segments[i] \in Segment
    BY Zenon, <1>2, <1>4, ElementOfSeq DEF l
  <2>2. from <= to
    BY Zenon, <1>1, <1>4 DEF BuffersInv, l
  <2>. QED
    BY <2>1, <2>2 DEF Segment
<1>7. sent = <<>> /\ lost = FALSE
  <2>1. sent = <<>> /\ ~lost
    BY Zenon, <1>1, <1>5 DEF FramesInv
  <2>. QED
    BY SMT, <1>2, <2>1
<1>8. /\ seg < NumData => ready_segments[i + 1].from = to
      /\ seg = NumData => to = unit.fetched
  BY Zenon, <1>1, <1>4, <1>5 DEF BuffersInv, l
<1> HIDE DEF i, from, to
<1>9. Chain = Bytes(0, to)
  <2>1. 0 \in Nat /\ 0 <= from
    BY SMT, <1>6
  <2>2. Data = Bytes(from, to)
    BY Zenon DEF Data, from, to, i
  <2>. QED
    BY Zenon, <1>1, <1>2, <1>6, <2>1, <2>2, BytesJoin DEF Chain
<1>10. Chain \in Seq(Byte) /\ Len(Chain) = to /\ Len(tso_seg) = from
  <2>1. 0 \in Nat /\ 0 <= from /\ 0 <= to /\ to - 0 = to /\ from - 0 = from
    BY SMT, <1>6
  <2>2. Chain \in Seq(Byte) /\ Len(Chain) = to - 0 /\ Len(tso_seg) = from - 0
    BY Zenon, <1>1, <1>2, <1>6, <1>9, <2>1, BytesType
  <2>. QED
    BY Zenon, <2>1, <2>2
<1>11. Mbufs(to) \in Nat /\ Mbufs(from) \in Nat /\ Mbufs(from) <= Mbufs(to)
  BY Zenon, <1>6, MbufsGrow
<1>12. Needed \in Nat /\ Needed + nb_segs = Mbufs(to)
  <2> DEFINE a == Mbufs(from)
             b == Mbufs(to)
  <2>1. Needed = b - nb_segs /\ nb_segs = IF seg = 1 THEN 0 ELSE a
    BY Zenon, <1>1, <1>10 DEF Needed
  <2>2. a \in Nat /\ b \in Nat /\ a <= b
    BY Zenon, <1>11
  <2> HIDE DEF a, b
  <2>3. Needed \in Nat /\ Needed + nb_segs = b
    BY SMT, <2>1, <2>2
  <2>. QED
    BY Zenon, <2>3 DEF b
<1>. QED
  BY Zenon, <1>1, <1>2, <1>4, <1>7, <1>8, <1>9, <1>10, <1>11, <1>12 DEF i, l, from, to

\* The ways out of a call of send_tso.
LEMMA SendTsoCases ==
  ASSUME send_tso
  PROVE  /\ pc = "hw"
         /\ \/ tso_refused
            \/ Needed <= free /\ seg < NumData /\ tso_extended(Chain, Needed)
            \/ Needed <= free /\ seg = NumData /\ tso_sent(Chain, Needed)
BY Zenon DEF send_tso, Chain, Needed

\* The numbers of mbufs while a chain is built.
LEMMA ChainMbufs ==
  ASSUME IInv, pc = "hw"
  PROVE  /\ free \in Nat /\ nic \in Nat /\ nb_segs \in Nat
         /\ free + nic + nb_segs = Pool /\ (free + nb_segs) + nic = Pool
<1>1. free \in Nat /\ nic \in Nat /\ nb_segs \in Nat /\ free + nic + nb_segs = Pool
  BY Zenon, Types DEF IInv, MbufsAccounted
<1>2. (free + nb_segs) + nic = Pool
  BY SMT, <1>1
<1>. QED
  BY Zenon, <1>1, <1>2

LEMMA RefusedKeeps ==
  ASSUME IInv, pc = "hw", tso_refused
  PROVE  IInv'
<1>1. /\ pc' = "sw" /\ tso_seg' = <<>> /\ nb_segs' = 0 /\ free' = free + nb_segs /\ nic' = nic
      /\ eop' = eop /\ UNCHANGED <<unit, segments, frameVars, sent, lost>>
  BY Zenon DEF tso_refused, segments
<1>2. pc # "rest" /\ pc' # "rest" /\ eop
  BY Zenon, <1>1 DEF IInv, StepInv
<1>3. BuffersInv' /\ FramesInv' /\ SentIsSegmentation'
  BY Zenon, <1>1, <1>2, UnitAlone
<1>4. MbufsAccounted' /\ free' \in 0 .. Pool /\ nic' \in 0 .. Pool /\ nb_segs' \in 0 .. Pool
  <2>1. free \in Nat /\ nic \in Nat /\ nb_segs \in Nat /\ (free + nb_segs) + nic = Pool
    BY Zenon, ChainMbufs
  <2>2. free + nb_segs \in Nat
    BY SMT, <2>1
  <2> DEFINE f == free + nb_segs
             n == nic
  <2> HIDE DEF f, n
  <2>3. f \in Nat /\ n \in Nat /\ f + n = Pool /\ free' = f /\ nic' = n
    BY Zenon, <1>1, <2>1, <2>2 DEF f, n
  <2>. QED
    BY Zenon, <1>1, <2>3, NoChainAccounted
<1>5. TypeOK'
  <2>1. TypeOK /\ tso_seg' \in Seq(Byte) /\ pc' \in {"idle", "tx", "hw", "sw", "rest", "aborted"}
    <3>1. <<>> \in Seq(Byte)
      BY Zenon, EmptySeq
    <3>. QED
      BY Zenon, <1>1, <3>1 DEF IInv
  <2>. QED
    BY Zenon, <1>4, <2>1 DEF TypeOK, tso_refused, segments, frameVars
<1>6. StepInv'
  BY Zenon, <1>1, <1>2 DEF StepInv
<1>. QED
  BY Zenon, <1>3, <1>4, <1>5, <1>6 DEF IInv

LEMMA ExtendedKeeps ==
  ASSUME IInv, pc = "hw", Needed <= free, seg < NumData, tso_extended(Chain, Needed)
  PROVE  IInv'
<1> DEFINE i == d_skip + seg
<1>1. /\ tso_seg' = Chain /\ free' = free - Needed /\ nic' = nic /\ seg' = seg + 1 /\ pc' = pc
      /\ nb_segs' = nb_segs + Needed
      /\ unit' = unit /\ ready_segments' = ready_segments /\ eop' = eop /\ tso_off' = tso_off
      /\ d_skip' = d_skip /\ NumData' = NumData
      /\ UNCHANGED <<unit, segments, frameVars, sent, lost>>
  BY Zenon DEF tso_extended, segments, frameVars, d_skip, NumData
<1>2. BuffersInv' /\ FramesInv' /\ SentIsSegmentation'
  BY Zenon, <1>1, UnitAlone
<1>3. /\ i \in 1 .. Len(ready_segments) /\ d_skip \in {0, 1} /\ unit.tso /\ eop /\ tso_off = 0
      /\ Chain = Bytes(0, ready_segments[i].to) /\ Chain \in Seq(Byte)
      /\ Needed \in Nat /\ Needed + nb_segs = Mbufs(Len(Chain))
      /\ ready_segments[i + 1].from = ready_segments[i].to
  BY Zenon, ChainFacts
<1>4. free \in Nat /\ nic \in Nat /\ nb_segs \in Nat /\ free + nic + nb_segs = Pool
  BY Zenon, ChainMbufs
<1>5. TypeOK /\ BuffersInv /\ seg \in 1 .. MaxData
  BY Zenon DEF IInv, TypeOK
<1>6. seg + 1 <= NumData /\ NumData <= MaxData /\ seg + 1 \in 1 .. MaxData /\ seg + 1 # 1
  <2>1. Len(ready_segments) \in Nat /\ MaxData \in Nat
    BY Zenon, SMT, <1>5, Types, Constants
  <2>2. NumData \in Int
    BY SMT, <1>3, <2>1 DEF NumData
  <2>3. NumData <= MaxData
    BY Zenon, <1>3, <1>5 DEF BuffersInv
  <2>. QED
    BY SMT, <1>5, <2>1, <2>2, <2>3
<1>7. /\ free' + nic' + nb_segs' = Pool /\ free' \in 0 .. Pool /\ nb_segs' \in 0 .. Pool
      /\ nb_segs' = Needed + nb_segs
  <2> DEFINE d == Needed
  <2> HIDE DEF d
  <2>1. d \in Nat /\ d <= free /\ free' = free - d /\ nb_segs' = nb_segs + d /\ nic' = nic
    BY Zenon, <1>1, <1>3 DEF d
  <2>2. free' + nic' + nb_segs' = Pool /\ free' \in 0 .. Pool /\ nb_segs' \in 0 .. Pool /\ nb_segs' = d + nb_segs
    BY SMT, <1>4, <2>1, Constants
  <2>. QED
    BY Zenon, <2>2 DEF d
<1>8. MbufsAccounted'
  BY Zenon, <1>1, <1>7 DEF MbufsAccounted
<1>9. TypeOK'
  BY Zenon, <1>1, <1>3, <1>5, <1>6, <1>7 DEF TypeOK, tso_extended, segments, frameVars
<1>10. Bytes(0, ready_segments[d_skip + seg].from)' = Chain
  <2>1. i + 1 = d_skip + (seg + 1)
    BY SMT, <1>3, <1>5
  <2>2. (ready_segments[d_skip + seg].from)' = ready_segments[i].to
    BY Zenon, <1>1, <1>3, <2>1
  <2>. QED
    BY Zenon, <1>1, <1>3, <2>2 DEF Bytes
<1>11. (nb_segs = IF seg = 1 THEN 0 ELSE Mbufs(Len(tso_seg)))'
  <2>1. Mbufs(Len(tso_seg))' = Mbufs(Len(Chain))
    BY Zenon, <1>1 DEF Mbufs
  <2>. QED
    BY Zenon, <1>1, <1>3, <1>6, <1>7, <2>1
<1>12. StepInv'
  BY Zenon, <1>1, <1>3, <1>6, <1>10, <1>11 DEF StepInv
<1>. QED
  BY Zenon, <1>2, <1>8, <1>9, <1>12 DEF IInv

LEMMA SentKeeps ==
  ASSUME IInv, pc = "hw", Needed <= free, seg = NumData, tso_sent(Chain, Needed)
  PROVE  IInv'
<1>1. /\ unit.tso /\ eop /\ tso_off = 0 /\ sent = <<>> /\ Chain \in Seq(Byte)
      /\ Chain = Bytes(0, unit.fetched) /\ Needed \in Nat
  BY Zenon, ChainFacts
<1>2. free \in Nat /\ nic \in Nat /\ nb_segs \in Nat /\ free + nic + nb_segs = Pool
  BY Zenon, ChainMbufs
<1>3. /\ tso_seg' = <<>> /\ free' = free - Needed /\ nic' = nic + nb_segs + Needed /\ nb_segs' = 0
      /\ sent' = Append(sent, [hw |-> TRUE, seq |-> 0, bytes |-> Chain])
      /\ ready_segments' = <<>> /\ eop' = FALSE /\ pc' = "tx"
      /\ unit' = unit /\ tso_off' = tso_off /\ tso_len' = tso_len
  BY Zenon DEF tso_sent, unit_done, frameVars
<1>4. TypeOK /\ tso_len = 0
  BY Zenon, <1>1 DEF IInv, FramesInv
<1>5. BuffersInv' /\ StepInv' /\ FramesInv'
  BY Zenon, <1>1, <1>3, <1>4, AllGivenBack
<1>6. MbufsAccounted' /\ free' \in 0 .. Pool /\ nic' \in 0 .. Pool /\ nb_segs' \in 0 .. Pool
  <2> DEFINE d == Needed
             f == free - d
             n == nic + nb_segs + d
  <2>1. d \in Nat /\ d <= free /\ free' = f /\ nic' = n
    BY Zenon, <1>1, <1>3
  <2> HIDE DEF d
  <2>2. f \in Nat /\ n \in Nat /\ f + n = Pool
    BY SMT, <1>2, <2>1
  <2> HIDE DEF f, n
  <2>. QED
    BY Zenon, <1>3, <2>1, <2>2, NoChainAccounted
<1> DEFINE w == [hw |-> TRUE, seq |-> 0, bytes |-> Chain]
<1>7. sent' = <<w>> /\ w \in Frame
  <2>1. w \in Frame
    BY <1>1 DEF Frame
  <2> HIDE DEF w
  <2>2. Append(<<>>, w) = <<w>>
    OBVIOUS
  <2>. QED
    BY Zenon, <1>1, <1>3, <2>1, <2>2 DEF w
<1>8. SentIsSegmentation'
  <2> SUFFICES ASSUME WellFormed'
               PROVE  (sent = <<Whole(TRUE)>>)' /\ (sent = <<Whole(unit.tso)>>)'
    BY Zenon DEF SentIsSegmentation
  <2>1. unit.fetched = unit.total
    BY Zenon, <1>3 DEF WellFormed
  <2>2. Whole(TRUE)' = Whole(TRUE) /\ unit'.tso = TRUE
    <3>1. unit.tso = TRUE
      BY SMT, <1>1, <1>4, Types
    <3>. QED
      BY Zenon, <1>3, <3>1, SameUnit
  <2>3. Whole(unit.tso)' = Whole(TRUE)'
    BY Zenon, <2>2 DEF Whole
  <2>4. Whole(TRUE) = w
    BY Zenon, <1>1, <2>1 DEF Whole
  <2>. QED
    BY Zenon, <1>7, <2>2, <2>3, <2>4
<1>9. TypeOK'
  <2>1. <<>> \in Seq(Byte) /\ <<>> \in Seq([ctx : BOOLEAN, from : Nat, to : Nat, low : Nat])
        /\ Len(<<>>) = 0
    BY Zenon, EmptySeq
  <2>2. 0 <= MaxData + 1
    BY SMT, Constants
  <2>3. sent' \in Seq([hw : BOOLEAN, seq : Nat, bytes : Seq(Byte)])
    <3> HIDE DEF w
    <3>1. w \in Frame => <<w>> \in Seq(Frame)
      OBVIOUS
    <3>. QED
      BY Zenon, <1>7, <3>1 DEF Frame
  <2>. QED
    BY Zenon, <1>3, <1>4, <1>6, <2>1, <2>2, <2>3 DEF TypeOK, tso_sent, frameVars
<1>. QED
  BY Zenon, <1>5, <1>6, <1>8, <1>9 DEF IInv

-----------------------------------------------------------------------------
(* Segmentation in software                                                *)

\* The sequence number of the next frame.
NextSeq == IF tso_len = 0 THEN 0 ELSE sent_seq

\* Frame k of the segmentation is next.
CopyAt(k) ==
  /\ IF k = 0 THEN tso_off = 0
     ELSE tso_off = Hdr + k * unit.mss /\ Hdr + k * unit.mss < unit.total
  /\ FramesBelow(k) /\ (~lost => sent = FirstFrames(k))
  /\ frame = Headers \o Payload(k) /\ NextSeq = k * unit.mss
  /\ data_limit = MinOf(Hdr + (k + 1) * unit.mss, unit.total)

\* A unit with descriptors is ready to be copied.
LEMMA InCopy ==
  ASSUME IInv, pc = "sw"
  PROVE  /\ TypeOK /\ BuffersInv /\ FramesInv /\ eop /\ pc # "rest" /\ pc # "hw"
         /\ ready_segments # <<>> /\ ~GivenBack
<1>1. TypeOK /\ BuffersInv /\ FramesInv /\ eop /\ pc # "rest" /\ pc # "hw"
  BY Zenon DEF IInv, StepInv
<1>2. d_skip + 1 \in 1 .. Len(ready_segments) /\ Len(ready_segments) \in Nat /\ ready_segments \in Seq(Segment)
  BY Zenon, <1>1, FirstBuffer, Types
<1>3. Len(ready_segments) # 0
  BY SMT, <1>2
<1>4. ready_segments # <<>>
  BY Zenon, <1>2, <1>3, EmptySeq
<1>. QED
  BY Zenon, <1>1, <1>4 DEF GivenBack

\* The beginning of a unit is copied without a header in front of it.
LEMMA FirstCopy ==
  ASSUME IInv, pc = "sw", tso_off = 0
  PROVE  /\ tso_len = 0 /\ sent = <<>> /\ lost = FALSE /\ NextSeq = 0
         /\ data_limit \in Nat => frame = Bytes(0, data_limit)
<1>1. TypeOK /\ FramesInv /\ ~GivenBack
  BY Zenon, InCopy
<1>2. tso_len = 0 /\ sent = <<>> /\ ~lost
  BY Zenon, <1>1 DEF FramesInv
<1>3. lost = FALSE
  <2>1. lost \in BOOLEAN
    BY Zenon, <1>1 DEF TypeOK
  <2>. QED
    BY SMT, <1>2, <2>1
<1>4. NextSeq = 0
  BY Zenon, <1>2 DEF NextSeq
<1>5. ASSUME data_limit \in Nat  PROVE  frame = Bytes(0, data_limit)
  <2>1. 0 \in Nat /\ 0 <= data_limit /\ 1 \in Int /\ 0 \in Int /\ 0 < 1
    BY SMT, <1>5
  <2>2. unit.id \in {0, 1}
    BY Zenon, <1>1, Types
  <2>3. Bytes(0, data_limit) \in Seq(Byte)
    BY Zenon, <1>5, <2>1, <2>2, BytesType
  <2>4. SubSeq(pktbuf, 1, 0) = <<>>
    BY <2>1, SubSeqEmpty
  <2>5. <<>> \o Bytes(0, data_limit) = Bytes(0, data_limit)
    BY Zenon, <2>3, ConcatEmptySeq
  <2>. QED
    BY Zenon, <1>2, <2>4, <2>5 DEF frame
<1>. QED
  BY Zenon, <1>2, <1>3, <1>4, <1>5

LEMMA CopyFirst ==
  ASSUME IInv, pc = "sw", unit.tso, tso_off = 0
  PROVE  CopyAt(0)
<1> DEFINE t == unit.total
           m == unit.mss
<1>1. TypeOK /\ t \in Nat /\ unit.id \in {0, 1} /\ Hdr \in Nat /\ m \in Nat
  <2>1. TypeOK /\ Hdr \in Nat
    BY Zenon, SMT, Constants DEF IInv
  <2>. QED
    BY Zenon, <2>1, Types
<1>2. data_limit = MinOf(t, Hdr + m)
  BY Zenon DEF data_limit
<1>3. Hdr + 0 * unit.mss = Hdr /\ Hdr + (0 + 1) * unit.mss = Hdr + m /\ 0 * unit.mss = 0
  BY SMT, <1>1
<1>4. Payload(0) = Bytes(Hdr, MinOf(Hdr + m, t))
  BY Zenon, <1>3 DEF Payload
<1>5. Headers = Bytes(0, MinOf(Hdr, t))
  BY Zenon DEF Headers
<1> HIDE DEF t, m
<1>6. data_limit = MinOf(Hdr + m, t) /\ data_limit \in Nat
  BY SMT, <1>1, <1>2 DEF MinOf
<1>7. sent = <<>> /\ NextSeq = 0 /\ frame = Bytes(0, data_limit)
  BY Zenon, <1>6, FirstCopy
<1>8. Headers \o Payload(0) = Bytes(0, data_limit)
  <2>1. CASE Hdr <= t
    <3>1. MinOf(Hdr, t) = Hdr /\ 0 \in Nat /\ 0 <= Hdr /\ Hdr <= data_limit
      BY SMT, <1>1, <1>6, <2>1 DEF MinOf
    <3>2. Bytes(0, Hdr) \o Bytes(Hdr, data_limit) = Bytes(0, data_limit)
      BY Zenon, <1>1, <1>6, <3>1, BytesJoin
    <3>. QED
      BY Zenon, <1>4, <1>5, <1>6, <3>1, <3>2
  <2>2. CASE ~(Hdr <= t)
    <3>1. MinOf(Hdr, t) = t /\ data_limit = t /\ 0 \in Nat /\ t <= Hdr
      BY SMT, <1>1, <1>6, <2>2 DEF MinOf
    <3>2. Payload(0) = <<>> /\ Bytes(0, t) \in Seq(Byte)
      BY Zenon, <1>1, <1>4, <1>6, <3>1, BytesType
    <3>3. Bytes(0, t) \o <<>> = Bytes(0, t)
      BY Zenon, <3>2, ConcatEmptySeq
    <3>. QED
      BY Zenon, <1>5, <3>1, <3>2, <3>3
  <2>. QED
    BY Zenon, <2>1, <2>2
<1>9. FramesBelow(0) /\ FirstFrames(0) = <<>>
  <2>1. FirstFrames(0) = <<>>
    BY DEF FirstFrames
  <2>. QED
    BY Zenon, <1>7, <2>1, NoFramesBelow
<1>. QED
  BY Zenon, <1>3, <1>6, <1>7, <1>8, <1>9 DEF CopyAt, t, m

LEMMA CopyNext ==
  ASSUME IInv, NEW k \in 1 .. tso_off, tso_off # 0, BetweenFrames(k)
  PROVE  CopyAt(k)
<1> DEFINE m == unit.mss
           p == k * unit.mss
           q == (k + 1) * unit.mss
<1>1. /\ TypeOK /\ unit.total \in Nat /\ unit.id \in {0, 1} /\ tso_off \in Nat
      /\ Hdr \in Nat \ {0} /\ m \in Nat
  BY Zenon, Types, Constants DEF IInv
<1>2. /\ unit.tso /\ tso_off = Hdr + p /\ tso_off < unit.total /\ tso_len = Hdr
      /\ sent_seq = p /\ SubSeq(pktbuf, 1, Hdr) = Bytes(0, Hdr) /\ FramesBelow(k)
      /\ ~lost => sent = FirstFrames(k)
  BY Zenon DEF BetweenFrames
<1>3. k \in Nat /\ k # 0
  BY SMT, <1>1
<1>4. p \in Nat /\ q = p + m
  BY Zenon, <1>1, <1>3, ReferenceType
<1>5. data_limit = MinOf(unit.total, tso_off + m)
  BY Zenon, <1>2 DEF data_limit
<1> HIDE DEF m, p, q
<1>6. data_limit = MinOf(Hdr + q, unit.total) /\ MinOf(Hdr, unit.total) = Hdr /\ Hdr # 0
  BY SMT, <1>1, <1>2, <1>4, <1>5 DEF MinOf
<1>7. frame = Headers \o Payload(k)
  BY Zenon, <1>2, <1>6 DEF frame, Headers, Payload, p, q
<1>8. NextSeq = p
  BY Zenon, <1>2, <1>6 DEF NextSeq
<1>. QED
  BY Zenon, <1>2, <1>3, <1>6, <1>7, <1>8 DEF CopyAt, p, q

\* Whatever has been sent of a TSO unit, the next frame is one of its frames.
LEMMA CopyFrame ==
  ASSUME IInv, pc = "sw", unit.tso
  PROVE  \E k \in Nat : CopyAt(k)
<1>1. CASE tso_off = 0
  <2>1. CopyAt(0) /\ 0 \in Nat
    BY <1>1, CopyFirst
  <2>. QED
    BY Zenon, <2>1
<1>2. CASE tso_off # 0
  <2>1. PICK k \in 1 .. tso_off : BetweenFrames(k)
    BY Zenon, <1>2 DEF IInv, FramesInv
  <2>2. CopyAt(k)
    BY Zenon, <1>2, <2>1, CopyNext
  <2>3. k \in Nat
    <3>1. tso_off \in Nat
      BY Zenon, Types DEF IInv
    <3>. QED
      BY SMT, <3>1
  <2>. QED
    BY Zenon, <2>2, <2>3
<1>. QED
  BY Zenon, <1>1, <1>2

\* The assignments of a copy.
LEMMA CopyEffect ==
  ASSUME copy_and_send
  PROVE  /\ pc = "sw" /\ Len(frame) <= MTU /\ send(NextSeq, frame) /\ pktbuf' = frame
         /\ sent_seq' = IF unit.tso THEN NextSeq + tso_paylen ELSE NextSeq
         /\ unit_unfinished => /\ tso_off' = data_limit /\ tso_len' = Hdr /\ pc' = "tx"
                               /\ ready_segments' = ready_segments /\ eop' = eop
         /\ ~unit_unfinished => tso_off' = 0 /\ tso_len' = 0 /\ give_back
         /\ unit' = unit /\ seg' = seg /\ tso_supported' = tso_supported
BY Zenon DEF copy_and_send, NextSeq, tso_postupdate_header, segments

\* A frame takes one mbuf, or is dropped.
LEMMA SendEffect ==
  ASSUME IInv, pc = "sw", send(NextSeq, frame)
  PROVE  /\ MbufsAccounted' /\ free' \in 0 .. Pool /\ nic' \in 0 .. Pool /\ nb_segs' \in 0 .. Pool
         /\ tso_seg' = <<>>
         /\ ~Stalled =>
              \/ sent' = Append(sent, [hw |-> FALSE, seq |-> NextSeq, bytes |-> frame]) /\ lost' = lost
              \/ sent' = sent /\ lost' = TRUE
         /\ Stalled => sent' = sent /\ lost' = lost
<1>1. tso_seg = <<>> /\ nb_segs = 0 /\ free + nic = Pool /\ free \in Nat /\ nic \in Nat
  BY Zenon, InCopy, NoChain
<1>2. lost \in BOOLEAN
  BY Zenon DEF IInv, TypeOK
<1>3. CASE /\ free > 0 /\ free' = free - 1 /\ nic' = nic + 1 /\ tso_seg' = tso_seg /\ nb_segs' = nb_segs
           /\ sent' = IF Stalled THEN sent
                      ELSE Append(sent, [hw |-> FALSE, seq |-> NextSeq, bytes |-> frame])
           /\ lost' = lost
  <2> DEFINE f == free - 1
             n == nic + 1
  <2>1. f \in Nat /\ n \in Nat /\ f + n = Pool
    BY SMT, <1>1, <1>3
  <2>2. free' = f /\ nic' = n /\ tso_seg' = <<>> /\ nb_segs' = 0
    BY Zenon, <1>1, <1>3
  <2> HIDE DEF f, n
  <2>3. MbufsAccounted' /\ free' \in 0 .. Pool /\ nic' \in 0 .. Pool /\ nb_segs' \in 0 .. Pool
    BY Zenon, <2>1, <2>2, NoChainAccounted
  <2>. QED
    BY Zenon, <1>3, <2>2, <2>3
<1>4. CASE UNCHANGED <<driverVars, sent>> /\ lost' = (lost \/ ~Stalled)
  <2>1. free' = free /\ nic' = nic /\ tso_seg' = <<>> /\ nb_segs' = 0 /\ sent' = sent
    BY Zenon, <1>1, <1>4 DEF driverVars
  <2>2. MbufsAccounted' /\ free' \in 0 .. Pool /\ nic' \in 0 .. Pool /\ nb_segs' \in 0 .. Pool
    BY Zenon, <1>1, <2>1, NoChainAccounted
  <2>3. (~Stalled => lost' = TRUE) /\ (Stalled => lost' = lost)
    BY ZenonT(40), <1>2, <1>4
  <2>. QED
    BY Zenon, <2>1, <2>2, <2>3
<1>. QED
  BY Zenon, <1>3, <1>4 DEF send

\* What is left over after a unit is the end of its buffers.
LEMMA RestBuffers ==
  ASSUME IInv, pc = "sw", NEW d \in Nat, d_skip <= d, d < Len(ready_segments),
         ready_segments' = SubSeq(ready_segments, d + 1, Len(ready_segments)),
         eop' = eop, pc' = "rest", unit' = unit
  PROVE  /\ BuffersInv' /\ ready_segments' \in Seq(Segment) /\ d_skip' = 0
         /\ Len(ready_segments') = Len(ready_segments) - d /\ Len(ready_segments') <= MaxData + 1
<1> DEFINE s == ready_segments
           l == Len(s)
           r == l - d
<1>1. TypeOK /\ BuffersInv /\ eop /\ s # <<>> /\ pc # "rest"
  BY Zenon, InCopy
<1>2. s \in Seq(Segment) /\ l \in Nat /\ d_skip \in {0, 1} /\ NumData = l - d_skip /\ l <= MaxData + 1
      /\ MaxData \in Nat
  <2>1. d_skip \in {0, 1}
    BY Zenon DEF d_skip
  <2>. QED
    BY Zenon, <1>1, <2>1, Types, Constants DEF NumData, TypeOK
<1>3. s' \in Seq(Segment) /\ Len(s') = r /\ \A i \in 1 .. r : s'[i] = s[d + i]
  <2>1. \A i \in d + 1 .. l : s[i] \in Segment
    <3> TAKE i \in d + 1 .. l
    <3>1. i \in 1 .. l
      BY SMT, <1>2
    <3>. QED
      BY Zenon, <1>2, <3>1, ElementOfSeq
  <2> HIDE DEF l
  <2>2. d + 1 \in Int /\ l \in Int /\ d + 1 <= l
    BY SMT, <1>2 DEF l
  <2>3. /\ SubSeq(s, d + 1, l) \in Seq(Segment)
        /\ Len(SubSeq(s, d + 1, l)) = IF d + 1 <= l THEN l - (d + 1) + 1 ELSE 0
        /\ \A i \in 1 .. l - (d + 1) + 1 : SubSeq(s, d + 1, l)[i] = s[d + 1 + i - 1]
    BY SMTT(30), Z3T(30), ZenonT(40), <2>1, <2>2, SubSeqProperties
  <2>4. l - (d + 1) + 1 = r /\ \A i \in 1 .. r : d + 1 + i - 1 = d + i
    BY SMT, <1>2 DEF l
  <2>. QED
    BY Zenon, <2>2, <2>3, <2>4 DEF l
<1> HIDE DEF l
<1>4. l = Len(s)
  BY Zenon DEF l
<1>5. d < l /\ r \in Nat /\ r >= 1 /\ r <= l /\ r <= MaxData /\ d + r = l
  <2>1. l - d_skip <= MaxData
    BY Zenon, <1>1, <1>2 DEF BuffersInv
  <2>. QED
    BY SMT, <1>2, <1>4, <2>1
<1> HIDE DEF r
<1>6. \A i \in 1 .. r : d + i \in 1 .. l
  BY SMT, <1>2, <1>5
<1>7. ASSUME NEW i \in 1 .. r
      PROVE  /\ s'[i].from <= s'[i].to /\ s'[i].to <= unit'.fetched /\ s'[i].low <= unit'.total
             /\ ~s'[i].ctx
  <2>1. /\ s[d + i].from <= s[d + i].to /\ s[d + i].to <= unit.fetched /\ s[d + i].low <= unit.total
        /\ s[d + i].ctx => d + i = 1
    BY Zenon, <1>1, <1>4, <1>6 DEF BuffersInv
  <2>2. ~s[d + i].ctx
    <3> SUFFICES ASSUME s[d + i].ctx  PROVE FALSE
      OBVIOUS
    <3>1. d + i = 1 /\ d = 0
      BY SMT, <1>5, <2>1
    <3>2. s[1].ctx
      BY Zenon, <3>1
    <3>3. d_skip = 1
      BY Zenon, <1>1, <3>2 DEF d_skip
    <3>. QED
      BY SMT, <3>1, <3>3
  <2>. QED
    BY Zenon, <1>3, <2>1, <2>2
<1>8. ASSUME NEW i \in 1 .. r - 1  PROVE  s'[i + 1].from = s'[i].to
  <2>1. i \in 1 .. r /\ i + 1 \in 1 .. r /\ d + i \in 1 .. l - 1 /\ d + (i + 1) = (d + i) + 1
    BY SMT, <1>2, <1>5
  <2>2. s[(d + i) + 1].from = s[d + i].to
    BY Zenon, <1>1, <1>4, <2>1 DEF BuffersInv
  <2>. QED
    BY Zenon, <1>3, <2>1, <2>2
<1>9. ASSUME NEW i \in 1 .. r, NEW j \in 1 .. r, i <= j
      PROVE  s'[i].from <= s'[j].from /\ s'[i].low <= s'[j].low
  <2>1. d + i <= d + j
    BY SMT, <1>5, <1>9
  <2>2. s[d + i].from <= s[d + j].from /\ s[d + i].low <= s[d + j].low
    BY Zenon, <1>1, <1>4, <1>6, <2>1 DEF BuffersInv
  <2>. QED
    BY Zenon, <1>3, <2>2
<1>10. 1 \in 1 .. r /\ r \in 1 .. r /\ r - 0 <= MaxData /\ r - 0 > 0 /\ r <= MaxData + 1
  BY SMT, <1>2, <1>5
<1>11. d_skip' = 0
  BY Zenon, <1>7, <1>10 DEF d_skip
<1>12. NumData' = r - 0
  BY Zenon, <1>3, <1>11 DEF NumData, r
<1>13. s'[Len(s')].to = unit'.fetched
  BY Zenon, <1>1, <1>3, <1>4, <1>5, <1>10 DEF BuffersInv, r
<1>14. BuffersInv'
  <2>1. \A i \in 1 .. Len(s') :
          /\ s'[i].from <= s'[i].to /\ s'[i].to <= unit'.fetched /\ s'[i].low <= unit'.total
          /\ s'[i].ctx => i = 1 /\ s'[i].to = 0 /\ pc' # "rest"
    BY Zenon, <1>3, <1>7 DEF r
  <2>2. \A i \in 1 .. Len(s') - 1 : s'[i + 1].from = s'[i].to
    BY Zenon, <1>3, <1>8 DEF r
  <2>3. \A i, j \in 1 .. Len(s') :
          i <= j => s'[i].from <= s'[j].from /\ s'[i].low <= s'[j].low
    BY Zenon, <1>3, <1>9 DEF r
  <2>4. NumData' <= (IF eop THEN MaxData ELSE MaxData - 1)' /\ NumData' > 0
    BY Zenon, <1>1, <1>10, <1>12
  <2>. QED
    BY Zenon, <1>13, <2>1, <2>2, <2>3, <2>4 DEF BuffersInv
<1>. QED
  BY Zenon, <1>3, <1>10, <1>11, <1>14 DEF r, l

\* After the last frame, descriptors are given back, at least one unless the
\* unit is stalled.
LEMMA GiveBackKeeps ==
  ASSUME IInv, pc = "sw", data_limit \in Nat, give_back, unit' = unit, tso_off' = 0, tso_len' = 0,
         tso_seg' = <<>>
  PROVE  /\ BuffersInv' /\ StepInv' /\ FramesInv' /\ GivenBack'
         /\ ready_segments' \in Seq(Segment) /\ Len(ready_segments') <= MaxData + 1
         /\ eop' \in BOOLEAN /\ pc' \in {"tx", "rest"}
         /\ eop' => /\ pc' = "rest" /\ d_skip' = 0 /\ Len(ready_segments') <= Len(ready_segments)
                    /\ d_skip = 1 \/ data_limit > 0 => Len(ready_segments') < Len(ready_segments)
         /\ d_skip = 0 /\ data_limit = 0 => eop'
<1> DEFINE s == ready_segments
           l == Len(s)
<1>1. /\ l \in Nat /\ d_skip \in {0, 1} /\ d_skip + 1 \in 1 .. l /\ s[d_skip + 1].from = 0
      /\ eop /\ s \in Seq(Segment) /\ MaxData \in Nat
  BY Zenon, InCopy, FirstBuffer, Types, Constants
<1>2. PICK d \in d_skip .. l :
        /\ \A i \in d_skip + 1 .. l : i <= d <=> s[i].from < data_limit
        /\ IF d = l
             THEN unit_done
             ELSE /\ s' = SubSeq(s, d + 1, l)
                  /\ eop' = eop
                  /\ pc' = "rest"
  BY Zenon DEF give_back
<1> HIDE DEF l
<1>3. d \in Nat /\ d_skip <= d /\ d <= l /\ d_skip + 1 \in d_skip + 1 .. l
  BY SMT, <1>1, <1>2
<1>4. (d_skip + 1 <= d) <=> (0 < data_limit)
  BY Zenon, <1>1, <1>2, <1>3
<1>5. CASE d = l
  <2>1. s' = <<>> /\ eop' = FALSE /\ pc' = "tx"
    BY Zenon, <1>2, <1>5 DEF unit_done
  <2>2. BuffersInv' /\ StepInv' /\ FramesInv' /\ GivenBack'
    BY Zenon, <2>1, AllGivenBack
  <2>3. <<>> \in Seq(Segment) /\ Len(<<>>) = 0
    BY Zenon, EmptySeq
  <2>4. 0 <= MaxData + 1
    BY SMT, <1>1
  <2>5. d_skip + 1 <= d
    BY SMT, <1>1, <1>5
  <2>6. ~(d_skip = 0 /\ data_limit = 0)
    BY SMT, <1>4, <2>5
  <2>. QED
    BY Zenon, <2>1, <2>2, <2>3, <2>4, <2>6
<1>6. CASE d # l
  <2>1. s' = SubSeq(s, d + 1, Len(s)) /\ eop' = eop /\ pc' = "rest"
    BY Zenon, <1>2, <1>6 DEF l
  <2>2. d < l
    BY SMT, <1>1, <1>3, <1>6
  <2>3. /\ BuffersInv' /\ s' \in Seq(Segment) /\ d_skip' = 0
        /\ Len(s') = l - d /\ Len(s') <= MaxData + 1
    BY Zenon, <1>3, <2>1, <2>2, RestBuffers DEF l
  <2>4. Len(s') <= l /\ (d_skip = 1 \/ data_limit > 0 => Len(s') < l)
    BY SMT, <1>1, <1>3, <1>4, <2>2, <2>3
  <2>5. GivenBack' /\ pc' \notin {"idle", "hw"} /\ eop' \in BOOLEAN /\ eop' /\ pc' # "hw"
    <3>1. eop \in BOOLEAN
      BY Zenon DEF IInv, TypeOK
    <3>. QED
      BY Zenon, <1>1, <2>1, <3>1 DEF GivenBack
  <2>6. StepInv' /\ FramesInv'
    BY Zenon, <2>1, <2>5 DEF StepInv, FramesInv
  <2>. QED
    BY Zenon, <2>1, <2>3, <2>4, <2>5, <2>6 DEF l
<1>. QED
  BY Zenon, <1>5, <1>6

\* A packet that is no TSO unit is one frame.
LEMMA CopyWhole ==
  ASSUME IInv, copy_and_send, ~unit.tso
  PROVE  IInv'
<1>1. /\ pc = "sw" /\ send(NextSeq, frame) /\ pktbuf' = frame /\ sent_seq' = NextSeq
      /\ unit' = unit /\ seg' = seg /\ tso_supported' = tso_supported
      /\ tso_off' = 0 /\ tso_len' = 0 /\ give_back
  BY Zenon, CopyEffect DEF unit_unfinished
<1>2. TypeOK /\ unit.total \in Nat /\ unit.id \in {0, 1} /\ unit.tso = FALSE
  <2>1. TypeOK
    BY Zenon DEF IInv
  <2>. QED
    BY SMT, <2>1, Types
<1>3. tso_off = 0
  BY Zenon DEF IInv, FramesInv, BetweenFrames
<1>4. data_limit = unit.total
  BY Zenon DEF data_limit
<1>5. sent = <<>> /\ lost = FALSE /\ NextSeq = 0 /\ frame = Bytes(0, unit.total)
  BY Zenon, <1>1, <1>2, <1>3, <1>4, FirstCopy
<1>6. /\ MbufsAccounted' /\ free' \in 0 .. Pool /\ nic' \in 0 .. Pool /\ nb_segs' \in 0 .. Pool
      /\ tso_seg' = <<>>
      /\ ~Stalled =>
           \/ sent' = Append(sent, [hw |-> FALSE, seq |-> NextSeq, bytes |-> frame]) /\ lost' = lost
           \/ sent' = sent /\ lost' = TRUE
      /\ Stalled => sent' = sent /\ lost' = lost
  BY Zenon, <1>1, SendEffect
<1> DEFINE w == Whole(FALSE)
<1>7. w \in Frame /\ w = [hw |-> FALSE, seq |-> NextSeq, bytes |-> frame] /\ frame \in Seq(Byte)
  <2>1. 0 \in Nat
    BY SMT
  <2>2. Bytes(0, unit.total) \in Seq(Byte)
    BY Zenon, <1>2, <2>1, BytesType
  <2>3. w = [hw |-> FALSE, seq |-> NextSeq, bytes |-> frame]
    BY Zenon, <1>5 DEF Whole
  <2>4. [hw |-> FALSE, seq |-> 0, bytes |-> frame] \in Frame
    BY Zenon, <1>5, <2>1, <2>2 DEF Frame
  <2>. QED
    BY Zenon, <1>5, <2>2, <2>3, <2>4
<1> HIDE DEF w
<1>8. \/ sent' = <<w>> /\ lost' = FALSE
      \/ sent' = <<>> /\ lost' = TRUE
      \/ sent' = <<>> /\ lost' = FALSE /\ unit.total = 0
  <2>1. Append(<<>>, w) = <<w>>
    OBVIOUS
  <2>2. Stalled => unit.total = 0
    BY Zenon, <1>3, <1>4 DEF Stalled
  <2>. QED
    BY Zenon, <1>5, <1>6, <1>7, <2>1, <2>2
<1>9. /\ BuffersInv' /\ StepInv' /\ FramesInv'
      /\ ready_segments' \in Seq(Segment) /\ Len(ready_segments') <= MaxData + 1
      /\ eop' \in BOOLEAN /\ pc' \in {"tx", "rest"}
  BY Zenon, <1>1, <1>2, <1>4, <1>6, GiveBackKeeps
<1>10. SentIsSegmentation'
  <2>1. Whole(unit.tso)' = w
    <3>1. Whole(FALSE)' = w
      BY Zenon, <1>1, SameUnit DEF w
    <3>2. Whole(unit.tso)' = Whole(FALSE)'
      BY Zenon, <1>1, <1>2 DEF Whole
    <3>. QED
      BY Zenon, <3>1, <3>2
  <2>2. ~unit'.tso
    BY Zenon, <1>1
  <2>3. ~lost' /\ unit'.total > 0 => (sent = <<Whole(unit.tso)>>)'
    <3>1. unit.total = 0 => ~(unit.total > 0)
      BY SMT
    <3>. QED
      BY Zenon, <1>1, <1>8, <2>1, <3>1
  <2>. QED
    BY Zenon, <2>2, <2>3 DEF SentIsSegmentation
<1>11. TypeOK'
  <2>1. <<>> \in Seq(Byte) /\ <<>> \in Seq(Frame)
    BY Zenon, EmptySeq
  <2>2. 0 \in 0 .. unit.total /\ 0 \in Nat
    BY SMT, <1>2
  <2>3. sent' \in Seq(Frame) /\ lost' \in BOOLEAN
    <3>1. <<w>> \in Seq(Frame)
      BY <1>7
    <3>. QED
      BY Zenon, <1>8, <2>1, <3>1
  <2>4. sent' \in Seq([hw : BOOLEAN, seq : Nat, bytes : Seq(Byte)])
        /\ ready_segments' \in Seq([ctx : BOOLEAN, from : Nat, to : Nat, low : Nat])
        /\ pc' \in {"idle", "tx", "hw", "sw", "rest", "aborted"}
    BY Zenon, <1>9, <2>3 DEF Frame, Segment
  <2>. QED
    BY Zenon, <1>1, <1>2, <1>5, <1>6, <1>7, <1>9, <2>1, <2>2, <2>3, <2>4 DEF TypeOK
<1>. QED
  BY Zenon, <1>6, <1>9, <1>10, <1>11 DEF IInv

\* Frame k of a TSO unit and its length.
LEMMA CopyFrameFacts ==
  ASSUME IInv, pc = "sw", unit.tso, NEW k \in Nat, CopyAt(k)
  PROVE  /\ frame \in Seq(Byte) /\ NextSeq \in Nat /\ Len(frame) \in Nat /\ tso_paylen \in Nat
         /\ data_limit \in Nat /\ data_limit <= unit.total
         /\ ~unit_unfinished => data_limit = unit.total /\ unit.total <= Hdr + (k + 1) * unit.mss
         /\ unit_unfinished =>
              /\ data_limit = Hdr + (k + 1) * unit.mss
              /\ Len(frame) >= Hdr /\ SubSeq(frame, 1, Hdr) = Bytes(0, Hdr)
              /\ NextSeq + tso_paylen = (k + 1) * unit.mss
<1> DEFINE t == unit.total
           m == unit.mss
           p == k * unit.mss
           q == (k + 1) * unit.mss
<1>1. TypeOK /\ t \in Nat /\ unit.id \in {0, 1} /\ Hdr \in Nat \ {0} /\ m \in Nat
  BY Zenon, Types, Constants DEF IInv
<1>2. /\ frame = Headers \o Payload(k) /\ NextSeq = p /\ data_limit = MinOf(Hdr + q, t)
  BY Zenon DEF CopyAt
<1>3. p \in Nat /\ q = p + m /\ Headers \in Seq(Byte) /\ Payload(k) \in Seq(Byte)
  BY Zenon, <1>1, ReferenceType
<1>4. frame \in Seq(Byte) /\ Len(frame) \in Nat
  BY Zenon, <1>2, <1>3, ConcatProperties, LenProperties
<1>5. tso_paylen = IF Len(frame) < Hdr THEN m ELSE MinOf(Len(frame) - Hdr, m)
  BY Zenon DEF tso_paylen
<1>6. unit_unfinished <=> data_limit < t
  BY Zenon DEF unit_unfinished
<1>7. Payload(k) = Bytes(Hdr + p, MinOf(Hdr + q, t)) /\ Headers = Bytes(0, MinOf(Hdr, t))
  BY Zenon DEF Payload, Headers
<1> HIDE DEF t, m, p, q
<1>8. tso_paylen \in Nat
  BY SMT, <1>1, <1>4, <1>5 DEF MinOf
<1>9. data_limit \in Nat /\ data_limit <= t /\ (~unit_unfinished => data_limit = t /\ t <= Hdr + q)
  BY SMT, <1>1, <1>2, <1>3, <1>6 DEF MinOf
<1>10. ASSUME unit_unfinished
       PROVE  /\ data_limit = Hdr + q
              /\ Len(frame) >= Hdr /\ SubSeq(frame, 1, Hdr) = Bytes(0, Hdr)
              /\ NextSeq + tso_paylen = q
  <2>1. data_limit = Hdr + q /\ MinOf(Hdr, t) = Hdr /\ MinOf(Hdr + q, t) = Hdr + q
    BY SMT, <1>1, <1>2, <1>3, <1>6, <1>10 DEF MinOf
  <2>2. frame = Bytes(0, Hdr) \o Payload(k) /\ Payload(k) = Bytes(Hdr + p, Hdr + q)
    BY Zenon, <1>2, <1>7, <2>1
  <2>3. Len(frame) >= Hdr /\ SubSeq(frame, 1, Hdr) = Bytes(0, Hdr)
    <3>1. Hdr \in Nat
      BY Zenon, <1>1
    <3>. QED
      BY Zenon, <1>1, <1>3, <2>2, <3>1, BytesPrefix
  <2>4. 0 \in Nat /\ Hdr \in Nat /\ Hdr + p \in Nat /\ Hdr + q \in Nat /\ 0 <= Hdr /\ Hdr + p <= Hdr + q
    BY SMT, <1>1, <1>3
  <2>5. /\ Bytes(0, Hdr) \in Seq(Byte) /\ Len(Bytes(0, Hdr)) = Hdr - 0
        /\ Len(Payload(k)) = (Hdr + q) - (Hdr + p)
    BY Zenon, <1>1, <2>2, <2>4, BytesType
  <2>6. Len(frame) = Len(Bytes(0, Hdr)) + Len(Payload(k))
    BY Zenon, <1>3, <2>2, <2>5, ConcatProperties
  <2>7. Len(frame) = (Hdr - 0) + ((Hdr + q) - (Hdr + p))
    BY Zenon, <2>5, <2>6
  <2>8. Len(frame) = Hdr + m
    BY SMT, <1>1, <1>3, <2>7
  <2>9. tso_paylen = m
    BY SMT, <1>1, <1>5, <2>8 DEF MinOf
  <2>10. NextSeq + tso_paylen = q
    BY Zenon, <1>2, <1>3, <2>9
  <2>. QED
    BY Zenon, <2>1, <2>3, <2>10
<1>. QED
  BY Zenon, <1>2, <1>3, <1>4, <1>8, <1>9, <1>10 DEF t, q, p

\* A unit with TSO is stalled between frames that are all headers.
LEMMA TsoStalled ==
  ASSUME IInv, unit.tso, Stalled, pc # "rest"
  PROVE  /\ unit_unfinished /\ data_limit = tso_off /\ tso_off # 0 /\ unit.mss = 0
         /\ data_limit < unit.total
<1>1. /\ unit.total \in Nat /\ tso_off \in Nat /\ Hdr \in Nat \ {0} /\ unit.mss \in Nat
      /\ TypeOK /\ BuffersInv /\ ready_segments \in Seq(Segment)
  BY Zenon, Types, Constants DEF IInv
<1>2. d_skip = 1
  <2>1. ready_segments # <<>>
    <3>1. eop /\ d_skip + 1 \in 1 .. Len(ready_segments) /\ Len(ready_segments) \in Nat /\ d_skip \in {0, 1}
      BY Zenon, <1>1, FirstBuffer, Types DEF Stalled
    <3>2. Len(ready_segments) # 0
      BY SMT, <3>1
    <3>. QED
      BY Zenon, <1>1, <3>2, EmptySeq
  <2>. QED
    BY Zenon, <1>1, <2>1 DEF BuffersInv
<1>3. data_limit = tso_off /\ unit_unfinished
  <2>1. 1 # 0
    BY SMT
  <2>. QED
    BY Zenon, <1>2, <2>1 DEF Stalled
<1>4. /\ data_limit < unit.total
      /\ data_limit = MinOf(unit.total, IF tso_off = 0 THEN Hdr + unit.mss ELSE tso_off + unit.mss)
  BY Zenon, <1>3 DEF unit_unfinished, data_limit
<1>5. tso_off # 0 /\ unit.mss = 0
  BY SMT, <1>1, <1>3, <1>4 DEF MinOf
<1>. QED
  BY Zenon, <1>3, <1>4, <1>5

\* A stalled TSO unit stays between the same frames.
LEMMA CopyStalled ==
  ASSUME IInv, copy_and_send, unit.tso, Stalled
  PROVE  /\ FramesInv' /\ SentIsSegmentation' /\ frame \in Seq(Byte) /\ sent_seq' = sent_seq
         /\ tso_off' = tso_off /\ tso_len' = Hdr /\ unit_unfinished
<1>1. /\ pc = "sw" /\ send(NextSeq, frame) /\ pktbuf' = frame /\ sent_seq' = NextSeq + tso_paylen
      /\ unit' = unit
      /\ unit_unfinished => /\ tso_off' = data_limit /\ tso_len' = Hdr /\ pc' = "tx"
                            /\ ready_segments' = ready_segments /\ eop' = eop
  BY Zenon, CopyEffect
<1>2. TypeOK /\ eop /\ pc # "rest" /\ ~GivenBack /\ FramesInv /\ ready_segments # <<>> /\ SentIsSegmentation
  BY Zenon, <1>1, InCopy DEF IInv
<1>3. /\ unit_unfinished /\ data_limit = tso_off /\ tso_off # 0 /\ unit.mss = 0 /\ tso_off \in Nat
  BY Zenon, <1>2, TsoStalled, Types
<1>4. sent' = sent /\ lost' = lost
  BY Zenon, <1>1, SendEffect
<1>5. PICK k \in 1 .. tso_off : BetweenFrames(k)
  BY Zenon, <1>2, <1>3 DEF FramesInv
<1>6. k \in Nat /\ CopyAt(k)
  <2>1. k \in Nat
    BY SMT, <1>3
  <2>. QED
    BY Zenon, <1>3, <1>5, <2>1, CopyNext
<1>7. /\ frame \in Seq(Byte) /\ Len(frame) >= Hdr /\ SubSeq(frame, 1, Hdr) = Bytes(0, Hdr)
      /\ NextSeq + tso_paylen = (k + 1) * unit.mss
  BY Zenon, <1>1, <1>3, <1>6, CopyFrameFacts
<1>8. (k + 1) * unit.mss = k * unit.mss
  <2>1. k * unit.mss \in Nat /\ (k + 1) * unit.mss = k * unit.mss + unit.mss
    BY Zenon, <1>2, <1>6, ReferenceType
  <2> DEFINE p == k * unit.mss
             q == (k + 1) * unit.mss
  <2>2. p \in Nat /\ q = p + unit.mss
    BY Zenon, <2>1
  <2> HIDE DEF p, q
  <2>3. q = p
    BY SMT, <1>3, <2>2
  <2>. QED
    BY Zenon, <2>3 DEF p, q
<1>9. sent_seq' = sent_seq
  BY Zenon, <1>1, <1>5, <1>7, <1>8 DEF BetweenFrames
<1>10. BetweenFrames(k)'
  <2>1. Bytes(0, Hdr)' = Bytes(0, Hdr) /\ FirstFrames(k)' = FirstFrames(k)
    BY Zenon, <1>1, SameUnit
  <2>2. FramesBelow(k)'
    BY Zenon, <1>1, <1>4, <1>5, SameFrames DEF BetweenFrames
  <2>3. ~lost' => sent' = FirstFrames(k)'
    BY SMTT(30), Z3T(30), ZenonT(40), <1>4, <1>5, <2>1 DEF BetweenFrames
  <2>4. /\ unit'.tso /\ eop' /\ tso_off' = Hdr + k * unit'.mss /\ tso_off' < unit'.total
        /\ tso_len' = Hdr /\ Hdr <= MTU /\ sent_seq' = k * unit'.mss
    BY Zenon, <1>1, <1>2, <1>3, <1>5, <1>9 DEF BetweenFrames
  <2>. QED
    BY Zenon, <1>1, <1>7, <2>1, <2>2, <2>3, <2>4 DEF BetweenFrames
<1>11. FramesInv'
  BY Zenon, <1>1, <1>3, <1>5, <1>10 DEF FramesInv
<1>12. SentIsSegmentation'
  <2>1. ~GivenBack'
    <3>1. pc' # "rest" /\ ready_segments' # <<>>
      BY Zenon, <1>1, <1>2, <1>3
    <3>. QED
      BY Zenon, <3>1 DEF GivenBack
  <2>. QED
    BY Zenon, <1>1, <1>2, <1>4, <2>1, SameSegmentation
<1>. QED
  BY Zenon, <1>1, <1>3, <1>7, <1>9, <1>11, <1>12

\* Frame k of a TSO unit is sent or dropped.
LEMMA CopySends ==
  ASSUME IInv, copy_and_send, unit.tso, ~Stalled, NEW k \in Nat, CopyAt(k)
  PROVE  /\ sent' \in Seq(Frame) /\ lost' \in BOOLEAN
         /\ \A n \in Nat : k + 1 <= n => FramesBelow(n)'
         /\ ~lost' => sent' = FirstFrames(k + 1)
<1>1. TypeOK /\ pc = "sw" /\ unit' = unit /\ send(NextSeq, frame) /\ lost \in BOOLEAN /\ sent \in Seq(Frame)
  BY Zenon, CopyEffect, Types DEF IInv, TypeOK
<1>2. /\ FramesBelow(k) /\ (~lost => sent = FirstFrames(k))
      /\ frame = Headers \o Payload(k) /\ NextSeq = k * unit.mss
  BY Zenon DEF CopyAt
<1> DEFINE x == [hw |-> FALSE, seq |-> NextSeq, bytes |-> frame]
<1>3. Reference(k) = x /\ Reference(k) \in Frame
  BY Zenon, <1>1, <1>2, ReferenceType DEF Reference
<1>4. (sent' = Append(sent, Reference(k)) /\ lost' = lost) \/ (sent' = sent /\ lost' = TRUE)
  BY Zenon, <1>1, <1>3, SendEffect
<1> HIDE DEF x
<1>5. sent' \in Seq(Frame) /\ lost' \in BOOLEAN
  <2> DEFINE r == Reference(k)
  <2> HIDE DEF r
  <2>1. r \in Frame
    BY Zenon, <1>3 DEF r
  <2>2. Append(sent, r) \in Seq(Frame)
    BY <1>1, <2>1
  <2>. QED
    BY Zenon, <1>1, <1>4, <2>2 DEF r
<1>6. \A n \in Nat : k + 1 <= n => FramesBelow(n)'
  BY Zenon, <1>1, <1>2, <1>4, NextFrame
<1>7. ~lost' => sent' = FirstFrames(k + 1)
  <2>1. ~lost' => sent' = Append(sent, Reference(k)) /\ ~lost
    BY SMTT(30), Z3T(30), ZenonT(40), <1>1, <1>4
  <2>. QED
    BY Zenon, <1>1, <1>2, <2>1, NextFirstFrames
<1>. QED
  BY Zenon, <1>5, <1>6, <1>7

\* The count of frames built stays below the bytes copied.
LEMMA FrameIndex ==
  ASSUME IInv, pc = "sw", unit.tso, ~Stalled, unit_unfinished, NEW k \in Nat, CopyAt(k)
  PROVE  k + 1 \in 1 .. data_limit /\ data_limit # 0
<1> DEFINE m == unit.mss
           p == k * unit.mss
           q == (k + 1) * unit.mss
<1>1. TypeOK /\ eop /\ m \in Nat /\ Hdr \in Nat \ {0}
  BY Zenon, InCopy, Types, Constants
<1>2. data_limit = Hdr + q /\ p \in Nat /\ q = p + m
  BY Zenon, <1>1, CopyFrameFacts, ReferenceType
<1>3. k # 0 => tso_off = Hdr + p
  BY Zenon DEF CopyAt
<1>4. data_limit # tso_off
  BY Zenon, <1>1 DEF Stalled
<1>5. m # 0 => k + 1 <= q
  <2>1. m # 0 => (k + 1) * 1 <= (k + 1) * unit.mss
    BY SMTT(30), Z3T(30), <1>1
  <2>2. (k + 1) * 1 = k + 1
    BY SMT
  <2>. QED
    BY Zenon, <2>1, <2>2
<1> HIDE DEF m, p, q
<1>. QED
  BY SMT, <1>1, <1>2, <1>3, <1>4, <1>5

LEMMA CopyTso ==
  ASSUME IInv, copy_and_send, unit.tso
  PROVE  IInv'
<1>1. /\ pc = "sw" /\ Len(frame) <= MTU /\ send(NextSeq, frame) /\ pktbuf' = frame
      /\ sent_seq' = NextSeq + tso_paylen
      /\ unit' = unit /\ seg' = seg /\ tso_supported' = tso_supported
      /\ unit_unfinished => /\ tso_off' = data_limit /\ tso_len' = Hdr /\ pc' = "tx"
                            /\ ready_segments' = ready_segments /\ eop' = eop
      /\ ~unit_unfinished => tso_off' = 0 /\ tso_len' = 0 /\ give_back
  BY Zenon, CopyEffect
<1>2. PICK k \in Nat : CopyAt(k)
  BY Zenon, <1>1, CopyFrame
<1>3. /\ frame \in Seq(Byte) /\ NextSeq \in Nat /\ Len(frame) \in Nat /\ tso_paylen \in Nat
      /\ data_limit \in Nat /\ data_limit <= unit.total
      /\ ~unit_unfinished => data_limit = unit.total /\ unit.total <= Hdr + (k + 1) * unit.mss
      /\ unit_unfinished =>
           /\ data_limit = Hdr + (k + 1) * unit.mss
           /\ Len(frame) >= Hdr /\ SubSeq(frame, 1, Hdr) = Bytes(0, Hdr)
           /\ NextSeq + tso_paylen = (k + 1) * unit.mss
  BY Zenon, <1>1, <1>2, CopyFrameFacts
<1>4. /\ MbufsAccounted' /\ free' \in 0 .. Pool /\ nic' \in 0 .. Pool /\ nb_segs' \in 0 .. Pool
      /\ tso_seg' = <<>> /\ (Stalled => sent' = sent /\ lost' = lost)
  BY Zenon, <1>1, SendEffect
<1>5. /\ TypeOK /\ unit.total \in Nat /\ Hdr \in Nat \ {0} /\ unit.mss \in Nat /\ MTU \in Nat
      /\ eop /\ ready_segments # <<>> /\ BuffersInv /\ pc # "rest"
      /\ sent \in Seq(Frame) /\ lost \in BOOLEAN
  BY Zenon, <1>1, InCopy, Types, Constants DEF TypeOK
<1>6. sent' \in Seq(Frame) /\ lost' \in BOOLEAN
  <2>1. CASE Stalled
    BY Zenon, <1>4, <1>5, <2>1
  <2>2. CASE ~Stalled
    BY Zenon, <1>2, <2>2, CopySends
  <2>. QED
    BY Zenon, <2>1, <2>2
<1>7. ~Stalled =>
        /\ \A n \in Nat : k + 1 <= n => FramesBelow(n)'
        /\ ~lost' => sent' = FirstFrames(k + 1)
  BY Zenon, <1>2, CopySends
<1>8. ASSUME WellFormed, ~Stalled
      PROVE  /\ FramesBelow(NumFrames)'
             /\ unit.total <= Hdr + (k + 1) * unit.mss => NumFrames = k + 1
  <2>1. unit.mss \in Nat \ {0} /\ (k = 0 \/ unit.total > Hdr + k * unit.mss)
    <3>1. unit.mss > 0
      BY Zenon, <1>8 DEF WellFormed
    <3>2. unit.mss \in Nat \ {0}
      BY SMT, <1>5, <3>1
    <3>3. k # 0 => Hdr + k * unit.mss < unit.total
      BY Zenon, <1>2 DEF CopyAt
    <3>4. k = 0 \/ unit.total > Hdr + k * unit.mss
      <4>1. \A a, b : a < b => b > a
        BY SMT
      <4>. QED
        BY Zenon, <3>3, <4>1
    <3>. QED
      BY Zenon, <3>2, <3>4
  <2>2. /\ NumFrames \in Nat /\ k + 1 <= NumFrames
        /\ unit.total <= Hdr + (k + 1) * unit.mss => NumFrames = k + 1
    BY Zenon, <1>5, <2>1, FramesCount
  <2>3. PICK n \in Nat : n = NumFrames
    BY Zenon, <2>2
  <2>4. FramesBelow(n)'
    BY Zenon, <1>7, <1>8, <2>2, <2>3
  <2>5. NumFrames' = n
    BY Zenon, <1>1, <2>3, SameUnit
  <2>. QED
    BY Zenon, <2>2, <2>4, <2>5 DEF FramesBelow
<1>9. (WellFormed' <=> WellFormed) /\ \A n : FirstFrames(n)' = FirstFrames(n)
  BY Zenon, <1>1, SameUnit
<1>10. /\ BuffersInv' /\ StepInv' /\ FramesInv' /\ SentIsSegmentation'
       /\ tso_off' \in 0 .. unit.total /\ tso_len' \in {0, Hdr}
       /\ ready_segments' \in Seq(Segment) /\ Len(ready_segments') <= MaxData + 1
       /\ eop' \in BOOLEAN /\ pc' \in {"tx", "rest"}
  <2>1. CASE unit_unfinished
    <3>1. /\ tso_off' = data_limit /\ tso_len' = Hdr /\ pc' = "tx" /\ pc' # "rest"
          /\ ready_segments' = ready_segments /\ eop' = eop
      BY Zenon, <1>1, <2>1
    <3>2. BuffersInv'
      <4>1. NumData' = NumData /\ d_skip' = d_skip
        BY Zenon, <3>1 DEF NumData, d_skip
      <4>. QED
        BY ZenonT(40), <1>1, <1>5, <3>1, <4>1 DEF BuffersInv
    <3>3. StepInv'
      BY Zenon, <1>4, <3>1 DEF StepInv
    <3>4. FramesInv' /\ SentIsSegmentation'
      <4>1. CASE Stalled
        BY Zenon, <4>1, CopyStalled
      <4>2. CASE ~Stalled
        <5>1. k + 1 \in 1 .. data_limit /\ data_limit # 0
          BY Zenon, <1>1, <1>2, <2>1, <4>2, FrameIndex
        <5>2. k + 1 \in Nat /\ k + 1 <= k + 1 /\ Hdr <= MTU
          BY SMT, <1>1, <1>3, <1>5, <2>1
        <5>3. BetweenFrames(k + 1)'
          <6>1. FramesBelow(k + 1)' /\ (~lost' => sent' = FirstFrames(k + 1)')
            BY Zenon, <1>7, <1>9, <4>2, <5>2
          <6>2. Bytes(0, Hdr)' = Bytes(0, Hdr)
            BY Zenon, <1>1, SameUnit
          <6>3. /\ unit'.tso /\ eop' /\ tso_off' = Hdr + (k + 1) * unit'.mss /\ tso_off' < unit'.total
                /\ sent_seq' = (k + 1) * unit'.mss
            BY Zenon, <1>1, <1>3, <1>5, <2>1, <3>1 DEF unit_unfinished
          <6>. QED
            BY Zenon, <1>1, <1>3, <2>1, <3>1, <5>2, <6>1, <6>2, <6>3 DEF BetweenFrames
        <5>4. FramesInv'
          BY Zenon, <3>1, <5>1, <5>3 DEF FramesInv
        <5>5. ~GivenBack'
          BY Zenon, <1>5, <3>1 DEF GivenBack
        <5>6. SentIsSegmentation'
          BY Zenon, <1>8, <1>9, <4>2, <5>5 DEF SentIsSegmentation
        <5>. QED
          BY Zenon, <5>4, <5>6
      <4>. QED
        BY Zenon, <4>1, <4>2
    <3>5. tso_off' \in 0 .. unit.total
      <4>1. data_limit \in 0 .. unit.total
        BY SMT, <1>3, <1>5
      <4>. QED
        BY Zenon, <3>1, <4>1
    <3>. QED
      BY Zenon, <1>5, <3>1, <3>2, <3>3, <3>4, <3>5 DEF TypeOK, Segment
  <2>2. CASE ~unit_unfinished
    <3>1. tso_off' = 0 /\ tso_len' = 0 /\ give_back
      BY Zenon, <1>1, <2>2
    <3>2. /\ BuffersInv' /\ StepInv' /\ FramesInv'
          /\ ready_segments' \in Seq(Segment) /\ Len(ready_segments') <= MaxData + 1
          /\ eop' \in BOOLEAN /\ pc' \in {"tx", "rest"}
      BY Zenon, <1>1, <1>3, <1>4, <3>1, GiveBackKeeps
    <3>3. ~Stalled
      BY Zenon, <1>5, <2>2, TsoStalled
    <3>4. ASSUME WellFormed  PROVE  ~lost' => sent' = FirstFrames(NumFrames)'
      <4>1. NumFrames = k + 1
        BY Zenon, <1>3, <1>8, <2>2, <3>3, <3>4
      <4>2. FirstFrames(NumFrames)' = FirstFrames(k + 1)'
        BY Zenon, <1>1, <4>1, SameUnit DEF FirstFrames
      <4>. QED
        BY Zenon, <1>7, <1>9, <3>3, <4>2
    <3>5. SentIsSegmentation'
      BY Zenon, <1>1, <1>8, <1>9, <3>3, <3>4 DEF SentIsSegmentation
    <3>6. 0 \in 0 .. unit.total
      BY SMT, <1>5
    <3>. QED
      BY Zenon, <3>1, <3>2, <3>5, <3>6
  <2>. QED
    BY Zenon, <2>1, <2>2
<1>11. TypeOK'
  <2>1. /\ sent' \in Seq([hw : BOOLEAN, seq : Nat, bytes : Seq(Byte)])
        /\ ready_segments' \in Seq([ctx : BOOLEAN, from : Nat, to : Nat, low : Nat])
        /\ pc' \in {"idle", "tx", "hw", "sw", "rest", "aborted"}
    BY Zenon, <1>6, <1>10 DEF Frame, Segment
  <2>2. sent_seq' \in Nat
    <3>1. \A a, b \in Nat : a + b \in Nat
      BY SMT
    <3>. QED
      BY Zenon, <1>1, <1>3, <3>1
  <2>3. <<>> \in Seq(Byte)
    BY Zenon, EmptySeq
  <2>. QED
    BY Zenon, <1>1, <1>3, <1>4, <1>5, <1>6, <1>10, <2>1, <2>2, <2>3 DEF TypeOK
<1>. QED
  BY Zenon, <1>4, <1>10, <1>11 DEF IInv

-----------------------------------------------------------------------------
(* Descriptors that are left over                                          *)

\* They are buffers, and the end of the unit.
LEMMA RestFacts ==
  ASSUME IInv, pc = "rest"
  PROVE  /\ TypeOK /\ BuffersInv /\ eop /\ d_skip = 0 /\ NumData = Len(ready_segments)
         /\ Len(ready_segments) \in Nat \ {0} /\ Len(ready_segments) <= MaxData
         /\ ready_segments # <<>> /\ tso_off = 0 /\ tso_len = 0
         /\ ready_segments[1].from \in Nat /\ ready_segments[1].low \in Nat
         /\ unit.fetched - ready_segments[1].from \in Nat /\ unit.total - ready_segments[1].low \in Nat
<1> DEFINE s == ready_segments
           l == Len(s)
<1>1. TypeOK /\ BuffersInv /\ eop /\ tso_off = 0 /\ tso_len = 0
  BY Zenon DEF IInv, StepInv, FramesInv
<1>2. l \in Nat /\ s \in Seq(Segment) /\ unit.total \in Nat /\ unit.fetched \in Nat
  BY Zenon, <1>1, Types
<1>3. \A i \in 1 .. l : /\ s[i].from <= s[i].to /\ s[i].to <= unit.fetched
                        /\ s[i].low <= unit.total /\ ~s[i].ctx
  BY Zenon, <1>1 DEF BuffersInv
<1>4. NumData = l - d_skip /\ NumData > 0 /\ NumData <= MaxData /\ d_skip \in {0, 1}
  <2>1. d_skip \in {0, 1}
    BY Zenon DEF d_skip
  <2>. QED
    BY Zenon, <1>1, <2>1 DEF BuffersInv, NumData
<1> HIDE DEF l
<1>5. l # 0 /\ 1 \in 1 .. l
  BY SMT, <1>2, <1>4
<1>6. s # <<>>
  BY Zenon, <1>2, <1>5, EmptySeq DEF l
<1>7. d_skip = 0
  BY Zenon, <1>3, <1>5 DEF d_skip
<1>8. NumData = l /\ l <= MaxData /\ l \in Nat \ {0}
  BY SMT, <1>2, <1>4, <1>5, <1>7
<1>9. s[1].from \in Nat /\ s[1].to \in Nat /\ s[1].low \in Nat
  <2>1. s[1] \in Segment
    BY Zenon, <1>2, <1>5, ElementOfSeq DEF l
  <2>. QED
    BY <2>1 DEF Segment
<1>10. s[1].from <= s[1].to /\ s[1].to <= unit.fetched /\ s[1].low <= unit.total
  BY Zenon, <1>3, <1>5
<1>11. unit.fetched - s[1].from \in Nat /\ unit.total - s[1].low \in Nat
  BY SMT, <1>2, <1>9, <1>10
<1>. QED
  BY Zenon, <1>1, <1>6, <1>7, <1>8, <1>9, <1>11 DEF l

\* The unit that they become.
LEMMA RestEffect ==
  ASSUME IInv, rest_is_unit
  PROVE  /\ pc = "rest" /\ pc' = "tx" /\ eop' = eop /\ tso_off' = tso_off /\ tso_len' = tso_len
         /\ sent' = <<>> /\ lost' = FALSE
         /\ unit' \in Unit /\ unit'.tso = FALSE
         /\ unit'.total = unit.total - ready_segments[1].low
         /\ unit'.fetched = unit.fetched - ready_segments[1].from
         /\ ready_segments' =
              [i \in 1 .. Len(ready_segments) |->
                 Buffer(ready_segments[i].from - ready_segments[1].from,
                        ready_segments[i].to - ready_segments[1].from,
                        ready_segments[i].low - ready_segments[1].low)]
<1> DEFINE t == unit.total - ready_segments[1].low
           f == unit.fetched - ready_segments[1].from
           u == NewUnit(FALSE, 0)
<1>1. /\ pc = "rest" /\ pc' = "tx" /\ eop' = eop /\ tso_off' = tso_off /\ tso_len' = tso_len
      /\ sent' = <<>> /\ lost' = FALSE /\ unit' = [u EXCEPT !.total = t, !.fetched = f]
      /\ ready_segments' =
           [i \in 1 .. Len(ready_segments) |->
              Buffer(ready_segments[i].from - ready_segments[1].from,
                     ready_segments[i].to - ready_segments[1].from,
                     ready_segments[i].low - ready_segments[1].low)]
  BY Zenon DEF rest_is_unit, frameVars
<1>2. t \in Nat /\ f \in Nat
  BY Zenon, <1>1, RestFacts
<1>3. u \in Unit /\ u.tso = FALSE
  <2>1. TypeOK /\ FALSE \in BOOLEAN /\ 0 \in Nat
    BY Zenon, SMT DEF IInv
  <2>. QED
    BY Zenon, <2>1, NewUnitType
<1> HIDE DEF t, f, u
<1>4. unit' \in Unit /\ unit'.tso = FALSE /\ unit'.total = t /\ unit'.fetched = f
  BY <1>1, <1>2, <1>3 DEF Unit
<1>. QED
  BY Zenon, <1>1, <1>4 DEF t, f

LEMMA RestKeeps ==
  ASSUME IInv, rest_is_unit
  PROVE  IInv' /\ d_skip' = 0 /\ Len(ready_segments') = Len(ready_segments)
<1> DEFINE s == ready_segments
           l == Len(s)
           a == s[1].from
           b == s[1].low
<1>1. /\ pc = "rest" /\ pc' = "tx" /\ eop' = eop /\ tso_off' = tso_off /\ tso_len' = tso_len
      /\ sent' = <<>> /\ lost' = FALSE
      /\ unit' \in Unit /\ unit'.tso = FALSE
      /\ unit'.total = unit.total - b /\ unit'.fetched = unit.fetched - a
      /\ s' = [i \in 1 .. l |-> Buffer(s[i].from - a, s[i].to - a, s[i].low - b)]
  BY Zenon, RestEffect
<1>2. /\ TypeOK /\ BuffersInv /\ eop /\ d_skip = 0 /\ l \in Nat \ {0} /\ l <= MaxData
      /\ tso_off = 0 /\ tso_len = 0 /\ a \in Nat /\ b \in Nat
      /\ unit.fetched - a \in Nat /\ unit.total - b \in Nat /\ s # <<>>
  BY Zenon, <1>1, RestFacts
<1>3. s \in Seq(Segment) /\ unit.total \in Nat /\ unit.fetched \in Nat /\ MaxData \in Nat
  BY Zenon, <1>2, Types, Constants
<1> HIDE DEF l, a, b
<1>4. 1 \in 1 .. l /\ l \in 1 .. l
  BY SMT, <1>2
<1>5. ASSUME NEW i \in 1 .. l
      PROVE  /\ s[i].from \in Nat /\ s[i].to \in Nat /\ s[i].low \in Nat
             /\ a <= s[i].from /\ s[i].from <= s[i].to /\ s[i].to <= unit.fetched
             /\ b <= s[i].low /\ s[i].low <= unit.total
  <2>1. s[i] \in Segment
    BY Zenon, <1>3, ElementOfSeq DEF l
  <2>2. 1 <= i
    BY SMT, <1>2
  <2>3. /\ s[1].from <= s[i].from /\ s[1].low <= s[i].low
        /\ s[i].from <= s[i].to /\ s[i].to <= unit.fetched /\ s[i].low <= unit.total
    BY Zenon, <1>2, <1>4, <2>2 DEF BuffersInv, l
  <2>4. s[i].from \in Nat /\ s[i].to \in Nat /\ s[i].low \in Nat
    BY <2>1 DEF Segment
  <2>. QED
    BY Zenon, <2>3, <2>4 DEF a, b
<1>6. ASSUME NEW i \in 1 .. l
      PROVE  /\ s'[i] = Buffer(s[i].from - a, s[i].to - a, s[i].low - b)
             /\ s'[i].from = s[i].from - a /\ s'[i].to = s[i].to - a /\ s'[i].low = s[i].low - b
             /\ s'[i].ctx = FALSE
  <2>1. s'[i] = Buffer(s[i].from - a, s[i].to - a, s[i].low - b)
    BY Zenon, <1>1
  <2>. QED
    BY <2>1 DEF Buffer
<1>7. ASSUME NEW i \in 1 .. l
      PROVE  Buffer(s[i].from - a, s[i].to - a, s[i].low - b) \in Segment
  <2> DEFINE f == s[i].from - a
             t == s[i].to - a
             w == s[i].low - b
  <2>1. /\ s[i].from \in Nat /\ s[i].to \in Nat /\ s[i].low \in Nat
        /\ a <= s[i].from /\ s[i].from <= s[i].to /\ b <= s[i].low
    BY Zenon, <1>5
  <2>2. f \in Nat /\ t \in Nat /\ w \in Nat
    <3>1. \A x, y, c \in Nat : c <= x => x - c \in Nat /\ (x <= y => y - c \in Nat)
      BY SMT
    <3>2. a \in Nat /\ b \in Nat
      BY Zenon, <1>2
    <3>. QED
      BY Zenon, <2>1, <3>1, <3>2
  <2> HIDE DEF f, t, w
  <2>3. Buffer(f, t, w) \in Segment
    BY <2>2 DEF Buffer, Segment
  <2>. QED
    BY Zenon, <2>3 DEF f, t, w
<1>8. s' \in Seq(Segment) /\ Len(s') = l
  <2>1. s' \in [1 .. l -> Segment]
    BY Zenon, <1>1, <1>7
  <2>. QED
    BY <1>2, <2>1
<1>9. s' # <<>>
  BY Zenon, <1>2, <1>8, EmptySeq
<1>10. d_skip' = 0
  BY Zenon, <1>4, <1>6 DEF d_skip
<1>11. NumData' = l - 0
  BY Zenon, <1>8, <1>10 DEF NumData
<1>12. BuffersInv'
  <2>1. a - a = 0 /\ l - 0 <= MaxData /\ l - 0 > 0
    BY SMT, <1>2, <1>3
  <2>2. s'[1].from = 0
    BY Zenon, <1>4, <1>6, <2>1 DEF a
  <2>3. s'[l].to = unit'.fetched
    <3>1. s[l].to = unit.fetched
      BY Zenon, <1>2 DEF BuffersInv, l
    <3>. QED
      BY Zenon, <1>1, <1>4, <1>6, <3>1
  <2>4. ASSUME NEW i \in 1 .. l
        PROVE  /\ s'[i].from <= s'[i].to /\ s'[i].to <= unit'.fetched /\ s'[i].low <= unit'.total
               /\ ~s'[i].ctx
    <3>1. /\ s[i].from - a <= s[i].to - a /\ s[i].to - a <= unit.fetched - a
          /\ s[i].low - b <= unit.total - b
      <4>1. /\ s[i].from \in Nat /\ s[i].to \in Nat /\ s[i].low \in Nat
            /\ s[i].from <= s[i].to /\ s[i].to <= unit.fetched /\ s[i].low <= unit.total
        BY Zenon, <1>5
      <4>2. unit.fetched \in Nat /\ unit.total \in Nat /\ a \in Nat /\ b \in Nat
        BY Zenon, <1>2, <1>3
      <4>3. \A x, y, c \in Nat : x <= y => x - c <= y - c
        BY SMT
      <4>. QED
        BY Zenon, <4>1, <4>2, <4>3
    <3>. QED
      BY Zenon, <1>1, <1>6, <3>1
  <2>5. ASSUME NEW i \in 1 .. l - 1  PROVE  s'[i + 1].from = s'[i].to
    <3>1. i \in 1 .. l /\ i + 1 \in 1 .. l
      BY SMT, <1>2
    <3>2. s[i + 1].from = s[i].to
      BY Zenon, <1>2 DEF BuffersInv, l
    <3>. QED
      BY Zenon, <1>6, <3>1, <3>2
  <2>6. ASSUME NEW i \in 1 .. l, NEW j \in 1 .. l, i <= j
        PROVE  s'[i].from <= s'[j].from /\ s'[i].low <= s'[j].low
    <3>1. s[i].from <= s[j].from /\ s[i].low <= s[j].low
      BY Zenon, <1>2, <2>6 DEF BuffersInv, l
    <3>2. s[i].from - a <= s[j].from - a /\ s[i].low - b <= s[j].low - b
      <4>1. /\ s[i].from \in Nat /\ s[i].low \in Nat /\ s[j].from \in Nat /\ s[j].low \in Nat
        BY Zenon, <1>5
      <4>2. a \in Nat /\ b \in Nat
        BY Zenon, <1>2
      <4>3. \A x, y, c \in Nat : x <= y => x - c <= y - c
        BY SMT
      <4>. QED
        BY Zenon, <3>1, <4>1, <4>2, <4>3
    <3>. QED
      BY Zenon, <1>6, <3>2
  <2>7. NumData' <= (IF eop THEN MaxData ELSE MaxData - 1)' /\ NumData' > 0
    BY Zenon, <1>1, <1>2, <1>11, <2>1
  <2>. QED
    BY Zenon, <1>1, <1>8, <2>2, <2>3, <2>4, <2>5, <2>6, <2>7 DEF BuffersInv
<1>13. MbufsAccounted' /\ tso_seg' = <<>>
  <2>1. pc # "hw"
    BY Zenon, <1>1
  <2>. QED
    BY Zenon, <2>1, DriverAlone DEF rest_is_unit
<1>14. StepInv'
  BY Zenon, <1>1, <1>13 DEF StepInv
<1>15. FramesInv' /\ SentIsSegmentation'
  <2>1. pc' # "rest"
    BY Zenon, <1>1
  <2>. QED
    BY Zenon, <1>1, <1>2, <1>9, <2>1, NothingSent
<1>16. TypeOK'
  <2>1. 0 \in 0 .. (unit.total - b) /\ l <= MaxData + 1
    BY SMT, <1>2, <1>3
  <2>2. (tso_off \in 0 .. unit.total)' /\ (Len(ready_segments) <= MaxData + 1)'
    BY Zenon, <1>1, <1>2, <1>8, <2>1
  <2>3. sent' \in Seq([hw : BOOLEAN, seq : Nat, bytes : Seq(Byte)])
    BY Zenon, <1>1, EmptySeq
  <2>. QED
    BY Zenon, <1>1, <1>2, <1>8, <2>2, <2>3 DEF TypeOK, Unit, Segment, rest_is_unit, frameVars, driverVars
<1>. QED
  BY Zenon, <1>8, <1>10, <1>12, <1>13, <1>14, <1>15, <1>16 DEF IInv, l

-----------------------------------------------------------------------------
(* Theorems                                                                *)

LEMMA StutterKeeps ==
  ASSUME IInv, UNCHANGED vars
  PROVE  IInv'
<1>1. /\ UNCHANGED <<unit, segments, frameVars, sent, lost>>
      /\ UNCHANGED <<unit, segments, frameVars, pc, seg, tso_seg, nb_segs>>
      /\ UNCHANGED <<pc, seg, tso_supported, driverVars>> /\ pc' = pc
  BY Zenon DEF vars, driverVars
<1>2. BuffersInv' /\ FramesInv' /\ SentIsSegmentation'
  BY Zenon, <1>1, UnitAlone
<1>3. TypeOK'
  BY ZenonT(40), <1>1 DEF IInv, TypeOK, segments, frameVars, driverVars
<1>4. StepInv'
  BY Zenon, <1>1, SameStep DEF IInv
<1>5. MbufsAccounted'
  BY Zenon, <1>1 DEF IInv, MbufsAccounted, driverVars
<1>. QED
  BY Zenon, <1>2, <1>3, <1>4, <1>5 DEF IInv

LEMMA NextKeeps ==
  IInv /\ [Next]_vars => IInv'
<1> SUFFICES ASSUME IInv, [Next]_vars  PROVE IInv'
  OBVIOUS
<1>1. ASSUME NEW tso \in BOOLEAN, NEW mss \in Nat, process_context(tso, mss)  PROVE IInv'
  BY Zenon, <1>1, ContextKeeps
<1>2. TRUE \in BOOLEAN /\ FALSE \in BOOLEAN /\ 0 \in Nat /\ Msss \subseteq Nat
  BY Constants
<1>3. process_context(FALSE, 0) \/ (\E mss \in Msss : process_context(TRUE, mss)) => IInv'
  BY Zenon, <1>1, <1>2
<1>4. ASSUME NEW n \in Lens, NEW tag \in TagLens, NEW last \in BOOLEAN, process_data(n, tag, last)
      PROVE IInv'
  BY Zenon, <1>4, DataKeeps
<1>5. CASE process_context_late \/ too_long \/ frame_too_long
  <2>1. pc \in {"idle", "tx", "sw"} /\ abort
    BY Zenon, <1>5 DEF process_context_late, too_long, frame_too_long
  <2>2. pc \notin {"hw", "rest"}
    BY Zenon, <2>1
  <2>. QED
    BY Zenon, <2>1, <2>2, AbortKeeps
<1>6. CASE reset
  BY Zenon, <1>6, ResetKeeps
<1>7. CASE incomplete
  BY Zenon, <1>7, IncompleteKeeps
<1>8. CASE choose_path
  BY Zenon, <1>8, ChoosePathKeeps
<1>9. CASE send_tso
  BY Zenon, <1>9, SendTsoCases, RefusedKeeps, ExtendedKeeps, SentKeeps
<1>10. CASE copy_and_send
  BY Zenon, <1>10, CopyTso, CopyWhole
<1>11. CASE rest_is_unit
  BY Zenon, <1>11, RestKeeps
<1>12. ASSUME NEW n \in 1 .. nic, nic_done(n)  PROVE IInv'
  BY Zenon, <1>12, NicKeeps
<1>13. CASE UNCHANGED vars
  BY Zenon, <1>13, StutterKeeps
<1>. QED
  BY Zenon, <1>3, <1>4, <1>5, <1>6, <1>7, <1>8, <1>9, <1>10, <1>11, <1>12, <1>13 DEF Next, trigger_tx

LEMMA InvariantHolds ==
  Spec => []IInv
BY InitHolds, NextKeeps, PTL DEF Spec

\* The transmit queue, the driver's chain and pool and the frames sent keep
\* their types.
THEOREM TypeCorrect ==
  Spec => []TypeOK
<1>1. IInv => TypeOK
  BY Zenon DEF IInv
<1>. QED
  BY <1>1, InvariantHolds, PTL

\* Whatever buffers a guest uses, and wherever send_tso refuses, a well-formed
\* TSO unit is sent as a whole or as the frames of its segmentation, in order,
\* each once and with its own sequence number, and nothing of a well-formed unit
\* is missing once the queue is done with it unless Dpdk::send or a reset
\* dropped it.
THEOREM UnitsAreSegmented ==
  Spec => []SentIsSegmentation
<1>1. IInv => SentIsSegmentation
  BY Zenon DEF IInv
<1>. QED
  BY <1>1, InvariantHolds, PTL

\* Dpdk::send and send_tso lose no mbuf of the pool, and leave no chain to the
\* next unit.
THEOREM NoMbufIsLost ==
  Spec => []MbufsAccounted
<1>1. IInv => MbufsAccounted
  BY Zenon DEF IInv
<1>. QED
  BY <1>1, InvariantHolds, PTL

-----------------------------------------------------------------------------
(* Why trigger_tx comes to an end                                          *)

\* The most steps of a call of trigger_tx_packet.
Stages == MaxData + 4

LEMMA MoreCalls ==
  ASSUME NEW a \in Nat, NEW b \in Nat
  PROVE  /\ Stages \in Nat /\ a * Stages \in Nat /\ b * Stages \in Nat
         /\ b < a => b * Stages + Stages <= a * Stages
         /\ b <= a => b * Stages <= a * Stages
<1>1. Stages \in Nat /\ 0 * Stages = 0
  BY SMT, Constants DEF Stages
<1>2. \A x, y \in Int : /\ x * Stages \in Int /\ (x + 1) * Stages = x * Stages + Stages
                        /\ x <= y => x * Stages <= y * Stages
  BY Zenon, <1>1, Multiples
<1>3. /\ a \in Int /\ b \in Int /\ 0 \in Int /\ 0 <= a /\ 0 <= b /\ b + 1 \in Int
      /\ b < a => b + 1 <= a
  BY SMT
<1>4. /\ a * Stages \in Int /\ b * Stages \in Int
      /\ 0 * Stages <= a * Stages /\ 0 * Stages <= b * Stages
      /\ b < a => (b + 1) * Stages <= a * Stages
      /\ b <= a => b * Stages <= a * Stages
      /\ (b + 1) * Stages = b * Stages + Stages
  BY Zenon, <1>2, <1>3
<1>. DEFINE A == a * Stages
            B == b * Stages
<1>5. /\ A \in Int /\ 0 <= A /\ B \in Int /\ 0 <= B /\ (b < a => B + Stages <= A)
      /\ b <= a => B <= A
  BY Zenon, <1>1, <1>4
<1>. HIDE DEF A, B
<1>6. A \in Nat /\ B \in Nat
  BY SMT, <1>5
<1>. QED
  BY Zenon, <1>1, <1>5, <1>6 DEF A, B

\* Calls for l descriptors of a unit of t bytes, x of which are copied.
Calls(l, t, x) == l * (t + 1) + (t - x)

LEMMA CallsOrder ==
  ASSUME NEW l \in Nat, NEW t \in Nat, NEW x \in Nat, x <= t
  PROVE  /\ Calls(l, t, x) \in Nat
         /\ l # 0 => Calls(l, t, x) # 0
         /\ \A y \in Nat : y <= t /\ x < y => Calls(l, t, y) < Calls(l, t, x)
         /\ \A m \in Nat : m < l => Calls(m, t, 0) < Calls(l, t, x)
         /\ \A u \in Nat : u <= t => Calls(l, u, 0) <= Calls(l, t, 0)
<1> DEFINE P(a, b) == a * (b + 1)
<1>1. \A a, b \in Nat : P(a, b) \in Nat
  BY SMTT(30), Z3T(30)
<1>2. \A a \in Nat : a < l => P(a, t) + (t + 1) <= P(l, t)
  <2> TAKE a \in Nat
  <2> HAVE a < l
  <2>1. /\ a \in Int /\ l \in Int /\ a + 1 \in Int /\ t + 1 \in Nat /\ a + 1 <= l
    BY SMT
  <2>2. (a + 1) * (t + 1) = a * (t + 1) + (t + 1) /\ (a + 1) * (t + 1) <= l * (t + 1)
    BY Zenon, <2>1, Multiples
  <2>. QED
    BY Zenon, <2>2
<1>3. \A u \in Nat : u <= t => P(l, u) <= P(l, t)
  BY SMTT(30), Z3T(30)
<1>4. l # 0 => P(0, t) + (t + 1) <= P(l, t) /\ P(0, t) \in Nat
  <2>1. 0 \in Nat /\ (l # 0 => 0 < l)
    BY SMT
  <2>. QED
    BY Zenon, <1>1, <1>2, <2>1
<1>5. \A a, b, y : Calls(a, b, y) = P(a, b) + (b - y)
  BY Zenon DEF Calls
<1> HIDE DEF P
<1>6. P(l, t) \in Nat
  BY Zenon, <1>1
<1>7. Calls(l, t, x) \in Nat /\ (l # 0 => Calls(l, t, x) # 0)
  BY SMT, <1>4, <1>5, <1>6
<1>8. \A y \in Nat : y <= t /\ x < y => Calls(l, t, y) < Calls(l, t, x)
  BY SMT, <1>5, <1>6
<1>9. ASSUME NEW m \in Nat, m < l  PROVE  Calls(m, t, 0) < Calls(l, t, x)
  <2>1. P(m, t) \in Nat /\ P(m, t) + (t + 1) <= P(l, t)
    BY Zenon, <1>1, <1>2, <1>9
  <2>2. Calls(m, t, 0) = P(m, t) + (t - 0) /\ Calls(l, t, x) = P(l, t) + (t - x)
    BY Zenon, <1>5
  <2>. QED
    BY SMT, <1>6, <2>1, <2>2
<1>10. ASSUME NEW u \in Nat, u <= t  PROVE  Calls(l, u, 0) <= Calls(l, t, 0)
  <2>1. P(l, u) \in Nat /\ P(l, u) <= P(l, t)
    BY Zenon, <1>1, <1>3, <1>10
  <2>2. Calls(l, u, 0) = P(l, u) + (u - 0) /\ Calls(l, t, 0) = P(l, t) + (t - 0)
    BY Zenon, <1>5
  <2>. QED
    BY SMT, <1>6, <1>10, <2>1, <2>2
<1>. QED
  BY Zenon, <1>7, <1>8, <1>9, <1>10

LEMMA SomeCalls ==
  ASSUME IInv
  PROVE  /\ CallsLeft = Calls(Len(ready_segments), unit.total, tso_off)
         /\ CallsLeft \in Nat /\ (eop => CallsLeft # 0)
         /\ Len(ready_segments) \in Nat /\ unit.total \in Nat /\ tso_off \in Nat /\ tso_off <= unit.total
<1>1. /\ Len(ready_segments) \in Nat /\ unit.total \in Nat /\ tso_off \in Nat /\ tso_off <= unit.total
  BY Zenon, Types DEF IInv
<1>2. CallsLeft = Calls(Len(ready_segments), unit.total, tso_off)
  BY Zenon DEF CallsLeft, Calls
<1>3. eop => Len(ready_segments) # 0
  <2>1. d_skip \in {0, 1} /\ (eop => Len(ready_segments) - d_skip > 0)
    <3>1. d_skip \in {0, 1}
      BY Zenon DEF d_skip
    <3>. QED
      BY Zenon, <3>1 DEF IInv, BuffersInv, NumData
  <2>. QED
    BY SMT, <1>1, <2>1
<1>. QED
  BY Zenon, <1>1, <1>2, <1>3, CallsOrder

LEMMA StepsLeftAt ==
  ASSUME IInv
  PROVE  /\ pc \in {"idle", "aborted"} => StepsLeft = 0
         /\ pc \notin {"idle", "aborted"} /\ ~eop => StepsLeft = 1
         /\ pc = "rest" => eop /\ StepsLeft = CallsLeft * Stages + (MaxData + 3)
         /\ pc = "tx" /\ eop => StepsLeft = CallsLeft * Stages + (MaxData + 2)
         /\ pc = "hw" => eop /\ StepsLeft = CallsLeft * Stages + (MaxData + 2 - seg) /\ seg \in 1 .. MaxData
         /\ pc = "sw" => eop /\ StepsLeft = CallsLeft * Stages + 1
<1>1. (pc \in {"hw", "sw", "rest"} => eop) /\ seg \in 1 .. MaxData
  BY Zenon DEF IInv, StepInv, TypeOK
<1>2. pc \in {"idle", "aborted"} => StepsLeft = 0
  BY Zenon DEF StepsLeft
<1>3. pc \notin {"idle", "aborted"} /\ ~eop => StepsLeft = 1
  BY Zenon DEF StepsLeft
<1>4. pc = "tx" /\ eop => StepsLeft = CallsLeft * Stages + (MaxData + 2)
  BY Zenon DEF StepsLeft, Stages
<1>5. pc = "hw" /\ eop => StepsLeft = CallsLeft * Stages + (MaxData + 2 - seg)
  BY Zenon DEF StepsLeft, Stages
<1>6. pc = "sw" /\ eop => StepsLeft = CallsLeft * Stages + 1
  BY Zenon DEF StepsLeft, Stages
<1>7. pc = "rest" /\ eop => StepsLeft = CallsLeft * Stages + (MaxData + 3)
  BY Zenon DEF StepsLeft, Stages
<1>. QED
  BY Zenon, <1>1, <1>2, <1>3, <1>4, <1>5, <1>6, <1>7

\* The bound by the place, apart from its arithmetic.
LEMMA StepsLeftBounds ==
  ASSUME IInv
  PROVE  /\ StepsLeft \in Nat
         /\ pc \notin {"idle", "aborted"} => StepsLeft > 0
         /\ pc \notin {"idle", "aborted"} /\ eop => StepsLeft > 1
<1>. DEFINE w == CallsLeft * Stages
<1>1. pc \in {"idle", "tx", "hw", "sw", "rest", "aborted"} /\ MaxData \in Nat
  BY Zenon, Constants DEF IInv, TypeOK
<1>2. w \in Nat /\ (eop => w > 0)
  <2>1. CallsLeft \in Nat /\ 0 \in Nat /\ (eop => 0 < CallsLeft)
    <3>1. CallsLeft \in Nat /\ (eop => CallsLeft # 0)
      BY Zenon, SomeCalls
    <3>. QED
      BY SMT, <3>1
  <2>2. w \in Nat /\ (eop => 0 * Stages + Stages <= w) /\ 0 * Stages \in Nat
    BY Zenon, <2>1, MoreCalls
  <2>3. Stages > 0 /\ Stages \in Nat
    BY SMT, Constants DEF Stages
  <2> DEFINE z == 0 * Stages
  <2>4. z \in Nat /\ (eop => z + Stages <= w)
    BY Zenon, <2>2
  <2>. HIDE DEF w, z
  <2>. QED
    BY SMT, <2>2, <2>3, <2>4
<1>3. /\ pc \in {"idle", "aborted"} => StepsLeft = 0
      /\ pc \notin {"idle", "aborted"} /\ ~eop => StepsLeft = 1
      /\ pc = "rest" => eop /\ StepsLeft = w + (MaxData + 3)
      /\ pc = "tx" /\ eop => StepsLeft = w + (MaxData + 2)
      /\ pc = "hw" => eop /\ StepsLeft = w + (MaxData + 2 - seg) /\ seg \in 1 .. MaxData
      /\ pc = "sw" => eop /\ StepsLeft = w + 1
  BY Zenon, StepsLeftAt
<1>. HIDE DEF w
<1>4. CASE pc \in {"idle", "aborted"}
  BY SMT, <1>3, <1>4
<1>5. CASE pc \notin {"idle", "aborted"} /\ ~eop
  BY SMT, <1>3, <1>5
<1>6. CASE pc = "tx" /\ eop
  BY SMT, <1>1, <1>2, <1>3, <1>6
<1>7. CASE pc = "hw"
  BY SMT, <1>1, <1>2, <1>3, <1>7
<1>8. CASE pc = "sw"
  BY SMT, <1>2, <1>3, <1>8
<1>9. CASE pc = "rest"
  BY SMT, <1>1, <1>2, <1>3, <1>9
<1>. QED
  BY Zenon, <1>1, <1>4, <1>5, <1>6, <1>7, <1>8, <1>9

LEMMA StageOrder ==
  ASSUME NEW w \in Nat, NEW v \in Nat, NEW s \in 1 .. MaxData
  PROVE  /\ w + (MaxData + 2 - 1) < w + (MaxData + 2)
         /\ w + 1 < w + (MaxData + 2)
         /\ w + 1 < w + (MaxData + 2 - s)
         /\ w + (MaxData + 2 - (s + 1)) < w + (MaxData + 2 - s)
         /\ v <= w => v + (MaxData + 2) < w + (MaxData + 3)
         /\ v + Stages <= w => v + (MaxData + 2) < w + 1 /\ v + (MaxData + 3) < w + 1
<1>1. MaxData \in Nat
  BY Zenon, Constants
<1>. QED
  BY SMT, <1>1 DEF Stages

\* Where the next frame ends.
LEMMA LimitType ==
  ASSUME IInv
  PROVE  data_limit \in Nat /\ tso_off <= data_limit /\ data_limit <= unit.total
<1>1. /\ unit.total \in Nat /\ tso_off \in Nat /\ tso_off <= unit.total /\ Hdr \in Nat \ {0} /\ unit.mss \in Nat
  BY Zenon, Types, Constants DEF IInv
<1>2. CASE unit.tso
  <2>1. data_limit = MinOf(unit.total, IF tso_off = 0 THEN Hdr + unit.mss ELSE tso_off + unit.mss)
    BY Zenon, <1>2 DEF data_limit
  <2>. QED
    BY SMT, <1>1, <2>1 DEF MinOf
<1>3. CASE ~unit.tso
  <2>1. data_limit = unit.total
    BY Zenon, <1>3 DEF data_limit
  <2>. QED
    BY SMT, <1>1, <2>1
<1>. QED
  BY Zenon, <1>2, <1>3

\* What Stalled looks at stays the same.
LEMMA StalledSame ==
  ASSUME Stalled, unit' = unit, ready_segments' = ready_segments, eop' = eop, tso_off' = tso_off
  PROVE  Stalled'
<1>1. data_limit' = data_limit /\ d_skip' = d_skip
  BY Zenon DEF data_limit, d_skip
<1>2. unit_unfinished' <=> unit_unfinished
  BY Zenon, <1>1 DEF unit_unfinished
<1>. QED
  BY Zenon, <1>1, <1>2 DEF Stalled

\* A unit that is not cut is stalled when it has no data.
LEMMA EmptyStalled ==
  ASSUME IInv, Stalled, ~unit.tso \/ pc = "rest"
  PROVE  tso_off = 0 /\ data_limit = 0 /\ unit.total = 0 /\ d_skip = 0
<1>1. unit.total \in Nat /\ unit.mss \in Nat /\ Hdr \in Nat \ {0} /\ data_limit = tso_off
  BY Zenon, Types, Constants DEF IInv, Stalled
<1>2. tso_off = 0
  BY Zenon DEF IInv, StepInv, FramesInv, BetweenFrames
<1>3. unit.total = 0
  <2>1. CASE ~unit.tso
    BY Zenon, <1>1, <1>2, <2>1 DEF data_limit
  <2>2. CASE unit.tso
    <3>1. data_limit = MinOf(unit.total, Hdr + unit.mss)
      BY Zenon, <1>2, <2>2 DEF data_limit
    <3>. QED
      BY SMT, <1>1, <1>2, <3>1 DEF MinOf
  <2>. QED
    BY Zenon, <2>1, <2>2
<1>4. ~unit_unfinished
  <2>1. ~(0 < 0)
    BY SMT
  <2>. QED
    BY Zenon, <1>1, <1>2, <1>3, <2>1 DEF unit_unfinished
<1>. QED
  BY Zenon, <1>1, <1>2, <1>3, <1>4 DEF Stalled

\* The frame of a stalled unit is not too long.
LEMMA StalledFits ==
  ASSUME IInv, pc = "sw", Stalled
  PROVE  Len(frame) \in Nat /\ Len(frame) <= MTU
<1>1. TypeOK /\ pc # "rest" /\ FramesInv /\ unit.id \in {0, 1} /\ tso_off \in Nat
      /\ Hdr \in Nat \ {0} /\ MTU \in Nat
  BY Zenon, InCopy, Types, Constants
<1>2. CASE unit.tso
  <2>1. data_limit = tso_off /\ tso_off # 0
    BY Zenon, <1>1, <1>2, TsoStalled
  <2>2. PICK k \in 1 .. tso_off : BetweenFrames(k)
    BY Zenon, <1>1, <2>1 DEF FramesInv
  <2>3. tso_len = Hdr /\ Hdr <= MTU /\ SubSeq(pktbuf, 1, Hdr) = Bytes(0, Hdr)
    BY Zenon, <2>2 DEF BetweenFrames
  <2>4. 0 \in Nat /\ Hdr \in Nat /\ 0 <= Hdr /\ Hdr - 0 = Hdr /\ tso_off <= tso_off
    BY SMT, <1>1
  <2>5. Bytes(tso_off, tso_off) = <<>> /\ Bytes(0, Hdr) \in Seq(Byte) /\ Len(Bytes(0, Hdr)) = Hdr - 0
    BY Zenon, <1>1, <2>4, BytesType
  <2>6. Bytes(0, Hdr) \o <<>> = Bytes(0, Hdr)
    BY Zenon, <2>5, ConcatEmptySeq
  <2>7. Len(frame) = Hdr
    BY Zenon, <2>1, <2>3, <2>4, <2>5, <2>6 DEF frame
  <2>. QED
    BY Zenon, <2>3, <2>4, <2>7
<1>3. CASE ~unit.tso
  <2>1. tso_off = 0 /\ data_limit = 0 /\ 0 \in Nat /\ 0 <= 0 /\ 0 <= MTU
    BY SMT, <1>1, <1>3, EmptyStalled
  <2>2. frame = Bytes(0, 0)
    BY Zenon, <2>1, FirstCopy
  <2>3. Bytes(0, 0) = <<>>
    BY Zenon, <1>1, <2>1, BytesType
  <2>4. Len(<<>>) = 0
    BY Zenon, EmptySeq
  <2>. QED
    BY Zenon, <2>1, <2>2, <2>3, <2>4
<1>. QED
  BY Zenon, <1>2, <1>3

LEMMA StalledStays ==
  ASSUME IInv, Next, Stalled
  PROVE  Stalled' /\ pc' # "aborted"
<1>1. eop /\ pc # "idle" /\ MTU \in Nat /\ unit.total \in Nat
  BY Zenon, Types, Constants DEF IInv, StepInv, Stalled
<1>2. /\ ~reset /\ ~process_context_late /\ (\A tso, mss : ~process_context(tso, mss))
      /\ (\A n, tag, last : ~process_data(n, tag, last))
  BY Zenon, <1>1 DEF reset, process_context_late, process_context, process_data
<1>3. ~incomplete
  BY Zenon, <1>1 DEF incomplete
<1>4. ~too_long
  <2> SUFFICES ASSUME too_long  PROVE FALSE
    OBVIOUS
  <2>1. ~unit.tso /\ ~(unit.total <= MTU)
    BY Zenon DEF too_long, LengthAccepted
  <2>2. unit.total = 0
    BY Zenon, <2>1, EmptyStalled
  <2>. QED
    BY SMT, <1>1, <2>1, <2>2
<1>5. CASE choose_path
  <2>1. /\ unit' = unit /\ ready_segments' = ready_segments /\ eop' = eop /\ tso_off' = tso_off
        /\ pc' \in {"hw", "sw"}
    BY Zenon, <1>5 DEF choose_path, segments, frameVars
  <2>. QED
    BY Zenon, <2>1, StalledSame
<1>6. ~send_tso
  <2> SUFFICES ASSUME send_tso  PROVE FALSE
    OBVIOUS
  <2>1. pc = "hw" /\ unit.tso /\ tso_off = 0
    BY Zenon DEF send_tso, IInv, StepInv
  <2>2. pc # "rest"
    BY Zenon, <2>1
  <2>. QED
    BY Zenon, <2>1, <2>2, TsoStalled
<1>7. ~frame_too_long
  <2> SUFFICES ASSUME frame_too_long  PROVE FALSE
    OBVIOUS
  <2>1. pc = "sw" /\ Len(frame) > MTU
    BY Zenon DEF frame_too_long
  <2>2. Len(frame) \in Nat /\ Len(frame) <= MTU
    BY Zenon, <2>1, StalledFits
  <2>. QED
    BY SMT, <1>1, <2>1, <2>2
<1>8. CASE copy_and_send
  <2>1. pc = "sw" /\ unit' = unit
    BY Zenon, <1>8, CopyEffect
  <2>2. CASE unit.tso
    <3>1. unit_unfinished /\ tso_off' = tso_off
      BY Zenon, <1>8, <2>2, CopyStalled
    <3>2. ready_segments' = ready_segments /\ eop' = eop /\ pc' = "tx"
      BY Zenon, <1>8, <3>1, CopyEffect
    <3>3. pc' # "aborted"
      BY Zenon, <3>2
    <3>. QED
      BY Zenon, <2>1, <3>1, <3>2, <3>3, StalledSame
  <2>3. CASE ~unit.tso
    <3>1. data_limit = 0 /\ unit.total = 0 /\ d_skip = 0
      BY Zenon, <2>3, EmptyStalled
    <3>2. tso_off' = 0 /\ tso_len' = 0 /\ give_back /\ send(NextSeq, frame)
      BY Zenon, <1>8, <2>3, CopyEffect DEF unit_unfinished
    <3>3. tso_seg' = <<>> /\ data_limit \in Nat
      BY Zenon, <2>1, <3>2, SendEffect, LimitType
    <3>4. eop' /\ pc' = "rest" /\ d_skip' = 0
      BY Zenon, <2>1, <3>1, <3>2, <3>3, GiveBackKeeps
    <3>5. data_limit' = 0
      BY Zenon, <2>1, <2>3, <3>1 DEF data_limit
    <3>6. pc' # "aborted"
      BY Zenon, <3>4
    <3>. QED
      BY Zenon, <3>2, <3>4, <3>5, <3>6 DEF Stalled
  <2>. QED
    BY Zenon, <2>2, <2>3
<1>9. CASE rest_is_unit
  <2>1. /\ pc = "rest" /\ pc' = "tx" /\ eop' = eop /\ tso_off' = tso_off /\ unit'.tso = FALSE
        /\ unit'.total = unit.total - ready_segments[1].low /\ d_skip' = 0
    BY Zenon, <1>9, RestEffect, RestKeeps
  <2>2. unit.total = 0 /\ tso_off = 0
    BY Zenon, <2>1, EmptyStalled
  <2>3. ready_segments[1].low \in Nat /\ unit.total - ready_segments[1].low \in Nat
    BY Zenon, <2>1, RestFacts
  <2>4. unit'.total = 0
    BY SMT, <2>1, <2>2, <2>3
  <2>5. data_limit' = 0
    BY Zenon, <2>1, <2>4 DEF data_limit
  <2>6. pc' # "aborted"
    BY Zenon, <2>1
  <2>. QED
    BY Zenon, <1>1, <2>1, <2>2, <2>5, <2>6 DEF Stalled
<1>10. ASSUME NEW n \in 1 .. nic, nic_done(n)
       PROVE  Stalled' /\ pc' # "aborted"
  <2>1. /\ unit' = unit /\ ready_segments' = ready_segments /\ eop' = eop /\ tso_off' = tso_off
        /\ pc' # "aborted"
    BY Zenon, <1>10 DEF nic_done, segments, frameVars
  <2>. QED
    BY Zenon, <2>1, StalledSame
<1>. QED
  BY Zenon, <1>2, <1>3, <1>4, <1>5, <1>6, <1>7, <1>8, <1>9, <1>10 DEF Next, trigger_tx

\* Copying a frame of a unit that is not stalled lowers the calls that are left.
LEMMA CopyAdvances ==
  ASSUME IInv, IInv', copy_and_send, ~Stalled
  PROVE  /\ eop' => CallsLeft' < CallsLeft /\ pc' \in {"tx", "rest"}
         /\ ~eop' => pc' = "tx"
<1> DEFINE l == Len(ready_segments)
           t == unit.total
<1>1. /\ CallsLeft = Calls(l, t, tso_off) /\ l \in Nat /\ t \in Nat /\ tso_off \in Nat /\ tso_off <= t
  BY Zenon, SomeCalls
<1>2. pc = "sw" /\ unit' = unit /\ send(NextSeq, frame)
  BY Zenon, CopyEffect
<1>3. CallsLeft' = Calls(Len(ready_segments'), t, tso_off')
  BY Zenon, <1>2 DEF CallsLeft, Calls
<1>4. data_limit \in Nat /\ tso_off <= data_limit /\ data_limit <= t /\ eop
  BY Zenon, <1>2, LimitType, InCopy
<1>5. CASE unit_unfinished
  <2>1. tso_off' = data_limit /\ ready_segments' = ready_segments /\ eop' = eop /\ pc' = "tx"
    BY Zenon, <1>5, CopyEffect
  <2>2. data_limit # tso_off
    BY Zenon, <1>4, <1>5 DEF Stalled
  <2>3. tso_off < data_limit
    BY SMT, <1>1, <1>4, <2>2
  <2>4. Calls(l, t, data_limit) < Calls(l, t, tso_off)
    BY Zenon, <1>1, <1>4, <2>3, CallsOrder
  <2>. QED
    BY Zenon, <1>1, <1>3, <1>4, <2>1, <2>4
<1>6. CASE ~unit_unfinished
  <2>1. tso_off' = 0 /\ tso_len' = 0 /\ give_back
    BY Zenon, <1>6, CopyEffect
  <2>2. tso_seg' = <<>>
    BY Zenon, <1>2, SendEffect
  <2>3. d_skip = 1 \/ data_limit > 0
    <3>1. d_skip \in {0, 1}
      BY Zenon DEF d_skip
    <3>2. d_skip = 0 => data_limit # tso_off
      BY Zenon, <1>4 DEF Stalled
    <3>. QED
      BY SMT, <1>1, <1>4, <3>1, <3>2
  <2>4. /\ eop' => pc' = "rest" /\ Len(ready_segments') < l
        /\ ready_segments' \in Seq(Segment)
        /\ pc' \in {"tx", "rest"} /\ StepInv'
    BY Zenon, <1>2, <1>4, <2>1, <2>2, <2>3, GiveBackKeeps
  <2>5. Len(ready_segments') \in Nat
    BY Zenon, <2>4, LenProperties
  <2>6. eop' => Calls(Len(ready_segments'), t, 0) < Calls(l, t, tso_off)
    BY Zenon, <1>1, <2>4, <2>5, CallsOrder
  <2>7. ~eop' => pc' = "tx"
    BY Zenon, <2>4 DEF StepInv
  <2>. QED
    BY Zenon, <1>1, <1>3, <2>1, <2>4, <2>6, <2>7
<1>. QED
  BY Zenon, <1>5, <1>6

\* A rest that becomes a unit has the same descriptors and no more data.
LEMMA RestRecedes ==
  ASSUME IInv, IInv', rest_is_unit
  PROVE  CallsLeft' <= CallsLeft
<1> DEFINE l == Len(ready_segments)
           t == unit.total
           u == unit'.total
<1>1. /\ pc = "rest" /\ tso_off' = tso_off /\ u = t - ready_segments[1].low /\ Len(ready_segments') = l
  BY Zenon, RestEffect, RestKeeps
<1>2. tso_off = 0
  BY Zenon, <1>1 DEF IInv, StepInv
<1>3. CallsLeft = Calls(l, t, 0) /\ l \in Nat /\ t \in Nat /\ 0 \in Nat /\ 0 <= t
  BY Zenon, <1>2, SomeCalls
<1>4. ready_segments[1].low \in Nat /\ t - ready_segments[1].low \in Nat
  BY Zenon, <1>1, RestFacts
<1>5. u \in Nat /\ u <= t
  BY SMT, <1>1, <1>3, <1>4
<1>6. CallsLeft' = Calls(l, u, 0)
  BY Zenon, <1>1, <1>2 DEF CallsLeft, Calls
<1>. QED
  BY Zenon, <1>3, <1>5, <1>6, CallsOrder

\* However the guest splits a unit into buffers, and wherever the driver refuses
\* them, every step of trigger_tx_packet, EthSendTso and the copy loop brings the
\* end of trigger_tx nearer, unless the next frame ends where the last one ended
\* and nothing is removed from the ring: then no step of the loop ends it.
THEOREM TransmitEnds == Spec => TransmitRecedes /\ [](StepsLeft \in Nat)
<1>. DEFINE Running == pc \notin {"idle", "aborted"}
            Value ==
              /\ pc \in {"idle", "aborted"} => StepsLeft = 0
              /\ Running /\ ~eop => StepsLeft = 1
              /\ pc = "rest" => eop /\ StepsLeft = CallsLeft * Stages + (MaxData + 3)
              /\ pc = "tx" /\ eop => StepsLeft = CallsLeft * Stages + (MaxData + 2)
              /\ pc = "hw" => eop /\ StepsLeft = CallsLeft * Stages + (MaxData + 2 - seg) /\ seg \in 1 .. MaxData
              /\ pc = "sw" => eop /\ StepsLeft = CallsLeft * Stages + 1
              /\ StepsLeft \in Nat /\ CallsLeft \in Nat
              /\ Running => StepsLeft > 0
              /\ Running /\ eop => StepsLeft > 1
            Recedes ==
              /\ trigger_tx /\ ~Stalled => StepsLeft' < StepsLeft
              /\ Running /\ ~Stalled => StepsLeft' <= StepsLeft
              /\ Running => StepsLeft > 0
              /\ Stalled => Stalled' /\ pc' # "aborted"
<1>1. IInv => Value
  BY Zenon, StepsLeftAt, StepsLeftBounds, SomeCalls
<1>2. (IInv => Value)'
  BY <1>1, PTL
<1>3. ASSUME IInv, IInv', trigger_tx, ~Stalled
      PROVE  StepsLeft' < StepsLeft
  <2>0. Value /\ Value'
    BY Zenon, <1>1, <1>2, <1>3
  <2>1. CallsLeft * Stages \in Nat /\ CallsLeft' * Stages \in Nat /\ 1 \in 1 .. MaxData
    <3>1. 1 \in 1 .. MaxData
      BY SMT, Constants
    <3>. QED
      BY Zenon, <2>0, <3>1, MoreCalls
  <2>2. ASSUME eop, Running, ~eop', pc' \notin {"idle", "aborted"}
        PROVE  StepsLeft' < StepsLeft
    BY Zenon, <2>0, <2>2
  <2>3. ASSUME Running, pc' \in {"idle", "aborted"}
        PROVE  StepsLeft' < StepsLeft
    <3>1. StepsLeft \in Nat /\ StepsLeft > 0 /\ StepsLeft' = 0
      BY Zenon, <2>0, <2>3
    <3>. QED
      BY SMT, <3>1
  <2>4. CASE incomplete
    <3>1. Running /\ pc' \in {"idle", "aborted"}
      BY Zenon, <2>4 DEF incomplete
    <3>. QED
      BY Zenon, <2>3, <3>1
  <2>5. CASE too_long
    <3>1. Running /\ pc' \in {"idle", "aborted"}
      BY Zenon, <2>5 DEF too_long, abort
    <3>. QED
      BY Zenon, <2>3, <3>1
  <2>6. CASE frame_too_long
    <3>1. Running /\ pc' \in {"idle", "aborted"}
      BY Zenon, <2>6 DEF frame_too_long, abort
    <3>. QED
      BY Zenon, <2>3, <3>1
  <2>7. CASE choose_path
    <3>1. pc = "tx" /\ eop /\ pc' \in {"hw", "sw"} /\ eop' = eop /\ CallsLeft' = CallsLeft /\ seg' = 1
      BY Zenon, <2>7 DEF choose_path, segments, frameVars, CallsLeft
    <3>2. StepsLeft = CallsLeft * Stages + (MaxData + 2)
      BY Zenon, <2>0, <3>1
    <3>3. StepsLeft' = CallsLeft * Stages + (MaxData + 2 - 1) \/ StepsLeft' = CallsLeft * Stages + 1
      BY Zenon, <2>0, <3>1
    <3>. QED
      BY Zenon, <2>1, <3>2, <3>3, StageOrder
  <2>8. CASE send_tso
    <3>1. /\ pc = "hw" /\ eop /\ seg \in 1 .. MaxData
          /\ StepsLeft = CallsLeft * Stages + (MaxData + 2 - seg)
      BY Zenon, <2>0, <2>8 DEF send_tso
    <3>2. CASE tso_refused
      <4>1. pc' = "sw" /\ CallsLeft' = CallsLeft
        BY Zenon, <3>2 DEF tso_refused, segments, frameVars, CallsLeft
      <4>2. StepsLeft' = CallsLeft * Stages + 1
        BY Zenon, <2>0, <4>1
      <4>. QED
        BY Zenon, <2>1, <3>1, <4>2, StageOrder
    <3>3. CASE tso_extended(Chain, Needed)
      <4>1. pc' = "hw" /\ CallsLeft' = CallsLeft /\ seg' = seg + 1
        BY Zenon, <3>1, <3>3 DEF tso_extended, segments, frameVars, CallsLeft
      <4>2. StepsLeft' = CallsLeft * Stages + (MaxData + 2 - (seg + 1))
        BY Zenon, <2>0, <4>1
      <4>. QED
        BY Zenon, <2>1, <3>1, <4>2, StageOrder
    <3>4. CASE tso_sent(Chain, Needed)
      <4>1. pc' = "tx" /\ ~eop' /\ Running /\ pc' \notin {"idle", "aborted"}
        BY Zenon, <3>1, <3>4 DEF tso_sent, unit_done
      <4>. QED
        BY Zenon, <2>2, <3>1, <4>1
    <3>. QED
      BY Zenon, <2>8, <3>2, <3>3, <3>4, SendTsoCases
  <2>9. CASE copy_and_send
    <3>1. pc = "sw" /\ eop /\ StepsLeft = CallsLeft * Stages + 1 /\ Running
      BY Zenon, <2>0, <2>9, CopyEffect
    <3>2. CASE eop'
      <4>1. CallsLeft' < CallsLeft /\ pc' \in {"tx", "rest"}
        BY Zenon, <1>3, <2>9, <3>2, CopyAdvances
      <4>2. CallsLeft' * Stages + Stages <= CallsLeft * Stages
        BY Zenon, <2>0, <4>1, MoreCalls
      <4>3. \/ StepsLeft' = CallsLeft' * Stages + (MaxData + 2)
            \/ StepsLeft' = CallsLeft' * Stages + (MaxData + 3)
        BY Zenon, <2>0, <3>2, <4>1
      <4>. QED
        BY Zenon, <2>1, <3>1, <4>2, <4>3, StageOrder
    <3>3. CASE ~eop'
      <4>1. pc' = "tx"
        BY Zenon, <1>3, <2>9, <3>3, CopyAdvances
      <4>2. pc' \notin {"idle", "aborted"}
        BY Zenon, <4>1
      <4>. QED
        BY Zenon, <2>2, <3>1, <3>3, <4>2
    <3>. QED
      BY Zenon, <3>2, <3>3
  <2>10. CASE rest_is_unit
    <3>1. /\ pc = "rest" /\ pc' = "tx" /\ eop' = eop /\ eop
          /\ StepsLeft = CallsLeft * Stages + (MaxData + 3)
      BY Zenon, <1>3, <2>0, <2>10, RestEffect
    <3>2. StepsLeft' = CallsLeft' * Stages + (MaxData + 2)
      BY Zenon, <2>0, <3>1
    <3>3. CallsLeft' <= CallsLeft
      BY Zenon, <1>3, <2>10, RestRecedes
    <3>4. CallsLeft' * Stages <= CallsLeft * Stages
      BY Zenon, <2>0, <3>3, MoreCalls
    <3>. QED
      BY Zenon, <2>1, <3>1, <3>2, <3>4, StageOrder
  <2>. QED
    BY Zenon, <1>3, <2>4, <2>5, <2>6, <2>7, <2>8, <2>9, <2>10 DEF trigger_tx
<1>4. IInv /\ IInv' /\ [Next]_vars => [Recedes]_vars
  <2>. SUFFICES ASSUME IInv, IInv', Next
                PROVE  Recedes
    BY Zenon
  <2>1. Running => StepsLeft > 0
    BY Zenon, <1>1
  <2>2. StepsLeft \in Nat /\ StepsLeft' \in Nat
    BY Zenon, <1>1, <1>2
  <2>3. ASSUME Running, ~Stalled
        PROVE  StepsLeft' <= StepsLeft
    <3>1. \A x, y \in Nat : x <= x /\ (x < y => x <= y)
      BY SMT
    <3>2. CASE trigger_tx
      BY Zenon, <1>3, <2>2, <2>3, <3>1, <3>2
    <3>3. ASSUME NEW n \in 1 .. nic, nic_done(n)
          PROVE  StepsLeft' <= StepsLeft
      <4>1. StepsLeft' = StepsLeft
        <5>1. CallsLeft' = CallsLeft
          BY Zenon, <3>3 DEF nic_done, segments, frameVars, CallsLeft
        <5>. QED
          BY Zenon, <3>3, <5>1 DEF nic_done, StepsLeft, segments, frameVars
      <4>. QED
        BY Zenon, <2>2, <3>1, <4>1
    <3>4. /\ ~reset /\ ~process_context_late /\ (\A tso, mss : ~process_context(tso, mss))
          /\ (\A n, tag, last : ~process_data(n, tag, last))
      BY Zenon, <2>3 DEF reset, process_context_late, process_context, process_data
    <3>. QED
      BY Zenon, <3>2, <3>3, <3>4 DEF Next
  <2>4. Stalled => Stalled' /\ pc' # "aborted"
    BY Zenon, StalledStays
  <2>. QED
    BY Zenon, <1>3, <2>1, <2>3, <2>4
<1>5. IInv => StepsLeft \in Nat
  BY Zenon, <1>1
<1>. QED
  BY <1>4, <1>5, InvariantHolds, PTL DEF Spec, TransmitRecedes
=============================================================================
