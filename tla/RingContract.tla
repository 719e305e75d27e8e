----------------------------- MODULE RingContract -----------------------------
(***************************************************************************)
(* What a descriptor queue of the E810 model promises the guest: entries   *)
(* between head and tail belong to the device, it starts them one at a     *)
(* time in ring order and gives them back in ring order once started.      *)
(***************************************************************************)
EXTENDS Integers

CONSTANT RingLen

VARIABLES
  head,     \* oldest entry that belongs to the device
  tail,     \* first entry that belongs to the guest
  started   \* entries of the device whose processing has started

\* The first n entries from head on.
FirstOwned(n) == {(head + k) % RingLen : k \in 0 .. n - 1}

Init == head = 0 /\ tail = 0 /\ started = {}

Publish ==
  \E n \in 1 .. RingLen - 1 - ((tail - head) % RingLen) :
    /\ tail' = (tail + n) % RingLen
    /\ UNCHANGED <<head, started>>

Start ==
  \E n \in 0 .. ((tail - head) % RingLen) - 1 :
    /\ started = FirstOwned(n)
    /\ started' = FirstOwned(n + 1)
    /\ UNCHANGED <<head, tail>>

GiveBack ==
  \E n \in 1 .. ((tail - head) % RingLen) :
    /\ FirstOwned(n) \subseteq started
    /\ head' = (head + n) % RingLen
    /\ started' = started \ FirstOwned(n)
    /\ UNCHANGED tail

Reset == head' = 0 /\ tail' = 0 /\ started' = {}

Next == Publish \/ Start \/ GiveBack \/ Reset

Spec == Init /\ [][Next]_<<head, tail, started>>
===============================================================================
