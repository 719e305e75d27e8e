----------------------- MODULE InterruptThrottle_proofs -----------------------
(***************************************************************************)
(* Proofs about InterruptThrottle: types for any set of event sources; the *)
(* action properties for an RxThread that meets all events, whatever the   *)
(* largest delay.                                                          *)
(***************************************************************************)
EXTENDS InterruptThrottle, TLAPS

LEMMA Times ==
  /\ MaxDelay \in Nat /\ OFF \in Nat /\ OFF \notin Due
  /\ 0 .. MaxDelay \subseteq Due /\ Due \subseteq Int
  /\ \A due \in Due : Passed(due) \in Due /\ Passed(due) <= due
  /\ \A a, b \in Due : a <= b => Passed(a) <= Passed(b)
  /\ Passed(-1) = -1 /\ -1 \in Due
BY ThrottleAssumption DEF OFF, Due, Passed

LEMMA InitInv == Init => IInv
<1>. SUFFICES ASSUME Init PROVE IInv
  OBVIOUS
<1>. USE DEF Init
<1>1. armed \in BOOLEAN /\ guest_unmasked_irq \in BOOLEAN /\ owed \in BOOLEAN
  BY Zenon
<1>2. /\ vfu_ctx_mutex \in Threads \cup {NONE} /\ time_ \in Due /\ poll_timer \in Due \cup {OFF}
      /\ newtime \in [Threads -> Due]
      /\ pc \in [Threads -> {"top", "send", "suppress", "disable", "disarm", "recv", "idle", "event",
                             "test", "arm", "time", "schedule"}]
  BY Times
<1>3. MutexInv
  BY DEF MutexInv, Threads, NONE
<1>4. TimerInv
  BY DEF TimerInv, Threads
<1>. HIDE DEF Init
<1>. QED
  BY <1>1, <1>2, <1>3, <1>4 DEF IInv, TypeOK

-----------------------------------------------------------------------------
(* Types                                                                   *)

LEMMA NextType == TypeOK /\ [Next]_vars => TypeOK'
<1>. SUFFICES ASSUME TypeOK, [Next]_vars PROVE TypeOK'
  OBVIOUS
<1>. USE Times DEF TypeOK
<1>1. CASE Tick
  BY Zenon, <1>1 DEF Tick
<1>2. CASE processPollTimer
  BY <1>2 DEF processPollTimer, Goto, Threads
<1>3. CASE send_interrupt
  BY Zenon, <1>3 DEF send_interrupt, Goto, Threads
<1>4. CASE disable_timer
  BY <1>4 DEF disable_timer, Goto, Threads
<1>5. CASE disarm
  BY Zenon, <1>5 DEF disarm, Goto, Threads
<1>6. CASE recv
  BY <1>6 DEF recv, Goto, Threads
<1>7. CASE request
  BY <1>7 DEF request, Goto, Threads
<1>8. ASSUME NEW mask \in BOOLEAN, irq_state_cb(mask)
      PROVE  TypeOK'
  BY <1>8 DEF irq_state_cb, Goto, Threads
<1>9. ASSUME NEW t \in Threads, TryStep(t)
      PROVE  TypeOK'
  <2>. Home(t) \in {"recv", "idle"}
    BY DEF Home
  <2>. USE DEF Goto, Done
  <2>1. CASE no_event(t)
    BY <2>1 DEF no_event
  <2>2. ASSUME NEW mindelay \in 0 .. MaxDelay, try_interrupt(t, mindelay)
        PROVE  TypeOK'
    BY <2>2 DEF try_interrupt
  <2>3. CASE coalesce(t)
    BY <2>3 DEF coalesce
  <2>4. CASE reschedule(t)
    BY <2>4 DEF reschedule
  <2>5. CASE arm(t)
    BY <2>5 DEF arm
  <2>6. CASE set_time(t)
    BY <2>6 DEF set_time
  <2>7. CASE defer_interrupt_abs_polling(t)
    BY <2>7 DEF defer_interrupt_abs_polling
  <2>. QED
    BY <1>9, <2>1, <2>2, <2>3, <2>4, <2>5, <2>6, <2>7 DEF TryStep
<1>10. CASE suppress_interrupt
  BY Zenon, <1>10 DEF suppress_interrupt, Goto, Threads
<1>11. CASE UNCHANGED vars
  BY <1>11 DEF vars
<1>. QED
  BY <1>1, <1>2, <1>3, <1>4, <1>5, <1>6, <1>7, <1>8, <1>9, <1>10, <1>11
     DEF Next, RxThread, VmuxRunner, Threads

-----------------------------------------------------------------------------
(* One source of events                                                    *)

LEMMA NextMutex ==
  ASSUME Sources = {"rx"}, IInv, [Next]_vars
  PROVE  MutexInv'
<1>. USE DEF IInv, MutexInv, TypeOK, Threads, NONE, Goto
<1>1. CASE Tick
  BY <1>1 DEF Tick
<1>2. CASE processPollTimer
  BY <1>2 DEF processPollTimer
<1>3. CASE send_interrupt
  BY <1>3 DEF send_interrupt
<1>4. CASE disable_timer
  BY <1>4 DEF disable_timer
<1>5. CASE disarm
  BY <1>5 DEF disarm
<1>6. CASE recv
  BY <1>6 DEF recv
<1>7. CASE request
  BY <1>7 DEF request
<1>8. ASSUME NEW mask \in BOOLEAN, irq_state_cb(mask)
      PROVE  MutexInv'
  BY <1>8 DEF irq_state_cb
<1>9. ASSUME NEW t \in Threads, TryStep(t)
      PROVE  MutexInv'
  <2>. USE DEF Done, Home
  <2>1. CASE no_event(t)
    BY <2>1 DEF no_event
  <2>2. ASSUME NEW mindelay \in 0 .. MaxDelay, try_interrupt(t, mindelay)
        PROVE  MutexInv'
    BY <2>2 DEF try_interrupt
  <2>3. CASE coalesce(t)
    BY <2>3 DEF coalesce
  <2>4. CASE reschedule(t)
    BY <2>4 DEF reschedule
  <2>5. CASE arm(t)
    BY <2>5 DEF arm
  <2>6. CASE set_time(t)
    BY <2>6 DEF set_time
  <2>7. CASE defer_interrupt_abs_polling(t)
    BY <2>7 DEF defer_interrupt_abs_polling
  <2>. QED
    BY <1>9, <2>1, <2>2, <2>3, <2>4, <2>5, <2>6, <2>7 DEF TryStep
<1>10. CASE suppress_interrupt
  BY <1>10 DEF suppress_interrupt
<1>11. CASE UNCHANGED vars
  BY <1>11 DEF vars
<1>. QED
  BY <1>1, <1>2, <1>3, <1>4, <1>5, <1>6, <1>7, <1>8, <1>9, <1>10, <1>11
     DEF Next, RxThread, VmuxRunner

LEMMA NextTimer ==
  ASSUME Sources = {"rx"}, IInv, [Next]_vars
  PROVE  TimerInv'
<1>. USE Times DEF IInv, MutexInv, TimerInv, TypeOK, Threads, NONE, Goto
<1>1. CASE Tick
  BY Zenon, <1>1 DEF Tick
<1>2. CASE processPollTimer
  BY <1>2 DEF processPollTimer
<1>3. CASE send_interrupt
  BY <1>3 DEF send_interrupt
<1>4. CASE disable_timer
  BY <1>4 DEF disable_timer
<1>5. CASE disarm
  BY <1>5 DEF disarm
<1>6. CASE recv
  BY <1>6 DEF recv
<1>7. CASE request
  BY <1>7 DEF request
<1>8. ASSUME NEW mask \in BOOLEAN, irq_state_cb(mask)
      PROVE  TimerInv'
  BY <1>8 DEF irq_state_cb
<1>9. ASSUME NEW t \in Threads, TryStep(t)
      PROVE  TimerInv'
  <2>. USE DEF Done, Home
  <2>1. CASE no_event(t)
    BY <2>1 DEF no_event
  <2>2. ASSUME NEW mindelay \in 0 .. MaxDelay, try_interrupt(t, mindelay)
        PROVE  TimerInv'
    BY <2>2 DEF try_interrupt
  <2>3. CASE coalesce(t)
    BY <2>3 DEF coalesce
  <2>4. CASE reschedule(t)
    <3>1. t = "rx" /\ pc["rx"] = "test" /\ pc'["rx"] = "arm"
      BY <2>4 DEF reschedule
    <3>2. newtime["rx"] \in Int /\ time_ \in Int
      BY Zenon
    <3>3. poll_timer # OFF => newtime["rx"] <= poll_timer
      BY <2>4, <3>1, <3>2 DEF reschedule
    <3>. QED
      BY <2>4, <3>1, <3>3 DEF reschedule
  <2>5. CASE arm(t)
    BY <2>5 DEF arm
  <2>6. CASE set_time(t)
    BY <2>6 DEF set_time
  <2>7. CASE defer_interrupt_abs_polling(t)
    BY <2>7 DEF defer_interrupt_abs_polling
  <2>. QED
    BY <1>9, <2>1, <2>2, <2>3, <2>4, <2>5, <2>6, <2>7 DEF TryStep
<1>10. CASE suppress_interrupt
  BY <1>10 DEF suppress_interrupt
<1>11. CASE UNCHANGED vars
  BY <1>11 DEF vars
<1>. QED
  BY <1>1, <1>2, <1>3, <1>4, <1>5, <1>6, <1>7, <1>8, <1>9, <1>10, <1>11
     DEF Next, RxThread, VmuxRunner

LEMMA InvariantHolds == Sources = {"rx"} /\ Spec => []IInv
<1>1. Sources = {"rx"} /\ IInv /\ [Next]_vars => IInv'
  <2>. SUFFICES ASSUME Sources = {"rx"}, IInv, [Next]_vars PROVE IInv'
    OBVIOUS
  <2>. QED
    BY NextType, NextMutex, NextTimer DEF IInv
<1>2. CASE Sources = {"rx"}
  BY <1>1, <1>2, InitInv, PTL DEF Spec
<1>3. CASE Sources # {"rx"}
  BY <1>3
<1>. QED
  BY <1>2, <1>3

-----------------------------------------------------------------------------

\* The throttler and its threads keep to their types, whichever threads meet
\* events: the timer is never set further ahead than the largest delay
\* (simbricks.hpp:98).
THEOREM TypeCorrect == Spec => []TypeOK
<1>1. Init => TypeOK
  BY InitInv DEF IInv
<1>. QED
  BY <1>1, NextType, PTL DEF Spec

\* If all events are received packets, no event postpones the interrupt that
\* is scheduled (simbricks.hpp:127).
THEOREM NothingPostponed == Sources = {"rx"} /\ Spec => NeverPostponed
<1>1. IInv /\ [Next]_vars =>
        [poll_timer # OFF /\ poll_timer' # OFF => poll_timer' <= poll_timer]_vars
  <2>. SUFFICES ASSUME IInv, Next, poll_timer # OFF, poll_timer' # OFF
                PROVE  poll_timer' <= poll_timer
    BY DEF vars
  <2>1. poll_timer \in Due /\ poll_timer \in Int
    BY Times DEF IInv, TypeOK
  <2>2. CASE UNCHANGED poll_timer
    BY <2>1, <2>2
  <2>3. CASE Tick
    BY <2>1, <2>3, Times DEF Tick
  <2>4. CASE disable_timer
    BY <2>4 DEF disable_timer
  <2>5. ASSUME NEW t \in Threads, defer_interrupt_abs_polling(t)
        PROVE  poll_timer' <= poll_timer
    BY <2>5 DEF defer_interrupt_abs_polling, IInv, MutexInv, TimerInv, Threads
  <2>. QED
    BY <2>2, <2>3, <2>4, <2>5
       DEF Next, RxThread, VmuxRunner, TryStep, Threads, processPollTimer, send_interrupt,
           suppress_interrupt, disarm, recv, request, irq_state_cb, no_event, try_interrupt, coalesce,
           reschedule, arm, set_time
<1>. QED
  BY <1>1, InvariantHolds, PTL DEF Spec, NeverPostponed

\* If all events are received packets, an event is dropped only while an
\* interrupt is scheduled that has not been sent (simbricks.hpp:127-129).
THEOREM CoalescedIsScheduled == Sources = {"rx"} /\ Spec => CoalescesWithScheduled
<1>1. IInv /\ [Next]_vars =>
        [\A t \in Threads : coalesce(t) => poll_timer # OFF /\ pc["rx"] \notin {"suppress", "disable"}]_vars
  <2>. SUFFICES ASSUME IInv, NEW t \in Threads, coalesce(t)
                PROVE  poll_timer # OFF /\ pc["rx"] \notin {"suppress", "disable"}
    OBVIOUS
  <2>. QED
    BY DEF coalesce, IInv, MutexInv, TimerInv, Threads
<1>. QED
  BY <1>1, InvariantHolds, PTL DEF Spec, CoalescesWithScheduled

LEMMA NextOwed ==
  ASSUME Sources = {"rx"}, IInv, OwedIsScheduled, [Next]_vars
  PROVE  OwedIsScheduled'
<1>. USE Times DEF IInv, MutexInv, TimerInv, TypeOK, OwedIsScheduled, Threads, NONE, Goto
<1>1. CASE Tick
  <2>1. poll_timer' # OFF <=> poll_timer # OFF
    BY Zenon, <1>1 DEF Tick
  <2>. QED
    BY Zenon, <1>1, <2>1 DEF Tick
<1>2. CASE processPollTimer
  BY <1>2 DEF processPollTimer
<1>3. CASE send_interrupt
  BY <1>3 DEF send_interrupt
<1>4. CASE disable_timer
  BY <1>4 DEF disable_timer
<1>5. CASE disarm
  BY <1>5 DEF disarm
<1>6. CASE recv
  BY <1>6 DEF recv
<1>7. CASE request
  BY <1>7 DEF request
<1>8. CASE suppress_interrupt
  BY <1>8 DEF suppress_interrupt
<1>9. ASSUME NEW mask \in BOOLEAN, irq_state_cb(mask)
      PROVE  OwedIsScheduled'
  BY <1>9 DEF irq_state_cb
<1>10. ASSUME NEW t \in Threads, TryStep(t)
       PROVE  OwedIsScheduled'
  <2>. USE DEF Done, Home
  <2>1. CASE no_event(t)
    BY <2>1 DEF no_event
  <2>2. ASSUME NEW mindelay \in 0 .. MaxDelay, try_interrupt(t, mindelay)
        PROVE  OwedIsScheduled'
    BY <2>2 DEF try_interrupt
  <2>3. CASE coalesce(t)
    BY <2>3 DEF coalesce
  <2>4. CASE reschedule(t)
    BY <2>4 DEF reschedule
  <2>5. CASE arm(t)
    BY <2>5 DEF arm
  <2>6. CASE set_time(t)
    BY <2>6 DEF set_time
  <2>7. CASE defer_interrupt_abs_polling(t)
    BY <2>7 DEF defer_interrupt_abs_polling
  <2>. QED
    BY Zenon, <1>10, <2>1, <2>2, <2>3, <2>4, <2>5, <2>6, <2>7 DEF TryStep
<1>11. CASE UNCHANGED vars
  BY <1>11 DEF vars
<1>. QED
  BY <1>1, <1>2, <1>3, <1>4, <1>5, <1>6, <1>7, <1>8, <1>9, <1>10, <1>11
     DEF Next, RxThread, VmuxRunner

\* If all events are received packets, no event is lost between try_interrupt
\* and poll_timer_cb: as long as it is owed, the timer is set or about to be set,
\* and no interrupt is sent that no event asked for (simbricks.hpp:98-140).
THEOREM OwedEventsAreScheduled == Sources = {"rx"} /\ Spec => []OwedIsScheduled
<1>1. Init => OwedIsScheduled
  BY DEF Init, OwedIsScheduled, Threads
<1>2. Sources = {"rx"} /\ IInv /\ OwedIsScheduled /\ [Next]_vars => OwedIsScheduled'
  BY NextOwed
<1>3. CASE Sources = {"rx"}
  BY <1>1, <1>2, <1>3, InvariantHolds, PTL DEF Spec
<1>4. CASE Sources # {"rx"}
  BY <1>4
<1>. QED
  BY <1>3, <1>4
===============================================================================
