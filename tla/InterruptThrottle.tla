-------------------------- MODULE InterruptThrottle --------------------------
(***************************************************************************)
(* InterruptThrottlerSimbricks (interrupts/simbricks.hpp) for one MSI-X    *)
(* vector of an E810 device, and the two threads that use it: the RxThread *)
(* (e810.hpp driver_cb), which serves the poll timer without a lock and    *)
(* then delivers packets, and the VmuxRunner, which executes register      *)
(* accesses and irq state changes of the guest with vfu_ctx_mutex held.    *)
(*                                                                         *)
(* Points in time are relative to now: a due date counts down with every   *)
(* tick and stays at -1 once it has passed.                                *)
(***************************************************************************)
EXTENDS Integers

CONSTANTS
  MaxDelay,   \* largest mindelay, in ticks
  Sources     \* threads in which events of the vector occur

ASSUME ThrottleAssumption ==
  /\ MaxDelay \in Nat
  /\ Sources \subseteq {"rx", "runner"}

Threads == {"rx", "runner"}
NONE == "none"
OFF == MaxDelay + 1       \* poll_timer is {}
Due == -1 .. MaxDelay

VARIABLES
  vfu_ctx_mutex,       \* the thread that holds it, or NONE
  pc,                  \* where each thread is
  armed,
  time_,               \* when the scheduled interrupt is due
  poll_timer,          \* when the timer is due, or OFF
  guest_unmasked_irq,
  newtime,             \* local of try_interrupt
  owed                 \* an event has not been followed by an interrupt yet

vars == <<vfu_ctx_mutex, pc, armed, time_, poll_timer, guest_unmasked_irq, newtime, owed>>

Home(t) == IF t = "rx" THEN "recv" ELSE "idle"
Goto(t, l) == pc' = [pc EXCEPT ![t] = l]

TypeOK ==
  /\ vfu_ctx_mutex \in Threads \cup {NONE}
  /\ pc \in [Threads -> {"top", "send", "suppress", "disable", "disarm", "recv", "idle", "event",
                         "test", "arm", "time", "schedule"}]
  /\ armed \in BOOLEAN
  /\ time_ \in Due
  /\ poll_timer \in Due \cup {OFF}
  /\ guest_unmasked_irq \in BOOLEAN
  /\ newtime \in [Threads -> Due]
  /\ owed \in BOOLEAN

Init ==
  /\ vfu_ctx_mutex = NONE
  /\ pc = [t \in Threads |-> IF t = "rx" THEN "top" ELSE "idle"]
  /\ armed = FALSE
  /\ time_ = -1
  /\ poll_timer = OFF
  /\ guest_unmasked_irq = TRUE
  /\ newtime = [t \in Threads |-> -1]
  /\ owed = FALSE

Passed(due) == IF due = -1 THEN -1 ELSE due - 1

\* The monotonic clock.
Tick ==
  /\ time_' = Passed(time_)
  /\ poll_timer' = IF poll_timer = OFF THEN OFF ELSE Passed(poll_timer)
  /\ newtime' = [t \in Threads |-> Passed(newtime[t])]
  /\ UNCHANGED <<vfu_ctx_mutex, pc, armed, guest_unmasked_irq, owed>>

-----------------------------------------------------------------------------
(* RxThread                                                                *)

processPollTimer ==
  /\ pc["rx"] = "top"
  /\ Goto("rx", IF poll_timer = -1 THEN "send" ELSE "recv")
  /\ UNCHANGED <<vfu_ctx_mutex, armed, time_, poll_timer, guest_unmasked_irq, newtime, owed>>

\* vfu_irq_trigger, without vfu_ctx_mutex, reaches the guest, or fails because
\* the guest has set up no routing and nobody waits for the interrupt.
send_interrupt ==
  /\ pc["rx"] = "send"
  /\ owed' = FALSE
  /\ Goto("rx", "disable") \/ Goto("rx", "suppress")
  /\ UNCHANGED <<vfu_ctx_mutex, armed, time_, poll_timer, guest_unmasked_irq, newtime>>

\* "mask interrupt without the driver knowing", also if the guest has set up
\* routing and unmasked the vector since the interrupt failed
suppress_interrupt ==
  /\ pc["rx"] = "suppress"
  /\ guest_unmasked_irq' = FALSE
  /\ Goto("rx", "disable")
  /\ UNCHANGED <<vfu_ctx_mutex, armed, time_, poll_timer, newtime, owed>>

\* poll_timer_cb after the interrupt, in two steps.
disable_timer ==
  /\ pc["rx"] = "disable"
  /\ poll_timer' = OFF
  /\ Goto("rx", "disarm")
  /\ UNCHANGED <<vfu_ctx_mutex, armed, time_, guest_unmasked_irq, newtime, owed>>

\* Defect: the throttler stays armed.
disarm_forgotten ==
  /\ pc["rx"] = "disarm"
  /\ Goto("rx", "recv")
  /\ UNCHANGED <<vfu_ctx_mutex, armed, time_, poll_timer, guest_unmasked_irq, newtime, owed>>

disarm ==
  /\ pc["rx"] = "disarm"
  /\ armed' = FALSE
  /\ Goto("rx", "recv")
  /\ UNCHANGED <<vfu_ctx_mutex, time_, poll_timer, guest_unmasked_irq, newtime, owed>>

\* Deliver a packet to the model, or start over.
recv ==
  /\ pc["rx"] = "recv"
  /\ \/ /\ vfu_ctx_mutex = NONE
        /\ vfu_ctx_mutex' = "rx"
        /\ Goto("rx", "event")
     \/ /\ Goto("rx", "top")
        /\ UNCHANGED vfu_ctx_mutex
  /\ UNCHANGED <<armed, time_, poll_timer, guest_unmasked_irq, newtime, owed>>

-----------------------------------------------------------------------------
(* VmuxRunner                                                              *)

request ==
  /\ pc["runner"] = "idle" /\ vfu_ctx_mutex = NONE
  /\ vfu_ctx_mutex' = "runner"
  /\ Goto("runner", "event")
  /\ UNCHANGED <<armed, time_, poll_timer, guest_unmasked_irq, newtime, owed>>

irq_state_cb(mask) ==
  /\ pc["runner"] = "event"
  /\ guest_unmasked_irq' = ~mask
  /\ vfu_ctx_mutex' = NONE
  /\ Goto("runner", "idle")
  /\ UNCHANGED <<armed, time_, poll_timer, newtime, owed>>

-----------------------------------------------------------------------------
(* try_interrupt, in either thread, with vfu_ctx_mutex held                *)

Done(t) == vfu_ctx_mutex' = NONE /\ Goto(t, Home(t))

\* The request or packet causes no interrupt, or the vector is masked.
no_event(t) ==
  /\ pc[t] = "event"
  /\ Done(t)
  /\ UNCHANGED <<armed, time_, poll_timer, guest_unmasked_irq, newtime, owed>>

try_interrupt(t, mindelay) ==
  /\ pc[t] = "event" /\ t \in Sources
  /\ guest_unmasked_irq
  /\ owed' = TRUE
  /\ newtime' = [newtime EXCEPT ![t] = mindelay]
  /\ Goto(t, "test")
  /\ UNCHANGED <<vfu_ctx_mutex, armed, time_, poll_timer, guest_unmasked_irq>>

coalesce(t) ==
  /\ pc[t] = "test"
  /\ armed /\ time_ < newtime[t]
  /\ Done(t)
  /\ UNCHANGED <<armed, time_, poll_timer, guest_unmasked_irq, newtime, owed>>

\* Defect: an event always schedules the interrupt anew.
reschedule_always(t) ==
  /\ pc[t] = "test"
  /\ Goto(t, "arm")
  /\ UNCHANGED <<vfu_ctx_mutex, armed, time_, poll_timer, guest_unmasked_irq, newtime, owed>>

reschedule(t) ==
  /\ pc[t] = "test"
  /\ ~(armed /\ time_ < newtime[t])
  /\ Goto(t, "arm")
  /\ UNCHANGED <<vfu_ctx_mutex, armed, time_, poll_timer, guest_unmasked_irq, newtime, owed>>

arm(t) ==
  /\ pc[t] = "arm"
  /\ armed' = TRUE
  /\ Goto(t, "time")
  /\ UNCHANGED <<vfu_ctx_mutex, time_, poll_timer, guest_unmasked_irq, newtime, owed>>

set_time(t) ==
  /\ pc[t] = "time"
  /\ time_' = newtime[t]
  /\ Goto(t, "schedule")
  /\ UNCHANGED <<vfu_ctx_mutex, armed, poll_timer, guest_unmasked_irq, newtime, owed>>

\* Defect: the delay is added twice.
defer_twice(t) ==
  /\ pc[t] = "schedule"
  /\ poll_timer' = newtime[t] + newtime[t]
  /\ Done(t)
  /\ UNCHANGED <<armed, time_, guest_unmasked_irq, newtime, owed>>

defer_interrupt_abs_polling(t) ==
  /\ pc[t] = "schedule"
  /\ poll_timer' = newtime[t]
  /\ Done(t)
  /\ UNCHANGED <<armed, time_, guest_unmasked_irq, newtime, owed>>

-----------------------------------------------------------------------------
TryStep(t) ==
  \/ no_event(t)
  \/ \E mindelay \in 0 .. MaxDelay : try_interrupt(t, mindelay)
  \/ coalesce(t) \/ reschedule(t) \/ arm(t) \/ set_time(t)
  \/ defer_interrupt_abs_polling(t)

RxThread ==
  \/ processPollTimer \/ send_interrupt \/ suppress_interrupt \/ disable_timer \/ disarm
  \/ recv \/ TryStep("rx")

VmuxRunner ==
  \/ request
  \/ \E mask \in BOOLEAN : irq_state_cb(mask)
  \/ TryStep("runner")

Next == Tick \/ RxThread \/ VmuxRunner

\* Time passes.  The RxThread polls in a loop and comes back to the timer
\* (a driver delivers finitely many packets at a time); a runner that has
\* started a request finishes it.
Spec ==
  /\ Init /\ [][Next]_vars
  /\ WF_vars(Tick)
  /\ WF_vars(RxThread)
  /\ SF_vars(recv /\ pc'["rx"] = "top")
  /\ WF_vars(TryStep("runner"))

-----------------------------------------------------------------------------
(* Properties                                                              *)

\* Every event is followed by an interrupt (try_interrupt, poll_timer_cb).
EventsReported == owed ~> ~owed

\* A later event never postpones an interrupt that is scheduled already.
NeverPostponed ==
  [][poll_timer # OFF /\ poll_timer' # OFF => poll_timer' <= poll_timer]_vars

\* try_interrupt drops an event only if an interrupt is still going to be
\* sent: "already armed and this is not scheduled sooner".
CoalescesWithScheduled ==
  [][\A t \in Threads :
       coalesce(t) => poll_timer # OFF /\ pc["rx"] \notin {"suppress", "disable"}]_vars

-----------------------------------------------------------------------------
(* The inductive invariant behind these properties, if only the RxThread   *)
(* meets events.                                                           *)

\* try_interrupt runs under the mutex, and only in the RxThread.
MutexInv ==
  /\ \A t \in Threads : vfu_ctx_mutex = t <=>
       pc[t] \in {"event", "test", "arm", "time", "schedule"}
  /\ pc["runner"] \in {"idle", "event"} /\ pc["rx"] # "idle"

\* armed and the timer tell the same, and time_ is when the timer is due,
\* except while one of the two threads is about to change the next of them.
TimerInv ==
  /\ pc["rx"] \in {"top", "recv", "send", "suppress", "event", "test", "arm"} =>
       /\ armed <=> poll_timer # OFF
       /\ armed => time_ = poll_timer
  /\ pc["rx"] \in {"send", "suppress", "disable"} => poll_timer = -1
  /\ pc["rx"] = "disarm" => poll_timer = OFF
  /\ pc["rx"] \in {"arm", "time", "schedule"} /\ poll_timer # OFF =>
       newtime["rx"] <= poll_timer
  /\ pc["rx"] \in {"time", "schedule"} => armed
  /\ pc["rx"] = "schedule" => time_ = newtime["rx"]

IInv == TypeOK /\ MutexInv /\ TimerInv

-----------------------------------------------------------------------------
(* Why every event is reported, if only the RxThread meets events.         *)

\* While an event is owed, the timer is set and going to be served, or
\* try_interrupt is about to decide about it or to set it; and the timer is set,
\* or about to be set, only if an event is owed, unless the interrupt has just
\* been sent.
OwedIsScheduled ==
  /\ owed =>
       \/ pc["rx"] \in {"test", "arm", "time", "schedule"}
       \/ poll_timer # OFF /\ pc["rx"] \notin {"suppress", "disable", "disarm"}
  /\ poll_timer # OFF => owed \/ pc["rx"] \in {"suppress", "disable"}
  /\ pc["rx"] \in {"test", "arm", "time", "schedule"} => owed
===============================================================================
