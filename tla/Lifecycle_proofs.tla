--------------------------- MODULE Lifecycle_proofs ---------------------------
(***************************************************************************)
(* Proofs about Lifecycle, for every number of VMs and whatever VMs have   *)
(* an RxThread.                                                            *)
(***************************************************************************)
EXTENDS Lifecycle, TLAPS

USE DEF Vms, NOT_STARTED, STARTED, INITILIZED, CONNECTED

\* The part of the invariant about one VM.
VmInv(v) == RunnerInv(v) /\ RxInv(v)

LEMMA InitInv == Init => IInv
<1>. SUFFICES ASSUME Init PROVE IInv
  OBVIOUS
<1>. USE DEF Starting, Joining, Begun, Awaited, Joined, JoinedRx, HasRxThread
<1>1. TypeOK
  <2>1. i \in Vms /\ state \in [Vms -> NOT_STARTED .. CONNECTED]
    BY LifecycleAssumption DEF Init
  <2>. QED
    BY <2>1, Zenon DEF Init, TypeOK
<1>2. ASSUME NEW v \in Vms PROVE VmInv(v)
  BY LifecycleAssumption DEF Init, VmInv, RunnerInv, RxInv
<1>3. ResultInv
  BY DEF Init, ResultInv
<1>. QED
  BY <1>1, <1>2, <1>3 DEF IInv, VmInv

\* One step for every action, under it one for each part of the invariant.
LEMMA NextInv ==
  ASSUME IInv, [Next]_vars
  PROVE  IInv'
<1>. USE LifecycleAssumption
<1>. USE DEF IInv, runnerVars, rxVars, Starting, Joining, Begun, Awaited, Joined, JoinedRx,
             HasRxThread, Iterate, Alive, Goto
<1>1. CASE start_runner
  <2>1. TypeOK'
    BY <1>1 DEF TypeOK, start_runner
  <2>2. ASSUME NEW v \in Vms PROVE VmInv(v)'
    BY <1>1 DEF TypeOK, VmInv, RunnerInv, RxInv, start_runner
  <2>3. ResultInv'
    BY <1>1 DEF TypeOK, RunnerInv, ResultInv, start_runner
  <2>. QED
    BY <2>1, <2>2, <2>3 DEF VmInv
<1>2. CASE wait_initialized
  <2>1. TypeOK'
    BY <1>2 DEF TypeOK, wait_initialized
  <2>2. ASSUME NEW v \in Vms PROVE VmInv(v)'
    BY <1>2 DEF TypeOK, VmInv, RunnerInv, RxInv, wait_initialized
  <2>3. ResultInv'
    BY <1>2 DEF TypeOK, RunnerInv, ResultInv, wait_initialized
  <2>. QED
    BY <2>1, <2>2, <2>3 DEF VmInv
<1>3. CASE wait_connected
  <2>1. TypeOK'
    BY <1>3 DEF TypeOK, wait_connected
  <2>2. ASSUME NEW v \in Vms PROVE VmInv(v)'
    BY <1>3 DEF TypeOK, VmInv, RunnerInv, RxInv, wait_connected
  <2>3. ResultInv'
    BY <1>3 DEF TypeOK, RunnerInv, ResultInv, wait_connected
  <2>. QED
    BY <2>1, <2>2, <2>3 DEF VmInv
<1>4. CASE start_threads
  <2>1. TypeOK'
    BY <1>4 DEF TypeOK, start_threads
  <2>2. ASSUME NEW v \in Vms PROVE VmInv(v)'
    BY <1>4 DEF TypeOK, VmInv, RunnerInv, RxInv, start_threads
  <2>3. ResultInv'
    BY <1>4 DEF TypeOK, RunnerInv, ResultInv, start_threads
  <2>. QED
    BY <2>1, <2>2, <2>3 DEF VmInv
<1>5. CASE leave_loop
  <2>1. TypeOK'
    BY <1>5 DEF TypeOK, leave_loop
  <2>2. ASSUME NEW v \in Vms PROVE VmInv(v)'
    BY <1>5 DEF TypeOK, VmInv, RunnerInv, RxInv, leave_loop
  <2>3. ResultInv'
    BY <1>5 DEF TypeOK, RunnerInv, ResultInv, leave_loop
  <2>. QED
    BY <2>1, <2>2, <2>3 DEF VmInv
<1>6. CASE stop
  <2>1. TypeOK'
    <3>1. i' \in Vms /\ main' \in {"stop", "join", "crashed"}
      BY <1>6 DEF TypeOK, stop
    <3>2. running' \in [Vms -> BOOLEAN] /\ polling' \in [Vms -> BOOLEAN]
      BY Zenon, <1>6 DEF TypeOK, stop
    <3>. QED
      BY <1>6, <3>1, <3>2 DEF TypeOK, stop
  <2>2. ASSUME NEW v \in Vms PROVE VmInv(v)'
    BY <1>6 DEF TypeOK, VmInv, RunnerInv, RxInv, stop
  <2>3. ResultInv'
    BY <1>6 DEF TypeOK, RunnerInv, ResultInv, stop
  <2>. QED
    BY <2>1, <2>2, <2>3 DEF VmInv
<1>7. CASE join_runner
  <2>1. TypeOK'
    BY <1>7 DEF TypeOK, join_runner
  <2>2. ASSUME NEW v \in Vms PROVE VmInv(v)'
    BY <1>7 DEF TypeOK, VmInv, RunnerInv, RxInv, join_runner
  <2>3. ResultInv'
    BY <1>7 DEF TypeOK, RunnerInv, ResultInv, join_runner
  <2>. QED
    BY <2>1, <2>2, <2>3 DEF VmInv
<1>8. CASE join_rx
  <2>1. TypeOK'
    BY <1>8 DEF TypeOK, join_rx
  <2>2. ASSUME NEW v \in Vms PROVE VmInv(v)'
    BY <1>8 DEF TypeOK, VmInv, RunnerInv, RxInv, join_rx
  <2>3. ResultInv'
    BY <1>8 DEF TypeOK, RunnerInv, ResultInv, join_rx
  <2>. QED
    BY <2>1, <2>2, <2>3 DEF VmInv
<1>9. CASE signal_handler
  <2>1. TypeOK'
    BY <1>9 DEF TypeOK, signal_handler
  <2>2. ASSUME NEW v \in Vms PROVE VmInv(v)'
    BY <1>9 DEF TypeOK, VmInv, RunnerInv, RxInv, signal_handler
  <2>3. ResultInv'
    BY <1>9 DEF TypeOK, RunnerInv, ResultInv, signal_handler
  <2>. QED
    BY <2>1, <2>2, <2>3 DEF VmInv
<1>10. ASSUME NEW w \in Vms, initilize(w)
      PROVE  IInv'
  <2>1. TypeOK'
    BY <1>10 DEF TypeOK, initilize
  <2>2. ASSUME NEW v \in Vms PROVE VmInv(v)'
    BY <1>10 DEF TypeOK, VmInv, RunnerInv, RxInv, initilize
  <2>3. ResultInv'
    BY <1>10 DEF TypeOK, RunnerInv, ResultInv, initilize
  <2>. QED
    BY <2>1, <2>2, <2>3 DEF VmInv
<1>11. ASSUME NEW w \in Vms, initialized(w)
      PROVE  IInv'
  <2>1. TypeOK'
    BY <1>11 DEF TypeOK, initialized
  <2>2. ASSUME NEW v \in Vms PROVE VmInv(v)'
    BY <1>11 DEF TypeOK, VmInv, RunnerInv, RxInv, initialized
  <2>3. ResultInv'
    BY <1>11 DEF TypeOK, RunnerInv, ResultInv, initialized
  <2>. QED
    BY <2>1, <2>2, <2>3 DEF VmInv
<1>12. ASSUME NEW w \in Vms, attach_gives_up(w)
      PROVE  IInv'
  <2>1. TypeOK'
    BY <1>12 DEF TypeOK, attach_gives_up
  <2>2. ASSUME NEW v \in Vms PROVE VmInv(v)'
    BY <1>12 DEF TypeOK, VmInv, RunnerInv, RxInv, attach_gives_up
  <2>3. ResultInv'
    BY <1>12 DEF TypeOK, RunnerInv, ResultInv, attach_gives_up
  <2>. QED
    BY <2>1, <2>2, <2>3 DEF VmInv
<1>13. ASSUME NEW w \in Vms, connected(w)
      PROVE  IInv'
  <2>1. TypeOK'
    BY <1>13 DEF TypeOK, connected
  <2>2. ASSUME NEW v \in Vms PROVE VmInv(v)'
    BY <1>13 DEF TypeOK, VmInv, RunnerInv, RxInv, connected
  <2>3. ResultInv'
    BY <1>13 DEF TypeOK, RunnerInv, ResultInv, connected
  <2>. QED
    BY <2>1, <2>2, <2>3 DEF VmInv
<1>14. ASSUME NEW w \in Vms, run_exits(w)
      PROVE  IInv'
  <2>1. TypeOK'
    BY <1>14 DEF TypeOK, run_exits
  <2>2. ASSUME NEW v \in Vms PROVE VmInv(v)'
    BY <1>14 DEF TypeOK, VmInv, RunnerInv, RxInv, run_exits
  <2>3. ResultInv'
    BY <1>14 DEF TypeOK, RunnerInv, ResultInv, run_exits
  <2>. QED
    BY <2>1, <2>2, <2>3 DEF VmInv
<1>15. ASSUME NEW w \in Vms, attach(w)
      PROVE  IInv'
  <2>1. TypeOK'
    BY <1>15 DEF TypeOK, attach
  <2>2. ASSUME NEW v \in Vms PROVE VmInv(v)'
    BY <1>15 DEF TypeOK, VmInv, RunnerInv, RxInv, attach
  <2>3. ResultInv'
    BY <1>15 DEF TypeOK, RunnerInv, ResultInv, attach
  <2>. QED
    BY <2>1, <2>2, <2>3 DEF VmInv
<1>16. ASSUME NEW w \in Vms, disconnected(w)
      PROVE  IInv'
  <2>1. TypeOK'
    BY <1>16 DEF TypeOK, disconnected
  <2>2. ASSUME NEW v \in Vms PROVE VmInv(v)'
    BY <1>16 DEF TypeOK, VmInv, RunnerInv, RxInv, disconnected
  <2>3. ResultInv'
    BY <1>16 DEF TypeOK, RunnerInv, ResultInv, disconnected
  <2>. QED
    BY <2>1, <2>2, <2>3 DEF VmInv
<1>17. ASSUME NEW w \in Vms, rx_exits(w)
      PROVE  IInv'
  <2>1. TypeOK'
    BY <1>17 DEF TypeOK, rx_exits
  <2>2. ASSUME NEW v \in Vms PROVE VmInv(v)'
    BY <1>17 DEF TypeOK, VmInv, RunnerInv, RxInv, rx_exits
  <2>3. ResultInv'
    BY <1>17 DEF TypeOK, RunnerInv, ResultInv, rx_exits
  <2>. QED
    BY <2>1, <2>2, <2>3 DEF VmInv
<1>18. CASE UNCHANGED vars
  BY <1>18 DEF vars, TypeOK, RunnerInv, RxInv, ResultInv
<1>. QED
  BY <1>1, <1>2, <1>3, <1>4, <1>5, <1>6, <1>7, <1>8, <1>9,
     <1>10, <1>11, <1>12, <1>13, <1>14, <1>15, <1>16, <1>17, <1>18
     DEF Next, MainThread, Runner

THEOREM InvariantHolds == Spec => []IInv
<1>1. IInv /\ [Next]_vars => IInv'
  BY NextInv
<1>. QED
  BY InitInv, <1>1, PTL DEF Spec

\* The main thread, the runners and the RxThreads keep their variables within
\* their types; in particular the loops over the VMs never go past the last
\* one (main.cpp:344-435).
THEOREM TypeCorrect == Spec => []TypeOK
<1>1. IInv => TypeOK
  BY DEF IInv
<1>. QED
  BY InvariantHolds, <1>1, PTL

\* No RxThread polls a device before its VM has connected unless vmux is
\* quitting, and no thread is left when _main returns (main.cpp:358-373, 415-435).
THEOREM DevicesStayUsable == Spec => []DevicesUsable
<1>1. IInv => DevicesUsable
  BY LifecycleAssumption
     DEF IInv, TypeOK, RunnerInv, RxInv, DevicesUsable, Awaited, Starting, Joined, JoinedRx
<1>. QED
  BY InvariantHolds, <1>1, PTL

\* _main returns an error exactly if a runner failed (main.cpp:421-437).
THEOREM FailuresAreReported == Spec => []FailureReported
<1>1. IInv => FailureReported
  BY DEF IInv, ResultInv, FailureReported, Joined
<1>. QED
  BY InvariantHolds, <1>1, PTL
-----------------------------------------------------------------------------
(* Why a signal ends vmux                                                  *)

LEMMA InitShutdown == Init => SInv
BY LifecycleAssumption DEF Init, SInv, ShutdownInv, Initialized, Stopped, Starting, Joining, HasRxThread

LEMMA NextShutdown ==
  ASSUME IInv, SInv, [Next]_vars
  PROVE  SInv'
<1>a. (main \in {"threads", "loop"} => i = 0)'
  BY LifecycleAssumption DEF IInv, TypeOK, SInv, Next, MainThread, Runner, vars, runnerVars, rxVars, Iterate,
       start_runner, wait_initialized, wait_connected, start_threads, leave_loop, stop, join_runner,
       join_rx, signal_handler, initilize, initialized, attach_gives_up, connected, run_exits,
       attach, disconnected, rx_exits
<1>. SUFFICES ASSUME NEW v \in Vms PROVE ShutdownInv(v)'
  BY Zenon, <1>a DEF SInv
<1>0. /\ TypeOK /\ ShutdownInv(v) /\ RunnerInv(v)
      /\ main \in {"threads", "loop"} => i = 0
  BY Zenon DEF IInv, SInv
<1>. USE LifecycleAssumption, <1>0
<1>. USE DEF TypeOK, RunnerInv, ShutdownInv, runnerVars, rxVars, Starting, Joining, Begun, Joined,
             Initialized, Stopped, HasRxThread, Iterate, Alive, Goto
<1>1. CASE start_runner
  BY <1>1 DEF start_runner
<1>2. CASE wait_initialized
  BY <1>2 DEF wait_initialized
<1>3. CASE wait_connected
  BY <1>3 DEF wait_connected
<1>4. CASE start_threads
  BY <1>4 DEF start_threads
<1>5. CASE leave_loop
  BY <1>5 DEF leave_loop
<1>6. CASE stop
  BY <1>6 DEF stop
<1>7. CASE join_runner
  BY <1>7 DEF join_runner
<1>8. CASE join_rx
  BY <1>8 DEF join_rx
<1>9. CASE signal_handler
  BY <1>9 DEF signal_handler
<1>10. ASSUME NEW w \in Vms, initilize(w)
      PROVE  ShutdownInv(v)'
  BY <1>10 DEF initilize
<1>11. ASSUME NEW w \in Vms, initialized(w)
      PROVE  ShutdownInv(v)'
  BY <1>11 DEF initialized
<1>12. ASSUME NEW w \in Vms, attach_gives_up(w)
      PROVE  ShutdownInv(v)'
  BY <1>12 DEF attach_gives_up
<1>13. ASSUME NEW w \in Vms, connected(w)
      PROVE  ShutdownInv(v)'
  BY <1>13 DEF connected
<1>14. ASSUME NEW w \in Vms, run_exits(w)
      PROVE  ShutdownInv(v)'
  BY <1>14 DEF run_exits
<1>15. ASSUME NEW w \in Vms, attach(w)
      PROVE  ShutdownInv(v)'
  BY <1>15 DEF attach
<1>16. ASSUME NEW w \in Vms, disconnected(w)
      PROVE  ShutdownInv(v)'
  BY <1>16 DEF disconnected
<1>17. ASSUME NEW w \in Vms, rx_exits(w)
      PROVE  ShutdownInv(v)'
  BY <1>17 DEF rx_exits
<1>18. CASE UNCHANGED vars
  BY <1>18 DEF vars
<1>. QED
  BY Zenon, <1>1, <1>2, <1>3, <1>4, <1>5, <1>6, <1>7, <1>8, <1>9,
     <1>10, <1>11, <1>12, <1>13, <1>14, <1>15, <1>16, <1>17, <1>18
     DEF Next, MainThread, Runner

LEMMA ShutdownHolds == Spec => [](IInv /\ SInv)
<1>1. IInv /\ SInv /\ [Next]_vars => SInv'
  BY NextShutdown
<1>. QED
  BY InitShutdown, InvariantHolds, <1>1, PTL DEF Spec

\* main, told to quit by a signal or by a VM that disconnects, never waits for
\* a thread that cannot go on (main.cpp:344-435, runner.hpp, rx-thread.hpp),
\* with the exception of the wait for state 2 (main.cpp:350).  For every number of VMs.
THEOREM ShutdownNeverStuck == Spec => []NeverStuck
<1>1. IInv /\ SInv => NeverStuck
  <2>. SUFFICES ASSUME IInv, SInv PROVE NeverStuck
    BY Zenon
  <2>1. i \in Vms /\ TypeOK
    BY Zenon DEF IInv, TypeOK
  <2>2. RunnerInv(i) /\ RxInv(i) /\ ShutdownInv(i)
    BY Zenon, <2>1 DEF IInv, SInv
  <2>3. main = "init" => MainGoes \/ RunnerGoes(i) \/ InitializationMissed
    BY <2>1, <2>2 DEF TypeOK, RunnerInv, ShutdownInv, Begun, Starting, MainGoes, RunnerGoes,
                      InitializationMissed
  <2>4. main = "join" => MainGoes \/ RunnerGoes(i)
    BY <2>1, <2>2 DEF TypeOK, RunnerInv, ShutdownInv, Begun, Starting, Joining, Stopped, MainGoes,
                      RunnerGoes
  <2>5. main = "join_rx" => MainGoes \/ RxGoes(i)
    BY <2>1, <2>2 DEF TypeOK, ShutdownInv, Joining, Stopped, MainGoes, RxGoes
  <2>6. quit /\ Alive => MainGoes \/ main \in {"init", "join", "join_rx"}
    BY <2>1 DEF TypeOK, Alive, MainGoes
  <2>. QED
    BY Zenon, <2>3, <2>4, <2>5, <2>6 DEF NeverStuck
<1>. QED
  BY ShutdownHolds, <1>1, PTL

\* What AlwaysForward says of one step.
ForwardFor(v) == RunnerPlace(v) <= RunnerPlace(v)' /\ RxPlace(v) <= RxPlace(v)'
MainForward == MainPlace <= MainPlace' /\ MainPlace' <= 6 * NumVms + 3

LEMMA PlaceTypes ==
  ASSUME TypeOK
  PROVE  /\ MainPlace \in Nat /\ MainPlace <= 6 * NumVms + 3
         /\ \A v \in Vms : RunnerPlace(v) \in Nat /\ RxPlace(v) \in Nat
<1>1. MainPlace \in Nat /\ MainPlace <= 6 * NumVms + 3
  <2>1. i \in Vms /\ NumVms \in Nat
    BY LifecycleAssumption DEF TypeOK
  <2>2. MainPlace \in {2 * i, 2 * i + 1, 2 * NumVms + i, 3 * NumVms, 3 * NumVms + 1, 3 * NumVms + 2 + i,
                       4 * NumVms + 2 + 2 * i, 4 * NumVms + 3 + 2 * i, 6 * NumVms + 3}
    BY DEF MainPlace
  <2>. HIDE DEF MainPlace
  <2>. QED
    BY <2>1, <2>2
<1>2. \A v \in Vms : RunnerPlace(v) \in Nat
  BY DEF TypeOK, RunnerPlace
<1>3. \A v \in Vms : RxPlace(v) \in Nat
  BY DEF TypeOK, RxPlace
<1>. QED
  BY Zenon, <1>1, <1>2, <1>3

LEMMA NextPlaceType == (TypeOK => MainPlace \in Nat)'
<1>1. TypeOK => MainPlace \in Nat
  BY PlaceTypes
<1>. QED
  BY <1>1, PTL

\* No thread goes back, and none takes more than a bounded number of steps.
THEOREM ThreadsGoForward == Spec => AlwaysForward
<1>1. ASSUME IInv, MainThread
      PROVE  /\ MainPlace < MainPlace' /\ MainPlace' <= 6 * NumVms + 3
             /\ \A v \in Vms : ForwardFor(v)
  <2>0. TypeOK /\ RunnerInv(i) /\ \A v \in Vms : RxInv(v)
    BY Zenon, <1>1 DEF IInv, TypeOK
  <2>. USE LifecycleAssumption, <2>0
  <2>. USE DEF TypeOK, RunnerInv, RxInv, Begun, Starting, MainPlace, RunnerPlace, RxPlace, ForwardFor, runnerVars, rxVars, Iterate, HasRxThread
  <2>1. CASE start_runner
    <3>1. MainPlace < MainPlace' /\ MainPlace' <= 6 * NumVms + 3
      BY <2>1 DEF start_runner
    <3>2. \A v \in Vms : ForwardFor(v)
      BY <2>1 DEF start_runner
    <3>. QED
      BY Zenon, <3>1, <3>2
  <2>2. CASE wait_initialized
    <3>1. MainPlace < MainPlace' /\ MainPlace' <= 6 * NumVms + 3
      BY <2>2 DEF wait_initialized
    <3>2. \A v \in Vms : ForwardFor(v)
      BY <2>2 DEF wait_initialized
    <3>. QED
      BY Zenon, <3>1, <3>2
  <2>3. CASE wait_connected
    <3>1. MainPlace < MainPlace' /\ MainPlace' <= 6 * NumVms + 3
      BY <2>3 DEF wait_connected
    <3>2. \A v \in Vms : ForwardFor(v)
      BY <2>3 DEF wait_connected
    <3>. QED
      BY Zenon, <3>1, <3>2
  <2>4. CASE start_threads
    <3>1. MainPlace < MainPlace' /\ MainPlace' <= 6 * NumVms + 3
      BY <2>4 DEF start_threads
    <3>2. \A v \in Vms : ForwardFor(v)
      BY <2>4 DEF start_threads
    <3>. QED
      BY Zenon, <3>1, <3>2
  <2>5. CASE leave_loop
    <3>1. MainPlace < MainPlace' /\ MainPlace' <= 6 * NumVms + 3
      BY <2>5 DEF leave_loop
    <3>2. \A v \in Vms : ForwardFor(v)
      BY <2>5 DEF leave_loop
    <3>. QED
      BY Zenon, <3>1, <3>2
  <2>6. CASE stop
    <3>1. MainPlace < MainPlace' /\ MainPlace' <= 6 * NumVms + 3
      BY <2>6 DEF stop
    <3>2. \A v \in Vms : ForwardFor(v)
      BY <2>6 DEF stop
    <3>. QED
      BY Zenon, <3>1, <3>2
  <2>7. CASE join_runner
    <3>1. MainPlace < MainPlace' /\ MainPlace' <= 6 * NumVms + 3
      BY <2>7 DEF join_runner
    <3>2. \A v \in Vms : ForwardFor(v)
      BY <2>7 DEF join_runner
    <3>. QED
      BY Zenon, <3>1, <3>2
  <2>8. CASE join_rx
    <3>1. MainPlace < MainPlace' /\ MainPlace' <= 6 * NumVms + 3
      BY <2>8 DEF join_rx
    <3>2. \A v \in Vms : ForwardFor(v)
      BY <2>8 DEF join_rx
    <3>. QED
      BY Zenon, <3>1, <3>2
  <2>. QED
    BY Zenon, <1>1, <2>1, <2>2, <2>3, <2>4, <2>5, <2>6, <2>7, <2>8 DEF MainThread
<1>2. ASSUME IInv, NEW w \in Vms, Runner(w) \/ attach(w) \/ disconnected(w)
      PROVE  RunnerPlace(w) < RunnerPlace(w)' /\ MainForward /\ \A v \in Vms : ForwardFor(v)
  <2>0. TypeOK
    BY Zenon, <1>2 DEF IInv
  <2>a. UNCHANGED <<main, i, rx>>
    BY Zenon, <1>2 DEF Runner, initilize, initialized, attach_gives_up, connected, run_exits, attach,
         disconnected, rxVars
  <2>b. MainForward
    <3>1. MainPlace' = MainPlace
      BY Zenon, <2>a DEF MainPlace
    <3>. QED
      BY <2>0, <3>1, PlaceTypes DEF MainForward
  <2>c. \E l \in {"initialize", "attach", "attached", "run", "exited"} : Goto(w, l)
    BY Zenon, <1>2 DEF Runner, initilize, initialized, attach_gives_up, connected, run_exits, attach,
         disconnected
  <2>d. RunnerPlace(w) < RunnerPlace(w)'
    <3>. USE <2>0 DEF TypeOK, RunnerPlace, Goto
    <3>1. CASE initilize(w)
      BY <3>1 DEF initilize
    <3>2. CASE initialized(w)
      BY <3>2 DEF initialized
    <3>3. CASE attach_gives_up(w)
      BY <3>3 DEF attach_gives_up
    <3>4. CASE connected(w)
      BY <3>4 DEF connected
    <3>5. CASE run_exits(w)
      BY <3>5 DEF run_exits
    <3>6. CASE attach(w)
      BY <3>6 DEF attach
    <3>7. CASE disconnected(w)
      BY <3>7 DEF disconnected
    <3>. QED
      BY Zenon, <1>2, <3>1, <3>2, <3>3, <3>4, <3>5, <3>6, <3>7 DEF Runner
  <2>e. ASSUME NEW v \in Vms PROVE ForwardFor(v)
    <3>1. RxPlace(v)' = RxPlace(v)
      BY Zenon, <2>a DEF RxPlace
    <3>2. CASE v = w
      <4>1. RunnerPlace(w) \in Nat /\ RunnerPlace(w)' \in Nat
        BY <2>0, <2>c DEF TypeOK, RunnerPlace, Goto
      <4>2. RunnerPlace(w) <= RunnerPlace(w)' /\ RxPlace(v) <= RxPlace(v)'
        BY <2>0, <2>d, <3>1, <4>1, PlaceTypes
      <4>. QED
        BY Zenon, <3>2, <4>2 DEF ForwardFor
    <3>3. CASE v # w
      <4>1. runner'[v] = runner[v]
        BY <2>0, <2>c, <3>3 DEF TypeOK, Goto
      <4>2. RunnerPlace(v)' = RunnerPlace(v)
        BY Zenon, <4>1 DEF RunnerPlace
      <4>. QED
        BY <2>0, <3>1, <4>2, PlaceTypes DEF ForwardFor
    <3>. QED
      BY Zenon, <3>2, <3>3
  <2>. QED
    BY Zenon, <2>b, <2>d, <2>e
<1>3. ASSUME IInv, NEW w \in Vms, rx_exits(w)
      PROVE  RxPlace(w) < RxPlace(w)' /\ MainForward /\ \A v \in Vms : ForwardFor(v)
  <2>0. TypeOK
    BY Zenon, <1>3 DEF IInv
  <2>1. MainPlace' = MainPlace
    BY <1>3 DEF rx_exits, MainPlace
  <2>2. MainForward
    BY <2>0, <2>1, PlaceTypes DEF MainForward
  <2>3. RxPlace(w) < RxPlace(w)'
    BY <1>3, <2>0 DEF TypeOK, rx_exits, RxPlace
  <2>4. \A v \in Vms : ForwardFor(v)
    BY <1>3, <2>0 DEF TypeOK, rx_exits, RxPlace, RunnerPlace, runnerVars, ForwardFor
  <2>. QED
    BY Zenon, <2>2, <2>3, <2>4
<1>4. ASSUME IInv, signal_handler \/ UNCHANGED vars
      PROVE  MainForward /\ \A v \in Vms : ForwardFor(v)
  <2>1. TypeOK /\ UNCHANGED <<main, i, runner, rx>>
    BY Zenon, <1>4 DEF IInv, signal_handler, vars, runnerVars, rxVars
  <2>2. MainPlace' = MainPlace /\ \A v \in Vms : RunnerPlace(v)' = RunnerPlace(v) /\ RxPlace(v)' = RxPlace(v)
    BY Zenon, <2>1 DEF MainPlace, RunnerPlace, RxPlace
  <2>. QED
    BY <2>1, <2>2, PlaceTypes DEF MainForward, ForwardFor
<1>5. ASSUME IInv, [Next]_vars
      PROVE  MainForward /\ \A v \in Vms : ForwardFor(v)
  <2>1. CASE MainThread
    <3>1. MainPlace \in Nat /\ MainPlace' \in Nat
      BY Zenon, <1>5, PlaceTypes, NextPlaceType, NextInv DEF IInv
    <3>2. MainForward
      BY <1>1, <1>5, <2>1, <3>1 DEF MainForward
    <3>. QED
      BY Zenon, <1>1, <1>5, <2>1, <3>2
  <2>. QED
    BY Zenon, <1>2, <1>3, <1>4, <1>5, <2>1 DEF Next
<1>6. IInv /\ [Next]_vars =>
        /\ MainThread => MainPlace < MainPlace'
        /\ \A v \in Vms : /\ Runner(v) => RunnerPlace(v) < RunnerPlace(v)'
                          /\ rx_exits(v) => RxPlace(v) < RxPlace(v)'
        /\ MainPlace <= MainPlace' /\ MainPlace' <= 6 * NumVms + 3
        /\ \A v \in Vms : RunnerPlace(v) <= RunnerPlace(v)' /\ RxPlace(v) <= RxPlace(v)'
  BY Zenon, <1>1, <1>2, <1>3, <1>5 DEF MainForward, ForwardFor
<1>. QED
  BY <1>6, InvariantHolds, PTL DEF Spec, AlwaysForward
===============================================================================
