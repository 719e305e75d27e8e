------------------------------ MODULE Lifecycle ------------------------------
(***************************************************************************)
(* Start-up and shutdown of vmux: the main thread (main.cpp, _main), one   *)
(* VmuxRunner per VM (runner.hpp) and the RxThreads (rx-thread.hpp).       *)
(***************************************************************************)
EXTENDS Integers, FiniteSets

CONSTANTS
  NumVms,   \* number of devices, sockets and runners
  Polled    \* VMs whose device is not vDPDK

ASSUME LifecycleAssumption ==
  /\ NumVms \in Nat \ {0}
  /\ Polled \subseteq 0 .. NumVms - 1

Vms == 0 .. NumVms - 1

\* VmuxRunner::State
NOT_STARTED == 0
STARTED == 1
INITILIZED == 2
CONNECTED == 3

VARIABLES
  main,     \* where main is
  i,        \* its loop variable
  quit,     \* set by the signal handler
  result,   \* what _main returns: "Ok" or "Err"
  state,    \* VmuxRunner::state
  running,  \* VmuxRunner::running
  runner,   \* where each runner thread is
  failed,   \* VmuxRunner::termination_error is set
  useDpdk,  \* useDpdk && !pollInMainThread: pollingThreads has an entry for every VM
  polling,  \* RxThread::running
  rx        \* where each RxThread is

runnerVars == <<state, running, runner, failed>>
rxVars == <<useDpdk, polling, rx>>
vars == <<main, i, quit, result, runnerVars, rxVars>>

TypeOK ==
  /\ main \in {"start", "init", "connect", "threads", "loop", "stop", "join", "join_rx",
               "returned", "crashed"}
  /\ i \in Vms
  /\ quit \in BOOLEAN
  /\ result \in {"Ok", "Err"}
  /\ state \in [Vms -> NOT_STARTED .. CONNECTED]
  /\ running \in [Vms -> BOOLEAN]
  /\ runner \in [Vms -> {"none", "begin", "initialize", "attach", "attached", "run", "exited"}]
  /\ failed \in [Vms -> BOOLEAN]
  /\ useDpdk \in BOOLEAN
  /\ polling \in [Vms -> BOOLEAN]
  /\ rx \in [Vms -> {"none", "poll", "exited"}]

Init ==
  /\ main = "start"
  /\ i = 0
  /\ quit = FALSE
  /\ result = "Ok"
  /\ state = [v \in Vms |-> NOT_STARTED]
  /\ running = [v \in Vms |-> FALSE]
  /\ runner = [v \in Vms |-> "none"]
  /\ failed = [v \in Vms |-> FALSE]
  /\ useDpdk \in BOOLEAN
  /\ polling = [v \in Vms |-> FALSE]
  /\ rx = [v \in Vms |-> "none"]

-----------------------------------------------------------------------------
(* The main thread                                                         *)

\* Defect: one iteration too many.
Iterate_past_end(here, next) ==
  IF i < NumVms THEN main' = here /\ i' = i + 1
                ELSE main' = next /\ i' = 0

\* Advance the loop at "here"; "next" is what follows the loop.
Iterate(here, next) ==
  IF i + 1 < NumVms THEN main' = here /\ i' = i + 1
                    ELSE main' = next /\ i' = 0

\* pollingThreads[v] is not null.
HasRxThread(v) == useDpdk /\ v \in Polled

start_runner ==
  /\ main = "start"
  /\ runner' = [runner EXCEPT ![i] = "begin"]
  /\ main' = "init"
  /\ UNCHANGED <<i, quit, result, state, running, failed, rxVars>>

\* while (runner[i]->state != 2);
wait_initialized ==
  /\ main = "init"
  /\ state[i] = INITILIZED
  /\ Iterate("start", "connect")
  /\ UNCHANGED <<quit, result, runnerVars, rxVars>>

wait_connected ==
  /\ main = "connect"
  /\ state[i] = CONNECTED \/ quit
  /\ Iterate("connect", "threads")
  /\ UNCHANGED <<quit, result, runnerVars, rxVars>>

start_threads ==
  /\ main = "threads"
  /\ polling' = [v \in Vms |-> HasRxThread(v)]
  /\ rx' = [v \in Vms |-> IF HasRxThread(v) THEN "poll" ELSE "none"]
  /\ main' = "loop"
  /\ UNCHANGED <<i, quit, result, runnerVars, useDpdk>>

leave_loop ==
  /\ main = "loop"
  /\ quit
  /\ main' = "stop"
  /\ UNCHANGED <<i, quit, result, runnerVars, rxVars>>

\* Defect: the runners are stopped, the RxThreads are not.
stop_runner_only ==
  /\ main = "stop"
  /\ running' = [running EXCEPT ![i] = FALSE]
  /\ Iterate("stop", "join")
  /\ UNCHANGED <<quit, result, state, runner, failed, rxVars>>

\* Otherwise the vector pollingThreads is empty and pollingThreads[i] reads
\* beyond its end.
stop ==
  /\ main = "stop"
  /\ running' = [running EXCEPT ![i] = FALSE]
  /\ IF useDpdk
       THEN /\ polling' = [polling EXCEPT ![i] = FALSE]
            /\ Iterate("stop", "join")
       ELSE main' = "crashed" /\ UNCHANGED <<i, polling>>
  /\ UNCHANGED <<quit, result, state, runner, failed, useDpdk, rx>>

\* Defect: the error of an earlier thread is overwritten.
join_runner_last ==
  /\ main = "join"
  /\ runner[i] = "exited"
  /\ result' = IF failed[i] THEN "Err" ELSE "Ok"
  /\ main' = "join_rx"
  /\ UNCHANGED <<i, quit, runnerVars, rxVars>>

join_runner ==
  /\ main = "join"
  /\ runner[i] = "exited"
  /\ result' = IF failed[i] THEN "Err" ELSE result
  /\ main' = "join_rx"
  /\ UNCHANGED <<i, quit, runnerVars, rxVars>>

\* Defect: the RxThread is not joined.
join_rx_not ==
  /\ main = "join_rx"
  /\ Iterate("join", "returned")
  /\ UNCHANGED <<quit, result, runnerVars, rxVars>>

\* RxThread::termination_error is never set.
join_rx ==
  /\ main = "join_rx"
  /\ HasRxThread(i) => rx[i] = "exited"
  /\ Iterate("join", "returned")
  /\ UNCHANGED <<quit, result, runnerVars, rxVars>>

signal_handler ==
  /\ main \notin {"returned", "crashed"}
  /\ ~quit
  /\ quit' = TRUE
  /\ UNCHANGED <<main, i, result, runnerVars, rxVars>>

-----------------------------------------------------------------------------
(* VmuxRunner v                                                            *)

Alive == main \notin {"returned", "crashed"}

Goto(v, l) == runner' = [runner EXCEPT ![v] = l]

initilize(v) ==
  /\ Alive /\ runner[v] = "begin"
  /\ state' = [state EXCEPT ![v] = STARTED]
  /\ running' = [running EXCEPT ![v] = TRUE]
  /\ Goto(v, "initialize")
  /\ UNCHANGED <<main, i, quit, result, failed, rxVars>>

initialized(v) ==
  /\ Alive /\ runner[v] = "initialize"
  /\ state' = [state EXCEPT ![v] = INITILIZED]
  /\ Goto(v, "attach")
  /\ UNCHANGED <<main, i, quit, result, running, failed, rxVars>>

\* vfu_attach_ctx succeeds.
attach(v) ==
  /\ Alive /\ runner[v] = "attach"
  /\ Goto(v, "attached")
  /\ UNCHANGED <<main, i, quit, result, state, running, failed, rxVars>>

\* vfu_attach_ctx fails, and the runner has been told to stop.
attach_gives_up(v) ==
  /\ Alive /\ runner[v] = "attach"
  /\ ~running[v]
  /\ Goto(v, "attached")
  /\ UNCHANGED <<main, i, quit, result, state, running, failed, rxVars>>

connected(v) ==
  /\ Alive /\ runner[v] = "attached"
  /\ state' = [state EXCEPT ![v] = CONNECTED]
  /\ Goto(v, "run")
  /\ UNCHANGED <<main, i, quit, result, running, failed, rxVars>>

\* vfu_run_ctx finds the VM disconnected: set_failed raises SIGTERM.
disconnected(v) ==
  /\ Alive /\ runner[v] = "run" /\ running[v]
  /\ failed' = [failed EXCEPT ![v] = TRUE]
  /\ quit' = TRUE
  /\ Goto(v, "exited")
  /\ UNCHANGED <<main, i, result, state, running, rxVars>>

run_exits(v) ==
  /\ Alive /\ runner[v] = "run" /\ ~running[v]
  /\ Goto(v, "exited")
  /\ UNCHANGED <<main, i, quit, result, state, running, failed, rxVars>>

\* RxThread v: a poll more, or none.
rx_exits(v) ==
  /\ rx[v] = "poll" /\ ~polling[v]
  /\ rx' = [rx EXCEPT ![v] = "exited"]
  /\ UNCHANGED <<main, i, quit, result, runnerVars, useDpdk, polling>>

-----------------------------------------------------------------------------
MainThread ==
  \/ start_runner \/ wait_initialized \/ wait_connected \/ start_threads
  \/ leave_loop \/ stop \/ join_runner \/ join_rx

Runner(v) ==
  \/ initilize(v) \/ initialized(v) \/ attach_gives_up(v) \/ connected(v) \/ run_exits(v)

Next ==
  \/ MainThread
  \/ signal_handler
  \/ \E v \in Vms : Runner(v) \/ attach(v) \/ disconnected(v) \/ rx_exits(v)

\* The scheduler runs every thread; nobody has to connect, disconnect or
\* send a signal.
Spec ==
  /\ Init /\ [][Next]_vars
  /\ WF_vars(MainThread)
  /\ \A v \in Vms : WF_vars(Runner(v)) /\ WF_vars(rx_exits(v))

-----------------------------------------------------------------------------
(* Properties                                                              *)

\* main waits for state 2 of a runner that has gone on to state 3.
InitializationMissed == main = "init" /\ state[i] = CONNECTED

\* A signal, or a VM that disconnects, ends vmux in order: "handle signals
\* gracefully to call destructors" (main.cpp:443).  There are two exceptions: a
\* VM connected before main looked at the state of its runner (main.cpp:350),
\* or there are no RxThreads and the loop that stops them has none to look at
\* (main.cpp:417).
SignalTerminates ==
  quit ~> \/ main = "returned"
          \/ InitializationMissed
          \/ main = "crashed" /\ ~useDpdk

\* Threads use the devices only while these are usable: no device is polled
\* before its VM has connected, unless vmux is quitting, and when _main
\* returns, and the devices are destroyed, no thread is left.
DevicesUsable ==
  \A v \in Vms :
    /\ rx[v] = "poll" => state[v] = CONNECTED \/ quit
    /\ main = "returned" => runner[v] = "exited" /\ rx[v] \in {"none", "exited"}

\* The error of a runner reaches the exit status.
FailureReported ==
  main = "returned" => (result = "Err" <=> \E v \in Vms : failed[v])

-----------------------------------------------------------------------------
(* The inductive invariant behind DevicesUsable and FailureReported.       *)

Starting == main \in {"start", "init"}
Joining == main \in {"join", "join_rx"}

\* main has started the runner of v.
Begun(v) == Starting => v < i \/ (v = i /\ main = "init")

\* main has passed v in the loop that waits for connections.
Awaited(v) ==
  /\ ~Starting
  /\ main = "connect" => v < i

\* main has joined the runner of v, and its RxThread.
Joined(v) == main = "returned" \/ (Joining /\ (v < i \/ (v = i /\ main = "join_rx")))
JoinedRx(v) == main = "returned" \/ (Joining /\ v < i)

\* The runner's state tells how far the runner is; its thread exists from the
\* call of start on, and a runner that is running has not been waited for.
RunnerInv(v) ==
  /\ runner[v] = "none" <=> ~Begun(v)
  /\ state[v] = CONNECTED <=> runner[v] \in {"run", "exited"}
  /\ failed[v] => runner[v] = "exited" /\ quit
  /\ Joined(v) => runner[v] = "exited"

\* RxThreads exist once every VM was waited for.
RxInv(v) ==
  /\ rx[v] # "none" => HasRxThread(v) /\ main \notin {"start", "init", "connect", "threads"}
  /\ Awaited(v) => state[v] = CONNECTED \/ quit
  /\ JoinedRx(v) => rx[v] # "poll"

\* The result is that of the runners joined so far.
ResultInv == result = "Err" <=> \E v \in Vms : Joined(v) /\ failed[v]

IInv == TypeOK /\ (\A v \in Vms : RunnerInv(v) /\ RxInv(v)) /\ ResultInv

-----------------------------------------------------------------------------
(* Why a signal ends vmux                                                  *)

\* Where each thread is, as a number.
MainPlace ==
  CASE main = "start" -> 2 * i
    [] main = "init" -> 2 * i + 1
    [] main = "connect" -> 2 * NumVms + i
    [] main = "threads" -> 3 * NumVms
    [] main = "loop" -> 3 * NumVms + 1
    [] main = "stop" -> 3 * NumVms + 2 + i
    [] main = "join" -> 4 * NumVms + 2 + 2 * i
    [] main = "join_rx" -> 4 * NumVms + 3 + 2 * i
    [] OTHER -> 6 * NumVms + 3
RunnerPlace(v) ==
  CASE runner[v] = "none" -> 0
    [] runner[v] = "begin" -> 1
    [] runner[v] = "initialize" -> 2
    [] runner[v] = "attach" -> 3
    [] runner[v] = "attached" -> 4
    [] runner[v] = "run" -> 5
    [] OTHER -> 6
RxPlace(v) == CASE rx[v] = "none" -> 0 [] rx[v] = "poll" -> 1 [] OTHER -> 2

\* Whether a thread has a step to take.
MainGoes ==
  \/ main \in {"start", "threads", "stop"}
  \/ main = "init" /\ state[i] = INITILIZED
  \/ main = "connect" /\ (state[i] = CONNECTED \/ quit)
  \/ main = "loop" /\ quit
  \/ main = "join" /\ runner[i] = "exited"
  \/ main = "join_rx" /\ (HasRxThread(i) => rx[i] = "exited")
RunnerGoes(v) ==
  \/ runner[v] \in {"begin", "initialize", "attached"}
  \/ runner[v] \in {"attach", "run"} /\ ~running[v]
RxGoes(v) == rx[v] = "poll" /\ ~polling[v]

\* While vmux is quitting, main goes on, or it waits for a thread that does: the
\* runner whose start or end it awaits, or the RxThread it joins.  The only
\* wait in vain is the one for an initialization that was missed.
NeverStuck ==
  quit /\ Alive =>
    \/ MainGoes
    \/ main \in {"init", "join"} /\ RunnerGoes(i)
    \/ main = "join_rx" /\ RxGoes(i)
    \/ InitializationMissed

\* No thread ever goes back, and a step of a thread takes it further, through a
\* bounded number of places: with NeverStuck, this is why SignalTerminates holds.
AlwaysForward ==
  [][/\ MainThread => MainPlace < MainPlace'
     /\ \A v \in Vms : /\ Runner(v) => RunnerPlace(v) < RunnerPlace(v)'
                       /\ rx_exits(v) => RxPlace(v) < RxPlace(v)'
     /\ MainPlace <= MainPlace' /\ MainPlace' <= 6 * NumVms + 3
     /\ \A v \in Vms : RunnerPlace(v) <= RunnerPlace(v)' /\ RxPlace(v) <= RxPlace(v)']_vars

\* main has seen the runner of v initialized; it has stopped the threads of v.
Initialized(v) == Starting => v < i
Stopped(v) == main = "returned" \/ Joining \/ (main = "stop" /\ v < i)

\* A runner that was told to stop is past the point where it sets running.
ShutdownInv(v) ==
  /\ state[v] = NOT_STARTED <=> runner[v] \in {"none", "begin"}
  /\ state[v] = STARTED <=> runner[v] = "initialize"
  /\ Initialized(v) => runner[v] \notin {"none", "begin", "initialize"}
  /\ Stopped(v) => ~running[v] /\ ~polling[v]
  /\ HasRxThread(v) => rx[v] # "none" \/ main \in {"start", "init", "connect", "threads"}
SInv ==
  /\ main \in {"threads", "loop"} => i = 0
  /\ \A v \in Vms : ShutdownInv(v)
===============================================================================
