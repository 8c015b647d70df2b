---------------------------- MODULE CoverageNode ----------------------------
(***************************************************************************)
(* The coverage node (create3_coverage_node.cpp) and its dock and undock   *)
(* clients (dock-behavior.cpp, undock-behavior.cpp). One executor thread   *)
(* runs every callback; each accepted goal has a detached thread of its    *)
(* own, its run. m_is_running admits one goal at a time.                   *)
(*                                                                         *)
(* The dock and undock servers are external: what Docking says of them     *)
(* that a client can tell.                                                 *)
(***************************************************************************)
EXTENDS CoverageStateMachine

CONSTANTS
  Goals,     \* coverage goals that clients may send, each at most once
  NoRequest  \* no dock or undock goal

\* The dock and undock goals that runs may send: each run at most one of each.
Requests == Goals \X DockingBehaviors
RequestOf(g, kind) == <<g, kind>>
RunOf(r) == r[1]
KindOf(r) == r[2]

ASSUME RequestAssumption == NoRequest \notin Requests

VARIABLES
  is_running,   \* m_is_running
  goal_status,  \* of each coverage goal
  run,          \* where the run of each goal is
  outcome,      \* how a run that is past its loop will end its goal
  sensors,      \* the last dock and kidnap messages
  data,         \* what each run read of them at the top of its loop
  machine,      \* the state machine object of each run
  elapsed,      \* which of the run's durations have elapsed
  client,       \* the dock or undock behavior object of each run
  request,      \* each dock or undock goal, at its server
  answered,     \* the answers to it that the executor has taken
  callback,     \* the answer whose callback the executor is in the middle of
  node_up,      \* no exception has left a thread, no write has hit stray memory
  \* history
  late,         \* executions of the run since it was canceled or kidnapped
  failures      \* drives of the run that failed since one last succeeded

goalVars == <<is_running, goal_status, run, outcome>>
dockingVars == <<client, request, answered, callback>>
vars == <<goalVars, sensors, data, machine, elapsed, dockingVars, node_up, late, failures>>

Sensors == [is_docked : BOOLEAN, dock_visible : BOOLEAN, is_kidnapped : BOOLEAN]
Calm == [is_docked |-> FALSE, dock_visible |-> FALSE, is_kidnapped |-> FALSE]

\* The members of a DockBehavior or an UndockBehavior. `unknown` is a result that is
\* not assigned yet.
Clients == [ sent : BOOLEAN, handle_ready : BOOLEAN, handle : Requests \cup {NoRequest},
             result_ready : BOOLEAN, result : {"unknown", "succeeded", "failed"} ]
NewClient == [ sent |-> FALSE, handle_ready |-> FALSE, handle |-> NoRequest,
               result_ready |-> FALSE, result |-> "unknown" ]

AtServer == {"running", "canceling"}
ResultsOfRequests == {"succeeded", "failed"}
RequestStates == {"unsent", "sent", "rejected"} \cup AtServer \cup ResultsOfRequests

Answers == Requests \X {"response", "result"}
NoAnswer == <<NoRequest, "none">>

\* A run holds m_is_running from its acceptance until it leaves its loop for good.
HoldingStates == {"setup", "loop", "check", "execute", "end"}
RunStates == {"none", "cleanup", "finish", "over"} \cup HoldingStates
Holding(g) == run[g] \in HoldingStates

TypeOK ==
  /\ is_running \in BOOLEAN
  /\ goal_status \in [Goals -> {"idle", "executing", "canceling", "rejected", "succeeded",
                                "aborted", "canceled"}]
  /\ run \in [Goals -> RunStates]
  /\ outcome \in [Goals -> {"none", "succeeded", "aborted", "canceled"}]
  /\ sensors \in Sensors /\ data \in [Goals -> Sensors]
  /\ machine \in [Goals -> Machines]
  /\ elapsed \in [Goals -> Clocks]
  /\ client \in [Goals -> Clients]
  /\ request \in [Requests -> RequestStates]
  /\ answered \in [Requests -> {"none", "response", "result"}]
  /\ callback \in {NoAnswer} \cup Answers
  /\ node_up \in BOOLEAN
  /\ late \in [Goals -> Nat] /\ failures \in [Goals -> Nat]

NothingElapsed == [explore |-> FALSE, max_runtime |-> FALSE, spiral |-> FALSE]

Init ==
  /\ is_running = FALSE
  /\ goal_status = [g \in Goals |-> "idle"]
  /\ run = [g \in Goals |-> "none"]
  /\ outcome = [g \in Goals |-> "none"]
  /\ sensors = Calm
  /\ data = [g \in Goals |-> Calm]
  /\ machine = [g \in Goals |-> NewMachine]
  /\ elapsed = [g \in Goals |-> NothingElapsed]
  /\ client = [g \in Goals |-> NewClient]
  /\ request = [r \in Requests |-> "unsent"]
  /\ answered = [r \in Requests |-> "none"]
  /\ callback = NoAnswer
  /\ node_up = TRUE
  /\ late = [g \in Goals |-> 0]
  /\ failures = [g \in Goals |-> 0]
-----------------------------------------------------------------------------
(* The executor *)

ExecutorFree == node_up /\ callback = NoAnswer

\* handle_goal lets no goal through while a run holds m_is_running, while the robot is
\* kidnapped, or before the rest of the robot was discovered (ready_to_start).
RejectGoal(g) ==
  /\ ExecutorFree
  /\ goal_status[g] = "idle"
  /\ goal_status' = [goal_status EXCEPT ![g] = "rejected"]
  /\ UNCHANGED <<is_running, run, outcome, sensors, data, machine, elapsed, dockingVars,
                 node_up, late, failures>>

\* Mutant: a goal is accepted whether or not a run is under way.
AcceptAnyGoal(g) ==
  /\ ExecutorFree
  /\ goal_status[g] = "idle"
  /\ ~sensors.is_kidnapped
  /\ is_running' = TRUE
  /\ goal_status' = [goal_status EXCEPT ![g] = "executing"]
  /\ run' = [run EXCEPT ![g] = "setup"]
  /\ UNCHANGED <<outcome, sensors, data, machine, elapsed, dockingVars, node_up, late,
                 failures>>

\* handle_goal and handle_accepted, which starts the run.
AcceptGoal(g) ==
  /\ ExecutorFree
  /\ goal_status[g] = "idle"
  /\ ~sensors.is_kidnapped
  /\ ~is_running
  /\ is_running' = TRUE
  /\ goal_status' = [goal_status EXCEPT ![g] = "executing"]
  /\ run' = [run EXCEPT ![g] = "setup"]
  /\ UNCHANGED <<outcome, sensors, data, machine, elapsed, dockingVars, node_up, late,
                 failures>>

HandleCancel(g) ==
  /\ ExecutorFree
  /\ goal_status[g] = "executing"
  /\ goal_status' = [goal_status EXCEPT ![g] = "canceling"]
  /\ UNCHANGED <<is_running, run, outcome, sensors, data, machine, elapsed, dockingVars,
                 node_up, late, failures>>

DockCallback ==
  /\ ExecutorFree
  /\ \E docked, visible \in BOOLEAN :
       sensors' = [sensors EXCEPT !.is_docked = docked, !.dock_visible = visible]
  /\ UNCHANGED <<goalVars, data, machine, elapsed, dockingVars, node_up, late, failures>>

KidnapCallback ==
  /\ ExecutorFree
  /\ sensors' = [sensors EXCEPT !.is_kidnapped = ~@]
  /\ late' = [g \in Goals |-> IF goal_status[g] = "canceling" THEN late[g] ELSE 0]
  /\ UNCHANGED <<goalVars, data, machine, elapsed, dockingVars, node_up, failures>>

\* The behavior object that sent r, which the lambdas of r capture, still exists.
Alive(r) == machine[RunOf(r)].behavior = KindOf(r)

\* A callback of r assigns a value to a member of the object it captured. If that object
\* is gone the write hits nothing of use, or the behavior object that was allocated in its
\* place, or something that brings the node down.
Assign(r, member, value) ==
  \/ /\ Alive(r)
     /\ client' = [client EXCEPT ![RunOf(r)][member] = value]
     /\ UNCHANGED node_up
  \/ /\ ~Alive(r)
     /\ UNCHANGED client
     /\ node_up' \in {node_up, FALSE}
  \/ /\ ~Alive(r)
     /\ \E g \in Goals : /\ machine[g].behavior \in DockingBehaviors
                         /\ client' = [client EXCEPT ![g][member] = value]
     /\ UNCHANGED node_up

\* goal_response_callback says that the handle is there before it assigns it.
ResponseArrives(r) ==
  /\ ExecutorFree
  /\ request[r] \notin {"unsent", "sent"}
  /\ answered[r] = "none"
  /\ callback' = <<r, "response">>
  /\ Assign(r, "handle_ready", TRUE)
  /\ UNCHANGED <<goalVars, sensors, data, machine, elapsed, request, answered, late, failures>>

ResponseAssigned(r) ==
  /\ node_up
  /\ callback = <<r, "response">>
  /\ callback' = NoAnswer
  /\ answered' = [answered EXCEPT ![r] = "response"]
  /\ Assign(r, "handle", IF request[r] = "rejected" THEN NoRequest ELSE r)
  /\ UNCHANGED <<goalVars, sensors, data, machine, elapsed, request, late, failures>>

\* result_callback says that the result is there before it assigns it.
ResultArrives(r) ==
  /\ ExecutorFree
  /\ request[r] \in ResultsOfRequests
  /\ answered[r] = "response"
  /\ callback' = <<r, "result">>
  /\ Assign(r, "result_ready", TRUE)
  /\ UNCHANGED <<goalVars, sensors, data, machine, elapsed, request, answered, late, failures>>

ResultAssigned(r) ==
  /\ node_up
  /\ callback = <<r, "result">>
  /\ callback' = NoAnswer
  /\ answered' = [answered EXCEPT ![r] = "result"]
  /\ Assign(r, "result", request[r])
  /\ UNCHANGED <<goalVars, sensors, data, machine, elapsed, request, late, failures>>

Executor ==
  \/ \E g \in Goals : RejectGoal(g) \/ AcceptGoal(g) \/ HandleCancel(g)
  \/ DockCallback
  \/ KidnapCallback
  \/ \E r \in Requests : \/ ResponseArrives(r) \/ ResponseAssigned(r)
                         \/ ResultArrives(r) \/ ResultAssigned(r)
-----------------------------------------------------------------------------
(* The run of a goal *)

\* reflexes_setup asks the motion control node for its reflexes, may have to enable them,
\* and throws if it cannot.
SetUp(g) ==
  /\ node_up
  /\ run[g] = "setup"
  /\ \/ /\ run' = [run EXCEPT ![g] = "loop"]
        /\ UNCHANGED node_up
     \/ /\ node_up' = FALSE
        /\ UNCHANGED run
  /\ UNCHANGED <<is_running, goal_status, outcome, sensors, data, machine, elapsed,
                 dockingVars, late, failures>>

ReadSensors(g) ==
  /\ node_up
  /\ run[g] = "loop"
  /\ run' = [run EXCEPT ![g] = "check"]
  /\ data' = [data EXCEPT ![g] = sensors]
  /\ UNCHANGED <<is_running, goal_status, outcome, sensors, machine, elapsed, dockingVars,
                 node_up, late, failures>>

\* The run leaves its loop: m_is_running is cleared first, the rest is still to do.
Leave(g, how, next) ==
  /\ is_running' = FALSE
  /\ outcome' = [outcome EXCEPT ![g] = how]
  /\ run' = [run EXCEPT ![g] = next]

\* Mutant: a requested cancel is not looked for.
CheckStopDeaf(g) ==
  /\ node_up
  /\ run[g] = "check"
  /\ \/ data[g].is_kidnapped /\ Leave(g, "aborted", "cleanup")
     \/ /\ ~data[g].is_kidnapped
        /\ run' = [run EXCEPT ![g] = "execute"]
        /\ UNCHANGED <<is_running, outcome>>
  /\ UNCHANGED <<goal_status, sensors, data, machine, elapsed, dockingVars, node_up, late,
                 failures>>

\* A requested cancel first, then a kidnapped robot.
CheckStop(g) ==
  /\ node_up
  /\ run[g] = "check"
  /\ \/ /\ goal_status[g] = "canceling"
        /\ Leave(g, "canceled", "cleanup")
     \/ /\ goal_status[g] # "canceling"
        /\ data[g].is_kidnapped
        /\ Leave(g, "aborted", "cleanup")
     \/ /\ goal_status[g] # "canceling"
        /\ ~data[g].is_kidnapped
        /\ run' = [run EXCEPT ![g] = "execute"]
        /\ UNCHANGED <<is_running, outcome>>
  /\ UNCHANGED <<goal_status, sensors, data, machine, elapsed, dockingVars, node_up, late,
                 failures>>

\* What DockBehavior and UndockBehavior return once their goal was sent and the server is
\* there.
RefusedAnswer(c) == c.handle_ready /\ c.handle = NoRequest
ClientState(c) ==
  IF RefusedAnswer(c) THEN "failure"
  ELSE IF c.result_ready THEN (IF c.result = "succeeded" THEN "success" ELSE "failure")
  ELSE "running"

\* One execution of a docking behavior whose object is c, in state s.
ExecuteDocking(g, kind, c, s) ==
  \/ \* already where the request would bring it
     /\ ~c.sent
     /\ data[g].is_docked = (kind = "dock")
     /\ s = "failure"
     /\ client' = [client EXCEPT ![g] = c]
     /\ UNCHANGED request
  \/ \* the server is not there
     /\ c.sent \/ data[g].is_docked # (kind = "dock")
     /\ s = "running"
     /\ client' = [client EXCEPT ![g] = c]
     /\ UNCHANGED request
  \/ /\ ~c.sent
     /\ data[g].is_docked # (kind = "dock")
     /\ s = "running"
     /\ client' = [client EXCEPT ![g] = [c EXCEPT !.sent = TRUE]]
     /\ request' = [request EXCEPT ![RequestOf(g, kind)] = "sent"]
  \/ /\ c.sent
     /\ s = ClientState(c)
     /\ client' = [client EXCEPT ![g] = c]
     /\ UNCHANGED request

\* One execution of the other behaviors: the sensors and the distances decide.
ExecuteMotion(g, s) ==
  /\ s \in States
  /\ client' = [client EXCEPT ![g] = NewClient]
  /\ UNCHANGED request

Stopping(g) == goal_status[g] = "canceling" \/ sensors.is_kidnapped

\* The drives that failed in a row when the run looks at its machine m next.
FailuresAfter(g, m) ==
  IF m.behavior # "drive_straight" \/ m.state = "running" THEN failures[g]
  ELSE IF m.state = "success" THEN 0
  ELSE IF m.undocking THEN failures[g] ELSE failures[g] + 1

\* state_machine->execute: pick the behavior, and execute it unless the run is over.
Execute(g) ==
  /\ node_up
  /\ run[g] = "execute"
  /\ LET m == machine[g]
         picked == Select(m, data[g], elapsed[g])
         fresh == picked.behavior # m.behavior
         object == IF fresh THEN NewClient ELSE client[g]
     IN  /\ failures' = [failures EXCEPT ![g] = FailuresAfter(g, m)]
         /\ elapsed' = [elapsed EXCEPT ![g].spiral = @ /\ ~(fresh /\ picked.behavior = "spiral")]
         /\ \/ /\ picked.output # "running"
               /\ machine' = [machine EXCEPT ![g] = picked]
               /\ run' = [run EXCEPT ![g] = "end"]
               /\ UNCHANGED <<client, request, late>>
            \/ /\ picked.output = "running"
               /\ \E s \in States :
                    /\ machine' = [machine EXCEPT ![g] = [picked EXCEPT !.state = s]]
                    /\ \/ /\ picked.behavior \in DockingBehaviors
                          /\ ExecuteDocking(g, picked.behavior, object, s)
                       \/ /\ picked.behavior \notin DockingBehaviors
                          /\ ExecuteMotion(g, s)
               /\ run' = [run EXCEPT ![g] = "loop"]
               /\ late' = [late EXCEPT ![g] = IF Stopping(g) THEN @ + 1 ELSE 0]
  /\ data' = [data EXCEPT ![g] = Calm]
  /\ UNCHANGED <<is_running, goal_status, outcome, sensors, answered, callback, node_up>>

\* Mutant: the goal ends in the state of the machine.
EndRunAsState(g) ==
  /\ node_up
  /\ run[g] = "end"
  /\ Leave(g, machine[g].output, "finish")
  /\ UNCHANGED <<goal_status, sensors, data, machine, elapsed, dockingVars, node_up, late,
                 failures>>

EndRun(g) ==
  /\ node_up
  /\ run[g] = "end"
  /\ Leave(g, IF machine[g].output = "success" THEN "succeeded" ELSE "aborted", "finish")
  /\ UNCHANGED <<goal_status, sensors, data, machine, elapsed, dockingVars, node_up, late,
                 failures>>

\* cleanup: a cancel request goes to the server of a goal whose handle is there and whose
\* result is not.
CancelRequest(g) ==
  LET c == client[g] IN
  request' = IF /\ machine[g].behavior \in DockingBehaviors
                /\ ~c.result_ready /\ c.handle_ready /\ c.handle # NoRequest
                /\ request[c.handle] = "running"
               THEN [request EXCEPT ![c.handle] = "canceling"] ELSE request

\* The behavior is destroyed; nothing of the state machine is used any more.
Forget(g) ==
  /\ machine' = [machine EXCEPT ![g] = NewMachine]
  /\ client' = [client EXCEPT ![g] = NewClient]
  /\ data' = [data EXCEPT ![g] = Calm]
  /\ elapsed' = [elapsed EXCEPT ![g] = NothingElapsed]
  /\ late' = [late EXCEPT ![g] = 0]
  /\ failures' = [failures EXCEPT ![g] = 0]

\* state_machine->cancel()
CleanUp(g) ==
  /\ node_up
  /\ run[g] = "cleanup"
  /\ run' = [run EXCEPT ![g] = "finish"]
  /\ CancelRequest(g)
  /\ Forget(g)
  /\ UNCHANGED <<is_running, goal_status, outcome, sensors, answered, callback, node_up>>

\* Mutant: m_is_running is cleared when the goal has ended.
FinishReleases(g) ==
  /\ node_up
  /\ run[g] = "finish"
  /\ run' = [run EXCEPT ![g] = "over"]
  /\ is_running' = FALSE
  /\ goal_status' = [goal_status EXCEPT ![g] = outcome[g]]
  /\ CancelRequest(g)
  /\ Forget(g)
  /\ UNCHANGED <<outcome, sensors, answered, callback, node_up>>

\* Mutant: the run of a canceled goal returns without ending the goal.
FinishUntold(g) ==
  /\ node_up
  /\ run[g] = "finish"
  /\ run' = [run EXCEPT ![g] = "over"]
  /\ goal_status' = [goal_status EXCEPT ![g] = IF outcome[g] = "canceled" THEN @ ELSE outcome[g]]
  /\ CancelRequest(g)
  /\ Forget(g)
  /\ UNCHANGED <<is_running, outcome, sensors, answered, callback, node_up>>

\* The goal ends, and with the thread its state machine, whose destructor cancels too.
Finish(g) ==
  /\ node_up
  /\ run[g] = "finish"
  /\ run' = [run EXCEPT ![g] = "over"]
  /\ goal_status' = [goal_status EXCEPT ![g] = outcome[g]]
  /\ CancelRequest(g)
  /\ Forget(g)
  /\ UNCHANGED <<is_running, outcome, sensors, answered, callback, node_up>>

Run(g) == \/ SetUp(g) \/ ReadSensors(g) \/ CheckStop(g) \/ Execute(g)
          \/ EndRun(g) \/ CleanUp(g) \/ Finish(g)
-----------------------------------------------------------------------------
(* The servers and time *)

\* The dock and undock servers serve one goal of either kind, and may turn one down.
Serve(r) ==
  /\ \/ /\ request[r] = "sent"
        /\ \A q \in Requests : request[q] \notin AtServer
        /\ request' = [request EXCEPT ![r] = "running"]
     \/ /\ request[r] = "sent"
        /\ request' = [request EXCEPT ![r] = "rejected"]
     \/ /\ request[r] = "running"
        /\ \E s \in ResultsOfRequests : request' = [request EXCEPT ![r] = s]
     \/ /\ request[r] = "canceling"
        /\ request' = [request EXCEPT ![r] = "failed"]
  /\ UNCHANGED <<goalVars, sensors, data, machine, elapsed, client, answered, callback,
                 node_up, late, failures>>

\* explore_duration or max_runtime of a goal elapses, or a minute since its last spiral.
Elapse(g) ==
  /\ run[g] \in HoldingStates \ {"setup"}
  /\ \E d \in {"explore", "max_runtime", "spiral"} :
       /\ ~elapsed[g][d]
       /\ elapsed' = [elapsed EXCEPT ![g][d] = TRUE]
  /\ UNCHANGED <<goalVars, sensors, data, machine, dockingVars, node_up, late, failures>>

Next ==
  \/ Executor
  \/ \E g \in Goals : Run(g) \/ Elapse(g)
  \/ \E r \in Requests : Serve(r)

Spec == Init /\ [][Next]_vars

\* The threads are scheduled, and the motion control node answers reflexes_setup.
FairSpec == Spec /\ \A g \in Goals : WF_vars(Run(g))
-----------------------------------------------------------------------------
(* Safety *)

\* m_is_running is up exactly while one run may command the robot. The flag is raised by
\* the executor and cleared by a run in the middle of its end, and a run that finishes
\* late must not clear it for the next one.
OneRun == /\ is_running <=> \E g \in Goals : Holding(g)
          /\ \A g, h \in Goals : Holding(g) /\ Holding(h) => g = h

\* However the executor and the thread interleave, a run executes a behavior at most once
\* more after it was asked to cancel or the robot was picked up.
StopsPromptly == \A g \in Goals : late[g] <= 1

\* A run that keeps failing to drive away from an obstacle stops exploring.
EvadingIsBounded ==
  \A g \in Goals : failures[g] > MaxEvadeAttempts + 1 =>
                      machine[g].output # "running" \/ machine[g].behavior = "dock"

(* Refinement *)

Holder == IF \E g \in Goals : Holding(g) THEN CHOOSE g \in Goals : Holding(g) ELSE "free"

Life == [g \in Goals |-> IF goal_status[g] = "idle" THEN "new"
                         ELSE IF Holding(g) THEN "served" ELSE "over"]

ASSUME HolderNamesAssumption == "free" \notin Goals /\ "reflex" \notin Goals

Service == INSTANCE MotionService
             WITH Stoppable <- {}, Free <- "free", Reflex <- "reflex",
                  holder <- Holder, life <- Life

\* The coverage node serves one goal at a time and lets nothing displace it: what
\* MotionService says of goals that are not stoppable.
KeepsCoveragePromise == Service!Spec

(* Liveness *)

\* A coverage goal that is asked to cancel ends.
CancelEndsRun ==
  \A g \in Goals : goal_status[g] = "canceling" ~>
                     goal_status[g] \in {"succeeded", "aborted", "canceled"} \/ ~node_up

\* After max_runtime nothing keeps a run going but one behavior that never ends.
MaxRuntimeEndsRun ==
  \A g \in Goals : <>[](node_up /\ elapsed[g].max_runtime) => <>[](machine[g].state = "running")

(* What the code says and does not do *)

\* "Docking goal was rejected by server"
RejectionIsReal ==
  [][ \A g \in Goals :
        /\ Execute(g)
        /\ machine[g].behavior = "dock" /\ client[g].sent
        /\ RefusedAnswer(client[g])
        /\ machine'[g].state = "failure"
        => request[RequestOf(g, "dock")] = "rejected" ]_vars

\* "This behavior is being cancelled, so send a cancel request to dock action server if
\* it's running"
CleanUpCancelsDocking ==
  [][ \A g \in Goals :
        /\ CleanUp(g)
        /\ machine[g].behavior \in DockingBehaviors
        /\ request[RequestOf(g, machine[g].behavior)] = "running"
        => request'[RequestOf(g, machine[g].behavior)] = "canceling" ]_vars
=============================================================================
