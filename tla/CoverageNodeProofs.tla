------------------------- MODULE CoverageNodeProofs -------------------------
(***************************************************************************)
(* Proofs about CoverageNode, for any number of goals and any limit on the *)
(* evade attempts: one run at a time commands the robot, the node keeps    *)
(* the promise of MotionService, a run stops promptly and gives up         *)
(* evading.                                                                *)
(***************************************************************************)
EXTENDS CoverageNode, TLAPS

(***************************************************************************)
(* Types                                                                   *)
(***************************************************************************)

\* The state machine stays a state machine.
LEMMA SelectType ==
  ASSUME NEW m \in Machines, NEW d \in Sensors, NEW e \in Clocks
  PROVE  Select(m, d, e) \in Machines
<1>1. \A n \in Machines, b \in Behaviors : Goto(n, b) \in Machines
  BY DEF Machines, Goto, States
<1>2. \A n \in Machines, s \in States : End(n, s) \in Machines
  BY DEF Machines, End, States
<1>3. SelectStart(m, d.is_docked) \in Machines
  <2>1. [m EXCEPT !.undocking = TRUE] \in Machines
    BY DEF Machines
  <2> QED
    BY <1>1, <2>1 DEF SelectStart, Behaviors, DockingBehaviors
<1>4. AfterDock(m, d.is_docked) \in Machines
  BY <1>2 DEF AfterDock, States
<1>5. AfterUndock(m, d.is_docked) \in Machines
  BY <1>1, <1>2 DEF AfterUndock, Behaviors, States
<1>6. AfterDrive(m) \in Machines
  <2>1. /\ [m EXCEPT !.undocking = FALSE] \in Machines
        /\ [m EXCEPT !.preparing_spiral = FALSE] \in Machines
    BY DEF Machines
  <2>2. /\ [m EXCEPT !.evade_attempts = 0] \in Machines
        /\ [m EXCEPT !.evade_attempts = @ + 1] \in Machines
    BY DEF Machines
  <2> QED
    BY <1>1, <1>2, <2>1, <2>2 DEF AfterDrive, Behaviors, States
<1>7. AfterRotate(m, e) \in Machines
  <2>1. [m EXCEPT !.preparing_spiral = @ \/ e.spiral] \in Machines
    BY DEF Machines, Clocks
  <2> QED
    BY <1>1, <1>2, <2>1 DEF AfterRotate, Behaviors, States
<1>8. AfterSpiral(m) \in Machines
  BY <1>1 DEF AfterSpiral, Behaviors
<1>9. m.behavior \in Behaviors \cup {"none"}
  BY DEF Machines
<1> QED
  BY <1>1, <1>2, <1>3, <1>4, <1>5, <1>6, <1>7, <1>8, <1>9
     DEF Select, SelectNext, AfterBehavior, Behaviors, DockingBehaviors, States

\* The parts of TypeOK that different steps disturb.
GoalTypes ==
  /\ is_running \in BOOLEAN
  /\ goal_status \in [Goals -> {"idle", "executing", "canceling", "rejected", "succeeded",
                                "aborted", "canceled"}]
  /\ run \in [Goals -> RunStates]
  /\ outcome \in [Goals -> {"none", "succeeded", "aborted", "canceled"}]

MachineTypes ==
  /\ sensors \in Sensors /\ data \in [Goals -> Sensors]
  /\ machine \in [Goals -> Machines]
  /\ elapsed \in [Goals -> Clocks]
  /\ late \in [Goals -> Nat] /\ failures \in [Goals -> Nat]

DockingTypes ==
  /\ client \in [Goals -> Clients]
  /\ request \in [Requests -> RequestStates]
  /\ answered \in [Requests -> {"none", "response", "result"}]
  /\ callback \in {NoAnswer} \cup Answers
  /\ node_up \in BOOLEAN

\* A run that is past its loop knows how its goal ends.
OutcomeKnown == \A g \in Goals : run[g] = "finish" \/ run[g] = "cleanup" => outcome[g] # "none"

\* The result that a callback is about to assign is there.
ResultKnown == \A r \in Requests : callback = <<r, "result">> => request[r] \in ResultsOfRequests

\* Each run asks each server once: what it may still ask for was not asked for.
InLoop(g) == run[g] \in {"none", "setup", "loop", "check", "execute"}

MayAsk(g, kind) == \/ machine[g].behavior = kind /\ ~client[g].sent
                   \/ kind = "undock" /\ machine[g].behavior = "none"
                   \/ kind = "dock" /\ machine[g].behavior # "dock"

AsksOnce == \A g \in Goals, kind \in DockingBehaviors :
              InLoop(g) /\ MayAsk(g, kind) => request[RequestOf(g, kind)] = "unsent"

\* A goal gets its run when it is accepted, and is executing or canceling until the run
\* is past its loop.
RunFollowsGoal ==
  \A g \in Goals :
    /\ goal_status[g] = "idle" => run[g] = "none"
    /\ run[g] \notin {"none", "over"} <=> goal_status[g] \in {"executing", "canceling"}

\* The part of the inductive invariant that is about types.
TInv == /\ GoalTypes /\ MachineTypes /\ DockingTypes
        /\ RunFollowsGoal /\ OutcomeKnown /\ ResultKnown /\ AsksOnce

\* The part that is about cancels: a run that has executed since it was told to stop
\* finds that out before it executes again.
LateIsNoticed ==
  \A g \in Goals :
    /\ late[g] <= 1
    /\ run[g] \in {"none", "setup", "execute"} => late[g] = 0
    /\ late[g] = 1 /\ run[g] = "loop" => Stopping(g)
    /\ late[g] = 1 /\ run[g] = "check" => goal_status[g] = "canceling" \/ data[g].is_kidnapped

\* The part that is about evading: the attempts are all the failures, and then some, of a
\* run that goes on.
AttemptsCountFailures ==
  \A g \in Goals :
    /\ machine[g].evade_attempts <= MaxEvadeAttempts + 1
    /\ InLoop(g) => machine[g].output = "running"
    /\ \/ failures[g] <= machine[g].evade_attempts
       \/ machine[g].output # "running"
       \/ machine[g].behavior = "dock"

LEMMA RequestTypes ==
  /\ \A r \in Requests : RunOf(r) \in Goals /\ KindOf(r) \in DockingBehaviors
  /\ \A g \in Goals, kind \in DockingBehaviors : RequestOf(g, kind) \in Requests
  /\ \A r \in Requests : <<r, "response">> \in Answers /\ <<r, "result">> \in Answers
BY DEF Requests, RunOf, KindOf, RequestOf, Answers

LEMMA NewTypes ==
  /\ NewMachine \in Machines
  /\ NewClient \in Clients
  /\ Calm \in Sensors
  /\ NothingElapsed \in Clocks
BY DEF NewMachine, Machines, NewClient, Clients, Calm, Sensors, NothingElapsed, Clocks, States

\* A callback of a docking client writes a client, whichever it hits.
LEMMA AssignTypes ==
  ASSUME DockingTypes, NEW r \in Requests, NEW member, NEW value,
         \A c \in Clients : [c EXCEPT ![member] = value] \in Clients,
         Assign(r, member, value)
  PROVE  client' \in [Goals -> Clients] /\ node_up' \in BOOLEAN
<1>1. RunOf(r) \in Goals
  BY RequestTypes
<1>2. \A g \in Goals : [client EXCEPT ![g][member] = value] \in [Goals -> Clients]
  BY DEF DockingTypes
<1> QED
  BY <1>1, <1>2 DEF Assign, DockingTypes

\* Destroying a run's state machine leaves a new one.
LEMMA ForgetTypes ==
  ASSUME MachineTypes, DockingTypes, NEW g \in Goals, Forget(g), CancelRequest(g),
         UNCHANGED <<sensors, answered, callback, node_up>>
  PROVE  MachineTypes' /\ DockingTypes'
<1>1. MachineTypes'
  BY NewTypes DEF Forget, MachineTypes
<1>2. client' \in [Goals -> Clients]
  BY NewTypes DEF Forget, DockingTypes
<1>3. request' \in [Requests -> RequestStates]
  BY DEF CancelRequest, DockingTypes, RequestStates, AtServer, ResultsOfRequests
<1> QED
  BY <1>1, <1>2, <1>3 DEF DockingTypes

\* A cancel request ends no request.
LEMMA CancelKeepsResults ==
  ASSUME DockingTypes, ResultKnown, NEW g \in Goals, CancelRequest(g), UNCHANGED callback
  PROVE  ResultKnown'
BY DEF CancelRequest, ResultKnown, DockingTypes, ResultsOfRequests

\* A callback does not write whether a goal was sent.
LEMMA AssignKeepsSent ==
  ASSUME DockingTypes, NEW r \in Requests, NEW member \in DOMAIN NewClient, member # "sent",
         NEW value, Assign(r, member, value)
  PROVE  \A g \in Goals : client'[g].sent = client[g].sent
<1>1. \A c \in Clients : [c EXCEPT ![member] = value].sent = c.sent
  BY DEF Clients, NewClient
<1>2. \A h, g \in Goals : [client EXCEPT ![h][member] = value][g].sent = client[g].sent
  BY <1>1 DEF DockingTypes
<1>3. RunOf(r) \in Goals
  BY RequestTypes
<1> QED
  BY <1>2, <1>3 DEF Assign

\* What a run goes on to: it undocks only at the start, and never leaves the dock behavior.
LEMMA SelectGoesOn ==
  ASSUME NEW m \in Machines, NEW d \in Sensors, NEW e \in Clocks
  PROVE  LET picked == Select(m, d, e) IN
         /\ picked.behavior # "none"
         /\ picked.behavior = "undock" => m.behavior \in {"none", "undock"}
         /\ m.behavior = "dock" => picked.behavior = "dock"
<1>1. \A n \in Machines, b \in Behaviors : Goto(n, b).behavior = b
  BY DEF Machines, Goto
<1>2. \A n \in Machines, s \in States : End(n, s).behavior = n.behavior
  BY DEF Machines, End
<1>3. SelectStart(m, d.is_docked).behavior \in {"undock", "spiral"}
  <2>1. [m EXCEPT !.undocking = TRUE] \in Machines
    BY DEF Machines
  <2> QED
    BY <1>1, <2>1 DEF SelectStart, Behaviors, DockingBehaviors
<1>4. AfterDock(m, d.is_docked).behavior = m.behavior
  BY <1>2 DEF AfterDock, States
<1>5. AfterUndock(m, d.is_docked).behavior \in {m.behavior, "drive_straight"}
  BY <1>1, <1>2 DEF AfterUndock, Behaviors, States
<1>6. AfterDrive(m).behavior \in {m.behavior, "spiral", "rotate"}
  <2>1. /\ [m EXCEPT !.undocking = FALSE] \in Machines
        /\ [m EXCEPT !.preparing_spiral = FALSE] \in Machines
    BY DEF Machines
  <2>2. /\ [m EXCEPT !.evade_attempts = 0] \in Machines
        /\ [m EXCEPT !.evade_attempts = @ + 1] \in Machines
    BY DEF Machines
  <2> QED
    BY <1>1, <1>2, <2>1, <2>2 DEF AfterDrive, Behaviors, States
<1>7. AfterRotate(m, e).behavior \in {m.behavior, "drive_straight"}
  <2>1. [m EXCEPT !.preparing_spiral = @ \/ e.spiral] \in Machines
    BY DEF Machines, Clocks
  <2> QED
    BY <1>1, <1>2, <2>1 DEF AfterRotate, Behaviors, States
<1>8. AfterSpiral(m).behavior \in {"drive_straight", "rotate"}
  BY <1>1 DEF AfterSpiral, Behaviors
<1>9. m.behavior \in Behaviors \cup {"none"}
  BY DEF Machines
<1> QED
  BY <1>1, <1>2, <1>3, <1>4, <1>5, <1>6, <1>7, <1>8, <1>9
     DEF Select, SelectNext, AfterBehavior, Behaviors, DockingBehaviors, States

\* Executing a behavior whose object is c may send its goal, once.
LEMMA ObjectExecutes ==
  ASSUME DockingTypes, NEW g \in Goals, NEW b \in Behaviors, NEW c \in Clients, NEW s \in States,
         \/ b \in DockingBehaviors /\ ExecuteDocking(g, b, c, s)
         \/ b \notin DockingBehaviors /\ ExecuteMotion(g, s)
  PROVE  /\ client' \in [Goals -> Clients]
         /\ request' \in [Requests -> RequestStates]
         /\ \A h \in Goals \ {g} : client'[h] = client[h]
         /\ \A r \in Requests : \/ request'[r] = request[r]
                                \/ /\ b \in DockingBehaviors /\ r = RequestOf(g, b)
                                   /\ ~c.sent /\ client'[g].sent
         /\ b \in DockingBehaviors /\ ~client'[g].sent => ~c.sent
<1>1. [c EXCEPT !.sent = TRUE] \in Clients /\ [c EXCEPT !.sent = TRUE].sent
  BY DEF Clients
<1>2. b \in DockingBehaviors => RequestOf(g, b) \in Requests
  BY RequestTypes
<1>3. CASE b \in DockingBehaviors
  <2>1. CASE client' = [client EXCEPT ![g] = c] /\ UNCHANGED request
    BY <1>3, <2>1 DEF DockingTypes
  <2>2. CASE /\ ~c.sent
             /\ client' = [client EXCEPT ![g] = [c EXCEPT !.sent = TRUE]]
             /\ request' = [request EXCEPT ![RequestOf(g, b)] = "sent"]
    BY <1>1, <1>2, <1>3, <2>2 DEF DockingTypes, RequestStates
  <2> QED
    BY <1>3, <2>1, <2>2 DEF ExecuteDocking
<1>4. CASE b \notin DockingBehaviors
  BY <1>4, NewTypes DEF ExecuteMotion, DockingTypes
<1> QED
  BY <1>3, <1>4

\* An execution goes on with a behavior or ends the run.
LEMMA ExecuteCases ==
  ASSUME TInv, NEW g \in Goals, Execute(g)
  PROVE  LET picked == Select(machine[g], data[g], elapsed[g])
             fresh == picked.behavior # machine[g].behavior IN
         /\ picked \in Machines
         /\ \/ /\ picked.output # "running"
               /\ machine' = [machine EXCEPT ![g] = picked]
               /\ run' = [run EXCEPT ![g] = "end"]
               /\ UNCHANGED <<client, request, late>>
            \/ /\ picked.output = "running"
               /\ \E s \in States, c \in Clients :
                    /\ c = IF fresh THEN NewClient ELSE client[g]
                    /\ machine' = [machine EXCEPT ![g] = [picked EXCEPT !.state = s]]
                    /\ \/ picked.behavior \in DockingBehaviors
                          /\ ExecuteDocking(g, picked.behavior, c, s)
                       \/ picked.behavior \notin DockingBehaviors /\ ExecuteMotion(g, s)
               /\ run' = [run EXCEPT ![g] = "loop"]
               /\ late' = [late EXCEPT ![g] = IF Stopping(g) THEN @ + 1 ELSE 0]
<1>1. machine[g] \in Machines /\ data[g] \in Sensors /\ elapsed[g] \in Clocks
  BY DEF TInv, MachineTypes
<1>2. Select(machine[g], data[g], elapsed[g]) \in Machines
  BY <1>1, SelectType
<1>3. client[g] \in Clients /\ NewClient \in Clients
  BY NewTypes DEF TInv, DockingTypes
<1> QED
  BY <1>2, <1>3 DEF Execute

LEMMA ExecuteTypes ==
  ASSUME TInv, NEW g \in Goals, Execute(g)
  PROVE  TInv'
<1>1. PICK picked \in Machines :
        /\ picked = Select(machine[g], data[g], elapsed[g])
        /\ \/ /\ picked.output # "running"
              /\ machine' = [machine EXCEPT ![g] = picked]
              /\ run' = [run EXCEPT ![g] = "end"]
              /\ UNCHANGED <<client, request, late>>
           \/ /\ picked.output = "running"
              /\ \E s \in States, c \in Clients :
                   /\ c = IF picked.behavior # machine[g].behavior THEN NewClient ELSE client[g]
                   /\ machine' = [machine EXCEPT ![g] = [picked EXCEPT !.state = s]]
                   /\ \/ picked.behavior \in DockingBehaviors
                         /\ ExecuteDocking(g, picked.behavior, c, s)
                      \/ picked.behavior \notin DockingBehaviors /\ ExecuteMotion(g, s)
              /\ run' = [run EXCEPT ![g] = "loop"]
              /\ late' = [late EXCEPT ![g] = IF Stopping(g) THEN @ + 1 ELSE 0]
  BY ExecuteCases
<1>2. failures' \in [Goals -> Nat]
  <2>1. FailuresAfter(g, machine[g]) \in Nat
    BY DEF FailuresAfter, TInv, MachineTypes
  <2>2. failures' = [failures EXCEPT ![g] = FailuresAfter(g, machine[g])]
    BY DEF Execute
  <2> QED
    BY <2>1, <2>2 DEF TInv, MachineTypes
<1>3. elapsed' \in [Goals -> Clocks]
  <2>1. PICK b \in BOOLEAN : elapsed' = [elapsed EXCEPT ![g].spiral = b]
    <3>1. elapsed[g] \in Clocks
      BY DEF TInv, MachineTypes
    <3> QED
      BY <3>1 DEF Execute, Clocks
  <2>2. [elapsed[g] EXCEPT !.spiral = b] \in Clocks
    BY DEF TInv, MachineTypes, Clocks
  <2> QED
    BY <2>1, <2>2 DEF TInv, MachineTypes
<1>4. data' \in [Goals -> Sensors] /\ sensors' \in Sensors
  BY NewTypes DEF Execute, TInv, MachineTypes
<1>5. UNCHANGED <<is_running, goal_status, outcome, answered, callback, node_up>>
  BY DEF Execute
<1>6. run[g] = "execute" /\ InLoop(g)
  BY DEF Execute, InLoop
<1>7. CASE picked.output # "running"
  <2>1. machine' \in [Goals -> Machines]
    BY <1>1, <1>7 DEF TInv, MachineTypes
  <2>2. MachineTypes'
    BY <1>1, <1>2, <1>3, <1>4, <1>7, <2>1 DEF TInv, MachineTypes
  <2>3. GoalTypes' /\ RunFollowsGoal' /\ OutcomeKnown'
    BY <1>1, <1>5, <1>6, <1>7
       DEF TInv, GoalTypes, RunFollowsGoal, OutcomeKnown, RunStates, HoldingStates
  <2>4. DockingTypes' /\ ResultKnown'
    BY <1>1, <1>5, <1>7 DEF TInv, DockingTypes, ResultKnown
  <2>5. AsksOnce'
    BY <1>1, <1>7 DEF TInv, AsksOnce, MayAsk, InLoop, GoalTypes, MachineTypes
  <2> QED
    BY <2>2, <2>3, <2>4, <2>5 DEF TInv
<1>8. CASE picked.output = "running"
  <2>1. PICK s \in States, c \in Clients :
          /\ c = IF picked.behavior # machine[g].behavior THEN NewClient ELSE client[g]
          /\ machine' = [machine EXCEPT ![g] = [picked EXCEPT !.state = s]]
          /\ \/ picked.behavior \in DockingBehaviors
                /\ ExecuteDocking(g, picked.behavior, c, s)
             \/ picked.behavior \notin DockingBehaviors /\ ExecuteMotion(g, s)
    BY <1>1, <1>8
  <2>2. [picked EXCEPT !.state = s] \in Machines /\ [picked EXCEPT !.state = s].behavior = picked.behavior
    BY DEF Machines
  <2>3. /\ picked.behavior # "none"
        /\ picked.behavior = "undock" => machine[g].behavior \in {"none", "undock"}
        /\ machine[g].behavior = "dock" => picked.behavior = "dock"
    BY <1>1, SelectGoesOn DEF TInv, MachineTypes
  <2>4. picked.behavior \in Behaviors
    BY <2>3 DEF Machines
  <2>5. /\ client' \in [Goals -> Clients]
        /\ request' \in [Requests -> RequestStates]
        /\ \A h \in Goals \ {g} : client'[h] = client[h]
        /\ \A r \in Requests : \/ request'[r] = request[r]
                               \/ /\ picked.behavior \in DockingBehaviors
                                  /\ r = RequestOf(g, picked.behavior)
                                  /\ ~c.sent /\ client'[g].sent
        /\ picked.behavior \in DockingBehaviors /\ ~client'[g].sent => ~c.sent
    BY <2>1, <2>4, ObjectExecutes DEF TInv
  <2>6. picked.behavior \in DockingBehaviors /\ ~c.sent =>
          request[RequestOf(g, picked.behavior)] = "unsent"
    BY <1>6, <2>1, <2>3 DEF TInv, AsksOnce, MayAsk, DockingBehaviors
  <2>7. MachineTypes'
    <3>1. machine' \in [Goals -> Machines]
      BY <2>1, <2>2 DEF TInv, MachineTypes
    <3>2. late' \in [Goals -> Nat]
      BY <1>1, <1>8 DEF TInv, MachineTypes
    <3> QED
      BY <1>2, <1>3, <1>4, <3>1, <3>2 DEF MachineTypes
  <2>8. GoalTypes' /\ RunFollowsGoal' /\ OutcomeKnown'
    BY <1>1, <1>5, <1>6, <1>8
       DEF TInv, GoalTypes, RunFollowsGoal, OutcomeKnown, RunStates, HoldingStates
  <2>9. DockingTypes'
    BY <1>5, <2>5 DEF TInv, DockingTypes
  <2>10. ResultKnown'
    BY <1>5, <2>5, <2>6 DEF TInv, ResultKnown, ResultsOfRequests
  <2>11. AsksOnce'
    <3> SUFFICES ASSUME NEW h \in Goals, NEW kind \in DockingBehaviors, InLoop(h)', MayAsk(h, kind)'
                 PROVE  request'[RequestOf(h, kind)] = "unsent"
      BY DEF AsksOnce
    <3>1. CASE h # g
      <4>1. /\ InLoop(h) /\ MayAsk(h, kind)
        BY <1>1, <1>8, <2>1, <2>5, <3>1 DEF InLoop, MayAsk, TInv, GoalTypes, MachineTypes
      <4>2. request[RequestOf(h, kind)] = "unsent"
        BY <4>1 DEF TInv, AsksOnce
      <4>3. RequestOf(h, kind) # RequestOf(g, picked.behavior)
        BY <3>1 DEF RequestOf
      <4> QED
        BY <2>5, <4>2, <4>3, RequestTypes
    <3>2. CASE h = g
      <4>1. machine'[g].behavior = picked.behavior
        BY <2>1, <2>2 DEF TInv, MachineTypes
      <4>2. \/ picked.behavior = kind /\ ~client'[g].sent
            \/ kind = "dock" /\ picked.behavior # "dock"
        BY <2>3, <3>2, <4>1 DEF MayAsk
      <4>3. RequestOf(g, kind) \in Requests
        BY RequestTypes
      <4>4. CASE picked.behavior = kind /\ ~client'[g].sent
        BY <2>5, <2>6, <3>2, <4>3, <4>4
      <4>5. CASE kind = "dock" /\ picked.behavior # "dock"
        <5>1. request[RequestOf(g, "dock")] = "unsent"
          BY <1>6, <2>3, <4>5 DEF TInv, AsksOnce, MayAsk
        <5>2. RequestOf(g, "dock") # RequestOf(g, picked.behavior)
          BY <4>5 DEF RequestOf
        <5> QED
          BY <2>5, <3>2, <4>3, <4>5, <5>1, <5>2
      <4> QED
        BY <4>2, <4>4, <4>5
    <3> QED
      BY <3>1, <3>2
  <2> QED
    BY <2>7, <2>8, <2>9, <2>10, <2>11 DEF TInv
<1> QED
  BY <1>7, <1>8

\* The callbacks of the docking clients.
LEMMA CallbackTypes ==
  ASSUME TInv, NEW r \in Requests,
         ResponseArrives(r) \/ ResponseAssigned(r) \/ ResultArrives(r) \/ ResultAssigned(r)
  PROVE  TInv'
<1>1. UNCHANGED <<goalVars, sensors, data, machine, elapsed, request, late, failures>>
  BY DEF ResponseArrives, ResponseAssigned, ResultArrives, ResultAssigned
<1>2. PICK member, value :
        /\ member \in DOMAIN NewClient /\ member # "sent"
        /\ \A c \in Clients : [c EXCEPT ![member] = value] \in Clients
        /\ Assign(r, member, value)
  <2>1. \A c \in Clients :
          /\ [c EXCEPT !["handle_ready"] = TRUE] \in Clients
          /\ [c EXCEPT !["handle"] = IF request[r] = "rejected" THEN NoRequest ELSE r] \in Clients
          /\ [c EXCEPT !["result_ready"] = TRUE] \in Clients
    BY DEF Clients
  <2>2. ASSUME ResultAssigned(r)
        PROVE  \A c \in Clients : [c EXCEPT !["result"] = request[r]] \in Clients
    <3>1. request[r] \in ResultsOfRequests
      BY <2>2 DEF ResultAssigned, TInv, ResultKnown
    <3> QED
      BY <3>1 DEF Clients, ResultsOfRequests
  <2>3. CASE ResponseArrives(r)
    BY <2>1, <2>3 DEF ResponseArrives, NewClient
  <2>4. CASE ResponseAssigned(r)
    BY <2>1, <2>4 DEF ResponseAssigned, NewClient
  <2>5. CASE ResultArrives(r)
    BY <2>1, <2>5 DEF ResultArrives, NewClient
  <2>6. CASE ResultAssigned(r)
    BY <2>2, <2>6 DEF ResultAssigned, NewClient
  <2> QED
    BY <2>3, <2>4, <2>5, <2>6
<1>3. client' \in [Goals -> Clients] /\ node_up' \in BOOLEAN
  BY <1>2, AssignTypes DEF TInv
<1>4. answered' \in [Requests -> {"none", "response", "result"}] /\ callback' \in {NoAnswer} \cup Answers
  BY RequestTypes
     DEF ResponseArrives, ResponseAssigned, ResultArrives, ResultAssigned, TInv, DockingTypes
<1>5. ResultKnown'
  <2>1. \A q \in Requests : callback' = <<q, "result">> => request[q] \in ResultsOfRequests
    BY DEF ResponseArrives, ResponseAssigned, ResultArrives, ResultAssigned, NoAnswer
  <2> QED
    BY <1>1, <2>1 DEF ResultKnown
<1>6. AsksOnce'
  <2>1. \A g \in Goals : client'[g].sent = client[g].sent
    BY <1>2, AssignKeepsSent DEF TInv
  <2> QED
    BY <1>1, <2>1 DEF TInv, AsksOnce, MayAsk, InLoop, goalVars
<1> QED
  BY <1>1, <1>3, <1>4, <1>5, <1>6
     DEF TInv, GoalTypes, MachineTypes, DockingTypes, RunFollowsGoal, OutcomeKnown, goalVars

\* What the executor hears of clients and of the robot.
LEMMA HandlerTypes ==
  ASSUME TInv,
         \/ \E g \in Goals : RejectGoal(g) \/ AcceptGoal(g) \/ HandleCancel(g)
         \/ DockCallback
         \/ KidnapCallback
  PROVE  TInv'
<1>1. ASSUME NEW g \in Goals, RejectGoal(g) \/ AcceptGoal(g) \/ HandleCancel(g)
      PROVE  TInv'
  <2>1. UNCHANGED <<outcome, sensors, data, machine, elapsed, dockingVars, node_up, late, failures>>
    BY <1>1 DEF RejectGoal, AcceptGoal, HandleCancel
  <2>2. GoalTypes' /\ RunFollowsGoal' /\ OutcomeKnown' /\ (\A h \in Goals : InLoop(h)' => InLoop(h))
    BY <1>1, <2>1 DEF RejectGoal, AcceptGoal, HandleCancel, TInv, GoalTypes, RunFollowsGoal,
       OutcomeKnown, InLoop, RunStates, HoldingStates
  <2>3. MachineTypes' /\ DockingTypes' /\ ResultKnown'
    BY <2>1 DEF TInv, MachineTypes, DockingTypes, ResultKnown, dockingVars
  <2>4. AsksOnce'
    BY <2>1, <2>2 DEF TInv, AsksOnce, MayAsk, dockingVars
  <2> QED
    BY <2>2, <2>3, <2>4 DEF TInv
<1>2. CASE DockCallback \/ KidnapCallback
  <2>1. UNCHANGED <<goalVars, data, machine, elapsed, dockingVars, node_up, failures>>
    BY <1>2 DEF DockCallback, KidnapCallback
  <2>2. MachineTypes'
    <3>1. sensors' \in Sensors
      BY <1>2 DEF DockCallback, KidnapCallback, TInv, MachineTypes, Sensors
    <3>2. \/ UNCHANGED late
          \/ late' = [g \in Goals |-> IF goal_status[g] = "canceling" THEN late[g] ELSE 0]
      BY <1>2 DEF DockCallback, KidnapCallback
    <3>3. late' \in [Goals -> Nat]
      BY <3>2 DEF TInv, MachineTypes
    <3> QED
      BY <2>1, <3>1, <3>3 DEF TInv, MachineTypes
  <2> QED
    BY <2>1, <2>2 DEF TInv, GoalTypes, DockingTypes, RunFollowsGoal, OutcomeKnown, ResultKnown,
       AsksOnce, MayAsk, InLoop, goalVars, dockingVars
<1> QED
  BY <1>1, <1>2

\* The steps of a run but its executions.
LEMMA RunTypes ==
  ASSUME TInv, NEW g \in Goals,
         SetUp(g) \/ ReadSensors(g) \/ CheckStop(g) \/ EndRun(g) \/ CleanUp(g) \/ Finish(g)
  PROVE  TInv'
<1>1. CASE SetUp(g) \/ ReadSensors(g) \/ CheckStop(g) \/ EndRun(g)
  <2>1. UNCHANGED <<goal_status, sensors, machine, elapsed, dockingVars, late, failures>>
    BY <1>1 DEF SetUp, ReadSensors, CheckStop, EndRun
  <2>2. node_up' \in BOOLEAN
    BY <1>1 DEF SetUp, ReadSensors, CheckStop, EndRun, TInv, DockingTypes
  <2>3. data' \in [Goals -> Sensors]
    BY <1>1 DEF SetUp, ReadSensors, CheckStop, EndRun, TInv, MachineTypes
  <2>4. /\ GoalTypes' /\ RunFollowsGoal' /\ OutcomeKnown'
        /\ \A h \in Goals : InLoop(h)' => InLoop(h)
    <3> USE DEF TInv, GoalTypes, RunFollowsGoal, OutcomeKnown, InLoop, RunStates, HoldingStates
    <3>1. CASE SetUp(g) \/ ReadSensors(g)
      BY <2>1, <3>1 DEF SetUp, ReadSensors
    <3>2. CASE CheckStop(g)
      BY <2>1, <3>2 DEF CheckStop, Leave
    <3>3. CASE EndRun(g)
      BY <2>1, <3>3 DEF EndRun, Leave
    <3> QED
      BY <1>1, <3>1, <3>2, <3>3
  <2>5. MachineTypes' /\ DockingTypes' /\ ResultKnown'
    BY <2>1, <2>2, <2>3 DEF TInv, MachineTypes, DockingTypes, ResultKnown, dockingVars
  <2>6. AsksOnce'
    BY <2>1, <2>4 DEF TInv, AsksOnce, MayAsk, dockingVars
  <2> QED
    BY <2>4, <2>5, <2>6 DEF TInv
<1>2. CASE CleanUp(g) \/ Finish(g)
  <2>1. /\ Forget(g) /\ CancelRequest(g)
        /\ UNCHANGED <<is_running, outcome, sensors, answered, callback, node_up>>
    BY <1>2 DEF CleanUp, Finish
  <2>2. MachineTypes' /\ DockingTypes' /\ ResultKnown'
    BY <2>1, ForgetTypes, CancelKeepsResults DEF TInv
  <2>3. /\ GoalTypes' /\ RunFollowsGoal' /\ OutcomeKnown'
        /\ ~InLoop(g)' /\ (\A h \in Goals : InLoop(h)' => InLoop(h))
    BY <1>2, <2>1 DEF CleanUp, Finish, TInv, GoalTypes, RunFollowsGoal, OutcomeKnown, InLoop,
       RunStates, HoldingStates
  <2>4. AsksOnce'
    <3> SUFFICES ASSUME NEW h \in Goals, NEW kind \in DockingBehaviors, InLoop(h)', MayAsk(h, kind)'
                 PROVE  request'[RequestOf(h, kind)] = "unsent"
      BY DEF AsksOnce
    <3>1. h # g /\ InLoop(h)
      BY <2>3
    <3>2. MayAsk(h, kind)
      BY <2>1, <3>1 DEF Forget, MayAsk, TInv, MachineTypes, DockingTypes
    <3>3. request[RequestOf(h, kind)] = "unsent"
      BY <3>1, <3>2 DEF TInv, AsksOnce
    <3> QED
      BY <2>1, <3>3, RequestTypes DEF CancelRequest, TInv, DockingTypes
  <2> QED
    BY <2>2, <2>3, <2>4 DEF TInv
<1> QED
  BY <1>1, <1>2

\* The servers and time.
LEMMA WorldTypes ==
  ASSUME TInv, (\E r \in Requests : Serve(r)) \/ \E g \in Goals : Elapse(g)
  PROVE  TInv'
<1>1. ASSUME NEW r \in Requests, Serve(r)
      PROVE  TInv'
  <2>1. UNCHANGED <<goalVars, sensors, data, machine, elapsed, client, answered, callback,
                    node_up, late, failures>>
    BY <1>1 DEF Serve
  <2>2. PICK st \in RequestStates : request' = [request EXCEPT ![r] = st]
    BY <1>1 DEF Serve, RequestStates, AtServer, ResultsOfRequests
  <2>3. request[r] # "unsent" /\ request[r] \notin ResultsOfRequests
    BY <1>1 DEF Serve, ResultsOfRequests
  <2>4. DockingTypes' /\ ResultKnown'
    BY <2>1, <2>2, <2>3 DEF TInv, DockingTypes, ResultKnown
  <2>5. AsksOnce'
    BY <2>1, <2>2, <2>3, RequestTypes DEF TInv, AsksOnce, MayAsk, InLoop, DockingTypes, goalVars
  <2> QED
    BY <2>1, <2>4, <2>5 DEF TInv, GoalTypes, MachineTypes, RunFollowsGoal, OutcomeKnown, goalVars
<1>2. ASSUME NEW g \in Goals, Elapse(g)
      PROVE  TInv'
  <2>1. UNCHANGED <<goalVars, sensors, data, machine, dockingVars, node_up, late, failures>>
    BY <1>2 DEF Elapse
  <2>2. elapsed' \in [Goals -> Clocks]
    <3>1. PICK d \in {"explore", "max_runtime", "spiral"} : elapsed' = [elapsed EXCEPT ![g][d] = TRUE]
      BY <1>2 DEF Elapse
    <3>2. [elapsed[g] EXCEPT ![d] = TRUE] \in Clocks
      BY DEF TInv, MachineTypes, Clocks
    <3> QED
      BY <3>1, <3>2 DEF TInv, MachineTypes
  <2> QED
    BY <2>1, <2>2 DEF TInv, GoalTypes, MachineTypes, DockingTypes, RunFollowsGoal, OutcomeKnown,
       ResultKnown, AsksOnce, MayAsk, InLoop, goalVars, dockingVars
<1> QED
  BY <1>1, <1>2

LEMMA TypesStep == TInv /\ [Next]_vars => TInv'
<1> SUFFICES ASSUME TInv, [Next]_vars PROVE TInv'
  OBVIOUS
<1>1. CASE Executor
  BY <1>1, HandlerTypes, CallbackTypes DEF Executor
<1>2. CASE \E g \in Goals : Run(g)
  BY <1>2, RunTypes, ExecuteTypes DEF Run
<1>3. CASE (\E r \in Requests : Serve(r)) \/ \E g \in Goals : Elapse(g)
  BY <1>3, WorldTypes
<1>4. CASE UNCHANGED vars
  BY <1>4 DEF vars, goalVars, dockingVars, TInv, GoalTypes, MachineTypes, DockingTypes,
     RunFollowsGoal, OutcomeKnown, ResultKnown, AsksOnce, MayAsk, InLoop
<1> QED
  BY <1>1, <1>2, <1>3, <1>4 DEF Next

LEMMA TypesInvariance == Spec => []TInv
<1>1. Init => TInv
  <2> SUFFICES ASSUME Init PROVE TInv
    OBVIOUS
  <2>1. GoalTypes /\ RunFollowsGoal /\ OutcomeKnown
    BY DEF Init, GoalTypes, RunFollowsGoal, OutcomeKnown, RunStates
  <2>2. MachineTypes
    BY NewTypes DEF Init, MachineTypes
  <2>3. DockingTypes
    BY NewTypes DEF Init, DockingTypes, RequestStates
  <2>4. ResultKnown
    BY RequestAssumption DEF Init, ResultKnown, NoAnswer
  <2>5. AsksOnce
    BY RequestTypes DEF Init, AsksOnce
  <2> QED
    BY <2>1, <2>2, <2>3, <2>4, <2>5 DEF TInv
<1> QED
  BY <1>1, TypesStep, PTL DEF Spec

\* Every variable of the coverage node keeps its type.
THEOREM TypeCorrectness == Spec => []TypeOK
<1>1. TInv => TypeOK
  BY DEF TInv, GoalTypes, MachineTypes, DockingTypes, TypeOK
<1> QED
  BY <1>1, TypesInvariance, PTL

(***************************************************************************)
(* One run at a time                                                       *)
(***************************************************************************)

\* The steps that change who holds m_is_running, and all others.
Releases(g) == /\ Holding(g)
               /\ \/ CheckStop(g) \/ EndRun(g)
               /\ \E how \in {"succeeded", "aborted", "canceled"}, next \in {"cleanup", "finish"} :
                    Leave(g, how, next)
               /\ UNCHANGED goal_status

KeepsHolding == UNCHANGED is_running /\ \A g \in Goals : Holding(g)' <=> Holding(g)

KeepsIdle == \A g \in Goals : goal_status'[g] = "idle" <=> goal_status[g] = "idle"

LEMMA HoldingSteps ==
  ASSUME TInv, [Next]_vars
  PROVE  \/ \E g \in Goals : AcceptGoal(g) \/ Releases(g)
         \/ KeepsHolding /\ \E g \in Goals : RejectGoal(g)
         \/ KeepsHolding /\ KeepsIdle
<1> USE DEF TInv, GoalTypes, KeepsIdle
<1>1. ASSUME NEW g \in Goals, HandleCancel(g) \/ Elapse(g)
      PROVE  KeepsHolding /\ KeepsIdle
  BY <1>1 DEF HandleCancel, Elapse, KeepsHolding, Holding, goalVars
<1>10. ASSUME NEW g \in Goals, RejectGoal(g)
       PROVE  KeepsHolding
  BY <1>10 DEF RejectGoal, KeepsHolding, Holding
<1>2. CASE DockCallback \/ KidnapCallback
  BY <1>2 DEF DockCallback, KidnapCallback, KeepsHolding, Holding, goalVars
<1>3. ASSUME NEW r \in Requests,
             ResponseArrives(r) \/ ResponseAssigned(r) \/ ResultArrives(r) \/ ResultAssigned(r)
               \/ Serve(r)
      PROVE  KeepsHolding /\ KeepsIdle
  BY <1>3 DEF ResponseArrives, ResponseAssigned, ResultArrives, ResultAssigned, Serve,
     KeepsHolding, Holding, goalVars
<1>4. ASSUME NEW g \in Goals, SetUp(g) \/ ReadSensors(g)
      PROVE  KeepsHolding /\ KeepsIdle
  BY <1>4 DEF SetUp, ReadSensors, KeepsHolding, Holding, HoldingStates
<1>5. ASSUME NEW g \in Goals, CheckStop(g)
      PROVE  Releases(g) \/ (KeepsHolding /\ KeepsIdle)
  <2>1. CASE run' = [run EXCEPT ![g] = "execute"] /\ UNCHANGED is_running
    BY <1>5, <2>1 DEF CheckStop, KeepsHolding, Holding, HoldingStates
  <2>2. CASE Leave(g, "canceled", "cleanup") \/ Leave(g, "aborted", "cleanup")
    BY <1>5, <2>2 DEF CheckStop, Releases, Holding, HoldingStates
  <2> QED
    BY <1>5, <2>1, <2>2 DEF CheckStop
<1>6. ASSUME NEW g \in Goals, EndRun(g)
      PROVE  Releases(g)
  BY <1>6 DEF EndRun, Releases, Holding, HoldingStates
<1>7. ASSUME NEW g \in Goals, Execute(g)
      PROVE  KeepsHolding /\ KeepsIdle
  <2>1. /\ run[g] = "execute"
        /\ run' = [run EXCEPT ![g] = "end"] \/ run' = [run EXCEPT ![g] = "loop"]
        /\ UNCHANGED <<is_running, goal_status>>
    BY <1>7, ExecuteCases DEF Execute
  <2> QED
    BY <2>1 DEF KeepsHolding, Holding, HoldingStates
<1>8. ASSUME NEW g \in Goals, CleanUp(g) \/ Finish(g)
      PROVE  KeepsHolding /\ KeepsIdle
  BY <1>8 DEF CleanUp, Finish, KeepsHolding, Holding, HoldingStates, RunFollowsGoal, OutcomeKnown
<1>9. CASE UNCHANGED vars
  BY <1>9 DEF vars, goalVars, KeepsHolding, Holding
<1> QED
  BY <1>1, <1>2, <1>3, <1>4, <1>5, <1>6, <1>7, <1>8, <1>9, <1>10 DEF Next, Executor, Run

LEMMA OneRunStep == TInv /\ OneRun /\ [Next]_vars => OneRun'
<1> SUFFICES ASSUME TInv, OneRun, [Next]_vars PROVE OneRun'
  OBVIOUS
<1>1. ASSUME NEW g \in Goals, AcceptGoal(g)
      PROVE  OneRun'
  BY <1>1 DEF AcceptGoal, OneRun, Holding, HoldingStates, TInv, GoalTypes
<1>2. ASSUME NEW g \in Goals, Releases(g)
      PROVE  OneRun'
  BY <1>2 DEF Releases, Leave, OneRun, Holding, HoldingStates, TInv, GoalTypes
<1>3. CASE KeepsHolding
  BY <1>3 DEF KeepsHolding, OneRun
<1> QED
  BY <1>1, <1>2, <1>3, HoldingSteps

\* m_is_running is up exactly while one run may command the robot.
THEOREM RunsAreExclusive == Spec => []OneRun
<1>1. Init => OneRun
  BY DEF Init, OneRun, Holding, HoldingStates
<1> QED
  BY <1>1, OneRunStep, TypesInvariance, PTL DEF Spec

(***************************************************************************)
(* The promise of MotionService                                            *)
(***************************************************************************)

LEMMA HolderHolds ==
  ASSUME OneRun
  PROVE  /\ \A g \in Goals : Holder = g <=> Holding(g)
         /\ (Holder = "free") <=> ~is_running
BY HolderNamesAssumption DEF Holder, OneRun

\* A step maps to one of MotionService, or changes neither holder nor life.
LEMMA StepKeepsPromise ==
  TInv /\ OneRun /\ OneRun' /\ [Next]_vars => [Service!Next]_<<Holder, Life>>
<1> SUFFICES ASSUME TInv, OneRun, OneRun', [Next]_vars
             PROVE  [Service!Next]_<<Holder, Life>>
  OBVIOUS
<1> USE HolderNamesAssumption DEF TInv, GoalTypes
<1>1. /\ \A g \in Goals : Holder = g <=> Holding(g)
      /\ (Holder = "free") <=> ~is_running
  BY HolderHolds
<1>2. /\ \A g \in Goals : Holder' = g <=> Holding(g)'
      /\ (Holder' = "free") <=> ~is_running'
  BY DEF Holder, OneRun
<1>3. Holder \in Goals \cup {"free"} /\ Holder' \in Goals \cup {"free"}
  BY DEF Holder
<1>4. ASSUME NEW g \in Goals, AcceptGoal(g)
      PROVE  Service!Serve(g)
  <2>1. Life[g] = "new" /\ Holder = "free" /\ Holder' = g
    BY <1>1, <1>2, <1>4 DEF AcceptGoal, Life, Holding, HoldingStates
  <2>2. Life' = [Service!Over EXCEPT ![g] = "served"]
    BY <1>4, <2>1 DEF AcceptGoal, Life, Service!Over, Holding, HoldingStates
  <2> QED
    BY <2>1, <2>2 DEF Service!Serve, Service!Yields
<1>5. ASSUME NEW g \in Goals, Releases(g)
      PROVE  Service!Release
  <2>1. Holder = g /\ Holder' = "free"
    BY <1>1, <1>2, <1>5 DEF Releases, Leave
  <2>2. goal_status[g] # "idle"
    BY <1>5 DEF Releases, Holding, HoldingStates, RunFollowsGoal
  <2>3. Life' = Service!Over
    BY <1>5, <2>1, <2>2 DEF Releases, Leave, Life, Service!Over, Holding, HoldingStates
  <2> QED
    BY <2>1, <2>3 DEF Service!Release
<1>6. KeepsHolding => UNCHANGED Holder
  BY <1>1, <1>2, <1>3 DEF KeepsHolding
<1>7. ASSUME NEW g \in Goals, KeepsHolding, RejectGoal(g)
      PROVE  Service!TurnDown(g)
  <2>1. ~Holding(g) /\ ~Holding(g)'
    BY <1>7 DEF RejectGoal, KeepsHolding, RunFollowsGoal, Holding, HoldingStates
  <2>2. Life[g] = "new" /\ Life' = [Life EXCEPT ![g] = "over"]
    BY <1>7, <2>1 DEF RejectGoal, KeepsHolding, Life
  <2> QED
    BY <1>6, <1>7, <2>2 DEF Service!TurnDown
<1>8. CASE KeepsHolding /\ KeepsIdle
  BY <1>6, <1>8 DEF KeepsHolding, KeepsIdle, Life
<1> QED
  BY <1>4, <1>5, <1>7, <1>8, HoldingSteps DEF Service!Next

\* The coverage node serves one goal at a time, turns the others down, and lets nothing
\* displace the one it serves.
THEOREM KeepsPromise == Spec => KeepsCoveragePromise
<1>1. Init => Service!Init
  <2> SUFFICES ASSUME Init PROVE Service!Init
    OBVIOUS
  <2>1. \A g \in Goals : ~Holding(g)
    BY DEF Init, Holding, HoldingStates
  <2> QED
    BY <2>1 DEF Init, Service!Init, Holder, Life
<1> QED
  BY <1>1, StepKeepsPromise, TypesInvariance, RunsAreExclusive, PTL
     DEF Spec, KeepsCoveragePromise, Service!Spec

(***************************************************************************)
(* Stopping promptly                                                       *)
(***************************************************************************)

LEMMA LateStep == TInv /\ LateIsNoticed /\ [Next]_vars => LateIsNoticed'
<1> SUFFICES ASSUME TInv, LateIsNoticed, [Next]_vars PROVE LateIsNoticed'
  OBVIOUS
<1> USE DEF TInv, GoalTypes, MachineTypes, LateIsNoticed, Stopping
<1>1. ASSUME NEW g \in Goals, AcceptGoal(g)
      PROVE  LateIsNoticed'
  BY <1>1 DEF AcceptGoal, RunFollowsGoal
<1>2. ASSUME NEW g \in Goals, RejectGoal(g) \/ HandleCancel(g)
      PROVE  LateIsNoticed'
  BY <1>2 DEF RejectGoal, HandleCancel, RunFollowsGoal
<1>3. CASE DockCallback
  BY <1>3 DEF DockCallback, goalVars, Sensors
<1>4. CASE KidnapCallback
  BY <1>4 DEF KidnapCallback, goalVars, Sensors
<1>5. ASSUME NEW r \in Requests,
             ResponseArrives(r) \/ ResponseAssigned(r) \/ ResultArrives(r) \/ ResultAssigned(r)
               \/ Serve(r)
      PROVE  LateIsNoticed'
  BY <1>5 DEF ResponseArrives, ResponseAssigned, ResultArrives, ResultAssigned, Serve, goalVars
<1>6. ASSUME NEW g \in Goals, SetUp(g)
      PROVE  LateIsNoticed'
  <2>1. /\ run[g] = "setup"
        /\ run' = [run EXCEPT ![g] = "loop"] \/ UNCHANGED run
        /\ UNCHANGED <<goal_status, sensors, data, late>>
    BY <1>6 DEF SetUp
  <2> QED
    BY <2>1
<1>7. ASSUME NEW g \in Goals, ReadSensors(g)
      PROVE  LateIsNoticed'
  BY <1>7 DEF ReadSensors
<1>8. ASSUME NEW g \in Goals, CheckStop(g)
      PROVE  LateIsNoticed'
  BY <1>8 DEF CheckStop, Leave
<1>9. ASSUME NEW g \in Goals, EndRun(g)
      PROVE  LateIsNoticed'
  BY <1>9 DEF EndRun, Leave
<1>10. ASSUME NEW g \in Goals, Execute(g)
       PROVE  LateIsNoticed'
  <2>1. /\ \/ run' = [run EXCEPT ![g] = "end"] /\ UNCHANGED late
           \/ /\ run' = [run EXCEPT ![g] = "loop"]
              /\ late' = [late EXCEPT ![g] = IF Stopping(g) THEN @ + 1 ELSE 0]
        /\ data' = [data EXCEPT ![g] = Calm]
        /\ UNCHANGED <<goal_status, sensors>>
    BY <1>10, ExecuteCases DEF Execute
  <2>2. late[g] = 0
    BY <1>10 DEF Execute
  <2> QED
    BY <2>1, <2>2
<1>11. ASSUME NEW g \in Goals, CleanUp(g)
       PROVE  LateIsNoticed'
  BY <1>11 DEF CleanUp, Forget
<1>12. ASSUME NEW g \in Goals, Finish(g)
       PROVE  LateIsNoticed'
  BY <1>12 DEF Finish, Forget
<1>13. ASSUME NEW g \in Goals, Elapse(g)
       PROVE  LateIsNoticed'
  BY <1>13 DEF Elapse, goalVars
<1>14. CASE UNCHANGED vars
  BY <1>14 DEF vars, goalVars
<1> QED
  BY <1>1, <1>2, <1>3, <1>4, <1>5, <1>6, <1>7, <1>8, <1>9, <1>10, <1>11, <1>12, <1>13, <1>14
     DEF Next, Executor, Run

\* A run executes a behavior at most once more after it was asked to cancel or the robot
\* was picked up.
THEOREM RunsStopPromptly == Spec => []StopsPromptly
<1>1. Init => LateIsNoticed
  BY DEF Init, LateIsNoticed
<1>2. LateIsNoticed => StopsPromptly
  BY DEF LateIsNoticed, StopsPromptly
<1> QED
  BY <1>1, <1>2, LateStep, TypesInvariance, PTL DEF Spec

(***************************************************************************)
(* Giving up                                                               *)
(***************************************************************************)

\* The failures counted when a run looks at machine m next, if they were n.
CountedAfter(m, n) ==
  IF m.behavior # "drive_straight" \/ m.state = "running" THEN n
  ELSE IF m.state = "success" THEN 0
  ELSE IF m.undocking THEN n ELSE n + 1

\* A machine that goes on has counted every failure to drive away, whatever its limits.
LEMMA SelectCounts ==
  ASSUME NEW m \in Machines, NEW d \in Sensors, NEW e \in Clocks, NEW n \in Nat,
         m.evade_attempts <= MaxEvadeAttempts + 1,
         m.output = "running",
         n <= m.evade_attempts \/ m.behavior = "dock",
         NEW picked \in Machines, picked = Select(m, d, e)
  PROVE  /\ picked.evade_attempts <= MaxEvadeAttempts + 1
         /\ \/ CountedAfter(m, n) <= picked.evade_attempts
            \/ picked.output # "running"
            \/ picked.behavior = "dock"
<1> USE EvadeAssumption
<1>1. \A k \in Machines, b \in Behaviors : /\ Goto(k, b).behavior = b
                                           /\ Goto(k, b).evade_attempts = k.evade_attempts
  BY DEF Machines, Goto
<1>2. \A k \in Machines, s \in States : /\ End(k, s).evade_attempts = k.evade_attempts
                                        /\ End(k, s).output = s
  BY DEF Machines, End
<1>3. m.evade_attempts \in Nat /\ m.behavior \in Behaviors \cup {"none"} /\ m.state \in States
  BY DEF Machines
<1>4. CASE m.behavior = "none"
  <2>1. [m EXCEPT !.undocking = TRUE] \in Machines
    BY DEF Machines
  <2>2. picked.evade_attempts = m.evade_attempts
    <3>1. [m EXCEPT !.undocking = TRUE].evade_attempts = m.evade_attempts
      BY DEF Machines
    <3> QED
      BY <1>1, <1>4, <2>1, <3>1 DEF Select, SelectStart, Behaviors, DockingBehaviors
  <2> QED
    BY <1>3, <1>4, <2>2 DEF CountedAfter
<1>5. CASE m.behavior # "none" /\ m.state = "running"
  <2>1. picked.evade_attempts = m.evade_attempts /\ picked.behavior = m.behavior
    BY <1>1, <1>3, <1>5 DEF Select, SelectNext
  <2> QED
    BY <1>3, <1>5, <2>1 DEF CountedAfter
<1>6. CASE m.behavior # "none" /\ m.state # "running"
  <2>1. CASE e.max_runtime
    <3>1. picked = End(m, "success")
      BY <1>6, <2>1 DEF Select, SelectNext
    <3> QED
      BY <1>2, <3>1 DEF States
  <2>2. CASE ~e.max_runtime /\ m.behavior # "dock" /\ e.explore /\ d.dock_visible
    <3>1. picked = Goto(m, "dock")
      BY <1>6, <2>2 DEF Select, SelectNext
    <3> QED
      BY <1>1, <3>1 DEF Behaviors, DockingBehaviors
  <2>3. CASE picked = AfterBehavior(m, d.is_docked, e)
    <3>1. CASE m.behavior = "dock"
      <4>1. picked = End(m, "failure") \/ picked = End(m, "success")
        BY <2>3, <3>1 DEF AfterBehavior, AfterDock
      <4> QED
        BY <1>2, <4>1 DEF States
    <3>2. CASE m.behavior = "undock"
      <4>1. picked = End(m, "failure") \/ picked = Goto(m, "drive_straight")
        BY <2>3, <3>2 DEF AfterBehavior, AfterUndock
      <4> QED
        BY <1>1, <1>2, <1>3, <3>2, <4>1 DEF States, Behaviors, CountedAfter
    <3>3. CASE m.behavior = "rotate"
      <4>1. Goto([m EXCEPT !.preparing_spiral = @ \/ e.spiral], "drive_straight").evade_attempts
              = m.evade_attempts
        BY DEF Machines, Goto
      <4>2. \/ picked = End(m, "failure")
            \/ picked = Goto([m EXCEPT !.preparing_spiral = @ \/ e.spiral], "drive_straight")
        BY <2>3, <3>3 DEF AfterBehavior, AfterRotate
      <4>3. picked.evade_attempts = m.evade_attempts
        BY <1>2, <4>1, <4>2 DEF States
      <4> QED
        BY <1>3, <3>3, <4>3 DEF CountedAfter
    <3>4. CASE m.behavior = "spiral"
      <4>1. picked = Goto(m, "drive_straight") \/ picked = Goto(m, "rotate")
        BY <2>3, <3>4 DEF AfterBehavior, AfterSpiral
      <4> QED
        BY <1>1, <1>3, <3>4, <4>1 DEF Behaviors, CountedAfter
    <3>5. CASE m.behavior = "drive_straight"
      <4>1. picked = AfterDrive(m)
        BY <2>3, <3>5 DEF AfterBehavior
      <4>2. CASE m.undocking
        <5>1. Goto([m EXCEPT !.undocking = FALSE], "spiral").evade_attempts = m.evade_attempts
          BY DEF Machines, Goto
        <5>2. picked = Goto([m EXCEPT !.undocking = FALSE], "spiral")
          BY <4>1, <4>2 DEF AfterDrive
        <5>3. picked.evade_attempts = m.evade_attempts
          BY <5>1, <5>2
        <5>4. CountedAfter(m, n) = n \/ CountedAfter(m, n) = 0
          BY <4>2 DEF CountedAfter
        <5> QED
          BY <1>3, <3>5, <5>3, <5>4
      <4>3. CASE ~m.undocking /\ m.state = "success"
        <5>1. CountedAfter(m, n) = 0
          BY <3>5, <4>3 DEF CountedAfter
        <5>2. Goto([m EXCEPT !.preparing_spiral = FALSE], "spiral").evade_attempts = m.evade_attempts
          BY DEF Machines, Goto
        <5>3. Goto([m EXCEPT !.evade_attempts = 0], "rotate").evade_attempts = 0
          BY DEF Machines, Goto
        <5>4. picked.evade_attempts = m.evade_attempts \/ picked.evade_attempts = 0
          BY <4>1, <4>3, <5>2, <5>3 DEF AfterDrive
        <5> QED
          BY <1>3, <5>1, <5>4
      <4>4. CASE ~m.undocking /\ m.state = "failure"
        <5>1. CountedAfter(m, n) = n + 1
          BY <3>5, <4>4 DEF CountedAfter
        <5>2. CASE m.evade_attempts > MaxEvadeAttempts
          <6>1. picked = End(m, "failure")
            BY <4>1, <4>4, <5>2 DEF AfterDrive
          <6> QED
            BY <1>2, <6>1 DEF States
        <5>3. CASE ~(m.evade_attempts > MaxEvadeAttempts)
          <6>1. Goto([m EXCEPT !.evade_attempts = @ + 1], "rotate").evade_attempts
                  = m.evade_attempts + 1
            BY DEF Machines, Goto
          <6>2. picked = Goto([m EXCEPT !.evade_attempts = @ + 1], "rotate")
            BY <4>1, <4>4, <5>3 DEF AfterDrive
          <6>3. picked.evade_attempts = m.evade_attempts + 1
            BY <6>1, <6>2
          <6> QED
            BY <1>3, <3>5, <5>1, <5>3, <6>3
        <5> QED
          BY <5>2, <5>3
      <4> QED
        BY <1>3, <1>6, <4>2, <4>3, <4>4 DEF States
    <3> QED
      BY <1>3, <1>6, <3>1, <3>2, <3>3, <3>4, <3>5 DEF Behaviors, DockingBehaviors
  <2> QED
    BY <1>6, <2>1, <2>2, <2>3 DEF Select, SelectNext
<1> QED
  BY <1>4, <1>5, <1>6

LEMMA AttemptsStep == TInv /\ AttemptsCountFailures /\ [Next]_vars => AttemptsCountFailures'
<1> SUFFICES ASSUME TInv, AttemptsCountFailures, [Next]_vars PROVE AttemptsCountFailures'
  OBVIOUS
<1>1. ASSUME NEW g \in Goals, Execute(g)
      PROVE  AttemptsCountFailures'
  <2>1. PICK picked \in Machines :
          /\ picked = Select(machine[g], data[g], elapsed[g])
          /\ \/ /\ picked.output # "running"
                /\ machine' = [machine EXCEPT ![g] = picked]
                /\ run' = [run EXCEPT ![g] = "end"]
             \/ /\ picked.output = "running"
                /\ \E s \in States : machine' = [machine EXCEPT ![g] = [picked EXCEPT !.state = s]]
                /\ run' = [run EXCEPT ![g] = "loop"]
    BY <1>1, ExecuteCases
  <2>2. /\ machine'[g].evade_attempts = picked.evade_attempts
        /\ machine'[g].behavior = picked.behavior
        /\ machine'[g].output = picked.output
        /\ \A h \in Goals \ {g} : machine'[h] = machine[h] /\ InLoop(h)' = InLoop(h)
        /\ InLoop(g)' => picked.output = "running"
    BY <2>1 DEF TInv, GoalTypes, MachineTypes, Machines, InLoop
  <2>3. failures' = [failures EXCEPT ![g] = CountedAfter(machine[g], failures[g])]
    BY <1>1 DEF Execute, FailuresAfter, CountedAfter
  <2>4. InLoop(g)
    BY <1>1 DEF Execute, InLoop
  <2>5. /\ machine[g] \in Machines /\ data[g] \in Sensors /\ elapsed[g] \in Clocks
        /\ failures[g] \in Nat
    BY DEF TInv, MachineTypes
  <2>6. /\ picked.evade_attempts <= MaxEvadeAttempts + 1
        /\ \/ CountedAfter(machine[g], failures[g]) <= picked.evade_attempts
           \/ picked.output # "running"
           \/ picked.behavior = "dock"
    BY <2>1, <2>4, <2>5, SelectCounts DEF AttemptsCountFailures
  <2> QED
    BY <2>2, <2>3, <2>6 DEF AttemptsCountFailures, TInv, MachineTypes
<1>2. ASSUME NEW g \in Goals, CleanUp(g) \/ Finish(g)
      PROVE  AttemptsCountFailures'
  <2>1. /\ machine' = [machine EXCEPT ![g] = NewMachine]
        /\ failures' = [failures EXCEPT ![g] = 0]
        /\ \A h \in Goals \ {g} : InLoop(h)' = InLoop(h)
    BY <1>2 DEF CleanUp, Finish, Forget, InLoop, TInv, GoalTypes
  <2> QED
    BY <2>1, EvadeAssumption DEF AttemptsCountFailures, NewMachine, TInv, MachineTypes
<1>3. ASSUME UNCHANGED <<machine, failures>>, \A g \in Goals : InLoop(g)' => InLoop(g)
      PROVE  AttemptsCountFailures'
  BY <1>3 DEF AttemptsCountFailures
<1>4. ASSUME NEW g \in Goals, AcceptGoal(g) \/ RejectGoal(g) \/ HandleCancel(g) \/ Elapse(g)
      PROVE  UNCHANGED <<machine, failures>> /\ \A h \in Goals : InLoop(h)' => InLoop(h)
  BY <1>4 DEF AcceptGoal, RejectGoal, HandleCancel, Elapse, goalVars, InLoop, TInv, GoalTypes,
     RunFollowsGoal
<1>5. ASSUME NEW r \in Requests,
             ResponseArrives(r) \/ ResponseAssigned(r) \/ ResultArrives(r) \/ ResultAssigned(r)
               \/ Serve(r)
      PROVE  UNCHANGED <<machine, failures>> /\ \A h \in Goals : InLoop(h)' => InLoop(h)
  BY <1>5 DEF ResponseArrives, ResponseAssigned, ResultArrives, ResultAssigned, Serve, goalVars, InLoop
<1>6. ASSUME NEW g \in Goals, SetUp(g) \/ ReadSensors(g) \/ CheckStop(g) \/ EndRun(g)
      PROVE  UNCHANGED <<machine, failures>> /\ \A h \in Goals : InLoop(h)' => InLoop(h)
  <2>1. UNCHANGED <<machine, failures>>
    BY <1>6 DEF SetUp, ReadSensors, CheckStop, EndRun
  <2>2. InLoop(g) \/ ~InLoop(g)'
    BY <1>6 DEF SetUp, ReadSensors, CheckStop, EndRun, Leave, InLoop, TInv, GoalTypes
  <2>3. \A h \in Goals \ {g} : run'[h] = run[h]
    BY <1>6 DEF SetUp, ReadSensors, CheckStop, EndRun, Leave, TInv, GoalTypes
  <2> QED
    BY <2>1, <2>2, <2>3 DEF InLoop
<1>7. CASE DockCallback \/ KidnapCallback \/ UNCHANGED vars
  <2>1. UNCHANGED <<machine, failures>> /\ \A h \in Goals : InLoop(h)' => InLoop(h)
    BY <1>7 DEF DockCallback, KidnapCallback, vars, goalVars, InLoop
  <2> QED
    BY <2>1, <1>3
<1> QED
  BY <1>1, <1>2, <1>3, <1>4, <1>5, <1>6, <1>7 DEF Next, Executor, Run

\* A run that keeps failing to drive away from an obstacle stops exploring.
THEOREM EvadingEnds == Spec => []EvadingIsBounded
<1>1. Init => AttemptsCountFailures
  BY EvadeAssumption DEF Init, AttemptsCountFailures, NewMachine
<1>2. TInv /\ AttemptsCountFailures => EvadingIsBounded
  <2> SUFFICES ASSUME TInv, AttemptsCountFailures, NEW g \in Goals,
                      failures[g] > MaxEvadeAttempts + 1,
                      machine[g].output = "running", machine[g].behavior # "dock"
               PROVE  FALSE
    BY DEF EvadingIsBounded
  <2>1. failures[g] \in Nat /\ machine[g].evade_attempts \in Nat
    BY DEF TInv, MachineTypes, Machines
  <2>2. failures[g] <= machine[g].evade_attempts /\ machine[g].evade_attempts <= MaxEvadeAttempts + 1
    BY DEF AttemptsCountFailures
  <2> QED
    BY <2>1, <2>2, EvadeAssumption
<1> QED
  BY <1>1, <1>2, AttemptsStep, TypesInvariance, PTL DEF Spec
=============================================================================
