---------------------------- MODULE Republisher -----------------------------
(***************************************************************************)
(* The republisher (create3_republisher/republisher.cpp): its action       *)
(* servers accept every goal and forward it, each in a thread of its own,  *)
(* to the server of the robot, which answers late or never, and rejects,  *)
(* ends or cancels a goal as it likes. Its services and topics, which keep *)
(* nothing, are left out.                                                  *)
(***************************************************************************)
CONSTANT UserGoals   \* the goals clients send to the republisher

VARIABLES
  user_goal,      \* the state of user_goal_handle
  forwarder,      \* where the thread of the goal is
  robot_goal,     \* the goal at the robot
  robot_answer,   \* robot_goal_handle_fut: "none", "handle" or "rejected"
  robot_result,   \* result_fut: "none" or the code
  robot_cancel,   \* async_cancel_goal was called
  goal_overdue,   \* actions_timeout_sec has passed since the goal was accepted
  republisher_up  \* no thread has crashed

republisherVars == <<user_goal, forwarder, robot_goal, robot_answer, robot_result, robot_cancel,
                     goal_overdue, republisher_up>>

Outcomes == {"succeeded", "aborted", "canceled"}
UserActive == {"executing", "canceling"}

RepublisherInit ==
  /\ user_goal = [g \in UserGoals |-> "none"]
  /\ forwarder = [g \in UserGoals |-> "none"]
  /\ robot_goal = [g \in UserGoals |-> "none"]
  /\ robot_answer = [g \in UserGoals |-> "none"]
  /\ robot_result = [g \in UserGoals |-> "none"]
  /\ robot_cancel = [g \in UserGoals |-> FALSE]
  /\ goal_overdue = [g \in UserGoals |-> FALSE]
  /\ republisher_up = TRUE

-----------------------------------------------------------------------------
\* The accepted callback of the server starts the thread, which sends the goal on.
ForwardGoal(g) ==
  /\ user_goal[g] = "none"
  /\ user_goal' = [user_goal EXCEPT ![g] = "executing"]
  /\ forwarder' = [forwarder EXCEPT ![g] = "awaiting_handle"]
  /\ robot_goal' = [robot_goal EXCEPT ![g] = "sent"]
  /\ UNCHANGED <<robot_answer, robot_result, robot_cancel, goal_overdue, republisher_up>>

UserCancels(g) ==
  /\ user_goal[g] = "executing"
  /\ user_goal' = [user_goal EXCEPT ![g] = "canceling"]
  /\ UNCHANGED <<forwarder, robot_goal, robot_answer, robot_result, robot_cancel, goal_overdue, republisher_up>>

\* The thread returns: "given_up" without a handle, "over" with one.
EndUserGoal(g, outcome, end) ==
  /\ user_goal' = [user_goal EXCEPT ![g] = outcome]
  /\ forwarder' = [forwarder EXCEPT ![g] = end]

\* Mutant: the first loop waits for the robot for as long as it takes.
AwaitHandlePatiently(g) ==
  /\ forwarder[g] = "awaiting_handle"
  /\ \/ /\ user_goal[g] = "canceling"
        /\ EndUserGoal(g, "canceled", "given_up")
     \/ /\ user_goal[g] # "canceling" /\ robot_answer[g] = "handle"
        /\ forwarder' = [forwarder EXCEPT ![g] = "awaiting_result"]
        /\ UNCHANGED user_goal
  /\ UNCHANGED <<robot_goal, robot_answer, robot_result, robot_cancel, goal_overdue,
                 republisher_up>>

\* The first loop of the thread. A goal that ends here leaves the goal of the robot alone,
\* and a goal the robot rejects has no handle to ask a result with: the thread crashes.
AwaitHandle(g) ==
  /\ forwarder[g] = "awaiting_handle"
  /\ \/ /\ goal_overdue[g]
        /\ EndUserGoal(g, "aborted", "given_up") /\ UNCHANGED republisher_up
     \/ /\ ~goal_overdue[g] /\ user_goal[g] = "canceling"
        /\ EndUserGoal(g, "canceled", "given_up") /\ UNCHANGED republisher_up
     \/ /\ ~goal_overdue[g] /\ user_goal[g] # "canceling" /\ robot_answer[g] = "handle"
        /\ forwarder' = [forwarder EXCEPT ![g] = "awaiting_result"]
        /\ UNCHANGED <<user_goal, republisher_up>>
     \/ /\ ~goal_overdue[g] /\ user_goal[g] # "canceling" /\ robot_answer[g] = "rejected"
        /\ republisher_up' = FALSE
        /\ UNCHANGED <<user_goal, forwarder>>
  /\ UNCHANGED <<robot_goal, robot_answer, robot_result, robot_cancel, goal_overdue>>

\* The client of the robot's server forgets a goal soon after its result: a cancel throws then,
\* and the thread crashes.
CancelThrows(g) ==
  /\ robot_result[g] # "none"
  /\ republisher_up' = FALSE
  /\ UNCHANGED <<user_goal, forwarder, robot_cancel>>

CancelAtRobot(g) ==
  /\ robot_cancel' = [robot_cancel EXCEPT ![g] = TRUE]
  /\ UNCHANGED republisher_up

TakeResult(g) ==
  /\ ~goal_overdue[g] /\ user_goal[g] # "canceling" /\ robot_result[g] # "none"
  /\ forwarder' = [forwarder EXCEPT ![g] = "ending"]
  /\ UNCHANGED <<user_goal, robot_cancel, republisher_up>>

\* Mutant: the goal that is late is not cancelled at the robot.
AwaitResultNoCancel(g) ==
  /\ forwarder[g] = "awaiting_result"
  /\ \/ /\ goal_overdue[g]
        /\ EndUserGoal(g, "aborted", "over") /\ UNCHANGED <<robot_cancel, republisher_up>>
     \/ /\ ~goal_overdue[g] /\ user_goal[g] = "canceling"
        /\ CancelAtRobot(g) /\ EndUserGoal(g, "canceled", "over")
     \/ ~goal_overdue[g] /\ user_goal[g] = "canceling" /\ CancelThrows(g)
     \/ TakeResult(g)
  /\ UNCHANGED <<robot_goal, robot_answer, robot_result, goal_overdue>>

\* The second loop: here the goal of the robot is cancelled with the goal of the client.
AwaitResult(g) ==
  /\ forwarder[g] = "awaiting_result"
  /\ \/ /\ goal_overdue[g]
        /\ CancelAtRobot(g) /\ EndUserGoal(g, "aborted", "over")
     \/ /\ ~goal_overdue[g] /\ user_goal[g] = "canceling"
        /\ CancelAtRobot(g) /\ EndUserGoal(g, "canceled", "over")
     \/ (goal_overdue[g] \/ user_goal[g] = "canceling") /\ CancelThrows(g)
     \/ TakeResult(g)
  /\ UNCHANGED <<robot_goal, robot_answer, robot_result, goal_overdue>>

\* Mutant: the code of the result is not looked at.
EndWithResultUnread(g) ==
  /\ forwarder[g] = "ending"
  /\ EndUserGoal(g, "succeeded", "over")
  /\ UNCHANGED <<robot_goal, robot_answer, robot_result, robot_cancel, goal_overdue,
                 republisher_up>>

\* After the loops, when the client may have cancelled in the meantime
EndWithResult(g) ==
  /\ forwarder[g] = "ending"
  /\ EndUserGoal(g, IF robot_result[g] = "succeeded" THEN "succeeded" ELSE "aborted", "over")
  /\ UNCHANGED <<robot_goal, robot_answer, robot_result, robot_cancel, goal_overdue,
                 republisher_up>>

ForwarderStep(g) == AwaitHandle(g) \/ AwaitResult(g) \/ EndWithResult(g)

GoalTimesOut(g) ==
  /\ user_goal[g] \in UserActive /\ ~goal_overdue[g]
  /\ goal_overdue' = [goal_overdue EXCEPT ![g] = TRUE]
  /\ UNCHANGED <<user_goal, forwarder, robot_goal, robot_answer, robot_result, robot_cancel, republisher_up>>

-----------------------------------------------------------------------------
\* The robot, and its answers on the way back.
RobotDecides(g) ==
  /\ \/ /\ robot_goal[g] = "sent"
        /\ \E s \in {"running", "rejected"} : robot_goal' = [robot_goal EXCEPT ![g] = s]
     \/ /\ robot_goal[g] = "running"
        /\ \E s \in Outcomes : /\ s = "canceled" => robot_cancel[g]
                              /\ robot_goal' = [robot_goal EXCEPT ![g] = s]
  /\ UNCHANGED <<user_goal, forwarder, robot_answer, robot_result, robot_cancel, goal_overdue, republisher_up>>

AnswerArrives(g) ==
  /\ \/ /\ robot_goal[g] \notin {"none", "sent"} /\ robot_answer[g] = "none"
        /\ robot_answer' = [robot_answer EXCEPT ![g] = IF robot_goal[g] = "rejected" THEN "rejected" ELSE "handle"]
        /\ UNCHANGED robot_result
     \/ /\ forwarder[g] = "awaiting_result" /\ robot_goal[g] \in Outcomes /\ robot_result[g] = "none"
        /\ robot_result' = [robot_result EXCEPT ![g] = robot_goal[g]]
        /\ UNCHANGED robot_answer
  /\ UNCHANGED <<user_goal, forwarder, robot_goal, robot_cancel, goal_overdue, republisher_up>>

-----------------------------------------------------------------------------
RepublisherNext ==
  /\ republisher_up
  /\ \E g \in UserGoals :
       \/ ForwardGoal(g) \/ UserCancels(g) \/ ForwarderStep(g) \/ GoalTimesOut(g)
       \/ RobotDecides(g) \/ AnswerArrives(g)

RepublisherSpec == RepublisherInit /\ [][RepublisherNext]_republisherVars

RepublisherTypeOK ==
  /\ user_goal \in [UserGoals -> {"none"} \cup UserActive \cup Outcomes]
  /\ forwarder \in [UserGoals -> {"none", "awaiting_handle", "awaiting_result", "ending", "given_up", "over"}]
  /\ robot_goal \in [UserGoals -> {"none", "sent", "rejected", "running"} \cup Outcomes]
  /\ robot_answer \in [UserGoals -> {"none", "handle", "rejected"}]
  /\ robot_result \in [UserGoals -> {"none"} \cup Outcomes]
  /\ robot_cancel \in [UserGoals -> BOOLEAN] /\ goal_overdue \in [UserGoals -> BOOLEAN]
  /\ republisher_up \in BOOLEAN

\* A client is told that its goal succeeded only when the goal of the robot has, whatever
\* the robot, the timeout and a cancel do at the same time.
SuccessIsTheRobots ==
  \A g \in UserGoals : user_goal[g] = "succeeded" => robot_goal[g] = "succeeded"

\* Once the republisher holds the handle of a goal, the client's goal does not end by a
\* cancel or a timeout while the robot goes on unasked.
RobotToldToStop ==
  \A g \in UserGoals : forwarder[g] = "over" => robot_goal[g] # "running" \/ robot_cancel[g]

\* Every goal ends for its client in time, although the robot may never answer: the thread
\* of the goal keeps looking and the time passes.
UserGoalEnds ==
  \A g \in UserGoals :
    user_goal[g] \in UserActive ~> (user_goal[g] \in Outcomes \/ ~republisher_up)

\* Client and robot agree on how a goal ended.
ClientToldTheTruth == SuccessIsTheRobots /\ RobotToldToStop
=============================================================================
