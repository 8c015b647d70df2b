--------------------------- MODULE MotionService ----------------------------
(***************************************************************************)
(* What the motion control node promises the clients of its action         *)
(* servers: the robot serves one goal, or one reflex, at a time. A goal is *)
(* turned down at once or served; while it is served only a stoppable goal *)
(* can be displaced, and then it ends; no goal is served twice.            *)
(***************************************************************************)
CONSTANTS
  Goals,      \* goals clients may send
  Stoppable,  \* goals a new goal or a reflex may displace
  Free,       \* the holder when the robot serves no goal and no reflex
  Reflex      \* the holder during a reflex

VARIABLES
  holder,  \* what the robot is serving
  life     \* "new", "served" or "over", for each goal

Init == /\ holder = Free
        /\ life = [g \in Goals |-> "new"]

\* The life of the goals once the present holder is over.
Over == [g \in Goals |-> IF g = holder THEN "over" ELSE life[g]]

Yields == holder = Free \/ holder \in Stoppable

TurnDown(g) == /\ life[g] = "new"
               /\ life' = [life EXCEPT ![g] = "over"]
               /\ UNCHANGED holder

Serve(g) == /\ life[g] = "new"
            /\ Yields
            /\ holder' = g
            /\ life' = [Over EXCEPT ![g] = "served"]

StartReflex == /\ Yields
               /\ holder' = Reflex
               /\ life' = Over

Release == /\ holder # Free
           /\ holder' = Free
           /\ life' = Over

Next == \/ \E g \in Goals : TurnDown(g) \/ Serve(g)
        \/ StartReflex
        \/ Release

Spec == Init /\ [][Next]_<<holder, life>>
=============================================================================
