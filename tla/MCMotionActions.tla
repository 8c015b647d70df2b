-------------------------- MODULE MCMotionActions ---------------------------
EXTENDS MotionActions, TLC

CONSTANTS arc1, arc2, rotate, dock, undock, wall, bump, cliff

\* two goals of one drive server, one of another, and one of each other server
MCServerOf ==
  [g \in Goals |->
     CASE g \in {arc1, arc2} -> "drive_arc"
       [] g = rotate -> "rotate_angle"
       [] g = dock -> "dock"
       [] g = undock -> "undock"
       [] g = wall -> "wall_follow"]

\* two hazards with a reflex, of which one also aborts drive goals
MCTypeOf == [h \in Hazards |-> IF h = bump THEN "bump" ELSE "cliff"]

\* the two goals of one server are interchangeable
GoalSymmetry == Permutations({arc1, arc2})
=============================================================================
