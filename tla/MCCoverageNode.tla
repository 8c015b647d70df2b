--------------------------- MODULE MCCoverageNode ---------------------------
EXTENDS CoverageNode, TLC

CONSTANTS first, second

GoalSymmetry == Permutations({first, second})

\* The steps that each run leaves out to stay small.

\* Two runs undock or spiral for ever, see no dock and stay on the ground.
UndocksOnly ==
  /\ UNCHANGED elapsed
  /\ ~sensors'.dock_visible /\ ~sensors'.is_kidnapped
  /\ \A g \in Goals : \/ machine'[g].behavior \in {"none", "undock"}
                      \/ machine'[g].behavior = "spiral" /\ machine'[g].state = "running"

\* A run is canceled, or picked up, before any of its durations elapses.
StopsEarly ==
  \A g \in Goals :
    \/ goal_status'[g] # "canceling" /\ ~sensors'.is_kidnapped
    \/ elapsed'[g] = NothingElapsed /\ machine'[g].evade_attempts = 0
=============================================================================
