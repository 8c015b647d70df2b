CONSTANTS
  arc1 = arc1
  arc2 = arc2
  rotate = rotate
  dock = dock
  undock = undock
  wall = wall
  bump = bump
  cliff = cliff
  NoGoal = NoGoal
  Goals = {arc1, arc2}
  ServerOf <- MCServerOf
  Hazards = {}
  TypeOf <- MCTypeOf
  EnabledReflexes = {"bump", "cliff"}
SPECIFICATION Spec
CHECK_DEADLOCK FALSE
INVARIANT ActiveGoalScheduled
