CONSTANTS
  arc1 = arc1
  arc2 = arc2
  rotate = rotate
  dock = dock
  undock = undock
  wall = wall
  bump = bump
  cliff = cliff
  NoGoal = NoGoal
  Goals = {dock}
  ServerOf <- MCServerOf
  Hazards = {bump, cliff}
  TypeOf <- MCTypeOf
  EnabledReflexes = {"bump", "cliff"}
SPECIFICATION Spec
CHECK_DEADLOCK FALSE
INVARIANT ContinuousStartKnown
