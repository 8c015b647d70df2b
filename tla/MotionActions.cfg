CONSTANTS
  arc1 = arc1
  arc2 = arc2
  rotate = rotate
  dock = dock
  undock = undock
  wall = wall
  bump = bump
  cliff = cliff
  NoGoal = NoGoal
  Goals = {arc1, arc2, dock, wall}
  ServerOf <- MCServerOf
  Hazards = {cliff}
  TypeOf <- MCTypeOf
  EnabledReflexes = {"bump", "cliff"}
SPECIFICATION Spec
SYMMETRY GoalSymmetry
CHECK_DEADLOCK FALSE
INVARIANTS
  TypeOK
  OneActiveGoal
  ServersAgreeWithSlot
PROPERTIES
  KeepsServicePromise
  CancelIsHonoured
