CONSTANTS
  arc = arc
  undock = undock
  wall = wall
  cliff = cliff
  NoGoal = NoGoal
  Goals = {arc, undock, wall}
  ServerOf <- MCServerOf
  Hazards = {cliff}
  TypeOf <- MCTypeOf
  EnabledReflexes = {"bump", "cliff"}
  Full = 8
  TurnSpeed = 2
  DriveSpeed = 2
  SlowAngle = 3
  SlowDistance = 2
  Converged = 1
  LineEnd = 2
  DriveRequests <- MCDriveRequests
  IrVectors <- MCIrVectors
  WfFull = 4
  LostTime = 2
  WidestSpiral = 4
  TurnsEnd = 4
  DockFull = 8
  Contact = 2
  Observed = 2
  DockApproach = 2
  UndockOffset = 2
  Places <- MCPlaces
  FullCharge = 12
  EmptyCharge = 1
  Charging = 3
  Driving = 2
  Idle = 1
  BatteryTime = 5
SPECIFICATION MCSpec
CHECK_DEADLOCK FALSE
INVARIANTS
  PartTypesOK
  FollowsThisWall
PROPERTIES
  SlotIsReleased
  CancelEndsGoal
  EndsWhereAsked
  DriveGoalEnds
  LostWallGivenUp
  FollowsDockPath
  ChargeFollowsDock
