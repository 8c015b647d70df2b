CONSTANTS
  dock = dock
  bump = bump
  cliff = cliff
  NoGoal = NoGoal
  Goals = {dock}
  ServerOf <- MCServerOf
  Hazards = {cliff}
  TypeOf <- MCTypeOf
  EnabledReflexes = {"bump", "cliff"}
  Speeds <- MCSpeeds
  BackupStop = 2
  SafetyOnSpeed = 1
  SafetyOffSpeed = 2
  PoseBound = 2
  ParameterLists <- ModeLists
  ReflexHazards = {bump, cliff}
  KindOf <- MCKindOf
  ReflexLists <- MCReflexLists
  MinReflex = 0
  MaxReflex = 1
  MaxContinuous = 2
  TrackEnd = 2
SPECIFICATION MCSpec
CHECK_DEADLOCK FALSE
INVARIANTS
  NodeTypeOK
  ReflexIsContained
PROPERTIES
  BackupLimitHolds
  SilenceStopsRobot
  ServesActions
  TeleopNotReplayed
  NoMotionAfterContinuousTime
  ReflexEnds
