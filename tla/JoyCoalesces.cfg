CONSTANTS
  UserGoals = {g1}
  JoyConfs <- MCJoyConfs
  TeleopConfs <- MCTeleopConfs
  JoyButtons = {"enable"}
  EnableButton = "enable"
  TurboButton = "enable"
  StickPlaces <- MCStickPlaces
  HatPlaces <- MCHatPlaces
  StickEnd = 2
  DeadZone = 1
  IdleWait = 1
  SdlQueue = 2
  JoyDepth = 1
  CmdVels <- MCCmdVels
  StampAges <- MCStampAges
  CmdVelTimeout = 1
  MaxVel = 2
  MaxAccel = 1
  OtherByte = 0
  ParamLengths = {5, 7}
  MotionConfigs <- MCMotionConfigs
  OpcodeBuffers <- MCOpcodeBuffers
  FullTurn = 8
  MotionStep = 2
  BackupDistance = 1
  MaxHazardRetries = 1
  ClearHazardTime = 1
  SpiralDuration = 3
  RadiusInterval = 1
  InitialRadius = 1
  RadiusIncrement = 1
  PlaceEnd = 7
  TurnEnd = 9
  FirstWheels <- MCFirstWheels
  TbFullTurn = 8
  DriveSteps = 3
  TbDepth = 2
SPECIFICATION MCSpec
CHECK_DEADLOCK FALSE
PROPERTY AxisEventsCoalesce
