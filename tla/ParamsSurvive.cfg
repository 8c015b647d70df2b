CONSTANTS
  OtherByte = 0
  ParamLengths = {5, 7}
SPECIFICATION ByteStuffingSpec
CHECK_DEADLOCK FALSE
INVARIANT ParamsSurvive
