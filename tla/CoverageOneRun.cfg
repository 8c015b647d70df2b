CONSTANTS
  first = first
  second = second
  NoRequest = NoRequest
  Goals = {first}
  MaxEvadeAttempts = 1
SPECIFICATION FairSpec
CHECK_DEADLOCK FALSE
ACTION_CONSTRAINT StopsEarly
INVARIANTS
  TypeOK
  StopsPromptly
  EvadingIsBounded
PROPERTIES
  CancelEndsRun
  MaxRuntimeEndsRun
