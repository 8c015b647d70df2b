CONSTANTS
  first = first
  second = second
  NoRequest = NoRequest
  Goals = {first}
  MaxEvadeAttempts = 1
SPECIFICATION Spec
CHECK_DEADLOCK FALSE
PROPERTY RejectionIsReal
