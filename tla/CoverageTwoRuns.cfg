CONSTANTS
  first = first
  second = second
  NoRequest = NoRequest
  Goals = {first, second}
  MaxEvadeAttempts = 1
SPECIFICATION Spec
CHECK_DEADLOCK FALSE
SYMMETRY GoalSymmetry
ACTION_CONSTRAINT UndocksOnly
INVARIANT OneRun
PROPERTY KeepsCoveragePromise
