\* The desktop proxy does not start.
CONSTANTS
  InitialDelay = 1
  MaxDelay = 1
  Multiplier = 1
  DefaultWindow = 0
  Windows = {0}
  MaxSlept = 1
  MaxAttempt = 1
  Requests = {r1, r2}
  None = None
  HasProxy = TRUE
  Events = {}
SPECIFICATION Spec
PROPERTIES
  AttemptingEnds
