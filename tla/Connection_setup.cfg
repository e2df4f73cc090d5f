\* A session whose setup failed.
CONSTANTS
  InitialDelay = 1
  MaxDelay = 1
  Multiplier = 1
  DefaultWindow = 0
  Windows = {0}
  MaxSlept = 1
  MaxAttempt = 1
  Requests = {r1, r2}
  None = None
  HasProxy = FALSE
  Events = {"setupFailure"}
SPECIFICATION Spec
PROPERTIES
  DiscardedSessionRetried
