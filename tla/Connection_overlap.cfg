\* The web app with what can overlap an attempt: a logout, a cancelled
\* reconnection, a failed setup, a wake.
CONSTANTS
  InitialDelay = 1
  MaxDelay = 1
  Multiplier = 1
  DefaultWindow = 0
  Windows = {0}
  MaxSlept = 1
  MaxAttempt = 1
  Requests = {r1, r2}
  None = None
  HasProxy = FALSE
  Events = {"disconnect", "logout", "cancelReconnect", "setupFailure", "wake"}
SPECIFICATION Spec
INVARIANTS
  TypeOK
PROPERTIES
  FailureSparesOthers
  RequestsEnd
