\* The desktop app: direct WebSocket first, the native proxy as a fallback.
CONSTANTS
  InitialDelay = 1
  MaxDelay = 1
  Multiplier = 1
  DefaultWindow = 0
  Windows = {0}
  MaxSlept = 1
  MaxAttempt = 1
  Requests = {r1, r2}
  None = None
  HasProxy = TRUE
  Events = {"disconnect"}
SPECIFICATION Spec
SYMMETRY Symmetry
PROPERTIES
  DisconnectWins
