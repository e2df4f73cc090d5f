\* The web app without the hazards of the other runs: everything holds, and ends.
CONSTANTS
  InitialDelay = 1
  MaxDelay = 1
  Multiplier = 1
  DefaultWindow = 0
  Windows = {0}
  MaxSlept = 1
  MaxAttempt = 1
  Requests = {r1, r2}
  None = None
  HasProxy = FALSE
  Events = {"disconnect", "veto", "visible", "sleep", "keepalive"}
SPECIFICATION Spec
INVARIANTS
  PhaseIsDriven
  OneRequestAtWork
  ClientMatchesMachine
PROPERTIES
  NothingInstalledWhenStopped
  CancelledIsSilent
  SessionImplemented
  PhasesEnd
