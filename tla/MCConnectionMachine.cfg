CONSTANTS
  InitialDelay = 1
  MaxDelay = 5
  Multiplier = 2
  DefaultWindow = 2
  Windows = {1, 2}
  MaxSlept = 3
  MaxAttempt = 4

SPECIFICATION Spec

INVARIANTS
  TypeOK
  BackoffMatchesState
  CountdownMatchesTimer
  NothingOutlivesItsState
  TerminalExplained

PROPERTIES
  TerminalOnlyLeftByConnect
  LadderNeverResets
  LostSessionStaysLost
  TimedStatesEnd
