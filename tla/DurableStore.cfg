\* One storage key of any kind, one account, any order of merges, timers, losses and logouts.
CONSTANTS
  Boundaries = {b1, b2}
  Ids = {i1, i2}
  Walks = {w1, w2}
  MaxDepth = 2
  Retractions = {t1}
  None = None
  Absent = Absent
SPECIFICATION Spec
SYMMETRY Symmetry
INVARIANTS
  TypeOK
  GapsSurviveCrash
  CoverageNotOverstated
  RetractionsSurviveCrash
  OnlyTheWindowIsLost
  ClearedStaysCleared
