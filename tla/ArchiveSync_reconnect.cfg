CONSTANTS
  MaxPos = 3
  Signals = {}
  PageSize = 1
  BailPages = 2
  ManualPages = 2
  RetryPages = 2
  StitchPages = 1
  MaxQueue = 2
  Kinds = {"chat"}
  Events = {"drop"}
  MaxFaults = 1
SPECIFICATION MCSpec
INVARIANT NoSilentHole
