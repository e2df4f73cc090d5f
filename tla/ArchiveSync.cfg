CONSTANTS
  MaxPos = 5
  Signals = {2}
  PageSize = 1
  BailPages = 2
  ManualPages = 2
  RetryPages = 2
  StitchPages = 1
  MaxQueue = 2
  Kinds = {"room", "chat"}
  Events = {"drop", "crash", "failWrite", "failQuery", "purge"}
  MaxFaults = 1
SPECIFICATION MCSpec
INVARIANTS
  TypeOK
  ResumeNeverSkips
  AlignedFromEdge
PROPERTIES
  HolesLeaveOnlyWhenStored
  WalksEnd
