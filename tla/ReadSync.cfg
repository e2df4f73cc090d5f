\* Own sends, a scrolled window and failing queries, a room whose bookmark loads
\* late and whose publishes are refused, a lost connection.
CONSTANTS
  MaxPos = 3
  Window = 2
  MaxQueue = 2
  MaxDrops = 1
  Scenarios = {{"own"}, {"park", "failQuery", "failSeed"}, {"room", "own", "refuse", "bookmark"}, {"drop"}}
CHECK_DEADLOCK FALSE
SPECIFICATION Spec
INVARIANTS
  TypeOK
  MarkerKept
  ReadIsOnItsWay
PROPERTIES
  PublishesForward
