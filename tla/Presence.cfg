\* Every event of the user, the host, the stream and the page, in any order.
CONSTANTS
  Messages = {m1, m2}
  NoMessage = NoMessage
  None = None
SPECIFICATION Spec
INVARIANTS
  TypeOK
  StateMatchesPreference
  BusyOrOnlineAnnounced
  NoLingeringAway
PROPERTIES
  DndNeverWithdrawn
