---------------------------- MODULE ArchiveSync ----------------------------
(***************************************************************************)
(* How one conversation or room is caught up with its server archive:      *)
(* core/modules/MAM.ts (the walks), core/chatSideEffects.ts,               *)
(* core/roomSideEffects.ts and core/backgroundSync.ts (what starts one),   *)
(* stores/archiveMerge/archiveMerge.ts and stores/shared/archiveSaveChain  *)
(* .ts (what a page commits, and when), over the gap lists of ArchiveGaps. *)
(*                                                                         *)
(* The archive holds the positions purged+1..live; Signals are the entries *)
(* that are not messages.  A page's rows are written to IndexedDB without  *)
(* being waited for; queue holds the writes in flight in the order         *)
(* IndexedDB runs them, each with the gap transition that waits for it.    *)
(* A cache read waits for the writes issued before it, so a step that      *)
(* starts from one is taken when none is in flight.                        *)
(***************************************************************************)
EXTENDS ArchiveGaps, Sequences

CONSTANTS
  Signals,      \* the archive entries that carry no message
  PageSize,     \* entries per page, MAM_CATCHUP_FORWARD_MAX and _BACKWARD_MAX
  BailPages,    \* pages of an automatic forward walk, MAM_CATCHUP_FORWARD_BAIL_PAGES
  ManualPages,  \* pages of a user's walk, MAM_ROOM_FORWARD_MAX_PAGES_MANUAL
  RetryPages,   \* pages of a fetch-latest that finds signals only
  StitchPages,  \* pages of the read-marker search, MAM_POINTER_STITCH_MAX_PAGES
  MaxQueue,     \* bound: writes in flight
  Kinds,        \* "chat", "room": what the entity may be
  Events        \* the faults of a run: "drop", "crash", "failWrite", "failQuery", "purge"

ASSUME ArchiveAssumption ==
  /\ Signals \subseteq Pos
  /\ {PageSize, BailPages, ManualPages, RetryPages} \subseteq Nat \ {0}
  /\ StitchPages \in Nat
  /\ MaxQueue \in Nat \ {0}
  /\ Kinds \subseteq {"chat", "room"}

VARIABLES
  kind,        \* what the entity is; never changes
  live,        \* the server: newest archived position
  purged,      \* the server: everything up to here has expired
  online,      \* the connection's status is online
  resumable,   \* the lost session can still be resumed (XEP-0198)
  seen,        \* newest position this client's stream has delivered
  cache,       \* rows in IndexedDB
  gaps,        \* the recorded gap list
  queue,       \* IndexedDB writes in flight
  poisoned,    \* the save chain holds a failed write
  active,      \* the entity is the open one
  resident,    \* its messages in memory (only while it is open)
  mam,         \* its HistoryQueryState
  fetched,     \* fetchInitiated holds it
  due,         \* a side effect is about to fetch it
  owed,        \* the background pass still has to look at it
  sessionStart,\* positions from here on arrived in this session
  walk,        \* the walk of each slot
  heard,       \* history: delivered live by the stream, each with a write of its own
  lost,        \* history: one of those writes failed, or a reload cut it off
  edge         \* history: the session catches up from here: the newest position held at its
               \* start, or the bottom of a page fetched with nothing to join it to

serverVars  == <<live, purged>>
storeVars   == <<cache, gaps, queue, poisoned>>
viewVars    == <<active, resident>>
sessionVars == <<online, resumable, seen, sessionStart>>
triggerVars == <<fetched, due, owed>>
history == <<heard, lost, edge>>
vars == <<kind, serverVars, storeVars, viewVars, sessionVars, triggerVars, mam, walk, history>>

-----------------------------------------------------------------------------
Displayable == Pos \ Signals

\* A walk of the open entity (catch-up or "load missing") and one of the
\* background pass; isLoading keeps a second one out of the first slot.
Slots == {"front", "back"}

\* phase: the query in flight.  after/byId: the forward cursor, an archive id
\* or (byId FALSE) the entry below an inclusive start time.  rows: what the
\* walk has collected.  bottom: where the marker search pages down from.
\* loose (history): the walk does not reach down to what was held.
Walk == [phase : {"none", "forward", "latest", "search"}, manual : BOOLEAN,
         origin : Pos \cup {NoId}, after : 0..MaxPos, byId : BOOLEAN, firstPage : BOOLEAN,
         left : Nat, rows : SUBSET Displayable, bottom : Pos \cup {NoId}, loose : BOOLEAN]

NoWalk == [phase |-> "none", manual |-> FALSE, origin |-> NoId, after |-> 0, byId |-> FALSE,
           firstPage |-> FALSE, left |-> 0, rows |-> {}, bottom |-> NoId, loose |-> FALSE]

\* One IndexedDB write.  archive: it is part of the save chain.  commit: a gap
\* transition to next waits for it; fresh: the list is still the very object
\* the transition was computed from; none: that was no list at all.
Job == [rows : SUBSET Displayable, archive : BOOLEAN, commit : BOOLEAN,
        next : SUBSET Gap, fresh : BOOLEAN, none : BOOLEAN]

LiveJob(rows) == [rows |-> rows, archive |-> FALSE, commit |-> FALSE, next |-> {},
                  fresh |-> FALSE, none |-> FALSE]

TypeOK ==
  /\ kind \in Kinds
  /\ live \in 0..MaxPos /\ purged \in 0..live
  /\ online \in BOOLEAN /\ resumable \in BOOLEAN /\ poisoned \in BOOLEAN /\ active \in BOOLEAN
  /\ seen \in 0..live /\ sessionStart \in 0..Edge
  /\ cache \subseteq Displayable /\ resident \subseteq Displayable /\ heard \subseteq Displayable
  /\ gaps \subseteq Gap /\ Normal(gaps)
  /\ queue \in Seq(Job)
  /\ mam \in [queried : BOOLEAN, caughtUp : BOOLEAN]
  /\ fetched \in BOOLEAN /\ due \in BOOLEAN /\ owed \in {"no", "due", "listed"}
  /\ walk \in [Slots -> Walk]
  /\ lost \in BOOLEAN /\ edge \in 0..MaxPos

\* What is held at first start-up, or after earlier sessions kept up with the
\* archive: everything up to some position, and no gap.
Init ==
  /\ kind \in Kinds
  /\ live \in 0..1 /\ purged = 0
  /\ online = FALSE /\ resumable = FALSE /\ seen = live
  /\ cache = {p \in Displayable : p <= live} /\ gaps = {} /\ queue = <<>> /\ poisoned = FALSE
  /\ active = FALSE /\ resident = {}
  /\ mam = [queried |-> FALSE, caughtUp |-> FALSE]
  /\ fetched = FALSE /\ due = FALSE /\ owed = "no" /\ sessionStart = 0
  /\ walk = [s \in Slots |-> NoWalk]
  /\ heard = {} /\ lost = FALSE /\ edge = 0

-----------------------------------------------------------------------------
(* The save chain: what a page commits, and when.                          *)

Least(a, b) == IF a < b THEN a ELSE b
Most(a, b) == IF a < b THEN b ELSE a

NoWalks == \A s \in Slots : walk[s] = NoWalk
Drained == queue = <<>>
Room4(n) == Len(queue) + n <= MaxQueue

SavesHasNothing == FALSE

\* archiveSaveChain.has: an archive write is in flight, or one has failed.
SavesHas == poisoned \/ \E i \in 1..Len(queue) : queue[i].archive

\* A new gap list is a new object: no queued transition was computed from it.
Stale(q) == [i \in 1..Len(q) |-> [q[i] EXCEPT !.fresh = FALSE]]

\* What the store holds of the entity when a page merges: only the open one
\* keeps its messages in memory.
Existing == IF active THEN resident ELSE {}

\* storePage and planDurableCommit: rows the store does not hold are written;
\* a gap transition waits for them, and for every earlier archive write, or is
\* applied at once when nothing is to be waited for.
StorePage(rows, next) ==
  LET new     == rows \ Existing
      changed == next # gaps
      gated   == new # {} \/ SavesHas
  IN  /\ gaps' = IF changed /\ ~gated THEN next ELSE gaps
      /\ queue' = IF new # {} \/ (changed /\ gated)
                  THEN Append(queue, [rows |-> new, archive |-> TRUE, commit |-> changed,
                                      next |-> IF changed THEN next ELSE {},
                                      fresh |-> TRUE, none |-> gaps = {}])
                  ELSE queue
      /\ resident' = IF active THEN resident \cup rows ELSE resident

\* applyDeferred: the transition is applied to the very list it was computed
\* from, or to an entity that still has none.
Applies(job) ==
  /\ job.archive /\ job.commit /\ ~poisoned
  /\ job.fresh \/ (job.none /\ gaps = {})

\* The oldest write in flight has committed.
WriteCommits ==
  /\ ~Drained
  /\ LET job == Head(queue)
     IN  /\ cache' = cache \cup job.rows
         /\ gaps' = IF Applies(job) THEN job.next ELSE gaps
         /\ queue' = IF Applies(job) THEN Stale(Tail(queue)) ELSE Tail(queue)
  /\ UNCHANGED <<kind, serverVars, poisoned, viewVars, sessionVars, triggerVars, mam, walk, history>>

\* It has failed: its rows are not stored, and an archive write poisons the
\* chain for as long as the page stays loaded.  A chained no-op cannot fail.
WriteFails ==
  /\ "failWrite" \in Events
  /\ ~Drained /\ Head(queue).rows # {}
  /\ poisoned' = (poisoned \/ Head(queue).archive)
  /\ lost' = (lost \/ ~Head(queue).archive)
  /\ queue' = Tail(queue)
  /\ UNCHANGED <<kind, serverVars, cache, gaps, viewVars, sessionVars, triggerVars, mam, walk, heard,
                 edge>>

-----------------------------------------------------------------------------
(* The server and the stream.                                              *)

\* A message is archived that this client is not there to receive.
ServerArchives ==
  /\ ~online /\ live < MaxPos
  /\ live' = live + 1
  /\ UNCHANGED <<kind, purged, storeVars, viewVars, sessionVars, triggerVars, mam, walk, history>>

\* Old entries expire.
ServerPurges ==
  /\ "purge" \in Events
  /\ \E p \in purged + 1 .. live : purged' = p
  /\ UNCHANGED <<kind, live, storeVars, viewVars, sessionVars, triggerVars, mam, walk, history>>

\* addMessage for what the stream delivers: each message is written on its own,
\* outside the save chain, and joins the open entity's messages.
Deliver(ps) ==
  /\ heard' = heard \cup ps
  /\ resident' = IF active THEN resident \cup ps ELSE resident
  /\ IF ps = {} THEN UNCHANGED queue ELSE Room4(1) /\ queue' = Append(queue, LiveJob(ps))

Arrive ==
  /\ online /\ live < MaxPos
  /\ live' = live + 1 /\ seen' = live + 1
  /\ Deliver({live + 1} \cap Displayable)
  /\ UNCHANGED <<kind, purged, cache, gaps, poisoned, active, online, resumable, sessionStart,
                 triggerVars, mam, walk, lost, edge>>

\* The newest position held, in memory, in the cache or on its way there.
MaxOf(ps) == IF ps = {} THEN 0 ELSE Newest(ps)
NewestHeld == MaxOf(cache \cup Existing \cup UNION {queue[i].rows : i \in 1..Len(queue)})

\* A fresh session: resetMAMStates, a new session start, every fetch to do again.
GoOnline ==
  /\ ~online
  /\ online' = TRUE /\ resumable' = FALSE /\ seen' = live /\ sessionStart' = live + 1
  /\ mam' = [queried |-> FALSE, caughtUp |-> FALSE]
  /\ fetched' = FALSE /\ due' = active /\ owed' = "due"
  /\ edge' = NewestHeld
  /\ UNCHANGED <<kind, serverVars, storeVars, viewVars, walk, heard, lost>>

\* A resumed one: the server replays what it queued, and what is held of the
\* entity counts as fetched.  Rooms start a new session time all the same, and
\* a room in the background that never caught up is seeded.
Resume ==
  /\ ~online /\ resumable
  /\ online' = TRUE /\ resumable' = FALSE /\ seen' = live
  /\ Deliver({p \in Displayable : seen < p /\ p <= live})
  /\ due' = FALSE
  /\ \/ /\ kind = "chat"
        /\ fetched' = active
        /\ UNCHANGED <<sessionStart, owed, edge>>
     \/ /\ kind = "room"
        /\ fetched' = (mam.queried \/ Existing # {})
        /\ sessionStart' = live + 1
        /\ owed' = IF ~active /\ ~mam.caughtUp THEN "due" ELSE "no"
        /\ edge' = IF mam.caughtUp THEN edge ELSE Most(NewestHeld, MaxOf(heard'))
  /\ UNCHANGED <<kind, serverVars, cache, gaps, poisoned, active, mam, walk, lost>>

\* The connection is lost: queries in flight fail and fetch tracking is cleared.
\* A chat pass under way keeps its list.
Drop ==
  /\ "drop" \in Events
  /\ online
  /\ online' = FALSE /\ resumable' = TRUE
  /\ fetched' = FALSE /\ due' = FALSE
  /\ owed' = IF owed = "listed" THEN "listed" ELSE "no"
  /\ walk' = [s \in Slots |-> NoWalk]
  /\ UNCHANGED <<kind, serverVars, storeVars, viewVars, seen, sessionStart, mam, history>>

\* The page is closed or reloaded: the first writes in flight may still commit,
\* what waited for them is gone.
Crash ==
  /\ "crash" \in Events
  /\ \E n \in 0..Len(queue) :
       /\ cache' = cache \cup UNION {queue[i].rows : i \in 1..n}
       /\ lost' = (lost \/ \E i \in n + 1 .. Len(queue) : ~queue[i].archive)
  /\ queue' = <<>> /\ poisoned' = FALSE
  /\ active' = FALSE /\ resident' = {}
  /\ mam' = [queried |-> FALSE, caughtUp |-> FALSE]
  /\ online' = FALSE /\ resumable' = (resumable \/ online) /\ sessionStart' = 0
  /\ fetched' = FALSE /\ due' = FALSE /\ owed' = "no"
  /\ walk' = [s \in Slots |-> NoWalk]
  /\ edge' = MaxOf(cache')
  /\ UNCHANGED <<kind, serverVars, gaps, seen, heard>>

\* The user opens the entity, which loads its cache, or leaves it, which drops
\* its messages from memory.
Activate ==
  /\ ~active /\ Drained
  /\ active' = TRUE /\ resident' = cache
  /\ due' = (online /\ ~fetched)
  /\ UNCHANGED <<kind, serverVars, storeVars, sessionVars, fetched, owed, mam, walk, history>>

Deactivate ==
  /\ active
  /\ active' = FALSE /\ resident' = {} /\ due' = FALSE
  /\ UNCHANGED <<kind, serverVars, storeVars, sessionVars, fetched, owed, mam, walk, history>>

-----------------------------------------------------------------------------
(* Starting a walk.                                                        *)

\* selectCatchUpQuery, resuming a gap: after its id, else from its start time.
ResumeGap(g) ==
  [NoWalk EXCEPT !.phase = "forward", !.origin = g.start, !.firstPage = TRUE,
     !.after = IF g.startId = NoId THEN g.start - 1 ELSE g.startId, !.byId = g.startId # NoId,
     !.left = BailPages]

\* From the newest held message.
ResumeAfter(p) ==
  [NoWalk EXCEPT !.phase = "forward", !.origin = p, !.firstPage = TRUE,
     !.after = p, !.byId = TRUE, !.left = BailPages]

\* From nothing: the newest page.
FetchLatest == [NoWalk EXCEPT !.phase = "latest", !.loose = TRUE]

BeforeSessionAll(ps) == ps

\* findCatchUpCursorMessage: what arrived in this session is no cursor.
BeforeSession(ps) == {p \in ps : sessionStart = 0 \/ p < sessionStart}

\* runCatchUpHistory, phase A.
CatchUpWalk(candidates) ==
  LET open == OpenGap(gaps)
      pre  == BeforeSession(candidates)
  IN  IF open # {} THEN ResumeGap(CHOOSE g \in open : TRUE)
      ELSE IF pre # {} THEN ResumeAfter(Newest(pre))
      ELSE FetchLatest

startUnchanged == <<kind, serverVars, storeVars, viewVars, sessionVars, mam, history>>

\* fetchMAMForConversation, fetchMAMForRoom: the open entity, over its messages
\* and its cache; not while a query of it is loading.
StartFront ==
  /\ due /\ online /\ active
  /\ due' = FALSE
  /\ \/ /\ NoWalks /\ Drained
        /\ fetched' = TRUE
        /\ walk' = [walk EXCEPT !["front"] = CatchUpWalk(resident \cup cache)]
     \/ /\ ~NoWalks
        /\ UNCHANGED <<fetched, walk>>
  /\ UNCHANGED <<startUnchanged, owed>>

\* createContinueCatchUp: the user asks for the messages a marker stands for.
LoadMissing ==
  /\ online /\ active /\ NoWalks /\ Drained
  /\ \E g \in gaps :
       walk' = [walk EXCEPT !["front"] = [ResumeGap(g) EXCEPT !.manual = TRUE, !.left = ManualPages]]
  /\ UNCHANGED <<startUnchanged, triggerVars>>

\* triggerBackgroundSync takes the conversations that are not open; rooms are
\* taken when their turn comes.
ListConversation ==
  /\ kind = "chat" /\ owed = "due" /\ online
  /\ owed' = IF active THEN "no" ELSE "listed"
  /\ UNCHANGED <<startUnchanged, fetched, due, walk>>

\* catchUpAllConversations, catchUpFreshSessionRoomOnce, seedResumeRoomOnce:
\* over the cache alone.  A room the side effects are fetching is left to them.
StartBack ==
  /\ online /\ Drained /\ walk["back"] = NoWalk
  /\ \/ kind = "chat" /\ owed = "listed"
     \/ kind = "room" /\ owed = "due" /\ ~active /\ ~fetched /\ walk["front"] = NoWalk
  /\ owed' = "no"
  /\ walk' = [walk EXCEPT !["back"] = CatchUpWalk(IF cache = {} /\ kind = "chat" THEN Existing ELSE cache)]
  /\ UNCHANGED <<startUnchanged, fetched, due>>

\* The pass reaches a conversation while the connection is down.
SkipListed ==
  /\ ~online /\ owed # "no"
  /\ owed' = "no"
  /\ UNCHANGED <<startUnchanged, fetched, due, walk>>

-----------------------------------------------------------------------------
(* The pages of a walk.                                                    *)

\* item-not-found: the archive no longer holds the id the query names.
AnchorGone(w) == w.phase = "forward" /\ w.byId /\ w.after <= purged

\* queryArchive and queryRoomArchive degrade to a fetch-latest when the first
\* page's anchor is gone, once the gap anchored there has forgotten the id.
AnchorPurged(s) ==
  LET w == walk[s] IN
  /\ online /\ AnchorGone(w) /\ w.firstPage
  /\ gaps' = ClearGapAnchor(gaps, w.after)
  /\ queue' = IF gaps' = gaps THEN queue ELSE Stale(queue)
  /\ walk' = [walk EXCEPT ![s] = [FetchLatest EXCEPT !.manual = w.manual]]
  /\ UNCHANGED <<kind, serverVars, cache, poisoned, viewVars, sessionVars, triggerVars, mam, history>>

\* After phase A a background walk looks for the read marker below the newest
\* page (bottom), or below the top of a closed gap.
Search(s, bottom) ==
  IF s = "back" /\ ~active /\ StitchPages > 0 /\ (bottom # NoId \/ \E g \in gaps : g.endId # NoId)
  THEN [NoWalk EXCEPT !.phase = "search", !.firstPage = TRUE, !.left = StitchPages, !.bottom = bottom]
  ELSE NoWalk

\* setMAMQueryCompleted for a page that tells whether live is reached.
Completed(caughtUp, from) ==
  /\ mam' = [queried |-> TRUE, caughtUp |-> caughtUp]
  /\ edge' = IF caughtUp /\ ~mam.caughtUp THEN Most(edge, from) ELSE edge

\* With no session time (a reload that resumed the stream) a cursor may be any
\* message, and nothing is claimed below it.
ResumedAt(w) == IF sessionStart = 0 THEN w.origin ELSE 0

pageUnchanged == <<kind, serverVars, cache, poisoned, active, sessionVars, triggerVars, heard, lost>>

NextPageRepeats(w, last, rows) == [w EXCEPT !.firstPage = FALSE, !.rows = rows]

\* The walk pages on after the last entry, by its id.
NextPage(w, last, rows) ==
  [w EXCEPT !.after = last, !.byId = TRUE, !.firstPage = FALSE, !.left = w.left - 1, !.rows = rows]

\* One page of a forward walk.  A room merges every page, a chat the whole walk
\* once it ends; a walk that ends short of live goes on to the newest page.
ForwardPage(s) ==
  LET w        == walk[s]
      below    == Most(w.after, purged)
      top      == Least(below + PageSize, live)
      last     == IF top > below THEN top ELSE NoId
      page     == {p \in Displayable : below < p /\ p <= top}
      rows     == w.rows \cup page
      complete == top >= live
      ends     == complete \/ w.left = 1
      merging  == IF kind = "room" THEN page ELSE rows
      next     == AfterForwardPage(gaps, merging, w.origin, last, complete, Existing \cup merging)
      \* A walk of signals alone leaves no gap behind unless it filled one.
      loose    == rows = {} /\ \A g \in gaps : g.start # w.origin
  IN
  /\ w.phase = "forward" /\ online /\ ~AnchorGone(w)
  /\ IF kind = "room" \/ ends
     THEN Room4(1) /\ StorePage(merging, next) /\ Completed(complete, ResumedAt(w))
     ELSE UNCHANGED <<gaps, queue, resident, mam, edge>>
  /\ walk' = [walk EXCEPT ![s] =
       IF ~ends THEN NextPage(w, top, rows)
       ELSE IF complete THEN IF w.manual THEN NoWalk ELSE Search(s, NoId)
       ELSE IF w.manual THEN NoWalk
       ELSE [FetchLatest EXCEPT !.loose = loose, !.origin = w.origin]]
  /\ UNCHANGED pageUnchanged

\* The entries a backward walk below bound has seen after n pages.
Above(bound, n) == {p \in Pos : purged < p /\ bound - n * PageSize <= p /\ p < bound}
Exhausted(bound, n) == bound - n * PageSize <= purged + 1

\* It goes on past pages of signals, limit pages at most.
PagesTo(bound, limit) ==
  LET found(n) == Above(bound, n) \cap Displayable # {} \/ Exhausted(bound, n)
  IN  CHOOSE n \in 1..limit : (found(n) \/ n = limit) /\ \A m \in 1..(n - 1) : ~found(m)

FirstId(entries) == IF entries = {} THEN NoId ELSE Oldest(entries)

\* before:'', the newest page.
LatestPage(s) ==
  LET w        == walk[s]
      n        == PagesTo(live + 1, RetryPages)
      entries  == Above(live + 1, n)
      rows     == entries \cap Displayable
      complete == Exhausted(live + 1, n)
      from     == IF ~w.loose THEN ResumedAt(w) ELSE IF rows = {} THEN live ELSE Oldest(rows) - 1
  IN
  /\ w.phase = "latest" /\ online
  /\ Room4(1) /\ StorePage(rows, AfterBackwardPage(gaps, rows, complete, TRUE, Existing))
  /\ Completed(TRUE, from)
  /\ walk' = [walk EXCEPT ![s] = IF w.manual \/ complete THEN NoWalk ELSE Search(s, FirstId(entries))]
  /\ UNCHANGED pageUnchanged

\* A page of the read-marker search, from the bottom it holds or, on its first
\* page, from the top of the gap that holds the marker.
SearchPage(s) ==
  LET w == walk[s] IN
  /\ w.phase = "search" /\ online /\ ~active /\ w.left > 0
  /\ \E b \in ({w.bottom} \cup IF w.firstPage THEN {g.endId : g \in gaps} ELSE {}) \ {NoId} :
       LET n        == PagesTo(b, MaxPos)
           entries  == Above(b, n)
           rows     == entries \cap Displayable
           complete == Exhausted(b, n)
       IN  /\ b > purged
           /\ Room4(1) /\ StorePage(rows, AfterBackwardPage(gaps, rows, complete, FALSE, Existing))
           /\ walk' = [walk EXCEPT ![s] =
                IF complete \/ entries = {} \/ w.left = 1 THEN NoWalk
                ELSE [w EXCEPT !.bottom = Oldest(entries), !.left = w.left - 1, !.firstPage = FALSE]]
  /\ mam' = [mam EXCEPT !.queried = TRUE]
  /\ UNCHANGED <<pageUnchanged, edge>>

\* The marker is found, is nowhere, or the entity was opened.
SearchEnds(s) ==
  /\ walk[s].phase = "search"
  /\ walk' = [walk EXCEPT ![s] = NoWalk]
  /\ UNCHANGED <<startUnchanged, triggerVars>>

\* A query fails: the side effect may fetch again, and a room's failure is
\* handed to the background pass.
FailWalk(s) ==
  LET w == walk[s] IN
  /\ w # NoWalk /\ online
  /\ walk' = [walk EXCEPT ![s] = NoWalk]
  /\ IF s = "front" /\ ~w.manual
     THEN /\ fetched' = FALSE
          /\ owed' = IF kind = "room" THEN "due" ELSE owed
     ELSE UNCHANGED <<fetched, owed>>
  /\ UNCHANGED <<startUnchanged, due>>

\* It names an id the archive has dropped, past the first page of a walk.
QueryFails(s) ==
  /\ \/ AnchorGone(walk[s]) /\ ~walk[s].firstPage
     \/ walk[s].phase = "search" /\ purged > 0
  /\ FailWalk(s)

\* It times out, or the server answers an error.
QueryLost(s) == "failQuery" \in Events /\ FailWalk(s)

Page(s) == AnchorPurged(s) \/ ForwardPage(s) \/ LatestPage(s) \/ SearchPage(s)

\* What the environment does to the client, and everything else.
Fault == WriteFails \/ ServerPurges \/ Drop \/ Crash \/ \E s \in Slots : QueryLost(s)

Step ==
  \/ WriteCommits
  \/ ServerArchives \/ Arrive
  \/ GoOnline \/ Resume
  \/ Activate \/ Deactivate
  \/ StartFront \/ LoadMissing \/ ListConversation \/ StartBack \/ SkipListed
  \/ \E s \in Slots : Page(s) \/ SearchEnds(s) \/ QueryFails(s)

Next == Fault \/ Step

Safety == Init /\ [][Next]_vars

\* Every query is answered or times out, and every IndexedDB write completes:
\* weak fairness of the walks' steps and of the writes, their being enabled
\* spelled out (TLC is slow to find it for steps as large as a merge).
Waiting(s) == walk[s] # NoWalk /\ online /\ Room4(1)
Fairness ==
  /\ \A s \in Slots : []<>~Waiting(s) \/ []<><<walk'[s] # walk[s]>>_walk
  /\ []<>Drained \/ []<><<Len(queue') < Len(queue)>>_queue

Spec == Safety /\ Fairness

-----------------------------------------------------------------------------
Known(p) == p <= purged \/ p \in cache \/ p \in heard

\* A position that leaves the recorded gaps is durably stored by then, or the
\* archive has dropped it, or the stream delivered it, or it lies above all that
\* is stored, where the next catch-up resumes: no order of page merges, write
\* outcomes and deferred commits moves a gap past a page that was never stored
\* (archiveMerge.ts, archiveSaveChain.ts).  Until a message the stream delivered
\* is lost: a hole no list records can then pass for one that a merge filled.
HolesLeaveOnlyWhenStored ==
  [][~lost =>
       \A p \in (Displayable \cap Covered(gaps)) \ Covered(gaps') :
         p <= purged \/ p \in cache' \/ p \in heard \/ \A q \in cache' : q < p]_vars

\* A gap is drawn between messages that are held, and its resume id leaps none:
\* its start, its end and whatever lies between the start and that id are
\* signals, or are held.
ResumeNeverSkips ==
  \A g \in gaps : \A p \in Displayable :
    (g.start <= p /\ p <= g.startId) \/ p = g.end => Known(p)

\* An entity that counts as caught up, with nothing in flight and no write
\* failed or lost, holds every message above the point its catch-up resumed from, or
\* has recorded the hole it is missing from.
AlignedFromEdge ==
  mam.caughtUp /\ online /\ Drained /\ ~poisoned /\ ~lost /\ NoWalks =>
    \A p \in Displayable : edge < p /\ p <= seen => Known(p) \/ p \in Covered(gaps)

\* The cursor of a catch-up stays on the pre-session edge, so that a completed
\* one leaves no hole between held messages unrecorded (mamCatchUpUtils.ts,
\* findCatchUpCursorMessage).  The code does not keep it: see the README.
NoSilentHole ==
  mam.caughtUp /\ online /\ Drained /\ ~poisoned /\ NoWalks =>
    \A p \in Displayable, q, r \in cache : q < p /\ p < r => Known(p) \/ p \in Covered(gaps)

\* Every walk ends.
WalksEnd == \A s \in Slots : walk[s] # NoWalk ~> walk[s] = NoWalk
=============================================================================
