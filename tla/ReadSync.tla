------------------------------ MODULE ReadSync ------------------------------
(***************************************************************************)
(* The read position of one conversation or room and its copy on the       *)
(* account's XEP-0490 node, which the user's other devices share:          *)
(* core/mdsSideEffects.ts (what is published, and when),                   *)
(* stores/readTracker/readTracker.ts and stores/shared/readMarkerSync.ts   *)
(* (the pointer, and the remote markers that cannot be ordered yet).       *)
(*                                                                         *)
(* Messages are the positions 1..top of the archive.  The server answers   *)
(* in order over the stream, and takes what the client sent in order.  The *)
(* promise reactions that follow a callback run before the next one, so a  *)
(* consideration that needs no cache read is part of the step that asks    *)
(* for it (Consider); one that does is a resolution in flight (reading).   *)
(***************************************************************************)
EXTENDS Integers, Sequences, FiniteSets

CONSTANTS
  MaxPos,     \* bound: messages
  Window,     \* getResidentWindowSize: messages of the open entity in memory
  MaxQueue,   \* bound: items in flight in each direction
  MaxDrops,   \* bound: lost connections, in a scenario that has them
  Scenarios   \* what a behaviour may mix: the sets of events, each with "room" or not

\* room: the entity is a room, else a conversation.  own: the user sends
\* messages.  park: the user scrolls away from the newest.  drop: the connection
\* is lost.  refuse: the server refuses publishes.  failQuery, failSeed: a
\* catch-up, a fetch of the node fails.  bookmark: the store learns of the
\* entity only after the session has started.
AllEvents == {"room", "own", "park", "drop", "refuse", "failQuery", "failSeed", "bookmark"}

ASSUME ReadAssumption ==
  /\ {MaxPos, Window, MaxQueue, MaxDrops} \subseteq Nat \ {0}
  /\ Scenarios \subseteq SUBSET AllEvents

VARIABLES
  events,        \* the scenario, which never changes
  top,           \* the newest archived message
  node,          \* the position on the node, 0 when it has no item
  sent,          \* what the client sent and the server has not taken: positions, or Seed
  stream,        \* what the server sent and the client has not handled
  online,        \* the connection's status is online
  drops,         \* connections lost so far
  resumable,     \* the lost session can still be resumed (XEP-0198)
  known,         \* the store holds the entity (a room: its bookmark has loaded)
  cache,         \* messages in IndexedDB
  unnamed,       \* own sends whose archive id the client does not know
  active,        \* the entity is the open one
  resident,      \* its messages in memory
  mam,           \* its HistoryQueryState
  mark,          \* the pointer, the stashed marker and the lookups of it
  pub,           \* the publisher
  reading,       \* its resolution in flight
  seed,          \* the fetch of the node this session waits for
  staleSeed,     \* a fetch of an earlier session that has not failed yet
  told,          \* history: the last position the server told of
  spoiled        \* history: a publish of this session was refused, undid another device's
                 \* or was dropped when a fetch failed late

serverVars == <<top, node>>
wire       == <<sent, stream>>
session    == <<online, resumable, drops>>
archive    == <<cache, unnamed>>
view       == <<active, resident>>
seeds      == <<seed, staleSeed>>
history    == <<told, spoiled>>
vars == <<events, serverVars, wire, session, known, archive, view, mam, mark, pub, reading, seeds, history>>

-----------------------------------------------------------------------------
Pos == 1..MaxPos

\* The entity is a room, else a conversation.
IsRoom == "room" \in events

Newest(ps) == CHOOSE p \in ps : \A q \in ps : q <= p
NewestOr0(ps) == IF ps = {} THEN 0 ELSE Newest(ps)

\* A read pointer: the message it rests on, and whether it carries that
\* message's archive id.
Pointer == [pos : 0..MaxPos, named : BOOLEAN]
At(p, named) == [pos |-> p, named |-> named]
Nowhere == At(0, FALSE)

\* ptr: readPointer.  stash: pendingRemoteDisplayedStanzaId, 0 when undefined.
\* looking: one of its stashLookups is in flight.  folded: what the MdsSessionGate has seen resolved.
Mark == [ptr : Pointer, stash : 0..MaxPos, looking : BOOLEAN, folded : 0..MaxPos]

\* enabled: syncEnabled.  sure: nodeSnapshotAuthoritative.  confirmed: in
\* currentSessionConfirmedNodeJids.  last: lastKnownNodeStanzaId.  revised:
\* its revision is later than the start of the seed.  handled:
\* lastConsideredPointerIdentity.  dirty, timer: the buffered publish and the
\* debounce.  unrouted: unroutedSeedMarkers.
Publisher == [enabled : BOOLEAN, sure : BOOLEAN, confirmed : BOOLEAN, last : 0..MaxPos,
              revised : BOOLEAN, handled : Pointer, dirty : 0..MaxPos, timer : BOOLEAN,
              unrouted : 0..MaxPos]

\* A resolution waiting for the cache: the pointer it was asked for, whether
\* its session goes on, and whether another pass is owed.
Reading == [on : BOOLEAN, ptr : Pointer, valid : BOOLEAN, owed : BOOLEAN]
NoReading == [on |-> FALSE, ptr |-> Nowhere, valid |-> FALSE, owed |-> FALSE]

Seed == 0
Heard == [type : {"notify", "ack", "seed"}, pos : 0..MaxPos]
Notify(p) == [type |-> "notify", pos |-> p]
Ack(p) == [type |-> "ack", pos |-> p]
SeedAnswer(p) == [type |-> "seed", pos |-> p]

TypeOK ==
  /\ events \in Scenarios
  /\ top \in 0..MaxPos /\ node \in 0..top
  /\ sent \in Seq(0..MaxPos) /\ stream \in Seq(Heard)
  /\ online \in BOOLEAN /\ resumable \in BOOLEAN /\ known \in BOOLEAN
  /\ cache \subseteq 1..top /\ unnamed \subseteq cache
  /\ active \in BOOLEAN /\ resident \subseteq cache
  /\ mam \in {"none", "loading", "error", "caughtUp"}
  /\ mark \in Mark /\ mark.ptr.pos <= top /\ mark.stash <= top
  /\ pub \in Publisher
  /\ reading \in Reading
  /\ seed \in BOOLEAN /\ staleSeed \in BOOLEAN
  /\ drops \in 0..MaxDrops /\ told \in 0..MaxPos /\ spoiled \in BOOLEAN

\* The app has started: the pointer comes from localStorage, the messages up
\* to some position are cached, and other devices may have read further.
Init ==
  /\ events \in Scenarios
  /\ top \in {1, 2} \cap Pos /\ node \in 0..top
  /\ sent = <<>> /\ stream = <<>> /\ online = FALSE /\ resumable = FALSE
  /\ known = ("bookmark" \notin events)
  /\ cache \in {{}, 1..top} /\ unnamed = {}
  /\ active = FALSE /\ resident = {} /\ mam = "none"
  /\ \E p \in cache \cup {0} :
       mark = [ptr |-> At(p, p # 0), stash |-> 0, looking |-> FALSE, folded |-> 0]
  /\ pub = [enabled |-> FALSE, sure |-> FALSE, confirmed |-> FALSE, last |-> 0, revised |-> FALSE,
            handled |-> Nowhere, dirty |-> 0, timer |-> FALSE, unrouted |-> 0]
  /\ reading = NoReading /\ seed = FALSE /\ staleSeed = FALSE
  /\ drops = 0 /\ told = 0 /\ spoiled = FALSE

-----------------------------------------------------------------------------
(* The tracker: the pointer and the stashed marker.                        *)

\* The pointer only moves forward.
Advanced(m, p, named) == IF p > m.ptr.pos THEN [m EXCEPT !.ptr = At(p, named)] ELSE m

AppliedDropsStash(m, s, rows, override) ==
  IF s \in rows THEN [Advanced(m, s, TRUE) EXCEPT !.stash = 0] ELSE m

\* applyRemoteDisplayed: a marker whose message is among the rows is ordered
\* against the pointer; another one is stashed and looked up in the cache.
\* An older stash stays when a later marker could be ordered.
Applied(m, s, rows, override) ==
  IF s \in rows
  THEN [Advanced(m, s, TRUE) EXCEPT !.stash = IF @ = s THEN 0 ELSE @]
  ELSE [m EXCEPT !.stash = s,
                 !.looking = IF override /\ m.stash = s THEN @ ELSE TRUE]

\* A merged page, or an answer, retries the stash against its own rows.
Retried(m, rows) == IF m.stash = 0 THEN m ELSE Applied(m, m.stash, rows, TRUE)

\* foldPendingRemoteDisplayed: once for each marker it resolves.
Folded(m, rows) ==
  IF m.stash \in {0, m.folded} THEN m
  ELSE LET n == Applied(m, m.stash, rows, FALSE)
       IN  IF n.stash = m.stash THEN n ELSE [n EXCEPT !.folded = m.stash]

-----------------------------------------------------------------------------
(* The publisher.                                                          *)

\* archiveIsTrustworthy.
Trustworthy == mam' \in {"none", "caughtUp"}

DecisionForgetsStash(p, c) ==
  IF ~p.sure /\ ~p.confirmed THEN "retry" ELSE IF p.last = 0 /\ ~p.sure THEN "retry" ELSE "publish"

\* publishDecision, for the position c.
Decision(p, c) ==
  LET rows == resident' \ unnamed' IN
  IF p.sure \/ p.confirmed
  THEN CASE p.last = 0                                      -> IF p.sure THEN "publish" ELSE "retry"
         [] p.last # 0 /\ {c, p.last} \subseteq rows        -> IF c > p.last THEN "publish" ELSE "skip"
         [] p.last # 0 /\ ~({c, p.last} \subseteq rows)     -> IF mark'.stash = p.last THEN "retry" ELSE "publish"
  ELSE "retry"

\* The end of considerOnce, its position resolved.
Decided(p, c) ==
  CASE Decision(p, c) = "retry"   -> p
    [] Decision(p, c) = "skip"    -> [p EXCEPT !.handled = mark'.ptr]
    [] Decision(p, c) = "publish" -> [p EXCEPT !.handled = mark'.ptr, !.dirty = c, !.timer = TRUE]

\* newestResolvableAtOrBehind.
AtOrBehind(rows, p) == NewestOr0({q \in rows \ unnamed' : q <= p})

\* resolvePublishPosition without the cache: the pointer's own archive id; in
\* a chat the resident row, the preview, or a resident row behind it.
ResolvedAtOnce(ptr) ==
  IF ptr.named THEN ptr.pos
  ELSE IF IsRoom THEN 0
  ELSE IF ptr.pos = NewestOr0(cache') /\ ptr.pos \notin unnamed' THEN ptr.pos
  ELSE AtOrBehind(resident', ptr.pos)

\* And with it.
ResolvedFromCache(ptr) ==
  IF ~IsRoom THEN AtOrBehind(cache', ptr.pos)
  ELSE IF ptr.pos \in cache' \ unnamed' THEN ptr.pos ELSE 0

\* considerOnce.
Pass(p) ==
  LET ptr == mark'.ptr
      c   == ResolvedAtOnce(ptr)
  IN  IF p.enabled /\ known' /\ Trustworthy /\ ptr \notin {Nowhere, p.handled}
      THEN IF c = 0
           THEN /\ pub' = p
                /\ reading' = [on |-> TRUE, ptr |-> ptr, valid |-> TRUE, owed |-> FALSE]
           ELSE /\ pub' = IF online' THEN Decided(p, c) ELSE p
                /\ reading' = NoReading
      ELSE pub' = p /\ reading' = NoReading

ConsiderDropsOwed(p) == IF reading.on THEN pub' = p /\ reading' = reading ELSE Pass(p)

\* consider: a call during a resolution is owed a pass of its own.
Consider(p) ==
  IF reading.on
  THEN /\ pub' = p
       /\ reading' = [reading EXCEPT !.owed = @ \/ p.enabled]
  ELSE Pass(p)

\* The cache has answered: every input of the resolution is looked at again.
Resolved ==
  /\ reading.on
  /\ UNCHANGED <<events, serverVars, wire, session, known, archive, view, mam, mark, seeds, history>>
  /\ LET c    == ResolvedFromCache(reading.ptr)
         good == /\ c # 0 /\ reading.valid /\ pub.enabled /\ online
                 /\ mark.ptr = reading.ptr /\ Trustworthy
         p    == IF good THEN Decided(pub, c) ELSE pub
     IN  IF reading.owed THEN Pass(p) ELSE pub' = p /\ reading' = NoReading

Forgotten(p) == [p EXCEPT !.handled = Nowhere]

\* doPublish: the gates are looked at once more, as the buffer is flushed.
TimerFires ==
  /\ pub.timer /\ Len(sent) < MaxQueue
  /\ UNCHANGED <<events, serverVars, stream, session, known, archive, view, mam, mark, reading, seeds, history>>
  /\ LET c       == pub.dirty
         idle    == [pub EXCEPT !.timer = FALSE]
         flushed == [idle EXCEPT !.dirty = 0]
         decides == Decision(pub, c)
     IN  IF ~pub.enabled \/ ~online THEN pub' = idle /\ sent' = sent
         ELSE IF c \in {0, pub.last} THEN pub' = flushed /\ sent' = sent
         ELSE IF ~Trustworthy \/ decides = "retry" THEN pub' = Forgotten(flushed) /\ sent' = sent
         ELSE /\ pub' = flushed
              /\ sent' = IF decides = "publish" THEN Append(sent, c) ELSE sent

-----------------------------------------------------------------------------
(* The server and the other devices.                                       *)

Reachable == online \/ resumable
InFlight == {sent[i] : i \in 1..Len(sent)} \ {Seed}

serverUnchanged == <<events, session, known, archive, view, mam, mark, pub, reading, seeds, told>>

\* Another device has read further.  As long as this session is up, not before
\* the store knows the entity.
PeerPublishes ==
  /\ known \/ ~Reachable
  /\ \E p \in node + 1 .. top :
       /\ node' = p
       /\ stream' = IF Reachable THEN Append(stream, Notify(p)) ELSE stream
  /\ Len(stream) < MaxQueue
  /\ UNCHANGED <<serverUnchanged, top, sent, spoiled>>

\* The server takes the oldest thing the client sent.  A publish it accepts is
\* also announced to this client.
ServerTakes ==
  /\ online /\ sent # <<>> /\ Len(stream) + 2 <= MaxQueue
  /\ sent' = Tail(sent)
  /\ IF Head(sent) = Seed
     THEN stream' = Append(stream, SeedAnswer(node)) /\ UNCHANGED <<node, spoiled>>
     ELSE \/ /\ node' = Head(sent)
             /\ stream' = stream \o <<Ack(Head(sent)), Notify(Head(sent))>>
             /\ spoiled' = (spoiled \/ Head(sent) < node)
          \/ /\ "refuse" \in events
             /\ spoiled' = TRUE
             /\ UNCHANGED <<node, stream>>
  /\ UNCHANGED <<serverUnchanged, top>>

\* A message is archived that this client is not there to receive.
ServerArchives ==
  /\ ~online /\ top < MaxPos
  /\ top' = top + 1
  /\ UNCHANGED <<serverUnchanged, node, wire, spoiled>>

-----------------------------------------------------------------------------
(* What the client hears.                                                  *)

\* recordKnownNodeStanzaId.
Recorded(p, s) == [p EXCEPT !.last = s, !.confirmed = TRUE, !.revised = @ \/ seed]

hearUnchanged == <<events, serverVars, sent, session, known, archive, view, mam, staleSeed, spoiled>>

\* read:displayed-synced: the binding applies the marker to the entity, which a
\* store that does not hold it ignores, and the publisher records it.
HearNotify ==
  /\ online /\ stream # <<>> /\ Head(stream).type = "notify"
  /\ UNCHANGED hearUnchanged
  /\ LET s == Head(stream).pos
     IN  /\ mark' = IF known THEN Applied(mark, s, resident \ unnamed, FALSE) ELSE mark
         /\ Consider(Recorded(pub, s))
         /\ told' = s
  /\ stream' = Tail(stream) /\ UNCHANGED seed

\* The publish is confirmed.
HearAck ==
  /\ online /\ stream # <<>> /\ Head(stream).type = "ack"
  /\ pub' = Recorded(pub, Head(stream).pos)
  /\ told' = Head(stream).pos
  /\ stream' = Tail(stream)
  /\ UNCHANGED <<hearUnchanged, mark, reading, seed>>

\* The state of the publisher after a seed that found s.
Seeded(p, s) ==
  [p EXCEPT !.enabled = TRUE, !.sure = TRUE, !.confirmed = @ \/ s # 0, !.last = s, !.revised = FALSE,
            !.handled = Nowhere, !.dirty = 0, !.unrouted = IF known THEN 0 ELSE s]

\* fetchAllDisplayedResult has answered: what the node holds, unless a live
\* marker or a publish overtook it, is applied, and all is considered again.
HearSeed ==
  /\ online /\ stream # <<>> /\ Head(stream).type = "seed"
  /\ UNCHANGED hearUnchanged
  /\ stream' = Tail(stream)
  /\ seed' = FALSE
  /\ IF seed
     THEN LET s == IF pub.revised /\ pub.last # 0 THEN pub.last ELSE Head(stream).pos
          IN  /\ mark' = IF known /\ s # 0 THEN Applied(mark, s, resident \ unnamed, FALSE) ELSE mark
              /\ Consider(Seeded(pub, s))
              /\ told' = s
     ELSE UNCHANGED <<mark, pub, reading, told>>

\* It has failed, or one of an earlier session has: the node is not known.
Unseeded(p) == [p EXCEPT !.enabled = TRUE, !.handled = Nowhere, !.dirty = 0]

SeedFails ==
  /\ \/ seed /\ "failSeed" \in events /\ seed' = FALSE /\ UNCHANGED staleSeed
     \/ staleSeed /\ staleSeed' = FALSE /\ UNCHANGED seed
  /\ pub' = Unseeded(pub)
  /\ spoiled' = (spoiled \/ pub.sure)
  /\ UNCHANGED <<events, serverVars, wire, session, known, archive, view, mam, mark, reading, told>>

-----------------------------------------------------------------------------
(* The connection.                                                         *)

\* A fresh session: the node is read again before anything is published.
GoOnline ==
  /\ ~online
  /\ online' = TRUE /\ resumable' = FALSE
  /\ pub' = [pub EXCEPT !.enabled = FALSE, !.sure = FALSE, !.confirmed = FALSE, !.revised = FALSE]
  /\ spoiled' = FALSE
  /\ sent' = <<Seed>> /\ stream' = <<>>
  /\ seed' = TRUE /\ staleSeed' = (staleSeed \/ seed)
  /\ mam' = "none"
  /\ reading' = [reading EXCEPT !.valid = FALSE]
  /\ UNCHANGED <<events, serverVars, drops, known, archive, view, mark, told>>

\* A resumed one: what was in flight still arrives.
Resume ==
  /\ ~online /\ resumable
  /\ online' = TRUE /\ resumable' = FALSE
  /\ UNCHANGED <<events, serverVars, wire, drops, known, archive, view, mam, mark, seeds, history>>
  /\ Consider([Forgotten(pub) EXCEPT !.enabled = TRUE])

\* The connection is lost: queries fail and what is buffered is dropped.
Drop ==
  /\ "drop" \in events /\ drops < MaxDrops
  /\ online
  /\ drops' = drops + 1
  /\ online' = FALSE /\ resumable' = TRUE
  /\ pub' = [pub EXCEPT !.enabled = FALSE, !.dirty = 0, !.timer = FALSE, !.unrouted = 0]
  /\ reading' = [reading EXCEPT !.valid = FALSE]
  /\ mam' = IF mam = "loading" THEN "error" ELSE mam
  /\ UNCHANGED <<events, serverVars, wire, known, archive, view, mark, seeds, history>>

-----------------------------------------------------------------------------
(* The entity: its messages and what the user reads.                       *)

entityUnchanged == <<events, node, wire, session, seeds, history>>

\* The newest messages of a set that fit in memory.
NewestRows(ps) == {p \in ps : Cardinality({q \in ps : q > p}) < Window}

\* A stretch of the cached messages that fits in memory.
Windows == {rows \in SUBSET cache : /\ Cardinality(rows) = Window
                                     /\ \A p, r \in rows, q \in cache : p < q /\ q < r => q \in rows}

AtEdge == active /\ (cache = {} \/ Newest(cache) \in resident)

\* The newest message the entity holds, in memory or as its preview.
NewestHeld == IF resident # {} THEN Newest(resident) ELSE NewestOr0(cache)

AddUncached(p, names) ==
  /\ UNCHANGED <<cache, unnamed>>
  /\ resident' = IF AtEdge THEN NewestRows(resident \cup {p}) ELSE resident
  /\ mark' \in {mark} \cup IF AtEdge THEN {Advanced(mark, p, names)} ELSE {}

\* addMessage: the message is cached, joins the window at its live edge and, if
\* the user is looking there, is read.
Add(p, names) ==
  /\ cache' = cache \cup {p}
  /\ unnamed' = IF names THEN unnamed ELSE unnamed \cup {p}
  /\ resident' = IF AtEdge THEN NewestRows(resident \cup {p}) ELSE resident
  /\ mark' \in {mark} \cup IF AtEdge THEN {Advanced(mark, p, names)} ELSE {}

Arrive ==
  /\ online /\ known /\ top < MaxPos
  /\ top' = top + 1
  /\ Add(top + 1, TRUE)
  /\ UNCHANGED <<entityUnchanged, known, active, mam>>
  /\ Consider(pub)

\* The user sends a message.  In a chat the server does not echo it.
Send ==
  /\ "own" \in events
  /\ online /\ known /\ active /\ top < MaxPos
  /\ top' = top + 1
  /\ Add(top + 1, FALSE)
  /\ UNCHANGED <<entityUnchanged, known, active, mam>>
  /\ Consider(pub)

\* A room does: the message has its archive id.
Echo ==
  /\ IsRoom /\ online /\ unnamed # {}
  /\ unnamed' = {}
  /\ UNCHANGED <<entityUnchanged, top, known, cache, view, mam, mark>>
  /\ Consider(pub)

\* ReadTracker.advance: the viewport has shown a message.
Read ==
  /\ active
  /\ \E p \in resident : p > mark.ptr.pos /\ mark' = Advanced(mark, p, p \notin unnamed)
  /\ UNCHANGED <<entityUnchanged, top, known, archive, view, mam>>
  /\ Consider(pub)

\* markReadToNewest: the entity need not be open.
MarkRead ==
  /\ known /\ NewestHeld > mark.ptr.pos
  /\ mark' = Advanced(mark, NewestHeld, NewestHeld \notin unnamed)
  /\ UNCHANGED <<entityUnchanged, top, known, archive, view, mam>>
  /\ Consider(pub)

\* The user scrolls: another stretch of the cache is in memory.
Scroll ==
  /\ "park" \in events
  /\ active
  /\ resident' \in Windows /\ resident' # resident
  /\ UNCHANGED <<entityUnchanged, top, known, archive, active, mam, mark>>
  /\ Consider(pub)

\* activateConversation, activateRoom: the newest messages are loaded, or those
\* around the pointer, and the stash is folded into the pointer before and
\* after.
Activate ==
  /\ known /\ ~active
  /\ active' = TRUE
  /\ LET latest == NewestRows(cache)
         first  == Folded(mark, latest \ unnamed)
     IN  \/ /\ first.ptr.pos \in latest \cup {0} \/ first.ptr.pos \notin cache
            /\ resident' = latest /\ mark' = first
         \/ /\ first.ptr.pos \in cache \ latest
            /\ resident' \in {rows \in Windows : first.ptr.pos \in rows}
            /\ mark' = Folded(first, resident' \ unnamed)
  /\ UNCHANGED <<entityUnchanged, top, known, archive, mam>>
  /\ Consider(pub)

\* The user leaves it: it keeps no messages in memory.
Leave ==
  /\ active
  /\ active' = FALSE /\ resident' = {}
  /\ UNCHANGED <<entityUnchanged, top, known, archive, mam, mark>>
  /\ Consider(pub)

\* The cache has answered a lookup of the stash.
LookedUp ==
  /\ mark.looking
  /\ LET s == mark.stash
         m == [mark EXCEPT !.looking = FALSE]
     IN  mark' = IF s \in cache \ unnamed THEN Applied(m, s, {s}, TRUE) ELSE m
  /\ UNCHANGED <<entityUnchanged, top, known, archive, view, mam>>
  /\ Consider(pub)

\* fetchBookmarks: the room enters the store, and the marker the seed could not
\* route is applied to it.
BookmarkLands ==
  /\ online /\ ~known
  /\ known' = TRUE
  /\ mark' = IF pub.unrouted = 0 THEN mark ELSE Applied(mark, pub.unrouted, {}, FALSE)
  /\ UNCHANGED <<entityUnchanged, top, archive, view, mam>>
  /\ Consider([pub EXCEPT !.unrouted = 0])

-----------------------------------------------------------------------------
(* Catching up with the archive: see ArchiveSync.                          *)

StartCatchUp ==
  /\ online /\ known /\ mam # "loading"
  /\ mam' = "loading"
  /\ UNCHANGED <<entityUnchanged, top, known, archive, view, mark>>
  /\ Consider(pub)

\* mergeMAMMessages: the page holds everything from some message on, what was
\* missing included, and names the own sends it holds.
CatchUpDone ==
  /\ online /\ mam = "loading"
  /\ mam' = "caughtUp"
  /\ \E from \in 1 .. top + 1 :
       LET page == from .. top IN
       /\ (1 .. top) \ cache \subseteq page
       /\ cache' = 1 .. top /\ unnamed' = unnamed \ page
       /\ resident' = IF AtEdge THEN NewestRows(resident \cup page) ELSE resident
       /\ mark' = Retried(mark, (resident' \cup page) \ unnamed')
  /\ UNCHANGED <<entityUnchanged, top, known, active>>
  /\ Consider(pub)

CatchUpFails ==
  /\ "failQuery" \in events
  /\ mam = "loading"
  /\ mam' = "error"
  /\ UNCHANGED <<entityUnchanged, top, known, archive, view, mark>>
  /\ Consider(pub)

\* placeRemoteDisplayedRow: the search of a background catch-up has asked the
\* archive for the stashed marker by its id.
MarkerPlaced ==
  /\ online /\ known /\ ~active /\ mark.stash # 0
  /\ mam \in {"loading", "caughtUp"}
  /\ mark' = Applied(mark, mark.stash, {mark.stash}, TRUE)
  /\ UNCHANGED <<entityUnchanged, top, known, archive, view, mam>>
  /\ Consider(pub)

Publishing == Resolved \/ TimerFires
Wire == ServerTakes \/ HearNotify \/ HearAck \/ HearSeed
Faults == Drop \/ SeedFails \/ CatchUpFails
User == Send \/ Read \/ MarkRead \/ Scroll \/ Activate \/ Leave
Environment == PeerPublishes \/ ServerArchives \/ Arrive \/ Echo \/ GoOnline \/ Resume
Tracker == LookedUp \/ BookmarkLands \/ StartCatchUp \/ CatchUpDone \/ MarkerPlaced

Next == Publishing \/ Wire \/ Faults \/ User \/ Environment \/ Tracker

Spec == Init /\ [][Next]_vars

-----------------------------------------------------------------------------
\* A publish of c is sent.
Sends(c) == Len(sent') = Len(sent) + 1 /\ sent'[Len(sent')] = c

\* The position p has been published, or will be without anything else happening.
OnItsWay(p) ==
  \/ p <= pub.last
  \/ pub.timer /\ p = pub.dirty
  \/ p \in InFlight
  \/ \E i \in 1..Len(stream) : stream[i] = Ack(p)

\* A marker another device published is never forgotten, however the archive
\* and the cache answer: the pointer has passed it, or it waits on the entity or
\* with the publisher to be ordered.
MarkerKept ==
  told <= mark.ptr.pos \/ told \in {mark.stash, pub.unrouted}

\* What is newly buffered lies behind the pointer and past what the server told.
BuffersForward ==
  pub'.dirty \notin {0, pub.dirty} =>
    /\ pub'.dirty <= mark'.ptr.pos
    /\ mark'.ptr.named => told' <= pub'.dirty

\* So does what is sent, as far as both positions are in memory.
SendsForward ==
  \A c \in Pos : Sends(c) =>
    /\ c <= mark.ptr.pos
    /\ {c, told} \subseteq resident \ unnamed => told < c

\* mdsSideEffects.ts, header, of what it buffers: a position is buffered only up
\* to the pointer and past what the node is known to hold, and of two positions
\* in memory an older one is not sent over a newer one heard meanwhile.  A
\* pointer on an own message without an archive id is published by an older
\* message and excepted.
PublishesForward == [][BuffersForward]_vars /\ [][SendsForward]_vars

\* Once the node has been read, a settled archive leaves no read position
\* behind: it is on the node, or being resolved, buffered or sent.
ReadIsOnItsWay ==
  /\ online /\ known /\ pub.enabled /\ pub.sure /\ mam \in {"none", "caughtUp"}
  /\ mark.ptr.named /\ mark.stash = 0 /\ ~spoiled
  => reading.on \/ OnItsWay(mark.ptr.pos)

\* mdsSideEffects.ts:6, "Never publishes a regressive marker": no position is
\* sent that is older than what the server has told.
NeverRegressive == [][\A c \in Pos : Sends(c) => told <= c]_vars
=============================================================================
