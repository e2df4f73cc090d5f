# Formal models of Fluux Messenger

Fluux Messenger is an XMPP client in TypeScript: an SDK
(`src/packages/fluux-sdk`), a React application on top of it
(`src/apps/fluux`) and, on the desktop, a native shell in Rust
(`src/apps/fluux/src-tauri`).  This directory holds TLA+ modules for the parts
of the SDK whose correctness depends on the order of events, TLC configurations
that check them, and TLAPS proofs of their main properties.

Run `tlc -config <file>.cfg <module>` and `tlapm <module>.tla` (for the modules
whose names end in `Proofs`) in this directory; `PROJECT.json` lists every run with its module, the lines of code
that each definition models, and for every property a variant of the code that
breaks it.

Contents: 1 the system; 2 what is modelled and how it corresponds to the code;
3 runs, bounds and fairness; 4 proofs; 5 where code and documentation disagree;
6 what is not modelled; 7 plan.

---

## 1. The system

### 1.1 Parts and how they interact

```
 user, window, OS ──► React UI ──► XMPPClient (facade) ──► Connection ──► xmpp.js client ──► server
                          ▲           │   │   ▲   ▲             │   ▲            │   (desktop: via native proxy)
                          │           │   │   │   │ events      │   │ handlers   │
                       stores ◄───────┘   │   │   └── stanza ◄──┼───┴────────────┘
                          │    SDK events │   │       modules   │
                    localStorage,         │   └── presence      └── connection machine
                    IndexedDB             │       machine             (XState actor)
                                          └── side effects: archive catch-up, read markers, sync
```

JavaScript has one thread.  Interleaving happens at every `await`, timer and
event callback: what a function read before an `await` may be stale after it,
and a promise settles one turn after the event that settles it.  This, the
network, suspended machines and pages that die without notice are what is hard
about the system.  There is no parallelism inside the SDK.

### 1.2 Inventory

**Connection state machine** — `core/connectionMachine.ts`.
*State*: an XState snapshot, 13 states in the groups idle, connecting,
connected (healthy, sleeping, verifying), reconnecting (waiting, attempting,
paused), disconnected and terminal, with a context (attempt counter, next
delay, retry time, last error, whether stream management can resume, when sleep
began, whether the display sleeps).  *Operations*: 18 events and two timers.
*Interacts* with Connection, which sends the events and starts an attempt when
`attempting` is entered, and with the status shown by the UI.  *Hard*: contexts
that outlive the state they belong to; every event can arrive in every state.
*Correct when* the context always agrees with the state, the backoff only goes
up during a reconnection, terminal states stop recovery, and timed states end.

**Connection manager** — `core/modules/Connection.ts`, with
`connectionUtils.ts`, `connectionTimeouts.ts` and others.  *State*:
`this.xmpp`, stored credentials, `disconnectOperationSeq` (of which every request
keeps the value it started with, its `requestEpoch`), flags for recovery, wake and health check in flight.  *Operations*: `connect`,
`disconnect`, `cancelReconnect`, `attemptReconnect`, the handlers of an xmpp.js
client, `notifySystemState`, `verifyConnectionHealth`, dead-socket recovery.
*Interacts* with xmpp.js (its events arrive on several listeners), the proxy,
storage, the machine.  *Hard*: every await between `connect()` and a
client; several promises and timers around one handshake; events of clients that
were replaced.  *Correct when* a disconnect wins over everything in flight, there is
one client and the machine describes it, and no phase waits for somebody who
has left.

**Native proxy lifecycle** — `core/modules/proxyManager.ts`.  *State*: the URL
of the running proxy, its original server, a promise chain as a lock.
*Operations*: start or reuse, stop, restart.  *Hard*: a start that timed out
after ten seconds may still succeed; the server it was started for is written
outside the lock.  *Correct when* the URL handed out belongs to the server asked
for.

**Client facade and session lifecycle** — `core/XMPPClient.ts`,
`core/sessionLifecycle.ts`.  *State*: the modules, the two actors, the session
generation and the abandoned one.  *Operations*: connect, session setup for a
fresh or a resumed stream, teardown.  *Hard*: a setup chain of many awaits
during which the session may be replaced.  *Correct when* no step of a stale
setup touches the new session.

**Presence** — `core/presenceMachine.ts`, `XMPPClient.setupPresenceSync`,
`Roster.sendInitialPresence`.  *State*: the presence snapshot (state, user's
preference and message, what was saved before an automatic away), what the
broadcast saw last.  *Operations*: the user sets a presence; idle, activity,
sleep and wake; connect and disconnect; capabilities change.  *Hard*: three
places decide what is sent, in different turns, and a session can vanish with or
without the machine being told.  *Correct when* contacts see the user as the
user asked, and an automatic away ends when the user returns.

**Stream-management persistence** — `core/modules/smPersistence.ts`.  *State*:
a cache of the SM counters and a stored copy with the joined rooms.
*Operations*: capture, persist on timers and on unload, load, clear.  *Hard*: a
reload between two captures; a clear that races a persist; ten minutes of
validity.  *Correct when* a resumed stream neither loses nor repeats stanzas and
rooms are rejoined exactly when it was not resumed.

**Stanza modules** — `core/modules/{Chat,MUC,Roster,Profile,PubSub,Blocking,
Discovery,Admin,Poll,...}.ts`.  *State*: little; pending joins in MUC.
*Operations*: one stanza to SDK events, one call to a stanza.  *Correct when*
the translation is right, which is a matter of data.

**Archive queries and catch-up** — `core/modules/MAM.ts`,
`core/backgroundSync.ts`, `core/chatSideEffects.ts`, `core/roomSideEffects.ts`,
`core/roomMamHandoff.ts`.  *State*: cursors and phases per conversation, the
owner of each room's catch-up.  *Operations*: page forward, fetch latest, page
backward, hand over from background to foreground.  *Hard*: pages of two walks
of one conversation interleave; the connection dies between pages.  *Correct
when* nothing is skipped and each conversation has one owner.

**Archive gaps and coverage** — `stores/shared/mamGap.ts`, `mamCoverage.ts`,
`archiveSaveChain.ts`, `stores/archiveMerge`.  *State*: per conversation a list
of gaps, a record of the archive position down to which history is contiguous
with the present, and a chain of page writes.  *Operations*: merge a page, heal
or form a gap, create, deepen or replace a record, commit after the write.
*Hard*: the records must not run ahead of the messages on disk.  *Correct when*
the records never claim a message that is not there.

**Durable storage** — `stores/shared/throttledStorage.ts`,
`durableMapPersist.ts`, and their use in `stores/chatStore.ts` and
`stores/roomStore.ts`.  *State*: per storage key an open window with a pending
thunk, and the structural signature of the previous write.  *Operations*:
schedule, force, flush on hide, cancel on logout, switch account, record a
pending retraction.  *Hard*: the page may die inside a window; storage may refuse
a write; two accounts alternate.  *Correct when* what a crash can lose is only
what the next session finds again.

**Read state and markers** — `stores/readTracker`, `stores/shared/readPointer.ts`,
`readMarkerSync.ts`, `core/mdsSideEffects.ts`, `core/localMdsPublishes.ts`,
`stores/shared/recountRetry.ts`.  *State*: a pointer per conversation, stashes
of markers whose message is unknown, pending recounts.  *Hard*: markers of other
devices arrive before their message; own markers come back as echoes; recounts
race new messages.  *Correct when* the pointer only moves forward and the unread
count is that of the pointer.

**Chat store, room store, other stores** — `stores/*.ts`.  *State*: messages,
metadata, occupants, roster, drafts.  *Operations*: one per SDK event.  The
protocols they take part in are the components above.

**Message cache and search index** — `utils/messageCache.ts`,
`utils/searchIndex.ts`.  IndexedDB transactions, deduplication by identity.
*Hard*: an update of a message whose insertion has not committed.

**End-to-end encryption core** — `core/e2ee`.  Plugin selection, trust,
deferred decryption when keys arrive after messages.

**Conversation sync and FAST tokens** — `core/conversationSyncSideEffects.ts`,
`core/fastToken*.ts`.  Bookmarks of conversations over PEP; tokens that outlive
a password login, rotated by the server, invalidated at logout.

**React hooks and provider, application UI, platform layer, native shell,
packaging and tests** — subscriptions and rendering, events of the browser and
the OS, TCP, TLS and OpenPGP in Rust, build material.  They are the environment
of the models, or data, or I/O.

---

## 2. What is modelled

| Module | Models | Lines it stands for |
|---|---|---|
| `ConnectionTransitions` | the chart: snapshots and one operator per event | `connectionMachine.ts` |
| `ConnectionMachine` | the chart alone under any sequence of events and timers | same |
| `Connection` | the connection manager over the chart | `Connection.ts`, `connectionUtils.ts`, `XMPPClient.connect` |
| `ConnectionSession` | abstract: one session, its status and its transport | what the status promises |
| `Presence` | the presence machine, its broadcast and the initial presence | `presenceMachine.ts`, `XMPPClient.ts`, `Roster.ts` |
| `DurableStore` | one throttled storage key | `throttledStorage.ts`, `durableMapPersist.ts`, stores |
| `ArchiveGaps` | the recorded holes of one entity, and what an archive page does to them | `mamGap.ts`, `keyedMapEdits.ts` |
| `ArchiveSync` | the walks that catch one entity up, and the chain of page writes their gap transitions wait for | `MAM.ts`, `chatSideEffects.ts`, `roomSideEffects.ts`, `backgroundSync.ts`, `archiveMerge.ts`, `archiveSaveChain.ts` |
| `ReadSync` | the read pointer of one entity, the markers it cannot order yet, and the publisher of the account's node | `mdsSideEffects.ts`, `readTracker.ts`, `readMarkerSync.ts` |
| `*Proofs` | theorems about the above | |
| `MC*` | constants and symmetry for TLC | |

In each module an operator named for a slip (`ResetKeepsAttempt`,
`FlushDropsPending`, ...) stands just before the definition it is a faulty
variant of.  No action uses it; it records a change of the code that a property
is known to notice.

### 2.1 ConnectionTransitions and ConnectionMachine

`machine` is the actor's snapshot; `OnX(m)` is the snapshot after event X, so
that a handler of `Connection.ts` that sends several events in one turn composes
operators.  XState's entry and transition actions (`resetReconnectState`,
`incrementAttempt`, `setLostResume`, ...) are operators of the same names where
TLA+ allows.  `reconnectTargetTime` is only present or absent.  `slept` is
`Date.now() - sleepStartTime`, which `TimePasses` advances; only its order
against the resume window matters.  The bound `MaxAttempt` cuts the attempt
counter, which the code leaves unbounded, and `MaxSlept` the sleep.

### 2.2 Connection

| Variable | Code |
|---|---|
| `machine` | the actor, reduced to what guards of `Connection.ts` can see (`Control`) |
| `xmpp` | `this.xmpp` |
| `client` | phase of each xmpp.js client; `unsettled`: the promise of its `setupConnectionHandlers` is open; `doomed`: a handler has stopped it |
| `request` | each `connect()` and `attemptReconnect()` in flight: the await it is at, the client attempt (`stage`), whether a disconnect cancelled it (its epoch is stale), the error it failed with |
| `credentials` | `this.credentials !== null` |
| `recovering` | `deadSocketRecoveryInProgress` |
| `wake`, `probe` | `handleAwake` and `verifyConnectionHealth` in flight, with the client they captured |

An action is one callback, run to completion.  A request whose promise has been
settled has a `pc` in `Pending`; its continuation, the promise reaction, runs
before any other callback, which the guard `Quiet` of every other action
expresses.  Where one event reaches two listeners in one turn
(those of `setupHandlers` and `setupConnectionHandlers`), the action does what both
do, in their order.

A request and its clients share a slot of `Requests`; a slot is free again when
its request is done and nothing refers to its clients.  A run with n slots thus
sees all behaviours in which at most n requests or replaced clients are alive
at once, for any number of requests over time.

`Events` says what the user, the app and the host do besides logging in:
`disconnect`; `logout` (a disconnect that invalidates the FAST token first);
`cancelReconnect`; `veto` (the machine gives up or the app refuses an attempt);
`setupFailure` (the session setup after the handshake fails or times out);
`visible`, `sleep`, `wake`, `keepalive` (page and host events; a wake waits for
the network when an attempt is in progress).  `HasProxy` is the desktop app.

Choices worth knowing.  The desktop `connect()` is modelled for a server given
as a domain name; an explicit `wss://` URL behaves as on the web.  The clearing
of stored SM state in a plain disconnect is immediate; the long await of a
logout is the FAST invalidation.  The foreground report after a pause is
`NotifyAwake` without the nudge.  Error classification (`transportErrors.ts`,
`streamErrors.ts`) is a nondeterministic choice of outcome.  Fresh and resumed
setups are one action, `Greeted`, with its outcomes.

### 2.3 ConnectionSession, the abstraction

What the rest of the application may rely on: a status out of five, and a set of
sockets that can still carry a session.  A socket is opened only while
connecting or reconnecting and only if there is none; online is entered only
with a socket; lost, failed and stopped sessions have none.  `Connection` maps to
it by `status <- StatusOf(machine.state)` and
`sockets <- {c \in Clients : Live(c)}`; the property `SessionImplemented` is
checked by the run `Connection_web` and proved in `ConnectionProofs`.

### 2.4 Presence

| Variable | Code |
|---|---|
| `machine` | presence snapshot: state, `preAutoAwayState`, its message, `lastUserPreference`, message |
| `sync` | `previousShow`, `previousStatus` of `setupPresenceSync`, `None` while `isFirstUpdate` |
| `online` | the status is online and there is a client |
| `greeting`, `late` | this session's, and a lost session's, `sendInitialPresence` is still to come |
| `hashed` | a capabilities hash has been computed |
| `wire` | what the server has of the user |

Losses differ in what the presence machine hears and when: a close of the socket
tells it while the status is still online (`SocketClosed`), `disconnect()` after
the client is gone (`Disconnect`), a dead socket not at all (`DeadSocket`), a
reload restores the context but not the state (`Reload`).  Presence directed at
rooms, the idle time it carries and the switch that turns auto-away off are left
out; they do not decide which availability is sent.

### 2.5 DurableStore

One account and one storage key; `kind` says whether it is the chat store's blob
(gaps, coverage, retractions) or one of the room store's two keys.  `memory` is
the store's state, `disk` the stored blob, `window` and `pending` the throttle's
entry, `baseline` the signature `durableMapPersist` keeps of the previous write,
`probing` the cache probes of retractions in flight, `away` that another account
is the live one, `failed` that storage refused the last write of what memory
holds.  Every write may be refused.  A boundary stands for the lower end of one
gap, a coverage record for a walk and its depth: a record of another walk is the
`replaced` transition, one of the same walk at least as deep is `deepened`.
`Merge` is any change of the maps that the archive merges can make, so that
what is checked does not depend on how a page is classified.

### 2.6 ArchiveGaps and ArchiveSync

`ArchiveGaps` has no variables.  A gap is the code's `GapInterval` with positions
for timestamps and for archive ids; the list a store keeps is a set, because
`Normal` (one record per start, pairwise disjoint) makes its order that of the
starts.  `NormalizeGapList`, `FormForwardGap`, `AfterForwardPage` and the others
are the functions of the same names in `mamGap.ts` and what `archiveMerge.ts`
makes of one page.

| Variable of `ArchiveSync` | Code |
|---|---|
| `kind` | conversation or room; it never changes |
| `live`, `purged` | the server's archive: positions `purged + 1 .. live` |
| `online`, `resumable`, `seen`, `sessionStart` | the status; what XEP-0198 can still resume; what the stream has delivered; `sessionStartTime` |
| `cache`, `queue`, `poisoned` | IndexedDB, the writes in flight in its order, each with the gap transition that waits for it, and whether the save chain holds a rejected promise |
| `gaps` | the recorded list |
| `active`, `resident` | the open entity and its messages in memory |
| `mam` | `HistoryQueryState`: `hasQueried`, `isCaughtUpToLive` |
| `fetched`, `due`, `owed` | `fetchInitiated`, a side effect about to fetch, the background pass's turn |
| `walk` | the query loop of the open entity (`front`) and of the background pass (`back`): forward pages, the newest page, the search for the read marker |
| `heard`, `lost`, `edge` | history, for the properties only |

A page's reply and its merge are one step; between two pages of a walk everything
else may happen, the other walk's pages, a reload and a lost connection included.
A merge does not wait for its write: it appends it to `queue`, and the transition
of the gap list is applied when the write commits, if the list is still the
object it was computed from (`applyDeferred`, `planDurableCommit`).  A row a live
stream delivers is a write of its own outside the chain.

Abstractions: every archived message has an archive id, which orders as its
timestamp does; the window of messages in memory has no cap and is not parked;
replayed messages of a resumed stream carry their delay stamps; persistence of
the gap list is synchronous, since `DurableStore` is about that; a scroll up
starts below every gap.  Left out: the coverage record and
`coverageBottomUnproven`, deletion and account switch, the closing of a gap by
the marker search, the seeds from the bottom of the cache, the refresh of
history, and the second `online` event the facade emits after a resume.

### 2.7 ReadSync

| Variable | Code |
|---|---|
| `events` | the scenario of a behaviour: what it may mix |
| `top`, `node` | the archive's newest position; the position on the XEP-0490 node |
| `sent`, `stream` | what client and server have sent each other and the other has not handled, in order |
| `online`, `drops`, `resumable` | the status; lost connections so far; whether the lost one can be resumed |
| `known` | the store holds the entity (a room whose bookmark has loaded) |
| `cache`, `unnamed` | cached messages; own sends whose archive id is unknown |
| `active`, `resident`, `mam` | as above, `resident` capped at `Window` and, for a user who has scrolled, any stretch |
| `mark` | `readPointer`, `pendingRemoteDisplayedStanzaId`, the lookup of it in flight, and what the session's fold has seen |
| `pub` | `mdsSideEffects.ts`: `syncEnabled`, `nodeSnapshotAuthoritative`, `lastKnownNodeStanzaId` with its revision, `lastConsideredPointerIdentity`, the buffered publish and its timer, `unroutedSeedMarkers` |
| `reading` | `considerOnce` while it awaits the cache |
| `seed`, `staleSeed` | fetches of the node in flight, of this and of an earlier session |
| `told`, `spoiled` | history |

`considerOnce` runs as part of the step that asks for it when its position can be
resolved from memory; otherwise it is in flight, and every input is looked at
again when the cache has answered.  `applyRemoteDisplayed`, the fold of the stash,
`publishDecision`, `archiveIsTrustworthy` and the position resolution are
operators.

Abstractions: opening an entity is one step; live messages arrive at once; the
server confirms a publish before it echoes it; while a session is up, another
device publishes only once the store knows the entity (a bound, because the code
does lose that one: section 5).  Left out: floor pointers, markers of purged messages, recounts and
dividers, the migration of the old node format, deletion and retraction, account
switch, reload (and with it the second `online` of a resumed session whose cache
marker was wiped), a conversation that is added again, partial pages.  A pointer
on an own send keeps no archive id even when the echo has named the row:
`withArchiveId`, which would attach it, is exported but called by nothing but tests.

---

## 3. Runs

Deadlock is checked in all of them but those of `ReadSync`, where a bounded
server and a user with nothing left to read may stop.

| Run | What it asks | Bounds | Distinct states |
|---|---|---|---|
| `MCConnectionMachine` | any event in any state: context and state agree, terminal states hold, the ladder only climbs, timed states end | delays 1, 2, 4, 5; windows of 1 and 2; sleeps to 3; 4 attempts | 264 |
| `Connection_web` | the web app, with disconnects, vetoes and page events at every await: one request at work that drives the phase, silence of what was cancelled, the refinement of `ConnectionSession`, and no phase left open | 2 slots, no symmetry | 7,355 |
| `Connection_overlap` | the web app, with what leaves an attempt running beside its successor (logout, cancelled reconnection, failed setup, wake): a late failure falls on its own client, a wake verifies a client that exists, and no promise is left open | 2 slots, no symmetry | 311,543 |
| `Connection_desktop` | proxy, pre-check and fallback with a disconnect at each await | 2 slots | 399,757 |
| `Connection_setup`, `Connection_noproxy` | two disagreements of section 5 | 2 slots | violated |
| `Presence` | every order of user, idle, sleep, loss, late chain and reload: what contacts see | 2 messages | 18,346 |
| `DurableStore` | every order of merge, retraction, timer, hide, refusal, switch, logout and crash: what survives | 2 boundaries, 2 ids, 2 walks, depth 2, 1 retraction | 29,464 |
| `ArchiveSync` | two walks of one entity, a page write or a query that fails, a drop, a reload, expiry: what the gap list claims, and that walks end | 5 positions, 1 of them a signal; pages of 1; walks of 2 pages; 2 writes in flight; 1 fault; chat and room | 366,646 |
| `ArchiveSync_reconnect` | a chat, one lost connection: the third disagreement of section 5 | 3 positions | violated |
| `ReadSync` | two devices, with own sends, a scrolled window and failing queries, late bookmarks and refusals, or a lost connection | 3 messages, 2 in memory, 2 in flight each way, 1 drop | 1,480,644 |
| `ReadSync_overtaken` | two devices, nothing fails: the fourth disagreement | 3 messages | violated |

**Why the bounds are enough.**  The machine has 4 attempts because the delay
doubles to its cap in 4 steps (1, 2, 4, 5) and then repeats; sleeps pass both
windows.  In `Connection` the properties relate an old request and the one that replaced
it, which two slots cover; the safety properties of `Connection_web` also hold
with three slots under symmetry (44,703 states), and section 4 proves them for
any number.  The backoff data is at its smallest there,
because `Control` drops it: no guard of `Connection.ts` reads it.  In `Presence`
two messages tell the saved one from a new one.  In `DurableStore` two of each
let one element appear while another goes, which is where a comparison by count
would be wrong; the retraction set is not compared, so one is enough.  In `ArchiveSync` a gap, a
walk through it, the page above it and a live message need five positions; one of
them a signal makes a page without rows possible.  With two faults (2.9 million
states), with six positions, pages of 2 or two signals (up to 440,000), and a
room with three writes in flight and two faults (3.5 million) its safety
properties hold as well.  In `ReadSync` a pointer, a marker and a window that
holds one of them need three messages; the scenarios are separate because their
mix at three messages is too large.  At two messages the full mix holds for a chat
(1.1 to 1.7 million states) and for a room (1.5 million); a mixed room at three
holds (2.5 million), as do two lost connections (2.3 million).  Symmetry is used
only for runs without liveness, over sets whose elements the module never
distinguishes.

**Fairness.**  In `ConnectionMachine` only the two `after` timers of the chart are
fair (weakly): XState arms them on entry.  In `Connection` the steps of requests
are strongly fair, as are the two timers: each await is bounded by a timer of its
own (`connectionTimeouts.ts`) or by the client's promise, but a pending promise
reaction disables every other callback for as long as it takes, so weak fairness
would be too little; the event loop takes callbacks in order and starves none.
Nothing the user, the server or the host does is fair, and no handshake is
assumed to succeed.  In `ArchiveSync` the pages of a walk are weakly fair, for a
query is answered or times out, and so are the writes of IndexedDB, which commit
or fail; nothing is assumed of what starts a walk.  `Presence`, `DurableStore` and
`ReadSync` have safety properties only.

**What passes and what each property is for.**

*Machine*: `BackoffMatchesState`, `CountdownMatchesTimer`,
`NothingOutlivesItsState` and `TerminalExplained` relate the context to the state;
`TerminalOnlyLeftByConnect`, `LadderNeverResets`, `LostSessionStaysLost` say what a
step may never do; `TimedStatesEnd` is liveness.

*Connection*: `DisconnectWins` and `NothingInstalledWhenStopped` are the promise of
`connect()`'s epoch checks; `CancelledIsSilent` says a cancelled request does not
move the machine; `PhaseIsDriven` that connecting and attempting, which have no
timer, always have somebody who will end them; `OneRequestAtWork` and
`ClientMatchesMachine` that there is one of each, in the phase the machine is in;
`FailureSparesOthers` that a late failure falls on its own client;
`SessionImplemented` is the refinement; `PhasesEnd` and `RequestsEnd` are liveness:
phases end, and so do the promises, also of an attempt nobody waits for any more.

*Presence*: `StateMatchesPreference` for the machine, `BusyOrOnlineAnnounced`,
`NoLingeringAway` and `DndNeverWithdrawn` for what the server has.

*DurableStore*: `GapsSurviveCrash`, `CoverageNotOverstated`,
`RetractionsSurviveCrash` say what a crash at this moment would leave, while
storage accepts writes; `OnlyTheWindowIsLost` that the rest is pending in its
latest form; `ClearedStaysCleared` that no pending write brings back what a logout removed.

*ArchiveSync*: `HolesLeaveOnlyWhenStored` says that no order of merges, write
outcomes and late commits takes a position out of the recorded gaps before it is
stored; `ResumeNeverSkips` that the id a gap is resumed after leaps over no
message; `AlignedFromEdge` that an entity that counts as caught up holds, or has
recorded as missing, everything above the point its session caught up from;
`WalksEnd` is liveness.  Messages the stream delivered are exempt: their writes are
not chained, and one that fails is not recorded anywhere.  Once one has failed,
`HolesLeaveOnlyWhenStored` promises nothing any more (section 5 has the run that
shows why).

*ReadSync*: `MarkerKept` says that a marker of another device is never forgotten,
however late the archive and the cache answer; `ReadIsOnItsWay` that a read
position of a settled entity is on the node, being resolved, buffered or sent, so
that no order of seeds, echoes, cache answers and lost connections leaves it
behind;
`PublishesForward` that what is buffered lies behind the pointer and past what the
server has told.

**How far the passing connection runs reach.**  `Connection_web` leaves out
`wake`, `setupFailure`, `cancelReconnect` and `logout`.  Adding any one of them
breaks its invariants and `PhasesEnd`: two requests can then be at work.  For example a wake waits for the network; the user disconnects and
logs in again; `WakeNetwork` destroys the new client, whose own timeout is
classified as superseded and swallowed, and the machine stays in `connecting`.
`Connection_overlap` has all four, with disconnects and without the proxy, and
checks what holds regardless: `FailureSparesOthers`; `RequestsEnd`, for the promise of
an attempt whose client was taken from it must settle as well; and the type
invariant, whose one conjunct of substance is that a wake verifies a client that was
there when it began.  `FailureSparesOthers` and the type invariant are also proved
for every event.  That the promises settle does not mean that the machine hears of
it: whether the phase ends after such a wake is what the code leaves open, and
whether a cancelled request stays silent after a logout (section 5).
`DisconnectWins`, proved for every event, is run with the proxy.

---

## 4. Proofs

TLAPS proves, for every value of the constants that satisfies the named
assumptions:

| Module | Theorem | States |
|---|---|---|
| `ConnectionMachineProofs` | `TypeCorrect`, `BackoffCorrect`, `CountdownCorrect`, `ContextCorrect`, `ExplanationCorrect`, `LadderCorrect`, `LostSessionCorrect`, `TerminalCorrect` | all safety properties of the chart |
| `ConnectionProofs` | `DisconnectWinsCorrect`, `TypeCorrect` | `DisconnectWins` and `TypeOK` of `Connection`: any number of requests, with or without proxy, every event |
| | `PhaseCorrect`, `OneRequestCorrect`, `ClientCorrect`, `StoppedCorrect`, `SilenceCorrect`, `SessionCorrect` | all safety properties of `Connection_web`, the refinement of `ConnectionSession` included, assuming `WebOnly` |
| | `FailureCorrect` | `FailureSparesOthers`, assuming no proxy |
| `PresenceProofs` | `TypeCorrect`, `PreferenceCorrect`, `AnnouncementCorrect`, `AwayCorrect`, `DndCorrect` | all properties of `Presence` |
| `DurableStoreProofs` | `TypeCorrect`, `GapsSafe`, `CoverageSafe`, `RetractionsSafe`, `WindowCorrect`, `ClearCorrect` | all properties of `DurableStore` |
| `ArchiveSyncProofs` | `TypeCorrect`, `ResumeCorrect` | `TypeOK`, with the order of the gap list, and `ResumeNeverSkips` |
| `ArchiveHoleProofs` | `RoomHolesCorrect` | `HolesLeaveOnlyWhenStored`, for every room |
| | `HolesCorrect` | `HolesLeaveOnlyWhenStored`, for a conversation too, as long as its two walks do not overlap |
| | `RoomsWalkOnce` | a room's two walks never overlap |
| `ArchiveAlignedProofs` | `RoomAlignedCorrect` | `AlignedFromEdge`, for every room |
| | `AlignedCorrect` | `AlignedFromEdge`, for a conversation too, as long as its two walks do not overlap |
| `ReadSyncProofs` | `TypeCorrect`, `MarkerCorrect`, `ReadCorrect`, `PublishesCorrect` | all properties of `ReadSync` |

Assumptions: the delays, the factor and the bounds are positive naturals, the
default window is one a server may announce (`ConnectionTransitions`); model
values for "none" are outside the sets they extend; `Events` and `Scenarios` name
events the modules know.  Two theorems of `ReadSync` also assume that no scenario
loses a connection before the bookmarks have loaded (see below and section 5).

*The machine.*  `Consistent` is the conjunction of the state/context relations
above with the type.  None of them is inductive alone: that a delay is the
attempt's own needs that an attempt is counted only while reconnecting, and that
a new session starts clean needs that the old one left no sleep measurement.
One lemma per chart action shows that it establishes `Consistent` from what it
resets; one per event composes them.  The ladder, the lost session and the terminal
states are then action properties of a consistent snapshot.

*Connection.*  `DisconnectWins` needs no invariant: only `Try` installs a client,
and each of its callers checks its own cancellation in the same step
(`InstallsForLiveRequest`, one lemma per kind of step).  That is the content of
the result: no await lies between a check and an installation.

The other properties need an invariant, `IInv`, which is about the *worker*: the one
request that is not cancelled and has not handed its client over.  It says that
there is at most one, at which await it can be for each phase of the machine,
that every client still able to answer is its own or belongs to a connected
machine, and that a phase without a timer has a worker.  A step of `Connection` has
one of a few effects (a request starts, a request moves on, a client appears,
answers or dies, everything is stopped, only the machine moves), and one lemma per
effect shows that it keeps `IInv` and maps to a step or a stutter of
`ConnectionSession`.  The case analysis over the actions then only names the effect
of each.  `WebOnly` leaves out the proxy and the events `logout`,
`cancelReconnect`, `setupFailure` and `wake`, because their handlers start or end
something beside the worker; TLC finds these theorems' statements false with any of
the four.

*Presence.*  The inductive invariant says that while the stream is up the machine
is connected and what it announces is the subscription's baseline, that outside an
automatic state nothing is saved, and that the server's view agrees as far as the
properties ask.  The baseline part is why the rest holds: any change of the
announcement differs from the baseline and is therefore sent.

*DurableStore.*  The inductive invariant says that while a window is open its
baseline is the signature of memory and the disk is only `Behind` memory: it may
hold healed gaps and settled retractions, and shallower records of the same walks.
A write that would break `Behind` is exactly one whose signature differs in a
forbidden direction, or a replacement, and those are forced.

*ReadSync.*  `IInv` says what the publisher's bookkeeping knows.  `Aware`: what it
records as the node's position is what the server last told, and as long as no
publish has undone another device's, what the stream brings and the node are never
older.  `Behind`: everything buffered, sent or confirmed lies at or below the
pointer.  `Attended`: a pointer that counts as handled is on its way, and a cache
read for an older pointer owes another pass.  `Routed`: nothing is published before
the store holds the entity.  `Kept` is `MarkerKept`, excepted where it fails: a
connection lost before the bookmarks load clears the markers a seed could not
route, and a resumed session does not read the node again.  `Attended` is what
makes `ReadIsOnItsWay` inductive: the publisher forgets `handled` wherever the way
ends.

*ArchiveSync*.  That the list is ordered and disjoint is a fact about
`NormalizeGapList`, proved from the extreme elements its two `CHOOSE`s pick
(`OldestOf`, `NewestOf`, by well-founded minimality) and from the heads and clusters
of the list (`JoinedOf`, `NormalizeOf`).  `ResumeNeverSkips` is not inductive: a
transition is computed long before it is applied.  The invariant, `Content`, says it
of the recorded gaps over what is *held*; of each queued transition over what is held
once the writes up to its own have committed (`Planned`); and of each forward walk,
which has passed over nothing that is not held, pending in an archive write or among
the rows it still carries (`PassedOver`).  A failed archive write makes the last two
void, and it poisons the chain, so that no queued transition is applied any more.
The lemmas on the operators (`AfterForward`, `AfterBackward`, `Cleared`) carry
soundness through a merge, those on the queue (`AppendOf`, `TailOf`, `StaleOf`)
through the chain, and `StoreContent` is `planDurableCommit`: a transition is applied
at once only when nothing it rests on is still in flight.

*Holes.*  `HolesLeaveOnlyWhenStored` is an action property of the step that applies
a transition: when a page is stored at once, or when a write commits whose
transition was deferred.  What makes it hold is spread over the walk that came
before, so the invariant of `ArchiveHoleProofs` has five parts:

- `Basics`, which contains `Content`: whatever is held, pending, or carried by a walk has been delivered by
  the stream or sent by the server, and gaps are drawn between such messages.
- `RoomsOnce`: a room is walked once at a time, because the side effects and the
  background pass each start only when neither has a walk.  This is `RoomsWalkOnce`.
- `Reaches`: a forward walk removes the gap it crosses on the word of its origin, so
  either every list (the recorded one and each that a queued write may still apply)
  has a gap over all that is missing above the origin (`Traced`), or nothing is
  missing above anything that is held past the walk (`Founded`), as when it
  starts from nothing.
- `Bridges`: a page walked down removes the part of a gap above its own oldest
  row, so while an automatic walk runs no gap, recorded or in a queued transition,
  spans the bottom of another or of the search unless nothing is missing above that
  bottom.  Without it the search below one gap could take a hole out of the other.
- `Backed`: what a transition still to be applied takes out of the gaps is stored,
  or will be by a write no later than its own.

Each is needed for the next: `Backed` for a new write follows from `Reaches` or
`Bridges` at the page that made it.  One lemma per merge says what it does to one
gap record (`ArchiveGaps`), one per kind of queue step what becomes of the lists still
to be applied, one per walk step what it does to each part.  All but `Basics` and
`RoomsOnce` are void after a failed write: then a failed archive write poisons the
chain, and a lost live one is in no list.

`OneWalk`, that only one of the two slots has a walk, is a hypothesis for
conversations alone, and it is a real restriction: `catchUpAllConversations()`
leaves out the conversation that is open when the pass starts (`MAM.ts:1640`), and
reaches the others without looking whether one has been opened, and is being
caught up, since (`MAM.ts:1676`).  With both walks running, each records gaps of the
other's making, and `Bridges` and `Reaches` fail.  The parts were checked with TLC
before they were proved: exhaustively with 5 positions and one fault, and by random
walks with 12 positions and 4 faults (65 million states).

*Caught up.*  `AlignedFromEdge` asks only about moments when nothing is in flight, so
by itself it says nothing a step could preserve.  The invariant of
`ArchiveAlignedProofs` keeps the first four parts above and adds two.  `Answered` says
the same of every moment.  A message above `edge` is *claimed* once a catch-up has
answered for it: the entity counts as caught up, or the message lies at or below
something the next catch-up may start from, or a running walk has paged past it or
fetched the newest page instead.  A claimed message is stored or on its way, in
a recorded gap, or in one of the list that will be recorded next (`Vouched`); and what
that next list frees is stored by then, newer than what the session has seen, or
claimed by nobody (`Freed`).  `Grounds` is what the two need of the pages before:

- `Footed`: gaps start at messages that are stored or will be.
- `Chained`: a transition computed from a list that has changed since is never
  applied, and no transition before it in the queue will be, so that there is one
  list that comes next.
- `Alone`: a forward walk has no archive write beside it until it stores a page; what
  it starts from is therefore settled.
- `Onward`: a forward walk pages on from its origin, and a resume id is not below its
  gap's start.
- `Follows`: the marker search runs only after a page that reached live, and a
  newest page that joins what a walk found is never the user's.
- `Pinned`: while no session time is known, an automatic forward walk starts above
  every gap.

`AlignedFromEdge` is `Vouched` when the queue is empty.  `Answered` is void where the
property is: after a failed write, and once a delivered message was lost (section 5 has
the executions that show why).  That two walks of a conversation must not overlap is
inherited from `Reaches` and `Bridges`, and for the same reason.  With `OneWalk` as
a constraint TLC checked all parts before they were proved: 5 positions and one
fault, 250 thousand states; 4 positions and two faults, 439 thousand.

Only model-checked: everything temporal (liveness and fairness are out of the
prover's reach); and `AlignedFromEdge` and `HolesLeaveOnlyWhenStored` for a conversation
whose two walks overlap, which the configuration that is kept allows.  The latter was
also run once beyond it: 6 positions, a marker search of 3 pages, two faults among
lost connections and reloads (7.8 million states), and by random walks of
conversations with 20 positions and 4 faults (330 million states); neither violated it.

---

## 5. Where the code and its documentation disagree

Kept as runs that TLC violates:

1. `Connection_setup`, `DiscardedSessionRetried`.  When the fresh-session setup of
   a reconnection fails, the machine is already connected; `attemptReconnect()`
   (`Connection.ts:3108`) cleans the client up and sends CONNECTION_ERROR, which a
   connected machine ignores.  The status stays online without a client.
   `connectionTimeouts.ts:84` says the reconnect loop retries.
2. `Connection_noproxy`, `AttemptingEnds`.  Credentials are stored by
   `attemptConnection()` only; when the proxy never starts, a retried first
   connection has none and `attemptReconnect()` returns without answering
   (`Connection.ts:2863`; `connectionMachine.ts:411`).
3. `ArchiveSync_reconnect`, `NoSilentHole`.  The cursor of a catch-up excludes what
   arrived in the *current* session (`mamCatchUpUtils.ts:141`), so that it "stays on
   the pre-session edge" (123).  Message 2 is archived while the client is away; it
   comes online, 3 arrives and is cached, and the connection drops before the
   catch-up.  In the next fresh session 3 is old enough to be the cursor, the
   catch-up completes above it, and 2 is missing without a gap.
4. `ReadSync_overtaken`, `NeverRegressive`.  `mdsSideEffects.ts:6` says no
   regressive marker is published.  Position 1 is buffered; another device's 2
   arrives, the pointer follows and is considered (`skip`), but the buffer keeps 1
   (231).  The user closes the entity, so nothing in memory can order the two when
   the debounce ends, and 1 is sent over 2.

Seen with the same modules, each reproduced by giving one of the configurations
the constants and the property named, or by a longer trace of the run above:

- A wake during `attempting` goes back to `waiting` while the attempt is still
  awaiting, and the next entry starts a second (`connectionMachine.ts:689`; the
  comment at 700 speaks of preventing parallel attempts): `OneRequestAtWork` fails
  with `Events = {"wake"}`.
- `cancelReconnect` moves the machine but not the attempt
  (`Connection.ts:1140` against 1142): the attempt still installs a client, and
  `OneRequestAtWork` fails with `Events = {"cancelReconnect"}`.
- During a logout's token invalidation the old client's listeners are attached
  (`Connection.ts:665` against 1043-1128): `CancelledIsSilent` fails with
  `Events = {"logout"}`.
- A desktop attempt that falls back after a wake replaced its client cleans up the
  wrong one (`Connection.ts:3082` against 3049): `FailureSparesOthers` fails with
  `HasProxy = TRUE`, `Events = {"wake"}`.
- The 5 s pre-check deadline can pass while the setup behind it, with its own
  30 s, goes on (`connectionTimeouts.ts:62`, `Connection.ts:843`):
  `ClientMatchesMachine` fails with `HasProxy = TRUE`.
- A page write that fails poisons the chain without recording a gap.  A later page
  that is stored makes the cursor of the next session leap it, although the header
  of `archiveSaveChain.ts` says the next session re-fetches from the stale cursor.
  `AlignedFromEdge` therefore excepts a poisoned chain.
- A live row whose write is lost can bound a closed gap.  A forward walk that
  crosses such a gap and gives up opens no gap above it, and the seam to the newest
  page is dropped when an earlier deferred commit has changed the list: a hole
  nobody records.
- Beyond the bounds of the configuration (20 positions, 4 faults; 56 steps), two
  overlapping walks of a conversation take a position that was never stored out of
  the gaps, once a live write has been lost before and left a hole that no list
  records.  The attempt to prove
  `HolesLeaveOnlyWhenStored` found this; it now excepts a session that lost a live
  message.
- A room's open gap of page 1, deferred, may commit after the page that completed
  the walk, which leaves a gap that hides nothing.
- After a reload that resumes the stream there is no session start, and a live
  message may be the cursor; and a fetch-latest that stands in for an expired anchor
  of an entity that is not open leaves a hole unrecorded (`docs/MAM_CATCHUP.md:456`).
  `edge` excepts both: it moves to the point such a walk resumed from (`ResumedAt`)
  or above which it fetched (`from` in `Completed`).
- A pointer on an own message whose archive id is unknown is published by an older
  message that has one; when the node's newer value is not in memory, that is a step
  back.  `PublishesForward` asks nothing of such a pointer.
- A live marker of a room the store does not hold yet is recorded by the publisher
  but applied to nothing; only markers of the seed are kept for later
  (`unroutedSeedMarkers`).
- A publish that crosses a newer one of another device on the wire leaves the node
  behind, and the pointer counts as handled for the rest of the session.
- A stashed marker that can never be ordered, because it rests on an own message
  the cache does not name, holds every later publish back.
- A fetch of the node that belongs to an earlier session and fails late drops the
  buffered publish without considering again (`mdsSideEffects.ts:617-634`); the
  history `spoiled` marks it.

Read in passing:

- `deadSocketRecoveryInProgress` is reset inside the turn that sets it, by
  `cleanupClient` (`Connection.ts:1592` and 3137).
- `connectionMachine.ts:127` says the retry time is null when not waiting; a pause
  (645-648) keeps it.  `connectionMachine.ts:60` says `connecting` leads only to
  `connected` or `initialFailure`; 403-433 also lead to waiting, conflict, failed
  authentication and disconnected.  `Connection.ts:1781` says WAKE resets the
  backoff counter; the chart keeps it (624-638, 689-699).
- `presenceMachine.ts:39`, 109 and 195 say a preference is restored on CONNECT;
  `Roster.ts:408` says a manual away is not.  The machine restores it, the initial
  presence overrides it on the wire, and setting away again sends nothing because
  the machine is already away.  An away set during session setup is overridden the
  same way.  The properties of `Presence` therefore ask nothing of a user who is
  away by choice.
- After a loss the presence machine was not told of, or after a reload, the
  message of an online user is not part of the initial presence.
- `cancelDurableMaps` drops the baseline (`durableMapPersist.ts:86`) lest a later
  formation be missed; the model shows the next write after it is always a leading
  edge, so the baseline would not have mattered.
- When storage refuses the direct edit of another account's blob
  (`chatStore.ts:1584`), a settled retraction is replayed on the way back.

---

## 6. What is not modelled

Wire formats, SASL, DNS, TLS, encryption and rendering: data and I/O.  In
`Connection`: stanza-level stream management (what is resent after a resume), the
resource conflict negotiation beyond its outcome, diagnostics.  The recovery that
a presence broadcast inside the disconnect handler may start is folded into the
loss that the handler reports.  In `DurableStore`: the upper end of a gap (losing
it costs a second heal), the other contents of the blobs, and several tabs on one
origin, for which the code has no protocol.  What `ArchiveSync` and `ReadSync`
leave out is listed with them (2.6, 2.7).  All other components of section 1 that
section 2 does not list; those with a protocol of their own are in the plan.

The modules stand for a small part of the repository's lines, because most of them
are components, hooks and styles of the application, one-stanza parsers and
builders, reducers that copy an event into a store, cryptography, and their
translations.  These have no order of events to get wrong, or one that the browser
and React fix; a model of them would restate them.

---

## 7. Plan

Done, in this order: `ConnectionTransitions`, `ConnectionMachine` and their proofs;
`Connection` and `ConnectionSession`; `Presence` and its proofs; `DurableStore` and
its proofs; `ArchiveGaps`, `ArchiveSync` and its proofs; `ReadSync` and its proofs; the
inductive invariant and the refinement of `Connection`; the invariants behind
`HolesLeaveOnlyWhenStored` and `AlignedFromEdge`.

Next, in the order of importance:

1. `ArchiveSync`: an inductive invariant behind `AlignedFromEdge` and
   `HolesLeaveOnlyWhenStored` that lets the walks of a conversation overlap.
2. The hand-off of a room from its join to its archive (`roomMamHandoff.ts`) and the
   order of the background pass over several entities; liveness: every joined room
   is caught up by one owner.
3. `ProxyManager`: the start/reuse/stop queue, a timed out start that completes
   late; theorem: a URL handed out belongs to the server asked for.
4. `SmPersistence`: captures, the stored copy, reloads and clears.
5. FAST token rotation; deferred decryption; pending retractions with their cap.
6. Unread counts and dividers over `ReadSync` (`recountRetry`).
