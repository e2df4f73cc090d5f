------------------------------ MODULE Presence ------------------------------
(***************************************************************************)
(* What the user's contacts are told: the presence machine of              *)
(* core/presenceMachine.ts, the subscription that broadcasts its changes   *)
(* (XMPPClient.setupPresenceSync), the initial presence of every session   *)
(* (Roster.sendInitialPresence) and the losses and returns of the stream   *)
(* in between.  The stream itself is module Connection; here it is only up *)
(* or down.                                                                *)
(*                                                                         *)
(* The machine, the subscription and the initial presence each decide what *)
(* to send, from the machine's state, from what the subscription last saw  *)
(* and from the state saved before an automatic away.  The properties are  *)
(* about the server's view of the three together.                          *)
(*                                                                         *)
(* An operator named for a slip is a faulty variant of one below it, which *)
(* no action uses.                                                         *)
(***************************************************************************)
EXTENDS Naturals

CONSTANTS Messages,     \* status messages a user may set
          NoMessage,
          None          \* the subscription has not seen an update yet

ASSUME MessageAssumption == NoMessage \notin Messages
ASSUME NoneAssumption ==
    None \notin [show: {"online", "away", "dnd", "xa"}, status: Messages \cup {NoMessage}]

VARIABLES machine,      \* the presence actor's snapshot
          sync,         \* previousShow and previousStatus, None while isFirstUpdate
          online,       \* the status is online and there is a client to send with
          greeting,     \* this session's sendInitialPresence is still to come
          late,         \* an earlier session's is still computing its caps hash
          hashed,       \* capsHash # null: one was computed since the page loaded
          wire          \* what the server has of us

vars == <<machine, sync, online, greeting, late, hashed, wire>>

Preferences == {"online", "away", "dnd"}
Texts       == Messages \cup {NoMessage}
AutoStates  == {"autoAway", "autoXa"}
States      == {"disconnected", "userOnline", "userAway", "userDnd"} \cup AutoStates

\* The state in which the machine shows a preference.
User(p) == IF p = "online" THEN "userOnline" ELSE IF p = "away" THEN "userAway" ELSE "userDnd"

\* saved is preAutoAwayState.
Machines == [state: States, saved: {"none", "online", "away"}, savedStatus: Texts,
             preference: Preferences, status: Texts]
Said     == [show: {"online", "away", "dnd", "xa"}, status: Texts]
Unavailable == [show |-> "unavailable", status |-> NoMessage]

TypeOK ==
    /\ machine \in Machines
    /\ sync \in Said \cup {None}
    /\ online \in BOOLEAN /\ greeting \in BOOLEAN
    /\ late \in BOOLEAN /\ hashed \in BOOLEAN
    /\ wire \in Said \cup {Unavailable}

-----------------------------------------------------------------------------
(* The presence machine.                                                    *)

\* The entry action of the user states, clearPreAutoAwayState.
EnterUserKeepsSaved(m, s) == [m EXCEPT !.state = s]
EnterUser(m, s) == [m EXCEPT !.state = s, !.saved = "none", !.savedStatus = NoMessage]

\* CONNECT restores the last explicit preference.
OnConnect(m) == IF m.state = "disconnected" THEN EnterUser(m, User(m.preference)) ELSE m

\* DISCONNECT forgets the message and keeps what was saved.
OnDisconnect(m) ==
    IF m.state = "disconnected" THEN m
    ELSE [m EXCEPT !.state = "disconnected", !.status = NoMessage]

OnSetPresence(m, show, status) ==
    IF m.state = "disconnected" THEN m
    ELSE [EnterUser(m, User(show)) EXCEPT !.status = status, !.preference = show]

\* saveStateForAutoAway, saveAwayStateForAutoXa.
Save(m, s, p) == [m EXCEPT !.state = s, !.saved = p, !.savedStatus = m.status]

OnIdleSavesNothing(m) ==
    IF m.state = "userOnline" THEN [m EXCEPT !.state = "autoAway"] ELSE m
OnIdle(m) == IF m.state = "userOnline" THEN Save(m, "autoAway", "online") ELSE m

OnSleep(m) ==
    IF m.state = "autoAway" THEN [m EXCEPT !.state = "autoXa"]
    ELSE IF m.state = "userOnline" THEN Save(m, "autoXa", "online")
    ELSE IF m.state = "userAway" THEN Save(m, "autoXa", "away")
    ELSE m

\* ACTIVITY_DETECTED and WAKE_DETECTED: restorePreAutoAwayState, then the entry action.
OnBackAlwaysOnline(m) ==
    IF m.state \in AutoStates
    THEN EnterUser([m EXCEPT !.status = m.savedStatus], "userOnline") ELSE m
OnBack(m) ==
    IF m.state \in AutoStates
    THEN EnterUser([m EXCEPT !.status = m.savedStatus],
                   IF m.state = "autoXa" /\ m.saved = "away" THEN "userAway" ELSE "userOnline")
    ELSE m

-----------------------------------------------------------------------------
(* What is sent.                                                            *)

\* getPresenceShowFromState; a disconnected machine shows undefined, like online.
ShowOf(m) == CASE m.state = "userDnd" -> "dnd"
               [] m.state \in {"userAway", "autoAway"} -> "away"
               [] m.state = "autoXa" -> "xa"
               [] OTHER -> "online"

\* What setupPresenceSync and announceCapsChange send.
Current(m) == [show |-> ShowOf(m), status |-> m.status]

\* What sendInitialPresence sends: DND, what was saved before an automatic away, or online.
InitialForgetsDnd(m) ==
    IF m.state \in AutoStates \/ m.saved # "none" THEN [show |-> m.saved, status |-> m.savedStatus]
    ELSE [show |-> "online", status |-> NoMessage]
Initial(m) ==
    IF m.state = "userDnd" THEN Current(m)
    ELSE IF m.state \in AutoStates \/ m.saved # "none"
    THEN [show |-> m.saved, status |-> m.savedStatus]
    ELSE [show |-> "online", status |-> NoMessage]

(* The actor goes to m and notifies its subscribers, which it does for an   *)
(* event it ignores as well.  The subscription looks only when it can see a *)
(* usable stream; its first look sets the baseline, a later one sends what  *)
(* changed.  server is what the server has, arrives whether it hears of it. *)
BecomesComparingMessages(m, seen, arrives, server) ==
    /\ machine' = m
    /\ sync' = IF seen THEN Current(m) ELSE sync
    /\ wire' = IF seen /\ arrives /\ sync # None /\ sync.status # m.status
               THEN Current(m) ELSE server
Becomes(m, seen, arrives, server) ==
    /\ machine' = m
    /\ sync' = IF seen THEN Current(m) ELSE sync
    /\ wire' = IF seen /\ arrives /\ sync \notin {None, Current(m)}
               THEN Current(m) ELSE server

-----------------------------------------------------------------------------
(* Actions.                                                                 *)

Init ==
    /\ machine = [state |-> "disconnected", saved |-> "none", savedStatus |-> NoMessage,
                  preference |-> "online", status |-> NoMessage]
    /\ sync = None
    /\ online = FALSE /\ greeting = FALSE /\ late = FALSE /\ hashed = FALSE
    /\ wire = Unavailable

\* An event of the user or the host.  The broadcast it causes may be the one that finds the
\* socket dead: sendStanza then starts the recovery, which sends no DISCONNECT.
Event(m) ==
    \E arrives \in BOOLEAN :
        /\ arrives \/ (online /\ sync # Current(m))
        /\ Becomes(m, online, arrives, wire)
        /\ online' = (online /\ arrives)
        /\ greeting' = (greeting /\ arrives)
        /\ \/ late' = late
           \/ late' = TRUE /\ greeting /\ ~arrives
        /\ UNCHANGED hashed

SetPresence == \E show \in Preferences, status \in Texts :
                  machine.state # "disconnected" /\ Event(OnSetPresence(machine, show, status))
IdleDetected     == Event(OnIdle(machine))
SleepDetected    == Event(OnSleep(machine))
ActivityDetected == Event(OnBack(machine))

\* handleConnectionSuccess sends CONNECT with the status already online.  The server kept what
\* it had of a resumed session.
Established ==
    /\ ~online
    /\ online' = TRUE
    /\ greeting' = TRUE
    /\ \E resumed \in BOOLEAN :
          Becomes(OnConnect(machine), TRUE, TRUE, IF resumed THEN wire ELSE Unavailable)
    /\ UNCHANGED <<late, hashed>>

\* sendInitialPresence reads the machine after its last await and sends in the same step.
SendInitial ==
    /\ online /\ greeting
    /\ wire' = Initial(machine)
    /\ greeting' = FALSE
    /\ hashed' = TRUE
    /\ UNCHANGED <<machine, sync, online, late>>

\* The chain of a lost session was past its last checkpoint: its presence goes out on the
\* current stream, or fails when there is none.
SendLate ==
    /\ late
    /\ late' = FALSE
    /\ wire' = IF online THEN Initial(machine) ELSE wire
    /\ hashed' = TRUE
    /\ UNCHANGED <<machine, sync, online, greeting>>

\* Plugins changed the advertised features: a hash that replaces another is announced.
AnnounceCaps ==
    /\ hashed' = TRUE
    /\ wire' = IF online /\ hashed THEN Current(machine) ELSE wire
    /\ UNCHANGED <<machine, sync, online, greeting, late>>

\* The session's setup chain either stops at its next checkpoint or was past the last one.
Offline ==
    /\ online' = FALSE
    /\ greeting' = FALSE
    /\ late' \in {late, late \/ greeting}
    /\ UNCHANGED hashed

\* disconnect(), a conflict or a failed attempt: the client is gone, or the status no longer
\* online, when DISCONNECT arrives.
Disconnect ==
    /\ Becomes(OnDisconnect(machine), FALSE, FALSE, wire)
    /\ Offline

\* The socket closes, or the server announces its shutdown: DISCONNECT comes before the status
\* changes, so the subscription looks, and what it sends finds no stream.
SocketClosed ==
    /\ online
    /\ Becomes(OnDisconnect(machine), TRUE, FALSE, wire)
    /\ Offline

\* handleDeadSocket: the machine is told nothing.
DeadSocket ==
    /\ online
    /\ Offline
    /\ UNCHANGED <<machine, sync, wire>>

\* The page reloads: the context comes back from sessionStorage, the state does not.
Reload ==
    /\ machine' = [machine EXCEPT !.state = "disconnected"]
    /\ sync' = None
    /\ online' = FALSE /\ greeting' = FALSE /\ late' = FALSE /\ hashed' = FALSE
    /\ UNCHANGED wire

Next ==
    \/ SetPresence \/ IdleDetected \/ SleepDetected \/ ActivityDetected
    \/ Established \/ SendInitial \/ SendLate \/ AnnounceCaps
    \/ Disconnect \/ SocketClosed \/ DeadSocket \/ Reload

Spec == Init /\ [][Next]_vars

-----------------------------------------------------------------------------
(* Properties.                                                              *)

Connected == machine.state # "disconnected"
Settled   == online /\ ~greeting

(* Once connected, the machine is in the user's state, or in an automatic   *)
(* one that will return to it with the user's message; nothing is saved     *)
(* outside an automatic state, however sleeps, reloads and unannounced      *)
(* losses are interleaved (presenceMachine.ts, key invariants 1, 2, 3, 5).  *)
StateMatchesPreference ==
    /\ Connected => IF machine.state \in AutoStates THEN machine.saved = machine.preference
                    ELSE machine.state = User(machine.preference) /\ machine.saved = "none"
    /\ machine.state \in AutoStates => machine.savedStatus = machine.status

(* After the initial presence the server never has an available user as     *)
(* away or a busy one as available, and has the busy one's message.         *)
BusyOrOnlineAnnounced ==
    Settled => /\ machine.state = "userOnline" => wire.show = "online"
               /\ machine.state = "userDnd" => wire = Current(machine)

(* The server never holds the user for more absent than the machine does:   *)
(* no away survives the return that ended it.                               *)
NoLingeringAway ==
    Settled => /\ wire.show = "xa" => machine.state = "autoXa"
               /\ wire.show = "away" => machine.state \in {"userAway"} \cup AutoStates

(* A user who asked not to be disturbed is never broadcast as available:    *)
(* not by a reconnection, an initial presence of an old session, a sleep or *)
(* a loss (sendInitialPresence, "Preserve DND").                            *)
DndNeverWithdrawn ==
    [][wire' # wire /\ machine'.preference = "dnd" => wire'.show \in {"dnd", "unavailable"}]_vars
=============================================================================
