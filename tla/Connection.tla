----------------------------- MODULE Connection -----------------------------
(***************************************************************************)
(* core/modules/Connection.ts over the chart of ConnectionTransitions: the *)
(* xmpp.js clients it creates, the requests that create them (connect()    *)
(* and attemptReconnect()), and the callbacks, timers and user calls that  *)
(* interleave at their awaits.                                             *)
(*                                                                         *)
(* JavaScript runs each callback to completion, then the promise reactions *)
(* it queued, then the next callback.  An action is one callback; a pc in  *)
(* Pending marks a reaction, which runs before any other callback (Quiet). *)
(*                                                                         *)
(* A request and its clients share a slot: request o creates client        *)
(* <<o, 1>>, and <<o, 2>> when it falls back to the local proxy.  A slot   *)
(* is reused when nothing refers to it.                                    *)
(*                                                                         *)
(* As in ConnectionTransitions, an operator named for a slip is a faulty   *)
(* variant of one below it, which no action uses.                          *)
(***************************************************************************)
EXTENDS ConnectionTransitions, FiniteSets

CONSTANTS Requests,     \* slots: requests in flight and clients still referred to
          None,
          HasProxy,     \* proxyManager.hasProxy: the desktop app's native proxy
          Events        \* what the user, the app and the host do in this instance

AllEvents == {"disconnect", "logout", "cancelReconnect", "veto", "setupFailure",
             "visible", "sleep", "wake", "keepalive"}

ASSUME SlotAssumption == None \notin Requests \X {1, 2}
ASSUME EventsAssumption == HasProxy \in BOOLEAN /\ Events \subseteq AllEvents

Clients == Requests \X {1, 2}

VARIABLES machine,      \* the actor's snapshot
          xmpp,         \* this.xmpp
          client,       \* what each xmpp.js client is doing
          request,      \* how far each connect() or attemptReconnect() is
          credentials,  \* this.credentials # null
          recovering,   \* deadSocketRecoveryInProgress
          wake,         \* handleAwakeInFlight and what it awaits
          probe         \* healthCheckInFlight: the client being probed

transport == <<xmpp, client, recovering>>
vars == <<machine, xmpp, client, request, credentials, recovering, wake, probe>>

\* gone: listeners stripped and socket closed, or its 'disconnect' was emitted.
Phases == {"gone", "handshake", "online", "closing", "closed"}
Kinds  == {"connect", "reconnect"}
Pcs    == {"done", "requested", "resolving", "starting", "preparing", "trying",
           "greeting", "proxying", "failed"}
Errors == {"none", "transport", "timeout", "suspended", "superseded", "setup", "noCredentials"}

Pending == {"starting", "failed"}
Quiet   == \A o \in Requests : request[o].pc \notin Pending

Gone == [phase |-> "gone", unsettled |-> FALSE, doomed |-> FALSE]
New(kind, pc) == [kind |-> kind, pc |-> pc, stage |-> 0, cancelled |-> FALSE, error |-> "none"]
Done == New("connect", "done")

\* handleAwake at rest, awaiting the network, or verifying a client.
AtRest == [pc |-> "none", client |-> None]
Wakes == {AtRest, [AtRest EXCEPT !.pc = "network"]} \cup [pc: {"verifying"}, client: Clients]

\* A wake verifies a client that was there when it began.
TypeOK ==
    /\ machine \in Machines
    /\ xmpp \in Clients \cup {None}
    /\ client \in [Clients -> [phase: Phases, unsettled: BOOLEAN, doomed: BOOLEAN]]
    /\ request \in [Requests -> [kind: Kinds, pc: Pcs, stage: 0..2, cancelled: BOOLEAN,
                                 error: Errors]]
    /\ credentials \in BOOLEAN
    /\ recovering \in BOOLEAN
    /\ wake \in Wakes
    /\ probe \in Clients \cup {None}

Init ==
    /\ machine = InitialMachine
    /\ xmpp = None
    /\ client = [c \in Clients |-> Gone]
    /\ request = [o \in Requests |-> Done]
    /\ credentials = FALSE
    /\ recovering = FALSE
    /\ wake = AtRest
    /\ probe = None

-----------------------------------------------------------------------------
(* Helpers.                                                                 *)

Live(c) == client[c].phase \in {"handshake", "online"}

OwnerOf(c) == c[1]

\* The client whose attempt request o awaits, if it awaits one.
Awaits(o, c) == request[o].pc = "trying" /\ c = <<o, request[o].stage>>

Free(o) == /\ request[o].pc = "done"
           /\ \A c \in {o} \X {1, 2} :
                 client[c].phase = "gone" /\ c \notin {xmpp, probe, wake.client}

InConnected    == machine.state \in Connected
InReconnecting == machine.state \in Reconnecting
InTerminal     == machine.state \in Terminal

\* The part of a snapshot that decides which handlers do what: the rest of the
\* context is module ConnectionMachine's subject, and no attempt is counted here.
Control(m) == [InitialMachine EXCEPT !.state = m.state, !.retryInitial = m.retryInitial]

\* The actor takes a snapshot; entering `attempting' starts attemptReconnect().
Handle(next, requests) ==
    /\ machine' = Control(next)
    /\ IF machine.state # "attempting" /\ next.state = "attempting"
       THEN \E o \in Requests :
               Free(o) /\ request' = [requests EXCEPT ![o] = New("reconnect", "starting")]
       ELSE request' = requests

Finish(o) == [request EXCEPT ![o] = Done]
Move(o, pc) == [request EXCEPT ![o].pc = pc]

\* What becomes of the promises awaiting client c when its handlers reject.
Rejected(c, error) ==
    [o \in Requests |-> IF client[c].unsettled /\ Awaits(o, c)
                        THEN [request[o] EXCEPT !.pc = "failed", !.error = error]
                        ELSE request[o]]

DestroyKeepsListeners(c) == client
\* forceDestroyClient: only the promise of start() may still settle.
Destroy(c) == IF c = None THEN client
              ELSE [client EXCEPT ![c] =
                       [Gone EXCEPT !.unsettled = client[c].unsettled /\ Awaits(c[1], c)]]

Settle(clients, c, phase) == [clients EXCEPT ![c].unsettled = FALSE, ![c].phase = phase]

CleanupClient ==
    /\ xmpp' = None
    /\ client' = Destroy(xmpp)
    /\ recovering' = (recovering /\ xmpp = None)

\* installXmppClient, setupHandlers and start(): this.xmpp is overwritten.
Install(clients, c) ==
    /\ xmpp' = c
    /\ client' = [k \in Clients |->
                     CASE k = c -> [phase |-> "handshake", unsettled |-> TRUE, doomed |-> FALSE]
                       [] k # c /\ clients[k].phase = "closed" -> Gone
                       [] OTHER -> clients[k]]

Nudge(m) == IF m.state \in Reconnecting /\ credentials THEN OnTriggerReconnect(m) ELSE m

Recoverable(m) == m.state \notin Terminal \cup {"idle", "disconnected"}

\* What handleDeadSocket sends to the machine.
DeadSocket(m, immediate) ==
    LET lost == IF m.state \in Reconnecting THEN m ELSE OnSocketDied(m)
    IN  IF immediate THEN Nudge(lost) ELSE lost

HandleDeadSocket(immediate, requests) ==
    IF Recoverable(machine)
    THEN /\ Handle(DeadSocket(machine, immediate), requests)
         /\ xmpp' = None
         /\ client' = Destroy(xmpp)
         /\ recovering' = (xmpp = None)    \* set, then reset by cleanupClient
    ELSE UNCHANGED <<machine, transport>> /\ request' = requests

-----------------------------------------------------------------------------
(* connect(): XMPPClient.connect first hydrates the stores, then Connection *)
(* resolves the server, tries it, and may fall back to the proxy.           *)

RequestConnect ==
    /\ Quiet
    /\ \E o \in Requests : Free(o) /\ request' = [request EXCEPT ![o] = New("connect", "requested")]
    /\ UNCHANGED <<machine, transport, credentials, wake, probe>>

BusyIgnoresReconnecting == machine.state = "connecting" \/ InConnected
Busy == machine.state = "connecting" \/ InConnected \/ InReconnecting

BeginConnect(o) ==
    /\ Quiet /\ request[o].pc = "requested"
    /\ IF Busy \/ request[o].cancelled
       THEN request' = Finish(o) /\ UNCHANGED machine
       ELSE \E retry \in BOOLEAN :
               Handle(OnSetRetryInitial(OnConnect(machine), retry), Move(o, "resolving"))
    /\ UNCHANGED <<transport, credentials, wake, probe>>

\* attemptConnection of connect(), or connectWithOptions of attemptReconnect().
Try(o, stage, clients) ==
    /\ Install(clients, <<o, stage>>)
    /\ credentials' = TRUE
    /\ recovering' = (recovering /\ request[o].kind = "connect")
    /\ request' = [request EXCEPT ![o].pc = "trying", ![o].stage = stage]
    /\ UNCHANGED machine

GiveUp(o) == request' = Finish(o) /\ UNCHANGED <<machine, transport, credentials>>

ServerResolvedAfterDisconnect(o) ==
    /\ Quiet /\ request[o].pc = "resolving"
    /\ Try(o, 1, client)
    /\ UNCHANGED <<wake, probe>>
\* Stored state is loaded and the server resolved; the desktop app may find no
\* direct WebSocket endpoint and goes to the proxy.
ServerResolved(o) ==
    /\ Quiet /\ request[o].pc = "resolving"
    /\ IF request[o].cancelled THEN GiveUp(o)
       ELSE \/ Try(o, 1, client)
            \/ /\ HasProxy
               /\ request' = Move(o, "proxying")
               /\ UNCHANGED <<machine, transport, credentials>>
    /\ UNCHANGED <<wake, probe>>

ProxyReady(o) ==
    /\ Quiet /\ request[o].pc = "proxying"
    /\ IF request[o].cancelled THEN GiveUp(o) ELSE Try(o, 2, client)
    /\ UNCHANGED <<wake, probe>>

\* The native command failed: nothing is left to fall back to.
ProxyUnavailable(o) ==
    /\ Quiet /\ request[o].pc = "proxying"
    /\ request' = [request EXCEPT ![o].pc = "failed", ![o].stage = 2, ![o].error = "setup"]
    /\ UNCHANGED <<machine, transport, credentials, wake, probe>>

\* DIRECT_WEBSOCKET_PRECHECK_TIMEOUT_MS: connect() stops awaiting the attempt.
PrecheckTimeout(o) ==
    /\ Quiet /\ HasProxy
    /\ request[o].kind = "connect" /\ request[o].stage = 1 /\ request[o].pc \in {"trying", "greeting"}
    /\ request' = [request EXCEPT ![o].pc = "failed", ![o].error = "timeout"]
    /\ UNCHANGED <<machine, transport, credentials, wake, probe>>

\* The first attempt of a request that may retry through the proxy failed.
FallsBack(o) == HasProxy /\ request[o].stage = 1 /\ ~InTerminal

FallBack(o) ==
    /\ CleanupClient
    /\ request' = [request EXCEPT ![o].pc = "proxying", ![o].error = "none"]
    /\ UNCHANGED machine

ConnectFailedSilently(o) ==
    /\ request[o].pc = "failed" /\ request[o].kind = "connect"
    /\ GiveUp(o)
    /\ UNCHANGED <<wake, probe>>
ConnectFailedAfterDisconnect(o) ==
    /\ request[o].pc = "failed" /\ request[o].kind = "connect"
    /\ Handle(OnConnectionError(machine), Finish(o))
    /\ UNCHANGED <<transport, credentials, wake, probe>>

ConnectFailed(o) ==
    /\ request[o].pc = "failed" /\ request[o].kind = "connect"
    /\ CASE request[o].cancelled -> GiveUp(o)
         [] ~request[o].cancelled /\ FallsBack(o) -> FallBack(o)
         [] ~request[o].cancelled /\ ~FallsBack(o) /\ request[o].error = "superseded" -> GiveUp(o)
         [] OTHER ->
              LET m == IF request[o].error = "suspended"
                       THEN OnSetRetryInitial(machine, TRUE) ELSE machine
              IN  Handle(OnConnectionError(m), Finish(o)) /\ UNCHANGED transport
    /\ UNCHANGED <<credentials, wake, probe>>

-----------------------------------------------------------------------------
(* attemptReconnect().                                                      *)

\* Up to the first await: the app's veto, the guard, the missing credential.
AttemptReconnect(o) ==
    /\ request[o].pc = "starting"
    /\ \/ /\ "veto" \in Events
          /\ CleanupClient
          /\ Handle(OnDisconnect(machine), Finish(o))
       \/ /\ ~credentials \/ machine.state # "attempting"
          /\ request' = Finish(o)
          /\ UNCHANGED <<machine, transport>>
       \/ /\ credentials /\ machine.state = "attempting"
          /\ \/ Handle(OnAuthError(machine), Finish(o))
             \/ request' = Move(o, "preparing") /\ UNCHANGED machine
          /\ UNCHANGED transport
    /\ UNCHANGED <<credentials, wake, probe>>

\* The network wait failed: never on the desktop, which does not wait.
NetworkNotReady(o) ==
    /\ Quiet /\ request[o].pc = "preparing" /\ ~HasProxy
    /\ IF request[o].cancelled THEN request' = Finish(o) /\ UNCHANGED machine
       ELSE Handle(OnConnectionError(machine), Finish(o))
    /\ UNCHANGED <<transport, credentials, wake, probe>>

PreparedAfterDisconnect(o) ==
    /\ Quiet /\ request[o].pc = "preparing"
    /\ Try(o, 1, Destroy(xmpp))
    /\ UNCHANGED <<wake, probe>>
\* Network, settle delay and room list are awaited; the machine's state is not
\* read again, but this.xmpp is: an online client ends the attempt.  Reading the server
\* of credentials that are gone throws.
Prepared(o) ==
    /\ Quiet /\ request[o].pc = "preparing"
    /\ CASE request[o].cancelled -> GiveUp(o)
         [] ~request[o].cancelled /\ xmpp # None /\ client[xmpp].phase = "online" ->
              /\ Handle(OnConnectionSuccess(machine), Move(o, "greeting"))
              /\ UNCHANGED <<transport, credentials>>
         [] ~request[o].cancelled /\ (xmpp = None \/ client[xmpp].phase # "online") ->
              IF credentials THEN Try(o, 1, Destroy(xmpp))
              ELSE /\ xmpp' = None
                   /\ client' = Destroy(xmpp)
                   /\ recovering' = (HasProxy /\ recovering /\ xmpp = None)
                   /\ request' = [request EXCEPT ![o].pc = "failed", ![o].error = "setup"]
                   /\ UNCHANGED <<machine, credentials>>
    /\ UNCHANGED <<wake, probe>>

ReconnectFailedSilently(o) ==
    /\ request[o].pc = "failed" /\ request[o].kind = "reconnect"
    /\ CleanupClient
    /\ request' = Finish(o)
    /\ UNCHANGED <<machine, credentials, wake, probe>>
ReconnectFailedIgnoresReplacement(o) ==
    /\ request[o].pc = "failed" /\ request[o].kind = "reconnect"
    /\ CleanupClient
    /\ Handle(OnConnectionError(machine), Finish(o))
    /\ UNCHANGED <<credentials, wake, probe>>

ReconnectFailed(o) ==
    /\ request[o].pc = "failed" /\ request[o].kind = "reconnect"
    /\ CASE request[o].cancelled -> GiveUp(o)
         [] ~request[o].cancelled /\ FallsBack(o) -> FallBack(o) /\ UNCHANGED credentials
         [] ~request[o].cancelled /\ ~FallsBack(o) /\ xmpp \notin {None, <<o, request[o].stage>>} ->
              GiveUp(o)
         [] OTHER ->
              /\ CleanupClient
              /\ Handle(IF request[o].error = "noCredentials" THEN OnAuthError(machine)
                        ELSE OnConnectionError(machine), Finish(o))
              /\ UNCHANGED credentials
    /\ UNCHANGED <<wake, probe>>

-----------------------------------------------------------------------------
(* One attempt on one client: runTimedConnectionAttempt and the handlers.   *)

\* 'online' or <resumed/>: handleConnectionSuccess greets the server if
\* this.xmpp is set, whichever client that is.
Online(c) ==
    /\ Quiet /\ client[c].phase = "handshake"
    /\ client' = Settle(client, c, "online")
    /\ IF client[c].unsettled
       THEN Handle(OnConnectionSuccess(machine),
                   [o \in Requests |-> IF ~Awaits(o, c) THEN request[o]
                                       ELSE IF xmpp = None THEN Done
                                       ELSE [request[o] EXCEPT !.pc = "greeting"]])
       ELSE UNCHANGED <<machine, request>>
    /\ UNCHANGED <<xmpp, recovering, credentials, wake, probe>>

\* The post-connect flow ends, or fails (a deadline, a refused roster).
Greeted(o) ==
    /\ Quiet /\ request[o].pc = "greeting"
    /\ \/ request' = Finish(o)
       \/ /\ "setupFailure" \in Events
          /\ request' = [request EXCEPT ![o].pc = "failed", ![o].error = "setup"]
    /\ UNCHANGED <<machine, transport, credentials, wake, probe>>

AttemptTimeoutKeepsClient(o) ==
    /\ Quiet /\ request[o].pc = "trying"
    /\ client' = [client EXCEPT ![<<o, request[o].stage>>].unsettled = FALSE]
    /\ request' = [request EXCEPT ![o].pc = "failed", ![o].error = "timeout"]
    /\ UNCHANGED <<machine, xmpp, recovering, credentials, wake, probe>>
AttemptTimeoutOfCurrentClient(o) ==
    LET c == <<o, request[o].stage>>
    IN  /\ Quiet /\ request[o].pc = "trying" /\ xmpp = c
        /\ xmpp' = None
        /\ client' = [client EXCEPT ![c] = Gone]
        /\ recovering' = FALSE
        /\ request' = [request EXCEPT ![o].pc = "failed", ![o].error = "timeout"]
        /\ UNCHANGED <<machine, credentials, wake, probe>>
\* RECONNECT_ATTEMPT_TIMEOUT_MS, on time or after a sleep.
AttemptTimeout(o) ==
    LET c == <<o, request[o].stage>>
    IN  /\ Quiet /\ request[o].pc = "trying"
        /\ IF xmpp = c
           THEN /\ xmpp' = None
                /\ client' = [client EXCEPT ![c] = Gone]
                /\ recovering' = FALSE
                /\ \E error \in {"timeout", "suspended"} :
                      request' = [request EXCEPT ![o].pc = "failed", ![o].error = error]
           ELSE /\ client' = [client EXCEPT ![c].unsettled = FALSE]
                /\ request' = [request EXCEPT ![o].pc = "failed", ![o].error = "superseded"]
                /\ UNCHANGED <<xmpp, recovering>>
        /\ UNCHANGED <<machine, credentials, wake, probe>>

\* start() rejects: the transport failed, or no credential is left to send.
StartRejected(c) ==
    /\ Quiet /\ client[c].unsettled
    /\ client' = Settle(client, c, IF client[c].phase = "gone" THEN "gone" ELSE "closing")
    /\ \E error \in {"transport", "noCredentials"} : request' = Rejected(c, error)
    /\ UNCHANGED <<machine, xmpp, recovering, credentials, wake, probe>>

-----------------------------------------------------------------------------
(* 'error' and 'disconnect' of a client.  setupHandlers registered first,   *)
(* setupConnectionHandlers second: both run, whatever the first one does.   *)

ConnectionReject(c) == IF recovering' THEN request ELSE Rejected(c, "transport")

FatalError(c) ==
    /\ Quiet /\ Live(c)
    /\ client' = Settle(client, c, "closing")
    /\ UNCHANGED recovering
    /\ \/ Handle(OnConflict(machine), ConnectionReject(c))
       \/ Handle(OnAuthError(machine), ConnectionReject(c))
    /\ credentials' = FALSE
    /\ UNCHANGED <<xmpp, wake, probe>>

\* system-shutdown: this.xmpp is destroyed, whichever client reported it.
ServerShutdown(c) ==
    /\ Quiet /\ Live(c)
    /\ UNCHANGED recovering
    /\ Handle(OnSocketDied(machine), ConnectionReject(c))
    /\ xmpp' = None
    /\ client' = Settle(Destroy(xmpp), c, IF xmpp = c THEN "gone" ELSE "closing")
    /\ UNCHANGED <<credentials, wake, probe>>

TransportError(c) ==
    /\ Quiet /\ Live(c)
    /\ IF Recoverable(machine)
       THEN /\ recovering' = (xmpp = None)
            /\ Handle(DeadSocket(machine, TRUE), ConnectionReject(c))
            /\ xmpp' = None
            /\ client' = Settle(Destroy(xmpp), c, IF xmpp = c THEN "gone" ELSE "closing")
       ELSE /\ client' = Settle(client, c, "closing")
            /\ UNCHANGED <<machine, xmpp, recovering>>
            /\ request' = ConnectionReject(c)
    /\ UNCHANGED <<credentials, wake, probe>>

\* 'disconnect', the last event of a client.
Disconnected(c) ==
    /\ Quiet /\ client[c].phase \in {"handshake", "online", "closing"}
    /\ IF xmpp = c /\ InConnected /\ credentials
       THEN /\ Handle(OnSocketDied(machine), Rejected(c, "transport"))
            /\ xmpp' = None
            /\ client' = [client EXCEPT ![c] = Gone]
       ELSE /\ request' = Rejected(c, "transport")
            /\ client' = Settle(client, c, IF xmpp = c THEN "closed" ELSE "gone")
            /\ UNCHANGED <<machine, xmpp>>
    /\ credentials' = (credentials /\ ~(xmpp = c /\ machine.state = "initialFailure"))
    /\ UNCHANGED <<recovering, wake, probe>>

-----------------------------------------------------------------------------
(* The user.                                                                *)

Disconnect ==
    /\ Quiet
    /\ Handle(OnDisconnect(machine),
              [o \in Requests |-> IF request[o].pc = "done" THEN request[o]
                                  ELSE [request[o] EXCEPT !.cancelled = TRUE]])
    /\ xmpp' = None
    /\ \/ "disconnect" \in Events /\ client' = Destroy(xmpp)
       \/ /\ "logout" \in Events /\ xmpp # None /\ client[xmpp].phase # "closed"
          /\ client' = [client EXCEPT ![xmpp].doomed = TRUE]
    /\ credentials' = FALSE
    /\ UNCHANGED <<recovering, wake, probe>>

\* The end of disconnect(), after token invalidation and storage cleanup.
DisconnectTail(c) ==
    /\ Quiet /\ client[c].doomed
    /\ client' = Destroy(c)
    /\ UNCHANGED <<machine, xmpp, request, credentials, recovering, wake, probe>>

CancelReconnect ==
    /\ Quiet /\ "cancelReconnect" \in Events
    /\ Handle(OnCancelReconnect(machine), request)
    /\ UNCHANGED <<transport, credentials, wake, probe>>

-----------------------------------------------------------------------------
(* The host: visibility, sleep, wake, keepalive ticks, timers.              *)

Visible ==
    /\ Quiet /\ "visible" \in Events
    /\ Handle(Nudge(machine), request)
    /\ UNCHANGED <<transport, credentials, wake, probe>>

Sleeping ==
    /\ Quiet /\ "sleep" \in Events
    /\ Handle(OnSleep(machine), request)
    /\ UNCHANGED <<transport, credentials, wake, probe>>

VerifyConnectionUnchecked(woken) ==
    /\ Handle(OnWake(woken, 0), request)
    /\ wake' = [pc |-> "verifying", client |-> xmpp]
    /\ UNCHANGED transport
\* verifyConnection() of a wake, up to its probe; without a client it returns
\* false at once, which a wake takes for a dead socket.
VerifyConnection(woken) ==
    IF xmpp # None
    THEN /\ Handle(OnWake(woken, 0), request)
         /\ wake' = [pc |-> "verifying", client |-> xmpp]
         /\ UNCHANGED transport
    ELSE /\ Handle(DeadSocket(woken, TRUE), request)
         /\ recovering' = TRUE
         /\ UNCHANGED <<xmpp, client, wake>>

\* handleAwake while connected, or while reconnecting.
NotifyAwake(duration) ==
    LET woken == OnWake(machine, duration)
    IN  /\ Quiet /\ "wake" \in Events /\ wake.pc = "none"
        /\ \/ /\ InConnected /\ woken.state \in Reconnecting
              /\ CleanupClient
              /\ Handle(woken, request) \/ Handle(Nudge(woken), request)
              /\ UNCHANGED wake
           \/ InConnected /\ woken.state \notin Reconnecting /\ VerifyConnection(woken)
           \/ /\ InReconnecting
              /\ wake' = [AtRest EXCEPT !.pc = "network"]
              /\ UNCHANGED <<machine, transport, request>>
        /\ UNCHANGED <<credentials, probe>>

\* The network came up, or did not within NETWORK_READY_TIMEOUT_MS.
WakeNetwork ==
    /\ Quiet /\ wake.pc = "network"
    /\ \/ CleanupClient /\ \E d \in Durations : Handle(OnWake(machine, d), request)
       \/ ~HasProxy /\ UNCHANGED <<machine, request, transport>>
    /\ wake' = AtRest
    /\ UNCHANGED <<credentials, probe>>

\* probeConnection on the client that was current when the probe began.
Stale(c) == xmpp \notin {None, c}
Answers(c) == ~Stale(c) /\ client[c].phase = "online"

WakeVerified ==
    /\ Quiet /\ wake.pc = "verifying"
    /\ \/ /\ Stale(wake.client)
          /\ UNCHANGED <<machine, request, transport>>
       \/ /\ Answers(wake.client)
          /\ Handle(OnVerifySuccess(machine), request)
          /\ UNCHANGED transport
       \/ /\ ~Stale(wake.client)
          /\ LET failed == OnVerifyFailed(machine)
                 dead   == IF Recoverable(failed) THEN DeadSocket(failed, FALSE) ELSE failed
             IN  /\ \/ Handle(IF dead.state \notin Reconnecting
                           THEN IF Recoverable(dead) THEN DeadSocket(dead, TRUE) ELSE dead
                           ELSE dead, request)
                    \/ dead.state \in Reconnecting /\ Handle(Nudge(dead), request)
                 /\ IF Recoverable(failed)
                    THEN /\ xmpp' = None
                         /\ client' = Destroy(xmpp)
                         /\ recovering' = (xmpp = None \/ dead.state \notin Reconnecting)
                    ELSE UNCHANGED transport
    /\ wake' = AtRest
    /\ UNCHANGED <<credentials, probe>>

\* verifyConnectionHealth, single-flight.
StartsProbe(m) == m.state \in Connected /\ xmpp # None /\ probe = None

KeepaliveTick(active, duration) ==
    LET told == IF active THEN OnDisplayActive(machine, duration) ELSE OnDisplayInactive(machine)
    IN  /\ Quiet /\ "keepalive" \in Events
        /\ Handle(IF active THEN Nudge(told) ELSE told, request)
        /\ probe' = IF active /\ StartsProbe(told) THEN xmpp ELSE probe
        /\ UNCHANGED <<transport, credentials, wake>>

ProbeDone ==
    /\ Quiet /\ probe # None
    /\ \/ /\ Stale(probe) \/ Answers(probe)
          /\ UNCHANGED <<machine, request, transport>>
       \/ /\ ~Stale(probe)
          /\ IF InConnected THEN HandleDeadSocket(FALSE, request)
             ELSE UNCHANGED <<machine, request, transport>>
    /\ probe' = None
    /\ UNCHANGED <<credentials, wake>>

ReconnectTimer ==
    /\ Quiet /\ machine.state = "waiting"
    /\ Handle(OnReconnectTimer(machine), request)
    /\ UNCHANGED <<transport, credentials, wake, probe>>

VerifyTimer ==
    /\ Quiet /\ machine.state = "verifying"
    /\ Handle(OnVerifyTimer(machine), request)
    /\ UNCHANGED <<transport, credentials, wake, probe>>

-----------------------------------------------------------------------------

RequestStep(o) == \/ BeginConnect(o) \/ ServerResolved(o) \/ ProxyReady(o) \/ ProxyUnavailable(o)
                  \/ PrecheckTimeout(o)
                  \/ ConnectFailed(o) \/ AttemptReconnect(o) \/ NetworkNotReady(o) \/ Prepared(o)
                  \/ ReconnectFailed(o) \/ Greeted(o) \/ AttemptTimeout(o)

ClientEvent(c) == \/ Online(c) \/ StartRejected(c) \/ FatalError(c) \/ ServerShutdown(c)
                  \/ TransportError(c) \/ Disconnected(c) \/ DisconnectTail(c)

UserCall == RequestConnect \/ Disconnect \/ CancelReconnect

HostEvent == \/ Visible \/ Sleeping \/ WakeNetwork \/ WakeVerified \/ ProbeDone
             \/ ReconnectTimer \/ VerifyTimer
             \/ \E d \in Durations : NotifyAwake(d) \/ KeepaliveTick(TRUE, d) \/ KeepaliveTick(FALSE, d)

Next == \/ \E o \in Requests : RequestStep(o)
        \/ \E c \in Clients : ClientEvent(c)
        \/ UserCall
        \/ HostEvent

(* Every await ends (a timer bounds each of them) and a due callback is run *)
(* once the queue reaches it.  The fairness is strong because a reaction    *)
(* disables every callback for as long as it takes.                         *)
Fairness == /\ \A o \in Requests : SF_vars(RequestStep(o))
            /\ SF_vars(ReconnectTimer) /\ SF_vars(VerifyTimer)

Spec == Init /\ [][Next]_vars /\ Fairness

-----------------------------------------------------------------------------
(* Properties.                                                              *)

\* Request o still counts: a disconnect has not cancelled it.
Working(o, kind) == /\ request[o].kind = kind /\ ~request[o].cancelled
                    /\ request[o].pc \notin {"done", "requested"}

\* It may still install a client or report an outcome of its attempt.
AtWork(o) == request[o].pc # "greeting" /\ \E kind \in Kinds : Working(o, kind)

(* Somebody is always going to end the phase: a machine in `connecting' has *)
(* a connect() that will report its outcome, a machine in `attempting' an   *)
(* attemptReconnect() - across cancellations, vetoes, dead sockets and late *)
(* timers, and although neither state has a timer of its own.  And the       *)
(* attempt has credentials, without which it returns without an answer.      *)
PhaseIsDriven ==
    /\ machine.state = "connecting" => \E o \in Requests : Working(o, "connect")
    /\ machine.state = "attempting" => \E o \in Requests : Working(o, "reconnect")
    /\ InReconnecting => credentials

(* The guard of connect() against "double-connect races" and the machine's  *)
(* single entry into attempting add up: two requests never work at a time.  *)
OneRequestAtWork ==
    Quiet => \A o, p \in Requests : AtWork(o) /\ AtWork(p) => o = p

(* One client and the machine describe each other: a machine that reports   *)
(* `connected' has a client to send with (whatever clears this.xmpp moved   *)
(* the machine on in the same turn), and no other socket is left behind     *)
(* that can still authenticate, bind the resource or report events.         *)
ClientMatchesMachine ==
    Quiet => /\ InConnected => xmpp # None /\ client[xmpp].phase \in {"online", "closing"}
             /\ \A c \in Clients : Live(c) => c = xmpp

(* connect(): "a disconnect that happened in the meantime wins".  No client *)
(* is ever installed for a request that a disconnect() cancelled, at which- *)
(* ever await it was.                                                       *)
DisconnectWins == [][xmpp' \notin {None, xmpp} => ~request[OwnerOf(xmpp')].cancelled]_vars

(* connect(): a cancelled request "opens no socket, sends nothing to the    *)
(* state machine": no step of it moves the machine.                         *)
CancelledIsSilent ==
    [][\A o \in Requests : request[o].cancelled /\ request'[o] # request[o]
                              => machine' = machine]_vars

(* While the machine is idle, disconnected or terminal nothing may open a   *)
(* connection behind the user's back.                                       *)
NothingInstalledWhenStopped ==
    [][machine.state \in Terminal \cup {"idle", "disconnected"} => xmpp' \in {None, xmpp}]_vars

(* A request that fails leaves the client of another request alone.         *)
FailureSparesOthers ==
    [][\A o \in Requests :
          request[o].pc = "failed" /\ request'[o].pc # "failed"
          /\ xmpp # None /\ OwnerOf(xmpp) # o => xmpp' = xmpp]_vars

(* Attempting is never the end: the user sees an outcome.                   *)
AttemptingEnds == machine.state = "attempting" ~> machine.state # "attempting"

(* Nor is connecting, which has no timer either.                            *)
PhasesEnd == AttemptingEnds /\ (machine.state = "connecting" ~> machine.state # "connecting")

(* A promise returned by connect() or attemptReconnect() always settles,    *)
(* also when a wake, a logout or another request destroyed or replaced its  *)
(* client: no slot holds an unfinished request for good.                    *)
RequestsEnd == \A o \in Requests : []<>(request[o].pc = "done")

(* FRESH_SESSION_SETUP_TIMEOUT_MS: when the setup takes too long, "abort    *)
(* and let the reconnect loop retry": a machine whose client was discarded  *)
(* does not stay connected.                                                 *)
DiscardedSessionRetried == InConnected /\ xmpp = None ~> ~InConnected \/ xmpp # None

(* What the rest of the application is promised: see ConnectionSession.     *)
Session == INSTANCE ConnectionSession
              WITH Sockets <- Clients,
                   status  <- StatusOf(machine.state),
                   sockets <- {c \in Clients : Live(c)}

(* Connection implements it: one socket at a time, opened only while a      *)
(* connection is being made, and a status that says whether there is one.   *)
SessionImplemented == Session!Spec
=============================================================================
