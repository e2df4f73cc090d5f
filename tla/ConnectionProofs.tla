-------------------------- MODULE ConnectionProofs --------------------------
(***************************************************************************)
(* Connection is well typed and lets a disconnect() win over every request *)
(* in flight, for any number of requests, with or without a proxy and      *)
(* whatever the user, the app and the host do; and in the web app its      *)
(* requests, its clients and its machine agree, and together they          *)
(* implement the abstract session of ConnectionSession.                    *)
(*                                                                         *)
(* What Handle keeps of a chart's answer, and what each event makes of the *)
(* state, are lemmas that the rest cites.  The session's invariant is      *)
(* about the worker: the one request that may still move the machine or    *)
(* install a client.  Each effect a step can have on it (it opens a        *)
(* client, its client fails, it ends, the session is lost...) is a lemma   *)
(* that keeps the invariant and maps to the abstract session; each action  *)
(* is then shown to have one of these effects.                             *)
(***************************************************************************)
EXTENDS Connection, TLAPS

\* What DisconnectWins says of one step.
InstallsForLiveRequest == xmpp' \notin {None, xmpp} => ~request[OwnerOf(xmpp')].cancelled

(* cleanupClient only ever clears this.xmpp.                                *)
LEMMA CleanupInstallsNothing ==
  ASSUME CleanupClient PROVE xmpp' = None
BY DEF CleanupClient

(* Installing a client for a request that nobody cancelled is allowed.      *)
LEMMA TryInstallsOwn ==
  ASSUME NEW o, NEW stage, NEW clients, ~request[o].cancelled, Try(o, stage, clients)
  PROVE  InstallsForLiveRequest
<1>1. xmpp' = <<o, stage>>
  BY DEF Try, Install
<1>2. OwnerOf(xmpp') = o
  BY <1>1 DEF OwnerOf
<1> QED
  BY <1>2 DEF InstallsForLiveRequest

(* handleDeadSocket destroys the client and leaves the install to a later   *)
(* attempt.                                                                 *)
LEMMA DeadSocketInstallsNothing ==
  ASSUME NEW immediate, NEW requests, HandleDeadSocket(immediate, requests)
  PROVE  xmpp' \in {None, xmpp}
BY DEF HandleDeadSocket, transport

(* The steps of connect() and attemptReconnect(): each of them checks its   *)
(* own cancellation after the await that precedes an installation.          *)
LEMMA RequestStepInstalls ==
  ASSUME NEW o \in Requests, RequestStep(o) PROVE InstallsForLiveRequest
<1> USE DEF InstallsForLiveRequest
<1>1. CASE BeginConnect(o)
  BY <1>1 DEF BeginConnect, transport
<1>2. CASE ServerResolved(o)
  <2>1. CASE request[o].cancelled
    BY <1>2, <2>1 DEF ServerResolved, GiveUp, transport
  <2>2. CASE ~request[o].cancelled /\ Try(o, 1, client)
    BY <2>2, TryInstallsOwn
  <2>3. CASE UNCHANGED transport
    BY <2>3 DEF transport
  <2> QED
    BY <1>2, <2>1, <2>2, <2>3 DEF ServerResolved
<1>3. CASE ProxyReady(o)
  <2>1. CASE request[o].cancelled
    BY <1>3, <2>1 DEF ProxyReady, GiveUp, transport
  <2>2. CASE ~request[o].cancelled
    BY <1>3, <2>2, TryInstallsOwn DEF ProxyReady
  <2> QED
    BY <2>1, <2>2
<1>4. CASE ProxyUnavailable(o) \/ PrecheckTimeout(o)
  BY <1>4 DEF ProxyUnavailable, PrecheckTimeout, transport
<1>5. CASE ConnectFailed(o)
  BY <1>5 DEF ConnectFailed, GiveUp, FallBack, CleanupClient, transport
<1>6. CASE AttemptReconnect(o)
  BY <1>6 DEF AttemptReconnect, CleanupClient, transport
<1>7. CASE NetworkNotReady(o)
  BY <1>7 DEF NetworkNotReady, transport
<1>8. CASE Prepared(o)
  <2>1. CASE ~request[o].cancelled /\ Try(o, 1, Destroy(xmpp))
    BY <2>1, TryInstallsOwn
  <2>2. CASE xmpp' \in {None, xmpp}
    BY <2>2
  <2> QED
    BY <1>8, <2>1, <2>2 DEF Prepared, GiveUp, CleanupClient, transport
<1>9. CASE ReconnectFailed(o)
  BY <1>9 DEF ReconnectFailed, GiveUp, FallBack, CleanupClient, transport
<1>10. CASE Greeted(o)
  BY <1>10 DEF Greeted, transport
<1>11. CASE AttemptTimeout(o)
  BY <1>11 DEF AttemptTimeout
<1> QED
  BY <1>1, <1>2, <1>3, <1>4, <1>5, <1>6, <1>7, <1>8, <1>9, <1>10, <1>11 DEF RequestStep

(* Client callbacks, user calls and host events install nothing.            *)
LEMMA OtherStepsInstallNothing ==
  ASSUME (\E c \in Clients : ClientEvent(c)) \/ UserCall \/ HostEvent
  PROVE  xmpp' \in {None, xmpp}
<1>1. ASSUME NEW c \in Clients, ClientEvent(c) PROVE xmpp' \in {None, xmpp}
  BY <1>1 DEF ClientEvent, Online, StartRejected, FatalError, ServerShutdown, TransportError,
              Disconnected, DisconnectTail
<1>2. CASE UserCall
  BY <1>2 DEF UserCall, RequestConnect, Disconnect, CancelReconnect, transport
<1>3. CASE Visible \/ Sleeping \/ ReconnectTimer \/ VerifyTimer
  BY <1>3 DEF Visible, Sleeping, ReconnectTimer, VerifyTimer, transport
<1>4. CASE WakeNetwork \/ WakeVerified \/ ProbeDone
  <2>1. CASE WakeNetwork
    BY <2>1 DEF WakeNetwork, CleanupClient, transport
  <2>2. CASE WakeVerified
    BY <2>2 DEF WakeVerified, transport
  <2>3. CASE ProbeDone
    BY <2>3, DeadSocketInstallsNothing DEF ProbeDone, transport
  <2> QED
    BY <1>4, <2>1, <2>2, <2>3
<1>5. ASSUME NEW d \in Durations, NotifyAwake(d) PROVE xmpp' \in {None, xmpp}
  BY <1>5 DEF NotifyAwake, VerifyConnection, CleanupClient, transport
<1>6. ASSUME NEW d \in Durations, NEW active, KeepaliveTick(active, d)
      PROVE  xmpp' \in {None, xmpp}
  BY <1>6 DEF KeepaliveTick, transport
<1> QED
  BY <1>1, <1>2, <1>3, <1>4, <1>5, <1>6 DEF HostEvent

(* Of all the steps, only a request nobody disconnected installs a client.  *)
LEMMA StepInstalls == [Next]_vars => InstallsForLiveRequest
<1>1. ASSUME NEW o \in Requests, RequestStep(o) PROVE InstallsForLiveRequest
  BY <1>1, RequestStepInstalls
<1>2. CASE (\E c \in Clients : ClientEvent(c)) \/ UserCall \/ HostEvent
  BY <1>2, OtherStepsInstallNothing DEF InstallsForLiveRequest
<1>3. CASE UNCHANGED vars
  BY <1>3 DEF vars, InstallsForLiveRequest
<1> QED
  BY <1>1, <1>2, <1>3 DEF Next

(* A disconnect() wins over every connect() and attemptReconnect() it finds *)
(* in flight, at whichever of their awaits they are: none of them installs  *)
(* a client any more.                                                       *)
THEOREM DisconnectWinsCorrect == Spec => DisconnectWins
<1>1. [Next]_vars => (xmpp' \notin {None, xmpp} => ~request[OwnerOf(xmpp')].cancelled)
  BY StepInstalls DEF InstallsForLiveRequest
<1> QED
  BY <1>1, PTL DEF Spec, DisconnectWins

-----------------------------------------------------------------------------
(* Snapshots.  Handle keeps two fields of what the chart returns, so only  *)
(* those are described: the state and retryInitial.                        *)

Snapshot(m) == /\ m = [k \in DOMAIN m |-> m[k]]
               /\ DOMAIN m = DOMAIN InitialMachine
               /\ m.state \in States /\ m.retryInitial \in BOOLEAN

\* A machine is a snapshot.
LEMMA MachineIsSnapshot == ASSUME NEW m \in Machines PROVE Snapshot(m)
BY DEF Snapshot, Machines, InitialMachine

\* What Handle keeps of a snapshot is a machine in the same state.
LEMMA ControlKeeps ==
  ASSUME NEW m, Snapshot(m)
  PROVE  Control(m) \in Machines /\ Control(m).state = m.state
<1>1. 0 \in Delays /\ 0 \in 0..MaxAttempt /\ DefaultWindow \in Windows /\ "none" \in ErrorKinds
  BY MaxAttemptAssumption, WindowAssumption DEF Delays, ErrorKinds
<1> QED
  BY <1>1 DEF Snapshot, Control, InitialMachine, Machines, Awake

(* The chart's own actions.                                                 *)
LEMMA Moves ==
  ASSUME NEW m, Snapshot(m)
  PROVE  /\ Snapshot(Attempt(m)) /\ Attempt(m).state = "attempting"
         /\ Snapshot(BackOff(m)) /\ BackOff(m).state = "waiting"
         /\ Snapshot(ResetReconnectState(m)) /\ ResetReconnectState(m).state = m.state
         /\ \A s \in States : Snapshot(Enter(m, s)) /\ Enter(m, s).state = s
         /\ \A s \in Terminal, e \in ErrorKinds : Snapshot(Fail(m, s, e)) /\ Fail(m, s, e).state = s
         /\ \A b : Snapshot(MarkResume(m, b)) /\ MarkResume(m, b).state = m.state
<1>1. Snapshot(Attempt(m)) /\ Attempt(m).state = "attempting"
  BY DEF Snapshot, Attempt, States, Reconnecting, InitialMachine
<1>2. Snapshot(IncrementAttempt(m))
  BY DEF Snapshot, IncrementAttempt, InitialMachine
<1>3. Snapshot(BackOff(m)) /\ BackOff(m).state = "waiting"
  BY <1>2 DEF Snapshot, BackOff, Enter, InitialMachine, States, Reconnecting
<1>4. Snapshot(ResetReconnectState(m)) /\ ResetReconnectState(m).state = m.state
  BY DEF Snapshot, ResetReconnectState, InitialMachine
<1>5. \A s \in States : Snapshot(Enter(m, s)) /\ Enter(m, s).state = s
  BY DEF Snapshot, Enter, InitialMachine
<1>6. \A s \in Terminal, e \in ErrorKinds : Snapshot(Fail(m, s, e)) /\ Fail(m, s, e).state = s
  BY DEF Snapshot, Fail, InitialMachine, States
<1>7. \A b : Snapshot(MarkResume(m, b)) /\ MarkResume(m, b).state = m.state
  BY DEF Snapshot, MarkResume, InitialMachine
<1> QED
  BY <1>1, <1>3, <1>4, <1>5, <1>6, <1>7

\* Fields that only describe the state may be set to anything.
LEMMA FieldEdits ==
  ASSUME NEW m, Snapshot(m)
  PROVE  /\ \A e : Snapshot([m EXCEPT !.lastError = e]) /\ [m EXCEPT !.lastError = e].state = m.state
         /\ \A d : Snapshot([m EXCEPT !.slept = d]) /\ [m EXCEPT !.slept = d].state = m.state
         /\ \A d : Snapshot([m EXCEPT !.displayAsleep = d]) /\ [m EXCEPT !.displayAsleep = d].state = m.state
         /\ \A b \in BOOLEAN : Snapshot([m EXCEPT !.retryInitial = b])
                               /\ [m EXCEPT !.retryInitial = b].state = m.state
BY DEF Snapshot, InitialMachine

\* Entering a state, with or without a fresh context.
LEMMA Enters ==
  ASSUME NEW m, Snapshot(m), NEW s \in States
  PROVE  /\ Snapshot(Enter(m, s)) /\ Enter(m, s).state = s
         /\ Snapshot(Enter(ResetReconnectState(m), s)) /\ Enter(ResetReconnectState(m), s).state = s
<1>1. Snapshot(ResetReconnectState(m))
  BY Moves
<1>2. ASSUME NEW n, Snapshot(n) PROVE Snapshot(Enter(n, s)) /\ Enter(n, s).state = s
  BY <1>2 DEF Snapshot, Enter, InitialMachine
<1> QED
  BY <1>1, <1>2

\* Noting a sleep moves nothing.
LEMMA NoteSleepKeeps ==
  ASSUME NEW m, Snapshot(m), NEW d
  PROVE  Snapshot(NoteSleep(m, d)) /\ NoteSleep(m, d).state = m.state
BY Moves DEF NoteSleep

\* The states from which a user's disconnect, or a fatal error, moves.
Stoppable == {"connecting"} \cup Connected \cup Reconnecting

(* What each event does to the state.                                       *)
LEMMA Requested ==
  ASSUME NEW m, Snapshot(m)
  PROVE  /\ Snapshot(OnConnect(m))
         /\ OnConnect(m).state = IF m.state \in Stoppable THEN m.state ELSE "connecting"
         /\ \A b \in BOOLEAN : Snapshot(OnSetRetryInitial(m, b)) /\ OnSetRetryInitial(m, b).state = m.state
<1>1. m.state \in {"idle", "disconnected"} \cup Terminal \cup Stoppable
  BY DEF Snapshot, States, Stoppable
<1>2. Snapshot(Enter(m, "connecting")) /\ Enter(m, "connecting").state = "connecting"
  BY Enters DEF States
<1>3. Snapshot([Enter(m, "connecting") EXCEPT !.lastError = "none"])
      /\ [Enter(m, "connecting") EXCEPT !.lastError = "none"].state = "connecting"
  BY <1>2, FieldEdits
<1>4. /\ Snapshot(Enter(ResetReconnectState(m), "connecting"))
      /\ Enter(ResetReconnectState(m), "connecting").state = "connecting"
  BY Enters DEF States
<1>5. /\ m.state \in {"idle", "disconnected"}
           => OnConnect(m) = [Enter(m, "connecting") EXCEPT !.lastError = "none"]
      /\ m.state \in Terminal => OnConnect(m) = Enter(ResetReconnectState(m), "connecting")
      /\ m.state \in Stoppable => OnConnect(m) = m /\ m.state \notin {"idle", "disconnected"} \cup Terminal
  BY DEF OnConnect, Enter, Terminal, Stoppable, Connected, Reconnecting
<1>6. \A b \in BOOLEAN : Snapshot(OnSetRetryInitial(m, b)) /\ OnSetRetryInitial(m, b).state = m.state
  BY FieldEdits DEF OnSetRetryInitial
<1> QED
  BY <1>1, <1>3, <1>4, <1>5, <1>6

\* DISCONNECT and CANCEL_RECONNECT.
LEMMA Stopped ==
  ASSUME NEW m, Snapshot(m)
  PROVE  /\ Snapshot(OnDisconnect(m))
         /\ OnDisconnect(m).state = IF m.state \in Stoppable THEN "disconnected" ELSE m.state
         /\ Snapshot(OnCancelReconnect(m))
         /\ OnCancelReconnect(m).state = IF m.state \in Reconnecting THEN "disconnected" ELSE m.state
<1>1. /\ Snapshot(Enter(ResetReconnectState(m), "disconnected"))
      /\ Enter(ResetReconnectState(m), "disconnected").state = "disconnected"
  BY Enters DEF States
<1> QED
  BY <1>1 DEF OnDisconnect, OnCancelReconnect, Stoppable

\* CONNECTION_SUCCESS.
LEMMA Succeeded ==
  ASSUME NEW m, Snapshot(m)
  PROVE  /\ Snapshot(OnConnectionSuccess(m))
         /\ OnConnectionSuccess(m).state =
              IF m.state \in {"connecting", "waiting", "attempting"} THEN "healthy" ELSE m.state
<1>1. /\ Snapshot(Enter(ResetReconnectState(m), "healthy"))
      /\ Enter(ResetReconnectState(m), "healthy").state = "healthy"
  BY Enters DEF States, Connected
<1> QED
  BY <1>1 DEF OnConnectionSuccess

\* CONNECTION_ERROR.
LEMMA Errored ==
  ASSUME NEW m, Snapshot(m)
  PROVE  /\ Snapshot(OnConnectionError(m))
         /\ m.state = "connecting" => OnConnectionError(m).state \in {"waiting", "initialFailure"}
         /\ m.state = "attempting" => OnConnectionError(m).state = "waiting"
         /\ m.state \notin {"connecting", "attempting"} => OnConnectionError(m) = m
<1> DEFINE e == [m EXCEPT !.lastError = "transport"]
<1>1. Snapshot(e)
  BY FieldEdits
<1>2. Snapshot(BackOff(e)) /\ BackOff(e).state = "waiting"
  BY <1>1, Moves
<1>3. Snapshot(Fail(m, "initialFailure", "transport"))
      /\ Fail(m, "initialFailure", "transport").state = "initialFailure"
  BY Moves DEF Terminal, ErrorKinds
<1>4. m.retryInitial \in BOOLEAN
  BY DEF Snapshot
<1> HIDE DEF e
<1>5. CASE m.state = "connecting" /\ m.retryInitial
  <2>1. OnConnectionError(m) = BackOff(e)
    BY <1>5 DEF OnConnectionError, e
  <2> QED
    BY <1>2, <1>5, <2>1
<1>6. CASE m.state = "connecting" /\ ~m.retryInitial
  <2>1. OnConnectionError(m) = Fail(m, "initialFailure", "transport")
    BY <1>6 DEF OnConnectionError
  <2> QED
    BY <1>3, <1>6, <2>1
<1>7. CASE m.state = "attempting"
  <2>1. OnConnectionError(m) = BackOff(e)
    BY <1>7 DEF OnConnectionError, e
  <2> QED
    BY <1>2, <1>7, <2>1
<1>8. CASE m.state \notin {"connecting", "attempting"}
  BY <1>8 DEF OnConnectionError
<1> QED
  BY <1>4, <1>5, <1>6, <1>7, <1>8

\* CONFLICT and AUTH_ERROR.
LEMMA Fatalities ==
  ASSUME NEW m, Snapshot(m)
  PROVE  /\ Snapshot(OnConflict(m)) /\ Snapshot(OnAuthError(m))
         /\ OnConflict(m).state = IF m.state \in Stoppable THEN "conflict" ELSE m.state
         /\ OnAuthError(m).state = IF m.state \in Stoppable THEN "authFailed" ELSE m.state
<1>1. ASSUME NEW s \in Terminal, NEW e \in ErrorKinds
      PROVE  /\ Snapshot(Fatal(m, s, e))
             /\ Fatal(m, s, e).state = IF m.state \in Stoppable THEN s ELSE m.state
  <2>1. Snapshot(ResetReconnectState(m))
    BY Moves
  <2>2. ASSUME NEW n, Snapshot(n) PROVE Snapshot(Fail(n, s, e)) /\ Fail(n, s, e).state = s
    BY <2>2 DEF Snapshot, Fail, InitialMachine, States
  <2>3. /\ Snapshot(Fail(m, s, e)) /\ Fail(m, s, e).state = s
        /\ Snapshot(Fail(ResetReconnectState(m), s, e)) /\ Fail(ResetReconnectState(m), s, e).state = s
    BY <2>1, <2>2
  <2> QED
    BY <2>3 DEF Fatal, Stoppable
<1> QED
  BY <1>1 DEF OnConflict, OnAuthError, Terminal, ErrorKinds

\* SOCKET_DIED.
LEMMA Died ==
  ASSUME NEW m, Snapshot(m)
  PROVE  /\ Snapshot(OnSocketDied(m))
         /\ OnSocketDied(m).state = IF m.state \in Connected \cup {"attempting"} THEN "waiting"
                                    ELSE m.state
<1>1. Snapshot(BackOff(m)) /\ BackOff(m).state = "waiting"
  BY Moves
<1>2. \A b : Snapshot(MarkResume(BackOff(m), b)) /\ MarkResume(BackOff(m), b).state = "waiting"
  BY <1>1, Moves
<1>3. \A b, d : /\ Snapshot([MarkResume(BackOff(m), b) EXCEPT !.slept = d])
                /\ [MarkResume(BackOff(m), b) EXCEPT !.slept = d].state = "waiting"
  BY <1>2, FieldEdits
<1> QED
  BY <1>1, <1>2, <1>3 DEF OnSocketDied, Connected

\* SLEEP and the two timers.
LEMMA Timers ==
  ASSUME NEW m, Snapshot(m)
  PROVE  /\ Snapshot(OnSleep(m)) /\ Snapshot(OnReconnectTimer(m)) /\ Snapshot(OnVerifyTimer(m))
         /\ OnSleep(m).state = IF m.state \in {"healthy", "verifying"} THEN "sleeping" ELSE m.state
         /\ OnReconnectTimer(m).state = IF m.state = "waiting" THEN "attempting" ELSE m.state
         /\ OnVerifyTimer(m).state = IF m.state = "verifying" THEN "waiting" ELSE m.state
<1>1. m.state \in {"healthy", "verifying"} => Snapshot(OnSleep(m)) /\ OnSleep(m).state = "sleeping"
  BY DEF OnSleep, Snapshot, InitialMachine, States, Connected
<1> QED
  BY <1>1, Moves DEF OnSleep, OnReconnectTimer, OnVerifyTimer

\* VERIFY_SUCCESS and VERIFY_FAILED.
LEMMA Verified ==
  ASSUME NEW m, Snapshot(m)
  PROVE  /\ Snapshot(OnVerifySuccess(m)) /\ Snapshot(OnVerifyFailed(m))
         /\ OnVerifySuccess(m).state = IF m.state = "verifying" THEN "healthy" ELSE m.state
         /\ OnVerifyFailed(m).state = IF m.state = "verifying" THEN "waiting" ELSE m.state
BY Moves DEF OnVerifySuccess, OnVerifyFailed, States, Connected

\* WAKE.
LEMMA Woken ==
  ASSUME NEW m, Snapshot(m), NEW d
  PROVE  Snapshot(OnWake(m, d))
<1>1. Snapshot(WokeTooLate(m)) /\ Snapshot(Enter(m, "verifying"))
  BY Moves DEF WokeTooLate, States, Connected
<1>2. CASE m.state = "sleeping"
  <2>1. Snapshot([IF d > m.window THEN WokeTooLate(m) ELSE Enter(m, "verifying") EXCEPT !.slept = Awake])
    BY <1>1, FieldEdits
  <2> QED
    BY <1>2, <2>1 DEF OnWake
<1>3. CASE m.state \in {"waiting", "attempting"}
  BY <1>3, Moves, NoteSleepKeeps DEF OnWake
<1> QED
  BY <1>1, <1>2, <1>3 DEF OnWake

\* DISPLAY_INACTIVE and DISPLAY_ACTIVE.
LEMMA Displayed ==
  ASSUME NEW m, Snapshot(m), NEW d
  PROVE  /\ Snapshot(OnDisplayInactive(m)) /\ Snapshot(OnDisplayActive(m, d))
         /\ OnDisplayInactive(m).state = IF m.state = "waiting" THEN "paused" ELSE m.state
         /\ OnDisplayActive(m, d).state = IF m.state \in {"waiting", "paused"} THEN "attempting"
                                          ELSE m.state
<1>1. m.state = "waiting" => Snapshot(OnDisplayInactive(m)) /\ OnDisplayInactive(m).state = "paused"
  BY DEF OnDisplayInactive, Snapshot, InitialMachine, States, Reconnecting
<1>2. Snapshot([Attempt(m) EXCEPT !.displayAsleep = FALSE])
      /\ [Attempt(m) EXCEPT !.displayAsleep = FALSE].state = "attempting"
  BY Moves, FieldEdits
<1>3. /\ Snapshot(NoteSleep([Attempt(m) EXCEPT !.displayAsleep = FALSE], d))
      /\ NoteSleep([Attempt(m) EXCEPT !.displayAsleep = FALSE], d).state = "attempting"
  BY <1>2, NoteSleepKeeps
<1> QED
  BY <1>1, <1>3 DEF OnDisplayInactive, OnDisplayActive

\* A nudge either starts an attempt or does nothing.
LEMMA Nudged ==
  ASSUME NEW m, Snapshot(m)
  PROVE  /\ Snapshot(Nudge(m))
         /\ Nudge(m).state \in {m.state, "attempting"}
         /\ m.state \notin {"waiting", "paused"} => Nudge(m) = m
<1>1. Snapshot(OnTriggerReconnect(m)) /\ OnTriggerReconnect(m).state \in {m.state, "attempting"}
  <2>1. Snapshot(Attempt(m)) /\ Attempt(m).state = "attempting"
    BY Moves
  <2>2. Snapshot([Attempt(m) EXCEPT !.displayAsleep = FALSE])
        /\ [Attempt(m) EXCEPT !.displayAsleep = FALSE].state = "attempting"
    BY <2>1, FieldEdits
  <2> QED
    BY <2>1, <2>2 DEF OnTriggerReconnect
<1>2. m.state \notin {"waiting", "paused"} => OnTriggerReconnect(m) = m
  BY DEF OnTriggerReconnect
<1> QED
  BY <1>1, <1>2 DEF Nudge

\* What a dead socket makes of the machine.
LEMMA DeadSockets ==
  ASSUME NEW m, Snapshot(m), NEW immediate \in BOOLEAN
  PROVE  /\ Snapshot(DeadSocket(m, immediate))
         /\ m.state = "connecting" => DeadSocket(m, immediate) = m
         /\ m.state = "attempting" => DeadSocket(m, immediate) = m
         /\ m.state \in Connected => DeadSocket(m, immediate).state \in {"waiting", "attempting"}
         /\ m.state \in Reconnecting => DeadSocket(m, immediate).state \in {m.state, "attempting"}
<1> DEFINE lost == IF m.state \in Reconnecting THEN m ELSE OnSocketDied(m)
<1>1. Snapshot(lost)
  BY Died
<1>2. m.state \in Connected => lost.state = "waiting"
  BY Died DEF Connected, Reconnecting
<1>3. m.state = "connecting" => lost = m
  BY DEF OnSocketDied, Reconnecting
<1>4. m.state \in Reconnecting => lost = m
  OBVIOUS
<1>5. DeadSocket(m, immediate) = IF immediate THEN Nudge(lost) ELSE lost
  BY DEF DeadSocket
<1> HIDE DEF lost
<1>6. /\ Snapshot(Nudge(lost)) /\ Nudge(lost).state \in {lost.state, "attempting"}
      /\ lost.state \notin {"waiting", "paused"} => Nudge(lost) = lost
  BY <1>1, Nudged
<1> QED
  BY <1>1, <1>2, <1>3, <1>4, <1>5, <1>6 DEF Reconnecting

-----------------------------------------------------------------------------
(* Types.                                                                   *)

Client  == [phase: Phases, unsettled: BOOLEAN, doomed: BOOLEAN]
Request == [kind: Kinds, pc: Pcs, stage: 0..2, cancelled: BOOLEAN, error: Errors]

\* The values records are reset to.
LEMMA Fresh ==
  /\ Gone \in Client /\ Done \in Request
  /\ \A pc \in Pcs, kind \in Kinds : New(kind, pc) \in Request
BY DEF Gone, Client, Phases, Done, New, Request, Kinds, Pcs, Errors

\* A client is named after its request.
LEMMA ClientIds ==
  /\ \A c \in Clients : c[1] \in Requests /\ c[2] \in {1, 2} /\ c = <<c[1], c[2]>> /\ c # None
  /\ \A o \in Requests : <<o, 1>> \in Clients /\ <<o, 2>> \in Clients
  /\ \A o \in Requests, i \in {1, 2} : <<o, i>>[1] = o /\ <<o, i>>[2] = i
BY SlotAssumption DEF Clients

(* What Handle does: the state follows, and a machine that enters           *)
(* attempting starts a request in a free slot.                              *)
LEMMA Handled ==
  ASSUME NEW next, Snapshot(next), NEW requests \in [Requests -> Request], Handle(next, requests)
  PROVE  /\ machine' \in Machines /\ machine'.state = next.state
         /\ request' \in [Requests -> Request]
         /\ \/ /\ machine.state = "attempting" \/ next.state # "attempting"
               /\ request' = requests
            \/ /\ machine.state # "attempting" /\ next.state = "attempting"
               /\ \E o \in Requests :
                     Free(o) /\ request' = [requests EXCEPT ![o] = New("reconnect", "starting")]
<1>1. machine' = Control(next)
  BY DEF Handle
<1>2. machine' \in Machines /\ machine'.state = next.state
  BY <1>1, ControlKeeps
<1>3. New("reconnect", "starting") \in Request
  BY Fresh DEF Pcs, Kinds
<1>4. \/ /\ machine.state = "attempting" \/ next.state # "attempting"
         /\ request' = requests
      \/ /\ machine.state # "attempting" /\ next.state = "attempting"
         /\ \E o \in Requests :
               Free(o) /\ request' = [requests EXCEPT ![o] = New("reconnect", "starting")]
  BY DEF Handle
<1> QED
  BY <1>2, <1>3, <1>4

(* Every update of a request or a client that the handlers use.             *)
LEMMA RequestUpdates ==
  ASSUME TypeOK, NEW o \in Requests
  PROVE  /\ request \in [Requests -> Request] /\ Finish(o) \in [Requests -> Request]
         /\ \A pc \in Pcs : Move(o, pc) \in [Requests -> Request]
         /\ \A pc \in Pcs, e \in Errors :
               [request EXCEPT ![o].pc = pc, ![o].error = e] \in [Requests -> Request]
         /\ \A pc \in Pcs, i \in 0..2 :
               [request EXCEPT ![o].pc = pc, ![o].stage = i] \in [Requests -> Request]
<1>1. request \in [Requests -> Request]
  BY DEF TypeOK, Request
<1>2. Finish(o) \in [Requests -> Request]
  BY <1>1, Fresh DEF Finish
<1>3. \A pc \in Pcs : Move(o, pc) \in [Requests -> Request]
  BY <1>1 DEF Move, Request
<1>4. \A pc \in Pcs, e \in Errors :
         [request EXCEPT ![o].pc = pc, ![o].error = e] \in [Requests -> Request]
  BY <1>1 DEF Request
<1>5. \A pc \in Pcs, i \in 0..2 :
         [request EXCEPT ![o].pc = pc, ![o].stage = i] \in [Requests -> Request]
  BY <1>1 DEF Request
<1> QED
  BY <1>1, <1>2, <1>3, <1>4, <1>5

\* The updates of the clients.
LEMMA ClientUpdates ==
  ASSUME TypeOK
  PROVE  /\ client \in [Clients -> Client] /\ \A c : Destroy(c) \in [Clients -> Client]
         /\ \A clients \in [Clients -> Client], c \in Clients, phase \in Phases :
               Settle(clients, c, phase) \in [Clients -> Client]
         /\ \A c \in Clients : [client EXCEPT ![c] = Gone] \in [Clients -> Client]
         /\ \A c \in Clients, b \in BOOLEAN :
               /\ [client EXCEPT ![c].unsettled = b] \in [Clients -> Client]
               /\ [client EXCEPT ![c].doomed = b] \in [Clients -> Client]
<1>1. client \in [Clients -> Client]
  BY DEF TypeOK, Client
<1>2. ASSUME NEW c PROVE Destroy(c) \in [Clients -> Client]
  <2>1. CASE c = None \/ c \notin Clients
    BY <1>1, <2>1 DEF Destroy
  <2>2. CASE c \in Clients
    <3>1. (client[c].unsettled /\ Awaits(c[1], c)) \in BOOLEAN
      OBVIOUS
    <3>2. [Gone EXCEPT !.unsettled = client[c].unsettled /\ Awaits(c[1], c)] \in Client
      BY <3>1 DEF Gone, Client, Phases
    <3> QED
      BY <1>1, <2>2, <3>2 DEF Destroy
  <2> QED
    BY <2>1, <2>2
<1>3. \A clients \in [Clients -> Client], c \in Clients, phase \in Phases :
         Settle(clients, c, phase) \in [Clients -> Client]
  BY DEF Settle, Client
<1>4. \A c \in Clients : [client EXCEPT ![c] = Gone] \in [Clients -> Client]
  BY <1>1, Fresh
<1>5. \A c \in Clients, b \in BOOLEAN :
         /\ [client EXCEPT ![c].unsettled = b] \in [Clients -> Client]
         /\ [client EXCEPT ![c].doomed = b] \in [Clients -> Client]
  BY <1>1 DEF Client
<1> QED
  BY <1>1, <1>2, <1>3, <1>4, <1>5

\* A rejection keeps requests requests.
LEMMA RejectedType ==
  ASSUME TypeOK, NEW c, NEW e \in Errors
  PROVE  Rejected(c, e) \in [Requests -> Request]
<1>1. \A o \in Requests : request[o] \in Request
  BY DEF TypeOK, Request
<1>2. \A o \in Requests : [request[o] EXCEPT !.pc = "failed", !.error = e] \in Request
  BY <1>1 DEF Request, Pcs
<1> QED
  BY <1>1, <1>2 DEF Rejected

\* A step leaves the type of everything but machine, request and transport alone.
Typed == /\ machine' \in Machines /\ request' \in [Requests -> Request]
         /\ xmpp' \in Clients \cup {None} /\ client' \in [Clients -> Client] /\ recovering' \in BOOLEAN

\* A step that leaves everything but flags alone.
LEMMA TypedKept == ASSUME TypeOK, UNCHANGED <<machine, request, transport>> PROVE Typed
BY RequestUpdates, ClientUpdates DEF Typed, TypeOK, transport, Request, Client

\* The actor takes a snapshot.
LEMMA TypedHandle ==
  ASSUME TypeOK, NEW next, Snapshot(next), NEW requests \in [Requests -> Request],
         Handle(next, requests)
  PROVE  machine' \in Machines /\ request' \in [Requests -> Request]
BY Handled

\* cleanupClient().
LEMMA TypedCleanup ==
  ASSUME TypeOK, CleanupClient
  PROVE  xmpp' \in Clients \cup {None} /\ client' \in [Clients -> Client] /\ recovering' \in BOOLEAN
BY ClientUpdates DEF CleanupClient, TypeOK

\* A client is installed.
LEMMA TypedTry ==
  ASSUME TypeOK, NEW o \in Requests, NEW stage \in {1, 2}, NEW clients \in [Clients -> Client],
         Try(o, stage, clients)
  PROVE  Typed /\ credentials' \in BOOLEAN
<1> DEFINE c == <<o, stage>>
<1>1. c \in Clients
  BY DEF Clients
<1>2. Install(clients, c)
  BY DEF Try
<1> HIDE DEF c
<1>3. xmpp' = c /\ client' \in [Clients -> Client]
  <2>1. [phase |-> "handshake", unsettled |-> TRUE, doomed |-> FALSE] \in Client
    BY DEF Client, Phases
  <2> QED
    BY <1>2, <2>1, Fresh DEF Install
<1>4. request' \in [Requests -> Request]
  <2>1. "trying" \in Pcs /\ stage \in 0..2
    BY DEF Pcs
  <2>2. [request EXCEPT ![o].pc = "trying", ![o].stage = stage] \in [Requests -> Request]
    BY <2>1, RequestUpdates
  <2> QED
    BY <2>2 DEF Try
<1> QED
  BY <1>1, <1>3, <1>4 DEF Try, Typed, TypeOK

\* The steps of the requests.
LEMMA TypedRequestStep ==
  ASSUME TypeOK, NEW o \in Requests, RequestStep(o)
  PROVE  TypeOK'
<1> USE DEF Pcs, Errors
<1> SUFFICES Typed /\ credentials' \in BOOLEAN /\ UNCHANGED <<wake, probe>>
  BY DEF TypeOK, Typed, Request, Client
<1>1. /\ Snapshot(machine) /\ machine \in Machines /\ credentials \in BOOLEAN
      /\ xmpp \in Clients \cup {None} /\ client \in [Clients -> Client] /\ recovering \in BOOLEAN
  BY MachineIsSnapshot, ClientUpdates DEF TypeOK
<1>2. /\ request \in [Requests -> Request] /\ Finish(o) \in [Requests -> Request]
      /\ \A pc \in Pcs : Move(o, pc) \in [Requests -> Request]
      /\ \A pc \in Pcs, e \in Errors :
            [request EXCEPT ![o].pc = pc, ![o].error = e] \in [Requests -> Request]
      /\ \A pc \in Pcs, i \in 0..2 :
            [request EXCEPT ![o].pc = pc, ![o].stage = i] \in [Requests -> Request]
  BY RequestUpdates
<1>3. GiveUp(o) => Typed /\ credentials' \in BOOLEAN
  BY <1>1, <1>2 DEF GiveUp, Typed, transport
<1>4. FallBack(o) => Typed
  BY <1>1, <1>2, TypedCleanup, SMTT(60) DEF FallBack, Typed
<1>5. CASE BeginConnect(o)
  <2>1. ASSUME NEW retry \in BOOLEAN,
               Handle(OnSetRetryInitial(OnConnect(machine), retry), Move(o, "resolving"))
        PROVE  machine' \in Machines /\ request' \in [Requests -> Request]
    <3>1. Snapshot(OnConnect(machine))
      BY <1>1, Requested
    <3>2. Snapshot(OnSetRetryInitial(OnConnect(machine), retry))
      BY <3>1, Requested
    <3> QED
      BY <1>2, <2>1, <3>2, TypedHandle
  <2> QED
    BY <1>1, <1>2, <1>5, <2>1 DEF BeginConnect, Typed, transport
<1>6. CASE ServerResolved(o)
  BY <1>1, <1>2, <1>3, <1>6, TypedTry, SMTT(60) DEF ServerResolved, Typed, transport
<1>7. CASE ProxyReady(o)
  BY <1>1, <1>2, <1>3, <1>7, TypedTry DEF ProxyReady
<1>8. CASE ProxyUnavailable(o)
  <2> DEFINE r == [request EXCEPT ![o].pc = "failed", ![o].stage = 2]
  <2>1. r \in [Requests -> Request]
    BY <1>2, SMTT(60)
  <2> HIDE DEF r
  <2>2. [r EXCEPT ![o].error = "setup"] \in [Requests -> Request]
    BY <2>1 DEF Request
  <2>3. request' = [r EXCEPT ![o].error = "setup"]
    BY <1>8 DEF r, ProxyUnavailable
  <2> QED
    BY <1>1, <1>8, <2>2, <2>3 DEF ProxyUnavailable, Typed, transport
<1>9. CASE PrecheckTimeout(o)
  BY <1>1, <1>2, <1>9 DEF PrecheckTimeout, Typed, transport
<1>10. CASE ConnectFailed(o)
  <2> DEFINE m == IF request[o].error = "suspended" THEN OnSetRetryInitial(machine, TRUE) ELSE machine
  <2>1. Snapshot(m)
    BY <1>1, Requested
  <2> HIDE DEF m
  <2>2. Snapshot(OnConnectionError(m))
    BY <2>1, Errored
  <2>3. Handle(OnConnectionError(m), Finish(o)) /\ UNCHANGED transport => Typed
    BY <1>1, <1>2, <2>2, TypedHandle DEF Typed, transport
  <2> QED
    BY <1>1, <1>3, <1>4, <1>10, <2>3 DEF ConnectFailed, m
<1>11. CASE AttemptReconnect(o)
  <2>1. Snapshot(OnDisconnect(machine)) /\ Snapshot(OnAuthError(machine))
    BY <1>1, Stopped, Fatalities
  <2>2. Handle(OnDisconnect(machine), Finish(o)) => machine' \in Machines /\ request' \in [Requests -> Request]
    BY <1>2, <2>1, TypedHandle
  <2>3. Handle(OnAuthError(machine), Finish(o)) => machine' \in Machines /\ request' \in [Requests -> Request]
    BY <1>2, <2>1, TypedHandle
  <2> QED
    BY <1>1, <1>2, <1>11, <2>2, <2>3, TypedCleanup, SMTT(60) DEF AttemptReconnect, Typed, transport
<1>12. CASE NetworkNotReady(o)
  <2>1. Snapshot(OnConnectionError(machine))
    BY <1>1, Errored
  <2>2. Handle(OnConnectionError(machine), Finish(o)) => machine' \in Machines /\ request' \in [Requests -> Request]
    BY <1>2, <2>1, TypedHandle
  <2> QED
    BY <1>1, <1>2, <1>12, <2>2 DEF NetworkNotReady, Typed, transport
<1>13. CASE Prepared(o)
  <2>1. Snapshot(OnConnectionSuccess(machine))
    BY <1>1, Succeeded
  <2>2. Handle(OnConnectionSuccess(machine), Move(o, "greeting"))
          => machine' \in Machines /\ request' \in [Requests -> Request]
    BY <1>2, <2>1, TypedHandle
  <2>3. Destroy(xmpp) \in [Clients -> Client]
    BY ClientUpdates
  <2>4. Try(o, 1, Destroy(xmpp)) => Typed /\ credentials' \in BOOLEAN
    BY <2>3, TypedTry
  <2>5. [request EXCEPT ![o].pc = "failed", ![o].error = "setup"] \in [Requests -> Request]
    BY <1>2
  <2>6. CASE request[o].cancelled
    BY <1>3, <1>13, <2>6 DEF Prepared
  <2>7. CASE ~request[o].cancelled /\ xmpp # None /\ client[xmpp].phase = "online"
    BY <1>1, <1>13, <2>2, <2>7 DEF Prepared, Typed, transport
  <2>8. CASE ~request[o].cancelled /\ (xmpp = None \/ client[xmpp].phase # "online")
    BY <1>1, <1>13, <2>3, <2>4, <2>5, <2>8 DEF Prepared, Typed
  <2> QED
    BY <2>6, <2>7, <2>8
<1>14. CASE ReconnectFailed(o)
  <2>1. Snapshot(OnConnectionError(machine)) /\ Snapshot(OnAuthError(machine))
    BY <1>1, Errored, Fatalities
  <2>2. Handle(IF request[o].error = "noCredentials" THEN OnAuthError(machine)
               ELSE OnConnectionError(machine), Finish(o)) /\ CleanupClient => Typed
    BY <1>2, <2>1, TypedHandle, TypedCleanup DEF Typed
  <2> QED
    BY <1>1, <1>3, <1>4, <1>14, <2>2 DEF ReconnectFailed
<1>15. CASE Greeted(o)
  <2>1. [request EXCEPT ![o].pc = "failed", ![o].error = "setup"] \in [Requests -> Request]
    BY <1>2
  <2>2. request' \in [Requests -> Request]
    BY <1>2, <1>15, <2>1 DEF Greeted
  <2> QED
    BY <1>1, <1>15, <2>2 DEF Greeted, Typed, transport
<1>16. CASE AttemptTimeout(o)
  <2> DEFINE c == <<o, request[o].stage>>
  <2>1. [client EXCEPT ![c].unsettled = FALSE] \in [Clients -> Client]
    BY <1>1 DEF Client
  <2>2. [client EXCEPT ![c] = Gone] \in [Clients -> Client]
    BY <1>1, Fresh
  <2>3. \A e \in Errors : [request EXCEPT ![o].pc = "failed", ![o].error = e] \in [Requests -> Request]
    BY <1>2
  <2>4. request' \in [Requests -> Request] /\ client' \in [Clients -> Client]
    BY <1>16, <2>1, <2>2, <2>3 DEF AttemptTimeout
  <2> QED
    BY <1>1, <1>16, <2>4 DEF AttemptTimeout, Typed
<1> QED
  BY <1>5, <1>6, <1>7, <1>8, <1>9, <1>10, <1>11, <1>12, <1>13, <1>14, <1>15, <1>16 DEF RequestStep

\* The callbacks of the clients.
LEMMA TypedClientEvent ==
  ASSUME TypeOK, NEW c \in Clients, ClientEvent(c)
  PROVE  TypeOK'
<1> SUFFICES Typed /\ credentials' \in BOOLEAN /\ UNCHANGED <<wake, probe>>
  BY DEF TypeOK, Typed, Request, Client
<1>1. /\ Snapshot(machine) /\ machine \in Machines /\ credentials \in BOOLEAN
      /\ xmpp \in Clients \cup {None} /\ client \in [Clients -> Client] /\ recovering \in BOOLEAN
      /\ request \in [Requests -> Request]
  BY MachineIsSnapshot, ClientUpdates, RequestUpdates DEF TypeOK, Request
<1>2. /\ \A k : Destroy(k) \in [Clients -> Client]
      /\ \A clients \in [Clients -> Client], phase \in Phases :
            Settle(clients, c, phase) \in [Clients -> Client]
      /\ [client EXCEPT ![c] = Gone] \in [Clients -> Client]
  BY ClientUpdates
<1>3. \A e \in {"transport", "noCredentials"} : Rejected(c, e) \in [Requests -> Request]
  BY RejectedType DEF Errors
<1>4. ConnectionReject(c) \in [Requests -> Request]
  BY <1>1, <1>3 DEF ConnectionReject
<1>5. /\ Snapshot(OnSocketDied(machine)) /\ Snapshot(OnConflict(machine))
      /\ Snapshot(OnAuthError(machine)) /\ Snapshot(OnConnectionSuccess(machine))
      /\ Snapshot(DeadSocket(machine, TRUE))
  BY <1>1, Died, Fatalities, Succeeded, DeadSockets
<1>6. CASE Online(c)
  <2> DEFINE r == [o \in Requests |-> IF ~Awaits(o, c) THEN request[o]
                                      ELSE IF xmpp = None THEN Done
                                      ELSE [request[o] EXCEPT !.pc = "greeting"]]
  <2>1. r \in [Requests -> Request]
    <3>1. \A o \in Requests : [request[o] EXCEPT !.pc = "greeting"] \in Request
      BY <1>1 DEF Request, Pcs
    <3> QED
      BY <1>1, <3>1, Fresh
  <2> HIDE DEF r
  <2>2. Handle(OnConnectionSuccess(machine), r) => machine' \in Machines /\ request' \in [Requests -> Request]
    BY <1>5, <2>1, TypedHandle
  <2> QED
    BY <1>1, <1>2, <1>6, <2>2 DEF Online, Typed, Phases, r
<1>7. CASE StartRejected(c)
  BY <1>1, <1>2, <1>3, <1>7 DEF StartRejected, Typed, Phases
<1>8. CASE FatalError(c)
  <2>1. machine' \in Machines /\ request' \in [Requests -> Request]
    BY <1>4, <1>5, <1>8, TypedHandle DEF FatalError
  <2> QED
    BY <1>1, <1>2, <1>8, <2>1 DEF FatalError, Typed, Phases
<1>9. CASE ServerShutdown(c)
  <2>1. machine' \in Machines /\ request' \in [Requests -> Request]
    BY <1>4, <1>5, <1>9, TypedHandle DEF ServerShutdown
  <2> QED
    BY <1>1, <1>2, <1>9, <2>1 DEF ServerShutdown, Typed, Phases
<1>10. CASE TransportError(c)
  <2>1. Handle(DeadSocket(machine, TRUE), ConnectionReject(c))
          => machine' \in Machines /\ request' \in [Requests -> Request]
    BY <1>4, <1>5, TypedHandle
  <2>2. \A phase \in {"gone", "closing"} : Settle(Destroy(xmpp), c, phase) \in [Clients -> Client]
    BY <1>2 DEF Phases
  <2>3. Settle(client, c, "closing") \in [Clients -> Client]
    BY <1>1, <1>2 DEF Phases
  <2> QED
    BY <1>1, <1>2, <1>4, <1>10, <2>1, <2>2, <2>3 DEF TransportError, Typed
<1>11. CASE Disconnected(c)
  <2>1. Handle(OnSocketDied(machine), Rejected(c, "transport"))
          => machine' \in Machines /\ request' \in [Requests -> Request]
    BY <1>3, <1>5, TypedHandle
  <2> QED
    BY <1>1, <1>2, <1>3, <1>11, <2>1 DEF Disconnected, Typed, Phases
<1>12. CASE DisconnectTail(c)
  BY <1>1, <1>2, <1>12 DEF DisconnectTail, Typed
<1> QED
  BY <1>6, <1>7, <1>8, <1>9, <1>10, <1>11, <1>12 DEF ClientEvent

\* The calls of the user.
LEMMA TypedUserCall == ASSUME TypeOK, UserCall PROVE TypeOK'
<1> SUFFICES Typed /\ credentials' \in BOOLEAN /\ UNCHANGED <<wake, probe>>
  BY DEF TypeOK, Typed, Request, Client
<1>1. /\ Snapshot(machine) /\ machine \in Machines /\ credentials \in BOOLEAN
      /\ xmpp \in Clients \cup {None} /\ client \in [Clients -> Client] /\ recovering \in BOOLEAN
      /\ request \in [Requests -> Request]
  BY MachineIsSnapshot, ClientUpdates DEF TypeOK, Request
<1>2. Snapshot(OnDisconnect(machine)) /\ Snapshot(OnCancelReconnect(machine))
  BY <1>1, Stopped
<1>3. CASE RequestConnect
  BY <1>1, <1>3, Fresh DEF RequestConnect, Typed, transport, Pcs, Kinds
<1>4. CASE Disconnect
  <2> DEFINE r == [o \in Requests |-> IF request[o].pc = "done" THEN request[o]
                                      ELSE [request[o] EXCEPT !.cancelled = TRUE]]
  <2>1. r \in [Requests -> Request]
    <3>1. \A o \in Requests : [request[o] EXCEPT !.cancelled = TRUE] \in Request
      BY <1>1 DEF Request
    <3> QED
      BY <1>1, <3>1
  <2> HIDE DEF r
  <2>2. machine' \in Machines /\ request' \in [Requests -> Request]
    BY <1>2, <1>4, <2>1, TypedHandle DEF Disconnect, r
  <2>3. client' \in [Clients -> Client]
    <3>1. Destroy(xmpp) \in [Clients -> Client]
      BY ClientUpdates
    <3>2. xmpp # None => [client EXCEPT ![xmpp].doomed = TRUE] \in [Clients -> Client]
      BY <1>1 DEF Client
    <3> QED
      BY <1>4, <3>1, <3>2 DEF Disconnect
  <2> QED
    BY <1>1, <1>4, <2>2, <2>3 DEF Disconnect, Typed
<1>5. CASE CancelReconnect
  <2>1. machine' \in Machines /\ request' \in [Requests -> Request]
    BY <1>1, <1>2, <1>5, TypedHandle DEF CancelReconnect
  <2> QED
    BY <1>1, <1>5, <2>1 DEF CancelReconnect, Typed, transport
<1> QED
  BY <1>3, <1>4, <1>5 DEF UserCall

\* The events of the host.
LEMMA TypedHostEvent == ASSUME TypeOK, HostEvent PROVE TypeOK'
<1>1. /\ Snapshot(machine) /\ machine \in Machines /\ credentials \in BOOLEAN
      /\ xmpp \in Clients \cup {None} /\ client \in [Clients -> Client] /\ recovering \in BOOLEAN
      /\ request \in [Requests -> Request] /\ probe \in Clients \cup {None}
      /\ wake \in Wakes
  BY MachineIsSnapshot, ClientUpdates DEF TypeOK, Request
<1>2. /\ Destroy(xmpp) \in [Clients -> Client]
      /\ AtRest \in Wakes
      /\ [AtRest EXCEPT !.pc = "network"] \in Wakes
      /\ xmpp # None => [pc |-> "verifying", client |-> xmpp] \in Wakes
  BY <1>1, ClientUpdates DEF Wakes
<1>3. ASSUME NEW m, Snapshot(m), Handle(m, request)
      PROVE  machine' \in Machines /\ request' \in [Requests -> Request]
  BY <1>1, <1>3, TypedHandle
<1>4. ASSUME Typed, UNCHANGED credentials, probe' \in Clients \cup {None},
             wake' \in Wakes
      PROVE  TypeOK'
  BY <1>1, <1>4 DEF TypeOK, Typed, Request, Client
<1>5. CASE Visible \/ Sleeping \/ ReconnectTimer \/ VerifyTimer
  <2>1. /\ Snapshot(Nudge(machine)) /\ Snapshot(OnSleep(machine))
        /\ Snapshot(OnReconnectTimer(machine)) /\ Snapshot(OnVerifyTimer(machine))
    BY <1>1, Nudged, Timers
  <2>2. /\ machine' \in Machines /\ request' \in [Requests -> Request]
        /\ UNCHANGED <<transport, credentials, wake, probe>>
    BY <1>3, <1>5, <2>1 DEF Visible, Sleeping, ReconnectTimer, VerifyTimer
  <2> QED
    BY <1>1, <1>4, <2>2 DEF Typed, transport
<1>6. ASSUME NEW d \in Durations, NotifyAwake(d)
      PROVE  TypeOK'
  <2> DEFINE woken == OnWake(machine, d)
  <2>1. Snapshot(woken)
    BY <1>1, Woken
  <2> HIDE DEF woken
  <2>2. Snapshot(Nudge(woken)) /\ Snapshot(OnWake(woken, 0)) /\ Snapshot(DeadSocket(woken, TRUE))
    BY <2>1, Nudged, Woken, DeadSockets
  <2>3. UNCHANGED <<credentials, probe>>
    BY <1>6 DEF NotifyAwake
  <2>4. CASE CleanupClient /\ (Handle(woken, request) \/ Handle(Nudge(woken), request)) /\ UNCHANGED wake
    BY <1>1, <1>3, <1>4, <2>1, <2>2, <2>3, <2>4, TypedCleanup DEF Typed
  <2>5. CASE /\ Handle(OnWake(woken, 0), request) /\ xmpp # None
             /\ wake' = [pc |-> "verifying", client |-> xmpp] /\ UNCHANGED transport
    BY <1>1, <1>2, <1>3, <1>4, <2>2, <2>3, <2>5 DEF Typed, transport
  <2>6. CASE /\ Handle(DeadSocket(woken, TRUE), request) /\ recovering' = TRUE
             /\ UNCHANGED <<xmpp, client, wake>>
    BY <1>1, <1>3, <1>4, <2>2, <2>3, <2>6 DEF Typed
  <2>7. CASE wake' = [AtRest EXCEPT !.pc = "network"] /\ UNCHANGED <<machine, transport, request>>
    BY <1>1, <1>2, <1>4, <2>3, <2>7 DEF Typed, transport
  <2> QED
    BY <1>6, <2>4, <2>5, <2>6, <2>7 DEF NotifyAwake, VerifyConnection, woken
<1>7. CASE WakeNetwork
  <2>1. \A d : Snapshot(OnWake(machine, d))
    BY <1>1, Woken
  <2>2. CASE CleanupClient /\ \E d \in Durations : Handle(OnWake(machine, d), request)
    <3>1. machine' \in Machines /\ request' \in [Requests -> Request]
      BY <1>3, <2>1, <2>2
    <3> QED
      BY <1>1, <1>2, <1>4, <1>7, <2>2, <3>1, TypedCleanup DEF Typed, WakeNetwork
  <2> QED
    BY <1>1, <1>2, <1>4, <1>7, <2>2, TypedKept DEF WakeNetwork
<1>8. CASE WakeVerified
  <2> DEFINE failed == OnVerifyFailed(machine)
             dead   == IF Recoverable(failed) THEN DeadSocket(failed, FALSE) ELSE failed
  <2>1. Snapshot(failed) /\ Snapshot(OnVerifySuccess(machine))
    BY <1>1, Verified
  <2> HIDE DEF failed
  <2>2. Snapshot(dead)
    BY <2>1, DeadSockets
  <2> HIDE DEF dead
  <2>3. Snapshot(DeadSocket(dead, TRUE)) /\ Snapshot(Nudge(dead))
    BY <2>2, DeadSockets, Nudged
  <2>4. wake' = AtRest /\ UNCHANGED <<credentials, probe>>
    BY <1>8 DEF WakeVerified
  <2>5. CASE UNCHANGED <<machine, request, transport>>
    BY <1>1, <1>2, <1>4, <2>4, <2>5, TypedKept
  <2>6. CASE Handle(OnVerifySuccess(machine), request) /\ UNCHANGED transport
    BY <1>1, <1>2, <1>3, <1>4, <2>1, <2>4, <2>6 DEF Typed, transport
  <2>7. CASE /\ \/ Handle(IF dead.state \notin Reconnecting
                          THEN IF Recoverable(dead) THEN DeadSocket(dead, TRUE) ELSE dead
                          ELSE dead, request)
                \/ Handle(Nudge(dead), request)
             /\ IF Recoverable(failed)
                THEN /\ xmpp' = None
                     /\ client' = Destroy(xmpp)
                     /\ recovering' = (xmpp = None \/ dead.state \notin Reconnecting)
                ELSE UNCHANGED transport
    <3>1. machine' \in Machines /\ request' \in [Requests -> Request]
      BY <1>3, <2>2, <2>3, <2>7
    <3>2. xmpp' \in Clients \cup {None} /\ client' \in [Clients -> Client] /\ recovering' \in BOOLEAN
      BY <1>1, <1>2, <2>7 DEF transport
    <3> QED
      BY <1>1, <1>2, <1>4, <2>4, <3>1, <3>2 DEF Typed
  <2> QED
    BY <1>8, <2>5, <2>6, <2>7 DEF WakeVerified, failed, dead
<1>9. CASE ProbeDone
  <2>1. Snapshot(DeadSocket(machine, FALSE))
    BY <1>1, DeadSockets
  <2>2. CASE HandleDeadSocket(FALSE, request)
    <3>1. Typed
      BY <1>1, <1>2, <1>3, <2>1, <2>2 DEF HandleDeadSocket, Typed, transport
    <3> QED
      BY <1>1, <1>4, <1>9, <3>1 DEF ProbeDone
  <2> QED
    BY <1>1, <1>4, <1>9, <2>2, TypedKept DEF ProbeDone
<1>10. ASSUME NEW d \in Durations, NEW active \in BOOLEAN, KeepaliveTick(active, d)
       PROVE  TypeOK'
  <2> DEFINE told == IF active THEN OnDisplayActive(machine, d) ELSE OnDisplayInactive(machine)
  <2>1. Snapshot(told)
    BY <1>1, Displayed
  <2> HIDE DEF told
  <2>2. Snapshot(IF active THEN Nudge(told) ELSE told)
    BY <2>1, Nudged
  <2>3. machine' \in Machines /\ request' \in [Requests -> Request]
    BY <1>3, <1>10, <2>2 DEF KeepaliveTick, told
  <2>4. probe' \in Clients \cup {None} /\ UNCHANGED <<transport, credentials, wake>>
    BY <1>1, <1>10 DEF KeepaliveTick
  <2> QED
    BY <1>1, <1>4, <2>3, <2>4 DEF Typed, transport
<1> QED
  BY <1>5, <1>6, <1>7, <1>8, <1>9, <1>10 DEF HostEvent

\* The start.
LEMMA InitTypes == Init => TypeOK
<1>1. Snapshot(InitialMachine)
  BY DEF Snapshot, InitialMachine, States
<1>2. InitialMachine \in Machines
  BY <1>1, ControlKeeps DEF Control, InitialMachine
<1>3. Init => client \in [Clients -> Client] /\ request \in [Requests -> Request]
  BY Fresh DEF Init
<1>4. Init => wake \in Wakes
  BY DEF Init, Wakes
<1> QED
  BY <1>2, <1>3, <1>4 DEF Init, TypeOK, Client, Request

\* Any step.
LEMMA StepTypes == TypeOK /\ [Next]_vars => TypeOK'
<1>1. ASSUME TypeOK, UNCHANGED vars PROVE TypeOK'
  BY <1>1 DEF TypeOK, vars
<1> QED
  BY <1>1, TypedRequestStep, TypedClientEvent, TypedUserCall, TypedHostEvent DEF Next

(* Every state is well typed, whatever the app runs on and whatever the     *)
(* user, the app and the host do.                                           *)
THEOREM TypeCorrect == Spec => []TypeOK
BY InitTypes, StepTypes, PTL DEF Spec

-----------------------------------------------------------------------------
(* The web app, without the events whose handlers start or end something   *)
(* beside the request at work: logout() destroys its client later, a       *)
(* cancelled reconnection and a wake leave the attempt running, and a      *)
(* failed setup discards the client of a connected machine.                *)
WebOnly == /\ ~HasProxy
           /\ Events \cap {"logout", "cancelReconnect", "setupFailure", "wake"} = {}

\* The request may still move the machine or install a client.
Worker(o) == ~request[o].cancelled /\ request[o].pc \notin {"done", "requested", "greeting"}

\* Where a request of either kind can be.
RequestFits(o) ==
    /\ request[o].pc = "done" => request[o] = Done
    /\ request[o].pc = "starting" => ~request[o].cancelled
    /\ request[o].pc \in {"requested", "resolving"} => request[o].kind = "connect"
    /\ request[o].pc \in {"starting", "preparing"} => request[o].kind = "reconnect"
    /\ request[o].pc = "trying" => request[o].stage = 1
    /\ request[o].pc # "proxying"

(* A worker steers the machine, holds the client it tries, and is alone; its *)
(* failure is handled in the same turn, though the machine may have moved    *)
(* on already.                                                               *)
WorkerFits(o) == Worker(o) =>
    /\ \/ request[o].kind = "connect" /\ machine.state = "connecting"
       \/ request[o].kind = "reconnect" /\ machine.state = "attempting"
       \/ request[o].pc = "failed" /\ InTerminal
       \/ request[o].pc = "failed" /\ request[o].kind = "reconnect" /\ machine.state = "waiting"
    /\ request[o].pc = "trying" => client[<<o, 1>>].phase = "handshake"
    /\ request[o].pc = "failed" => /\ request[o].stage = 1 /\ request[o].error # "superseded"
                                   /\ xmpp \in {None, <<o, 1>>}
    /\ request[o].pc \in {"trying", "failed"} /\ ~InTerminal => credentials
    /\ \A p \in Requests : Worker(p) => p = o

(* A promise is unsettled as long as its request awaits it, and only         *)
(* this.xmpp can carry a session or still report its end.                    *)
ClientFits(c) ==
    /\ ~client[c].doomed
    /\ client[c].unsettled <=> Awaits(c[1], c)
    /\ client[c].unsettled => client[c].phase \in {"handshake", "gone"}
    /\ client[c].phase \in {"handshake", "online", "closed"} => c = xmpp
    /\ client[c].phase = "handshake" => client[c].unsettled /\ ~request[c[1]].cancelled
    /\ client[c].phase = "online" => InConnected

\* Somebody will end the phase.
Steered == machine.state \in {"connecting", "attempting"} => \E o \in Requests : Worker(o)

\* What a session and a reconnection need.
InSession ==
    /\ InConnected => xmpp # None /\ client[xmpp].phase = "online"
    /\ InConnected \/ InReconnecting => credentials
    /\ machine.state # "verifying" /\ wake = AtRest /\ ~recovering

(* The inductive invariant: each part needs the others, since a worker is   *)
(* found by its client, a client by this.xmpp and both by the machine.      *)
IInv == /\ TypeOK
        /\ \A o \in Requests : RequestFits(o) /\ WorkerFits(o)
        /\ \A c \in Clients : ClientFits(c)
        /\ Steered
        /\ InSession

\* A step that implements the abstract session.
Step == [Session!Next]_(Session!vars)

\* What the invariant gives a proof to start from.
LEMMA Before ==
  ASSUME IInv
  PROVE  /\ TypeOK /\ Steered /\ InSession
         /\ \A o \in Requests : RequestFits(o) /\ WorkerFits(o)
         /\ \A c \in Clients : ClientFits(c)
         /\ request \in [Requests -> Request] /\ client \in [Clients -> Client]
         /\ xmpp \in Clients \cup {None}
         /\ Snapshot(machine) /\ machine \in Machines /\ machine.state \in States
BY MachineIsSnapshot DEF IInv, TypeOK, Request, Client, Snapshot

(* A machine that is neither connecting, reconnecting nor connected has no  *)
(* worker, except one whose failure is due to be handled.                   *)
LEMMA NoWorker ==
  ASSUME IInv, Quiet, machine.state \notin {"connecting", "attempting"}, NEW o \in Requests
  PROVE  ~Worker(o)
BY Before DEF WorkerFits, Worker, Quiet, Pending

(* A client that may carry a session belongs to the only worker, which      *)
(* tries it, or to the session.                                             *)
LEMMA LiveClient ==
  ASSUME IInv, NEW c \in Clients, Live(c)
  PROVE  /\ c = xmpp
         /\ \/ InConnected /\ client[c].phase = "online" /\ ~client[c].unsettled
            \/ /\ client[c].phase = "handshake" /\ client[c].unsettled
               /\ c = <<c[1], 1>> /\ request[c[1]].pc = "trying" /\ Worker(c[1])
               /\ machine.state \in {"connecting", "attempting"}
<1>1. ClientFits(c) /\ c[1] \in Requests /\ c = <<c[1], c[2]>>
  BY Before, ClientIds
<1>2. c = xmpp
  BY <1>1 DEF ClientFits, Live
<1>3. CASE client[c].phase = "online"
  BY <1>1, <1>2, <1>3 DEF ClientFits
<1>4. CASE client[c].phase = "handshake"
  <2>1. client[c].unsettled /\ ~request[c[1]].cancelled /\ Awaits(c[1], c)
    BY <1>1, <1>4 DEF ClientFits
  <2>2. request[c[1]].pc = "trying" /\ c = <<c[1], request[c[1]].stage>>
    BY <2>1 DEF Awaits
  <2>3. RequestFits(c[1]) /\ WorkerFits(c[1])
    BY <1>1, Before
  <2>4. Worker(c[1]) /\ request[c[1]].stage = 1
    BY <2>1, <2>2, <2>3 DEF Worker, RequestFits
  <2> QED
    BY <1>2, <1>4, <2>1, <2>2, <2>3, <2>4 DEF WorkerFits
<1> QED
  BY <1>2, <1>3, <1>4 DEF Live

\* What this.xmpp is to the sockets of the session.
LEMMA SocketsOf ==
  ASSUME IInv
  PROVE  /\ (\A c \in Clients : ~Live(c)) => {c \in Clients : Live(c)} = {}
         /\ xmpp # None /\ Live(xmpp) => {c \in Clients : Live(c)} = {xmpp}
         /\ (\E c \in Clients : Live(c)) => xmpp # None /\ Live(xmpp)
<1>1. \A c \in Clients : Live(c) => c = xmpp
  BY LiveClient
<1>2. None \notin Clients
  BY SlotAssumption DEF Clients
<1> QED
  BY <1>1, <1>2, Before

\* The status as the state decides it.
LEMMA Statuses ==
  ASSUME NEW s \in States
  PROVE  /\ s \in {"idle", "disconnected"} => StatusOf(s) = "disconnected"
         /\ s = "connecting" => StatusOf(s) = "connecting"
         /\ s \in Connected => StatusOf(s) = "online"
         /\ s \in Reconnecting => StatusOf(s) = "reconnecting"
         /\ s \in Terminal => StatusOf(s) = "error"
         /\ \/ s \in {"idle", "disconnected", "connecting"}
            \/ s \in Connected \/ s \in Reconnecting \/ s \in Terminal
BY DEF States, StatusOf, Connected, Reconnecting, Terminal

(* A step after which nothing carries a session is one of the abstract      *)
(* session's, if the status moves the way it may.                           *)
LEMMA Falls ==
  ASSUME \A c \in Clients : ~Live(c)',
         LET before == StatusOf(machine.state)
             after  == StatusOf(machine'.state)
         IN  \/ after = before /\ (before \in {"connecting", "reconnecting"} \/ \A c \in Clients : ~Live(c))
             \/ before \in {"connecting", "online", "reconnecting"} /\ after \in {"error", "disconnected"}
             \/ before \in {"connecting", "online"} /\ after = "reconnecting"
             \/ /\ before \in {"disconnected", "error"} /\ after = "connecting"
                /\ \A c \in Clients : ~Live(c)
  PROVE  Step
<1>1. {c \in Clients : Live(c)}' = {}
  OBVIOUS
<1>2. (\A c \in Clients : ~Live(c)) => {c \in Clients : Live(c)} = {}
  OBVIOUS
<1> DEFINE before == StatusOf(machine.state)
           after  == StatusOf(machine'.state)
           now == {c \in Clients : Live(c)}
<1>3. CASE after = before /\ (before \in {"connecting", "reconnecting"} \/ now = {})
  BY <1>1, <1>3 DEF Step, Session!vars, Session!Next, Session!Drop
<1>4. CASE before \in {"connecting", "online", "reconnecting"} /\ after \in {"error", "disconnected"}
  BY <1>1, <1>4 DEF Step, Session!Next, Session!Fail, Session!Stop
<1>5. CASE before \in {"connecting", "online"} /\ after = "reconnecting"
  BY <1>1, <1>5 DEF Step, Session!Next, Session!Lose
<1>6. CASE before \in {"disconnected", "error"} /\ after = "connecting" /\ now = {}
  BY <1>1, <1>6 DEF Step, Session!Next, Session!Connect
<1> QED
  BY <1>2, <1>3, <1>4, <1>5, <1>6

(* A request that is not at work ends; nothing else changes.                *)
LEMMA Retires ==
  ASSUME IInv, TypeOK', NEW o \in Requests, ~Worker(o), request[o].pc # "trying",
         request' = Finish(o), UNCHANGED <<machine, transport, credentials, wake>>
  PROVE  IInv' /\ Step
<1>1. /\ request'[o] = Done
      /\ \A p \in Requests : p # o => request'[p] = request[p]
  BY Before DEF Finish
<1>2. Done.pc = "done" /\ ~Done.cancelled /\ Done.stage = 0
  BY DEF Done, New
<1>3. \A p \in Requests : RequestFits(p)'
  BY <1>1, <1>2, Before DEF RequestFits
<1>4. \A p \in Requests : Worker(p)' <=> Worker(p)
  BY <1>1, <1>2 DEF Worker
<1>5. \A p \in Requests : WorkerFits(p)'
  BY <1>1, <1>4, Before DEF WorkerFits, transport, InTerminal, Worker
<1>6. \A c \in Clients : ClientFits(c)'
  <2> TAKE c \in Clients
  <2>1. Awaits(c[1], c)' <=> Awaits(c[1], c)
    BY <1>1, <1>2, ClientIds DEF Awaits
  <2> QED
    BY <1>1, <1>2, <2>1, Before, ClientIds DEF ClientFits, transport, InConnected
<1>7. Steered' /\ InSession'
  BY <1>4, Before DEF Steered, InSession, transport, InConnected, InReconnecting
<1>8. Step
  BY DEF Step, Session!vars, Live, transport
<1> QED
  BY <1>3, <1>5, <1>6, <1>7, <1>8 DEF IInv

(* A client other than the one a step touched, and the requests it leaves.  *)
LEMMA DestroyIs ==
  ASSUME IInv
  PROVE  /\ \A k \in Clients : k # xmpp => Destroy(xmpp)[k] = client[k]
         /\ xmpp # None => /\ Destroy(xmpp)[xmpp].phase = "gone" /\ ~Destroy(xmpp)[xmpp].doomed
                           /\ Destroy(xmpp)[xmpp].unsettled = client[xmpp].unsettled
<1>1. xmpp # None /\ client[xmpp].unsettled => Awaits(xmpp[1], xmpp)
  BY Before DEF ClientFits
<1>2. xmpp # None => client[xmpp].unsettled \in BOOLEAN
  BY Before DEF Client
<1>3. CASE xmpp = None
  BY <1>3, Before, SlotAssumption DEF Destroy, Clients
<1>4. CASE xmpp # None
  <2> DEFINE b == client[xmpp].unsettled /\ Awaits(xmpp[1], xmpp)
  <2>1. b = client[xmpp].unsettled
    BY <1>1, <1>2, <1>4
  <2> HIDE DEF b
  <2>2. Destroy(xmpp) = [client EXCEPT ![xmpp] = [Gone EXCEPT !.unsettled = b]]
    BY <1>4 DEF Destroy, b
  <2>3. /\ [Gone EXCEPT !.unsettled = b].phase = "gone" /\ [Gone EXCEPT !.unsettled = b].unsettled = b
        /\ ~[Gone EXCEPT !.unsettled = b].doomed
    BY DEF Gone
  <2> QED
    BY <1>4, <2>1, <2>2, <2>3, Before
<1> QED
  BY <1>3, <1>4

(* The worker is done, without a client that could carry a session.         *)
LEMMA Ends ==
  ASSUME IInv, TypeOK', NEW o \in Requests, Worker(o),
         request[o].pc \in {"resolving", "starting", "preparing", "failed"},
         request' = Finish(o), UNCHANGED <<credentials, wake>>, UNCHANGED transport \/ CleanupClient,
         machine'.state \notin {"connecting", "attempting"} \cup Connected,
         machine'.state \in Reconnecting => credentials,
         machine'.state = machine.state \/ machine.state \in {"connecting", "attempting", "waiting"}
  PROVE  IInv' /\ Step
<1>1. /\ request'[o] = Done /\ Done.pc = "done" /\ ~Done.cancelled /\ Done.stage = 0
      /\ \A p \in Requests : p # o => request'[p] = request[p]
  BY Before DEF Finish, Done, New
<1>2. \A p \in Requests : RequestFits(p)'
  BY <1>1, Before DEF RequestFits
<1>3. \A p \in Requests : ~Worker(p)'
  BY <1>1, Before DEF Worker, WorkerFits
<1>4. ~InConnected
  BY Before DEF WorkerFits, InConnected, Connected, InTerminal, Terminal
<1>5. \A c \in Clients : ~Live(c)
  <2> SUFFICES ASSUME NEW c \in Clients, Live(c) PROVE FALSE
    OBVIOUS
  <2>1. Worker(c[1]) /\ request[c[1]].pc = "trying" /\ c[1] \in Requests
    BY <1>4, LiveClient, ClientIds
  <2> QED
    BY <2>1, Before DEF WorkerFits
<1>6. ~recovering' /\ xmpp' \in {None, xmpp}
  <2>1. ~recovering
    BY Before DEF InSession
  <2>2. CASE UNCHANGED transport
    BY <2>1, <2>2 DEF transport
  <2>3. CASE CleanupClient
    BY <2>1, <2>3 DEF CleanupClient
  <2> QED
    BY <2>2, <2>3
<1>7. ASSUME NEW c \in Clients
      PROVE  /\ ClientFits(c)' /\ ~Live(c)'
  <2>1. /\ client'[c].unsettled <=> client[c].unsettled
        /\ ~client'[c].doomed
        /\ client'[c] = client[c] \/ client'[c].phase = "gone"
        /\ xmpp' = xmpp \/ client'[c].phase # "closed"
    <3>1. ClientFits(c)
      BY <1>7, Before
    <3>2. CASE UNCHANGED transport
      BY <3>1, <3>2 DEF transport, ClientFits
    <3>3. CASE CleanupClient /\ c # xmpp
      BY <3>1, <3>3, DestroyIs DEF CleanupClient, ClientFits
    <3>4. CASE CleanupClient /\ c = xmpp
      <4>1. c # None
        BY <1>7, ClientIds
      <4> QED
        BY <3>1, <3>4, <4>1, DestroyIs DEF CleanupClient, ClientFits
    <3> QED
      BY <3>2, <3>3, <3>4
  <2>2. Awaits(c[1], c)' <=> Awaits(c[1], c)
    BY <1>1, ClientIds DEF Awaits
  <2>3. ~Live(c)'
    BY <1>5, <2>1 DEF Live
  <2>4. client'[c].phase \notin {"handshake", "online"}
    BY <2>3 DEF Live
  <2>5. client'[c].phase = "closed" => client[c].phase = "closed"
    BY <2>1
  <2> QED
    BY <2>1, <2>2, <2>3, <2>4, <2>5, Before DEF ClientFits
<1>8. \A p \in Requests : WorkerFits(p)'
  BY <1>3 DEF WorkerFits
<1>9. Steered' /\ InSession'
  BY <1>6, Before DEF Steered, InSession, InConnected, InReconnecting, Connected
<1>10. Step
  <2>1. machine'.state \in States /\ machine.state \in States
    BY Before, MachineIsSnapshot DEF TypeOK, Machines
  <2>2. \/ StatusOf(machine'.state) = StatusOf(machine.state)
        \/ /\ StatusOf(machine.state) \in {"connecting", "reconnecting"}
           /\ StatusOf(machine'.state) \in {"error", "disconnected"}
        \/ StatusOf(machine.state) = "connecting" /\ StatusOf(machine'.state) = "reconnecting"
    BY <2>1, Statuses DEF Reconnecting, Connected
  <2> QED
    BY <1>5, <1>7, <2>2, Falls
<1> QED
  BY <1>2, <1>7, <1>8, <1>9, <1>10 DEF IInv

(* The worker opens a client; no other client can carry a session.          *)
LEMMA Tries ==
  ASSUME IInv, TypeOK', NEW o \in Requests, Worker(o),
         request[o].pc \in {"resolving", "preparing"}, NEW clients \in {client, Destroy(xmpp)},
         Try(o, 1, clients), UNCHANGED wake
  PROVE  IInv' /\ Step
<1> DEFINE c == <<o, 1>>
<1>1. c \in Clients /\ c[1] = o /\ c # None
  BY ClientIds
<1>2. /\ request' = [request EXCEPT ![o].pc = "trying", ![o].stage = 1]
      /\ UNCHANGED machine /\ credentials' = TRUE
      /\ Install(clients, c)
  BY DEF Try
<1>3. c = <<o, 1>>
  OBVIOUS
<1> HIDE DEF c
<1>4. /\ request'[o].pc = "trying" /\ request'[o].stage = 1
      /\ request'[o].cancelled = request[o].cancelled /\ request'[o].kind = request[o].kind
      /\ \A p \in Requests : p # o => request'[p] = request[p]
  BY <1>2, Before DEF Request
<1>5. RequestFits(o) /\ WorkerFits(o)
  BY Before
<1>6. /\ \/ request[o].kind = "connect" /\ machine.state = "connecting"
         \/ request[o].kind = "reconnect" /\ machine.state = "attempting"
      /\ \A p \in Requests : Worker(p) => p = o
  BY <1>5 DEF WorkerFits
<1>7. ~InConnected /\ ~InTerminal
  BY <1>6 DEF InConnected, Connected, InTerminal, Terminal
<1>8. \A k \in Clients : ~Live(k)
  <2> SUFFICES ASSUME NEW k \in Clients, Live(k) PROVE FALSE
    OBVIOUS
  <2>1. Worker(k[1]) /\ request[k[1]].pc = "trying" /\ k[1] \in Requests
    BY <1>7, LiveClient, ClientIds
  <2> QED
    BY <1>6, <2>1
<1>9. \A k \in Clients : /\ clients[k] = client[k] \/ clients[k].phase = "gone"
                         /\ clients[k].unsettled = client[k].unsettled /\ ~clients[k].doomed
  <2> TAKE k \in Clients
  <2>1. ~client[k].doomed /\ k # None
    BY Before, ClientIds DEF ClientFits
  <2> QED
    BY <2>1, DestroyIs
<1>10. /\ xmpp' = c /\ client'[c].phase = "handshake" /\ client'[c].unsettled /\ ~client'[c].doomed
       /\ \A k \in Clients : k # c => client'[k] = IF clients[k].phase = "closed" THEN Gone ELSE clients[k]
  BY <1>1, <1>2 DEF Install
<1>11. /\ \A p \in Requests : RequestFits(p)'
       /\ \A p \in Requests : Worker(p)' <=> Worker(p)
  <2>1. \A p \in Requests : p # o => RequestFits(p)' /\ (Worker(p)' <=> Worker(p))
    BY <1>4, Before DEF RequestFits, Worker
  <2>2. RequestFits(o)' /\ Worker(o)'
    BY <1>4, Before DEF RequestFits, Worker
  <2> QED
    BY <2>1, <2>2
<1>12. \A p \in Requests : WorkerFits(p)'
  <2>1. WorkerFits(o)'
    BY <1>2, <1>3, <1>4, <1>6, <1>10, <1>11 DEF WorkerFits
  <2>2. \A p \in Requests : p # o => ~Worker(p)'
    BY <1>6, <1>11
  <2> QED
    BY <2>1, <2>2 DEF WorkerFits
<1>13. ASSUME NEW k \in Clients PROVE ClientFits(k)' /\ (Live(k)' => k = c)
  <2>1. CASE k = c
    <3>1. Awaits(c[1], c)'
      BY <1>1, <1>3, <1>4 DEF Awaits
    <3>2. ~request'[c[1]].cancelled
      BY <1>1, <1>4 DEF Worker
    <3> QED
      BY <1>10, <2>1, <3>1, <3>2 DEF ClientFits
  <2>2. CASE k # c
    <3>1. k[1] \in Requests /\ k = <<k[1], k[2]>> /\ k[2] \in {1, 2}
      BY ClientIds
    <3>2. ClientFits(k) /\ client[k].phase \notin {"handshake", "online"}
      BY <1>8, Before DEF Live
    <3>3. client'[k].phase \notin {"handshake", "online", "closed"}
      BY <1>9, <1>10, <2>2, <3>2 DEF Gone
    <3>4. ~client'[k].doomed
      BY <1>9, <1>10, <2>2 DEF Gone
    <3>5. client'[k].unsettled <=> client[k].unsettled
      <4>1. clients[k].phase = "closed" => ~client[k].unsettled
        BY <1>9, <3>2 DEF ClientFits
      <4>2. client[k].unsettled \in BOOLEAN
        BY Before DEF Client
      <4> QED
        BY <1>9, <1>10, <2>2, <4>1, <4>2 DEF Gone
    <3>6. Awaits(k[1], k)' <=> Awaits(k[1], k)
      <4>1. CASE k[1] # o
        BY <1>4, <3>1, <4>1 DEF Awaits
      <4>2. CASE k[1] = o
        BY <1>3, <1>4, <2>2, <3>1, <4>2 DEF Awaits
      <4> QED
        BY <4>1, <4>2
    <3>7. client[k].unsettled => client'[k].phase = "gone"
      <4>1. client[k].unsettled => client[k].phase = "gone"
        BY <3>2 DEF ClientFits
      <4> QED
        BY <1>9, <1>10, <2>2, <4>1
    <3> QED
      BY <2>2, <3>2, <3>3, <3>4, <3>5, <3>6, <3>7 DEF ClientFits, Live
  <2> QED
    BY <2>1, <2>2
<1>14. Steered' /\ InSession'
  <2>1. ~recovering'
    BY Before DEF Try, InSession
  <2>2. Steered'
    BY <1>11, Before DEF Worker, Steered
  <2> QED
    BY <1>2, <1>7, <2>1, <2>2, Before DEF InSession, InConnected, InReconnecting
<1>15. Step
  <2>1. {k \in Clients : Live(k)} = {} /\ {k \in Clients : Live(k)}' = {c}
    <3>1. Live(c)'
      BY <1>10 DEF Live
    <3> QED
      BY <1>1, <1>8, <1>13, <3>1
  <2>2. machine.state \in States /\ StatusOf(machine.state) \in {"connecting", "reconnecting"}
    BY <1>6, Before, Statuses DEF Reconnecting
  <2> QED
    BY <1>1, <1>2, <2>1, <2>2 DEF Step, Session!Next, Session!Open
<1> QED
  BY <1>11, <1>12, <1>13, <1>14, <1>15 DEF IInv

\* The client of the only worker, while it is tried.
Trying(o) == Worker(o) /\ request[o].pc = "trying"

\* The client of the only worker is the only one that may carry a session.
LEMMA TriedClient ==
  ASSUME IInv, NEW o \in Requests, Trying(o)
  PROVE  /\ <<o, 1>> \in Clients /\ <<o, 1>>[1] = o /\ xmpp = <<o, 1>> /\ Awaits(o, <<o, 1>>)
         /\ client[<<o, 1>>].phase = "handshake" /\ client[<<o, 1>>].unsettled
         /\ \A k \in Clients : k # <<o, 1>> => /\ ~Live(k) /\ client[k].phase # "closed"
                                              /\ ~(Awaits(k[1], k) /\ k[1] = o)
         /\ \A p \in Requests : Worker(p) => p = o
         /\ \/ request[o].kind = "connect" /\ machine.state = "connecting"
            \/ request[o].kind = "reconnect" /\ machine.state = "attempting"
         /\ credentials /\ ~InConnected /\ ~InTerminal
<1>1. <<o, 1>> \in Clients /\ <<o, 1>>[1] = o
  BY ClientIds
<1>2. WorkerFits(o) /\ RequestFits(o) /\ ClientFits(<<o, 1>>)
  BY <1>1, Before
<1>3. client[<<o, 1>>].phase = "handshake" /\ Awaits(o, <<o, 1>>) /\ request[o].stage = 1
  BY <1>2 DEF WorkerFits, RequestFits, Trying, Awaits
<1>4. xmpp = <<o, 1>> /\ client[<<o, 1>>].unsettled
  BY <1>1, <1>2, <1>3 DEF ClientFits
<1>5. /\ \/ request[o].kind = "connect" /\ machine.state = "connecting"
         \/ request[o].kind = "reconnect" /\ machine.state = "attempting"
      /\ \A p \in Requests : Worker(p) => p = o
  BY <1>2 DEF WorkerFits, Trying
<1>6. ~InConnected /\ ~InTerminal
  BY <1>5 DEF InConnected, Connected, InTerminal, Terminal
<1>7. credentials
  BY <1>2, <1>6 DEF WorkerFits, Trying
<1>8. \A k \in Clients : k # <<o, 1>> => /\ ~Live(k) /\ client[k].phase # "closed"
                                        /\ ~(Awaits(k[1], k) /\ k[1] = o)
  <2> TAKE k \in Clients
  <2>1. ClientFits(k)
    BY Before
  <2> QED
    BY <1>3, <1>4, <2>1 DEF ClientFits, Live, Awaits
<1> QED
  BY <1>1, <1>3, <1>4, <1>5, <1>6, <1>7, <1>8

(* The attempt on the worker's client is over: its request has failed and   *)
(* is due, and its client no longer carries a session.                      *)
LEMMA Fails ==
  ASSUME IInv, TypeOK', NEW o \in Requests, Trying(o), NEW e \in Errors, e # "superseded",
         request' = [request EXCEPT ![o].pc = "failed", ![o].error = e],
         \A k \in Clients : k # <<o, 1>> => client'[k] = client[k],
         ~client'[<<o, 1>>].unsettled, ~client'[<<o, 1>>].doomed,
         client'[<<o, 1>>].phase \in {"gone", "closing", "closed"},
         \/ xmpp' = xmpp
         \/ xmpp' = None /\ client'[<<o, 1>>].phase # "closed",
         \/ machine'.state = machine.state /\ UNCHANGED credentials
         \/ machine'.state \in Terminal
         \/ machine'.state = "waiting" /\ machine.state = "attempting" /\ UNCHANGED credentials,
         ~recovering', UNCHANGED wake
  PROVE  IInv' /\ Step
<1> DEFINE c == <<o, 1>>
<1>1. /\ c \in Clients /\ c[1] = o /\ xmpp = c /\ c = <<o, 1>>
      /\ \A k \in Clients : k # c => /\ ~Live(k) /\ client[k].phase # "closed"
                                     /\ ~(Awaits(k[1], k) /\ k[1] = o)
  BY TriedClient
<1>2. /\ \A p \in Requests : Worker(p) => p = o
      /\ \/ request[o].kind = "connect" /\ machine.state = "connecting"
         \/ request[o].kind = "reconnect" /\ machine.state = "attempting"
      /\ credentials /\ ~InConnected /\ ~InTerminal
  BY TriedClient
<1>3. /\ request'[o].pc = "failed" /\ request'[o].error = e
      /\ request'[o].cancelled = request[o].cancelled /\ request'[o].kind = request[o].kind
      /\ request'[o].stage = request[o].stage
      /\ \A p \in Requests : p # o => request'[p] = request[p]
  BY Before DEF Request
<1>4. /\ \A k \in Clients : k # c => client'[k] = client[k]
      /\ ~client'[c].unsettled /\ ~client'[c].doomed
      /\ client'[c].phase \in {"gone", "closing", "closed"}
      /\ \/ xmpp' = c
         \/ xmpp' = None /\ client'[c].phase # "closed"
  BY <1>1
<1> HIDE DEF c
<1>5. request[o].stage = 1 /\ ~request[o].cancelled
  BY Before DEF RequestFits, Trying, Worker
<1>6. \A p \in Requests : RequestFits(p)'
  <2>1. \A p \in Requests : p # o => RequestFits(p)'
    BY <1>3, Before DEF RequestFits
  <2>2. RequestFits(o)'
    BY <1>3 DEF RequestFits
  <2> QED
    BY <2>1, <2>2
<1>7. \A p \in Requests : Worker(p)' <=> p = o
  <2>1. Worker(o)'
    BY <1>3, <1>5 DEF Worker
  <2>2. \A p \in Requests : p # o => ~Worker(p)'
    BY <1>2, <1>3 DEF Worker
  <2> QED
    BY <2>1, <2>2
<1>8. \/ machine'.state = machine.state /\ credentials'
      \/ machine'.state \in Terminal
      \/ machine'.state = "waiting" /\ request[o].kind = "reconnect" /\ credentials'
  BY <1>2
<1>9. \A p \in Requests : WorkerFits(p)'
  <2>1. WorkerFits(o)'
    BY <1>1, <1>2, <1>3, <1>4, <1>5, <1>7, <1>8 DEF WorkerFits, InTerminal
  <2> QED
    BY <1>7, <2>1 DEF WorkerFits
<1>10. ~InConnected'
  BY <1>2, <1>8 DEF InConnected, Connected, Terminal
<1>11. ASSUME NEW k \in Clients PROVE ClientFits(k)' /\ ~Live(k)'
  <2>1. CASE k = c
    <3>1. ~Awaits(c[1], c)'
      BY <1>1, <1>3 DEF Awaits
    <3> QED
      BY <1>4, <2>1, <3>1 DEF ClientFits, Live
  <2>2. CASE k # c
    <3>1. Awaits(k[1], k)' <=> Awaits(k[1], k)
      BY <1>1, <1>3, <2>2, ClientIds DEF Awaits
    <3>2. ClientFits(k) /\ ~Live(k) /\ client[k].phase # "closed" /\ client'[k] = client[k]
      BY <1>1, <1>4, <2>2, Before
    <3> QED
      BY <3>1, <3>2 DEF ClientFits, Live
  <2> QED
    BY <2>1, <2>2
<1>12. Steered' /\ InSession'
  <2>1. Steered'
    BY <1>7 DEF Steered
  <2>2. machine'.state # "verifying"
    BY <1>8, Before DEF InSession, Terminal
  <2>3. InReconnecting' => credentials'
    BY <1>8 DEF InReconnecting, Reconnecting, Terminal
  <2> QED
    BY <1>10, <2>1, <2>2, <2>3, Before DEF InSession
<1>13. Step
  <2>1. machine.state \in States /\ machine'.state \in States
    BY Before, MachineIsSnapshot DEF TypeOK, Machines
  <2>2. StatusOf(machine.state) \in {"connecting", "reconnecting"}
    BY <1>2, <2>1, Statuses DEF Reconnecting
  <2>3. \/ StatusOf(machine'.state) = StatusOf(machine.state) \/ StatusOf(machine'.state) = "error"
    BY <1>2, <1>8, <2>1, Statuses DEF Reconnecting
  <2> QED
    BY <1>11, <2>2, <2>3, Falls
<1> QED
  BY <1>6, <1>9, <1>11, <1>12, <1>13 DEF IInv

(* The worker's client is online: the request greets the server.            *)
LEMMA Connects ==
  ASSUME IInv, TypeOK', NEW o \in Requests, Trying(o),
         request' = [request EXCEPT ![o].pc = "greeting"],
         client' = Settle(client, <<o, 1>>, "online"),
         machine'.state = "healthy", UNCHANGED <<xmpp, recovering, credentials, wake>>
  PROVE  IInv' /\ Step
<1> DEFINE c == <<o, 1>>
<1>1. /\ c \in Clients /\ c[1] = o /\ xmpp = c /\ c = <<o, 1>>
      /\ client[c].phase = "handshake" /\ client[c].unsettled
      /\ \A k \in Clients : k # c => /\ ~Live(k) /\ client[k].phase # "closed"
                                     /\ ~(Awaits(k[1], k) /\ k[1] = o)
  BY TriedClient
<1>2. /\ \A p \in Requests : Worker(p) => p = o
      /\ machine.state \in {"connecting", "attempting"} /\ credentials
  BY TriedClient
<1>3. client' = Settle(client, c, "online")
  OBVIOUS
<1> HIDE DEF c
<1>4. /\ request'[o].pc = "greeting"
      /\ \A p \in Requests : p # o => request'[p] = request[p]
  BY Before DEF Request
<1>5. /\ \A k \in Clients : k # c => client'[k] = client[k]
      /\ ~client'[c].unsettled /\ client'[c].phase = "online" /\ client'[c].doomed = client[c].doomed
  BY <1>1, <1>3, Before DEF Settle, Client
<1>6. \A p \in Requests : RequestFits(p)' /\ ~Worker(p)'
  <2>1. \A p \in Requests : p # o => RequestFits(p)' /\ ~Worker(p)'
    BY <1>2, <1>4, Before DEF RequestFits, Worker
  <2>2. RequestFits(o)' /\ ~Worker(o)'
    BY <1>4 DEF RequestFits, Worker
  <2> QED
    BY <2>1, <2>2
<1>7. InConnected'
  BY DEF InConnected, Connected
<1>8. ASSUME NEW k \in Clients PROVE ClientFits(k)' /\ (Live(k)' <=> k = c)
  <2>1. CASE k = c
    <3>1. ~Awaits(c[1], c)'
      BY <1>1, <1>4 DEF Awaits
    <3>2. ~client[c].doomed
      BY <1>1, Before DEF ClientFits
    <3> QED
      BY <1>1, <1>5, <1>7, <2>1, <3>1, <3>2 DEF ClientFits, Live
  <2>2. CASE k # c
    <3>1. Awaits(k[1], k)' <=> Awaits(k[1], k)
      BY <1>1, <1>4, <2>2, ClientIds DEF Awaits
    <3>2. ClientFits(k) /\ ~Live(k) /\ client[k].phase # "closed" /\ client'[k] = client[k]
      BY <1>1, <1>5, <2>2, Before
    <3> QED
      BY <2>2, <3>1, <3>2 DEF ClientFits, Live
  <2> QED
    BY <2>1, <2>2
<1>9. Steered' /\ InSession'
  BY <1>1, <1>2, <1>5, <1>7, Before, ClientIds DEF Steered, InSession
<1>10. Step
  <2>1. {k \in Clients : Live(k)} = {c} /\ {k \in Clients : Live(k)}' = {c}
    BY <1>1, <1>8 DEF Live
  <2>2. StatusOf(machine.state) \in {"connecting", "reconnecting"}
    BY <1>2, Before, Statuses DEF Reconnecting
  <2>3. StatusOf(machine'.state) = "online"
    BY Statuses DEF Connected, States
  <2> QED
    BY <2>1, <2>2, <2>3 DEF Step, Session!Next, Session!Establish
<1> QED
  BY <1>6, <1>8, <1>9, <1>10 DEF IInv, WorkerFits

\* What Handle makes of the requests when nothing else touches them.
Entered == \/ machine'.state # "attempting" /\ request' = request
           \/ /\ machine'.state = "attempting"
              /\ \E o \in Requests :
                    Free(o) /\ request' = [request EXCEPT ![o] = New("reconnect", "starting")]

(* Entering attempting from a state without a worker makes one.             *)
LEMMA Starts ==
  ASSUME IInv, Quiet, machine.state \notin {"connecting", "attempting"}, Entered,
         machine'.state # "connecting"
  PROVE  /\ \A p \in Requests : RequestFits(p)' /\ WorkerFits(p)'
         /\ \A k \in Clients : /\ ~client[k].unsettled => ~Awaits(k[1], k)'
                               /\ client[k].unsettled => Awaits(k[1], k)'
         /\ Steered'
<1>1. \A p \in Requests : ~Worker(p)
  BY NoWorker
<1>2. \A k \in Clients : client[k].unsettled <=> Awaits(k[1], k)
  BY Before DEF ClientFits
<1>3. CASE machine'.state # "attempting" /\ request' = request
  <2>1. \A p \in Requests : RequestFits(p)' /\ ~Worker(p)'
    BY <1>1, <1>3, Before DEF RequestFits, Worker
  <2> QED
    BY <1>2, <1>3, <2>1 DEF WorkerFits, Steered, Awaits
<1>4. ASSUME NEW o \in Requests, Free(o), machine'.state = "attempting",
             request' = [request EXCEPT ![o] = New("reconnect", "starting")]
      PROVE  /\ \A p \in Requests : RequestFits(p)' /\ WorkerFits(p)'
             /\ \A k \in Clients : /\ ~client[k].unsettled => ~Awaits(k[1], k)'
                                   /\ client[k].unsettled => Awaits(k[1], k)'
             /\ Steered'
  <2>1. /\ request'[o].pc = "starting" /\ request'[o].kind = "reconnect" /\ ~request'[o].cancelled
        /\ \A p \in Requests : p # o => request'[p] = request[p]
    BY <1>4, Before DEF New
  <2>2. request[o].pc = "done"
    BY <1>4 DEF Free
  <2>3. \A p \in Requests : RequestFits(p)' /\ (Worker(p)' <=> p = o)
    <3>1. RequestFits(o)' /\ Worker(o)'
      BY <2>1 DEF RequestFits, Worker
    <3>2. \A p \in Requests : p # o => RequestFits(p)' /\ ~Worker(p)'
      BY <1>1, <2>1, Before DEF RequestFits, Worker
    <3> QED
      BY <3>1, <3>2
  <2>4. \A k \in Clients : Awaits(k[1], k)' <=> Awaits(k[1], k)
    BY <2>1, <2>2, ClientIds DEF Awaits
  <2>5. WorkerFits(o)'
    BY <1>4, <2>1, <2>3 DEF WorkerFits
  <2>6. \A p \in Requests : WorkerFits(p)'
    BY <2>3, <2>5 DEF WorkerFits
  <2>7. Steered'
    BY <2>3 DEF Steered
  <2> QED
    BY <1>2, <2>3, <2>4, <2>6, <2>7
<1> QED
  BY <1>3, <1>4 DEF Entered

(* The machine moves among the states of a session, or among those of a     *)
(* reconnection, and no client is touched.                                  *)
LEMMA Waits ==
  ASSUME IInv, TypeOK', Quiet, machine.state \notin {"connecting", "attempting"}, Entered,
         UNCHANGED <<transport, credentials, wake>>,
         \/ machine'.state = machine.state
         \/ InConnected /\ machine'.state \in Connected \ {"verifying"}
         \/ InReconnecting /\ machine'.state \in Reconnecting
  PROVE  IInv' /\ Step
<1>1. /\ InConnected' <=> InConnected
      /\ InReconnecting' <=> InReconnecting
      /\ machine'.state \notin {"connecting", "verifying"}
  BY Before DEF InConnected, InReconnecting, Connected, Reconnecting, InSession
<1>2. ~recovering' /\ UNCHANGED <<xmpp, client>>
  BY Before DEF InSession, transport
<1>3. \A k \in Clients : ~(client[k].phase = "handshake")
  <2> SUFFICES ASSUME NEW k \in Clients, client[k].phase = "handshake" PROVE FALSE
    OBVIOUS
  <2>1. Live(k) /\ k[1] \in Requests
    BY ClientIds DEF Live
  <2>2. Worker(k[1])
    BY <2>1, LiveClient
  <2> QED
    BY <2>1, <2>2, NoWorker
<1>4. \A k \in Clients : ClientFits(k)'
  <2> TAKE k \in Clients
  <2>1. ClientFits(k) /\ client[k].unsettled \in BOOLEAN
    BY Before DEF Client
  <2>2. client[k].unsettled <=> Awaits(k[1], k)'
    BY <1>1, Starts, <2>1
  <2> QED
    BY <1>1, <1>2, <1>3, <2>1, <2>2 DEF ClientFits
<1>5. InSession'
  BY <1>1, <1>2, Before DEF InSession
<1>6. Step
  <2>1. StatusOf(machine'.state) = StatusOf(machine.state)
    <3>1. machine.state \in States /\ machine'.state \in States
      BY Before, MachineIsSnapshot DEF TypeOK, Machines
    <3> QED
      BY <3>1, Statuses DEF InConnected, InReconnecting
  <2>2. {k \in Clients : Live(k)}' = {k \in Clients : Live(k)}
    BY <1>2 DEF Live
  <2> QED
    BY <2>1, <2>2 DEF Step, Session!vars
<1> QED
  BY <1>1, <1>4, <1>5, <1>6, Starts DEF IInv

(* The session is lost: its client no longer carries one.                   *)
LEMMA Loses ==
  ASSUME IInv, TypeOK', Quiet, InConnected, Entered,
         \/ machine'.state \in {"waiting", "attempting"} /\ UNCHANGED credentials
         \/ machine'.state \in Terminal,
         \A k \in Clients : k # xmpp => client'[k] = client[k],
         ~client'[xmpp].unsettled, ~client'[xmpp].doomed, client'[xmpp].phase \in {"gone", "closing"},
         xmpp' \in {None, xmpp}, ~recovering', UNCHANGED wake
  PROVE  IInv' /\ Step
<1>1. xmpp \in Clients /\ client[xmpp].phase = "online"
  BY Before DEF InSession
<1>2. machine.state \notin {"connecting", "attempting"} /\ machine'.state # "connecting"
  BY DEF InConnected, Connected, Terminal
<1>3. ~client[xmpp].unsettled
  BY <1>1, LiveClient DEF Live
<1>4. ASSUME NEW k \in Clients PROVE ClientFits(k)' /\ ~Live(k)'
  <2>1. ClientFits(k) /\ client[k].unsettled \in BOOLEAN
    BY Before DEF Client
  <2>2. client[k].unsettled <=> Awaits(k[1], k)'
    BY <1>2, <2>1, Starts
  <2>3. CASE k = xmpp
    BY <1>3, <2>2, <2>3 DEF ClientFits, Live
  <2>4. CASE k # xmpp
    BY <2>1, <2>2, <2>4 DEF ClientFits, Live
  <2> QED
    BY <2>3, <2>4
<1>5. InSession'
  <2>1. ~InConnected' /\ machine'.state # "verifying"
    BY DEF InConnected, Connected, Terminal
  <2>2. credentials /\ InSession
    BY Before DEF InSession
  <2>3. InReconnecting' => credentials'
    BY <2>2 DEF InReconnecting, Reconnecting, Terminal
  <2> QED
    BY <2>1, <2>2, <2>3 DEF InSession
<1>6. Step
  <2>1. machine.state \in States /\ machine'.state \in States
    BY Before, MachineIsSnapshot DEF TypeOK, Machines
  <2>2. StatusOf(machine.state) = "online" /\ StatusOf(machine'.state) \in {"reconnecting", "error"}
    BY <2>1, Statuses DEF InConnected, Reconnecting
  <2> QED
    BY <1>4, <2>2, Falls
<1> QED
  BY <1>2, <1>4, <1>5, <1>6, Starts DEF IInv

(* disconnect(): everything in flight is cancelled.                         *)
LEMMA Disconnects ==
  ASSUME IInv, TypeOK', Quiet,
         request' = [o \in Requests |-> IF request[o].pc = "done" THEN request[o]
                                        ELSE [request[o] EXCEPT !.cancelled = TRUE]],
         machine'.state = IF machine.state \in Stoppable THEN "disconnected" ELSE machine.state,
         xmpp' = None, client' = Destroy(xmpp), UNCHANGED <<recovering, wake>>
  PROVE  IInv' /\ Step
<1>1. machine.state \in States /\ machine'.state \in States
  BY Before, MachineIsSnapshot DEF TypeOK, Machines
<1>2. machine'.state \notin Stoppable /\ machine'.state # "verifying"
  BY DEF Stoppable, Connected, Reconnecting
<1>3. \A p \in Requests : /\ request'[p].pc = request[p].pc /\ request'[p].stage = request[p].stage
                          /\ request'[p].kind = request[p].kind
                          /\ request[p].pc = "done" => request'[p] = request[p]
                          /\ request[p].pc # "done" => request'[p].cancelled
  BY Before DEF Request
<1>4. \A p \in Requests : ~Worker(p)'
  BY <1>3 DEF Worker
<1>5. \A p \in Requests : RequestFits(p)' /\ WorkerFits(p)'
  <2> TAKE p \in Requests
  <2>1. RequestFits(p) /\ request[p].pc # "starting"
    BY Before DEF Quiet, Pending
  <2> QED
    BY <1>3, <1>4, <2>1 DEF RequestFits, WorkerFits
<1>6. ASSUME NEW k \in Clients PROVE ClientFits(k)' /\ ~Live(k)'
  <2>1. ClientFits(k) /\ client[k].unsettled \in BOOLEAN /\ k # None
    BY Before, ClientIds DEF Client
  <2>2. Awaits(k[1], k)' <=> Awaits(k[1], k)
    BY <1>3, ClientIds DEF Awaits
  <2>3. CASE k = xmpp
    <3>1. client'[k].phase = "gone" /\ ~client'[k].doomed /\ client'[k].unsettled = client[k].unsettled
      BY <2>1, <2>3, DestroyIs
    <3> QED
      BY <2>1, <2>2, <3>1 DEF ClientFits, Live
  <2>4. CASE k # xmpp
    <3>1. client'[k] = client[k] /\ client[k].phase \notin {"handshake", "online", "closed"}
      BY <2>1, <2>4, DestroyIs DEF ClientFits
    <3> QED
      BY <2>1, <2>2, <3>1 DEF ClientFits, Live
  <2> QED
    BY <2>3, <2>4
<1>7. Steered' /\ InSession'
  <2>1. ~InConnected' /\ ~InReconnecting' /\ machine'.state \notin {"connecting", "attempting"}
    BY <1>2 DEF Stoppable, InConnected, InReconnecting, Reconnecting
  <2>2. ~recovering /\ wake = AtRest
    BY Before DEF InSession
  <2> QED
    BY <1>2, <2>1, <2>2 DEF Steered, InSession
<1>8. Step
  <2>1. CASE machine.state \in Stoppable
    <3>1. StatusOf(machine.state) \in {"connecting", "online", "reconnecting"}
      BY <1>1, <2>1, Statuses DEF Stoppable
    <3>2. StatusOf(machine'.state) = "disconnected"
      BY <1>1, <2>1, Statuses
    <3> QED
      BY <1>6, <3>1, <3>2, Falls
  <2>2. CASE machine.state \notin Stoppable
    <3>1. machine'.state = machine.state
      BY <2>2
    <3>2. \A k \in Clients : ~Live(k)
      <4> SUFFICES ASSUME NEW k \in Clients, Live(k) PROVE FALSE
        OBVIOUS
      <4> QED
        BY <2>2, LiveClient DEF Stoppable, InConnected, Reconnecting
    <3> QED
      BY <1>6, <3>1, <3>2, Falls
  <2> QED
    BY <2>1, <2>2
<1> QED
  BY <1>5, <1>6, <1>7, <1>8 DEF IInv

(* connect() is called: it has yet to look at the machine.                  *)
LEMMA Calls ==
  ASSUME IInv, TypeOK', NEW o \in Requests, Free(o),
         request' = [request EXCEPT ![o] = New("connect", "requested")],
         UNCHANGED <<machine, transport, credentials, wake>>
  PROVE  IInv' /\ Step
<1>1. /\ request'[o].pc = "requested" /\ request'[o].kind = "connect"
      /\ \A p \in Requests : p # o => request'[p] = request[p]
  BY Before DEF New
<1>2. request[o].pc = "done"
  BY DEF Free
<1>3. \A p \in Requests : RequestFits(p)' /\ (Worker(p)' <=> Worker(p))
  <2>1. RequestFits(o)' /\ ~Worker(o)' /\ ~Worker(o)
    BY <1>1, <1>2 DEF RequestFits, Worker
  <2>2. \A p \in Requests : p # o => RequestFits(p)' /\ (Worker(p)' <=> Worker(p))
    BY <1>1, Before DEF RequestFits, Worker
  <2> QED
    BY <2>1, <2>2
<1>4. \A p \in Requests : WorkerFits(p)'
  <2> SUFFICES ASSUME NEW p \in Requests, Worker(p)' PROVE WorkerFits(p)'
    BY DEF WorkerFits
  <2>1. Worker(p) /\ p # o /\ WorkerFits(p)
    BY <1>2, <1>3, Before DEF Worker
  <2>2. request'[p] = request[p]
    BY <1>1, <2>1
  <2> QED
    BY <1>3, <2>1, <2>2 DEF WorkerFits, transport, InTerminal
<1>5. \A k \in Clients : ClientFits(k)'
  <2> TAKE k \in Clients
  <2>1. Awaits(k[1], k)' <=> Awaits(k[1], k)
    BY <1>1, <1>2, ClientIds DEF Awaits
  <2>2. client[k].unsettled => k[1] # o
    BY <1>2, Before DEF ClientFits, Awaits
  <2> QED
    BY <1>1, <2>1, <2>2, Before, ClientIds DEF ClientFits, transport, InConnected
<1>6. Steered' /\ InSession'
  BY <1>3, Before DEF Steered, InSession, transport, InConnected, InReconnecting
<1>7. Step
  BY DEF Step, Session!vars, Live, transport
<1> QED
  BY <1>3, <1>4, <1>5, <1>6, <1>7 DEF IInv

(* connect() looks: the machine is idle, stopped or terminal, and moves.    *)
LEMMA Begins ==
  ASSUME IInv, TypeOK', Quiet, NEW o \in Requests, request[o].pc = "requested",
         ~request[o].cancelled, machine.state \notin Stoppable, machine'.state = "connecting",
         request' = Move(o, "resolving"), UNCHANGED <<transport, credentials, wake>>
  PROVE  IInv' /\ Step
<1>1. /\ request'[o].pc = "resolving" /\ request'[o].kind = request[o].kind
      /\ request'[o].cancelled = request[o].cancelled
      /\ \A p \in Requests : p # o => request'[p] = request[p]
  BY Before DEF Move, Request
<1>2. machine.state \notin {"connecting", "attempting"} /\ ~InConnected /\ ~InReconnecting
  BY DEF Stoppable, Reconnecting, InConnected, InReconnecting
<1>3. RequestFits(o) /\ request[o].kind = "connect"
  BY Before DEF RequestFits
<1>4. \A p \in Requests : RequestFits(p)' /\ (Worker(p)' <=> p = o)
  <2>1. RequestFits(o)' /\ Worker(o)'
    BY <1>1, <1>3 DEF RequestFits, Worker
  <2>2. \A p \in Requests : p # o => RequestFits(p)' /\ ~Worker(p)'
    BY <1>1, <1>2, NoWorker, Before DEF RequestFits, Worker
  <2> QED
    BY <2>1, <2>2
<1>5. \A p \in Requests : WorkerFits(p)'
  <2>1. WorkerFits(o)'
    BY <1>1, <1>3, <1>4 DEF WorkerFits
  <2> QED
    BY <1>4, <2>1 DEF WorkerFits
<1>6. ~InConnected' /\ ~InReconnecting' /\ machine'.state # "verifying"
  BY DEF InConnected, Connected, InReconnecting, Reconnecting
<1>7. \A k \in Clients : ClientFits(k)' /\ ~Live(k) /\ ~Live(k)'
  <2> TAKE k \in Clients
  <2>1. ~Live(k)
    BY <1>2, LiveClient
  <2>2. Awaits(k[1], k)' <=> Awaits(k[1], k)
    BY <1>1, ClientIds DEF Awaits
  <2>3. ClientFits(k) /\ client[k].unsettled \in BOOLEAN
    BY Before DEF Client
  <2> QED
    BY <2>1, <2>2, <2>3 DEF ClientFits, Live, transport
<1>8. Steered' /\ InSession'
  BY <1>4, <1>6, Before DEF Steered, InSession, transport
<1>9. Step
  <2>1. machine.state \in States /\ machine'.state \in States
    BY Before, MachineIsSnapshot DEF TypeOK, Machines
  <2>2. StatusOf(machine.state) \in {"disconnected", "error"} /\ StatusOf(machine'.state) = "connecting"
    BY <2>1, Statuses DEF Stoppable
  <2> QED
    BY <1>7, <2>2, Falls
<1> QED
  BY <1>4, <1>5, <1>7, <1>8, <1>9 DEF IInv

(* A client that carries nothing any more ends; so does, if one waited for  *)
(* it, a cancelled request's promise.                                       *)
LEMMA Fades ==
  ASSUME IInv, TypeOK', NEW c \in Clients, ~Live(c),
         \A k \in Clients : k # c => client'[k] = client[k],
         ~client'[c].unsettled, ~client'[c].doomed,
         client'[c].phase \in {"gone", "closing", "closed"}, client'[c].phase = "closed" => c = xmpp',
         \/ xmpp' = xmpp
         \/ xmpp = c /\ xmpp' = None,
         NEW e \in Errors, request' = Rejected(c, e),
         UNCHANGED <<machine, wake>>, ~recovering',
         UNCHANGED credentials \/ InTerminal
  PROVE  IInv' /\ Step
<1>1. ClientFits(c) /\ c[1] \in Requests /\ c = <<c[1], c[2]>> /\ client[c].unsettled \in BOOLEAN
  BY Before, ClientIds DEF Client
<1>2. \A p \in Requests : Awaits(p, c) => p = c[1]
  BY <1>1 DEF Awaits
<1>3. client[c].unsettled => request[c[1]].cancelled /\ request[c[1]].pc = "trying"
  <2> SUFFICES ASSUME client[c].unsettled, ~request[c[1]].cancelled PROVE FALSE
    BY <1>1 DEF ClientFits, Awaits
  <2>1. request[c[1]].pc = "trying" /\ c = <<c[1], request[c[1]].stage>>
    BY <1>1 DEF ClientFits, Awaits
  <2>2. request[c[1]].stage = 1 /\ WorkerFits(c[1])
    BY <1>1, <2>1, Before DEF RequestFits
  <2>3. client[c].phase = "handshake"
    BY <2>1, <2>2 DEF WorkerFits, Worker
  <2> QED
    BY <2>3 DEF Live
<1>4. \A p \in Requests :
         \/ request'[p] = request[p] /\ (p = c[1] => ~Awaits(p, c))
         \/ /\ p = c[1] /\ client[c].unsettled
            /\ request[p].cancelled /\ request'[p].cancelled = request[p].cancelled
            /\ request[p].pc = "trying" /\ request'[p].pc = "failed"
  <2> TAKE p \in Requests
  <2>1. CASE client[c].unsettled /\ Awaits(p, c)
    <3>1. p = c[1] /\ request'[p] = [request[p] EXCEPT !.pc = "failed", !.error = e]
      BY <1>2, <2>1 DEF Rejected
    <3>2. request[p] \in Request
      BY Before
    <3> QED
      BY <1>3, <2>1, <3>1, <3>2 DEF Request
  <2>2. CASE ~(client[c].unsettled /\ Awaits(p, c))
    <3>1. request'[p] = request[p]
      BY <2>2 DEF Rejected
    <3> QED
      BY <1>1, <2>2, <3>1 DEF ClientFits
  <2> QED
    BY <2>1, <2>2
<1>5. \A p \in Requests : RequestFits(p)' /\ (Worker(p)' <=> Worker(p))
                         /\ (Worker(p) => request'[p] = request[p])
  <2> TAKE p \in Requests
  <2>1. RequestFits(p)
    BY Before
  <2> QED
    BY <1>4, <2>1 DEF RequestFits, Worker
<1>6. \A p \in Requests : WorkerFits(p)'
  <2> SUFFICES ASSUME NEW p \in Requests, Worker(p)' PROVE WorkerFits(p)'
    BY DEF WorkerFits
  <2>1. Worker(p) /\ WorkerFits(p) /\ request'[p] = request[p]
    BY <1>5, Before
  <2>2. request[p].pc = "trying" => <<p, 1>> # c
    BY <2>1 DEF WorkerFits, Live
  <2>3. <<p, 1>> \in Clients
    BY ClientIds
  <2> QED
    BY <1>5, <2>1, <2>2, <2>3 DEF WorkerFits, InTerminal
<1>7. \A k \in Clients : ClientFits(k)' /\ (Live(k)' <=> Live(k))
  <2> TAKE k \in Clients
  <2>1. CASE k = c
    <3>1. ~Awaits(c[1], c)'
      BY <1>1, <1>4 DEF Awaits
    <3> QED
      BY <2>1, <3>1 DEF ClientFits, Live
  <2>2. CASE k # c
    <3>1. ClientFits(k) /\ client[k].unsettled \in BOOLEAN /\ k[1] \in Requests /\ k = <<k[1], k[2]>>
      BY Before, ClientIds DEF Client
    <3>2. Awaits(k[1], k)' <=> Awaits(k[1], k)
      <4>1. CASE request'[k[1]] = request[k[1]]
        BY <4>1 DEF Awaits
      <4>2. CASE k[1] = c[1] /\ client[c].unsettled /\ request'[k[1]].pc = "failed"
        <5>1. c = <<c[1], request[c[1]].stage>>
          BY <1>1, <4>2 DEF ClientFits, Awaits
        <5> QED
          BY <2>2, <4>2, <5>1 DEF Awaits
      <4> QED
        BY <1>4, <3>1, <4>1, <4>2
    <3>3. request'[k[1]].cancelled = request[k[1]].cancelled
      BY <1>4, <3>1
    <3> QED
      BY <2>2, <3>1, <3>2, <3>3 DEF ClientFits, Live, InConnected
  <2> QED
    BY <2>1, <2>2
<1>8. Steered' /\ InSession'
  <2>1. InConnected => xmpp # c
    BY Before DEF InSession, Live
  <2>2. InConnected => xmpp \in Clients /\ client'[xmpp] = client[xmpp]
    BY <2>1, Before DEF InSession
  <2>3. InTerminal => ~InConnected /\ ~InReconnecting
    BY DEF InTerminal, Terminal, InConnected, Connected, InReconnecting, Reconnecting
  <2> QED
    BY <1>5, <2>1, <2>2, <2>3, Before DEF Steered, InSession, InConnected, InReconnecting
<1>9. Step
  <2>1. {k \in Clients : Live(k)}' = {k \in Clients : Live(k)}
    BY <1>7
  <2> QED
    BY <2>1 DEF Step, Session!vars
<1> QED
  BY <1>5, <1>6, <1>7, <1>8, <1>9 DEF IInv

(* What a rejection does to the request that awaits the client.             *)
LEMMA RejectedIs ==
  ASSUME IInv, NEW c \in Clients, NEW e
  PROVE  /\ ~client[c].unsettled => Rejected(c, e) = request
         /\ client[c].unsettled
              => Rejected(c, e) = [request EXCEPT ![c[1]].pc = "failed", ![c[1]].error = e]
<1>1. request \in [Requests -> Request] /\ ClientFits(c)
  BY Before
<1>2. \A p \in Requests : Awaits(p, c) => p = c[1]
  BY ClientIds DEF Awaits
<1>3. client[c].unsettled => Awaits(c[1], c) /\ c[1] \in Requests
  BY <1>1, ClientIds DEF ClientFits
<1>4. ASSUME ~client[c].unsettled PROVE Rejected(c, e) = request
  BY <1>1, <1>4 DEF Rejected
<1>5. ASSUME client[c].unsettled
      PROVE  Rejected(c, e) = [request EXCEPT ![c[1]].pc = "failed", ![c[1]].error = e]
  <2> DEFINE r == [request EXCEPT ![c[1]].pc = "failed", ![c[1]].error = e]
  <2>1. r = [p \in Requests |-> r[p]]
    BY <1>1
  <2>2. \A p \in Requests : p # c[1] => r[p] = request[p]
    BY <1>1
  <2>3. r[c[1]] = [request[c[1]] EXCEPT !.pc = "failed", !.error = e]
    BY <1>1, <1>3, <1>5 DEF Request
  <2> HIDE DEF r
  <2>4. \A p \in Requests : r[p] = Rejected(c, e)[p]
    BY <1>2, <1>3, <1>5, <2>2, <2>3 DEF Rejected
  <2>5. Rejected(c, e) = [p \in Requests |-> Rejected(c, e)[p]]
    BY DEF Rejected
  <2> QED
    BY <2>1, <2>4, <2>5 DEF r
<1> QED
  BY <1>4, <1>5

(* attemptReconnect() goes on to its first await.                           *)
LEMMA Prepares ==
  ASSUME IInv, TypeOK', NEW o \in Requests, Worker(o), request[o].pc = "starting",
         request' = Move(o, "preparing"), UNCHANGED <<machine, transport, credentials, wake>>
  PROVE  IInv' /\ Step
<1>1. /\ request'[o].pc = "preparing" /\ request'[o].kind = request[o].kind
      /\ request'[o].cancelled = request[o].cancelled
      /\ \A p \in Requests : p # o => request'[p] = request[p]
  BY Before DEF Move, Request
<1>2. RequestFits(o) /\ WorkerFits(o)
  BY Before
<1>3. \A p \in Requests : RequestFits(p)' /\ (Worker(p)' <=> Worker(p))
  <2>1. RequestFits(o)' /\ Worker(o)'
    BY <1>1, <1>2 DEF RequestFits, Worker
  <2>2. \A p \in Requests : p # o => RequestFits(p)' /\ (Worker(p)' <=> Worker(p))
    BY <1>1, Before DEF RequestFits, Worker
  <2> QED
    BY <2>1, <2>2
<1>4. \A p \in Requests : WorkerFits(p)'
  <2>1. WorkerFits(o)'
    BY <1>1, <1>2, <1>3 DEF WorkerFits
  <2> QED
    BY <1>2, <1>3, <2>1 DEF WorkerFits
<1>5. \A k \in Clients : ClientFits(k)'
  <2> TAKE k \in Clients
  <2>1. Awaits(k[1], k)' <=> Awaits(k[1], k)
    BY <1>1, ClientIds DEF Awaits
  <2>2. k[1] \in Requests /\ request'[k[1]].cancelled = request[k[1]].cancelled
    BY <1>1, ClientIds
  <2> QED
    BY <2>1, <2>2, Before DEF ClientFits, transport, InConnected
<1>6. Steered' /\ InSession'
  BY <1>3, Before DEF Steered, InSession, transport, InConnected, InReconnecting
<1>7. Step
  BY DEF Step, Session!vars, Live, transport
<1> QED
  BY <1>3, <1>4, <1>5, <1>6, <1>7 DEF IInv

-----------------------------------------------------------------------------
(* The actions, one by one: each is one of the steps above.                 *)

\* The steps of the requests.
LEMMA RequestSteps ==
  ASSUME WebOnly, IInv, NEW o \in Requests, RequestStep(o)
  PROVE  IInv' /\ Step
<1>1. TypeOK'
  BY Before, TypedRequestStep
<1>2. /\ Snapshot(machine) /\ machine.state \in States /\ xmpp \in Clients \cup {None}
      /\ RequestFits(o) /\ WorkerFits(o) /\ InSession /\ TypeOK
      /\ \A p \in Requests : WorkerFits(p)
  BY Before
<1>3. /\ Finish(o) \in [Requests -> Request]
      /\ \A pc \in Pcs : Move(o, pc) \in [Requests -> Request]
  BY <1>2, RequestUpdates
<1>4. ~HasProxy
  BY DEF WebOnly
<1>5. CASE BeginConnect(o)
  <2>1. Quiet /\ request[o].pc = "requested" /\ UNCHANGED <<transport, credentials, wake, probe>>
    BY <1>5 DEF BeginConnect
  <2>2. CASE request' = Finish(o) /\ UNCHANGED machine
    BY <1>1, <2>1, <2>2, Retires DEF Worker
  <2>3. ASSUME NEW retry \in BOOLEAN, ~Busy, ~request[o].cancelled,
               Handle(OnSetRetryInitial(OnConnect(machine), retry), Move(o, "resolving"))
        PROVE  IInv' /\ Step
    <3> DEFINE next == OnSetRetryInitial(OnConnect(machine), retry)
    <3>1. machine.state \notin Stoppable
      BY <2>3 DEF Busy, Stoppable, InConnected, InReconnecting
    <3>2. Snapshot(OnConnect(machine)) /\ OnConnect(machine).state = "connecting"
      BY <1>2, <3>1, Requested
    <3>3. Snapshot(next) /\ next.state = "connecting"
      BY <3>2, Requested
    <3> HIDE DEF next
    <3>4. Handle(next, Move(o, "resolving")) /\ Move(o, "resolving") \in [Requests -> Request]
      BY <1>3, <2>3 DEF next, Pcs
    <3>5. machine'.state = "connecting" /\ request' = Move(o, "resolving")
      BY <3>3, <3>4, Handled
    <3> QED
      BY <1>1, <2>1, <2>3, <3>1, <3>5, Begins
  <2> QED
    BY <1>5, <2>2, <2>3 DEF BeginConnect
<1>6. CASE ServerResolved(o)
  <2>1. request[o].pc = "resolving" /\ UNCHANGED <<wake, probe>>
    BY <1>6 DEF ServerResolved
  <2>2. CASE request[o].cancelled
    BY <1>1, <1>6, <2>1, <2>2, Retires DEF ServerResolved, GiveUp, Worker
  <2>3. CASE ~request[o].cancelled
    BY <1>1, <1>4, <1>6, <2>1, <2>3, Tries DEF ServerResolved, Worker
  <2> QED
    BY <2>2, <2>3
<1>7. CASE ProxyReady(o) \/ ProxyUnavailable(o) \/ PrecheckTimeout(o)
  BY <1>2, <1>4, <1>7 DEF ProxyReady, ProxyUnavailable, PrecheckTimeout, RequestFits
<1>8. CASE ConnectFailed(o)
  <2>1. /\ request[o].pc = "failed" /\ request[o].kind = "connect"
        /\ UNCHANGED <<credentials, wake, probe>>
    BY <1>8 DEF ConnectFailed
  <2>2. CASE request[o].cancelled
    BY <1>1, <1>8, <2>1, <2>2, Retires DEF ConnectFailed, GiveUp, Worker
  <2>3. CASE ~request[o].cancelled
    <3>1. Worker(o)
      BY <2>1, <2>3 DEF Worker
    <3>2. /\ request[o].error # "superseded" /\ ~FallsBack(o)
          /\ machine.state = "connecting" \/ InTerminal
          /\ machine.state = "connecting" => credentials
      BY <1>2, <1>4, <2>1, <3>1 DEF WorkerFits, FallsBack, InTerminal, Terminal
    <3> DEFINE m == IF request[o].error = "suspended" THEN OnSetRetryInitial(machine, TRUE)
                    ELSE machine
    <3>3. Snapshot(m) /\ m.state = machine.state
      BY <1>2, Requested
    <3>4. Handle(OnConnectionError(m), Finish(o)) /\ UNCHANGED transport
      BY <1>8, <2>3, <3>2 DEF ConnectFailed
    <3> HIDE DEF m
    <3>5. /\ Snapshot(OnConnectionError(m))
          /\ machine.state = "connecting" => OnConnectionError(m).state \in {"waiting", "initialFailure"}
          /\ InTerminal => OnConnectionError(m).state = machine.state
      BY <3>3, Errored DEF InTerminal, Terminal
    <3>6. /\ machine'.state = OnConnectionError(m).state
          /\ machine'.state # "attempting" => request' = Finish(o)
      BY <1>3, <3>4, <3>5, Handled
    <3>7. \/ machine'.state \in {"waiting", "initialFailure"} /\ machine.state = "connecting"
          \/ machine'.state = machine.state /\ InTerminal
      BY <3>2, <3>5, <3>6
    <3>8. /\ machine'.state \notin {"connecting", "attempting"} \cup Connected
          /\ machine'.state \in Reconnecting => credentials
      BY <3>2, <3>7 DEF InTerminal, Terminal, Connected, Reconnecting
    <3>9. request' = Finish(o)
      BY <3>6, <3>8
    <3> QED
      BY <1>1, <2>1, <3>1, <3>4, <3>7, <3>8, <3>9, Ends
  <2> QED
    BY <2>2, <2>3
<1>9. CASE AttemptReconnect(o)
  <2>1. request[o].pc = "starting" /\ UNCHANGED <<credentials, wake, probe>>
    BY <1>9 DEF AttemptReconnect
  <2>2. Worker(o) /\ machine.state = "attempting" /\ credentials
    BY <1>2, <2>1 DEF RequestFits, Worker, WorkerFits, InSession, InReconnecting, Reconnecting
  <2>3. /\ Snapshot(OnDisconnect(machine)) /\ OnDisconnect(machine).state = "disconnected"
        /\ Snapshot(OnAuthError(machine)) /\ OnAuthError(machine).state = "authFailed"
    BY <1>2, <2>2, Stopped, Fatalities DEF Stoppable, Reconnecting
  <2>4. ASSUME machine'.state \in {"disconnected", "authFailed"}, request' = Finish(o),
               UNCHANGED transport \/ CleanupClient
        PROVE  IInv' /\ Step
    <3>1. machine'.state \notin {"connecting", "attempting"} \cup Connected \cup Reconnecting
      BY <2>4 DEF Connected, Reconnecting
    <3> QED
      BY <1>1, <2>1, <2>2, <2>4, <3>1, Ends
  <2>5. CASE CleanupClient /\ Handle(OnDisconnect(machine), Finish(o))
    <3>1. machine'.state = "disconnected" /\ request' = Finish(o)
      BY <1>3, <2>3, <2>5, Handled
    <3> QED
      BY <2>4, <2>5, <3>1
  <2>6. CASE Handle(OnAuthError(machine), Finish(o)) /\ UNCHANGED transport
    <3>1. machine'.state = "authFailed" /\ request' = Finish(o)
      BY <1>3, <2>3, <2>6, Handled
    <3> QED
      BY <2>4, <2>6, <3>1
  <2>7. CASE request' = Move(o, "preparing") /\ UNCHANGED machine /\ UNCHANGED transport
    BY <1>1, <2>1, <2>2, <2>7, Prepares
  <2> QED
    BY <1>9, <2>2, <2>5, <2>6, <2>7 DEF AttemptReconnect
<1>10. CASE NetworkNotReady(o)
  <2>1. request[o].pc = "preparing" /\ UNCHANGED <<transport, credentials, wake, probe>>
    BY <1>10 DEF NetworkNotReady
  <2>2. CASE request[o].cancelled
    BY <1>1, <1>10, <2>1, <2>2, Retires DEF NetworkNotReady, Worker
  <2>3. CASE ~request[o].cancelled
    <3>1. Worker(o) /\ machine.state = "attempting" /\ credentials
      BY <1>2, <2>1, <2>3 DEF RequestFits, Worker, WorkerFits, InSession, InReconnecting, Reconnecting
    <3>2. Snapshot(OnConnectionError(machine)) /\ OnConnectionError(machine).state = "waiting"
      BY <1>2, <3>1, Errored
    <3>3. machine'.state = "waiting" /\ request' = Finish(o)
      BY <1>3, <1>10, <2>3, <3>2, Handled DEF NetworkNotReady
    <3>4. machine'.state \notin {"connecting", "attempting"} \cup Connected
      BY <3>3 DEF Connected
    <3> QED
      BY <1>1, <2>1, <3>1, <3>3, <3>4, Ends
  <2> QED
    BY <2>2, <2>3
<1>11. CASE Prepared(o)
  <2>1. request[o].pc = "preparing" /\ UNCHANGED <<wake, probe>>
    BY <1>11 DEF Prepared
  <2>2. CASE request[o].cancelled
    BY <1>1, <1>11, <2>1, <2>2, Retires DEF Prepared, GiveUp, Worker
  <2>3. CASE ~request[o].cancelled
    <3>1. Worker(o) /\ machine.state = "attempting" /\ credentials
      BY <1>2, <2>1, <2>3 DEF RequestFits, Worker, WorkerFits, InSession, InReconnecting, Reconnecting
    <3>2. xmpp = None \/ client[xmpp].phase # "online"
      <4>1. ~InConnected
        BY <3>1 DEF InConnected, Connected
      <4> QED
        BY <1>2, <4>1, Before DEF ClientFits
    <3>3. Try(o, 1, Destroy(xmpp))
      BY <1>11, <2>3, <3>1, <3>2 DEF Prepared
    <3> QED
      BY <1>1, <2>1, <3>1, <3>3, Tries
  <2> QED
    BY <2>2, <2>3
<1>12. CASE ReconnectFailed(o)
  <2>1. /\ request[o].pc = "failed" /\ request[o].kind = "reconnect" /\ UNCHANGED <<wake, probe>>
    BY <1>12 DEF ReconnectFailed
  <2>2. CASE request[o].cancelled
    BY <1>1, <1>12, <2>1, <2>2, Retires DEF ReconnectFailed, GiveUp, Worker
  <2>3. CASE ~request[o].cancelled
    <3>1. Worker(o)
      BY <2>1, <2>3 DEF Worker
    <3>2. /\ xmpp \in {None, <<o, request[o].stage>>} /\ ~FallsBack(o)
          /\ machine.state \in {"attempting", "waiting"} \/ InTerminal
          /\ InTerminal \/ credentials
      BY <1>2, <1>4, <2>1, <3>1 DEF WorkerFits, FallsBack, InTerminal, Terminal
    <3> DEFINE next == IF request[o].error = "noCredentials" THEN OnAuthError(machine)
                       ELSE OnConnectionError(machine)
    <3>3. Snapshot(next)
      BY <1>2, Errored, Fatalities
    <3>4. /\ machine.state = "attempting" => next.state \in {"authFailed", "waiting"}
          /\ machine.state = "waiting" => next.state \in {"authFailed", "waiting"}
          /\ InTerminal => next.state = machine.state
      BY <1>2, Errored, Fatalities DEF Stoppable, Reconnecting, Connected, InTerminal, Terminal
    <3>5. CleanupClient /\ Handle(next, Finish(o)) /\ UNCHANGED credentials
      BY <1>12, <2>3, <3>2 DEF ReconnectFailed
    <3> HIDE DEF next
    <3>6. next.state \notin {"connecting", "attempting"} \cup Connected
      BY <3>2, <3>4 DEF InTerminal, Terminal, Connected
    <3>7. machine'.state = next.state /\ request' = Finish(o)
      BY <1>3, <3>3, <3>5, <3>6, Handled
    <3>8. machine'.state \in Reconnecting => credentials
      BY <3>2, <3>4, <3>7 DEF InTerminal, Terminal, Reconnecting
    <3>9. machine'.state = machine.state \/ machine.state \in {"connecting", "attempting", "waiting"}
      BY <3>2, <3>4, <3>7
    <3> QED
      BY <1>1, <2>1, <3>1, <3>5, <3>6, <3>7, <3>8, <3>9, Ends
  <2> QED
    BY <2>2, <2>3
<1>13. CASE Greeted(o)
  BY <1>1, <1>13, Retires DEF Greeted, WebOnly, Worker
<1>14. CASE AttemptTimeout(o)
  <2> DEFINE c == <<o, 1>>
  <2>1. /\ request[o].pc = "trying" /\ request[o].stage = 1 /\ c = <<o, request[o].stage>>
        /\ UNCHANGED <<machine, credentials, wake, probe>>
    BY <1>2, <1>14 DEF AttemptTimeout, RequestFits
  <2>2. c \in Clients /\ c[1] = o /\ Awaits(o, c)
    BY <2>1, ClientIds DEF Awaits
  <2>3. PICK e \in {"timeout", "suspended", "superseded"} :
           /\ request' = [request EXCEPT ![o].pc = "failed", ![o].error = e]
           /\ xmpp = c => /\ e # "superseded" /\ xmpp' = None
                          /\ client' = [client EXCEPT ![c] = Gone] /\ recovering' = FALSE
           /\ xmpp # c => /\ client' = [client EXCEPT ![c].unsettled = FALSE]
                          /\ UNCHANGED <<xmpp, recovering>>
    BY <1>14, <2>1 DEF AttemptTimeout
  <2>4. e \in Errors /\ ~recovering /\ client[c] \in Client /\ client \in [Clients -> Client] /\ ClientFits(c)
    BY <1>2, <2>2, Before DEF Errors, InSession
  <2> HIDE DEF c
  <2>5. /\ \A k \in Clients : k # c => client'[k] = client[k]
        /\ ~client'[c].unsettled /\ ~client'[c].doomed
        /\ \/ client'[c].phase = "gone"
           \/ client'[c].phase = client[c].phase /\ xmpp # c
        /\ ~recovering'
        /\ \/ xmpp' = xmpp
           \/ xmpp = c /\ xmpp' = None
    <3>1. CASE xmpp = c
      BY <2>2, <2>3, <2>4, <3>1 DEF Gone
    <3>2. CASE xmpp # c
      BY <2>2, <2>3, <2>4, <3>2 DEF ClientFits, Client
    <3> QED
      BY <3>1, <3>2
  <2>6. CASE request[o].cancelled
    <3>1. request' = Rejected(c, e)
      <4>1. client[c].unsettled
        BY <2>2, <2>4 DEF ClientFits
      <4>2. Rejected(c, e) = [request EXCEPT ![c[1]].pc = "failed", ![c[1]].error = e]
        BY <2>2, <4>1, RejectedIs
      <4> QED
        BY <2>2, <2>3, <4>2
    <3>2. client[c].phase = "gone" /\ ~Live(c)
      BY <2>2, <2>4, <2>6 DEF ClientFits, Live
    <3>3. client'[c].phase = "gone"
      BY <2>5, <3>2
    <3> QED
      BY <1>1, <2>1, <2>2, <2>4, <2>5, <3>1, <3>2, <3>3, Fades
  <2>7. CASE ~request[o].cancelled
    <3>1. Trying(o) /\ xmpp = c
      BY <2>1, <2>7, TriedClient DEF Trying, Worker, c
    <3> QED
      BY <1>1, <2>1, <2>3, <2>4, <2>5, <3>1, Fails DEF c
  <2> QED
    BY <2>6, <2>7
<1> QED
  BY <1>5, <1>6, <1>7, <1>8, <1>9, <1>10, <1>11, <1>12, <1>13, <1>14 DEF RequestStep

\* A client whose promise settles, and what happens to the others.
LEMMA SettledIs ==
  ASSUME IInv, NEW c \in Clients, NEW phase,
         NEW clients, clients = client \/ (c = xmpp /\ clients = Destroy(xmpp))
  PROVE  /\ \A k \in Clients : k # c => Settle(clients, c, phase)[k] = client[k]
         /\ ~Settle(clients, c, phase)[c].unsettled /\ ~Settle(clients, c, phase)[c].doomed
         /\ Settle(clients, c, phase)[c].phase = phase
<1>1. clients \in [Clients -> Client]
  BY Before, ClientUpdates
<1>2. \A k \in Clients : k # c => clients[k] = client[k]
  BY DestroyIs
<1>3. ~clients[c].doomed
  BY Before, ClientIds, DestroyIs DEF ClientFits
<1> QED
  BY <1>1, <1>2, <1>3 DEF Settle, Client

\* What a client that can carry a session is in the middle of.
LEMMA LiveIs ==
  ASSUME IInv, NEW c \in Clients, Live(c)
  PROVE  /\ c = xmpp /\ credentials /\ ~recovering /\ Recoverable(machine)
         /\ \/ /\ InConnected /\ ~client[c].unsettled /\ client[c].phase = "online"
               /\ machine.state \in {"healthy", "sleeping"} /\ \A e : Rejected(c, e) = request
            \/ /\ Trying(c[1]) /\ c[1] \in Requests /\ c = <<c[1], 1>>
               /\ client[c].unsettled /\ client[c].phase = "handshake"
               /\ machine.state \in {"connecting", "attempting"}
               /\ \A e : Rejected(c, e) = [request EXCEPT ![c[1]].pc = "failed", ![c[1]].error = e]
<1>1. c = xmpp /\ ~recovering
  BY LiveClient, Before DEF InSession
<1>2. CASE InConnected /\ client[c].phase = "online" /\ ~client[c].unsettled
  <2>1. machine.state \in {"healthy", "sleeping"}
    BY <1>2, Before DEF InConnected, Connected, InSession
  <2>2. credentials
    BY <1>2, Before DEF InSession
  <2> QED
    BY <1>1, <1>2, <2>1, <2>2, RejectedIs DEF Recoverable, Terminal
<1>3. CASE /\ client[c].phase = "handshake" /\ client[c].unsettled
           /\ c = <<c[1], 1>> /\ request[c[1]].pc = "trying" /\ Worker(c[1])
           /\ machine.state \in {"connecting", "attempting"}
  <2>1. Trying(c[1]) /\ c[1] \in Requests
    BY <1>3, ClientIds DEF Trying
  <2>2. credentials
    BY <2>1, TriedClient
  <2> QED
    BY <1>1, <1>3, <2>1, <2>2, RejectedIs DEF Recoverable, Terminal
<1> QED
  BY <1>2, <1>3, LiveClient

(* A client in its handshake turns its attempt down.                        *)
LEMMA TurnsDown ==
  ASSUME IInv, TypeOK', NEW c \in Clients, Live(c), ~InConnected,
         NEW e \in Errors, e # "superseded", request' = Rejected(c, e),
         \A k \in Clients : k # c => client'[k] = client[k],
         ~client'[c].unsettled, ~client'[c].doomed,
         client'[c].phase \in {"gone", "closing", "closed"},
         \/ xmpp' = xmpp
         \/ xmpp' = None /\ client'[c].phase # "closed",
         \/ machine'.state = machine.state /\ UNCHANGED credentials
         \/ machine'.state \in Terminal
         \/ machine'.state = "waiting" /\ machine.state = "attempting" /\ UNCHANGED credentials,
         ~recovering', UNCHANGED wake
  PROVE  IInv' /\ Step
<1> DEFINE o == c[1]
<1>1. /\ Trying(o) /\ o \in Requests /\ c = <<o, 1>>
      /\ request' = [request EXCEPT ![o].pc = "failed", ![o].error = e]
  BY LiveIs
<1> HIDE DEF o
<1>2. /\ \A k \in Clients : k # <<o, 1>> => client'[k] = client[k]
      /\ ~client'[<<o, 1>>].unsettled /\ ~client'[<<o, 1>>].doomed
      /\ client'[<<o, 1>>].phase \in {"gone", "closing", "closed"}
      /\ \/ xmpp' = xmpp
         \/ xmpp' = None /\ client'[<<o, 1>>].phase # "closed"
  BY <1>1
<1> QED
  BY <1>1, <1>2, Fails

\* The actor takes a snapshot while no attempt is under way.
LEMMA EntersAs ==
  ASSUME NEW next, Snapshot(next), request \in [Requests -> Request], Handle(next, request),
         machine.state # "attempting"
  PROVE  machine'.state = next.state /\ Entered
BY Handled DEF Entered

\* The callbacks of the clients.
LEMMA ClientSteps ==
  ASSUME WebOnly, IInv, NEW c \in Clients, ClientEvent(c)
  PROVE  IInv' /\ Step
<1>1. TypeOK'
  BY Before, TypedClientEvent
<1>2. /\ Snapshot(machine) /\ machine.state \in States /\ InSession /\ ClientFits(c)
      /\ request \in [Requests -> Request]
      /\ \A e \in Errors : Rejected(c, e) \in [Requests -> Request]
  BY Before, RejectedType
<1>3. \A phase : /\ \A k \in Clients : k # c => Settle(client, c, phase)[k] = client[k]
                 /\ ~Settle(client, c, phase)[c].unsettled /\ ~Settle(client, c, phase)[c].doomed
                 /\ Settle(client, c, phase)[c].phase = phase
  BY SettledIs
<1>4. c = xmpp =>
        \A phase : /\ \A k \in Clients : k # c => Settle(Destroy(xmpp), c, phase)[k] = client[k]
                   /\ ~Settle(Destroy(xmpp), c, phase)[c].unsettled
                   /\ ~Settle(Destroy(xmpp), c, phase)[c].doomed
                   /\ Settle(Destroy(xmpp), c, phase)[c].phase = phase
  BY SettledIs
<1>5. "transport" \in Errors /\ "noCredentials" \in Errors
  BY DEF Errors
<1>6. CASE Online(c)
  <2> DEFINE o == c[1]
             R == [p \in Requests |-> IF ~Awaits(p, c) THEN request[p]
                                      ELSE IF xmpp = None THEN Done
                                      ELSE [request[p] EXCEPT !.pc = "greeting"]]
  <2>1. Live(c) /\ UNCHANGED <<xmpp, recovering, credentials, wake, probe>>
        /\ client[c].phase = "handshake" /\ client' = Settle(client, c, "online")
    BY <1>6 DEF Online, Live
  <2>2. /\ Trying(o) /\ o \in Requests /\ c = <<o, 1>> /\ client[c].unsettled /\ c = xmpp
        /\ machine.state \in {"connecting", "attempting"}
    BY <2>1, LiveIs
  <2>3. Handle(OnConnectionSuccess(machine), R)
    BY <1>6, <2>2 DEF Online
  <2>4. R = Move(o, "greeting")
    <3>1. \A p \in Requests : Awaits(p, c) <=> p = o
      BY <2>2, TriedClient, ClientIds DEF Awaits
    <3>2. xmpp # None
      BY <2>2, ClientIds
    <3> QED
      BY <1>2, <2>2, <3>1, <3>2 DEF Move, Request
  <2> HIDE DEF R, o
  <2>5. /\ Snapshot(OnConnectionSuccess(machine)) /\ OnConnectionSuccess(machine).state = "healthy"
    BY <1>2, <2>2, Succeeded
  <2>6. R \in [Requests -> Request]
    BY <2>2, <2>4, Before, RequestUpdates DEF Pcs
  <2>7. machine'.state = "healthy" /\ request' = R
    BY <2>3, <2>5, <2>6, Handled
  <2> QED
    BY <1>1, <2>1, <2>2, <2>4, <2>7, Connects DEF Move
<1>7. CASE StartRejected(c)
  <2>1. /\ client[c].unsettled /\ UNCHANGED <<machine, xmpp, recovering, credentials, wake, probe>>
        /\ client' = Settle(client, c, IF client[c].phase = "gone" THEN "gone" ELSE "closing")
    BY <1>7 DEF StartRejected
  <2>2. PICK e \in {"transport", "noCredentials"} : request' = Rejected(c, e)
    BY <1>7 DEF StartRejected
  <2>3. e \in Errors /\ e # "superseded" /\ ~recovering
    BY <1>2 DEF Errors, InSession
  <2>4. CASE Live(c)
    <3>1. client' = Settle(client, c, "closing") /\ ~InConnected
      BY <2>1, <2>4, LiveIs DEF Live, InConnected, Connected
    <3> QED
      BY <1>1, <1>3, <2>1, <2>2, <2>3, <2>4, <3>1, TurnsDown
  <2>5. CASE ~Live(c)
    <3>1. client' = Settle(client, c, "gone")
      BY <1>2, <2>1, <2>5 DEF ClientFits, Live
    <3> QED
      BY <1>1, <1>3, <2>1, <2>2, <2>3, <2>5, <3>1, Fades
  <2> QED
    BY <2>4, <2>5
<1>8. CASE FatalError(c)
  <2>1. /\ Live(c) /\ Quiet /\ UNCHANGED <<recovering, xmpp, wake, probe>>
        /\ client' = Settle(client, c, "closing")
    BY <1>8 DEF FatalError
  <2>2. ~recovering' /\ ConnectionReject(c) = Rejected(c, "transport")
    BY <1>2, <2>1 DEF InSession, ConnectionReject
  <2>3. PICK next \in {OnConflict(machine), OnAuthError(machine)} : Handle(next, Rejected(c, "transport"))
    BY <1>8, <2>2 DEF FatalError
  <2>4. machine.state \in Stoppable
    BY <2>1, LiveIs DEF Stoppable, Connected, Reconnecting
  <2>5. Snapshot(next) /\ next.state \in Terminal
    BY <1>2, <2>4, Fatalities DEF Terminal
  <2>6. machine'.state \in Terminal /\ request' = Rejected(c, "transport")
    <3>1. next.state # "attempting"
      BY <2>5 DEF Terminal
    <3> QED
      BY <1>2, <1>5, <2>3, <2>5, <3>1, Handled
  <2>7. CASE InConnected
    <3>1. request' = request /\ c = xmpp
      BY <2>1, <2>6, <2>7, LiveIs DEF InConnected, Connected
    <3>2. Entered
      BY <2>6, <3>1 DEF Entered, Terminal
    <3> QED
      BY <1>1, <1>3, <2>1, <2>2, <2>6, <2>7, <3>1, <3>2, Loses
  <2>8. CASE ~InConnected
    BY <1>1, <1>3, <1>5, <2>1, <2>2, <2>6, <2>8, TurnsDown
  <2> QED
    BY <2>7, <2>8
<1>9. CASE ServerShutdown(c)
  <2>1. /\ Live(c) /\ Quiet /\ UNCHANGED <<recovering, credentials, wake, probe>> /\ xmpp' = None
        /\ Handle(OnSocketDied(machine), ConnectionReject(c))
        /\ c = xmpp
    BY <1>9, LiveIs DEF ServerShutdown
  <2>2. ~recovering' /\ ConnectionReject(c) = Rejected(c, "transport")
    BY <1>2, <2>1 DEF InSession, ConnectionReject
  <2>3. client' = Settle(Destroy(xmpp), c, "gone")
    BY <1>9, <2>1 DEF ServerShutdown
  <2>4. /\ Snapshot(OnSocketDied(machine))
        /\ machine.state \in {"healthy", "sleeping", "attempting"}
              => OnSocketDied(machine).state = "waiting"
        /\ machine.state = "connecting" => OnSocketDied(machine).state = "connecting"
    BY <1>2, Died DEF Connected
  <2>5. machine.state \in {"healthy", "sleeping", "connecting", "attempting"}
    BY <2>1, LiveIs
  <2>6. machine'.state = OnSocketDied(machine).state /\ request' = Rejected(c, "transport")
    BY <1>2, <1>5, <2>1, <2>2, <2>4, <2>5, Handled
  <2>7. CASE InConnected
    <3>1. request' = request /\ machine'.state = "waiting"
      BY <2>1, <2>4, <2>6, <2>7, LiveIs DEF InConnected, Connected
    <3>2. Entered
      BY <3>1 DEF Entered
    <3> QED
      BY <1>1, <1>4, <2>1, <2>2, <2>3, <2>7, <3>1, <3>2, Loses
  <2>8. CASE ~InConnected
    <3>1. machine.state \in {"connecting", "attempting"}
      BY <2>1, <2>8, LiveIs
    <3>2. \/ machine'.state = machine.state
          \/ machine'.state = "waiting" /\ machine.state = "attempting"
      BY <2>4, <2>6, <3>1
    <3> QED
      BY <1>1, <1>4, <1>5, <2>1, <2>2, <2>3, <2>6, <2>8, <3>2, TurnsDown
  <2> QED
    BY <2>7, <2>8
<1>10. CASE TransportError(c)
  <2>1. /\ Live(c) /\ Quiet /\ UNCHANGED <<credentials, wake, probe>>
        /\ c = xmpp /\ Recoverable(machine)
    BY <1>10, LiveIs DEF TransportError
  <2>2. /\ recovering' = (xmpp = None) /\ xmpp' = None
        /\ Handle(DeadSocket(machine, TRUE), ConnectionReject(c))
        /\ client' = Settle(Destroy(xmpp), c, "gone")
    BY <1>10, <2>1 DEF TransportError
  <2>3. ~recovering' /\ ConnectionReject(c) = Rejected(c, "transport")
    BY <2>1, <2>2, ClientIds DEF ConnectionReject
  <2>4. CASE InConnected
    <3>1. Rejected(c, "transport") = request /\ machine.state \in Connected
      BY <2>1, <2>4, LiveIs DEF InConnected, Connected
    <3>2. /\ Snapshot(DeadSocket(machine, TRUE))
          /\ DeadSocket(machine, TRUE).state \in {"waiting", "attempting"}
      BY <1>2, <3>1, DeadSockets
    <3>3. machine.state # "attempting"
      BY <3>1 DEF Connected
    <3>4. Handle(DeadSocket(machine, TRUE), request)
      BY <2>2, <2>3, <3>1
    <3>5. machine'.state \in {"waiting", "attempting"} /\ Entered
      BY <1>2, <3>2, <3>3, <3>4, EntersAs
    <3> QED
      BY <1>1, <1>4, <2>1, <2>2, <2>3, <2>4, <3>5, Loses
  <2>5. CASE ~InConnected
    <3>1. machine.state \in {"connecting", "attempting"} /\ Rejected(c, "transport") \in [Requests -> Request]
      BY <1>2, <1>5, <2>1, <2>5, LiveIs
    <3>2. Snapshot(DeadSocket(machine, TRUE)) /\ DeadSocket(machine, TRUE).state = machine.state
      BY <1>2, <3>1, DeadSockets
    <3>3. machine'.state = machine.state /\ request' = Rejected(c, "transport")
      BY <2>2, <2>3, <3>1, <3>2, Handled
    <3> QED
      BY <1>1, <1>4, <1>5, <2>1, <2>2, <2>3, <2>5, <3>3, TurnsDown
  <2> QED
    BY <2>4, <2>5
<1>11. CASE Disconnected(c)
  <2>1. /\ Quiet /\ client[c].phase \in {"handshake", "online", "closing"}
        /\ UNCHANGED <<recovering, wake, probe>> /\ ~recovering'
        /\ credentials' = (credentials /\ ~(xmpp = c /\ machine.state = "initialFailure"))
    BY <1>2, <1>11 DEF Disconnected, InSession
  <2>2. CASE client[c].phase = "online"
    <3>1. Live(c)
      BY <2>2 DEF Live
    <3>2. c = xmpp /\ credentials /\ InConnected /\ machine.state \in {"healthy", "sleeping"}
          /\ Rejected(c, "transport") = request
      BY <2>2, <3>1, LiveIs
    <3>3. /\ Handle(OnSocketDied(machine), request)
          /\ xmpp' = None /\ client' = [client EXCEPT ![c] = Gone]
      BY <1>11, <3>2 DEF Disconnected
    <3>4. Snapshot(OnSocketDied(machine)) /\ OnSocketDied(machine).state = "waiting"
      BY <1>2, <3>2, Died DEF Connected
    <3>5. machine'.state = "waiting" /\ Entered
      BY <1>2, <3>2, <3>3, <3>4, EntersAs
    <3>6. credentials' = credentials
      BY <2>1, <3>2
    <3>7. /\ \A k \in Clients : k # c => client'[k] = client[k]
          /\ client'[c] = Gone /\ ~Gone.unsettled /\ ~Gone.doomed /\ Gone.phase = "gone"
      BY <3>3, Before DEF Gone
    <3> QED
      BY <1>1, <2>1, <3>2, <3>3, <3>5, <3>6, <3>7, Loses
  <2>3. CASE client[c].phase # "online"
    <3>1. ~(xmpp = c /\ InConnected /\ credentials)
      BY <1>2, <2>3 DEF InSession
    <3>2. /\ request' = Rejected(c, "transport") /\ UNCHANGED <<machine, xmpp>>
          /\ client' = Settle(client, c, IF xmpp = c THEN "closed" ELSE "gone")
      BY <1>11, <3>1 DEF Disconnected
    <3> DEFINE phase == IF xmpp = c THEN "closed" ELSE "gone"
    <3>3. phase \in {"gone", "closed"} /\ (phase = "closed" => xmpp = c)
      OBVIOUS
    <3>4. client' = Settle(client, c, phase)
      BY <3>2
    <3> HIDE DEF phase
    <3>5. /\ \A k \in Clients : k # c => client'[k] = client[k]
          /\ ~client'[c].unsettled /\ ~client'[c].doomed /\ client'[c].phase = phase
      BY <1>3, <3>4
    <3>6. CASE client[c].phase = "handshake"
      <4>1. Live(c) /\ ~InConnected /\ machine.state \in {"connecting", "attempting"} /\ credentials
        BY <3>6, LiveIs DEF Live, InConnected, Connected
      <4>2. credentials' = credentials
        BY <2>1, <4>1
      <4> QED
        BY <1>1, <1>5, <2>1, <3>2, <3>3, <3>5, <4>1, <4>2, TurnsDown
    <3>7. CASE client[c].phase = "closing"
      <4>1. ~Live(c)
        BY <3>7 DEF Live
      <4>2. UNCHANGED credentials \/ InTerminal
        <5>1. CASE machine.state = "initialFailure"
          BY <5>1 DEF InTerminal, Terminal
        <5>2. CASE machine.state # "initialFailure"
          BY <2>1, <5>2, Before DEF TypeOK
        <5> QED
          BY <5>1, <5>2
      <4> QED
        BY <1>1, <1>5, <2>1, <3>2, <3>3, <3>5, <4>1, <4>2, Fades
    <3> QED
      BY <2>1, <2>3, <3>6, <3>7
  <2> QED
    BY <2>2, <2>3
<1>12. CASE DisconnectTail(c)
  BY <1>2, <1>12 DEF DisconnectTail, ClientFits
<1> QED
  BY <1>6, <1>7, <1>8, <1>9, <1>10, <1>11, <1>12 DEF ClientEvent

\* Only the machine's context, the probe or nothing at all changes.
LEMMA Stays ==
  ASSUME IInv, TypeOK', machine'.state = machine.state, request' = request,
         UNCHANGED <<transport, credentials, wake>>
  PROVE  IInv' /\ Step
<1>1. /\ \A o \in Requests : RequestFits(o)' /\ WorkerFits(o)'
      /\ \A c \in Clients : ClientFits(c)'
  BY Before DEF RequestFits, WorkerFits, ClientFits, Worker, Awaits, InTerminal, InConnected, transport
<1>2. Steered' /\ InSession'
  BY Before DEF Steered, InSession, Worker, InConnected, InReconnecting, transport
<1>3. Step
  BY DEF Step, Session!vars, Live, transport
<1> QED
  BY <1>1, <1>2, <1>3 DEF IInv

(* The actor takes an event that leaves the clients alone.                  *)
LEMMA HandsOver ==
  ASSUME IInv, TypeOK', Quiet, NEW next, Snapshot(next), Handle(next, request),
         \/ next.state = machine.state
         \/ InConnected /\ next.state \in Connected \ {"verifying"}
         \/ machine.state \in {"waiting", "paused"} /\ next.state \in Reconnecting,
         UNCHANGED <<transport, credentials, wake>>
  PROVE  IInv' /\ Step
<1>1. request \in [Requests -> Request]
  BY Before
<1>2. CASE machine.state \in {"connecting", "attempting"}
  <2>1. next.state = machine.state
    BY <1>2 DEF InConnected, Connected
  <2>2. machine'.state = machine.state /\ request' = request
    BY <1>1, <1>2, <2>1, Handled
  <2> QED
    BY <2>2, Stays
<1>3. CASE machine.state \notin {"connecting", "attempting"}
  <2>1. machine'.state = next.state /\ Entered
    BY <1>1, <1>3, EntersAs
  <2>2. machine.state \in {"waiting", "paused"} => InReconnecting
    BY DEF InReconnecting, Reconnecting
  <2> QED
    BY <1>3, <2>1, <2>2, Waits
<1> QED
  BY <1>2, <1>3

\* The calls of the user.
LEMMA UserSteps ==
  ASSUME WebOnly, IInv, UserCall
  PROVE  IInv' /\ Step
<1>1. TypeOK' /\ Snapshot(machine) /\ request \in [Requests -> Request]
  BY Before, TypedUserCall
<1>2. CASE RequestConnect
  BY <1>1, <1>2, Calls DEF RequestConnect
<1>3. CASE Disconnect
  <2> DEFINE R == [o \in Requests |-> IF request[o].pc = "done" THEN request[o]
                                      ELSE [request[o] EXCEPT !.cancelled = TRUE]]
  <2>1. /\ Quiet /\ Handle(OnDisconnect(machine), R) /\ xmpp' = None /\ client' = Destroy(xmpp)
        /\ UNCHANGED <<recovering, wake>>
    BY <1>3 DEF Disconnect, WebOnly
  <2>2. R \in [Requests -> Request]
    BY <1>1 DEF Request
  <2>3. /\ Snapshot(OnDisconnect(machine)) /\ OnDisconnect(machine).state # "attempting"
        /\ OnDisconnect(machine).state = IF machine.state \in Stoppable THEN "disconnected"
                                         ELSE machine.state
    BY <1>1, Stopped DEF Stoppable, Reconnecting
  <2> HIDE DEF R
  <2>4. request' = R /\ machine'.state = OnDisconnect(machine).state
    BY <2>1, <2>2, <2>3, Handled
  <2> QED
    BY <1>1, <2>1, <2>3, <2>4, Disconnects DEF R
<1>4. CASE CancelReconnect
  BY <1>4 DEF CancelReconnect, WebOnly
<1> QED
  BY <1>2, <1>3, <1>4 DEF UserCall

\* The events of the host.
LEMMA HostSteps ==
  ASSUME WebOnly, IInv, HostEvent
  PROVE  IInv' /\ Step
<1>1. /\ TypeOK' /\ Snapshot(machine) /\ machine.state \in States /\ InSession
      /\ request \in [Requests -> Request]
  BY Before, TypedHostEvent
<1>2. CASE Visible
  <2>1. Quiet /\ Handle(Nudge(machine), request) /\ UNCHANGED <<transport, credentials, wake>>
    BY <1>2 DEF Visible
  <2>2. /\ Snapshot(Nudge(machine))
        /\ \/ Nudge(machine).state = machine.state
           \/ machine.state \in {"waiting", "paused"} /\ Nudge(machine).state \in Reconnecting
    BY <1>1, Nudged DEF Reconnecting
  <2> QED
    BY <1>1, <2>1, <2>2, HandsOver
<1>3. CASE Sleeping
  <2>1. Quiet /\ Handle(OnSleep(machine), request) /\ UNCHANGED <<transport, credentials, wake>>
    BY <1>3 DEF Sleeping
  <2>2. /\ Snapshot(OnSleep(machine))
        /\ \/ OnSleep(machine).state = machine.state
           \/ InConnected /\ OnSleep(machine).state \in Connected \ {"verifying"}
    BY <1>1, Timers DEF InConnected, Connected
  <2> QED
    BY <1>1, <2>1, <2>2, HandsOver
<1>4. CASE WakeNetwork \/ WakeVerified \/ VerifyTimer
  BY <1>1, <1>4 DEF WakeNetwork, WakeVerified, VerifyTimer, InSession, AtRest
<1>5. CASE ProbeDone
  <2>1. Quiet /\ UNCHANGED <<credentials, wake>>
    BY <1>5 DEF ProbeDone
  <2>2. CASE UNCHANGED <<machine, request, transport>>
    BY <1>1, <2>1, <2>2, Stays
  <2>3. CASE InConnected /\ HandleDeadSocket(FALSE, request)
    <3>1. /\ Recoverable(machine) /\ machine.state \in Connected /\ machine.state # "attempting"
          /\ xmpp \in Clients /\ xmpp # None
      BY <1>1, <2>3, Before DEF Recoverable, InConnected, Connected, Terminal, InSession
    <3>2. /\ Handle(DeadSocket(machine, FALSE), request)
          /\ xmpp' = None /\ client' = Destroy(xmpp) /\ ~recovering'
      BY <2>3, <3>1 DEF HandleDeadSocket
    <3>3. /\ Snapshot(DeadSocket(machine, FALSE))
          /\ DeadSocket(machine, FALSE).state \in {"waiting", "attempting"}
      BY <1>1, <3>1, DeadSockets
    <3>4. machine'.state \in {"waiting", "attempting"} /\ Entered
      BY <1>1, <3>1, <3>2, <3>3, EntersAs
    <3>5. ~client[xmpp].unsettled
      BY <1>1, <2>3, <3>1, Before DEF ClientFits, InSession
    <3>6. /\ \A k \in Clients : k # xmpp => client'[k] = client[k]
          /\ ~client'[xmpp].unsettled /\ ~client'[xmpp].doomed /\ client'[xmpp].phase = "gone"
      BY <3>1, <3>2, <3>5, DestroyIs
    <3> QED
      BY <1>1, <2>1, <2>3, <3>2, <3>4, <3>6, Loses
  <2> QED
    BY <1>5, <2>2, <2>3 DEF ProbeDone
<1>6. CASE ReconnectTimer
  <2>1. /\ Quiet /\ machine.state = "waiting" /\ Handle(OnReconnectTimer(machine), request)
        /\ UNCHANGED <<transport, credentials, wake>>
    BY <1>6 DEF ReconnectTimer
  <2>2. Snapshot(OnReconnectTimer(machine)) /\ OnReconnectTimer(machine).state \in Reconnecting
    BY <1>1, <2>1, Timers DEF Reconnecting
  <2> QED
    BY <1>1, <2>1, <2>2, HandsOver
<1>7. ASSUME NEW d \in Durations, NotifyAwake(d) PROVE IInv' /\ Step
  BY <1>7 DEF NotifyAwake, WebOnly
<1>8. ASSUME NEW d \in Durations, KeepaliveTick(TRUE, d) PROVE IInv' /\ Step
  <2> DEFINE told == OnDisplayActive(machine, d)
  <2>1. Quiet /\ Handle(Nudge(told), request) /\ UNCHANGED <<transport, credentials, wake>>
    BY <1>8 DEF KeepaliveTick
  <2>2. /\ Snapshot(told)
        /\ told.state = IF machine.state \in {"waiting", "paused"} THEN "attempting" ELSE machine.state
    BY <1>1, Displayed
  <2> HIDE DEF told
  <2>3. Snapshot(Nudge(told)) /\ Nudge(told) = told
    BY <2>2, Nudged
  <2>4. \/ Nudge(told).state = machine.state
        \/ machine.state \in {"waiting", "paused"} /\ Nudge(told).state \in Reconnecting
    BY <2>2, <2>3 DEF Reconnecting
  <2> QED
    BY <1>1, <2>1, <2>3, <2>4, HandsOver
<1>9. ASSUME NEW d \in Durations, KeepaliveTick(FALSE, d) PROVE IInv' /\ Step
  <2>1. Quiet /\ Handle(OnDisplayInactive(machine), request) /\ UNCHANGED <<transport, credentials, wake>>
    BY <1>9 DEF KeepaliveTick
  <2>2. /\ Snapshot(OnDisplayInactive(machine))
        /\ OnDisplayInactive(machine).state = IF machine.state = "waiting" THEN "paused" ELSE machine.state
    BY <1>1, Displayed
  <2>3. \/ OnDisplayInactive(machine).state = machine.state
        \/ /\ machine.state \in {"waiting", "paused"}
           /\ OnDisplayInactive(machine).state \in Reconnecting
    BY <2>2 DEF Reconnecting
  <2> QED
    BY <1>1, <2>1, <2>2, <2>3, HandsOver
<1> QED
  BY <1>2, <1>3, <1>4, <1>5, <1>6, <1>7, <1>8, <1>9 DEF HostEvent

\* The start.
LEMMA InitFits == Init => IInv /\ Session!Init
<1> SUFFICES ASSUME Init PROVE IInv /\ Session!Init
  OBVIOUS
<1>1. TypeOK
  BY InitTypes
<1>2. machine.state = "idle" /\ \A o \in Requests : request[o].pc = "done" /\ request[o] = Done
  BY DEF Init, InitialMachine, Done, New
<1>3. \A c \in Clients : client[c].phase = "gone" /\ ~client[c].unsettled /\ ~client[c].doomed
  BY DEF Init, Gone
<1>4. /\ \A o \in Requests : RequestFits(o) /\ WorkerFits(o)
      /\ \A c \in Clients : ClientFits(c)
  BY <1>2, <1>3, ClientIds DEF RequestFits, WorkerFits, Worker, ClientFits, Awaits
<1>5. Steered /\ InSession
  BY <1>2 DEF Init, Steered, InSession, InConnected, InReconnecting, Connected, Reconnecting
<1>6. Session!Init
  BY <1>2, <1>3, Statuses DEF Session!Init, Live, States
<1> QED
  BY <1>1, <1>4, <1>5, <1>6 DEF IInv

\* Any step.
LEMMA StepFits == WebOnly /\ IInv /\ [Next]_vars => IInv' /\ Step
<1> SUFFICES ASSUME WebOnly, IInv, [Next]_vars PROVE IInv' /\ Step
  OBVIOUS
<1>1. CASE UNCHANGED vars
  <2>1. TypeOK'
    BY <1>1, Before DEF TypeOK, vars
  <2> QED
    BY <1>1, <2>1, Stays DEF vars, transport
<1> QED
  BY <1>1, RequestSteps, ClientSteps, UserSteps, HostSteps DEF Next

-----------------------------------------------------------------------------
(* What the invariant says of every state.                                  *)

\* What the properties call at work is a worker.
LEMMA AtWorkIsWorker ==
  ASSUME NEW o \in Requests, AtWork(o) PROVE Worker(o)
BY DEF AtWork, Working, Worker

\* The three state properties follow from the invariant.
LEMMA StateFits ==
  ASSUME IInv
  PROVE  PhaseIsDriven /\ OneRequestAtWork /\ ClientMatchesMachine
<1>1. machine.state = "connecting" => \E o \in Requests : Working(o, "connect")
  <2> SUFFICES ASSUME machine.state = "connecting" PROVE \E o \in Requests : Working(o, "connect")
    OBVIOUS
  <2>1. PICK o \in Requests : Worker(o)
    BY Before DEF Steered
  <2>2. WorkerFits(o)
    BY Before
  <2>3. request[o].kind = "connect"
    BY <2>1, <2>2 DEF WorkerFits, InTerminal, Terminal
  <2> QED
    BY <2>1, <2>3 DEF Worker, Working
<1>2. machine.state = "attempting" => \E o \in Requests : Working(o, "reconnect")
  <2> SUFFICES ASSUME machine.state = "attempting" PROVE \E o \in Requests : Working(o, "reconnect")
    OBVIOUS
  <2>1. PICK o \in Requests : Worker(o)
    BY Before DEF Steered
  <2>2. WorkerFits(o)
    BY Before
  <2>3. request[o].kind = "reconnect"
    BY <2>1, <2>2 DEF WorkerFits, InTerminal, Terminal
  <2> QED
    BY <2>1, <2>3 DEF Worker, Working
<1>3. InReconnecting => credentials
  BY Before DEF InSession
<1>4. OneRequestAtWork
  <2> SUFFICES ASSUME NEW o \in Requests, NEW p \in Requests, AtWork(o), AtWork(p) PROVE o = p
    BY DEF OneRequestAtWork
  <2> QED
    BY AtWorkIsWorker, Before DEF WorkerFits
<1>5. ClientMatchesMachine
  BY LiveClient, Before DEF ClientMatchesMachine, InSession
<1> QED
  BY <1>1, <1>2, <1>3, <1>4, <1>5 DEF PhaseIsDriven

(* Nothing is installed for a machine that is idle, disconnected or         *)
(* terminal: the request that would install it is at work.                  *)
LEMMA StepInstallsAtWork ==
  ASSUME IInv, [Next]_vars, machine.state \in Terminal \cup {"idle", "disconnected"}
  PROVE  xmpp' \in {None, xmpp}
<1>1. \A o \in Requests : request[o].pc \in {"resolving", "preparing"} => request[o].cancelled
  <2> SUFFICES ASSUME NEW o \in Requests, request[o].pc \in {"resolving", "preparing"},
                      ~request[o].cancelled
               PROVE  FALSE
    OBVIOUS
  <2> QED
    BY Before DEF Worker, WorkerFits, Terminal
<1>2. ASSUME NEW o \in Requests, RequestStep(o) PROVE xmpp' \in {None, xmpp}
  <2>1. CASE BeginConnect(o) \/ NetworkNotReady(o) \/ Greeted(o)
    BY <2>1 DEF BeginConnect, NetworkNotReady, Greeted, transport
  <2>2. CASE ServerResolved(o)
    BY <1>1, <2>2 DEF ServerResolved, GiveUp, transport
  <2>3. CASE ProxyReady(o) \/ ProxyUnavailable(o) \/ PrecheckTimeout(o)
    <3>1. request[o].pc # "proxying"
      BY Before DEF RequestFits
    <3> QED
      BY <2>3, <3>1 DEF ProxyReady, ProxyUnavailable, PrecheckTimeout, transport
  <2>4. CASE ConnectFailed(o)
    BY <2>4 DEF ConnectFailed, GiveUp, FallBack, CleanupClient, transport
  <2>5. CASE AttemptReconnect(o)
    BY <2>5 DEF AttemptReconnect, CleanupClient, transport
  <2>6. CASE Prepared(o)
    BY <1>1, <2>6 DEF Prepared, GiveUp, transport
  <2>7. CASE ReconnectFailed(o)
    BY <2>7 DEF ReconnectFailed, GiveUp, FallBack, CleanupClient, transport
  <2>8. CASE AttemptTimeout(o)
    BY <2>8 DEF AttemptTimeout
  <2> QED
    BY <1>2, <2>1, <2>2, <2>3, <2>4, <2>5, <2>6, <2>7, <2>8 DEF RequestStep
<1> QED
  BY <1>2, OtherStepsInstallNothing DEF Next, vars

(* A new attemptReconnect() takes a slot that nobody cancelled.             *)
LEMMA HandleLeaves ==
  ASSUME IInv, NEW o \in Requests, request[o].cancelled,
         NEW next, NEW requests \in [Requests -> Request], Handle(next, requests)
  PROVE  request'[o] = requests[o]
<1>1. ASSUME NEW q \in Requests, Free(q) PROVE q # o
  <2>1. request[q] = Done /\ ~Done.cancelled
    BY <1>1, Before DEF Free, RequestFits, Done, New
  <2> QED
    BY <2>1
<1> QED
  BY <1>1 DEF Handle

(* A cancelled request moves only without the machine.                      *)
LEMMA StepIsSilent ==
  ASSUME IInv, [Next]_vars, WebOnly, NEW o \in Requests, request[o].cancelled, request'[o] # request[o]
  PROVE  machine' = machine
<1>1. /\ request \in [Requests -> Request] /\ RequestFits(o)
      /\ \A p \in Requests : /\ Finish(p) \in [Requests -> Request]
                             /\ \A pc \in Pcs : Move(p, pc) \in [Requests -> Request]
                             /\ p # o => Finish(p)[o] = request[o] /\ \A pc \in Pcs : Move(p, pc)[o] = request[o]
  BY Before, RequestUpdates DEF Finish, Move
<1>2. ASSUME NEW p \in Requests, p # o, RequestStep(p) PROVE machine' = machine
  <2>1. ASSUME NEW next, NEW requests \in {Finish(p)} \cup {Move(p, pc) : pc \in Pcs},
               Handle(next, requests)
        PROVE  FALSE
    <3>1. requests \in [Requests -> Request] /\ requests[o] = request[o]
      BY <1>1, <1>2
    <3> QED
      BY <2>1, <3>1, HandleLeaves
  <2>2. CASE BeginConnect(p)
    BY <2>1, <2>2 DEF BeginConnect, Pcs
  <2>3. CASE ConnectFailed(p)
    BY <2>1, <2>3 DEF ConnectFailed, GiveUp, FallBack
  <2>4. CASE AttemptReconnect(p)
    BY <1>1, <2>1, <2>4 DEF AttemptReconnect
  <2>5. CASE NetworkNotReady(p)
    BY <2>1, <2>5 DEF NetworkNotReady
  <2>6. CASE Prepared(p)
    BY <2>1, <2>6 DEF Prepared, GiveUp, Try, Pcs
  <2>7. CASE ReconnectFailed(p)
    BY <2>1, <2>7 DEF ReconnectFailed, GiveUp, FallBack
  <2>8. CASE \/ ServerResolved(p) \/ ProxyReady(p) \/ ProxyUnavailable(p) \/ PrecheckTimeout(p)
             \/ Greeted(p) \/ AttemptTimeout(p)
    BY <2>8 DEF ServerResolved, ProxyReady, ProxyUnavailable, PrecheckTimeout, Greeted,
                AttemptTimeout, GiveUp, Try
  <2> QED
    BY <1>2, <2>2, <2>3, <2>4, <2>5, <2>6, <2>7, <2>8 DEF RequestStep
<1>3. CASE RequestStep(o)
  <2>1. request[o].pc # "starting"
    BY <1>1 DEF RequestFits
  <2> QED
    BY <1>3, <2>1 DEF RequestStep, BeginConnect, ServerResolved, ProxyReady, ProxyUnavailable,
                      PrecheckTimeout, ConnectFailed, AttemptReconnect, NetworkNotReady, Prepared,
                      ReconnectFailed, Greeted, AttemptTimeout, GiveUp, Try, FallBack
<1>4. ASSUME NEW c \in Clients, ClientEvent(c) PROVE machine' = machine
  <2>1. client[c].phase # "gone" => \A e : Rejected(c, e)[o] = request[o]
    <3> SUFFICES ASSUME client[c].phase # "gone", NEW e PROVE Rejected(c, e)[o] = request[o]
      OBVIOUS
    <3>1. client[c].unsettled /\ Awaits(o, c) => ~request[c[1]].cancelled /\ c[1] = o
      BY Before, ClientIds DEF ClientFits, Awaits
    <3> QED
      BY <3>1 DEF Rejected
  <2>2. ASSUME NEW next, NEW e \in Errors, Handle(next, Rejected(c, e)), client[c].phase # "gone"
        PROVE  FALSE
    <3>1. Rejected(c, e) \in [Requests -> Request]
      BY Before, RejectedType
    <3> QED
      BY <2>1, <2>2, <3>1, HandleLeaves
  <2>3. "transport" \in Errors
    BY DEF Errors
  <2>4. CASE Live(c)
    <3>1. client[c].phase # "gone" /\ ~recovering
      BY <2>4, Before DEF Live, InSession
    <3>2. CASE Online(c)
      <4> DEFINE R == [p \in Requests |-> IF ~Awaits(p, c) THEN request[p]
                                          ELSE IF xmpp = None THEN Done
                                          ELSE [request[p] EXCEPT !.pc = "greeting"]]
      <4>1. R \in [Requests -> Request]
        BY Before, Fresh DEF Request, Pcs
      <4>2. ~Awaits(o, c)
        BY <3>2, Before, ClientIds DEF Online, ClientFits, Awaits
      <4>3. R[o] = request[o]
        BY <4>2
      <4> HIDE DEF R
      <4>4. Handle(OnConnectionSuccess(machine), R) => request'[o] = R[o]
        BY <4>1, HandleLeaves
      <4> QED
        BY <3>2, <4>3, <4>4 DEF Online, R
    <3>3. CASE StartRejected(c)
      BY <3>3 DEF StartRejected
    <3>4. CASE FatalError(c)
      BY <2>2, <2>3, <3>1, <3>4 DEF FatalError, ConnectionReject
    <3>5. CASE ServerShutdown(c)
      BY <2>2, <2>3, <3>1, <3>5 DEF ServerShutdown, ConnectionReject
    <3>6. CASE TransportError(c)
      <4>1. xmpp # None
        BY <2>4, LiveClient, ClientIds
      <4> QED
        BY <2>2, <2>3, <3>1, <3>6, <4>1 DEF TransportError, ConnectionReject
    <3>7. CASE Disconnected(c)
      BY <2>2, <2>3, <3>1, <3>7 DEF Disconnected
    <3>8. CASE DisconnectTail(c)
      BY <3>8 DEF DisconnectTail
    <3> QED
      BY <1>4, <3>2, <3>3, <3>4, <3>5, <3>6, <3>7, <3>8 DEF ClientEvent
  <2>5. CASE ~Live(c)
    <3>1. CASE Disconnected(c)
      BY <2>2, <2>3, <3>1 DEF Disconnected
    <3> QED
      BY <1>4, <2>5, <3>1 DEF ClientEvent, Online, StartRejected, FatalError, ServerShutdown,
                              TransportError, DisconnectTail, Live
  <2> QED
    BY <2>4, <2>5
<1>5. ASSUME NEW next, Handle(next, request) PROVE FALSE
  BY <1>1, <1>5, HandleLeaves
<1>6. CASE UserCall
  <2>1. CASE RequestConnect
    BY <2>1 DEF RequestConnect
  <2>2. CASE CancelReconnect
    BY <2>2 DEF CancelReconnect, WebOnly
  <2>3. CASE Disconnect
    <3> DEFINE R == [p \in Requests |-> IF request[p].pc = "done" THEN request[p]
                                        ELSE [request[p] EXCEPT !.cancelled = TRUE]]
    <3>1. R \in [Requests -> Request]
      BY <1>1 DEF Request
    <3>2. R[o] = request[o]
      BY <1>1 DEF Request
    <3> HIDE DEF R
    <3>3. Handle(OnDisconnect(machine), R) => request'[o] = R[o]
      BY <3>1, HandleLeaves
    <3> QED
      BY <2>3, <3>2, <3>3 DEF Disconnect, R
  <2> QED
    BY <1>6, <2>1, <2>2, <2>3 DEF UserCall
<1>7. CASE HostEvent
  <2>1. CASE Visible \/ Sleeping \/ ReconnectTimer \/ VerifyTimer
    BY <1>5, <2>1 DEF Visible, Sleeping, ReconnectTimer, VerifyTimer
  <2>2. CASE WakeNetwork \/ WakeVerified
    <3>1. wake.pc = "none"
      BY Before DEF InSession, AtRest
    <3> QED
      BY <2>2, <3>1 DEF WakeNetwork, WakeVerified
  <2>3. CASE ProbeDone
    BY <1>5, <2>3 DEF ProbeDone, HandleDeadSocket
  <2>4. ASSUME NEW d \in Durations, NotifyAwake(d) PROVE machine' = machine
    BY <2>4 DEF NotifyAwake, WebOnly
  <2>5. ASSUME NEW d \in Durations, NEW active, KeepaliveTick(active, d) PROVE machine' = machine
    BY <1>5, <2>5 DEF KeepaliveTick
  <2> QED
    BY <1>7, <2>1, <2>2, <2>3, <2>4, <2>5 DEF HostEvent
<1> QED
  BY <1>2, <1>3, <1>4, <1>6, <1>7 DEF Next, vars

(* A failed request leaves the queue by itself, and only attemptReconnect() *)
(* clears a client then: its own.                                           *)
LEMMA StepSpares ==
  ASSUME ~HasProxy, TypeOK, [Next]_vars, NEW o \in Requests,
         request[o].pc = "failed", request'[o].pc # "failed",
         xmpp # None, OwnerOf(xmpp) # o
  PROVE  xmpp' = xmpp
<1>1. ~Quiet /\ request \in [Requests -> Request]
  BY DEF Quiet, Pending, TypeOK, Request
<1>2. ASSUME NEW p \in Requests, p # o, NEW requests, requests[o].pc = "failed", NEW next,
             Handle(next, requests)
      PROVE  request'[o].pc = "failed" \/ requests \notin [Requests -> Request]
  BY <1>2 DEF Handle, Free
<1>3. ASSUME NEW p \in Requests, RequestStep(p) PROVE xmpp' = xmpp
  <2>1. \/ ConnectFailed(p) \/ ReconnectFailed(p) \/ AttemptReconnect(p)
    BY <1>1, <1>3 DEF RequestStep, BeginConnect, ServerResolved, ProxyReady, ProxyUnavailable,
                      PrecheckTimeout, NetworkNotReady, Prepared, Greeted, AttemptTimeout
  <2>2. CASE p = o
    <3>1. CASE ConnectFailed(o)
      BY <3>1 DEF ConnectFailed, FallsBack, GiveUp, transport
    <3>2. CASE ReconnectFailed(o)
      <4>1. CASE UNCHANGED transport
        BY <4>1 DEF transport
      <4>2. CASE xmpp \in {None, <<o, request[o].stage>>}
        BY <4>2 DEF OwnerOf
      <4> QED
        BY <3>2, <4>1, <4>2 DEF ReconnectFailed, FallsBack, GiveUp
    <3> QED
      BY <2>1, <2>2, <3>1, <3>2 DEF AttemptReconnect
  <2>3. CASE p # o
    <3>1. /\ Finish(p) \in [Requests -> Request] /\ Finish(p)[o] = request[o]
          /\ Move(p, "preparing")[o] = request[o]
      BY <1>1, <2>3, RequestUpdates DEF Finish, Move
    <3>2. \A next : ~Handle(next, Finish(p))
      BY <1>2, <2>3, <3>1
    <3>3. request' # Finish(p) /\ request' # Move(p, "preparing")
      BY <3>1
    <3> QED
      BY <2>1, <3>2, <3>3 DEF ConnectFailed, ReconnectFailed, AttemptReconnect, FallsBack, GiveUp
  <2> QED
    BY <2>2, <2>3
<1>4. CASE (\E c \in Clients : ClientEvent(c)) \/ UserCall \/ HostEvent
  BY <1>1, <1>4 DEF ClientEvent, Online, StartRejected, FatalError, ServerShutdown, TransportError,
     Disconnected, DisconnectTail, UserCall, RequestConnect, Disconnect, CancelReconnect,
     HostEvent, Visible, Sleeping, WakeNetwork, WakeVerified, ProbeDone, ReconnectTimer,
     VerifyTimer, NotifyAwake, KeepaliveTick
<1> QED
  BY <1>3, <1>4 DEF Next, vars

-----------------------------------------------------------------------------
(* The theorems.                                                            *)

(* A machine that waits for an outcome has a request that will report one.  *)
THEOREM PhaseCorrect == ASSUME WebOnly PROVE Spec => []PhaseIsDriven
<1>1. IInv => PhaseIsDriven
  BY StateFits
<1>2. IInv /\ [Next]_vars => IInv'
  BY StepFits
<1> QED
  BY <1>1, <1>2, InitFits, PTL DEF Spec

(* Two requests never work at a time, however many callers race.            *)
THEOREM OneRequestCorrect == ASSUME WebOnly PROVE Spec => []OneRequestAtWork
<1>1. IInv => OneRequestAtWork
  BY StateFits
<1>2. IInv /\ [Next]_vars => IInv'
  BY StepFits
<1> QED
  BY <1>1, <1>2, InitFits, PTL DEF Spec

(* The machine and the one client describe each other.                      *)
THEOREM ClientCorrect == ASSUME WebOnly PROVE Spec => []ClientMatchesMachine
<1>1. IInv => ClientMatchesMachine
  BY StateFits
<1>2. IInv /\ [Next]_vars => IInv'
  BY StepFits
<1> QED
  BY <1>1, <1>2, InitFits, PTL DEF Spec

(* Nothing is installed while the machine is idle, stopped or terminal.     *)
THEOREM StoppedCorrect == ASSUME WebOnly PROVE Spec => NothingInstalledWhenStopped
<1>1. IInv /\ [Next]_vars
        => (machine.state \in Terminal \cup {"idle", "disconnected"} => xmpp' \in {None, xmpp})
  BY StepInstallsAtWork
<1>2. IInv /\ [Next]_vars => IInv'
  BY StepFits
<1> QED
  BY <1>1, <1>2, InitFits, PTL DEF Spec, NothingInstalledWhenStopped

(* A cancelled request sends nothing to the machine.                        *)
THEOREM SilenceCorrect == ASSUME WebOnly PROVE Spec => CancelledIsSilent
<1>1. IInv /\ [Next]_vars
        => (\A o \in Requests : request[o].cancelled /\ request'[o] # request[o]
                                   => machine' = machine)
  BY StepIsSilent
<1>2. IInv /\ [Next]_vars => IInv'
  BY StepFits
<1> QED
  BY <1>1, <1>2, InitFits, PTL DEF Spec, CancelledIsSilent

(* Clients, requests and machine together implement the abstract session.   *)
THEOREM SessionCorrect == ASSUME WebOnly PROVE Spec => SessionImplemented
<1>1. IInv /\ [Next]_vars => IInv' /\ [Session!Next]_(Session!vars)
  BY StepFits DEF Step
<1> QED
  BY <1>1, InitFits, PTL DEF Spec, SessionImplemented, Session!Spec

(* Without a proxy to fall back to, a request that fails clears no client   *)
(* but its own, whatever the user, the app and the host do.                 *)
THEOREM FailureCorrect == ASSUME ~HasProxy PROVE Spec => FailureSparesOthers
<1>1. TypeOK /\ [Next]_vars
        => (\A o \in Requests :
              request[o].pc = "failed" /\ request'[o].pc # "failed"
              /\ xmpp # None /\ OwnerOf(xmpp) # o => xmpp' = xmpp)
  BY StepSpares
<1> QED
  BY <1>1, InitTypes, StepTypes, PTL DEF Spec, FailureSparesOthers
=============================================================================
