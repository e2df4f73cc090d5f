-------------------------- MODULE ConnectionMachine --------------------------
(***************************************************************************)
(* The connection actor of core/connectionMachine.ts on its own: any event *)
(* of ConnectionMachineEvent may reach it in any state, and its two timers *)
(* may fire.  core/modules/Connection.ts, which sends these events, is the *)
(* subject of module Connection.                                           *)
(***************************************************************************)
EXTENDS ConnectionTransitions

VARIABLE machine      \* the snapshot: state value and context

Init == machine = InitialMachine

\* An event is handled at once; the bound cuts only the attempt counter.
Handle(next) == /\ next.attempt <= MaxAttempt
                /\ machine' = next

SetRetryInitial  == \E retry \in BOOLEAN : Handle(OnSetRetryInitial(machine, retry))
SmEnabled        == \E window \in Windows : Handle(OnSmEnabled(machine, window))
Connect          == Handle(OnConnect(machine))
Disconnect       == Handle(OnDisconnect(machine))
CancelReconnect  == Handle(OnCancelReconnect(machine))
ConnectionSuccess == Handle(OnConnectionSuccess(machine))
ConnectionError  == Handle(OnConnectionError(machine))
Conflict         == Handle(OnConflict(machine))
AuthError        == Handle(OnAuthError(machine))
SocketDied       == Handle(OnSocketDied(machine))
Sleep            == Handle(OnSleep(machine))
Wake             == \E d \in Durations : Handle(OnWake(machine, d))
Visible          == Handle(OnVisible(machine))
VerifySuccess    == Handle(OnVerifySuccess(machine))
VerifyFailed     == Handle(OnVerifyFailed(machine))
TriggerReconnect == Handle(OnTriggerReconnect(machine))
DisplayInactive  == Handle(OnDisplayInactive(machine))
DisplayActive    == \E d \in Durations : Handle(OnDisplayActive(machine, d))
ReconnectTimer   == Handle(OnReconnectTimer(machine))
VerifyTimer      == Handle(OnVerifyTimer(machine))

\* Date.now() advances against a recorded sleepStartTime.
TimePasses ==
    /\ machine.slept \in 0..MaxSlept - 1
    /\ machine' = [machine EXCEPT !.slept = machine.slept + 1]

UserEvent   == Connect \/ Disconnect \/ CancelReconnect \/ TriggerReconnect \/ SetRetryInitial
StreamEvent == \/ ConnectionSuccess \/ ConnectionError \/ Conflict \/ AuthError
               \/ SocketDied \/ SmEnabled \/ VerifySuccess \/ VerifyFailed
HostEvent   == Sleep \/ Wake \/ Visible \/ DisplayInactive \/ DisplayActive

Next == UserEvent \/ StreamEvent \/ HostEvent \/ ReconnectTimer \/ VerifyTimer \/ TimePasses

\* XState's interpreter fires an armed `after' timer; nothing else is owed.
Fairness == WF_machine(ReconnectTimer) /\ WF_machine(VerifyTimer)

Spec == Init /\ [][Next]_machine /\ Fairness

-----------------------------------------------------------------------------
(* The snapshot always has the shape of ConnectionMachineContext.           *)
TypeOK == machine \in Machines

(* Header invariant 4, "backoff context is always consistent with the      *)
(* current state": an attempt is being counted exactly while reconnecting, *)
(* and the delay the next timer will be armed with is the one this attempt *)
(* earned, so a session never inherits the previous session's backoff.     *)
BackoffMatchesState == BackoffConsistent(machine)

(* The countdown the UI shows is never missing while the timer runs, and   *)
(* never left over from a ladder that ended: a target time exists in every *)
(* waiting state and outside waiting and paused there is none.             *)
CountdownMatchesTimer == CountdownConsistent(machine)

(* Nothing of the context outlives the state it belongs to: the display     *)
(* gate is set in paused alone, a sleep measurement lives only while asleep *)
(* (a socket death would read a stale one as a long sleep) or after a fatal *)
(* error that ended the sleep and resets nothing, and a session starts with *)
(* resumption possible and no old error, whatever ended the one before it.  *)
NothingOutlivesItsState ==
    DisplayConsistent(machine) /\ SleepConsistent(machine) /\ StartsClean(machine)

(* A terminal state always shows the user the error that led to it, also   *)
(* when the fatal stream error is followed by start()'s own rejection.     *)
TerminalExplained == ErrorConsistent(machine)

(* Header invariant 2: a terminal state blocks every automatic recovery,   *)
(* however many late successes, deaths, wakes and timers still arrive.     *)
TerminalOnlyLeftByConnect ==
    [][machine.state \in Terminal /\ machine'.state # machine.state
          => machine'.state = "connecting" /\ machine'.attempt = 0]_machine

(* Kicks, wakes, pauses and failures may shorten a wait but never forget   *)
(* an attempt: while reconnecting, the ladder only goes up.                *)
LadderNeverResets ==
    [][machine.state \in Reconnecting /\ machine'.state \in Reconnecting
          => machine'.attempt \in {machine.attempt, machine.attempt + 1}]_machine

(* Once a sleep outlived the server's resume window, no later death, short *)
(* wake or display event makes the lost session look resumable again: only *)
(* the end of this reconnection does.                                      *)
LostSessionStaysLost ==
    [][machine.state \in Reconnecting /\ ~machine.smResumeViable
          => machine'.smResumeViable = (machine'.state \notin Reconnecting)]_machine

(* The machine never sticks in a waiting or verifying state: each of these *)
(* is bounded by an `after' timer (paused, by design, is not).             *)
TimedStatesEnd ==
    /\ machine.state = "waiting" ~> machine.state # "waiting"
    /\ machine.state = "verifying" ~> machine.state # "verifying"

=============================================================================
