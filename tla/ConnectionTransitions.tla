------------------------ MODULE ConnectionTransitions ------------------------
(***************************************************************************)
(* The XState chart of core/connectionMachine.ts as a value and one        *)
(* operator per event: OnX(m) is the snapshot the actor holds after event  *)
(* X reached it in snapshot m.  An event a state does not list leaves m    *)
(* unchanged, as in XState.  XState handles an event synchronously, so a   *)
(* handler that sends several events in one turn composes the operators.   *)
(*                                                                         *)
(* Time is measured in units of which only the order against the SM resume *)
(* window matters; Date.now() - sleepStartTime is kept as the elapsed time *)
(* `slept', and reconnectTargetTime as whether one is set.                 *)
(*                                                                         *)
(* An operator named for a slip (ResetKeepsAttempt) is a faulty variant of *)
(* one below it.  No action uses it; it records a change of the code that  *)
(* a property is known to notice.                                          *)
(***************************************************************************)
EXTENDS Integers

CONSTANTS InitialDelay,   \* INITIAL_RECONNECT_DELAY
          MaxDelay,       \* MAX_RECONNECT_DELAY
          Multiplier,     \* RECONNECT_MULTIPLIER
          DefaultWindow,  \* SM_SESSION_TIMEOUT_MS
          Windows,        \* the resume windows a server may announce
          MaxSlept,       \* bound on a measured sleep
          MaxAttempt      \* bound on reconnectAttempt, unbounded in the code

ASSUME DelayAssumption ==
    /\ InitialDelay \in Nat \ {0}
    /\ MaxDelay \in Nat \ {0}
    /\ Multiplier \in Nat \ {0}

ASSUME WindowAssumption ==
    /\ Windows \subseteq Nat
    /\ DefaultWindow \in Windows
    /\ MaxSlept \in Nat

ASSUME MaxAttemptAssumption == MaxAttempt \in Nat \ {0}

Awake == -1                    \* sleepStartTime === null
Durations == 0..MaxSlept       \* an omitted sleepDurationMs counts as 0

Connected    == {"healthy", "sleeping", "verifying"}
Reconnecting == {"waiting", "attempting", "paused"}
Terminal     == {"conflict", "authFailed", "maxRetries", "initialFailure"}
States       == {"idle", "connecting", "disconnected"}
                    \cup Connected \cup Reconnecting \cup Terminal

ErrorKinds == {"none", "transport", "conflict", "auth"}

ComputeBackoffDelay(attempt) ==
    LET grown == InitialDelay * Multiplier ^ (attempt - 1)
    IN  IF grown < MaxDelay THEN grown ELSE MaxDelay

InitialMachine ==
    [state |-> "idle", attempt |-> 0, delay |-> 0, targetSet |-> FALSE,
     lastError |-> "none", smResumeViable |-> TRUE, slept |-> Awake,
     retryInitial |-> FALSE, displayAsleep |-> FALSE, window |-> DefaultWindow]

-----------------------------------------------------------------------------
(* The chart's actions.                                                     *)

ResetKeepsAttempt(m) == [InitialMachine EXCEPT !.state = m.state, !.window = m.window,
                                               !.attempt = m.attempt, !.delay = m.delay]
ResetReconnectState(m) == [InitialMachine EXCEPT !.state = m.state, !.window = m.window]

IncrementAttempt(m) ==
    [m EXCEPT !.attempt = m.attempt + 1,
              !.delay = ComputeBackoffDelay(m.attempt + 1),
              !.targetSet = TRUE]

Enter(m, s) == [m EXCEPT !.state = s]

\* Into reconnecting.waiting after a loss or a failed attempt.
BackOff(m) == Enter(IncrementAttempt(m), "waiting")

AttemptKeepsTarget(m) == Enter(m, "attempting")

\* Into reconnecting.attempting: the countdown is over.
Attempt(m) == [m EXCEPT !.state = "attempting", !.targetSet = FALSE]

MarkResume(m, viable) == [m EXCEPT !.smResumeViable = viable]

\* A sleep past the window rules out resumption; a shorter one decides nothing.
NoteSleep(m, duration) == IF duration > m.window THEN MarkResume(m, FALSE) ELSE m

Fail(m, terminal, error) == [m EXCEPT !.state = terminal, !.lastError = error]

-----------------------------------------------------------------------------
(* Events.                                                                  *)

OnSetRetryInitial(m, retry) == [m EXCEPT !.retryInitial = retry]

OnSmEnabledInSeconds(m, window) == [m EXCEPT !.window = window * 1000]
OnSmEnabled(m, window) == [m EXCEPT !.window = window]

OnConnect(m) ==
    CASE m.state \in {"idle", "disconnected"} -> [m EXCEPT !.state = "connecting",
                                                           !.lastError = "none"]
      [] m.state \in Terminal -> Enter(ResetReconnectState(m), "connecting")
      [] OTHER -> m

OnDisconnect(m) ==
    IF m.state \in {"connecting"} \cup Connected \cup Reconnecting
    THEN Enter(ResetReconnectState(m), "disconnected")
    ELSE m

OnCancelReconnect(m) ==
    IF m.state \in Reconnecting THEN Enter(ResetReconnectState(m), "disconnected") ELSE m

OnConnectionSuccessEverywhere(m) == Enter(ResetReconnectState(m), "healthy")
OnConnectionSuccess(m) ==
    IF m.state \in {"connecting", "waiting", "attempting"}
    THEN Enter(ResetReconnectState(m), "healthy")
    ELSE m

OnConnectionError(m) ==
    CASE m.state = "connecting" /\ m.retryInitial -> BackOff([m EXCEPT !.lastError = "transport"])
      [] m.state = "connecting" /\ ~m.retryInitial -> Fail(m, "initialFailure", "transport")
      [] m.state = "attempting" -> BackOff([m EXCEPT !.lastError = "transport"])
      [] OTHER -> m

FatalResetsLast(m, terminal, error) ==
    IF m.state \in {"connecting"} \cup Connected \cup Reconnecting
    THEN ResetReconnectState(Fail(m, terminal, error))
    ELSE m
\* CONFLICT and AUTH_ERROR reset the context except from the connected states.
Fatal(m, terminal, error) ==
    CASE m.state \in Connected -> Fail(m, terminal, error)
      [] m.state \in {"connecting"} \cup Reconnecting ->
             Fail(ResetReconnectState(m), terminal, error)
      [] OTHER -> m

OnConflict(m)  == Fatal(m, "conflict", "conflict")
OnAuthError(m) == Fatal(m, "authFailed", "auth")

OnSocketDiedAlwaysResumes(m) ==
    IF m.state \in Connected \cup {"attempting"}
    THEN [MarkResume(BackOff(m), TRUE) EXCEPT !.slept = Awake]
    ELSE m
OnSocketDied(m) ==
    CASE m.state = "healthy" -> MarkResume(BackOff(m), TRUE)
      [] m.state = "sleeping" -> [MarkResume(BackOff(m), m.slept <= m.window) EXCEPT !.slept = Awake]
      [] m.state \in {"verifying", "attempting"} -> BackOff(m)
      [] OTHER -> m

OnSleep(m) ==
    IF m.state \in {"healthy", "verifying"}
    THEN [m EXCEPT !.state = "sleeping", !.slept = 0]
    ELSE m

WokeTooLate(m) == MarkResume(BackOff(m), FALSE)

OnWakeResetsBackoff(m, duration) ==
    CASE m.state = "waiting" -> Attempt(IncrementAttempt([m EXCEPT !.attempt = 0]))
      [] m.state = "attempting" -> BackOff([m EXCEPT !.attempt = 0])
      [] OTHER -> m
OnWake(m, duration) ==
    CASE m.state = "healthy" ->
             IF duration > m.window THEN WokeTooLate(m) ELSE Enter(m, "verifying")
      [] m.state = "sleeping" ->
             [IF duration > m.window THEN WokeTooLate(m) ELSE Enter(m, "verifying")
                 EXCEPT !.slept = Awake]
      [] m.state = "waiting" -> NoteSleep(Attempt(m), duration)
      [] m.state = "attempting" -> NoteSleep(BackOff(m), duration)
      [] OTHER -> m

OnVisible(m) == IF m.state = "waiting" THEN Attempt(m) ELSE m

OnVerifySuccess(m) == IF m.state = "verifying" THEN Enter(m, "healthy") ELSE m

OnVerifyFailed(m) == IF m.state = "verifying" THEN BackOff(m) ELSE m

OnTriggerReconnectKeepsGate(m) == IF m.state \in {"waiting", "paused"} THEN Attempt(m) ELSE m
OnTriggerReconnect(m) ==
    CASE m.state = "waiting" -> Attempt(m)
      [] m.state = "paused"  -> [Attempt(m) EXCEPT !.displayAsleep = FALSE]
      [] OTHER -> m

OnDisplayInactive(m) ==
    IF m.state = "waiting" THEN [m EXCEPT !.state = "paused", !.displayAsleep = TRUE] ELSE m

OnDisplayActive(m, duration) ==
    IF m.state \in {"waiting", "paused"}
    THEN NoteSleep([Attempt(m) EXCEPT !.displayAsleep = FALSE], duration)
    ELSE m

\* The `after' timers: armed on entry, disarmed on exit of their state.
OnReconnectTimer(m) == IF m.state = "waiting" THEN Attempt(m) ELSE m
OnVerifyTimerDisarmed(m) == m
OnVerifyTimer(m)    == IF m.state = "verifying" THEN BackOff(m) ELSE m

\* getConnectionStatusFromState: what the store and the UI see.
StatusOf(s) ==
    CASE s \in {"idle", "disconnected"} -> "disconnected"
      [] s = "connecting"   -> "connecting"
      [] s \in Connected    -> "online"
      [] s \in Reconnecting -> "reconnecting"
      [] s \in Terminal     -> "error"

-----------------------------------------------------------------------------
(* What holds of a snapshot, stated of a value so that every module that   *)
(* holds a machine can use it.                                             *)

Delays == {0} \cup {ComputeBackoffDelay(n) : n \in 1..MaxAttempt}

Machines ==
    [state: States, attempt: 0..MaxAttempt, delay: Delays, targetSet: BOOLEAN,
     lastError: ErrorKinds, smResumeViable: BOOLEAN, slept: {Awake} \cup Durations,
     retryInitial: BOOLEAN, displayAsleep: BOOLEAN, window: Windows]

BackoffConsistent(m) ==
    /\ m.attempt > 0 <=> m.state \in Reconnecting
    /\ m.delay = IF m.attempt = 0 THEN 0 ELSE ComputeBackoffDelay(m.attempt)

CountdownConsistent(m) ==
    /\ m.state = "waiting" => m.targetSet
    /\ m.targetSet => m.state \in {"waiting", "paused"}

DisplayConsistent(m) == m.displayAsleep <=> m.state = "paused"

SleepConsistent(m) ==
    /\ m.state = "sleeping" => m.slept # Awake
    /\ m.slept # Awake => m.state \in {"sleeping"} \cup Terminal

StartsClean(m) ==
    /\ m.state \notin Reconnecting => m.smResumeViable
    /\ m.state \in {"idle", "disconnected", "connecting"} \cup Connected => m.lastError = "none"

ErrorConsistent(m) ==
    /\ m.state = "conflict" => m.lastError = "conflict"
    /\ m.state = "authFailed" => m.lastError = "auth"
    /\ m.state = "initialFailure" => m.lastError = "transport"

\* The inductive invariant: its parts hold together or not at all.
Consistent(m) == /\ m \in Machines
                 /\ BackoffConsistent(m)
                 /\ CountdownConsistent(m)
                 /\ DisplayConsistent(m)
                 /\ SleepConsistent(m)
                 /\ StartsClean(m)
                 /\ ErrorConsistent(m)
=============================================================================
