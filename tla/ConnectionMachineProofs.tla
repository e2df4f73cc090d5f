----------------------- MODULE ConnectionMachineProofs -----------------------
(***************************************************************************)
(* Every event of the chart keeps a snapshot consistent, for any delays,   *)
(* windows and bounds.  The lemmas are about the operators of module       *)
(* ConnectionTransitions; the theorems put them together for the actor.    *)
(***************************************************************************)
EXTENDS ConnectionMachine, TLAPS

(* A reset leaves only the resume window of the old context.                *)
LEMMA Resetting ==
  ASSUME NEW m \in Machines, NEW s \in States
  PROVE  LET r == Enter(ResetReconnectState(m), s)
         IN  /\ r \in Machines
             /\ r.state = s /\ r.attempt = 0 /\ r.delay = 0 /\ ~r.targetSet
             /\ r.lastError = "none" /\ r.smResumeViable /\ r.slept = Awake
             /\ ~r.displayAsleep
<1> DEFINE Blank(r) == /\ r \in Machines
                       /\ r.attempt = 0 /\ r.delay = 0 /\ ~r.targetSet
                       /\ r.lastError = "none" /\ r.smResumeViable /\ r.slept = Awake
                       /\ ~r.displayAsleep
<1>1. InitialMachine \in Machines
  BY WindowAssumption, MaxAttemptAssumption
     DEF InitialMachine, Machines, Delays, ErrorKinds, States
<1>2. Blank(InitialMachine)
  BY <1>1 DEF InitialMachine
<1>3. m.state \in States /\ m.window \in Windows
  BY DEF Machines
<1>4. Blank(ResetReconnectState(m))
  BY <1>2, <1>3 DEF ResetReconnectState, Machines
<1>5. Blank(Enter(ResetReconnectState(m), s)) /\ Enter(ResetReconnectState(m), s).state = s
  BY <1>4 DEF Enter, Machines
<1> QED
  BY <1>5

(* A loss arms the timer with the delay of the next attempt.                *)
LEMMA BackingOff ==
  ASSUME NEW m \in Machines, m.attempt + 1 <= MaxAttempt
  PROVE  LET b == BackOff(m)
         IN  /\ b \in Machines
             /\ b.state = "waiting" /\ b.attempt = m.attempt + 1 /\ b.attempt > 0
             /\ b.delay = ComputeBackoffDelay(b.attempt) /\ b.targetSet
             /\ b.lastError = m.lastError /\ b.smResumeViable = m.smResumeViable
             /\ b.slept = m.slept /\ b.displayAsleep = m.displayAsleep /\ b.window = m.window
<1> DEFINE n == m.attempt + 1
<1>1. m.attempt \in 0..MaxAttempt
  BY DEF Machines
<1>2. n \in 1..MaxAttempt
  BY <1>1, MaxAttemptAssumption
<1>3. ComputeBackoffDelay(n) \in Delays
  BY <1>2 DEF Delays
<1>4. BackOff(m) = [m EXCEPT !.attempt = n, !.delay = ComputeBackoffDelay(n),
                             !.targetSet = TRUE, !.state = "waiting"]
  BY DEF BackOff, IncrementAttempt, Enter, Machines
<1> HIDE DEF n
<1>5. "waiting" \in States
  BY DEF States, Reconnecting
<1>6. n \in 0..MaxAttempt /\ n > 0
  BY <1>2
<1> QED
  BY <1>3, <1>4, <1>5, <1>6 DEF Machines, n

(* The bound on attempts is a bound on the losses counted so far.           *)
LEMMA LossCounted ==
  ASSUME NEW m \in Machines
  PROVE  BackOff(m).attempt = m.attempt + 1
  BY DEF BackOff, IncrementAttempt, Enter, Machines

-----------------------------------------------------------------------------
(* One lemma per way an event changes a snapshot.                           *)

(* A fresh state outside reconnecting, entered by a reset, is consistent.   *)
LEMMA ResetConsistent ==
  ASSUME NEW m \in Machines,
         NEW s \in {"idle", "connecting", "disconnected", "healthy", "verifying"}
  PROVE  Consistent(Enter(ResetReconnectState(m), s))
<1>1. s \in States
  BY DEF States, Connected
<1> QED
  BY <1>1, Resetting
     DEF Consistent, BackoffConsistent, CountdownConsistent, DisplayConsistent,
         SleepConsistent, StartsClean, ErrorConsistent, Connected, Reconnecting, Terminal

(* A fatal error during an attempt: reset, then the error is set.           *)
LEMMA ResetFailConsistent ==
  ASSUME NEW m \in Machines, NEW t \in {"conflict", "authFailed"},
         NEW e \in {"conflict", "auth"}, t = "conflict" <=> e = "conflict"
  PROVE  Consistent(Fail(ResetReconnectState(m), t, e))
<1>1. t \in States /\ e \in ErrorKinds
  BY DEF States, Terminal, ErrorKinds
<1> DEFINE r == Enter(ResetReconnectState(m), t)
<1>2. Fail(ResetReconnectState(m), t, e) = [r EXCEPT !.lastError = e]
  BY DEF Fail, Enter, ResetReconnectState, InitialMachine
<1>3. /\ r \in Machines
      /\ r.state = t /\ r.attempt = 0 /\ r.delay = 0 /\ ~r.targetSet
      /\ r.smResumeViable /\ r.slept = Awake /\ ~r.displayAsleep
  BY <1>1, Resetting
<1> HIDE DEF r
<1>4. [r EXCEPT !.lastError = e] \in Machines
  BY <1>1, <1>3 DEF Machines
<1> QED
  BY <1>2, <1>3, <1>4
     DEF Machines, Consistent, BackoffConsistent, CountdownConsistent, DisplayConsistent,
         SleepConsistent, StartsClean, ErrorConsistent, Connected, Reconnecting, Terminal

(* A loss, whatever it does to the resumption flag and the sleep record.    *)
LEMMA BackOffConsistent ==
  ASSUME NEW m \in Machines, m.attempt + 1 <= MaxAttempt, ~m.displayAsleep,
         NEW viable \in BOOLEAN
  PROVE  LET w == [MarkResume(BackOff(m), viable) EXCEPT !.slept = Awake]
         IN  Consistent(w)
<1> DEFINE b == BackOff(m)
           w == [MarkResume(b, viable) EXCEPT !.slept = Awake]
<1>1. /\ b \in Machines
      /\ b.state = "waiting" /\ b.attempt > 0
      /\ b.delay = ComputeBackoffDelay(b.attempt) /\ b.targetSet /\ ~b.displayAsleep
  BY BackingOff
<1> HIDE DEF b
<1>2. /\ w \in Machines
      /\ w.state = "waiting" /\ w.attempt > 0 /\ w.slept = Awake
      /\ w.delay = ComputeBackoffDelay(w.attempt) /\ w.targetSet /\ ~w.displayAsleep
  BY <1>1 DEF MarkResume, Machines
<1> HIDE DEF w
<1>3. Consistent(w)
  BY <1>2
     DEF Machines, Consistent, BackoffConsistent, CountdownConsistent, DisplayConsistent,
         SleepConsistent, StartsClean, ErrorConsistent, Connected, Reconnecting, Terminal
<1> QED
  BY <1>3 DEF w, b

(* The other chart actions keep what the loss or the attempt established.   *)
LEMMA AttemptConsistent ==
  ASSUME NEW m, Consistent(m), m.state \in {"waiting", "paused"}, NEW viable \in BOOLEAN
  PROVE  LET a == [Attempt(m) EXCEPT !.displayAsleep = FALSE]
         IN  Consistent(a) /\ Consistent(MarkResume(a, viable))
  BY DEF Attempt, MarkResume, Consistent, Machines, BackoffConsistent, CountdownConsistent,
         DisplayConsistent, SleepConsistent, StartsClean, ErrorConsistent,
         States, Connected, Reconnecting, Terminal

-----------------------------------------------------------------------------
(* Every event keeps a snapshot consistent.                                 *)

(* CONNECT, DISCONNECT, CANCEL_RECONNECT, TRIGGER_RECONNECT and the retry  *)
(* flag keep a consistent snapshot consistent in every state.              *)
LEMMA UserEventsConsistent ==
  ASSUME NEW m, Consistent(m), NEW retry \in BOOLEAN
  PROVE  /\ Consistent(OnConnect(m))
         /\ Consistent(OnDisconnect(m))
         /\ Consistent(OnCancelReconnect(m))
         /\ Consistent(OnTriggerReconnect(m))
         /\ Consistent(OnSetRetryInitial(m, retry))
<1> USE DEF Consistent
<1>1. Consistent(OnConnect(m))
  <2>1. CASE m.state \in Terminal
    BY <2>1, ResetConsistent DEF OnConnect, Terminal
  <2>2. CASE m.state \in {"idle", "disconnected"}
    BY <2>2 DEF OnConnect, Machines, BackoffConsistent, CountdownConsistent, DisplayConsistent,
                SleepConsistent, StartsClean, ErrorConsistent, States, Connected,
                Reconnecting, Terminal, ErrorKinds
  <2> QED
    BY <2>1, <2>2 DEF OnConnect
<1>2. Consistent(OnDisconnect(m))
  BY ResetConsistent DEF OnDisconnect
<1>3. Consistent(OnCancelReconnect(m))
  BY ResetConsistent DEF OnCancelReconnect
<1>4. Consistent(OnTriggerReconnect(m))
  <2>1. CASE m.state = "waiting"
    <3>1. OnTriggerReconnect(m) = [Attempt(m) EXCEPT !.displayAsleep = FALSE]
      BY <2>1 DEF OnTriggerReconnect, Attempt, DisplayConsistent, Machines
    <3> QED  BY <2>1, <3>1, AttemptConsistent
  <2>2. CASE m.state = "paused"
    BY <2>2, AttemptConsistent DEF OnTriggerReconnect
  <2> QED
    BY <2>1, <2>2 DEF OnTriggerReconnect
<1>5. Consistent(OnSetRetryInitial(m, retry))
  BY DEF OnSetRetryInitial, Machines, BackoffConsistent, CountdownConsistent, DisplayConsistent,
         SleepConsistent, StartsClean, ErrorConsistent
<1> QED
  BY <1>1, <1>2, <1>3, <1>4, <1>5

(* So do success, the fatal errors, SM_ENABLED and a passed verification.   *)
LEMMA StreamEventsConsistent ==
  ASSUME NEW m, Consistent(m), NEW window \in Windows
  PROVE  /\ Consistent(OnConnectionSuccess(m))
         /\ Consistent(OnConflict(m))
         /\ Consistent(OnAuthError(m))
         /\ Consistent(OnVerifySuccess(m))
         /\ Consistent(OnSmEnabled(m, window))
<1> USE DEF Consistent
<1>1. Consistent(OnConnectionSuccess(m))
  BY ResetConsistent DEF OnConnectionSuccess
<1>2. ASSUME m.state \in Connected,
             NEW t \in {"conflict", "authFailed"},
             NEW e \in {"conflict", "auth"}, t = "conflict" <=> e = "conflict"
      PROVE  Consistent(Fail(m, t, e))
  BY <1>2 DEF Fail, Machines, BackoffConsistent, CountdownConsistent, DisplayConsistent,
              SleepConsistent, StartsClean, ErrorConsistent, States, Connected, Reconnecting,
              Terminal, ErrorKinds
<1>3. Consistent(OnConflict(m))
  BY <1>2, ResetFailConsistent DEF OnConflict, Fatal
<1>4. Consistent(OnAuthError(m))
  BY <1>2, ResetFailConsistent DEF OnAuthError, Fatal
<1>5. Consistent(OnVerifySuccess(m))
  BY DEF OnVerifySuccess, Enter, Machines, BackoffConsistent, CountdownConsistent,
         DisplayConsistent, SleepConsistent, StartsClean, ErrorConsistent, States, Connected,
         Reconnecting, Terminal
<1>6. Consistent(OnSmEnabled(m, window))
  BY DEF OnSmEnabled, Machines, BackoffConsistent, CountdownConsistent, DisplayConsistent,
         SleepConsistent, StartsClean, ErrorConsistent
<1> QED
  BY <1>1, <1>3, <1>4, <1>5, <1>6

(* Losses and timers: each is a BackOff, or moves on inside reconnecting.   *)
LEMMA LossesConsistent ==
  ASSUME NEW m, Consistent(m), m.state \in {"healthy", "verifying", "attempting"},
         m.attempt + 1 <= MaxAttempt, NEW viable \in BOOLEAN
  PROVE  Consistent(BackOff(m)) /\ Consistent(MarkResume(BackOff(m), viable))
<1>1. /\ m \in Machines
      /\ ~m.displayAsleep /\ m.slept = Awake /\ m.smResumeViable \in BOOLEAN
  BY DEF Consistent, DisplayConsistent, SleepConsistent, Terminal, Machines
<1>2. ASSUME NEW v \in BOOLEAN
      PROVE  [MarkResume(BackOff(m), v) EXCEPT !.slept = Awake] = MarkResume(BackOff(m), v)
  BY <1>1, BackingOff DEF MarkResume, Machines
<1>3. MarkResume(BackOff(m), m.smResumeViable) = BackOff(m)
  BY <1>1, BackingOff DEF MarkResume, Machines
<1> QED
  BY <1>1, <1>2, <1>3, BackOffConsistent

(* So do the events that lose the connection, failed attempts included.     *)
LEMMA LosingEventsConsistent ==
  ASSUME NEW m, Consistent(m)
  PROVE  /\ OnSocketDied(m).attempt <= MaxAttempt => Consistent(OnSocketDied(m))
         /\ OnVerifyFailed(m).attempt <= MaxAttempt => Consistent(OnVerifyFailed(m))
         /\ OnVerifyTimer(m).attempt <= MaxAttempt => Consistent(OnVerifyTimer(m))
         /\ OnConnectionError(m).attempt <= MaxAttempt => Consistent(OnConnectionError(m))
<1> DEFINE e == [m EXCEPT !.lastError = "transport"]
<1>1. m \in Machines /\ m.attempt \in Nat
  BY MaxAttemptAssumption DEF Consistent, Machines
<1>2. ASSUME NEW v \in BOOLEAN, NEW w \in Machines
      PROVE  /\ MarkResume(BackOff(w), v).attempt = w.attempt + 1
             /\ [MarkResume(BackOff(w), v) EXCEPT !.slept = Awake].attempt = w.attempt + 1
  BY LossCounted DEF MarkResume, BackOff, IncrementAttempt, Enter, Machines
<1>3. OnSocketDied(m).attempt <= MaxAttempt => Consistent(OnSocketDied(m))
  <2>1. CASE m.state = "healthy"
    BY <1>1, <1>2, <2>1, LossesConsistent DEF OnSocketDied
  <2>2. CASE m.state = "sleeping"
    <3>1. (m.slept <= m.window) \in BOOLEAN /\ ~m.displayAsleep
      BY <2>2 DEF Consistent, DisplayConsistent
    <3> QED  BY <1>1, <1>2, <2>2, <3>1, BackOffConsistent DEF OnSocketDied
  <2>3. CASE m.state \in {"verifying", "attempting"}
    BY <1>1, <2>3, LossCounted, LossesConsistent DEF OnSocketDied
  <2> QED
    BY <2>1, <2>2, <2>3 DEF OnSocketDied
<1>4. OnVerifyFailed(m).attempt <= MaxAttempt => Consistent(OnVerifyFailed(m))
  BY <1>1, LossCounted, LossesConsistent DEF OnVerifyFailed
<1>5. OnVerifyTimer(m).attempt <= MaxAttempt => Consistent(OnVerifyTimer(m))
  BY <1>1, LossCounted, LossesConsistent DEF OnVerifyTimer
<1>6. OnConnectionError(m).attempt <= MaxAttempt => Consistent(OnConnectionError(m))
  <2>1. /\ e \in Machines /\ e.attempt = m.attempt /\ e.displayAsleep = m.displayAsleep
        /\ e.slept = m.slept
    BY <1>1 DEF Machines, ErrorKinds
  <2> HIDE DEF e
  <2>2. ASSUME m.state \in {"connecting", "attempting"}, m.attempt + 1 <= MaxAttempt
        PROVE  Consistent(BackOff(e))
    <3>1. ~e.displayAsleep /\ e.slept = Awake /\ e.smResumeViable \in BOOLEAN
      BY <1>1, <2>1, <2>2 DEF Consistent, DisplayConsistent, SleepConsistent, Terminal, Machines
    <3>2. [MarkResume(BackOff(e), e.smResumeViable) EXCEPT !.slept = Awake] = BackOff(e)
      <4>1. BackOff(e) \in Machines /\ BackOff(e).slept = Awake
               /\ BackOff(e).smResumeViable = e.smResumeViable
        BY <2>1, <2>2, <3>1, BackingOff
      <4>2. MarkResume(BackOff(e), e.smResumeViable) = BackOff(e)
        BY <4>1 DEF MarkResume, Machines
      <4> QED  BY <4>1, <4>2 DEF Machines
    <3> QED  BY <2>1, <2>2, <3>1, <3>2, BackOffConsistent
  <2>3. CASE m.state = "connecting" /\ ~m.retryInitial
    BY <2>3 DEF OnConnectionError, Fail, Consistent, Machines, BackoffConsistent,
                CountdownConsistent, DisplayConsistent, SleepConsistent, StartsClean,
                ErrorConsistent, States, Connected, Reconnecting, Terminal, ErrorKinds
  <2>4. CASE m.state = "connecting" /\ m.retryInitial
    BY <2>1, <2>2, <2>4, LossCounted DEF OnConnectionError, e
  <2>5. CASE m.state = "attempting"
    BY <2>1, <2>2, <2>5, LossCounted DEF OnConnectionError, e
  <2> QED
    BY <2>3, <2>4, <2>5 DEF OnConnectionError
<1> QED
  BY <1>3, <1>4, <1>5, <1>6

(* So do sleep, wake, visibility and the display's state.                   *)
LEMMA HostEventsConsistent ==
  ASSUME NEW m, Consistent(m), NEW d \in Durations
  PROVE  /\ Consistent(OnSleep(m))
         /\ OnWake(m, d).attempt <= MaxAttempt => Consistent(OnWake(m, d))
         /\ Consistent(OnVisible(m))
         /\ Consistent(OnDisplayInactive(m))
         /\ Consistent(OnDisplayActive(m, d))
         /\ Consistent(OnReconnectTimer(m))
<1>1. Consistent(OnSleep(m))
  <2> DEFINE n == [m EXCEPT !.state = "sleeping", !.slept = 0]
  <2>1. m \in Machines /\ "sleeping" \in States /\ 0 \in Durations /\ 0 # Awake
    BY WindowAssumption DEF Consistent, States, Connected, Durations, Awake
  <2>2. ASSUME m.state \in {"healthy", "verifying"}
        PROVE  Consistent(n)
    <3>1. n \in Machines
      BY <2>1 DEF Machines
    <3> QED
      BY <2>1, <2>2, <3>1
         DEF Consistent, Machines, BackoffConsistent, CountdownConsistent, DisplayConsistent,
             SleepConsistent, StartsClean, ErrorConsistent, Connected, Reconnecting, Terminal
  <2> QED
    BY <2>2 DEF OnSleep
<1>2. ASSUME m.state \in {"waiting", "paused"}
      PROVE  LET a == [Attempt(m) EXCEPT !.displayAsleep = FALSE]
             IN  Consistent(a) /\ Consistent(NoteSleep(a, d))
  BY <1>2, AttemptConsistent DEF NoteSleep
<1>3. ASSUME m.state = "waiting"
      PROVE  Attempt(m) = [Attempt(m) EXCEPT !.displayAsleep = FALSE]
  BY <1>3 DEF Attempt, Consistent, DisplayConsistent, Machines
<1>4. Consistent(OnVisible(m)) /\ Consistent(OnReconnectTimer(m))
  BY <1>2, <1>3 DEF OnVisible, OnReconnectTimer
<1>5. Consistent(OnDisplayActive(m, d))
  BY <1>2 DEF OnDisplayActive
<1>6. Consistent(OnDisplayInactive(m))
  BY DEF OnDisplayInactive, Consistent, Machines, BackoffConsistent, CountdownConsistent,
         DisplayConsistent, SleepConsistent, StartsClean, ErrorConsistent, States, Connected,
         Reconnecting, Terminal
<1>7. OnWake(m, d).attempt <= MaxAttempt => Consistent(OnWake(m, d))
  <2>1. m \in Machines /\ m.attempt \in Nat
    BY MaxAttemptAssumption DEF Consistent, Machines
  <2>2. ASSUME NEW v \in BOOLEAN
        PROVE  /\ MarkResume(BackOff(m), v).attempt = m.attempt + 1
               /\ [MarkResume(BackOff(m), v) EXCEPT !.slept = Awake].attempt = m.attempt + 1
    BY <2>1, LossCounted DEF MarkResume, BackOff, IncrementAttempt, Enter, Machines
  <2>3. CASE m.state \in {"healthy", "sleeping"} /\ ~(d > m.window)
    <3> DEFINE n == [m EXCEPT !.state = "verifying", !.slept = Awake]
    <3>1. n \in Machines
      BY <2>1 DEF Machines, States, Connected
    <3>2. Consistent(n)
      BY <2>1, <2>3, <3>1
         DEF Consistent, Machines, BackoffConsistent, CountdownConsistent, DisplayConsistent,
             SleepConsistent, StartsClean, ErrorConsistent, Connected, Reconnecting, Terminal
    <3>3. m.state = "healthy" => m.slept = Awake
      BY DEF Consistent, SleepConsistent, Terminal
    <3>4. OnWake(m, d) = n
      BY <2>1, <2>3, <3>3 DEF OnWake, Enter, Machines
    <3> QED
      BY <3>2, <3>4
  <2>4. CASE m.state = "healthy" /\ d > m.window
    BY <2>1, <2>2, <2>4, LossesConsistent DEF OnWake, WokeTooLate
  <2>5. CASE m.state = "sleeping" /\ d > m.window
    <3>1. ~m.displayAsleep
      BY <2>5 DEF Consistent, DisplayConsistent
    <3> QED  BY <2>1, <2>2, <2>5, <3>1, BackOffConsistent DEF OnWake, WokeTooLate
  <2>6. CASE m.state = "waiting"
    BY <1>2, <1>3, <2>6 DEF OnWake
  <2>7. CASE m.state = "attempting"
    BY <2>1, <2>2, <2>7, LossCounted, LossesConsistent DEF OnWake, NoteSleep
  <2> QED
    BY <2>3, <2>4, <2>5, <2>6, <2>7 DEF OnWake
<1> QED
  BY <1>1, <1>4, <1>5, <1>6, <1>7

-----------------------------------------------------------------------------
(* The actor.                                                               *)

MachineInv == Consistent(machine)

(* The initial context of the chart is consistent.                          *)
LEMMA InitConsistent == Init => MachineInv
<1>1. InitialMachine \in Machines
  BY WindowAssumption, MaxAttemptAssumption
     DEF InitialMachine, Machines, Delays, ErrorKinds, States
<1>2. Consistent(InitialMachine)
  BY <1>1
     DEF InitialMachine, Consistent, BackoffConsistent, CountdownConsistent, DisplayConsistent,
         SleepConsistent, StartsClean, ErrorConsistent, Connected, Reconnecting, Terminal
<1> QED
  BY <1>2 DEF Init, MachineInv

(* Every event, timer and tick of the clock keeps the snapshot consistent.  *)
LEMMA StepConsistent == MachineInv /\ [Next]_machine => MachineInv'
<1> SUFFICES ASSUME Consistent(machine), [Next]_machine PROVE Consistent(machine')
  BY DEF MachineInv
<1>1. CASE UserEvent
  BY <1>1, UserEventsConsistent
     DEF UserEvent, Connect, Disconnect, CancelReconnect, TriggerReconnect, SetRetryInitial, Handle
<1>2. CASE StreamEvent
  <2>1. Windows # {}
    BY WindowAssumption
  <2> QED
    BY <1>2, <2>1, StreamEventsConsistent, LosingEventsConsistent
       DEF StreamEvent, ConnectionSuccess, ConnectionError, Conflict, AuthError, SocketDied,
           SmEnabled, VerifySuccess, VerifyFailed, Handle
<1>3. CASE HostEvent
  <2>1. 0 \in Durations
    BY WindowAssumption DEF Durations
  <2> QED
    BY <1>3, <2>1, HostEventsConsistent
       DEF HostEvent, Sleep, Wake, Visible, DisplayInactive, DisplayActive, Handle
<1>4. CASE ReconnectTimer
  <2>1. 0 \in Durations
    BY WindowAssumption DEF Durations
  <2> QED
    BY <1>4, <2>1, HostEventsConsistent DEF ReconnectTimer, Handle
<1>5. CASE VerifyTimer
  BY <1>5, LosingEventsConsistent DEF VerifyTimer, Handle
<1>6. CASE TimePasses
  <2>1. machine.slept # Awake /\ machine.slept + 1 \in Durations /\ machine.slept + 1 # Awake
    BY <1>6, WindowAssumption DEF TimePasses, Durations, Awake
  <2> QED
    BY <1>6, <2>1
       DEF TimePasses, Consistent, Machines, BackoffConsistent, CountdownConsistent,
           DisplayConsistent, SleepConsistent, StartsClean, ErrorConsistent
<1>7. CASE UNCHANGED machine
  BY <1>7
<1> QED
  BY <1>1, <1>2, <1>3, <1>4, <1>5, <1>6, <1>7 DEF Next

(* The snapshot keeps the shape of its context.                             *)
THEOREM TypeCorrect == Spec => []TypeOK
<1>1. MachineInv => TypeOK
  BY DEF MachineInv, TypeOK, Consistent
<1> QED
  BY <1>1, InitConsistent, StepConsistent, PTL DEF Spec

(* Header invariant 4: attempt counter, delay and state always agree.       *)
THEOREM BackoffCorrect == Spec => []BackoffMatchesState
<1>1. MachineInv => BackoffMatchesState
  BY DEF MachineInv, BackoffMatchesState, Consistent
<1> QED
  BY <1>1, InitConsistent, StepConsistent, PTL DEF Spec

(* A target time is there exactly as long as a timer or a pause needs it.   *)
THEOREM CountdownCorrect == Spec => []CountdownMatchesTimer
<1>1. MachineInv => CountdownMatchesTimer
  BY DEF MachineInv, CountdownMatchesTimer, Consistent
<1> QED
  BY <1>1, InitConsistent, StepConsistent, PTL DEF Spec

(* Display gate, sleep record and resume verdict end with their states.     *)
THEOREM ContextCorrect == Spec => []NothingOutlivesItsState
<1>1. MachineInv => NothingOutlivesItsState
  BY DEF MachineInv, NothingOutlivesItsState, Consistent
<1> QED
  BY <1>1, InitConsistent, StepConsistent, PTL DEF Spec

(* The error that stopped the machine stays with it.                        *)
THEOREM ExplanationCorrect == Spec => []TerminalExplained
<1>1. MachineInv => TerminalExplained
  BY DEF MachineInv, TerminalExplained, Consistent
<1> QED
  BY <1>1, InitConsistent, StepConsistent, PTL DEF Spec

(* What every event does to the ladder of a running reconnection: it keeps *)
(* the count or adds one, and it never makes a lost session resumable.     *)
LEMMA LadderStep ==
  ASSUME NEW m, Consistent(m), m.state \in Reconnecting,
         NEW n, n.state \in Reconnecting,
         \/ n = m
         \/ \E retry \in BOOLEAN : n = OnSetRetryInitial(m, retry)
         \/ \E window \in Windows : n = OnSmEnabled(m, window)
         \/ n \in {OnConnect(m), OnDisconnect(m), OnCancelReconnect(m), OnTriggerReconnect(m)}
         \/ n \in {OnConnectionSuccess(m), OnConnectionError(m), OnConflict(m), OnAuthError(m)}
         \/ n \in {OnSocketDied(m), OnVerifySuccess(m), OnVerifyFailed(m), OnVerifyTimer(m)}
         \/ n \in {OnSleep(m), OnVisible(m), OnDisplayInactive(m), OnReconnectTimer(m)}
         \/ \E d \in Durations : n = OnWake(m, d) \/ n = OnDisplayActive(m, d)
  PROVE  /\ n.attempt \in {m.attempt, m.attempt + 1}
         /\ ~m.smResumeViable => ~n.smResumeViable
<1> USE DEF Reconnecting, Connected, Terminal
<1>1. m \in Machines
  BY DEF Consistent
<1>2. ASSUME NEW e \in Machines
      PROVE  /\ BackOff(e).attempt = e.attempt + 1
             /\ BackOff(e).smResumeViable = e.smResumeViable
             /\ Attempt(e).attempt = e.attempt
             /\ Attempt(e).smResumeViable = e.smResumeViable
  BY DEF BackOff, IncrementAttempt, Enter, Attempt, Machines
<1>3. ASSUME NEW d \in Durations
      PROVE  /\ NoteSleep(BackOff(m), d).attempt = m.attempt + 1
             /\ ~m.smResumeViable => ~NoteSleep(BackOff(m), d).smResumeViable
             /\ NoteSleep(Attempt(m), d).attempt = m.attempt
             /\ ~m.smResumeViable => ~NoteSleep(Attempt(m), d).smResumeViable
  BY <1>1 DEF NoteSleep, MarkResume, BackOff, IncrementAttempt, Enter, Attempt, Machines
<1>4. ASSUME NEW d \in Durations
      PROVE  LET a == [Attempt(m) EXCEPT !.displayAsleep = FALSE]
             IN  /\ a.attempt = m.attempt /\ a.smResumeViable = m.smResumeViable
                 /\ NoteSleep(a, d).attempt = m.attempt
                 /\ ~m.smResumeViable => ~NoteSleep(a, d).smResumeViable
  BY <1>1 DEF NoteSleep, MarkResume, Attempt, Machines
<1> DEFINE e == [m EXCEPT !.lastError = "transport"]
<1>5. e \in Machines /\ e.attempt = m.attempt /\ e.smResumeViable = m.smResumeViable
  BY <1>1 DEF Machines, ErrorKinds
<1> HIDE DEF e
<1>6. CASE n = m
  BY <1>6
<1>7. CASE \E retry \in BOOLEAN : n = OnSetRetryInitial(m, retry)
  BY <1>1, <1>7 DEF OnSetRetryInitial, Machines
<1>8. CASE \E window \in Windows : n = OnSmEnabled(m, window)
  BY <1>1, <1>8 DEF OnSmEnabled, Machines
<1>9. ASSUME NEW s \in {"disconnected", "connecting", "healthy"}
      PROVE  Enter(ResetReconnectState(m), s).state = s
  BY <1>1, Resetting DEF States
<1>10. ASSUME NEW t, NEW r
       PROVE  Fail(ResetReconnectState(m), t, r).state = t
  BY DEF Fail, ResetReconnectState, InitialMachine
<1>11. CASE n \in {OnConnect(m), OnDisconnect(m), OnCancelReconnect(m), OnTriggerReconnect(m)}
  <2>1. 0 \in Durations
    BY WindowAssumption DEF Durations
  <2> QED
    BY <1>1, <1>2, <1>4, <1>9, <1>11, <2>1
       DEF OnConnect, OnDisconnect, OnCancelReconnect, OnTriggerReconnect
<1>12. CASE n \in {OnConnectionSuccess(m), OnConnectionError(m), OnConflict(m), OnAuthError(m)}
  <2>1. CASE n = OnConnectionError(m)
    BY <1>2, <1>5, <2>1 DEF OnConnectionError, e
  <2> QED
    BY <1>9, <1>10, <1>12, <2>1 DEF OnConnectionSuccess, OnConflict, OnAuthError, Fatal
<1>13. CASE n \in {OnSocketDied(m), OnVerifySuccess(m), OnVerifyFailed(m), OnVerifyTimer(m)}
  BY <1>1, <1>2, <1>13 DEF OnSocketDied, OnVerifySuccess, OnVerifyFailed, OnVerifyTimer
<1>14. CASE n \in {OnSleep(m), OnVisible(m), OnDisplayInactive(m), OnReconnectTimer(m)}
  <2>1. CASE n = OnDisplayInactive(m)
    BY <1>1, <2>1 DEF OnDisplayInactive, Machines
  <2> QED
    BY <1>1, <1>2, <1>14, <2>1 DEF OnSleep, OnVisible, OnReconnectTimer
<1>15. CASE \E d \in Durations : n = OnWake(m, d) \/ n = OnDisplayActive(m, d)
  <2>1. PICK d \in Durations : n = OnWake(m, d) \/ n = OnDisplayActive(m, d)
    BY <1>15
  <2>2. CASE n = OnWake(m, d)
    BY <1>1, <1>3, <2>2 DEF OnWake
  <2>3. CASE n = OnDisplayActive(m, d)
    BY <1>1, <1>4, <2>3 DEF OnDisplayActive
  <2> QED
    BY <2>1, <2>2, <2>3
<1> QED
  BY <1>6, <1>7, <1>8, <1>11, <1>12, <1>13, <1>14, <1>15

(* The step of the actor, as the lemma above names it.                      *)
LEMMA ReconnectingStep ==
  ASSUME MachineInv, Next, machine.state \in Reconnecting, machine'.state \in Reconnecting
  PROVE  /\ machine'.attempt \in {machine.attempt, machine.attempt + 1}
         /\ ~machine.smResumeViable => ~machine'.smResumeViable
<1>1. CASE TimePasses
  BY <1>1 DEF TimePasses, MachineInv, Consistent, SleepConsistent, Reconnecting, Terminal, Awake
<1>2. CASE UserEvent
  BY <1>2, LadderStep
     DEF UserEvent, Connect, Disconnect, CancelReconnect, TriggerReconnect, SetRetryInitial,
         Handle, MachineInv
<1>3. CASE StreamEvent
  BY <1>3, LadderStep
     DEF StreamEvent, ConnectionSuccess, ConnectionError, Conflict, AuthError, SocketDied,
         SmEnabled, VerifySuccess, VerifyFailed, Handle, MachineInv
<1>4. CASE HostEvent
  BY <1>4, LadderStep
     DEF HostEvent, Sleep, Wake, Visible, DisplayInactive, DisplayActive, Handle, MachineInv
<1>5. CASE ReconnectTimer \/ VerifyTimer
  BY <1>5, LadderStep DEF ReconnectTimer, VerifyTimer, Handle, MachineInv
<1> QED
  BY <1>1, <1>2, <1>3, <1>4, <1>5 DEF Next

(* No event forgets an attempt of a running reconnection.                   *)
THEOREM LadderCorrect == Spec => LadderNeverResets
<1>1. MachineInv /\ [Next]_machine
        => [machine.state \in Reconnecting /\ machine'.state \in Reconnecting
              => machine'.attempt \in {machine.attempt, machine.attempt + 1}]_machine
  BY ReconnectingStep
<1> QED
  BY <1>1, InitConsistent, StepConsistent, PTL DEF Spec, LadderNeverResets

(* A session lost to a long sleep is not resumed by the same reconnection.  *)
THEOREM LostSessionCorrect == Spec => LostSessionStaysLost
<1>1. ASSUME MachineInv, MachineInv', [Next]_machine
      PROVE  [machine.state \in Reconnecting /\ ~machine.smResumeViable
                => machine'.smResumeViable = (machine'.state \notin Reconnecting)]_machine
  <2>1. machine'.smResumeViable \in BOOLEAN
    BY <1>1 DEF MachineInv, Consistent, Machines
  <2>2. machine'.state \notin Reconnecting => machine'.smResumeViable
    BY <1>1 DEF MachineInv, Consistent, StartsClean
  <2>3. ASSUME Next, machine.state \in Reconnecting, ~machine.smResumeViable,
               machine'.state \in Reconnecting
        PROVE  ~machine'.smResumeViable
    BY <1>1, <2>3, ReconnectingStep
  <2> QED
    BY <1>1, <2>1, <2>2, <2>3
<1>2. Spec => []MachineInv
  BY InitConsistent, StepConsistent, PTL DEF Spec
<1> QED
  BY <1>1, <1>2, PTL DEF Spec, LostSessionStaysLost

(* In a terminal state every event but CONNECT leaves the state alone.      *)
LEMMA TerminalStep ==
  ASSUME MachineInv, Next, machine.state \in Terminal, machine'.state # machine.state
  PROVE  machine'.state = "connecting" /\ machine'.attempt = 0
<1> USE DEF Terminal, Connected, Reconnecting
<1>1. machine \in Machines
  BY DEF MachineInv, Consistent
<1>2. CASE TimePasses
  BY <1>1, <1>2 DEF TimePasses, Machines
<1>3. CASE Connect
  <2>1. machine' = Enter(ResetReconnectState(machine), "connecting")
    BY <1>3 DEF Connect, Handle, OnConnect
  <2>2. "connecting" \in States
    BY DEF States
  <2> QED
    BY <1>1, <2>1, <2>2, Resetting
<1>4. CASE SetRetryInitial \/ SmEnabled
  BY <1>1, <1>4 DEF SetRetryInitial, SmEnabled, Handle, OnSetRetryInitial, OnSmEnabled, Machines
<1>5. CASE Disconnect \/ CancelReconnect \/ TriggerReconnect
  BY <1>5 DEF Disconnect, CancelReconnect, TriggerReconnect, Handle, OnDisconnect,
              OnCancelReconnect, OnTriggerReconnect
<1>6. CASE ConnectionSuccess \/ ConnectionError \/ Conflict \/ AuthError
  BY <1>6 DEF ConnectionSuccess, ConnectionError, Conflict, AuthError, Handle,
              OnConnectionSuccess, OnConnectionError, OnConflict, OnAuthError, Fatal
<1>7. CASE SocketDied \/ VerifySuccess \/ VerifyFailed
  BY <1>7 DEF SocketDied, VerifySuccess, VerifyFailed, Handle,
              OnSocketDied, OnVerifySuccess, OnVerifyFailed
<1>8. CASE HostEvent
  BY <1>8 DEF HostEvent, Sleep, Wake, Visible, DisplayInactive, DisplayActive, Handle,
              OnSleep, OnWake, OnVisible, OnDisplayInactive, OnDisplayActive
<1>9. CASE ReconnectTimer \/ VerifyTimer
  BY <1>9 DEF ReconnectTimer, VerifyTimer, Handle, OnReconnectTimer, OnVerifyTimer
<1> QED
  BY <1>2, <1>3, <1>4, <1>5, <1>6, <1>7, <1>8, <1>9 DEF Next, UserEvent, StreamEvent

(* Only the user's CONNECT leaves a terminal state, with a fresh ladder.    *)
THEOREM TerminalCorrect == Spec => TerminalOnlyLeftByConnect
<1>1. MachineInv /\ [Next]_machine
        => [machine.state \in Terminal /\ machine'.state # machine.state
              => machine'.state = "connecting" /\ machine'.attempt = 0]_machine
  BY TerminalStep
<1> QED
  BY <1>1, InitConsistent, StepConsistent, PTL DEF Spec, TerminalOnlyLeftByConnect
=============================================================================
