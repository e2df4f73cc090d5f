--------------------------- MODULE PresenceProofs ---------------------------
(***************************************************************************)
(* What the server has of the user is right for any set of messages.  The  *)
(* inductive invariant adds to the properties what makes them hold from    *)
(* one step to the next: a stream that is up has a connected machine whose *)
(* current announcement is the subscription's baseline, so every change of *)
(* it is sent.                                                             *)
(***************************************************************************)
EXTENDS Presence, TLAPS

\* A snapshot in which nothing is saved that will not be restored; only an online user goes idle.
Coherent(m) ==
    /\ m \in Machines
    /\ m.state = "autoAway" => m.preference = "online"
    /\ m.state # "disconnected" =>
          IF m.state \in AutoStates THEN m.saved = m.preference /\ m.savedStatus = m.status
          ELSE m.state = User(m.preference) /\ m.saved = "none"

InSync == online => Connected /\ sync = Current(machine)

-----------------------------------------------------------------------------
(* The machine alone.                                                       *)

LEMMA UserStates ==
  ASSUME NEW p \in Preferences
  PROVE  User(p) \in States /\ User(p) \notin AutoStates /\ User(p) # "disconnected"
BY DEF Preferences, User, States, AutoStates

LEMMA Entered ==
  ASSUME NEW m \in Machines, NEW s \in States
  PROVE  /\ EnterUser(m, s) \in Machines
         /\ EnterUser(m, s).state = s
         /\ EnterUser(m, s).saved = "none"
         /\ EnterUser(m, s).preference = m.preference
BY DEF EnterUser, Machines, Texts

LEMMA EnteringUser ==
  ASSUME NEW m \in Machines, NEW p \in Preferences, m.preference = p
  PROVE  /\ Coherent(EnterUser(m, User(p)))
         /\ EnterUser(m, User(p)).state # "disconnected"
<1> DEFINE e == EnterUser(m, User(p))
<1>1. e \in Machines /\ e.state = User(p) /\ e.saved = "none" /\ e.preference = p
  BY UserStates, Entered
<1>2. User(p) \notin AutoStates /\ User(p) # "disconnected"
  BY UserStates
<1> HIDE DEF e
<1>3. Coherent(e) /\ e.state # "disconnected"
  BY <1>1, <1>2 DEF Coherent, AutoStates
<1> QED
  BY <1>3 DEF e

LEMMA Connecting ==
  ASSUME NEW m, Coherent(m)
  PROVE  Coherent(OnConnect(m)) /\ OnConnect(m).state # "disconnected"
<1>1. CASE m.state = "disconnected"
  <2>1. m \in Machines /\ m.preference \in Preferences
    BY DEF Coherent, Machines
  <2> QED
    BY <1>1, <2>1, EnteringUser DEF OnConnect
<1>2. CASE m.state # "disconnected"
  BY <1>2 DEF OnConnect
<1> QED
  BY <1>1, <1>2

LEMMA Disconnecting ==
  ASSUME NEW m, Coherent(m)
  PROVE  Coherent(OnDisconnect(m))
<1>1. m \in Machines /\ "disconnected" \in States
  BY DEF Coherent, States
<1>2. /\ OnDisconnect(m) \in Machines
      /\ OnDisconnect(m).state = "disconnected"
  BY <1>1 DEF OnDisconnect, Machines, Texts
<1> QED
  BY <1>2 DEF Coherent

LEMMA Asking ==
  ASSUME NEW m, Coherent(m), NEW show \in Preferences, NEW status \in Texts
  PROVE  /\ Coherent(OnSetPresence(m, show, status))
         /\ m.state # "disconnected" => OnSetPresence(m, show, status).state # "disconnected"
<1>1. CASE m.state = "disconnected"
  BY <1>1 DEF OnSetPresence
<1>2. CASE m.state # "disconnected"
  <2> DEFINE e == EnterUser(m, User(show))
             r == [e EXCEPT !.status = status, !.preference = show]
  <2>1. e \in Machines /\ e.state = User(show) /\ e.saved = "none"
    BY UserStates, Entered DEF Coherent
  <2> HIDE DEF e
  <2>2. r \in Machines /\ r.state = User(show) /\ r.saved = "none" /\ r.preference = show
    BY <2>1 DEF Machines
  <2>3. OnSetPresence(m, show, status) = r
    BY <1>2 DEF OnSetPresence, e
  <2> HIDE DEF r
  <2> QED
    BY <2>2, <2>3, UserStates DEF Coherent, AutoStates
<1> QED
  BY <1>1, <1>2

(* An online user has nothing saved and prefers to be online; likewise away. *)
LEMMA UserPrefers ==
  ASSUME NEW m, Coherent(m)
  PROVE  /\ m.state = "userOnline" => m.preference = "online"
         /\ m.state = "userAway" => m.preference = "away"
         /\ m.state = "userDnd" => m.preference = "dnd"
<1>1. m.preference \in {"online", "away", "dnd"}
  BY DEF Coherent, Machines, Preferences
<1> QED
  BY <1>1 DEF Coherent, User, AutoStates

LEMMA Saving ==
  ASSUME NEW m \in Machines, NEW s \in States, NEW p \in {"online", "away"}
  PROVE  /\ Save(m, s, p) \in Machines
         /\ Save(m, s, p).state = s
         /\ Save(m, s, p).saved = p
         /\ Save(m, s, p).savedStatus = Save(m, s, p).status
         /\ Save(m, s, p).preference = m.preference
BY DEF Save, Machines

LEMMA SavingCoheres ==
  ASSUME NEW m, Coherent(m), NEW p \in {"online", "away"}, m.preference = p,
         NEW s \in AutoStates, s = "autoAway" => p = "online"
  PROVE  Coherent(Save(m, s, p)) /\ Save(m, s, p).state # "disconnected"
<1> DEFINE r == Save(m, s, p)
<1>1. m \in Machines /\ s \in States /\ s # "disconnected"
  BY DEF Coherent, States, AutoStates
<1>2. r \in Machines /\ r.state = s /\ r.saved = p /\ r.savedStatus = r.status
      /\ r.preference = p
  BY <1>1, Saving
<1> HIDE DEF r
<1>3. Coherent(r) /\ r.state # "disconnected"
  BY <1>1, <1>2 DEF Coherent
<1> QED
  BY <1>3 DEF r

LEMMA Idling ==
  ASSUME NEW m, Coherent(m)
  PROVE  /\ Coherent(OnIdle(m))
         /\ m.state # "disconnected" => OnIdle(m).state # "disconnected"
<1>1. CASE m.state = "userOnline"
  <2>1. "autoAway" \in AutoStates /\ m.preference = "online"
    BY <1>1, UserPrefers DEF AutoStates
  <2> QED
    BY <1>1, <2>1, SavingCoheres DEF OnIdle
<1>2. CASE m.state # "userOnline"
  BY <1>2 DEF OnIdle
<1> QED
  BY <1>1, <1>2

LEMMA Sleeping ==
  ASSUME NEW m, Coherent(m)
  PROVE  /\ Coherent(OnSleep(m))
         /\ m.state # "disconnected" => OnSleep(m).state # "disconnected"
<1>0. m \in Machines /\ "autoXa" \in States /\ "autoXa" \in AutoStates
  BY DEF Coherent, States, AutoStates
<1>1. CASE m.state = "autoAway"
  <2> DEFINE r == [m EXCEPT !.state = "autoXa"]
  <2>1. r \in Machines /\ r.state = "autoXa" /\ r.saved = m.saved
        /\ r.savedStatus = m.savedStatus /\ r.status = m.status /\ r.preference = m.preference
    BY <1>0 DEF Machines
  <2>2. OnSleep(m) = r
    BY <1>1 DEF OnSleep
  <2>3. m.saved = m.preference /\ m.savedStatus = m.status
    BY <1>1 DEF Coherent, AutoStates
  <2> HIDE DEF r
  <2> QED
    BY <1>0, <2>1, <2>2, <2>3 DEF Coherent
<1>2. CASE m.state = "userOnline"
  BY <1>0, <1>2, UserPrefers, SavingCoheres DEF OnSleep
<1>3. CASE m.state = "userAway"
  BY <1>0, <1>3, UserPrefers, SavingCoheres DEF OnSleep
<1>4. CASE m.state \notin {"autoAway", "userOnline", "userAway"}
  BY <1>4 DEF OnSleep
<1> QED
  BY <1>1, <1>2, <1>3, <1>4

LEMMA Returning ==
  ASSUME NEW m, Coherent(m)
  PROVE  /\ Coherent(OnBack(m))
         /\ m.state # "disconnected" => OnBack(m).state # "disconnected"
<1>1. CASE m.state \notin AutoStates
  BY <1>1 DEF OnBack
<1>2. CASE m.state \in AutoStates
  <2> DEFINE r == [m EXCEPT !.status = m.savedStatus]
             s == IF m.state = "autoXa" /\ m.saved = "away" THEN "userAway" ELSE "userOnline"
  <2>1. r \in Machines /\ r.preference = m.preference
    BY DEF Coherent, Machines
  <2>2. s = User(m.preference)
    <3>1. m.saved = m.preference /\ m.saved \in {"none", "online", "away"}
      BY <1>2 DEF Coherent, Machines, AutoStates
    <3>2. m.preference = "online" \/ m.preference = "away"
      BY <3>1 DEF Coherent, Machines, Preferences
    <3>3. m.preference = "away" => m.state = "autoXa"
      BY <1>2 DEF Coherent, AutoStates
    <3>4. CASE m.preference = "away"
      BY <3>1, <3>3, <3>4 DEF User
    <3>5. CASE m.preference = "online"
      BY <3>1, <3>5 DEF User
    <3> QED
      BY <3>2, <3>4, <3>5
  <2>3. OnBack(m) = EnterUser(r, s)
    BY <1>2 DEF OnBack
  <2> HIDE DEF r, s
  <2>4. m.preference \in Preferences
    BY DEF Coherent, Machines
  <2> QED
    BY <2>1, <2>2, <2>3, <2>4, EnteringUser
<1> QED
  BY <1>1, <1>2

-----------------------------------------------------------------------------
(* What is sent.                                                            *)

LEMMA Announcing ==
  ASSUME NEW m, Coherent(m)
  PROVE  /\ Current(m) \in Said
         /\ m.state # "disconnected" => Initial(m) \in Said
BY DEF Coherent, Current, ShowOf, Initial, Said, Machines, Preferences, User, States, AutoStates, Texts

\* A server that has what the machine announces is a settled server.
Agrees(m, w) ==
    /\ m.state = "userOnline" => w.show = "online"
    /\ m.state = "userDnd" => w = Current(m)
    /\ w.show = "xa" => m.state = "autoXa"
    /\ w.show = "away" => m.state \in {"userAway"} \cup AutoStates

LEMMA Agreeing ==
  ASSUME NEW m, Coherent(m), m.state # "disconnected"
  PROVE  Agrees(m, Current(m)) /\ Agrees(m, Initial(m))
BY DEF Coherent, Agrees, Current, ShowOf, Initial, Machines, Preferences, User, States, AutoStates

LEMMA StillAgreeing ==
  ASSUME NEW m, NEW n, NEW w, Coherent(m), Coherent(n),
         m.state # "disconnected", n.state # "disconnected",
         Current(n) = Current(m), Agrees(m, w)
  PROVE  Agrees(n, w)
<1>1. ShowOf(n) = ShowOf(m)
  BY DEF Current
<1>2. m.state \in States /\ n.state \in States
  BY DEF Coherent, Machines
<1> QED
  BY <1>1, <1>2 DEF Agrees, ShowOf, States, AutoStates

LEMMA DndSends ==
  ASSUME NEW m, Coherent(m), m.state # "disconnected", m.preference = "dnd"
  PROVE  Current(m).show = "dnd" /\ Initial(m).show = "dnd"
BY DEF Coherent, Current, ShowOf, Initial, Machines, Preferences, User, States, AutoStates

(* A notification the server hears of keeps it in step with the machine.    *)
LEMMA Notifying ==
  ASSUME NEW m, Coherent(machine), Coherent(m), InSync, online,
         m.state # "disconnected", Becomes(m, TRUE, TRUE, wire),
         Settled => Agrees(machine, wire)
  PROVE  Settled => Agrees(machine', wire')
<1>1. machine' = m
  BY DEF Becomes
<1>2. sync = Current(machine) /\ machine.state # "disconnected"
  BY DEF InSync, Connected
<1>3. sync # None
  BY <1>2, Announcing, NoneAssumption DEF Said, Texts
<1>4. CASE Current(m) = Current(machine)
  <2>1. wire' = wire
    BY <1>2, <1>4 DEF Becomes
  <2> QED
    BY <1>1, <1>2, <1>4, <2>1, StillAgreeing
<1>5. CASE Current(m) # Current(machine)
  <2>1. wire' = Current(m)
    BY <1>2, <1>3, <1>5 DEF Becomes
  <2> QED
    BY <1>1, <2>1, Agreeing
<1> QED
  BY <1>4, <1>5

-----------------------------------------------------------------------------
(* The invariant.                                                           *)

IInv == /\ TypeOK
        /\ Coherent(machine)
        /\ InSync
        /\ greeting => online
        /\ Settled => Agrees(machine, wire)

LEMMA Initially == Init => IInv
<1> SUFFICES ASSUME Init PROVE IInv
  OBVIOUS
<1>1. machine \in Machines
  BY DEF Init, Machines, States, Preferences, Texts
<1>2. machine.state = "disconnected"
  BY DEF Init
<1>3. Coherent(machine)
  BY <1>1, <1>2 DEF Coherent
<1> QED
  BY <1>1, <1>3 DEF Init, IInv, TypeOK, InSync, Settled

\* What every event of the user and the host preserves.
LEMMA Events ==
  ASSUME NEW m, IInv, Event(m), Coherent(m),
         machine.state # "disconnected" => m.state # "disconnected"
  PROVE  IInv'
<1>1. PICK arrives \in BOOLEAN :
        /\ Becomes(m, online, arrives, wire)
        /\ online' = (online /\ arrives)
        /\ greeting' = (greeting /\ arrives)
        /\ \/ late' = late
           \/ late' = TRUE /\ greeting /\ ~arrives
        /\ hashed' = hashed
  BY DEF Event
<1>2. machine' = m /\ Current(m) \in Said
  BY <1>1, Announcing DEF Becomes
<1>3. TypeOK'
  <2>1. m \in Machines
    BY DEF Coherent
  <2>2. sync' \in Said \cup {None} /\ wire' \in Said \cup {Unavailable}
    BY <1>1, <1>2 DEF Becomes, IInv, TypeOK
  <2> QED
    BY <1>1, <1>2, <2>1, <2>2 DEF IInv, TypeOK
<1>4. InSync'
  <2>1. SUFFICES ASSUME online'
                 PROVE  (Connected /\ sync = Current(machine))'
    BY DEF InSync
  <2>2. online /\ machine.state # "disconnected"
    BY <1>1, <2>1 DEF IInv, InSync, Connected
  <2>3. sync' = Current(m)
    BY <1>1, <2>2 DEF Becomes
  <2> QED
    BY <1>2, <2>2, <2>3 DEF Connected, Current, ShowOf
<1>5. (Settled => Agrees(machine, wire))'
  <2>1. CASE online /\ arrives
    <3>1. m.state # "disconnected"
      BY <2>1 DEF IInv, InSync, Connected
    <3>2. Becomes(m, TRUE, TRUE, wire)
      BY <1>1, <2>1 DEF Becomes
    <3>3. Settled => Agrees(machine', wire')
      BY <2>1, <3>1, <3>2, Notifying DEF IInv
    <3>4. Settled' => Settled
      BY <1>1, <2>1 DEF Settled
    <3> QED
      BY <3>3, <3>4 DEF Agrees, Current, ShowOf
  <2>2. CASE ~(online /\ arrives)
    BY <1>1, <2>2 DEF Settled
  <2> QED
    BY <2>1, <2>2
<1>6. Coherent(machine)' /\ (greeting => online)'
  BY <1>1, <1>2 DEF IInv, Coherent, AutoStates, Machines
<1> QED
  BY <1>3, <1>4, <1>5, <1>6 DEF IInv

(* Going offline leaves only the machine and the baseline to look at.       *)
LEMMA GoingOffline ==
  ASSUME NEW m, NEW seen, NEW arrives, IInv, Coherent(m),
         Becomes(m, seen, FALSE, wire), Offline
  PROVE  IInv'
<1>1. machine' = m /\ m \in Machines /\ Current(m) \in Said
  BY Announcing DEF Becomes, Coherent
<1>2. sync' \in Said \cup {None} /\ wire' = wire
  BY <1>1 DEF Becomes, IInv, TypeOK
<1>3. ~online' /\ ~greeting' /\ late' \in BOOLEAN /\ hashed' = hashed /\ greeting' \in BOOLEAN
      /\ online' \in BOOLEAN
  BY DEF Offline, IInv, TypeOK
<1>4. Coherent(machine)'
  BY <1>1 DEF Coherent, AutoStates, Machines
<1>5. TypeOK'
  BY <1>1, <1>2, <1>3 DEF IInv, TypeOK
<1> QED
  BY <1>3, <1>4, <1>5 DEF IInv, InSync, Settled

(* A presence computed from the machine is right, whoever asked for it.     *)
LEMMA Sending ==
  ASSUME IInv, UNCHANGED <<machine, sync, online>>,
         online => wire' \in {wire, Current(machine), Initial(machine)},
         ~online => wire' = wire,
         Settled' => Settled \/ wire' \in {Current(machine), Initial(machine)},
         greeting' \in BOOLEAN, late' \in BOOLEAN, hashed' \in BOOLEAN, greeting' => online
  PROVE  IInv'
<1>1. Coherent(machine)' /\ InSync'
  BY DEF IInv, Coherent, InSync, Connected, Current, ShowOf, AutoStates, Machines
<1>2. online => machine.state # "disconnected"
  BY DEF IInv, InSync, Connected
<1>3. TypeOK'
  BY <1>2, Announcing DEF IInv, TypeOK
<1>4. Settled' => Agrees(machine, wire')
  <2>1. CASE Settled' /\ wire' \in {Current(machine), Initial(machine)}
    BY <1>2, <2>1, Agreeing DEF IInv, Settled
  <2>2. CASE Settled' /\ Settled /\ wire' = wire
    BY <2>2 DEF IInv
  <2> QED
    BY <2>1, <2>2 DEF Settled
<1>5. (Settled => Agrees(machine, wire))'
  BY <1>4 DEF Agrees, Current, ShowOf
<1> QED
  BY <1>1, <1>3, <1>5 DEF IInv

LEMMA Step == IInv /\ [Next]_vars => IInv'
<1> SUFFICES ASSUME IInv, [Next]_vars PROVE IInv'
  OBVIOUS
<1>0. Coherent(machine)
  BY DEF IInv
<1>1. CASE SetPresence
  <2>1. PICK show \in Preferences, status \in Texts :
           Event(OnSetPresence(machine, show, status))
    BY <1>1 DEF SetPresence
  <2> QED
    BY <1>0, <2>1, Asking, Events
<1>2. CASE IdleDetected
  BY <1>0, <1>2, Idling, Events DEF IdleDetected
<1>3. CASE SleepDetected
  BY <1>0, <1>3, Sleeping, Events DEF SleepDetected
<1>4. CASE ActivityDetected
  BY <1>0, <1>4, Returning, Events DEF ActivityDetected
<1>5. CASE Established
  <2> DEFINE m == OnConnect(machine)
  <2>1. Coherent(m) /\ m.state # "disconnected"
    BY <1>0, Connecting
  <2> HIDE DEF m
  <2>2. machine' = m /\ sync' = Current(m) /\ online' /\ greeting'
        /\ late' = late /\ hashed' = hashed
        /\ wire' \in {Current(m), wire, Unavailable}
    BY <1>5 DEF Established, Becomes, m
  <2>3. online' \in BOOLEAN /\ greeting' \in BOOLEAN
    BY <1>5 DEF Established
  <2>4. Current(m) \in Said /\ m \in Machines
    BY <2>1, Announcing DEF Coherent
  <2>5. TypeOK'
    BY <2>2, <2>3, <2>4 DEF IInv, TypeOK
  <2>6. InSync'
    BY <2>1, <2>2 DEF InSync, Connected, Current, ShowOf
  <2>7. Coherent(machine)'
    BY <2>1, <2>2 DEF Coherent, AutoStates, Machines
  <2> QED
    BY <2>2, <2>5, <2>6, <2>7 DEF IInv, Settled
<1>6. CASE SendInitial
  BY <1>6, Sending DEF SendInitial, IInv, TypeOK, Settled
<1>7. CASE SendLate
  BY <1>7, Sending DEF SendLate, IInv, TypeOK, Settled
<1>8. CASE AnnounceCaps
  BY <1>8, Sending DEF AnnounceCaps, IInv, TypeOK, Settled
<1>9. CASE Disconnect
  BY <1>0, <1>9, Disconnecting, GoingOffline DEF Disconnect
<1>10. CASE SocketClosed
  <2>1. Becomes(OnDisconnect(machine), TRUE, FALSE, wire) /\ Offline
    BY <1>10 DEF SocketClosed
  <2> QED
    BY <1>0, <2>1, Disconnecting, GoingOffline
<1>11. CASE DeadSocket
  <2>1. Becomes(machine, FALSE, FALSE, wire) /\ Offline
    BY <1>11 DEF DeadSocket, Becomes
  <2> QED
    BY <1>0, <2>1, GoingOffline
<1>12. CASE Reload
  <2> DEFINE m == [machine EXCEPT !.state = "disconnected"]
  <2>1. m \in Machines /\ m.state = "disconnected"
    BY <1>0 DEF Coherent, Machines, States
  <2>2. machine' = m /\ sync' = None /\ ~online' /\ ~greeting' /\ ~late' /\ ~hashed'
        /\ wire' = wire
    BY <1>12 DEF Reload
  <2> HIDE DEF m
  <2>3. Coherent(machine)'
    BY <2>1, <2>2 DEF Coherent, AutoStates, Machines
  <2>4. TypeOK'
    BY <1>12, <2>1, <2>2 DEF Reload, IInv, TypeOK
  <2> QED
    BY <2>2, <2>3, <2>4 DEF IInv, InSync, Settled
<1>13. CASE UNCHANGED vars
  <2>1. greeting' \in BOOLEAN /\ late' \in BOOLEAN /\ hashed' \in BOOLEAN /\ (greeting' => online)
    BY <1>13 DEF vars, IInv, TypeOK
  <2> QED
    BY <1>13, <2>1, Sending DEF vars, Settled
<1> QED
  BY <1>1, <1>2, <1>3, <1>4, <1>5, <1>6, <1>7, <1>8, <1>9, <1>10, <1>11, <1>12, <1>13 DEF Next

LEMMA Invariant == Spec => []IInv
BY Initially, Step, PTL DEF Spec

(* Every snapshot, baseline and announcement has its type.                  *)
THEOREM TypeCorrect == Spec => []TypeOK
<1>1. IInv => TypeOK
  BY DEF IInv
<1> QED
  BY <1>1, Invariant, PTL

(* The machine shows what the user asked for, or will return to it, message *)
(* included.                                                                *)
THEOREM PreferenceCorrect == Spec => []StateMatchesPreference
<1>1. IInv => StateMatchesPreference
  BY DEF IInv, Coherent, StateMatchesPreference, Connected, AutoStates
<1> QED
  BY <1>1, Invariant, PTL

(* After the initial presence the server is never wrong about an available  *)
(* or a busy user.                                                          *)
THEOREM AnnouncementCorrect == Spec => []BusyOrOnlineAnnounced
<1>1. IInv => BusyOrOnlineAnnounced
  BY DEF IInv, Agrees, BusyOrOnlineAnnounced
<1> QED
  BY <1>1, Invariant, PTL

(* No away outlives the return that ended it.                               *)
THEOREM AwayCorrect == Spec => []NoLingeringAway
<1>1. IInv => NoLingeringAway
  BY DEF IInv, Agrees, NoLingeringAway
<1> QED
  BY <1>1, Invariant, PTL

(* Whatever is sent of a user who asked not to be disturbed says so.        *)
LEMMA DndStep ==
  ASSUME IInv, [Next]_vars, wire' # wire, machine'.preference = "dnd"
  PROVE  wire'.show \in {"dnd", "unavailable"}
<1>0. IInv' /\ Coherent(machine) /\ Coherent(machine')
  <2>1. IInv'
    BY Step
  <2> QED
    BY <2>1 DEF IInv, Coherent, AutoStates, Machines
<1> DEFINE Right == wire' \in {Current(machine'), Initial(machine')}
<1>1. CASE Right /\ machine'.state # "disconnected"
  BY <1>0, <1>1, DndSends
<1>2. CASE wire' = Unavailable
  BY <1>2 DEF Unavailable
<1>3. CASE SetPresence \/ IdleDetected \/ SleepDetected \/ ActivityDetected
  <2>1. PICK m : Event(m)
    BY <1>3 DEF SetPresence, IdleDetected, SleepDetected, ActivityDetected
  <2>2. machine' = m /\ online /\ online' /\ wire' = Current(m)
    BY <2>1 DEF Event, Becomes
  <2>3. machine'.state # "disconnected"
    BY <1>0, <2>2 DEF IInv, InSync, Connected
  <2> QED
    BY <1>1, <2>2, <2>3
<1>4. CASE Established
  <2>1. /\ machine' = OnConnect(machine)
        /\ wire' \in {Current(OnConnect(machine)), Unavailable}
    BY <1>4 DEF Established, Becomes
  <2>2. machine'.state # "disconnected"
    BY <1>0, <2>1, Connecting
  <2> QED
    BY <1>1, <1>2, <2>1, <2>2
<1>5. CASE SendInitial \/ SendLate \/ AnnounceCaps
  <2>1. online /\ machine' = machine /\ wire' \in {Current(machine), Initial(machine)}
    BY <1>5 DEF SendInitial, SendLate, AnnounceCaps
  <2>2. machine.state # "disconnected"
    BY <2>1 DEF IInv, InSync, Connected
  <2> QED
    BY <1>1, <2>1, <2>2
<1>6. CASE Disconnect \/ SocketClosed \/ DeadSocket \/ Reload \/ UNCHANGED vars
  BY <1>6 DEF Disconnect, SocketClosed, DeadSocket, Reload, Becomes, vars
<1> QED
  BY <1>3, <1>4, <1>5, <1>6 DEF Next

(* No reconnection, loss, sleep or initial presence, of this session or of  *)
(* an earlier one, makes a user who asked not to be disturbed available.    *)
THEOREM DndCorrect == Spec => DndNeverWithdrawn
<1>1. IInv /\ [Next]_vars =>
        [wire' # wire /\ machine'.preference = "dnd" => wire'.show \in {"dnd", "unavailable"}]_vars
  BY DndStep
<1> QED
  BY <1>1, Invariant, PTL DEF Spec, DndNeverWithdrawn
=============================================================================
