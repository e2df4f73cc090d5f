------------------------- MODULE DurableStoreProofs -------------------------
(***************************************************************************)
(* What a crash leaves is right for any number of conversations, gaps,     *)
(* walks and retractions.  The inductive invariant says why the throttle   *)
(* may hold a write back: while a window is open its baseline is the       *)
(* signature of memory, and what is on disk is only behind memory, in ways *)
(* a restart repairs.                                                      *)
(***************************************************************************)
EXTENDS DurableStore, TLAPS

\* d lacks only what the next session finds again: healed gaps, depth, settled retractions.
Behind(d, v) ==
    /\ v.gaps \subseteq d.gaps
    /\ \A id \in Covered(d) : /\ v.coverage[id] # None
                              /\ d.coverage[id].walk = v.coverage[id].walk
                              /\ d.coverage[id].depth <= v.coverage[id].depth
    /\ v.retractions \subseteq d.retractions

IInv == /\ TypeOK
        /\ pending # None => window /\ pending = memory
        /\ window => /\ ~failed /\ ~away
                     /\ disk # Absent
                     /\ baseline = Signature(memory)
                     /\ Behind(disk, memory)
        /\ ~failed /\ pending = None => Stored = memory

-----------------------------------------------------------------------------
(* Values.                                                                  *)

LEMMA Signing ==
  ASSUME NEW v \in Values PROVE Signature(v) \in Signatures /\ Signature(v) # None
<1>1. Signature(v) \in Signatures
  BY DEF Values, Signatures, Signature, Covered
<1> QED
  BY <1>1, NoneAssumption

LEMMA EmptyIsValue == Empty \in Values
BY DEF Empty, Values

LEMMA StoredIsValue == ASSUME TypeOK PROVE Stored \in Values
BY EmptyIsValue DEF Stored, TypeOK

LEMMA Depths ==
  ASSUME NEW v \in Values, NEW id \in Covered(v)
  PROVE  v.coverage[id] \in Records /\ v.coverage[id].depth \in Nat
<1>1. v.coverage[id] \in Records
  BY DEF Values, Covered
<1> QED
  BY <1>1, DepthAssumption DEF Records

LEMMA BehindItself == ASSUME NEW v \in Values PROVE Behind(v, v)
<1>1. ASSUME NEW id \in Covered(v)
      PROVE  v.coverage[id] # None /\ v.coverage[id].depth <= v.coverage[id].depth
  <2>1. v.coverage[id] # None
    BY <1>1 DEF Covered
  <2>2. v.coverage[id].depth \in Nat
    BY <1>1, Depths
  <2> QED
    BY <2>1, <2>2
<1> QED
  BY <1>1 DEF Behind

(* A merge that nothing forces out of the window keeps disk merely behind.  *)
LEMMA ThrottledStaysBehind ==
  ASSUME NEW d \in Values, NEW m \in Values, NEW v \in Values, NEW id \in Ids,
         Behind(d, m), baseline = Signature(m),
         ~GapFormed(v), ~RecordRemoved(v), ~Replaces(m.coverage[id], v.coverage[id]),
         \A k \in Ids : k # id => v.coverage[k] = m.coverage[k],
         m.coverage[id] # None /\ v.coverage[id] # None
           /\ v.coverage[id].walk = m.coverage[id].walk
           => v.coverage[id].depth >= m.coverage[id].depth,
         v.retractions \subseteq m.retractions
  PROVE  Behind(d, v)
<1>1. baseline # None /\ baseline.gaps = m.gaps /\ baseline.ids = Covered(m)
  BY Signing DEF Signature
<1>2. v.gaps \subseteq d.gaps
  BY <1>1 DEF GapFormed, Behind
<1>3. Covered(m) \subseteq Covered(v)
  BY <1>1 DEF RecordRemoved
<1>4. ASSUME NEW k \in Covered(d)
      PROVE  /\ v.coverage[k] # None
             /\ d.coverage[k].walk = v.coverage[k].walk
             /\ d.coverage[k].depth <= v.coverage[k].depth
  <2>1. /\ k \in Ids /\ m.coverage[k] # None
        /\ d.coverage[k].walk = m.coverage[k].walk
        /\ d.coverage[k].depth <= m.coverage[k].depth
    BY <1>4 DEF Covered, Behind
  <2>2. k \in Covered(m) /\ k \in Covered(v)
    BY <1>3, <2>1 DEF Covered
  <2>3. /\ d.coverage[k].depth \in Nat
        /\ m.coverage[k].depth \in Nat
        /\ v.coverage[k].depth \in Nat
    BY <1>4, <2>2, Depths
  <2>4. v.coverage[k] # None
    BY <2>2 DEF Covered
  <2>5. CASE k # id
    BY <2>1, <2>4, <2>5
  <2>6. CASE k = id
    <3>1. v.coverage[k].walk = m.coverage[k].walk
      BY <2>1, <2>4, <2>6 DEF Replaces
    <3>2. v.coverage[k].depth >= m.coverage[k].depth
      BY <2>1, <2>4, <2>6, <3>1
    <3> QED
      BY <2>1, <2>3, <2>4, <3>1, <3>2
  <2> QED
    BY <2>5, <2>6
<1>5. v.retractions \subseteq d.retractions
  BY DEF Behind
<1> QED
  BY <1>2, <1>4, <1>5 DEF Behind

-----------------------------------------------------------------------------
(* The throttle.                                                            *)

(* A write either waits where it may, or is on disk, or is known to have    *)
(* failed.                                                                  *)
LEMMA Scheduling ==
  ASSUME IInv, NEW v \in Values, NEW forced \in BOOLEAN, Schedule(v, forced),
         window /\ ~forced => Behind(disk, v),
         ~away, UNCHANGED <<kind, away>>, probing' \subseteq Retractions
  PROVE  IInv'
<1>1. memory' = v /\ baseline' = Signature(v) /\ baseline' \in Signatures
  BY Signing DEF Schedule
<1>2. CASE window /\ ~forced
  <2>1. pending' = v /\ UNCHANGED <<disk, window, failed>>
    BY <1>2 DEF Schedule
  <2>2. TypeOK'
    BY <1>1, <2>1 DEF IInv, TypeOK
  <2>3. v # None
    BY NoneAssumption
  <2>4. Behind(disk', memory') /\ baseline' = Signature(memory')
    BY <1>1, <1>2, <2>1
  <2> QED
    BY <1>1, <1>2, <2>1, <2>2, <2>3, <2>4 DEF IInv, Behind, Covered, Signature
<1>3. CASE ~window \/ forced
  <2>1. PICK ok \in BOOLEAN : disk' = (IF ok THEN v ELSE disk) /\ failed' = ~ok
    BY <1>3 DEF Schedule, Write
  <2>2. pending' = None /\ window' = (~failed' /\ ~forced)
    BY <1>3 DEF Schedule
  <2>3. TypeOK'
    BY <1>1, <2>1, <2>2 DEF IInv, TypeOK
  <2>4. ~failed' => disk' = v /\ v # Absent
    BY <2>1, NoneAssumption
  <2>5. ~failed' => Behind(disk', memory') /\ Stored' = memory'
    BY <1>1, <2>4, BehindItself DEF Stored
  <2> QED
    BY <1>1, <2>2, <2>3, <2>4, <2>5 DEF IInv, Behind, Covered, Signature
<1> QED
  BY <1>2, <1>3

(* Closing the window writes what was pending in it.                        *)
LEMMA Flushing ==
  ASSUME IInv, Flush, UNCHANGED <<kind, memory, probing>>, away' \in BOOLEAN,
         baseline' \in Signatures \cup {None}
  PROVE  IInv'
<1>1. ~window' /\ window' \in BOOLEAN /\ pending' = None
  BY DEF Flush
<1>2. CASE pending = None
  <2>1. UNCHANGED <<disk, failed>>
    BY <1>2 DEF Flush
  <2> QED
    BY <1>1, <1>2, <2>1 DEF IInv, TypeOK, Stored, Empty
<1>3. CASE pending # None
  <2>1. PICK ok \in BOOLEAN : disk' = (IF ok THEN pending ELSE disk) /\ failed' = ~ok
    BY <1>3 DEF Flush, Write
  <2>2. pending = memory /\ memory \in Values /\ memory # Absent
    BY <1>3, NoneAssumption DEF IInv, TypeOK
  <2>3. ~failed' => Stored' = memory'
    BY <2>1, <2>2 DEF Stored
  <2>4. TypeOK'
    BY <1>1, <2>1, <2>2 DEF IInv, TypeOK
  <2> QED
    BY <1>1, <2>3, <2>4 DEF IInv
<1> QED
  BY <1>2, <1>3

-----------------------------------------------------------------------------
(* The actions.                                                             *)

LEMMA MergeStep == ASSUME IInv, Merge PROVE IInv'
<1>1. PICK gaps \in SUBSET Boundaries, id \in Ids, record \in Records \cup {None},
           left \in SUBSET memory.retractions :
         /\ memory.coverage[id] # None /\ record # None
              /\ record.walk = memory.coverage[id].walk
              => record.depth >= memory.coverage[id].depth
         /\ ScheduleDurableMaps([gaps |-> gaps,
                                 coverage |-> [memory.coverage EXCEPT ![id] = record],
                                 retractions |-> left],
                                Replaces(memory.coverage[id], record))
  BY DEF Merge
<1> DEFINE v == [gaps |-> gaps,
                 coverage |-> [memory.coverage EXCEPT ![id] = record],
                 retractions |-> left]
           replaced == Replaces(memory.coverage[id], record)
           forced == GapFormed(v) \/ RecordRemoved(v) \/ replaced
<1>2. memory \in Values
  BY DEF IInv, TypeOK
<1>3. v \in Values
  BY <1>2 DEF Values
<1>4. /\ v.coverage[id] = record
      /\ \A k \in Ids : k # id => v.coverage[k] = memory.coverage[k]
      /\ v.retractions \subseteq memory.retractions
  BY <1>2 DEF Values
<1>5. Schedule(v, forced) /\ forced \in BOOLEAN
  BY <1>1 DEF ScheduleDurableMaps
<1>6. window /\ ~forced => Behind(disk, v)
  <2> SUFFICES ASSUME window, ~forced PROVE Behind(disk, v)
    OBVIOUS
  <2>1. disk \in Values /\ Behind(disk, memory) /\ baseline = Signature(memory)
    BY DEF IInv, TypeOK
  <2> HIDE DEF v
  <2> QED
    BY <1>1, <1>2, <1>3, <1>4, <2>1, ThrottledStaysBehind
<1>7. ~away /\ UNCHANGED <<kind, away>> /\ probing' \subseteq Retractions
  BY DEF Merge, IInv, TypeOK
<1> HIDE DEF v, forced
<1> QED
  BY <1>3, <1>5, <1>6, <1>7, Scheduling

LEMMA RecordStep == ASSUME IInv, RecordRetraction PROVE IInv'
<1>1. PICK r \in Retractions :
         /\ Schedule([memory EXCEPT !.retractions = memory.retractions \cup {r}], TRUE)
         /\ probing' = probing \cup {r}
  BY DEF RecordRetraction
<1>2. [memory EXCEPT !.retractions = memory.retractions \cup {r}] \in Values
  BY DEF IInv, TypeOK, Values
<1>3. ~away /\ UNCHANGED <<kind, away>> /\ probing' \subseteq Retractions
  BY <1>1 DEF RecordRetraction, IInv, TypeOK
<1> QED
  BY <1>1, <1>2, <1>3, Scheduling

LEMMA ProbedStep == ASSUME IInv, Probed PROVE IInv'
<1> DEFINE settled(v, r) == [v EXCEPT !.retractions = v.retractions \ {r}]
           Edited(r) == IF r \in Stored.retractions
                        THEN \E ok \in BOOLEAN : /\ disk' = IF ok THEN settled(disk, r) ELSE disk
                                                 /\ failed' = (failed \/ ~ok)
                        ELSE UNCHANGED <<disk, failed>>
<1>1. PICK r \in probing :
         /\ probing' = probing \ {r}
         /\ \/ UNCHANGED <<memory, disk, window, pending, baseline, failed>>
            \/ ~away /\ Schedule(settled(memory, r), TRUE)
            \/ /\ away
               /\ memory' = settled(memory, r)
               /\ Edited(r)
               /\ UNCHANGED <<window, pending, baseline>>
  BY DEF Probed
<1>2. UNCHANGED <<kind, away>> /\ probing' \subseteq Retractions
  BY <1>1 DEF Probed, IInv, TypeOK
<1>3. settled(memory, r) \in Values
  BY DEF IInv, TypeOK, Values
<1>4. CASE UNCHANGED <<memory, disk, window, pending, baseline, failed>>
  BY <1>2, <1>4 DEF IInv, TypeOK, Stored, Empty, Behind, Covered, Signature
<1>5. CASE ~away /\ Schedule(settled(memory, r), TRUE)
  BY <1>2, <1>3, <1>5, Scheduling
<1>6. CASE /\ away
           /\ memory' = settled(memory, r)
           /\ Edited(r)
           /\ UNCHANGED <<window, pending, baseline>>
  <2>1. PICK ok \in BOOLEAN :
           /\ disk' = IF ok /\ r \in Stored.retractions THEN settled(disk, r) ELSE disk
           /\ failed' = (failed \/ (~ok /\ r \in Stored.retractions))
    BY <1>6 DEF IInv, TypeOK
  <2>2. ~window /\ pending = None
    BY <1>6 DEF IInv
  <2>3. disk' \in Values \cup {Absent}
    BY <2>1 DEF IInv, TypeOK, Values, Stored, Empty
  <2>4. TypeOK'
    BY <1>2, <1>3, <1>6, <2>1, <2>3 DEF IInv, TypeOK
  <2>5. ~failed' => Stored' = memory'
    <3> SUFFICES ASSUME ~failed' PROVE Stored' = memory'
      OBVIOUS
    <3>1. (ok \/ r \notin Stored.retractions) /\ Stored = memory
      BY <2>1, <2>2 DEF IInv
    <3>2. CASE r \in Stored.retractions
      <4>1. disk # Absent
        BY <3>2 DEF Stored, Empty
      <4>2. disk = memory /\ disk' = settled(memory, r) /\ disk' \in Values
        BY <1>3, <2>1, <3>1, <3>2, <4>1 DEF Stored
      <4>3. disk' # Absent
        BY <4>2, NoneAssumption
      <4> QED
        BY <1>6, <4>2, <4>3 DEF Stored
    <3>3. CASE r \notin Stored.retractions
      <4>1. memory \in Values
        BY DEF IInv, TypeOK
      <4>2. memory.retractions \ {r} = memory.retractions
        BY <3>1, <3>3
      <4>3. settled(memory, r) = memory
        BY <4>1, <4>2 DEF Values
      <4>4. Stored' = Stored
        BY <2>1, <3>3 DEF Stored, Empty
      <4> QED
        BY <1>6, <3>1, <4>3, <4>4
    <3> QED
      BY <3>2, <3>3
  <2> QED
    BY <1>6, <2>2, <2>4, <2>5 DEF IInv
<1> QED
  BY <1>1, <1>4, <1>5, <1>6

LEMMA TimerStep == ASSUME IInv, OnTimer PROVE IInv'
<1>0. /\ window /\ ~failed /\ ~away /\ disk # Absent
      /\ baseline = Signature(memory) /\ memory \in Values
  BY DEF OnTimer, IInv, TypeOK
<1>1. pending' = None /\ UNCHANGED <<kind, memory, baseline, probing, away>>
  BY DEF OnTimer
<1>2. CASE pending = None
  <2>1. window' = FALSE /\ UNCHANGED <<disk, failed>>
    BY <1>2 DEF OnTimer
  <2> QED
    BY <1>1, <1>2, <2>1 DEF IInv, TypeOK, Stored, Empty
<1>3. CASE pending # None
  <2>1. PICK ok \in BOOLEAN : disk' = (IF ok THEN pending ELSE disk) /\ failed' = ~ok
    BY <1>3 DEF OnTimer, Write
  <2>2. window' = ~failed' /\ pending = memory
    BY <1>3 DEF OnTimer, IInv
  <2>3. TypeOK'
    BY <1>0, <1>1, <2>1, <2>2 DEF IInv, TypeOK
  <2>4. ~failed' => disk' = memory' /\ disk' # Absent
    BY <1>0, <1>1, <2>1, <2>2, NoneAssumption
  <2>5. ~failed' => Behind(disk', memory') /\ Stored' = memory'
    BY <1>0, <1>1, <2>4, BehindItself DEF Stored
  <2> QED
    BY <1>0, <1>1, <2>2, <2>3, <2>4, <2>5 DEF IInv, Behind, Covered, Signature
<1> QED
  BY <1>2, <1>3

LEMMA ResetStep == ASSUME IInv, Reset PROVE IInv'
<1>1. /\ memory' = Empty /\ pending' = None /\ ~away
      /\ UNCHANGED <<kind, probing, away>>
  BY DEF Reset
<1>2. Empty # Absent
  BY EmptyIsValue, NoneAssumption
<1>3. CASE kind = "chat"
  <2>1. PICK ok \in BOOLEAN : /\ disk' = IF ok THEN Empty ELSE Absent
                              /\ window' = ok /\ failed' = ~ok
    BY <1>3 DEF Reset
  <2>2. baseline' = Signature(Empty) /\ baseline' \in Signatures
    BY <1>3, EmptyIsValue, Signing DEF Reset
  <2>3. TypeOK'
    BY <1>1, <2>1, <2>2, EmptyIsValue DEF IInv, TypeOK
  <2>4. window' => Behind(disk', memory')
    BY <1>1, <2>1, EmptyIsValue, BehindItself
  <2>5. Stored' = memory'
    BY <1>1, <2>1 DEF Stored, Empty
  <2>6. baseline' = Signature(memory')
    BY <1>1, <2>2
  <2> QED
    BY <1>1, <1>2, <2>1, <2>3, <2>4, <2>5, <2>6 DEF IInv, Behind, Covered, Signature
<1>4. CASE kind # "chat"
  <2>1. disk' = Absent /\ window' = FALSE /\ failed' = FALSE /\ baseline' = None
    BY <1>4 DEF Reset
  <2> QED
    BY <1>1, <2>1, EmptyIsValue DEF IInv, TypeOK, Stored, Empty
<1> QED
  BY <1>3, <1>4

(* Loading what is on disk, on a switch back or after a crash.              *)
LEMMA LoadStep == ASSUME IInv, SwitchBack \/ Crash PROVE IInv'
<1>1. ~window' /\ window' \in BOOLEAN /\ pending' = None
  <2>1. CASE SwitchBack
    <3>1. away /\ window' = window /\ pending' = pending
      BY <2>1 DEF SwitchBack
    <3>2. ~window /\ pending = None /\ window \in BOOLEAN
      BY <3>1 DEF IInv, TypeOK
    <3> QED
      BY <3>1, <3>2
  <2>2. CASE Crash
    BY <2>2 DEF Crash
  <2> QED
    BY <2>1, <2>2
<1>2. Stored \in Values /\ Stored # Absent
  BY StoredIsValue, NoneAssumption DEF IInv
<1>3. memory' = Stored /\ disk' \in {disk, Stored} /\ ~failed'
  BY DEF SwitchBack, Crash
<1>4. Stored' = memory'
  BY <1>2, <1>3 DEF Stored, Empty
<1>5. TypeOK'
  BY <1>1, <1>2, <1>3 DEF SwitchBack, Crash, IInv, TypeOK
<1> QED
  BY <1>1, <1>4, <1>5 DEF IInv

LEMMA Initially == Init => IInv
BY EmptyIsValue DEF Init, IInv, TypeOK, Stored, Empty

LEMMA Step == IInv /\ [Next]_vars => IInv'
<1> SUFFICES ASSUME IInv, [Next]_vars PROVE IInv'
  OBVIOUS
<1>1. CASE Hidden
  BY <1>1, Flushing DEF Hidden, IInv, TypeOK
<1>2. CASE SwitchAway
  BY <1>2, Flushing DEF SwitchAway
<1>3. CASE UNCHANGED vars
  BY <1>3 DEF vars, IInv, TypeOK, Stored, Empty, Behind, Covered, Signature
<1> QED
  BY <1>1, <1>2, <1>3, MergeStep, RecordStep, ProbedStep, TimerStep, ResetStep, LoadStep DEF Next

LEMMA Invariant == Spec => []IInv
BY Initially, Step, PTL DEF Spec

-----------------------------------------------------------------------------

(* Memory, disk, pending write and baseline always have their types.        *)
THEOREM TypeCorrect == Spec => []TypeOK
<1>1. IInv => TypeOK
  BY DEF IInv
<1> QED
  BY <1>1, Invariant, PTL

\* Unless a write failed, disk is at most behind.
LEMMA DiskIsBehind == ASSUME IInv, ~failed PROVE Behind(Stored, memory)
<1>1. CASE pending = None
  <2>1. Stored = memory /\ memory \in Values
    BY <1>1 DEF IInv, TypeOK
  <2> QED
    BY <2>1, BehindItself
<1>2. CASE pending # None
  BY <1>2 DEF IInv, Stored
<1> QED
  BY <1>1, <1>2

(* A crash at any moment loses no gap, unless storage refused the last      *)
(* write.                                                                   *)
THEOREM GapsSafe == Spec => []GapsSurviveCrash
<1>1. IInv => GapsSurviveCrash
  BY DiskIsBehind DEF Behind, GapsSurviveCrash
<1> QED
  BY <1>1, Invariant, PTL

(* It leaves no record that claims more than memory knows.                  *)
THEOREM CoverageSafe == Spec => []CoverageNotOverstated
<1>1. IInv => CoverageNotOverstated
  BY DiskIsBehind DEF Behind, CoverageNotOverstated
<1> QED
  BY <1>1, Invariant, PTL

(* It loses no pending retraction.                                          *)
THEOREM RetractionsSafe == Spec => []RetractionsSurviveCrash
<1>1. IInv => RetractionsSurviveCrash
  BY DiskIsBehind DEF Behind, RetractionsSurviveCrash
<1> QED
  BY <1>1, Invariant, PTL

(* What is not on disk waits in the window in its latest form.              *)
THEOREM WindowCorrect == Spec => []OnlyTheWindowIsLost
<1>1. IInv => OnlyTheWindowIsLost
  BY DEF IInv, OnlyTheWindowIsLost
<1> QED
  BY <1>1, Invariant, PTL

(* A logout leaves nothing pending to resurrect.                            *)
THEOREM ClearCorrect == Spec => []ClearedStaysCleared
<1>1. IInv => ClearedStaysCleared
  BY DEF IInv, ClearedStaysCleared
<1> QED
  BY <1>1, Invariant, PTL
=============================================================================
