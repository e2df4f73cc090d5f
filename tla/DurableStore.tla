---------------------------- MODULE DurableStore ----------------------------
(***************************************************************************)
(* What of an account's archive knowledge survives a killed page: the      *)
(* throttle over localStorage (stores/shared/throttledStorage.ts) and the  *)
(* transitions forced out of its window (durableMapPersist.ts), for one    *)
(* account and one storage key.  The keys differ in what they carry and in *)
(* what a logout does to them: the chat store's blob has gaps, coverage    *)
(* and pending retractions, the room store has a key for gaps and one for  *)
(* coverage.                                                               *)
(*                                                                         *)
(* A boundary stands for the lower end of one gap of one conversation; its *)
(* upper end, which only ever costs a second heal, is left out.  A record  *)
(* says how deep a walk of the archive is known to be contiguous with the  *)
(* live edge.                                                              *)
(*                                                                         *)
(* An operator named for a slip is a faulty variant of one below it, which *)
(* no action uses.                                                         *)
(***************************************************************************)
EXTENDS Naturals, FiniteSets

CONSTANTS Boundaries,   \* gapAnchor of a conversation's gap
          Ids,          \* conversations or rooms with coverage
          Walks,        \* what a coverage record is contiguous with
          MaxDepth,     \* bound: how deep a walk gets
          Retractions,  \* retractions of messages that are not resident
          None, Absent

ASSUME DepthAssumption == MaxDepth \in Nat

VARIABLES kind,         \* which of the storage keys
          memory,       \* the account's state; while away, as it was left
          disk,         \* what localStorage has under the key
          window,       \* an entry, with its timer, exists for the key
          pending,      \* its pending thunk
          baseline,     \* the structural signature of the previous write
          probing,      \* retractions whose cache probe is in flight
          away,         \* another account, or none yet, is the live one
          failed        \* storage refused the last write of what memory holds

vars == <<kind, memory, disk, window, pending, baseline, probing, away, failed>>

KeyKinds == {"chat", "roomGaps", "roomCoverage"}
Records  == [walk: Walks, depth: 1..MaxDepth]
Values   == [gaps: SUBSET Boundaries, coverage: [Ids -> Records \cup {None}],
             retractions: SUBSET Retractions]
Signatures == [gaps: SUBSET Boundaries, ids: SUBSET Ids]
Empty    == [gaps |-> {}, coverage |-> [id \in Ids |-> None], retractions |-> {}]

ASSUME NoneAssumption == None \notin Values \cup Signatures \cup Records /\ Absent \notin Values

TypeOK ==
    /\ kind \in KeyKinds
    /\ memory \in Values
    /\ disk \in Values \cup {Absent}
    /\ window \in BOOLEAN
    /\ pending \in Values \cup {None}
    /\ baseline \in Signatures \cup {None}
    /\ probing \subseteq Retractions
    /\ away \in BOOLEAN
    /\ failed \in BOOLEAN

-----------------------------------------------------------------------------
(* durableMapPersist: which write must not wait.                            *)

Covered(v)   == {id \in Ids : v.coverage[id] # None}
SignatureOfRecords(v) == [gaps |-> v.gaps, ids |-> {v.coverage[id] : id \in Ids}]
Signature(v) == [gaps |-> v.gaps, ids |-> Covered(v)]

\* A key without a blob is read as an empty one.
Stored == IF disk = Absent THEN Empty ELSE disk

GapFormedByCount(v) ==
    Cardinality(v.gaps) > IF baseline = None THEN 0 ELSE Cardinality(baseline.gaps)
\* hasGapStructuralChange: a lower boundary the previous write did not hold.
GapFormed(v) == ~(v.gaps \subseteq IF baseline = None THEN {} ELSE baseline.gaps)

RecordRemovedUnnoticed(v) == baseline = None /\ Covered(v) # {}
\* hasCoverageRemoval.
RecordRemoved(v) == IF baseline = None THEN Covered(v) # {}
                    ELSE ~(baseline.ids \subseteq Covered(v))

\* CoverageTransition `replaced': the walk disproved contiguity with the record.
Replaces(old, new) == old # None /\ new # None /\ new.walk # old.walk

-----------------------------------------------------------------------------
(* throttledStorage.                                                        *)

\* localStorage.setItem, which may throw.
Write(v) == \E ok \in BOOLEAN : disk' = (IF ok THEN v ELSE disk) /\ failed' = ~ok

\* schedule, then flushKey when forced: an open window takes the value in, otherwise it is
\* written at once and a write that landed opens a window.
Schedule(v, forced) ==
    /\ memory' = v
    /\ baseline' = Signature(v)
    /\ \/ /\ window /\ ~forced
          /\ pending' = v
          /\ UNCHANGED <<disk, window, failed>>
       \/ /\ ~window \/ forced
          /\ Write(v)
          /\ window' = (~failed' /\ ~forced)
          /\ pending' = None

\* scheduleDurableMaps.
ScheduleDurableMaps(v, replaced) == Schedule(v, GapFormed(v) \/ RecordRemoved(v) \/ replaced)

\* flush, flushKey.
FlushDropsPending == /\ window' = FALSE /\ pending' = None
                     /\ UNCHANGED <<disk, failed>>
Flush == /\ window' = FALSE /\ pending' = None
         /\ IF pending = None THEN UNCHANGED <<disk, failed>> ELSE Write(pending)

-----------------------------------------------------------------------------
(* Actions.                                                                 *)

Init ==
    /\ kind \in KeyKinds
    /\ memory = Empty /\ disk = Absent
    /\ window = FALSE /\ pending = None /\ baseline = None
    /\ probing = {}
    /\ away = TRUE /\ failed = FALSE

\* An archive page, a purge or any other change of what the key carries: gaps heal and form, a
\* record is created, deepened, replaced or removed, and a page settles retractions.
Merge ==
    /\ ~away
    /\ \E gaps \in SUBSET Boundaries, id \in Ids, record \in Records \cup {None},
          left \in SUBSET memory.retractions :
          LET old == memory.coverage[id]
          IN  /\ kind = "roomCoverage" => gaps = memory.gaps
              /\ kind = "roomGaps" => record = old
              /\ old # None /\ record # None /\ record.walk = old.walk => record.depth >= old.depth
              /\ ScheduleDurableMaps([gaps |-> gaps,
                                      coverage |-> [memory.coverage EXCEPT ![id] = record],
                                      retractions |-> left],
                                     Replaces(old, record))
    /\ UNCHANGED <<kind, probing, away>>

RecordRetractionThrottled ==
    /\ ~away /\ kind = "chat"
    /\ \E r \in Retractions :
          /\ ScheduleDurableMaps([memory EXCEPT !.retractions = memory.retractions \cup {r}], FALSE)
          /\ probing' = probing \cup {r}
    /\ UNCHANGED <<kind, away>>
\* recordPendingRetraction of a message that is not resident: set, flushKey, and a probe.
RecordRetraction ==
    /\ ~away /\ kind = "chat"
    /\ \E r \in Retractions :
          /\ Schedule([memory EXCEPT !.retractions = memory.retractions \cup {r}], TRUE)
          /\ probing' = probing \cup {r}
    /\ UNCHANGED <<kind, away>>

\* The probe found the message, or found it still missing.  removePersistedPendingRetraction
\* edits the blob of an account that is no longer the live one.
Probed ==
    /\ \E r \in probing :
          LET settled(v) == [v EXCEPT !.retractions = v.retractions \ {r}]
          IN  /\ probing' = probing \ {r}
              /\ \/ UNCHANGED <<memory, disk, window, pending, baseline, failed>>
                 \/ ~away /\ Schedule(settled(memory), TRUE)
                 \/ /\ away
                    /\ memory' = settled(memory)
                    /\ IF r \in Stored.retractions
                       THEN \E ok \in BOOLEAN : /\ disk' = IF ok THEN settled(disk) ELSE disk
                                                /\ failed' = (failed \/ ~ok)
                       ELSE UNCHANGED <<disk, failed>>
                    /\ UNCHANGED <<window, pending, baseline>>
    /\ UNCHANGED <<kind, away>>

\* The window's end: a quiet one closes, a busy one writes and, if that landed, goes on.
OnTimer ==
    /\ window
    /\ IF pending = None THEN window' = FALSE /\ UNCHANGED <<disk, failed>>
       ELSE Write(pending) /\ window' = ~failed'
    /\ pending' = None
    /\ UNCHANGED <<kind, memory, baseline, probing, away>>

\* pagehide, beforeunload, or the document became hidden.
Hidden == Flush /\ UNCHANGED <<kind, memory, baseline, probing, away>>

ResetKeepsPending ==
    /\ ~away
    /\ memory' = Empty
    /\ disk' = Absent
    /\ UNCHANGED <<kind, window, pending, baseline, probing, away, failed>>
\* reset() on logout: cancelDurableMaps, removeItem, and the chat store writes its empty state.
Reset ==
    /\ ~away
    /\ memory' = Empty /\ pending' = None
    /\ IF kind = "chat"
       THEN /\ \E ok \in BOOLEAN : /\ disk' = IF ok THEN Empty ELSE Absent
                                   /\ window' = ok /\ failed' = ~ok
            /\ baseline' = Signature(Empty)
       ELSE disk' = Absent /\ window' = FALSE /\ failed' = FALSE /\ baseline' = None
    /\ UNCHANGED <<kind, probing, away>>

\* switchAccount() of both stores leaves the account, its windows flushed.
SwitchAway ==
    /\ ~away /\ away' = TRUE
    /\ Flush
    /\ baseline' = None
    /\ UNCHANGED <<kind, memory, probing>>

\* switchAccount() back: the chat store's set() writes what it loaded, and the room store's
\* switchAccount() then flushes and forgets again.
SwitchBack ==
    /\ away /\ away' = FALSE
    /\ memory' = Stored
    /\ disk' \in IF kind = "chat" THEN {disk, Stored} ELSE {disk}
    /\ failed' = FALSE
    /\ UNCHANGED <<kind, window, pending, baseline, probing>>

\* The page dies; the next one has no account until connect() names it.
Crash ==
    /\ memory' = Stored
    /\ window' = FALSE /\ pending' = None /\ baseline' = None
    /\ probing' = {}
    /\ away' = TRUE /\ failed' = FALSE
    /\ UNCHANGED <<kind, disk>>

Next == \/ Merge \/ RecordRetraction \/ Probed \/ OnTimer \/ Hidden
        \/ Reset \/ SwitchAway \/ SwitchBack \/ Crash

Spec == Init /\ [][Next]_vars

-----------------------------------------------------------------------------
(* Properties.  They say what a crash at this moment would leave, as long   *)
(* as storage accepts what is written to it.                                *)

(* A gap that formed, or whose lower boundary moved, is never lost: nothing *)
(* would detect it again (hasGapStructuralChange).                          *)
GapsSurviveCrash == ~failed => memory.gaps \subseteq Stored.gaps

(* Disk may lag behind memory but never claims contiguity that memory has   *)
(* disproved or dropped, nor more depth than was reached.                   *)
CoverageNotOverstated ==
    ~failed => \A id \in Covered(Stored) :
                  /\ memory.coverage[id] # None
                  /\ Stored.coverage[id].walk = memory.coverage[id].walk
                  /\ Stored.coverage[id].depth <= memory.coverage[id].depth

(* A retraction whose target is not resident is durable at once: it never   *)
(* arrives again.                                                           *)
RetractionsSurviveCrash == ~failed => memory.retractions \subseteq Stored.retractions

(* What is not on disk is waiting in the window, in its latest form; in     *)
(* particular an account that comes back finds what it left.  A failed     *)
(* write leaves no window behind which the next one would wait.            *)
OnlyTheWindowIsLost ==
    /\ IF pending = None THEN ~failed => Stored = memory
       ELSE window /\ pending = memory
    /\ failed => ~window

(* What a logout removed is not resurrected by a write that was pending.    *)
ClearedStaysCleared == disk = Absent => pending = None
=============================================================================
