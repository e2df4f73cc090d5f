---------------------------- MODULE ArchiveGaps ----------------------------
(***************************************************************************)
(* The recorded holes of one conversation or room, and what an archive     *)
(* page does to them (stores/shared/mamGap.ts, keyedMapEdits.ts).          *)
(*                                                                         *)
(* An archive entry is its position: positions stand for the timestamps    *)
(* and for the archive ids alike, and order both.  The list a store keeps  *)
(* is a SET of gap records here; that it is ordered and disjoint, and that *)
(* only its newest record is open, is Normal, which the models check.      *)
(***************************************************************************)
EXTENDS Integers

CONSTANT MaxPos   \* newest position the archive can reach
ASSUME MaxPosAssumption == MaxPos \in Nat \ {0}

Pos == 1..MaxPos

\* An absent archive id; and the end of a gap that extends to the live edge.
NoId == 0
Edge == MaxPos + 1

\* GapInterval: the messages with start < ts < end are missing.  startId is
\* the archive id a forward walk resumes after, endId the id of the message
\* that bounds the hole from above.
Gap == [start : Pos, end : 2..Edge, startId : Pos \cup {NoId}, endId : Pos \cup {NoId}]

Inside(g) == {p \in Pos : g.start < p /\ p < g.end}
Covered(gaps) == UNION {Inside(g) : g \in gaps}

Newest(ps) == CHOOSE p \in ps : \A q \in ps : q <= p
Oldest(ps) == CHOOSE p \in ps : \A q \in ps : p <= q

\* Ordered by start, pairwise disjoint, no empty record: with one start each,
\* only the newest can then be open.
Normal(gaps) ==
  /\ \A g \in gaps : g.start < g.end
  /\ \A g, h \in gaps : g = h \/ g.end <= h.start \/ h.end <= g.start

-----------------------------------------------------------------------------
\* normalizeGapList: overlapping records become one.  A cluster starts at a
\* record that no record starting below it reaches past; it keeps that start
\* and its id, and takes its end from the record that reaches farthest.
Heads(list) ==
  {g.start : g \in {g \in list : \A h \in list : h.start < g.start => h.end <= g.start}}

\* The records of the cluster that starts at s: those below the next head.
Cluster(list, s) ==
  {h \in list : s <= h.start /\ \A t \in Heads(list) : s < t => h.start < t}

Farthest(list, s) ==
  CHOOSE h \in Cluster(list, s) :
    \A k \in Cluster(list, s) : k.end < h.end \/ (k.end = h.end /\ k.start <= h.start)

Joined(list, s) ==
  LET first == CHOOSE g \in list : g.start = s
      far   == Farthest(list, s)
  IN  [start |-> s, end |-> far.end, startId |-> first.startId,
       endId |-> IF far.end = Edge THEN NoId ELSE far.endId]

NormalizeGapListUnjoined(list) == {g \in list : g.start < g.end}

NormalizeGapList(list) ==
  LET valid == {g \in list : g.start < g.end}
  IN  {Joined(valid, s) : s \in Heads(valid)}

\* findOpenGap: the record that extends to the live edge (a set of at most one).
OpenGap(gaps) == {g \in gaps : g.end = Edge}

\* computeGapEnd: the oldest message held above start.
ComputeGapEnd(held, start) ==
  LET above == {p \in held : p > start} IN IF above = {} THEN Edge ELSE Oldest(above)

-----------------------------------------------------------------------------
\* healGapsWithForwardPage.  The walk is contiguous from origin; rows are the
\* displayable messages of the page (none for a page of signals only), last
\* the archive id of its last entry, merged the timeline after the merge.
Reached(g, newest, last) ==
  IF newest <= g.start THEN {g}
  ELSE IF newest < g.end
       THEN {[g EXCEPT !.start = newest, !.startId = IF last = NoId THEN g.startId ELSE last]}
       ELSE {}

\* A page of signals moves only the resume id of the gap the walk started at.
Advanced(g, origin, last) ==
  IF g.start = origin /\ last # NoId THEN [g EXCEPT !.startId = last] ELSE g

HealGapsWithForwardPage(gaps, rows, origin, last, complete, merged) ==
  LET below == {g \in gaps : g.start < origin}
      above == gaps \ below
  IN  IF complete THEN below
      ELSE IF rows = {} THEN below \cup {Advanced(g, origin, last) : g \in above}
      ELSE LET newest == Newest(rows)
           IN  below \cup (UNION {Reached(g, newest, last) : g \in above})
               \cup IF above = {} /\ newest >= origin
                    THEN {[start |-> newest, end |-> ComputeGapEnd(merged, newest),
                           startId |-> last, endId |-> NoId]}
                    ELSE {}

-----------------------------------------------------------------------------
\* closeGapWithBackwardPage: the page walks down contiguously from its cursor.
CloseGapWithBackwardPage(g, rows, complete) ==
  IF rows = {} THEN {g}
  ELSE LET oldest == Oldest(rows)
       IN  IF Newest(rows) <= g.start THEN {g}
           ELSE IF complete \/ oldest <= g.start THEN {}
           ELSE IF oldest < g.end THEN {[g EXCEPT !.end = oldest, !.endId = oldest]}
           ELSE {g}

ReconcileGapsWithBackwardPage(gaps, rows, complete) ==
  UNION {CloseGapWithBackwardPage(g, rows, complete) : g \in gaps}

SeamIdsSwapped(rows, resident) ==
  IF rows # {} /\ rows \cap resident = {} /\ resident # {} /\ Oldest(rows) > Newest(resident)
  THEN {[start |-> Newest(resident), end |-> Oldest(rows),
         startId |-> Oldest(rows), endId |-> Newest(resident)]} ELSE {}

\* detectFetchLatestSeam: every row of the page is new and lies above the
\* newest resident message, so a hole separates the two.
Seam(rows, resident) ==
  IF rows # {} /\ rows \cap resident = {} /\ resident # {} /\ Oldest(rows) > Newest(resident)
  THEN {[start |-> Newest(resident), end |-> Oldest(rows),
         startId |-> Newest(resident), endId |-> Oldest(rows)]}
  ELSE {}

\* syncGapAfterArchiveMerge, forward: the walk's pages always carry an origin.
AfterForwardPage(gaps, rows, origin, last, complete, merged) ==
  NormalizeGapList(HealGapsWithForwardPage(gaps, rows, origin, last, complete, merged))

\* syncGapAfterArchiveMerge, backward: a fetch-latest that closes nothing may
\* add a seam.
AfterBackwardPage(gaps, rows, complete, fetchLatest, resident) ==
  LET reconciled == ReconcileGapsWithBackwardPage(gaps, rows, complete)
  IN  NormalizeGapList(IF fetchLatest /\ reconciled = gaps
                       THEN gaps \cup Seam(rows, resident)
                       ELSE reconciled)

\* clearGapAnchor: the archive no longer holds the id a gap resumes after.
ClearGapAnchor(gaps, purgedId) ==
  {IF g.startId = purgedId THEN [g EXCEPT !.startId = NoId] ELSE g : g \in gaps}
=============================================================================
