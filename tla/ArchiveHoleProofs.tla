-------------------------- MODULE ArchiveHoleProofs --------------------------
(***************************************************************************)
(* Why no order of page merges, writes and deferred commits moves a gap    *)
(* past a message that was never stored, for archives, pages, walks and    *)
(* queues of any size.                                                     *)
(*                                                                         *)
(* The inductive invariant has five parts.  Basics: what is held, on its   *)
(* way or walked has been delivered, and gaps are drawn between messages.  *)
(* Bridges: while an automatic walk runs, no gap spans the place a page    *)
(* may be walked down from unless nothing is missing above it.  Reaches:   *)
(* an automatic forward walk has a gap over all that is missing above its  *)
(* origin, or has nothing held below it.  Backed: what a transition that   *)
(* may still be applied takes out of the gaps is stored by the time it is. *)
(* RoomsOnce: a room is walked once at a time.                             *)
(*                                                                         *)
(* Bridges and Reaches need the walks of a conversation not to overlap:    *)
(* two that do record gaps of one another's making.                        *)
(***************************************************************************)
EXTENDS ArchiveSyncProofs

-----------------------------------------------------------------------------
(* The gap lists: what normalising one, a forward page and a page walked    *)
(* down make of it, record by record.                                      *)

\* The numbers of a gap record.
LEMMA GapNumbers ==
  ASSUME NEW g \in Gap
  PROVE  /\ g.start \in Nat /\ g.start \in Pos /\ g.end \in Nat /\ g.endId \in Nat /\ g.startId \in Nat
         /\ g.start # 0 /\ g.end # 0 /\ g.end <= Edge /\ Edge \in Nat
  BY NumberFacts DEF Gap, Pos

\* The lowest record of a list starts a cluster, and every record is in the
\* cluster of the newest head that does not lie above it.
LEMMA ClusterOf ==
  ASSUME NEW list, list \subseteq Gap, NEW g \in list
  PROVE  \E s \in Heads(list) : g \in Cluster(list, s)
<1> DEFINE Starts == {h.start : h \in list}
           Below  == {s \in Heads(list) : s <= g.start}
<1>1. Starts \subseteq Nat /\ Starts # {} /\ \A h \in list : h.start \in Starts
  BY GapNumbers
<1>2. Oldest(Starts) \in Starts /\ \A s \in Starts : Oldest(Starts) <= s
  BY <1>1, OldestOf
<1>3. Oldest(Starts) \in Heads(list)
  <2>1. PICK h \in list : h.start = Oldest(Starts)
    BY <1>2
  <2>2. ASSUME NEW k \in list PROVE ~(k.start < h.start)
    <3>1. k.start \in Starts /\ h.start \in Starts
      OBVIOUS
    <3>2. h.start <= k.start /\ h.start \in Nat /\ k.start \in Nat
      BY <1>1, <1>2, <2>1, <3>1
    <3> QED
      BY <3>2
  <2> QED
    BY <2>1, <2>2 DEF Heads
<1>4. Below \subseteq 0..MaxPos /\ Below # {}
  BY <1>1, <1>2, <1>3, HeadIn, Displayed
<1> HIDE DEF Below, Starts
<1>5. Newest(Below) \in Below /\ \A s \in Below : s <= Newest(Below)
  BY <1>4, NumberFacts, NewestOf
<1>6. \A t \in Heads(list) : t \in Nat
  BY HeadIn, Displayed
<1>7. ASSUME NEW t \in Heads(list), Newest(Below) < t PROVE g.start < t
  <2>1. Newest(Below) \in Nat /\ t \in Nat /\ g.start \in Nat
    <3>1. Newest(Below) \in 0..MaxPos
      BY <1>4, <1>5
    <3>2. g \in Gap
      OBVIOUS
    <3> QED
      BY <1>6, <3>1, <3>2, GapNumbers, NumberFacts
  <2>2. t \notin Below
    BY <1>5, <1>7, <2>1
  <2> QED
    BY <2>1, <2>2 DEF Below
<1> QED
  BY <1>5, <1>7 DEF Below, Cluster

\* Joining records uncovers nothing.
LEMMA NormalizeCovers ==
  ASSUME NEW list, list \subseteq Gap
  PROVE  Covered(list) \subseteq Covered(NormalizeGapList(list))
<1> SUFFICES ASSUME NEW p \in Pos, NEW g \in list, g.start < p, p < g.end
             PROVE  \E j \in NormalizeGapList(list) : j.start < p /\ p < j.end
  BY DEF Covered, Inside
<1> DEFINE valid == {h \in list : h.start < h.end}
<1>1. g \in valid /\ valid \subseteq Gap /\ \A h \in valid : h.start < h.end
  BY GapNumbers, Displayed
<1>2. NormalizeGapList(list) = {Joined(valid, s) : s \in Heads(valid)}
  BY DEF NormalizeGapList
<1> HIDE DEF valid
<1>3. PICK s \in Heads(valid) : g \in Cluster(valid, s)
  BY <1>1, ClusterOf
<1>4. /\ Joined(valid, s).start = s /\ Joined(valid, s) \in Gap
      /\ g.end <= Joined(valid, s).end
  BY <1>1, <1>3, JoinedOf
<1>5. s <= g.start /\ s \in Nat
  BY <1>1, <1>3, HeadIn, Displayed DEF Cluster
<1>6. Joined(valid, s).start < p /\ p < Joined(valid, s).end
  BY <1>1, <1>4, <1>5, GapNumbers, Displayed
<1> QED
  BY <1>2, <1>3, <1>6

\* In an ordered list each record is a cluster of its own.
LEMMA NormalHeads ==
  ASSUME NEW list, list \subseteq Gap, NEW G, G \subseteq list, Normal(G),
         NEW h \in G, \A k \in list \ G : h.start < k.start
  PROVE  h.start \in Heads(list)
<1>1. ASSUME NEW k \in list, k.start < h.start PROVE k.end <= h.start
  <2>1. k \in Gap /\ h \in Gap /\ h.start < h.end
    BY DEF Normal
  <2>2. k \in G
    BY <1>1, <2>1, GapNumbers
  <2>3. k = h \/ k.end <= h.start \/ h.end <= k.start
    BY <2>2 DEF Normal
  <2> QED
    BY <1>1, <2>1, <2>3, GapNumbers
<1> QED
  BY <1>1 DEF Heads

\* normalizeGapList orders any list: its records are apart.
LEMMA NormalizeNormal ==
  ASSUME NEW list, list \subseteq Gap, Normal(list), NEW j \in NormalizeGapList(list)
  PROVE  \E g \in list : j.start = g.start /\ j.end = g.end /\ j.endId \in {g.endId, NoId}
<1>1. {g \in list : g.start < g.end} = list /\ \A g \in list : g.start < g.end
  BY DEF Normal
<1>2. NormalizeGapList(list) = {Joined(list, s) : s \in Heads(list)}
  BY <1>1 DEF NormalizeGapList
<1>3. PICK s \in Heads(list) : j = Joined(list, s)
  BY <1>2
<1>4. /\ j.start = s
      /\ \E g \in list : g.start = s
      /\ \E h \in Cluster(list, s) : h.end = j.end /\ (j.endId = h.endId \/ j.endId = NoId)
  BY <1>1, <1>3, JoinedOf
<1>5. PICK g \in list : g.start = s
  BY <1>4
<1>6. PICK h \in Cluster(list, s) : h.end = j.end /\ (j.endId = h.endId \/ j.endId = NoId)
  BY <1>4
<1>7. h \in list /\ s <= h.start /\ \A t \in Heads(list) : s < t => h.start < t
  BY <1>6 DEF Cluster
<1>8. h.start \in Heads(list)
  BY <1>7, NormalHeads
<1>9. h \in Gap /\ g \in Gap /\ g.start < g.end /\ h.start < h.end
  BY <1>1, <1>7
<1>10. ~(s < h.start)
  BY <1>7, <1>8, <1>9, GapNumbers
<1>11. g = h
  <2>1. g = h \/ g.end <= h.start \/ h.end <= g.start
    BY <1>7 DEF Normal
  <2> QED
    BY <1>5, <1>7, <1>9, <1>10, <2>1, GapNumbers
<1> QED
  BY <1>4, <1>5, <1>6, <1>11

\* Where a record reaches past an entry e, when the list is ordered but for one
\* record that starts above all the others.
LEMMA NormalizeOpened ==
  ASSUME NEW G, G \subseteq Gap, Normal(G), NEW o \in Gap, \A g \in G : g.start < o.start,
         NEW j \in NormalizeGapList(G \cup {o}), NEW e \in Nat, NEW p \in Nat,
         j.start < e, e <= p, p < j.end
  PROVE  \/ \E g \in G : g.start < e /\ p < g.end
         \/ o.start < e
         \/ \E g \in G : o.start < g.end /\ g.end <= p
<1> DEFINE list  == G \cup {o}
           valid == {g \in list : g.start < g.end}
<1>1. valid \subseteq Gap /\ (\A g \in valid : g.start < g.end) /\ G \subseteq valid
      /\ \A k \in valid \ G : k = o
  BY DEF Normal
<1>2. NormalizeGapList(list) = {Joined(valid, s) : s \in Heads(valid)}
  BY DEF NormalizeGapList
<1> HIDE DEF valid, list
<1>3. PICK s \in Heads(valid) : j = Joined(valid, s)
  BY <1>2 DEF list
<1>4. /\ j.start = s /\ j \in Gap
      /\ \E g \in valid : g.start = s
      /\ \E h \in Cluster(valid, s) : h.end = j.end
  BY <1>1, <1>3, JoinedOf
<1>5. PICK g \in valid : g.start = s
  BY <1>4
<1>6. PICK h \in Cluster(valid, s) : h.end = j.end
  BY <1>4
<1>7. h \in valid /\ s <= h.start /\ \A t \in Heads(valid) : s < t => h.start < t
  BY <1>6 DEF Cluster
<1>8. h \in Gap /\ g \in Gap /\ g.start < g.end /\ h.start < h.end
  BY <1>1, <1>7
<1>9. \A k \in G : k.start \in Heads(valid)
  <2>1. ASSUME NEW k \in G, NEW m \in valid \ G PROVE k.start < m.start
    BY <1>1, <2>1
  <2> QED
    BY <1>1, <2>1, NormalHeads
<1>10. CASE g \notin G
  BY <1>1, <1>4, <1>5, <1>10
<1>11. CASE g \in G /\ h \in G
  <2>1. ~(s < h.start)
    BY <1>7, <1>8, <1>9, <1>11, GapNumbers
  <2>2. g = h \/ g.end <= h.start \/ h.end <= g.start
    BY <1>11 DEF Normal
  <2>3. g = h
    BY <1>5, <1>7, <1>8, <2>1, <2>2, GapNumbers
  <2> QED
    BY <1>4, <1>5, <1>6, <1>11, <2>3
<1>12. CASE g \in G /\ h \notin G
  <2>1. h = o /\ s < o.start
    BY <1>1, <1>5, <1>7, <1>12
  <2>2. o.start \notin Heads(valid)
    BY <1>7, <1>8, <2>1, GapNumbers
  <2>3. PICK k \in valid : k.start < o.start /\ ~(k.end <= o.start)
    BY <1>7, <2>1, <2>2 DEF Heads
  <2>4. k \in G /\ k \in Gap /\ o.start < k.end
    BY <1>1, <2>1, <2>3, GapNumbers
  <2>5. CASE k = g
    BY <1>4, <1>5, <1>12, <2>4, <2>5, GapNumbers
  <2>6. CASE k # g
    <3>1. ~(s < k.start)
      BY <1>7, <1>8, <1>9, <2>1, <2>3, <2>4, GapNumbers
    <3>2. k.end <= g.start \/ g.end <= k.start
      BY <1>12, <2>4, <2>6 DEF Normal
    <3> QED
      BY <1>5, <1>8, <2>1, <2>4, <3>1, <3>2, GapNumbers
  <2> QED
    BY <2>5, <2>6
<1> QED
  BY <1>10, <1>11, <1>12

-----------------------------------------------------------------------------
(* What one page does to the list, over and above its types.               *)

\* A forward page that holds rows and does not reach live, on the records.
LEMMA ReachedRecord ==
  ASSUME NEW g \in Gap, g.start < g.end, NEW newest \in Pos, NEW last \in 0..MaxPos,
         NEW h \in Reached(g, newest, last)
  PROVE  /\ h.end = g.end /\ h.endId = g.endId /\ h.start < h.end
         /\ h.start = g.start \/ (h.start = newest /\ g.start < newest)
         /\ Reached(g, newest, last) = {h}
<1>1. newest \in Nat
  BY Displayed
<1>2. CASE newest <= g.start
  BY <1>2 DEF Reached
<1>3. CASE ~(newest <= g.start) /\ newest < g.end
  <2> DEFINE k == [g EXCEPT !.start = newest, !.startId = IF last = NoId THEN g.startId ELSE last]
  <2>1. Reached(g, newest, last) = {k}
    BY <1>3 DEF Reached
  <2>2. k.end = g.end /\ k.endId = g.endId /\ k.start = newest
    BY DEF Gap
  <2> HIDE DEF k
  <2> QED
    BY <1>1, <1>3, <2>1, <2>2, GapNumbers
<1>4. CASE ~(newest <= g.start) /\ ~(newest < g.end)
  BY <1>4 DEF Reached
<1> QED
  BY <1>2, <1>3, <1>4

\* One record lies within another.
Within(h, g) == g.start <= h.start /\ h.end <= g.end

\* A list made of parts of another's records, at most one of each, is ordered.
LEMMA NormalParts ==
  ASSUME NEW gs, gs \subseteq Gap, Normal(gs), NEW list, list \subseteq Gap,
         \A h \in list : h.start < h.end /\ \E g \in gs : Within(h, g),
         \A h, k \in list, g \in gs : Within(h, g) /\ Within(k, g) => h = k
  PROVE  Normal(list)
<1>1. ASSUME NEW h \in list, NEW k \in list PROVE h = k \/ h.end <= k.start \/ k.end <= h.start
  <2>1. PICK g \in gs : Within(h, g)
    OBVIOUS
  <2>2. PICK m \in gs : Within(k, m)
    OBVIOUS
  <2>3. g \in Gap /\ m \in Gap /\ h \in Gap /\ k \in Gap
    OBVIOUS
  <2>4. CASE g = m
    BY <2>1, <2>2, <2>4
  <2>5. CASE g # m
    <3>1. g.end <= m.start \/ m.end <= g.start
      BY <2>5 DEF Normal
    <3> QED
      BY <2>1, <2>2, <2>3, <3>1, GapNumbers DEF Within
  <2> QED
    BY <2>4, <2>5
<1> QED
  BY <1>1 DEF Normal

\* A nonempty part lies in one record only.
LEMMA OneWithin ==
  ASSUME NEW gs, gs \subseteq Gap, Normal(gs), NEW h \in Gap, h.start < h.end,
         NEW g \in gs, NEW m \in gs, Within(h, g), Within(h, m)
  PROVE  g = m
<1>1. g = m \/ g.end <= m.start \/ m.end <= g.start
  BY DEF Normal
<1> QED
  BY <1>1, GapNumbers DEF Within

\* The gap that healGapsWithForwardPage opens above the page, if any.
Opens(gs, rows, origin, complete) ==
  ~complete /\ rows # {} /\ origin <= Newest(rows) /\ \A g \in gs : g.start < origin

\* A forward page has passed p: it reached live, or p is not above its newest
\* row.
Passes(rows, complete, p) == complete \/ (rows # {} /\ p <= Newest(rows))

\* It keeps of each record at most one part, that ends where the record did,
\* and adds at most the gap above its newest row.
Heals(F, healed, gs, rows, origin, complete, merged) ==
  /\ F \subseteq Gap /\ Normal(F)
  /\ \A h \in F : \E g \in gs : /\ Within(h, g) /\ h.end = g.end /\ h.endId = g.endId
                                /\ h.start = g.start \/ origin <= g.start
  /\ \A g \in gs, p \in Nat : g.start < p /\ p < g.end =>
       \/ \E h \in F : h.start < p /\ p < h.end
       \/ origin <= g.start /\ Passes(rows, complete, p)
  /\ \/ healed = F
     \/ /\ Opens(gs, rows, origin, complete) /\ F = gs
        /\ \E o \in Gap : /\ healed = gs \cup {o} /\ o.start = Newest(rows)
                          /\ o.end \in {q \in merged : q > o.start} \cup {Edge}
                          /\ o.endId = NoId

\* healGapsWithForwardPage does that.
LEMMA HealParts ==
  ASSUME NEW gs, gs \subseteq Gap, Normal(gs), NEW rows, rows \subseteq Displayable,
         NEW origin \in 0..MaxPos, NEW last \in 0..MaxPos, NEW complete \in BOOLEAN,
         NEW merged, merged \subseteq Displayable
  PROVE  \E F : Heals(F, HealGapsWithForwardPage(gs, rows, origin, last, complete, merged),
                      gs, rows, origin, complete, merged)
<1> DEFINE below  == {g \in gs : g.start < origin}
           above  == gs \ below
           newest == Newest(rows)
           healed == HealGapsWithForwardPage(gs, rows, origin, last, complete, merged)
<1>0. \A g \in gs : g \in Gap /\ g.start \in Nat /\ g.end \in Nat /\ g.start < g.end /\ Within(g, g)
  BY GapNumbers DEF Normal, Within
<1>1. origin \in Nat /\ \A g \in above : origin <= g.start
  BY <1>0
<1>2. CASE complete
  <2>1. healed = below
    BY <1>2 DEF HealGapsWithForwardPage
  <2>2. below \subseteq Gap /\ Normal(below)
    BY DEF Normal
  <2>3. \A h \in below : \E g \in gs : /\ Within(h, g) /\ h.end = g.end /\ h.endId = g.endId
                                       /\ h.start = g.start \/ origin <= g.start
    BY <1>0
  <2>4. \A g \in gs, p \in Nat : g.start < p /\ p < g.end =>
           \/ \E h \in below : h.start < p /\ p < h.end
           \/ origin <= g.start /\ Passes(rows, complete, p)
    BY <1>1, <1>2 DEF Passes
  <2> HIDE DEF below, healed
  <2> QED
    BY <2>1, <2>2, <2>3, <2>4 DEF Heals, healed
<1>3. CASE ~complete /\ rows = {}
  <2> DEFINE moved == {Advanced(g, origin, last) : g \in above}
             F     == below \cup moved
  <2>1. healed = F
    BY <1>3 DEF HealGapsWithForwardPage
  <2>2. ASSUME NEW g \in gs
        PROVE  /\ Advanced(g, origin, last) \in Gap /\ Advanced(g, origin, last).start = g.start
               /\ Advanced(g, origin, last).end = g.end /\ Advanced(g, origin, last).endId = g.endId
    BY AdvancedOf DEF Advanced, Gap
  <2>3. ASSUME NEW h \in F
        PROVE  \E g \in gs : /\ h \in Gap /\ h.start = g.start /\ h.end = g.end /\ h.endId = g.endId
                             /\ h = IF g \in below THEN g ELSE Advanced(g, origin, last)
    BY <2>2
  <2>4. \A g \in gs : \E h \in F : h.start = g.start /\ h.end = g.end
    BY <2>2
  <2> HIDE DEF F, below, above, healed
  <2>5. F \subseteq Gap
    BY <2>3
  <2>6. \A h \in F : /\ h.start < h.end
                     /\ \E g \in gs : Within(h, g) /\ h.end = g.end /\ h.endId = g.endId /\ h.start = g.start
    BY <1>0, <2>3, GapNumbers DEF Within
  <2>7. ASSUME NEW h \in F, NEW k \in F, NEW g \in gs, Within(h, g), Within(k, g) PROVE h = k
    <3>1. PICK m \in gs : h.start = m.start /\ h.end = m.end /\ h = IF m \in below THEN m ELSE Advanced(m, origin, last)
      BY <2>3
    <3>2. PICK n \in gs : k.start = n.start /\ k.end = n.end /\ k = IF n \in below THEN n ELSE Advanced(n, origin, last)
      BY <2>3
    <3>3. Within(h, m) /\ Within(k, n)
      BY <1>0, <3>1, <3>2 DEF Within
    <3>4. m = g /\ n = g
      BY <2>5, <2>6, <3>3, <2>7, OneWithin
    <3> QED
      BY <3>1, <3>2, <3>4
  <2>8. Normal(F)
    BY <2>5, <2>6, <2>7, NormalParts
  <2>9. \A g \in gs, p \in Nat : g.start < p /\ p < g.end => \E h \in F : h.start < p /\ p < h.end
    BY <2>4
  <2> QED
    BY <2>1, <2>5, <2>6, <2>8, <2>9 DEF Heals, healed
<1>4. CASE ~complete /\ rows # {}
  <2> DEFINE reached == UNION {Reached(g, newest, last) : g \in above}
             F       == below \cup reached
             o       == [start |-> newest, end |-> ComputeGapEnd(merged, newest),
                         startId |-> last, endId |-> NoId]
  <2>1. newest \in Pos /\ newest \in Nat
    BY <1>4, NewestOf, Displayed
  <2>2. o \in Gap /\ o.end \in {q \in merged : q > o.start} \cup {Edge} /\ o.start = newest /\ o.endId = NoId
    <3>1. o \in Gap
      BY <2>1, OpenedOf
    <3>2. ComputeGapEnd(merged, newest) \in {q \in merged : q > newest} \cup {Edge}
      <4> DEFINE up == {q \in merged : q > newest}
      <4>1. up \subseteq Nat
        BY Displayed
      <4> QED
        BY <4>1, OldestOf DEF ComputeGapEnd
    <3> QED
      BY <3>1, <3>2
  <2>3. healed = F \cup IF above = {} /\ newest >= origin THEN {o} ELSE {}
    BY <1>4 DEF HealGapsWithForwardPage
  <2>4. ASSUME NEW g \in above, NEW h \in Reached(g, newest, last)
        PROVE  /\ h \in Gap /\ h.start < h.end /\ Within(h, g) /\ h.end = g.end /\ h.endId = g.endId
               /\ Reached(g, newest, last) = {h}
    <3>1. /\ h.end = g.end /\ h.endId = g.endId /\ h.start < h.end
          /\ h.start = g.start \/ (h.start = newest /\ g.start < newest)
          /\ Reached(g, newest, last) = {h}
      BY <1>0, <2>1, ReachedRecord
    <3>2. h \in Gap
      BY <1>0, <2>1, ReachedOf
    <3> QED
      BY <1>0, <2>1, <3>1, <3>2, GapNumbers DEF Within
  <2>5. ASSUME NEW g \in above, NEW p \in Nat, g.start < p, p < g.end, ~Passes(rows, complete, p)
        PROVE  \E h \in Reached(g, newest, last) : h.start < p /\ p < h.end
    <3>1. newest < p
      BY <1>4, <2>1, <2>5 DEF Passes
    <3>2. newest < g.end
      BY <1>0, <2>1, <2>5, <3>1
    <3>3. CASE newest <= g.start
      BY <2>5, <3>3 DEF Reached
    <3>4. CASE ~(newest <= g.start)
      <4> DEFINE k == [g EXCEPT !.start = newest, !.startId = IF last = NoId THEN g.startId ELSE last]
      <4>1. Reached(g, newest, last) = {k}
        BY <3>2, <3>4 DEF Reached
      <4>2. k.end = g.end /\ k.start = newest
        BY <1>0 DEF Gap
      <4> HIDE DEF k
      <4> QED
        BY <2>5, <3>1, <4>1, <4>2
    <3> QED
      BY <3>3, <3>4
  <2>6. ASSUME NEW h \in F
        PROVE  \E g \in gs : /\ h \in Gap /\ h.start < h.end /\ Within(h, g)
                             /\ h.end = g.end /\ h.endId = g.endId
                             /\ h.start = g.start \/ origin <= g.start
                             /\ IF g \in below THEN h = g ELSE Reached(g, newest, last) = {h}
    <3>1. CASE h \in below
      BY <1>0, <3>1
    <3>2. CASE h \in reached
      <4>1. PICK g \in above : h \in Reached(g, newest, last)
        BY <3>2
      <4> QED
        BY <1>1, <2>4, <4>1
    <3> QED
      BY <3>1, <3>2
  <2>7. \A g \in gs, p \in Nat : g.start < p /\ p < g.end =>
           \/ \E h \in F : h.start < p /\ p < h.end
           \/ origin <= g.start /\ Passes(rows, complete, p)
    <3> SUFFICES ASSUME NEW g \in gs, NEW p \in Nat, g.start < p, p < g.end,
                        ~(origin <= g.start /\ Passes(rows, complete, p))
                 PROVE  \E h \in F : h.start < p /\ p < h.end
      OBVIOUS
    <3>1. CASE g \in below
      BY <3>1
    <3>2. CASE g \in above
      <4>1. PICK h \in Reached(g, newest, last) : h.start < p /\ p < h.end
        BY <1>1, <2>5, <3>2
      <4>2. h \in F
        BY <3>2
      <4> QED
        BY <4>1, <4>2
    <3> QED
      BY <3>1, <3>2
  <2>8. above = {} => F = gs
    OBVIOUS
  <2>9. above = {} /\ newest >= origin => Opens(gs, rows, origin, complete)
    BY <1>4 DEF Opens
  <2> HIDE DEF F, o, reached, below, above, healed, newest
  <2>10. F \subseteq Gap /\ \A h \in F : h.start < h.end /\ \E g \in gs : Within(h, g)
    BY <2>6
  <2>11. ASSUME NEW h \in F, NEW k \in F, NEW g \in gs, Within(h, g), Within(k, g) PROVE h = k
    <3>1. PICK m \in gs : Within(h, m) /\ IF m \in below THEN h = m ELSE Reached(m, newest, last) = {h}
      BY <2>6
    <3>2. PICK n \in gs : Within(k, n) /\ IF n \in below THEN k = n ELSE Reached(n, newest, last) = {k}
      BY <2>6
    <3>3. m = g /\ n = g
      BY <2>10, <2>11, <3>1, <3>2, OneWithin
    <3> QED
      BY <3>1, <3>2, <3>3
  <2>12. Normal(F)
    BY <2>10, <2>11, NormalParts
  <2>13. \A h \in F : \E g \in gs : /\ Within(h, g) /\ h.end = g.end /\ h.endId = g.endId
                                    /\ h.start = g.start \/ origin <= g.start
    BY <2>6
  <2>14. \/ healed = F
         \/ /\ Opens(gs, rows, origin, complete) /\ F = gs
            /\ \E m \in Gap : /\ healed = gs \cup {m} /\ m.start = Newest(rows)
                              /\ m.end \in {q \in merged : q > m.start} \cup {Edge} /\ m.endId = NoId
    BY <2>2, <2>3, <2>8, <2>9 DEF newest
  <2>15. F \subseteq Gap
    BY <2>10
  <2>16. Heals(F, healed, gs, rows, origin, complete, merged)
    BY <2>7, <2>12, <2>13, <2>14, <2>15 DEF Heals
  <2> QED
    BY <2>16 DEF healed
<1> QED
  BY <1>2, <1>3, <1>4

\* A page that is walked down shortens a record, removes it, or leaves it
\* alone, and uncovers nothing but what it holds.
LEMMA CloseRecord ==
  ASSUME NEW g \in Gap, g.start < g.end, NEW rows, rows \subseteq Displayable, NEW complete \in BOOLEAN,
         NEW h \in CloseGapWithBackwardPage(g, rows, complete)
  PROVE  /\ h.start = g.start /\ h.start < h.end /\ h.end <= g.end
         /\ \/ h = g
            \/ rows # {} /\ h.end = Oldest(rows) /\ h.endId = Oldest(rows)
         /\ CloseGapWithBackwardPage(g, rows, complete) = {h}
<1>1. g.start \in Nat /\ g.end \in Nat
  BY GapNumbers
<1>2. CASE CloseGapWithBackwardPage(g, rows, complete) = {g}
  BY <1>1, <1>2
<1>3. CASE CloseGapWithBackwardPage(g, rows, complete) # {g}
  <2>1. rows # {} /\ Oldest(rows) \in Nat
    <3>1. rows # {}
      BY <1>3 DEF CloseGapWithBackwardPage
    <3> QED
      BY <3>1, OldestOf, Displayed
  <2> DEFINE o == Oldest(rows)
             k == [g EXCEPT !.end = o, !.endId = o]
  <2>2. CloseGapWithBackwardPage(g, rows, complete) = {k} /\ ~(o <= g.start) /\ o < g.end
    BY <1>3, <2>1 DEF CloseGapWithBackwardPage
  <2>3. k.start = g.start /\ k.end = o /\ k.endId = o
    BY DEF Gap
  <2> HIDE DEF k
  <2>4. h = k
    BY <2>2
  <2> QED
    BY <1>1, <2>1, <2>2, <2>3, <2>4
<1> QED
  BY <1>2, <1>3

\* What a page that is walked down takes out of a record.
Closes(g, rows, complete, p) == rows # {} /\ g.start < Newest(rows) /\ (complete \/ Oldest(rows) <= p)

\* What leaves a record when its bottom is closed is not below the page.
LEMMA CloseUncovers ==
  ASSUME NEW g \in Gap, NEW rows, rows \subseteq Displayable, NEW complete \in BOOLEAN,
         NEW p \in Nat, g.start < p, p < g.end, ~Closes(g, rows, complete, p)
  PROVE  \E h \in CloseGapWithBackwardPage(g, rows, complete) : h.start < p /\ p < h.end
<1>1. g.start \in Nat /\ g.end \in Nat
  BY GapNumbers
<1>2. CASE CloseGapWithBackwardPage(g, rows, complete) = {g}
  BY <1>2
<1>3. CASE CloseGapWithBackwardPage(g, rows, complete) # {g}
  <2>1. rows # {} /\ ~(Newest(rows) <= g.start)
    BY <1>3 DEF CloseGapWithBackwardPage
  <2>2. Oldest(rows) \in Nat /\ Newest(rows) \in Nat
    BY <2>1, OldestOf, NewestOf, Displayed
  <2>3. ~complete /\ p < Oldest(rows)
    BY <1>1, <2>1, <2>2 DEF Closes
  <2> DEFINE o == Oldest(rows)
             k == [g EXCEPT !.end = o, !.endId = o]
  <2>4. CloseGapWithBackwardPage(g, rows, complete) = {k}
    BY <1>1, <1>3, <2>1, <2>2, <2>3 DEF CloseGapWithBackwardPage
  <2>5. k.start = g.start /\ k.end = o
    BY DEF Gap
  <2> HIDE DEF k
  <2> QED
    BY <2>3, <2>4, <2>5
<1> QED
  BY <1>2, <1>3

\* It keeps of each record at most one part, that lies within it and loses only
\* what the page closes.
Reconciles(F, gs, rows, complete) ==
  /\ F \subseteq Gap /\ Normal(F)
  /\ \A h \in F : \E g \in gs : /\ Within(h, g)
                                /\ \/ h = g
                                   \/ rows # {} /\ h.end = Oldest(rows) /\ h.endId = Oldest(rows)
  /\ \A g \in gs, p \in Nat : g.start < p /\ p < g.end =>
       \/ \E h \in F : h.start < p /\ p < h.end
       \/ Closes(g, rows, complete, p)

\* reconcileGapsWithBackwardPage does that.
LEMMA ReconcileParts ==
  ASSUME NEW gs, gs \subseteq Gap, Normal(gs), NEW rows, rows \subseteq Displayable,
         NEW complete \in BOOLEAN
  PROVE  Reconciles(ReconcileGapsWithBackwardPage(gs, rows, complete), gs, rows, complete)
<1> DEFINE F == ReconcileGapsWithBackwardPage(gs, rows, complete)
<1>0. \A g \in gs : g \in Gap /\ g.start \in Nat /\ g.end \in Nat /\ g.start < g.end
  BY GapNumbers DEF Normal
<1>1. ASSUME NEW h \in F
      PROVE  \E g \in gs : /\ h \in Gap /\ Within(h, g) /\ h.start < h.end
                           /\ \/ h = g
                              \/ rows # {} /\ h.end = Oldest(rows) /\ h.endId = Oldest(rows)
                           /\ CloseGapWithBackwardPage(g, rows, complete) = {h}
  <2>1. PICK g \in gs : h \in CloseGapWithBackwardPage(g, rows, complete)
    BY DEF ReconcileGapsWithBackwardPage
  <2>2. h \in Gap
    BY <2>1, CloseOf
  <2>3. /\ h.start = g.start /\ h.start < h.end /\ h.end <= g.end
        /\ \/ h = g
           \/ rows # {} /\ h.end = Oldest(rows) /\ h.endId = Oldest(rows)
        /\ CloseGapWithBackwardPage(g, rows, complete) = {h}
    BY <1>0, <2>1, CloseRecord
  <2>4. Within(h, g)
    BY <1>0, <2>3 DEF Within
  <2> QED
    BY <2>2, <2>3, <2>4
<1>2. ASSUME NEW g \in gs, NEW p \in Nat, g.start < p, p < g.end, ~Closes(g, rows, complete, p)
      PROVE  \E h \in F : h.start < p /\ p < h.end
  <2>1. PICK h \in CloseGapWithBackwardPage(g, rows, complete) : h.start < p /\ p < h.end
    BY <1>2, CloseUncovers
  <2>2. h \in F
    BY DEF ReconcileGapsWithBackwardPage
  <2> QED
    BY <2>1, <2>2
<1> HIDE DEF F
<1>3. F \subseteq Gap /\ \A h \in F : h.start < h.end /\ \E g \in gs : Within(h, g)
  BY <1>1
<1>4. ASSUME NEW h \in F, NEW k \in F, NEW g \in gs, Within(h, g), Within(k, g) PROVE h = k
  <2>1. PICK m \in gs : Within(h, m) /\ CloseGapWithBackwardPage(m, rows, complete) = {h}
    BY <1>1
  <2>2. PICK n \in gs : Within(k, n) /\ CloseGapWithBackwardPage(n, rows, complete) = {k}
    BY <1>1
  <2>3. m = g /\ n = g
    BY <1>3, <1>4, <2>1, <2>2, OneWithin
  <2> QED
    BY <2>1, <2>2, <2>3
<1>5. Normal(F)
  BY <1>3, <1>4, NormalParts
<1>6. Reconciles(F, gs, rows, complete)
  BY <1>1, <1>2, <1>3, <1>5 DEF Reconciles
<1> QED
  BY <1>6 DEF F

-----------------------------------------------------------------------------
(* The two pages, on the list as it is kept.                               *)

\* What a page may leave as the list next, of the list gs: no record that
\* reaches past an entry that none did before, apart from opened ones (from(e)
\* tells where those may); its ends are old ones, or in ends.
LEMMA ForwardNext ==
  ASSUME NEW gs, gs \subseteq Gap, Normal(gs), NEW rows, rows \subseteq Displayable,
         NEW origin \in 0..MaxPos, NEW last \in 0..MaxPos, NEW complete \in BOOLEAN,
         NEW merged, merged \subseteq Displayable
  PROVE  LET next == AfterForwardPage(gs, rows, origin, last, complete, merged) IN
         /\ \A g \in gs, p \in Pos : g.start < p /\ p < g.end =>
              p \in Covered(next) \/ (origin <= g.start /\ Passes(rows, complete, p))
         /\ \A h \in next :
              \/ \E g \in gs : h.end = g.end /\ h.endId \in {g.endId, NoId}
              \/ /\ Opens(gs, rows, origin, complete) /\ h.endId = NoId
                 /\ h.end \in {q \in merged : q > Newest(rows)} \cup {Edge}
         /\ \A h \in next, e, p \in Nat : h.start < e /\ e <= p /\ p < h.end =>
              \/ \E g \in gs : g.start < e /\ p < g.end
              \/ /\ Opens(gs, rows, origin, complete)
                 /\ Newest(rows) < e \/ \E g \in gs : Newest(rows) < g.end /\ g.end <= p
         /\ (\A g \in gs : ~(g.start < origin /\ origin < g.end))
              => \A h \in next : ~(h.start < origin /\ origin < h.end)
<1> DEFINE healed == HealGapsWithForwardPage(gs, rows, origin, last, complete, merged)
           next   == NormalizeGapList(healed)
<1>1. AfterForwardPage(gs, rows, origin, last, complete, merged) = next
  BY DEF AfterForwardPage
<1>2. PICK F : Heals(F, healed, gs, rows, origin, complete, merged)
  BY HealParts
<1>3. healed \subseteq Gap
  BY HealOf
<1> HIDE DEF healed
<1>4. F \subseteq healed
  BY <1>2 DEF Heals
<1>5. \A h \in next : h \in Gap /\ h.start < h.end
  BY <1>3, NormalizeOf DEF Normal
<1>6. Covered(healed) \subseteq Covered(next)
  BY <1>3, NormalizeCovers
<1>7. Covered(F) \subseteq Covered(next)
  BY <1>4, <1>6 DEF Covered
<1>8. ASSUME NEW g \in gs, NEW p \in Pos, g.start < p, p < g.end,
             ~(origin <= g.start /\ Passes(rows, complete, p))
      PROVE  p \in Covered(next)
  <2>1. \E h \in F : h.start < p /\ p < h.end
    BY <1>2, <1>8, Displayed DEF Heals
  <2>2. p \in Covered(F)
    BY <2>1 DEF Covered, Inside
  <2> QED
    BY <1>7, <2>2
<1>9. CASE healed = F
  <2>1. ASSUME NEW h \in next
        PROVE  \E g \in gs : /\ Within(h, g) /\ h.end = g.end /\ h.endId \in {g.endId, NoId}
                             /\ h.start = g.start \/ origin <= g.start
    <3>1. PICK k \in F : h.start = k.start /\ h.end = k.end /\ h.endId \in {k.endId, NoId}
      BY <1>2, <1>9, NormalizeNormal DEF Heals
    <3>2. PICK g \in gs : /\ Within(k, g) /\ k.end = g.end /\ k.endId = g.endId
                          /\ k.start = g.start \/ origin <= g.start
      BY <1>2 DEF Heals
    <3> QED
      BY <3>1, <3>2 DEF Within
  <2>2. ASSUME NEW h \in next, NEW e \in Nat, NEW p \in Nat, h.start < e, e <= p, p < h.end
        PROVE  \E g \in gs : g.start < e /\ p < g.end
    <3>1. PICK g \in gs : Within(h, g)
      BY <2>1
    <3> QED
      BY <1>5, <2>2, <3>1, GapNumbers DEF Within
  <2>3. ASSUME \A g \in gs : ~(g.start < origin /\ origin < g.end), NEW h \in next,
               h.start < origin, origin < h.end
        PROVE  FALSE
    <3>1. PICK g \in gs : Within(h, g)
      BY <2>1
    <3> QED
      BY <1>5, <2>3, <3>1, GapNumbers DEF Within
  <2> QED
    BY <1>1, <1>8, <2>1, <2>2, <2>3
<1>10. CASE healed # F
  <2>1. /\ Opens(gs, rows, origin, complete) /\ F = gs
        /\ \E o \in Gap : /\ healed = gs \cup {o} /\ o.start = Newest(rows)
                          /\ o.end \in {q \in merged : q > o.start} \cup {Edge}
                          /\ o.endId = NoId
    BY <1>2, <1>10 DEF Heals
  <2>2. PICK o \in Gap : /\ healed = gs \cup {o} /\ o.start = Newest(rows)
                         /\ o.end \in {q \in merged : q > o.start} \cup {Edge}
                         /\ o.endId = NoId
    BY <2>1
  <2>3. o.start \in Nat /\ origin <= o.start /\ origin \in Nat /\ \A g \in gs : g.start < o.start
    BY <2>1, <2>2, GapNumbers DEF Opens
  <2>4. ASSUME NEW h \in next
        PROVE  \/ \E g \in gs : h.end = g.end /\ h.endId \in {g.endId, NoId}
               \/ h.endId = NoId /\ h.end \in {q \in merged : q > Newest(rows)} \cup {Edge}
    <3>1. PICK k \in gs \cup {o} : h.end = k.end /\ (h.endId = k.endId \/ h.endId = NoId)
      BY <1>3, <2>2, NormalizeOf
    <3> QED
      BY <2>2, <3>1
  <2>5. ASSUME NEW h \in next, NEW e \in Nat, NEW p \in Nat, h.start < e, e <= p, p < h.end
        PROVE  \/ \E g \in gs : g.start < e /\ p < g.end
               \/ o.start < e
               \/ \E g \in gs : o.start < g.end /\ g.end <= p
    BY <2>2, <2>3, <2>5, NormalizeOpened
  <2>6. ASSUME \A g \in gs : ~(g.start < origin /\ origin < g.end), NEW h \in next,
               h.start < origin, origin < h.end
        PROVE  FALSE
    <3>1. \A g \in gs : g.start \in Nat /\ g.end \in Nat /\ g.end <= origin
      BY <2>1, <2>3, <2>6, GapNumbers DEF Opens
    <3>2. \/ \E g \in gs : g.start < origin /\ origin < g.end
          \/ o.start < origin
          \/ \E g \in gs : o.start < g.end /\ g.end <= origin
      BY <2>3, <2>5, <2>6
    <3> QED
      BY <2>3, <2>6, <3>1, <3>2
  <2>7. Opens(gs, rows, origin, complete) /\ o.start = Newest(rows)
    BY <2>1, <2>2
  <2>8. \A h \in next, e, p \in Nat : h.start < e /\ e <= p /\ p < h.end =>
              \/ \E g \in gs : g.start < e /\ p < g.end
              \/ /\ Opens(gs, rows, origin, complete)
                 /\ Newest(rows) < e \/ \E g \in gs : Newest(rows) < g.end /\ g.end <= p
    BY <2>5, <2>7
  <2>9. \A h \in next :
              \/ \E g \in gs : h.end = g.end /\ h.endId \in {g.endId, NoId}
              \/ /\ Opens(gs, rows, origin, complete) /\ h.endId = NoId
                 /\ h.end \in {q \in merged : q > Newest(rows)} \cup {Edge}
    BY <2>4, <2>7
  <2> HIDE DEF next
  <2> QED
    BY <1>1, <1>8, <2>6, <2>8, <2>9
<1> QED
  BY <1>9, <1>10

\* What a forward page makes of a list.
Forwarded(gs, rows, origin, complete, merged, next) ==
  /\ \A g \in gs, p \in Pos : g.start < p /\ p < g.end =>
       p \in Covered(next) \/ (origin <= g.start /\ Passes(rows, complete, p))
  /\ \A h \in next :
       \/ \E g \in gs : h.end = g.end /\ h.endId \in {g.endId, NoId}
       \/ /\ Opens(gs, rows, origin, complete) /\ h.endId = NoId
          /\ h.end \in {q \in merged : q > Newest(rows)} \cup {Edge}
  /\ \A h \in next, e, p \in Nat : h.start < e /\ e <= p /\ p < h.end =>
       \/ \E g \in gs : g.start < e /\ p < g.end
       \/ /\ Opens(gs, rows, origin, complete)
          /\ Newest(rows) < e \/ \E g \in gs : Newest(rows) < g.end /\ g.end <= p
  /\ (\A g \in gs : ~(g.start < origin /\ origin < g.end))
       => \A h \in next : ~(h.start < origin /\ origin < h.end)

\* A forward page makes that of it.
LEMMA ForwardedNext ==
  ASSUME NEW gs, gs \subseteq Gap, Normal(gs), NEW rows, rows \subseteq Displayable,
         NEW origin \in 0..MaxPos, NEW last \in 0..MaxPos, NEW complete \in BOOLEAN,
         NEW merged, merged \subseteq Displayable
  PROVE  Forwarded(gs, rows, origin, complete, merged,
                   AfterForwardPage(gs, rows, origin, last, complete, merged))
<1> DEFINE next == AfterForwardPage(gs, rows, origin, last, complete, merged)
<1>1. /\ \A g \in gs, p \in Pos : g.start < p /\ p < g.end =>
           p \in Covered(next) \/ (origin <= g.start /\ Passes(rows, complete, p))
      /\ \A h \in next :
           \/ \E g \in gs : h.end = g.end /\ h.endId \in {g.endId, NoId}
           \/ /\ Opens(gs, rows, origin, complete) /\ h.endId = NoId
              /\ h.end \in {q \in merged : q > Newest(rows)} \cup {Edge}
      /\ \A h \in next, e, p \in Nat : h.start < e /\ e <= p /\ p < h.end =>
           \/ \E g \in gs : g.start < e /\ p < g.end
           \/ /\ Opens(gs, rows, origin, complete)
              /\ Newest(rows) < e \/ \E g \in gs : Newest(rows) < g.end /\ g.end <= p
      /\ (\A g \in gs : ~(g.start < origin /\ origin < g.end))
           => \A h \in next : ~(h.start < origin /\ origin < h.end)
  BY ForwardNext, SMTT(60)
<1> HIDE DEF next
<1> QED
  BY <1>1 DEF Forwarded, next

\* A page that is walked down uncovers only what it closes; its ends are old
\* ones or its oldest row; and with nothing held beforehand each record lies
\* within one there was.
LEMMA BackwardNext ==
  ASSUME NEW gs, gs \subseteq Gap, Normal(gs), NEW rows, rows \subseteq Displayable,
         NEW complete \in BOOLEAN, NEW latest \in BOOLEAN, NEW held, held \subseteq Displayable
  PROVE  LET next == AfterBackwardPage(gs, rows, complete, latest, held) IN
         /\ \A g \in gs, p \in Pos : g.start < p /\ p < g.end =>
              p \in Covered(next) \/ Closes(g, rows, complete, p)
         /\ \A h \in next :
              \/ \E g \in gs : h.end = g.end /\ h.endId \in {g.endId, NoId}
              \/ rows # {} /\ h.end = Oldest(rows) /\ h.endId \in {h.end, NoId}
         /\ held = {} => \A h \in next : \E g \in gs : Within(h, g)
<1> DEFINE closed == ReconcileGapsWithBackwardPage(gs, rows, complete)
           list   == IF latest /\ closed = gs THEN gs \cup Seam(rows, held) ELSE closed
           next   == NormalizeGapList(list)
<1>1. AfterBackwardPage(gs, rows, complete, latest, held) = next
  BY DEF AfterBackwardPage
<1>2. Reconciles(closed, gs, rows, complete)
  BY ReconcileParts
<1> HIDE DEF closed
<1>3. list \subseteq Gap
  BY <1>2, SeamOf DEF Reconciles
<1>4. closed \subseteq list
  OBVIOUS
<1>5. Covered(list) \subseteq Covered(next)
  BY <1>3, NormalizeCovers
<1>6. ASSUME NEW g \in gs, NEW p \in Pos, g.start < p, p < g.end, ~Closes(g, rows, complete, p)
      PROVE  p \in Covered(next)
  <2>1. \E h \in closed : h.start < p /\ p < h.end
    BY <1>2, <1>6, Displayed DEF Reconciles
  <2>2. p \in Covered(closed) /\ Covered(closed) \subseteq Covered(list)
    BY <1>4, <2>1 DEF Covered, Inside
  <2> QED
    BY <1>5, <2>2
<1>7. ASSUME NEW h \in list
      PROVE  \/ \E g \in gs : h.end = g.end /\ h.endId = g.endId
             \/ rows # {} /\ h.end = Oldest(rows) /\ h.endId = Oldest(rows)
  <2>1. CASE h \in closed
    BY <1>2, <2>1 DEF Reconciles
  <2>2. CASE h \in gs
    BY <2>2
  <2>3. CASE h \in Seam(rows, held)
    BY <2>3 DEF Seam
  <2> QED
    BY <2>1, <2>2, <2>3
<1> HIDE DEF list
<1>8. ASSUME NEW h \in next
      PROVE  \/ \E g \in gs : h.end = g.end /\ h.endId \in {g.endId, NoId}
             \/ rows # {} /\ h.end = Oldest(rows) /\ h.endId \in {h.end, NoId}
  <2>1. PICK k \in list : h.end = k.end /\ (h.endId = k.endId \/ h.endId = NoId)
    BY <1>3, NormalizeOf
  <2> QED
    BY <1>7, <2>1
<1>9. ASSUME held = {}, NEW h \in next PROVE \E g \in gs : Within(h, g)
  <2>1. Seam(rows, held) = {}
    BY <1>9 DEF Seam
  <2>2. list = closed
    BY <2>1 DEF list
  <2>3. PICK k \in closed : h.start = k.start /\ h.end = k.end
    BY <1>2, <2>2, NormalizeNormal DEF Reconciles
  <2>4. PICK g \in gs : Within(k, g)
    BY <1>2 DEF Reconciles
  <2> QED
    BY <2>3, <2>4 DEF Within
<1> QED
  BY <1>1, <1>6, <1>8, <1>9

-----------------------------------------------------------------------------
(* What each step leaves alone, and what it does to the queue of writes.    *)

\* At most one of the two walks is under way.
OneWalk == \E s \in Slots : walk[s] = NoWalk
\* No write has failed, and no message the stream delivered is lost.
Intact == ~poisoned /\ ~lost

\* The messages that were stored, or delivered by the stream.
Kept == cache \cup heard
\* The messages that are stored, or on their way to be.
Have == {p \in Displayable : p \in cache \/ \E i \in 1..Len(queue) : p \in queue[i].rows}

\* Nothing is held that the stream has not reached, walks need a connection, and
\* what was delivered since the session started was heard.
Timely ==
  /\ \A p \in cache \cup resident \cup heard : p <= seen
  /\ \A i \in 1..Len(queue) : \A p \in queue[i].rows : p <= seen
  /\ \A s \in Slots : \A p \in walk[s].rows : p <= seen
  /\ online => seen = live
  /\ \A s \in Slots : walk[s].phase # "none" => online
  /\ sessionStart <= seen + 1
  /\ sessionStart > 0 => \A p \in Displayable : sessionStart <= p /\ p <= seen => p \in heard

\* The steps that store nothing and start no walk.
LEMMA PlainFrame ==
  ASSUME Shape,
         \/ ServerArchives \/ ServerPurges \/ GoOnline \/ Activate \/ Deactivate
         \/ ListConversation \/ SkipListed \/ Drop
         \/ \E s \in Slots : SearchEnds(s) \/ FailWalk(s)
         \/ UNCHANGED vars
  PROVE  /\ UNCHANGED <<kind, cache, gaps, queue, poisoned, heard, lost>>
         /\ resident' \in {resident, {}, cache}
         /\ \A s \in Slots : walk'[s] = walk[s] \/ walk'[s] = NoWalk
         /\ purged' \in Nat /\ purged \in Nat /\ purged <= purged'
         /\ live' \in Nat /\ live \in Nat /\ seen \in Nat /\ seen' \in Nat
         /\ seen' = seen \/ (~online /\ seen <= seen')
<1>1. live \in Nat /\ seen \in 0..live /\ purged \in 0..live /\ live <= MaxPos /\ MaxPos \in Nat
  BY NumberFacts DEF Shape, TypeOK
<1>2. UNCHANGED <<kind, cache, gaps, queue, poisoned, heard, lost>>
  BY DEF ServerArchives, ServerPurges, GoOnline, Activate, Deactivate, ListConversation, SkipListed,
     Drop, SearchEnds, FailWalk, startUnchanged, storeVars, history, vars
<1>3. resident' \in {resident, {}, cache}
  BY DEF ServerArchives, ServerPurges, GoOnline, Activate, Deactivate, ListConversation, SkipListed,
     Drop, SearchEnds, FailWalk, startUnchanged, viewVars, vars
<1>4. \A s \in Slots : walk'[s] = walk[s] \/ walk'[s] = NoWalk
  BY DEF ServerArchives, ServerPurges, GoOnline, Activate, Deactivate, ListConversation, SkipListed,
     Drop, SearchEnds, FailWalk, startUnchanged, vars, Shape, TypeOK
<1>5. purged' = purged \/ purged' \in purged + 1 .. live
  BY DEF ServerArchives, ServerPurges, GoOnline, Activate, Deactivate, ListConversation, SkipListed,
     Drop, SearchEnds, FailWalk, startUnchanged, serverVars, vars
<1>6. live' \in {live, live + 1} /\ (seen' = seen \/ (~online /\ seen' = live))
  BY DEF ServerArchives, ServerPurges, GoOnline, Activate, Deactivate, ListConversation, SkipListed,
     Drop, SearchEnds, FailWalk, startUnchanged, serverVars, sessionVars, vars
<1> QED
  BY <1>1, <1>2, <1>3, <1>4, <1>5, <1>6

\* One job is another, but for being still fresh.
SameJob(a, b) ==
  /\ a.rows = b.rows /\ a.archive = b.archive /\ a.commit = b.commit /\ a.next = b.next
  /\ a.none = b.none /\ (a.fresh => b.fresh)

\* The members of a queue that has grown by a job.
LEMMA QueueAppend ==
  ASSUME NEW q \in Seq(Job), NEW job \in Job, NEW r, r = Append(q, job)
  PROVE  /\ Len(q) \in Nat /\ Len(r) = Len(q) + 1 /\ r[Len(r)] = job /\ Len(r) \in 1..Len(r)
         /\ \A i \in 1..Len(q) : i \in 1..Len(r) /\ r[i] = q[i] /\ i \in Nat /\ i <= Len(q)
         /\ \A i \in 1..Len(r) : i \in 1..Len(q) \/ i = Len(r)
<1>1. /\ r \in Seq(Job) /\ Len(r) = Len(q) + 1 /\ Len(q) \in Nat
      /\ \A i \in 1..Len(q) : r[i] = q[i]
      /\ r[Len(r)] = job
  BY AppendProperties
<1> QED
  BY <1>1

\* The members of a staled queue.
LEMMA QueueStale ==
  ASSUME NEW q \in Seq(Job), NEW r, r = Stale(q)
  PROVE  /\ Len(q) \in Nat /\ Len(r) = Len(q)
         /\ \A i \in 1..Len(q) : SameJob(r[i], q[i]) /\ ~r[i].fresh
<1>1. Len(q) \in Nat /\ q \in [1..Len(q) -> Job]
  BY LenProperties
<1>2. r \in Seq(Job) /\ Len(r) = Len(q)
  <2>1. \A i \in 1..Len(q) : [q[i] EXCEPT !.fresh = FALSE] \in Job
    BY <1>1 DEF Job
  <2>2. r \in [1..Len(q) -> Job]
    BY <2>1 DEF Stale
  <2> QED
    BY <1>1, <2>2, SeqDef, LenProperties
<1>3. \A i \in 1..Len(q) : r[i] = [q[i] EXCEPT !.fresh = FALSE]
  BY DEF Stale
<1> QED
  BY <1>1, <1>2, <1>3 DEF Job, SameJob

\* The queue after its head, with or without what is left staled.
LEMMA QueueTail ==
  ASSUME NEW q \in Seq(Job), q # <<>>, NEW r, r = Tail(q) \/ r = Stale(Tail(q))
  PROVE  /\ Len(q) \in Nat /\ Len(r) \in Nat /\ Len(q) = Len(r) + 1 /\ 1 \in 1..Len(q) /\ Head(q) = q[1]
         /\ \A i \in 1..Len(r) : i + 1 \in 1..Len(q) /\ SameJob(r[i], q[i + 1])
         /\ \A i \in 1..Len(q) : i = 1 \/ (i - 1 \in 1..Len(r) /\ SameJob(r[i - 1], q[i]))
         /\ r = Stale(Tail(q)) => \A i \in 1..Len(r) : ~r[i].fresh
         /\ r = Tail(q) => \A i \in 1..Len(r) : r[i] = q[i + 1]
<1> DEFINE t == Tail(q)
<1>1. /\ t \in Seq(Job) /\ Len(t) = Len(q) - 1 /\ Len(q) \in Nat \ {0}
      /\ Head(q) = q[1] /\ \A i \in 1..Len(t) : t[i] = q[i + 1]
  BY HeadTailProperties, EmptySeq
<1> HIDE DEF t
<1>2. /\ Len(r) = Len(t) /\ \A i \in 1..Len(t) : SameJob(r[i], t[i])
      /\ r = Stale(t) => \A i \in 1..Len(r) : ~r[i].fresh
  <2>1. CASE r = t /\ r # Stale(t)
    BY <2>1 DEF SameJob
  <2>2. CASE r = Stale(t)
    BY <1>1, <2>2, QueueStale
  <2> QED
    BY <2>1, <2>2 DEF t
<1>3. \A i \in 1..Len(r) : i + 1 \in 1..Len(q) /\ SameJob(r[i], q[i + 1])
  BY <1>1, <1>2
<1>4. \A i \in 1..Len(q) : i = 1 \/ (i - 1 \in 1..Len(r) /\ SameJob(r[i - 1], q[i]))
  <2> SUFFICES ASSUME NEW i \in 1..Len(q), i # 1
               PROVE  i - 1 \in 1..Len(r) /\ SameJob(r[i - 1], q[i])
    OBVIOUS
  <2>1. i - 1 \in 1..Len(r) /\ (i - 1) + 1 = i
    BY <1>1, <1>2
  <2> QED
    BY <1>3, <2>1
<1>5. r = t => \A i \in 1..Len(r) : r[i] = q[i + 1]
  BY <1>1
<1> QED
  BY <1>1, <1>2, <1>3, <1>4, <1>5 DEF t

\* What the writes do, in the terms of the queue's members.
LEMMA CommitFrame ==
  ASSUME Shape, WriteCommits
  PROVE  LET job == Head(queue) IN
         /\ UNCHANGED <<kind, purged, live, seen, online, poisoned, active, resident, heard, lost, walk,
                        sessionStart, mam, edge>>
         /\ queue \in Seq(Job) /\ queue # <<>>
         /\ cache' = cache \cup job.rows
         /\ queue' = Tail(queue) \/ queue' = Stale(Tail(queue))
         /\ gaps' = IF Applies(job) THEN job.next ELSE gaps
         /\ queue' = IF Applies(job) THEN Stale(Tail(queue)) ELSE Tail(queue)
  BY DEF WriteCommits, Shape, TypeOK, Drained, serverVars, viewVars, sessionVars, history

\* What a failed write does, in the same terms.
LEMMA FailFrame ==
  ASSUME Shape, WriteFails
  PROVE  LET job == Head(queue) IN
         /\ UNCHANGED <<kind, purged, live, seen, online, cache, gaps, active, resident, heard, walk,
                        sessionStart, mam, edge>>
         /\ queue \in Seq(Job) /\ queue # <<>> /\ queue' = Tail(queue)
         /\ poisoned' = (poisoned \/ job.archive) /\ lost' = (lost \/ ~job.archive)
  BY DEF WriteFails, Shape, TypeOK, Drained, serverVars, viewVars, sessionVars

\* What a reload leaves.
LEMMA CrashFrame ==
  ASSUME Shape, Crash
  PROVE  /\ UNCHANGED <<kind, purged, live, seen, gaps, heard>>
         /\ queue' = <<>> /\ Len(queue') = 0 /\ poisoned' = FALSE /\ resident' = {} /\ online' = FALSE
         /\ sessionStart' = 0 /\ mam'.caughtUp = FALSE
         /\ \A s \in Slots : walk'[s] = NoWalk
         /\ \E n \in 0..Len(queue) :
              /\ cache' = cache \cup UNION {queue[i].rows : i \in 1..n}
              /\ lost' = (lost \/ \E i \in n + 1 .. Len(queue) : ~queue[i].archive)
<1>1. \A s \in Slots : walk'[s] = NoWalk
  BY NoWalksTypes DEF Crash
<1> QED
  BY <1>1, EmptySeq DEF Crash, serverVars

\* What the stream delivers.
LEMMA StreamFrame ==
  ASSUME Shape, Arrive \/ Resume
  PROVE  /\ UNCHANGED <<kind, purged, cache, gaps, poisoned, active, lost, walk, mam>>
         /\ online' /\ seen' = live' /\ live' \in Nat /\ seen \in Nat /\ seen <= seen'
         /\ \/ online /\ seen' = live + 1 /\ UNCHANGED sessionStart
            \/ ~online /\ live' = live /\ sessionStart' \in {sessionStart, seen' + 1}
         /\ \E h \in SUBSET Displayable :
              /\ \A p \in h : seen < p /\ p <= seen'
              /\ seen = live \/ ~online => \A p \in Displayable : seen < p /\ p <= seen' => p \in h
              /\ heard' = heard \cup h
              /\ resident' \in {resident, resident \cup h}
              /\ \/ h = {} /\ queue' = queue
                 \/ queue' = Append(queue, LiveJob(h))
<1>1. live \in Nat /\ seen \in Nat /\ seen <= live /\ \A p \in Displayable : p \in Nat
  BY Displayed DEF Shape, TypeOK
<1>2. CASE Arrive
  <2> DEFINE h == {live + 1} \cap Displayable
  <2>1. /\ UNCHANGED <<kind, purged, cache, gaps, poisoned, active, lost, walk, mam, sessionStart, online>>
        /\ online /\ live' = live + 1 /\ seen' = live + 1
        /\ Deliver(h)
    BY <1>2 DEF Arrive
  <2>2. /\ heard' = heard \cup h /\ resident' \in {resident, resident \cup h}
        /\ \/ h = {} /\ queue' = queue
           \/ queue' = Append(queue, LiveJob(h))
    BY <2>1 DEF Deliver
  <2>3. h \in SUBSET Displayable /\ \A p \in Displayable : p \in h <=> p = live + 1
    OBVIOUS
  <2> HIDE DEF h
  <2>4. /\ \A p \in h : seen < p /\ p <= seen'
        /\ seen = live \/ ~online => \A p \in Displayable : seen < p /\ p <= seen' => p \in h
    BY <1>1, <2>1, <2>3
  <2>5. online' /\ seen' = live' /\ live' \in Nat /\ seen <= seen'
    BY <1>1, <2>1
  <2> QED
    BY <1>1, <2>1, <2>2, <2>3, <2>4, <2>5
<1>3. CASE Resume
  <2> DEFINE h == {p \in Displayable : seen < p /\ p <= live}
  <2>1. /\ UNCHANGED <<kind, purged, live, cache, gaps, poisoned, active, lost, walk, mam>>
        /\ ~online /\ online' /\ seen' = live
        /\ Deliver(h)
        /\ sessionStart' \in {sessionStart, live + 1}
    BY <1>3 DEF Resume, serverVars
  <2>2. /\ heard' = heard \cup h /\ resident' \in {resident, resident \cup h}
        /\ \/ h = {} /\ queue' = queue
           \/ queue' = Append(queue, LiveJob(h))
    BY <2>1 DEF Deliver
  <2>3. h \in SUBSET Displayable /\ \A p \in Displayable : p \in h <=> (seen < p /\ p <= live)
    OBVIOUS
  <2> HIDE DEF h
  <2>4. /\ \A p \in h : seen < p /\ p <= seen'
        /\ seen = live \/ ~online => \A p \in Displayable : seen < p /\ p <= seen' => p \in h
    BY <2>1, <2>3
  <2>5. online' /\ seen' = live' /\ live' \in Nat /\ seen <= seen'
    BY <1>1, <2>1
  <2> QED
    BY <1>1, <2>1, <2>2, <2>3, <2>4, <2>5
<1> QED
  BY <1>2, <1>3

\* The rows and the transition of a page, and what it makes of the queue.
LEMMA StoreFrame ==
  ASSUME Shape, NEW rows, rows \subseteq Displayable, NEW next, next \subseteq Gap, Normal(next),
         StorePage(rows, next)
  PROVE  LET job == PageJob(rows, next) IN
         /\ queue \in Seq(Job) /\ job \in Job /\ job.rows = rows \ Existing /\ job.archive
         /\ job.next \subseteq next /\ (job.commit <=> next # gaps) /\ (job.commit => job.next = next)
         /\ Existing \subseteq resident
         /\ resident' \in {resident, resident \cup rows}
         /\ \/ queue' = queue /\ gaps' = gaps /\ next = gaps /\ rows \subseteq Existing
            \/ queue' = queue /\ gaps' = next /\ rows \subseteq Existing /\ ~SavesHas
            \/ queue' = Append(queue, job) /\ gaps' = gaps
<1> DEFINE job == PageJob(rows, next)
<1>1. /\ job.rows = rows \ Existing /\ job.archive
      /\ job.next \subseteq next /\ (job.commit <=> next # gaps) /\ (job.commit => job.next = next)
  BY DEF PageJob
<1>2. queue \in Seq(Job) /\ job \in Job
  BY StoreTypes DEF Shape, TypeOK
<1> HIDE DEF job
<1>3. /\ \/ queue' = queue /\ gaps' = next /\ rows \subseteq Existing /\ (next # gaps => ~SavesHas)
         \/ queue' = Append(queue, job) /\ gaps' = gaps
      /\ resident' \in {resident, resident \cup rows}
  BY StoreOf DEF job
<1>4. Existing \subseteq resident
  BY ExistingTypes
<1> QED
  BY <1>1, <1>2, <1>3, <1>4 DEF job

\* AnchorPurged, but for the walk it starts.
LEMMA AnchorFrame ==
  ASSUME Shape, NEW s \in Slots, AnchorPurged(s)
  PROVE  /\ UNCHANGED <<kind, purged, live, seen, online, cache, poisoned, active, resident, heard, lost,
                        sessionStart, mam, edge>>
         /\ walk[s].phase = "forward" /\ walk[s].firstPage
         /\ gaps' = ClearGapAnchor(gaps, walk[s].after)
         /\ queue \in Seq(Job)
         /\ (queue' = queue /\ gaps' = gaps) \/ queue' = Stale(queue)
         /\ \A t \in Slots : t # s => walk'[t] = walk[t]
         /\ walk'[s].phase = "latest" /\ walk'[s].manual = walk[s].manual /\ walk'[s].rows = {}
         /\ walk'[s].bottom = NoId /\ walk'[s].origin = NoId /\ walk'[s].loose
<1>1. walk'[s] = [FetchLatest EXCEPT !.manual = walk[s].manual] /\ \A t \in Slots : t # s => walk'[t] = walk[t]
  BY DEF AnchorPurged, Shape, TypeOK
<1>2. NoWalk \in Walk /\ walk[s] \in Walk /\ FetchLatest \in Walk
  BY NoWalkOK DEF WalkOK, Shape
<1>3. /\ walk'[s].phase = "latest" /\ walk'[s].manual = walk[s].manual /\ walk'[s].rows = {}
      /\ walk'[s].bottom = NoId /\ walk'[s].origin = NoId /\ walk'[s].loose
  <2>1. /\ FetchLatest.phase = "latest" /\ FetchLatest.rows = {} /\ FetchLatest.bottom = NoId
        /\ FetchLatest.origin = NoId /\ FetchLatest.loose
    BY DEF FetchLatest, NoWalk
  <2> QED
    BY <1>1, <1>2, <2>1 DEF Walk
<1> QED
  BY <1>1, <1>3 DEF AnchorPurged, AnchorGone, serverVars, viewVars, sessionVars, history, Shape, TypeOK

-----------------------------------------------------------------------------
\* It holds at first.
LEMMA InitTimely == Init => Timely
<1> SUFFICES ASSUME Init PROVE Timely
  OBVIOUS
<1>1. Len(queue) = 0 /\ seen \in Nat /\ seen = live
  BY EmptySeq, NumberFacts DEF Init
<1>2. \A s \in Slots : walk[s].phase = "none" /\ walk[s].rows = {}
  BY NoWalkOK DEF Init, NoWalk
<1> QED
  BY <1>1, <1>2 DEF Init, Timely

\* The numbers of the stream.
LEMMA SeenOK == Shape => /\ seen \in Nat /\ live \in Nat /\ seen <= live /\ sessionStart \in Nat
                         /\ (cache \cup resident \cup heard) \subseteq Displayable
                         /\ \A p \in Displayable : p \in Nat /\ p # 0
  BY Displayed, NumberFacts DEF Shape, TypeOK, Pos

\* The steps that store nothing keep it.
LEMMA PlainTimely ==
  ASSUME Shape, Timely,
         \/ ServerArchives \/ ServerPurges \/ GoOnline \/ Activate \/ Deactivate
         \/ ListConversation \/ SkipListed \/ Drop
         \/ \E s \in Slots : SearchEnds(s) \/ FailWalk(s)
         \/ UNCHANGED vars
  PROVE  Timely'
<1>1. /\ UNCHANGED <<kind, cache, gaps, queue, poisoned, heard, lost>>
      /\ resident' \in {resident, {}, cache}
      /\ \A s \in Slots : walk'[s] = walk[s] \/ walk'[s] = NoWalk
      /\ seen' \in Nat /\ seen \in Nat /\ seen' >= seen
  BY PlainFrame, SeenOK
<1>2. NoWalk.phase = "none" /\ NoWalk.rows = {}
  BY DEF NoWalk
<1>3. \A p \in cache \cup resident \cup heard : p \in Nat
  BY SeenOK
<1>4. \A i \in 1..Len(queue) : \A p \in queue[i].rows : p \in Nat
  BY RowsOf, Displayed
<1>5. \A s \in Slots : \A p \in walk[s].rows : p \in Nat
  BY Displayed DEF Shape, WalkOK, Walk
<1>6. /\ \A p \in cache' \cup resident' \cup heard' : p <= seen'
      /\ \A i \in 1..Len(queue') : \A p \in queue'[i].rows : p <= seen'
      /\ \A s \in Slots : \A p \in walk'[s].rows : p <= seen'
  BY <1>1, <1>2, <1>3, <1>4, <1>5 DEF Timely
<1>7. /\ online' => seen' = live'
      /\ \A s \in Slots : walk'[s].phase # "none" => online'
  <2>1. CASE ServerArchives
    BY <2>1 DEF ServerArchives, Timely, sessionVars
  <2>2. CASE ServerPurges
    BY <2>2 DEF ServerPurges, Timely, sessionVars
  <2>3. CASE GoOnline
    BY <2>3 DEF GoOnline, serverVars
  <2>4. CASE Activate
    BY <2>4 DEF Activate, Timely, sessionVars, serverVars
  <2>5. CASE Deactivate
    BY <2>5 DEF Deactivate, Timely, sessionVars, serverVars
  <2>6. CASE ListConversation
    BY <2>6 DEF ListConversation, startUnchanged, Timely, sessionVars, serverVars
  <2>7. CASE SkipListed
    BY <2>7 DEF SkipListed, startUnchanged, Timely, sessionVars, serverVars
  <2>8. CASE Drop
    BY <2>8, <1>2 DEF Drop, serverVars
  <2>9. CASE \E s \in Slots : SearchEnds(s) \/ FailWalk(s)
    <3>1. online' = online /\ seen' = seen /\ live' = live
      BY <2>9 DEF SearchEnds, FailWalk, startUnchanged, sessionVars, serverVars
    <3> QED
      BY <1>1, <1>2, <3>1 DEF Timely
  <2>10. CASE UNCHANGED vars
    BY <2>10 DEF vars, Timely, sessionVars, serverVars
  <2> QED
    BY <2>1, <2>2, <2>3, <2>4, <2>5, <2>6, <2>7, <2>8, <2>9, <2>10
<1>8. \/ seen' = seen /\ sessionStart' = sessionStart
      \/ sessionStart' = seen' + 1
  BY DEF ServerArchives, ServerPurges, GoOnline, Activate, Deactivate, ListConversation, SkipListed,
     Drop, SearchEnds, FailWalk, startUnchanged, sessionVars, vars
<1>9. /\ sessionStart' <= seen' + 1
      /\ sessionStart' > 0 => \A p \in Displayable : sessionStart' <= p /\ p <= seen' => p \in heard'
  <2>1. CASE seen' = seen /\ sessionStart' = sessionStart
    BY <1>1, <2>1 DEF Timely
  <2>2. CASE sessionStart' = seen' + 1
    BY <1>1, <2>2, SeenOK
  <2> QED
    BY <1>8, <2>1, <2>2
<1> QED
  BY <1>6, <1>7, <1>9 DEF Timely

\* The writes keep it.
LEMMA WriteTimely ==
  ASSUME Shape, Timely, WriteCommits \/ WriteFails
  PROVE  Timely'
<1>1. /\ UNCHANGED <<live, seen, online, resident, heard, walk, sessionStart>>
      /\ queue \in Seq(Job) /\ queue # <<>>
      /\ cache' = cache \/ cache' = cache \cup Head(queue).rows
      /\ queue' = Tail(queue) \/ queue' = Stale(Tail(queue))
  BY CommitFrame, FailFrame
<1>2. /\ 1 \in 1..Len(queue) /\ Head(queue) = queue[1]
      /\ \A i \in 1..Len(queue') : i + 1 \in 1..Len(queue) /\ SameJob(queue'[i], queue[i + 1])
  BY <1>1, QueueTail
<1>3. \A i \in 1..Len(queue') : queue'[i].rows = queue[i + 1].rows
  BY <1>2 DEF SameJob
<1>4. \A i \in 1..Len(queue') : \A p \in queue'[i].rows : p <= seen
  BY <1>2, <1>3 DEF Timely
<1>5. \A p \in cache' : p <= seen
  BY <1>1, <1>2 DEF Timely
<1> QED
  BY <1>1, <1>4, <1>5 DEF Timely

\* A reload keeps it.
LEMMA CrashTimely ==
  ASSUME Shape, Timely, Crash
  PROVE  Timely'
<1>1. /\ UNCHANGED <<live, seen, heard>>
      /\ Len(queue') = 0 /\ resident' = {} /\ online' = FALSE /\ sessionStart' = 0
      /\ \A s \in Slots : walk'[s] = NoWalk
      /\ \E n \in 0..Len(queue) : cache' = cache \cup UNION {queue[i].rows : i \in 1..n}
  BY CrashFrame
<1>2. PICK n \in 0..Len(queue) : cache' = cache \cup UNION {queue[i].rows : i \in 1..n}
  BY <1>1
<1>3. Len(queue) \in Nat /\ \A i \in 1..n : i \in 1..Len(queue)
  BY LenProperties DEF Shape, TypeOK
<1>4. \A p \in cache' : p <= seen
  BY <1>2, <1>3 DEF Timely
<1>5. NoWalk.phase = "none" /\ NoWalk.rows = {}
  BY DEF NoWalk
<1> QED
  BY <1>1, <1>4, <1>5, SeenOK DEF Timely

\* What the stream delivers keeps it.
LEMMA StreamTimely ==
  ASSUME Shape, Timely, Arrive \/ Resume
  PROVE  Timely'
<1>1. /\ UNCHANGED <<cache, walk>>
      /\ online' /\ seen' = live' /\ live' \in Nat /\ seen \in Nat /\ seen <= seen'
      /\ (UNCHANGED sessionStart \/ sessionStart' = seen' + 1)
      /\ seen = live \/ ~online
  BY StreamFrame DEF Timely
<1>2. PICK h \in SUBSET Displayable :
              /\ \A p \in h : seen < p /\ p <= seen'
              /\ seen = live \/ ~online => \A p \in Displayable : seen < p /\ p <= seen' => p \in h
              /\ heard' = heard \cup h
              /\ resident' \in {resident, resident \cup h}
              /\ \/ h = {} /\ queue' = queue
                 \/ queue' = Append(queue, LiveJob(h))
  BY StreamFrame
<1>3. \A p \in cache \cup resident \cup heard : p \in Nat
  BY SeenOK
<1>4. \A i \in 1..Len(queue) : \A p \in queue[i].rows : p \in Nat /\ p <= seen
  BY RowsOf, Displayed DEF Timely
<1>5. \A s \in Slots : \A p \in walk[s].rows : p \in Nat
  BY Displayed DEF Shape, WalkOK, Walk
<1>6. \A i \in 1..Len(queue') : \A p \in queue'[i].rows : p <= seen'
  <2>1. CASE queue' = queue
    BY <1>1, <1>4, <2>1
  <2>2. CASE queue' = Append(queue, LiveJob(h))
    <3>1. LiveJob(h) \in Job /\ LiveJob(h).rows = h /\ queue \in Seq(Job)
      BY LiveJobOK DEF LiveJob, Shape, TypeOK
    <3>2. \A i \in 1..Len(queue') : \/ i \in 1..Len(queue) /\ queue'[i] = queue[i]
                                    \/ queue'[i] = LiveJob(h)
      BY <2>2, <3>1, QueueAppend
    <3> QED
      BY <1>1, <1>2, <1>4, <3>1, <3>2
  <2> QED
    BY <1>2, <2>1, <2>2
<1>7. \A p \in cache' \cup resident' \cup heard' : p <= seen'
  BY <1>1, <1>2, <1>3 DEF Timely
<1>8. \A s \in Slots : \A p \in walk'[s].rows : p <= seen'
  BY <1>1, <1>5 DEF Timely
<1>10. PICK n \in Nat : seen' = n
  BY <1>1
<1>9. /\ sessionStart' <= seen' + 1
      /\ sessionStart' > 0 => \A p \in Displayable : sessionStart' <= p /\ p <= seen' => p \in heard'
  <2>1. CASE UNCHANGED sessionStart
    <3>1. sessionStart' = sessionStart /\ sessionStart \in Nat /\ sessionStart <= seen + 1
          /\ seen \in Nat /\ seen' \in Nat
      BY <1>1, <2>1, SeenOK DEF Timely
    <3>2. ASSUME sessionStart' > 0, NEW p \in Displayable, sessionStart' <= p, p <= seen'
          PROVE  p \in heard'
      <4>1. CASE p <= seen
        <5>1. p \in heard
          BY <3>1, <3>2, <4>1 DEF Timely
        <5> QED
          BY <1>2, <5>1
      <4>2. CASE ~(p <= seen)
        <5>1. seen < p
          BY <3>1, <4>2, Displayed
        <5> QED
          BY <1>1, <1>2, <3>2, <5>1
      <4> QED
        BY <4>1, <4>2
    <3>3. sessionStart' <= seen' + 1
      BY <1>1, <1>10, <3>1
    <3>4. sessionStart' > 0 => \A p \in Displayable : sessionStart' <= p /\ p <= seen' => p \in heard'
      BY <3>2
    <3> QED
      BY <3>3, <3>4
  <2>2. CASE sessionStart' = seen' + 1
    BY <1>10, <2>2, Displayed
  <2> QED
    BY <1>1, <2>1, <2>2
<1> QED
  BY <1>1, <1>6, <1>7, <1>8, <1>9 DEF Timely

\* The rows of the first n writes.
RowsTo(q, n) == {p \in Displayable : \E i \in 1..n : p \in q[i].rows}

\* The rows of a queue that has grown by a job, or lost its head.
Longer(q, job, r) ==
  /\ \A n \in 1..Len(q) : UpTo(r, n) = UpTo(q, n) /\ RowsTo(r, n) = RowsTo(q, n)
  /\ UpTo(r, Len(r)) = UpTo(q, Len(q)) \cup Added(job)
  /\ RowsTo(r, Len(r)) = RowsTo(q, Len(q)) \cup job.rows

\* The rows of a queue that has lost its head.
Shorter(q, r) ==
  /\ \A n \in 0..Len(r) : /\ UpTo(q, n + 1) = Added(Head(q)) \cup UpTo(r, n)
                           /\ RowsTo(q, n + 1) = Head(q).rows \cup RowsTo(r, n)
  /\ UpTo(q, 1) = Added(Head(q)) /\ RowsTo(q, 1) = Head(q).rows
  /\ UpTo(q, Len(q)) = Added(Head(q)) \cup UpTo(r, Len(r))
  /\ RowsTo(q, Len(q)) = Head(q).rows \cup RowsTo(r, Len(r))

\* A queue that grows by a job is longer by its rows.
LEMMA RowsAppend ==
  ASSUME NEW q \in Seq(Job), NEW job \in Job, NEW r, r = Append(q, job)
  PROVE  Longer(q, job, r)
<1>1. /\ Len(q) \in Nat /\ Len(r) = Len(q) + 1 /\ r[Len(r)] = job /\ Len(r) \in 1..Len(r)
      /\ \A i \in 1..Len(q) : i \in 1..Len(r) /\ r[i] = q[i] /\ i \in Nat /\ i <= Len(q)
      /\ \A i \in 1..Len(r) : i \in 1..Len(q) \/ i = Len(r)
  BY QueueAppend
<1>2. job.rows \subseteq Displayable
  BY DEF Job
<1>3. \A n \in 1..Len(q) : UpTo(r, n) = UpTo(q, n)
  BY AppendOf
<1>4. UpTo(r, Len(r)) = UpTo(q, Len(q)) \cup Added(job)
  BY AppendOf DEF Pending
<1>5. \A n \in 1..Len(q) : RowsTo(r, n) = RowsTo(q, n)
  <2>1. \A n \in 1..Len(q) : \A i \in 1..n : i \in 1..Len(q)
    BY <1>1
  <2> QED
    BY <1>1, <2>1 DEF RowsTo
<1>6. RowsTo(r, Len(r)) = RowsTo(q, Len(q)) \cup job.rows
  BY <1>1, <1>2 DEF RowsTo
<1> QED
  BY <1>3, <1>4, <1>5, <1>6 DEF Longer

\* A queue without its head is shorter by its rows.
LEMMA RowsTail ==
  ASSUME NEW q \in Seq(Job), q # <<>>, NEW r, r = Tail(q) \/ r = Stale(Tail(q))
  PROVE  Shorter(q, r)
<1>1. /\ Len(q) \in Nat /\ Len(r) \in Nat /\ Len(q) = Len(r) + 1 /\ 1 \in 1..Len(q) /\ Head(q) = q[1]
      /\ \A i \in 1..Len(r) : i + 1 \in 1..Len(q) /\ SameJob(r[i], q[i + 1])
  BY QueueTail
<1>2. Head(q) \in Job
  BY TailOf
<1>3. Head(q).rows \subseteq Displayable
  BY <1>2 DEF Job
<1>4. ASSUME NEW n \in 0..Len(r)
      PROVE  /\ UpTo(q, n + 1) = Added(Head(q)) \cup UpTo(r, n)
             /\ RowsTo(q, n + 1) = Head(q).rows \cup RowsTo(r, n)
  <2>1. \A i \in 1..(n + 1) :
           i = 1 \/ (i - 1 \in 1..n /\ q[i].rows = r[i - 1].rows /\ q[i].archive = r[i - 1].archive)
    <3> SUFFICES ASSUME NEW i \in 1..(n + 1), i # 1
                 PROVE  i - 1 \in 1..n /\ q[i].rows = r[i - 1].rows /\ q[i].archive = r[i - 1].archive
      OBVIOUS
    <3>1. i - 1 \in 1..n /\ i - 1 \in 1..Len(r) /\ (i - 1) + 1 = i
      BY <1>1
    <3> QED
      BY <1>1, <3>1 DEF SameJob
  <2>2. \A i \in 1..n : i + 1 \in 1..(n + 1) /\ q[i + 1].rows = r[i].rows /\ q[i + 1].archive = r[i].archive
    <3>1. \A i \in 1..n : i + 1 \in 1..(n + 1) /\ i \in 1..Len(r)
      BY <1>1
    <3> QED
      BY <1>1, <3>1 DEF SameJob
  <2>3. 1 \in 1..(n + 1)
    OBVIOUS
  <2>4. UpTo(q, n + 1) = Added(Head(q)) \cup UpTo(r, n)
    <3>1. ASSUME NEW p \in UpTo(q, n + 1) PROVE p \in Added(Head(q)) \cup UpTo(r, n)
      <4>1. PICK i \in 1..(n + 1) : q[i].archive /\ p \in q[i].rows
        BY <3>1 DEF UpTo
      <4>2. CASE i = 1
        BY <1>1, <4>1, <4>2 DEF Added
      <4>3. CASE i # 1
        BY <2>1, <3>1, <4>1, <4>3 DEF UpTo
      <4> QED
        BY <4>2, <4>3
    <3>2. Added(Head(q)) \subseteq UpTo(q, n + 1)
      BY <1>1, <1>3, <2>3 DEF UpTo, Added
    <3>3. UpTo(r, n) \subseteq UpTo(q, n + 1)
      BY <2>2 DEF UpTo
    <3> QED
      BY <3>1, <3>2, <3>3
  <2>5. RowsTo(q, n + 1) = Head(q).rows \cup RowsTo(r, n)
    BY <1>1, <1>3, <2>1, <2>2, <2>3 DEF RowsTo
  <2> QED
    BY <2>4, <2>5
<1>5. UpTo(r, 0) = {} /\ RowsTo(r, 0) = {} /\ 0 \in 0..Len(r) /\ 0 + 1 = 1 /\ Len(r) \in 0..Len(r)
  BY <1>1 DEF UpTo, RowsTo
<1> QED
  BY <1>1, <1>4, <1>5 DEF Shorter

\* Staling a queue leaves its rows alone.
LEMMA RowsStale ==
  ASSUME NEW q \in Seq(Job), NEW r, r = Stale(q)
  PROVE  /\ Len(r) = Len(q)
         /\ \A n \in 0..Len(q) : UpTo(r, n) = UpTo(q, n) /\ RowsTo(r, n) = RowsTo(q, n)
         /\ \A n \in 1..Len(q) : UpTo(r, n) = UpTo(q, n) /\ RowsTo(r, n) = RowsTo(q, n)
<1>1. /\ Len(q) \in Nat /\ Len(r) = Len(q)
      /\ \A i \in 1..Len(q) : r[i].rows = q[i].rows /\ r[i].archive = q[i].archive
  BY QueueStale DEF SameJob
<1>2. \A n \in 0..Len(q) : \A i \in 1..n : i \in 1..Len(q)
  BY <1>1
<1>3. \A n \in 1..Len(q) : n \in 0..Len(q)
  BY <1>1
<1> QED
  BY <1>1, <1>2, <1>3 DEF UpTo, RowsTo

\* The walks that a start and the end of a walk leave behind.
LEMMA SearchFields ==
  ASSUME NEW s, NEW b \in Pos \cup {NoId}
  PROVE  LET v == Search(s, b) IN
         /\ v.phase \in {"none", "search"} /\ ~v.manual /\ v.rows = {} /\ v.bottom \in {b, NoId}
         /\ v.phase = "search" => s = "back" /\ ~active
<1> DEFINE w == [NoWalk EXCEPT !.phase = "search", !.firstPage = TRUE, !.left = StitchPages, !.bottom = b]
<1>1. w.phase = "search" /\ ~w.manual /\ w.rows = {} /\ w.bottom = b
  BY DEF NoWalk
<1>2. NoWalk.phase = "none" /\ ~NoWalk.manual /\ NoWalk.rows = {} /\ NoWalk.bottom = NoId
  BY DEF NoWalk
<1> HIDE DEF w
<1>3. Search(s, b) = NoWalk \/ (Search(s, b) = w /\ s = "back" /\ ~active)
  BY DEF Search, w
<1> QED
  BY <1>1, <1>2, <1>3

\* A catch-up resumes the open gap, or the newest message before the session,
\* or fetches the newest page.
LEMMA CatchUpFields ==
  ASSUME Shape, NEW held, held \subseteq Displayable
  PROVE  LET v == CatchUpWalk(held) IN
         /\ v.rows = {} /\ v.bottom = NoId /\ ~v.manual
         /\ \/ /\ v.phase = "forward"
               /\ \E g \in gaps : g.end = Edge /\ v.origin = g.start
            \/ /\ v.phase = "forward" /\ v.origin = v.after /\ (\A g \in gaps : g.end # Edge)
               /\ v.origin \in BeforeSession(held) /\ v.origin = Newest(BeforeSession(held))
            \/ v.phase = "latest" /\ v.loose /\ v.origin = NoId /\ (\A g \in gaps : g.end # Edge)
<1> DEFINE open == OpenGap(gaps)
           pre  == BeforeSession(held)
<1>0. NoWalk \in Walk
  BY NoWalkOK DEF WalkOK
<1>1. CASE open # {}
  <2>1. PICK g \in gaps : g.end = Edge /\ CatchUpWalk(held) = ResumeGap(g)
    <3>1. (CHOOSE g \in open : TRUE) \in open
      BY <1>1
    <3>2. CatchUpWalk(held) = ResumeGap(CHOOSE g \in open : TRUE)
      BY <1>1 DEF CatchUpWalk
    <3>3. \A g \in open : g \in gaps /\ g.end = Edge
      BY DEF OpenGap
    <3> HIDE DEF open
    <3> QED
      BY <3>1, <3>2, <3>3
  <2>2. /\ ResumeGap(g).rows = {} /\ ResumeGap(g).bottom = NoId /\ ~ResumeGap(g).manual
        /\ ResumeGap(g).firstPage /\ ResumeGap(g).phase = "forward" /\ ResumeGap(g).origin = g.start
    BY DEF ResumeGap, NoWalk
  <2> QED
    BY <2>1, <2>2
<1>2. CASE open = {} /\ pre # {}
  <2>1. pre \subseteq held
    BY DEF BeforeSession
  <2>2. Newest(pre) \in pre
    BY <1>2, <2>1, NewestOf, Displayed
  <2>3. CatchUpWalk(held) = ResumeAfter(Newest(pre))
    BY <1>2 DEF CatchUpWalk
  <2>4. \A p : /\ ResumeAfter(p).rows = {} /\ ResumeAfter(p).bottom = NoId /\ ~ResumeAfter(p).manual
               /\ ResumeAfter(p).firstPage /\ ResumeAfter(p).phase = "forward" /\ ResumeAfter(p).origin = p
               /\ ResumeAfter(p).after = p
    BY DEF ResumeAfter, NoWalk
  <2>5. \A g \in gaps : g.end # Edge
    BY <1>2 DEF OpenGap
  <2> HIDE DEF pre, open
  <2> QED
    BY <2>2, <2>3, <2>4, <2>5 DEF pre
<1>3. CASE open = {} /\ pre = {}
  <2>1. CatchUpWalk(held) = FetchLatest
    BY <1>3 DEF CatchUpWalk
  <2>2. /\ FetchLatest.rows = {} /\ FetchLatest.bottom = NoId /\ ~FetchLatest.manual
        /\ ~FetchLatest.firstPage /\ FetchLatest.phase = "latest" /\ FetchLatest.loose /\ FetchLatest.origin = NoId
    BY DEF FetchLatest, NoWalk
  <2>3. \A g \in gaps : g.end # Edge
    BY <1>3 DEF OpenGap
  <2> QED
    BY <2>1, <2>2, <2>3
<1> QED
  BY <1>1, <1>2, <1>3

\* What starts a walk changes nothing else that is stored or held.
StartsOn(s, held) ==
  /\ walk'[s] = CatchUpWalk(held)
  /\ held \subseteq resident \cup cache
  /\ cache \subseteq held \/ cache = {}

\* The steps that start a walk.
LEMMA StartFrame ==
  ASSUME Shape, StartFront \/ LoadMissing \/ StartBack
  PROVE  /\ UNCHANGED <<kind, purged, live, seen, online, resumable, cache, gaps, queue, poisoned, active,
                        resident, heard, lost, edge, sessionStart, mam>>
         /\ \/ UNCHANGED walk
            \/ /\ online /\ queue = <<>> /\ Len(queue) = 0
               /\ \E s \in Slots :
                    /\ walk[s] = NoWalk /\ \A t \in Slots : t # s => walk'[t] = walk[t]
                    /\ (kind = "room" \/ s = "front") => \A t \in Slots : walk[t] = NoWalk
                    /\ \/ \E held \in SUBSET Displayable : StartsOn(s, held)
                       \/ /\ walk'[s].phase = "forward" /\ walk'[s].manual /\ walk'[s].rows = {}
                          /\ walk'[s].bottom = NoId /\ walk'[s].firstPage
                          /\ \E g \in gaps :
                               /\ walk'[s].origin = g.start
                               /\ walk'[s].after = IF g.startId = NoId THEN g.start - 1 ELSE g.startId
<1>0. /\ resident \cup cache \subseteq Displayable /\ Existing \subseteq resident
      /\ "front" \in Slots /\ "back" \in Slots /\ walk \in [Slots -> Walk]
      /\ Len(<<>>) = 0
  BY ExistingTypes, EmptySeq DEF Shape, TypeOK, Slots
<1>1. UNCHANGED <<kind, purged, live, seen, online, resumable, cache, gaps, queue, poisoned, active,
                  resident, heard, lost, edge, sessionStart, mam>>
  BY DEF StartFront, LoadMissing, StartBack, startUnchanged, serverVars, storeVars, viewVars, sessionVars,
     history
<1>2. CASE StartFront
  <2>1. \/ UNCHANGED walk
        \/ /\ NoWalks /\ Drained /\ online
           /\ walk' = [walk EXCEPT !["front"] = CatchUpWalk(resident \cup cache)]
    BY <1>2 DEF StartFront
  <2>2. CASE UNCHANGED walk
    BY <1>1, <2>2
  <2>3. CASE /\ NoWalks /\ Drained /\ online
             /\ walk' = [walk EXCEPT !["front"] = CatchUpWalk(resident \cup cache)]
    <3>1. /\ \A t \in Slots : walk[t] = NoWalk /\ (t # "front" => walk'[t] = walk[t])
          /\ StartsOn("front", resident \cup cache)
      BY <1>0, <2>3 DEF NoWalks, StartsOn
    <3> QED
      BY <1>0, <1>1, <2>3, <3>1 DEF Drained
  <2> QED
    BY <2>1, <2>2, <2>3
<1>3. CASE LoadMissing
  <2>1. NoWalks /\ Drained /\ online
    BY <1>3 DEF LoadMissing
  <2>2. PICK g \in gaps :
          walk' = [walk EXCEPT !["front"] = [ResumeGap(g) EXCEPT !.manual = TRUE, !.left = ManualPages]]
    BY <1>3 DEF LoadMissing
  <2> DEFINE m == [ResumeGap(g) EXCEPT !.manual = TRUE, !.left = ManualPages]
  <2>3. /\ m.phase = "forward" /\ m.manual /\ m.rows = {} /\ m.bottom = NoId /\ m.origin = g.start /\ m.firstPage
        /\ m.after = IF g.startId = NoId THEN g.start - 1 ELSE g.startId
    BY DEF ResumeGap, NoWalk
  <2>4. walk'["front"] = m /\ \A t \in Slots : walk[t] = NoWalk /\ (t # "front" => walk'[t] = walk[t])
    BY <1>0, <2>1, <2>2 DEF NoWalks
  <2> HIDE DEF m
  <2> QED
    BY <1>0, <1>1, <2>1, <2>3, <2>4 DEF Drained
<1>4. CASE StartBack
  <2> DEFINE held == IF cache = {} /\ kind = "chat" THEN Existing ELSE cache
  <2>1. /\ Drained /\ online /\ walk["back"] = NoWalk /\ walk' = [walk EXCEPT !["back"] = CatchUpWalk(held)]
        /\ kind = "room" => walk["front"] = NoWalk
    BY <1>4, NumberFacts DEF StartBack
  <2>2. held \in SUBSET Displayable /\ held \subseteq resident \cup cache /\ (cache \subseteq held \/ cache = {})
    BY <1>0
  <2> HIDE DEF held
  <2>3. /\ StartsOn("back", held) /\ \A t \in Slots : t # "back" => walk'[t] = walk[t]
        /\ kind = "room" => \A t \in Slots : walk[t] = NoWalk
    BY <1>0, <2>1, <2>2 DEF StartsOn, Slots
  <2> QED
    BY <1>0, <1>1, <2>1, <2>2, <2>3 DEF Drained
<1> QED
  BY <1>2, <1>3, <1>4

\* A walk that ends its forward phase turns into one that is not manual, or into none.
Settles(w, v) ==
  /\ v.phase \in {"none", "search", "latest"} /\ ~v.manual /\ v.rows = {}
  /\ v.phase = "search" => v.bottom = NoId
  /\ v.phase # "none" => ~w.manual

\* A walk that pages on.
Continues(w, v, top, rows) ==
  v.phase = "forward" /\ v.manual = w.manual /\ v.origin = w.origin /\ v.after = top /\ v.rows = rows

\* How a forward walk that found rows goes on: past its first page, to a search
\* when it has reached live, to the newest page when it has not.
Proceeds(w, v, rows, complete) ==
  /\ v.phase = "forward" => ~v.firstPage
  /\ v.phase = "search" => complete
  /\ v.phase = "latest" => /\ ~complete /\ v.origin = w.origin
                           /\ ~v.loose => rows # {} \/ \E g \in gaps : g.start = w.origin

\* A page of a forward walk: what it merges, if it merges, and what becomes of
\* the walk.
LEMMA ForwardFrame ==
  ASSUME Shape, NEW s \in Slots, ForwardPage(s)
  PROVE  LET w       == walk[s]
             below   == Most(w.after, purged)
             top     == Least(below + PageSize, live)
             last    == IF top > below THEN top ELSE NoId
             page    == {p \in Displayable : below < p /\ p <= top}
             rows    == w.rows \cup page
             merging == IF kind = "room" THEN page ELSE rows
             next    == AfterForwardPage(gaps, merging, w.origin, last, top >= live, Existing \cup merging)
         IN  /\ UNCHANGED <<kind, purged, live, seen, online, cache, poisoned, active, heard, lost, sessionStart>>
             /\ w.phase = "forward" /\ online
             /\ \A t \in Slots : t # s => walk'[t] = walk[t]
             /\ Continues(w, walk'[s], top, rows) \/ Settles(w, walk'[s])
             /\ Proceeds(w, walk'[s], rows, top >= live)
             /\ \/ /\ StorePage(merging, next) /\ Completed(top >= live, ResumedAt(w))
                   /\ kind = "room" \/ Settles(w, walk'[s])
                \/ kind = "chat" /\ walk'[s].phase = "forward" /\ UNCHANGED <<gaps, queue, resident, mam, edge>>
<1> DEFINE w        == walk[s]
           below    == Most(w.after, purged)
           top      == Least(below + PageSize, live)
           last     == IF top > below THEN top ELSE NoId
           page     == {p \in Displayable : below < p /\ p <= top}
           rows     == w.rows \cup page
           complete == top >= live
           merging  == IF kind = "room" THEN page ELSE rows
           next     == AfterForwardPage(gaps, merging, w.origin, last, complete, Existing \cup merging)
           ends     == complete \/ w.left = 1
           loose    == rows = {} /\ \A g \in gaps : g.start # w.origin
           latest   == [FetchLatest EXCEPT !.loose = loose, !.origin = w.origin]
           v        == IF ~ends THEN NextPage(w, top, rows)
                       ELSE IF complete THEN IF w.manual THEN NoWalk ELSE Search(s, NoId)
                       ELSE IF w.manual THEN NoWalk
                       ELSE latest
<1>1. /\ UNCHANGED <<kind, purged, live, seen, online, cache, poisoned, active, heard, lost, sessionStart>>
      /\ w.phase = "forward" /\ online
  BY DEF ForwardPage, pageUnchanged, serverVars, sessionVars
<1>2. walk' = [walk EXCEPT ![s] = v]
  BY DEF ForwardPage
<1>3. walk \in [Slots -> Walk] /\ w \in Walk /\ NoId \in Pos \cup {NoId} /\ (kind = "chat" \/ kind = "room")
  BY NumberFacts DEF Shape, TypeOK
<1>4. walk'[s] = v /\ \A t \in Slots : t # s => walk'[t] = walk[t]
  BY <1>2, <1>3
<1>5. w.phase = "forward" => Continues(w, NextPage(w, top, rows), top, rows)
  BY <1>3 DEF NextPage, Walk, Continues
<1>6. latest.phase = "latest" /\ latest.rows = {} /\ ~latest.manual
  BY DEF FetchLatest, NoWalk
<1>7. NoWalk.phase = "none" /\ NoWalk.rows = {} /\ ~NoWalk.manual
  BY DEF NoWalk
<1>8. LET u == Search(s, NoId) IN u.phase \in {"none", "search"} /\ ~u.manual /\ u.rows = {} /\ u.bottom = NoId
  BY <1>3, SearchFields
<1>9. \/ StorePage(merging, next) /\ Completed(complete, ResumedAt(w)) /\ (kind = "room" \/ ends)
      \/ kind = "chat" /\ ~ends /\ UNCHANGED <<gaps, queue, resident, mam, edge>>
  BY <1>3 DEF ForwardPage
<1>11. NextPage(w, top, rows).phase = w.phase /\ ~NextPage(w, top, rows).firstPage
  BY <1>3 DEF NextPage, Walk
<1>12. latest.origin = w.origin /\ (~latest.loose => rows # {} \/ \E g \in gaps : g.start = w.origin)
  BY DEF FetchLatest, NoWalk
<1> HIDE DEF latest, loose, rows, top, page, next, merging
<1>13. Proceeds(w, v, rows, complete) /\ (~ends => v.phase = "forward")
  <2>1. CASE ~ends
    BY <1>1, <1>11, <2>1 DEF Proceeds
  <2>2. CASE ends /\ complete
    <3>1. v = NoWalk \/ v = Search(s, NoId)
      BY <2>2
    <3> HIDE DEF v
    <3> QED
      BY <1>7, <1>8, <2>2, <3>1 DEF Proceeds
  <2>3. CASE ends /\ ~complete
    <3>1. v = NoWalk \/ v = latest
      BY <2>3
    <3> HIDE DEF v
    <3> QED
      BY <1>6, <1>7, <1>12, <2>3, <3>1 DEF Proceeds
  <2> QED
    BY <2>1, <2>2, <2>3
<1>10. (Continues(w, v, top, rows) /\ ~ends) \/ Settles(w, v)
  <2>1. CASE ~ends
    BY <1>1, <1>5, <2>1
  <2>2. CASE ends /\ w.manual
    <3>1. v = NoWalk
      BY <2>2
    <3> HIDE DEF v
    <3> QED
      BY <1>7, <3>1 DEF Settles
  <2>3. CASE ends /\ ~w.manual
    <3>1. v \in {Search(s, NoId), latest}
      BY <2>3
    <3> HIDE DEF v
    <3> QED
      BY <1>6, <1>8, <2>3, <3>1 DEF Settles
  <2> QED
    BY <2>1, <2>2, <2>3
<1> QED
  BY <1>1, <1>4, <1>9, <1>10, <1>13 DEF rows, top, page, next, merging

\* A walk down does take a number of pages.
LEMMA PagesOf ==
  ASSUME NEW bound, NEW limit \in Nat, limit # 0
  PROVE  PagesTo(bound, limit) \in Nat
<1> DEFINE found(n) == Above(bound, n) \cap Displayable # {} \/ Exhausted(bound, n)
           Ends     == {n \in 1..limit : found(n) \/ n = limit}
<1>1. Ends \subseteq Nat /\ Ends # {}
  <2>1. limit \in Ends
    OBVIOUS
  <2> QED
    BY <2>1
<1>2. Oldest(Ends) \in Ends /\ \A m \in Ends : Oldest(Ends) <= m
  BY <1>1, OldestOf
<1>3. \E n \in 1..limit : (found(n) \/ n = limit) /\ \A m \in 1..(n - 1) : ~found(m)
  <2> DEFINE o == Oldest(Ends)
  <2>1. o \in 1..limit /\ (found(o) \/ o = limit)
    BY <1>2
  <2>2. ASSUME NEW m \in 1..(o - 1), found(m) PROVE FALSE
    <3>1. m \in 1..limit /\ ~(o <= m)
      BY <2>1
    <3>2. m \in Ends
      BY <2>2, <3>1
    <3> QED
      BY <1>2, <3>1, <3>2
  <2> HIDE DEF o, found
  <2> QED
    BY <2>1, <2>2
<1>4. PagesTo(bound, limit) = CHOOSE n \in 1..limit : (found(n) \/ n = limit) /\ \A m \in 1..(n - 1) : ~found(m)
  BY DEF PagesTo
<1> HIDE DEF found
<1>5. PagesTo(bound, limit) \in 1..limit
  BY <1>3, <1>4
<1> QED
  BY <1>5

\* The rows of a walk down from bound are whatever there is below it, as far
\* down as the oldest row, or as the lowest entry, or all of it.
Gathers(rows, complete, low, bound) ==
  /\ rows \subseteq Displayable /\ complete \in BOOLEAN /\ low \in Pos \cup {NoId}
  /\ \A p \in rows : purged < p /\ p < bound
  /\ \A p \in Displayable : purged < p /\ p < bound =>
       \/ p \in rows
       \/ ~complete /\ (rows # {} => p < Oldest(rows)) /\ (low # NoId => p < low)

\* The pages of a walk down gather what there is above their bottom.
LEMMA AboveGathers ==
  ASSUME Shape, NEW bound \in Nat, NEW limit \in Nat, limit # 0
  PROVE  LET n       == PagesTo(bound, limit)
             entries == Above(bound, n)
         IN  /\ Gathers(entries \cap Displayable, Exhausted(bound, n), FirstId(entries), bound)
             /\ \A p \in entries : p < bound
             /\ entries # {} => FirstId(entries) = Oldest(entries) /\ Oldest(entries) \in entries
             /\ entries = {} => FirstId(entries) = NoId
<1> DEFINE n       == PagesTo(bound, limit)
           entries == Above(bound, n)
           rows    == entries \cap Displayable
<1>1. n \in Nat /\ PageSize \in Nat /\ purged \in Nat
  BY PagesOf, NumberFacts DEF Shape, TypeOK
<1>2. PICK k \in Int : k = bound - n * PageSize
  BY <1>1
<1> HIDE DEF n
<1>3. \A p \in Pos : p \in Nat /\ p # 0 /\ (p \in entries <=> (purged < p /\ k <= p /\ p < bound))
  BY <1>2, Displayed DEF Above, Pos
<1>4. entries \subseteq Pos /\ entries \subseteq Nat
  BY Displayed DEF Above
<1>5. Exhausted(bound, n) <=> k <= purged + 1
  BY <1>2 DEF Exhausted
<1> HIDE DEF entries
<1>6. entries # {} => Oldest(entries) \in entries
  BY <1>4, OldestOf
<1>7. rows # {} => Oldest(rows) \in rows
  BY <1>4, OldestOf, Displayed
<1>8. /\ entries # {} => FirstId(entries) = Oldest(entries)
      /\ entries = {} => FirstId(entries) = NoId
  BY DEF FirstId
<1>9. FirstId(entries) \in Pos \cup {NoId} /\ (FirstId(entries) # NoId => FirstId(entries) \in entries)
  BY <1>4, <1>6, <1>8
<1>10. ASSUME NEW p \in Displayable, purged < p, p < bound, p \notin rows
       PROVE  /\ ~Exhausted(bound, n) /\ (rows # {} => p < Oldest(rows))
              /\ FirstId(entries) # NoId => p < FirstId(entries)
  <2>1. p \in Pos /\ p \in Nat /\ p \notin entries
    BY <1>10, Displayed
  <2>2. p < k
    BY <1>3, <1>10, <2>1
  <2>3. \A e \in entries : e \in Nat /\ k <= e
    BY <1>3, <1>4
  <2>4. rows # {} => p < Oldest(rows)
    BY <1>7, <2>1, <2>2, <2>3
  <2>5. FirstId(entries) # NoId => p < FirstId(entries)
    BY <1>9, <2>1, <2>2, <2>3
  <2>6. ~Exhausted(bound, n)
    BY <1>1, <1>5, <1>10, <2>1, <2>2
  <2> QED
    BY <2>4, <2>5, <2>6
<1>11. Exhausted(bound, n) \in BOOLEAN
  BY DEF Exhausted
<1>12. Gathers(rows, Exhausted(bound, n), FirstId(entries), bound)
  BY <1>3, <1>4, <1>9, <1>10, <1>11 DEF Gathers
<1>13. \A p \in entries : p < bound
  BY <1>3, <1>4
<1> QED
  BY <1>6, <1>8, <1>12, <1>13 DEF entries, n

\* The point that the newest page answers for, with what a walk found before it.
LatestFrom(w, rows) ==
  IF ~w.loose THEN ResumedAt(w) ELSE IF rows = {} THEN live ELSE Oldest(rows) - 1

\* The newest page: what it gathers, and the search it may go on to.
LEMMA LatestFrame ==
  ASSUME Shape, NEW s \in Slots, LatestPage(s)
  PROVE  /\ UNCHANGED <<kind, purged, live, seen, online, cache, poisoned, active, heard, lost, sessionStart>>
         /\ walk[s].phase = "latest" /\ online
         /\ \A t \in Slots : t # s => walk'[t] = walk[t]
         /\ \E rows, complete, low :
              /\ Gathers(rows, complete, low, live + 1)
              /\ low <= live
              /\ StorePage(rows, AfterBackwardPage(gaps, rows, complete, TRUE, Existing))
              /\ walk'[s].phase \in {"none", "search"} /\ walk'[s].rows = {} /\ ~walk'[s].manual
              /\ walk'[s].bottom \in {low, NoId}
              /\ walk'[s].phase = "search" => ~walk[s].manual /\ ~active
              /\ Completed(TRUE, LatestFrom(walk[s], rows))
<1> DEFINE w        == walk[s]
           n        == PagesTo(live + 1, RetryPages)
           entries  == Above(live + 1, n)
           rows     == entries \cap Displayable
           complete == Exhausted(live + 1, n)
           low      == FirstId(entries)
           v        == IF w.manual \/ complete THEN NoWalk ELSE Search(s, low)
<1>1. /\ UNCHANGED <<kind, purged, live, seen, online, cache, poisoned, active, heard, lost, sessionStart>>
      /\ w.phase = "latest" /\ online
      /\ StorePage(rows, AfterBackwardPage(gaps, rows, complete, TRUE, Existing))
      /\ walk' = [walk EXCEPT ![s] = v]
      /\ Completed(TRUE, LatestFrom(w, rows))
  BY DEF LatestPage, LatestFrom, pageUnchanged, serverVars, sessionVars
<1>2. walk'[s] = v /\ \A t \in Slots : t # s => walk'[t] = walk[t]
  BY <1>1 DEF Shape, TypeOK
<1>3. live \in Nat /\ live + 1 \in Nat /\ RetryPages \in Nat /\ RetryPages # 0
  BY SeenOK, ArchiveAssumption
<1>4. /\ Gathers(rows, complete, low, live + 1) /\ \A p \in entries : p < live + 1
      /\ entries # {} => low = Oldest(entries) /\ Oldest(entries) \in entries
      /\ entries = {} => low = NoId
  BY <1>3, AboveGathers
<1>5. low \in Pos \cup {NoId} /\ entries \subseteq Nat
  BY AboveOf, Displayed
<1> HIDE DEF entries, rows, complete, low, n
<1>6. low <= live
  <2>1. CASE entries = {}
    BY <1>3, <1>4, <2>1, NumberFacts
  <2>2. CASE entries # {}
    <3>1. low \in entries /\ low \in Nat
      BY <1>4, <1>5, <2>2
    <3>2. low < live + 1
      BY <1>4, <3>1
    <3> QED
      BY <1>3, <3>1, <3>2
  <2> QED
    BY <2>1, <2>2
<1>7. LET u == Search(s, low) IN
         /\ u.phase \in {"none", "search"} /\ ~u.manual /\ u.rows = {} /\ u.bottom \in {low, NoId}
         /\ u.phase = "search" => s = "back" /\ ~active
  BY <1>5, SearchFields
<1>8. NoWalk.phase = "none" /\ NoWalk.rows = {} /\ ~NoWalk.manual /\ NoWalk.bottom = NoId
  BY DEF NoWalk
<1>9. /\ v.phase \in {"none", "search"} /\ v.rows = {} /\ ~v.manual /\ v.bottom \in {low, NoId}
      /\ v.phase = "search" => ~w.manual /\ ~active
  <2>1. CASE w.manual \/ complete
    BY <1>8, <2>1
  <2>2. CASE ~(w.manual \/ complete)
    BY <1>7, <2>2
  <2> QED
    BY <2>1, <2>2
<1> HIDE DEF v
<1> QED
  BY <1>1, <1>2, <1>4, <1>6, <1>9

\* A page of the marker search.
LEMMA SearchFrame ==
  ASSUME Shape, NEW s \in Slots, SearchPage(s)
  PROVE  /\ UNCHANGED <<kind, purged, live, seen, online, cache, poisoned, active, heard, lost, sessionStart>>
         /\ walk[s].phase = "search" /\ online /\ ~active
         /\ mam'.caughtUp = mam.caughtUp /\ edge' = edge
         /\ \A t \in Slots : t # s => walk'[t] = walk[t]
         /\ \E b \in Pos : \E rows, complete, low :
              /\ b = walk[s].bottom \/ \E g \in gaps : b = g.endId
              /\ Gathers(rows, complete, low, b)
              /\ StorePage(rows, AfterBackwardPage(gaps, rows, complete, FALSE, Existing))
              /\ \/ walk'[s].phase = "none" /\ walk'[s].rows = {} /\ walk'[s].bottom = NoId
                 \/ /\ walk'[s].phase = "search" /\ walk'[s].manual = walk[s].manual
                    /\ walk'[s].rows = walk[s].rows
                    /\ walk'[s].bottom = low /\ low \in Pos /\ low < b
<1> DEFINE w == walk[s]
<1>1. /\ UNCHANGED <<kind, purged, live, seen, online, cache, poisoned, active, heard, lost, sessionStart>>
      /\ w.phase = "search" /\ online /\ ~active
      /\ mam'.caughtUp = mam.caughtUp /\ edge' = edge
  BY DEF SearchPage, pageUnchanged, serverVars, sessionVars, Shape, TypeOK
<1>2. PICK b \in ({w.bottom} \cup IF w.firstPage THEN {g.endId : g \in gaps} ELSE {}) \ {NoId} :
        LET n        == PagesTo(b, MaxPos)
            entries  == Above(b, n)
            rows     == entries \cap Displayable
            complete == Exhausted(b, n)
        IN  /\ StorePage(rows, AfterBackwardPage(gaps, rows, complete, FALSE, Existing))
            /\ walk' = [walk EXCEPT ![s] =
                 IF complete \/ entries = {} \/ w.left = 1 THEN NoWalk
                 ELSE [w EXCEPT !.bottom = Oldest(entries), !.left = w.left - 1, !.firstPage = FALSE]]
  BY DEF SearchPage
<1> DEFINE n        == PagesTo(b, MaxPos)
           entries  == Above(b, n)
           rows     == entries \cap Displayable
           complete == Exhausted(b, n)
           low      == FirstId(entries)
           u        == [w EXCEPT !.bottom = Oldest(entries), !.left = w.left - 1, !.firstPage = FALSE]
           v        == IF complete \/ entries = {} \/ w.left = 1 THEN NoWalk ELSE u
<1>3. /\ StorePage(rows, AfterBackwardPage(gaps, rows, complete, FALSE, Existing))
      /\ walk' = [walk EXCEPT ![s] = v]
  BY <1>2
<1>4. walk'[s] = v /\ \A t \in Slots : t # s => walk'[t] = walk[t]
  BY <1>3 DEF Shape, TypeOK
<1>5. w \in Walk /\ gaps \subseteq Gap
  BY DEF Shape, TypeOK
<1>6. (b = w.bottom \/ \E g \in gaps : b = g.endId) /\ b \in Pos /\ b \in Nat
  <2>1. b = w.bottom \/ \E g \in gaps : b = g.endId
    BY <1>2
  <2>2. b \in Pos \cup {NoId} /\ b # NoId
    BY <1>2, <1>5, <2>1 DEF Walk, Gap
  <2> QED
    BY <2>1, <2>2, Displayed
<1>7. /\ Gathers(rows, complete, low, b) /\ \A p \in entries : p < b
      /\ entries # {} => low = Oldest(entries) /\ Oldest(entries) \in entries
      /\ entries \subseteq Pos
  BY <1>6, AboveGathers, AboveOf, NumberFacts, MaxPosAssumption
<1>8. NoWalk.phase = "none" /\ NoWalk.rows = {} /\ NoWalk.bottom = NoId
  BY DEF NoWalk
<1> HIDE DEF entries, rows, complete, low, n
<1>9. u.phase = w.phase /\ u.manual = w.manual /\ u.rows = w.rows /\ u.bottom = Oldest(entries)
  BY <1>5 DEF Walk
<1> HIDE DEF u
<1>10. \/ v.phase = "none" /\ v.rows = {} /\ v.bottom = NoId
       \/ /\ v.phase = "search" /\ v.manual = w.manual /\ v.rows = w.rows
          /\ v.bottom = low /\ low \in Pos /\ low < b
  <2>1. CASE complete \/ entries = {} \/ w.left = 1
    BY <1>8, <2>1
  <2>2. CASE ~(complete \/ entries = {} \/ w.left = 1)
    BY <1>1, <1>7, <1>9, <2>2
  <2> QED
    BY <2>1, <2>2
<1> HIDE DEF v
<1> QED
  BY <1>1, <1>3, <1>4, <1>6, <1>7, <1>10

-----------------------------------------------------------------------------
(* Gaps are drawn between messages held, or held by the time the list is    *)
(* applied that they are of.                                               *)

\* The rows of the writes that are no part of the save chain.
Delivered(q) == {p \in Displayable : \E i \in 1..Len(q) : ~q[i].archive /\ p \in q[i].rows}

\* A gap ends at a message of ps, or nowhere.
Bounded(g, ps) == g.endId \in {NoId, g.end} /\ g.end \in ps \cup {Edge}

\* What the stream delivered and what is in memory is stored or on its way, and
\* the gaps of every list end at such messages, or nowhere.
Stocked ==
  /\ ~lost => heard \subseteq cache \cup Delivered(queue)
  /\ ~poisoned => resident \subseteq Kept \cup Pending(queue)
  /\ \A g \in gaps : Bounded(g, Kept)
  /\ ~poisoned => \A i \in 1..Len(queue) : \A g \in queue[i].next : Bounded(g, Kept \cup UpTo(queue, i))
  /\ \A i \in 1..Len(queue) : queue[i].commit => queue[i].archive

\* The marker search runs in the background, below what was delivered.
Seekers == \A s \in Slots : walk[s].phase = "search" => ~walk[s].manual /\ walk[s].bottom <= seen

\* More messages held bound no fewer gaps.
LEMMA BoundedGrows ==
  ASSUME NEW g, NEW ps, NEW qs, ps \subseteq qs, Bounded(g, ps)
  PROVE  Bounded(g, qs)
  BY DEF Bounded

\* The bottom of a search is a position, or none.
LEMMA BottomNat == Shape => \A s \in Slots : walk[s].bottom \in Nat /\ walk[s].bottom \in Pos \cup {NoId}
<1> SUFFICES ASSUME Shape, NEW s \in Slots PROVE walk[s].bottom \in Nat /\ walk[s].bottom \in Pos \cup {NoId}
  OBVIOUS
<1>1. walk[s].bottom \in Pos \cup {NoId}
  BY DEF Shape, WalkOK, Walk
<1>2. Pos \cup {NoId} \subseteq Nat
  BY NumberFacts, Displayed
<1> QED
  BY <1>1, <1>2

\* A queue that grows loses none of these rows.
LEMMA DeliveredAppend ==
  ASSUME NEW q \in Seq(Job), NEW job \in Job, NEW r, r = Append(q, job)
  PROVE  /\ Delivered(q) \subseteq Delivered(r)
         /\ ~job.archive => job.rows \subseteq Delivered(r)
<1>1. /\ r[Len(r)] = job /\ Len(r) \in 1..Len(r)
      /\ \A i \in 1..Len(q) : i \in 1..Len(r) /\ r[i] = q[i]
  BY QueueAppend
<1>2. job.rows \subseteq Displayable
  BY DEF Job
<1> QED
  BY <1>1, <1>2 DEF Delivered

\* Both hold at first.
LEMMA InitStocked == Init => Stocked /\ Seekers
<1> SUFFICES ASSUME Init PROVE Stocked /\ Seekers
  OBVIOUS
<1>1. Len(queue) = 0 /\ \A s \in Slots : walk[s].phase = "none"
  BY EmptySeq, NoWalkOK DEF Init
<1> QED
  BY <1>1 DEF Init, Stocked, Seekers

\* The steps that store nothing keep what is stocked.
LEMMA PlainStocked ==
  ASSUME Shape, Stocked,
         \/ ServerArchives \/ ServerPurges \/ GoOnline \/ Activate \/ Deactivate
         \/ ListConversation \/ SkipListed \/ Drop
         \/ \E s \in Slots : SearchEnds(s) \/ FailWalk(s)
         \/ UNCHANGED vars
  PROVE  Stocked'
<1>1. /\ UNCHANGED <<kind, cache, gaps, queue, poisoned, heard, lost>>
      /\ resident' \in {resident, {}, cache}
  BY PlainFrame
<1> QED
  BY <1>1 DEF Stocked, Kept

\* They keep the searches.
LEMMA PlainSeekers ==
  ASSUME Shape, Seekers,
         \/ ServerArchives \/ ServerPurges \/ GoOnline \/ Activate \/ Deactivate
         \/ ListConversation \/ SkipListed \/ Drop
         \/ \E s \in Slots : SearchEnds(s) \/ FailWalk(s)
         \/ UNCHANGED vars
  PROVE  Seekers'
<1>1. /\ \A s \in Slots : walk'[s] = walk[s] \/ walk'[s] = NoWalk
      /\ seen' \in Nat /\ seen \in Nat /\ (seen' = seen \/ seen <= seen')
  BY PlainFrame
<1>2. NoWalk.phase = "none"
  BY NoWalkOK
<1>3. \A s \in Slots : walk[s].bottom \in Nat
  BY BottomNat
<1> QED
  BY <1>1, <1>2, <1>3 DEF Seekers

\* A write that commits keeps it: its rows are stored from then on.
LEMMA CommitStocked ==
  ASSUME Shape, Stocked, WriteCommits
  PROVE  Stocked'
<1> DEFINE job == Head(queue)
<1>1. /\ UNCHANGED <<poisoned, resident, heard, lost>>
      /\ queue \in Seq(Job) /\ queue # <<>>
      /\ cache' = cache \cup job.rows
      /\ queue' = Tail(queue) \/ queue' = Stale(Tail(queue))
      /\ gaps' = IF Applies(job) THEN job.next ELSE gaps
  BY CommitFrame
<1>0. queue \in Seq(Job) /\ queue # <<>> /\ (queue' = Tail(queue) \/ queue' = Stale(Tail(queue)))
  BY <1>1
<1>2. /\ Len(queue) \in Nat /\ Len(queue') \in Nat /\ 1 \in 1..Len(queue) /\ job = queue[1]
      /\ \A i \in 1..Len(queue') : i + 1 \in 1..Len(queue) /\ SameJob(queue'[i], queue[i + 1])
      /\ \A i \in 1..Len(queue) : i = 1 \/ (i - 1 \in 1..Len(queue') /\ SameJob(queue'[i - 1], queue[i]))
  BY <1>1, QueueTail
<1>13. Shorter(queue, queue')
  BY <1>0, RowsTail
<1>3. /\ \A n \in 0..Len(queue') : UpTo(queue, n + 1) = Added(job) \cup UpTo(queue', n)
      /\ UpTo(queue, 1) = Added(job)
      /\ UpTo(queue, Len(queue)) = Added(job) \cup UpTo(queue', Len(queue'))
  BY <1>13 DEF Shorter
<1>4. Added(job) \subseteq cache' /\ Kept \subseteq Kept' /\ cache' \subseteq Kept'
  BY <1>1 DEF Added, Kept
<1> HIDE DEF job
<1>5. ~lost' => heard' \subseteq cache' \cup Delivered(queue')
  <2> SUFFICES ASSUME ~lost, NEW p \in heard, p \notin cache' PROVE p \in Delivered(queue')
    BY <1>1
  <2>1. p \in Delivered(queue) /\ p \notin job.rows
    BY <1>1 DEF Stocked
  <2>2. PICK i \in 1..Len(queue) : ~queue[i].archive /\ p \in queue[i].rows
    BY <2>1 DEF Delivered
  <2>3. i - 1 \in 1..Len(queue') /\ SameJob(queue'[i - 1], queue[i])
    BY <1>2, <2>1, <2>2
  <2> QED
    BY <2>1, <2>2, <2>3 DEF Delivered, SameJob
<1>6. ~poisoned' => resident' \subseteq Kept' \cup Pending(queue')
  BY <1>1, <1>3, <1>4 DEF Stocked, Pending
<1>7. \A g \in gaps' : Bounded(g, Kept')
  <2>1. CASE Applies(job)
    <3>1. \A g \in job.next : Bounded(g, Kept \cup UpTo(queue, 1))
      BY <1>2, <2>1 DEF Stocked, Applies
    <3>2. Kept \cup UpTo(queue, 1) \subseteq Kept'
      BY <1>3, <1>4
    <3> QED
      BY <1>1, <2>1, <3>1, <3>2, BoundedGrows
  <2>2. CASE ~Applies(job)
    BY <1>1, <1>4, <2>2, BoundedGrows DEF Stocked
  <2> QED
    BY <2>1, <2>2
<1>8. ASSUME ~poisoned', NEW i \in 1..Len(queue'), NEW g \in queue'[i].next
      PROVE  Bounded(g, Kept' \cup UpTo(queue', i))
  <2>1. i \in 0..Len(queue') /\ g \in queue[i + 1].next /\ i + 1 \in 1..Len(queue)
    BY <1>2, <1>8 DEF SameJob
  <2>2. Bounded(g, Kept \cup UpTo(queue, i + 1))
    BY <1>1, <1>8, <2>1 DEF Stocked
  <2>3. Kept \cup UpTo(queue, i + 1) \subseteq Kept' \cup UpTo(queue', i)
    BY <1>3, <1>4, <2>1
  <2> QED
    BY <2>2, <2>3, BoundedGrows
<1>9. \A i \in 1..Len(queue') : queue'[i].commit => queue'[i].archive
  BY <1>2 DEF Stocked, SameJob
<1> QED
  BY <1>5, <1>6, <1>7, <1>8, <1>9 DEF Stocked

\* A write that fails keeps it, for from then on a write has failed.
LEMMA FailStocked ==
  ASSUME Shape, Stocked, WriteFails
  PROVE  Stocked' /\ ~Intact'
<1> DEFINE job == Head(queue)
<1>1. /\ UNCHANGED <<cache, gaps, resident, heard>>
      /\ queue \in Seq(Job) /\ queue # <<>> /\ queue' = Tail(queue)
      /\ poisoned' = (poisoned \/ job.archive) /\ lost' = (lost \/ ~job.archive)
  BY FailFrame
<1>0. queue \in Seq(Job) /\ queue # <<>> /\ (queue' = Tail(queue) \/ queue' = Stale(Tail(queue)))
  BY <1>1
<1>2. /\ Len(queue) \in Nat /\ Len(queue') \in Nat /\ 1 \in 1..Len(queue) /\ job = queue[1]
      /\ \A i \in 1..Len(queue') : i + 1 \in 1..Len(queue) /\ SameJob(queue'[i], queue[i + 1])
      /\ \A i \in 1..Len(queue) : i = 1 \/ (i - 1 \in 1..Len(queue') /\ SameJob(queue'[i - 1], queue[i]))
  BY <1>1, QueueTail
<1>13. Shorter(queue, queue')
  BY <1>0, RowsTail
<1>3. /\ \A n \in 0..Len(queue') : UpTo(queue, n + 1) = Added(job) \cup UpTo(queue', n)
      /\ UpTo(queue, Len(queue)) = Added(job) \cup UpTo(queue', Len(queue'))
  BY <1>13 DEF Shorter
<1>4. Kept' = Kept
  BY <1>1 DEF Kept
<1> HIDE DEF job
<1>5. ~poisoned' => ~poisoned /\ Added(job) = {}
  BY <1>1 DEF Added
<1>6. ~lost' => heard' \subseteq cache' \cup Delivered(queue')
  <2> SUFFICES ASSUME ~lost', NEW p \in heard, p \notin cache PROVE p \in Delivered(queue')
    BY <1>1
  <2>1. p \in Delivered(queue) /\ job.archive
    BY <1>1 DEF Stocked
  <2>2. PICK i \in 1..Len(queue) : ~queue[i].archive /\ p \in queue[i].rows
    BY <2>1 DEF Delivered
  <2>3. i - 1 \in 1..Len(queue') /\ SameJob(queue'[i - 1], queue[i])
    BY <1>2, <2>1, <2>2
  <2> QED
    BY <2>1, <2>2, <2>3 DEF Delivered, SameJob
<1>7. ~poisoned' => resident' \subseteq Kept' \cup Pending(queue')
  BY <1>1, <1>3, <1>4, <1>5 DEF Stocked, Pending
<1>8. ASSUME ~poisoned', NEW i \in 1..Len(queue'), NEW g \in queue'[i].next
      PROVE  Bounded(g, Kept' \cup UpTo(queue', i))
  <2>1. i \in 0..Len(queue') /\ g \in queue[i + 1].next /\ i + 1 \in 1..Len(queue)
    BY <1>2, <1>8 DEF SameJob
  <2>2. Bounded(g, Kept \cup UpTo(queue, i + 1))
    BY <1>5, <1>8, <2>1 DEF Stocked
  <2>3. Kept \cup UpTo(queue, i + 1) \subseteq Kept' \cup UpTo(queue', i)
    BY <1>3, <1>4, <1>5, <1>8, <2>1
  <2> QED
    BY <2>2, <2>3, BoundedGrows
<1>9. \A i \in 1..Len(queue') : queue'[i].commit => queue'[i].archive
  BY <1>2 DEF Stocked, SameJob
<1>10. \A g \in gaps' : Bounded(g, Kept')
  BY <1>1, <1>4 DEF Stocked
<1>11. ~Intact'
  BY <1>1 DEF Intact
<1> QED
  BY <1>6, <1>7, <1>8, <1>9, <1>10, <1>11 DEF Stocked

\* A reload keeps it: nothing is in memory or on its way after it.
LEMMA CrashStocked ==
  ASSUME Shape, Stocked, Crash
  PROVE  Stocked' /\ Seekers'
<1>1. /\ UNCHANGED <<gaps, heard>>
      /\ Len(queue') = 0 /\ resident' = {}
      /\ \A s \in Slots : walk'[s] = NoWalk
      /\ \E n \in 0..Len(queue) :
              /\ cache' = cache \cup UNION {queue[i].rows : i \in 1..n}
              /\ lost' = (lost \/ \E i \in n + 1 .. Len(queue) : ~queue[i].archive)
  BY CrashFrame
<1>2. PICK n \in 0..Len(queue) :
              /\ cache' = cache \cup UNION {queue[i].rows : i \in 1..n}
              /\ lost' = (lost \/ \E i \in n + 1 .. Len(queue) : ~queue[i].archive)
  BY <1>1
<1>3. Len(queue) \in Nat
  BY LenProperties DEF Shape, TypeOK
<1>4. Kept \subseteq Kept'
  BY <1>1, <1>2 DEF Kept
<1>5. ASSUME ~lost', NEW p \in heard, p \notin cache' PROVE FALSE
  <2>1. p \in Delivered(queue)
    BY <1>2, <1>5 DEF Stocked
  <2>2. PICK i \in 1..Len(queue) : ~queue[i].archive /\ p \in queue[i].rows
    BY <2>1 DEF Delivered
  <2>3. i \notin 1..n
    BY <1>2, <1>5, <2>2
  <2>4. i \in n + 1 .. Len(queue)
    BY <1>3, <2>3
  <2> QED
    BY <1>2, <1>5, <2>2, <2>4
<1>6. \A g \in gaps' : Bounded(g, Kept')
  BY <1>1, <1>4, BoundedGrows DEF Stocked
<1>7. NoWalk.phase = "none"
  BY NoWalkOK
<1> QED
  BY <1>1, <1>5, <1>6, <1>7 DEF Stocked, Seekers

\* What the stream delivers is on its way, and keeps it.
LEMMA StreamStocked ==
  ASSUME Shape, Stocked, Seekers, Arrive \/ Resume
  PROVE  Stocked' /\ Seekers'
<1>1. /\ UNCHANGED <<cache, gaps, poisoned, lost, walk>>
      /\ live' \in Nat /\ seen' = live' /\ seen \in Nat /\ seen <= seen'
  BY StreamFrame
<1>2. PICK h \in SUBSET Displayable :
              /\ heard' = heard \cup h
              /\ resident' \in {resident, resident \cup h}
              /\ \/ h = {} /\ queue' = queue
                 \/ queue' = Append(queue, LiveJob(h))
  BY StreamFrame
<1>3. /\ LiveJob(h) \in Job /\ LiveJob(h).rows = h /\ queue \in Seq(Job) /\ ~LiveJob(h).archive
      /\ ~LiveJob(h).commit /\ LiveJob(h).next = {} /\ Added(LiveJob(h)) = {}
  BY LiveJobOK DEF LiveJob, Shape, TypeOK
<1>4. Kept \subseteq Kept' /\ h \subseteq Kept'
  BY <1>1, <1>2 DEF Kept
<1>5. \A s \in Slots : walk[s].bottom \in Nat
  BY BottomNat
<1>6. Seekers'
  BY <1>1, <1>5 DEF Seekers
<1>7. \A g \in gaps' : Bounded(g, Kept')
  BY <1>1, <1>4, BoundedGrows DEF Stocked
<1>8. CASE h = {} /\ queue' = queue
  BY <1>1, <1>2, <1>6, <1>8 DEF Stocked, Kept
<1>9. CASE queue' = Append(queue, LiveJob(h))
  <2>1. Delivered(queue) \subseteq Delivered(queue') /\ h \subseteq Delivered(queue')
    BY <1>3, <1>9, DeliveredAppend
  <2>2. /\ \A n \in 1..Len(queue) : UpTo(queue', n) = UpTo(queue, n)
        /\ UpTo(queue', Len(queue')) = UpTo(queue, Len(queue))
    <3>1. LiveJob(h) \in Job /\ queue \in Seq(Job)
      BY <1>3
    <3>2. Longer(queue, LiveJob(h), queue')
      BY <1>9, <3>1, RowsAppend
    <3> QED
      BY <1>3, <3>2 DEF Longer
  <2>3. \A i \in 1..Len(queue') : \/ i \in 1..Len(queue) /\ queue'[i] = queue[i]
                                  \/ queue'[i] = LiveJob(h)
    BY <1>3, <1>9, QueueAppend
  <2>4. ~lost' => heard' \subseteq cache' \cup Delivered(queue')
    BY <1>1, <1>2, <2>1 DEF Stocked
  <2>5. ~poisoned' => resident' \subseteq Kept' \cup Pending(queue')
    BY <1>1, <1>2, <1>4, <2>2 DEF Stocked, Pending
  <2>6. ASSUME ~poisoned', NEW i \in 1..Len(queue'), NEW g \in queue'[i].next
        PROVE  Bounded(g, Kept' \cup UpTo(queue', i))
    <3>1. i \in 1..Len(queue) /\ g \in queue[i].next
      BY <1>3, <2>3, <2>6
    <3>2. Bounded(g, Kept \cup UpTo(queue, i))
      BY <1>1, <2>6, <3>1 DEF Stocked
    <3>3. Kept \cup UpTo(queue, i) \subseteq Kept' \cup UpTo(queue', i)
      BY <1>4, <2>2, <3>1
    <3> QED
      BY <3>2, <3>3, BoundedGrows
  <2>7. \A i \in 1..Len(queue') : queue'[i].commit => queue'[i].archive
    BY <1>3, <2>3 DEF Stocked
  <2> QED
    BY <1>6, <1>7, <2>4, <2>5, <2>6, <2>7 DEF Stocked
<1> QED
  BY <1>2, <1>8, <1>9

\* One list is another, but for the resume ids.
Alike(hs, gs) ==
  /\ \A h \in hs : \E g \in gs : h.start = g.start /\ h.end = g.end /\ h.endId = g.endId
  /\ \A g \in gs : \E h \in hs : h.start = g.start /\ h.end = g.end /\ h.endId = g.endId

\* A list is alike to itself.
LEMMA AlikeSelf == \A gs : Alike(gs, gs)
  BY DEF Alike

\* Forgetting a resume id moves no gap.
LEMMA AlikeCleared ==
  ASSUME NEW gs, gs \subseteq Gap, NEW id
  PROVE  Alike(ClearGapAnchor(gs, id), gs)
<1> DEFINE clear(g) == IF g.startId = id THEN [g EXCEPT !.startId = NoId] ELSE g
<1>1. ASSUME NEW g \in gs
      PROVE  clear(g).start = g.start /\ clear(g).end = g.end /\ clear(g).endId = g.endId
  BY DEF Gap
<1>2. ClearGapAnchor(gs, id) = {clear(g) : g \in gs}
  BY DEF ClearGapAnchor
<1> HIDE DEF clear
<1> QED
  BY <1>1, <1>2 DEF Alike

\* A start leaves one new walk, from nothing yet.
LEMMA NewWalk ==
  ASSUME Shape, StartFront \/ LoadMissing \/ StartBack
  PROVE  \A t \in Slots : \/ walk'[t] = walk[t]
                          \/ online /\ walk'[t].phase \in {"forward", "latest"} /\ walk'[t].rows = {}
<1>1. CASE UNCHANGED walk
  BY <1>1
<1>2. CASE ~UNCHANGED walk
  <2>1. PICK s \in Slots :
          /\ online /\ \A t \in Slots : t # s => walk'[t] = walk[t]
          /\ \/ \E held \in SUBSET Displayable : StartsOn(s, held)
             \/ walk'[s].phase = "forward" /\ walk'[s].rows = {}
    BY <1>2, StartFrame
  <2>2. CASE \E held \in SUBSET Displayable : StartsOn(s, held)
    <3>1. PICK held \in SUBSET Displayable : walk'[s] = CatchUpWalk(held)
      BY <2>2 DEF StartsOn
    <3>2. CatchUpWalk(held).rows = {} /\ CatchUpWalk(held).phase \in {"forward", "latest"}
      BY CatchUpFields
    <3> QED
      BY <2>1, <3>1, <3>2
  <2>3. CASE walk'[s].phase = "forward" /\ walk'[s].rows = {}
    BY <2>1, <2>3
  <2> QED
    BY <2>1, <2>2, <2>3
<1> QED
  BY <1>1, <1>2

\* The steps that start a walk keep the first parts.
LEMMA StartBasics ==
  ASSUME Shape, Timely, Stocked, Seekers, StartFront \/ LoadMissing \/ StartBack
  PROVE  Timely' /\ Stocked' /\ Seekers'
<1>1. UNCHANGED <<kind, purged, live, seen, online, cache, gaps, queue, poisoned, resident, heard, lost, sessionStart>>
  BY StartFrame
<1>2. \A t \in Slots : \/ walk'[t] = walk[t]
                       \/ online /\ walk'[t].phase \in {"forward", "latest"} /\ walk'[t].rows = {}
  BY NewWalk
<1>3. Timely'
  BY <1>1, <1>2 DEF Timely
<1>4. Stocked'
  BY <1>1 DEF Stocked, Kept
<1>5. Seekers'
  BY <1>1, <1>2 DEF Seekers
<1> QED
  BY <1>3, <1>4, <1>5

\* So does the fall back from an expired resume id.
LEMMA AnchorBasics ==
  ASSUME Shape, Timely, Stocked, Seekers, NEW s \in Slots, AnchorPurged(s)
  PROVE  Timely' /\ Stocked' /\ Seekers'
<1>1. /\ UNCHANGED <<kind, purged, live, seen, online, cache, poisoned, resident, heard, lost, sessionStart>>
      /\ walk[s].phase = "forward"
      /\ gaps' = ClearGapAnchor(gaps, walk[s].after)
      /\ queue \in Seq(Job)
      /\ (queue' = queue /\ gaps' = gaps) \/ queue' = Stale(queue)
      /\ \A t \in Slots : t # s => walk'[t] = walk[t]
      /\ walk'[s].phase = "latest" /\ walk'[s].rows = {}
  BY AnchorFrame
<1>2. Alike(gaps', gaps)
  BY <1>1, AlikeCleared DEF Shape, TypeOK
<1>3. Kept' = Kept
  BY <1>1 DEF Kept
<1>4. Seekers'
  BY <1>1 DEF Seekers
<1>5. \A g \in gaps' : Bounded(g, Kept')
  BY <1>2, <1>3 DEF Alike, Stocked, Bounded
<1>6. CASE queue' = queue
  <2>1. Stocked'
    BY <1>1, <1>3, <1>5, <1>6 DEF Stocked
  <2>2. Timely'
    BY <1>1, <1>6 DEF Timely
  <2> QED
    BY <1>4, <2>1, <2>2
<1>7. CASE queue' = Stale(queue)
  <2>1. /\ Len(queue') = Len(queue)
        /\ \A i \in 1..Len(queue) : /\ queue'[i].rows = queue[i].rows /\ queue'[i].next = queue[i].next
                                    /\ queue'[i].archive = queue[i].archive /\ queue'[i].commit = queue[i].commit
    BY <1>1, <1>7, QueueStale DEF SameJob
  <2>2. \A n \in 1..Len(queue) : UpTo(queue', n) = UpTo(queue, n)
    BY <1>1, <1>7, RowsStale
  <2>3. Pending(queue') = Pending(queue)
    BY <1>1, <1>7, StaleOf
  <2>4. Delivered(queue') = Delivered(queue)
    BY <2>1 DEF Delivered
  <2>5. Stocked'
    BY <1>1, <1>3, <1>5, <2>1, <2>2, <2>3, <2>4 DEF Stocked
  <2>6. Timely'
    BY <1>1, <2>1 DEF Timely
  <2> QED
    BY <1>4, <2>5, <2>6
<1> QED
  BY <1>1, <1>6, <1>7

-----------------------------------------------------------------------------
\* What every page comes to, whatever it merges.
Stores(rows, next) ==
  LET job == PageJob(rows, next) IN
  /\ queue \in Seq(Job) /\ job \in Job /\ job.rows = rows \ Existing /\ job.archive
  /\ job.next \subseteq next /\ (job.commit <=> next # gaps) /\ (job.commit => job.next = next)
  /\ Existing \subseteq resident
  /\ resident' \in {resident, resident \cup rows}
  /\ \/ queue' = queue /\ gaps' = gaps /\ next = gaps /\ rows \subseteq Existing
     \/ queue' = queue /\ gaps' = next /\ rows \subseteq Existing /\ ~SavesHas
     \/ queue' = Append(queue, job) /\ gaps' = gaps

\* A page stores just that.
LEMMA StoreStep ==
  ASSUME Shape, NEW rows, rows \subseteq Displayable, NEW next, next \subseteq Gap, Normal(next),
         StorePage(rows, next)
  PROVE  Stores(rows, next)
  BY StoreFrame DEF Stores

\* A page of a walk, what it stores and what it leaves alone.
StoresPage(s, rows, next) ==
  /\ rows \subseteq Displayable /\ next \subseteq Gap /\ Normal(next)
  /\ StorePage(rows, next)
  /\ UNCHANGED <<kind, purged, live, seen, online, cache, poisoned, active, heard, lost, sessionStart>>
  /\ online /\ \A t \in Slots : t # s => walk'[t] = walk[t]
  /\ \A p \in rows : p <= seen
  /\ \A h \in next : \/ \E g \in gaps : h.end = g.end /\ h.endId \in {g.endId, NoId}
                     \/ h.endId \in {h.end, NoId} /\ h.end \in Existing \cup rows \cup {Edge}

\* A page keeps what is delivered ahead of what is held.
LEMMA PageTimely ==
  ASSUME Shape, Timely, NEW s \in Slots, NEW rows, NEW next, StoresPage(s, rows, next),
         \A p \in walk'[s].rows : p <= seen
  PROVE  Timely'
<1>1. /\ UNCHANGED <<live, seen, online, cache, heard, sessionStart>>
      /\ online /\ \A t \in Slots : t # s => walk'[t] = walk[t]
      /\ \A p \in rows : p <= seen
      /\ rows \subseteq Displayable /\ next \subseteq Gap /\ Normal(next) /\ StorePage(rows, next)
  BY DEF StoresPage
<1>0. /\ rows \subseteq Displayable /\ next \subseteq Gap /\ Normal(next)
      /\ StorePage(rows, next)
  BY DEF StoresPage
<1>11. Stores(rows, next)
  BY <1>0, StoreStep
<1> DEFINE job == PageJob(rows, next)
<1>2. /\ queue \in Seq(Job) /\ job \in Job /\ job.rows \subseteq rows
      /\ resident' \in {resident, resident \cup rows}
      /\ queue' = queue \/ queue' = Append(queue, job)
  BY <1>11 DEF Stores
<1> HIDE DEF job
<1>3. \A p \in resident' : p <= seen
  BY <1>1, <1>2 DEF Timely
<1>4. \A i \in 1..Len(queue') : \A p \in queue'[i].rows : p <= seen
  <2>1. \A i \in 1..Len(queue) : \A p \in queue[i].rows : p <= seen
    BY DEF Timely
  <2>2. CASE queue' = queue
    BY <2>1, <2>2
  <2>3. CASE queue' = Append(queue, job)
    <3>1. \A i \in 1..Len(queue') : \/ i \in 1..Len(queue) /\ queue'[i] = queue[i]
                                    \/ queue'[i] = job
      BY <1>2, <2>3, QueueAppend
    <3> QED
      BY <1>1, <1>2, <2>1, <3>1
  <2> QED
    BY <1>2, <2>2, <2>3
<1>5. \A t \in Slots : \A p \in walk'[t].rows : p <= seen
  BY <1>1 DEF Timely
<1>6. \A p \in cache' \cup heard' : p <= seen'
  BY <1>1 DEF Timely
<1>7. /\ online' => seen' = live'
      /\ \A t \in Slots : walk'[t].phase # "none" => online'
      /\ sessionStart' <= seen' + 1
      /\ sessionStart' > 0 => \A p \in Displayable : sessionStart' <= p /\ p <= seen' => p \in heard'
  BY <1>1 DEF Timely
<1> QED
  BY <1>1, <1>3, <1>4, <1>5, <1>6, <1>7 DEF Timely

\* A page keeps what is stocked: its new gaps end at what it stores.
LEMMA PageStocked ==
  ASSUME Shape, Stocked, NEW s \in Slots, NEW rows, NEW next, StoresPage(s, rows, next)
  PROVE  Stocked'
<1>1. /\ UNCHANGED <<cache, heard, poisoned, lost>>
      /\ rows \subseteq Displayable /\ next \subseteq Gap /\ Normal(next) /\ StorePage(rows, next)
      /\ \A h \in next : \/ \E g \in gaps : h.end = g.end /\ h.endId \in {g.endId, NoId}
                         \/ h.endId \in {h.end, NoId} /\ h.end \in Existing \cup rows \cup {Edge}
  BY DEF StoresPage
<1>0. /\ rows \subseteq Displayable /\ next \subseteq Gap /\ Normal(next)
      /\ StorePage(rows, next)
  BY DEF StoresPage
<1>11. Stores(rows, next)
  BY <1>0, StoreStep
<1> DEFINE job == PageJob(rows, next)
<1>2. /\ queue \in Seq(Job) /\ job \in Job /\ job.rows = rows \ Existing /\ job.archive
      /\ job.next \subseteq next
      /\ Existing \subseteq resident
      /\ resident' \in {resident, resident \cup rows}
      /\ \/ queue' = queue /\ gaps' = gaps /\ rows \subseteq Existing
         \/ queue' = queue /\ gaps' = next /\ rows \subseteq Existing /\ ~SavesHas
         \/ queue' = Append(queue, job) /\ gaps' = gaps
  BY <1>11 DEF Stores
<1> HIDE DEF job
<1>3. Kept' = Kept
  BY <1>1 DEF Kept
<1>4. ASSUME ~poisoned, NEW h \in next PROVE Bounded(h, Kept \cup Pending(queue) \cup (rows \ Existing))
  <2>1. CASE \E g \in gaps : h.end = g.end /\ h.endId \in {g.endId, NoId}
    <3>1. PICK g \in gaps : h.end = g.end /\ h.endId \in {g.endId, NoId} /\ Bounded(g, Kept)
      BY <2>1 DEF Stocked
    <3> QED
      BY <3>1 DEF Bounded
  <2>2. CASE h.endId \in {h.end, NoId} /\ h.end \in Existing \cup rows \cup {Edge}
    <3>1. Existing \cup rows \subseteq Kept \cup Pending(queue) \cup (rows \ Existing)
      BY <1>2, <1>4 DEF Stocked
    <3> QED
      BY <2>2, <3>1 DEF Bounded
  <2> QED
    BY <1>1, <2>1, <2>2
<1>5. CASE queue' = queue /\ gaps' = gaps /\ rows \subseteq Existing
  <2>1. resident' = resident
    BY <1>2, <1>5
  <2> QED
    BY <1>1, <1>3, <1>5, <2>1 DEF Stocked
<1>6. CASE queue' = queue /\ gaps' = next /\ rows \subseteq Existing /\ ~SavesHas
  <2>1. resident' = resident
    BY <1>2, <1>6
  <2>2. ~poisoned /\ Pending(queue) = {} /\ rows \ Existing = {}
    BY <1>6 DEF SavesHas, Pending, UpTo
  <2>3. Kept \cup Pending(queue) \cup (rows \ Existing) = Kept
    BY <2>2
  <2>4. \A g \in gaps' : Bounded(g, Kept')
    BY <1>3, <1>4, <1>6, <2>2, <2>3
  <2> QED
    BY <1>1, <1>3, <1>6, <2>1, <2>4 DEF Stocked
<1>7. CASE queue' = Append(queue, job) /\ gaps' = gaps
  <2>1. Longer(queue, job, queue') /\ Delivered(queue) \subseteq Delivered(queue')
    BY <1>2, <1>7, RowsAppend, DeliveredAppend
  <2>2. /\ \A i \in 1..Len(queue') : \/ i \in 1..Len(queue) /\ queue'[i] = queue[i]
                                     \/ i = Len(queue') /\ queue'[i] = job
    BY <1>2, <1>7, QueueAppend
  <2>3. Added(job) = rows \ Existing
    BY <1>2 DEF Added
  <2>4. Pending(queue') = Pending(queue) \cup (rows \ Existing)
    BY <2>1, <2>3 DEF Longer, Pending
  <2>5. ~poisoned' => resident' \subseteq Kept' \cup Pending(queue')
    BY <1>1, <1>2, <1>3, <2>4 DEF Stocked
  <2>6. ASSUME ~poisoned', NEW i \in 1..Len(queue'), NEW g \in queue'[i].next
        PROVE  Bounded(g, Kept' \cup UpTo(queue', i))
    <3>1. CASE i \in 1..Len(queue) /\ queue'[i] = queue[i]
      <4>1. Bounded(g, Kept \cup UpTo(queue, i))
        BY <1>1, <2>6, <3>1 DEF Stocked
      <4> QED
        BY <1>3, <2>1, <3>1, <4>1 DEF Longer
    <3>2. CASE i = Len(queue') /\ queue'[i] = job
      <4>1. Bounded(g, Kept \cup Pending(queue) \cup (rows \ Existing))
        BY <1>1, <1>2, <1>4, <2>6, <3>2
      <4>2. Kept' \cup UpTo(queue', i) = Kept \cup Pending(queue) \cup (rows \ Existing)
        BY <1>3, <2>4, <3>2 DEF Pending
      <4> QED
        BY <4>1, <4>2
    <3> QED
      BY <2>2, <3>1, <3>2
  <2>7. \A i \in 1..Len(queue') : queue'[i].commit => queue'[i].archive
    BY <1>2, <2>2 DEF Stocked
  <2>8. ~lost' => heard' \subseteq cache' \cup Delivered(queue')
    BY <1>1, <2>1 DEF Stocked
  <2>9. \A g \in gaps' : Bounded(g, Kept')
    BY <1>3, <1>7 DEF Stocked
  <2> QED
    BY <2>5, <2>6, <2>7, <2>8, <2>9 DEF Stocked
<1> QED
  BY <1>2, <1>5, <1>6, <1>7

-----------------------------------------------------------------------------
(* The pages, in the terms of what they merge.                              *)

\* What a forward walk has collected lies up to its cursor.
Ahead == \A s \in Slots : walk[s].phase = "forward" => \A p \in walk[s].rows : p <= walk[s].after

\* A chat merges nothing before its walk ends, and a page that reaches live ends it.
LEMMA ForwardEnds ==
  ASSUME Shape, NEW s \in Slots, ForwardPage(s), walk'[s].phase = "forward"
  PROVE  /\ Least(Most(walk[s].after, purged) + PageSize, live) < live
         /\ kind = "room" \/ UNCHANGED <<gaps, queue, resident>>
<1> DEFINE w        == walk[s]
           below    == Most(w.after, purged)
           top      == Least(below + PageSize, live)
           last     == IF top > below THEN top ELSE NoId
           page     == {p \in Displayable : below < p /\ p <= top}
           rows     == w.rows \cup page
           complete == top >= live
           merging  == IF kind = "room" THEN page ELSE rows
           next     == AfterForwardPage(gaps, merging, w.origin, last, complete, Existing \cup merging)
           ends     == complete \/ w.left = 1
           loose    == rows = {} /\ \A g \in gaps : g.start # w.origin
           latest   == [FetchLatest EXCEPT !.loose = loose, !.origin = w.origin]
           v        == IF ~ends THEN NextPage(w, top, rows)
                       ELSE IF complete THEN IF w.manual THEN NoWalk ELSE Search(s, NoId)
                       ELSE IF w.manual THEN NoWalk
                       ELSE latest
<1>1. walk' = [walk EXCEPT ![s] = v]
  BY DEF ForwardPage
<1>2. IF kind = "room" \/ ends
      THEN Room4(1) /\ StorePage(merging, next) /\ Completed(complete, ResumedAt(w))
      ELSE UNCHANGED <<gaps, queue, resident, mam, edge>>
  BY DEF ForwardPage
<1>3. walk'[s] = v
  BY <1>1 DEF Shape, TypeOK
<1>4. latest.phase = "latest"
  BY DEF FetchLatest, NoWalk
<1>5. NoWalk.phase = "none"
  BY NoWalkOK
<1>6. Search(s, NoId).phase # "forward"
  BY SearchOK, NumberFacts
<1> HIDE DEF latest, loose, rows, next, merging
<1>7. ~ends
  <2> SUFFICES ASSUME ends PROVE FALSE
    OBVIOUS
  <2>1. v \in {NoWalk, Search(s, NoId), latest}
    OBVIOUS
  <2> HIDE DEF v, ends
  <2> QED
    BY <1>3, <1>4, <1>5, <1>6, <2>1
<1>8. live \in Nat /\ top \in 0..MaxPos
  BY ForwardFacts, SeenOK
<1>9. top < live
  BY <1>7, <1>8, NumberFacts
<1> QED
  BY <1>2, <1>7, <1>9

-----------------------------------------------------------------------------
\* A page of a forward walk, in the terms of what it merges.
ForwardStores(s, page, merging, last, complete, top) ==
  LET w    == walk[s]
      next == AfterForwardPage(gaps, merging, w.origin, last, complete, Existing \cup merging)
  IN
  /\ w.phase = "forward" /\ w.origin \in 0..MaxPos /\ online
  /\ page \subseteq Displayable /\ merging \subseteq Displayable
  /\ last \in 0..MaxPos /\ complete \in BOOLEAN
  /\ top \in Nat /\ (complete => top >= live)
  /\ \A p \in page \cup merging : p <= seen
  /\ ~complete => \A p \in merging : p <= top
  /\ \A p \in page : p <= top
  /\ ~complete => w.after <= top /\ last = top /\ w.after < last
  /\ \A p \in page : w.after < p
  /\ kind = "room" => merging = page /\ \A p \in merging : w.after < p
  /\ ~poisoned => \A p \in Displayable : w.origin <= p /\ p <= top => p \in Settled \cup merging
  /\ \A t \in Slots : t # s => walk'[t] = walk[t]
  /\ \/ Continues(w, walk'[s], top, w.rows \cup page) /\ ~complete
     \/ Settles(w, walk'[s])
  /\ Proceeds(w, walk'[s], w.rows \cup page, complete)
  /\ kind = "chat" => merging = w.rows \cup page
  /\ UNCHANGED <<kind, purged, live, seen, online, cache, poisoned, active, heard, lost, sessionStart>>
  /\ \/ /\ StoresPage(s, merging, next) /\ (kind = "room" \/ Settles(w, walk'[s]))
        /\ Completed(complete, ResumedAt(w))
     \/ kind = "chat" /\ walk'[s].phase = "forward" /\ UNCHANGED <<gaps, queue, resident, mam, edge>>

\* Every page of a forward walk is such a page.
LEMMA ForwardPageStores ==
  ASSUME Shape, Content, Timely, Ahead, NEW s \in Slots, ForwardPage(s)
  PROVE  \E page, merging, last, complete, top : ForwardStores(s, page, merging, last, complete, top)
<1> DEFINE w        == walk[s]
           below    == Most(w.after, purged)
           top      == Least(below + PageSize, live)
           last     == IF top > below THEN top ELSE NoId
           page     == {p \in Displayable : below < p /\ p <= top}
           rows     == w.rows \cup page
           complete == top >= live
           merging  == IF kind = "room" THEN page ELSE rows
           merged   == Existing \cup merging
           next     == AfterForwardPage(gaps, merging, w.origin, last, complete, merged)
<1>1. /\ UNCHANGED <<kind, purged, live, seen, online, cache, poisoned, active, heard, lost, sessionStart>>
      /\ w.phase = "forward" /\ online
      /\ \A t \in Slots : t # s => walk'[t] = walk[t]
      /\ Continues(w, walk'[s], top, rows) \/ Settles(w, walk'[s])
      /\ Proceeds(w, walk'[s], rows, complete)
      /\ \/ /\ StorePage(merging, next) /\ Completed(complete, ResumedAt(w))
            /\ kind = "room" \/ Settles(w, walk'[s])
         \/ kind = "chat" /\ walk'[s].phase = "forward" /\ UNCHANGED <<gaps, queue, resident, mam, edge>>
  BY ForwardFrame
<1>2. walk'[s].phase = "forward" => top < live /\ (kind = "room" \/ UNCHANGED <<gaps, queue, resident>>)
  BY ForwardEnds
<1>3. /\ WalkOK(w) /\ below \in 0..MaxPos /\ w.after <= below /\ purged <= below
      /\ top \in 0..MaxPos /\ last \in 0..MaxPos
      /\ page \subseteq Displayable /\ w.rows \subseteq Displayable
      /\ w.origin \in 0..MaxPos /\ w.after \in 0..MaxPos
  BY ForwardFacts
<1>4. /\ live \in Nat /\ seen \in Nat /\ seen = live /\ \A p \in Displayable : p \in Nat
      /\ (kind = "chat" \/ kind = "room") /\ MaxPos \in Nat /\ PageSize \in Nat
  BY <1>1, SeenOK, NumberFacts DEF Timely, Shape, TypeOK
<1>5. top <= live /\ (~complete => below <= top)
  BY <1>3, <1>4 DEF Least
<1>6. complete \in BOOLEAN /\ merging \subseteq Displayable /\ merged \subseteq Displayable /\ page \subseteq merging
      /\ gaps \subseteq Gap
  BY <1>3, ExistingTypes DEF Shape, TypeOK
<1>7. \A p \in page : below < p /\ p <= top
  OBVIOUS
<1>8. kind = "chat" => merging = rows
  BY <1>4
<1>9. kind = "room" => merging = page
  OBVIOUS
<1>10. ASSUME ~poisoned, NEW p \in Displayable, w.origin <= p, p <= top
       PROVE  p \in Settled \cup merging
  <2>1. p \in Settled \cup Collected(kind, w) \/ below < p
    BY <1>1, <1>10, ForwardPassed
  <2>2. Collected(kind, w) \subseteq merging
    BY <1>4, <1>8 DEF Collected
  <2>3. below < p => p \in page
    BY <1>10
  <2> QED
    BY <1>6, <2>1, <2>2, <2>3
<1>11. next \subseteq Gap /\ Normal(next)
  BY <1>3, <1>6, AfterForward
<1>12. /\ \A h \in next :
              \/ \E g \in gaps : h.end = g.end /\ h.endId \in {g.endId, NoId}
              \/ /\ Opens(gaps, merging, w.origin, complete) /\ h.endId = NoId
                 /\ h.end \in {q \in merged : q > Newest(merging)} \cup {Edge}
  <2>1. Normal(gaps)
    BY DEF Shape, TypeOK
  <2>2. /\ merging \subseteq Displayable /\ w.origin \in 0..MaxPos /\ last \in 0..MaxPos
        /\ complete \in BOOLEAN /\ merged \subseteq Displayable /\ gaps \subseteq Gap
    BY <1>3, <1>6
  <2> HIDE DEF merging, merged, complete, last, w
  <2>3. Forwarded(gaps, merging, w.origin, complete, merged, next)
    BY <2>1, <2>2, ForwardedNext
  <2> HIDE DEF next
  <2> QED
    BY <2>3 DEF Forwarded
<1>13. \A p \in w.rows : p <= seen /\ p <= w.after
  BY <1>1 DEF Timely, Ahead
<1>14. (complete => top >= live) /\ (top < live => ~complete)
  BY <1>3, <1>4
<1>15. \A p \in merging : p \in page \/ p \in w.rows
  OBVIOUS
<1>16. ~complete => w.after <= top /\ last = top /\ w.after < last
  <2>1. PageSize # 0
    BY ArchiveAssumption
  <2>2. ~complete => top = below + PageSize
    BY <1>3, <1>4 DEF Least
  <2>3. ~complete => below < top
    BY <1>3, <1>4, <2>1, <2>2
  <2>4. ~complete => last = top
    BY <2>3
  <2> HIDE DEF below, top, last, complete
  <2> QED
    BY <1>3, <1>4, <2>3, <2>4
<1> HIDE DEF below, top, last, page, complete, merging, next
<1>17. \A p \in page \cup merging : p <= seen
  BY <1>3, <1>4, <1>5, <1>7, <1>13, <1>15
<1>18. ~complete => \A p \in merging : p <= top
  BY <1>3, <1>4, <1>6, <1>7, <1>13, <1>15, <1>16
<1>19. kind = "room" => merging = page /\ \A p \in merging : w.after < p
  BY <1>3, <1>4, <1>7, <1>9
<1>20. \/ Continues(w, walk'[s], top, rows) /\ ~complete
       \/ Settles(w, walk'[s])
  BY <1>1, <1>2, <1>14 DEF Continues
<1>21. ASSUME StorePage(merging, next) PROVE StoresPage(s, merging, next)
  BY <1>1, <1>6, <1>11, <1>12, <1>17, <1>21 DEF StoresPage
<1>22. \/ /\ StoresPage(s, merging, next) /\ (kind = "room" \/ Settles(w, walk'[s]))
          /\ Completed(complete, ResumedAt(w))
       \/ kind = "chat" /\ walk'[s].phase = "forward" /\ UNCHANGED <<gaps, queue, resident, mam, edge>>
  BY <1>1, <1>2, <1>4, <1>21 DEF Continues
<1>23. top \in Nat /\ \A p \in page : p <= top /\ w.after < p
  BY <1>3, <1>4, <1>7
<1> HIDE DEF w
<1>24. ForwardStores(s, page, merging, last, complete, top)
  BY <1>1, <1>3, <1>6, <1>8, <1>10, <1>14, <1>16, <1>17, <1>18, <1>19, <1>20, <1>22, <1>23 DEF ForwardStores, w, rows, next, merged
<1> QED
  BY <1>24

-----------------------------------------------------------------------------
\* A page that is walked down from bound.
BackwardStores(s, rows, complete, low, bound, latest) ==
  LET next == AfterBackwardPage(gaps, rows, complete, latest, Existing) IN
  /\ walk[s].phase = IF latest THEN "latest" ELSE "search"
  /\ latest \in BOOLEAN /\ bound \in Nat
  /\ Gathers(rows, complete, low, bound)
  /\ IF latest THEN bound = seen + 1
     ELSE ~active /\ bound <= seen /\ bound # NoId /\ (bound = walk[s].bottom \/ \E g \in gaps : bound = g.endId)
  /\ walk'[s].phase \in {"none", "search"} /\ walk'[s].rows \in {{}, walk[s].rows}
  /\ walk'[s].phase = "search" => /\ ~active /\ ~walk[s].manual /\ ~walk'[s].manual /\ low <= seen
                                  /\ walk'[s].bottom \in {low, NoId}
                                  /\ walk'[s].bottom # NoId => low < bound
  /\ IF latest THEN Completed(TRUE, LatestFrom(walk[s], rows))
     ELSE mam'.caughtUp = mam.caughtUp /\ edge' = edge
  /\ StoresPage(s, rows, next)

\* The rows of a walk down lie below where it started.
LEMMA GathersPast ==
  ASSUME Shape, NEW rows, NEW complete, NEW low, NEW bound \in Nat, Gathers(rows, complete, low, bound)
  PROVE  /\ rows \subseteq Displayable /\ complete \in BOOLEAN /\ low \in Nat
         /\ rows # {} => Oldest(rows) \in rows /\ Oldest(rows) \in Nat /\ Oldest(rows) < bound
         /\ \A p \in rows : p < bound
<1>1. rows \subseteq Displayable /\ complete \in BOOLEAN /\ low \in Pos \cup {NoId} /\ \A p \in rows : p < bound
  BY DEF Gathers
<1>2. rows \subseteq Nat /\ low \in Nat
  BY <1>1, Displayed, NumberFacts
<1>3. rows # {} => Oldest(rows) \in rows
  BY <1>2, OldestOf
<1> QED
  BY <1>1, <1>2, <1>3

\* The list after a page walked down ends where the old one did, or at
\* messages.
LEMMA BackwardEnds ==
  ASSUME Shape, NEW rows, rows \subseteq Displayable, NEW complete \in BOOLEAN, NEW latest \in BOOLEAN
  PROVE  LET next == AfterBackwardPage(gaps, rows, complete, latest, Existing) IN
         /\ next \subseteq Gap /\ Normal(next)
         /\ \A h \in next : \/ \E g \in gaps : h.end = g.end /\ h.endId \in {g.endId, NoId}
                            \/ h.endId \in {h.end, NoId} /\ h.end \in Existing \cup rows \cup {Edge}
<1>1. gaps \subseteq Gap /\ Normal(gaps) /\ Existing \subseteq Displayable
  BY ExistingTypes DEF Shape, TypeOK
<1> DEFINE next == AfterBackwardPage(gaps, rows, complete, latest, Existing)
<1>2. next \subseteq Gap /\ Normal(next)
  BY <1>1, AfterBackward
<1>3. \A h \in next :
              \/ \E g \in gaps : h.end = g.end /\ h.endId \in {g.endId, NoId}
              \/ rows # {} /\ h.end = Oldest(rows) /\ h.endId \in {h.end, NoId}
  BY <1>1, BackwardNext
<1>4. rows # {} => Oldest(rows) \in rows
  BY OldestOf, Displayed
<1> QED
  BY <1>2, <1>3, <1>4

\* The newest page is such a page.
LEMMA LatestPageStores ==
  ASSUME Shape, Timely, NEW s \in Slots, LatestPage(s)
  PROVE  \E rows, complete, low : BackwardStores(s, rows, complete, low, seen + 1, TRUE)
<1>1. /\ UNCHANGED <<kind, purged, live, seen, online, cache, poisoned, active, heard, lost, sessionStart>>
      /\ walk[s].phase = "latest" /\ online
      /\ \A t \in Slots : t # s => walk'[t] = walk[t]
  BY LatestFrame
<1>2. PICK rows, complete, low :
              /\ Gathers(rows, complete, low, live + 1)
              /\ low <= live
              /\ StorePage(rows, AfterBackwardPage(gaps, rows, complete, TRUE, Existing))
              /\ walk'[s].phase \in {"none", "search"} /\ walk'[s].rows = {} /\ ~walk'[s].manual
              /\ walk'[s].bottom \in {low, NoId}
              /\ walk'[s].phase = "search" => ~walk[s].manual /\ ~active
              /\ Completed(TRUE, LatestFrom(walk[s], rows))
  BY LatestFrame
<1>3. seen = live /\ seen \in Nat /\ live + 1 \in Nat
  BY <1>1, SeenOK DEF Timely
<1>4. rows \subseteq Displayable /\ complete \in BOOLEAN /\ low \in Nat /\ \A p \in rows : p < live + 1
  BY <1>2, <1>3, GathersPast
<1>5. \A p \in rows : p <= seen
  BY <1>3, <1>4, Displayed
<1> DEFINE next == AfterBackwardPage(gaps, rows, complete, TRUE, Existing)
<1>6. /\ next \subseteq Gap /\ Normal(next)
      /\ \A h \in next : \/ \E g \in gaps : h.end = g.end /\ h.endId \in {g.endId, NoId}
                         \/ h.endId \in {h.end, NoId} /\ h.end \in Existing \cup rows \cup {Edge}
  BY <1>4, BackwardEnds
<1>7. StorePage(rows, next)
  BY <1>2
<1> HIDE DEF next
<1>8. StoresPage(s, rows, next)
  BY <1>1, <1>4, <1>5, <1>6, <1>7 DEF StoresPage
<1>9. low < seen + 1
  BY <1>2, <1>3, <1>4
<1>10. BackwardStores(s, rows, complete, low, seen + 1, TRUE)
  BY <1>1, <1>2, <1>3, <1>8, <1>9 DEF BackwardStores, next
<1> QED
  BY <1>10

\* A page of the marker search is such a page.
LEMMA SearchPageStores ==
  ASSUME Shape, Timely, Stocked, Seekers, NEW s \in Slots, SearchPage(s)
  PROVE  \E rows, complete, low, b : BackwardStores(s, rows, complete, low, b, FALSE)
<1>1. /\ UNCHANGED <<kind, purged, live, seen, online, cache, poisoned, active, heard, lost, sessionStart>>
      /\ walk[s].phase = "search" /\ online /\ ~active
      /\ mam'.caughtUp = mam.caughtUp /\ edge' = edge
      /\ \A t \in Slots : t # s => walk'[t] = walk[t]
  BY SearchFrame
<1>2. PICK b \in Pos : \E rows, complete, low :
              /\ b = walk[s].bottom \/ \E g \in gaps : b = g.endId
              /\ Gathers(rows, complete, low, b)
              /\ StorePage(rows, AfterBackwardPage(gaps, rows, complete, FALSE, Existing))
              /\ \/ walk'[s].phase = "none" /\ walk'[s].rows = {} /\ walk'[s].bottom = NoId
                 \/ /\ walk'[s].phase = "search" /\ walk'[s].manual = walk[s].manual
                    /\ walk'[s].rows = walk[s].rows
                    /\ walk'[s].bottom = low /\ low \in Pos /\ low < b
  BY SearchFrame
<1>3. PICK rows, complete, low :
              /\ b = walk[s].bottom \/ \E g \in gaps : b = g.endId
              /\ Gathers(rows, complete, low, b)
              /\ StorePage(rows, AfterBackwardPage(gaps, rows, complete, FALSE, Existing))
              /\ \/ walk'[s].phase = "none" /\ walk'[s].rows = {} /\ walk'[s].bottom = NoId
                 \/ /\ walk'[s].phase = "search" /\ walk'[s].manual = walk[s].manual
                    /\ walk'[s].rows = walk[s].rows
                    /\ walk'[s].bottom = low /\ low \in Pos /\ low < b
  BY <1>2
<1>4. b \in Nat /\ b # NoId /\ b <= MaxPos /\ seen \in Nat /\ b \in Pos
  BY Displayed, SeenOK, NumberFacts DEF Pos
<1>5. b <= seen /\ walk[s].manual = FALSE
  <2>1. walk[s].manual = FALSE /\ walk[s].bottom <= seen
    BY <1>1 DEF Seekers, Shape, WalkOK, Walk
  <2>2. ASSUME NEW g \in gaps, b = g.endId PROVE b <= seen
    <3>1. g.end = b /\ g.end \in Kept \cup {Edge}
      BY <1>4, <2>2 DEF Stocked, Bounded
    <3>2. g.end # Edge
      BY <1>4, <3>1, NumberFacts
    <3> QED
      BY <3>1, <3>2 DEF Timely, Kept
  <2> QED
    BY <1>3, <2>1, <2>2
<1>6. rows \subseteq Displayable /\ complete \in BOOLEAN /\ low \in Nat /\ \A p \in rows : p < b
  BY <1>3, <1>4, GathersPast
<1>7. \A p \in rows : p <= seen
  BY <1>4, <1>5, <1>6, Displayed
<1> DEFINE next == AfterBackwardPage(gaps, rows, complete, FALSE, Existing)
<1>8. /\ next \subseteq Gap /\ Normal(next)
      /\ \A h \in next : \/ \E g \in gaps : h.end = g.end /\ h.endId \in {g.endId, NoId}
                         \/ h.endId \in {h.end, NoId} /\ h.end \in Existing \cup rows \cup {Edge}
  BY <1>6, BackwardEnds
<1>9. StorePage(rows, next)
  BY <1>3
<1> HIDE DEF next
<1>10. StoresPage(s, rows, next)
  BY <1>1, <1>6, <1>7, <1>8, <1>9 DEF StoresPage
<1>11. walk'[s].phase = "search" => low <= seen
  BY <1>3, <1>4, <1>5, <1>6
<1>12. BackwardStores(s, rows, complete, low, b, FALSE)
  BY <1>1, <1>3, <1>4, <1>5, <1>10, <1>11 DEF BackwardStores, next
<1> QED
  BY <1>12

\* The steps, by what they may do to what is stored.
Plain ==
  \/ ServerArchives \/ ServerPurges \/ GoOnline \/ Activate \/ Deactivate
  \/ ListConversation \/ SkipListed \/ Drop
  \/ \E s \in Slots : SearchEnds(s) \/ FailWalk(s)
  \/ UNCHANGED vars
\* The steps that start a walk.
Starts == StartFront \/ LoadMissing \/ StartBack

\* Every step is one of these, a write, a reload, the stream or a page.
LEMMA StepKinds ==
  ASSUME [Next]_vars
  PROVE  \/ Plain \/ Starts \/ WriteCommits \/ WriteFails \/ Crash \/ Arrive \/ Resume
         \/ \E s \in Slots : AnchorPurged(s) \/ ForwardPage(s) \/ LatestPage(s) \/ SearchPage(s)
<1>1. CASE Fault
  BY <1>1 DEF Fault, Plain, QueryLost
<1>2. CASE Step
  BY <1>2 DEF Step, Plain, Starts, Page, QueryFails
<1>3. CASE UNCHANGED vars
  BY <1>3 DEF Plain
<1> QED
  BY <1>1, <1>2, <1>3 DEF Next

-----------------------------------------------------------------------------
\* It stays so for the walks that go on, or that have collected nothing.
LEMMA AheadKept ==
  ASSUME Ahead, \A t \in Slots : walk'[t] = walk[t] \/ walk'[t].rows = {} \/ walk'[t].phase # "forward"
  PROVE  Ahead'
  BY DEF Ahead

\* The first part of the invariant.
Basics == Shape /\ Content /\ Timely /\ Stocked /\ Seekers /\ Ahead

\* It holds at first.
LEMMA InitBasics == Init => Basics
<1> SUFFICES ASSUME Init PROVE Basics
  OBVIOUS
<1>1. Ahead
  BY NoWalkOK DEF Init, Ahead
<1> QED
  BY <1>1, InitShape, InitContent, InitTimely, InitStocked DEF Basics

\* A page of a forward walk keeps it.
LEMMA ForwardBasics ==
  ASSUME Basics, NEW s \in Slots, NEW page, NEW merging, NEW last, NEW complete, NEW top,
         ForwardStores(s, page, merging, last, complete, top)
  PROVE  Timely' /\ Stocked' /\ Seekers' /\ Ahead'
<1> DEFINE w    == walk[s]
           next == AfterForwardPage(gaps, merging, w.origin, last, complete, Existing \cup merging)
<1>1. /\ w.phase = "forward" /\ online
      /\ page \subseteq Displayable
      /\ top \in Nat
      /\ \A p \in page \cup merging : p <= seen
      /\ \A p \in page : p <= top
      /\ ~complete => w.after <= top
      /\ \A t \in Slots : t # s => walk'[t] = walk[t]
      /\ \/ Continues(w, walk'[s], top, w.rows \cup page) /\ ~complete
         \/ Settles(w, walk'[s])
      /\ UNCHANGED <<kind, purged, live, seen, online, cache, poisoned, active, heard, lost, sessionStart>>
      /\ StoresPage(s, merging, next) \/ UNCHANGED <<gaps, queue, resident>>
  BY DEF ForwardStores
<1>2. /\ w.rows \subseteq Displayable /\ w.after \in Nat /\ \A p \in Displayable : p \in Nat
      /\ \A p \in w.rows : p <= w.after /\ p <= seen
  BY <1>1, ForwardFacts, Displayed DEF Basics, Ahead, Timely
<1>3. walk'[s].phase = "forward" => \A p \in walk'[s].rows : p <= walk'[s].after
  <2> SUFFICES ASSUME walk'[s].phase = "forward", NEW p \in walk'[s].rows PROVE p <= walk'[s].after
    OBVIOUS
  <2>1. walk'[s].after = top /\ walk'[s].rows = w.rows \cup page /\ ~complete
    BY <1>1 DEF Continues, Settles
  <2> QED
    BY <1>1, <1>2, <2>1
<1>4. \A p \in walk'[s].rows : p <= seen
  BY <1>1, <1>2 DEF Continues, Settles
<1>5. Ahead'
  BY <1>1, <1>3 DEF Basics, Ahead
<1>6. walk'[s].phase = "search" => ~walk'[s].manual /\ walk'[s].bottom <= seen
  <2>1. NoId <= seen
    BY SeenOK, NumberFacts DEF Basics
  <2> QED
    BY <1>1, <2>1 DEF Continues, Settles
<1>7. Seekers'
  BY <1>1, <1>6 DEF Basics, Seekers
<1> HIDE DEF next
<1>8. CASE StoresPage(s, merging, next)
  BY <1>4, <1>5, <1>7, <1>8, PageTimely, PageStocked DEF Basics
<1>9. CASE UNCHANGED <<gaps, queue, resident>>
  <2>1. Timely'
    BY <1>1, <1>4, <1>9 DEF Basics, Timely
  <2>2. Stocked'
    BY <1>1, <1>9 DEF Basics, Stocked, Kept
  <2> QED
    BY <1>5, <1>7, <2>1, <2>2
<1> QED
  BY <1>1, <1>8, <1>9

\* A page walked down keeps it.
LEMMA BackwardBasics ==
  ASSUME Basics, NEW s \in Slots, NEW rows, NEW complete, NEW low, NEW bound, NEW latest,
         BackwardStores(s, rows, complete, low, bound, latest)
  PROVE  Timely' /\ Stocked' /\ Seekers' /\ Ahead'
<1> DEFINE next == AfterBackwardPage(gaps, rows, complete, latest, Existing)
<1>1. /\ walk'[s].phase \in {"none", "search"} /\ walk'[s].rows \in {{}, walk[s].rows}
      /\ walk'[s].phase = "search" => /\ ~walk'[s].manual /\ low <= seen
                                      /\ walk'[s].bottom \in {low, NoId}
      /\ StoresPage(s, rows, next)
  BY DEF BackwardStores
<1> HIDE DEF next
<1>2. (\A t \in Slots : t # s => walk'[t] = walk[t]) /\ seen' = seen
  BY <1>1 DEF StoresPage
<1>3. \A p \in walk'[s].rows : p <= seen
  BY <1>1 DEF Basics, Timely
<1>4. Timely' /\ Stocked'
  BY <1>1, <1>3, PageTimely, PageStocked DEF Basics
<1>5. Ahead'
  BY <1>1, <1>2 DEF Basics, Ahead
<1>6. NoId <= seen
  BY SeenOK, NumberFacts DEF Basics
<1>7. Seekers'
  BY <1>1, <1>2, <1>6 DEF Basics, Seekers
<1> QED
  BY <1>4, <1>5, <1>7

\* A page of a forward walk, under the invariant.
LEMMA ForwardPageOf ==
  ASSUME Basics, NEW s \in Slots, ForwardPage(s)
  PROVE  \E page, merging, last, complete, top : ForwardStores(s, page, merging, last, complete, top)
  BY ForwardPageStores DEF Basics

\* A page walked down, under the invariant.
LEMMA BackwardPageOf ==
  ASSUME Basics, NEW s \in Slots, LatestPage(s) \/ SearchPage(s)
  PROVE  \E rows, complete, low, b, latest : BackwardStores(s, rows, complete, low, b, latest)
<1>1. CASE LatestPage(s)
  BY <1>1, LatestPageStores DEF Basics
<1>2. CASE SearchPage(s)
  BY <1>2, SearchPageStores DEF Basics
<1> QED
  BY <1>1, <1>2

\* Every step keeps the first part.
LEMMA StepBasics ==
  ASSUME Basics, [Next]_vars
  PROVE  Basics'
<1>1. Shape' /\ Content'
  BY StepShape, StepContent DEF Basics
<1>2. Shape /\ Content /\ Timely /\ Stocked /\ Seekers /\ Ahead
  BY DEF Basics
<1> SUFFICES Timely' /\ Stocked' /\ Seekers' /\ Ahead'
  BY <1>1 DEF Basics
<1>3. NoWalk.phase = "none"
  BY NoWalkOK
<1>4. CASE Plain
  <2>1. Timely' /\ Stocked' /\ Seekers'
    BY <1>2, <1>4, PlainTimely, PlainStocked, PlainSeekers DEF Plain
  <2>2. \A t \in Slots : walk'[t] = walk[t] \/ walk'[t] = NoWalk
    BY <1>2, <1>4, PlainFrame DEF Plain
  <2> QED
    BY <1>2, <1>3, <2>1, <2>2, AheadKept
<1>5. CASE Starts
  <2>1. Timely' /\ Stocked' /\ Seekers'
    BY <1>2, <1>5, StartBasics DEF Starts
  <2>2. \A t \in Slots : walk'[t] = walk[t] \/ walk'[t].rows = {}
    BY <1>2, <1>5, NewWalk DEF Starts
  <2> QED
    BY <1>2, <2>1, <2>2, AheadKept
<1>6. CASE WriteCommits
  <2>1. UNCHANGED <<walk, seen>>
    BY <1>2, <1>6, CommitFrame
  <2>2. Seekers' /\ Ahead'
    BY <1>2, <2>1 DEF Seekers, Ahead
  <2> QED
    BY <1>2, <1>6, <2>2, WriteTimely, CommitStocked
<1>7. CASE WriteFails
  <2>1. UNCHANGED <<walk, seen>>
    BY <1>2, <1>7, FailFrame
  <2>2. Seekers' /\ Ahead'
    BY <1>2, <2>1 DEF Seekers, Ahead
  <2> QED
    BY <1>2, <1>7, <2>2, WriteTimely, FailStocked
<1>8. CASE Crash
  <2>1. \A t \in Slots : walk'[t] = NoWalk
    BY <1>2, <1>8, CrashFrame
  <2>2. Ahead'
    BY <1>3, <2>1 DEF Ahead
  <2> QED
    BY <1>2, <1>8, <2>2, CrashTimely, CrashStocked
<1>9. CASE Arrive \/ Resume
  <2>1. UNCHANGED walk
    BY <1>2, <1>9, StreamFrame
  <2>2. Ahead'
    BY <1>2, <2>1 DEF Ahead
  <2> QED
    BY <1>2, <1>9, <2>2, StreamTimely, StreamStocked
<1>10. ASSUME NEW s \in Slots, AnchorPurged(s) PROVE Timely' /\ Stocked' /\ Seekers' /\ Ahead'
  <2>1. Timely' /\ Stocked' /\ Seekers'
    BY <1>2, <1>10, AnchorBasics
  <2>2. /\ \A t \in Slots : t # s => walk'[t] = walk[t]
        /\ walk'[s].rows = {}
    BY <1>2, <1>10, AnchorFrame
  <2> QED
    BY <1>2, <2>1, <2>2, AheadKept
<1>11. ASSUME NEW s \in Slots, ForwardPage(s) PROVE Timely' /\ Stocked' /\ Seekers' /\ Ahead'
  BY <1>11, ForwardPageOf, ForwardBasics
<1>12. ASSUME NEW s \in Slots, LatestPage(s) \/ SearchPage(s) PROVE Timely' /\ Stocked' /\ Seekers' /\ Ahead'
  BY <1>12, BackwardPageOf, BackwardBasics
<1> QED
  BY <1>4, <1>5, <1>6, <1>7, <1>8, <1>9, <1>10, <1>11, <1>12, StepKinds

-----------------------------------------------------------------------------
(* Bridges and Reaches.                                                     *)

\* Held, on its way, or not yet delivered.
Fine(p) == p \in Settled \/ p > seen
\* Nothing is missing from x on.
Solid(x) == \A p \in Displayable : x <= p => Fine(p)

\* The gaps of the list and of every list on its way, the lists themselves, and
\* the positions a page may be walked down from.
AllGaps == {g \in Gap : g \in gaps \/ \E i \in 1..Len(queue) : g \in queue[i].next}
Lists == {gaps} \cup {queue[i].next : i \in {j \in 1..Len(queue) : queue[j].commit}}
Marks == ({g.end : g \in AllGaps}
          \cup {walk[s].bottom : s \in {t \in Slots : walk[t].phase = "search"}}) \ {NoId}

\* An automatic walk is under way.
Active == \E s \in Slots : walk[s].phase # "none" /\ ~walk[s].manual

\* While an automatic walk runs, a gap that spans the end of another, or the
\* bottom of the search, spans nothing that is missing above it.
Bridges ==
  Intact /\ Active =>
    \A h \in AllGaps, e \in Marks, p \in Displayable : h.start < e /\ e <= p /\ p < h.end => Fine(p)

\* What a forward walk has passed: a chat merges from its origin on, a room
\* from its cursor on.
Low(w) == IF kind = "chat" THEN w.origin ELSE w.after
\* In every list no gap spans o, and what is missing above o is in a gap.
Traced(o) ==
  \A L \in Lists : /\ \A g \in L : ~(g.start < o /\ o < g.end)
                   /\ \A p \in Displayable : o < p => Fine(p) \/ p \in Covered(L)
\* Nothing is missing above what is held past the walk, or above a gap that
\* ends past its origin.
Founded(w) ==
  /\ \A x \in Have : Low(w) < x => Solid(x)
  /\ \A g \in AllGaps : g.end <= w.origin \/ Solid(g.end)
\* An automatic forward walk has, in every list, a gap over all that is missing
\* above its origin; or it passes nothing held below what is missing.
Reaches ==
  Intact => \A s \in Slots : walk[s].phase = "forward" /\ ~walk[s].manual =>
              Traced(walk[s].origin) \/ Founded(walk[s])

\* What a list covers, by its records.
LEMMA CoveredBy ==
  ASSUME NEW L, NEW p \in Pos
  PROVE  p \in Covered(L) <=> \E g \in L : g.start < p /\ p < g.end
  BY DEF Covered, Inside

\* Alike lists cover the same.
LEMMA CoveredAlike ==
  ASSUME NEW L, NEW M, Alike(L, M)
  PROVE  Covered(L) = Covered(M)
  BY DEF Covered, Inside, Alike

-----------------------------------------------------------------------------
\* A step that stores no page: lists, gaps and rows are those there were, what is
\* fine stays fine, and walks go on where they were or end.
Calm(w, v) ==
  \/ v = w
  \/ /\ v.phase # "forward"
     /\ v.phase = "search" => v.bottom = NoId
     /\ v.phase # "none" /\ ~v.manual => w.phase # "none" /\ ~w.manual
  \/ /\ kind = "chat" /\ v.phase = "forward" /\ w.phase = "forward"
     /\ v.origin = w.origin /\ (v.manual <=> w.manual)

\* A step that is calm for every walk, with no list, gap or row that is new.
Steady ==
  /\ kind' = kind
  /\ Intact' => Intact
  /\ \A h \in AllGaps' : \E g \in AllGaps : h.start = g.start /\ h.end = g.end
  /\ \A L \in Lists' : \E M \in Lists : Alike(L, M)
  /\ \A p \in Displayable : Fine(p) => Fine(p)'
  /\ \A x \in Have' : x \in Have \/ Solid(x)
  /\ \A t \in Slots : Calm(walk[t], walk'[t])

\* What is solid stays so, when what is fine does.
LEMMA SolidStays ==
  ASSUME \A p \in Displayable : Fine(p) => Fine(p)', NEW x, Solid(x)
  PROVE  \A p \in Displayable : x <= p => Fine(p)'
  BY DEF Solid

\* Such a step keeps Bridges.
LEMMA SteadyBridges ==
  ASSUME Steady, Bridges
  PROVE  Bridges'
<1> SUFFICES ASSUME Intact', Active', NEW h \in AllGaps', NEW e \in Marks', NEW p \in Displayable,
                    h.start < e, e <= p, p < h.end
             PROVE  Fine(p)'
  BY DEF Bridges
<1>1. Intact /\ \A t \in Slots : Calm(walk[t], walk'[t])
  BY DEF Steady
<1>2. Active
  BY <1>1 DEF Active, Calm
<1>3. PICK g \in AllGaps : h.start = g.start /\ h.end = g.end
  BY DEF Steady
<1>4. e \in Marks
  <2>1. e # NoId
    BY DEF Marks
  <2>2. CASE \E k \in AllGaps' : e = k.end
    <3>1. PICK k \in AllGaps : e = k.end
      BY <2>2 DEF Steady
    <3> QED
      BY <2>1, <3>1 DEF Marks
  <2>3. CASE \E t \in Slots : walk'[t].phase = "search" /\ e = walk'[t].bottom
    <3>1. PICK t \in Slots : walk'[t].phase = "search" /\ e = walk'[t].bottom
      BY <2>3
    <3>2. walk'[t] = walk[t]
      BY <1>1, <2>1, <3>1 DEF Calm
    <3> QED
      BY <2>1, <3>1, <3>2 DEF Marks
  <2> QED
    BY <2>2, <2>3 DEF Marks
<1>5. Fine(p)
  BY <1>1, <1>2, <1>3, <1>4 DEF Bridges
<1> QED
  BY <1>5 DEF Steady

\* Such a step keeps Reaches.
LEMMA SteadyReaches ==
  ASSUME Steady, Reaches
  PROVE  Reaches'
<1> SUFFICES ASSUME Intact', NEW s \in Slots, walk'[s].phase = "forward", ~walk'[s].manual
             PROVE  Traced(walk[s].origin)' \/ Founded(walk[s])'
  BY DEF Reaches
<1> DEFINE w == walk[s]
           v == walk'[s]
<1>1. /\ w.phase = "forward" /\ ~w.manual /\ v.origin = w.origin
      /\ v = w \/ kind = "chat"
      /\ Intact /\ kind' = kind
  BY DEF Steady, Calm
<1>2. \A p \in Displayable : Fine(p) => Fine(p)'
  BY DEF Steady
<1>3. CASE Traced(w.origin)
  <2>1. ASSUME NEW L \in Lists'
        PROVE  /\ \A g \in L : ~(g.start < v.origin /\ v.origin < g.end)
               /\ \A p \in Displayable : v.origin < p => Fine(p)' \/ p \in Covered(L)
    <3>1. PICK M \in Lists : Alike(L, M)
      BY DEF Steady
    <3>2. Covered(L) = Covered(M)
      BY <3>1, CoveredAlike
    <3>3. /\ \A g \in M : ~(g.start < w.origin /\ w.origin < g.end)
          /\ \A p \in Displayable : w.origin < p => Fine(p) \/ p \in Covered(M)
      BY <1>3 DEF Traced
    <3>4. \A g \in L : \E k \in M : g.start = k.start /\ g.end = k.end
      BY <3>1 DEF Alike
    <3> QED
      BY <1>1, <1>2, <3>2, <3>3, <3>4
  <2> QED
    BY <2>1 DEF Traced
<1>4. CASE Founded(w)
  <2>0. IF kind' = "chat" THEN v.origin = w.origin ELSE v.after = w.after
    BY <1>1
  <2>1. \A x \in Have' : Low(w)' < x => \A p \in Displayable : x <= p => Fine(p)'
    <3> SUFFICES ASSUME NEW x \in Have', Low(w)' < x PROVE \A p \in Displayable : x <= p => Fine(p)'
      OBVIOUS
    <3>1. Low(w) < x
      BY <1>1, <2>0 DEF Low
    <3>2. x \in Have \/ Solid(x)
      BY DEF Steady
    <3>3. Solid(x)
      BY <1>4, <3>1, <3>2 DEF Founded
    <3> QED
      BY <1>2, <3>3, SolidStays
  <2>2. ASSUME NEW h \in AllGaps'
        PROVE  h.end <= v.origin \/ \A p \in Displayable : h.end <= p => Fine(p)'
    <3>1. PICK g \in AllGaps : h.end = g.end
      BY DEF Steady
    <3>2. g.end <= w.origin \/ Solid(g.end)
      BY <1>4 DEF Founded
    <3> QED
      BY <1>1, <1>2, <3>1, <3>2, SolidStays
  <2>3. \A x \in Have' : Low(w)' < x => Solid(x)'
    BY <2>1 DEF Solid
  <2>4. \A g \in AllGaps' : g.end <= v.origin \/ Solid(g.end)'
    BY <2>2 DEF Solid
  <2> QED
    BY <2>3, <2>4 DEF Founded
<1> QED
  BY <1>1, <1>3, <1>4 DEF Reaches

\* With no walk there is nothing to show.
LEMMA NoneBridges ==
  ASSUME \A t \in Slots : walk'[t].phase = "none"
  PROVE  Bridges' /\ Reaches'
  BY DEF Bridges, Reaches, Active

\* What is fine stays fine as more is stored.
LEMMA FineGrows ==
  ASSUME Settled \subseteq Settled', seen' = seen
  PROVE  \A p \in Displayable : Fine(p) => Fine(p)'
  BY DEF Fine

\* What is settled stays so, when what leaves the queue is held.
LEMMA SettledGrows ==
  ASSUME Held \subseteq Held', Pending(queue) \subseteq Pending(queue') \cup Held'
  PROVE  Settled \subseteq Settled'
  BY DEF Settled

\* The steps that store nothing are such steps, or end all walks.
LEMMA PlainBridges ==
  ASSUME Basics, Bridges, Reaches, Plain
  PROVE  Bridges' /\ Reaches'
<1>1. /\ UNCHANGED <<kind, cache, gaps, queue, poisoned, heard, lost>>
      /\ \A s \in Slots : walk'[s] = walk[s] \/ walk'[s] = NoWalk
      /\ purged' \in Nat /\ purged \in Nat /\ purged <= purged'
      /\ seen' = seen \/ ~online
  BY PlainFrame DEF Basics, Plain
<1>2. NoWalk.phase = "none"
  BY NoWalkOK
<1>3. CASE ~online
  <2>1. \A s \in Slots : walk[s].phase = "none"
    BY <1>3 DEF Basics, Timely
  <2>2. \A s \in Slots : walk'[s].phase = "none"
    BY <1>1, <1>2, <2>1
  <2> QED
    BY <2>2, NoneBridges
<1>4. CASE seen' = seen
  <2>1. Held \subseteq Held'
    BY <1>1, HeldGrows
  <2>2. Settled \subseteq Settled'
    BY <1>1, <2>1, SettledGrows
  <2>3. \A p \in Displayable : Fine(p) => Fine(p)'
    BY <1>4, <2>2, FineGrows
  <2>4. AllGaps' = AllGaps /\ Lists' = Lists /\ Have' = Have
    BY <1>1 DEF AllGaps, Lists, Have
  <2>5. \A t \in Slots : Calm(walk[t], walk'[t])
    BY <1>1, <1>2 DEF Calm
  <2>6. Intact' => Intact
    BY <1>1 DEF Intact
  <2>7. Steady
    BY <1>1, <2>3, <2>4, <2>5, <2>6, AlikeSelf DEF Steady
  <2> QED
    BY <2>7, SteadyBridges, SteadyReaches
<1> QED
  BY <1>1, <1>3, <1>4

\* A write that commits is such a step: its list was one of those on their way.
LEMMA CommitBridges ==
  ASSUME Basics, Bridges, Reaches, WriteCommits
  PROVE  Bridges' /\ Reaches'
<1> DEFINE job == Head(queue)
<1>1. /\ UNCHANGED <<kind, purged, seen, poisoned, heard, lost, walk>>
      /\ queue \in Seq(Job) /\ queue # <<>>
      /\ cache' = cache \cup job.rows
      /\ queue' = Tail(queue) \/ queue' = Stale(Tail(queue))
      /\ gaps' = IF Applies(job) THEN job.next ELSE gaps
  BY CommitFrame DEF Basics
<1>0. queue \in Seq(Job) /\ queue # <<>> /\ (queue' = Tail(queue) \/ queue' = Stale(Tail(queue)))
  BY <1>1
<1>2. /\ Len(queue) \in Nat /\ Len(queue') \in Nat /\ 1 \in 1..Len(queue) /\ job = queue[1]
      /\ \A i \in 1..Len(queue') : i + 1 \in 1..Len(queue) /\ SameJob(queue'[i], queue[i + 1])
  BY <1>0, QueueTail
<1>3. Shorter(queue, queue')
  BY <1>0, RowsTail
<1>4. Pending(queue) = Added(job) \cup Pending(queue')
  BY <1>3 DEF Shorter, Pending
<1> HIDE DEF job
<1>5. purged \in Nat
  BY NumberFacts DEF Basics, Shape, TypeOK
<1>6. Held \subseteq Held'
  BY <1>1, <1>5, HeldGrows
<1>7. Added(job) \subseteq Held'
  <2>1. job.rows \subseteq Displayable
    BY <1>2, RowsOf DEF Basics
  <2> QED
    BY <1>1, <2>1 DEF Added, Held, Known
<1>8. \A p \in Displayable : Fine(p) => Fine(p)'
  BY <1>1, <1>4, <1>6, <1>7, SettledGrows, FineGrows
<1>9. gaps' = gaps \/ (gaps' = queue[1].next /\ queue[1].commit)
  BY <1>1, <1>2 DEF Applies
<1>10. \A i \in 1..Len(queue') : /\ i + 1 \in 1..Len(queue)
                                 /\ queue'[i].next = queue[i + 1].next /\ queue'[i].rows = queue[i + 1].rows
                                 /\ queue'[i].commit => queue[i + 1].commit
  BY <1>2 DEF SameJob
<1>11. AllGaps' \subseteq AllGaps
  BY <1>2, <1>9, <1>10 DEF AllGaps
<1>12. Lists' \subseteq Lists
  <2> SUFFICES ASSUME NEW L \in Lists' PROVE L \in Lists
    OBVIOUS
  <2>1. CASE L = gaps'
    BY <1>2, <1>9, <2>1 DEF Lists
  <2>2. CASE \E i \in 1..Len(queue') : queue'[i].commit /\ L = queue'[i].next
    <3>1. \E j \in 1..Len(queue) : queue[j].commit /\ L = queue[j].next
      BY <1>10, <2>2
    <3> QED
      BY <3>1 DEF Lists
  <2> QED
    BY <2>1, <2>2 DEF Lists
<1>13. Have' \subseteq Have
  BY <1>1, <1>2, <1>10 DEF Have
<1>14. (\A t \in Slots : Calm(walk[t], walk'[t])) /\ (Intact' => Intact)
  BY <1>1 DEF Calm, Intact
<1>15. Steady
  BY <1>1, <1>8, <1>11, <1>12, <1>13, <1>14, AlikeSelf DEF Steady
<1> QED
  BY <1>15, SteadyBridges, SteadyReaches

\* The stream is such a step: what it delivers is on its way.
LEMMA StreamBridges ==
  ASSUME Basics, Bridges, Reaches, Arrive \/ Resume
  PROVE  Bridges' /\ Reaches'
<1>1. /\ UNCHANGED <<kind, purged, cache, gaps, poisoned, lost, walk>>
      /\ seen' = live' /\ live' \in Nat /\ seen \in Nat /\ seen <= seen'
      /\ seen = live \/ ~online
  BY StreamFrame DEF Basics, Timely
<1>2. PICK h \in SUBSET Displayable :
              /\ \A p \in h : seen < p /\ p <= seen'
              /\ seen = live \/ ~online => \A p \in Displayable : seen < p /\ p <= seen' => p \in h
              /\ heard' = heard \cup h
              /\ \/ h = {} /\ queue' = queue
                 \/ queue' = Append(queue, LiveJob(h))
  BY StreamFrame DEF Basics
<1>4. /\ LiveJob(h) \in Job /\ LiveJob(h).rows = h /\ queue \in Seq(Job)
      /\ ~LiveJob(h).commit /\ LiveJob(h).next = {} /\ Added(LiveJob(h)) = {}
  BY LiveJobOK DEF LiveJob, Basics, Shape, TypeOK
<1>5. /\ Pending(queue') = Pending(queue)
      /\ \A i \in 1..Len(queue') : \/ i \in 1..Len(queue) /\ queue'[i] = queue[i]
                                   \/ queue'[i] = LiveJob(h)
  <2>1. CASE h = {} /\ queue' = queue
    BY <2>1
  <2>2. CASE queue' = Append(queue, LiveJob(h))
    <3>1. LiveJob(h) \in Job /\ queue \in Seq(Job)
      BY <1>4
    <3>2. Longer(queue, LiveJob(h), queue')
      BY <2>2, <3>1, RowsAppend
    <3>3. Pending(queue') = Pending(queue)
      BY <1>4, <3>2 DEF Longer, Pending
    <3> QED
      BY <2>2, <3>1, <3>3, QueueAppend
  <2> QED
    BY <1>2, <2>1, <2>2
<1>6. purged \in Nat
  BY NumberFacts DEF Basics, Shape, TypeOK
<1>7. Held \subseteq Held' /\ h \subseteq Held'
  BY <1>1, <1>2, <1>6, HeldGrows DEF Held, Known
<1>8. Settled \subseteq Settled' /\ h \subseteq Settled'
  BY <1>5, <1>7 DEF Settled
<1>9. ASSUME NEW p \in Displayable, Fine(p) PROVE Fine(p)'
  <2>1. CASE p \in Settled
    BY <1>8, <2>1 DEF Fine
  <2>2. CASE p > seen
    <3>1. p \in h \/ p > seen'
      BY <1>1, <1>2, <2>2, Displayed
    <3> QED
      BY <1>8, <3>1 DEF Fine
  <2> QED
    BY <1>9, <2>1, <2>2 DEF Fine
<1>10. AllGaps' \subseteq AllGaps
  BY <1>1, <1>4, <1>5 DEF AllGaps
<1>11. Lists' \subseteq Lists
  BY <1>1, <1>4, <1>5 DEF Lists
<1>12. ASSUME NEW x \in Have', x \notin Have PROVE Solid(x)
  <2>1. x \in h
    BY <1>1, <1>4, <1>5, <1>12 DEF Have
  <2>2. seen < x /\ x \in Nat
    BY <1>2, <2>1, Displayed
  <2>3. \A p \in Displayable : x <= p => seen < p
    BY <1>1, <2>2, Displayed
  <2> QED
    BY <2>3 DEF Solid, Fine
<1>13. (\A t \in Slots : Calm(walk[t], walk'[t])) /\ (Intact' => Intact)
  BY <1>1 DEF Calm, Intact
<1>14. Steady
  BY <1>1, <1>9, <1>10, <1>11, <1>12, <1>13, AlikeSelf DEF Steady
<1> QED
  BY <1>14, SteadyBridges, SteadyReaches

\* The fall back from an expired resume id is such a step.
LEMMA AnchorBridges ==
  ASSUME Basics, Bridges, Reaches, NEW s \in Slots, AnchorPurged(s)
  PROVE  Bridges' /\ Reaches'
<1>1. /\ UNCHANGED <<kind, purged, seen, cache, poisoned, heard, lost>>
      /\ walk[s].phase = "forward"
      /\ gaps' = ClearGapAnchor(gaps, walk[s].after)
      /\ queue \in Seq(Job)
      /\ (queue' = queue /\ gaps' = gaps) \/ queue' = Stale(queue)
      /\ \A t \in Slots : t # s => walk'[t] = walk[t]
      /\ walk'[s].phase = "latest" /\ walk'[s].manual = walk[s].manual
  BY AnchorFrame DEF Basics
<1>2. Alike(gaps', gaps)
  BY <1>1, AlikeCleared DEF Basics, Shape, TypeOK
<1>3. /\ Len(queue') = Len(queue) /\ Pending(queue') = Pending(queue)
      /\ \A i \in 1..Len(queue) : /\ queue'[i].rows = queue[i].rows /\ queue'[i].next = queue[i].next
                                  /\ queue'[i].commit = queue[i].commit
  <2>1. CASE queue' = queue
    BY <2>1
  <2>2. CASE queue' = Stale(queue)
    BY <1>1, <2>2, QueueStale, StaleOf DEF SameJob
  <2> QED
    BY <1>1, <2>1, <2>2
<1>4. Held' = Held
  BY <1>1 DEF Held, Known
<1>5. \A p \in Displayable : Fine(p) => Fine(p)'
  BY <1>1, <1>3, <1>4, SettledGrows, FineGrows
<1>6. ASSUME NEW h \in AllGaps' PROVE \E g \in AllGaps : h.start = g.start /\ h.end = g.end
  <2>1. CASE h \in gaps'
    <3>1. PICK g \in gaps : h.start = g.start /\ h.end = g.end
      BY <1>2, <2>1 DEF Alike
    <3>2. g \in AllGaps
      BY DEF Basics, Shape, TypeOK, AllGaps
    <3> QED
      BY <3>1, <3>2
  <2>2. CASE \E i \in 1..Len(queue) : h \in queue[i].next
    BY <2>2, <1>6 DEF AllGaps
  <2> QED
    BY <1>3, <1>6, <2>1, <2>2 DEF AllGaps
<1>7. ASSUME NEW L \in Lists' PROVE \E M \in Lists : Alike(L, M)
  <2>1. L = gaps' \/ L \in Lists
    BY <1>3, <1>7 DEF Lists
  <2>2. gaps \in Lists
    BY DEF Lists
  <2> QED
    BY <1>2, <2>1, <2>2, AlikeSelf
<1>8. Have' = Have
  BY <1>1, <1>3 DEF Have
<1>9. \A t \in Slots : Calm(walk[t], walk'[t])
  BY <1>1 DEF Calm
<1>10. Steady
  BY <1>1, <1>5, <1>6, <1>7, <1>8, <1>9 DEF Steady, Intact
<1> QED
  BY <1>10, SteadyBridges, SteadyReaches

\* When walks do not overlap, the slot beside a walk is idle.
LEMMA OtherSlot ==
  ASSUME NEW f, \E t \in Slots : f[t] = NoWalk, NEW s \in Slots, f[s].phase # "none"
  PROVE  \A t \in Slots : t # s => f[t] = NoWalk /\ f[t].phase = "none"
  BY NoWalkOK DEF Slots

\* With nothing in flight there is one list, and what is stored is what is held.
LEMMA DrainedGaps ==
  ASSUME Shape, Len(queue) = 0
  PROVE  AllGaps = gaps /\ Lists = {gaps} /\ Have = cache /\ Pending(queue) = {} /\ Delivered(queue) = {}
<1>1. gaps \subseteq Gap /\ cache \subseteq Displayable
  BY DEF Shape, TypeOK
<1>2. \A i \in 1..Len(queue) : FALSE
  OBVIOUS
<1> QED
  BY <1>1, <1>2 DEF AllGaps, Lists, Have, Pending, UpTo, Delivered

\* In an ordered list no gap spans the start or the end of another.
LEMMA NormalEnds ==
  ASSUME NEW gs, gs \subseteq Gap, Normal(gs), NEW g \in gs, NEW h \in gs
  PROVE  ~(h.start < g.end /\ g.end < h.end) /\ ~(h.start < g.start /\ g.start < h.end)
<1>1. /\ g.start \in Nat /\ g.end \in Nat /\ h.start \in Nat /\ h.end \in Nat
  BY GapNumbers
<1>2. g.start < g.end /\ h.start < h.end /\ (g = h \/ g.end <= h.start \/ h.end <= g.start)
  BY DEF Normal
<1> QED
  BY <1>1, <1>2

\* A walk starts with one ordered list, in which no gap spans an end.
LEMMA NewWalkBridges ==
  ASSUME Basics, Len(queue) = 0, UNCHANGED <<gaps, queue>>,
         \A t \in Slots : walk'[t].phase # "search"
  PROVE  Bridges'
<1>1. AllGaps' = gaps
  BY DrainedGaps DEF Basics, AllGaps
<1>2. gaps \subseteq Gap /\ Normal(gaps)
  BY DEF Basics, Shape, TypeOK
<1>3. ASSUME NEW h \in AllGaps', NEW e \in Marks', NEW p \in Displayable, h.start < e, e <= p, p < h.end
      PROVE  FALSE
  <2>1. PICK g \in gaps : e = g.end
    BY <1>1, <1>3 DEF Marks
  <2>2. h \in gaps /\ h.start < g.end /\ g.end <= p /\ p < h.end
    BY <1>1, <1>3, <2>1
  <2>3. g.end \in Nat /\ h.end \in Nat /\ p \in Nat
    BY <1>2, <2>2, GapNumbers, Displayed
  <2>4. g.end < h.end
    BY <2>2, <2>3
  <2> QED
    BY <1>2, <2>2, <2>4, NormalEnds
<1> QED
  BY <1>3 DEF Bridges

\* Resuming the open gap: it covers all that is above its start.
LEMMA OpenTraced ==
  ASSUME Shape, Len(queue) = 0, NEW g \in gaps, g.end = Edge
  PROVE  Traced(g.start)
<1>1. gaps \subseteq Gap /\ Normal(gaps) /\ Lists = {gaps}
  BY DrainedGaps DEF Shape, TypeOK
<1>2. \A h \in gaps : ~(h.start < g.start /\ g.start < h.end)
  BY <1>1, NormalEnds
<1>3. ASSUME NEW p \in Displayable, g.start < p PROVE p \in Covered(gaps)
  <2>1. p \in Pos /\ p < g.end
    BY Displayed, NumberFacts DEF Pos
  <2> QED
    BY <1>3, <2>1, CoveredBy
<1> QED
  BY <1>1, <1>2, <1>3 DEF Traced

\* Resuming after the newest message held before the session: whatever is held
\* above it has been heard since, with all that follows.
LEMMA NewestFounded ==
  ASSUME Basics, Intact, Len(queue) = 0, NEW held, held \subseteq Displayable,
         cache \subseteq held \/ cache = {},
         NEW w, w.origin = Newest(BeforeSession(held)), w.after = w.origin,
         w.origin \in BeforeSession(held)
  PROVE  Founded(w)
<1>1. AllGaps = gaps /\ Have = cache /\ Delivered(queue) = {}
  BY DrainedGaps DEF Basics
<1>2. /\ seen \in Nat /\ sessionStart \in Nat /\ cache \cup heard \subseteq Displayable
      /\ \A p \in Displayable : p \in Nat
  BY SeenOK DEF Basics
<1>3. \A q \in BeforeSession(held) : q <= Newest(BeforeSession(held))
  <2>1. BeforeSession(held) \subseteq 0..MaxPos /\ MaxPos \in Nat /\ BeforeSession(held) # {}
    BY Displayed DEF BeforeSession
  <2> QED
    BY <2>1, NewestOf
<1>4. w.origin \in Nat
  BY <1>2 DEF BeforeSession
<1>5. Low(w) = w.origin
  BY DEF Low
<1>6. ASSUME NEW x \in cache, w.origin < x PROVE Solid(x)
  <2>1. x \in held /\ x \notin BeforeSession(held) /\ x \in Nat
    BY <1>2, <1>3, <1>4, <1>6
  <2>2. sessionStart # 0 /\ sessionStart <= x
    BY <1>2, <2>1 DEF BeforeSession
  <2>3. ASSUME NEW p \in Displayable, x <= p PROVE Fine(p)
    <3>1. CASE p > seen
      BY <3>1 DEF Fine
    <3>2. CASE p <= seen
      <4>1. p \in heard
        BY <1>2, <2>1, <2>2, <2>3, <3>2 DEF Basics, Timely
      <4> QED
        BY <4>1 DEF Fine, Settled, Held, Known
    <3> QED
      BY <1>2, <3>1, <3>2
  <2> QED
    BY <2>3 DEF Solid
<1>7. ASSUME NEW g \in gaps, ~(g.end <= w.origin) PROVE Solid(g.end)
  <2>1. g.end \in Nat /\ g.end \in cache \cup heard \cup {Edge}
    BY GapNumbers DEF Basics, Shape, TypeOK, Stocked, Bounded, Kept
  <2>2. heard \subseteq cache
    BY <1>1 DEF Intact, Basics, Stocked
  <2>3. CASE g.end = Edge
    <3>1. \A p \in Displayable : ~(Edge <= p)
      BY Displayed, NumberFacts DEF Pos
    <3> QED
      BY <2>3, <3>1 DEF Solid
  <2>4. CASE g.end \in cache
    BY <1>4, <1>6, <1>7, <2>1, <2>4
  <2> QED
    BY <2>1, <2>2, <2>3, <2>4
<1> QED
  BY <1>1, <1>5, <1>6, <1>7 DEF Founded

\* A walk that starts has a gap to trace, or nothing held below what is
\* missing.
LEMMA StartBridges ==
  ASSUME Basics, Bridges, Reaches, OneWalk', Starts
  PROVE  Bridges' /\ Reaches'
<1>1. UNCHANGED <<kind, purged, seen, cache, gaps, queue, poisoned, heard, lost, sessionStart>>
  BY StartFrame DEF Basics, Starts
<1>2. Settled' = Settled /\ AllGaps' = AllGaps /\ Lists' = Lists /\ Have' = Have
  BY <1>1 DEF AllGaps, Lists, Have, Settled, Held, Known
<1>3. \A p : Fine(p)' <=> Fine(p)
  BY <1>1, <1>2 DEF Fine
<1>4. \A x : Solid(x)' <=> Solid(x)
  BY <1>3 DEF Solid
<1>5. CASE UNCHANGED walk
  <2>1. Steady
    BY <1>1, <1>2, <1>3, <1>5, AlikeSelf DEF Steady, Calm, Intact
  <2> QED
    BY <2>1, SteadyBridges, SteadyReaches
<1>6. CASE ~UNCHANGED walk
  <2>1. PICK s \in Slots :
          /\ Len(queue) = 0
          /\ \/ \E held \in SUBSET Displayable : StartsOn(s, held)
             \/ walk'[s].phase = "forward" /\ walk'[s].manual
    BY <1>6, StartFrame DEF Basics, Starts
  <2>2. CASE walk'[s].phase = "forward" /\ walk'[s].manual
    <3>1. \A t \in Slots : t # s => walk'[t].phase = "none"
      BY <2>2, OtherSlot DEF OneWalk
    <3>2. \A t \in Slots : walk'[t].phase # "search"
      BY <2>2, <3>1
    <3>3. Bridges'
      BY <1>1, <2>1, <3>2, NewWalkBridges
    <3>4. Reaches'
      BY <2>2, <3>1 DEF Reaches
    <3> QED
      BY <3>3, <3>4
  <2>3. CASE \E held \in SUBSET Displayable : StartsOn(s, held)
    <3>1. PICK held \in SUBSET Displayable :
             walk'[s] = CatchUpWalk(held) /\ (cache \subseteq held \/ cache = {})
      BY <2>3 DEF StartsOn
    <3> DEFINE v == CatchUpWalk(held)
    <3>2. \/ /\ v.phase = "forward"
             /\ \E g \in gaps : g.end = Edge /\ v.origin = g.start
          \/ /\ v.phase = "forward" /\ v.origin = v.after
             /\ v.origin \in BeforeSession(held) /\ v.origin = Newest(BeforeSession(held))
          \/ v.phase = "latest"
      BY CatchUpFields DEF Basics
    <3> HIDE DEF v
    <3>3. \A t \in Slots : t # s => walk'[t].phase = "none"
      BY <3>1, <3>2, OtherSlot DEF OneWalk, v
    <3>4. \A t \in Slots : walk'[t].phase # "search"
      BY <3>1, <3>2, <3>3 DEF v
    <3>5. Bridges'
      BY <1>1, <2>1, <3>4, NewWalkBridges
    <3>6. ASSUME Intact, v.phase = "forward" PROVE Traced(v.origin) \/ Founded(v)
      <4>1. CASE \E g \in gaps : g.end = Edge /\ v.origin = g.start
        BY <2>1, <4>1, OpenTraced DEF Basics
      <4>2. CASE v.origin = v.after /\ v.origin \in BeforeSession(held) /\ v.origin = Newest(BeforeSession(held))
        BY <2>1, <3>1, <3>6, <4>2, NewestFounded
      <4> QED
        BY <3>2, <3>6, <4>1, <4>2
    <3>7. ASSUME Intact', walk'[s].phase = "forward" PROVE Traced(walk[s].origin)' \/ Founded(walk[s])'
      <4>1. walk'[s] = v /\ Intact
        BY <1>1, <3>1, <3>7 DEF Intact, v
      <4>2. CASE Traced(v.origin)
        BY <1>2, <1>3, <4>1, <4>2 DEF Traced
      <4>3. CASE Founded(v)
        BY <1>1, <1>2, <1>4, <4>1, <4>3 DEF Founded, Low
      <4> QED
        BY <3>6, <3>7, <4>1, <4>2, <4>3
    <3>8. Reaches'
      BY <3>3, <3>7 DEF Reaches
    <3> QED
      BY <3>5, <3>8
  <2> QED
    BY <2>1, <2>2, <2>3
<1> QED
  BY <1>5, <1>6

\* What a page stores, under the invariant.
LEMMA StoresOf ==
  ASSUME Basics, NEW s \in Slots, NEW rows, NEW next, StoresPage(s, rows, next)
  PROVE  Stores(rows, next) /\ rows \subseteq Displayable /\ next \subseteq Gap /\ Normal(next)
<1>1. /\ rows \subseteq Displayable /\ next \subseteq Gap /\ Normal(next)
      /\ StorePage(rows, next)
  BY DEF StoresPage
<1>2. Shape
  BY DEF Basics
<1> QED
  BY <1>1, <1>2, StoreStep

\* The new list, or the one on its way, is the transition's; the rows are stored
\* or on their way, and nothing that was fine ceases to be.
LEMMA PageSettles ==
  ASSUME Basics, ~poisoned, NEW s \in Slots, NEW rows, NEW next, StoresPage(s, rows, next)
  PROVE  /\ Settled \cup rows \subseteq Settled'
         /\ \A p \in Displayable : Fine(p) => Fine(p)'
         /\ Have' \subseteq Have \cup rows
         /\ AllGaps' \subseteq AllGaps \cup next
         /\ Lists' \subseteq Lists \cup {next}
<1> DEFINE job == PageJob(rows, next)
<1>1. /\ UNCHANGED <<kind, purged, seen, cache, poisoned, heard>>
  BY DEF StoresPage
<1>2. /\ Stores(rows, next) /\ rows \subseteq Displayable
  BY StoresOf
<1>3. /\ queue \in Seq(Job) /\ job \in Job /\ job.rows = rows \ Existing /\ job.archive
      /\ job.next \subseteq next /\ (job.commit => job.next = next)
      /\ Existing \subseteq resident
      /\ \/ queue' = queue /\ gaps' = gaps /\ rows \subseteq Existing
         \/ queue' = queue /\ gaps' = next /\ rows \subseteq Existing
         \/ queue' = Append(queue, job) /\ gaps' = gaps
  BY <1>2 DEF Stores
<1> HIDE DEF job
<1>4. Held' = Held
  BY <1>1 DEF Held, Known
<1>5. Existing \subseteq Settled
  BY <1>3 DEF Basics, Content
<1>6. CASE queue' = queue /\ (gaps' = gaps \/ gaps' = next) /\ rows \subseteq Existing
  <2>1. Settled' = Settled
    BY <1>4, <1>6 DEF Settled
  <2>2. \A p \in Displayable : Fine(p) => Fine(p)'
    BY <1>1, <2>1 DEF Fine
  <2>3. Have' = Have
    BY <1>1, <1>6 DEF Have
  <2>4. AllGaps' \subseteq AllGaps \cup next
    BY <1>6 DEF AllGaps
  <2>5. Lists' \subseteq Lists \cup {next}
    BY <1>6 DEF Lists
  <2> QED
    BY <1>5, <1>6, <2>1, <2>2, <2>3, <2>4, <2>5
<1>7. CASE queue' = Append(queue, job) /\ gaps' = gaps
  <2>1. Longer(queue, job, queue')
    BY <1>3, <1>7, RowsAppend
  <2>2. Pending(queue') = Pending(queue) \cup (rows \ Existing)
    BY <1>3, <2>1 DEF Longer, Pending, Added
  <2>3. Settled \cup rows \subseteq Settled'
    BY <1>4, <1>5, <2>2 DEF Settled
  <2>4. \A p \in Displayable : Fine(p) => Fine(p)'
    BY <1>1, <2>3 DEF Fine
  <2>5. \A i \in 1..Len(queue') : \/ i \in 1..Len(queue) /\ queue'[i] = queue[i]
                                  \/ queue'[i] = job
    BY <1>3, <1>7, QueueAppend
  <2>6. Have' \subseteq Have \cup rows
    BY <1>1, <1>3, <2>5 DEF Have
  <2>7. AllGaps' \subseteq AllGaps \cup next
    BY <1>3, <1>7, <2>5 DEF AllGaps
  <2>8. ASSUME NEW L \in Lists' PROVE L \in Lists \cup {next}
    <3>1. CASE L = gaps'
      BY <1>7, <3>1 DEF Lists
    <3>2. CASE \E i \in 1..Len(queue') : queue'[i].commit /\ L = queue'[i].next
      <4>1. L = next \/ \E i \in 1..Len(queue) : queue[i].commit /\ L = queue[i].next
        BY <1>3, <2>5, <3>2
      <4> QED
        BY <4>1 DEF Lists
    <3> QED
      BY <3>1, <3>2, <2>8 DEF Lists
  <2> QED
    BY <2>3, <2>4, <2>6, <2>7, <2>8
<1> QED
  BY <1>3, <1>6, <1>7

\* What is in memory is stored or on its way, unless a message was lost.
LEMMA ExistingHave ==
  ASSUME Basics, Intact
  PROVE  Existing \subseteq Have
<1>1. Existing \subseteq resident /\ resident \subseteq Displayable
  BY ExistingTypes DEF Basics
<1>2. resident \subseteq cache \cup heard \cup Pending(queue)
  BY DEF Basics, Stocked, Intact, Kept
<1>3. heard \subseteq cache \cup Delivered(queue)
  BY DEF Basics, Stocked, Intact
<1>4. cache \subseteq Displayable
  BY DEF Basics, Shape, TypeOK
<1>5. Pending(queue) \subseteq Have /\ Delivered(queue) \subseteq Have
  BY DEF Pending, UpTo, Delivered, Have
<1> QED
  BY <1>1, <1>2, <1>3, <1>4, <1>5 DEF Have

\* What a page uncovers it stores, unless it is already, or is yet to come.
Uncovers(rows, next) ==
  \A p \in Displayable : p \in Covered(gaps) /\ p \notin Covered(next) => p \in Settled \cup rows \/ p > seen

\* A forward page does: it holds all from its origin up to its top.
LEMMA ForwardUncovers ==
  ASSUME Basics, ~poisoned, NEW s \in Slots, NEW page, NEW merging, NEW last, NEW complete, NEW top,
         ForwardStores(s, page, merging, last, complete, top)
  PROVE  Uncovers(merging, AfterForwardPage(gaps, merging, walk[s].origin, last, complete, Existing \cup merging))
<1> DEFINE w      == walk[s]
           merged == Existing \cup merging
           next   == AfterForwardPage(gaps, merging, w.origin, last, complete, merged)
<1>1. /\ w.origin \in 0..MaxPos /\ merging \subseteq Displayable
      /\ last \in 0..MaxPos /\ complete \in BOOLEAN
      /\ top \in Nat /\ (complete => top >= live)
      /\ ~complete => \A p \in merging : p <= top
      /\ \A p \in Displayable : w.origin <= p /\ p <= top => p \in Settled \cup merging
      /\ online
  BY DEF ForwardStores
<1>2. gaps \subseteq Gap /\ Normal(gaps) /\ merged \subseteq Displayable
  BY <1>1, ExistingTypes DEF Basics, Shape, TypeOK
<1>3. seen = live /\ seen \in Nat
  BY <1>1, SeenOK DEF Basics, Timely
<1>4. \A g \in gaps, p \in Pos : g.start < p /\ p < g.end =>
              p \in Covered(next) \/ (w.origin <= g.start /\ Passes(merging, complete, p))
  <2>1. /\ merging \subseteq Displayable /\ w.origin \in 0..MaxPos /\ last \in 0..MaxPos
        /\ complete \in BOOLEAN /\ merged \subseteq Displayable /\ gaps \subseteq Gap /\ Normal(gaps)
    BY <1>1, <1>2
  <2> HIDE DEF w, merged
  <2>2. Forwarded(gaps, merging, w.origin, complete, merged, next)
    BY <2>1, ForwardedNext
  <2> HIDE DEF next
  <2> QED
    BY <2>2 DEF Forwarded
<1> HIDE DEF next
<1>5. ASSUME NEW p \in Displayable, p \in Covered(gaps), p \notin Covered(next)
      PROVE  p \in Settled \cup merging \/ p > seen
  <2>1. p \in Pos /\ p \in Nat
    BY Displayed
  <2>2. PICK g \in gaps : g.start < p /\ p < g.end
    BY <1>5, <2>1, CoveredBy
  <2>3. w.origin <= g.start /\ Passes(merging, complete, p)
    BY <1>4, <1>5, <2>1, <2>2
  <2>4. w.origin <= p
    BY <1>1, <1>2, <2>1, <2>2, <2>3, GapNumbers
  <2>5. CASE complete
    BY <1>1, <1>3, <2>1, <2>4, <2>5
  <2>6. CASE ~complete
    <3>1. merging # {} /\ p <= Newest(merging)
      BY <2>3, <2>6 DEF Passes
    <3>2. merging \subseteq 0..MaxPos /\ MaxPos \in Nat
      BY <1>1, Displayed
    <3>3. Newest(merging) \in merging
      BY <3>1, <3>2, NewestOf
    <3>4. Newest(merging) <= top /\ Newest(merging) \in Nat
      BY <1>1, <2>6, <3>3, Displayed
    <3> QED
      BY <1>1, <2>1, <2>4, <3>1, <3>4
  <2> QED
    BY <2>5, <2>6
<1> QED
  BY <1>5 DEF Uncovers, next

\* From the bottom of a walk down up to its bound everything is gathered.
LEMMA GathersDown ==
  ASSUME Shape, NEW rows, NEW complete, NEW low, NEW bound \in Nat, Gathers(rows, complete, low, bound),
         NEW p \in Displayable, p < bound,
         \/ complete
         \/ rows # {} /\ Oldest(rows) <= p
         \/ low # NoId /\ low <= p
  PROVE  p \in Settled \cup rows
<1>1. p \in Nat /\ purged \in Nat
  BY Displayed, NumberFacts DEF Shape, TypeOK
<1>2. complete \in BOOLEAN /\ low \in Nat /\ (rows # {} => Oldest(rows) \in Nat)
  BY GathersPast
<1>3. CASE p <= purged
  BY <1>3 DEF Settled, Held, Known
<1>4. CASE purged < p
  <2>1. \/ p \in rows
        \/ ~complete /\ (rows # {} => p < Oldest(rows)) /\ (low # NoId => p < low)
    BY <1>4 DEF Gathers
  <2> QED
    BY <1>1, <1>2, <2>1
<1> QED
  BY <1>1, <1>3, <1>4

\* The search walks down from the end of a gap, or from where it got to.
LEMMA SearchMark ==
  ASSUME Basics, NEW s \in Slots, NEW rows, NEW complete, NEW low, NEW bound, NEW latest,
         BackwardStores(s, rows, complete, low, bound, latest), ~latest
  PROVE  bound \in Marks /\ Active
<1>1. /\ walk[s].phase = "search" /\ bound # NoId
      /\ bound = walk[s].bottom \/ \E g \in gaps : bound = g.endId
  BY DEF BackwardStores
<1>2. ~walk[s].manual
  BY <1>1 DEF Basics, Seekers
<1>3. CASE bound = walk[s].bottom
  BY <1>1, <1>2, <1>3 DEF Marks, Active
<1>4. CASE \E k \in gaps : bound = k.endId
  <2>1. PICK k \in gaps : bound = k.endId
    BY <1>4
  <2>2. k.end = bound
    BY <1>1, <2>1 DEF Basics, Stocked, Bounded
  <2>3. k \in AllGaps
    BY DEF AllGaps, Basics, Shape, TypeOK
  <2> QED
    BY <1>1, <1>2, <2>2, <2>3 DEF Marks, Active
<1> QED
  BY <1>1, <1>3, <1>4

\* A page walked down does: from its bound down it holds all, and a gap that
\* spans the bound misses nothing above it.
LEMMA BackwardUncovers ==
  ASSUME Basics, Intact, Bridges, NEW s \in Slots, NEW rows, NEW complete, NEW low, NEW bound, NEW latest,
         BackwardStores(s, rows, complete, low, bound, latest)
  PROVE  Uncovers(rows, AfterBackwardPage(gaps, rows, complete, latest, Existing))
<1> DEFINE next == AfterBackwardPage(gaps, rows, complete, latest, Existing)
<1>1. /\ walk[s].phase = IF latest THEN "latest" ELSE "search"
      /\ latest \in BOOLEAN /\ bound \in Nat
      /\ Gathers(rows, complete, low, bound)
      /\ IF latest THEN bound = seen + 1
         ELSE bound # NoId /\ (bound = walk[s].bottom \/ \E g \in gaps : bound = g.endId)
  BY DEF BackwardStores
<1>2. gaps \subseteq Gap /\ Normal(gaps) /\ Existing \subseteq Displayable /\ seen \in Nat
  BY ExistingTypes, SeenOK DEF Basics, Shape, TypeOK
<1>3. /\ rows \subseteq Displayable /\ complete \in BOOLEAN
      /\ \A p \in rows : p < bound
  BY <1>1, GathersPast DEF Basics
<1>4. \A g \in gaps, p \in Pos : g.start < p /\ p < g.end =>
              p \in Covered(next) \/ Closes(g, rows, complete, p)
  BY <1>1, <1>2, <1>3, BackwardNext
<1> HIDE DEF next
<1>5. ASSUME NEW p \in Displayable, p \in Covered(gaps), p \notin Covered(next)
      PROVE  p \in Settled \cup rows \/ p > seen
  <2>1. p \in Pos /\ p \in Nat
    BY Displayed
  <2>2. PICK g \in gaps : g.start < p /\ p < g.end
    BY <1>5, <2>1, CoveredBy
  <2>3. rows # {} /\ g.start < Newest(rows) /\ (complete \/ Oldest(rows) <= p)
    BY <1>4, <1>5, <2>1, <2>2 DEF Closes
  <2>4. CASE p < bound
    BY <1>1, <2>3, <2>4, GathersDown DEF Basics
  <2>5. CASE ~(p < bound)
    <3>1. CASE latest
      BY <1>1, <1>2, <2>1, <2>5, <3>1
    <3>2. CASE ~latest
      <4>2. bound \in Marks /\ Active
        BY <3>2, SearchMark
      <4>3. g \in AllGaps
        BY <1>2 DEF AllGaps
      <4>4. g.start < bound /\ bound <= p
        <5>1. rows \subseteq 0..MaxPos /\ MaxPos \in Nat
          BY <1>3, Displayed
        <5>2. Newest(rows) \in rows
          BY <2>3, <5>1, NewestOf
        <5>4. Newest(rows) \in Nat
          BY <1>3, <5>2, Displayed
        <5>3. g.start \in Nat
          BY <1>2, GapNumbers
        <5> QED
          BY <1>1, <1>3, <2>1, <2>3, <2>5, <5>2, <5>3, <5>4
      <4>5. Fine(p)
        BY <2>2, <4>2, <4>3, <4>4 DEF Bridges
      <4> QED
        BY <4>5 DEF Fine
    <3> QED
      BY <1>1, <3>1, <3>2
  <2> QED
    BY <2>4, <2>5
<1> QED
  BY <1>5 DEF Uncovers, next

\* The list a page of a walk leaves, and its newest row.
LEMMA ForwardedPage ==
  ASSUME Basics, NEW s \in Slots, NEW page, NEW merging, NEW last, NEW complete, NEW top,
         ForwardStores(s, page, merging, last, complete, top)
  PROVE  /\ Forwarded(gaps, merging, walk[s].origin, complete, Existing \cup merging,
                      AfterForwardPage(gaps, merging, walk[s].origin, last, complete, Existing \cup merging))
         /\ merging \subseteq Displayable
         /\ merging # {} => /\ Newest(merging) \in merging /\ Newest(merging) \in Nat
                            /\ \A q \in merging : q <= Newest(merging)
<1>1. /\ walk[s].origin \in 0..MaxPos /\ merging \subseteq Displayable
      /\ last \in 0..MaxPos /\ complete \in BOOLEAN
  BY DEF ForwardStores
<1>2. gaps \subseteq Gap /\ Normal(gaps) /\ Existing \cup merging \subseteq Displayable
  BY <1>1, ExistingTypes DEF Basics, Shape, TypeOK
<1>3. merging \subseteq 0..MaxPos /\ MaxPos \in Nat /\ merging \subseteq Nat
  BY <1>1, Displayed
<1>4. merging # {} => Newest(merging) \in merging /\ \A q \in merging : q <= Newest(merging)
  BY <1>3, NewestOf
<1> QED
  BY <1>1, <1>2, <1>3, <1>4, ForwardedNext

\* A gap is opened only above all gaps, so that what follows it is not missing.
LEMMA OpensAbove ==
  ASSUME Basics, Intact, NEW s \in Slots, NEW page, NEW merging, NEW last, NEW complete, NEW top,
         ForwardStores(s, page, merging, last, complete, top),
         Opens(gaps, merging, walk[s].origin, complete),
         Traced(walk[s].origin) \/ Founded(walk[s])
  PROVE  /\ \A q \in Existing : Newest(merging) < q => Solid(q)
         /\ \A k \in AllGaps : Newest(merging) < k.end => Solid(k.end)
<1> DEFINE w == walk[s]
           newest == Newest(merging)
<1>1. /\ w.origin \in 0..MaxPos
      /\ kind = "room" => \A p \in merging : w.after < p
  BY DEF ForwardStores
<1>2. /\ merging # {} /\ w.origin <= newest /\ \A g \in gaps : g.start < w.origin
  BY DEF Opens
<1>3. newest \in merging /\ newest \in Nat
  BY <1>2, ForwardedPage
<1>4. gaps \subseteq Gap /\ Existing \subseteq Displayable /\ \A p \in Displayable : p \in Nat /\ p \in Pos
  BY ExistingTypes, Displayed DEF Basics, Shape, TypeOK
<1>5. \A k \in AllGaps : k.end \in Nat
  BY GapNumbers DEF AllGaps
<1>6. w.origin \in Nat /\ w.after \in Nat
  BY ForwardFacts, Displayed DEF Basics
<1> HIDE DEF w, newest
<1>7. CASE Traced(w.origin)
  <2>1. ASSUME NEW p \in Displayable, w.origin < p PROVE Fine(p)
    <3>1. Fine(p) \/ p \in Covered(gaps)
      BY <1>7, <2>1 DEF Traced, Lists
    <3>2. ASSUME p \in Covered(gaps) PROVE FALSE
      <4>1. PICK g \in gaps : g.start < p /\ p < g.end
        BY <1>4, <3>2, CoveredBy
      <4>2. ~(g.start < w.origin /\ w.origin < g.end)
        BY <1>7 DEF Traced, Lists
      <4>3. g.end \in Nat
        BY <1>4, GapNumbers
      <4> QED
        BY <1>2, <1>4, <1>6, <2>1, <4>1, <4>2, <4>3
    <3> QED
      BY <3>1, <3>2
  <2>2. ASSUME NEW x \in Nat, newest < x PROVE Solid(x)
    <3>1. \A p \in Displayable : x <= p => w.origin < p
      BY <1>2, <1>3, <1>4, <1>6, <2>2
    <3> QED
      BY <2>1, <3>1 DEF Solid
  <2> QED
    BY <1>4, <1>5, <2>2 DEF newest
<1>8. CASE Founded(w)
  <2>1. Low(w) <= newest
    <3>1. CASE kind = "chat"
      <4>1. Low(w) = w.origin
        BY <3>1 DEF Low
      <4> QED
        BY <1>2, <4>1
    <3>2. CASE kind = "room"
      <4>1. w.after < newest
        BY <1>1, <1>3, <3>2
      <4>2. Low(w) = w.after
        BY <3>2 DEF Low
      <4> QED
        BY <1>3, <1>6, <4>1, <4>2
    <3> QED
      BY <3>1, <3>2, NumberFacts DEF Basics, Shape, TypeOK
  <2>2. Low(w) \in Nat
    BY <1>6 DEF Low
  <2>3. ASSUME NEW q \in Existing, newest < q PROVE Solid(q)
    <3>1. q \in Have /\ Low(w) < q
      BY <1>3, <1>4, <2>1, <2>2, <2>3, ExistingHave
    <3> QED
      BY <1>8, <3>1 DEF Founded
  <2>4. ASSUME NEW k \in AllGaps, newest < k.end PROVE Solid(k.end)
    <3>1. ~(k.end <= w.origin)
      BY <1>2, <1>3, <1>5, <1>6, <2>4
    <3> QED
      BY <1>8, <3>1 DEF Founded
  <2> QED
    BY <2>3, <2>4 DEF newest
<1> QED
  BY <1>7, <1>8 DEF w

\* The ends of the gaps a forward page leaves: old ones, or ones above which nothing is missing.
LEMMA ForwardEndings ==
  ASSUME Basics, Intact, NEW s \in Slots, NEW page, NEW merging, NEW last, NEW complete, NEW top,
         ForwardStores(s, page, merging, last, complete, top),
         Traced(walk[s].origin) \/ Founded(walk[s]),
         NEW h \in AfterForwardPage(gaps, merging, walk[s].origin, last, complete, Existing \cup merging)
  PROVE  (\E g \in AllGaps : h.end = g.end) \/ Solid(h.end)
<1> DEFINE next == AfterForwardPage(gaps, merging, walk[s].origin, last, complete, Existing \cup merging)
<1>0. Forwarded(gaps, merging, walk[s].origin, complete, Existing \cup merging, next) /\ h \in next
  BY ForwardedPage
<1> HIDE DEF next
<1>1. \/ \E g \in gaps : h.end = g.end
      \/ /\ Opens(gaps, merging, walk[s].origin, complete)
         /\ h.end \in {q \in Existing \cup merging : q > Newest(merging)} \cup {Edge}
  BY <1>0 DEF Forwarded
<1>2. CASE \E g \in gaps : h.end = g.end
  BY <1>2 DEF AllGaps, Basics, Shape, TypeOK
<1>3. CASE h.end = Edge
  <2>1. \A p \in Displayable : ~(Edge <= p)
    BY Displayed, NumberFacts DEF Pos
  <2> QED
    BY <1>3, <2>1 DEF Solid
<1>4. CASE /\ Opens(gaps, merging, walk[s].origin, complete)
           /\ h.end \in Existing \cup merging /\ h.end > Newest(merging)
  <2>1. merging # {} /\ Newest(merging) \in Nat /\ \A q \in merging : q <= Newest(merging)
    BY <1>4, ForwardedPage DEF Opens
  <2>2. h.end \in Nat
    BY <1>4, ForwardedPage, ExistingTypes, Displayed DEF Basics
  <2>3. h.end \in Existing /\ Newest(merging) < h.end
    BY <1>4, <2>1, <2>2
  <2> QED
    BY <1>4, <2>3, OpensAbove
<1> QED
  BY <1>1, <1>2, <1>3, <1>4

\* What is solid is fine.
LEMMA SolidFine ==
  ASSUME NEW x, Solid(x), NEW p \in Displayable, x <= p
  PROVE  Fine(p)
  BY DEF Solid

\* A page of a forward walk keeps both: a gap it opens has nothing missing
\* above its end, or what is missing in another gap.
LEMMA ForwardBridges ==
  ASSUME Basics, Bridges, Reaches, OneWalk,
         NEW s \in Slots, NEW page, NEW merging, NEW last, NEW complete, NEW top,
         ForwardStores(s, page, merging, last, complete, top)
  PROVE  Bridges' /\ Reaches'
<1> DEFINE w    == walk[s]
           next == AfterForwardPage(gaps, merging, w.origin, last, complete, Existing \cup merging)
<1>1. /\ w.phase = "forward" /\ merging \subseteq Displayable
      /\ ~complete => \A p \in merging : p <= top
      /\ ~complete => w.after <= top
      /\ top \in Nat
      /\ ~poisoned => \A p \in Displayable : w.origin <= p /\ p <= top => p \in Settled \cup merging
      /\ \A t \in Slots : t # s => walk'[t] = walk[t]
      /\ \/ Continues(w, walk'[s], top, w.rows \cup page) /\ ~complete
         \/ Settles(w, walk'[s])
      /\ UNCHANGED <<kind, purged, live, seen, online, cache, poisoned, active, heard, lost, sessionStart>>
      /\ \/ StoresPage(s, merging, next) /\ (kind = "room" \/ Settles(w, walk'[s]))
         \/ kind = "chat" /\ UNCHANGED <<gaps, queue, resident>>
  BY DEF ForwardStores
<1>2. \A t \in Slots : t # s => walk[t] = NoWalk /\ walk[t].phase = "none"
  BY <1>1, OtherSlot DEF OneWalk
<1>3. CASE kind = "chat" /\ UNCHANGED <<gaps, queue, resident>>
  <2>1. /\ AllGaps' = AllGaps /\ Lists' = Lists /\ Have' = Have /\ Settled' = Settled
    BY <1>1, <1>3 DEF AllGaps, Lists, Have, Settled, Held, Known
  <2>2. \A p \in Displayable : Fine(p) => Fine(p)'
    BY <1>1, <2>1 DEF Fine
  <2>3. \A t \in Slots : Calm(walk[t], walk'[t])
    BY <1>1, <1>3 DEF Calm, Continues, Settles
  <2>4. Steady
    BY <1>1, <2>1, <2>2, <2>3, AlikeSelf DEF Steady, Intact
  <2> QED
    BY <2>4, SteadyBridges, SteadyReaches
<1>4. CASE StoresPage(s, merging, next) /\ (kind = "room" \/ Settles(w, walk'[s]))
  <2>1. Forwarded(gaps, merging, w.origin, complete, Existing \cup merging, next)
    BY ForwardedPage
  <2>22. \A rows, list : StoresPage(s, rows, list) /\ ~poisoned =>
              /\ Settled \cup rows \subseteq Settled'
              /\ \A p \in Displayable : Fine(p) => Fine(p)'
              /\ Have' \subseteq Have \cup rows
              /\ AllGaps' \subseteq AllGaps \cup list
              /\ Lists' \subseteq Lists \cup {list}
    BY PageSettles
  <2>2. ~poisoned => /\ Settled \cup merging \subseteq Settled'
                     /\ \A p \in Displayable : Fine(p) => Fine(p)'
                     /\ Have' \subseteq Have \cup merging
                     /\ AllGaps' \subseteq AllGaps \cup next
                     /\ Lists' \subseteq Lists \cup {next}
    <3> HIDE DEF next
    <3> QED
      BY <1>4, <2>22
  <2>3. Intact => \A h \in next :
                    Traced(w.origin) \/ Founded(w) => (\E g \in AllGaps : h.end = g.end) \/ Solid(h.end)
    BY ForwardEndings
  <2>4. ~w.manual /\ Intact => Traced(w.origin) \/ Founded(w)
    BY <1>1 DEF Reaches
  <2>5. /\ gaps \subseteq AllGaps
        /\ \A k \in AllGaps : k.end \in Nat
        /\ \A k \in gaps : k.end \in Nat
    BY GapNumbers DEF AllGaps, Basics, Shape, TypeOK
  <2>6. next \subseteq Gap
    BY <1>4, StoresOf
  <2>7. Intact' => Intact /\ ~poisoned
    BY <1>1 DEF Intact
  <2> HIDE DEF next
  <2>8. Bridges'
    <3> SUFFICES ASSUME Intact', Active', NEW h \in AllGaps', NEW e \in Marks', NEW p \in Displayable,
                        h.start < e, e <= p, p < h.end
                 PROVE  Fine(p)'
      BY DEF Bridges
    <3>1. ~w.manual /\ Active /\ Intact /\ ~poisoned
      BY <1>1, <1>2, <2>7 DEF Active, Continues, Settles
    <3>2. Traced(w.origin) \/ Founded(w)
      BY <2>4, <3>1
    <3>3. e # NoId /\ \E k \in AllGaps' : e = k.end
      BY <1>1, <1>2 DEF Marks, Continues, Settles
    <3>4. (\E k \in AllGaps : e = k.end) \/ Solid(e)
      BY <2>2, <2>3, <3>1, <3>2, <3>3
    <3>5. CASE Solid(e)
      BY <2>2, <3>1, <3>5, SolidFine
    <3>6. CASE \E k \in AllGaps : e = k.end
      <4>1. PICK k \in AllGaps : e = k.end
        BY <3>6
      <4>2. e \in Marks /\ e \in Nat
        BY <2>5, <3>3, <4>1 DEF Marks
      <4>3. CASE h \in AllGaps
        <5>1. Fine(p)
          BY <3>1, <4>2, <4>3 DEF Bridges
        <5> QED
          BY <2>2, <3>1, <5>1
      <4>4. CASE h \in next
        <5>1. p \in Nat
          BY Displayed
        <5>2. \/ \E g \in gaps : g.start < e /\ p < g.end
              \/ /\ Opens(gaps, merging, w.origin, complete)
                 /\ Newest(merging) < e \/ \E g \in gaps : Newest(merging) < g.end /\ g.end <= p
          BY <2>1, <4>2, <4>4, <5>1 DEF Forwarded
        <5>3. CASE \E g \in gaps : g.start < e /\ p < g.end
          <6>1. Fine(p)
            BY <2>5, <3>1, <4>2, <5>3 DEF Bridges
          <6> QED
            BY <2>2, <3>1, <6>1
        <5>4. CASE Opens(gaps, merging, w.origin, complete) /\ Newest(merging) < e
          <6>1. Solid(e)
            BY <3>1, <3>2, <4>1, <5>4, OpensAbove
          <6> QED
            BY <2>2, <3>1, <6>1, SolidFine
        <5>5. CASE /\ Opens(gaps, merging, w.origin, complete)
                   /\ \E g \in gaps : Newest(merging) < g.end /\ g.end <= p
          <6>1. PICK g \in gaps : Newest(merging) < g.end /\ g.end <= p
            BY <5>5
          <6>2. Solid(g.end)
            BY <2>5, <3>1, <3>2, <5>5, <6>1, OpensAbove
          <6> QED
            BY <2>2, <3>1, <6>1, <6>2, SolidFine
        <5> QED
          BY <5>2, <5>3, <5>4, <5>5
      <4> QED
        BY <2>2, <3>1, <4>3, <4>4
    <3> QED
      BY <3>4, <3>5, <3>6
  <2>9. Reaches'
    <3> SUFFICES ASSUME Intact', NEW t \in Slots, walk'[t].phase = "forward", ~walk'[t].manual
                 PROVE  Traced(walk[t].origin)' \/ Founded(walk[t])'
      BY DEF Reaches
    <3> DEFINE v == walk'[t]
    <3>1. t = s /\ Continues(w, v, top, w.rows \cup page) /\ ~complete /\ kind = "room"
      BY <1>1, <1>2, <1>4 DEF Continues, Settles
    <3>2. /\ ~w.manual /\ v.origin = w.origin /\ v.after = top /\ Intact /\ ~poisoned /\ kind' # "chat"
      BY <1>1, <2>7, <3>1 DEF Continues
    <3>3. w.origin \in Nat /\ w.after \in Nat
      BY ForwardFacts, Displayed DEF Basics
    <3>4. CASE Traced(w.origin)
      <4>1. ASSUME NEW L \in Lists'
            PROVE  /\ \A g \in L : ~(g.start < v.origin /\ v.origin < g.end)
                   /\ \A p \in Displayable : v.origin < p => Fine(p)' \/ p \in Covered(L)
        <5>1. CASE L \in Lists
          BY <2>2, <3>2, <3>4, <5>1 DEF Traced
        <5>2. CASE L = next
          <6>1. \A g \in gaps : ~(g.start < w.origin /\ w.origin < g.end)
            BY <3>4 DEF Traced, Lists
          <6>2. \A g \in L : ~(g.start < v.origin /\ v.origin < g.end)
            BY <2>1, <3>2, <5>2, <6>1 DEF Forwarded
          <6>3. ASSUME NEW p \in Displayable, w.origin < p, p \notin Covered(next) PROVE Fine(p)'
            <7>1. Fine(p) \/ p \in Covered(gaps)
              BY <3>4, <6>3 DEF Traced, Lists
            <7>2. CASE Fine(p)
              BY <2>2, <3>2, <7>2
            <7>3. CASE p \in Covered(gaps)
              <8>1. p \in Settled \cup merging \/ p > seen
                BY <3>2, <6>3, <7>3, ForwardUncovers DEF Uncovers, next
              <8> QED
                BY <2>2, <3>2, <8>1 DEF Fine
            <7> QED
              BY <7>1, <7>2, <7>3
          <6> QED
            BY <3>2, <5>2, <6>2, <6>3
        <5> QED
          BY <2>2, <3>2, <5>1, <5>2
      <4> QED
        BY <4>1 DEF Traced
    <3>5. CASE Founded(w)
      <4>0. Low(w)' = top
        BY <3>1, <3>2 DEF Low
      <4>1. ASSUME NEW x \in Have', top < x PROVE \A p \in Displayable : x <= p => Fine(p)'
        <5>1. x \in Displayable /\ x \in Nat
          BY Displayed DEF Have
        <5>2. x \in Have
          BY <1>1, <2>2, <3>1, <3>2, <4>1, <5>1
        <5>3. w.after < x
          BY <1>1, <3>1, <3>3, <4>1, <5>1
        <5>4. Low(w) < x
          BY <3>1, <5>3 DEF Low
        <5>5. Solid(x)
          BY <3>5, <5>2, <5>4 DEF Founded
        <5> QED
          BY <2>2, <3>2, <5>5, SolidStays
      <4>2. ASSUME NEW h \in AllGaps' PROVE h.end <= v.origin \/ \A p \in Displayable : h.end <= p => Fine(p)'
        <5>1. (\E g \in AllGaps : h.end = g.end) \/ Solid(h.end)
          BY <2>2, <2>3, <3>2, <3>5
        <5>2. h.end <= w.origin \/ Solid(h.end)
          BY <3>5, <5>1 DEF Founded
        <5> QED
          BY <2>2, <3>2, <5>2, SolidStays
      <4>3. \A x \in Have' : Low(w)' < x => Solid(x)'
        BY <4>0, <4>1 DEF Solid
      <4>4. \A g \in AllGaps' : g.end <= v.origin \/ Solid(g.end)'
        BY <4>2 DEF Solid
      <4> QED
        BY <3>1, <4>3, <4>4 DEF Founded
    <3> QED
      BY <2>4, <3>1, <3>2, <3>4, <3>5
  <2> QED
    BY <2>8, <2>9
<1> QED
  BY <1>1, <1>3, <1>4

\* What a page walked down leaves while the entity is not open: gaps that lie
\* within those there were, and new ends at the bottom of the page.
LEMMA BackwardEndings ==
  ASSUME Basics, ~active, NEW rows, rows \subseteq Displayable, NEW complete \in BOOLEAN, NEW latest \in BOOLEAN,
         NEW h \in AfterBackwardPage(gaps, rows, complete, latest, Existing)
  PROVE  /\ \E g \in gaps : g.start <= h.start /\ h.end <= g.end
         /\ \/ \E g \in gaps : h.end = g.end
            \/ rows # {} /\ h.end = Oldest(rows)
<1> DEFINE next == AfterBackwardPage(gaps, rows, complete, latest, Existing)
<1>1. Existing = {} /\ gaps \subseteq Gap /\ Normal(gaps)
  BY DEF Existing, Basics, Shape, TypeOK
<1>2. Existing \subseteq Displayable
  BY <1>1
<1>3. /\ \A k \in next :
              \/ \E g \in gaps : k.end = g.end /\ k.endId \in {g.endId, NoId}
              \/ rows # {} /\ k.end = Oldest(rows) /\ k.endId \in {k.end, NoId}
      /\ Existing = {} => \A k \in next : \E g \in gaps : Within(k, g)
  BY <1>1, <1>2, BackwardNext
<1>4. h \in next
  OBVIOUS
<1> HIDE DEF next
<1> QED
  BY <1>1, <1>3, <1>4 DEF Within

\* A page walked down keeps both: only a page while the entity is not open goes
\* on to a search, and that cuts gaps down to what it holds.
LEMMA BackwardBridges ==
  ASSUME Basics, Bridges, OneWalk, NEW s \in Slots, NEW rows, NEW complete, NEW low, NEW bound, NEW latest,
         BackwardStores(s, rows, complete, low, bound, latest)
  PROVE  Bridges' /\ Reaches'
<1> DEFINE next == AfterBackwardPage(gaps, rows, complete, latest, Existing)
<1>1. /\ walk[s].phase = IF latest THEN "latest" ELSE "search"
      /\ latest \in BOOLEAN /\ bound \in Nat
      /\ Gathers(rows, complete, low, bound)
      /\ latest => bound = seen + 1
      /\ walk'[s].phase \in {"none", "search"}
      /\ walk'[s].phase = "search" => /\ ~active /\ ~walk[s].manual /\ ~walk'[s].manual
                                      /\ walk'[s].bottom \in {low, NoId}
                                      /\ walk'[s].bottom # NoId => low < bound
      /\ StoresPage(s, rows, next)
  BY DEF BackwardStores
<1>2. /\ UNCHANGED <<seen, poisoned, lost>>
      /\ \A t \in Slots : t # s => walk'[t] = walk[t]
  BY <1>1 DEF StoresPage
<1>3. \A t \in Slots : t # s => walk[t] = NoWalk /\ walk[t].phase = "none"
  BY <1>1, OtherSlot DEF OneWalk
<1>4. Reaches'
  BY <1>1, <1>2, <1>3 DEF Reaches
<1>5. /\ rows \subseteq Displayable /\ complete \in BOOLEAN /\ low \in Nat
      /\ rows # {} => Oldest(rows) \in rows /\ Oldest(rows) \in Nat /\ Oldest(rows) < bound
  BY <1>1, GathersPast DEF Basics
<1>6. seen \in Nat /\ \A p \in Displayable : p \in Nat
  BY SeenOK, Displayed DEF Basics
<1>7. Bridges'
  <2> SUFFICES ASSUME Intact', Active', NEW h \in AllGaps', NEW e \in Marks', NEW p \in Displayable,
                      h.start < e, e <= p, p < h.end
               PROVE  Fine(p)'
    BY DEF Bridges
  <2>1. walk'[s].phase = "search" /\ Intact /\ ~poisoned
    BY <1>1, <1>2, <1>3 DEF Active, Intact
  <2>2. ~active /\ Active
    BY <1>1, <2>1 DEF Active
  <2>3. \A k \in next : /\ \E g \in gaps : g.start <= k.start /\ k.end <= g.end
                        /\ \/ \E g \in gaps : k.end = g.end
                           \/ rows # {} /\ k.end = Oldest(rows)
    BY <1>1, <1>5, <2>2, BackwardEndings
  <2> HIDE DEF next
  <2>4. /\ Settled \cup rows \subseteq Settled'
        /\ \A q \in Displayable : Fine(q) => Fine(q)'
        /\ AllGaps' \subseteq AllGaps \cup next
    BY <1>1, <2>1, PageSettles
  <2>5. gaps \subseteq AllGaps /\ AllGaps \subseteq Gap
    BY DEF AllGaps, Basics, Shape, TypeOK
  <2>6. h \in AllGaps \/ h \in next
    BY <2>4
  <2>7. next \subseteq Gap
    BY <1>1 DEF StoresPage
  <2>8. PICK g \in AllGaps : g.start < e /\ p < g.end
    <3>1. CASE h \in AllGaps
      BY <3>1
    <3>2. CASE h \in next
      <4>1. PICK g \in gaps : g.start <= h.start /\ h.end <= g.end
        BY <2>3, <3>2
      <4>2. g.start \in Nat /\ g.end \in Nat /\ h.start \in Nat /\ h.end \in Nat /\ p \in Nat /\ g \in AllGaps
        BY <2>5, <2>7, <1>6, <3>2, <4>1, GapNumbers
      <4>3. e \in Nat
        <5>1. e # NoId
          BY DEF Marks
        <5>2. CASE \E k \in AllGaps' : e = k.end
          BY <2>4, <2>5, <2>7, <5>2, GapNumbers
        <5>3. CASE \E t \in Slots : walk'[t].phase = "search" /\ e = walk'[t].bottom
          BY <1>1, <1>2, <1>3, <1>5, <5>1, <5>3
        <5> QED
          BY <5>2, <5>3 DEF Marks
      <4> QED
        BY <4>1, <4>2, <4>3
    <3> QED
      BY <2>6, <3>1, <3>2
  <2>9. \/ e \in Marks
        \/ rows # {} /\ e = Oldest(rows)
        \/ low # NoId /\ e = low /\ low < bound
    <3>1. e # NoId
      BY DEF Marks
    <3>2. CASE \E k \in AllGaps' : e = k.end
      <4>1. PICK k : (k \in AllGaps \/ k \in next) /\ e = k.end
        BY <2>4, <3>2
      <4>2. (\E j \in AllGaps : e = j.end) \/ (rows # {} /\ e = Oldest(rows))
        BY <2>3, <2>5, <4>1
      <4> QED
        BY <3>1, <4>2 DEF Marks
    <3>3. CASE \E t \in Slots : walk'[t].phase = "search" /\ e = walk'[t].bottom
      BY <1>1, <1>2, <1>3, <3>1, <3>3
    <3> QED
      BY <3>2, <3>3 DEF Marks
  <2>10. CASE e \in Marks
    BY <2>1, <2>2, <2>4, <2>8, <2>10 DEF Bridges
  <2>11. CASE (rows # {} /\ e = Oldest(rows)) \/ (low # NoId /\ e = low /\ low < bound)
    <3>1. e \in Nat /\ e < bound /\ p \in Nat
      BY <1>5, <1>6, <2>11
    <3>2. CASE p < bound
      <4>1. p \in Settled \cup rows
        BY <1>1, <2>11, <3>2, GathersDown DEF Basics
      <4> QED
        BY <2>4, <4>1 DEF Fine
    <3>3. CASE latest /\ ~(p < bound)
      <4>1. p > seen
        BY <1>1, <1>6, <3>1, <3>3
      <4> QED
        BY <1>2, <4>1 DEF Fine
    <3>4. CASE ~latest /\ ~(p < bound)
      <4>1. bound \in Marks
        BY <3>4, SearchMark
      <4>2. g.start \in Nat
        BY <2>5, GapNumbers
      <4>3. g.start < bound /\ bound <= p
        BY <1>1, <2>8, <3>1, <3>4, <4>2
      <4>4. Fine(p)
        BY <2>1, <2>2, <2>8, <4>1, <4>3 DEF Bridges
      <4> QED
        BY <2>4, <4>4
    <3> QED
      BY <1>1, <3>2, <3>3, <3>4
  <2> QED
    BY <2>9, <2>10, <2>11
<1> QED
  BY <1>4, <1>7

\* A reload ends all walks.
LEMMA CrashBridges ==
  ASSUME Basics, Crash
  PROVE  Bridges' /\ Reaches'
<1>1. \A t \in Slots : walk'[t] = NoWalk
  BY CrashFrame DEF Basics
<1> QED
  BY <1>1, NoWalkOK, NoneBridges

\* At first there are no walks.
LEMMA InitBridges == Init => Bridges /\ Reaches
  BY NoWalkOK DEF Init, Bridges, Reaches, Active

\* After a failed write there is nothing to show.
LEMMA FailBridges ==
  ASSUME Basics, WriteFails
  PROVE  Bridges' /\ Reaches'
<1>1. ~Intact'
  BY FailStocked DEF Basics
<1> QED
  BY <1>1 DEF Bridges, Reaches

\* Every step keeps both, if the walks overlap neither before nor after.
LEMMA StepBridges ==
  ASSUME Basics, Bridges, Reaches, OneWalk, OneWalk', [Next]_vars
  PROVE  Bridges' /\ Reaches'
<1>1. CASE Plain
  BY <1>1, PlainBridges
<1>2. CASE Starts
  BY <1>2, StartBridges
<1>3. CASE WriteCommits
  BY <1>3, CommitBridges
<1>4. CASE WriteFails
  BY <1>4, FailBridges
<1>5. CASE Crash
  BY <1>5, CrashBridges
<1>6. CASE Arrive \/ Resume
  BY <1>6, StreamBridges
<1>7. ASSUME NEW s \in Slots, AnchorPurged(s) PROVE Bridges' /\ Reaches'
  BY <1>7, AnchorBridges
<1>8. ASSUME NEW s \in Slots, ForwardPage(s) PROVE Bridges' /\ Reaches'
  BY <1>8, ForwardPageOf, ForwardBridges
<1>9. ASSUME NEW s \in Slots, LatestPage(s) \/ SearchPage(s) PROVE Bridges' /\ Reaches'
  BY <1>9, BackwardPageOf, BackwardBridges
<1> QED
  BY <1>1, <1>2, <1>3, <1>4, <1>5, <1>6, <1>7, <1>8, <1>9, StepKinds

-----------------------------------------------------------------------------
(* Rooms are walked once at a time.                                         *)

\* A room is walked once at a time.
RoomsOnce == kind = "room" => OneWalk

\* A room starts a walk only when it has none.
LEMMA StepRoomsOnce ==
  ASSUME Basics, RoomsOnce, [Next]_vars
  PROVE  RoomsOnce'
<1>0. Shape /\ "front" \in Slots /\ "back" \in Slots
  BY DEF Basics, Slots
<1>1. CASE Plain
  <2>1. kind' = kind /\ \A s \in Slots : walk'[s] = walk[s] \/ walk'[s] = NoWalk
    BY <1>0, <1>1, PlainFrame DEF Plain
  <2> QED
    BY <2>1 DEF RoomsOnce, OneWalk
<1>2. CASE Starts
  <2>1. /\ kind' = kind
        /\ \/ UNCHANGED walk
           \/ \E s \in Slots :
                /\ \A t \in Slots : t # s => walk'[t] = walk[t]
                /\ (kind = "room" \/ s = "front") => \A t \in Slots : walk[t] = NoWalk
    BY <1>0, <1>2, StartFrame DEF Starts
  <2>2. CASE UNCHANGED walk
    BY <2>1, <2>2 DEF RoomsOnce, OneWalk
  <2>3. CASE \E s \in Slots :
               /\ \A t \in Slots : t # s => walk'[t] = walk[t]
               /\ (kind = "room" \/ s = "front") => \A t \in Slots : walk[t] = NoWalk
    <3>1. PICK s \in Slots :
               /\ \A t \in Slots : t # s => walk'[t] = walk[t]
               /\ (kind = "room" \/ s = "front") => \A t \in Slots : walk[t] = NoWalk
      BY <2>3
    <3>2. PICK t \in Slots : t # s
      BY <1>0
    <3>3. kind = "room" => walk'[t] = NoWalk
      BY <3>1, <3>2
    <3> QED
      BY <2>1, <3>3 DEF RoomsOnce, OneWalk
  <2> QED
    BY <2>1, <2>2, <2>3
<1>3. CASE WriteCommits \/ WriteFails
  <2>1. UNCHANGED <<kind, walk>>
    BY <1>0, <1>3, CommitFrame, FailFrame
  <2> QED
    BY <2>1 DEF RoomsOnce, OneWalk
<1>4. CASE Crash
  <2>1. \A s \in Slots : walk'[s] = NoWalk
    BY <1>0, <1>4, CrashFrame
  <2> QED
    BY <1>0, <2>1 DEF RoomsOnce, OneWalk
<1>5. CASE Arrive \/ Resume
  <2>1. UNCHANGED <<kind, walk>>
    BY <1>0, <1>5, StreamFrame
  <2> QED
    BY <2>1 DEF RoomsOnce, OneWalk
<1>6. ASSUME NEW s \in Slots, AnchorPurged(s) \/ ForwardPage(s) \/ LatestPage(s) \/ SearchPage(s)
      PROVE  RoomsOnce'
  <2>1. /\ kind' = kind /\ walk[s].phase # "none"
        /\ \A t \in Slots : t # s => walk'[t] = walk[t]
    <3>1. CASE AnchorPurged(s)
      BY <1>0, <3>1, AnchorFrame
    <3>2. CASE ForwardPage(s)
      BY <1>0, <3>2, ForwardFrame
    <3>3. CASE LatestPage(s)
      BY <1>0, <3>3, LatestFrame
    <3>4. CASE SearchPage(s)
      BY <1>0, <3>4, SearchFrame
    <3> QED
      BY <1>6, <3>1, <3>2, <3>3, <3>4
  <2>2. PICK t \in Slots : t # s
    BY <1>0
  <2>3. OneWalk => walk[t] = NoWalk
    BY <2>1, <2>2, OtherSlot DEF OneWalk
  <2>4. OneWalk => OneWalk'
    BY <2>1, <2>2, <2>3 DEF OneWalk
  <2> QED
    BY <2>1, <2>4 DEF RoomsOnce
<1> QED
  BY <1>1, <1>2, <1>3, <1>4, <1>5, <1>6, StepKinds

\* At first there are no walks.
LEMMA InitRoomsOnce == Init => RoomsOnce
  BY DEF Init, RoomsOnce, OneWalk, Slots

-----------------------------------------------------------------------------
\* What the transition of write i takes out of the gaps is stored, stored by
\* then, or above all that will be.
Backs(i) ==
  \A p \in Displayable : p \in Covered(gaps) /\ p \notin Covered(queue[i].next) =>
    p \in Held \cup UpTo(queue, i) \/ \A x \in cache \cup RowsTo(queue, i) : x < p
\* So it is for every transition that may still be applied.
Backed == Intact => \A i \in 1..Len(queue) : queue[i].commit /\ queue[i].fresh => Backs(i)

\* What leaves the gaps is stored, or is above all that is.
Leaves ==
  \A p \in Displayable : p \in Covered(gaps) /\ p \notin Covered(gaps') =>
    p <= purged \/ p \in cache' \/ p \in heard \/ \A q \in cache' : q < p

\* It stays so when the list is the one there was, and the queue too but for
\* its end.
LEMMA BackedSame ==
  ASSUME Backed, Intact' => Intact, Held \subseteq Held',
         UNCHANGED <<cache, gaps>>,
         \A i \in 1..Len(queue') : queue'[i].commit /\ queue'[i].fresh =>
            /\ i \in 1..Len(queue) /\ queue[i].commit /\ queue[i].fresh /\ queue'[i].next = queue[i].next
            /\ UpTo(queue', i) = UpTo(queue, i) /\ RowsTo(queue', i) = RowsTo(queue, i)
  PROVE  Backed'
<1> SUFFICES ASSUME Intact', NEW i \in 1..Len(queue'), queue'[i].commit, queue'[i].fresh,
                    NEW p \in Displayable, p \in Covered(gaps'), p \notin Covered(queue'[i].next)
             PROVE  p \in Held' \cup UpTo(queue', i) \/ \A x \in cache' \cup RowsTo(queue', i) : x < p
  BY DEF Backed, Backs
<1>1. Backs(i)
  BY DEF Backed
<1>2. p \in Held \cup UpTo(queue, i) \/ \A x \in cache \cup RowsTo(queue, i) : x < p
  BY <1>1 DEF Backs
<1> QED
  BY <1>2

\* The steps that store nothing leave it so.
LEMMA PlainBacked ==
  ASSUME Basics, Backed, Plain
  PROVE  Backed' /\ gaps' = gaps
<1>1. /\ UNCHANGED <<cache, gaps, queue, poisoned, heard, lost>>
      /\ purged' \in Nat /\ purged \in Nat /\ purged <= purged'
  BY PlainFrame DEF Basics, Plain
<1>2. Held \subseteq Held'
  BY <1>1, HeldGrows
<1> QED
  BY <1>1, <1>2, BackedSame DEF Intact

\* The steps that start a walk leave it so.
LEMMA StartBacked ==
  ASSUME Basics, Backed, Starts
  PROVE  Backed' /\ gaps' = gaps
<1>1. UNCHANGED <<purged, cache, gaps, queue, poisoned, heard, lost>>
  BY StartFrame DEF Basics, Starts
<1>2. Held' = Held
  BY <1>1 DEF Held, Known
<1> QED
  BY <1>1, <1>2, BackedSame DEF Intact

\* What the stream delivers has no transition.
LEMMA StreamBacked ==
  ASSUME Basics, Backed, Arrive \/ Resume
  PROVE  Backed' /\ gaps' = gaps
<1>1. /\ UNCHANGED <<purged, cache, gaps, poisoned, lost>>
      /\ \E h \in SUBSET Displayable :
            /\ heard' = heard \cup h
            /\ \/ h = {} /\ queue' = queue
               \/ queue' = Append(queue, LiveJob(h))
  BY StreamFrame DEF Basics
<1>2. PICK h \in SUBSET Displayable :
            /\ heard' = heard \cup h
            /\ \/ h = {} /\ queue' = queue
               \/ queue' = Append(queue, LiveJob(h))
  BY <1>1
<1>3. purged \in Nat
  BY NumberFacts DEF Basics, Shape, TypeOK
<1>4. Held \subseteq Held'
  BY <1>1, <1>2, <1>3, HeldGrows
<1>5. CASE queue' = queue
  BY <1>1, <1>4, <1>5, BackedSame DEF Intact
<1>6. CASE queue' = Append(queue, LiveJob(h))
  <2>1. LiveJob(h) \in Job /\ queue \in Seq(Job) /\ ~LiveJob(h).commit
    BY LiveJobOK DEF LiveJob, Basics, Shape, TypeOK
  <2>2. Longer(queue, LiveJob(h), queue')
    BY <1>6, <2>1, RowsAppend
  <2>3. \A i \in 1..Len(queue') : \/ i \in 1..Len(queue) /\ queue'[i] = queue[i]
                                  \/ queue'[i] = LiveJob(h)
    BY <1>6, <2>1, QueueAppend
  <2>4. \A i \in 1..Len(queue') : queue'[i].commit /\ queue'[i].fresh =>
            /\ i \in 1..Len(queue) /\ queue[i].commit /\ queue[i].fresh /\ queue'[i].next = queue[i].next
            /\ UpTo(queue', i) = UpTo(queue, i) /\ RowsTo(queue', i) = RowsTo(queue, i)
    BY <2>1, <2>2, <2>3 DEF Longer
  <2> QED
    BY <1>1, <1>4, <2>4, BackedSame DEF Intact
<1> QED
  BY <1>1, <1>2, <1>5, <1>6

\* An expired resume id makes the transitions stale, if it is a gap's.
LEMMA AnchorBacked ==
  ASSUME Basics, Backed, NEW s \in Slots, AnchorPurged(s)
  PROVE  Backed' /\ Covered(gaps') = Covered(gaps)
<1>1. /\ UNCHANGED <<purged, cache, poisoned, heard, lost>>
      /\ gaps' = ClearGapAnchor(gaps, walk[s].after)
      /\ queue \in Seq(Job)
      /\ (queue' = queue /\ gaps' = gaps) \/ queue' = Stale(queue)
  BY AnchorFrame DEF Basics
<1>2. Alike(gaps', gaps)
  BY <1>1, AlikeCleared DEF Basics, Shape, TypeOK
<1>3. Covered(gaps') = Covered(gaps)
  BY <1>2, CoveredAlike
<1>4. Held' = Held
  BY <1>1 DEF Held, Known
<1>5. CASE queue' = queue /\ gaps' = gaps
  BY <1>1, <1>3, <1>4, <1>5, BackedSame DEF Intact
<1>6. CASE queue' = Stale(queue)
  <2>1. Len(queue') = Len(queue) /\ \A i \in 1..Len(queue) : ~queue'[i].fresh
    BY <1>1, <1>6, QueueStale
  <2> QED
    BY <1>3, <2>1 DEF Backed
<1> QED
  BY <1>1, <1>5, <1>6

\* A write that commits applies a transition that is backed.
LEMMA CommitBacked ==
  ASSUME Basics, Backed, WriteCommits
  PROVE  Backed' /\ (~lost => Leaves)
<1> DEFINE job == Head(queue)
<1>1. /\ UNCHANGED <<purged, poisoned, heard, lost>>
      /\ queue \in Seq(Job) /\ queue # <<>>
      /\ cache' = cache \cup job.rows
      /\ gaps' = IF Applies(job) THEN job.next ELSE gaps
      /\ queue' = IF Applies(job) THEN Stale(Tail(queue)) ELSE Tail(queue)
  BY CommitFrame DEF Basics
<1>0. queue \in Seq(Job) /\ queue # <<>> /\ (queue' = Tail(queue) \/ queue' = Stale(Tail(queue)))
  BY <1>1
<1>2. /\ Len(queue) \in Nat /\ Len(queue') \in Nat /\ Len(queue) = Len(queue') + 1
      /\ 1 \in 1..Len(queue) /\ job = queue[1]
      /\ \A i \in 1..Len(queue') : i + 1 \in 1..Len(queue)
      /\ queue' = Stale(Tail(queue)) => \A i \in 1..Len(queue') : ~queue'[i].fresh
      /\ queue' = Tail(queue) => \A i \in 1..Len(queue') : queue'[i] = queue[i + 1]
  BY <1>0, QueueTail
<1>3. Shorter(queue, queue')
  BY <1>0, RowsTail
<1>4. purged \in Nat
  BY NumberFacts DEF Basics, Shape, TypeOK
<1>5. Held \subseteq Held'
  BY <1>1, <1>4, HeldGrows
<1>6. job.rows \subseteq Displayable
  BY <1>2, RowsOf DEF Basics
<1> HIDE DEF job
<1>7. /\ UpTo(queue, 1) = Added(job) /\ RowsTo(queue, 1) = job.rows
      /\ \A n \in 0..Len(queue') : /\ UpTo(queue, n + 1) = Added(job) \cup UpTo(queue', n)
                                    /\ RowsTo(queue, n + 1) = job.rows \cup RowsTo(queue', n)
  BY <1>3 DEF Shorter, job
<1>8. Added(job) \subseteq job.rows /\ job.rows \subseteq Held'
  BY <1>1, <1>6 DEF Added, Held, Known
<1>9. Backed'
  <2>1. CASE Applies(job)
    BY <1>1, <1>2, <2>1 DEF Backed
  <2>2. CASE ~Applies(job)
    <3> SUFFICES ASSUME Intact', NEW i \in 1..Len(queue'), queue'[i].commit, queue'[i].fresh,
                        NEW p \in Displayable, p \in Covered(gaps'), p \notin Covered(queue'[i].next)
                 PROVE  p \in Held' \cup UpTo(queue', i) \/ \A x \in cache' \cup RowsTo(queue', i) : x < p
      BY DEF Backed, Backs
    <3>1. /\ Intact /\ gaps' = gaps /\ i + 1 \in 1..Len(queue)
          /\ queue'[i] = queue[i + 1] /\ i \in 0..Len(queue')
      BY <1>1, <1>2, <2>2 DEF Intact
    <3>2. PICK j \in 1..Len(queue) : j = i + 1
      BY <3>1
    <3>3. Backs(j)
      BY <3>1, <3>2 DEF Backed
    <3>4. p \in Held \cup UpTo(queue, j) \/ \A x \in cache \cup RowsTo(queue, j) : x < p
      BY <3>1, <3>2, <3>3 DEF Backs
    <3>5. /\ UpTo(queue, j) = Added(job) \cup UpTo(queue', i)
          /\ RowsTo(queue, j) = job.rows \cup RowsTo(queue', i)
      BY <1>7, <3>1, <3>2
    <3> QED
      BY <1>1, <1>5, <1>8, <3>4, <3>5
  <2> QED
    BY <2>1, <2>2
<1>10. ASSUME ~lost, NEW p \in Displayable, p \in Covered(gaps), p \notin Covered(gaps')
       PROVE  p <= purged \/ p \in cache' \/ p \in heard \/ \A q \in cache' : q < p
  <2>1. Applies(job)
    BY <1>1, <1>10
  <2>2. Intact /\ job.commit /\ gaps' = job.next
    BY <1>1, <1>10, <2>1 DEF Applies, Intact
  <2>3. job.fresh
    <3>1. gaps # {}
      BY <1>10 DEF Covered, Inside
    <3> QED
      BY <2>1, <3>1 DEF Applies
  <2>4. Backs(1)
    BY <1>2, <2>2, <2>3 DEF Backed
  <2>5. p \in Held \cup UpTo(queue, 1) \/ \A x \in cache \cup RowsTo(queue, 1) : x < p
    BY <1>2, <1>10, <2>2, <2>4 DEF Backs
  <2>6. p \in Held' \/ \A x \in cache' : x < p
    BY <1>1, <1>5, <1>7, <1>8, <2>5
  <2> QED
    BY <1>1, <2>6 DEF Held, Known
<1> QED
  BY <1>9, <1>10 DEF Leaves

-----------------------------------------------------------------------------
\* A page whose uncovered messages are stored, on their way or yet to come
\* leaves a backed transition, or applies it at once with nothing on its way.
LEMMA StoreBacked ==
  ASSUME Basics, Intact, Backed, NEW s \in Slots, NEW rows, NEW next, StoresPage(s, rows, next), Timely',
         Uncovers(rows, next)
  PROVE  Backed' /\ Leaves
<1> DEFINE job == PageJob(rows, next)
<1>1. UNCHANGED <<purged, seen, cache, poisoned, heard, lost>>
  BY DEF StoresPage
<1>2. /\ queue \in Seq(Job) /\ job \in Job /\ job.rows = rows \ Existing /\ job.archive
      /\ (job.commit => job.next = next) /\ Existing \subseteq resident
      /\ \/ queue' = queue /\ gaps' = gaps
         \/ queue' = queue /\ gaps' = next /\ rows \subseteq Existing /\ ~SavesHas
         \/ queue' = Append(queue, job) /\ gaps' = gaps
  BY StoresOf DEF Stores
<1> HIDE DEF job
<1>3. Held' = Held
  BY <1>1 DEF Held, Known
<1>4. Existing \subseteq Settled
  BY <1>2 DEF Basics, Content, Intact
<1>5. CASE queue' = queue /\ gaps' = gaps
  <2>1. Backed'
    BY <1>1, <1>3, <1>5, BackedSame DEF Intact
  <2> QED
    BY <1>5, <2>1 DEF Leaves
<1>6. CASE queue' = queue /\ gaps' = next /\ rows \subseteq Existing /\ ~SavesHas
  <2>1. \A i \in 1..Len(queue) : ~queue[i].archive /\ ~queue[i].commit
    BY <1>6 DEF SavesHas, Basics, Stocked
  <2>2. Backed'
    BY <1>6, <2>1 DEF Backed
  <2>3. Pending(queue) = {}
    BY <2>1 DEF Pending, UpTo
  <2>4. Settled = Held
    BY <2>3 DEF Settled
  <2>5. ASSUME NEW p \in Displayable, p \in Covered(gaps), p \notin Covered(gaps')
        PROVE  p \in Held \/ \A q \in cache : q < p
    <3>1. p \in Settled \cup rows \/ p > seen
      BY <1>6, <2>5 DEF Uncovers
    <3>2. CASE p > seen
      BY <3>2, Displayed, SeenOK DEF Basics, Timely, Shape, TypeOK
    <3> QED
      BY <1>4, <1>6, <2>4, <3>1, <3>2
  <2>6. Leaves
    BY <1>1, <2>5 DEF Leaves, Held, Known
  <2> QED
    BY <2>2, <2>6
<1>7. CASE queue' = Append(queue, job) /\ gaps' = gaps
  <2>1. Longer(queue, job, queue')
    BY <1>2, <1>7, RowsAppend
  <2>2. /\ \A i \in 1..Len(queue') : \/ i \in 1..Len(queue) /\ queue'[i] = queue[i]
                                     \/ i = Len(queue') /\ queue'[i] = job
    BY <1>2, <1>7, QueueAppend
  <2>3. UpTo(queue', Len(queue')) = Pending(queue) \cup (rows \ Existing)
    BY <1>2, <2>1 DEF Longer, Added, Pending
  <2> SUFFICES ASSUME Intact', NEW i \in 1..Len(queue'), queue'[i].commit, queue'[i].fresh,
                      NEW p \in Displayable, p \in Covered(gaps'), p \notin Covered(queue'[i].next)
               PROVE  p \in Held' \cup UpTo(queue', i) \/ \A x \in cache' \cup RowsTo(queue', i) : x < p
    BY <1>7 DEF Backed, Backs, Leaves
  <2>4. CASE i \in 1..Len(queue) /\ queue'[i] = queue[i]
    <3>1. Backs(i)
      BY <2>4 DEF Backed
    <3>2. p \in Held \cup UpTo(queue, i) \/ \A x \in cache \cup RowsTo(queue, i) : x < p
      BY <1>7, <2>4, <3>1 DEF Backs
    <3>3. UpTo(queue', i) = UpTo(queue, i) /\ RowsTo(queue', i) = RowsTo(queue, i)
      BY <2>1, <2>4 DEF Longer
    <3> QED
      BY <1>1, <1>3, <3>2, <3>3
  <2>5. CASE i = Len(queue') /\ queue'[i] = job
    <3>1. p \in Settled \cup rows \/ p > seen
      BY <1>2, <1>7, <2>5 DEF Uncovers
    <3>2. CASE p \in Settled \cup rows
      <4>1. p \in Settled \/ p \in rows \ Existing
        BY <1>4, <3>2
      <4> QED
        BY <1>3, <2>3, <2>5, <4>1 DEF Settled
    <3>3. CASE p > seen
      <4>1. \A x \in cache' \cup RowsTo(queue', i) : x <= seen /\ x \in Nat
        BY <1>1, Displayed DEF Timely, RowsTo, Basics, Shape, TypeOK
      <4> QED
        BY <3>3, <4>1, Displayed, SeenOK DEF Basics
    <3> QED
      BY <3>1, <3>2, <3>3
  <2> QED
    BY <2>2, <2>4, <2>5
<1> QED
  BY <1>2, <1>5, <1>6, <1>7

\* Once a write has failed no page and no write changes the list.
LEMMA PoisonedKeeps ==
  ASSUME Basics, poisoned, NEW s \in Slots, NEW rows, NEW next, StoresPage(s, rows, next)
  PROVE  gaps' = gaps
<1>1. gaps' = gaps \/ ~SavesHas
  BY StoresOf DEF Stores
<1> QED
  BY <1>1 DEF SavesHas

\* So does a page of a forward walk.
LEMMA ForwardBacked ==
  ASSUME Basics, Backed, Timely', NEW s \in Slots, NEW page, NEW merging, NEW last, NEW complete, NEW top,
         ForwardStores(s, page, merging, last, complete, top)
  PROVE  Backed' /\ (~lost => Leaves)
<1> DEFINE next == AfterForwardPage(gaps, merging, walk[s].origin, last, complete, Existing \cup merging)
<1>1. /\ StoresPage(s, merging, next) \/ UNCHANGED <<gaps, queue, resident>>
      /\ UNCHANGED <<purged, cache, poisoned, heard, lost>>
  BY DEF ForwardStores
<1>2. Intact => Uncovers(merging, next)
  BY ForwardUncovers DEF Intact
<1> HIDE DEF next
<1>3. CASE UNCHANGED <<gaps, queue, resident>>
  <2>1. Held' = Held
    BY <1>1 DEF Held, Known
  <2>2. Backed'
    BY <1>1, <1>3, <2>1, BackedSame DEF Intact
  <2> QED
    BY <1>3, <2>2 DEF Leaves
<1>4. CASE StoresPage(s, merging, next) /\ Intact
  BY <1>2, <1>4, StoreBacked
<1>5. CASE StoresPage(s, merging, next) /\ ~Intact
  <2>1. Backed'
    BY <1>1, <1>5 DEF Backed, Intact
  <2>2. ~lost => gaps' = gaps
    BY <1>5, PoisonedKeeps DEF Intact
  <2> QED
    BY <2>1, <2>2 DEF Leaves
<1> QED
  BY <1>1, <1>3, <1>4, <1>5

\* So does a page walked down.
LEMMA BackwardBacked ==
  ASSUME Basics, Bridges, Backed, Timely', NEW s \in Slots, NEW rows, NEW complete, NEW low, NEW bound, NEW latest,
         BackwardStores(s, rows, complete, low, bound, latest)
  PROVE  Backed' /\ (~lost => Leaves)
<1> DEFINE next == AfterBackwardPage(gaps, rows, complete, latest, Existing)
<1>1. StoresPage(s, rows, next)
  BY DEF BackwardStores
<1>2. Intact => Uncovers(rows, next)
  BY BackwardUncovers
<1> HIDE DEF next
<1>3. UNCHANGED <<poisoned, lost>>
  BY <1>1 DEF StoresPage
<1>4. CASE Intact
  BY <1>1, <1>2, <1>4, StoreBacked
<1>5. CASE ~Intact
  <2>1. Backed'
    BY <1>3, <1>5 DEF Backed, Intact
  <2>2. ~lost => gaps' = gaps
    BY <1>1, <1>5, PoisonedKeeps DEF Intact
  <2> QED
    BY <2>1, <2>2 DEF Leaves
<1> QED
  BY <1>4, <1>5

\* Every step keeps it, and takes out of the gaps only what is stored.
LEMMA StepBacked ==
  ASSUME Basics, Bridges, Backed, [Next]_vars
  PROVE  Backed' /\ (~lost => Leaves)
<1>0. Timely'
  BY StepBasics DEF Basics
<1>1. CASE Plain
  BY <1>1, PlainBacked DEF Leaves
<1>2. CASE Starts
  BY <1>2, StartBacked DEF Leaves
<1>3. CASE WriteCommits
  BY <1>3, CommitBacked
<1>4. CASE WriteFails
  <2>1. ~Intact'
    BY <1>4, FailStocked DEF Basics
  <2>2. gaps' = gaps
    BY <1>4, FailFrame DEF Basics
  <2> QED
    BY <2>1, <2>2 DEF Backed, Leaves
<1>5. CASE Crash
  <2>1. Len(queue') = 0 /\ gaps' = gaps
    BY <1>5, CrashFrame DEF Basics
  <2>2. \A i \in 1..Len(queue') : FALSE
    BY <2>1
  <2> QED
    BY <2>1, <2>2 DEF Backed, Leaves
<1>6. CASE Arrive \/ Resume
  BY <1>6, StreamBacked DEF Leaves
<1>7. ASSUME NEW s \in Slots, AnchorPurged(s) PROVE Backed' /\ (~lost => Leaves)
  BY <1>7, AnchorBacked DEF Leaves
<1>8. ASSUME NEW s \in Slots, ForwardPage(s) PROVE Backed' /\ (~lost => Leaves)
  BY <1>0, <1>8, ForwardPageOf, ForwardBacked
<1>9. ASSUME NEW s \in Slots, LatestPage(s) \/ SearchPage(s) PROVE Backed' /\ (~lost => Leaves)
  BY <1>0, <1>9, BackwardPageOf, BackwardBacked
<1> QED
  BY <1>1, <1>2, <1>3, <1>4, <1>5, <1>6, <1>7, <1>8, <1>9, StepKinds

-----------------------------------------------------------------------------
(* The theorems.                                                            *)

\* A conversation stays one, a room too.
LEMMA NextKind == [Next]_vars => kind' = kind
  BY DEF Next, Fault, Step, Page, QueryFails, QueryLost, WriteCommits, WriteFails, ServerArchives, ServerPurges,
     Arrive, GoOnline, Resume, Drop, Crash, Activate, Deactivate, StartFront, LoadMissing, ListConversation,
     StartBack, SkipListed, AnchorPurged, ForwardPage, LatestPage, SearchPage, SearchEnds, FailWalk,
     startUnchanged, pageUnchanged, vars

\* A room is walked by the side effects or by the background pass, never by
\* both: each starts only when neither has a walk (backgroundSync.ts,
\* roomSideEffects.ts).
THEOREM RoomsWalkOnce == Spec => [](kind = "room" => OneWalk)
<1>1. Init => Basics /\ RoomsOnce
  BY InitBasics, InitRoomsOnce
<1>2. Basics /\ RoomsOnce /\ [Next]_vars => (Basics /\ RoomsOnce)'
  BY StepBasics, StepRoomsOnce
<1>3. Basics /\ RoomsOnce => (kind = "room" => OneWalk)
  BY DEF RoomsOnce
<1> QED
  BY <1>1, <1>2, <1>3, PTL DEF Spec, Safety

\* A position leaves the recorded gaps only when it is stored, expired,
\* delivered, or above all that is stored, whatever writes fail, whatever a
\* reload cuts off and whatever page comes when, as long as the two walks of a
\* conversation do not overlap and no message the stream delivered was lost
\* (archiveMerge.ts, archiveSaveChain.ts, MAM.ts).
THEOREM HolesCorrect == Spec /\ [](kind = "chat" => OneWalk) => HolesLeaveOnlyWhenStored
<1> DEFINE Inv == Basics /\ RoomsOnce /\ Bridges /\ Reaches /\ Backed
<1>1. Init => Inv
  <2>1. Init => Len(queue) = 0
    BY EmptySeq DEF Init
  <2>2. Len(queue) = 0 => \A i \in 1..Len(queue) : FALSE
    OBVIOUS
  <2>3. Init => Backed
    BY <2>1, <2>2 DEF Backed
  <2> QED
    BY <2>3, InitBasics, InitRoomsOnce, InitBridges
<1>2. Basics /\ RoomsOnce /\ (kind = "chat" => OneWalk) => OneWalk
  BY NumberFacts DEF RoomsOnce, Basics, Shape, TypeOK
<1>3. ASSUME Inv, kind = "chat" => OneWalk, (kind = "chat" => OneWalk)', [Next]_vars
      PROVE  Inv' /\ (~lost => Leaves)
  <2>1. Basics' /\ RoomsOnce'
    BY <1>3, StepBasics, StepRoomsOnce
  <2>2. OneWalk
    BY <1>2, <1>3
  <2>3. OneWalk'
    BY <1>3, <2>1, NumberFacts DEF RoomsOnce, Basics, Shape, TypeOK
  <2>4. Bridges' /\ Reaches'
    BY <1>3, <2>2, <2>3, StepBridges
  <2> QED
    BY <1>3, <2>1, <2>4, StepBacked
<1>4. Leaves => \A p \in (Displayable \cap Covered(gaps)) \ Covered(gaps') :
                  p <= purged \/ p \in cache' \/ p \in heard \/ \A q \in cache' : q < p
  BY DEF Leaves
<1>5. (kind = "chat" => OneWalk) /\ (kind = "chat" => OneWalk)' /\ Inv /\ [Next]_vars =>
        /\ Inv'
        /\ [~lost => \A p \in (Displayable \cap Covered(gaps)) \ Covered(gaps') :
              p <= purged \/ p \in cache' \/ p \in heard \/ \A q \in cache' : q < p]_vars
  BY <1>3, <1>4
<1> QED
  BY <1>1, <1>5, PTL DEF Spec, Safety, HolesLeaveOnlyWhenStored

\* For rooms, whose walks never overlap, with no such hypothesis.
COROLLARY RoomHolesCorrect == Spec /\ kind = "room" => HolesLeaveOnlyWhenStored
<1>1. kind = "room" /\ [Next]_vars => (kind = "room")'
  BY NextKind
<1>2. kind = "room" => (kind = "chat" => OneWalk)
  OBVIOUS
<1> QED
  BY <1>1, <1>2, HolesCorrect, PTL DEF Spec, Safety
=============================================================================
