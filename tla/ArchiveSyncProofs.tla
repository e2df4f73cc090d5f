-------------------------- MODULE ArchiveSyncProofs --------------------------
(***************************************************************************)
(* For any archive, any page sizes and budgets, any faults and both kinds  *)
(* of entity: the recorded gaps stay ordered and disjoint, and the id a    *)
(* gap is resumed after leaps over no message.                             *)
(***************************************************************************)
EXTENDS ArchiveSync, TLAPS, SequenceTheorems, WellFoundedInduction

-----------------------------------------------------------------------------
(* The newest and the oldest of a set.                                     *)

LEMMA OldestOf ==
  ASSUME NEW ps, ps \subseteq Nat, ps # {}
  PROVE  Oldest(ps) \in ps /\ \A q \in ps : Oldest(ps) <= q
<1> DEFINE Less == OpToRel(<, Nat)
<1>1. IsWellFoundedOn(Less, Nat)
  BY NatLessThanWellFounded
<1>2. \A d, e \in Nat : d < e => <<d, e>> \in Less
  BY DEF OpToRel
<1> HIDE DEF Less
<1>3. PICK p \in ps : \A e \in ps : ~(<<e, p>> \in Less)
  BY <1>1, WFMin
<1>4. ASSUME NEW q \in ps PROVE p <= q
  <2>1. ~(q < p)
    BY <1>2, <1>3, p \in Nat, q \in Nat
  <2> QED
    BY <2>1, p \in Nat, q \in Nat
<1> QED
  BY <1>4 DEF Oldest

LEMMA NewestOf ==
  ASSUME NEW N \in Nat, NEW ps, ps \subseteq 0..N, ps # {}
  PROVE  Newest(ps) \in ps /\ \A q \in ps : q <= Newest(ps)
<1> DEFINE Below == {N - q : q \in ps}
<1>1. Below \subseteq Nat /\ Below # {}
  <2>1. PICK q \in ps : N - q \in Below
    OBVIOUS
  <2>2. \A r \in ps : N - r \in Nat
    OBVIOUS
  <2> QED
    BY <2>1, <2>2
<1>2. \A q \in ps : N - q \in Below
  OBVIOUS
<1>3. \A e \in Below : \E q \in ps : e = N - q
  OBVIOUS
<1> HIDE DEF Below
<1>4. Oldest(Below) \in Below /\ \A e \in Below : Oldest(Below) <= e
  BY <1>1, OldestOf
<1>5. PICK p \in ps : Oldest(Below) = N - p
  BY <1>3, <1>4
<1>6. ASSUME NEW q \in ps PROVE q <= p
  <2>1. N - p <= N - q
    BY <1>2, <1>4, <1>5
  <2> QED
    BY <2>1, p \in Nat, q \in Nat
<1> QED
  BY <1>6 DEF Newest

-----------------------------------------------------------------------------
(* normalizeGapList.                                                       *)

\* The record that a cluster takes its end from exists.
LEMMA FarthestOf ==
  ASSUME NEW list, list \subseteq Gap, NEW s, Cluster(list, s) # {}
  PROVE  /\ Farthest(list, s) \in Cluster(list, s)
         /\ \A k \in Cluster(list, s) : k.end <= Farthest(list, s).end
<1> DEFINE C    == Cluster(list, s)
           Ends == {k.end : k \in C}
<1>1. C \subseteq Gap /\ C # {}
  BY DEF Cluster
<1>2. \A k \in C : k.end \in 0..Edge /\ k.start \in 0..MaxPos
  BY <1>1, MaxPosAssumption DEF Gap, Pos, Edge
<1>3. Ends \subseteq 0..Edge /\ Ends # {}
  BY <1>1, <1>2
<1>12. Edge \in Nat
  BY MaxPosAssumption DEF Edge
<1>4. Newest(Ends) \in Ends /\ \A e \in Ends : e <= Newest(Ends)
  BY <1>3, <1>12, NewestOf
<1> DEFINE Far == {k \in C : k.end = Newest(Ends)}
           Starts == {k.start : k \in Far}
<1>5. Far # {}
  BY <1>4
<1>6. Starts \subseteq 0..MaxPos /\ Starts # {}
  BY <1>2, <1>5
<1>7. Newest(Starts) \in Starts /\ \A e \in Starts : e <= Newest(Starts)
  BY <1>6, NewestOf, MaxPosAssumption
<1>8. PICK h \in Far : h.start = Newest(Starts)
  BY <1>7
<1>9. ASSUME NEW k \in C PROVE k.end < h.end \/ (k.end = h.end /\ k.start <= h.start)
  <2>1. k.end <= h.end
    BY <1>4, <1>8
  <2>2. CASE k.end = h.end
    <3>1. k \in Far
      BY <1>8, <2>2
    <3>2. k.start \in Starts
      BY <3>1
    <3> QED
      BY <1>7, <1>8, <2>2, <3>2
  <2>3. CASE k.end # h.end
    BY <2>1, <2>3, <1>2, <1>8
  <2> QED
    BY <2>2, <2>3
<1>10. \E g \in C : \A k \in C : k.end < g.end \/ (k.end = g.end /\ k.start <= g.start)
  BY <1>8, <1>9
<1>11. /\ Farthest(list, s) \in C
       /\ \A k \in C : k.end < Farthest(list, s).end
                       \/ (k.end = Farthest(list, s).end /\ k.start <= Farthest(list, s).start)
  BY <1>10 DEF Farthest
<1> QED
  BY <1>11, <1>2

\* The start of a cluster is the start of a record in it.
LEMMA HeadIn ==
  ASSUME NEW list, list \subseteq Gap, NEW s \in Heads(list)
  PROVE  /\ \E g \in Cluster(list, s) : g.start = s
         /\ s \in Pos
         /\ \A h \in list : h.start < s => h.end <= s
<1>1. PICK g \in list : g.start = s /\ \A h \in list : h.start < g.start => h.end <= g.start
  BY DEF Heads
<1>2. s \in Pos
  BY <1>1 DEF Gap
<1>3. g \in Cluster(list, s)
  BY <1>1, <1>2 DEF Cluster, Pos
<1> QED
  BY <1>1, <1>2, <1>3

\* What Joined makes of a cluster: its start and id from one record, its end
\* from another that reaches at least as far as every record of the cluster.
LEMMA JoinedOf ==
  ASSUME NEW list, list \subseteq Gap, \A g \in list : g.start < g.end,
         NEW s \in Heads(list)
  PROVE  LET j == Joined(list, s) IN
         /\ j \in Gap /\ j.start = s /\ j.start < j.end
         /\ \E g \in list : g.start = s /\ g.startId = j.startId
         /\ \E h \in Cluster(list, s) : h.end = j.end /\ (j.endId = h.endId \/ j.endId = NoId)
         /\ \A k \in Cluster(list, s) : k.end <= j.end
<1> DEFINE far   == Farthest(list, s)
           first == CHOOSE g \in list : g.start = s
           j     == Joined(list, s)
<1>1. PICK g \in Cluster(list, s) : g.start = s
  BY HeadIn
<1>2. far \in Cluster(list, s) /\ \A k \in Cluster(list, s) : k.end <= far.end
  BY <1>1, FarthestOf
<1>3. first \in list /\ first.start = s
  BY <1>1 DEF Cluster
<1>4. far \in list /\ g \in list /\ far \in Gap /\ g \in Gap /\ first \in Gap
  BY <1>1, <1>2, <1>3 DEF Cluster
<1>5. s < far.end
  <2>1. g.end <= far.end /\ g.start < g.end
    BY <1>1, <1>2, <1>4
  <2> QED
    BY <2>1, <1>1, <1>4, MaxPosAssumption DEF Gap, Pos, Edge
<1>6. j = [start |-> s, end |-> far.end, startId |-> first.startId,
           endId |-> IF far.end = Edge THEN NoId ELSE far.endId]
  BY DEF Joined
<1>7. j \in Gap
  BY <1>3, <1>4, <1>6 DEF Gap
<1>8. j.start = s /\ j.end = far.end /\ j.startId = first.startId /\ j.endId \in {far.endId, NoId}
  BY <1>6
<1> HIDE DEF far, first, j
<1>9. \E h \in Cluster(list, s) : h.end = j.end /\ (j.endId = h.endId \/ j.endId = NoId)
  BY <1>2, <1>8
<1>10. j.start < j.end
  BY <1>5, <1>8
<1>11. \A k \in Cluster(list, s) : k.end <= j.end
  BY <1>2, <1>8
<1> QED
  BY <1>3, <1>7, <1>8, <1>9, <1>10, <1>11 DEF j

\* normalizeGapList returns a list that is ordered and disjoint, each of its
\* records drawn from one record's start and another's end.
LEMMA NormalizeOf ==
  ASSUME NEW list, list \subseteq Gap
  PROVE  /\ NormalizeGapList(list) \subseteq Gap
         /\ Normal(NormalizeGapList(list))
         /\ \A j \in NormalizeGapList(list) :
              /\ \E g \in list : g.start = j.start /\ g.startId = j.startId
              /\ \E h \in list : h.end = j.end /\ (j.endId = h.endId \/ j.endId = NoId)
<1> DEFINE valid == {g \in list : g.start < g.end}
<1>1. valid \subseteq Gap /\ \A g \in valid : g.start < g.end
  OBVIOUS
<1>2. NormalizeGapList(list) = {Joined(valid, s) : s \in Heads(valid)}
  BY DEF NormalizeGapList
<1> HIDE DEF valid
<1>3. ASSUME NEW s \in Heads(valid), NEW t \in Heads(valid), s < t
      PROVE  Joined(valid, s).end <= t
  <2>1. PICK h \in Cluster(valid, s) : h.end = Joined(valid, s).end
    BY <1>1, JoinedOf
  <2>2. h \in valid /\ h.start < t
    BY <1>3, <2>1 DEF Cluster
  <2>3. h.end <= t
    BY <1>1, <2>2, HeadIn
  <2> QED
    BY <2>1, <2>3
<1>4. \A s \in Heads(valid) : s \in Pos
  BY <1>1, HeadIn
<1>5. \A s, t \in Heads(valid) : s = t \/ s < t \/ t < s
  BY <1>4 DEF Pos
<1>6. Normal(NormalizeGapList(list))
  <2>1. \A j \in NormalizeGapList(list) : j.start < j.end
    BY <1>1, <1>2, JoinedOf
  <2>2. ASSUME NEW s \in Heads(valid), NEW t \in Heads(valid)
        PROVE  \/ Joined(valid, s) = Joined(valid, t)
               \/ Joined(valid, s).end <= Joined(valid, t).start
               \/ Joined(valid, t).end <= Joined(valid, s).start
    <3>1. Joined(valid, s).start = s /\ Joined(valid, t).start = t
      BY <1>1, JoinedOf
    <3>2. CASE s = t
      BY <3>2
    <3>3. CASE s < t
      BY <1>3, <3>1, <3>3
    <3>4. CASE t < s
      BY <1>3, <3>1, <3>4
    <3> QED
      BY <1>5, <3>2, <3>3, <3>4
  <2> QED
    BY <1>2, <2>1, <2>2 DEF Normal
<1>7. ASSUME NEW s \in Heads(valid)
      PROVE  LET j == Joined(valid, s) IN
             /\ j \in Gap
             /\ \E g \in list : g.start = j.start /\ g.startId = j.startId
             /\ \E h \in list : h.end = j.end /\ (j.endId = h.endId \/ j.endId = NoId)
  <2> DEFINE j == Joined(valid, s)
  <2>1. /\ j \in Gap /\ j.start = s
        /\ \E g \in valid : g.start = s /\ g.startId = j.startId
        /\ \E h \in Cluster(valid, s) : h.end = j.end /\ (j.endId = h.endId \/ j.endId = NoId)
    BY <1>1, JoinedOf
  <2>2. Cluster(valid, s) \subseteq list /\ valid \subseteq list
    BY DEF Cluster, valid
  <2> QED
    BY <2>1, <2>2
<1> QED
  BY <1>2, <1>6, <1>7
-----------------------------------------------------------------------------
(* Sound records: ArchiveSync's ResumeNeverSkips, of one gap and a set of  *)
(* positions that need no fetch any more.                                  *)

Sound(g, ps) ==
  \A p \in Displayable : (g.start <= p /\ p <= g.startId) \/ p = g.end => p \in ps

LEMMA NormalizeSound ==
  ASSUME NEW list, list \subseteq Gap, NEW ps, \A g \in list : Sound(g, ps)
  PROVE  \A j \in NormalizeGapList(list) : Sound(j, ps)
<1> SUFFICES ASSUME NEW j \in NormalizeGapList(list) PROVE Sound(j, ps)
  OBVIOUS
<1>1. PICK g \in list : g.start = j.start /\ g.startId = j.startId
  BY NormalizeOf
<1>2. PICK h \in list : h.end = j.end
  BY NormalizeOf
<1>3. Sound(g, ps) /\ Sound(h, ps)
  OBVIOUS
<1> QED
  BY <1>1, <1>2, <1>3 DEF Sound

LEMMA Displayed == Displayable \subseteq Pos /\ Pos \subseteq Nat /\ Pos \subseteq 0..MaxPos /\ MaxPos \in Nat
  BY MaxPosAssumption DEF Displayable, Pos

\* The gap a forward walk leaves above its last page.
LEMMA OpenedOf ==
  ASSUME NEW newest \in Pos, NEW last \in 0..MaxPos, NEW merged, merged \subseteq Displayable
  PROVE  /\ [start |-> newest, end |-> ComputeGapEnd(merged, newest),
             startId |-> last, endId |-> NoId] \in Gap
         /\ ComputeGapEnd(merged, newest) \in merged \cup {Edge}
<1> DEFINE above == {p \in merged : p > newest}
<1>1. CASE above = {}
  <2>1. ComputeGapEnd(merged, newest) = Edge
    BY <1>1 DEF ComputeGapEnd
  <2> QED
    BY <2>1, MaxPosAssumption DEF Gap, Pos, Edge, NoId
<1>2. CASE above # {}
  <2>1. ComputeGapEnd(merged, newest) = Oldest(above)
    BY <1>2 DEF ComputeGapEnd
  <2>2. above \subseteq Nat
    BY Displayed
  <2>3. Oldest(above) \in above
    BY <1>2, <2>2, OldestOf
  <2>4. Oldest(above) \in Pos /\ Oldest(above) > newest
    BY <2>3, Displayed
  <2>5. Oldest(above) \in 2..Edge
    BY <2>4, MaxPosAssumption DEF Pos, Edge
  <2> QED
    BY <2>1, <2>3, <2>5, MaxPosAssumption DEF Gap, Pos, NoId
<1> QED
  BY <1>1, <1>2

\* A forward page on one record.
LEMMA ReachedOf ==
  ASSUME NEW g \in Gap, NEW newest \in Pos, NEW last \in 0..MaxPos
  PROVE  Reached(g, newest, last) \subseteq Gap
<1>1. CASE g.start < newest /\ newest < g.end
  <2> DEFINE h == [g EXCEPT !.start = newest, !.startId = IF last = NoId THEN g.startId ELSE last]
  <2>1. (IF last = NoId THEN g.startId ELSE last) \in Pos \cup {NoId}
    BY DEF Gap, Pos, NoId
  <2>2. h \in Gap
    BY <2>1 DEF Gap
  <2>3. Reached(g, newest, last) \subseteq {g, h}
    BY DEF Reached
  <2> QED
    BY <2>2, <2>3
<1>2. CASE ~(g.start < newest /\ newest < g.end)
  <2>1. Reached(g, newest, last) \subseteq {g}
    BY <1>2, MaxPosAssumption DEF Reached, Gap, Pos, Edge
  <2> QED
    BY <2>1
<1> QED
  BY <1>1, <1>2

LEMMA AdvancedOf ==
  ASSUME NEW g \in Gap, NEW origin, NEW last \in 0..MaxPos
  PROVE  Advanced(g, origin, last) \in Gap
  BY DEF Advanced, Gap, Pos, NoId

\* healGapsWithForwardPage.
LEMMA HealOf ==
  ASSUME NEW gs, gs \subseteq Gap, NEW rows, rows \subseteq Displayable,
         NEW origin \in 0..MaxPos, NEW last \in 0..MaxPos, NEW complete,
         NEW merged, merged \subseteq Displayable
  PROVE  HealGapsWithForwardPage(gs, rows, origin, last, complete, merged) \subseteq Gap
<1> DEFINE below  == {g \in gs : g.start < origin}
           above  == gs \ below
           newest == Newest(rows)
           opened == [start |-> newest, end |-> ComputeGapEnd(merged, newest),
                      startId |-> last, endId |-> NoId]
<1>1. CASE complete
  BY <1>1 DEF HealGapsWithForwardPage
<1>2. CASE ~complete /\ rows = {}
  <2>1. \A g \in above : Advanced(g, origin, last) \in Gap
    BY AdvancedOf
  <2>2. HealGapsWithForwardPage(gs, rows, origin, last, complete, merged)
          = below \cup {Advanced(g, origin, last) : g \in above}
    BY <1>2 DEF HealGapsWithForwardPage
  <2> QED
    BY <2>1, <2>2
<1>3. CASE ~complete /\ rows # {}
  <2>1. newest \in Pos
    BY <1>3, NewestOf, Displayed
  <2>2. opened \in Gap
    BY <2>1, OpenedOf
  <2>3. \A g \in above : Reached(g, newest, last) \subseteq Gap
    BY <2>1, ReachedOf
  <2>4. HealGapsWithForwardPage(gs, rows, origin, last, complete, merged)
          \subseteq below \cup (UNION {Reached(g, newest, last) : g \in above}) \cup {opened}
    BY <1>3 DEF HealGapsWithForwardPage
  <2>5. below \subseteq Gap
    OBVIOUS
  <2> HIDE DEF newest, opened, above, below
  <2> DEFINE reached == UNION {Reached(g, newest, last) : g \in above}
  <2>6. reached \subseteq Gap
    BY <2>3
  <2>7. HealGapsWithForwardPage(gs, rows, origin, last, complete, merged)
          \subseteq below \cup reached \cup {opened}
    BY <2>4
  <2> HIDE DEF reached
  <2> QED
    BY <2>2, <2>5, <2>6, <2>7
<1> QED
  BY <1>1, <1>2, <1>3

\* A walk that has passed over everything from its origin to the entry last
\* leaves records that resume where nothing is skipped.
LEMMA HealSound ==
  ASSUME NEW gs, gs \subseteq Gap, NEW rows, rows \subseteq Displayable,
         NEW origin \in 0..MaxPos, NEW last \in 0..MaxPos, NEW complete,
         NEW merged, merged \subseteq Displayable, NEW ps,
         rows \subseteq ps, merged \subseteq ps, \A g \in gs : Sound(g, ps),
         \A p \in Displayable : origin <= p /\ p <= last => p \in ps
  PROVE  \A g \in HealGapsWithForwardPage(gs, rows, origin, last, complete, merged) : Sound(g, ps)
<1> DEFINE below  == {g \in gs : g.start < origin}
           above  == gs \ below
           newest == Newest(rows)
           opened == [start |-> newest, end |-> ComputeGapEnd(merged, newest),
                      startId |-> last, endId |-> NoId]
<1>0. \A p \in Displayable : p \in Nat
  BY Displayed
<1>1. CASE complete
  BY <1>1 DEF HealGapsWithForwardPage
<1>2. CASE ~complete /\ rows = {}
  <2>1. ASSUME NEW g \in above PROVE Sound(Advanced(g, origin, last), ps)
    <3>1. CASE g.start = origin /\ last # NoId
      <4>1. /\ Advanced(g, origin, last).start = origin
            /\ Advanced(g, origin, last).startId = last
            /\ Advanced(g, origin, last).end = g.end
        BY <3>1 DEF Advanced, Gap
      <4>2. Sound(g, ps)
        OBVIOUS
      <4> QED
        BY <4>1, <4>2 DEF Sound
    <3>2. CASE ~(g.start = origin /\ last # NoId)
      BY <3>2 DEF Advanced
    <3> QED
      BY <3>1, <3>2
  <2>2. HealGapsWithForwardPage(gs, rows, origin, last, complete, merged)
          = below \cup {Advanced(g, origin, last) : g \in above}
    BY <1>2 DEF HealGapsWithForwardPage
  <2> QED
    BY <2>1, <2>2
<1>3. CASE ~complete /\ rows # {}
  <2>1. newest \in Pos /\ newest \in rows
    BY <1>3, NewestOf, Displayed
  <2>2. newest >= origin => Sound(opened, ps)
    <3>1. opened.end \in merged \cup {Edge}
      BY <2>1, OpenedOf
    <3>2. Edge \notin Displayable
      BY Displayed, MaxPosAssumption DEF Pos, Edge
    <3>3. opened.start = newest /\ opened.startId = last
      OBVIOUS
    <3> HIDE DEF opened, newest
    <3>4. newest \in Nat
      BY <2>1, Displayed
    <3>5. \A p \in Displayable : newest >= origin /\ newest <= p => origin <= p
      BY <1>0, <3>4
    <3> QED
      BY <3>1, <3>2, <3>3, <3>5 DEF Sound
  <2>3. ASSUME NEW g \in above, NEW h \in Reached(g, newest, last) PROVE Sound(h, ps)
    <3>1. CASE h = g
      BY <3>1
    <3>2. CASE h # g
      <4>1. /\ g.start < newest
            /\ h = [g EXCEPT !.start = newest, !.startId = IF last = NoId THEN g.startId ELSE last]
        BY <2>1, <2>3, <3>2, Displayed DEF Reached, Gap
      <4>2. /\ h.start = newest /\ h.end = g.end
            /\ h.startId = IF last = NoId THEN g.startId ELSE last
        BY <4>1 DEF Gap
      <4>6. g \in Gap /\ ~(g.start < origin)
        BY <2>3
      <4>7. g.start \in Nat /\ newest \in Nat
        BY <2>1, <4>6, Displayed DEF Gap
      <4> HIDE DEF newest, above
      <4>3. g.start >= origin
        BY <4>6, <4>7
      <4>4. \A p \in Displayable : newest <= p => origin <= p /\ g.start <= p
        BY <1>0, <4>1, <4>3, <4>7
      <4>5. Sound(g, ps)
        BY <2>3 DEF above
      <4> QED
        BY <4>2, <4>4, <4>5 DEF Sound
    <3> QED
      BY <3>1, <3>2
  <2>4. HealGapsWithForwardPage(gs, rows, origin, last, complete, merged)
          = below \cup (UNION {Reached(g, newest, last) : g \in above})
            \cup IF above = {} /\ newest >= origin THEN {opened} ELSE {}
    BY <1>3 DEF HealGapsWithForwardPage
  <2>5. \A g \in below : Sound(g, ps)
    OBVIOUS
  <2> HIDE DEF newest, opened, above, below
  <2> DEFINE reached == UNION {Reached(g, newest, last) : g \in above}
  <2>6. \A h \in reached : Sound(h, ps)
    BY <2>3
  <2>8. HealGapsWithForwardPage(gs, rows, origin, last, complete, merged)
          = below \cup reached \cup IF above = {} /\ newest >= origin THEN {opened} ELSE {}
    BY <2>4
  <2> HIDE DEF reached
  <2>7. \A h \in IF above = {} /\ newest >= origin THEN {opened} ELSE {} : Sound(h, ps)
    BY <2>2
  <2> QED
    BY <2>5, <2>6, <2>7, <2>8
<1> QED
  BY <1>1, <1>2, <1>3

\* closeGapWithBackwardPage and detectFetchLatestSeam.
LEMMA CloseOf ==
  ASSUME NEW g \in Gap, NEW rows, rows \subseteq Displayable, NEW complete,
         NEW h \in CloseGapWithBackwardPage(g, rows, complete)
  PROVE  h \in Gap /\ h.start = g.start /\ h.startId = g.startId /\ h.end \in rows \cup {g.end}
<1>1. CASE h = g
  BY <1>1
<1>2. CASE h # g
  <2> DEFINE oldest == Oldest(rows)
  <2>1. rows # {} /\ oldest > g.start /\ oldest < g.end /\ h = [g EXCEPT !.end = oldest, !.endId = oldest]
    <3>1. rows # {}
      BY <1>2 DEF CloseGapWithBackwardPage
    <3>2. oldest \in rows
      BY <3>1, OldestOf, Displayed
    <3>3. oldest \in Nat /\ g.start \in Nat
      BY <3>2, Displayed DEF Gap
    <3> QED
      BY <1>2, <3>1, <3>3 DEF CloseGapWithBackwardPage
  <2>2. oldest \in rows
    BY <2>1, OldestOf, Displayed
  <2>3. oldest \in Pos
    BY <2>2, Displayed
  <2>4. oldest \in 2..Edge
    BY <2>1, <2>3, MaxPosAssumption DEF Gap, Pos, Edge
  <2> HIDE DEF oldest
  <2> QED
    BY <2>1, <2>2, <2>3, <2>4 DEF Gap
<1> QED
  BY <1>1, <1>2

LEMMA SeamOf ==
  ASSUME NEW rows, rows \subseteq Displayable, NEW held, held \subseteq Displayable,
         NEW h \in Seam(rows, held)
  PROVE  /\ h \in Gap
         /\ h.start \in held /\ h.startId = h.start /\ h.end \in rows
<1>1. /\ rows # {} /\ held # {} /\ Oldest(rows) > Newest(held)
      /\ h = [start |-> Newest(held), end |-> Oldest(rows),
              startId |-> Newest(held), endId |-> Oldest(rows)]
  BY DEF Seam
<1>2. Oldest(rows) \in rows /\ Oldest(rows) \in Pos
  BY <1>1, OldestOf, Displayed
<1>3. Newest(held) \in held /\ Newest(held) \in Pos
  BY <1>1, NewestOf, Displayed
<1>4. Oldest(rows) \in 2..Edge
  BY <1>1, <1>2, <1>3, MaxPosAssumption DEF Pos, Edge
<1> QED
  BY <1>1, <1>2, <1>3, <1>4 DEF Gap

-----------------------------------------------------------------------------
(* syncGapAfterArchiveMerge, and the anchor that has expired.              *)

LEMMA AfterForward ==
  ASSUME NEW gs, gs \subseteq Gap, NEW rows, rows \subseteq Displayable,
         NEW origin \in 0..MaxPos, NEW last \in 0..MaxPos, NEW complete,
         NEW merged, merged \subseteq Displayable
  PROVE  LET next == AfterForwardPage(gs, rows, origin, last, complete, merged) IN
         /\ next \subseteq Gap /\ Normal(next)
         /\ \A ps : /\ rows \subseteq ps /\ merged \subseteq ps /\ \A g \in gs : Sound(g, ps)
                    /\ \A p \in Displayable : origin <= p /\ p <= last => p \in ps
                    => \A g \in next : Sound(g, ps)
<1> DEFINE healed == HealGapsWithForwardPage(gs, rows, origin, last, complete, merged)
<1>1. healed \subseteq Gap
  BY HealOf
<1>2. ASSUME NEW ps, rows \subseteq ps, merged \subseteq ps, \A g \in gs : Sound(g, ps),
             \A p \in Displayable : origin <= p /\ p <= last => p \in ps
      PROVE  \A g \in NormalizeGapList(healed) : Sound(g, ps)
  <2>1. \A g \in healed : Sound(g, ps)
    BY <1>2, HealSound
  <2> QED
    BY <1>1, <2>1, NormalizeSound
<1> HIDE DEF healed
<1>3. NormalizeGapList(healed) \subseteq Gap /\ Normal(NormalizeGapList(healed))
  BY <1>1, NormalizeOf
<1> QED
  BY <1>2, <1>3 DEF AfterForwardPage, healed

LEMMA AfterBackward ==
  ASSUME NEW gs, gs \subseteq Gap, NEW rows, rows \subseteq Displayable, NEW complete,
         NEW latest, NEW held, held \subseteq Displayable
  PROVE  LET next == AfterBackwardPage(gs, rows, complete, latest, held) IN
         /\ next \subseteq Gap /\ Normal(next)
         /\ \A ps : rows \subseteq ps /\ held \subseteq ps /\ (\A g \in gs : Sound(g, ps))
                    => \A g \in next : Sound(g, ps)
<1> DEFINE closed == ReconcileGapsWithBackwardPage(gs, rows, complete)
           list   == IF latest /\ closed = gs THEN gs \cup Seam(rows, held) ELSE closed
<1>1. \A h \in closed : \E g \in gs : h \in CloseGapWithBackwardPage(g, rows, complete)
  BY DEF ReconcileGapsWithBackwardPage
<1>2. ASSUME NEW h \in list
      PROVE  \/ \E g \in gs : h \in CloseGapWithBackwardPage(g, rows, complete)
             \/ h \in gs \/ h \in Seam(rows, held)
  BY <1>1
<1>3. list \subseteq Gap
  BY <1>2, CloseOf, SeamOf
<1>4. ASSUME NEW ps, rows \subseteq ps, held \subseteq ps, \A g \in gs : Sound(g, ps),
             NEW h \in list
      PROVE  Sound(h, ps)
  <2>1. CASE \E g \in gs : h \in CloseGapWithBackwardPage(g, rows, complete)
    <3>1. PICK g \in gs : h \in CloseGapWithBackwardPage(g, rows, complete)
      BY <2>1
    <3>2. h.start = g.start /\ h.startId = g.startId /\ h.end \in rows \cup {g.end}
      BY <3>1, CloseOf
    <3>3. Sound(g, ps)
      BY <1>4
    <3> QED
      BY <1>4, <3>2, <3>3 DEF Sound
  <2>2. CASE h \in gs
    BY <1>4, <2>2
  <2>3. CASE h \in Seam(rows, held)
    <3>1. h.start \in held /\ h.startId = h.start /\ h.end \in rows
      BY <2>3, SeamOf
    <3>3. h.start \in Nat /\ \A p \in Displayable : p \in Nat
      BY <3>1, Displayed
    <3>2. \A p \in Displayable : h.start <= p /\ p <= h.start => p = h.start
      BY <3>3
    <3> QED
      BY <1>4, <3>1, <3>2 DEF Sound
  <2> QED
    BY <1>2, <2>1, <2>2, <2>3
<1> HIDE DEF list
<1>5. NormalizeGapList(list) \subseteq Gap /\ Normal(NormalizeGapList(list))
  BY <1>3, NormalizeOf
<1>6. \A ps : rows \subseteq ps /\ held \subseteq ps /\ (\A g \in gs : Sound(g, ps))
              => \A g \in NormalizeGapList(list) : Sound(g, ps)
  BY <1>3, <1>4, NormalizeSound
<1> QED
  BY <1>5, <1>6 DEF AfterBackwardPage, list, closed

LEMMA Cleared ==
  ASSUME NEW gs, gs \subseteq Gap, Normal(gs), NEW id
  PROVE  /\ ClearGapAnchor(gs, id) \subseteq Gap /\ Normal(ClearGapAnchor(gs, id))
         /\ \A ps : (\A g \in gs : Sound(g, ps)) => \A g \in ClearGapAnchor(gs, id) : Sound(g, ps)
<1> DEFINE clear(g) == IF g.startId = id THEN [g EXCEPT !.startId = NoId] ELSE g
<1>1. ASSUME NEW g \in gs
      PROVE  /\ clear(g) \in Gap /\ clear(g).start = g.start /\ clear(g).end = g.end
             /\ clear(g).startId \in {g.startId, NoId}
  BY DEF Gap
<1>2. ClearGapAnchor(gs, id) = {clear(g) : g \in gs}
  BY DEF ClearGapAnchor
<1> HIDE DEF clear
<1>3. Normal(ClearGapAnchor(gs, id))
  BY <1>1, <1>2 DEF Normal
<1>4. ASSUME NEW ps, NEW g \in gs, Sound(g, ps) PROVE Sound(clear(g), ps)
  <2>1. \A p \in Displayable : ~(p <= NoId)
    BY Displayed DEF NoId, Pos
  <2> QED
    BY <1>1, <1>4, <2>1 DEF Sound
<1> QED
  BY <1>1, <1>2, <1>3, <1>4
-----------------------------------------------------------------------------
(* The writes in flight.                                                   *)

\* The rows of the first n archive writes of q.
UpTo(q, n) == {p \in Displayable : \E i \in 1..n : q[i].archive /\ p \in q[i].rows}
Pending(q) == UpTo(q, Len(q))

\* What one write adds to the archived rows.
Added(job) == IF job.archive THEN job.rows ELSE {}

\* Each transition in q is sound once the writes up to its own have committed.
Planned(q, ps) == \A i \in 1..Len(q) : \A g \in q[i].next : Sound(g, ps \cup UpTo(q, i))
Ordered(q) == \A i \in 1..Len(q) : Normal(q[i].next)

LEMMA SoundGrows ==
  ASSUME NEW g, NEW ps, NEW qs, ps \subseteq qs, Sound(g, ps)
  PROVE  Sound(g, qs)
  BY DEF Sound

LEMMA PlannedGrows ==
  ASSUME NEW q, NEW ps, NEW qs, ps \subseteq qs, Planned(q, ps)
  PROVE  Planned(q, qs)
<1>1. \A n : ps \cup UpTo(q, n) \subseteq qs \cup UpTo(q, n)
  OBVIOUS
<1> QED
  BY <1>1, SoundGrows DEF Planned

LEMMA AppendOf ==
  ASSUME NEW q \in Seq(Job), NEW job \in Job
  PROVE  /\ Append(q, job) \in Seq(Job)
         /\ \A n \in 1..Len(q) : UpTo(Append(q, job), n) = UpTo(q, n)
         /\ Pending(Append(q, job)) = Pending(q) \cup Added(job)
         /\ \A ps : /\ Planned(q, ps)
                    /\ \A g \in job.next : Sound(g, ps \cup Pending(q) \cup Added(job))
                    => Planned(Append(q, job), ps)
         /\ Ordered(q) /\ Normal(job.next) => Ordered(Append(q, job))
<1> DEFINE r == Append(q, job)
<1>1. /\ r \in Seq(Job) /\ Len(r) = Len(q) + 1 /\ Len(q) \in Nat
      /\ \A i \in 1..Len(q) : r[i] = q[i]
      /\ r[Len(r)] = job
  BY AppendProperties
<1> HIDE DEF r
<1>2. \A i \in 1..Len(r) : i \in 1..Len(q) \/ i = Len(r)
  BY <1>1
<1>3. \A n \in 1..Len(q) : UpTo(r, n) = UpTo(q, n)
  <2>1. \A n \in 1..Len(q) : \A i \in 1..n : i \in 1..Len(q)
    BY <1>1
  <2> QED
    BY <1>1, <2>1 DEF UpTo
<1>4. Pending(r) = Pending(q) \cup Added(job)
  <2>1. Len(r) \in 1..Len(r) /\ \A i \in 1..Len(q) : i \in 1..Len(r)
    BY <1>1
  <2>2. job.rows \subseteq Displayable
    BY DEF Job
  <2> QED
    BY <1>1, <1>2, <2>1, <2>2 DEF Pending, UpTo, Added
<1>5. ASSUME NEW ps, Planned(q, ps),
             \A g \in job.next : Sound(g, ps \cup Pending(q) \cup Added(job))
      PROVE  Planned(r, ps)
  <2>1. ASSUME NEW i \in 1..Len(q), NEW g \in r[i].next PROVE Sound(g, ps \cup UpTo(r, i))
    BY <1>1, <1>3, <1>5 DEF Planned
  <2>2. ps \cup UpTo(r, Len(r)) = ps \cup Pending(q) \cup Added(job)
    BY <1>4 DEF Pending
  <2> QED
    BY <1>1, <1>2, <1>5, <2>1, <2>2 DEF Planned
<1>6. Ordered(q) /\ Normal(job.next) => Ordered(r)
  BY <1>1, <1>2 DEF Ordered
<1> QED
  BY <1>1, <1>3, <1>4, <1>5, <1>6 DEF r

LEMMA TailOf ==
  ASSUME NEW q \in Seq(Job), q # <<>>
  PROVE  /\ Head(q) \in Job /\ Tail(q) \in Seq(Job)
         /\ Pending(q) = Added(Head(q)) \cup Pending(Tail(q))
         /\ \A ps : Planned(q, ps) =>
              /\ Planned(Tail(q), ps \cup Added(Head(q)))
              /\ \A g \in Head(q).next : Sound(g, ps \cup Added(Head(q)))
         /\ Ordered(q) => Ordered(Tail(q)) /\ Normal(Head(q).next)
<1> DEFINE r == Tail(q)
           h == Head(q)
<1>1. /\ h \in Job /\ r \in Seq(Job) /\ Len(r) = Len(q) - 1 /\ Len(q) \in Nat \ {0}
      /\ h = q[1] /\ \A i \in 1..Len(r) : r[i] = q[i + 1]
  BY HeadTailProperties, EmptySeq
<1> HIDE DEF r, h
<1>2. \A i \in 1..Len(r) : i + 1 \in 1..Len(q) /\ i + 1 # 1
  BY <1>1
<1>3. \A n \in 0..Len(r) : UpTo(q, n + 1) = Added(h) \cup UpTo(r, n)
  <2> SUFFICES ASSUME NEW n \in 0..Len(r) PROVE UpTo(q, n + 1) = Added(h) \cup UpTo(r, n)
    OBVIOUS
  <2>1. \A i \in 1..(n + 1) : i = 1 \/ (i - 1 \in 1..n /\ q[i] = r[i - 1])
    <3> SUFFICES ASSUME NEW i \in 1..(n + 1), i # 1 PROVE i - 1 \in 1..n /\ q[i] = r[i - 1]
      OBVIOUS
    <3>1. i - 1 \in 1..n /\ i - 1 \in 1..Len(r) /\ (i - 1) + 1 = i
      BY <1>1
    <3> QED
      BY <1>1, <3>1
  <2>2. \A i \in 1..n : i + 1 \in 1..(n + 1) /\ q[i + 1] = r[i]
    <3>1. \A i \in 1..n : i + 1 \in 1..(n + 1) /\ i \in 1..Len(r)
      BY <1>1
    <3> QED
      BY <1>1, <3>1
  <2>3. 1 \in 1..(n + 1)
    OBVIOUS
  <2>4. h.rows \subseteq Displayable
    BY <1>1 DEF Job
  <2> QED
    BY <1>1, <2>1, <2>2, <2>3, <2>4 DEF UpTo, Added
<1>4. Pending(q) = Added(h) \cup Pending(r)
  <2>1. Len(r) \in 0..Len(r) /\ Len(r) + 1 = Len(q)
    BY <1>1
  <2>2. UpTo(q, Len(r) + 1) = Added(h) \cup UpTo(r, Len(r))
    BY <1>3, <2>1
  <2> QED
    BY <2>1, <2>2 DEF Pending
<1>5. ASSUME NEW ps, Planned(q, ps)
      PROVE  /\ Planned(r, ps \cup Added(h))
             /\ \A g \in h.next : Sound(g, ps \cup Added(h))
  <2>1. ASSUME NEW i \in 1..Len(r), NEW g \in r[i].next
        PROVE  Sound(g, (ps \cup Added(h)) \cup UpTo(r, i))
    <3>1. i \in 0..Len(r) /\ i + 1 \in 1..Len(q) /\ r[i] = q[i + 1]
      BY <1>1
    <3>2. Sound(g, ps \cup UpTo(q, i + 1))
      BY <1>5, <2>1, <3>1 DEF Planned
    <3>3. UpTo(q, i + 1) = Added(h) \cup UpTo(r, i)
      BY <1>3, <3>1
    <3>4. (ps \cup Added(h)) \cup UpTo(r, i) = ps \cup UpTo(q, i + 1)
      BY <3>3
    <3> QED
      BY <3>2, <3>4
  <2>2. ASSUME NEW g \in h.next PROVE Sound(g, ps \cup Added(h))
    <3>1. 1 \in 1..Len(q) /\ 0 \in 0..Len(r) /\ 0 + 1 = 1
      BY <1>1
    <3>2. UpTo(r, 0) = {}
      BY DEF UpTo
    <3>3. UpTo(q, 1) = Added(h)
      BY <1>3, <3>1, <3>2
    <3>4. Sound(g, ps \cup UpTo(q, 1))
      BY <1>1, <1>5, <2>2, <3>1 DEF Planned
    <3> QED
      BY <3>3, <3>4
  <2> QED
    BY <2>1, <2>2 DEF Planned
<1>6. Ordered(q) => Ordered(r) /\ Normal(h.next)
  <2>1. 1 \in 1..Len(q)
    BY <1>1
  <2> QED
    BY <1>1, <1>2, <2>1 DEF Ordered
<1> QED
  BY <1>1, <1>4, <1>5, <1>6 DEF r, h

LEMMA StaleOf ==
  ASSUME NEW q \in Seq(Job)
  PROVE  /\ Stale(q) \in Seq(Job)
         /\ Pending(Stale(q)) = Pending(q)
         /\ \A ps : Planned(q, ps) => Planned(Stale(q), ps)
         /\ Ordered(q) => Ordered(Stale(q))
<1> DEFINE r == Stale(q)
<1>1. Len(q) \in Nat /\ q \in [1..Len(q) -> Job]
  BY LenProperties
<1>2. r \in Seq(Job) /\ Len(r) = Len(q)
  <2>1. \A i \in 1..Len(q) : [q[i] EXCEPT !.fresh = FALSE] \in Job
    BY <1>1 DEF Job
  <2>2. r \in [1..Len(q) -> Job]
    BY <2>1 DEF Stale
  <2> QED
    BY <1>1, <2>2, SeqDef, LenProperties
<1>3. \A i \in 1..Len(q) : r[i].rows = q[i].rows /\ r[i].archive = q[i].archive /\ r[i].next = q[i].next
  <2>1. \A i \in 1..Len(q) : r[i] = [q[i] EXCEPT !.fresh = FALSE]
    BY DEF Stale
  <2> QED
    BY <1>1, <2>1 DEF Job
<1> HIDE DEF r
<1>4. \A n \in 0..Len(q) : UpTo(r, n) = UpTo(q, n)
  <2>1. \A n \in 0..Len(q) : \A i \in 1..n : i \in 1..Len(q)
    BY <1>1
  <2> QED
    BY <1>3, <2>1 DEF UpTo
<1>5. Len(q) \in 0..Len(q) /\ \A i \in 1..Len(q) : i \in 0..Len(q)
  BY <1>1
<1>6. Pending(r) = Pending(q)
  BY <1>2, <1>4, <1>5 DEF Pending
<1>7. ASSUME NEW ps, Planned(q, ps) PROVE Planned(r, ps)
  BY <1>2, <1>3, <1>4, <1>5, <1>7 DEF Planned
<1> QED
  BY <1>2, <1>3, <1>6, <1>7 DEF Ordered, r
-----------------------------------------------------------------------------
(* Types.                                                                  *)

WalkOK(w) == w \in Walk /\ (w.phase = "forward" => w.left # 0)

Shape == TypeOK /\ Ordered(queue) /\ \A s \in Slots : WalkOK(walk[s])

LEMMA NumberFacts ==
  /\ MaxPos \in Nat /\ Edge = MaxPos + 1 /\ NoId = 0
  /\ PageSize \in Nat /\ StitchPages \in Nat /\ RetryPages \in Nat
  /\ BailPages \in Nat /\ BailPages # 0 /\ ManualPages \in Nat /\ ManualPages # 0
  /\ Kinds \subseteq {"chat", "room"}
  BY MaxPosAssumption, ArchiveAssumption DEF Edge, NoId

LEMMA NoWalkOK == WalkOK(NoWalk) /\ NoWalk.phase = "none" /\ WalkOK(FetchLatest) /\ FetchLatest.phase = "latest"
<1>1. 0 \in 0..MaxPos
  BY NumberFacts
<1> QED
  BY <1>1 DEF WalkOK, NoWalk, FetchLatest, Walk, NoId

\* A walk that resumes a gap starts at the gap and has passed what lies up to
\* its resume id.
LEMMA ResumeGapOK ==
  ASSUME NEW g \in Gap
  PROVE  /\ WalkOK(ResumeGap(g))
         /\ ResumeGap(g).origin = g.start /\ ResumeGap(g).rows = {}
         /\ ResumeGap(g).after = IF g.startId = NoId THEN g.start - 1 ELSE g.startId
<1> DEFINE a == IF g.startId = NoId THEN g.start - 1 ELSE g.startId
           b == g.startId # NoId
<1>1. a \in 0..MaxPos /\ b \in BOOLEAN
  BY NumberFacts DEF Gap, Pos
<1>2. g.start \in Pos
  BY DEF Gap
<1>3. ResumeGap(g) = [NoWalk EXCEPT !.phase = "forward", !.origin = g.start, !.firstPage = TRUE,
                                    !.after = a, !.byId = b, !.left = BailPages]
  BY DEF ResumeGap
<1>5. NoWalk \in Walk /\ NoWalk.rows = {}
  BY NoWalkOK DEF WalkOK, NoWalk
<1> HIDE DEF a, b
<1>4. /\ ResumeGap(g) \in Walk /\ ResumeGap(g).origin = g.start /\ ResumeGap(g).after = a
      /\ ResumeGap(g).left = BailPages
  BY <1>1, <1>2, <1>3, <1>5, NumberFacts DEF Walk
<1>6. ResumeGap(g).rows = {}
  BY <1>3, <1>5 DEF Walk
<1> QED
  BY <1>4, <1>6, NumberFacts DEF WalkOK, a

LEMMA ManualOK ==
  ASSUME NEW w, WalkOK(w)
  PROVE  LET m == [w EXCEPT !.manual = TRUE, !.left = ManualPages] IN
         WalkOK(m) /\ m.phase = w.phase /\ m.origin = w.origin /\ m.after = w.after /\ m.rows = w.rows
  BY NumberFacts DEF WalkOK, Walk

LEMMA ResumeAfterOK ==
  ASSUME NEW p \in Pos
  PROVE  WalkOK(ResumeAfter(p)) /\ ResumeAfter(p).origin = p /\ ResumeAfter(p).after = p
<1>1. p \in 0..MaxPos
  BY NumberFacts DEF Pos
<1>2. NoWalk \in Walk
  BY NoWalkOK DEF WalkOK
<1>3. /\ ResumeAfter(p) \in Walk /\ ResumeAfter(p).origin = p /\ ResumeAfter(p).after = p
      /\ ResumeAfter(p).left = BailPages
  BY <1>1, <1>2, NumberFacts DEF Walk, ResumeAfter
<1> QED
  BY <1>3, NumberFacts DEF WalkOK

\* runCatchUpHistory, phase A: from the open gap, from the newest held message
\* of an earlier session, or from nothing.
LEMMA CatchUpOf ==
  ASSUME Shape, NEW held, held \subseteq Displayable
  PROVE  \/ \E g \in gaps : CatchUpWalk(held) = ResumeGap(g)
         \/ \E p \in held : CatchUpWalk(held) = ResumeAfter(p)
         \/ CatchUpWalk(held) = FetchLatest
<1> DEFINE open == OpenGap(gaps)
           pre  == BeforeSession(held)
<1>1. CASE open # {}
  <2>1. (CHOOSE g \in open : TRUE) \in open
    BY <1>1
  <2>2. open \subseteq gaps
    BY DEF OpenGap
  <2>3. CatchUpWalk(held) = ResumeGap(CHOOSE g \in open : TRUE)
    BY <1>1 DEF CatchUpWalk
  <2> HIDE DEF open
  <2> QED
    BY <2>1, <2>2, <2>3
<1>2. CASE open = {} /\ pre # {}
  <2>1. pre \subseteq held
    BY DEF BeforeSession
  <2>2. Newest(pre) \in pre
    BY <1>2, <2>1, NewestOf, Displayed
  <2>3. CatchUpWalk(held) = ResumeAfter(Newest(pre))
    BY <1>2 DEF CatchUpWalk
  <2> HIDE DEF pre
  <2> QED
    BY <2>1, <2>2, <2>3
<1>3. CASE open = {} /\ pre = {}
  BY <1>3 DEF CatchUpWalk
<1> QED
  BY <1>1, <1>2, <1>3

LEMMA CatchUpOK ==
  ASSUME Shape, NEW held, held \subseteq Displayable
  PROVE  WalkOK(CatchUpWalk(held))
<1>1. gaps \subseteq Gap /\ held \subseteq Pos
  BY Displayed DEF Shape, TypeOK
<1> QED
  BY <1>1, CatchUpOf, ResumeGapOK, ResumeAfterOK, NoWalkOK

\* A walk of one slot is replaced.
LEMMA WalkTypes ==
  ASSUME Shape, NEW s \in Slots, NEW w, WalkOK(w), walk' = [walk EXCEPT ![s] = w]
  PROVE  /\ walk' \in [Slots -> Walk] /\ \A t \in Slots : WalkOK(walk'[t])
         /\ walk'[s] = w /\ \A t \in Slots : t # s => walk'[t] = walk[t]
  BY DEF Shape, TypeOK, WalkOK

LEMMA NoWalksTypes ==
  ASSUME walk' = [s \in Slots |-> NoWalk]
  PROVE  walk' \in [Slots -> Walk] /\ \A t \in Slots : WalkOK(walk'[t]) /\ walk'[t] = NoWalk
<1>1. NoWalk \in Walk
  BY NoWalkOK DEF WalkOK
<1> QED
  BY <1>1, NoWalkOK

LEMMA LiveJobOK ==
  ASSUME NEW rows, rows \subseteq Displayable
  PROVE  /\ LiveJob(rows) \in Job /\ Added(LiveJob(rows)) = {}
         /\ LiveJob(rows).next = {} /\ Normal(LiveJob(rows).next)
  BY DEF LiveJob, Job, Added, Normal

LEMMA DeliverTypes ==
  ASSUME Shape, NEW ps, ps \subseteq Displayable, Deliver(ps), UNCHANGED active
  PROVE  /\ heard' \subseteq Displayable /\ resident' \subseteq Displayable
         /\ queue' \in Seq(Job) /\ Ordered(queue')
<1>1. queue \in Seq(Job) /\ Ordered(queue) /\ heard \subseteq Displayable /\ resident \subseteq Displayable
  BY DEF Shape, TypeOK
<1>2. heard' \subseteq Displayable /\ resident' \subseteq Displayable
  BY <1>1 DEF Deliver
<1>3. queue' = queue \/ queue' = Append(queue, LiveJob(ps))
  BY DEF Deliver
<1> QED
  BY <1>1, <1>2, <1>3, AppendOf, LiveJobOK

\* The write that a page appends.
PageJob(rows, next) ==
  [rows |-> rows \ Existing, archive |-> TRUE, commit |-> next # gaps,
   next |-> IF next # gaps THEN next ELSE {}, fresh |-> TRUE, none |-> gaps = {}]

\* What StorePage does: nothing to the queue and the transition at once, or all
\* of it in a job of its own.
LEMMA StoreOf ==
  ASSUME NEW rows, NEW next, StorePage(rows, next)
  PROVE  /\ \/ queue' = queue /\ gaps' = next /\ rows \subseteq Existing /\ (next # gaps => ~SavesHas)
            \/ queue' = Append(queue, PageJob(rows, next)) /\ gaps' = gaps
            \/ queue' = Append(queue, PageJob(rows, next)) /\ gaps' = next /\ next = gaps
         /\ resident' = IF active THEN resident \cup rows ELSE resident
<1> DEFINE new     == rows \ Existing
           changed == next # gaps
           gated   == new # {} \/ SavesHas
<1>1. /\ gaps' = IF changed /\ ~gated THEN next ELSE gaps
      /\ queue' = IF new # {} \/ (changed /\ gated) THEN Append(queue, PageJob(rows, next)) ELSE queue
      /\ resident' = IF active THEN resident \cup rows ELSE resident
  BY DEF StorePage, PageJob
<1>2. CASE new = {} /\ ~(changed /\ gated)
  BY <1>1, <1>2
<1>3. CASE ~(new = {} /\ ~(changed /\ gated))
  BY <1>1, <1>3
<1> QED
  BY <1>1, <1>2, <1>3

LEMMA StoreTypes ==
  ASSUME Shape, NEW rows, rows \subseteq Displayable, NEW next, next \subseteq Gap, Normal(next),
         StorePage(rows, next)
  PROVE  /\ gaps' \subseteq Gap /\ Normal(gaps') /\ resident' \subseteq Displayable
         /\ queue' \in Seq(Job) /\ Ordered(queue')
         /\ PageJob(rows, next) \in Job
<1>1. /\ queue \in Seq(Job) /\ Ordered(queue) /\ gaps \subseteq Gap /\ Normal(gaps)
      /\ resident \subseteq Displayable
  BY DEF Shape, TypeOK
<1>2. PageJob(rows, next) \in Job /\ Normal(PageJob(rows, next).next)
  BY DEF PageJob, Job, Normal
<1>3. queue' \in Seq(Job) /\ Ordered(queue')
  BY <1>1, <1>2, StoreOf, AppendOf
<1>4. gaps' \subseteq Gap /\ Normal(gaps') /\ resident' \subseteq Displayable
  BY <1>1, StoreOf
<1> QED
  BY <1>2, <1>3, <1>4

LEMMA ExistingTypes == Shape => Existing \subseteq resident /\ resident \subseteq Displayable
  BY DEF Shape, TypeOK, Existing

\* The newest position held is a position, or none.
LEMMA MaxOfOK ==
  ASSUME NEW ps, ps \subseteq Displayable
  PROVE  MaxOf(ps) \in 0..MaxPos
<1>1. ps \subseteq 0..MaxPos /\ MaxPos \in Nat
  BY Displayed
<1>2. CASE ps = {}
  BY <1>1, <1>2 DEF MaxOf
<1>3. CASE ps # {}
  BY <1>1, <1>3, NewestOf DEF MaxOf
<1> QED
  BY <1>2, <1>3

LEMMA RowsOf == Shape => \A i \in 1..Len(queue) : queue[i].rows \subseteq Displayable
<1> SUFFICES ASSUME Shape, NEW i \in 1..Len(queue) PROVE queue[i].rows \subseteq Displayable
  OBVIOUS
<1>1. queue[i] \in Job
  BY ElementOfSeq DEF Shape, TypeOK
<1> QED
  BY <1>1 DEF Job

LEMMA NewestHeldOK == Shape => NewestHeld \in 0..MaxPos
<1> SUFFICES ASSUME Shape PROVE NewestHeld \in 0..MaxPos
  OBVIOUS
<1> DEFINE ps == cache \cup Existing \cup UNION {queue[i].rows : i \in 1..Len(queue)}
<1>1. cache \subseteq Displayable /\ Existing \subseteq Displayable
  BY ExistingTypes DEF Shape, TypeOK
<1>2. ps \subseteq Displayable
  BY <1>1, RowsOf
<1> QED
  BY <1>2, MaxOfOK DEF NewestHeld

-----------------------------------------------------------------------------
LEMMA InitShape == Init => Shape
<1> SUFFICES ASSUME Init PROVE Shape
  OBVIOUS
<1>1. 0 \in 0..Edge /\ 0 \in 0..MaxPos /\ 0..1 \subseteq 0..MaxPos
  BY NumberFacts, MaxPosAssumption
<1>2. <<>> \in Seq(Job) /\ Ordered(<<>>)
  BY EmptySeq DEF Ordered
<1>3. Normal({})
  BY DEF Normal
<1>4. walk \in [Slots -> Walk] /\ \A s \in Slots : WalkOK(walk[s])
  BY NoWalkOK DEF Init, WalkOK
<1>5. live \in 0..MaxPos /\ purged \in 0..live /\ seen \in 0..live
  BY <1>1 DEF Init
<1> QED
  BY <1>1, <1>2, <1>3, <1>4, <1>5 DEF Init, Shape, TypeOK

\* The actions that leave the walks and the queue as they are.
LEMMA PlainTypes ==
  ASSUME Shape,
         ServerArchives \/ ServerPurges \/ GoOnline \/ Activate \/ Deactivate
         \/ ListConversation \/ SkipListed
  PROVE  Shape'
<1>0. live \in 0..MaxPos /\ purged \in 0..live /\ seen \in 0..live /\ MaxPos \in Nat
  BY NumberFacts DEF Shape, TypeOK
<1>1. CASE ServerArchives
  <2>1. live' \in 0..MaxPos /\ purged' \in 0..live' /\ seen' \in 0..live'
    BY <1>0, <1>1 DEF ServerArchives, viewVars, sessionVars
  <2> QED
    BY <1>1, <2>1 DEF ServerArchives, Shape, TypeOK, storeVars, viewVars, sessionVars, triggerVars,
       history
<1>2. CASE ServerPurges
  <2>1. live' \in 0..MaxPos /\ purged' \in 0..live' /\ seen' \in 0..live'
    BY <1>0, <1>2 DEF ServerPurges, viewVars, sessionVars
  <2> QED
    BY <1>2, <2>1 DEF ServerPurges, Shape, TypeOK, storeVars, viewVars, sessionVars, triggerVars,
       history
<1>3. CASE GoOnline
  <2>1. live' \in 0..MaxPos /\ purged' \in 0..live' /\ seen' \in 0..live' /\ sessionStart' \in 0..Edge'
    BY <1>0, <1>3, NumberFacts DEF GoOnline, serverVars
  <2>2. edge' \in 0..MaxPos
    BY <1>3, NewestHeldOK DEF GoOnline
  <2> QED
    BY <1>3, <2>1, <2>2 DEF GoOnline, Shape, TypeOK, serverVars, storeVars, viewVars
<1>4. CASE Activate
  BY <1>4 DEF Activate, Shape, TypeOK, serverVars, storeVars, sessionVars, history
<1>5. CASE Deactivate
  BY <1>5 DEF Deactivate, Shape, TypeOK, serverVars, storeVars, sessionVars, history
<1>6. CASE ListConversation
  BY <1>6 DEF ListConversation, startUnchanged, Shape, TypeOK, serverVars, storeVars, viewVars,
     sessionVars, history
<1>7. CASE SkipListed
  BY <1>7 DEF SkipListed, startUnchanged, Shape, TypeOK, serverVars, storeVars, viewVars,
     sessionVars, history
<1> QED
  BY <1>1, <1>2, <1>3, <1>4, <1>5, <1>6, <1>7

\* The writes in flight: one commits, or fails.
LEMMA WriteTypes ==
  ASSUME Shape, WriteCommits \/ WriteFails
  PROVE  Shape'
<1> DEFINE job == Head(queue)
<1>1. queue \in Seq(Job) /\ queue # <<>> /\ Ordered(queue)
  BY DEF Shape, TypeOK, WriteCommits, WriteFails, Drained
<1>2. job \in Job /\ Tail(queue) \in Seq(Job) /\ Ordered(Tail(queue)) /\ Normal(job.next)
  BY <1>1, TailOf
<1>3. job.rows \subseteq Displayable /\ job.next \subseteq Gap /\ job.archive \in BOOLEAN
  BY <1>2 DEF Job
<1>4. Stale(Tail(queue)) \in Seq(Job) /\ Ordered(Stale(Tail(queue)))
  BY <1>2, StaleOf
<1>5. CASE WriteCommits
  <2>1. /\ cache' = cache \cup job.rows
        /\ gaps' = IF Applies(job) THEN job.next ELSE gaps
        /\ queue' = IF Applies(job) THEN Stale(Tail(queue)) ELSE Tail(queue)
        /\ UNCHANGED <<kind, serverVars, poisoned, viewVars, sessionVars, triggerVars, mam, walk,
                       history>>
    BY <1>5 DEF WriteCommits
  <2> HIDE DEF job
  <2>2. /\ cache' \subseteq Displayable /\ gaps' \subseteq Gap /\ Normal(gaps')
        /\ queue' \in Seq(Job) /\ Ordered(queue')
    BY <1>2, <1>3, <1>4, <2>1 DEF Shape, TypeOK
  <2> QED
    BY <2>1, <2>2 DEF Shape, TypeOK, serverVars, viewVars, sessionVars, triggerVars, history
<1>6. CASE WriteFails
  <2>1. /\ poisoned' \in BOOLEAN /\ lost' \in BOOLEAN /\ queue' = Tail(queue)
        /\ UNCHANGED <<kind, serverVars, cache, gaps, viewVars, sessionVars, triggerVars, mam, walk,
                       heard, edge>>
    BY <1>3, <1>6 DEF WriteFails, Shape, TypeOK
  <2>2. queue' \in Seq(Job) /\ Ordered(queue')
    BY <1>2, <2>1
  <2> QED
    BY <2>1, <2>2 DEF Shape, TypeOK, serverVars, viewVars, sessionVars, triggerVars
<1> QED
  BY <1>5, <1>6

\* What the stream delivers or replays.
LEMMA StreamTypes ==
  ASSUME Shape, Arrive \/ Resume
  PROVE  Shape'
<1>0. live \in 0..MaxPos /\ purged \in 0..live /\ seen \in 0..live /\ MaxPos \in Nat
  BY NumberFacts DEF Shape, TypeOK
<1>1. CASE Arrive
  <2> DEFINE ps == {live + 1} \cap Displayable
  <2>1. live' \in 0..MaxPos /\ purged' \in 0..live' /\ seen' \in 0..live'
    BY <1>0, <1>1 DEF Arrive
  <2>2. Deliver(ps) /\ UNCHANGED active /\ ps \subseteq Displayable
    BY <1>1 DEF Arrive
  <2> HIDE DEF ps
  <2>3. /\ heard' \subseteq Displayable /\ resident' \subseteq Displayable
        /\ queue' \in Seq(Job) /\ Ordered(queue')
    BY <2>2, DeliverTypes
  <2> QED
    BY <1>1, <2>1, <2>3 DEF Arrive, Shape, TypeOK, triggerVars
<1>2. CASE Resume
  <2> DEFINE ps == {p \in Displayable : seen < p /\ p <= live}
  <2>1. live' \in 0..MaxPos /\ purged' \in 0..live' /\ seen' \in 0..live'
    BY <1>0, <1>2 DEF Resume, serverVars
  <2>2. Deliver(ps) /\ UNCHANGED active /\ ps \subseteq Displayable
    BY <1>2 DEF Resume
  <2> HIDE DEF ps
  <2>3. /\ heard' \subseteq Displayable /\ resident' \subseteq Displayable
        /\ queue' \in Seq(Job) /\ Ordered(queue')
    BY <2>2, DeliverTypes
  <2>4. Most(NewestHeld, MaxOf(heard')) \in 0..MaxPos
    BY <2>3, MaxOfOK, NewestHeldOK DEF Most
  <2>5. /\ fetched' \in BOOLEAN /\ sessionStart' \in 0..Edge /\ owed' \in {"no", "due", "listed"}
        /\ edge' \in 0..MaxPos
    <3>1. CASE kind = "chat" /\ fetched' = active /\ UNCHANGED <<sessionStart, owed, edge>>
      BY <3>1 DEF Shape, TypeOK
    <3>2. CASE /\ kind = "room"
               /\ fetched' = (mam.queried \/ Existing # {})
               /\ sessionStart' = live + 1
               /\ owed' = IF ~active /\ ~mam.caughtUp THEN "due" ELSE "no"
               /\ edge' = IF mam.caughtUp THEN edge ELSE Most(NewestHeld, MaxOf(heard'))
      BY <1>0, <2>4, <3>2, NumberFacts DEF Shape, TypeOK
    <3> QED
      BY <1>2, <3>1, <3>2 DEF Resume
  <2>6. /\ online' = TRUE /\ resumable' = FALSE /\ due' = FALSE
        /\ UNCHANGED <<kind, cache, gaps, poisoned, active, mam, walk, lost>>
    BY <1>2 DEF Resume
  <2> QED
    BY <2>1, <2>3, <2>5, <2>6 DEF Shape, TypeOK
<1> QED
  BY <1>1, <1>2

\* The steps that end every walk.
LEMMA ResetTypes ==
  ASSUME Shape, Drop \/ Crash
  PROVE  Shape'
<1>1. CASE Drop
  <2>1. walk' \in [Slots -> Walk] /\ \A t \in Slots : WalkOK(walk'[t])
    BY <1>1, NoWalksTypes DEF Drop
  <2> QED
    BY <1>1, <2>1 DEF Drop, Shape, TypeOK, serverVars, storeVars, viewVars, history
<1>2. CASE Crash
  <2>1. walk' \in [Slots -> Walk] /\ \A t \in Slots : WalkOK(walk'[t])
    BY <1>2, NoWalksTypes DEF Crash
  <2>2. PICK n \in 0..Len(queue) :
          /\ cache' = cache \cup UNION {queue[i].rows : i \in 1..n}
          /\ lost' = (lost \/ \E i \in n + 1 .. Len(queue) : ~queue[i].archive)
    BY <1>2 DEF Crash
  <2>3. \A i \in 1..n : queue[i].rows \subseteq Displayable
    <3>1. Len(queue) \in Nat
      BY LenProperties DEF Shape, TypeOK
    <3>2. \A i \in 1..n : i \in 1..Len(queue)
      BY <3>1
    <3> QED
      BY <3>2, RowsOf
  <2>4. cache' \subseteq Displayable
    BY <2>2, <2>3 DEF Shape, TypeOK
  <2>5. edge' \in 0..MaxPos
    BY <1>2, <2>4, MaxOfOK DEF Crash
  <2>6. <<>> \in Seq(Job) /\ Ordered(<<>>)
    BY EmptySeq DEF Ordered
  <2>7. lost' \in BOOLEAN /\ resumable' \in BOOLEAN
    BY <1>2, <2>2 DEF Crash, Shape, TypeOK
  <2>8. 0 \in 0..Edge
    BY NumberFacts
  <2>9. [queried |-> FALSE, caughtUp |-> FALSE] \in [queried : BOOLEAN, caughtUp : BOOLEAN]
    OBVIOUS
  <2>10. /\ queue' = <<>> /\ poisoned' = FALSE /\ active' = FALSE /\ resident' = {}
         /\ mam' = [queried |-> FALSE, caughtUp |-> FALSE]
         /\ online' = FALSE /\ sessionStart' = 0 /\ fetched' = FALSE /\ due' = FALSE /\ owed' = "no"
         /\ UNCHANGED <<kind, live, purged, gaps, seen, heard>>
    BY <1>2 DEF Crash, serverVars
  <2> QED
    BY <2>1, <2>4, <2>5, <2>6, <2>7, <2>8, <2>9, <2>10 DEF Shape, TypeOK
<1> QED
  BY <1>1, <1>2

\* The steps that start or end a walk and touch nothing that is stored.
LEMMA FrameTypes ==
  ASSUME Shape, UNCHANGED startUnchanged, NEW s \in Slots, NEW w, WalkOK(w),
         walk' = [walk EXCEPT ![s] = w] \/ walk' = walk,
         fetched' \in BOOLEAN, due' \in BOOLEAN, owed' \in {"no", "due", "listed"}
  PROVE  Shape'
<1>1. walk' \in [Slots -> Walk] /\ \A t \in Slots : WalkOK(walk'[t])
  BY WalkTypes DEF Shape, TypeOK
<1> QED
  BY <1>1 DEF startUnchanged, Shape, TypeOK, serverVars, storeVars, viewVars, sessionVars, history

LEMMA StartTypes ==
  ASSUME Shape, StartFront \/ LoadMissing \/ StartBack
  PROVE  Shape'
<1>0. /\ resident \cup cache \subseteq Displayable
      /\ (IF cache = {} /\ kind = "chat" THEN Existing ELSE cache) \subseteq Displayable
      /\ "front" \in Slots /\ "back" \in Slots
      /\ fetched \in BOOLEAN /\ due \in BOOLEAN /\ owed \in {"no", "due", "listed"}
      /\ gaps \subseteq Gap
  BY ExistingTypes DEF Shape, TypeOK, Slots
<1>1. CASE StartFront
  <2>1. WalkOK(CatchUpWalk(resident \cup cache))
    BY <1>0, CatchUpOK
  <2>2. /\ UNCHANGED startUnchanged /\ due' = FALSE /\ fetched' \in BOOLEAN /\ owed' = owed
        /\ \/ walk' = [walk EXCEPT !["front"] = CatchUpWalk(resident \cup cache)]
           \/ walk' = walk
    BY <1>0, <1>1 DEF StartFront
  <2> QED
    BY <1>0, <2>1, <2>2, FrameTypes
<1>2. CASE LoadMissing
  <2>1. PICK g \in gaps :
          walk' = [walk EXCEPT !["front"] = [ResumeGap(g) EXCEPT !.manual = TRUE, !.left = ManualPages]]
    BY <1>2 DEF LoadMissing
  <2>2. WalkOK([ResumeGap(g) EXCEPT !.manual = TRUE, !.left = ManualPages])
    BY <1>0, ResumeGapOK, ManualOK
  <2>3. UNCHANGED startUnchanged /\ UNCHANGED <<fetched, due, owed>>
    BY <1>2 DEF LoadMissing, triggerVars
  <2> QED
    BY <1>0, <2>1, <2>2, <2>3, FrameTypes
<1>3. CASE StartBack
  <2> DEFINE held == IF cache = {} /\ kind = "chat" THEN Existing ELSE cache
  <2>1. WalkOK(CatchUpWalk(held))
    BY <1>0, CatchUpOK
  <2>2. /\ UNCHANGED startUnchanged /\ UNCHANGED <<fetched, due>> /\ owed' = "no"
        /\ walk' = [walk EXCEPT !["back"] = CatchUpWalk(held)]
    BY <1>3 DEF StartBack
  <2> HIDE DEF held
  <2> QED
    BY <1>0, <2>1, <2>2, FrameTypes
<1> QED
  BY <1>1, <1>2, <1>3

LEMMA EndTypes ==
  ASSUME Shape, NEW s \in Slots, SearchEnds(s) \/ QueryFails(s) \/ QueryLost(s)
  PROVE  Shape'
<1>1. CASE SearchEnds(s)
  <2>1. UNCHANGED startUnchanged /\ UNCHANGED <<fetched, due, owed>> /\ walk' = [walk EXCEPT ![s] = NoWalk]
    BY <1>1 DEF SearchEnds, triggerVars
  <2> QED
    BY <2>1, NoWalkOK, FrameTypes DEF Shape, TypeOK
<1>2. CASE FailWalk(s)
  <2>1. /\ UNCHANGED startUnchanged /\ UNCHANGED due /\ walk' = [walk EXCEPT ![s] = NoWalk]
        /\ fetched' \in BOOLEAN /\ owed' \in {"no", "due", "listed"}
    BY <1>2 DEF FailWalk, Shape, TypeOK
  <2> QED
    BY <2>1, NoWalkOK, FrameTypes DEF Shape, TypeOK
<1> QED
  BY <1>1, <1>2 DEF QueryFails, QueryLost

-----------------------------------------------------------------------------
(* The types of a page.                                                    *)

LEMMA SearchOK ==
  ASSUME NEW s, NEW bottom \in Pos \cup {NoId}
  PROVE  WalkOK(Search(s, bottom)) /\ Search(s, bottom).phase # "forward"
<1> DEFINE w == [NoWalk EXCEPT !.phase = "search", !.firstPage = TRUE, !.left = StitchPages,
                               !.bottom = bottom]
<1>1. NoWalk \in Walk
  BY NoWalkOK DEF WalkOK
<1>2. w \in Walk /\ w.phase = "search"
  BY <1>1, NumberFacts DEF Walk
<1>3. Search(s, bottom) \in {w, NoWalk}
  BY DEF Search
<1> HIDE DEF w
<1> QED
  BY <1>2, <1>3, NoWalkOK DEF WalkOK

LEMMA LatestOK ==
  ASSUME NEW w, WalkOK(w), NEW loose \in BOOLEAN
  PROVE  LET l == [FetchLatest EXCEPT !.loose = loose, !.origin = w.origin]
             m == [FetchLatest EXCEPT !.manual = w.manual]
         IN  WalkOK(l) /\ l.phase = "latest" /\ WalkOK(m) /\ m.phase = "latest"
<1>1. FetchLatest \in Walk /\ FetchLatest.phase = "latest"
  BY NoWalkOK DEF WalkOK
<1> QED
  BY <1>1 DEF WalkOK, Walk

LEMMA NextPageOK ==
  ASSUME NEW w, WalkOK(w), w.phase = "forward", w.left # 1, NEW last \in 0..MaxPos,
         NEW rows, rows \subseteq Displayable
  PROVE  LET n == NextPage(w, last, rows) IN
         WalkOK(n) /\ n.phase = "forward" /\ n.origin = w.origin /\ n.after = last /\ n.rows = rows
<1>1. w \in Walk /\ w.left - 1 \in Nat /\ w.left - 1 # 0
  BY DEF WalkOK, Walk
<1> QED
  BY <1>1 DEF NextPage, WalkOK, Walk

\* setMAMQueryCompleted and the point the session counts as caught up from.
LEMMA CompletedTypes ==
  ASSUME Shape, NEW caughtUp \in BOOLEAN, NEW from \in 0..MaxPos, Completed(caughtUp, from)
  PROVE  mam' \in [queried : BOOLEAN, caughtUp : BOOLEAN] /\ edge' \in 0..MaxPos
  BY DEF Completed, Shape, TypeOK, Most

LEMMA PageTypes ==
  ASSUME Shape, UNCHANGED pageUnchanged, NEW s \in Slots, NEW w, WalkOK(w),
         walk' = [walk EXCEPT ![s] = w],
         gaps' \subseteq Gap, Normal(gaps'), resident' \subseteq Displayable,
         queue' \in Seq(Job), Ordered(queue'),
         mam' \in [queried : BOOLEAN, caughtUp : BOOLEAN], edge' \in 0..MaxPos
  PROVE  Shape'
<1>1. walk' \in [Slots -> Walk] /\ \A t \in Slots : WalkOK(walk'[t])
  BY WalkTypes
<1> QED
  BY <1>1 DEF pageUnchanged, Shape, TypeOK, serverVars, sessionVars, triggerVars

LEMMA AnchorTypes ==
  ASSUME Shape, NEW s \in Slots, AnchorPurged(s)
  PROVE  Shape'
<1> DEFINE w == walk[s]
           m == [FetchLatest EXCEPT !.manual = w.manual]
<1>1. WalkOK(w) /\ gaps \subseteq Gap /\ Normal(gaps) /\ queue \in Seq(Job) /\ Ordered(queue)
      /\ FALSE \in BOOLEAN
  BY DEF Shape, TypeOK
<1>2. WalkOK(m)
  BY <1>1, LatestOK
<1>3. gaps' \subseteq Gap /\ Normal(gaps')
  BY <1>1, Cleared DEF AnchorPurged
<1>4. queue' \in Seq(Job) /\ Ordered(queue')
  BY <1>1, StaleOf DEF AnchorPurged
<1>5. walk' = [walk EXCEPT ![s] = m]
  BY DEF AnchorPurged
<1>6. UNCHANGED <<kind, serverVars, cache, poisoned, viewVars, sessionVars, triggerVars, mam, history>>
  BY DEF AnchorPurged
<1> HIDE DEF m, w
<1>7. walk' \in [Slots -> Walk] /\ \A t \in Slots : WalkOK(walk'[t])
  BY <1>2, <1>5, WalkTypes
<1> QED
  BY <1>3, <1>4, <1>6, <1>7 DEF Shape, TypeOK, serverVars, viewVars, sessionVars, triggerVars, history

\* What a forward page holds, and where it ends.
LEMMA ForwardFacts ==
  ASSUME Shape, NEW s \in Slots
  PROVE  LET w     == walk[s]
             below == Most(w.after, purged)
             top   == Least(below + PageSize, live)
             last  == IF top > below THEN top ELSE NoId
             page  == {p \in Displayable : below < p /\ p <= top}
         IN  /\ WalkOK(w) /\ below \in 0..MaxPos /\ w.after <= below /\ purged <= below
             /\ top \in 0..MaxPos /\ last \in 0..MaxPos /\ (last = 0 \/ last = top)
             /\ page \subseteq Displayable /\ w.rows \subseteq Displayable
             /\ w.origin \in 0..MaxPos /\ w.after \in 0..MaxPos
             /\ purged \in Nat /\ (below = w.after \/ below = purged)
<1>1. WalkOK(walk[s])
  BY DEF Shape
<1>2. /\ walk[s].after \in 0..MaxPos /\ walk[s].origin \in 0..MaxPos
      /\ walk[s].rows \subseteq Displayable
  BY <1>1, NumberFacts DEF WalkOK, Walk, Pos
<1>3. live \in 0..MaxPos /\ purged \in 0..live /\ MaxPos \in Nat /\ PageSize \in Nat
  BY NumberFacts DEF Shape, TypeOK
<1>4. live \in Nat /\ purged \in Nat /\ live <= MaxPos /\ purged <= live
  BY <1>3
<1> DEFINE below == Most(walk[s].after, purged)
           top   == Least(below + PageSize, live)
<1>5. below \in 0..MaxPos /\ walk[s].after <= below /\ purged <= below
      /\ (below = walk[s].after \/ below = purged)
  BY <1>2, <1>3, <1>4 DEF Most
<1> HIDE DEF below
<1>6. top \in 0..MaxPos
  BY <1>3, <1>4, <1>5 DEF Least
<1> HIDE DEF top
<1>7. (IF top > below THEN top ELSE NoId) \in {0, top} /\ 0 \in 0..MaxPos
  BY <1>3 DEF NoId
<1> QED
  BY <1>1, <1>2, <1>4, <1>5, <1>6, <1>7 DEF below, top

\* A forward walk goes on, or is replaced by one that is not a forward walk.
LEMMA ForwardWalk ==
  ASSUME Shape, NEW s \in Slots, ForwardPage(s)
  PROVE  LET w    == walk[s]
             top  == Least(Most(w.after, purged) + PageSize, live)
             page == {p \in Displayable : Most(w.after, purged) < p /\ p <= top}
         IN  \E v : /\ WalkOK(v) /\ walk' = [walk EXCEPT ![s] = v]
                   /\ \/ v.phase # "forward"
                      \/ /\ top < live /\ v.origin = w.origin /\ v.after = top
                         /\ v.rows = w.rows \cup page
<1> DEFINE w        == walk[s]
           below    == Most(w.after, purged)
           top      == Least(below + PageSize, live)
           last     == IF top > below THEN top ELSE NoId
           page     == {p \in Displayable : below < p /\ p <= top}
           rows     == w.rows \cup page
           complete == top >= live
           ends     == complete \/ w.left = 1
           loose    == rows = {} /\ \A g \in gaps : g.start # w.origin
           latest   == [FetchLatest EXCEPT !.loose = loose, !.origin = w.origin]
           v        == IF ~ends THEN NextPage(w, top, rows)
                       ELSE IF complete THEN IF w.manual THEN NoWalk ELSE Search(s, NoId)
                       ELSE IF w.manual THEN NoWalk
                       ELSE latest
<1>1. /\ WalkOK(w) /\ top \in 0..MaxPos /\ page \subseteq Displayable /\ w.rows \subseteq Displayable
  BY ForwardFacts
<1>2. w.phase = "forward" /\ walk' = [walk EXCEPT ![s] = v]
  BY DEF ForwardPage
<1>3. live \in Nat /\ loose \in BOOLEAN /\ rows \subseteq Displayable /\ NoId \in Pos \cup {NoId}
  BY <1>1 DEF Shape, TypeOK
<1>4. WalkOK(latest) /\ latest.phase = "latest"
  BY <1>1, <1>3, LatestOK
<1>5. WalkOK(Search(s, NoId)) /\ Search(s, NoId).phase # "forward"
  BY <1>3, SearchOK
<1> HIDE DEF latest, loose, rows
<1>6. CASE ends
  <2>1. v \in {NoWalk, Search(s, NoId), latest}
    BY <1>6
  <2>2. WalkOK(v) /\ v.phase # "forward"
    BY <2>1, <1>4, <1>5, NoWalkOK
  <2> HIDE DEF v
  <2> QED
    BY <1>2, <2>2
<1>7. CASE ~ends
  <2>1. v = NextPage(w, top, rows) /\ w.left # 1
    BY <1>7
  <2>2. WalkOK(v) /\ v.origin = w.origin /\ v.after = top /\ v.rows = rows
    BY <1>1, <1>2, <1>3, <2>1, NextPageOK
  <2>3. top < live
    BY <1>1, <1>3, <1>7, Displayed
  <2> HIDE DEF v
  <2> QED
    BY <1>2, <2>2, <2>3 DEF rows
<1> QED
  BY <1>6, <1>7

LEMMA ForwardTypes ==
  ASSUME Shape, NEW s \in Slots, ForwardPage(s)
  PROVE  Shape'
<1> DEFINE w        == walk[s]
           below    == Most(w.after, purged)
           top      == Least(below + PageSize, live)
           last     == IF top > below THEN top ELSE NoId
           page     == {p \in Displayable : below < p /\ p <= top}
           rows     == w.rows \cup page
           complete == top >= live
           merging  == IF kind = "room" THEN page ELSE rows
           merged   == Existing \cup merging
           next     == AfterForwardPage(gaps, merging, w.origin, last, complete, merged)
<1>1. /\ WalkOK(w) /\ top \in 0..MaxPos /\ last \in 0..MaxPos /\ page \subseteq Displayable
      /\ w.rows \subseteq Displayable /\ w.origin \in 0..MaxPos
  BY ForwardFacts
<1>2. merging \subseteq Displayable /\ merged \subseteq Displayable /\ gaps \subseteq Gap
  BY <1>1, ExistingTypes DEF Shape, TypeOK
<1>3. /\ \/ StorePage(merging, next) /\ Completed(complete, ResumedAt(w))
         \/ UNCHANGED <<gaps, queue, resident, mam, edge>>
      /\ UNCHANGED pageUnchanged
  BY DEF ForwardPage
<1>4. PICK v : WalkOK(v) /\ walk' = [walk EXCEPT ![s] = v]
  BY ForwardWalk
<1>5. complete \in BOOLEAN /\ ResumedAt(w) \in 0..MaxPos
  BY <1>1, NumberFacts DEF ResumedAt
<1> HIDE DEF complete, merged, merging
<1>6. next \subseteq Gap /\ Normal(next)
  BY <1>1, <1>2, AfterForward
<1> HIDE DEF next
<1>7. CASE StorePage(merging, next) /\ Completed(complete, ResumedAt(w))
  <2>1. /\ gaps' \subseteq Gap /\ Normal(gaps') /\ resident' \subseteq Displayable
        /\ queue' \in Seq(Job) /\ Ordered(queue')
    BY <1>2, <1>6, <1>7, StoreTypes
  <2>2. mam' \in [queried : BOOLEAN, caughtUp : BOOLEAN] /\ edge' \in 0..MaxPos
    BY <1>5, <1>7, CompletedTypes
  <2> QED
    BY <1>3, <1>4, <2>1, <2>2, PageTypes
<1>8. CASE UNCHANGED <<gaps, queue, resident, mam, edge>>
  BY <1>3, <1>4, <1>8, PageTypes DEF Shape, TypeOK
<1> QED
  BY <1>3, <1>7, <1>8

\* A page that is walked down from above.
LEMMA AboveOf ==
  ASSUME NEW bound, NEW n
  PROVE  /\ Above(bound, n) \subseteq Pos
         /\ Above(bound, n) \cap Displayable \subseteq Displayable
         /\ FirstId(Above(bound, n)) \in Pos \cup {NoId}
         /\ Above(bound, n) # {} => Oldest(Above(bound, n)) \in Pos
<1>1. Above(bound, n) \subseteq Pos
  BY DEF Above
<1>2. ASSUME Above(bound, n) # {} PROVE Oldest(Above(bound, n)) \in Pos
  BY <1>1, <1>2, OldestOf, Displayed
<1> QED
  BY <1>1, <1>2 DEF FirstId

LEMMA LatestTypes ==
  ASSUME Shape, NEW s \in Slots, LatestPage(s)
  PROVE  Shape'
<1> DEFINE w        == walk[s]
           n        == PagesTo(live + 1, RetryPages)
           entries  == Above(live + 1, n)
           rows     == entries \cap Displayable
           complete == Exhausted(live + 1, n)
           from     == IF ~w.loose THEN ResumedAt(w) ELSE IF rows = {} THEN live ELSE Oldest(rows) - 1
           next     == AfterBackwardPage(gaps, rows, complete, TRUE, Existing)
           v        == IF w.manual \/ complete THEN NoWalk ELSE Search(s, FirstId(entries))
<1>1. /\ StorePage(rows, next) /\ Completed(TRUE, from)
      /\ walk' = [walk EXCEPT ![s] = v] /\ UNCHANGED pageUnchanged
  BY DEF LatestPage
<1>2. rows \subseteq Displayable /\ FirstId(entries) \in Pos \cup {NoId}
  BY AboveOf
<1>3. WalkOK(v)
  BY <1>2, SearchOK, NoWalkOK
<1>4. next \subseteq Gap /\ Normal(next)
  BY <1>2, ExistingTypes, AfterBackward DEF Shape, TypeOK
<1> HIDE DEF rows, next, v
<1>5. from \in 0..MaxPos
  <2>1. live \in 0..MaxPos /\ w.origin \in 0..MaxPos
    BY NumberFacts DEF Shape, TypeOK, WalkOK, Walk, Pos
  <2>2. ASSUME rows # {} PROVE Oldest(rows) - 1 \in 0..MaxPos
    <3>1. Oldest(rows) \in Pos
      BY <1>2, <2>2, OldestOf, Displayed
    <3> QED
      BY <3>1, NumberFacts DEF Pos
  <2>3. 0 \in 0..MaxPos
    BY NumberFacts
  <2> QED
    BY <2>1, <2>2, <2>3 DEF ResumedAt
<1> HIDE DEF from
<1>6. mam' \in [queried : BOOLEAN, caughtUp : BOOLEAN] /\ edge' \in 0..MaxPos
  BY <1>1, <1>5, CompletedTypes
<1>7. /\ gaps' \subseteq Gap /\ Normal(gaps') /\ resident' \subseteq Displayable
      /\ queue' \in Seq(Job) /\ Ordered(queue')
  BY <1>1, <1>2, <1>4, StoreTypes
<1> QED
  BY <1>1, <1>3, <1>6, <1>7, PageTypes

LEMMA SearchTypes ==
  ASSUME Shape, NEW s \in Slots, SearchPage(s)
  PROVE  Shape'
<1> DEFINE w == walk[s]
<1>1. PICK b :
        LET n        == PagesTo(b, MaxPos)
            entries  == Above(b, n)
            rows     == entries \cap Displayable
            complete == Exhausted(b, n)
        IN  /\ StorePage(rows, AfterBackwardPage(gaps, rows, complete, FALSE, Existing))
            /\ walk' = [walk EXCEPT ![s] =
                 IF complete \/ entries = {} \/ w.left = 1 THEN NoWalk
                 ELSE [w EXCEPT !.bottom = Oldest(entries), !.left = w.left - 1, !.firstPage = FALSE]]
  BY DEF SearchPage
<1>2. /\ w.phase = "search" /\ w.left > 0 /\ mam' = [mam EXCEPT !.queried = TRUE]
      /\ UNCHANGED <<pageUnchanged, edge>>
  BY DEF SearchPage
<1> DEFINE n        == PagesTo(b, MaxPos)
           entries  == Above(b, n)
           rows     == entries \cap Displayable
           complete == Exhausted(b, n)
           next     == AfterBackwardPage(gaps, rows, complete, FALSE, Existing)
           v        == IF complete \/ entries = {} \/ w.left = 1 THEN NoWalk
                       ELSE [w EXCEPT !.bottom = Oldest(entries), !.left = w.left - 1,
                                      !.firstPage = FALSE]
<1>3. StorePage(rows, next) /\ walk' = [walk EXCEPT ![s] = v]
  BY <1>1
<1>4. rows \subseteq Displayable /\ (entries # {} => Oldest(entries) \in Pos)
  BY AboveOf
<1>5. next \subseteq Gap /\ Normal(next)
  BY <1>4, ExistingTypes, AfterBackward DEF Shape, TypeOK
<1> HIDE DEF entries, complete
<1>6. WalkOK(v)
  <2>1. w \in Walk /\ w.left - 1 \in Nat
    BY <1>2 DEF Shape, WalkOK, Walk
  <2>2. CASE complete \/ entries = {} \/ w.left = 1
    BY <2>2, NoWalkOK
  <2>3. CASE ~(complete \/ entries = {} \/ w.left = 1)
    <3>1. v = [w EXCEPT !.bottom = Oldest(entries), !.left = w.left - 1, !.firstPage = FALSE]
      BY <2>3
    <3> QED
      BY <1>2, <1>4, <2>1, <2>3, <3>1 DEF WalkOK, Walk
  <2> QED
    BY <2>2, <2>3
<1> HIDE DEF rows, next, v
<1>7. mam' \in [queried : BOOLEAN, caughtUp : BOOLEAN] /\ edge' \in 0..MaxPos
  BY <1>2 DEF Shape, TypeOK
<1>8. /\ gaps' \subseteq Gap /\ Normal(gaps') /\ resident' \subseteq Displayable
      /\ queue' \in Seq(Job) /\ Ordered(queue')
  BY <1>3, <1>4, <1>5, StoreTypes
<1>9. UNCHANGED pageUnchanged
  BY <1>2
<1> QED
  BY <1>3, <1>6, <1>7, <1>8, <1>9, PageTypes

\* Every step of the model keeps the types.
LEMMA StepShape == Shape /\ [Next]_vars => Shape'
<1> SUFFICES ASSUME Shape, [Next]_vars PROVE Shape'
  OBVIOUS
<1>1. CASE Fault
  BY <1>1, WriteTypes, PlainTypes, ResetTypes, EndTypes DEF Fault
<1>2. CASE Step
  <2>1. ASSUME NEW s \in Slots, Page(s) PROVE Shape'
    BY <2>1, AnchorTypes, ForwardTypes, LatestTypes, SearchTypes DEF Page
  <2> QED
    BY <1>2, <2>1, WriteTypes, PlainTypes, StreamTypes, StartTypes, EndTypes DEF Step
<1>3. CASE UNCHANGED vars
  BY <1>3 DEF Shape, TypeOK, vars, serverVars, storeVars, viewVars, sessionVars, triggerVars, history
<1> QED
  BY <1>1, <1>2, <1>3 DEF Next

\* The recorded gaps of an entity are always an ordered list of disjoint
\* intervals, and every queue, walk and cursor stays in its range, whatever the
\* archive, the page sizes and the faults (mamGap.ts, archiveMerge.ts).
THEOREM TypeCorrect == Spec => []TypeOK
<1>1. Init => Shape
  BY InitShape
<1>2. Shape /\ [Next]_vars => Shape'
  BY StepShape
<1>3. Shape => TypeOK
  BY DEF Shape
<1> QED
  BY <1>1, <1>2, <1>3, PTL DEF Spec, Safety

-----------------------------------------------------------------------------
(* What the gaps rest on.  A gap's resume id is sound because everything   *)
(* the walk passed is stored by the time its transition is applied: the    *)
(* invariant says so of the recorded gaps, of each transition that still   *)
(* waits for its write, and of each walk still under way.                  *)

Held == {p \in Displayable : Known(p)}
Settled == Held \cup Pending(queue)

\* A chat walk keeps its rows until it ends.
Collected(k, w) == IF k = "chat" THEN w.rows ELSE {}

PassedOver(k, w, ps) ==
  w.phase = "forward" =>
    \A p \in Displayable : w.origin <= p /\ p <= w.after => p \in ps \cup Collected(k, w)

Content ==
  /\ \A g \in gaps : Sound(g, Held)
  /\ ~poisoned => /\ Planned(queue, Held)
                  /\ resident \subseteq Settled
                  /\ \A s \in Slots : PassedOver(kind, walk[s], Settled)

\* One way to keep it: what is held or pending only grows, and the walks that
\* are new have passed over what is.
LEMMA ContentStep ==
  ASSUME Content, kind' = kind, poisoned' = poisoned,
         \A g \in gaps' : Sound(g, Held'),
         ~poisoned => /\ Planned(queue', Held')
                      /\ Settled \subseteq Settled'
                      /\ resident' \subseteq resident \cup Settled'
                      /\ \A s \in Slots : walk'[s] = walk[s] \/ PassedOver(kind, walk'[s], Settled')
  PROVE  Content'
<1>1. ASSUME ~poisoned, NEW s \in Slots PROVE PassedOver(kind', walk'[s], Settled')
  <2>1. CASE walk'[s] = walk[s]
    <3>1. PassedOver(kind, walk[s], Settled) /\ Settled \subseteq Settled'
      BY <1>1 DEF Content
    <3> QED
      BY <2>1, <3>1 DEF PassedOver
  <2>2. CASE PassedOver(kind, walk'[s], Settled')
    BY <2>2
  <2> QED
    BY <1>1, <2>1, <2>2
<1>2. ~poisoned => resident' \subseteq Settled'
  BY DEF Content
<1> QED
  BY <1>1, <1>2 DEF Content

LEMMA HeldGrows ==
  ASSUME purged' >= purged \/ purged' = purged, purged \in Nat, purged' \in Nat,
         cache \subseteq cache', heard \subseteq heard'
  PROVE  Held \subseteq Held'
<1>1. \A p \in Displayable : p \in Nat
  BY Displayed
<1> QED
  BY <1>1 DEF Held, Known

\* The steps that leave the store's lists alone.
LEMMA QuietStep ==
  ASSUME Content, UNCHANGED <<kind, gaps, queue, poisoned>>, Held \subseteq Held',
         resident' \subseteq resident \cup Held',
         \A s \in Slots : \/ walk'[s] = walk[s]
                          \/ ~poisoned => PassedOver(kind, walk'[s], Settled)
  PROVE  Content'
<1>1. \A g \in gaps' : Sound(g, Held')
  BY SoundGrows DEF Content
<1>2. ~poisoned => Planned(queue', Held')
  BY PlannedGrows DEF Content
<1>3. Settled \subseteq Settled' /\ Held' \subseteq Settled'
  BY DEF Settled
<1>4. ASSUME ~poisoned, NEW s \in Slots
      PROVE  walk'[s] = walk[s] \/ PassedOver(kind, walk'[s], Settled')
  BY <1>3, <1>4 DEF PassedOver
<1> QED
  BY <1>1, <1>2, <1>3, <1>4, ContentStep

LEMMA InitContent == Init => Content
<1> SUFFICES ASSUME Init PROVE Content
  OBVIOUS
<1>1. Planned(queue, Held) /\ resident = {} /\ gaps = {}
  BY EmptySeq DEF Init, Planned
<1>2. \A s \in Slots : PassedOver(kind, walk[s], Settled)
  BY NoWalkOK DEF Init, PassedOver
<1> QED
  BY <1>1, <1>2 DEF Content

\* What leaves the walks alone, or ends them.
LEMMA PlainContent ==
  ASSUME Shape, Content,
         \/ ServerArchives \/ ServerPurges \/ GoOnline \/ Activate \/ Deactivate
         \/ ListConversation \/ SkipListed \/ Drop
         \/ \E s \in Slots : SearchEnds(s) \/ FailWalk(s)
         \/ UNCHANGED vars
  PROVE  Content'
<1>1. UNCHANGED <<kind, gaps, queue, poisoned, cache, heard>>
  BY DEF ServerArchives, ServerPurges, GoOnline, Activate, Deactivate, ListConversation, SkipListed,
     Drop, SearchEnds, FailWalk, startUnchanged, storeVars, history, vars
<1>2. purged' >= purged /\ purged \in Nat /\ purged' \in Nat
  <2>1. purged \in Nat /\ live \in Nat
    BY DEF Shape, TypeOK
  <2>2. purged' = purged \/ purged' \in purged + 1 .. live
    BY DEF ServerArchives, ServerPurges, GoOnline, Activate, Deactivate, ListConversation, SkipListed,
     Drop, SearchEnds, FailWalk, startUnchanged, serverVars, vars
  <2> QED
    BY <2>1, <2>2
<1>3. Held \subseteq Held'
  BY <1>1, <1>2, HeldGrows
<1>4. resident' \subseteq resident \cup Held'
  <2>1. resident' \in {resident, {}, cache}
    BY DEF ServerArchives, ServerPurges, GoOnline, Activate, Deactivate, ListConversation, SkipListed,
     Drop, SearchEnds, FailWalk, startUnchanged, viewVars, vars
  <2>2. cache \subseteq Held
    BY DEF Held, Known, Shape, TypeOK
  <2> QED
    BY <1>3, <2>1, <2>2
<1>5. \A s \in Slots : walk'[s] = walk[s] \/ walk'[s] = NoWalk
  BY DEF ServerArchives, ServerPurges, GoOnline, Activate, Deactivate, ListConversation, SkipListed,
     Drop, SearchEnds, FailWalk, startUnchanged, vars, Shape, TypeOK
<1>6. PassedOver(kind, NoWalk, Settled)
  BY NoWalkOK DEF PassedOver
<1> QED
  BY <1>1, <1>3, <1>4, <1>5, <1>6, QuietStep

\* A message the stream delivers is known from then on.
LEMMA StreamContent ==
  ASSUME Shape, Content, Arrive \/ Resume
  PROVE  Content'
<1>1. /\ UNCHANGED <<kind, purged, cache, gaps, poisoned, active, walk>>
      /\ \E ps : ps \subseteq Displayable /\ Deliver(ps)
  BY DEF Arrive, Resume, serverVars
<1>2. PICK ps : ps \subseteq Displayable /\ Deliver(ps)
  BY <1>1
<1>3. /\ heard' = heard \cup ps /\ resident' \subseteq resident \cup ps
      /\ queue' = queue \/ queue' = Append(queue, LiveJob(ps))
  BY <1>2 DEF Deliver
<1>4. purged \in Nat /\ queue \in Seq(Job)
  BY DEF Shape, TypeOK
<1>5. Held \subseteq Held' /\ ps \subseteq Held'
  <2>1. Held \subseteq Held'
    BY <1>1, <1>3, <1>4, HeldGrows
  <2>2. ps \subseteq Held'
    BY <1>2, <1>3 DEF Held, Known
  <2> QED
    BY <2>1, <2>2
<1>6. \A g \in gaps' : Sound(g, Held')
  BY <1>1, <1>5, SoundGrows DEF Content
<1>7. /\ Pending(queue') = Pending(queue)
      /\ Planned(queue, Held') => Planned(queue', Held')
  <2>1. LiveJob(ps) \in Job /\ Added(LiveJob(ps)) = {} /\ LiveJob(ps).next = {}
    BY <1>2, LiveJobOK
  <2> QED
    BY <1>3, <1>4, <2>1, AppendOf
<1>8. ~poisoned => Planned(queue', Held')
  BY <1>5, <1>7, PlannedGrows DEF Content
<1>9. Settled \subseteq Settled' /\ Held' \subseteq Settled'
  BY <1>5, <1>7 DEF Settled
<1> QED
  BY <1>1, <1>3, <1>5, <1>6, <1>8, <1>9, ContentStep

LEMMA GapFacts ==
  ASSUME Shape, Content, NEW g \in gaps
  PROVE  g \in Gap /\ g.start \in Nat /\ g.startId \in Nat /\ Sound(g, Held)
<1>1. g \in Gap /\ Sound(g, Held)
  BY DEF Content, Shape, TypeOK
<1>2. g.start \in Pos /\ g.startId \in Pos \cup {NoId}
  BY <1>1 DEF Gap
<1>3. Pos \subseteq Nat /\ NoId \in Nat
  BY NumberFacts DEF Pos
<1> QED
  BY <1>1, <1>2, <1>3

\* A catch-up starts where everything it leaves behind is held.
LEMMA CatchUpPassed ==
  ASSUME Shape, Content, NEW held, held \subseteq Displayable, held \subseteq Settled
  PROVE  PassedOver(kind, CatchUpWalk(held), Settled)
<1>0. \A p \in Displayable : p \in Nat /\ p \in Pos
  BY Displayed
<1>1. ASSUME NEW g \in gaps, CatchUpWalk(held) = ResumeGap(g)
      PROVE  PassedOver(kind, ResumeGap(g), Settled)
  <2>1. g \in Gap /\ g.start \in Nat /\ g.startId \in Nat /\ Sound(g, Held)
    BY GapFacts
  <2>2. /\ ResumeGap(g).origin = g.start
        /\ ResumeGap(g).after = IF g.startId = NoId THEN g.start - 1 ELSE g.startId
    BY <2>1, ResumeGapOK
  <2>3. ASSUME NEW p \in Displayable, ResumeGap(g).origin <= p, p <= ResumeGap(g).after
        PROVE  p \in Held
    <3>1. p \in Nat
      BY <1>0
    <3>2. g.startId # NoId
      BY <2>1, <2>2, <2>3, <3>1
    <3> QED
      BY <2>1, <2>2, <2>3, <3>2 DEF Sound
  <2> QED
    BY <2>3 DEF PassedOver, Settled
<1>2. ASSUME NEW p \in held PROVE PassedOver(kind, ResumeAfter(p), Settled)
  <2>1. p \in Pos /\ p \in Nat /\ p \in Settled
    BY <1>0
  <2>2. \A q \in Displayable : p <= q /\ q <= p => q = p
    BY <1>0, <2>1
  <2> QED
    BY <2>1, <2>2, ResumeAfterOK DEF PassedOver
<1>3. PassedOver(kind, FetchLatest, Settled)
  BY NoWalkOK DEF PassedOver
<1> QED
  BY <1>1, <1>2, <1>3, CatchUpOf

LEMMA StartContent ==
  ASSUME Shape, Content, StartFront \/ LoadMissing \/ StartBack
  PROVE  Content'
<1>1. UNCHANGED <<kind, gaps, queue, poisoned, purged, cache, heard, resident>>
  BY DEF StartFront, LoadMissing, StartBack, startUnchanged, serverVars, storeVars, viewVars, history
<1>2. Held \subseteq Held'
  BY <1>1 DEF Held, Known
<1> DEFINE held == IF cache = {} /\ kind = "chat" THEN Existing ELSE cache
<1>3. ~poisoned => /\ cache \cup resident \subseteq Settled /\ held \subseteq Settled
                   /\ cache \cup resident \subseteq Displayable /\ held \subseteq Displayable
  BY ExistingTypes DEF Shape, TypeOK, Content, Settled, Held, Known
<1>4. ASSUME ~poisoned, NEW w,
             \/ w = CatchUpWalk(resident \cup cache)
             \/ w = CatchUpWalk(held)
             \/ \E g \in gaps : w = [ResumeGap(g) EXCEPT !.manual = TRUE, !.left = ManualPages]
      PROVE  PassedOver(kind, w, Settled)
  <2>1. CASE w = CatchUpWalk(resident \cup cache) \/ w = CatchUpWalk(held)
    BY <1>3, <1>4, <2>1, CatchUpPassed
  <2>2. ASSUME NEW g \in gaps,
               w = [ResumeGap(g) EXCEPT !.manual = TRUE, !.left = ManualPages]
        PROVE  PassedOver(kind, w, Settled)
    <3>1. g \in Gap
      BY DEF Shape, TypeOK
    <3>2. w.origin = g.start /\ w.after = IF g.startId = NoId THEN g.start - 1 ELSE g.startId
      BY <2>2, <3>1, ResumeGapOK, ManualOK
    <3>3. g.start \in Nat /\ g.startId \in Nat /\ Sound(g, Held)
      BY GapFacts
    <3>4. ASSUME NEW p \in Displayable, w.origin <= p, p <= w.after PROVE p \in Held
      <4>1. p \in Nat
        BY Displayed
      <4>2. g.startId # NoId
        BY <3>2, <3>3, <3>4, <4>1
      <4> QED
        BY <3>2, <3>3, <3>4, <4>2 DEF Sound
    <3> QED
      BY <3>4 DEF PassedOver, Settled
  <2> QED
    BY <1>4, <2>1, <2>2
<1>5. \E s \in Slots : \E w :
        /\ walk' = walk \/ walk' = [walk EXCEPT ![s] = w]
        /\ \/ w = CatchUpWalk(resident \cup cache)
           \/ w = CatchUpWalk(held)
           \/ \E g \in gaps : w = [ResumeGap(g) EXCEPT !.manual = TRUE, !.left = ManualPages]
  <2>1. "front" \in Slots /\ "back" \in Slots
    BY DEF Slots
  <2> HIDE DEF held
  <2>2. CASE StartFront
    BY <2>1, <2>2 DEF StartFront
  <2>3. CASE LoadMissing
    BY <2>1, <2>3 DEF LoadMissing
  <2>4. CASE StartBack
    BY <2>1, <2>4 DEF StartBack, held
  <2> QED
    BY <2>2, <2>3, <2>4
<1>6. PICK s \in Slots : \E w : /\ walk' = walk \/ walk' = [walk EXCEPT ![s] = w]
                                /\ ~poisoned => PassedOver(kind, w, Settled)
  BY <1>4, <1>5
<1>7. PICK w : /\ walk' = walk \/ walk' = [walk EXCEPT ![s] = w]
               /\ ~poisoned => PassedOver(kind, w, Settled)
  BY <1>6
<1>8. \A r \in Slots : walk'[r] = walk[r] \/ walk'[r] = w
  BY <1>7 DEF Shape, TypeOK
<1> QED
  BY <1>1, <1>2, <1>7, <1>8, QuietStep

\* The oldest write commits: what it adds is held, and a transition that is
\* applied rests on nothing more.
LEMMA CommitContent ==
  ASSUME Shape, Content, WriteCommits
  PROVE  Content'
<1> DEFINE job == Head(queue)
           rest == Tail(queue)
<1>1. queue \in Seq(Job) /\ queue # <<>>
  BY DEF Shape, TypeOK, WriteCommits, Drained
<1>2. /\ job \in Job /\ rest \in Seq(Job)
      /\ Pending(queue) = Added(job) \cup Pending(rest)
      /\ Planned(queue, Held) =>
           /\ Planned(rest, Held \cup Added(job))
           /\ \A g \in job.next : Sound(g, Held \cup Added(job))
  BY <1>1, TailOf
<1>3. /\ cache' = cache \cup job.rows
      /\ gaps' = IF Applies(job) THEN job.next ELSE gaps
      /\ queue' = IF Applies(job) THEN Stale(rest) ELSE rest
      /\ UNCHANGED <<kind, purged, poisoned, resident, walk, heard>>
  BY DEF WriteCommits, serverVars, viewVars, history
<1>4. Applies(job) => ~poisoned
  BY DEF Applies
<1> HIDE DEF job, rest
<1>5. Held \cup Added(job) \subseteq Held'
  BY <1>2, <1>3 DEF Held, Known, Added, Job
<1>6. /\ Pending(queue') = Pending(rest)
      /\ \A ps : Planned(rest, ps) => Planned(queue', ps)
  BY <1>2, <1>3, StaleOf
<1>7. \A g \in gaps' : Sound(g, Held')
  <2>1. CASE Applies(job)
    <3>1. \A g \in job.next : Sound(g, Held \cup Added(job))
      BY <1>2, <1>4, <2>1 DEF Content
    <3> QED
      BY <1>3, <1>5, <2>1, <3>1, SoundGrows
  <2>2. CASE ~Applies(job)
    BY <1>3, <1>5, <2>2, SoundGrows DEF Content
  <2> QED
    BY <2>1, <2>2
<1>8. ~poisoned => Planned(queue', Held')
  BY <1>2, <1>5, <1>6, PlannedGrows DEF Content
<1>9. Settled \subseteq Settled'
  BY <1>2, <1>5, <1>6 DEF Settled
<1> QED
  BY <1>3, <1>7, <1>8, <1>9, ContentStep

\* It fails: an archive write poisons the chain, a live one was pending nothing.
LEMMA FailContent ==
  ASSUME Shape, Content, WriteFails
  PROVE  Content'
<1> DEFINE job == Head(queue)
           rest == Tail(queue)
<1>1. queue \in Seq(Job) /\ queue # <<>>
  BY DEF Shape, TypeOK, WriteFails, Drained
<1>2. /\ Pending(queue) = Added(job) \cup Pending(rest)
      /\ Planned(queue, Held) => Planned(rest, Held \cup Added(job))
  BY <1>1, TailOf
<1>3. /\ poisoned' = (poisoned \/ job.archive) /\ queue' = rest
      /\ UNCHANGED <<kind, purged, gaps, cache, resident, walk, heard>>
  BY DEF WriteFails, serverVars, viewVars
<1> HIDE DEF job, rest
<1>4. Held' = Held
  BY <1>3 DEF Held, Known
<1>5. CASE poisoned'
  BY <1>3, <1>4, <1>5 DEF Content
<1>6. CASE ~poisoned'
  <2>1. ~poisoned /\ Added(job) = {}
    BY <1>3, <1>6 DEF Added
  <2>2. Settled' = Settled /\ Held \cup Added(job) = Held
    BY <1>2, <1>3, <1>4, <2>1 DEF Settled
  <2>3. Planned(queue', Held')
    BY <1>2, <1>3, <1>4, <2>1, <2>2 DEF Content
  <2> QED
    BY <1>3, <1>4, <2>1, <2>2, <2>3 DEF Content
<1> QED
  BY <1>5, <1>6

\* A reload forgets every transition that was waiting.
LEMMA CrashContent ==
  ASSUME Shape, Content, Crash
  PROVE  Content'
<1>1. /\ cache \subseteq cache' /\ queue' = <<>> /\ resident' = {}
      /\ UNCHANGED <<purged, gaps, heard>>
      /\ walk' = [s \in Slots |-> NoWalk]
  BY DEF Crash, serverVars
<1>2. Held \subseteq Held'
  BY <1>1 DEF Held, Known
<1>3. Planned(queue', Held')
  BY <1>1, EmptySeq DEF Planned
<1>4. \A s \in Slots : PassedOver(kind', walk'[s], Settled')
  BY <1>1, NoWalkOK DEF PassedOver
<1>5. \A g \in gaps' : Sound(g, Held')
  BY <1>1, <1>2, SoundGrows DEF Content
<1> QED
  BY <1>1, <1>3, <1>4, <1>5 DEF Content

\* The gap forgets the id it was resumed after.
LEMMA AnchorContent ==
  ASSUME Shape, Content, NEW s \in Slots, AnchorPurged(s)
  PROVE  Content'
<1>1. /\ gaps' = ClearGapAnchor(gaps, walk[s].after)
      /\ queue' = queue \/ queue' = Stale(queue)
      /\ walk' = [walk EXCEPT ![s] = [FetchLatest EXCEPT !.manual = walk[s].manual]]
      /\ UNCHANGED <<kind, purged, cache, poisoned, resident, heard>>
  BY DEF AnchorPurged, serverVars, viewVars, history
<1>2. Held' = Held
  BY <1>1 DEF Held, Known
<1>3. \A g \in gaps' : Sound(g, Held')
  BY <1>1, <1>2, Cleared DEF Content, Shape, TypeOK
<1>4. /\ Pending(queue') = Pending(queue)
      /\ \A ps : Planned(queue, ps) => Planned(queue', ps)
  BY <1>1, StaleOf DEF Shape, TypeOK
<1>5. \A r \in Slots : walk'[r] = walk[r] \/ PassedOver(kind, walk'[r], Settled')
  <2>1. WalkOK(walk[s]) /\ FALSE \in BOOLEAN
    BY DEF Shape
  <2>2. [FetchLatest EXCEPT !.manual = walk[s].manual].phase = "latest"
    BY <2>1, LatestOK
  <2>3. PassedOver(kind, [FetchLatest EXCEPT !.manual = walk[s].manual], Settled')
    BY <2>2 DEF PassedOver
  <2> QED
    BY <1>1, <2>3 DEF Shape, TypeOK
<1> QED
  BY <1>1, <1>2, <1>3, <1>4, <1>5, ContentStep DEF Content, Settled

-----------------------------------------------------------------------------
(* The pages.                                                              *)

\* planDurableCommit: a transition is applied at once only when every row it
\* rests on is stored, and otherwise joins the chain behind those rows.
LEMMA StoreContent ==
  ASSUME Shape, Content, NEW rows, rows \subseteq Displayable, NEW next, next \subseteq Gap,
         Normal(next), StorePage(rows, next), UNCHANGED <<kind, purged, cache, heard, poisoned, active>>,
         ~poisoned => \A g \in next : Sound(g, Settled \cup rows)
  PROVE  /\ \A g \in gaps' : Sound(g, Held')
         /\ ~poisoned => /\ Planned(queue', Held')
                         /\ Settled \cup rows \subseteq Settled'
                         /\ resident' \subseteq resident \cup Settled'
<1> DEFINE job == PageJob(rows, next)
<1>1. Held' = Held
  BY DEF Held, Known
<1>2. queue \in Seq(Job) /\ job \in Job
  BY StoreTypes DEF Shape, TypeOK
<1>3. resident' \subseteq resident \cup rows
  BY StoreOf
<1>4. ~poisoned => Existing \subseteq Settled
  BY ExistingTypes DEF Content
<1>5. CASE queue' = queue /\ gaps' = next /\ rows \subseteq Existing /\ (next # gaps => ~SavesHas)
  <2>1. CASE next = gaps
    BY <1>1, <1>3, <1>4, <1>5, <2>1 DEF Content, Settled
  <2>2. CASE next # gaps
    <3>1. ~poisoned /\ \A i \in 1..Len(queue) : ~queue[i].archive
      BY <1>5, <2>2 DEF SavesHas
    <3>2. Pending(queue) = {}
      BY <3>1 DEF Pending, UpTo
    <3>3. Settled = Held /\ rows \subseteq Held /\ Settled' = Settled
      BY <1>1, <1>4, <1>5, <3>1, <3>2 DEF Settled
    <3>4. Settled \cup rows = Held
      BY <3>3
    <3>5. \A g \in next : Sound(g, Held)
      BY <3>1, <3>4
    <3> QED
      BY <1>1, <1>3, <1>5, <3>1, <3>3, <3>5 DEF Content
  <2> QED
    BY <2>1, <2>2
<1>6. CASE queue' = Append(queue, job) /\ gaps' = gaps
  <2>1. /\ Added(job) = rows \ Existing /\ job.next \subseteq next
    BY DEF PageJob, Added
  <2>2. /\ Pending(queue') = Pending(queue) \cup Added(job)
        /\ \A ps : /\ Planned(queue, ps)
                   /\ \A g \in job.next : Sound(g, ps \cup Pending(queue) \cup Added(job))
                   => Planned(queue', ps)
    BY <1>2, <1>6, AppendOf
  <2> HIDE DEF job
  <2>3. ASSUME ~poisoned
        PROVE  Planned(queue', Held) /\ Settled \cup rows \subseteq Settled'
    <3>1. Settled \cup rows \subseteq Held \cup Pending(queue) \cup Added(job)
      BY <1>4, <2>1, <2>3 DEF Settled
    <3>2. \A g \in job.next : Sound(g, Held \cup Pending(queue) \cup Added(job))
      BY <2>1, <2>3, <3>1, SoundGrows
    <3>3. Planned(queue', Held)
      BY <2>2, <2>3, <3>2 DEF Content
    <3>4. Settled' = Held \cup Pending(queue) \cup Added(job)
      BY <1>1, <2>2 DEF Settled
    <3> QED
      BY <3>1, <3>3, <3>4
  <2>4. \A g \in gaps' : Sound(g, Held')
    BY <1>1, <1>6 DEF Content
  <2> QED
    BY <1>1, <1>3, <2>3, <2>4
<1> QED
  BY <1>5, <1>6, StoreOf

\* Up to the end of its page, a forward walk has passed over nothing that is
\* neither held, nor pending, nor among its rows.
LEMMA ForwardPassed ==
  ASSUME Shape, Content, ~poisoned, NEW s \in Slots, walk[s].phase = "forward",
         NEW p \in Displayable, walk[s].origin <= p,
         p <= Least(Most(walk[s].after, purged) + PageSize, live)
  PROVE  \/ p \in Settled \cup Collected(kind, walk[s])
         \/ Most(walk[s].after, purged) < p
<1> DEFINE w == walk[s]
           below == Most(w.after, purged)
<1>1. /\ p \in Nat /\ purged \in Nat /\ w.after \in 0..MaxPos
      /\ below = w.after \/ below = purged
  BY ForwardFacts, Displayed
<1>2. CASE p <= w.after
  BY <1>2 DEF Content, PassedOver
<1>3. CASE p <= purged
  BY <1>3 DEF Settled, Held, Known
<1> QED
  BY <1>1, <1>2, <1>3

LEMMA ForwardContent ==
  ASSUME Shape, Content, NEW s \in Slots, ForwardPage(s)
  PROVE  Content'
<1> DEFINE w        == walk[s]
           below    == Most(w.after, purged)
           top      == Least(below + PageSize, live)
           last     == IF top > below THEN top ELSE NoId
           page     == {p \in Displayable : below < p /\ p <= top}
           rows     == w.rows \cup page
           complete == top >= live
           merging  == IF kind = "room" THEN page ELSE rows
           merged   == Existing \cup merging
           next     == AfterForwardPage(gaps, merging, w.origin, last, complete, merged)
<1>1. /\ WalkOK(w) /\ top \in 0..MaxPos /\ last \in 0..MaxPos /\ (last = 0 \/ last = top)
      /\ page \subseteq Displayable /\ w.rows \subseteq Displayable /\ w.origin \in 0..MaxPos
  BY ForwardFacts
<1>2. merging \subseteq Displayable /\ merged \subseteq Displayable /\ gaps \subseteq Gap
  BY <1>1, ExistingTypes DEF Shape, TypeOK
<1>3. /\ w.phase = "forward"
      /\ \/ StorePage(merging, next)
         \/ kind # "room" /\ UNCHANGED <<gaps, queue, resident, mam, edge>>
      /\ UNCHANGED <<kind, purged, cache, heard, poisoned, active>>
  BY DEF ForwardPage, pageUnchanged, serverVars
<1>4. PICK v : /\ walk' = [walk EXCEPT ![s] = v]
               /\ \/ v.phase # "forward"
                  \/ v.origin = w.origin /\ v.after = top /\ v.rows = rows
  BY ForwardWalk
<1>5. \A p \in Displayable : p \in Nat /\ p > 0
  BY Displayed DEF Pos
<1>6. kind = "chat" \/ kind = "room"
  BY NumberFacts DEF Shape, TypeOK
<1>7. /\ Collected(kind, w) \subseteq merging /\ page \subseteq merging
      /\ kind = "chat" => merging = rows /\ Collected(kind, v) = v.rows
  BY <1>6 DEF Collected
\* What lies up to the end of the page, once the page is held or pending.
<1>8. ASSUME ~poisoned, NEW p \in Displayable, w.origin <= p, p <= top
      PROVE  p \in Settled \cup merging
  <2>1. p \in Settled \cup Collected(kind, w) \/ below < p
    BY <1>3, <1>8, ForwardPassed
  <2> QED
    BY <1>7, <1>8, <2>1
<1>9. next \subseteq Gap /\ Normal(next)
  BY <1>1, <1>2, AfterForward
<1>10. ASSUME ~poisoned PROVE \A g \in next : Sound(g, Settled \cup merging)
  <2> DEFINE ps == Settled \cup merging
  <2>1. \A p \in Displayable : w.origin <= p /\ p <= last => p \in ps
    BY <1>1, <1>5, <1>8, <1>10
  <2>2. Existing \subseteq Settled
    BY <1>10, ExistingTypes DEF Content
  <2>3. merging \subseteq ps /\ merged \subseteq ps
    BY <2>2
  <2>4. \A g \in gaps : Sound(g, ps)
    <3>1. Held \subseteq ps
      BY DEF Settled
    <3> HIDE DEF ps
    <3> QED
      BY <3>1, SoundGrows DEF Content
  <2> HIDE DEF ps, merged, merging, last, complete, w
  <2>5. \A g \in next : Sound(g, ps)
    BY <1>1, <1>2, <2>1, <2>3, <2>4, AfterForward
  <2> QED
    BY <2>5 DEF ps
<1> HIDE DEF next, merged, merging, complete, last
<1>11. \A r \in Slots : walk'[r] = walk[r] \/ (r = s /\ walk'[r] = v)
  BY <1>4 DEF Shape, TypeOK
<1>12. CASE StorePage(merging, next)
  <2>1. /\ \A g \in gaps' : Sound(g, Held')
        /\ ~poisoned => /\ Planned(queue', Held')
                        /\ Settled \cup merging \subseteq Settled'
                        /\ resident' \subseteq resident \cup Settled'
    BY <1>2, <1>3, <1>9, <1>10, <1>12, StoreContent
  <2>2. ~poisoned => PassedOver(kind, v, Settled')
    BY <1>4, <1>8, <2>1 DEF PassedOver
  <2> QED
    BY <1>3, <1>11, <2>1, <2>2, ContentStep
<1>13. CASE kind # "room" /\ UNCHANGED <<gaps, queue, resident, mam, edge>>
  <2>1. Held' = Held
    BY <1>3 DEF Held, Known
  <2>2. ~poisoned => PassedOver(kind, v, Settled)
    BY <1>4, <1>6, <1>7, <1>8, <1>13 DEF PassedOver
  <2> QED
    BY <1>3, <1>11, <1>13, <2>1, <2>2, QuietStep
<1> QED
  BY <1>3, <1>12, <1>13

\* The pages that are walked down from above: the gaps they close or add are
\* bounded by messages of the page, or by messages held.
LEMMA BackwardContent ==
  ASSUME Shape, Content, NEW rows, rows \subseteq Displayable, NEW complete, NEW latest,
         StorePage(rows, AfterBackwardPage(gaps, rows, complete, latest, Existing)),
         UNCHANGED <<kind, purged, cache, heard, poisoned, active>>,
         NEW s \in Slots, NEW v, v.phase # "forward", walk' = [walk EXCEPT ![s] = v]
  PROVE  Content'
<1> DEFINE next == AfterBackwardPage(gaps, rows, complete, latest, Existing)
<1>1. gaps \subseteq Gap /\ Existing \subseteq Displayable
  BY ExistingTypes DEF Shape, TypeOK
<1>2. next \subseteq Gap /\ Normal(next)
  BY <1>1, AfterBackward
<1>3. ASSUME ~poisoned PROVE \A g \in next : Sound(g, Settled \cup rows)
  <2>1. Existing \subseteq Settled
    BY <1>3, ExistingTypes DEF Content
  <2>2. Held \subseteq Settled \cup rows
    BY DEF Settled
  <2>3. \A g \in gaps : Sound(g, Settled \cup rows)
    BY <2>2, SoundGrows DEF Content
  <2>4. rows \subseteq Settled \cup rows /\ Existing \subseteq Settled \cup rows
    BY <2>1
  <2> QED
    BY <1>1, <2>3, <2>4, AfterBackward
<1> HIDE DEF next
<1>4. StorePage(rows, next)
  BY DEF next
<1>5. /\ \A g \in gaps' : Sound(g, Held')
      /\ ~poisoned => /\ Planned(queue', Held')
                      /\ Settled \cup rows \subseteq Settled'
                      /\ resident' \subseteq resident \cup Settled'
  BY <1>2, <1>3, <1>4, StoreContent
<1>6. \A r \in Slots : walk'[r] = walk[r] \/ PassedOver(kind, walk'[r], Settled')
  BY DEF Shape, TypeOK, PassedOver
<1> QED
  BY <1>5, <1>6, ContentStep

LEMMA LatestContent ==
  ASSUME Shape, Content, NEW s \in Slots, LatestPage(s)
  PROVE  Content'
<1> DEFINE w        == walk[s]
           n        == PagesTo(live + 1, RetryPages)
           entries  == Above(live + 1, n)
           rows     == entries \cap Displayable
           complete == Exhausted(live + 1, n)
           v        == IF w.manual \/ complete THEN NoWalk ELSE Search(s, FirstId(entries))
<1>1. /\ StorePage(rows, AfterBackwardPage(gaps, rows, complete, TRUE, Existing))
      /\ walk' = [walk EXCEPT ![s] = v]
      /\ UNCHANGED <<kind, purged, cache, heard, poisoned, active>>
  BY DEF LatestPage, pageUnchanged, serverVars
<1>2. rows \subseteq Displayable /\ FirstId(entries) \in Pos \cup {NoId}
  BY AboveOf
<1>3. v.phase # "forward"
  BY <1>2, SearchOK, NoWalkOK
<1> HIDE DEF rows, complete, v
<1> QED
  BY <1>1, <1>2, <1>3, BackwardContent

LEMMA SearchContent ==
  ASSUME Shape, Content, NEW s \in Slots, SearchPage(s)
  PROVE  Content'
<1> DEFINE w == walk[s]
<1>1. PICK b :
        LET n        == PagesTo(b, MaxPos)
            entries  == Above(b, n)
            rows     == entries \cap Displayable
            complete == Exhausted(b, n)
        IN  /\ StorePage(rows, AfterBackwardPage(gaps, rows, complete, FALSE, Existing))
            /\ walk' = [walk EXCEPT ![s] =
                 IF complete \/ entries = {} \/ w.left = 1 THEN NoWalk
                 ELSE [w EXCEPT !.bottom = Oldest(entries), !.left = w.left - 1, !.firstPage = FALSE]]
  BY DEF SearchPage
<1>2. w.phase = "search" /\ UNCHANGED <<kind, purged, cache, heard, poisoned, active>>
  BY DEF SearchPage, pageUnchanged, serverVars
<1> DEFINE n        == PagesTo(b, MaxPos)
           entries  == Above(b, n)
           rows     == entries \cap Displayable
           complete == Exhausted(b, n)
           v        == IF complete \/ entries = {} \/ w.left = 1 THEN NoWalk
                       ELSE [w EXCEPT !.bottom = Oldest(entries), !.left = w.left - 1,
                                      !.firstPage = FALSE]
<1>3. /\ StorePage(rows, AfterBackwardPage(gaps, rows, complete, FALSE, Existing))
      /\ walk' = [walk EXCEPT ![s] = v]
  BY <1>1
<1>4. rows \subseteq Displayable
  BY AboveOf
<1> HIDE DEF entries, complete
<1>5. v.phase # "forward"
  <2>1. w \in Walk
    BY DEF Shape, WalkOK
  <2>2. [w EXCEPT !.bottom = Oldest(entries), !.left = w.left - 1, !.firstPage = FALSE].phase
          = "search"
    BY <1>2, <2>1 DEF Walk
  <2> QED
    BY <2>2, NoWalkOK
<1> HIDE DEF rows, v
<1> QED
  BY <1>2, <1>3, <1>4, <1>5, BackwardContent

LEMMA StepContent == Shape /\ Content /\ [Next]_vars => Content'
<1> SUFFICES ASSUME Shape, Content, [Next]_vars PROVE Content'
  OBVIOUS
<1>1. CASE Fault
  BY <1>1, FailContent, PlainContent, CrashContent DEF Fault, QueryLost
<1>2. CASE Step
  <2>1. ASSUME NEW s \in Slots, Page(s) PROVE Content'
    BY <2>1, AnchorContent, ForwardContent, LatestContent, SearchContent DEF Page
  <2>2. ASSUME NEW s \in Slots, SearchEnds(s) \/ QueryFails(s) PROVE Content'
    BY <2>2, PlainContent DEF QueryFails
  <2> QED
    BY <1>2, <2>1, <2>2, CommitContent, PlainContent, StreamContent, StartContent DEF Step
<1>3. CASE UNCHANGED vars
  BY <1>3, PlainContent
<1> QED
  BY <1>1, <1>2, <1>3 DEF Next

\* The id a recorded gap is resumed after leaps over no message, and its bounds
\* are messages that are held: whatever the order in which pages merge, writes
\* commit or fail, streams deliver and the page is reloaded, no catch-up that
\* resumes a gap passes a message by (archiveMerge.ts, archiveSaveChain.ts).
THEOREM ResumeCorrect == Spec => []ResumeNeverSkips
<1>1. Init => Shape /\ Content
  BY InitShape, InitContent
<1>2. Shape /\ Content /\ [Next]_vars => (Shape /\ Content)'
  BY StepShape, StepContent
<1>3. Shape /\ Content => ResumeNeverSkips
  BY DEF Content, ResumeNeverSkips, Sound, Held
<1> QED
  BY <1>1, <1>2, <1>3, PTL DEF Spec, Safety
=============================================================================
