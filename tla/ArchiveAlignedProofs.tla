------------------------ MODULE ArchiveAlignedProofs ------------------------
(***************************************************************************)
(* Why an entity that counts as caught up misses no message above the      *)
(* point its catch-up resumed from that it has not recorded, for archives, *)
(* pages, walks and queues of any size.                                    *)
(*                                                                         *)
(* Beside Basics, Bridges and Reaches of ArchiveHoleProofs the inductive   *)
(* invariant has two parts.  Grounds: what the pages rest on - where gaps  *)
(* and walks start, and which transition is still to be applied, and to    *)
(* which list.  Answered: every message that some catch-up has claimed,    *)
(* because it reached live, resumed at or above it, or left a gap over it, *)
(* is stored, on its way, or in the list that is recorded or the one that  *)
(* will be next; and that one frees nothing else.                          *)
(***************************************************************************)
EXTENDS ArchiveHoleProofs

-----------------------------------------------------------------------------
(* What the parts of the invariant say.                                     *)

\* No walk is under way.
Idle == \A s \in Slots : walk[s].phase = "none"
\* Write i carries a transition computed from the list that is recorded.
Fresh(i) == queue[i].commit /\ queue[i].fresh
\* No archive write is in flight.
Quiet == \A i \in 1..Len(queue) : ~queue[i].archive

\* Gaps start at messages that are stored, or will be.
Footed ==
  /\ \A g \in gaps : g.start \in Kept
  /\ ~poisoned => \A i \in 1..Len(queue) : \A g \in queue[i].next : g.start \in Kept \cup UpTo(queue, i)
\* A transition computed from another list than the recorded one is never
\* applied, and has none before it that will be.
Chained ==
  ~poisoned => \A i \in 1..Len(queue) : queue[i].commit =>
    IF queue[i].fresh THEN queue[i].next # gaps /\ (queue[i].none => gaps = {})
    ELSE (gaps # {} \/ ~queue[i].none) /\ \A j \in 1..(i - 1) : ~Fresh(j)
\* A forward walk has no archive write beside it until it stores a page.
Alone ==
  ~poisoned => \A s \in Slots :
    walk[s].phase = "forward" /\ (walk[s].firstPage \/ kind = "chat" \/ walk[s].rows = {}) => Quiet
\* A resume id is not below its gap's start.
Trail(g) == g.startId = NoId \/ g.start <= g.startId
\* A forward walk pages on from its origin.
Onward ==
  /\ \A g \in AllGaps : Trail(g)
  /\ \A s \in Slots : walk[s].phase = "forward" =>
       walk[s].origin <= walk[s].after + 1 /\ \A p \in walk[s].rows : walk[s].origin <= p
\* The search follows the page that reached live; a newest page that joins what
\* a walk found ends that walk.
Follows == \A s \in Slots : /\ walk[s].phase = "search" => mam.caughtUp
                            /\ walk[s].phase = "latest" /\ ~walk[s].loose => ~walk[s].manual
\* Without a session time, an automatic forward walk starts above every gap.
Pinned ==
  Intact /\ sessionStart = 0 =>
    \A s \in Slots : walk[s].phase = "forward" /\ ~walk[s].manual /\ (kind = "chat" \/ walk[s].rows = {}) =>
      \A g \in AllGaps : g.start <= walk[s].origin

\* What a catch-up may start from.
Anchors == {x \in Have : x < sessionStart} \cup {g.start : g \in AllGaps}
           \cup {walk[s].origin : s \in {t \in Slots : walk[t].phase \in {"forward", "latest"}}}
\* Walk w has stored what lies above its origin, or left a gap there.
Claims(w) ==
  /\ ~w.manual
  /\ \/ w.phase = "forward" /\ kind = "room" /\ w.rows # {}
     \/ w.phase = "latest" /\ ~w.loose
\* Some catch-up has answered for p.
Claimed(p) ==
  /\ edge < p /\ p <= seen
  /\ \/ mam.caughtUp
     \/ sessionStart > 0 /\ \E a \in Anchors : p <= a
     \/ \E s \in Slots : Claims(walk[s]) /\ walk[s].origin < p
\* p is stored, or on its way, or in a gap of the list that is recorded or the
\* one that will be next.
Sure(p) ==
  \/ p \in Settled \/ p \in Covered(gaps)
  \/ \E i \in 1..Len(queue) : Fresh(i) /\ (\A j \in 1..(i - 1) : ~Fresh(j)) /\ p \in Covered(queue[i].next)
Vouched == Intact => \A p \in Displayable : Claimed(p) => Sure(p)
\* What a transition still to be applied takes out of the gaps is stored by
\* then, is newer, or belongs to a session that has claimed nothing.
Freed ==
  Intact => \A i \in 1..Len(queue) : Fresh(i) =>
    \A p \in Displayable : p \in Covered(gaps) /\ p \notin Covered(queue[i].next) =>
      p \in Held \cup UpTo(queue, i) \/ p > seen \/ (Idle /\ ~Claimed(p))

\* All but the last two.
Grounds == Footed /\ Chained /\ Alone /\ Onward /\ Follows /\ Pinned

-----------------------------------------------------------------------------
(* The lemmas the steps share.                                              *)

\* Footed stays so when the transitions are the old ones.
LEMMA FootedKept ==
  ASSUME Footed, Kept \subseteq Kept', ~poisoned' => ~poisoned,
         \A g \in gaps' : g.start \in Kept',
         ~poisoned' => \A i \in 1..Len(queue') :
            \/ queue'[i].next = {}
            \/ \E j \in 1..Len(queue) : /\ queue'[i].next = queue[j].next
                                        /\ UpTo(queue, j) \subseteq Kept' \cup UpTo(queue', i)
  PROVE  Footed'
<1> SUFFICES ASSUME ~poisoned', NEW i \in 1..Len(queue'), NEW g \in queue'[i].next
             PROVE  g.start \in Kept' \cup UpTo(queue', i)
  BY DEF Footed
<1>1. PICK j \in 1..Len(queue) : /\ queue'[i].next = queue[j].next
                                 /\ UpTo(queue, j) \subseteq Kept' \cup UpTo(queue', i)
  OBVIOUS
<1>2. g.start \in Kept \cup UpTo(queue, j)
  BY <1>1 DEF Footed
<1> QED
  BY <1>1, <1>2

\* Pinned stays so when no walk starts and no gap starts anew.
LEMMA PinnedKept ==
  ASSUME Pinned, Intact' => Intact, kind' = kind, sessionStart' = 0 => sessionStart = 0,
         \A h \in AllGaps' : \E g \in AllGaps : h.start = g.start,
         \A t \in Slots : \/ walk'[t] = walk[t]
                          \/ walk'[t].phase # "forward"
                          \/ /\ walk[t].phase = "forward" /\ walk'[t].manual = walk[t].manual
                             /\ walk'[t].origin = walk[t].origin
                             /\ walk'[t].rows = {} => walk[t].rows = {}
  PROVE  Pinned'
<1> SUFFICES ASSUME Intact', sessionStart' = 0,
                    NEW t \in Slots, walk'[t].phase = "forward", ~walk'[t].manual,
                    kind' = "chat" \/ walk'[t].rows = {}, NEW h \in AllGaps'
             PROVE  h.start <= walk'[t].origin
  BY DEF Pinned
<1>1. PICK g \in AllGaps : h.start = g.start
  OBVIOUS
<1>2. /\ walk[t].phase = "forward" /\ ~walk[t].manual /\ walk'[t].origin = walk[t].origin
      /\ kind = "chat" \/ walk[t].rows = {}
  OBVIOUS
<1>3. g.start <= walk[t].origin
  BY <1>2 DEF Pinned
<1> QED
  BY <1>1, <1>2, <1>3

\* Onward stays so when no gap and no walk is new, but for ids forgotten.
LEMMA OnwardKept ==
  ASSUME Onward,
         \A h \in AllGaps' : \E g \in AllGaps : h.start = g.start /\ h.startId \in {g.startId, NoId},
         \A t \in Slots : \/ walk'[t].phase # "forward"
                          \/ walk'[t] = walk[t]
  PROVE  Onward'
  BY DEF Onward, Trail

\* Beside no archive write there is no transition.
LEMMA QuietFresh ==
  ASSUME Basics, Quiet
  PROVE  \A i \in 1..Len(queue) : ~queue[i].commit /\ ~Fresh(i)
  BY DEF Quiet, Fresh, Basics, Stocked

\* Every gap is one that is recorded or one that a write carries.
LEMMA GapsOf ==
  ASSUME Shape
  PROVE  /\ gaps \subseteq AllGaps
         /\ \A i \in 1..Len(queue) : queue[i].next \subseteq AllGaps
         /\ \A h \in AllGaps : h \in Gap /\ (h \in gaps \/ \E i \in 1..Len(queue) : h \in queue[i].next)
<1>1. gaps \subseteq Gap /\ queue \in Seq(Job)
  BY DEF Shape, TypeOK
<1>2. \A i \in 1..Len(queue) : queue[i] \in Job
  BY <1>1
<1>3. \A i \in 1..Len(queue) : queue[i].next \subseteq Gap
  BY <1>2 DEF Job
<1> QED
  BY <1>1, <1>3 DEF AllGaps

\* Of the steps that store nothing and start no walk, only a fresh session
\* moves what a session knows of itself.
LEMMA PlainView ==
  ASSUME Shape, Plain
  PROVE  UNCHANGED <<sessionStart, mam, edge, seen>> \/ GoOnline
<1>1. CASE ServerArchives
  BY <1>1 DEF ServerArchives, sessionVars, history
<1>2. CASE ServerPurges
  BY <1>2 DEF ServerPurges, sessionVars, history
<1>3. CASE Activate \/ Deactivate
  BY <1>3 DEF Activate, Deactivate, sessionVars, history
<1>4. CASE ListConversation \/ SkipListed
  BY <1>4 DEF ListConversation, SkipListed, startUnchanged, sessionVars, history
<1>5. CASE Drop
  BY <1>5 DEF Drop, history
<1>6. ASSUME NEW s \in Slots, SearchEnds(s) \/ FailWalk(s)
      PROVE  UNCHANGED <<sessionStart, mam, edge, seen>>
  BY <1>6 DEF SearchEnds, FailWalk, startUnchanged, sessionVars, history
<1>7. CASE UNCHANGED vars
  BY <1>7 DEF vars, sessionVars, history
<1> QED
  BY <1>1, <1>2, <1>3, <1>4, <1>5, <1>6, <1>7 DEF Plain

-----------------------------------------------------------------------------
(* The steps that store no page keep the grounds.                           *)

\* The steps that store nothing and start no walk.
LEMMA PlainGrounds ==
  ASSUME Basics, Grounds, Plain
  PROVE  Grounds'
<1>1. /\ UNCHANGED <<kind, cache, gaps, queue, poisoned, heard, lost>>
      /\ \A s \in Slots : walk'[s] = walk[s] \/ walk'[s] = NoWalk
  BY PlainFrame DEF Basics, Plain
<1>2. UNCHANGED <<sessionStart, mam, edge, seen>> \/ GoOnline
  BY PlainView DEF Basics
<1>3. NoWalk.phase = "none"
  BY NoWalkOK
<1>4. Footed' /\ Chained'
  BY <1>1 DEF Grounds, Footed, Chained, Fresh, Kept, UpTo
<1>5. Alone'
  BY <1>1, <1>3 DEF Grounds, Alone, Quiet
<1>6. Follows'
  <2>1. CASE UNCHANGED mam
    BY <1>1, <1>3, <2>1 DEF Grounds, Follows
  <2>2. CASE GoOnline
    <3>1. \A s \in Slots : walk[s].phase = "none"
      BY <2>2 DEF Basics, Timely, GoOnline
    <3> QED
      BY <1>1, <1>3, <3>1 DEF Follows
  <2> QED
    BY <1>2, <2>1, <2>2
<1>7. Pinned'
  <2>1. sessionStart' = 0 => sessionStart = 0
    <3>1. live \in Nat
      BY SeenOK DEF Basics
    <3>2. GoOnline => sessionStart' = live + 1
      BY DEF GoOnline
    <3> QED
      BY <1>2, <3>1, <3>2
  <2>2. AllGaps' = AllGaps
    BY <1>1 DEF AllGaps
  <2> QED
    BY <1>1, <1>3, <2>1, <2>2, PinnedKept DEF Grounds, Intact
<1>8. Onward'
  <2>1. AllGaps' = AllGaps
    BY <1>1 DEF AllGaps
  <2> QED
    BY <1>1, <1>3, <2>1, OnwardKept DEF Grounds
<1> QED
  BY <1>4, <1>5, <1>6, <1>7, <1>8 DEF Grounds

\* A walk that starts finds no write in flight, and starts above every gap when
\* there is no session time.
LEMMA StartGrounds ==
  ASSUME Basics, Grounds, Starts
  PROVE  Grounds'
<1>1. /\ UNCHANGED <<kind, purged, live, seen, online, resumable, cache, gaps, queue, poisoned, active,
                     resident, heard, lost, edge, sessionStart, mam>>
      /\ \/ UNCHANGED walk
         \/ /\ online /\ queue = <<>> /\ Len(queue) = 0
            /\ \E s \in Slots :
                 /\ walk[s] = NoWalk /\ \A t \in Slots : t # s => walk'[t] = walk[t]
                 /\ \/ \E held \in SUBSET Displayable : StartsOn(s, held)
                    \/ /\ walk'[s].phase = "forward" /\ walk'[s].manual /\ walk'[s].rows = {}
                       /\ walk'[s].bottom = NoId /\ walk'[s].firstPage
                       /\ \E g \in gaps :
                            /\ walk'[s].origin = g.start
                            /\ walk'[s].after = IF g.startId = NoId THEN g.start - 1 ELSE g.startId
  BY StartFrame DEF Basics, Starts
<1>2. Footed' /\ Chained'
  BY <1>1 DEF Grounds, Footed, Chained, Fresh, Kept, UpTo
<1>3. AllGaps' = AllGaps
  BY <1>1 DEF AllGaps
<1>4. CASE UNCHANGED walk
  <2>1. Alone' /\ Follows'
    BY <1>1, <1>4 DEF Grounds, Alone, Quiet, Follows
  <2>2. Pinned' /\ Onward'
    BY <1>1, <1>3, <1>4 DEF Grounds, Pinned, Onward, Intact
  <2> QED
    BY <1>2, <2>1, <2>2 DEF Grounds
<1>5. ASSUME Len(queue) = 0, NEW s \in Slots, \A t \in Slots : t # s => walk'[t] = walk[t],
             \/ \E held \in SUBSET Displayable : StartsOn(s, held)
             \/ /\ walk'[s].phase = "forward" /\ walk'[s].manual /\ walk'[s].rows = {}
                /\ \E g \in gaps :
                     /\ walk'[s].origin = g.start
                     /\ walk'[s].after = IF g.startId = NoId THEN g.start - 1 ELSE g.startId
      PROVE  Grounds'
  <2>1. Alone'
    BY <1>1, <1>5 DEF Alone, Quiet
  <2>0. Onward'
    <3> DEFINE v == walk'[s]
    <3>0. gaps \subseteq Gap /\ gaps \subseteq AllGaps
      BY GapsOf DEF Basics, Shape, TypeOK
    <3>1. ASSUME NEW g \in gaps, v.origin = g.start,
                 v.after = IF g.startId = NoId THEN g.start - 1 ELSE g.startId
          PROVE  v.origin <= v.after + 1
      <4>1. g.start \in Nat /\ g.startId \in Nat /\ (g.startId = NoId \/ g.start <= g.startId)
        BY <3>0, GapNumbers DEF Grounds, Onward, Trail
      <4> QED
        BY <3>1, <4>1
    <3>2. v.phase = "forward" => v.origin <= v.after + 1 /\ v.rows = {}
      <4>1. CASE v.rows = {} /\ \E g \in gaps :
                     /\ v.origin = g.start
                     /\ v.after = IF g.startId = NoId THEN g.start - 1 ELSE g.startId
        BY <3>1, <4>1
      <4>2. ASSUME NEW held \in SUBSET Displayable, StartsOn(s, held)
            PROVE  v.phase = "forward" => v.origin <= v.after + 1 /\ v.rows = {}
        <5>1. v = CatchUpWalk(held)
          BY <4>2 DEF StartsOn
        <5>2. CASE \E g \in gaps : CatchUpWalk(held) = ResumeGap(g)
          BY <3>0, <3>1, <5>1, <5>2, ResumeGapOK
        <5>3. CASE \E p \in held : CatchUpWalk(held) = ResumeAfter(p)
          <6>1. PICK p \in held : v = ResumeAfter(p)
            BY <5>1, <5>3
          <6>2. v.origin = p /\ v.after = p /\ v.rows = {} /\ p \in Nat
            BY <6>1, Displayed DEF ResumeAfter, NoWalk
          <6> QED
            BY <6>2
        <5>4. CASE CatchUpWalk(held) = FetchLatest
          BY <5>1, <5>4, NoWalkOK
        <5> QED
          BY <5>2, <5>3, <5>4, CatchUpOf DEF Basics
      <4> QED
        BY <1>5, <4>1, <4>2
    <3> HIDE DEF v
    <3>3. ASSUME NEW t \in Slots, walk'[t].phase = "forward"
          PROVE  walk'[t].origin <= walk'[t].after + 1 /\ \A p \in walk'[t].rows : walk'[t].origin <= p
      <4>1. CASE t = s
        BY <3>2, <3>3, <4>1 DEF v
      <4>2. CASE t # s
        BY <1>5, <3>3, <4>2 DEF Grounds, Onward
      <4> QED
        BY <4>1, <4>2
    <3> QED
      BY <1>3, <3>3 DEF Grounds, Onward
  <2>2. CASE walk'[s].phase = "forward" /\ walk'[s].manual
    <3>1. Follows' /\ Pinned'
      BY <1>1, <1>3, <1>5, <2>2 DEF Grounds, Follows, Pinned, Intact
    <3> QED
      BY <1>2, <2>0, <2>1, <3>1 DEF Grounds
  <2>3. ASSUME NEW held \in SUBSET Displayable, StartsOn(s, held)
        PROVE  Follows' /\ Pinned'
    <3> DEFINE v == walk'[s]
    <3>1. v = CatchUpWalk(held) /\ (cache \subseteq held \/ cache = {})
      BY <2>3 DEF StartsOn
    <3>2. \/ /\ v.phase = "forward"
             /\ \E g \in gaps : g.end = Edge /\ v.origin = g.start
          \/ /\ v.phase = "forward"
             /\ v.origin \in BeforeSession(held) /\ v.origin = Newest(BeforeSession(held))
          \/ v.phase = "latest" /\ v.loose
      BY <3>1, CatchUpFields DEF Basics
    <3>3. AllGaps = gaps /\ Delivered(queue) = {} /\ gaps \subseteq Gap /\ Normal(gaps)
      BY <1>5, DrainedGaps DEF Basics, Shape, TypeOK
    <3> HIDE DEF v
    <3>4. Follows'
      BY <1>1, <1>5, <3>2 DEF Grounds, Follows, v
    <3>5. ASSUME Intact, sessionStart = 0, v.phase = "forward", NEW g \in gaps
          PROVE  g.start <= v.origin
      <4>1. ASSUME NEW h \in gaps, h.end = Edge, v.origin = h.start
            PROVE  g.start <= v.origin
        <5>1. /\ g.start \in Nat /\ g.start <= MaxPos /\ g.end \in Nat /\ g.start < g.end
              /\ h.start \in Nat /\ h.end = MaxPos + 1 /\ MaxPos \in Nat
          BY <3>3, <4>1, GapNumbers, Displayed, NumberFacts DEF Normal
        <5>2. g = h \/ g.end <= h.start \/ h.end <= g.start
          BY <3>3 DEF Normal
        <5> QED
          BY <4>1, <5>1, <5>2
      <4>2. ASSUME v.origin = Newest(BeforeSession(held)) PROVE g.start <= v.origin
        <5>1. g.start \in cache
          BY <3>3, <3>5 DEF Grounds, Footed, Kept, Basics, Stocked, Intact
        <5>2. BeforeSession(held) = held
          BY <3>5 DEF BeforeSession
        <5>3. g.start \in held /\ held \subseteq 0..MaxPos /\ MaxPos \in Nat
          BY <3>1, <5>1, Displayed
        <5> QED
          BY <4>2, <5>2, <5>3, NewestOf
      <4> QED
        BY <3>2, <3>5, <4>1, <4>2
    <3>6. Pinned'
      BY <1>1, <1>3, <1>5, <3>3, <3>5 DEF Grounds, Pinned, Intact, v
    <3> QED
      BY <3>4, <3>6
  <2> QED
    BY <1>2, <1>5, <2>0, <2>1, <2>2, <2>3 DEF Grounds
<1> QED
  BY <1>1, <1>4, <1>5

\* The rest of the queue stays chained when the list is the one there was.
LEMMA ChainedTail ==
  ASSUME Chained, queue \in Seq(Job), queue # <<>>, queue' = Tail(queue), gaps' = gaps,
         ~poisoned' => ~poisoned
  PROVE  Chained'
<1>1. /\ Len(queue) \in Nat /\ Len(queue') \in Nat /\ Len(queue) = Len(queue') + 1
      /\ \A i \in 1..Len(queue') : i + 1 \in 1..Len(queue) /\ queue'[i] = queue[i + 1]
  BY QueueTail
<1> SUFFICES ASSUME ~poisoned', NEW i \in 1..Len(queue'), queue'[i].commit
             PROVE  IF queue'[i].fresh THEN queue'[i].next # gaps' /\ (queue'[i].none => gaps' = {})
                    ELSE (gaps' # {} \/ ~queue'[i].none) /\ \A j \in 1..(i - 1) : ~Fresh(j)'
  BY DEF Chained
<1>2. PICK k \in 1..Len(queue) : k = i + 1 /\ queue'[i] = queue[k]
  BY <1>1
<1>3. IF queue[k].fresh THEN queue[k].next # gaps /\ (queue[k].none => gaps = {})
      ELSE (gaps # {} \/ ~queue[k].none) /\ \A j \in 1..(k - 1) : ~Fresh(j)
  BY <1>2 DEF Chained
<1>4. ASSUME \A j \in 1..(k - 1) : ~Fresh(j), NEW j \in 1..(i - 1) PROVE ~Fresh(j)'
  <2>1. j \in 1..Len(queue') /\ j + 1 \in 1..(k - 1)
    BY <1>1, <1>2
  <2>2. queue'[j] = queue[j + 1] /\ ~Fresh(j + 1)
    BY <1>1, <1>4, <2>1
  <2> QED
    BY <2>2 DEF Fresh
<1> QED
  BY <1>2, <1>3, <1>4

\* A transition that is applied was computed from the list there is.
LEMMA AppliesFresh ==
  ASSUME Basics, Chained, queue \in Seq(Job), queue # <<>>, Applies(Head(queue))
  PROVE  /\ ~poisoned /\ 1 \in 1..Len(queue) /\ Head(queue) = queue[1] /\ Fresh(1)
         /\ queue[1].next # gaps
<1>1. 1 \in 1..Len(queue) /\ Head(queue) = queue[1]
  BY QueueTail
<1>2. ~poisoned /\ queue[1].commit /\ (queue[1].fresh \/ (queue[1].none /\ gaps = {}))
  BY <1>1 DEF Applies
<1> QED
  BY <1>1, <1>2 DEF Chained, Fresh

\* A write that commits.
LEMMA CommitGrounds ==
  ASSUME Basics, Grounds, WriteCommits
  PROVE  Grounds'
<1> DEFINE job == Head(queue)
<1>1. /\ UNCHANGED <<kind, poisoned, heard, lost, walk, sessionStart, mam>>
      /\ queue \in Seq(Job) /\ queue # <<>>
      /\ cache' = cache \cup job.rows
      /\ gaps' = IF Applies(job) THEN job.next ELSE gaps
      /\ queue' = IF Applies(job) THEN Stale(Tail(queue)) ELSE Tail(queue)
  BY CommitFrame DEF Basics
<1>0. queue \in Seq(Job) /\ queue # <<>> /\ (queue' = Tail(queue) \/ queue' = Stale(Tail(queue)))
  BY <1>1
<1>2. /\ Len(queue) \in Nat /\ Len(queue') \in Nat /\ Len(queue) = Len(queue') + 1
      /\ 1 \in 1..Len(queue) /\ job = queue[1]
      /\ \A i \in 1..Len(queue') : i + 1 \in 1..Len(queue) /\ SameJob(queue'[i], queue[i + 1])
      /\ queue' = Stale(Tail(queue)) => \A i \in 1..Len(queue') : ~queue'[i].fresh
  BY <1>0, QueueTail
<1>3. /\ UpTo(queue, 1) = Added(job)
      /\ \A n \in 0..Len(queue') : UpTo(queue, n + 1) = Added(job) \cup UpTo(queue', n)
  BY <1>0, RowsTail DEF Shorter
<1>4. Applies(job) => ~poisoned /\ Fresh(1) /\ queue[1].next # gaps
  BY <1>0, AppliesFresh DEF Grounds
<1> HIDE DEF job
<1>5. Kept \subseteq Kept' /\ Added(job) \subseteq Kept'
  BY <1>1 DEF Kept, Added
<1>6. Footed'
  <2>1. \A g \in gaps' : g.start \in Kept'
    <3>1. CASE Applies(job)
      BY <1>1, <1>2, <1>3, <1>4, <1>5, <3>1 DEF Grounds, Footed
    <3>2. CASE ~Applies(job)
      BY <1>1, <1>5, <3>2 DEF Grounds, Footed
    <3> QED
      BY <3>1, <3>2
  <2>2. ASSUME NEW i \in 1..Len(queue')
        PROVE  \E j \in 1..Len(queue) : /\ queue'[i].next = queue[j].next
                                        /\ UpTo(queue, j) \subseteq Kept' \cup UpTo(queue', i)
    <3>1. i \in 0..Len(queue') /\ i + 1 \in 1..Len(queue) /\ SameJob(queue'[i], queue[i + 1])
      BY <1>2
    <3> QED
      BY <1>3, <1>5, <3>1 DEF SameJob
  <2> QED
    BY <1>1, <1>5, <2>1, <2>2, FootedKept DEF Grounds
<1>7. Chained'
  <2>1. CASE ~Applies(job)
    BY <1>1, <2>1, ChainedTail DEF Grounds
  <2>2. CASE Applies(job)
    <3> SUFFICES ASSUME NEW i \in 1..Len(queue'), queue'[i].commit
                 PROVE  gaps' # {} \/ ~queue'[i].none
      BY <1>1, <1>2, <2>2 DEF Chained, Fresh
    <3>1. PICK k \in 1..Len(queue) : k = i + 1 /\ SameJob(queue'[i], queue[k])
      BY <1>2
    <3>2. queue[k].commit /\ queue'[i].none = queue[k].none /\ 1 \in 1..(k - 1)
      BY <1>2, <3>1 DEF SameJob
    <3>3. queue[k].fresh /\ (queue[k].none => gaps = {})
      BY <1>4, <2>2, <3>2 DEF Grounds, Chained
    <3> QED
      BY <1>1, <1>2, <1>4, <2>2, <3>2, <3>3
  <2> QED
    BY <2>1, <2>2
<1>8. Alone' /\ Follows'
  <2>1. Quiet => Quiet'
    BY <1>2 DEF Quiet, SameJob
  <2> QED
    BY <1>1, <2>1 DEF Grounds, Alone, Follows
<1>9. Pinned' /\ Onward'
  <2>1. \A h \in AllGaps' : h \in AllGaps
    <3>1. gaps \subseteq AllGaps /\ \A i \in 1..Len(queue) : queue[i].next \subseteq AllGaps
      BY GapsOf DEF Basics
    <3>2. \A h \in AllGaps' : h \in gaps' \/ \E i \in 1..Len(queue') : h \in queue'[i].next
      BY DEF AllGaps
    <3>3. gaps' \subseteq AllGaps
      BY <1>1, <1>2, <3>1
    <3>4. \A i \in 1..Len(queue') : queue'[i].next \subseteq AllGaps
      BY <1>2, <3>1 DEF SameJob
    <3> QED
      BY <3>2, <3>3, <3>4
  <2> QED
    BY <1>1, <2>1, PinnedKept, OnwardKept DEF Grounds, Intact
<1> QED
  BY <1>6, <1>7, <1>8, <1>9 DEF Grounds

\* A write that fails: only after one that is no archive write is there still
\* something to show of the queue.
LEMMA FailGrounds ==
  ASSUME Basics, Grounds, WriteFails
  PROVE  Grounds'
<1> DEFINE job == Head(queue)
<1>1. /\ UNCHANGED <<kind, cache, gaps, heard, walk, sessionStart, mam>>
      /\ queue \in Seq(Job) /\ queue # <<>> /\ queue' = Tail(queue)
      /\ poisoned' = (poisoned \/ job.archive)
  BY FailFrame DEF Basics
<1>2. ~Intact'
  BY FailStocked DEF Basics
<1>3. /\ Len(queue) \in Nat /\ Len(queue') \in Nat /\ Len(queue) = Len(queue') + 1
      /\ 1 \in 1..Len(queue) /\ job = queue[1]
      /\ \A i \in 1..Len(queue') : i + 1 \in 1..Len(queue) /\ SameJob(queue'[i], queue[i + 1])
  BY <1>1, QueueTail
<1>0. queue \in Seq(Job) /\ queue # <<>> /\ (queue' = Tail(queue) \/ queue' = Stale(Tail(queue)))
  BY <1>1
<1>4. \A n \in 0..Len(queue') : UpTo(queue, n + 1) = Added(job) \cup UpTo(queue', n)
  BY <1>0, RowsTail DEF Shorter
<1>5. ~poisoned' => ~poisoned /\ Added(job) = {}
  BY <1>1 DEF Added
<1> HIDE DEF job
<1>6. Footed'
  <2>1. ASSUME ~poisoned', NEW i \in 1..Len(queue')
        PROVE  \E j \in 1..Len(queue) : /\ queue'[i].next = queue[j].next
                                        /\ UpTo(queue, j) \subseteq Kept' \cup UpTo(queue', i)
    <3>1. i \in 0..Len(queue') /\ i + 1 \in 1..Len(queue) /\ SameJob(queue'[i], queue[i + 1])
      BY <1>3
    <3>2. UpTo(queue, i + 1) = UpTo(queue', i)
      BY <1>4, <1>5, <2>1, <3>1
    <3> QED
      BY <3>1, <3>2 DEF SameJob
  <2>2. Kept' = Kept
    BY <1>1 DEF Kept
  <2>3. \A g \in gaps' : g.start \in Kept'
    BY <1>1, <2>2 DEF Grounds, Footed
  <2> QED
    BY <1>5, <2>1, <2>2, <2>3, FootedKept DEF Grounds
<1>7. Chained'
  BY <1>1, <1>5, ChainedTail DEF Grounds
<1>8. Alone' /\ Follows'
  <2>1. Quiet => Quiet'
    BY <1>3 DEF Quiet, SameJob
  <2> QED
    BY <1>1, <1>5, <2>1 DEF Grounds, Alone, Follows
<1>9. Pinned' /\ Onward'
  <2>1. \A h \in AllGaps' : h \in AllGaps
    <3>1. gaps \subseteq AllGaps /\ \A i \in 1..Len(queue) : queue[i].next \subseteq AllGaps
      BY GapsOf DEF Basics
    <3>2. \A h \in AllGaps' : h \in gaps' \/ \E i \in 1..Len(queue') : h \in queue'[i].next
      BY DEF AllGaps
    <3>3. \A i \in 1..Len(queue') : queue'[i].next \subseteq AllGaps
      BY <1>3, <3>1 DEF SameJob
    <3> QED
      BY <1>1, <3>1, <3>2, <3>3
  <2> QED
    BY <1>1, <1>2, <2>1, OnwardKept DEF Grounds, Pinned
<1> QED
  BY <1>6, <1>7, <1>8, <1>9 DEF Grounds

\* A reload.
LEMMA CrashGrounds ==
  ASSUME Basics, Grounds, Crash
  PROVE  Grounds'
<1>1. /\ UNCHANGED <<gaps, heard>> /\ Len(queue') = 0
      /\ \A s \in Slots : walk'[s] = NoWalk
      /\ \E n \in 0..Len(queue) : cache' = cache \cup UNION {queue[i].rows : i \in 1..n}
  BY CrashFrame DEF Basics
<1>2. NoWalk.phase = "none"
  BY NoWalkOK
<1>3. Footed' /\ Chained'
  BY <1>1 DEF Grounds, Footed, Chained, Kept
<1>4. Alone' /\ Follows' /\ Pinned'
  BY <1>1, <1>2 DEF Alone, Follows, Pinned
<1>5. Onward'
  <2>1. AllGaps' \subseteq AllGaps
    BY <1>1 DEF AllGaps
  <2> QED
    BY <1>1, <1>2, <2>1 DEF Grounds, Onward
<1> QED
  BY <1>3, <1>4, <1>5 DEF Grounds

\* A queue that grows by a write, whose transition is of the list there is,
\* stays chained.
LEMMA ChainedAppend ==
  ASSUME Chained, queue \in Seq(Job), NEW job \in Job, queue' = Append(queue, job), gaps' = gaps,
         poisoned' = poisoned, job.commit => job.fresh /\ job.next # gaps /\ (job.none => gaps = {})
  PROVE  Chained'
<1>1. /\ Len(queue) \in Nat /\ Len(queue') = Len(queue) + 1 /\ queue'[Len(queue')] = job
      /\ \A i \in 1..Len(queue) : queue'[i] = queue[i]
      /\ \A i \in 1..Len(queue') : i \in 1..Len(queue) \/ i = Len(queue')
  BY QueueAppend
<1> SUFFICES ASSUME ~poisoned', NEW i \in 1..Len(queue'), queue'[i].commit
             PROVE  IF queue'[i].fresh THEN queue'[i].next # gaps' /\ (queue'[i].none => gaps' = {})
                    ELSE (gaps' # {} \/ ~queue'[i].none) /\ \A j \in 1..(i - 1) : ~Fresh(j)'
  BY DEF Chained
<1>2. CASE i = Len(queue')
  BY <1>1, <1>2
<1>3. CASE i \in 1..Len(queue)
  <2>1. queue'[i] = queue[i]
    BY <1>1, <1>3
  <2>2. IF queue[i].fresh THEN queue[i].next # gaps /\ (queue[i].none => gaps = {})
        ELSE (gaps # {} \/ ~queue[i].none) /\ \A j \in 1..(i - 1) : ~Fresh(j)
    BY <1>3, <2>1 DEF Chained
  <2>3. \A j \in 1..(i - 1) : queue'[j] = queue[j]
    BY <1>1, <1>3
  <2>4. (\A j \in 1..(i - 1) : ~Fresh(j)) => \A j \in 1..(i - 1) : ~Fresh(j)'
    BY <2>3 DEF Fresh
  <2> QED
    BY <2>1, <2>2, <2>4
<1> QED
  BY <1>1, <1>2, <1>3

\* What the stream delivers.
LEMMA StreamGrounds ==
  ASSUME Basics, Grounds, Arrive \/ Resume
  PROVE  Grounds'
<1>1. /\ UNCHANGED <<kind, cache, gaps, poisoned, lost, walk, mam>>
      /\ seen \in Nat /\ seen' \in Nat /\ sessionStart' \in {sessionStart, seen' + 1}
      /\ heard \subseteq heard'
      /\ \E h \in SUBSET Displayable : queue' = queue \/ queue' = Append(queue, LiveJob(h))
  <2>1. seen' \in Nat /\ heard \subseteq heard'
    BY StreamFrame DEF Basics
  <2> QED
    BY <2>1, StreamFrame DEF Basics
<1>2. queue \in Seq(Job) /\ Kept \subseteq Kept'
  BY <1>1 DEF Basics, Shape, TypeOK, Kept
<1>3. \A g \in gaps' : g.start \in Kept'
  BY <1>1, <1>2 DEF Grounds, Footed
<1>4. CASE queue' = queue
  <2>1. Footed' /\ Chained'
    BY <1>1, <1>2, <1>3, <1>4 DEF Grounds, Footed, Chained, Fresh
  <2>2. Alone' /\ Follows'
    BY <1>1, <1>4 DEF Grounds, Alone, Quiet, Follows
  <2>3. AllGaps' = AllGaps
    BY <1>1, <1>4 DEF AllGaps
  <2>4. Onward' /\ Pinned'
    BY <1>1, <2>3, OnwardKept, PinnedKept DEF Grounds, Intact
  <2> QED
    BY <2>1, <2>2, <2>4 DEF Grounds
<1>5. ASSUME NEW h \in SUBSET Displayable, queue' = Append(queue, LiveJob(h))
      PROVE  Grounds'
  <2> DEFINE job == LiveJob(h)
  <2>0. job \in Job /\ job.next = {} /\ ~job.archive /\ ~job.commit
    BY LiveJobOK DEF LiveJob
  <2> HIDE DEF job
  <2>1. /\ Len(queue) \in Nat /\ Len(queue') = Len(queue) + 1 /\ queue'[Len(queue')] = job
        /\ \A i \in 1..Len(queue) : queue'[i] = queue[i]
        /\ \A i \in 1..Len(queue') : i \in 1..Len(queue) \/ i = Len(queue')
    BY <1>2, <1>5, <2>0, QueueAppend DEF job
  <2>2. \A i \in 1..Len(queue) : UpTo(queue', i) = UpTo(queue, i)
    <3>1. queue' = Append(queue, job)
      BY <1>5 DEF job
    <3>2. Longer(queue, job, queue')
      BY <1>2, <2>0, <3>1, RowsAppend
    <3> QED
      BY <3>2 DEF Longer
  <2>3. Footed'
    <3>1. ASSUME NEW i \in 1..Len(queue')
          PROVE  \/ queue'[i].next = {}
                 \/ \E j \in 1..Len(queue) : /\ queue'[i].next = queue[j].next
                                             /\ UpTo(queue, j) \subseteq Kept' \cup UpTo(queue', i)
      BY <2>0, <2>1, <2>2
    <3> QED
      BY <1>1, <1>2, <1>3, <3>1, FootedKept DEF Grounds
  <2>4. Chained'
    BY <1>1, <1>2, <1>5, <2>0, ChainedAppend DEF Grounds, job
  <2>5. Alone' /\ Follows'
    <3>1. Quiet => Quiet'
      BY <2>0, <2>1 DEF Quiet
    <3> QED
      BY <1>1, <3>1 DEF Grounds, Alone, Follows
  <2>6. \A g \in AllGaps' : g \in AllGaps
    <3>1. gaps \subseteq AllGaps /\ \A i \in 1..Len(queue) : queue[i].next \subseteq AllGaps
      BY GapsOf DEF Basics
    <3>2. \A g \in AllGaps' : g \in gaps' \/ \E i \in 1..Len(queue') : g \in queue'[i].next
      BY DEF AllGaps
    <3> QED
      BY <1>1, <2>0, <2>1, <3>1, <3>2
  <2>7. Onward' /\ Pinned'
    BY <1>1, <2>6, OnwardKept, PinnedKept DEF Grounds, Intact
  <2> QED
    BY <2>3, <2>4, <2>5, <2>7 DEF Grounds
<1> QED
  BY <1>1, <1>4, <1>5

\* The fall back from an expired resume id: no archive write is beside it.
LEMMA AnchorGrounds ==
  ASSUME Basics, Grounds, NEW s \in Slots, AnchorPurged(s)
  PROVE  Grounds'
<1>1. /\ UNCHANGED <<kind, cache, poisoned, heard, lost, sessionStart, mam>>
      /\ walk[s].phase = "forward" /\ walk[s].firstPage
      /\ gaps' = ClearGapAnchor(gaps, walk[s].after)
      /\ queue \in Seq(Job) /\ (queue' = queue \/ queue' = Stale(queue))
      /\ \A t \in Slots : t # s => walk'[t] = walk[t]
      /\ walk'[s].phase = "latest" /\ walk'[s].loose
  BY AnchorFrame DEF Basics
<1>2. /\ Len(queue') = Len(queue) /\ Len(queue) \in Nat
      /\ \A i \in 1..Len(queue) : SameJob(queue'[i], queue[i]) /\ UpTo(queue', i) = UpTo(queue, i)
  <2>1. CASE queue' = queue
    BY <1>1, <2>1, LenProperties DEF SameJob
  <2>2. CASE queue' = Stale(queue)
    BY <1>1, <2>2, QueueStale, RowsStale
  <2> QED
    BY <1>1, <2>1, <2>2
<1>3. \A h \in gaps' : \E g \in gaps : h.start = g.start /\ h.startId \in {g.startId, NoId}
  <2>1. ASSUME NEW h \in gaps' PROVE \E g \in gaps : h.start = g.start /\ h.startId \in {g.startId, NoId}
    <3>1. PICK g \in gaps : h = IF g.startId = walk[s].after THEN [g EXCEPT !.startId = NoId] ELSE g
      BY <1>1 DEF ClearGapAnchor
    <3>2. g \in Gap
      BY DEF Basics, Shape, TypeOK
    <3>3. h.start = g.start /\ h.startId \in {g.startId, NoId}
      BY <3>1, <3>2 DEF Gap
    <3> QED
      BY <3>3
  <2> QED
    BY <2>1
<1>4. Footed'
  <2>1. Kept' = Kept
    BY <1>1 DEF Kept
  <2>2. \A g \in gaps' : g.start \in Kept'
    BY <1>3, <2>1 DEF Grounds, Footed
  <2>3. \A i \in 1..Len(queue') : \E j \in 1..Len(queue) :
           queue'[i].next = queue[j].next /\ UpTo(queue, j) \subseteq Kept' \cup UpTo(queue', i)
    BY <1>2 DEF SameJob
  <2> QED
    BY <1>1, <2>1, <2>2, <2>3, FootedKept DEF Grounds
<1>5. ~poisoned => Quiet
  BY <1>1 DEF Grounds, Alone
<1>6. Chained'
  <2>1. ASSUME ~poisoned, NEW i \in 1..Len(queue') PROVE ~queue'[i].commit
    BY <1>2, <1>5, <2>1, QuietFresh DEF SameJob
  <2> QED
    BY <1>1, <2>1 DEF Chained
<1>7. Alone' /\ Follows'
  <2>1. Quiet => Quiet'
    BY <1>2 DEF Quiet, SameJob
  <2> QED
    BY <1>1, <2>1 DEF Grounds, Alone, Follows
<1>8. \A h \in AllGaps' : \E g \in AllGaps : h.start = g.start /\ h.startId \in {g.startId, NoId}
  <2>1. gaps \subseteq AllGaps /\ \A i \in 1..Len(queue) : queue[i].next \subseteq AllGaps
    BY GapsOf DEF Basics
  <2>2. \A g \in AllGaps' : g \in gaps' \/ \E i \in 1..Len(queue') : g \in queue'[i].next
    BY DEF AllGaps
  <2>3. \A i \in 1..Len(queue') : queue'[i].next = queue[i].next
    BY <1>2 DEF SameJob
  <2> QED
    BY <1>2, <1>3, <2>1, <2>2, <2>3
<1>9. \A t \in Slots : walk'[t].phase # "forward" \/ walk'[t] = walk[t]
  BY <1>1
<1>10. Onward' /\ Pinned'
  BY <1>1, <1>8, <1>9, OnwardKept, PinnedKept DEF Grounds, Intact
<1> QED
  BY <1>4, <1>6, <1>7, <1>10 DEF Grounds

-----------------------------------------------------------------------------
(* The pages keep the grounds.                                              *)

\* A forward page leaves records that start where one did, or at its newest row,
\* and that resume at their start or later.
LEMMA HealStarts ==
  ASSUME NEW gs, gs \subseteq Gap, NEW rows, rows \subseteq Displayable,
         NEW origin \in 0..MaxPos, NEW last \in 0..MaxPos, NEW complete \in BOOLEAN,
         NEW merged, merged \subseteq Displayable,
         NEW h \in HealGapsWithForwardPage(gs, rows, origin, last, complete, merged)
  PROVE  /\ (\E g \in gs : h.start = g.start) \/ (rows # {} /\ h.start = Newest(rows))
         /\ /\ \A g \in gs : Trail(g)
            /\ ~complete => last # NoId /\ origin <= last /\ \A p \in rows : p <= last
            => Trail(h)
<1> DEFINE below  == {g \in gs : g.start < origin}
           above  == gs \ below
           newest == Newest(rows)
           opened == [start |-> newest, end |-> ComputeGapEnd(merged, newest), startId |-> last, endId |-> NoId]
<1>1. CASE h \in gs
  BY <1>1
<1>2. CASE h \notin gs /\ rows = {}
  <2>1. PICK g \in above : ~complete /\ h = Advanced(g, origin, last)
    BY <1>2 DEF HealGapsWithForwardPage
  <2>2. g \in Gap /\ g \in gs
    OBVIOUS
  <2>3. h = [g EXCEPT !.startId = last] /\ g.start = origin /\ last # NoId
    BY <1>2, <2>1, <2>2 DEF Advanced
  <2>4. h.start = g.start /\ h.startId = last
    BY <2>2, <2>3 DEF Gap
  <2> QED
    BY <2>1, <2>2, <2>3, <2>4 DEF Trail
<1>3. CASE h \notin gs /\ rows # {}
  <2>1. newest \in rows
    BY <1>3, NewestOf, Displayed
  <2>2. ~complete /\ (h = opened \/ \E g \in above : h \in Reached(g, newest, last))
    BY <1>3 DEF HealGapsWithForwardPage
  <2>3. CASE h = opened
    BY <1>3, <2>1, <2>2, <2>3 DEF Trail
  <2>4. ASSUME NEW g \in above, h \in Reached(g, newest, last)
        PROVE  h.start = newest /\ (last # NoId => h.startId = last)
    <3>1. g \in Gap /\ g \in gs
      OBVIOUS
    <3>2. h = [g EXCEPT !.start = newest, !.startId = IF last = NoId THEN g.startId ELSE last]
      BY <1>3, <2>4, <3>1 DEF Reached
    <3> HIDE DEF newest
    <3> QED
      BY <3>1, <3>2 DEF Gap
  <2>5. CASE \E g \in above : h \in Reached(g, newest, last)
    BY <1>3, <2>1, <2>2, <2>4, <2>5 DEF Trail
  <2> QED
    BY <2>2, <2>3, <2>5
<1> QED
  BY <1>1, <1>2, <1>3

\* So does its list once normalised.
LEMMA ForwardStarts ==
  ASSUME NEW gs, gs \subseteq Gap, NEW rows, rows \subseteq Displayable,
         NEW origin \in 0..MaxPos, NEW last \in 0..MaxPos, NEW complete \in BOOLEAN,
         NEW merged, merged \subseteq Displayable,
         NEW j \in AfterForwardPage(gs, rows, origin, last, complete, merged)
  PROVE  /\ (\E g \in gs : j.start = g.start) \/ (rows # {} /\ j.start = Newest(rows))
         /\ /\ \A g \in gs : Trail(g)
            /\ ~complete => last # NoId /\ origin <= last /\ \A p \in rows : p <= last
            => Trail(j)
<1> DEFINE list == HealGapsWithForwardPage(gs, rows, origin, last, complete, merged)
<1>1. list \subseteq Gap
  BY HealOf
<1>2. j \in NormalizeGapList(list)
  BY DEF AfterForwardPage
<1>3. \A h \in list :
         /\ (\E g \in gs : h.start = g.start) \/ (rows # {} /\ h.start = Newest(rows))
         /\ /\ \A g \in gs : Trail(g)
            /\ ~complete => last # NoId /\ origin <= last /\ \A p \in rows : p <= last
            => Trail(h)
  BY HealStarts
<1> HIDE DEF list
<1>4. PICK h \in list : h.start = j.start /\ h.startId = j.startId
  BY <1>1, <1>2, NormalizeOf
<1> QED
  BY <1>3, <1>4 DEF Trail

\* A page walked down leaves records that start where one did, or at a message
\* in memory.
LEMMA BackwardStarts ==
  ASSUME NEW gs, gs \subseteq Gap, NEW rows, rows \subseteq Displayable, NEW complete \in BOOLEAN,
         NEW latest \in BOOLEAN, NEW held, held \subseteq Displayable,
         NEW j \in AfterBackwardPage(gs, rows, complete, latest, held)
  PROVE  /\ (\E g \in gs : j.start = g.start) \/ j.start \in held
         /\ (\A g \in gs : Trail(g)) => Trail(j)
<1> DEFINE closed == ReconcileGapsWithBackwardPage(gs, rows, complete)
           list   == IF latest /\ closed = gs THEN gs \cup Seam(rows, held) ELSE closed
<1>1. j \in NormalizeGapList(list)
  BY DEF AfterBackwardPage
<1>2. ASSUME NEW h \in closed
      PROVE  h \in Gap /\ \E g \in gs : h.start = g.start /\ h.startId = g.startId
  BY <1>2, CloseOf DEF ReconcileGapsWithBackwardPage
<1>3. ASSUME NEW h \in Seam(rows, held)
      PROVE  h \in Gap /\ h.start \in held /\ h.startId = h.start /\ h.start \in Nat
  BY <1>3, SeamOf, Displayed
<1> HIDE DEF closed
<1>4. ASSUME NEW h \in list
      PROVE  h \in Gap /\ \/ \E g \in gs : h.start = g.start /\ h.startId = g.startId
                          \/ h.start \in held /\ h.startId = h.start /\ h.start \in Nat
  BY <1>2, <1>3, <1>4
<1> HIDE DEF list
<1>5. PICK h \in list : h.start = j.start /\ h.startId = j.startId
  BY <1>1, <1>4, NormalizeOf
<1> QED
  BY <1>4, <1>5 DEF Trail

\* A page's gaps start at what is stored or on its way, once it is stored.
LEMMA PageFooted ==
  ASSUME Basics, Footed, NEW s \in Slots, NEW rows, NEW next, StoresPage(s, rows, next),
         \A h \in next : (\E g \in gaps : h.start = g.start) \/ h.start \in Existing \cup rows
  PROVE  Footed'
<1> DEFINE job == PageJob(rows, next)
<1>1. Stores(rows, next) /\ rows \subseteq Displayable
  BY StoresOf
<1>2. queue \in Seq(Job) /\ job \in Job /\ job.archive /\ job.next \subseteq next /\ job.rows = rows \ Existing
      /\ Existing \subseteq resident /\ resident \subseteq Displayable
  BY <1>1, ExistingTypes DEF Stores, Basics
<1>3. Kept' = Kept /\ poisoned' = poisoned /\ Existing \subseteq Displayable
  BY <1>2 DEF StoresPage, Kept
<1>4. ~poisoned => Existing \subseteq Kept \cup Pending(queue)
  BY <1>2 DEF Basics, Stocked
<1>5. \A g \in gaps : g.start \in Kept
  BY DEF Footed
<1> HIDE DEF job
<1>6. CASE queue' = queue /\ gaps' = gaps
  BY <1>3, <1>6 DEF Footed
<1>7. CASE queue' = queue /\ gaps' = next /\ rows \subseteq Existing /\ ~SavesHas
  <2>1. ~poisoned /\ \A i \in 1..Len(queue) : ~queue[i].archive
    BY <1>7 DEF SavesHas
  <2>2. Pending(queue) = {}
    BY <2>1 DEF Pending, UpTo
  <2>3. \A h \in next : h.start \in Kept
    BY <1>4, <1>5, <1>7, <2>1, <2>2
  <2> QED
    BY <1>3, <1>7, <2>3 DEF Footed
<1>8. CASE queue' = Append(queue, job) /\ gaps' = gaps
  <2>1. /\ Len(queue) \in Nat /\ Len(queue') = Len(queue) + 1 /\ queue'[Len(queue')] = job
        /\ \A i \in 1..Len(queue) : queue'[i] = queue[i]
        /\ \A i \in 1..Len(queue') : i \in 1..Len(queue) \/ i = Len(queue')
    BY <1>2, <1>8, QueueAppend
  <2>2. Longer(queue, job, queue')
    BY <1>2, <1>8, RowsAppend
  <2>3. /\ \A i \in 1..Len(queue) : UpTo(queue', i) = UpTo(queue, i)
        /\ UpTo(queue', Len(queue')) = Pending(queue) \cup job.rows
    BY <1>2, <2>2 DEF Longer, Pending, Added
  <2>4. ASSUME ~poisoned, NEW i \in 1..Len(queue'), NEW g \in queue'[i].next
        PROVE  g.start \in Kept \cup UpTo(queue', i)
    <3>1. CASE i \in 1..Len(queue)
      BY <2>1, <2>3, <2>4, <3>1 DEF Footed
    <3>2. CASE i = Len(queue')
      BY <1>2, <1>4, <1>5, <2>1, <2>3, <2>4, <3>2
    <3> QED
      BY <2>1, <3>1, <3>2
  <2> QED
    BY <1>3, <1>5, <1>8, <2>4 DEF Footed
<1> QED
  BY <1>1, <1>6, <1>7, <1>8 DEF Stores, job

\* A page's transition is of the list there is, or is applied beside none.
LEMMA PageChained ==
  ASSUME Basics, Chained, NEW s \in Slots, NEW rows, NEW next, StoresPage(s, rows, next)
  PROVE  Chained'
<1> DEFINE job == PageJob(rows, next)
<1>1. Stores(rows, next)
  BY StoresOf
<1>2. queue \in Seq(Job) /\ job \in Job /\ poisoned' = poisoned
  BY <1>1 DEF Stores, StoresPage
<1>3. job.commit => job.fresh /\ job.next # gaps /\ (job.none => gaps = {})
  BY DEF PageJob
<1> HIDE DEF job
<1>4. CASE queue' = queue /\ gaps' = gaps
  BY <1>2, <1>4 DEF Chained, Fresh
<1>5. CASE queue' = queue /\ ~SavesHas
  <2>1. Quiet
    BY <1>5 DEF SavesHas, Quiet
  <2> QED
    BY <1>2, <1>5, <2>1, QuietFresh DEF Chained
<1>6. CASE queue' = Append(queue, job) /\ gaps' = gaps
  BY <1>2, <1>3, <1>6, ChainedAppend
<1> QED
  BY <1>1, <1>4, <1>5, <1>6 DEF Stores, job

\* The gaps after a page resume at their start or later.
LEMMA PageTrails ==
  ASSUME Basics, Onward, NEW s \in Slots, NEW rows, NEW next, StoresPage(s, rows, next),
         \A h \in next : Trail(h)
  PROVE  \A g \in AllGaps' : Trail(g)
<1> DEFINE job == PageJob(rows, next)
<1>1. Stores(rows, next)
  BY StoresOf
<1>2. queue \in Seq(Job) /\ job \in Job /\ job.next \subseteq next
  BY <1>1 DEF Stores
<1> HIDE DEF job
<1>3. gaps \subseteq AllGaps /\ \A i \in 1..Len(queue) : queue[i].next \subseteq AllGaps
  BY GapsOf DEF Basics
<1>4. \A g \in AllGaps' : g \in gaps' \/ \E i \in 1..Len(queue') : g \in queue'[i].next
  BY DEF AllGaps
<1>5. gaps' \subseteq AllGaps \cup next
  BY <1>1, <1>3 DEF Stores
<1>6. \A i \in 1..Len(queue') : queue'[i].next \subseteq AllGaps \cup next
  <2>1. CASE queue' = queue
    BY <1>3, <2>1
  <2>2. CASE queue' = Append(queue, job)
    BY <1>2, <1>3, <2>2, QueueAppend
  <2> QED
    BY <1>1, <2>1, <2>2 DEF Stores, job
<1> QED
  BY <1>4, <1>5, <1>6 DEF Onward

\* A page without rows beside no archive write adds no write.
LEMMA QuietStore ==
  ASSUME NEW next, StorePage({}, next), Quiet, ~poisoned
  PROVE  queue' = queue
<1>1. ~SavesHas
  BY DEF SavesHas, Quiet
<1> QED
  BY <1>1 DEF StorePage

\* A page of a forward walk.
LEMMA ForwardGrounds ==
  ASSUME Basics, Grounds, OneWalk,
         NEW s \in Slots, NEW page, NEW merging, NEW last, NEW complete, NEW top,
         ForwardStores(s, page, merging, last, complete, top)
  PROVE  Grounds'
<1> DEFINE w    == walk[s]
           next == AfterForwardPage(gaps, merging, w.origin, last, complete, Existing \cup merging)
<1>1. /\ w.phase = "forward" /\ w.origin \in 0..MaxPos
      /\ page \subseteq Displayable /\ merging \subseteq Displayable
      /\ last \in 0..MaxPos /\ complete \in BOOLEAN /\ top \in Nat
      /\ ~complete => (\A p \in merging : p <= top) /\ w.after <= top /\ last = top /\ w.after < last
      /\ \A p \in page : w.after < p
      /\ kind = "room" => merging = page
      /\ kind = "chat" => merging = w.rows \cup page
      /\ \A t \in Slots : t # s => walk'[t] = walk[t]
      /\ \/ Continues(w, walk'[s], top, w.rows \cup page) /\ ~complete
         \/ Settles(w, walk'[s])
      /\ Proceeds(w, walk'[s], w.rows \cup page, complete)
      /\ UNCHANGED <<kind, cache, poisoned, heard, lost, sessionStart>>
  BY DEF ForwardStores
<1>2. \/ /\ StoresPage(s, merging, next) /\ (kind = "room" \/ Settles(w, walk'[s]))
         /\ mam'.caughtUp = complete
      \/ kind = "chat" /\ walk'[s].phase = "forward" /\ UNCHANGED <<gaps, queue, mam>>
  BY DEF ForwardStores, Completed
<1>3. kind \in {"chat", "room"} /\ gaps \subseteq Gap /\ Normal(gaps) /\ Existing \subseteq Displayable
      /\ w.after \in Nat /\ MaxPos \in Nat /\ w.rows \subseteq Displayable /\ \A p \in Displayable : p \in Nat
  <2>1. w.after \in 0..MaxPos /\ w.rows \subseteq Displayable
    BY ForwardFacts DEF Basics
  <2>2. kind \in {"chat", "room"} /\ gaps \subseteq Gap /\ Normal(gaps) /\ Existing \subseteq Displayable
    BY NumberFacts, ExistingTypes DEF Basics, Shape, TypeOK
  <2>3. MaxPos \in Nat /\ \A p \in Displayable : p \in Nat
    BY Displayed
  <2> HIDE DEF w
  <2>4. w.after \in Nat
    BY <2>1, <2>3
  <2> QED
    BY <2>1, <2>2, <2>3, <2>4
<1>4. \A t \in Slots : t # s => walk[t] = NoWalk /\ walk[t].phase = "none"
  BY <1>1, OtherSlot DEF OneWalk
<1>5. w.origin <= w.after + 1 /\ \A p \in w.rows : w.origin <= p
  BY <1>1 DEF Grounds, Onward
<1>6. \A p \in w.rows \cup page : w.origin <= p
  BY <1>1, <1>3, <1>5
<1> HIDE DEF w, next
<1>7. ASSUME NEW h \in next
      PROVE  /\ (\E g \in gaps : h.start = g.start) \/ (merging # {} /\ h.start = Newest(merging))
             /\ Trail(h)
  <2>1. \A g \in gaps : Trail(g)
    BY GapsOf DEF Grounds, Onward, Basics
  <2>2. ~complete => last # NoId /\ w.origin <= last /\ \A p \in merging : p <= last
    BY <1>1, <1>3, <1>5, NumberFacts
  <2>3. Existing \cup merging \subseteq Displayable
    BY <1>1, <1>3
  <2> QED
    BY <1>1, <1>3, <1>7, <2>1, <2>2, <2>3, ForwardStarts DEF next
<1>8. merging # {} => Newest(merging) \in merging
  BY <1>1, NewestOf, Displayed
<1>9. Footed' /\ Chained'
  <2>1. CASE StoresPage(s, merging, next)
    <3>1. \A h \in next : (\E g \in gaps : h.start = g.start) \/ h.start \in Existing \cup merging
      BY <1>7, <1>8
    <3> QED
      BY <2>1, <3>1, PageFooted, PageChained DEF Grounds
  <2>2. CASE UNCHANGED <<gaps, queue>>
    BY <1>1, <2>2 DEF Grounds, Footed, Chained, Fresh, Kept, UpTo
  <2> QED
    BY <1>2, <2>1, <2>2
<1>10. Alone'
  <2> SUFFICES ASSUME ~poisoned, walk'[s].phase = "forward",
                      walk'[s].firstPage \/ kind = "chat" \/ walk'[s].rows = {}
               PROVE  Quiet'
    BY <1>1, <1>4 DEF Alone
  <2>1. walk'[s].rows = w.rows \cup page /\ ~walk'[s].firstPage
    BY <1>1 DEF Continues, Settles, Proceeds
  <2>2. Quiet
    BY <1>1, <1>3, <2>1 DEF Grounds, Alone, w
  <2>3. CASE kind = "chat"
    <3>1. queue' = queue
      BY <1>2, <1>3, <2>3 DEF Settles
    <3> QED
      BY <2>2, <3>1 DEF Quiet
  <2>4. CASE kind = "room"
    <3>1. merging = {} /\ StorePage({}, next)
      BY <1>1, <1>2, <2>1, <2>4 DEF StoresPage
    <3>2. queue' = queue
      BY <2>2, <3>1, QuietStore
    <3> QED
      BY <2>2, <3>2 DEF Quiet
  <2> QED
    BY <1>3, <2>3, <2>4
<1>11. \A g \in AllGaps' : Trail(g)
  <2>1. CASE StoresPage(s, merging, next)
    BY <1>7, <2>1, PageTrails DEF Grounds
  <2>2. CASE UNCHANGED <<gaps, queue>>
    <3>1. AllGaps' = AllGaps
      BY <2>2 DEF AllGaps
    <3> QED
      BY <3>1 DEF Grounds, Onward
  <2> QED
    BY <1>2, <2>1, <2>2
<1>12. Onward'
  <2>1. ASSUME walk'[s].phase = "forward"
        PROVE  walk'[s].origin <= walk'[s].after + 1 /\ \A p \in walk'[s].rows : walk'[s].origin <= p
    <3>1. ~complete /\ Continues(w, walk'[s], top, w.rows \cup page)
      BY <1>1, <2>1 DEF Settles
    <3>2. walk'[s].origin = w.origin /\ walk'[s].after = top /\ walk'[s].rows = w.rows \cup page
      BY <3>1 DEF Continues
    <3>3. w.origin <= top + 1
      BY <1>1, <1>3, <1>5, <3>1
    <3> QED
      BY <1>6, <3>2, <3>3
  <2> QED
    BY <1>1, <1>4, <1>11, <2>1 DEF Onward
<1>13. Follows'
  <2>1. walk'[s].phase = "search" => mam'.caughtUp
    BY <1>1, <1>2 DEF Proceeds
  <2>2. walk'[s].phase = "latest" => ~walk'[s].manual
    BY <1>1 DEF Continues, Settles
  <2> QED
    BY <1>1, <1>4, <2>1, <2>2 DEF Follows
<1>14. Pinned'
  <2> SUFFICES ASSUME Intact, sessionStart = 0, walk'[s].phase = "forward", ~walk'[s].manual,
                      kind = "chat" \/ walk'[s].rows = {}, NEW h \in AllGaps'
               PROVE  h.start <= walk'[s].origin
    BY <1>1, <1>4 DEF Pinned, Intact
  <2>1. walk'[s].origin = w.origin /\ walk'[s].manual = w.manual /\ walk'[s].rows = w.rows \cup page
    BY <1>1 DEF Continues, Settles
  <2>2. \A g \in AllGaps : g.start <= w.origin
    BY <1>1, <2>1 DEF Grounds, Pinned, w
  <2>3. gaps \subseteq AllGaps
    BY GapsOf DEF Basics
  <2>4. CASE UNCHANGED <<gaps, queue>>
    <3>1. AllGaps' = AllGaps
      BY <2>4 DEF AllGaps
    <3> QED
      BY <2>1, <2>2, <3>1
  <2>5. CASE kind = "room" /\ StoresPage(s, merging, next)
    <3>1. merging = {}
      BY <1>1, <1>3, <2>1, <2>5
    <3>2. AllGaps' \subseteq AllGaps \cup next
      BY <2>5, PageSettles DEF Intact
    <3>3. \A g \in next : \E k \in gaps : g.start = k.start
      BY <1>7, <3>1
    <3> QED
      BY <2>1, <2>2, <2>3, <3>2, <3>3
  <2> QED
    BY <1>2, <1>3, <2>4, <2>5 DEF Settles
<1> QED
  BY <1>9, <1>10, <1>12, <1>13, <1>14 DEF Grounds

\* A page walked down.
LEMMA BackwardGrounds ==
  ASSUME Basics, Grounds, OneWalk, NEW s \in Slots, NEW rows, NEW complete, NEW low, NEW bound, NEW latest,
         BackwardStores(s, rows, complete, low, bound, latest)
  PROVE  Grounds'
<1> DEFINE next == AfterBackwardPage(gaps, rows, complete, latest, Existing)
<1>1. /\ walk[s].phase = IF latest THEN "latest" ELSE "search"
      /\ latest \in BOOLEAN /\ complete \in BOOLEAN /\ rows \subseteq Displayable
      /\ walk'[s].phase \in {"none", "search"}
      /\ mam'.caughtUp = IF latest THEN TRUE ELSE mam.caughtUp
      /\ StoresPage(s, rows, next)
  <2> HIDE DEF next
  <2>1. /\ walk[s].phase = IF latest THEN "latest" ELSE "search"
        /\ latest \in BOOLEAN /\ Gathers(rows, complete, low, bound)
        /\ walk'[s].phase \in {"none", "search"}
        /\ IF latest THEN Completed(TRUE, LatestFrom(walk[s], rows))
           ELSE mam'.caughtUp = mam.caughtUp /\ edge' = edge
        /\ StoresPage(s, rows, next)
    BY DEF BackwardStores, next
  <2>2. complete \in BOOLEAN /\ rows \subseteq Displayable
    BY <2>1 DEF Gathers
  <2>3. latest => mam'.caughtUp = TRUE
    BY <2>1 DEF Completed
  <2> QED
    BY <2>1, <2>2, <2>3
<1>2. (\A t \in Slots : t # s => walk'[t] = walk[t]) /\ UNCHANGED <<kind, cache, poisoned, heard, lost, sessionStart>>
  BY <1>1 DEF StoresPage
<1>3. gaps \subseteq Gap /\ Normal(gaps) /\ Existing \subseteq Displayable
  BY ExistingTypes DEF Basics, Shape, TypeOK
<1>4. \A t \in Slots : t # s => walk'[t].phase = "none"
  <2>1. walk[s].phase # "none"
    BY <1>1
  <2> QED
    BY <1>2, <2>1, OtherSlot DEF OneWalk
<1> HIDE DEF next
<1>5. ASSUME NEW h \in next
      PROVE  ((\E g \in gaps : h.start = g.start) \/ h.start \in Existing) /\ Trail(h)
  <2>1. \A g \in gaps : Trail(g)
    BY GapsOf DEF Grounds, Onward, Basics
  <2> QED
    BY <1>1, <1>3, <1>5, <2>1, BackwardStarts DEF next
<1>6. Footed' /\ Chained'
  BY <1>1, <1>5, PageFooted, PageChained DEF Grounds
<1>7. \A t \in Slots : walk'[t].phase \in {"none", "search"}
  BY <1>1, <1>4
<1>8. Alone' /\ Pinned'
  BY <1>7 DEF Alone, Pinned
<1>9. Onward'
  <2>1. \A g \in AllGaps' : Trail(g)
    BY <1>1, <1>5, PageTrails DEF Grounds
  <2> QED
    BY <1>7, <2>1 DEF Onward
<1>10. Follows'
  BY <1>1, <1>4, <1>7 DEF Grounds, Follows
<1> QED
  BY <1>6, <1>8, <1>9, <1>10 DEF Grounds

\* At first nothing is recorded, in flight or walked.
LEMMA InitGrounds == Init => Grounds
<1> SUFFICES ASSUME Init PROVE Grounds
  OBVIOUS
<1>1. gaps = {} /\ Len(queue) = 0 /\ \A s \in Slots : walk[s].phase = "none"
  BY EmptySeq, NoWalkOK DEF Init
<1>2. AllGaps = {}
  BY <1>1 DEF AllGaps
<1> QED
  BY <1>1, <1>2 DEF Grounds, Footed, Chained, Alone, Onward, Follows, Pinned

\* Every step keeps the grounds, while walks do not overlap.
LEMMA StepGrounds ==
  ASSUME Basics, Grounds, OneWalk, [Next]_vars
  PROVE  Grounds'
<1>1. CASE Plain
  BY <1>1, PlainGrounds
<1>2. CASE Starts
  BY <1>2, StartGrounds
<1>3. CASE WriteCommits
  BY <1>3, CommitGrounds
<1>4. CASE WriteFails
  BY <1>4, FailGrounds
<1>5. CASE Crash
  BY <1>5, CrashGrounds
<1>6. CASE Arrive \/ Resume
  BY <1>6, StreamGrounds
<1>7. ASSUME NEW s \in Slots, AnchorPurged(s) PROVE Grounds'
  BY <1>7, AnchorGrounds
<1>8. ASSUME NEW s \in Slots, ForwardPage(s) PROVE Grounds'
  BY <1>8, ForwardPageOf, ForwardGrounds
<1>9. ASSUME NEW s \in Slots, LatestPage(s) \/ SearchPage(s) PROVE Grounds'
  BY <1>9, BackwardPageOf, BackwardGrounds
<1> QED
  BY <1>1, <1>2, <1>3, <1>4, <1>5, <1>6, <1>7, <1>8, <1>9, StepKinds

-----------------------------------------------------------------------------
(* What is claimed, sure and freed, over steps that store no page.          *)

\* What is sure stays so as more is settled, when the list is the one there was
\* and the queue has at most grown.
LEMMA SureStays ==
  ASSUME gaps' = gaps, Settled \subseteq Settled', queue \in Seq(Job),
         queue' = queue \/ \E job \in Job : queue' = Append(queue, job),
         NEW p, Sure(p)
  PROVE  Sure(p)'
<1>1. CASE p \in Settled \/ p \in Covered(gaps)
  BY <1>1 DEF Sure
<1>2. ASSUME NEW i \in 1..Len(queue), Fresh(i), \A j \in 1..(i - 1) : ~Fresh(j), p \in Covered(queue[i].next)
      PROVE  Sure(p)'
  <2>1. i \in 1..Len(queue') /\ queue'[i] = queue[i] /\ \A j \in 1..(i - 1) : queue'[j] = queue[j]
    <3>1. ASSUME NEW job \in Job, queue' = Append(queue, job)
          PROVE  i \in 1..Len(queue') /\ queue'[i] = queue[i] /\ \A j \in 1..(i - 1) : queue'[j] = queue[j]
      <4>1. Len(queue) \in Nat /\ \A k \in 1..Len(queue) : k \in 1..Len(queue') /\ queue'[k] = queue[k]
        BY <3>1, QueueAppend
      <4>2. \A j \in 1..(i - 1) : j \in 1..Len(queue)
        BY <4>1
      <4> QED
        BY <4>1, <4>2
    <3> QED
      BY <3>1
  <2> QED
    BY <1>2, <2>1 DEF Sure, Fresh
<1> QED
  BY <1>1, <1>2 DEF Sure

\* What a catch-up has answered for is what one had, when walks go on or end,
\* or fall back to the newest page, and nothing is newly held or recorded.
LEMMA ClaimedStays ==
  ASSUME UNCHANGED <<sessionStart, seen, kind, edge>>, mam'.caughtUp => mam.caughtUp,
         Have' \subseteq Have, \A h \in AllGaps' : \E g \in AllGaps : h.start = g.start,
         \A t \in Slots : \/ walk'[t] = walk[t]
                          \/ walk'[t].phase \notin {"forward", "latest"}
                          \/ walk'[t].phase = "latest" /\ walk'[t].loose /\ walk'[t].origin = NoId,
         NEW p \in Displayable, Claimed(p)'
  PROVE  Claimed(p)
<1>1. \A a \in Anchors' : a \in Anchors \/ a = NoId
  <2>1. ASSUME NEW h \in AllGaps' PROVE h.start \in Anchors
    <3>1. PICK g \in AllGaps : h.start = g.start
      OBVIOUS
    <3> QED
      BY <3>1 DEF Anchors
  <2>2. ASSUME NEW t \in Slots, walk'[t].phase \in {"forward", "latest"}
        PROVE  walk'[t].origin \in Anchors \/ walk'[t].origin = NoId
    BY <2>2 DEF Anchors
  <2>3. \A x \in Have' : x < sessionStart' => x \in Anchors
    BY DEF Anchors
  <2> QED
    BY <2>1, <2>2, <2>3 DEF Anchors
<1>2. \A t \in Slots : Claims(walk[t])' => Claims(walk[t]) /\ walk'[t] = walk[t]
  BY DEF Claims
<1>3. ~(p <= NoId)
  BY Displayed, NumberFacts DEF Pos
<1> QED
  BY <1>1, <1>2, <1>3 DEF Claimed

\* What the queue's transitions free stays so.
LEMMA FreedStays ==
  ASSUME Freed, Intact' => Intact, gaps' = gaps, Held \subseteq Held',
         \A i \in 1..Len(queue') : Fresh(i)' =>
           \E j \in 1..Len(queue) : /\ Fresh(j) /\ queue'[i].next = queue[j].next
                                    /\ UpTo(queue, j) \subseteq Held' \cup UpTo(queue', i),
         \A p \in Displayable : p > seen => p > seen' \/ p \in Held',
         Intact' => \A p \in Displayable : Idle /\ ~Claimed(p) => p \in Held' \/ (Idle' /\ ~Claimed(p)')
  PROVE  Freed'
<1> SUFFICES ASSUME Intact', NEW i \in 1..Len(queue'), Fresh(i)',
                    NEW p \in Displayable, p \in Covered(gaps'), p \notin Covered(queue'[i].next)
             PROVE  p \in Held' \cup UpTo(queue', i) \/ p > seen' \/ (Idle' /\ ~Claimed(p)')
  BY DEF Freed
<1>1. PICK j \in 1..Len(queue) : /\ Fresh(j) /\ queue'[i].next = queue[j].next
                                 /\ UpTo(queue, j) \subseteq Held' \cup UpTo(queue', i)
  OBVIOUS
<1>2. p \in Held \cup UpTo(queue, j) \/ p > seen \/ (Idle /\ ~Claimed(p))
  BY <1>1 DEF Freed
<1> QED
  BY <1>1, <1>2

\* While no message is lost, gaps start at messages that are stored, or on their
\* way to be, and so is what the stream delivered.
LEMMA FootedHave ==
  ASSUME Basics, Footed, Intact
  PROVE  /\ Kept \subseteq Have
         /\ \A g \in AllGaps : g.start \in Have
<1>1. cache \subseteq Displayable /\ cache \subseteq Have
  BY DEF Basics, Shape, TypeOK, Have
<1>2. Delivered(queue) \subseteq Have
  BY DEF Delivered, Have
<1>3. Kept \subseteq Have
  BY <1>1, <1>2 DEF Kept, Basics, Stocked, Intact
<1>4. \A i \in 1..Len(queue) : UpTo(queue, i) \subseteq Have
  <2>1. Len(queue) \in Nat
    BY LenProperties DEF Basics, Shape, TypeOK
  <2>2. ASSUME NEW i \in 1..Len(queue), NEW p \in UpTo(queue, i) PROVE p \in Have
    <3>1. PICK j \in 1..i : p \in queue[j].rows
      BY DEF UpTo
    <3>2. j \in 1..Len(queue) /\ p \in Displayable
      BY <2>1 DEF UpTo
    <3> QED
      BY <3>1, <3>2 DEF Have
  <2> QED
    BY <2>2
<1>5. \A g \in AllGaps : g.start \in Have
  BY <1>3, <1>4, GapsOf DEF Footed, Intact, Basics
<1> QED
  BY <1>3, <1>5

\* Nothing that is stored, or on its way to be, lies above the newest held.
LEMMA HaveBelow ==
  ASSUME Basics
  PROVE  \A x \in Have : x <= NewestHeld
<1> DEFINE ps == cache \cup Existing \cup UNION {queue[i].rows : i \in 1..Len(queue)}
<1>1. cache \subseteq Displayable /\ Existing \subseteq Displayable
  BY ExistingTypes DEF Basics, Shape, TypeOK
<1>2. ps \subseteq Displayable
  BY <1>1, RowsOf DEF Basics
<1>3. Have \subseteq ps
  BY DEF Have
<1>4. ps # {} => \A x \in ps : x <= Newest(ps)
  BY <1>2, NewestOf, Displayed
<1>5. NewestHeld = MaxOf(ps)
  BY DEF NewestHeld
<1> HIDE DEF ps
<1> QED
  BY <1>3, <1>4, <1>5 DEF MaxOf

\* What is claimed and freed, as the invariant has it.
Answered == Vouched /\ Freed

\* A fresh session has claimed nothing: it catches up from above all that is
\* held.
LEMMA OnlineAnswered ==
  ASSUME Basics, Footed, GoOnline
  PROVE  Answered'
<1>1. /\ edge' = NewestHeld /\ mam'.caughtUp = FALSE /\ UNCHANGED <<cache, gaps, queue, poisoned, lost, walk>>
  BY DEF GoOnline, storeVars
<1>2. \A s \in Slots : walk'[s].phase = "none"
  BY <1>1 DEF GoOnline, Basics, Timely
<1>3. ASSUME Intact, NEW p \in Displayable PROVE ~Claimed(p)'
  <2>1. \A a \in Anchors' : a \in Have
    <3>1. AllGaps' = AllGaps /\ Have' = Have
      BY <1>1 DEF AllGaps, Have
    <3>2. \A g \in AllGaps' : g.start \in Have
      BY <1>3, <3>1, FootedHave
    <3> QED
      BY <1>2, <3>1, <3>2 DEF Anchors
  <2>2. \A a \in Anchors' : a <= edge'
    BY <1>1, <2>1, HaveBelow
  <2>3. Have \subseteq Nat /\ p \in Nat /\ edge' \in Nat
    <3>1. Have \subseteq Displayable
      BY DEF Have
    <3>2. NewestHeld \in 0..MaxPos
      BY NewestHeldOK DEF Basics, Shape
    <3> QED
      BY <1>1, <3>1, <3>2, Displayed, NumberFacts
  <2>4. \A t \in Slots : ~Claims(walk[t])'
    BY <1>2 DEF Claims
  <2>5. ASSUME NEW a \in Anchors', edge' < p, p <= a PROVE FALSE
    <3>1. a \in Nat /\ a <= edge'
      BY <2>1, <2>2, <2>3
    <3>2. p \in Nat /\ edge' \in Nat
      BY <2>3
    <3> QED
      BY <2>5, <3>1, <3>2
  <2> QED
    BY <1>1, <2>4, <2>5 DEF Claimed
<1>4. Intact' => Intact
  BY <1>1 DEF Intact
<1>5. Idle'
  BY <1>2 DEF Idle
<1> QED
  BY <1>3, <1>4, <1>5 DEF Answered, Vouched, Freed

\* The steps that store nothing and start no walk.
LEMMA PlainAnswered ==
  ASSUME Basics, Grounds, Answered, Plain
  PROVE  Answered'
<1>1. /\ UNCHANGED <<kind, cache, gaps, queue, poisoned, heard, lost>>
      /\ \A s \in Slots : walk'[s] = walk[s] \/ walk'[s] = NoWalk
      /\ purged' \in Nat /\ purged \in Nat /\ purged <= purged'
  BY PlainFrame DEF Basics, Plain
<1>2. CASE GoOnline
  BY <1>2, OnlineAnswered DEF Grounds
<1>3. CASE UNCHANGED <<sessionStart, mam, edge, seen>>
  <2>1. Held \subseteq Held'
    BY <1>1, HeldGrows
  <2>2. Settled \subseteq Settled'
    BY <1>1, <2>1, SettledGrows
  <2>3. AllGaps' = AllGaps /\ Have' = Have
    BY <1>1 DEF AllGaps, Have
  <2>4. NoWalk.phase = "none"
    BY NoWalkOK
  <2>5. \A t \in Slots : walk'[t] = walk[t] \/ walk'[t].phase \notin {"forward", "latest"}
    BY <1>1, <2>4
  <2>6. ASSUME NEW p \in Displayable, Claimed(p)' PROVE Claimed(p)
    BY <1>1, <1>3, <2>3, <2>5, <2>6, ClaimedStays
  <2>7. (Intact' => Intact) /\ (Idle => Idle') /\ queue \in Seq(Job)
    BY <1>1, <2>4 DEF Intact, Idle, Basics, Shape, TypeOK
  <2>8. \A p : Sure(p) => Sure(p)'
    BY <1>1, <2>2, <2>7, SureStays
  <2>9. Vouched'
    BY <2>6, <2>7, <2>8 DEF Answered, Vouched
  <2>10. \A i \in 1..Len(queue') : Fresh(i)' =>
           \E j \in 1..Len(queue) : /\ Fresh(j) /\ queue'[i].next = queue[j].next
                                    /\ UpTo(queue, j) \subseteq Held' \cup UpTo(queue', i)
    BY <1>1 DEF Fresh, UpTo
  <2>11. Freed'
    BY <1>1, <1>3, <2>1, <2>6, <2>7, <2>10, FreedStays DEF Answered
  <2> QED
    BY <2>9, <2>11 DEF Answered
<1> QED
  BY <1>2, <1>3, PlainView DEF Basics

\* A walk that starts has claimed nothing, and starts at what could be started
\* from before.
LEMMA StartAnswered ==
  ASSUME Basics, Grounds, Answered, Starts
  PROVE  Answered'
<1>1. /\ UNCHANGED <<kind, purged, live, seen, online, resumable, cache, gaps, queue, poisoned, active,
                     resident, heard, lost, edge, sessionStart, mam>>
      /\ \/ UNCHANGED walk
         \/ /\ queue = <<>> /\ Len(queue) = 0
            /\ \E s \in Slots :
                 /\ walk[s] = NoWalk /\ \A t \in Slots : t # s => walk'[t] = walk[t]
                 /\ \/ \E held \in SUBSET Displayable : StartsOn(s, held)
                    \/ /\ walk'[s].phase = "forward" /\ walk'[s].manual /\ walk'[s].rows = {}
                       /\ \E g \in gaps : walk'[s].origin = g.start
  <2>1. Shape /\ (StartFront \/ LoadMissing \/ StartBack)
    BY DEF Basics, Starts
  <2> QED
    BY <2>1, StartFrame
<1>2. Held' = Held /\ Pending(queue') = Pending(queue) /\ AllGaps' = AllGaps /\ Have' = Have /\ Intact' = Intact
  BY <1>1 DEF Held, Known, Pending, UpTo, AllGaps, Have, Intact
<1>3. CASE UNCHANGED walk
  <2>1. Anchors' = Anchors /\ \A p : Claimed(p)' <=> Claimed(p)
    <3>1. Anchors' = Anchors
      BY <1>1, <1>2, <1>3 DEF Anchors
    <3> QED
      BY <1>1, <1>3, <3>1 DEF Claimed, Claims
  <2>2. \A p : Sure(p) => Sure(p)'
    BY <1>1, <1>2 DEF Sure, Settled, Fresh
  <2>3. Vouched'
    BY <1>2, <2>1, <2>2 DEF Answered, Vouched
  <2>4. Idle' = Idle /\ \A i \in 1..Len(queue) : UpTo(queue', i) = UpTo(queue, i)
    BY <1>1, <1>3 DEF Idle, UpTo
  <2>5. Freed'
    BY <1>1, <1>2, <2>1, <2>4 DEF Answered, Freed, Fresh
  <2> QED
    BY <2>3, <2>5 DEF Answered
<1>4. ASSUME Len(queue) = 0, NEW s \in Slots, \A t \in Slots : t # s => walk'[t] = walk[t],
             \/ \E held \in SUBSET Displayable : StartsOn(s, held)
             \/ /\ walk'[s].phase = "forward" /\ walk'[s].manual /\ walk'[s].rows = {}
                /\ \E g \in gaps : walk'[s].origin = g.start
      PROVE  Answered'
  <2> DEFINE v == walk'[s]
  <2>1. Freed'
    BY <1>1, <1>4 DEF Freed
  <2>2. AllGaps = gaps /\ Have = cache
    BY <1>4, DrainedGaps DEF Basics
  <2>3. ASSUME Intact, sessionStart > 0
        PROVE  /\ v.phase \in {"forward", "latest"} => v.origin \in Anchors \/ v.origin = NoId
               /\ v.rows = {} /\ (v.phase = "latest" => v.loose)
    <3>1. CASE v.phase = "forward" /\ v.rows = {} /\ \E g \in gaps : v.origin = g.start
      BY <2>2, <3>1 DEF Anchors
    <3>2. ASSUME NEW held \in SUBSET Displayable, StartsOn(s, held)
          PROVE  /\ v.phase \in {"forward", "latest"} => v.origin \in Anchors \/ v.origin = NoId
                 /\ v.rows = {} /\ (v.phase = "latest" => v.loose)
      <4>1. v = CatchUpWalk(held) /\ held \subseteq resident \cup cache
        BY <3>2 DEF StartsOn
      <4>2. /\ v.rows = {}
            /\ \/ v.phase = "forward" /\ \E g \in gaps : g.end = Edge /\ v.origin = g.start
               \/ v.phase = "forward" /\ v.origin \in BeforeSession(held)
               \/ v.phase = "latest" /\ v.loose /\ v.origin = NoId
        BY <4>1, CatchUpFields DEF Basics
      <4>3. \A x \in BeforeSession(held) : x \in held /\ x < sessionStart
        <5>1. sessionStart # 0
          BY <2>3
        <5> QED
          BY <5>1 DEF BeforeSession
      <4>4. resident \cup cache \subseteq Have
        <5>1. Pending(queue) = {} /\ Kept \subseteq Have
          BY <1>4, <2>3, DrainedGaps, FootedHave DEF Basics, Grounds
        <5> QED
          BY <2>2, <2>3, <5>1 DEF Basics, Stocked, Intact
      <4> HIDE DEF v
      <4> QED
        BY <2>2, <4>1, <4>2, <4>3, <4>4 DEF Anchors
    <3> HIDE DEF v
    <3> QED
      BY <1>4, <3>1, <3>2 DEF v
  <2>4. v.rows = {} /\ (v.phase = "latest" => v.loose)
    <3>1. ASSUME NEW held \in SUBSET Displayable, StartsOn(s, held)
          PROVE  v.rows = {} /\ (v.phase = "latest" => v.loose)
      <4>1. v = CatchUpWalk(held)
        BY <3>1 DEF StartsOn
      <4> QED
        BY <4>1, CatchUpFields DEF Basics
    <3> QED
      BY <1>4, <3>1
  <2> HIDE DEF v
  <2>5. ASSUME Intact, NEW p \in Displayable, Claimed(p)' PROVE Claimed(p)
    <3>1. \A t \in Slots : Claims(walk[t])' => Claims(walk[t]) /\ walk'[t] = walk[t]
      BY <1>1, <1>4, <2>4 DEF Claims, v
    <3>2. sessionStart > 0 => \A a \in Anchors' : a \in Anchors \/ a = NoId
      BY <1>1, <1>2, <1>4, <2>3, <2>5 DEF Anchors, v
    <3>3. ~(p <= NoId)
      BY Displayed, NumberFacts DEF Pos
    <3> QED
      BY <1>1, <2>5, <3>1, <3>2, <3>3 DEF Claimed
  <2>6. \A p : Sure(p) => Sure(p)'
    BY <1>1, <1>2 DEF Sure, Settled, Fresh
  <2>7. Vouched'
    BY <1>2, <2>5, <2>6 DEF Answered, Vouched
  <2> QED
    BY <2>1, <2>7 DEF Answered
<1> QED
  BY <1>1, <1>3, <1>4

\* A write that commits: the list it leaves is the one that was to be next.
LEMMA CommitAnswered ==
  ASSUME Basics, Grounds, Answered, WriteCommits
  PROVE  Answered'
<1> DEFINE job == Head(queue)
<1>1. /\ UNCHANGED <<kind, purged, seen, poisoned, heard, lost, walk, sessionStart, mam, edge>>
      /\ queue \in Seq(Job) /\ queue # <<>>
      /\ cache' = cache \cup job.rows
      /\ queue' = Tail(queue) \/ queue' = Stale(Tail(queue))
      /\ gaps' = IF Applies(job) THEN job.next ELSE gaps
      /\ queue' = IF Applies(job) THEN Stale(Tail(queue)) ELSE Tail(queue)
  BY CommitFrame DEF Basics
<1>0. queue \in Seq(Job) /\ queue # <<>> /\ (queue' = Tail(queue) \/ queue' = Stale(Tail(queue)))
  BY <1>1
<1>2. /\ Len(queue) \in Nat /\ Len(queue') \in Nat /\ Len(queue) = Len(queue') + 1
      /\ 1 \in 1..Len(queue) /\ job = queue[1]
      /\ \A i \in 1..Len(queue') : i + 1 \in 1..Len(queue) /\ SameJob(queue'[i], queue[i + 1])
      /\ \A i \in 1..Len(queue) : i = 1 \/ i - 1 \in 1..Len(queue')
      /\ queue' = Stale(Tail(queue)) => \A i \in 1..Len(queue') : ~queue'[i].fresh
      /\ queue' = Tail(queue) => \A i \in 1..Len(queue') : queue'[i] = queue[i + 1]
  BY <1>0, QueueTail
<1>3. Shorter(queue, queue')
  BY <1>0, RowsTail
<1>4. Pending(queue) = Added(job) \cup Pending(queue')
  BY <1>3 DEF Shorter, Pending
<1>5. /\ UpTo(queue, 1) = Added(job)
      /\ \A n \in 0..Len(queue') : UpTo(queue, n + 1) = Added(job) \cup UpTo(queue', n)
  BY <1>3 DEF Shorter
<1> HIDE DEF job
<1>6. purged \in Nat
  BY NumberFacts DEF Basics, Shape, TypeOK
<1>7. Held \subseteq Held'
  BY <1>1, <1>6, HeldGrows
<1>8. Added(job) \subseteq Held'
  <2>1. job.rows \subseteq Displayable
    BY <1>2, RowsOf DEF Basics
  <2> QED
    BY <1>1, <2>1 DEF Added, Held, Known
<1>9. Settled \subseteq Settled'
  BY <1>4, <1>7, <1>8, SettledGrows
<1>10. gaps' = gaps \/ gaps' = queue[1].next
  BY <1>1, <1>2
<1>11. \A i \in 1..Len(queue') : /\ i + 1 \in 1..Len(queue)
                                 /\ queue'[i].next = queue[i + 1].next /\ queue'[i].rows = queue[i + 1].rows
  BY <1>2 DEF SameJob
<1>12. AllGaps' \subseteq AllGaps
  BY <1>2, <1>10, <1>11 DEF AllGaps
<1>13. Have' \subseteq Have
  BY <1>1, <1>2, <1>11 DEF Have
<1>14. ASSUME NEW p \in Displayable, Claimed(p)' PROVE Claimed(p)
  BY <1>1, <1>12, <1>13, <1>14, ClaimedStays
<1>15. CASE Applies(job)
  <2>1. Fresh(1) /\ gaps' = queue[1].next /\ \A i \in 1..Len(queue') : ~Fresh(i)'
    BY <1>1, <1>2, <1>15, AppliesFresh DEF Fresh, Grounds
  <2>2. ASSUME Intact', NEW p \in Displayable, Claimed(p)' PROVE Sure(p)'
    <3>1. Intact /\ Claimed(p) /\ Sure(p)
      BY <1>1, <1>14, <2>2 DEF Intact, Answered, Vouched
    <3>2. CASE p \in Settled
      BY <1>9, <3>2 DEF Sure
    <3>3. CASE p \in Covered(gaps) /\ p \notin Covered(gaps')
      <4>1. p \in Held \cup UpTo(queue, 1) \/ p > seen \/ (Idle /\ ~Claimed(p))
        BY <1>2, <2>1, <3>1, <3>3 DEF Answered, Freed
      <4>2. ~(p > seen)
        BY <3>1, SeenOK DEF Claimed, Basics
      <4>3. p \in Held'
        BY <1>5, <1>7, <1>8, <3>1, <4>1, <4>2
      <4> QED
        BY <4>3 DEF Sure, Settled
    <3>4. ASSUME NEW i \in 1..Len(queue), \A j \in 1..(i - 1) : ~Fresh(j), p \in Covered(queue[i].next)
          PROVE  p \in Covered(gaps')
      <4>1. i \in Nat /\ 1 <= i /\ ~(1 \in 1..(i - 1))
        BY <1>2, <2>1, <3>4
      <4>2. i = 1
        BY <4>1
      <4> QED
        BY <2>1, <3>4, <4>2
    <3>5. p \in Covered(gaps') => Sure(p)'
      BY DEF Sure
    <3> QED
      BY <3>1, <3>2, <3>3, <3>4, <3>5 DEF Sure
  <2> QED
    BY <2>1, <2>2 DEF Answered, Vouched, Freed
<1>16. CASE ~Applies(job)
  <2>1. gaps' = gaps /\ \A i \in 1..Len(queue') : queue'[i] = queue[i + 1]
    BY <1>1, <1>2, <1>16
  <2>2. ASSUME Intact PROVE ~Fresh(1)
    <3>1. queue[1].commit => queue[1].archive
      BY <1>2 DEF Basics, Stocked
    <3> QED
      BY <1>2, <1>16, <2>2, <3>1 DEF Fresh, Applies, Intact
  <2>3. ASSUME Intact', NEW p \in Displayable, Claimed(p)' PROVE Sure(p)'
    <3>1. Intact /\ Sure(p)
      BY <1>1, <1>14, <2>3 DEF Intact, Answered, Vouched
    <3>2. CASE p \in Settled \/ p \in Covered(gaps)
      BY <1>9, <2>1, <3>2 DEF Sure
    <3>3. ASSUME NEW i \in 1..Len(queue), Fresh(i), \A j \in 1..(i - 1) : ~Fresh(j), p \in Covered(queue[i].next)
          PROVE  Sure(p)'
      <4>1. i # 1
        BY <2>2, <3>1, <3>3
      <4>2. PICK k \in 1..Len(queue') : k = i - 1
        BY <1>2, <4>1
      <4>3. queue'[k] = queue[i]
        <5>1. k + 1 = i
          BY <1>2, <4>2
        <5> QED
          BY <2>1, <5>1
      <4>4. Fresh(k)' /\ p \in Covered(queue'[k].next)
        BY <3>3, <4>3 DEF Fresh
      <4>5. \A j \in 1..(k - 1) : ~Fresh(j)'
        <5> SUFFICES ASSUME NEW j \in 1..(k - 1) PROVE ~Fresh(j)'
          OBVIOUS
        <5>1. j \in 1..Len(queue') /\ j + 1 \in 1..(i - 1)
          BY <1>2, <4>2
        <5> QED
          BY <2>1, <3>3, <5>1 DEF Fresh
      <4> QED
        BY <4>4, <4>5 DEF Sure
    <3> QED
      BY <3>1, <3>2, <3>3 DEF Sure
  <2>4. ASSUME NEW i \in 1..Len(queue'), Fresh(i)'
        PROVE  \E j \in 1..Len(queue) : /\ Fresh(j) /\ queue'[i].next = queue[j].next
                                        /\ UpTo(queue, j) \subseteq Held' \cup UpTo(queue', i)
    <3>1. PICK j \in 1..Len(queue) : j = i + 1
      BY <1>2
    <3>2. Fresh(j) /\ queue'[i].next = queue[j].next
      BY <2>1, <2>4, <3>1 DEF Fresh
    <3>3. UpTo(queue, j) \subseteq Held' \cup UpTo(queue', i)
      <4>1. i \in 0..Len(queue')
        BY <1>2
      <4> QED
        BY <1>5, <1>8, <3>1, <4>1
    <3> QED
      BY <3>2, <3>3
  <2>5. (Intact' => Intact) /\ (Idle => Idle')
    BY <1>1 DEF Intact, Idle
  <2>6. Freed'
    BY <1>1, <1>7, <1>14, <2>1, <2>4, <2>5, FreedStays DEF Answered
  <2> QED
    BY <2>3, <2>6 DEF Answered, Vouched
<1> QED
  BY <1>15, <1>16

\* After a failed write there is nothing to show.
LEMMA FailAnswered ==
  ASSUME Basics, WriteFails
  PROVE  Answered'
<1>1. ~Intact'
  BY FailStocked DEF Basics
<1> QED
  BY <1>1 DEF Answered, Vouched, Freed

\* After a reload nothing is claimed.
LEMMA CrashAnswered ==
  ASSUME Basics, Crash
  PROVE  Answered'
<1>1. /\ Len(queue') = 0 /\ sessionStart' = 0 /\ mam'.caughtUp = FALSE
      /\ \A s \in Slots : walk'[s] = NoWalk
  BY CrashFrame DEF Basics
<1>2. NoWalk.phase = "none"
  BY NoWalkOK
<1>3. \A p : ~Claimed(p)'
  BY <1>1, <1>2 DEF Claimed, Claims
<1>4. \A i \in 1..Len(queue') : FALSE
  BY <1>1
<1> QED
  BY <1>3, <1>4 DEF Answered, Vouched, Freed

\* The fall back from an expired resume id: there is no transition beside it.
LEMMA AnchorAnswered ==
  ASSUME Basics, Grounds, Answered, NEW s \in Slots, AnchorPurged(s)
  PROVE  Answered'
<1>1. /\ UNCHANGED <<kind, purged, seen, cache, poisoned, heard, lost, sessionStart, mam, edge>>
      /\ walk[s].phase = "forward" /\ walk[s].firstPage
      /\ gaps' = ClearGapAnchor(gaps, walk[s].after)
      /\ queue \in Seq(Job)
      /\ (queue' = queue /\ gaps' = gaps) \/ queue' = Stale(queue)
      /\ \A t \in Slots : t # s => walk'[t] = walk[t]
      /\ walk'[s].phase = "latest" /\ walk'[s].origin = NoId /\ walk'[s].loose
  BY AnchorFrame DEF Basics
<1>2. Alike(gaps', gaps)
  BY <1>1, AlikeCleared DEF Basics, Shape, TypeOK
<1>3. /\ Len(queue') = Len(queue) /\ Pending(queue') = Pending(queue)
      /\ \A i \in 1..Len(queue) : /\ queue'[i].rows = queue[i].rows /\ queue'[i].next = queue[i].next
                                  /\ queue'[i].commit = queue[i].commit
  <2>1. CASE queue' = queue
    BY <2>1
  <2>2. CASE queue' = Stale(queue)
    BY <1>1, <2>2, QueueStale, StaleOf DEF SameJob
  <2> QED
    BY <1>1, <2>1, <2>2
<1>4. Held' = Held /\ Settled' = Settled
  BY <1>1, <1>3 DEF Held, Known, Settled
<1>5. Have' = Have
  BY <1>1, <1>3 DEF Have
<1>6. ASSUME NEW h \in AllGaps' PROVE \E g \in AllGaps : h.start = g.start
  <2>1. CASE h \in gaps'
    <3>1. PICK g \in gaps : h.start = g.start
      BY <1>2, <2>1 DEF Alike
    <3>2. g \in AllGaps
      BY DEF Basics, Shape, TypeOK, AllGaps
    <3> QED
      BY <3>1, <3>2
  <2>2. CASE \E i \in 1..Len(queue) : h \in queue[i].next
    BY <2>2, <1>6 DEF AllGaps
  <2> QED
    BY <1>3, <1>6, <2>1, <2>2 DEF AllGaps
<1>7. ASSUME NEW p \in Displayable, Claimed(p)' PROVE Claimed(p)
  BY <1>1, <1>5, <1>6, <1>7, ClaimedStays
<1>8. ASSUME Intact PROVE \A i \in 1..Len(queue) : ~Fresh(i) /\ ~Fresh(i)'
  <2>1. Quiet
    BY <1>1, <1>8 DEF Intact, Grounds, Alone
  <2> QED
    BY <1>3, <2>1, QuietFresh DEF Fresh
<1>9. Covered(gaps') = Covered(gaps)
  BY <1>2, CoveredAlike
<1>10. Intact' = Intact
  BY <1>1 DEF Intact
<1> QED
  BY <1>3, <1>4, <1>7, <1>8, <1>9, <1>10 DEF Answered, Vouched, Freed, Sure

\* What the stream does to the session's view: a room resumed before it caught
\* up claims nothing below what it holds.
LEMMA StreamView ==
  ASSUME Shape, Arrive \/ Resume
  PROVE  \/ UNCHANGED <<sessionStart, edge>>
         \/ ~online /\ mam.caughtUp /\ edge' = edge
         \/ ~online /\ ~mam.caughtUp /\ edge' = Most(NewestHeld, MaxOf(heard'))
<1>1. CASE Arrive
  BY <1>1 DEF Arrive
<1>2. CASE Resume
  BY <1>2 DEF Resume
<1> QED
  BY <1>1, <1>2

\* What the stream delivers is held at once.
LEMMA StreamAnswered ==
  ASSUME Basics, Grounds, Answered, Arrive \/ Resume
  PROVE  Answered'
<1>1. /\ UNCHANGED <<kind, purged, cache, gaps, poisoned, lost, walk, mam>>
      /\ seen' = live' /\ live' \in Nat /\ seen \in Nat /\ seen <= seen'
      /\ seen = live \/ ~online
  BY StreamFrame DEF Basics, Timely
<1>2. PICK h \in SUBSET Displayable :
              /\ \A p \in h : seen < p /\ p <= seen'
              /\ seen = live \/ ~online => \A p \in Displayable : seen < p /\ p <= seen' => p \in h
              /\ heard' = heard \cup h
              /\ \/ h = {} /\ queue' = queue
                 \/ queue' = Append(queue, LiveJob(h))
  BY StreamFrame DEF Basics
<1>3. /\ LiveJob(h) \in Job /\ LiveJob(h).rows = h /\ queue \in Seq(Job)
      /\ ~LiveJob(h).commit /\ LiveJob(h).next = {} /\ Added(LiveJob(h)) = {}
  BY LiveJobOK DEF LiveJob, Basics, Shape, TypeOK
<1>4. /\ Pending(queue') = Pending(queue)
      /\ \A i \in 1..Len(queue') : \/ /\ i \in 1..Len(queue) /\ queue'[i] = queue[i]
                                      /\ UpTo(queue', i) = UpTo(queue, i)
                                   \/ queue'[i] = LiveJob(h)
  <2>1. CASE h = {} /\ queue' = queue
    BY <2>1
  <2>2. CASE queue' = Append(queue, LiveJob(h))
    <3>1. LiveJob(h) \in Job /\ queue \in Seq(Job)
      BY <1>3
    <3>2. Longer(queue, LiveJob(h), queue')
      BY <2>2, <3>1, RowsAppend
    <3>3. Pending(queue') = Pending(queue)
      BY <1>3, <3>2 DEF Longer, Pending
    <3>4. \A i \in 1..Len(queue) : UpTo(queue', i) = UpTo(queue, i)
      BY <3>2 DEF Longer
    <3> QED
      BY <2>2, <3>1, <3>3, <3>4, QueueAppend
  <2> QED
    BY <1>2, <2>1, <2>2
<1>5. purged \in Nat
  BY NumberFacts DEF Basics, Shape, TypeOK
<1>6. Held \subseteq Held' /\ h \subseteq Held'
  BY <1>1, <1>2, <1>5, HeldGrows DEF Held, Known
<1>7. Settled \subseteq Settled'
  BY <1>4, <1>6 DEF Settled
<1>8. ASSUME NEW p \in Displayable, p > seen PROVE p > seen' \/ p \in Held'
  BY <1>1, <1>2, <1>6, <1>8, Displayed
<1>9. AllGaps' \subseteq AllGaps
  BY <1>1, <1>3, <1>4 DEF AllGaps
<1>10. Have' \subseteq Have \cup h /\ h \subseteq heard'
  BY <1>1, <1>2, <1>3, <1>4 DEF Have
<1>11. ASSUME Intact, NEW p \in Displayable, Claimed(p)' PROVE Claimed(p) \/ p \in Held'
  <2>1. CASE p > seen
    <3>1. p <= seen' /\ p \in Nat /\ seen' \in Nat
      BY <1>1, <1>11, Displayed DEF Claimed
    <3> QED
      BY <1>8, <2>1, <3>1
  <2>2. CASE ~(p > seen)
    <3>0. p <= seen /\ p \in Nat
      BY <1>1, <2>2, Displayed
    <3>1. CASE UNCHANGED <<sessionStart, edge>>
      <4>1. \A x \in Have' : x < sessionStart => x \in Have
        <5>1. sessionStart <= seen + 1 /\ sessionStart \in Nat
          BY SeenOK DEF Basics, Timely
        <5>2. \A x \in h : x \in Nat /\ seen < x
          BY <1>2, Displayed
        <5>3. \A x \in h : ~(x < sessionStart)
          BY <1>1, <5>1, <5>2
        <5> QED
          BY <1>10, <5>3
      <4>2. Anchors' \subseteq Anchors
        BY <1>1, <1>9, <3>1, <4>1 DEF Anchors
      <4>3. \A s \in Slots : Claims(walk[s])' => Claims(walk[s])
        BY <1>1 DEF Claims
      <4> QED
        BY <1>1, <1>11, <3>0, <3>1, <4>2, <4>3 DEF Claimed
    <3>2. CASE mam.caughtUp /\ edge' = edge
      BY <1>11, <3>0, <3>2 DEF Claimed
    <3>3. CASE ~online /\ ~mam.caughtUp /\ edge' = Most(NewestHeld, MaxOf(heard'))
      <4>1. \A s \in Slots : walk'[s].phase = "none"
        BY <1>1, <3>3 DEF Basics, Timely
      <4>2. NewestHeld \in Nat /\ MaxOf(heard') \in Nat /\ \A x \in h : x <= MaxOf(heard')
        <5>1. heard' \subseteq Displayable
          BY <1>2 DEF Basics, Shape, TypeOK
        <5>2. heard' # {} => Newest(heard') \in heard' /\ \A x \in heard' : x <= Newest(heard')
          BY <5>1, NewestOf, Displayed
        <5>3. MaxOf(heard') \in Nat /\ \A x \in heard' : x <= MaxOf(heard')
          BY <5>1, <5>2, Displayed DEF MaxOf
        <5>4. NewestHeld \in 0..MaxPos
          BY NewestHeldOK DEF Basics
        <5> QED
          BY <1>10, <5>3, <5>4, NumberFacts
      <4>3. NewestHeld <= edge' /\ MaxOf(heard') <= edge' /\ edge' \in Nat
        BY <3>3, <4>2 DEF Most
      <4>4. \A a \in Anchors' : a \in Have \cup h
        <5>1. \A g \in AllGaps' : g.start \in Have
          BY <1>9, <1>11, FootedHave DEF Grounds
        <5> QED
          BY <1>10, <4>1, <5>1 DEF Anchors
      <4>5. ASSUME NEW a \in Anchors' PROVE a \in Nat /\ a <= edge'
        <5>1. a \in Displayable
          BY <4>4 DEF Have
        <5>2. a \in Nat
          BY <5>1, Displayed
        <5>3. CASE a \in Have
          BY <4>2, <4>3, <5>2, <5>3, HaveBelow
        <5>4. CASE a \in h
          BY <4>2, <4>3, <5>2, <5>4
        <5> QED
          BY <4>4, <5>2, <5>3, <5>4
      <4>6. ASSUME NEW a \in Anchors', edge' < p, p <= a PROVE FALSE
        <5>1. a \in Nat /\ a <= edge'
          BY <4>5
        <5> QED
          BY <3>0, <4>3, <4>6, <5>1
      <4>7. \A s \in Slots : ~Claims(walk[s])'
        BY <4>1 DEF Claims
      <4> QED
        BY <1>1, <1>11, <3>3, <4>6, <4>7 DEF Claimed
    <3> QED
      BY <3>1, <3>2, <3>3, StreamView DEF Basics
  <2> QED
    BY <2>1, <2>2
<1>12. (Intact' => Intact) /\ (Idle => Idle')
  BY <1>1 DEF Intact, Idle
<1>13. \A p : Sure(p) => Sure(p)'
  BY <1>1, <1>2, <1>3, <1>7, SureStays
<1>14. Vouched'
  <2> SUFFICES ASSUME Intact', NEW p \in Displayable, Claimed(p)' PROVE Sure(p)'
    BY DEF Vouched
  <2>1. CASE p \in Held'
    BY <2>1 DEF Sure, Settled
  <2>2. CASE Claimed(p)
    BY <1>12, <1>13, <2>2 DEF Answered, Vouched
  <2> QED
    BY <1>11, <1>12, <2>1, <2>2
<1>15. \A i \in 1..Len(queue') : Fresh(i)' =>
         \E j \in 1..Len(queue) : /\ Fresh(j) /\ queue'[i].next = queue[j].next
                                  /\ UpTo(queue, j) \subseteq Held' \cup UpTo(queue', i)
  BY <1>3, <1>4 DEF Fresh
<1>16. Intact' => \A p \in Displayable : Idle /\ ~Claimed(p) => p \in Held' \/ (Idle' /\ ~Claimed(p)')
  BY <1>11, <1>12
<1>17. Freed'
  BY <1>1, <1>6, <1>8, <1>12, <1>15, <1>16, FreedStays DEF Answered
<1> QED
  BY <1>14, <1>17 DEF Answered

-----------------------------------------------------------------------------
(* The pages keep what is claimed sure.                                     *)

\* What is sure stays so over a page that stores, or leaves in the gaps, what it
\* takes out of them.
LEMMA StoreSure ==
  ASSUME Basics, ~poisoned, NEW s \in Slots, NEW rows, NEW next, StoresPage(s, rows, next),
         Uncovers(rows, next), NEW p \in Displayable, p <= seen, Sure(p)
  PROVE  Sure(p)'
<1> DEFINE job == PageJob(rows, next)
<1>1. /\ queue \in Seq(Job) /\ job \in Job
      /\ \/ queue' = queue /\ gaps' = gaps
         \/ queue' = queue /\ gaps' = next /\ ~SavesHas
         \/ queue' = Append(queue, job) /\ gaps' = gaps
  BY StoresOf DEF Stores
<1> HIDE DEF job
<1>2. Settled \cup rows \subseteq Settled'
  BY PageSettles
<1>3. CASE gaps' = gaps /\ (queue' = queue \/ queue' = Append(queue, job))
  BY <1>1, <1>2, <1>3, SureStays
<1>4. CASE queue' = queue /\ gaps' = next /\ ~SavesHas
  <2>1. Quiet
    BY <1>4 DEF SavesHas, Quiet
  <2>2. p \in Settled \/ p \in Covered(gaps)
    BY <2>1, QuietFresh DEF Sure
  <2>3. ~(p > seen)
    BY Displayed, SeenOK DEF Basics
  <2>4. p \in Settled \cup rows \/ p \in Covered(gaps')
    BY <1>4, <2>2, <2>3 DEF Uncovers
  <2> QED
    BY <1>2, <2>4 DEF Sure
<1> QED
  BY <1>1, <1>3, <1>4

\* What the list that a page leaves covers is sure, when no other is to come.
LEMMA NextSure ==
  ASSUME Basics, NEW s \in Slots, NEW rows, NEW next, StoresPage(s, rows, next),
         \A i \in 1..Len(queue) : ~Fresh(i), NEW p \in Covered(next)
  PROVE  Sure(p)'
<1> DEFINE job == PageJob(rows, next)
<1>1. /\ queue \in Seq(Job) /\ job \in Job /\ (job.commit <=> next # gaps) /\ (job.commit => job.next = next)
      /\ \/ gaps' = next
         \/ queue' = Append(queue, job) /\ gaps' = gaps
  BY StoresOf DEF Stores
<1>2. job.fresh
  BY DEF PageJob
<1> HIDE DEF job
<1>3. CASE gaps' = next
  BY <1>3 DEF Sure
<1>4. CASE queue' = Append(queue, job) /\ gaps' = gaps /\ next # gaps
  <2>1. /\ Len(queue) \in Nat /\ Len(queue') = Len(queue) + 1 /\ queue'[Len(queue')] = job
        /\ Len(queue') \in 1..Len(queue') /\ \A i \in 1..Len(queue) : queue'[i] = queue[i]
    BY <1>1, <1>4, QueueAppend
  <2>2. PICK i \in 1..Len(queue') : i = Len(queue')
    BY <2>1
  <2>3. Fresh(i)' /\ p \in Covered(queue'[i].next)
    BY <1>1, <1>2, <1>4, <2>1, <2>2 DEF Fresh
  <2>4. \A j \in 1..(i - 1) : ~Fresh(j)'
    <3>1. i - 1 = Len(queue)
      BY <2>1, <2>2
    <3> QED
      BY <2>1, <3>1 DEF Fresh
  <2> QED
    BY <2>3, <2>4 DEF Sure
<1> QED
  BY <1>1, <1>3, <1>4

\* What a page's transition takes out of the gaps is stored by then, or yet to
\* come.
LEMMA StoreFreed ==
  ASSUME Basics, Intact, Freed, NEW s \in Slots, walk[s].phase # "none",
         NEW rows, NEW next, StoresPage(s, rows, next), Uncovers(rows, next)
  PROVE  Freed'
<1> DEFINE job == PageJob(rows, next)
<1>1. /\ queue \in Seq(Job) /\ job \in Job /\ (job.commit <=> next # gaps) /\ (job.commit => job.next = next)
      /\ \/ queue' = queue /\ gaps' = gaps
         \/ queue' = queue /\ gaps' = next /\ ~SavesHas
         \/ queue' = Append(queue, job) /\ gaps' = gaps
  BY StoresOf DEF Stores
<1> HIDE DEF job
<1>2. Settled \cup rows \subseteq Settled'
  BY PageSettles DEF Intact
<1>3. UNCHANGED <<purged, cache, heard, seen, poisoned, lost>>
  BY DEF StoresPage
<1>4. Held' = Held /\ ~Idle
  BY <1>3 DEF Held, Known, Idle
<1>5. CASE queue' = queue /\ gaps' = gaps
  <2>1. \A i \in 1..Len(queue') : Fresh(i)' =>
          \E j \in 1..Len(queue) : /\ Fresh(j) /\ queue'[i].next = queue[j].next
                                   /\ UpTo(queue, j) \subseteq Held' \cup UpTo(queue', i)
    BY <1>5 DEF Fresh, UpTo
  <2> QED
    BY <1>3, <1>4, <1>5, <2>1, FreedStays DEF Intact
<1>6. CASE queue' = queue /\ gaps' = next /\ ~SavesHas
  <2>1. Quiet
    BY <1>6 DEF SavesHas, Quiet
  <2>2. \A i \in 1..Len(queue') : ~Fresh(i)'
    BY <1>6, <2>1, QuietFresh DEF Fresh
  <2> QED
    BY <2>2 DEF Freed
<1>7. CASE queue' = Append(queue, job) /\ gaps' = gaps
  <2>1. Longer(queue, job, queue')
    BY <1>1, <1>7, RowsAppend
  <2>2. /\ \A i \in 1..Len(queue') : \/ i \in 1..Len(queue) /\ queue'[i] = queue[i]
                                     \/ i = Len(queue') /\ queue'[i] = job
    BY <1>1, <1>7, QueueAppend
  <2> SUFFICES ASSUME Intact', NEW i \in 1..Len(queue'), Fresh(i)',
                      NEW p \in Displayable, p \in Covered(gaps'), p \notin Covered(queue'[i].next)
               PROVE  p \in Held' \cup UpTo(queue', i) \/ p > seen'
    BY DEF Freed
  <2>3. CASE i \in 1..Len(queue) /\ queue'[i] = queue[i]
    <3>1. Fresh(i) /\ UpTo(queue', i) = UpTo(queue, i)
      BY <2>1, <2>3 DEF Fresh, Longer
    <3>2. p \in Held \cup UpTo(queue, i) \/ p > seen
      BY <1>4, <1>7, <2>3, <3>1 DEF Freed
    <3> QED
      BY <1>3, <1>4, <3>1, <3>2
  <2>4. CASE i = Len(queue') /\ queue'[i] = job
    <3>1. p \notin Covered(next)
      BY <1>1, <2>4 DEF Fresh
    <3>2. p \in Settled \cup rows \/ p > seen
      BY <1>7, <3>1 DEF Uncovers
    <3>3. Settled' = Held' \cup UpTo(queue', i)
      BY <2>4 DEF Settled, Pending
    <3> QED
      BY <1>2, <1>3, <3>2, <3>3
  <2> QED
    BY <2>2, <2>3, <2>4
<1> QED
  BY <1>1, <1>5, <1>6, <1>7

\* What was claimed stays sure over a page.
LEMMA ClaimedSure ==
  ASSUME Basics, Answered, Intact, NEW s \in Slots, NEW rows, NEW next, StoresPage(s, rows, next),
         Uncovers(rows, next), NEW p \in Displayable, Claimed(p)
  PROVE  Sure(p)'
<1>1. Sure(p) /\ p <= seen
  BY DEF Answered, Vouched, Claimed
<1> QED
  BY <1>1, StoreSure DEF Intact

\* The numbers of a session's view.
LEMMA ViewNumbers ==
  ASSUME Shape
  PROVE  /\ edge \in Nat /\ seen \in Nat /\ live \in Nat /\ sessionStart \in Nat
         /\ \A t \in Slots : walk[t].origin \in Nat /\ walk[t] \in Walk
<1>1. edge \in Nat /\ seen \in Nat /\ live \in Nat /\ sessionStart \in Nat
  BY SeenOK, NumberFacts DEF Shape, TypeOK
<1>2. \A t \in Slots : walk[t] \in Walk
  BY DEF Shape, TypeOK
<1>3. \A t \in Slots : walk[t].origin \in Pos \cup {NoId}
  BY <1>2 DEF Walk
<1> QED
  BY <1>1, <1>2, <1>3, NumberFacts DEF Pos

\* A page walked down: the newest page answers from its bottom up, or for what
\* the walk before it left a gap over.
LEMMA BackwardAnswered ==
  ASSUME Basics, Grounds, Answered, Bridges, OneWalk,
         NEW s \in Slots, NEW rows, NEW complete, NEW low, NEW bound, NEW latest,
         BackwardStores(s, rows, complete, low, bound, latest)
  PROVE  Answered'
<1> DEFINE next == AfterBackwardPage(gaps, rows, complete, latest, Existing)
           w == walk[s]
<1>1. StoresPage(s, rows, next)
  BY DEF BackwardStores
<1>2. Intact => Uncovers(rows, next)
  BY BackwardUncovers
<1> HIDE DEF next
<1>3. /\ UNCHANGED <<live, seen, poisoned, lost, sessionStart>> /\ online
      /\ \A t \in Slots : t # s => walk'[t] = walk[t]
  BY <1>1 DEF StoresPage
<1>4. Intact' = Intact
  BY <1>3 DEF Intact
<1>5. /\ w.phase \in {"latest", "search"} /\ walk'[s].phase \in {"none", "search"}
      /\ w.phase = "search" <=> ~latest
  BY DEF BackwardStores
<1>6. \A t \in Slots : walk'[t].phase \notin {"forward", "latest"}
  <2>1. w.phase # "none"
    BY <1>5
  <2>2. \A t \in Slots : t # s => walk[t].phase = "none"
    BY <2>1, OtherSlot DEF OneWalk
  <2> QED
    BY <1>3, <1>5, <2>2
<1>7. Freed'
  <2>1. w.phase # "none"
    BY <1>5
  <2>2. CASE Intact
    BY <1>1, <1>2, <2>1, <2>2, StoreFreed DEF Answered
  <2>3. CASE ~Intact
    BY <1>4, <2>3 DEF Freed
  <2> QED
    BY <2>2, <2>3
<1>8. /\ edge \in Nat /\ seen \in Nat /\ live \in Nat /\ sessionStart \in Nat /\ w.origin \in Nat
      /\ seen = live
  BY <1>3, ViewNumbers DEF Basics, Timely
<1>9. Vouched'
  <2> SUFFICES ASSUME Intact', NEW p \in Displayable, Claimed(p)' PROVE Sure(p)'
    BY DEF Vouched
  <2>0. Intact /\ p \in Nat
    BY <1>4, Displayed
  <2>1. Claimed(p) => Sure(p)'
    BY <1>1, <1>2, <2>0, ClaimedSure
  <2>2. edge' < p /\ p <= seen
    BY <1>3 DEF Claimed
  <2>3. CASE ~latest
    <3>1. mam.caughtUp /\ edge' = edge
      BY <1>5, <2>3 DEF Grounds, Follows, BackwardStores
    <3> QED
      BY <2>1, <2>2, <3>1 DEF Claimed
  <2>4. CASE latest /\ mam.caughtUp
    <3>1. edge' = edge
      BY <2>4 DEF BackwardStores, Completed
    <3> QED
      BY <2>1, <2>2, <2>4, <3>1 DEF Claimed
  <2>5. CASE latest /\ ~mam.caughtUp
    <3>1. /\ edge' = Most(edge, LatestFrom(w, rows)) /\ bound = seen + 1
          /\ Gathers(rows, complete, low, bound) /\ bound \in Nat
      BY <2>5 DEF BackwardStores, Completed
    <3>2. LatestFrom(w, rows) \in Int
      <4>1. rows # {} => Oldest(rows) \in Nat
        BY <3>1, GathersPast DEF Basics
      <4> QED
        BY <1>8, <4>1 DEF LatestFrom, ResumedAt
    <3>3. edge < p /\ LatestFrom(w, rows) < p
      BY <1>8, <2>0, <2>2, <3>1, <3>2 DEF Most
    <3>4. CASE w.loose
      <4>1. rows # {} /\ Oldest(rows) - 1 < p
        BY <1>8, <2>0, <2>2, <3>3, <3>4 DEF LatestFrom
      <4>2. Oldest(rows) \in Nat
        BY <3>1, <4>1, GathersPast DEF Basics
      <4>3. Oldest(rows) <= p /\ p < bound
        BY <1>8, <2>0, <2>2, <3>1, <4>1, <4>2
      <4>4. p \in Settled \cup rows
        BY <3>1, <4>1, <4>3, GathersDown DEF Basics
      <4>5. p \in Settled'
        BY <1>1, <2>0, <4>4, PageSettles DEF Intact
      <4> QED
        BY <4>5 DEF Sure
    <3>5. CASE ~w.loose
      <4>1. w.phase = "latest" /\ ~w.manual
        BY <1>5, <2>5, <3>5 DEF Grounds, Follows
      <4>2. CASE w.origin < p
        BY <2>1, <2>2, <3>3, <3>5, <4>1, <4>2 DEF Claimed, Claims
      <4>3. CASE p <= w.origin
        <5>1. sessionStart # 0
          BY <1>8, <2>0, <3>3, <3>5, <4>3 DEF LatestFrom, ResumedAt
        <5>2. w.origin \in Anchors
          BY <4>1 DEF Anchors
        <5>3. sessionStart > 0
          BY <1>8, <5>1
        <5> QED
          BY <2>1, <2>2, <3>3, <4>3, <5>2, <5>3 DEF Claimed
      <4> QED
        BY <1>8, <2>0, <4>2, <4>3
    <3> QED
      BY <3>4, <3>5
  <2> QED
    BY <1>5, <2>3, <2>4, <2>5 DEF BackwardStores
<1> QED
  BY <1>7, <1>9 DEF Answered

\* The gap a forward page opens covers what lies above its newest row, up to
\* the next message held.
LEMMA OpenedCovers ==
  ASSUME NEW gs, gs \subseteq Gap, NEW rows, rows \subseteq Displayable,
         NEW origin \in 0..MaxPos, NEW last \in 0..MaxPos, NEW complete \in BOOLEAN,
         NEW merged, merged \subseteq Displayable,
         Opens(gs, rows, origin, complete), NEW p \in Displayable, Newest(rows) < p
  PROVE  \/ p \in Covered(AfterForwardPage(gs, rows, origin, last, complete, merged))
         \/ \E q \in merged : Newest(rows) < q /\ q <= p
<1> DEFINE newest == Newest(rows)
           healed == HealGapsWithForwardPage(gs, rows, origin, last, complete, merged)
           opened == [start |-> newest, end |-> ComputeGapEnd(merged, newest), startId |-> last, endId |-> NoId]
<1>1. rows # {} /\ ~complete /\ newest >= origin /\ {g \in gs : ~(g.start < origin)} = {}
  <2>1. newest \in Nat /\ origin \in Nat
    <3>1. rows # {} /\ rows \subseteq 0..MaxPos
      BY Displayed DEF Opens
    <3>2. Newest(rows) \in rows
      BY <3>1, NewestOf, Displayed
    <3>3. newest \in 0..MaxPos
      BY <3>1, <3>2
    <3>4. origin \in Nat /\ newest \in Nat
      BY <3>3, NumberFacts
    <3> QED
      BY <3>4
  <2> QED
    BY <2>1 DEF Opens
<1>2. newest \in Pos /\ p \in Pos /\ p \in Nat
  BY <1>1, NewestOf, Displayed
<1>3. opened \in Gap /\ opened.start = newest /\ opened.end \in merged \cup {Edge}
  BY <1>2, OpenedOf
<1>4. healed \subseteq Gap
  BY HealOf
<1>5. opened \in healed
  <2>1. gs \ {g \in gs : g.start < origin} = {}
    BY <1>1
  <2> QED
    BY <1>1, <2>1 DEF HealGapsWithForwardPage
<1> HIDE DEF opened, healed, newest
<1>6. CASE p < opened.end
  <2>1. p \in Covered(healed)
    BY <1>2, <1>3, <1>4, <1>5, <1>6, CoveredBy DEF newest
  <2>2. p \in Covered(NormalizeGapList(healed))
    BY <1>4, <2>1, NormalizeCovers
  <2> QED
    BY <2>2 DEF AfterForwardPage, healed
<1>7. CASE ~(p < opened.end)
  <2>1. opened.end \in Nat /\ newest < opened.end
    <3>1. opened.end \in Nat
      BY <1>3, GapNumbers
    <3>2. newest < opened.end
      <4>1. CASE opened.end = Edge
        BY <1>2, <4>1, NumberFacts DEF Pos
      <4>2. CASE opened.end # Edge
        <5> DEFINE above == {q \in merged : q > newest}
        <5>1. opened.end = ComputeGapEnd(merged, newest)
          BY DEF opened
        <5>2. above # {} /\ opened.end = Oldest(above)
          BY <4>2, <5>1 DEF ComputeGapEnd
        <5>3. above \subseteq Nat
          BY Displayed
        <5>4. Oldest(above) \in above
          BY <5>2, <5>3, OldestOf
        <5> QED
          BY <1>2, <5>2, <5>4, Displayed
      <4> QED
        BY <4>1, <4>2
    <3> QED
      BY <3>1, <3>2
  <2>2. opened.end # Edge
    BY <1>2, <1>7, NumberFacts DEF Pos
  <2>3. opened.end \in merged /\ opened.end <= p
    BY <1>2, <1>3, <1>7, <2>1, <2>2
  <2> QED
    BY <2>1, <2>3 DEF newest
<1> QED
  BY <1>6, <1>7

\* What lies above the origin of a forward walk that starts, or is a
\* conversation's, is sure once its page is merged.
LEMMA ForwardPast ==
  ASSUME Basics, Grounds, Answered, Reaches, Intact,
         NEW s \in Slots, NEW page, NEW merging, NEW last, NEW complete, NEW top,
         ForwardStores(s, page, merging, last, complete, top),
         StoresPage(s, merging, AfterForwardPage(gaps, merging, walk[s].origin, last, complete, Existing \cup merging)),
         complete = FALSE, ~walk[s].manual, kind = "chat" \/ walk[s].rows = {},
         walk[s].rows \cup page # {} \/ \E g \in gaps : g.start = walk[s].origin,
         NEW p \in Displayable, edge < p, p <= seen, walk[s].origin < p
  PROVE  Sure(p)'
<1> DEFINE w      == walk[s]
           next   == AfterForwardPage(gaps, merging, w.origin, last, complete, Existing \cup merging)
           newest == Newest(merging)
<1>1. /\ w.phase = "forward" /\ w.origin \in 0..MaxPos
      /\ page \subseteq Displayable /\ merging \subseteq Displayable
      /\ last \in 0..MaxPos /\ complete \in BOOLEAN /\ top \in Nat
      /\ \A q \in merging : q <= top
      /\ \A q \in page : w.after < q
      /\ kind = "room" => merging = page
      /\ kind = "chat" => merging = w.rows \cup page
      /\ \A q \in Displayable : w.origin <= q /\ q <= top => q \in Settled \cup merging
  BY DEF ForwardStores, Intact
<1>2. /\ gaps \subseteq Gap /\ Existing \subseteq Displayable /\ kind \in {"chat", "room"}
      /\ w.after \in Nat /\ w.origin \in Nat /\ p \in Nat /\ p \in Pos
      /\ edge \in Nat /\ seen \in Nat /\ sessionStart \in Nat
      /\ \A q \in Displayable : q \in Nat
      /\ \A g \in gaps : g.start < g.end
  <2>1. w.after \in 0..MaxPos
    BY ForwardFacts DEF Basics
  <2>2. /\ gaps \subseteq Gap /\ Existing \subseteq Displayable /\ kind \in {"chat", "room"}
        /\ \A g \in gaps : g.start < g.end
    BY NumberFacts, ExistingTypes DEF Basics, Shape, TypeOK, Normal
  <2>3. w.origin \in Nat /\ edge \in Nat /\ seen \in Nat /\ sessionStart \in Nat
    BY ViewNumbers DEF Basics
  <2>4. p \in Pos /\ MaxPos \in Nat /\ \A q \in Displayable : q \in Nat
    BY Displayed
  <2> HIDE DEF w
  <2>5. w.after \in Nat
    BY <2>1, <2>4
  <2> QED
    BY <2>2, <2>3, <2>4, <2>5
<1>3. StoresPage(s, merging, next) /\ Uncovers(merging, next)
  BY ForwardUncovers DEF Intact
<1>4. Settled \cup merging \subseteq Settled'
  BY <1>3, PageSettles DEF Intact
<1>5. Claimed(p) => Sure(p)'
  BY <1>3, ClaimedSure
<1>6. ~poisoned
  BY DEF Intact
<1>7. Sure(p) => Sure(p)'
  BY <1>3, <1>6, StoreSure
<1>8. Quiet /\ \A i \in 1..Len(queue) : ~Fresh(i)
  <2>1. Quiet
    BY <1>1, <1>6 DEF Grounds, Alone
  <2> QED
    BY <2>1, QuietFresh
<1>9. Traced(w.origin) \/ Founded(w)
  BY <1>1 DEF Reaches
<1>10. Fine(p) => Sure(p)'
  BY <1>2, <1>4 DEF Fine, Sure
<1>11. merging = w.rows \cup page /\ \A q \in merging : w.origin <= q
  <2>1. w.origin <= w.after + 1 /\ \A q \in w.rows : w.origin <= q
    BY <1>1 DEF Grounds, Onward
  <2>2. ASSUME NEW q \in page PROVE w.origin <= q
    <3>1. q \in Nat /\ w.after < q /\ w.after \in Nat /\ w.origin \in Nat /\ w.origin <= w.after + 1
      BY <1>1, <1>2, <2>1
    <3> HIDE DEF w
    <3> QED
      BY <3>1
  <2>3. merging = w.rows \cup page
    BY <1>1, <1>2
  <2> QED
    BY <2>1, <2>2, <2>3
<1>12. Opens(gaps, merging, w.origin, complete) =>
         /\ \A q \in Existing : newest < q => Solid(q)
         /\ \A k \in AllGaps : newest < k.end => Solid(k.end)
  BY <1>9, OpensAbove
<1>13. merging # {} => newest \in merging /\ newest \in Nat /\ \A q \in merging : q <= newest
  BY ForwardedPage
<1>14. Opens(gaps, merging, w.origin, complete) /\ newest < p =>
         p \in Covered(next) \/ \E q \in Existing \cup merging : newest < q /\ q <= p
  <2>1. Existing \cup merging \subseteq Displayable
    BY <1>1, <1>2
  <2> QED
    <3> DEFINE merged == Existing \cup merging
    <3>1. /\ gaps \subseteq Gap /\ merging \subseteq Displayable /\ w.origin \in 0..MaxPos
          /\ last \in 0..MaxPos /\ complete \in BOOLEAN /\ merged \subseteq Displayable
      BY <1>1, <1>2, <2>1
    <3> HIDE DEF merged, w
    <3>2. Opens(gaps, merging, w.origin, complete) /\ Newest(merging) < p =>
            \/ p \in Covered(AfterForwardPage(gaps, merging, w.origin, last, complete, merged))
            \/ \E q \in merged : Newest(merging) < q /\ q <= p
      BY <3>1, OpenedCovers
    <3> QED
      BY <3>2 DEF merged, w
<1>15. p \in Covered(next) => Sure(p)'
  BY <1>3, <1>8, NextSure
<1>16. p \in Covered(gaps) => Sure(p)'
  BY <1>7 DEF Sure
<1>17. \A g \in gaps : g \in AllGaps /\ g.start \in Nat /\ g.end \in Nat
  BY <1>2, GapNumbers DEF AllGaps
<1>18. w.rows \cup page # {} \/ \E g \in gaps : g.start = w.origin
  OBVIOUS
<1>19. kind = "chat" \/ w.rows = {}
  OBVIOUS
<1>20. ~w.manual
  OBVIOUS
<1> HIDE DEF w, next, newest
<1>21. CASE p <= top
  <2>1. p \in Settled \cup merging
    BY <1>1, <1>2, <1>21 DEF w
  <2> QED
    BY <1>4, <2>1 DEF Sure
<1>22. CASE Traced(w.origin)
  <2>1. Fine(p) \/ p \in Covered(gaps)
    BY <1>22 DEF Traced, Lists, w
  <2> QED
    BY <1>10, <1>16, <2>1
<1>23. ASSUME Founded(w), NEW g \in gaps, w.origin <= g.start PROVE Sure(p)'
  <2>1. g \in AllGaps /\ g.start \in Nat /\ g.end \in Nat /\ g.start < g.end
    BY <1>2, <1>17
  <2>2. Solid(g.end)
    <3>1. ~(g.end <= w.origin)
      BY <1>2, <1>23, <2>1
    <3> QED
      BY <1>23, <2>1, <3>1 DEF Founded
  <2>3. CASE g.end <= p
    BY <1>10, <2>2, <2>3, SolidFine
  <2>4. CASE g.start < p /\ p < g.end
    <3>1. p \in Covered(gaps)
      BY <1>2, <2>4, CoveredBy
    <3> QED
      BY <1>16, <3>1
  <2>5. CASE p <= g.start
    <3>1. CASE sessionStart = 0
      <4>1. g.start <= w.origin
        BY <1>1, <1>19, <1>20, <2>1, <3>1 DEF Grounds, Pinned, w
      <4> QED
        BY <1>2, <2>1, <2>5, <4>1 DEF w
    <3>2. CASE sessionStart # 0
      <4>1. g.start \in Anchors /\ sessionStart > 0
        BY <1>2, <2>1, <3>2 DEF Anchors
      <4>2. Claimed(p)
        BY <2>5, <4>1 DEF Claimed
      <4> QED
        BY <1>5, <4>2
    <3> QED
      BY <3>1, <3>2
  <2> QED
    BY <1>2, <2>1, <2>3, <2>4, <2>5
<1>24. ASSUME ~(\E g \in gaps : w.origin <= g.start), ~(p <= top) PROVE Sure(p)'
  <2>1. \A g \in gaps : g.start < w.origin
    BY <1>2, <1>17, <1>24
  <2>2. merging # {}
    BY <1>2, <1>11, <1>18, <1>24
  <2>3. Opens(gaps, merging, w.origin, complete)
    BY <1>11, <1>13, <2>1, <2>2 DEF Opens, newest
  <2>4. newest < p
    BY <1>1, <1>2, <1>13, <1>24, <2>2
  <2>5. CASE p \in Covered(next)
    BY <1>15, <2>5
  <2>6. ASSUME NEW q \in Existing \cup merging, newest < q, q <= p PROVE Sure(p)'
    <3>1. q \notin merging
      BY <1>1, <1>2, <1>13, <2>2, <2>6
    <3>2. Solid(q)
      BY <1>12, <2>3, <2>6, <3>1
    <3> QED
      BY <1>10, <2>6, <3>2, SolidFine
  <2> QED
    BY <1>14, <2>3, <2>4, <2>5, <2>6
<1> QED
  BY <1>9, <1>21, <1>22, <1>23, <1>24

\* A page a conversation's walk keeps to itself.
LEMMA ForwardKept ==
  ASSUME Basics, Answered, OneWalk,
         NEW s \in Slots, NEW page, NEW merging, NEW last, NEW complete, NEW top,
         ForwardStores(s, page, merging, last, complete, top),
         kind = "chat", walk'[s].phase = "forward", UNCHANGED <<gaps, queue, resident, mam, edge>>
  PROVE  Answered'
<1> DEFINE w == walk[s]
<1>1. /\ UNCHANGED <<kind, purged, cache, heard, seen, poisoned, lost, sessionStart>>
      /\ w.phase = "forward" /\ \A t \in Slots : t # s => walk'[t] = walk[t]
      /\ Continues(w, walk'[s], top, w.rows \cup page) \/ Settles(w, walk'[s])
  BY DEF ForwardStores
<1>2. walk'[s].phase = "forward" /\ walk'[s].origin = w.origin
  BY <1>1 DEF Continues, Settles
<1>3. Held' = Held /\ Settled' = Settled /\ Have' = Have /\ AllGaps' = AllGaps /\ Intact' = Intact
  BY <1>1 DEF Held, Known, Settled, Pending, UpTo, Have, AllGaps, Intact
<1>4. \A t \in Slots : t # s => walk[t].phase = "none"
  BY <1>1, OtherSlot DEF OneWalk
<1>5. \A t \in Slots : ~Claims(walk[t])'
  BY <1>1, <1>2, <1>4 DEF Claims
<1>6. Anchors' \subseteq Anchors
  BY <1>1, <1>2, <1>3, <1>4 DEF Anchors
<1>7. \A p : Claimed(p)' => Claimed(p)
  BY <1>1, <1>5, <1>6 DEF Claimed
<1>8. \A p : Sure(p) => Sure(p)'
  BY <1>3 DEF Sure, Fresh
<1>9. Vouched'
  BY <1>3, <1>7, <1>8 DEF Answered, Vouched
<1>10. ~Idle /\ \A i \in 1..Len(queue) : UpTo(queue', i) = UpTo(queue, i)
  BY <1>1 DEF Idle, UpTo
<1>11. Freed'
  BY <1>1, <1>3, <1>10 DEF Answered, Freed, Fresh
<1> QED
  BY <1>9, <1>11 DEF Answered

\* A page of a forward walk that merges: one that reaches live answers from its
\* origin up, one that does not for what it leaves a gap over.
LEMMA ForwardAnswered ==
  ASSUME Basics, Grounds, Answered, Reaches, OneWalk,
         NEW s \in Slots, NEW page, NEW merging, NEW last, NEW complete, NEW top,
         ForwardStores(s, page, merging, last, complete, top)
  PROVE  Answered'
<1> DEFINE w    == walk[s]
           rows == w.rows \cup page
           next == AfterForwardPage(gaps, merging, w.origin, last, complete, Existing \cup merging)
<1>1. /\ w.phase = "forward" /\ w.origin \in 0..MaxPos /\ online
      /\ merging \subseteq Displayable /\ last \in 0..MaxPos /\ complete \in BOOLEAN /\ top \in Nat
      /\ complete => top >= live
      /\ ~complete => \A p \in merging : p <= top
      /\ \A t \in Slots : t # s => walk'[t] = walk[t]
      /\ \/ Continues(w, walk'[s], top, rows) /\ ~complete
         \/ Settles(w, walk'[s])
      /\ Proceeds(w, walk'[s], rows, complete)
      /\ UNCHANGED <<kind, live, seen, poisoned, lost, sessionStart>>
      /\ \/ StoresPage(s, merging, next) /\ Completed(complete, ResumedAt(w))
         \/ kind = "chat" /\ walk'[s].phase = "forward" /\ UNCHANGED <<gaps, queue, resident, mam, edge>>
  BY DEF ForwardStores
<1>2. ~poisoned => \A p \in Displayable : w.origin <= p /\ p <= top => p \in Settled \cup merging
  BY DEF ForwardStores
<1>3. /\ gaps \subseteq Gap /\ Existing \subseteq Displayable /\ kind \in {"chat", "room"}
      /\ \A q \in Displayable : q \in Nat
      /\ edge \in Nat /\ seen \in Nat /\ live \in Nat /\ sessionStart \in Nat /\ w.origin \in Nat
      /\ seen = live
  <2>1. /\ gaps \subseteq Gap /\ Existing \subseteq Displayable /\ kind \in {"chat", "room"}
        /\ \A q \in Displayable : q \in Nat
    BY NumberFacts, ExistingTypes, Displayed DEF Basics, Shape, TypeOK
  <2> QED
    BY <1>1, <2>1, ViewNumbers DEF Basics, Timely
<1>4. \A t \in Slots : t # s => walk[t].phase = "none" /\ walk'[t].phase = "none"
  BY <1>1, OtherSlot DEF OneWalk
<1>5. Intact' = Intact
  BY <1>1 DEF Intact
<1>6. CASE kind = "chat" /\ walk'[s].phase = "forward" /\ UNCHANGED <<gaps, queue, resident, mam, edge>>
  BY <1>6, ForwardKept
<1>7. CASE StoresPage(s, merging, next) /\ Completed(complete, ResumedAt(w))
  <2>1. Intact => Uncovers(merging, next)
    BY ForwardUncovers DEF Intact
  <2>2. Freed'
    <3>1. w.phase # "none"
      BY <1>1
    <3>2. CASE Intact
      <4> HIDE DEF next
      <4> QED
        BY <1>7, <2>1, <3>1, <3>2, StoreFreed DEF Answered
    <3>3. CASE ~Intact
      BY <1>5, <3>3 DEF Freed
    <3> QED
      BY <3>2, <3>3
  <2>3. Vouched'
    <3> SUFFICES ASSUME Intact', NEW p \in Displayable, Claimed(p)' PROVE Sure(p)'
      BY DEF Vouched
    <3>0. Intact /\ p \in Nat
      BY <1>3, <1>5
    <3>1. /\ mam'.caughtUp = complete
          /\ edge' = IF complete /\ ~mam.caughtUp THEN Most(edge, ResumedAt(w)) ELSE edge
      BY <1>7 DEF Completed
    <3>2. edge' < p /\ p <= seen
      BY <1>1 DEF Claimed
    <3>3. StoresPage(s, merging, next) /\ Uncovers(merging, next)
      BY <1>7, <2>1, <3>0
    <3>4. merging # {} => Newest(merging) \in merging
      BY ForwardedPage
    <3>5. \A h \in next : (\E g \in gaps : h.start = g.start) \/ (merging # {} /\ h.start = Newest(merging))
      <4>1. Existing \cup merging \subseteq Displayable
        BY <1>1, <1>3
      <4> QED
        BY <1>1, <1>3, <4>1, ForwardStarts
    <3>6. w.phase = "forward" => w.origin \in Anchors
      BY DEF Anchors
    <3>7. ASSUME ~complete, ~w.manual, kind = "chat" \/ w.rows = {}, edge < p, w.origin < p,
                 rows # {} \/ \E g \in gaps : g.start = w.origin
          PROVE  Sure(p)'
      <4>1. Intact /\ p <= seen /\ StoresPage(s, merging, next) /\ complete = FALSE
        BY <1>1, <3>0, <3>2, <3>3, <3>7
      <4> QED
        BY <3>7, <4>1, ForwardPast
    <3> HIDE DEF next, w, rows
    <3>8. Claimed(p) => Sure(p)'
      BY <3>0, <3>3, ClaimedSure
    <3>9. p \in Settled \cup merging => Sure(p)'
      BY <3>0, <3>3, PageSettles DEF Intact, Sure
    <3>10. CASE mam.caughtUp
      BY <3>1, <3>2, <3>8, <3>10 DEF Claimed
    <3>11. sessionStart > 0 /\ edge < p /\ p <= w.origin => Claimed(p)
      BY <1>1, <3>2, <3>6 DEF Claimed
    <3>12. CASE ~mam.caughtUp /\ complete
      <4>1. edge' = Most(edge, ResumedAt(w)) /\ ResumedAt(w) \in Nat
        BY <1>3, <3>1, <3>12 DEF ResumedAt
      <4>2. edge < p /\ ResumedAt(w) < p
        BY <1>3, <3>0, <3>2, <4>1 DEF Most
      <4>3. CASE w.origin <= p
        <5>1. p <= top
          BY <1>1, <1>3, <3>0, <3>2, <3>12
        <5> QED
          BY <1>2, <3>0, <3>9, <4>3, <5>1 DEF Intact
      <4>4. CASE p <= w.origin
        <5>1. sessionStart # 0
          BY <1>3, <3>0, <4>2, <4>4 DEF ResumedAt
        <5>2. sessionStart > 0
          BY <1>3, <5>1
        <5> QED
          BY <3>8, <3>11, <4>2, <4>4, <5>2
      <4> QED
        BY <1>3, <3>0, <4>3, <4>4
    <3>13. CASE ~mam.caughtUp /\ ~complete
      <4>1. mam'.caughtUp = FALSE /\ edge' = edge /\ edge < p
        BY <3>1, <3>2, <3>13
      <4>2. ASSUME sessionStart > 0, p <= top PROVE Sure(p)'
        <5>1. CASE w.origin <= p
          BY <1>2, <3>0, <3>9, <4>2, <5>1 DEF Intact
        <5>2. CASE p <= w.origin
          BY <3>8, <3>11, <4>1, <4>2, <5>2
        <5> QED
          BY <1>3, <3>0, <5>1, <5>2
      <4>3. ASSUME sessionStart > 0, NEW a \in Anchors', p <= a PROVE Sure(p)'
        <5>1. a \in Anchors \/ a \in merging
          <6>1. \A x \in Have' : x < sessionStart' => x \in Anchors \/ x \in merging
            <7>1. Have' \subseteq Have \cup merging
              BY <3>0, <3>3, PageSettles DEF Intact
            <7> QED
              BY <1>1, <7>1 DEF Anchors
          <6>2. \A h \in AllGaps' : h.start \in Anchors \/ h.start \in merging
            <7>1. AllGaps' \subseteq AllGaps \cup next
              BY <3>0, <3>3, PageSettles DEF Intact
            <7>2. gaps \subseteq AllGaps
              BY GapsOf DEF Basics
            <7>3. \A g \in AllGaps : g.start \in Anchors
              BY DEF Anchors
            <7> QED
              BY <3>4, <3>5, <7>1, <7>2, <7>3
          <6>3. \A t \in Slots : walk'[t].phase \in {"forward", "latest"} => walk'[t].origin \in Anchors
            <7>1. walk'[s].phase \in {"forward", "latest"} => walk'[s].origin = w.origin
              BY <1>1 DEF Continues, Settles, Proceeds
            <7> QED
              BY <1>1, <1>4, <3>6, <7>1
          <6> QED
            BY <6>1, <6>2, <6>3 DEF Anchors
        <5>2. CASE a \in Anchors
          BY <3>2, <3>8, <4>1, <4>3, <5>2 DEF Claimed
        <5>3. CASE a \in merging
          <6>1. a <= top /\ a \in Nat
            BY <1>1, <1>3, <3>13, <5>3
          <6>2. p <= top
            BY <1>1, <3>0, <4>3, <6>1
          <6> QED
            BY <4>2, <4>3, <6>2
        <5> QED
          BY <5>1, <5>2, <5>3
      <4>4. ASSUME NEW t \in Slots, Claims(walk[t])', walk'[t].origin < p PROVE Sure(p)'
        <5>1. t = s /\ walk'[s].phase \in {"forward", "latest"} /\ ~walk'[s].manual
          BY <1>4, <4>4 DEF Claims
        <5>2. /\ walk'[s].origin = w.origin /\ ~w.manual
              /\ walk'[s].phase = "forward" => walk'[s].rows = rows
          BY <1>1, <5>1 DEF Continues, Settles, Proceeds
        <5>3. rows # {} \/ \E g \in gaps : g.start = w.origin
          <6>1. CASE walk'[s].phase = "forward"
            BY <4>4, <5>1, <5>2, <6>1 DEF Claims
          <6>2. CASE walk'[s].phase = "latest"
            <7>1. ~walk'[s].loose
              BY <4>4, <5>1, <6>2 DEF Claims
            <7> QED
              BY <1>1, <6>2, <7>1 DEF Proceeds
          <6> QED
            BY <5>1, <6>1, <6>2
        <5>4. w.origin < p
          BY <4>4, <5>1, <5>2
        <5>5. CASE kind = "chat" \/ w.rows = {}
          BY <3>7, <3>13, <4>1, <5>2, <5>3, <5>4, <5>5
        <5>6. CASE kind = "room" /\ w.rows # {}
          <6>1. Claims(w)
            BY <1>1, <5>2, <5>6 DEF Claims
          <6>2. Claimed(p)
            BY <3>2, <4>1, <5>4, <6>1 DEF Claimed, w
          <6> QED
            BY <3>8, <6>2
        <5> QED
          BY <1>3, <5>5, <5>6
      <4> QED
        BY <1>1, <4>1, <4>3, <4>4 DEF Claimed
    <3> QED
      BY <1>1, <3>10, <3>12, <3>13
  <2> QED
    BY <2>2, <2>3 DEF Answered
<1> QED
  BY <1>1, <1>6, <1>7

\* At first nothing is claimed.
LEMMA InitAnswered == Init => Answered
<1> SUFFICES ASSUME Init PROVE Answered
  OBVIOUS
<1>1. Len(queue) = 0
  BY EmptySeq DEF Init
<1>2. \A i \in 1..Len(queue) : FALSE
  BY <1>1
<1>3. \A s \in Slots : walk[s].phase = "none"
  BY NoWalkOK DEF Init
<1>4. \A p : ~Claimed(p)
  BY <1>3 DEF Init, Claimed, Claims
<1> QED
  BY <1>2, <1>4 DEF Answered, Vouched, Freed

\* Every step keeps what is claimed sure, while walks do not overlap.
LEMMA StepAnswered ==
  ASSUME Basics, Bridges, Reaches, Grounds, Answered, OneWalk, [Next]_vars
  PROVE  Answered'
<1>1. CASE Plain
  BY <1>1, PlainAnswered
<1>2. CASE Starts
  BY <1>2, StartAnswered
<1>3. CASE WriteCommits
  BY <1>3, CommitAnswered
<1>4. CASE WriteFails
  BY <1>4, FailAnswered
<1>5. CASE Crash
  BY <1>5, CrashAnswered
<1>6. CASE Arrive \/ Resume
  BY <1>6, StreamAnswered
<1>7. ASSUME NEW s \in Slots, AnchorPurged(s) PROVE Answered'
  BY <1>7, AnchorAnswered
<1>8. ASSUME NEW s \in Slots, ForwardPage(s) PROVE Answered'
  BY <1>8, ForwardPageOf, ForwardAnswered
<1>9. ASSUME NEW s \in Slots, LatestPage(s) \/ SearchPage(s) PROVE Answered'
  BY <1>9, BackwardPageOf, BackwardAnswered
<1> QED
  BY <1>1, <1>2, <1>3, <1>4, <1>5, <1>6, <1>7, <1>8, <1>9, StepKinds

\* With nothing in flight and no walk under way, what is sure is held or in a
\* recorded gap.
LEMMA AnsweredAligned ==
  ASSUME Basics, Answered
  PROVE  AlignedFromEdge
<1> SUFFICES ASSUME mam.caughtUp, Drained, ~poisoned, ~lost,
                    NEW p \in Displayable, edge < p, p <= seen
             PROVE  Known(p) \/ p \in Covered(gaps)
  BY DEF AlignedFromEdge
<1>1. Len(queue) = 0
  BY EmptySeq DEF Drained
<1>2. Claimed(p)
  BY DEF Claimed
<1>3. Sure(p)
  BY <1>2 DEF Answered, Vouched, Intact
<1>4. Settled = Held
  BY <1>1, DrainedGaps DEF Settled, Basics
<1>5. \A i \in 1..Len(queue) : FALSE
  BY <1>1
<1> QED
  BY <1>3, <1>4, <1>5 DEF Sure, Held

-----------------------------------------------------------------------------
(* The theorems.                                                            *)

\* An entity that counts as caught up, with nothing in flight and no write
\* failed or lost, holds every message above the point its catch-up resumed
\* from, or has recorded the hole it is missing from, whatever page, write and
\* reload comes when, as long as the two walks of a conversation do not overlap
\* (mamCatchUpUtils.ts, archiveMerge.ts, MAM.ts).
THEOREM AlignedCorrect == Spec /\ [](kind = "chat" => OneWalk) => []AlignedFromEdge
<1> DEFINE Inv == Basics /\ RoomsOnce /\ Bridges /\ Reaches /\ Grounds /\ Answered
<1>1. Init => Inv
  BY InitBasics, InitRoomsOnce, InitBridges, InitGrounds, InitAnswered
<1>2. Basics /\ RoomsOnce /\ (kind = "chat" => OneWalk) => OneWalk
  BY NumberFacts DEF RoomsOnce, Basics, Shape, TypeOK
<1>3. ASSUME Inv, kind = "chat" => OneWalk, (kind = "chat" => OneWalk)', [Next]_vars
      PROVE  Inv'
  <2>1. Basics' /\ RoomsOnce'
    BY <1>3, StepBasics, StepRoomsOnce
  <2>2. OneWalk
    BY <1>2, <1>3
  <2>3. OneWalk'
    BY <1>3, <2>1, NumberFacts DEF RoomsOnce, Basics, Shape, TypeOK
  <2>4. Bridges' /\ Reaches'
    BY <1>3, <2>2, <2>3, StepBridges
  <2>5. Grounds' /\ Answered'
    BY <1>3, <2>2, StepGrounds, StepAnswered
  <2> QED
    BY <2>1, <2>4, <2>5
<1>4. (kind = "chat" => OneWalk) /\ (kind = "chat" => OneWalk)' /\ Inv /\ [Next]_vars => Inv'
  BY <1>3
<1>5. Inv => AlignedFromEdge
  BY AnsweredAligned
<1> QED
  BY <1>1, <1>4, <1>5, PTL DEF Spec, Safety

\* For rooms, whose walks never overlap, with no such hypothesis.
COROLLARY RoomAlignedCorrect == Spec /\ kind = "room" => []AlignedFromEdge
<1>1. kind = "room" /\ [Next]_vars => (kind = "room")'
  BY NextKind
<1>2. kind = "room" => (kind = "chat" => OneWalk)
  OBVIOUS
<1> QED
  BY <1>1, <1>2, AlignedCorrect, PTL DEF Spec, Safety
=============================================================================
