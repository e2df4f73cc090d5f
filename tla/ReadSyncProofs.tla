--------------------------- MODULE ReadSyncProofs ---------------------------
(***************************************************************************)
(* For any number of messages, any window, any queues and any scenario:    *)
(* what the publisher buffers is ordered behind the pointer, what the node *)
(* was heard to hold is never forgotten, and a read position is published  *)
(* or waits to be.  The inductive invariant says what the publisher's      *)
(* bookkeeping knows: lastKnownNodeStanzaId is what the server last told,  *)
(* the stream brings nothing older, and a pointer that counts as handled   *)
(* is on its way.                                                          *)
(***************************************************************************)
EXTENDS ReadSync, TLAPS, SequenceTheorems, WellFoundedInduction

Heads(t) == 1..Len(t)

\* What was decided on lies behind the pointer; only a pointer without an
\* archive id waits for the cache.
Behind ==
  /\ mark.ptr.named => mark.ptr.pos # 0
  /\ pub.dirty <= mark.ptr.pos /\ pub.handled.pos <= mark.ptr.pos
  /\ \A c \in InFlight : c <= mark.ptr.pos
  /\ \A i \in Heads(stream) : stream[i].type = "ack" => stream[i].pos <= mark.ptr.pos
  /\ reading.on => reading.ptr.pos <= mark.ptr.pos /\ ~reading.ptr.named

\* Before the store holds the entity nothing is read or published.
Routed ==
  /\ "bookmark" \notin events => known
  /\ known => pub.unrouted = 0
  /\ ~known => /\ mark.stash = 0 /\ ~pub.timer /\ pub.dirty = 0 /\ ~reading.on
               /\ InFlight = {}
               /\ \A i \in Heads(stream) : stream[i].type = "seed"

\* What a publisher p knows of a node at n, of which the server last told t and
\* will next say q, and that q brings nothing older.
Knows(p, t, n, q, gone) ==
  /\ p.sure \/ p.confirmed => p.last = t
  /\ p.revised => p.confirmed
  /\ ~gone =>
       /\ \A i \in Heads(q) : q[i].pos <= n
       /\ \A i, j \in Heads(q) : i <= j => q[i].pos <= q[j].pos
       /\ p.sure \/ p.confirmed => /\ p.last <= n
                                   /\ \A i \in Heads(q) : p.last <= q[i].pos

Aware == Knows(pub, told, node, stream, spoiled)

\* OnItsWay, of a publisher p that has sent s and will hear q.
Way(c, p, s, q) ==
  \/ c <= p.last
  \/ p.timer /\ c = p.dirty
  \/ \E i \in Heads(s) : s[i] = c /\ c # Seed
  \/ \E i \in Heads(q) : q[i] = Ack(c)

\* A session that knows the node: what is handled is on its way, and while the
\* cache is asked for a position that has lost its interest, a pass is owed.
Attended ==
  /\ pub.timer => pub.enabled /\ online
  /\ online /\ pub.enabled /\ pub.sure /\ ~spoiled /\ mark.ptr.named =>
       /\ pub.handled = mark.ptr => Way(mark.ptr.pos, pub, sent, stream)
       /\ reading.on => reading.owed

\* The one way to lose a marker: a connection lost before the bookmarks load.
Kept == {"bookmark", "drop"} \subseteq events \/ MarkerKept

\* TypeOK, of everything a consideration does not change.
EntityOK ==
  /\ events \in Scenarios
  /\ top \in 0..MaxPos /\ node \in 0..top
  /\ sent \in Seq(0..MaxPos) /\ stream \in Seq(Heard)
  /\ online \in BOOLEAN /\ resumable \in BOOLEAN /\ known \in BOOLEAN
  /\ cache \subseteq 1..top /\ unnamed \subseteq cache
  /\ active \in BOOLEAN /\ resident \subseteq cache
  /\ mam \in {"none", "loading", "error", "caughtUp"}
  /\ mark \in Mark /\ mark.ptr.pos <= top /\ mark.stash <= top
  /\ seed \in BOOLEAN /\ staleSeed \in BOOLEAN
  /\ drops \in 0..MaxDrops /\ told \in 0..MaxPos /\ spoiled \in BOOLEAN

\* The server told only of what is archived.
Archived ==
  /\ pub.last <= top /\ pub.unrouted <= top
  /\ \A i \in Heads(stream) : stream[i].pos <= top

IInv == TypeOK /\ Archived /\ Behind /\ Routed /\ Aware /\ Attended /\ Kept /\ ReadIsOnItsWay

-----------------------------------------------------------------------------
(* Newest messages.                                                        *)

LEMMA NewestOf ==
  ASSUME NEW ps, ps \subseteq Nat, ps # {}, NEW N \in Nat, \A q \in ps : q <= N
  PROVE  Newest(ps) \in ps /\ \A q \in ps : q <= Newest(ps)
<1> DEFINE Below == {N - q : q \in ps}
          Less  == OpToRel(<, Nat)
<1>2. IsWellFoundedOn(Less, Nat)
  BY NatLessThanWellFounded
<1>3. \A d, e \in Nat : d < e => <<d, e>> \in Less
  BY DEF OpToRel
<1> HIDE DEF Less
<1>1. Below \subseteq Nat /\ Below # {}
  <2>1. PICK q \in ps : N - q \in Below
    OBVIOUS
  <2> QED
    BY <2>1
<1> HIDE DEF Below
<1>4. PICK d \in Below : \A e \in Below : ~(<<e, d>> \in Less)
  BY <1>1, <1>2, WFMin
<1>5. ASSUME NEW e \in Below PROVE d <= e
  <2>1. d \in Nat /\ e \in Nat
    BY <1>1
  <2>2. ~(e < d)
    BY <2>1, <1>3, <1>4
  <2> QED
    BY <2>1, <2>2
<1>6. PICK p \in ps : d = N - p
  BY DEF Below
<1>7. ASSUME NEW q \in ps PROVE q <= p
  <2>1. d <= N - q
    BY <1>5 DEF Below
  <2> QED
    BY <1>6, <2>1, p \in Nat, q \in Nat
<1> QED
  BY <1>7 DEF Newest

LEMMA NewestIn ==
  ASSUME NEW N \in Nat, NEW ps, ps \subseteq 1..N
  PROVE  NewestOr0(ps) \in ps \cup {0} /\ NewestOr0(ps) \in 0..N
<1>1. CASE ps = {}
  BY <1>1 DEF NewestOr0
<1>2. CASE ps # {}
  <2>1. ps \subseteq Nat /\ \A q \in ps : q <= N
    OBVIOUS
  <2>2. Newest(ps) \in ps
    BY <1>2, <2>1, NewestOf
  <2>3. NewestOr0(ps) = Newest(ps)
    BY <1>2 DEF NewestOr0
  <2>4. Newest(ps) \in 1..N
    BY <2>2
  <2> QED
    BY <2>2, <2>3, <2>4
<1> QED
  BY <1>1, <1>2

-----------------------------------------------------------------------------
(* The tracker's operators.                                                *)

LEMMA AdvancedFields ==
  ASSUME NEW m \in Mark, NEW p \in 0..MaxPos, NEW named \in BOOLEAN
  PROVE  /\ Advanced(m, p, named) \in Mark
         /\ Advanced(m, p, named).stash = m.stash
         /\ Advanced(m, p, named).looking = m.looking
         /\ Advanced(m, p, named).folded = m.folded
         /\ Advanced(m, p, named).ptr = IF p > m.ptr.pos THEN At(p, named) ELSE m.ptr
BY ReadAssumption DEF Advanced, Mark, At, Pointer

\* A later pointer: it moved forward, onto a named message unless it says otherwise.
Later(n, m) ==
  /\ n.ptr = m.ptr \/ n.ptr.pos > m.ptr.pos
  /\ n.ptr.pos >= m.ptr.pos
  /\ (m.ptr.named => m.ptr.pos # 0) => (n.ptr.named => n.ptr.pos # 0)

LEMMA AdvancedLater ==
  ASSUME NEW m \in Mark, NEW p \in 0..MaxPos, NEW named \in BOOLEAN
  PROVE  Later(Advanced(m, p, named), m) /\ Advanced(m, p, named).ptr.pos \in {p, m.ptr.pos}
         /\ Advanced(m, p, named).ptr.pos >= p
<1>1. m.ptr.pos \in Nat
  BY ReadAssumption DEF Mark, Pointer
<1>2. CASE p > m.ptr.pos
  <2>1. Advanced(m, p, named).ptr = At(p, named)
    BY <1>2, AdvancedFields
  <2>2. At(p, named).pos = p /\ At(p, named).named = named
    BY DEF At
  <2> QED
    BY <1>1, <1>2, <2>1, <2>2 DEF Later
<1>3. CASE ~(p > m.ptr.pos)
  BY <1>1, <1>3, AdvancedFields DEF Later
<1> QED
  BY <1>2, <1>3

LEMMA Stashing ==
  ASSUME NEW m \in Mark, NEW s \in 0..MaxPos
  PROVE  LET n == [m EXCEPT !.stash = s] IN
         n \in Mark /\ n.ptr = m.ptr /\ n.stash = s /\ n.looking = m.looking /\ n.folded = m.folded
BY DEF Mark

LEMMA AppliedFields ==
  ASSUME NEW m \in Mark, NEW s \in 0..MaxPos, NEW rows, NEW override \in BOOLEAN
  PROVE  /\ Applied(m, s, rows, override) \in Mark
         /\ Later(Applied(m, s, rows, override), m)
         /\ Applied(m, s, rows, override).ptr.pos \in {s, m.ptr.pos}
         /\ Applied(m, s, rows, override).stash \in {0, s, m.stash}
         /\ s \in rows => /\ Applied(m, s, rows, override).ptr.pos >= s
                          /\ m.stash # s => Applied(m, s, rows, override).stash = m.stash
         /\ s \notin rows => /\ Applied(m, s, rows, override).stash = s
                             /\ Applied(m, s, rows, override).ptr = m.ptr
<1>1. CASE s \in rows
  <2> DEFINE a == Advanced(m, s, TRUE)
  <2>1. a \in Mark /\ a.stash = m.stash
    BY AdvancedFields
  <2>2. Later(a, m) /\ a.ptr.pos \in {s, m.ptr.pos} /\ a.ptr.pos >= s
    BY AdvancedLater
  <2> HIDE DEF a
  <2> DEFINE t == IF a.stash = s THEN 0 ELSE a.stash
  <2>3. Applied(m, s, rows, override) = [a EXCEPT !.stash = t]
    BY <1>1 DEF Applied, a
  <2>5. t \in 0..MaxPos
    <3>1. a.stash \in 0..MaxPos /\ 0 \in 0..MaxPos
      BY <2>1, ReadAssumption DEF Mark
    <3> QED
      BY <3>1
  <2> HIDE DEF t
  <2>4. /\ Applied(m, s, rows, override) \in Mark
        /\ Applied(m, s, rows, override).ptr = a.ptr
        /\ Applied(m, s, rows, override).stash = t
    BY <2>1, <2>3, <2>5, Stashing
  <2> QED
    BY <1>1, <2>1, <2>2, <2>4 DEF Later, t
<1>2. CASE s \notin rows
  <2>1. PICK l \in BOOLEAN : Applied(m, s, rows, override) = [m EXCEPT !.stash = s, !.looking = l]
    BY <1>2 DEF Applied, Mark
  <2>2. /\ Applied(m, s, rows, override) \in Mark
        /\ Applied(m, s, rows, override).ptr = m.ptr
        /\ Applied(m, s, rows, override).stash = s
    BY <2>1 DEF Mark
  <2>3. m.ptr.pos \in Nat
    BY ReadAssumption DEF Mark, Pointer
  <2> QED
    BY <1>2, <2>2, <2>3 DEF Later
<1> QED
  BY <1>1, <1>2


LEMMA AppliedStashes ==
  ASSUME NEW m \in Mark, NEW s \in 0..MaxPos
  PROVE  /\ Applied(m, s, {}, FALSE) \in Mark
         /\ Applied(m, s, {}, FALSE).ptr = m.ptr
         /\ Applied(m, s, {}, FALSE).stash = s
<1>1. Applied(m, s, {}, FALSE) = [m EXCEPT !.stash = s, !.looking = TRUE]
  BY DEF Applied, Mark
<1> QED
  BY <1>1 DEF Mark

\* A marker s is passed or stashed.
Tells(n, m, s) ==
  /\ n \in Mark /\ Later(n, m) /\ n.ptr.pos \in {s, m.ptr.pos}
  /\ n.stash \in {0, s, m.stash}
  /\ s <= n.ptr.pos \/ n.stash = s

LEMMA AppliedTells ==
  ASSUME NEW m \in Mark, NEW s \in 0..MaxPos, NEW rows, NEW override \in BOOLEAN
  PROVE  Tells(Applied(m, s, rows, override), m, s)
<1> DEFINE n == Applied(m, s, rows, override)
<1>1. /\ n \in Mark /\ Later(n, m) /\ n.ptr.pos \in {s, m.ptr.pos}
      /\ n.stash \in {0, s, m.stash}
      /\ s \in rows => n.ptr.pos >= s
      /\ s \notin rows => n.stash = s
  BY AppliedFields
<1> HIDE DEF n
<1>2. n.ptr.pos \in Nat /\ s \in Nat
  BY <1>1, ReadAssumption DEF Mark, Pointer
<1> QED
  BY <1>1, <1>2 DEF Tells, n

\* n settles m: its pointer moved at most to the stash, which is gone only then.
Settles(n, m) ==
  /\ n \in Mark /\ Later(n, m)
  /\ n.ptr.pos \in {m.ptr.pos, m.stash}
  /\ n.stash = m.stash \/ (n.stash = 0 /\ m.stash <= n.ptr.pos)

LEMMA AppliedSettles ==
  ASSUME NEW m \in Mark, NEW rows, NEW override \in BOOLEAN
  PROVE  Settles(Applied(m, m.stash, rows, override), m)
<1>1. m.stash \in 0..MaxPos
  BY DEF Mark
<1> DEFINE n == Applied(m, m.stash, rows, override)
<1>2. /\ n \in Mark /\ Later(n, m) /\ n.ptr.pos \in {m.ptr.pos, m.stash}
      /\ n.stash \in {0, m.stash}
      /\ m.stash \in rows => n.ptr.pos >= m.stash
      /\ m.stash \notin rows => n.stash = m.stash
  BY <1>1, AppliedFields
<1> HIDE DEF n
<1>3. n.ptr.pos \in Nat /\ m.stash \in Nat
  BY <1>1, <1>2, ReadAssumption DEF Mark, Pointer
<1> QED
  BY <1>2, <1>3 DEF Settles, n

LEMMA UnchangedSettles == ASSUME NEW m \in Mark PROVE Settles(m, m)
<1>1. m.ptr.pos \in Nat
  BY ReadAssumption DEF Mark, Pointer
<1> QED
  BY <1>1 DEF Settles, Later

LEMMA RetriedSettles ==
  ASSUME NEW m \in Mark, NEW rows PROVE Settles(Retried(m, rows), m)
BY AppliedSettles, UnchangedSettles DEF Retried

LEMMA Folding ==
  ASSUME NEW m \in Mark, NEW f \in 0..MaxPos
  PROVE  LET n == [m EXCEPT !.folded = f] IN
         n \in Mark /\ n.ptr = m.ptr /\ n.stash = m.stash
BY DEF Mark

LEMMA FoldedSettles ==
  ASSUME NEW m \in Mark, NEW rows PROVE Settles(Folded(m, rows), m)
<1> DEFINE n == Applied(m, m.stash, rows, FALSE)
<1>1. Settles(n, m)
  BY AppliedSettles
<1>2. n \in Mark /\ m.stash \in 0..MaxPos
  BY <1>1 DEF Settles, Mark
<1> HIDE DEF n
<1>3. Settles([n EXCEPT !.folded = m.stash], m)
  BY <1>1, <1>2, Folding DEF Settles, Later
<1>4. Folded(m, rows) \in {m, n, [n EXCEPT !.folded = m.stash]}
  BY DEF Folded, n
<1> QED
  BY <1>1, <1>3, <1>4, UnchangedSettles

LEMMA SettlesTwice ==
  ASSUME NEW m \in Mark, NEW n, NEW o, Settles(n, m), Settles(o, n)
  PROVE  Settles(o, m)
<1>1. /\ m.ptr.pos \in Nat /\ n.ptr.pos \in Nat /\ o.ptr.pos \in Nat
      /\ m.stash \in Nat /\ n.stash \in Nat
  BY ReadAssumption DEF Settles, Mark, Pointer
<1> QED
  BY <1>1 DEF Settles, Later

-----------------------------------------------------------------------------
(* The publisher's operators.                                              *)

\* q knows of the node what p does.
SameBook(q, p) ==
  /\ q.enabled = p.enabled /\ q.sure = p.sure /\ q.confirmed = p.confirmed
  /\ q.last = p.last /\ q.revised = p.revised /\ q.unrouted = p.unrouted

LEMMA NowherePointer == Nowhere \in Pointer /\ ~Nowhere.named /\ Nowhere.pos = 0
BY ReadAssumption DEF Nowhere, At, Pointer

LEMMA RecordedFields ==
  ASSUME NEW p \in Publisher, NEW s \in 0..MaxPos, seed \in BOOLEAN
  PROVE  LET q == Recorded(p, s) IN
         /\ q \in Publisher
         /\ q.enabled = p.enabled /\ q.sure = p.sure /\ q.confirmed /\ q.last = s
         /\ q.handled = p.handled /\ q.dirty = p.dirty /\ q.timer = p.timer
         /\ q.unrouted = p.unrouted
BY DEF Recorded, Publisher

LEMMA SeededFields ==
  ASSUME NEW p \in Publisher, NEW s \in 0..MaxPos, known \in BOOLEAN
  PROVE  LET q == Seeded(p, s) IN
         /\ q \in Publisher
         /\ q.enabled /\ q.sure /\ q.last = s /\ ~q.revised
         /\ q.handled = Nowhere /\ q.dirty = 0 /\ q.timer = p.timer
         /\ q.unrouted = IF known THEN 0 ELSE s
<1>1. 0 \in 0..MaxPos
  BY ReadAssumption
<1>2. p \in Publisher /\ Nowhere \in Pointer
  BY NowherePointer
<1> QED
  BY <1>1, <1>2 DEF Seeded, Publisher

LEMMA UnseededFields ==
  ASSUME NEW p \in Publisher
  PROVE  LET q == Unseeded(p) IN
         /\ q \in Publisher
         /\ q.enabled /\ q.sure = p.sure /\ q.confirmed = p.confirmed /\ q.last = p.last
         /\ q.revised = p.revised /\ q.unrouted = p.unrouted
         /\ q.handled = Nowhere /\ q.dirty = 0 /\ q.timer = p.timer
<1>1. 0 \in 0..MaxPos
  BY ReadAssumption
<1>2. p \in Publisher /\ Nowhere \in Pointer
  BY NowherePointer
<1> QED
  BY <1>1, <1>2 DEF Unseeded, Publisher

LEMMA ForgottenFields ==
  ASSUME NEW p \in Publisher
  PROVE  LET q == Forgotten(p) IN
         /\ q \in Publisher /\ SameBook(q, p)
         /\ q.handled = Nowhere /\ q.dirty = p.dirty /\ q.timer = p.timer
BY NowherePointer, ReadAssumption DEF Forgotten, Publisher, SameBook

LEMMA DecisionCases ==
  ASSUME NEW p \in Publisher, NEW c \in 0..MaxPos
  PROVE  Decision(p, c) \in {"retry", "skip", "publish"}
BY DEF Decision

LEMMA DecidedFields ==
  ASSUME NEW p \in Publisher, NEW c \in 0..MaxPos, mark' \in Mark
  PROVE  LET q == Decided(p, c) IN
         /\ q \in Publisher /\ SameBook(q, p)
         /\ Decision(p, c) = "retry" => q = p
         /\ Decision(p, c) = "skip" =>
              q.handled = mark'.ptr /\ q.dirty = p.dirty /\ q.timer = p.timer
         /\ Decision(p, c) = "publish" =>
              q.handled = mark'.ptr /\ q.dirty = c /\ q.timer
<1>1. mark'.ptr \in Pointer
  BY DEF Mark
<1>2. CASE Decision(p, c) = "retry"
  BY <1>2 DEF Decided, SameBook
<1>3. CASE Decision(p, c) = "skip"
  <2>1. Decided(p, c) = [p EXCEPT !.handled = mark'.ptr]
    BY <1>3 DEF Decided
  <2> QED
    BY <1>1, <1>3, <2>1 DEF SameBook, Publisher
<1>4. CASE Decision(p, c) = "publish"
  <2>1. Decided(p, c) = [p EXCEPT !.handled = mark'.ptr, !.dirty = c, !.timer = TRUE]
    BY <1>4 DEF Decided
  <2> QED
    BY <1>1, <1>4, <2>1 DEF SameBook, Publisher
<1> QED
  BY <1>2, <1>3, <1>4, DecisionCases

-----------------------------------------------------------------------------
(* A consideration.                                                        *)

LEMMA SplitType == TypeOK <=> EntityOK /\ pub \in Publisher /\ reading \in Reading
BY DEF TypeOK, EntityOK

LEMMA AtOrBehindIn ==
  ASSUME NEW N \in Nat, NEW rows, rows \subseteq 1..N, NEW p \in 0..N
  PROVE  AtOrBehind(rows, p) \in 0..p
<1> DEFINE near == {q \in rows \ unnamed' : q <= p}
<1>1. near \subseteq 1..N
  OBVIOUS
<1>2. NewestOr0(near) \in near \cup {0} /\ NewestOr0(near) \in 0..N
  BY <1>1, NewestIn
<1>3. AtOrBehind(rows, p) = NewestOr0(near)
  BY DEF AtOrBehind
<1>4. \A q \in near : q <= p
  OBVIOUS
<1> HIDE DEF near
<1> QED
  BY <1>2, <1>3, <1>4

LEMMA Tops ==
  ASSUME EntityOK
  PROVE  /\ top \in Nat /\ MaxPos \in Nat /\ top <= MaxPos
         /\ cache \subseteq 1..MaxPos /\ resident \subseteq 1..MaxPos
         /\ mark.ptr \in Pointer /\ mark.ptr.pos \in 0..MaxPos
<1>1. MaxPos \in Nat
  BY ReadAssumption
<1>2. top \in Nat /\ top <= MaxPos /\ cache \subseteq 1..top /\ resident \subseteq cache
  BY <1>1 DEF EntityOK
<1>3. mark.ptr \in Pointer
  BY DEF EntityOK, Mark
<1> QED
  BY <1>1, <1>2, <1>3 DEF Pointer

LEMMA WireTyped ==
  ASSUME EntityOK
  PROVE  /\ \A i \in Heads(sent) : sent[i] \in 0..MaxPos /\ sent[i] \in Nat
         /\ \A c \in InFlight : c \in 1..MaxPos /\ c \in Nat
         /\ \A i \in Heads(stream) : stream[i] \in Heard /\ stream[i].pos \in 0..MaxPos
                                   /\ stream[i].pos \in Nat
<1>1. sent \in Seq(0..MaxPos) /\ stream \in Seq(Heard) /\ MaxPos \in Nat
  BY Tops DEF EntityOK
<1>2. ASSUME NEW i \in Heads(sent) PROVE sent[i] \in 0..MaxPos /\ sent[i] \in Nat
  <2>1. sent[i] \in 0..MaxPos
    BY <1>1, ElementOfSeq DEF Heads
  <2> QED
    BY <1>1, <2>1
<1>3. ASSUME NEW c \in InFlight PROVE c \in 1..MaxPos /\ c \in Nat
  BY <1>1, <1>2 DEF InFlight, Heads, Seed
<1>4. ASSUME NEW i \in Heads(stream)
      PROVE  stream[i] \in Heard /\ stream[i].pos \in 0..MaxPos /\ stream[i].pos \in Nat
  <2>1. stream[i] \in Heard
    BY <1>1, ElementOfSeq DEF Heads
  <2> QED
    BY <1>1, <2>1 DEF Heard
<1> QED
  BY <1>2, <1>3, <1>4

LEMMA TopsNext ==
  ASSUME EntityOK'
  PROVE  /\ top' \in Nat /\ MaxPos \in Nat /\ top' <= MaxPos
         /\ cache' \subseteq 1..MaxPos /\ resident' \subseteq 1..MaxPos
         /\ mark' \in Mark /\ mark'.ptr \in Pointer /\ mark'.ptr.pos \in 0..MaxPos
<1>1. MaxPos \in Nat
  BY ReadAssumption
<1>2. top' \in Nat /\ top' <= MaxPos /\ cache' \subseteq 1..top' /\ resident' \subseteq cache'
  BY <1>1 DEF EntityOK
<1>3. mark' \in Mark
  BY DEF EntityOK
<1>4. mark'.ptr \in Pointer
  BY <1>3 DEF Mark
<1> QED
  BY <1>1, <1>2, <1>3, <1>4 DEF Pointer

LEMMA ResolvedBehind ==
  ASSUME EntityOK', NEW ptr \in Pointer
  PROVE  /\ ResolvedAtOnce(ptr) \in 0..ptr.pos
         /\ ptr.named => ResolvedAtOnce(ptr) = ptr.pos
         /\ ResolvedFromCache(ptr) \in 0..ptr.pos
<1>1. MaxPos \in Nat /\ cache' \subseteq 1..MaxPos /\ resident' \subseteq 1..MaxPos
  BY TopsNext
<1>2. ptr.pos \in 0..MaxPos /\ ptr.pos \in Nat
  BY <1>1 DEF Pointer
<1>3. AtOrBehind(resident', ptr.pos) \in 0..ptr.pos /\ AtOrBehind(cache', ptr.pos) \in 0..ptr.pos
  BY <1>1, <1>2, AtOrBehindIn
<1>4. 0 \in 0..ptr.pos /\ ptr.pos \in 0..ptr.pos
  BY <1>2
<1> QED
  BY <1>3, <1>4 DEF ResolvedAtOnce, ResolvedFromCache

\* The outcomes of a consideration: nothing to do, the cache is asked, c is
\* decided on, or a pass is owed.
Idle(p) ==
  /\ pub' = p /\ reading' = NoReading
  /\ p.enabled /\ online' /\ known' /\ Trustworthy => mark'.ptr \in {Nowhere, p.handled}

Asks(p) ==
  /\ pub' = p /\ known' /\ ~mark'.ptr.named
  /\ reading' = [on |-> TRUE, ptr |-> mark'.ptr, valid |-> TRUE, owed |-> FALSE]

Decides(p, c) ==
  /\ p.enabled /\ online' /\ known' /\ Trustworthy
  /\ 0 < c /\ c <= mark'.ptr.pos
  /\ mark'.ptr.named => c = mark'.ptr.pos
  /\ pub' = Decided(p, c) /\ reading' = NoReading

Owes(p) ==
  /\ reading.on /\ pub' = p
  /\ reading' = [reading EXCEPT !.owed = @ \/ p.enabled]

LEMMA PassCases ==
  ASSUME EntityOK', NEW p \in Publisher, Pass(p), mark'.ptr.named => mark'.ptr.pos # 0
  PROVE  Idle(p) \/ Asks(p) \/ \E c \in 1..MaxPos : Decides(p, c)
<1> DEFINE c == ResolvedAtOnce(mark'.ptr)
<1>1. /\ mark'.ptr \in Pointer /\ mark'.ptr.pos \in 0..MaxPos /\ MaxPos \in Nat
  BY TopsNext
<1>2. c \in 0..mark'.ptr.pos /\ (mark'.ptr.named => c = mark'.ptr.pos)
  BY <1>1, ResolvedBehind
<1>3. CASE ~(p.enabled /\ known' /\ Trustworthy /\ mark'.ptr \notin {Nowhere, p.handled})
  BY <1>3 DEF Pass, Idle
<1>4. CASE p.enabled /\ known' /\ Trustworthy /\ mark'.ptr \notin {Nowhere, p.handled}
  <2>1. CASE c = 0
    BY <1>2, <1>4, <2>1 DEF Pass, Asks
  <2>2. CASE c # 0 /\ online'
    <3>1. c \in 1..MaxPos /\ 0 < c /\ c <= mark'.ptr.pos
      BY <1>1, <1>2, <2>2
    <3>2. pub' = Decided(p, c) /\ reading' = NoReading
      BY <1>4, <2>2 DEF Pass
    <3> HIDE DEF c
    <3> QED
      BY <1>2, <1>4, <2>2, <3>1, <3>2 DEF Decides
  <2>3. CASE c # 0 /\ ~online'
    BY <1>4, <2>3 DEF Pass, Idle
  <2> QED
    BY <2>1, <2>2, <2>3
<1> QED
  BY <1>3, <1>4

LEMMA ConsiderCases ==
  ASSUME EntityOK', NEW p \in Publisher, Consider(p), mark'.ptr.named => mark'.ptr.pos # 0
  PROVE  Idle(p) \/ Asks(p) \/ Owes(p) \/ \E c \in 1..MaxPos : Decides(p, c)
BY PassCases DEF Consider, Owes

LEMMA Asking ==
  ASSUME NEW ptr \in Pointer
  PROVE  LET r == [on |-> TRUE, ptr |-> ptr, valid |-> TRUE, owed |-> FALSE] IN
         r \in Reading /\ r.on /\ r.ptr = ptr /\ ~r.owed
BY DEF Reading

LEMMA Owing ==
  ASSUME NEW r \in Reading, NEW b \in BOOLEAN
  PROVE  LET q == [r EXCEPT !.owed = @ \/ b] IN
         q \in Reading /\ q.on = r.on /\ q.ptr = r.ptr /\ q.valid = r.valid /\ (q.owed <=> r.owed \/ b)
BY DEF Reading

LEMMA NotReading == NoReading \in Reading /\ ~NoReading.on
BY NowherePointer DEF NoReading, Reading

\* What a consideration of p may have done to the publisher and its resolution.
Considered(p) ==
  /\ pub' \in Publisher /\ reading' \in Reading
  /\ SameBook(pub', p)
  /\ \/ pub'.dirty = p.dirty
     \/ known' /\ 0 < pub'.dirty /\ pub'.dirty <= mark'.ptr.pos
  /\ pub'.handled \in {p.handled, mark'.ptr}
  /\ pub'.timer => p.timer \/ (p.enabled /\ online' /\ known')
  /\ reading'.on => \/ reading.on /\ reading'.ptr = reading.ptr
                    \/ known' /\ reading'.ptr = mark'.ptr /\ ~mark'.ptr.named

LEMMA Consideration ==
  ASSUME EntityOK', NEW p \in Publisher, reading \in Reading,
         Idle(p) \/ Asks(p) \/ Owes(p) \/ \E c \in 1..MaxPos : Decides(p, c)
  PROVE  Considered(p)
<1>1. CASE Idle(p)
  BY <1>1, NotReading DEF Idle, Considered, SameBook
<1>2. CASE Asks(p)
  <2>1. mark'.ptr \in Pointer
    BY TopsNext
  <2>2. reading' \in Reading /\ reading'.on /\ reading'.ptr = mark'.ptr
    BY <1>2, <2>1, Asking DEF Asks
  <2> QED
    BY <1>2, <2>2 DEF Asks, Considered, SameBook
<1>3. CASE Owes(p)
  <2>1. p.enabled \in BOOLEAN
    BY DEF Publisher
  <2>2. reading' \in Reading /\ reading'.ptr = reading.ptr
    BY <1>3, <2>1, Owing DEF Owes
  <2> QED
    BY <1>3, <2>2 DEF Owes, Considered, SameBook
<1>4. ASSUME NEW c \in 1..MaxPos, Decides(p, c)
      PROVE  Considered(p)
  <2>1. mark' \in Mark /\ c \in 0..MaxPos /\ MaxPos \in Nat
    BY TopsNext
  <2>2. /\ pub' \in Publisher /\ SameBook(pub', p)
        /\ pub'.dirty \in {p.dirty, c} /\ pub'.handled \in {p.handled, mark'.ptr}
    BY <1>4, <2>1, DecidedFields, DecisionCases DEF Decides
  <2> QED
    BY <1>4, <2>2, NotReading DEF Decides, Considered
<1> QED
  BY <1>1, <1>2, <1>3, <1>4

LEMMA ConsiderKeepsType ==
  ASSUME EntityOK', NEW p \in Publisher, reading \in Reading, Consider(p),
         mark'.ptr.named => mark'.ptr.pos # 0
  PROVE  Considered(p)
BY ConsiderCases, Consideration

\* ReadIsOnItsWay, after a step and before it.
LEMMA OnItsWayNext ==
  ASSUME online' /\ known' /\ pub'.enabled /\ pub'.sure /\ mam' \in {"none", "caughtUp"}
           /\ mark'.ptr.named /\ mark'.stash = 0 /\ ~spoiled'
         => reading'.on \/ Way(mark'.ptr.pos, pub', sent', stream')
  PROVE  ReadIsOnItsWay'
BY DEF ReadIsOnItsWay, OnItsWay, Way, InFlight, Heads

LEMMA OnItsWayNow ==
  ASSUME ReadIsOnItsWay, online, known, pub.enabled, pub.sure, mam \in {"none", "caughtUp"},
         mark.ptr.named, mark.stash = 0, ~spoiled, ~reading.on
  PROVE  Way(mark.ptr.pos, pub, sent, stream)
BY DEF ReadIsOnItsWay, OnItsWay, Way, InFlight, Heads

\* What Decision compares.
LEMMA Deciding ==
  ASSUME NEW p \in Publisher, NEW c \in 1..MaxPos
  PROVE  /\ Decision(p, c) = "skip" => c <= p.last
         /\ Decision(p, c) = "retry" /\ p.sure => mark'.stash = p.last /\ p.last # 0
         /\ Decision(p, c) = "publish" =>
              /\ p.sure \/ p.confirmed
              /\ \/ p.last = 0
                 \/ p.last < c
                 \/ mark'.stash # p.last /\ ~({c, p.last} \subseteq resident' \ unnamed')
<1>1. p.last \in 0..MaxPos /\ p.last \in Nat /\ c \in Nat
  BY ReadAssumption DEF Publisher
<1> QED
  BY <1>1 DEF Decision

\* A decision leaves the pointer it is about on its way, or to be looked at again.
LEMMA DecidedWay ==
  ASSUME NEW p \in Publisher, NEW c \in 1..MaxPos, mark' \in Mark
  PROVE  LET q == Decided(p, c) IN
         \/ q = p /\ (p.sure => mark'.stash = p.last /\ p.last # 0)
         \/ q.handled = mark'.ptr /\ \A s, t : Way(c, q, s, t)
<1> DEFINE q == Decided(p, c)
<1>1. c \in 0..MaxPos /\ c \in Nat /\ p.last \in Nat
  BY ReadAssumption DEF Publisher
<1>2. CASE Decision(p, c) = "retry"
  BY <1>1, <1>2, DecidedFields, Deciding
<1>3. CASE Decision(p, c) = "skip"
  <2>1. q.handled = mark'.ptr /\ q.last = p.last
    BY <1>1, <1>3, DecidedFields DEF SameBook
  <2>2. c <= q.last
    BY <1>3, <2>1, Deciding
  <2> HIDE DEF q
  <2>3. \A s, t : Way(c, q, s, t)
    BY <2>2 DEF Way
  <2> QED
    BY <2>1, <2>3 DEF q
<1>4. CASE Decision(p, c) = "publish"
  <2>1. q.handled = mark'.ptr /\ q.dirty = c /\ q.timer
    BY <1>1, <1>4, DecidedFields
  <2> HIDE DEF q
  <2>2. \A s, t : Way(c, q, s, t)
    BY <2>1 DEF Way
  <2> QED
    BY <2>1, <2>2 DEF q
<1> QED
  BY <1>1, <1>2, <1>3, <1>4, DecisionCases

LEMMA ConsiderAttends ==
  ASSUME EntityOK', NEW p \in Publisher, reading \in Reading,
         Idle(p) \/ Asks(p) \/ Owes(p) \/ \E c \in 1..MaxPos : Decides(p, c),
         p.timer => p.enabled /\ online',
         online' /\ p.enabled /\ p.sure /\ ~spoiled' /\ mark'.ptr.named
           /\ p.handled = mark'.ptr => Way(mark'.ptr.pos, p, sent', stream')
  PROVE  Attended' /\ ReadIsOnItsWay'
<1>0. /\ mark' \in Mark /\ mark'.ptr.pos \in Nat
      /\ Considered(p)
  BY TopsNext, Consideration
<1>1. pub'.timer => pub'.enabled /\ online'
  BY <1>0 DEF Considered, SameBook
<1>2. CASE Idle(p)
  <2>1. reading' = NoReading /\ ~reading'.on /\ pub' = p
    BY <1>2, NotReading DEF Idle
  <2>2. ReadIsOnItsWay'
    <3>1. ASSUME online', known', pub'.enabled, mam' \in {"none", "caughtUp"}, mark'.ptr.named
          PROVE  mark'.ptr = p.handled
      BY <1>2, <2>1, <3>1, NowherePointer DEF Idle, Trustworthy
    <3>2. ASSUME online', known', pub'.enabled, pub'.sure, mam' \in {"none", "caughtUp"},
                 mark'.ptr.named, ~spoiled'
          PROVE  Way(mark'.ptr.pos, pub', sent', stream')
      BY <2>1, <3>1, <3>2
    <3> QED
      BY <3>2, OnItsWayNext
  <2> QED
    BY <1>1, <2>1, <2>2 DEF Attended
<1>3. CASE Asks(p)
  <2>1. ~mark'.ptr.named
    BY <1>3 DEF Asks
  <2> QED
    BY <1>1, <2>1 DEF Attended, ReadIsOnItsWay
<1>4. CASE Owes(p)
  <2>1. p.enabled \in BOOLEAN
    BY DEF Publisher
  <2>2. reading'.on /\ (reading'.owed <=> reading.owed \/ p.enabled) /\ pub' = p
    BY <1>4, <2>1, Owing DEF Owes
  <2> QED
    BY <1>1, <2>2 DEF Attended, ReadIsOnItsWay
<1>5. ASSUME NEW c \in 1..MaxPos, Decides(p, c)
      PROVE  Attended' /\ ReadIsOnItsWay'
  <2>1. /\ reading' = NoReading /\ ~reading'.on /\ pub' = Decided(p, c)
        /\ mark'.ptr.named => c = mark'.ptr.pos
    BY <1>5, NotReading DEF Decides
  <2>2. SameBook(pub', p)
    BY <1>0 DEF Considered
  <2>3. CASE pub' = p /\ (p.sure => mark'.stash = p.last /\ p.last # 0)
    <3>1. ~(pub'.sure /\ mark'.stash = 0)
      BY <2>3
    <3>2. ReadIsOnItsWay'
      BY <3>1, OnItsWayNext
    <3> QED
      BY <1>1, <2>1, <2>3, <3>2 DEF Attended
  <2>4. CASE \A s, t : Way(c, pub', s, t)
    <3>1. ASSUME mark'.ptr.named PROVE Way(mark'.ptr.pos, pub', sent', stream')
      <4>1. Way(c, pub', sent', stream')
        BY <2>4
      <4> QED
        BY <2>1, <3>1, <4>1
    <3>2. ReadIsOnItsWay'
      BY <3>1, OnItsWayNext
    <3> QED
      BY <1>1, <2>1, <3>1, <3>2 DEF Attended
  <2> QED
    BY <1>0, <2>1, <2>3, <2>4, DecidedWay
<1> QED
  BY <1>2, <1>3, <1>4, <1>5

-----------------------------------------------------------------------------
(* A step that ends in a consideration of p keeps the rest of the invariant. *)

LEMMA ConsiderBehind ==
  ASSUME NEW p \in Publisher, Considered(p), EntityOK',
         mark'.ptr.named => mark'.ptr.pos # 0,
         p.dirty <= mark'.ptr.pos, p.handled.pos <= mark'.ptr.pos,
         \A c \in InFlight' : c <= mark'.ptr.pos,
         \A i \in Heads(stream') : stream'[i].type = "ack" => stream'[i].pos <= mark'.ptr.pos,
         reading.on => reading.ptr.pos <= mark'.ptr.pos /\ ~reading.ptr.named
  PROVE  Behind'
<1>1. mark'.ptr.pos \in Nat /\ MaxPos \in Nat
  BY TopsNext
<1>2. pub'.dirty <= mark'.ptr.pos /\ pub'.handled.pos <= mark'.ptr.pos
  BY <1>1 DEF Considered
<1>3. reading'.on => reading'.ptr.pos <= mark'.ptr.pos /\ ~reading'.ptr.named
  BY <1>1 DEF Considered
<1> QED
  BY <1>2, <1>3 DEF Behind

LEMMA ConsiderRouted ==
  ASSUME NEW p \in Publisher, Considered(p),
         "bookmark" \notin events' => known', known' => p.unrouted = 0,
         ~known' => /\ mark'.stash = 0 /\ ~p.timer /\ p.dirty = 0 /\ ~reading.on
                    /\ InFlight' = {}
                    /\ \A i \in Heads(stream') : stream'[i].type = "seed"
  PROVE  Routed'
BY DEF Considered, SameBook, Routed

LEMMA ConsiderArchived ==
  ASSUME NEW p \in Publisher, Considered(p), p.last <= top', p.unrouted <= top',
         \A i \in Heads(stream') : stream'[i].pos <= top'
  PROVE  Archived'
BY DEF Considered, SameBook, Archived

LEMMA SameKnows ==
  ASSUME NEW p, NEW q, SameBook(q, p), NEW t, NEW n, NEW s, NEW gone, Knows(p, t, n, s, gone)
  PROVE  Knows(q, t, n, s, gone)
BY DEF SameBook, Knows

LEMMA ConsiderAware ==
  ASSUME NEW p \in Publisher, Considered(p), Knows(p, told', node', stream', spoiled')
  PROVE  Aware'
<1>1. SameBook(pub', p)
  BY DEF Considered
<1>2. Knows(pub', told', node', stream', spoiled')
  BY <1>1, SameKnows
<1> QED
  BY <1>2 DEF Aware

\* n keeps the stash of m until its pointer has passed it.
Keeps(n, m) ==
  /\ Later(n, m)
  /\ n.stash = m.stash \/ (n.stash = 0 /\ m.stash <= n.ptr.pos)

LEMMA KeepsMarker ==
  ASSUME TypeOK, EntityOK', Kept, Keeps(mark', mark), told' = told, events' = events,
         pub'.unrouted = pub.unrouted
  PROVE  Kept'
<1>1. mark.ptr.pos \in Nat /\ mark'.ptr.pos \in Nat /\ told \in Nat
  <2>1. EntityOK
    BY SplitType
  <2> QED
    BY <2>1, Tops, TopsNext DEF EntityOK
<1> QED
  BY <1>1 DEF Kept, MarkerKept, Keeps, Later

\* What happens to the entity and its pointer.
LEMMA EntityStep ==
  ASSUME IInv, UNCHANGED entityUnchanged, EntityOK', Keeps(mark', mark), known' = known,
         top' \in {top, top + 1}, Consider(pub)
  PROVE  IInv'
<1>1. /\ EntityOK /\ pub \in Publisher /\ reading \in Reading
      /\ Archived /\ Behind /\ Routed /\ Aware /\ Attended /\ Kept /\ ReadIsOnItsWay
  BY SplitType DEF IInv
<1>2. UNCHANGED <<events, node, sent, stream, online, told, spoiled>>
  BY DEF entityUnchanged, wire, session, history
<1>3. /\ mark.ptr.pos \in Nat /\ mark'.ptr.pos \in Nat /\ mark.ptr.pos <= mark'.ptr.pos
      /\ MaxPos \in Nat
  BY <1>1, Tops, TopsNext DEF Keeps, Later
<1>4. mark'.ptr.named => mark'.ptr.pos # 0
  BY <1>1 DEF Keeps, Later, Behind
<1>5. Considered(pub)
  BY <1>1, <1>4, ConsiderKeepsType
<1>6. TypeOK'
  <2>1. pub' \in Publisher /\ reading' \in Reading
    BY <1>5 DEF Considered
  <2> QED
    BY <2>1 DEF TypeOK, EntityOK
<1>7. Behind'
  <2>1. pub.dirty \in Nat /\ pub.handled.pos \in Nat /\ reading.ptr.pos \in Nat
    BY <1>1, <1>3 DEF Publisher, Reading, Pointer
  <2>2. \A c \in InFlight' : c <= mark'.ptr.pos
    <3>1. InFlight' = InFlight
      BY <1>2 DEF InFlight
    <3>2. \A c \in InFlight : c \in Nat
      BY <1>1, WireTyped
    <3> QED
      BY <1>1, <1>3, <3>1, <3>2 DEF Behind
  <2>3. \A i \in Heads(stream') : stream'[i].type = "ack" => stream'[i].pos <= mark'.ptr.pos
    <3>1. \A i \in Heads(stream) : stream[i].pos \in Nat
      BY <1>1, WireTyped
    <3> QED
      BY <1>1, <1>2, <1>3, <3>1 DEF Behind
  <2> QED
    BY <1>1, <1>3, <1>4, <1>5, <2>1, <2>2, <2>3, ConsiderBehind DEF Behind
<1>8. Routed'
  <2>1. ~known' => mark'.stash = 0
    BY <1>1 DEF Routed, Keeps
  <2>2. InFlight' = InFlight
    BY <1>2 DEF InFlight
  <2> QED
    BY <1>1, <1>2, <1>5, <2>1, <2>2, ConsiderRouted DEF Routed
<1>9. Aware'
  BY <1>1, <1>2, <1>5, ConsiderAware DEF Aware
<1>10. Kept'
  BY <1>1, <1>2, <1>5, KeepsMarker DEF Considered, SameBook, IInv
<1>11. Attended' /\ ReadIsOnItsWay'
  <2>1. ASSUME online', pub.enabled, pub.sure, ~spoiled', mark'.ptr.named, pub.handled = mark'.ptr
        PROVE  Way(mark'.ptr.pos, pub, sent', stream')
    <3>1. mark'.ptr = mark.ptr
      BY <1>1, <1>3, <2>1 DEF Keeps, Later, Behind
    <3> QED
      BY <1>1, <1>2, <2>1, <3>1 DEF Attended
  <2>2. pub.timer => pub.enabled /\ online'
    BY <1>1, <1>2 DEF Attended
  <2> QED
    BY <1>1, <1>4, <2>1, <2>2, ConsiderCases, ConsiderAttends
<1>12. Archived'
  <2>1. /\ top \in Nat /\ top' \in Nat /\ top <= top'
        /\ pub.last \in Nat /\ pub.unrouted \in Nat
        /\ \A i \in Heads(stream) : stream[i].pos \in Nat
    BY <1>1, <1>3, Tops, WireTyped DEF Publisher
  <2>2. pub.last <= top' /\ pub.unrouted <= top' /\ \A i \in Heads(stream') : stream'[i].pos <= top'
    BY <1>1, <1>2, <2>1 DEF Archived
  <2> QED
    BY <1>1, <1>5, <2>2, ConsiderArchived
<1> QED
  BY <1>6, <1>7, <1>8, <1>9, <1>10, <1>11, <1>12 DEF IInv

-----------------------------------------------------------------------------
(* The entity's actions.                                                   *)

LEMMA KeepsSame == ASSUME NEW m \in Mark PROVE Keeps(m, m)
<1>1. m.ptr.pos \in Nat
  BY ReadAssumption DEF Mark, Pointer
<1> QED
  BY <1>1 DEF Keeps, Later

LEMMA KeepsAdvanced ==
  ASSUME NEW m \in Mark, NEW p \in 0..MaxPos, NEW named \in BOOLEAN
  PROVE  Keeps(Advanced(m, p, named), m)
BY AdvancedFields, AdvancedLater DEF Keeps

LEMMA SettlesKeeps == ASSUME NEW m, NEW n, Settles(n, m) PROVE Keeps(n, m)
BY DEF Settles, Keeps

LEMMA SettledTyped ==
  ASSUME EntityOK, Settles(mark', mark), top' = top
  PROVE  mark' \in Mark /\ mark'.ptr.pos <= top' /\ mark'.stash <= top'
<1>1. top \in Nat /\ mark.ptr.pos <= top /\ mark.stash <= top
  BY Tops DEF EntityOK
<1> QED
  BY <1>1 DEF Settles

LEMMA AdvancedTyped ==
  ASSUME EntityOK, NEW p \in 0..MaxPos, NEW named \in BOOLEAN, mark' = Advanced(mark, p, named),
         top' \in Nat, p <= top', top <= top'
  PROVE  /\ mark' \in Mark /\ mark'.ptr.pos <= top' /\ mark'.stash <= top'
         /\ Keeps(mark', mark)
<1>1. top \in Nat /\ mark.ptr.pos <= top /\ mark.stash <= top /\ mark \in Mark /\ MaxPos \in Nat
  BY Tops DEF EntityOK
<1>2. mark.stash \in Nat /\ mark.ptr.pos \in Nat
  BY <1>1 DEF Mark, Pointer
<1>3. mark' \in Mark /\ mark'.stash = mark.stash
  BY <1>1, AdvancedFields
<1>4. mark'.ptr.pos \in {p, mark.ptr.pos}
  BY <1>1, AdvancedLater
<1>5. Keeps(mark', mark)
  BY <1>1, KeepsAdvanced
<1> QED
  BY <1>1, <1>2, <1>3, <1>4, <1>5

LEMMA NewestRowsIn == ASSUME NEW ps PROVE NewestRows(ps) \subseteq ps
BY DEF NewestRows

LEMMA Held ==
  ASSUME EntityOK PROVE NewestHeld \in 0..top
<1>1. top \in Nat /\ resident \subseteq 1..top /\ cache \subseteq 1..top
  BY Tops DEF EntityOK
<1>2. CASE resident = {}
  <2>1. NewestOr0(cache) \in 0..top
    BY <1>1, NewestIn
  <2> QED
    BY <1>2, <2>1 DEF NewestHeld
<1>3. CASE resident # {}
  <2>1. NewestOr0(resident) \in 0..top /\ NewestOr0(resident) = Newest(resident)
    BY <1>1, <1>3, NewestIn DEF NewestOr0
  <2> QED
    BY <1>3, <2>1 DEF NewestHeld
<1> QED
  BY <1>2, <1>3

\* A step that leaves the archive and the messages in memory alone.
LEMMA PointerStep ==
  ASSUME IInv, UNCHANGED <<entityUnchanged, top, known, archive, view>>,
         mam' \in {"none", "loading", "error", "caughtUp"},
         mark' \in Mark, mark'.ptr.pos <= top, mark'.stash <= top, Keeps(mark', mark),
         Consider(pub)
  PROVE  IInv'
<1>1. EntityOK
  BY SplitType DEF IInv
<1>2. EntityOK'
  BY <1>1 DEF EntityOK, entityUnchanged, archive, view, wire, session, seeds, history
<1> QED
  BY <1>2, EntityStep

LEMMA MessageStep ==
  ASSUME IInv, UNCHANGED <<entityUnchanged, known, active, mam>>, NEW named \in BOOLEAN,
         top < MaxPos, top' = top + 1, Add(top + 1, named), Consider(pub)
  PROVE  IInv'
<1>1. EntityOK
  BY SplitType DEF IInv
<1>2. /\ top \in Nat /\ top' \in Nat /\ top' \in 0..MaxPos /\ top + 1 \in 0..MaxPos
      /\ mark \in Mark /\ mark.ptr.pos <= top' /\ mark.stash <= top'
      /\ node \in 0..top'
  <2>1. top \in Nat /\ MaxPos \in Nat /\ mark \in Mark /\ mark.ptr.pos <= top /\ mark.stash <= top
        /\ node \in 0..top /\ mark.ptr.pos \in Nat
    BY <1>1, Tops DEF EntityOK
  <2>2. mark.stash \in Nat
    BY <2>1 DEF Mark
  <2> QED
    BY <2>1, <2>2
<1>3. cache' \subseteq 1..top' /\ unnamed' \subseteq cache' /\ resident' \subseteq cache'
  <2>1. cache \subseteq 1..top /\ unnamed \subseteq cache /\ resident \subseteq cache
    BY <1>1 DEF EntityOK
  <2>2. cache' = cache \cup {top + 1} /\ unnamed' \subseteq unnamed \cup {top + 1}
    BY DEF Add
  <2>3. resident' \subseteq resident \cup {top + 1}
    BY NewestRowsIn DEF Add
  <2> QED
    BY <1>2, <2>1, <2>2, <2>3
<1>4. mark' \in Mark /\ mark'.ptr.pos <= top' /\ mark'.stash <= top' /\ Keeps(mark', mark)
  <2>1. mark' = mark \/ mark' = Advanced(mark, top + 1, named)
    BY DEF Add
  <2> QED
    BY <1>1, <1>2, <2>1, AdvancedTyped, KeepsSame
<1>5. EntityOK'
  BY <1>1, <1>2, <1>3, <1>4 DEF EntityOK, entityUnchanged, wire, session, seeds, history
<1> QED
  BY <1>4, <1>5, EntityStep

LEMMA ArriveStep == ASSUME IInv, Arrive PROVE IInv'
BY MessageStep DEF Arrive

LEMMA SendStep == ASSUME IInv, Send PROVE IInv'
BY MessageStep DEF Send

LEMMA MarkTyped ==
  ASSUME IInv
  PROVE  /\ EntityOK /\ mark \in Mark /\ mark.ptr.pos <= top /\ mark.stash <= top
         /\ mark.stash \in 0..MaxPos /\ Keeps(mark, mark)
<1>1. EntityOK
  BY SplitType DEF IInv
<1>2. mark \in Mark /\ mark.ptr.pos <= top /\ mark.stash <= top
  BY <1>1 DEF EntityOK
<1> QED
  BY <1>1, <1>2, KeepsSame DEF Mark

LEMMA EchoStep == ASSUME IInv, Echo PROVE IInv'
<1>1. EntityOK' /\ Keeps(mark', mark)
  BY MarkTyped DEF Echo, EntityOK, entityUnchanged, view, wire, session, seeds, history
<1> QED
  BY <1>1, EntityStep DEF Echo

LEMMA ReadStep == ASSUME IInv, Read PROVE IInv'
<1>1. EntityOK
  BY MarkTyped
<1>2. PICK p \in resident : mark' = Advanced(mark, p, p \notin unnamed)
  BY DEF Read
<1>3. p \in 0..MaxPos /\ p <= top /\ top' \in Nat /\ top <= top' /\ top' = top
  BY <1>1, Tops DEF Read, EntityOK
<1>4. mark' \in Mark /\ mark'.ptr.pos <= top /\ mark'.stash <= top /\ Keeps(mark', mark)
  BY <1>1, <1>2, <1>3, AdvancedTyped
<1> QED
  BY <1>1, <1>4, PointerStep DEF Read, EntityOK

LEMMA MarkReadStep == ASSUME IInv, MarkRead PROVE IInv'
<1>1. EntityOK
  BY MarkTyped
<1>2. NewestHeld \in 0..MaxPos /\ NewestHeld <= top /\ top' \in Nat /\ top <= top' /\ top' = top
  BY <1>1, Tops, Held DEF MarkRead
<1>3. mark' \in Mark /\ mark'.ptr.pos <= top /\ mark'.stash <= top /\ Keeps(mark', mark)
  BY <1>1, <1>2, AdvancedTyped DEF MarkRead
<1> QED
  BY <1>1, <1>3, PointerStep DEF MarkRead, EntityOK

LEMMA ScrollStep == ASSUME IInv, Scroll PROVE IInv'
<1>1. EntityOK /\ Keeps(mark', mark)
  BY MarkTyped DEF Scroll
<1>2. resident' \subseteq cache'
  BY DEF Scroll, Windows, archive
<1>3. EntityOK'
  BY <1>1, <1>2 DEF Scroll, EntityOK, entityUnchanged, archive, wire, session, seeds, history
<1> QED
  BY <1>1, <1>3, EntityStep DEF Scroll

LEMMA ActivateStep == ASSUME IInv, Activate PROVE IInv'
<1>1. EntityOK /\ mark \in Mark /\ top' = top
  BY MarkTyped DEF Activate
<1> DEFINE first == Folded(mark, NewestRows(cache) \ unnamed)
<1>2. Settles(first, mark)
  BY <1>1, FoldedSettles
<1>3. resident' \subseteq cache /\ (mark' = first \/ mark' = Folded(first, resident' \ unnamed))
  BY NewestRowsIn DEF Activate, Windows
<1> HIDE DEF first
<1>4. Settles(mark', mark)
  BY <1>1, <1>2, <1>3, FoldedSettles, SettlesTwice DEF Settles
<1>5. Keeps(mark', mark) /\ mark' \in Mark /\ mark'.ptr.pos <= top' /\ mark'.stash <= top'
  BY <1>1, <1>4, SettlesKeeps, SettledTyped
<1>6. EntityOK'
  BY <1>1, <1>3, <1>5 DEF Activate, EntityOK, entityUnchanged, archive, wire, session, seeds, history
<1> QED
  BY <1>5, <1>6, EntityStep DEF Activate

LEMMA LeaveStep == ASSUME IInv, Leave PROVE IInv'
<1>1. EntityOK /\ Keeps(mark', mark)
  BY MarkTyped DEF Leave
<1>2. EntityOK'
  BY <1>1 DEF Leave, EntityOK, entityUnchanged, archive, wire, session, seeds, history
<1> QED
  BY <1>1, <1>2, EntityStep DEF Leave

LEMMA Looking ==
  ASSUME NEW m \in Mark
  PROVE  LET n == [m EXCEPT !.looking = FALSE] IN
         n \in Mark /\ n.ptr = m.ptr /\ n.stash = m.stash
BY DEF Mark

LEMMA LookedUpStep == ASSUME IInv, LookedUp PROVE IInv'
<1> DEFINE m == [mark EXCEPT !.looking = FALSE]
<1>1. EntityOK /\ mark \in Mark /\ top' = top
  BY MarkTyped DEF LookedUp
<1>2. m \in Mark /\ m.ptr = mark.ptr /\ m.stash = mark.stash
  BY <1>1, Looking
<1>3. mark' = m \/ mark' = Applied(m, m.stash, {m.stash}, TRUE)
  BY <1>2 DEF LookedUp
<1> HIDE DEF m
<1>4. Settles(mark', m)
  BY <1>2, <1>3, AppliedSettles, UnchangedSettles
<1>5. Settles(mark', mark)
  BY <1>2, <1>4 DEF Settles, Later
<1>6. Keeps(mark', mark) /\ mark' \in Mark /\ mark'.ptr.pos <= top /\ mark'.stash <= top
  BY <1>1, <1>5, SettlesKeeps, SettledTyped
<1> QED
  BY <1>1, <1>6, PointerStep DEF LookedUp, EntityOK

LEMMA StartCatchUpStep == ASSUME IInv, StartCatchUp PROVE IInv'
BY MarkTyped, PointerStep DEF StartCatchUp

LEMMA CatchUpFailsStep == ASSUME IInv, CatchUpFails PROVE IInv'
BY MarkTyped, PointerStep DEF CatchUpFails

LEMMA MarkerPlacedStep == ASSUME IInv, MarkerPlaced PROVE IInv'
<1>1. EntityOK /\ mark \in Mark /\ top' = top
  BY MarkTyped DEF MarkerPlaced
<1>2. Settles(mark', mark)
  BY <1>1, AppliedSettles DEF MarkerPlaced
<1>3. Keeps(mark', mark) /\ mark' \in Mark /\ mark'.ptr.pos <= top /\ mark'.stash <= top
  BY <1>1, <1>2, SettlesKeeps, SettledTyped
<1> QED
  BY <1>1, <1>3, PointerStep DEF MarkerPlaced, EntityOK

LEMMA CatchUpDoneStep == ASSUME IInv, CatchUpDone PROVE IInv'
<1>1. EntityOK /\ mark \in Mark /\ top' = top /\ top \in Nat
  BY MarkTyped, Tops DEF CatchUpDone
<1>2. PICK from \in 1 .. top + 1 :
        /\ cache' = 1 .. top /\ unnamed' = unnamed \ (from .. top)
        /\ resident' = IF AtEdge THEN NewestRows(resident \cup (from .. top)) ELSE resident
        /\ mark' = Retried(mark, (resident' \cup (from .. top)) \ unnamed')
  BY DEF CatchUpDone
<1>3. Settles(mark', mark)
  BY <1>1, <1>2, RetriedSettles
<1>4. Keeps(mark', mark) /\ mark' \in Mark /\ mark'.ptr.pos <= top' /\ mark'.stash <= top'
  BY <1>1, <1>3, SettlesKeeps, SettledTyped
<1>5. cache' \subseteq 1 .. top' /\ unnamed' \subseteq cache' /\ resident' \subseteq cache'
  <2>1. unnamed \subseteq 1 .. top /\ resident \subseteq 1 .. top /\ from .. top \subseteq 1 .. top
    BY <1>1 DEF EntityOK
  <2>2. resident' \subseteq resident \cup (from .. top)
    BY <1>2, NewestRowsIn
  <2> QED
    BY <1>1, <1>2, <2>1, <2>2
<1>6. EntityOK'
  BY <1>1, <1>4, <1>5 DEF CatchUpDone, EntityOK, entityUnchanged, wire, session, seeds, history
<1> QED
  BY <1>4, <1>6, EntityStep DEF CatchUpDone

-----------------------------------------------------------------------------
(* What the client hears.                                                  *)

\* Any step that ends in a consideration of p.
\* The same of any outcome that leaves the publisher to attend to its pointer.
LEMMA OutcomeStep ==
  ASSUME EntityOK', NEW p \in Publisher, Considered(p), Attended', ReadIsOnItsWay',
         mark'.ptr.named => mark'.ptr.pos # 0,
         p.dirty <= mark'.ptr.pos, p.handled.pos <= mark'.ptr.pos,
         \A c \in InFlight' : c <= mark'.ptr.pos,
         \A i \in Heads(stream') : stream'[i].type = "ack" => stream'[i].pos <= mark'.ptr.pos,
         reading.on => reading.ptr.pos <= mark'.ptr.pos /\ ~reading.ptr.named,
         "bookmark" \notin events' => known', known' => p.unrouted = 0,
         ~known' => /\ mark'.stash = 0 /\ ~p.timer /\ p.dirty = 0 /\ ~reading.on
                    /\ InFlight' = {}
                    /\ \A i \in Heads(stream') : stream'[i].type = "seed",
         p.last <= top', p.unrouted <= top', \A i \in Heads(stream') : stream'[i].pos <= top',
         Knows(p, told', node', stream', spoiled'),
         \/ {"bookmark", "drop"} \subseteq events'
         \/ told' <= mark'.ptr.pos \/ told' \in {mark'.stash, p.unrouted}
  PROVE  IInv'
<1>1. TypeOK'
  <2>1. pub' \in Publisher /\ reading' \in Reading
    BY DEF Considered
  <2> QED
    BY <2>1 DEF TypeOK, EntityOK
<1>2. Archived'
  BY ConsiderArchived
<1>3. Behind'
  BY ConsiderBehind
<1>4. Routed'
  BY ConsiderRouted
<1>5. Aware'
  BY ConsiderAware
<1>6. Kept'
  BY DEF Considered, SameBook, Kept, MarkerKept
<1> QED
  BY <1>1, <1>2, <1>3, <1>4, <1>5, <1>6 DEF IInv

LEMMA ConsiderStep ==
  ASSUME EntityOK', NEW p \in Publisher, reading \in Reading, Consider(p),
         mark'.ptr.named => mark'.ptr.pos # 0,
         p.dirty <= mark'.ptr.pos, p.handled.pos <= mark'.ptr.pos,
         \A c \in InFlight' : c <= mark'.ptr.pos,
         \A i \in Heads(stream') : stream'[i].type = "ack" => stream'[i].pos <= mark'.ptr.pos,
         reading.on => reading.ptr.pos <= mark'.ptr.pos /\ ~reading.ptr.named,
         "bookmark" \notin events' => known', known' => p.unrouted = 0,
         ~known' => /\ mark'.stash = 0 /\ ~p.timer /\ p.dirty = 0 /\ ~reading.on
                    /\ InFlight' = {}
                    /\ \A i \in Heads(stream') : stream'[i].type = "seed",
         p.last <= top', p.unrouted <= top', \A i \in Heads(stream') : stream'[i].pos <= top',
         Knows(p, told', node', stream', spoiled'),
         \/ {"bookmark", "drop"} \subseteq events'
         \/ told' <= mark'.ptr.pos \/ told' \in {mark'.stash, p.unrouted},
         p.timer => p.enabled /\ online',
         online' /\ p.enabled /\ p.sure /\ ~spoiled' /\ mark'.ptr.named
           /\ p.handled = mark'.ptr => Way(mark'.ptr.pos, p, sent', stream')
  PROVE  IInv'
<1>1. Considered(p)
  BY ConsiderKeepsType
<1>2. Attended' /\ ReadIsOnItsWay'
  BY ConsiderCases, ConsiderAttends
<1> QED
  BY <1>1, <1>2, OutcomeStep

LEMMA Before ==
  ASSUME IInv
  PROVE  /\ EntityOK /\ pub \in Publisher /\ reading \in Reading /\ mark \in Mark
         /\ top \in Nat /\ node \in Nat /\ node <= top /\ told \in Nat /\ told <= MaxPos
         /\ MaxPos \in Nat /\ top <= MaxPos
         /\ mark.ptr.pos \in Nat /\ mark.stash \in 0..MaxPos /\ mark.stash \in Nat
         /\ pub.last \in 0..MaxPos /\ pub.last \in Nat /\ pub.unrouted \in 0..MaxPos
         /\ pub.unrouted \in Nat /\ pub.dirty \in Nat /\ pub.handled.pos \in Nat
         /\ reading.ptr.pos \in Nat
         /\ Archived /\ Behind /\ Routed /\ Aware /\ Attended /\ Kept /\ ReadIsOnItsWay
<1>1. EntityOK /\ pub \in Publisher /\ reading \in Reading
  BY SplitType DEF IInv
<1>2. /\ mark \in Mark /\ top \in Nat /\ MaxPos \in Nat /\ top <= MaxPos
      /\ node \in 0..top /\ told \in 0..MaxPos
  BY <1>1, Tops DEF EntityOK
<1>3. mark.ptr.pos \in Nat /\ mark.stash \in 0..MaxPos
  BY <1>2 DEF Mark, Pointer
<1>4. /\ pub.last \in 0..MaxPos /\ pub.unrouted \in 0..MaxPos /\ pub.dirty \in Nat
      /\ pub.handled.pos \in Nat /\ reading.ptr.pos \in Nat
  BY <1>1, <1>2 DEF Publisher, Reading, Pointer
<1> QED
  BY <1>1, <1>2, <1>3, <1>4 DEF IInv

LEMMA Routing ==
  ASSUME NEW p \in Publisher
  PROVE  LET q == [p EXCEPT !.unrouted = 0] IN
         /\ q \in Publisher
         /\ q.enabled = p.enabled /\ q.sure = p.sure /\ q.confirmed = p.confirmed
         /\ q.last = p.last /\ q.revised = p.revised /\ q.unrouted = 0
         /\ q.handled = p.handled /\ q.dirty = p.dirty /\ q.timer = p.timer
BY ReadAssumption DEF Publisher

LEMMA BookmarkLandsStep == ASSUME IInv, BookmarkLands PROVE IInv'
<1> DEFINE p == [pub EXCEPT !.unrouted = 0]
<1>1. /\ p \in Publisher
      /\ p.enabled = pub.enabled /\ p.sure = pub.sure /\ p.confirmed = pub.confirmed
      /\ p.last = pub.last /\ p.revised = pub.revised /\ p.unrouted = 0
      /\ p.handled = pub.handled /\ p.dirty = pub.dirty /\ p.timer = pub.timer
  BY Before, Routing
<1>2. Consider(p) /\ known' /\ ~known
  BY DEF BookmarkLands
<1> HIDE DEF p
<1>3. UNCHANGED <<events, node, sent, stream, online, told, spoiled, top>> /\ InFlight' = InFlight
  BY DEF BookmarkLands, entityUnchanged, wire, session, history, InFlight
<1>4. /\ mark' \in Mark /\ mark'.ptr = mark.ptr /\ mark.stash = 0
      /\ mark'.stash = pub.unrouted
  <2>1. mark.stash = 0
    BY <1>2, Before DEF Routed
  <2>2. CASE pub.unrouted = 0
    BY <2>1, <2>2, Before DEF BookmarkLands
  <2>3. CASE pub.unrouted # 0
    <3>1. mark' = Applied(mark, pub.unrouted, {}, FALSE)
      BY <2>3 DEF BookmarkLands
    <3> QED
      BY <2>1, <3>1, Before, AppliedStashes
  <2> QED
    BY <2>2, <2>3
<1>5. EntityOK'
  <2>1. mark'.ptr.pos <= top' /\ mark'.stash <= top'
    BY <1>3, <1>4, Before DEF EntityOK, Archived
  <2> QED
    BY <1>4, <2>1, Before
       DEF BookmarkLands, EntityOK, entityUnchanged, archive, view, wire, session, seeds, history
<1>6. /\ mark'.ptr.named => mark'.ptr.pos # 0
      /\ p.dirty <= mark'.ptr.pos /\ p.handled.pos <= mark'.ptr.pos
      /\ \A c \in InFlight' : c <= mark'.ptr.pos
      /\ \A i \in Heads(stream') : stream'[i].type = "ack" => stream'[i].pos <= mark'.ptr.pos
      /\ reading.on => reading.ptr.pos <= mark'.ptr.pos /\ ~reading.ptr.named
  BY <1>1, <1>3, <1>4, Before DEF Behind
<1>7. p.last <= top' /\ p.unrouted <= top' /\ \A i \in Heads(stream') : stream'[i].pos <= top'
  BY <1>1, <1>3, Before DEF Archived
<1>8. Knows(p, told', node', stream', spoiled')
  <2>1. Knows(p, told, node, stream, spoiled)
    BY <1>1, Before DEF Aware, Knows
  <2> QED
    BY <1>3, <2>1
<1>9. \/ {"bookmark", "drop"} \subseteq events'
      \/ told' <= mark'.ptr.pos \/ told' \in {mark'.stash, p.unrouted}
  BY <1>3, <1>4, Before DEF Kept, MarkerKept
<1>10. p.timer => p.enabled /\ online'
  BY <1>1, <1>3, Before DEF Attended
<1>11. online' /\ p.enabled /\ p.sure /\ ~spoiled' /\ mark'.ptr.named
         /\ p.handled = mark'.ptr => Way(mark'.ptr.pos, p, sent', stream')
  <2>1. Way(mark.ptr.pos, pub, sent, stream) => Way(mark.ptr.pos, p, sent, stream)
    BY <1>1 DEF Way
  <2> QED
    BY <1>1, <1>3, <1>4, <2>1, Before DEF Attended
<1> QED
  BY <1>1, <1>2, <1>5, <1>6, <1>7, <1>8, <1>9, <1>10, <1>11, Before, ConsiderStep

LEMMA Tailed ==
  ASSUME NEW S, NEW q \in Seq(S), q # <<>>
  PROVE  /\ Tail(q) \in Seq(S) /\ Head(q) = q[1] /\ 1 \in Heads(q)
         /\ \A i \in Heads(Tail(q)) : i + 1 \in Heads(q) /\ Tail(q)[i] = q[i + 1]
         /\ \A i \in Heads(q) : i # 1 => i - 1 \in Heads(Tail(q)) /\ Tail(q)[i - 1] = q[i]
<1>1. Len(q) \in Nat /\ Len(q) # 0
  BY EmptySeq, LenProperties
<1>2. /\ Tail(q) \in Seq(S) /\ Len(Tail(q)) = Len(q) - 1
      /\ \A i \in 1 .. Len(Tail(q)) : Tail(q)[i] = q[i + 1]
  BY HeadTailProperties
<1>3. Head(q) = q[1]
  OBVIOUS
<1> QED
  BY <1>1, <1>2, <1>3 DEF Heads

LEMMA KnowsTail ==
  ASSUME NEW p, NEW t, NEW n, NEW q \in Seq(Heard), q # <<>>, NEW gone, Knows(p, t, n, q, gone)
  PROVE  Knows(p, t, n, Tail(q), gone)
<1>1. \A i \in Heads(Tail(q)) : i \in Nat /\ i + 1 \in Heads(q) /\ Tail(q)[i] = q[i + 1]
  BY Tailed DEF Heads
<1>2. ASSUME ~gone, NEW i \in Heads(Tail(q)), NEW j \in Heads(Tail(q)), i <= j
      PROVE  Tail(q)[i].pos <= Tail(q)[j].pos
  <2>1. i + 1 \in Heads(q) /\ j + 1 \in Heads(q) /\ i + 1 <= j + 1
    BY <1>1, <1>2
  <2>2. q[i + 1].pos <= q[j + 1].pos
    BY <1>2, <2>1 DEF Knows
  <2> QED
    BY <1>1, <2>2
<1>3. ASSUME ~gone, NEW i \in Heads(Tail(q))
      PROVE  Tail(q)[i].pos <= n /\ (p.sure \/ p.confirmed => p.last <= Tail(q)[i].pos)
  <2>1. i + 1 \in Heads(q) /\ Tail(q)[i] = q[i + 1]
    BY <1>1
  <2>2. q[i + 1].pos <= n /\ (p.sure \/ p.confirmed => p.last <= q[i + 1].pos)
    BY <1>3, <2>1 DEF Knows
  <2> QED
    BY <2>1, <2>2
<1> QED
  BY <1>2, <1>3 DEF Knows

\* The head of the stream is told: nothing after it is older.
LEMMA KnowsHead ==
  ASSUME NEW p, NEW t, NEW n, NEW q \in Seq(Heard), q # <<>>, NEW gone, Knows(p, t, n, q, gone),
         NEW r, r.last = q[1].pos, r.revised => r.confirmed
  PROVE  Knows(r, q[1].pos, n, Tail(q), gone)
<1>1. /\ 1 \in Heads(q)
      /\ \A i \in Heads(Tail(q)) : i \in Nat /\ 1 <= i + 1
                                   /\ i + 1 \in Heads(q) /\ Tail(q)[i] = q[i + 1]
  BY Tailed DEF Heads
<1>2. Knows(p, t, n, Tail(q), gone)
  BY KnowsTail
<1>3. ASSUME ~gone PROVE q[1].pos <= n
  BY <1>1, <1>3 DEF Knows
<1>4. ASSUME ~gone, NEW i \in Heads(Tail(q)) PROVE q[1].pos <= Tail(q)[i].pos
  <2>1. i + 1 \in Heads(q) /\ 1 <= i + 1 /\ Tail(q)[i] = q[i + 1]
    BY <1>1
  <2>2. q[1].pos <= q[i + 1].pos
    BY <1>1, <1>4, <2>1 DEF Knows
  <2> QED
    BY <2>1, <2>2
<1> QED
  BY <1>2, <1>3, <1>4 DEF Knows

LEMMA WayTail ==
  ASSUME NEW p \in Publisher, NEW q \in Publisher, NEW c \in Nat, NEW s,
         NEW t \in Seq(Heard), t # <<>>, Way(c, p, s, t),
         p.last <= q.last, q.timer = p.timer, q.dirty = p.dirty,
         t[1] = Ack(c) => c <= q.last
  PROVE  Way(c, q, s, Tail(t))
<1>1. p.last \in Nat /\ q.last \in Nat
  BY ReadAssumption DEF Publisher
<1>2. CASE c <= p.last
  BY <1>1, <1>2 DEF Way
<1>3. CASE p.timer /\ c = p.dirty
  BY <1>3 DEF Way
<1>4. CASE \E i \in Heads(s) : s[i] = c /\ c # Seed
  BY <1>4 DEF Way
<1>5. ASSUME NEW i \in Heads(t), t[i] = Ack(c) PROVE Way(c, q, s, Tail(t))
  <2>1. CASE i = 1
    BY <1>5, <2>1 DEF Way
  <2>2. CASE i # 1
    <3>1. i - 1 \in Heads(Tail(t)) /\ Tail(t)[i - 1] = Ack(c)
      BY <1>5, <2>2, Tailed
    <3> QED
      BY <3>1 DEF Way
  <2> QED
    BY <2>1, <2>2
<1> QED
  BY <1>2, <1>3, <1>4, <1>5 DEF Way

LEMMA AckFields == ASSUME NEW c \in 0..MaxPos
                   PROVE  Ack(c) \in Heard /\ Ack(c).type = "ack" /\ Ack(c).pos = c
BY DEF Ack, Heard

\* The head of the stream, and what the rest of it keeps.
LEMMA HearingHead ==
  ASSUME IInv, stream # <<>>, stream' = Tail(stream)
  PROVE  /\ stream[1] \in Heard /\ stream[1] = Head(stream)
         /\ stream[1].pos \in 0..MaxPos /\ stream[1].pos \in Nat /\ stream[1].pos <= top
         /\ stream[1].type = "ack" => stream[1].pos <= mark.ptr.pos
         /\ ~known => stream[1].type = "seed"
         /\ ~spoiled => /\ stream[1].pos <= node
                        /\ pub.sure \/ pub.confirmed => pub.last <= stream[1].pos
         /\ stream' \in Seq(Heard) /\ stream \in Seq(Heard)
         /\ \A i \in Heads(stream') :
              /\ stream'[i].pos \in Nat /\ stream'[i].pos <= top
              /\ stream'[i].type = "ack" => stream'[i].pos <= mark.ptr.pos
              /\ ~known => stream'[i].type = "seed"
<1>1. stream \in Seq(Heard)
  BY Before DEF EntityOK
<1>2. /\ Tail(stream) \in Seq(Heard) /\ Head(stream) = stream[1] /\ 1 \in Heads(stream)
      /\ \A i \in Heads(Tail(stream)) : i + 1 \in Heads(stream) /\ Tail(stream)[i] = stream[i + 1]
  BY <1>1, Tailed
<1>3. stream[1] \in Heard /\ stream[1].pos \in 0..MaxPos /\ stream[1].pos \in Nat
  BY <1>2, Before, WireTyped
<1>5. \A i \in Heads(stream) : stream[i].pos \in Nat
  BY Before, WireTyped
<1>4. \A i \in Heads(stream) :
        /\ stream[i].pos <= top
        /\ stream[i].type = "ack" => stream[i].pos <= mark.ptr.pos
        /\ ~known => stream[i].type = "seed"
        /\ ~spoiled => /\ stream[i].pos <= node
                       /\ pub.sure \/ pub.confirmed => pub.last <= stream[i].pos
  BY Before DEF Archived, Behind, Routed, Aware, Knows
<1> QED
  BY <1>1, <1>2, <1>3, <1>4, <1>5

LEMMA HearNotifyStep == ASSUME IInv, HearNotify PROVE IInv'
<1> DEFINE s == stream[1].pos
           p == Recorded(pub, s)
           rows == resident \ unnamed
<1>0. stream # <<>> /\ stream' = Tail(stream) /\ stream[1].type = "notify" /\ Head(stream) = stream[1]
  BY HearingHead DEF HearNotify
<1>1. /\ s \in 0..MaxPos /\ s \in Nat /\ s <= top /\ known
      /\ ~spoiled => s <= node /\ (pub.sure \/ pub.confirmed => pub.last <= s)
      /\ stream' \in Seq(Heard) /\ stream \in Seq(Heard)
      /\ \A i \in Heads(stream') :
           /\ stream'[i].pos <= top
           /\ stream'[i].type = "ack" => stream'[i].pos <= mark.ptr.pos
  BY <1>0, HearingHead
<1>16. mark' = Applied(mark, s, rows, FALSE) /\ Consider(p)
  BY <1>0, <1>1 DEF HearNotify
<1>2. /\ told' = s
      /\ UNCHANGED <<events, top, node, sent, online, known, spoiled>> /\ InFlight' = InFlight
  BY <1>0, <1>1 DEF HearNotify, hearUnchanged, serverVars, session, InFlight
<1>3. /\ p \in Publisher
      /\ p.enabled = pub.enabled /\ p.sure = pub.sure /\ p.confirmed /\ p.last = s
      /\ p.handled = pub.handled /\ p.dirty = pub.dirty /\ p.timer = pub.timer
      /\ p.unrouted = pub.unrouted
  <2>1. seed \in BOOLEAN /\ pub \in Publisher
    BY Before DEF EntityOK
  <2> QED
    BY <1>1, <2>1, RecordedFields
<1>4. /\ mark' \in Mark /\ Later(mark', mark) /\ mark'.ptr.pos \in {s, mark.ptr.pos}
      /\ mark'.stash \in {0, s, mark.stash}
      /\ s <= mark'.ptr.pos \/ mark'.stash = s
  <2>1. mark \in Mark /\ FALSE \in BOOLEAN
    BY Before
  <2>2. Tells(Applied(mark, s, rows, FALSE), mark, s)
    BY <1>1, <2>1, AppliedTells
  <2> QED
    BY <1>16, <2>2 DEF Tells
<1> HIDE DEF p, rows
<1>5. EntityOK'
  <2>0. /\ 0 <= top /\ mark.ptr.pos <= top /\ mark.stash <= top
        /\ top' = top /\ s <= top
    BY <1>1, <1>2, Before, MarkTyped
  <2> HIDE DEF s
  <2>1. mark'.ptr.pos <= top' /\ mark'.stash <= top'
    BY <1>4, <2>0
  <2> QED
    BY <1>1, <1>2, <1>4, <2>1, Before
       DEF HearNotify, EntityOK, hearUnchanged, serverVars, session, archive, view
<1>6. mark.ptr.pos <= mark'.ptr.pos /\ mark'.ptr.pos \in Nat
  BY <1>1, <1>4, Before DEF Later
<1>7. /\ mark'.ptr.named => mark'.ptr.pos # 0
      /\ p.dirty <= mark'.ptr.pos /\ p.handled.pos <= mark'.ptr.pos
      /\ reading.on => reading.ptr.pos <= mark'.ptr.pos /\ ~reading.ptr.named
  BY <1>3, <1>4, <1>6, Before DEF Behind, Later
<1>8. \A c \in InFlight' : c <= mark'.ptr.pos
  <2>1. \A c \in InFlight : c <= mark.ptr.pos /\ c \in Nat
    BY Before, WireTyped DEF Behind
  <2> QED
    BY <1>2, <1>6, <2>1, Before
<1>9. \A i \in Heads(stream') : stream'[i].type = "ack" => stream'[i].pos <= mark'.ptr.pos
  <2>1. \A i \in Heads(stream') : stream'[i].pos \in Nat
    BY HearingHead, <1>0
  <2>2. mark.ptr.pos \in Nat
    BY Before
  <2> QED
    <3> SUFFICES ASSUME NEW i \in Heads(stream'), stream'[i].type = "ack"
                 PROVE  stream'[i].pos <= mark'.ptr.pos
      OBVIOUS
    <3>1. stream'[i].pos <= mark.ptr.pos
      BY <1>1
    <3>2. stream'[i].pos \in Nat
      BY <2>1
    <3> QED
      BY <1>6, <2>2, <3>1, <3>2
<1>10. Knows(p, told', node', stream', spoiled')
  BY <1>0, <1>1, <1>2, <1>3, Before, KnowsHead DEF Aware
<1>11. online' /\ p.enabled /\ p.sure /\ ~spoiled' /\ mark'.ptr.named
         /\ p.handled = mark'.ptr => Way(mark'.ptr.pos, p, sent', stream')
  <2> SUFFICES ASSUME online, pub.enabled, pub.sure, ~spoiled, mark'.ptr.named, pub.handled = mark'.ptr
               PROVE  Way(mark'.ptr.pos, p, sent, stream')
    BY <1>2, <1>3
  <2>1. mark'.ptr = mark.ptr
    BY <1>4, <1>6, Before DEF Later, Behind
  <2>2. Way(mark.ptr.pos, pub, sent, stream)
    BY <2>1, Before DEF Attended
  <2>3. stream[1] # Ack(mark.ptr.pos)
    <3>1. mark.ptr.pos \in 0..MaxPos
      BY Before DEF EntityOK
    <3> QED
      BY <1>0, <3>1, AckFields
  <2>4. Way(mark.ptr.pos, p, sent, Tail(stream))
    BY <1>0, <1>1, <1>3, <2>2, <2>3, Before, WayTail
  <2> QED
    BY <1>0, <2>1, <2>4
<1>12. p.last <= top' /\ p.unrouted <= top' /\ \A i \in Heads(stream') : stream'[i].pos <= top'
  BY <1>1, <1>2, <1>3, Before DEF Archived
<1>13. p.timer => p.enabled /\ online'
  BY <1>2, <1>3, Before DEF Attended
<1>14. known' /\ p.unrouted = 0
  BY <1>1, <1>2, <1>3, Before DEF Routed
<1>15. told' <= mark'.ptr.pos \/ told' = mark'.stash
  BY <1>2, <1>4
<1> QED
  BY <1>16, <1>2, <1>3, <1>5, <1>7, <1>8, <1>9, <1>10, <1>11, <1>12, <1>13, <1>14, <1>15, Before, ConsiderStep

\* A session that knows the node, now and after a step.
Knowing == online /\ pub.enabled /\ pub.sure /\ ~spoiled

\* A step that considers nothing and leaves the pointer alone.
LEMMA FrameStep ==
  ASSUME IInv, EntityOK', UNCHANGED <<events, known, mark>>,
         pub' \in Publisher, reading' \in Reading,
         reading'.on = reading.on, reading'.ptr = reading.ptr, reading'.owed = reading.owed,
         pub'.dirty \in {0, pub.dirty}, pub'.handled \in {Nowhere, pub.handled},
         pub'.timer => pub.timer, known => pub'.unrouted = 0,
         \A c \in InFlight' : c <= mark.ptr.pos /\ known,
         \A i \in Heads(stream') : /\ stream'[i].pos <= top'
                                   /\ stream'[i].type = "ack" => stream'[i].pos <= mark.ptr.pos
                                   /\ ~known => stream'[i].type = "seed",
         pub'.last <= top', pub'.unrouted <= top',
         Knows(pub', told', node', stream', spoiled'),
         \/ {"bookmark", "drop"} \subseteq events
         \/ told' <= mark.ptr.pos \/ told' \in {mark.stash, pub'.unrouted},
         pub'.timer => pub'.enabled /\ online',
         Knowing' /\ mark.ptr.named /\ reading.on => reading.owed,
         Knowing' /\ mark.ptr.named /\ pub'.handled = mark.ptr
           => Way(mark.ptr.pos, pub', sent', stream'),
         Knowing' /\ known /\ mam' \in {"none", "caughtUp"} /\ mark.ptr.named /\ mark.stash = 0
           /\ ~reading.on => Way(mark.ptr.pos, pub', sent', stream')
  PROVE  IInv'
<1>1. TypeOK'
  BY DEF TypeOK, EntityOK
<1>2. Archived'
  BY DEF Archived
<1>3. Behind'
  <2>1. pub'.dirty <= mark.ptr.pos /\ pub'.handled.pos <= mark.ptr.pos
    BY Before, NowherePointer DEF Behind
  <2> QED
    BY <2>1, Before DEF Behind
<1>4. Routed'
  <2>1. ~known => InFlight' = {}
    OBVIOUS
  <2> QED
    BY <2>1, Before DEF Routed
<1>5. Aware'
  BY DEF Aware
<1>6. Kept'
  BY DEF Kept, MarkerKept
<1>7. Attended'
  BY DEF Attended, Knowing
<1>8. ReadIsOnItsWay'
  <2>1. online' /\ known' /\ pub'.enabled /\ pub'.sure /\ mam' \in {"none", "caughtUp"}
           /\ mark'.ptr.named /\ mark'.stash = 0 /\ ~spoiled'
         => reading'.on \/ Way(mark'.ptr.pos, pub', sent', stream')
    BY DEF Knowing
  <2> QED
    BY <2>1, OnItsWayNext
<1> QED
  BY <1>1, <1>2, <1>3, <1>4, <1>5, <1>6, <1>7, <1>8 DEF IInv

\* What such a step starts from.
LEMMA KnownWay ==
  ASSUME IInv, Knowing, mark.ptr.named
  PROVE  /\ pub.handled = mark.ptr => Way(mark.ptr.pos, pub, sent, stream)
         /\ known /\ mam \in {"none", "caughtUp"} /\ mark.stash = 0 /\ ~reading.on
              => Way(mark.ptr.pos, pub, sent, stream)
         /\ reading.on => reading.owed
<1>1. pub.handled = mark.ptr => Way(mark.ptr.pos, pub, sent, stream)
  BY Before DEF Attended, Knowing
<1>2. reading.on => reading.owed
  BY Before DEF Attended, Knowing
<1>3. known /\ mam \in {"none", "caughtUp"} /\ mark.stash = 0 /\ ~reading.on
        => Way(mark.ptr.pos, pub, sent, stream)
  BY Before, OnItsWayNow DEF Knowing
<1> QED
  BY <1>1, <1>2, <1>3

\* The same, where what is on its way stays so.
LEMMA CarryStep ==
  ASSUME IInv, EntityOK', UNCHANGED <<events, known, mark, mam>>,
         pub' \in Publisher, reading' \in Reading,
         reading'.on = reading.on, reading'.ptr = reading.ptr, reading'.owed = reading.owed,
         pub'.dirty \in {0, pub.dirty}, pub'.handled \in {Nowhere, pub.handled},
         pub'.timer => pub.timer, known => pub'.unrouted = 0,
         \A c \in InFlight' : c <= mark.ptr.pos /\ known,
         \A i \in Heads(stream') : /\ stream'[i].pos <= top'
                                   /\ stream'[i].type = "ack" => stream'[i].pos <= mark.ptr.pos
                                   /\ ~known => stream'[i].type = "seed",
         pub'.last <= top', pub'.unrouted <= top',
         Knows(pub', told', node', stream', spoiled'),
         \/ {"bookmark", "drop"} \subseteq events
         \/ told' <= mark.ptr.pos \/ told' \in {mark.stash, pub'.unrouted},
         pub'.timer => pub'.enabled /\ online',
         Knowing' => Knowing /\ pub'.handled = pub.handled,
         Knowing' /\ Way(mark.ptr.pos, pub, sent, stream) => Way(mark.ptr.pos, pub', sent', stream')
  PROVE  IInv'
<1>1. ASSUME Knowing', mark.ptr.named
      PROVE  /\ pub'.handled = mark.ptr => Way(mark.ptr.pos, pub', sent', stream')
             /\ known /\ mam' \in {"none", "caughtUp"} /\ mark.stash = 0 /\ ~reading.on
                  => Way(mark.ptr.pos, pub', sent', stream')
             /\ reading.on => reading.owed
  BY <1>1, KnownWay
<1> QED
  BY <1>1, FrameStep

LEMMA HearAckStep == ASSUME IInv, HearAck PROVE IInv'
<1> DEFINE s == stream[1].pos
<1>0. stream # <<>> /\ stream' = Tail(stream) /\ stream[1].type = "ack" /\ Head(stream) = stream[1]
  BY HearingHead DEF HearAck
<1>1. /\ s \in 0..MaxPos /\ s \in Nat /\ s <= top /\ known /\ s <= mark.ptr.pos
      /\ ~spoiled => s <= node /\ (pub.sure \/ pub.confirmed => pub.last <= s)
      /\ stream' \in Seq(Heard) /\ stream \in Seq(Heard)
      /\ \A i \in Heads(stream') :
           /\ stream'[i].pos <= top
           /\ stream'[i].type = "ack" => stream'[i].pos <= mark.ptr.pos
  BY <1>0, HearingHead
<1>2. /\ told' = s
      /\ UNCHANGED <<events, top, node, sent, online, known, spoiled, mark, reading, mam>>
      /\ InFlight' = InFlight
  BY <1>0 DEF HearAck, hearUnchanged, serverVars, session, InFlight
<1>3. /\ pub' \in Publisher
      /\ pub'.enabled = pub.enabled /\ pub'.sure = pub.sure /\ pub'.confirmed /\ pub'.last = s
      /\ pub'.handled = pub.handled /\ pub'.dirty = pub.dirty /\ pub'.timer = pub.timer
      /\ pub'.unrouted = pub.unrouted
  <2>1. seed \in BOOLEAN /\ pub \in Publisher /\ pub' = Recorded(pub, s)
    BY <1>0, Before DEF EntityOK, HearAck
  <2> QED
    BY <1>1, <2>1, RecordedFields
<1>4. EntityOK'
  BY <1>1, <1>2, Before DEF HearAck, EntityOK, hearUnchanged, serverVars, session, archive, view
<1>5. Knows(pub', told', node', stream', spoiled')
  BY <1>0, <1>1, <1>2, <1>3, Before, KnowsHead DEF Aware
<1>6. Knowing' => Knowing
  BY <1>2, <1>3 DEF Knowing
<1>7. ASSUME Knowing', Way(mark.ptr.pos, pub, sent, stream)
      PROVE  Way(mark.ptr.pos, pub', sent', stream')
  <2>1. pub.last <= pub'.last
    BY <1>1, <1>3, <1>6, <1>7 DEF Knowing
  <2>2. stream[1] = Ack(mark.ptr.pos) => mark.ptr.pos <= pub'.last
    <3>1. mark.ptr.pos \in 0..MaxPos /\ mark.ptr.pos \in Nat
      BY Before, Tops
    <3> QED
      BY <1>3, <3>1, AckFields
  <2>3. Way(mark.ptr.pos, pub', sent, Tail(stream))
    BY <1>0, <1>1, <1>3, <1>7, <2>1, <2>2, Before, WayTail
  <2> QED
    BY <1>0, <1>2, <2>3
<1>8. /\ \A c \in InFlight' : c <= mark.ptr.pos /\ known
      /\ pub'.last <= top' /\ pub'.unrouted <= top'
      /\ known => pub'.unrouted = 0
      /\ pub'.timer => pub'.enabled /\ online'
  BY <1>1, <1>2, <1>3, Before DEF Behind, Archived, Routed, Attended
<1> QED
  BY <1>1, <1>2, <1>3, <1>4, <1>5, <1>6, <1>7, <1>8, Before, CarryStep

\* The answer to a fetch that this session does not wait for.
LEMMA StaleSeedStep == ASSUME IInv, HearSeed, ~seed PROVE IInv'
<1>0. stream # <<>> /\ stream' = Tail(stream) /\ stream[1].type = "seed"
  BY HearingHead DEF HearSeed
<1>1. /\ stream' \in Seq(Heard) /\ stream \in Seq(Heard)
      /\ \A i \in Heads(stream') :
           /\ stream'[i].pos <= top
           /\ stream'[i].type = "ack" => stream'[i].pos <= mark.ptr.pos
           /\ ~known => stream'[i].type = "seed"
  BY <1>0, HearingHead
<1>2. /\ UNCHANGED <<events, top, node, sent, online, known, spoiled, mark, reading, mam, pub, told>>
      /\ InFlight' = InFlight /\ seed' = FALSE
  BY <1>0 DEF HearSeed, hearUnchanged, serverVars, session, InFlight
<1>3. EntityOK'
  BY <1>1, <1>2, Before DEF HearSeed, EntityOK, hearUnchanged, serverVars, session, archive, view
<1>4. Knows(pub', told', node', stream', spoiled')
  BY <1>0, <1>1, <1>2, Before, KnowsTail DEF Aware
<1>5. ASSUME Way(mark.ptr.pos, pub, sent, stream)
      PROVE  Way(mark.ptr.pos, pub', sent', stream')
  <2>1. mark.ptr.pos \in 0..MaxPos /\ mark.ptr.pos \in Nat
    BY Before, Tops
  <2>2. stream[1] # Ack(mark.ptr.pos)
    BY <1>0, <2>1, AckFields
  <2>3. Way(mark.ptr.pos, pub, sent, Tail(stream))
    BY <1>0, <1>1, <1>5, <2>1, <2>2, Before, WayTail
  <2> QED
    BY <1>0, <1>2, <2>3
<1>6. /\ \A c \in InFlight' : c <= mark.ptr.pos /\ known
      /\ pub'.last <= top' /\ pub'.unrouted <= top'
      /\ known => pub'.unrouted = 0
      /\ pub'.timer => pub'.enabled /\ online'
      /\ pub' \in Publisher /\ reading' \in Reading
  BY <1>1, <1>2, Before DEF Behind, Archived, Routed, Attended
<1>7. Knowing' => Knowing /\ pub'.handled = pub.handled
  BY <1>2 DEF Knowing
<1>8. \/ {"bookmark", "drop"} \subseteq events
      \/ told' <= mark.ptr.pos \/ told' \in {mark.stash, pub'.unrouted}
  BY <1>2, Before DEF Kept, MarkerKept
<1> QED
  BY <1>1, <1>2, <1>3, <1>4, <1>5, <1>6, <1>7, <1>8, Before, CarryStep

LEMMA FreshSeedStep == ASSUME IInv, HearSeed, seed PROVE IInv'
<1> DEFINE s == IF pub.revised /\ pub.last # 0 THEN pub.last ELSE stream[1].pos
           p == Seeded(pub, s)
           rows == resident \ unnamed
<1>0. stream # <<>> /\ stream' = Tail(stream) /\ stream[1].type = "seed" /\ Head(stream) = stream[1]
  BY HearingHead DEF HearSeed
<1>1. /\ stream[1].pos \in 0..MaxPos /\ stream[1].pos <= top
      /\ stream' \in Seq(Heard) /\ stream \in Seq(Heard)
      /\ \A i \in Heads(stream') :
           /\ stream'[i].pos <= top /\ stream'[i].pos \in Nat
           /\ stream'[i].type = "ack" => stream'[i].pos <= mark.ptr.pos
           /\ ~known => stream'[i].type = "seed"
  BY <1>0, HearingHead
<1>2. s \in 0..MaxPos /\ s \in Nat /\ s <= top
  BY <1>1, Before DEF Archived
<1>3. /\ told' = s /\ Consider(p) /\ online
      /\ mark' = IF known /\ s # 0 THEN Applied(mark, s, rows, FALSE) ELSE mark
      /\ UNCHANGED <<events, top, node, sent, online, known, spoiled>> /\ InFlight' = InFlight
  BY <1>0 DEF HearSeed, hearUnchanged, serverVars, session, InFlight
<1>4. /\ p \in Publisher
      /\ p.enabled /\ p.sure /\ p.last = s /\ ~p.revised
      /\ p.handled = Nowhere /\ p.dirty = 0 /\ p.timer = pub.timer
      /\ p.unrouted = IF known THEN 0 ELSE s
  <2>1. known \in BOOLEAN /\ pub \in Publisher
    BY Before DEF EntityOK
  <2> HIDE DEF s
  <2> QED
    BY <1>2, <2>1, SeededFields
<1>5. Knows(p, told', node', stream', spoiled')
  <2>1. Knows(pub, told, node, stream, spoiled)
    BY Before DEF Aware
  <2>2. CASE s = stream[1].pos
    <3>1. p.last = stream[1].pos /\ (p.revised => p.confirmed) /\ told' = stream[1].pos
      BY <1>3, <1>4, <2>2
    <3> HIDE DEF p, s
    <3>2. Knows(p, stream[1].pos, node, Tail(stream), spoiled)
      BY <1>0, <1>1, <2>1, <3>1, KnowsHead
    <3> QED
      BY <1>0, <1>3, <3>1, <3>2
  <2>3. CASE s = pub.last /\ pub.revised
    <3>1. Knows(pub, told, node, Tail(stream), spoiled) /\ pub.confirmed
      BY <1>0, <1>1, <2>1, <2>3, KnowsTail DEF Knows
    <3>2. p.last = pub.last /\ ~p.revised /\ told' = p.last
      BY <1>3, <1>4, <2>3
    <3> HIDE DEF p, s
    <3>3. Knows(p, p.last, node, Tail(stream), spoiled)
      BY <3>1, <3>2 DEF Knows
    <3> QED
      BY <1>0, <1>3, <3>2, <3>3
  <2> QED
    BY <2>2, <2>3
<1>6. /\ mark' \in Mark /\ Later(mark', mark) /\ mark'.ptr.pos \in {s, mark.ptr.pos}
      /\ mark'.stash \in {0, s, mark.stash}
      /\ known => s <= mark'.ptr.pos \/ mark'.stash = s
      /\ ~known => mark'.stash = 0
  <2>0. mark \in Mark /\ FALSE \in BOOLEAN /\ mark.ptr.pos \in Nat /\ (~known => mark.stash = 0)
    BY Before DEF Routed
  <2>1. CASE known /\ s # 0
    <3>1. mark' = Applied(mark, s, rows, FALSE)
      BY <1>3, <2>1
    <3> HIDE DEF s, rows
    <3>2. Tells(Applied(mark, s, rows, FALSE), mark, s)
      BY <1>2, <2>0, AppliedTells
    <3> QED
      BY <2>1, <3>1, <3>2 DEF Tells
  <2>2. CASE ~(known /\ s # 0)
    <3>1. mark' = mark /\ (known => s = 0)
      BY <1>3, <2>2
    <3> HIDE DEF s, rows
    <3> QED
      BY <2>0, <3>1 DEF Later
  <2> QED
    BY <2>1, <2>2
<1> HIDE DEF p, rows, s
<1>7. EntityOK'
  <2>0. /\ 0 <= top /\ mark.ptr.pos <= top /\ mark.stash <= top
        /\ top' = top /\ s <= top
    BY <1>2, <1>3, Before, MarkTyped
  <2>1. mark'.ptr.pos <= top' /\ mark'.stash <= top'
    BY <1>6, <2>0
  <2>2. seed' \in BOOLEAN /\ told' \in 0..MaxPos
    BY <1>2, <1>3 DEF HearSeed
  <2> QED
    BY <1>1, <1>3, <1>6, <2>1, <2>2, Before
       DEF HearSeed, EntityOK, hearUnchanged, serverVars, session, archive, view
<1>8. mark.ptr.pos <= mark'.ptr.pos /\ mark'.ptr.pos \in Nat
  BY <1>2, <1>6, Before DEF Later
<1>9. /\ mark'.ptr.named => mark'.ptr.pos # 0
      /\ p.dirty <= mark'.ptr.pos /\ p.handled.pos <= mark'.ptr.pos
      /\ reading.on => reading.ptr.pos <= mark'.ptr.pos /\ ~reading.ptr.named
  BY <1>4, <1>6, <1>8, Before, NowherePointer DEF Behind, Later
<1>10. \A c \in InFlight' : c <= mark'.ptr.pos
  <2>1. \A c \in InFlight : c <= mark.ptr.pos /\ c \in Nat
    BY Before, WireTyped DEF Behind
  <2>2. InFlight' = InFlight
    BY <1>3
  <2> QED
    BY <1>8, <2>1, <2>2, Before
<1>11. \A i \in Heads(stream') : stream'[i].type = "ack" => stream'[i].pos <= mark'.ptr.pos
  <2> SUFFICES ASSUME NEW i \in Heads(stream'), stream'[i].type = "ack"
               PROVE  stream'[i].pos <= mark'.ptr.pos
    OBVIOUS
  <2>1. stream'[i].pos <= mark.ptr.pos /\ stream'[i].pos \in Nat /\ mark.ptr.pos \in Nat
    BY <1>1, Before
  <2> QED
    BY <1>8, <2>1
<1>12. p.last <= top' /\ p.unrouted <= top' /\ \A i \in Heads(stream') : stream'[i].pos <= top'
  BY <1>1, <1>2, <1>3, <1>4, Before
<1>13. p.timer => p.enabled /\ online'
  BY <1>3, <1>4
<1>14. /\ "bookmark" \notin events' => known'
       /\ known' => p.unrouted = 0
       /\ ~known' => /\ mark'.stash = 0 /\ ~p.timer /\ p.dirty = 0 /\ ~reading.on
                     /\ InFlight' = {}
                     /\ \A i \in Heads(stream') : stream'[i].type = "seed"
  BY <1>1, <1>3, <1>4, <1>6, Before DEF Routed
<1>15. told' <= mark'.ptr.pos \/ told' \in {mark'.stash, p.unrouted}
  BY <1>3, <1>4, <1>6
<1>16. ~(mark'.ptr.named /\ p.handled = mark'.ptr)
  BY <1>4, NowherePointer
<1> QED
  BY <1>3, <1>4, <1>5, <1>7, <1>9, <1>10, <1>11, <1>12, <1>13, <1>14, <1>15, <1>16, Before, ConsiderStep

LEMMA HearSeedStep == ASSUME IInv, HearSeed PROVE IInv'
BY StaleSeedStep, FreshSeedStep

LEMMA Enabling ==
  ASSUME NEW p \in Publisher
  PROVE  LET q == [Forgotten(p) EXCEPT !.enabled = TRUE] IN
         /\ q \in Publisher
         /\ q.enabled /\ q.sure = p.sure /\ q.confirmed = p.confirmed
         /\ q.last = p.last /\ q.revised = p.revised /\ q.unrouted = p.unrouted
         /\ q.handled = Nowhere /\ q.dirty = p.dirty /\ q.timer = p.timer
BY NowherePointer DEF Publisher, Forgotten

LEMMA ResumeStep == ASSUME IInv, Resume PROVE IInv'
<1> DEFINE p == [Forgotten(pub) EXCEPT !.enabled = TRUE]
<1>1. /\ p \in Publisher
      /\ p.enabled /\ p.sure = pub.sure /\ p.confirmed = pub.confirmed
      /\ p.last = pub.last /\ p.revised = pub.revised /\ p.unrouted = pub.unrouted
      /\ p.handled = Nowhere /\ p.dirty = pub.dirty /\ p.timer = pub.timer
  BY Before, Enabling
<1>2. Consider(p) /\ online'
  BY DEF Resume
<1> HIDE DEF p
<1>3. /\ UNCHANGED <<events, node, sent, stream, known, told, spoiled, top, mark>>
      /\ InFlight' = InFlight
  BY DEF Resume, serverVars, wire, history, InFlight
<1>4. EntityOK'
  BY <1>3, Before
     DEF Resume, EntityOK, serverVars, archive, view, wire, seeds, history
<1>5. /\ mark'.ptr.named => mark'.ptr.pos # 0
      /\ p.dirty <= mark'.ptr.pos /\ p.handled.pos <= mark'.ptr.pos
      /\ \A c \in InFlight' : c <= mark'.ptr.pos
      /\ \A i \in Heads(stream') : stream'[i].type = "ack" => stream'[i].pos <= mark'.ptr.pos
      /\ reading.on => reading.ptr.pos <= mark'.ptr.pos /\ ~reading.ptr.named
  BY <1>1, <1>3, Before, NowherePointer DEF Behind
<1>6. p.last <= top' /\ p.unrouted <= top' /\ \A i \in Heads(stream') : stream'[i].pos <= top'
  BY <1>1, <1>3, Before DEF Archived
<1>7. Knows(p, told', node', stream', spoiled')
  <2>1. Knows(p, told, node, stream, spoiled)
    BY <1>1, Before DEF Aware, Knows
  <2> QED
    BY <1>3, <2>1
<1>8. \/ {"bookmark", "drop"} \subseteq events'
      \/ told' <= mark'.ptr.pos \/ told' \in {mark'.stash, p.unrouted}
  BY <1>1, <1>3, Before DEF Kept, MarkerKept
<1>9. /\ "bookmark" \notin events' => known'
      /\ known' => p.unrouted = 0
      /\ ~known' => /\ mark'.stash = 0 /\ ~p.timer /\ p.dirty = 0 /\ ~reading.on
                    /\ InFlight' = {}
                    /\ \A i \in Heads(stream') : stream'[i].type = "seed"
  BY <1>1, <1>3, Before DEF Routed
<1>10. ~(mark'.ptr.named /\ p.handled = mark'.ptr)
  BY <1>1, NowherePointer
<1> QED
  BY <1>1, <1>2, <1>4, <1>5, <1>6, <1>7, <1>8, <1>9, <1>10, Before, ConsiderStep

LEMMA ResolvedStep == ASSUME IInv, Resolved PROVE IInv'
<1> DEFINE c == ResolvedFromCache(reading.ptr)
           good == /\ c # 0 /\ reading.valid /\ pub.enabled /\ online
                   /\ mark.ptr = reading.ptr /\ Trustworthy
           p == IF good THEN Decided(pub, c) ELSE pub
<1>1. /\ UNCHANGED <<events, node, sent, stream, known, online, told, spoiled, top, mark>>
      /\ InFlight' = InFlight /\ reading.on
      /\ IF reading.owed THEN Pass(p) ELSE pub' = p /\ reading' = NoReading
  BY DEF Resolved, serverVars, session, wire, history, InFlight
<1>2. EntityOK' /\ mark' \in Mark
  BY <1>1, Before
     DEF Resolved, EntityOK, serverVars, archive, view, wire, seeds, history, session
<1>3. /\ reading.ptr \in Pointer /\ known /\ reading.ptr.pos <= mark.ptr.pos
      /\ ~reading.ptr.named
  BY <1>1, Before DEF Reading, Routed, Behind
<1>4. c \in 0..reading.ptr.pos
  BY <1>2, <1>3, ResolvedBehind
<1>5. c \in 0..MaxPos /\ c <= reading.ptr.pos
  <2>1. reading.ptr.pos \in 0..MaxPos /\ MaxPos \in Nat
    BY <1>3, Before DEF Pointer
  <2> HIDE DEF c
  <2> QED
    BY <1>4, <2>1
<1> HIDE DEF c

<1>6. /\ p \in Publisher /\ SameBook(p, pub)
      /\ p.dirty = pub.dirty \/ p.dirty = c
      /\ p.handled \in {pub.handled, mark'.ptr}
      /\ p.timer => pub.timer \/ (pub.enabled /\ online)
      /\ mark.ptr.named => p = pub
  <2>1. CASE good
    <3>1. pub \in Publisher /\ ~mark.ptr.named /\ pub.enabled /\ online
      BY <1>3, <2>1, Before
    <3>2. p = Decided(pub, c)
      BY <2>1
    <3> HIDE DEF p, good
    <3> QED
      BY <1>2, <1>5, <3>1, <3>2, DecidedFields, DecisionCases
  <2>2. CASE ~good
    <3>1. p = pub
      BY <2>2
    <3> HIDE DEF p, good
    <3> QED
      BY <3>1, Before DEF SameBook
  <2> QED
    BY <2>1, <2>2
<1> HIDE DEF p, good
<1>7. /\ mark'.ptr.named => mark'.ptr.pos # 0
      /\ p.dirty <= mark'.ptr.pos /\ p.handled.pos <= mark'.ptr.pos
      /\ \A e \in InFlight' : e <= mark'.ptr.pos
      /\ \A i \in Heads(stream') : stream'[i].type = "ack" => stream'[i].pos <= mark'.ptr.pos
      /\ reading.on => reading.ptr.pos <= mark'.ptr.pos /\ ~reading.ptr.named
  <2>1. /\ mark.ptr.named => mark.ptr.pos # 0
        /\ pub.dirty <= mark.ptr.pos /\ pub.handled.pos <= mark.ptr.pos
        /\ \A e \in InFlight : e <= mark.ptr.pos
        /\ \A i \in Heads(stream) : stream[i].type = "ack" => stream[i].pos <= mark.ptr.pos
        /\ reading.ptr.pos \in Nat /\ mark.ptr.pos \in Nat
    BY Before DEF Behind
  <2>2. mark' = mark /\ stream' = stream /\ InFlight' = InFlight
    BY <1>1
  <2>3. p.dirty <= mark.ptr.pos
    BY <1>3, <1>5, <1>6, <2>1
  <2>4. p.handled.pos <= mark.ptr.pos
    BY <1>6, <2>1, <2>2
  <2> QED
    BY <1>3, <2>1, <2>2, <2>3, <2>4
<1>8. /\ p.timer => p.enabled /\ online'
      /\ p.last <= top' /\ p.unrouted <= top' /\ \A i \in Heads(stream') : stream'[i].pos <= top'
      /\ "bookmark" \notin events' => known'
      /\ known' /\ p.unrouted = 0
      /\ \/ {"bookmark", "drop"} \subseteq events'
         \/ told' <= mark'.ptr.pos \/ told' \in {mark'.stash, p.unrouted}
  <2>1. UNCHANGED <<events, stream, known, online, told, top, mark>>
    BY <1>1
  <2> QED
    BY <1>3, <1>6, <2>1, Before DEF Archived, Attended, Routed, Kept, MarkerKept, SameBook
<1>9. Knows(p, told', node', stream', spoiled')
  <2>1. Knows(p, told, node, stream, spoiled)
    BY <1>6, Before, SameKnows DEF Aware
  <2> QED
    BY <1>1, <2>1
<1>10. ASSUME online', p.enabled, p.sure, ~spoiled', mark'.ptr.named
       PROVE  reading.owed /\ (p.handled = mark'.ptr => Way(mark'.ptr.pos, p, sent', stream'))
  <2>1. UNCHANGED <<sent, stream, online, spoiled, mark>> /\ reading.on
    BY <1>1
  <2>2. p = pub /\ mark.ptr.named /\ Knowing
    BY <1>6, <1>10, <2>1 DEF Knowing
  <2> QED
    BY <2>1, <2>2, KnownWay
<1>11. Considered(p) /\ Attended' /\ ReadIsOnItsWay'
  <2>0. reading \in Reading
    BY Before
  <2>1. CASE reading.owed
    <3>1. Idle(p) \/ Asks(p) \/ \E e \in 1..MaxPos : Decides(p, e)
      BY <1>1, <1>2, <1>6, <1>7, <2>1, PassCases
    <3> QED
      BY <1>2, <1>6, <1>8, <1>10, <2>0, <3>1, Consideration, ConsiderAttends
  <2>2. CASE ~reading.owed
    <3>1. pub' = p /\ reading' = NoReading /\ reading' \in Reading /\ ~reading'.on
      BY <1>1, <2>2, NotReading
    <3>2. Considered(p)
      BY <1>6, <3>1 DEF Considered, SameBook
    <3>3. ~(online' /\ pub'.enabled /\ pub'.sure /\ ~spoiled' /\ mark'.ptr.named)
      BY <1>10, <2>2, <3>1
    <3> QED
      BY <1>8, <3>1, <3>2, <3>3 DEF Attended, ReadIsOnItsWay
  <2> QED
    BY <2>1, <2>2
<1> QED
  BY <1>2, <1>6, <1>7, <1>8, <1>9, <1>11, OutcomeStep

\* r is q with e behind it.
Longer(r, q, e) ==
  /\ Heads(r) = Heads(q) \cup {Len(q) + 1}
  /\ r[Len(q) + 1] = e
  /\ \A i \in Heads(q) : r[i] = q[i] /\ i \in Nat /\ i < Len(q) + 1
  /\ Len(q) \in Nat

LEMMA Appended ==
  ASSUME NEW S, NEW q \in Seq(S), NEW e \in S
  PROVE  Append(q, e) \in Seq(S) /\ Longer(Append(q, e), q, e)
<1>1. Len(q) \in Nat
  BY LenProperties
<1>2. /\ Append(q, e) \in Seq(S) /\ Len(Append(q, e)) = Len(q) + 1
      /\ \A i \in 1 .. Len(q) : Append(q, e)[i] = q[i]
      /\ Append(q, e)[Len(q) + 1] = e
  BY AppendProperties
<1>3. Heads(Append(q, e)) = Heads(q) \cup {Len(q) + 1}
  <2> DEFINE n == Len(q)
  <2>1. n \in Nat /\ Heads(Append(q, e)) = 1 .. n + 1 /\ Heads(q) = 1 .. n
    BY <1>1, <1>2 DEF Heads
  <2> HIDE DEF n
  <2>2. 1 .. n + 1 = (1 .. n) \cup {n + 1}
    BY <2>1
  <2>3. Heads(Append(q, e)) = Heads(q) \cup {n + 1}
    BY <2>1, <2>2
  <2> QED
    BY <2>3 DEF n
<1>4. \A i \in Heads(q) : i \in Nat /\ i < Len(q) + 1
  BY <1>1 DEF Heads
<1>5. \A i \in Heads(q) : Append(q, e)[i] = q[i]
  BY <1>2 DEF Heads
<1> QED
  BY <1>1, <1>2, <1>3, <1>4, <1>5 DEF Longer

LEMMA AppendedPosition ==
  ASSUME NEW q \in Seq(0..MaxPos), NEW e \in 0..MaxPos
  PROVE  Append(q, e) \in Seq(0..MaxPos) /\ Longer(Append(q, e), q, e)
<1> DEFINE S == 0..MaxPos
<1>1. q \in Seq(S) /\ e \in S
  OBVIOUS
<1> HIDE DEF S
<1>2. Append(q, e) \in Seq(S) /\ Longer(Append(q, e), q, e)
  BY <1>1, Appended
<1> QED
  BY <1>2 DEF S

LEMMA Flushing ==
  ASSUME NEW p \in Publisher
  PROVE  LET q == [[p EXCEPT !.timer = FALSE] EXCEPT !.dirty = 0] IN
         /\ q \in Publisher /\ SameBook(q, p)
         /\ q.handled = p.handled /\ q.dirty = 0 /\ ~q.timer
<1> DEFINE r == [p EXCEPT !.timer = FALSE]
<1>1. r \in Publisher /\ SameBook(r, p) /\ r.handled = p.handled /\ ~r.timer
  BY DEF Publisher, SameBook
<1>2. 0 \in 0..MaxPos
  BY ReadAssumption
<1> HIDE DEF r
<1> DEFINE q == [r EXCEPT !.dirty = 0]
<1>3. q \in Publisher /\ SameBook(q, r) /\ q.handled = r.handled /\ q.dirty = 0 /\ q.timer = r.timer
  BY <1>1, <1>2 DEF Publisher, SameBook
<1> HIDE DEF q
<1>4. q \in Publisher /\ SameBook(q, p) /\ q.handled = p.handled /\ q.dirty = 0 /\ ~q.timer
  BY <1>1, <1>3 DEF SameBook
<1> QED
  BY <1>4 DEF q, r

LEMMA TimerFiresStep == ASSUME IInv, TimerFires PROVE IInv'
<1> DEFINE c == pub.dirty
           flushed == [[pub EXCEPT !.timer = FALSE] EXCEPT !.dirty = 0]
           publishes == Decision(pub, c) = "publish"
<1>1. /\ UNCHANGED <<events, node, stream, known, online, told, spoiled, top, mark, reading, mam>>
      /\ known /\ pub.enabled /\ online /\ pub.timer
  BY Before DEF TimerFires, serverVars, session, wire, history, Routed, Attended
<1>2. /\ flushed \in Publisher /\ SameBook(flushed, pub)
      /\ flushed.handled = pub.handled /\ flushed.dirty = 0 /\ ~flushed.timer
  BY Before, Flushing
<1>3. /\ Forgotten(flushed) \in Publisher /\ SameBook(Forgotten(flushed), flushed)
      /\ Forgotten(flushed).handled = Nowhere /\ Forgotten(flushed).dirty = 0
      /\ ~Forgotten(flushed).timer
  <2> HIDE DEF flushed
  <2> QED
    BY <1>2, ForgottenFields
<1>4. \/ /\ pub' = flushed /\ sent' = sent /\ c \in {0, pub.last}
      \/ /\ pub' = Forgotten(flushed) /\ sent' = sent /\ c \notin {0, pub.last}
         /\ ~Trustworthy \/ Decision(pub, c) = "retry"
      \/ /\ pub' = flushed /\ c \notin {0, pub.last}
         /\ Decision(pub, c) \in {"skip", "publish"}
         /\ sent' = IF publishes THEN Append(sent, c) ELSE sent
  <2>1. c \in 0..MaxPos
    BY Before DEF Publisher
  <2>2. Decision(pub, c) \in {"retry", "skip", "publish"}
    BY <2>1, Before, DecisionCases
  <2> QED
    BY <1>1, <2>2 DEF TimerFires
<1> HIDE DEF flushed
<1>5. /\ pub' \in Publisher /\ SameBook(pub', pub) /\ pub'.dirty = 0 /\ ~pub'.timer
      /\ pub'.handled \in {Nowhere, pub.handled}
  BY <1>2, <1>3, <1>4 DEF SameBook
<1>6. c \in Nat /\ c \in 0..MaxPos /\ c <= mark.ptr.pos /\ (c # 0 => c \in 1..MaxPos)
  BY Before DEF Publisher, Behind
<1>7. /\ sent' \in Seq(0..MaxPos)
      /\ \A i \in Heads(sent) : i \in Heads(sent') /\ sent'[i] = sent[i]
      /\ \A i \in Heads(sent') : (i \in Heads(sent) /\ sent'[i] = sent[i]) \/ sent'[i] = c
  <2>1. sent \in Seq(0..MaxPos)
    BY Before DEF EntityOK
  <2>2. CASE sent' = sent
    BY <2>1, <2>2
  <2>3. CASE sent' = Append(sent, c)
    <3>1. c \in 0..MaxPos
      BY <1>6
    <3> HIDE DEF c
    <3>2. Append(sent, c) \in Seq(0..MaxPos) /\ Longer(Append(sent, c), sent, c)
      BY <2>1, <3>1, AppendedPosition
    <3>3. sent' \in Seq(0..MaxPos) /\ Longer(sent', sent, c)
      BY <2>3, <3>2
    <3> QED
      BY <3>3 DEF Longer
  <2> QED
    BY <1>4, <2>2, <2>3
<1>8. \A e \in InFlight' : e <= mark.ptr.pos /\ known
  <2>1. \A e \in InFlight' : e \in InFlight \/ e = c
    BY <1>7 DEF InFlight, Heads
  <2> QED
    BY <1>1, <1>6, <2>1, Before DEF Behind
<1>9. EntityOK'
  BY <1>1, <1>7, Before
     DEF TimerFires, EntityOK, serverVars, archive, view, seeds, history, session
<1>10. Knows(pub', told', node', stream', spoiled')
  <2>1. Knows(pub', told, node, stream, spoiled)
    BY <1>5, Before, SameKnows DEF Aware
  <2> QED
    BY <1>1, <2>1
<1>11. Knowing' => Knowing
  BY <1>1, <1>5 DEF Knowing, SameBook
<1>12. ASSUME Way(mark.ptr.pos, pub, sent, stream), mark.ptr.named, mark.ptr.pos # c \/ c <= pub.last \/ sent' = Append(sent, c)
       PROVE  Way(mark.ptr.pos, pub', sent', stream')
  <2>1. pub'.last = pub.last /\ stream' = stream
    BY <1>1, <1>5 DEF SameBook
  <2>2. mark.ptr.pos # 0
    BY <1>12, Before DEF Behind
  <2>3. CASE mark.ptr.pos = c /\ sent' = Append(sent, c)
    <3>1. sent \in Seq(0..MaxPos)
      BY Before DEF EntityOK
    <3>2. c \in 0..MaxPos
      BY <1>6
    <3>3. Longer(sent', sent, c)
      <4> HIDE DEF c
      <4>1. Longer(Append(sent, c), sent, c)
        BY <3>1, <3>2, AppendedPosition
      <4> QED
        BY <2>3, <4>1
    <3>4. Len(sent) + 1 \in Heads(sent') /\ sent'[Len(sent) + 1] = c
      BY <3>3 DEF Longer
    <3> QED
      BY <2>2, <2>3, <3>4 DEF Way, Seed
  <2>4. CASE mark.ptr.pos = c /\ c <= pub.last
    BY <2>1, <2>4 DEF Way
  <2>5. CASE mark.ptr.pos # c
    BY <1>7, <1>12, <2>1, <2>5 DEF Way
  <2> QED
    BY <1>12, <2>3, <2>4, <2>5
<1>13. ASSUME Knowing', mark.ptr.named
       PROVE  /\ reading.on => reading.owed
              /\ pub'.handled = mark.ptr => Way(mark.ptr.pos, pub', sent', stream')
              /\ known /\ mam' \in {"none", "caughtUp"} /\ mark.stash = 0 /\ ~reading.on
                   => Way(mark.ptr.pos, pub', sent', stream')
  <2>1. mark.ptr.pos # 0 /\ pub.sure
    BY <1>11, <1>13, Before DEF Behind, Knowing
  <2>2. /\ pub.handled = mark.ptr => Way(mark.ptr.pos, pub, sent, stream)
        /\ known /\ mam \in {"none", "caughtUp"} /\ mark.stash = 0 /\ ~reading.on
             => Way(mark.ptr.pos, pub, sent, stream)
        /\ reading.on => reading.owed
    BY <1>11, <1>13, KnownWay
  <2>3. mam' = mam
    BY <1>1
  <2>4. CASE c \in {0, pub.last} /\ pub' = flushed
    <3>1. mark.ptr.pos # c \/ c <= pub.last
      BY <1>6, <2>1, <2>4
    <3> QED
      BY <1>2, <1>12, <1>13, <2>2, <2>3, <2>4, <3>1
  <2>5. CASE pub' = Forgotten(flushed) /\ c # 0 /\ (~Trustworthy \/ Decision(pub, c) = "retry")
    <3>1. pub'.handled # mark.ptr
      BY <1>3, <1>13, <2>5, NowherePointer
    <3>2. Decision(pub, c) = "retry" => mark.stash # 0
      <4>1. c \in 1..MaxPos /\ mark' = mark
        BY <1>1, <1>6, <2>5
      <4> HIDE DEF c
      <4> QED
        BY <2>1, <4>1, Before, Deciding
    <3> QED
      BY <2>2, <2>3, <2>5, <3>1, <3>2 DEF Trustworthy
  <2>6. CASE pub' = flushed /\ c # 0 /\ Decision(pub, c) = "skip"
    <3>1. c <= pub.last
      <4>1. c \in 1..MaxPos
        BY <1>6, <2>6
      <4> HIDE DEF c
      <4> QED
        BY <2>6, <4>1, Before, Deciding
    <3> QED
      BY <1>2, <1>12, <1>13, <2>2, <2>3, <2>6, <3>1
  <2>7. CASE pub' = flushed /\ sent' = Append(sent, c)
    BY <1>2, <1>12, <1>13, <2>2, <2>3, <2>7
  <2> QED
    BY <1>4, <2>4, <2>5, <2>6, <2>7
<1>14. /\ pub'.last <= top' /\ pub'.unrouted <= top'
       /\ known => pub'.unrouted = 0
       /\ reading' \in Reading
  BY <1>1, <1>5, Before DEF Archived, Routed, SameBook
<1>15. \A i \in Heads(stream') : /\ stream'[i].pos <= top'
                                 /\ stream'[i].type = "ack" => stream'[i].pos <= mark.ptr.pos
                                 /\ ~known => stream'[i].type = "seed"
  BY <1>1, Before DEF Archived, Behind
<1>16. \/ {"bookmark", "drop"} \subseteq events
       \/ told' <= mark.ptr.pos \/ told' \in {mark.stash, pub'.unrouted}
  BY <1>1, <1>5, Before DEF Kept, MarkerKept, SameBook
<1>17. /\ UNCHANGED <<events, known, mark>>
       /\ reading'.on = reading.on /\ reading'.ptr = reading.ptr /\ reading'.owed = reading.owed
       /\ pub'.dirty \in {0, c} /\ (pub'.timer => pub.timer) /\ (pub'.timer => pub'.enabled /\ online')
  BY <1>1, <1>5
<1>18. /\ Knowing' /\ mark.ptr.named /\ reading.on => reading.owed
       /\ Knowing' /\ mark.ptr.named /\ pub'.handled = mark.ptr
            => Way(mark.ptr.pos, pub', sent', stream')
       /\ Knowing' /\ known /\ mam' \in {"none", "caughtUp"} /\ mark.ptr.named /\ mark.stash = 0
            /\ ~reading.on => Way(mark.ptr.pos, pub', sent', stream')
  BY <1>13
<1> QED
  BY <1>5, <1>8, <1>9, <1>10, <1>14, <1>15, <1>16, <1>17, <1>18, FrameStep

LEMMA TwoMore ==
  ASSUME NEW S, NEW q \in Seq(S), NEW a \in S, NEW b \in S
  PROVE  q \o <<a, b>> = Append(Append(q, a), b)
<1>1. <<a>> \in Seq(S) /\ <<b>> \in Seq(S)
  OBVIOUS
<1>2. <<a, b>> = <<a>> \o <<b>>
  <2>1. Append(<<a>>, b) = <<a>> \o <<b>>
    BY <1>1, AppendIsConcat
  <2> DEFINE l == Append(<<a>>, b)
             r == <<a, b>>
  <2>2. /\ l \in Seq(S) /\ Len(l) = Len(<<a>>) + 1
        /\ l[1] = <<a>>[1] /\ l[Len(<<a>>) + 1] = b
    BY <1>1, AppendProperties
  <2>3. Len(<<a>>) = 1 /\ <<a>>[1] = a
    OBVIOUS
  <2>4. Len(l) = 2 /\ l[1] = a /\ l[2] = b
    BY <2>2, <2>3
  <2>5. r \in Seq(S) /\ Len(r) = 2 /\ r[1] = a /\ r[2] = b
    OBVIOUS
  <2> HIDE DEF l, r
  <2>6. \A i \in 1 .. Len(l) : l[i] = r[i]
    BY <2>4, <2>5
  <2>7. l = r
    BY <2>2, <2>4, <2>5, <2>6, SeqEqual
  <2> QED
    BY <2>1, <2>7 DEF l, r
<1>3. Append(q, a) = q \o <<a>> /\ Append(q, a) \in Seq(S)
  BY AppendIsConcat, AppendProperties
<1>4. Append(Append(q, a), b) = Append(q, a) \o <<b>>
  BY <1>3, AppendIsConcat
<1>5. (q \o <<a>>) \o <<b>> = q \o (<<a>> \o <<b>>)
  BY <1>1, ConcatAssociative
<1> QED
  BY <1>2, <1>3, <1>4, <1>5

\* Something the node was at m for, not before n, is told behind the rest.
LEMMA KnowsLonger ==
  ASSUME NEW p, NEW t, NEW n \in Nat, NEW m \in Nat, NEW q, NEW r, NEW e, NEW gone,
         Knows(p, t, n, q, gone), p.last \in Nat, \A i \in Heads(q) : q[i].pos \in Nat,
         Longer(r, q, e), e.pos = m, n <= m
  PROVE  Knows(p, t, m, r, gone)
<1> DEFINE k == Len(q) + 1
<1>1. /\ Heads(r) = Heads(q) \cup {k} /\ r[k].pos = m /\ k \in Nat
      /\ \A i \in Heads(q) : r[i] = q[i] /\ i \in Nat /\ i < k
  BY DEF Longer
<1> HIDE DEF k
<1>2. ASSUME ~gone, NEW i \in Heads(q) PROVE r[i].pos \in Nat /\ r[i].pos <= m
  BY <1>1, <1>2 DEF Knows
<1>3. ASSUME ~gone, NEW i \in Heads(r), NEW j \in Heads(r), i <= j PROVE r[i].pos <= r[j].pos
  <2>1. CASE i \in Heads(q) /\ j \in Heads(q)
    BY <1>1, <1>3, <2>1 DEF Knows
  <2>2. CASE i \in Heads(q) /\ j = k
    BY <1>1, <1>2, <1>3, <2>2
  <2>3. CASE i = k /\ j = k
    BY <1>1, <2>3
  <2>4. ~(i = k /\ j \in Heads(q))
    BY <1>1, <1>3
  <2> QED
    BY <1>1, <2>1, <2>2, <2>3, <2>4
<1>4. ASSUME ~gone, NEW i \in Heads(r) PROVE r[i].pos <= m
  BY <1>1, <1>2, <1>4
<1>5. ASSUME ~gone, p.sure \/ p.confirmed, NEW i \in Heads(r) PROVE p.last <= r[i].pos
  <2>1. p.last <= n
    BY <1>5 DEF Knows
  <2>2. CASE i \in Heads(q)
    BY <1>1, <1>5, <2>2 DEF Knows
  <2> QED
    BY <1>1, <2>1, <2>2
<1>6. ASSUME ~gone, p.sure \/ p.confirmed PROVE p.last <= m
  BY <1>6 DEF Knows
<1> QED
  BY <1>3, <1>4, <1>5, <1>6 DEF Knows

LEMMA HeardFields ==
  ASSUME NEW c \in 0..MaxPos
  PROVE  /\ Notify(c) \in Heard /\ Notify(c).type = "notify" /\ Notify(c).pos = c
         /\ SeedAnswer(c) \in Heard /\ SeedAnswer(c).type = "seed" /\ SeedAnswer(c).pos = c
BY DEF Notify, SeedAnswer, Heard

\* The server has taken the oldest thing that was sent.
LEMMA Taking ==
  ASSUME IInv, ServerTakes
  PROVE  /\ sent[1] = Head(sent) /\ sent[1] \in 0..MaxPos /\ sent' \in Seq(0..MaxPos)
         /\ \A i \in Heads(sent) : i = 1 \/ \E j \in Heads(sent') : sent'[j] = sent[i]
         /\ \A e \in InFlight' : e <= mark.ptr.pos /\ known
         /\ sent[1] # Seed => sent[1] <= mark.ptr.pos /\ known /\ sent[1] <= top
         /\ UNCHANGED <<events, top, online, known, mam, mark, pub, reading, told>>
<1>1. sent \in Seq(0..MaxPos) /\ sent # <<>> /\ sent' = Tail(sent)
  BY Before DEF EntityOK, ServerTakes
<1>2. /\ Tail(sent) \in Seq(0..MaxPos) /\ Head(sent) = sent[1] /\ 1 \in Heads(sent)
      /\ \A i \in Heads(Tail(sent)) : i + 1 \in Heads(sent) /\ Tail(sent)[i] = sent[i + 1]
      /\ \A i \in Heads(sent) : i # 1 => i - 1 \in Heads(Tail(sent)) /\ Tail(sent)[i - 1] = sent[i]
  <2> DEFINE S == 0..MaxPos
  <2>1. sent \in Seq(S) /\ sent # <<>>
    BY <1>1
  <2> HIDE DEF S
  <2>2. /\ Tail(sent) \in Seq(S) /\ Head(sent) = sent[1] /\ 1 \in Heads(sent)
        /\ \A i \in Heads(Tail(sent)) : i + 1 \in Heads(sent) /\ Tail(sent)[i] = sent[i + 1]
        /\ \A i \in Heads(sent) : i # 1 => i - 1 \in Heads(Tail(sent)) /\ Tail(sent)[i - 1] = sent[i]
    BY <2>1, Tailed
  <2> QED
    BY <2>2 DEF S
<1>3. sent[1] \in 0..MaxPos
  BY <1>2, Before, WireTyped
<1>4. \A e \in InFlight' : e \in InFlight
  BY <1>1, <1>2 DEF InFlight, Heads
<1>5. sent[1] # Seed => sent[1] \in InFlight
  BY <1>2 DEF InFlight, Heads
<1>6. \A e \in InFlight : e <= mark.ptr.pos /\ known
  BY Before DEF Behind, Routed
<1>7. mark.ptr.pos <= top /\ top \in Nat /\ mark.ptr.pos \in Nat /\ MaxPos \in Nat
  BY Before, MarkTyped
<1>8. sent[1] # Seed => sent[1] <= top
  BY <1>3, <1>5, <1>6, <1>7
<1>9. UNCHANGED <<events, top, online, known, mam, mark, pub, reading, told>>
  BY DEF ServerTakes, serverUnchanged, session
<1> QED
  BY <1>1, <1>2, <1>3, <1>4, <1>5, <1>6, <1>8, <1>9

\* A step of the server or of another device, after which the stream has grown.
LEMMA ServedStep ==
  ASSUME IInv, UNCHANGED <<events, top, online, known, mam, mark, pub, reading, told>>, EntityOK',
         \A e \in InFlight' : e <= mark.ptr.pos /\ known,
         \A i \in Heads(stream') :
           \/ i \in Heads(stream) /\ stream'[i] = stream[i]
           \/ /\ stream'[i].pos <= top
              /\ stream'[i].type = "ack" => stream'[i].pos <= mark.ptr.pos
              /\ ~known => stream'[i].type = "seed",
         Knows(pub, told, node', stream', spoiled'),
         Knowing' => ~spoiled,
         Knowing' /\ Way(mark.ptr.pos, pub, sent, stream) => Way(mark.ptr.pos, pub, sent', stream')
  PROVE  IInv'
<1>1. \A i \in Heads(stream') : /\ stream'[i].pos <= top'
                                /\ stream'[i].type = "ack" => stream'[i].pos <= mark.ptr.pos
                                /\ ~known => stream'[i].type = "seed"
  BY Before DEF Archived, Behind, Routed
<1>2. /\ pub'.last <= top' /\ pub'.unrouted <= top'
      /\ known => pub'.unrouted = 0
      /\ pub'.timer => pub'.enabled /\ online'
      /\ pub' \in Publisher /\ reading' \in Reading
  BY Before DEF Archived, Routed, Attended
<1>3. Knowing' => Knowing /\ pub'.handled = pub.handled
  BY DEF Knowing
<1>4. \/ {"bookmark", "drop"} \subseteq events
      \/ told' <= mark.ptr.pos \/ told' \in {mark.stash, pub'.unrouted}
  BY Before DEF Kept, MarkerKept
<1>5. Knows(pub', told', node', stream', spoiled')
  OBVIOUS
<1>6. Knowing' /\ Way(mark.ptr.pos, pub, sent, stream) => Way(mark.ptr.pos, pub', sent', stream')
  OBVIOUS
<1> QED
  BY <1>1, <1>2, <1>3, <1>4, <1>5, <1>6, Before, CarryStep

LEMMA HeardNat == ASSUME IInv PROVE /\ stream \in Seq(Heard)
                                    /\ \A i \in Heads(stream) : stream[i].pos \in Nat
BY Before, WireTyped DEF EntityOK

LEMMA WaySame == ASSUME NEW c, NEW p, NEW s, NEW q, NEW t, NEW r, NEW e, Way(c, p, s, q),
                        \A i \in Heads(s) : s[i] = c /\ c # Seed => \E j \in Heads(t) : t[j] = c,
                        Longer(r, q, e)
                 PROVE  Way(c, p, t, r)
BY DEF Way, Longer

LEMMA ServedTyped ==
  ASSUME IInv, ServerTakes, node' \in 0..top', stream' \in Seq(Heard), spoiled' \in BOOLEAN
  PROVE  EntityOK'
<1>1. sent' \in Seq(0..MaxPos)
  BY Taking
<1>2. UNCHANGED <<events, top, online, resumable, known, cache, unnamed, active, resident, mam,
                  mark, seed, staleSeed, drops, told>>
  BY DEF ServerTakes, serverUnchanged, session, archive, view, seeds
<1> QED
  BY <1>1, <1>2, Before DEF EntityOK

LEMMA ServesSeed == ASSUME IInv, ServerTakes, Head(sent) = Seed PROVE IInv'
<1> DEFINE a == SeedAnswer(node)
<1>1. /\ stream' = Append(stream, a) /\ node' = node /\ spoiled' = spoiled
  BY DEF ServerTakes
<1>2. node \in 0..MaxPos /\ node <= top /\ a \in Heard /\ a.type = "seed" /\ a.pos = node
  <2>1. node \in 0..MaxPos
    BY Before
  <2> QED
    BY <2>1, Before, HeardFields
<1> HIDE DEF a
<1>3. stream' \in Seq(Heard) /\ Longer(stream', stream, a)
  <2>1. Append(stream, a) \in Seq(Heard) /\ Longer(Append(stream, a), stream, a)
    BY <1>2, HeardNat, Appended
  <2> QED
    BY <1>1, <2>1
<1>4. EntityOK'
  <2>1. node' \in 0..top' /\ spoiled' \in BOOLEAN
    BY <1>1, Taking, Before DEF EntityOK
  <2> QED
    BY <1>3, <2>1, ServedTyped
<1>5. Knows(pub, told, node', stream', spoiled')
  <2>1. Knows(pub, told, node, stream', spoiled)
    BY <1>2, <1>3, HeardNat, Before, KnowsLonger DEF Aware
  <2> QED
    BY <1>1, <2>1
<1>6. \A i \in Heads(stream') :
           \/ i \in Heads(stream) /\ stream'[i] = stream[i]
           \/ /\ stream'[i].pos <= top
              /\ stream'[i].type = "ack" => stream'[i].pos <= mark.ptr.pos
              /\ ~known => stream'[i].type = "seed"
  <2>1. Heads(stream') = Heads(stream) \cup {Len(stream) + 1} /\ stream'[Len(stream) + 1] = a
        /\ \A i \in Heads(stream) : stream'[i] = stream[i]
    BY <1>3 DEF Longer
  <2>2. a.pos <= top /\ (a.type = "ack" => a.pos <= mark.ptr.pos) /\ (~known => a.type = "seed")
    BY <1>2
  <2> QED
    BY <2>1, <2>2
<1>7. ASSUME Way(mark.ptr.pos, pub, sent, stream) PROVE Way(mark.ptr.pos, pub, sent', stream')
  <2>1. \A i \in Heads(sent) : sent[i] = mark.ptr.pos /\ mark.ptr.pos # Seed
          => \E j \in Heads(sent') : sent'[j] = mark.ptr.pos
    BY Taking
  <2> QED
    BY <1>3, <1>7, <2>1, WaySame
<1>8. Knowing' => ~spoiled
  BY <1>1 DEF Knowing
<1>9. \A e \in InFlight' : e <= mark.ptr.pos /\ known
  BY Taking
<1> QED
  BY <1>4, <1>5, <1>6, <1>7, <1>8, <1>9, Taking, ServedStep

LEMMA Accepts ==
  ASSUME IInv, ServerTakes, Head(sent) # Seed, node' = Head(sent),
         stream' = stream \o <<Ack(Head(sent)), Notify(Head(sent))>>,
         spoiled' = (spoiled \/ Head(sent) < node)
  PROVE  IInv'
<1> DEFINE c == sent[1]
           a == Ack(c)
           n == Notify(c)
           mid == Append(stream, a)
<1>1. /\ c = Head(sent) /\ c \in 0..MaxPos /\ c \in Nat /\ c # Seed
      /\ c <= mark.ptr.pos /\ known /\ c <= top
  BY Taking, Before
<1>2. node' = c /\ stream' = stream \o <<a, n>> /\ spoiled' = (spoiled \/ c < node)
  BY <1>1
<1>3. /\ a \in Heard /\ a.type = "ack" /\ a.pos = c
      /\ n \in Heard /\ n.type = "notify" /\ n.pos = c
  <2> HIDE DEF c
  <2> QED
    BY <1>1, HeardFields, AckFields
<1> HIDE DEF a, n
<1>4. mid \in Seq(Heard) /\ Longer(mid, stream, a)
  BY <1>3, HeardNat, Appended
<1>5. stream' \in Seq(Heard) /\ Longer(stream', mid, n)
  <2>1. stream \o <<a, n>> = Append(mid, n)
    BY <1>3, HeardNat, TwoMore
  <2> HIDE DEF mid
  <2>2. Append(mid, n) \in Seq(Heard) /\ Longer(Append(mid, n), mid, n)
    BY <1>3, <1>4, Appended
  <2> QED
    BY <1>2, <2>1, <2>2
<1> HIDE DEF mid, c
<1>6. EntityOK'
  <2>1. node' \in 0..top' /\ top' = top
    BY <1>1, <1>2, Taking
  <2>2. spoiled' \in BOOLEAN
    BY <1>2, Before DEF EntityOK
  <2> QED
    BY <1>5, <2>1, <2>2, ServedTyped
<1>7. Knows(pub, told, node', stream', spoiled')
  <2>0. Knows(pub, told, node, stream, spoiled) /\ node \in Nat
    BY Before DEF Aware
  <2>1. Knows(pub, told, node, stream, spoiled') /\ (~spoiled' => node <= c)
    <3>1. (spoiled => spoiled') /\ (~spoiled' => ~(c < node))
      BY <1>2
    <3>2. ~spoiled' => node <= c
      BY <1>1, <2>0, <3>1
    <3> QED
      BY <2>0, <3>1, <3>2 DEF Knows
  <2>2. \A i \in Heads(mid) : mid[i].pos \in Nat
    BY <1>1, <1>3, <1>4, HeardNat DEF Longer
  <2>3. CASE spoiled'
    BY <2>1, <2>3 DEF Knows
  <2>4. CASE ~spoiled'
    <3>1. Knows(pub, told, c, mid, spoiled')
      BY <1>1, <1>3, <1>4, <2>1, <2>4, HeardNat, Before, KnowsLonger
    <3>2. Knows(pub, told, c, stream', spoiled')
      BY <1>1, <1>3, <1>5, <2>2, <3>1, Before, KnowsLonger
    <3> QED
      BY <1>2, <3>2
  <2> QED
    BY <2>3, <2>4
<1>8. \A i \in Heads(stream') :
           \/ i \in Heads(stream) /\ stream'[i] = stream[i]
           \/ /\ stream'[i].pos <= top
              /\ stream'[i].type = "ack" => stream'[i].pos <= mark.ptr.pos
              /\ ~known => stream'[i].type = "seed"
  <2>1. Heads(stream') = Heads(mid) \cup {Len(mid) + 1} /\ stream'[Len(mid) + 1] = n
        /\ \A i \in Heads(mid) : stream'[i] = mid[i]
    BY <1>5 DEF Longer
  <2>2. Heads(mid) = Heads(stream) \cup {Len(stream) + 1} /\ mid[Len(stream) + 1] = a
        /\ \A i \in Heads(stream) : mid[i] = stream[i]
    BY <1>4 DEF Longer
  <2>3. /\ a.pos <= top /\ a.pos <= mark.ptr.pos /\ known
        /\ n.pos <= top /\ n.type # "ack"
    BY <1>1, <1>3
  <2> QED
    BY <2>1, <2>2, <2>3
<1>9. ASSUME Way(mark.ptr.pos, pub, sent, stream) PROVE Way(mark.ptr.pos, pub, sent', stream')
  <2>1. \A i \in Heads(sent) : sent[i] = mark.ptr.pos /\ mark.ptr.pos # Seed
          => sent[i] = c \/ \E j \in Heads(sent') : sent'[j] = mark.ptr.pos
    BY Taking DEF c
  <2>2. \A i \in Heads(stream) : i \in Heads(stream') /\ stream'[i] = stream[i]
    BY <1>4, <1>5 DEF Longer
  <2>3. \E j \in Heads(stream') : stream'[j] = Ack(c)
    BY <1>4, <1>5 DEF Longer, a
  <2>4. \A i \in Heads(sent) : sent[i] = mark.ptr.pos /\ mark.ptr.pos # Seed =>
           \/ \E j \in Heads(sent') : sent'[j] = mark.ptr.pos
           \/ \E j \in Heads(stream') : stream'[j] = Ack(mark.ptr.pos)
    BY <2>1, <2>3
  <2> QED
    BY <1>9, <2>2, <2>4 DEF Way
<1>10. Knowing' => ~spoiled
  BY <1>2 DEF Knowing
<1>11. \A e \in InFlight' : e <= mark.ptr.pos /\ known
  BY Taking
<1> QED
  BY <1>6, <1>7, <1>8, <1>9, <1>10, <1>11, Taking, ServedStep

LEMMA Refuses ==
  ASSUME IInv, ServerTakes, spoiled' = TRUE, UNCHANGED <<node, stream>>
  PROVE  IInv'
<1>1. EntityOK'
  <2>1. node' \in 0..top' /\ stream' \in Seq(Heard) /\ spoiled' \in BOOLEAN
    BY Taking, Before DEF EntityOK
  <2> QED
    BY <2>1, ServedTyped
<1>2. Knows(pub, told, node', stream', spoiled')
  BY Before DEF Aware, Knows
<1>3. ~Knowing'
  BY DEF Knowing
<1>4. \A e \in InFlight' : e <= mark.ptr.pos /\ known
  BY Taking
<1> QED
  BY <1>1, <1>2, <1>3, <1>4, Taking, ServedStep

LEMMA ServerTakesStep == ASSUME IInv, ServerTakes PROVE IInv'
BY ServesSeed, Accepts, Refuses DEF ServerTakes

LEMMA PeerPublishesStep == ASSUME IInv, PeerPublishes PROVE IInv'
<1>1. PICK p \in node + 1 .. top :
        node' = p /\ stream' = IF Reachable THEN Append(stream, Notify(p)) ELSE stream
  BY DEF PeerPublishes
<1>2. p \in Nat /\ p \in 0..MaxPos /\ p <= top /\ node <= p /\ node \in Nat
  BY Before
<1>3. UNCHANGED <<events, top, online, known, mam, mark, pub, reading, told, sent, spoiled>>
  BY DEF PeerPublishes, serverUnchanged, session
<1>4. Notify(p) \in Heard /\ Notify(p).type = "notify" /\ Notify(p).pos = p
  BY <1>2, HeardFields
<1>5. \/ stream' = stream
      \/ known /\ stream' \in Seq(Heard) /\ Longer(stream', stream, Notify(p))
  <2>1. CASE ~Reachable
    BY <1>1, <2>1
  <2>2. CASE Reachable
    <3>1. Append(stream, Notify(p)) \in Seq(Heard) /\ Longer(Append(stream, Notify(p)), stream, Notify(p))
      BY <1>4, HeardNat, Appended
    <3>2. known
      BY <2>2 DEF PeerPublishes
    <3> QED
      BY <1>1, <2>2, <3>1, <3>2
  <2> QED
    BY <2>1, <2>2
<1>6. EntityOK'
  <2>1. node' \in 0..top' /\ stream' \in Seq(Heard)
    BY <1>1, <1>2, <1>3, <1>5, HeardNat
  <2> QED
    BY <1>3, <2>1, Before
       DEF EntityOK, PeerPublishes, serverUnchanged, session, archive, view, seeds
<1>7. Knows(pub, told, node', stream', spoiled')
  <2>1. Knows(pub, told, node, stream, spoiled)
    BY Before DEF Aware
  <2>2. CASE stream' = stream
    <3>1. Knows(pub, told, p, stream, spoiled)
      BY <1>2, <2>1, HeardNat, Before DEF Knows
    <3> QED
      BY <1>1, <1>3, <2>2, <3>1
  <2>3. CASE Longer(stream', stream, Notify(p))
    <3>1. Knows(pub, told, p, stream', spoiled)
      BY <1>2, <1>4, <2>1, <2>3, HeardNat, Before, KnowsLonger
    <3> QED
      BY <1>1, <1>3, <3>1
  <2> QED
    BY <1>5, <2>2, <2>3
<1>8. \A i \in Heads(stream') :
           \/ i \in Heads(stream) /\ stream'[i] = stream[i]
           \/ /\ stream'[i].pos <= top
              /\ stream'[i].type = "ack" => stream'[i].pos <= mark.ptr.pos
              /\ ~known => stream'[i].type = "seed"
  BY <1>2, <1>4, <1>5 DEF Longer
<1>9. ASSUME Way(mark.ptr.pos, pub, sent, stream) PROVE Way(mark.ptr.pos, pub, sent', stream')
  <2>1. \A i \in Heads(sent) : sent[i] = mark.ptr.pos /\ mark.ptr.pos # Seed
          => \E j \in Heads(sent') : sent'[j] = mark.ptr.pos
    BY <1>3
  <2> QED
    BY <1>3, <1>5, <1>9, <2>1, WaySame
<1>10. Knowing' => ~spoiled
  BY <1>3 DEF Knowing
<1>11. \A e \in InFlight' : e <= mark.ptr.pos /\ known
  BY <1>3, Before DEF Behind, Routed, InFlight
<1> QED
  BY <1>3, <1>6, <1>7, <1>8, <1>9, <1>10, <1>11, ServedStep

\* A step after which no session knows the node.
LEMMA UnknowingStep ==
  ASSUME IInv, EntityOK', UNCHANGED <<events, known, mark>>, ~Knowing',
         pub' \in Publisher, reading' \in Reading,
         reading'.on = reading.on, reading'.ptr = reading.ptr, reading'.owed = reading.owed,
         pub'.dirty \in {0, pub.dirty}, pub'.handled \in {Nowhere, pub.handled},
         pub'.timer => pub.timer, known => pub'.unrouted = 0,
         \A c \in InFlight' : c \in InFlight,
         stream' \in {stream, <<>>}, told' = told,
         pub'.last = pub.last, pub'.unrouted \in {0, pub.unrouted}, top <= top', top' \in Nat,
         Knows(pub', told', node', stream', spoiled'),
         pub'.unrouted = pub.unrouted \/ "drop" \in events,
         pub'.timer => pub'.enabled /\ online'
  PROVE  IInv'
<1>1. \A c \in InFlight' : c <= mark.ptr.pos /\ known
  BY Before DEF Behind, Routed
<1>2. \A i \in Heads(stream') : /\ stream'[i].pos <= top'
                                /\ stream'[i].type = "ack" => stream'[i].pos <= mark.ptr.pos
                                /\ ~known => stream'[i].type = "seed"
  <2>1. CASE stream' = <<>>
    BY <2>1 DEF Heads
  <2>2. CASE stream' = stream
    <3>1. \A i \in Heads(stream) : stream[i].pos \in Nat /\ stream[i].pos <= top
      BY Before, HeardNat DEF Archived
    <3>2. \A i \in Heads(stream) : stream[i].pos <= top'
      BY <3>1, Before
    <3> QED
      BY <2>2, <3>2, Before DEF Behind, Routed
  <2> QED
    BY <2>1, <2>2
<1>3. pub'.last <= top' /\ pub'.unrouted <= top'
  BY Before DEF Archived
<1>4. \/ {"bookmark", "drop"} \subseteq events
      \/ told' <= mark.ptr.pos \/ told' \in {mark.stash, pub'.unrouted}
  BY Before DEF Kept, MarkerKept, Routed
<1> QED
  BY <1>1, <1>2, <1>3, <1>4, FrameStep

LEMMA ServerArchivesStep == ASSUME IInv, ServerArchives PROVE IInv'
<1>1. /\ UNCHANGED <<events, online, known, mam, mark, pub, reading, told, sent, stream, spoiled, node,
                     resumable, cache, unnamed, active, resident, seed, staleSeed, drops>>
      /\ ~online /\ top' = top + 1 /\ top < MaxPos
  BY DEF ServerArchives, serverUnchanged, session, wire, seeds, archive, view
<1>2. top' \in 0..MaxPos /\ top <= top' /\ top' \in Nat /\ top \in Nat
  BY <1>1, Before
<1>3. EntityOK'
  <2>1. node' \in 0..top' /\ cache' \subseteq 1..top' /\ mark'.ptr.pos <= top' /\ mark'.stash <= top'
    <3>1. /\ node \in 0..top /\ cache \subseteq 1..top /\ mark.ptr.pos <= top /\ mark.stash <= top
          /\ mark.ptr.pos \in Nat /\ mark.stash \in Nat
      BY Before, MarkTyped DEF EntityOK
    <3>2. node \in 0..top' /\ cache \subseteq 1..top' /\ mark.ptr.pos <= top' /\ mark.stash <= top'
      BY <1>2, <3>1
    <3> QED
      BY <1>1, <3>2
  <2> QED
    BY <1>1, <1>2, <2>1, Before DEF EntityOK
<1>4. InFlight' = InFlight /\ ~Knowing'
  BY <1>1 DEF InFlight, Knowing
<1>5. Knows(pub', told', node', stream', spoiled')
  BY <1>1, Before DEF Aware
<1>6. (known => pub'.unrouted = 0) /\ (pub'.timer => pub'.enabled /\ online')
  BY <1>1, Before DEF Routed, Attended
<1> QED
  BY <1>1, <1>2, <1>3, <1>4, <1>5, <1>6, Before, UnknowingStep

LEMMA GoingOnline ==
  ASSUME NEW p \in Publisher
  PROVE  LET q == [p EXCEPT !.enabled = FALSE, !.sure = FALSE, !.confirmed = FALSE, !.revised = FALSE] IN
         /\ q \in Publisher /\ ~q.enabled /\ ~q.sure /\ ~q.confirmed /\ ~q.revised
         /\ q.last = p.last /\ q.unrouted = p.unrouted
         /\ q.handled = p.handled /\ q.dirty = p.dirty /\ q.timer = p.timer
BY DEF Publisher

LEMMA Invalid ==
  ASSUME NEW r \in Reading
  PROVE  LET q == [r EXCEPT !.valid = FALSE] IN
         q \in Reading /\ q.on = r.on /\ q.ptr = r.ptr /\ q.owed = r.owed
BY DEF Reading

LEMMA GoOnlineStep == ASSUME IInv, GoOnline PROVE IInv'
<1>1. /\ UNCHANGED <<events, top, node, known, mark, told, cache, unnamed, active, resident, drops>>
      /\ ~online /\ online' = TRUE /\ resumable' = FALSE /\ spoiled' = FALSE
      /\ sent' = <<Seed>> /\ stream' = <<>> /\ mam' = "none"
      /\ seed' = TRUE /\ staleSeed' = (staleSeed \/ seed)
  BY DEF GoOnline, serverVars, archive, view
<1>2. /\ pub' \in Publisher /\ ~pub'.enabled /\ ~pub'.sure /\ ~pub'.confirmed /\ ~pub'.revised
      /\ pub'.last = pub.last /\ pub'.unrouted = pub.unrouted
      /\ pub'.handled = pub.handled /\ pub'.dirty = pub.dirty /\ pub'.timer = pub.timer
  <2>1. pub' = [pub EXCEPT !.enabled = FALSE, !.sure = FALSE, !.confirmed = FALSE, !.revised = FALSE]
    BY DEF GoOnline
  <2> QED
    BY <2>1, Before, GoingOnline
<1>3. reading' \in Reading /\ reading'.on = reading.on /\ reading'.ptr = reading.ptr
      /\ reading'.owed = reading.owed
  <2>1. reading' = [reading EXCEPT !.valid = FALSE]
    BY DEF GoOnline
  <2> QED
    BY <2>1, Before, Invalid
<1>4. EntityOK'
  <2>1. sent' \in Seq(0..MaxPos) /\ stream' \in Seq(Heard)
    <3>1. Seed \in 0..MaxPos
      BY ReadAssumption DEF Seed
    <3> QED
      BY <1>1, <3>1
  <2>2. staleSeed' \in BOOLEAN /\ seed' \in BOOLEAN
    BY <1>1, Before DEF EntityOK
  <2> QED
    BY <1>1, <2>1, <2>2, Before DEF EntityOK
<1>5. InFlight' = {}
  <2>1. Len(sent') = 1 /\ sent'[1] = Seed
    BY <1>1
  <2> QED
    BY <2>1 DEF InFlight
<1>6. Knows(pub', told', node', stream', spoiled')
  <2>1. Heads(stream') = {}
    BY <1>1 DEF Heads
  <2> QED
    BY <1>2, <2>1 DEF Knows
<1>7. ~Knowing' /\ ~pub'.timer /\ (known => pub'.unrouted = 0) /\ top <= top' /\ top' \in Nat
  BY <1>1, <1>2, Before DEF Knowing, Attended, Routed
<1>8. stream' = <<>> /\ told' = told /\ UNCHANGED <<events, known, mark>>
  BY <1>1
<1> QED
  BY <1>2, <1>3, <1>4, <1>5, <1>6, <1>7, <1>8, UnknowingStep

LEMMA Dropping ==
  ASSUME NEW p \in Publisher
  PROVE  LET q == [p EXCEPT !.enabled = FALSE, !.dirty = 0, !.timer = FALSE, !.unrouted = 0] IN
         /\ q \in Publisher /\ ~q.enabled /\ q.sure = p.sure /\ q.confirmed = p.confirmed
         /\ q.last = p.last /\ q.revised = p.revised /\ q.unrouted = 0
         /\ q.handled = p.handled /\ q.dirty = 0 /\ ~q.timer
<1>1. 0 \in 0..MaxPos
  BY ReadAssumption
<1> QED
  BY <1>1 DEF Publisher

LEMMA DropStep == ASSUME IInv, Drop PROVE IInv'
<1>1. /\ UNCHANGED <<events, top, node, known, mark, told, cache, unnamed, active, resident,
                     sent, stream, seed, staleSeed, spoiled>>
      /\ "drop" \in events /\ online' = FALSE /\ resumable' = TRUE
      /\ drops' = drops + 1 /\ drops < MaxDrops
      /\ mam' = IF mam = "loading" THEN "error" ELSE mam
  BY DEF Drop, serverVars, wire, archive, view, seeds, history
<1>2. /\ pub' \in Publisher /\ ~pub'.enabled /\ pub'.sure = pub.sure /\ pub'.confirmed = pub.confirmed
      /\ pub'.last = pub.last /\ pub'.revised = pub.revised /\ pub'.unrouted = 0
      /\ pub'.handled = pub.handled /\ pub'.dirty = 0 /\ ~pub'.timer
  <2>1. pub' = [pub EXCEPT !.enabled = FALSE, !.dirty = 0, !.timer = FALSE, !.unrouted = 0]
    BY DEF Drop
  <2> QED
    BY <2>1, Before, Dropping
<1>3. reading' \in Reading /\ reading'.on = reading.on /\ reading'.ptr = reading.ptr
      /\ reading'.owed = reading.owed
  <2>1. reading' = [reading EXCEPT !.valid = FALSE]
    BY DEF Drop
  <2> QED
    BY <2>1, Before, Invalid
<1>4. EntityOK'
  <2>1. drops' \in 0..MaxDrops
    <3>1. MaxDrops \in Nat /\ drops \in 0..MaxDrops
      BY Before, ReadAssumption DEF EntityOK
    <3> QED
      BY <1>1, <3>1
  <2>2. mam' \in {"none", "loading", "error", "caughtUp"}
    BY <1>1, Before DEF EntityOK
  <2> QED
    BY <1>1, <2>1, <2>2, Before DEF EntityOK
<1>5. InFlight' = InFlight
  BY <1>1 DEF InFlight
<1>6. Knows(pub', told', node', stream', spoiled')
  <2>1. Knows(pub', told, node, stream, spoiled)
    BY <1>2, Before DEF Aware, Knows
  <2> QED
    BY <1>1, <2>1
<1>7. ~Knowing' /\ (known => pub'.unrouted = 0) /\ top <= top' /\ top' \in Nat
  BY <1>1, <1>2, Before DEF Knowing
<1>8. stream' = stream /\ told' = told /\ UNCHANGED <<events, known, mark>> /\ "drop" \in events
  BY <1>1
<1> QED
  BY <1>2, <1>3, <1>4, <1>5, <1>6, <1>7, <1>8, UnknowingStep

LEMMA SeedFailsStep == ASSUME IInv, SeedFails PROVE IInv'
<1>1. /\ UNCHANGED <<events, top, node, known, mark, told, cache, unnamed, active, resident,
                     sent, stream, online, resumable, drops, mam, reading>>
      /\ spoiled' = (spoiled \/ pub.sure)
      /\ seed' \in {seed, FALSE} /\ staleSeed' \in {staleSeed, FALSE}
  BY DEF SeedFails, serverVars, wire, archive, view, session
<1>2. /\ pub' \in Publisher /\ pub'.enabled /\ pub'.sure = pub.sure /\ pub'.confirmed = pub.confirmed
      /\ pub'.last = pub.last /\ pub'.revised = pub.revised /\ pub'.unrouted = pub.unrouted
      /\ pub'.handled = Nowhere /\ pub'.dirty = 0 /\ pub'.timer = pub.timer
  <2>1. pub' = Unseeded(pub)
    BY DEF SeedFails
  <2> QED
    BY <2>1, Before, UnseededFields
<1>4. EntityOK'
  <2>1. seed' \in BOOLEAN /\ staleSeed' \in BOOLEAN /\ spoiled' \in BOOLEAN
    BY <1>1, Before DEF EntityOK, Publisher
  <2> QED
    BY <1>1, <2>1, Before DEF EntityOK
<1>5. InFlight' = InFlight
  BY <1>1 DEF InFlight
<1>6. Knows(pub', told', node', stream', spoiled')
  <2>1. Knows(pub', told, node, stream, spoiled)
    BY <1>2, Before DEF Aware, Knows
  <2>2. Knows(pub', told, node, stream, spoiled')
    BY <1>1, <2>1 DEF Knows
  <2> QED
    BY <1>1, <2>2
<1>7. /\ ~Knowing' /\ (known => pub'.unrouted = 0) /\ top <= top' /\ top' \in Nat
      /\ pub'.timer => pub'.enabled /\ online'
  <2>1. pub.sure => spoiled'
    BY <1>1
  <2>2. pub'.sure => spoiled'
    BY <1>2, <2>1
  <2>3. ~Knowing'
    BY <2>2 DEF Knowing
  <2>4. known => pub'.unrouted = 0
    BY <1>2, Before DEF Routed
  <2>5. pub'.timer => pub'.enabled /\ online'
    BY <1>1, <1>2, Before DEF Attended
  <2>6. top <= top' /\ top' \in Nat
    BY <1>1, Before
  <2> QED
    BY <2>3, <2>4, <2>5, <2>6
<1>8. /\ stream' = stream /\ told' = told /\ UNCHANGED <<events, known, mark>>
      /\ reading' \in Reading /\ reading'.on = reading.on /\ reading'.ptr = reading.ptr
      /\ reading'.owed = reading.owed
  BY <1>1, Before
<1> QED
  BY <1>2, <1>4, <1>5, <1>6, <1>7, <1>8, UnknowingStep

LEMMA InitIInv == Init => IInv
<1> SUFFICES ASSUME Init PROVE IInv
  OBVIOUS
<1>1. /\ MaxPos \in Nat /\ MaxDrops \in Nat /\ 0 \in 0..MaxPos /\ 0 \in 0..MaxDrops
      /\ top \in 0..MaxPos /\ top \in Nat
  BY ReadAssumption DEF Init, Pos
<1>2. /\ Heads(stream) = {} /\ InFlight = {} /\ stream \in Seq(Heard) /\ sent \in Seq(0..MaxPos)
  <2>1. sent = <<>> /\ stream = <<>>
    BY DEF Init
  <2> QED
    BY <2>1 DEF Heads, InFlight
<1>3. cache \subseteq 1..top /\ unnamed \subseteq cache /\ resident \subseteq cache
  BY DEF Init
<1>4. PICK p \in cache \cup {0} :
        mark = [ptr |-> At(p, p # 0), stash |-> 0, looking |-> FALSE, folded |-> 0]
  BY DEF Init
<1>5. p \in 0..MaxPos /\ p <= top /\ p \in Nat
  BY <1>1, <1>3
<1>6. /\ mark \in Mark /\ mark.ptr.pos = p /\ mark.stash = 0
      /\ mark.ptr.named => mark.ptr.pos # 0
  <2>1. At(p, p # 0) \in Pointer /\ At(p, p # 0).pos = p /\ (At(p, p # 0).named <=> p # 0)
    BY <1>5 DEF At, Pointer
  <2> DEFINE a == At(p, p # 0)
  <2> HIDE DEF a
  <2>2. mark = [ptr |-> a, stash |-> 0, looking |-> FALSE, folded |-> 0]
    BY <1>4 DEF a
  <2>3. mark \in Mark /\ mark.ptr = a /\ mark.stash = 0
    BY <1>1, <2>1, <2>2 DEF Mark, a
  <2> QED
    BY <2>1, <2>3 DEF a
<1>7. /\ pub \in Publisher /\ ~pub.enabled /\ ~pub.sure /\ ~pub.confirmed /\ ~pub.revised
      /\ pub.last = 0 /\ pub.handled = Nowhere /\ pub.dirty = 0 /\ ~pub.timer /\ pub.unrouted = 0
  BY <1>1, NowherePointer DEF Init, Publisher
<1>8. reading \in Reading /\ ~reading.on
  BY NotReading DEF Init
<1>9. TypeOK
  <2>1. /\ events \in Scenarios /\ node \in 0..top
        /\ online \in BOOLEAN /\ resumable \in BOOLEAN /\ known \in BOOLEAN
        /\ active \in BOOLEAN /\ mam \in {"none", "loading", "error", "caughtUp"}
        /\ seed \in BOOLEAN /\ staleSeed \in BOOLEAN /\ spoiled \in BOOLEAN
    BY DEF Init
  <2>2. drops \in 0..MaxDrops /\ told \in 0..MaxPos
    BY <1>1 DEF Init
  <2>3. mark.ptr.pos <= top /\ mark.stash <= top
    BY <1>1, <1>5, <1>6
  <2> QED
    BY <1>1, <1>2, <1>3, <1>6, <1>7, <1>8, <2>1, <2>2, <2>3 DEF TypeOK
<1>10. Archived
  BY <1>1, <1>2, <1>7 DEF Archived
<1>11. Behind
  BY <1>2, <1>5, <1>6, <1>7, <1>8, NowherePointer DEF Behind
<1>12. Routed
  BY <1>2, <1>6, <1>7, <1>8 DEF Init, Routed
<1>13. Aware
  BY <1>2, <1>7 DEF Aware, Knows
<1>14. Attended
  BY <1>7 DEF Attended
<1>15. Kept
  BY <1>5, <1>6 DEF Init, Kept, MarkerKept
<1>16. ReadIsOnItsWay
  BY <1>7 DEF ReadIsOnItsWay
<1> QED
  BY <1>9, <1>10, <1>11, <1>12, <1>13, <1>14, <1>15, <1>16 DEF IInv

LEMMA StutterStep == ASSUME IInv, UNCHANGED vars PROVE IInv'
<1>1. UNCHANGED <<events, top, node, sent, stream, online, resumable, drops, known, cache, unnamed,
                  active, resident, mam, mark, pub, reading, seed, staleSeed, told, spoiled>>
  BY DEF vars, serverVars, wire, session, archive, view, seeds, history
<1>2. TypeOK' /\ Archived' /\ Behind'
  BY <1>1 DEF IInv, TypeOK, Archived, Behind, InFlight
<1>3. Routed' /\ Aware' /\ Attended'
  BY <1>1 DEF IInv, Routed, Aware, Attended, InFlight
<1>4. Kept' /\ ReadIsOnItsWay'
  BY <1>1 DEF IInv, Kept, MarkerKept, ReadIsOnItsWay, OnItsWay, InFlight
<1> QED
  BY <1>2, <1>3, <1>4 DEF IInv

-----------------------------------------------------------------------------
(* Every step.                                                             *)

LEMMA PublishingStep == ASSUME IInv, Publishing PROVE IInv'
BY ResolvedStep, TimerFiresStep DEF Publishing

LEMMA WireStep == ASSUME IInv, Wire PROVE IInv'
BY ServerTakesStep, HearNotifyStep, HearAckStep, HearSeedStep DEF Wire

LEMMA FaultStep == ASSUME IInv, Faults PROVE IInv'
BY DropStep, SeedFailsStep, CatchUpFailsStep DEF Faults

LEMMA UserStep == ASSUME IInv, User PROVE IInv'
BY SendStep, ReadStep, MarkReadStep, ScrollStep, ActivateStep, LeaveStep DEF User

LEMMA EnvironmentStep == ASSUME IInv, Environment PROVE IInv'
BY PeerPublishesStep, ServerArchivesStep, ArriveStep, EchoStep, GoOnlineStep, ResumeStep
   DEF Environment

LEMMA TrackerStep == ASSUME IInv, Tracker PROVE IInv'
BY LookedUpStep, BookmarkLandsStep, StartCatchUpStep, CatchUpDoneStep, MarkerPlacedStep DEF Tracker

LEMMA Inductive == Spec => []IInv
<1>1. IInv /\ [Next]_vars => IInv'
  BY PublishingStep, WireStep, FaultStep, UserStep, EnvironmentStep, TrackerStep, StutterStep DEF Next
<1> QED
  BY InitIInv, <1>1, PTL DEF Spec

\* TypeOK, for any number of messages, any window, any queues and any scenario.
THEOREM TypeCorrect == Spec => []TypeOK
<1>1. IInv => TypeOK
  BY DEF IInv
<1> QED
  BY <1>1, Inductive, PTL

\* foldPendingRemoteDisplayed, applyRemoteDisplayed and unroutedSeedMarkers
\* between them keep every marker the server told of, unless a connection is
\* lost before the bookmarks load.
THEOREM MarkerCorrect ==
  ASSUME \A sc \in Scenarios : ~({"bookmark", "drop"} \subseteq sc)
  PROVE  Spec => []MarkerKept
<1>1. IInv => MarkerKept
  BY DEF IInv, Kept, TypeOK
<1> QED
  BY <1>1, Inductive, PTL

\* consider and doPublish leave no read position behind.
THEOREM ReadCorrect == Spec => []ReadIsOnItsWay
<1>1. IInv => ReadIsOnItsWay
  BY DEF IInv
<1> QED
  BY <1>1, Inductive, PTL

-----------------------------------------------------------------------------
(* What is buffered and sent.                                              *)

\* A decision on a pointer with an archive id buffers nothing the server has told past.
LEMMA DecidesForward ==
  ASSUME IInv', MarkerKept', NEW p \in Publisher, NEW c \in 1..MaxPos, Decides(p, c), mark'.ptr.named
  PROVE  pub'.dirty = p.dirty \/ told' <= pub'.dirty
<1>1. EntityOK' /\ Aware' /\ Routed'
  BY DEF IInv, TypeOK, EntityOK
<1>2. /\ c = mark'.ptr.pos /\ known' /\ pub' = Decided(p, c)
  BY DEF Decides
<1>3. mark' \in Mark /\ c \in 0..MaxPos /\ c \in Nat /\ told' \in Nat
  BY <1>1, TopsNext DEF EntityOK
<1>4. /\ SameBook(Decided(p, c), p)
      /\ Decision(p, c) = "retry" \/ Decision(p, c) = "skip" => Decided(p, c).dirty = p.dirty
      /\ Decision(p, c) = "publish" => Decided(p, c).dirty = c
  BY <1>3, DecidedFields
<1>5. CASE Decision(p, c) # "publish"
  BY <1>2, <1>3, <1>4, <1>5, DecisionCases
<1>6. CASE Decision(p, c) = "publish"
  <2>1. pub'.dirty = c /\ pub'.unrouted = 0
    BY <1>1, <1>2, <1>4, <1>6 DEF Routed
  <2>2. /\ p.sure \/ p.confirmed
        /\ p.last = 0 \/ p.last < c \/ mark'.stash # p.last
    BY <1>6, Deciding
  <2>3. p.last = told'
    <3>1. pub'.sure = p.sure /\ pub'.confirmed = p.confirmed /\ pub'.last = p.last
      BY <1>2, <1>4 DEF SameBook
    <3> QED
      BY <1>1, <2>2, <3>1 DEF Aware, Knows
  <2>4. told' <= c \/ told' \in {mark'.stash, 0}
    BY <1>2, <2>1 DEF MarkerKept
  <2>5. told' <= c
    BY <1>3, <2>2, <2>3, <2>4
  <2> QED
    BY <2>1, <2>5
<1> QED
  BY <1>5, <1>6

LEMMA BehindForward ==
  ASSUME IInv', mark'.ptr.named => pub'.dirty \in {0, pub.dirty} \/ told' <= pub'.dirty
  PROVE  BuffersForward
BY DEF IInv, Behind, BuffersForward

LEMMA ConsiderForward ==
  ASSUME IInv', MarkerKept', NEW p \in Publisher, Consider(p), p.dirty \in {0, pub.dirty}
  PROVE  BuffersForward
<1>1. EntityOK' /\ (mark'.ptr.named => mark'.ptr.pos # 0)
  BY DEF IInv, TypeOK, EntityOK, Behind
<1>2. Idle(p) \/ Asks(p) \/ Owes(p) \/ \E c \in 1..MaxPos : Decides(p, c)
  BY <1>1, ConsiderCases
<1>3. CASE Idle(p) \/ Asks(p) \/ Owes(p)
  <2>1. pub' = p
    BY <1>3 DEF Idle, Asks, Owes
  <2> QED
    BY <2>1, BehindForward
<1>4. ASSUME NEW c \in 1..MaxPos, Decides(p, c) PROVE BuffersForward
  <2>1. mark'.ptr.named => pub'.dirty = p.dirty \/ told' <= pub'.dirty
    BY <1>4, DecidesForward
  <2>2. mark'.ptr.named => pub'.dirty \in {0, pub.dirty} \/ told' <= pub'.dirty
    BY <2>1
  <2> QED
    BY <2>2, BehindForward
<1> QED
  BY <1>2, <1>3, <1>4

LEMMA EntityForward == ASSUME IInv, IInv', MarkerKept', Consider(pub) PROVE BuffersForward
BY Before, ConsiderForward

LEMMA HeardForward ==
  ASSUME IInv, IInv', MarkerKept', HearNotify \/ HearSeed
  PROVE  BuffersForward
<1>1. seed \in BOOLEAN /\ known \in BOOLEAN /\ pub \in Publisher /\ stream \in Seq(Heard)
  BY Before DEF EntityOK
<1>2. stream # <<>> => Head(stream).pos \in 0..MaxPos
  <2>1. stream # <<>> => 1 \in Heads(stream) /\ Head(stream) = stream[1]
    BY <1>1, Tailed
  <2> QED
    BY <2>1, Before, WireTyped
<1>3. CASE HearNotify
  <2> DEFINE s == Head(stream).pos
  <2>1. s \in 0..MaxPos /\ Consider(Recorded(pub, s))
    BY <1>2, <1>3 DEF HearNotify
  <2> HIDE DEF s
  <2>2. Recorded(pub, s) \in Publisher /\ Recorded(pub, s).dirty = pub.dirty
    BY <1>1, <2>1, RecordedFields
  <2> QED
    BY <2>1, <2>2, ConsiderForward
<1>4. CASE HearSeed /\ seed
  <2> DEFINE s == IF pub.revised /\ pub.last # 0 THEN pub.last ELSE Head(stream).pos
  <2>1. s \in 0..MaxPos /\ Consider(Seeded(pub, s))
    BY <1>2, <1>4, Before DEF HearSeed
  <2> HIDE DEF s
  <2>2. Seeded(pub, s) \in Publisher /\ Seeded(pub, s).dirty = 0
    BY <1>1, <2>1, SeededFields
  <2> QED
    BY <2>1, <2>2, ConsiderForward
<1>5. CASE HearSeed /\ ~seed
  <2>1. pub' = pub
    BY <1>5 DEF HearSeed
  <2> QED
    BY <2>1 DEF BuffersForward
<1> QED
  BY <1>3, <1>4, <1>5

\* A pointer that waited for the cache has no archive id.
LEMMA ResolvedForward == ASSUME IInv, IInv', MarkerKept', Resolved PROVE BuffersForward
<1>1. CASE ~mark'.ptr.named
  BY <1>1, BehindForward
<1>2. CASE mark'.ptr.named
  <2>1. reading.ptr # mark.ptr
    BY <1>2, Before DEF Resolved, Behind
  <2>2. IF reading.owed THEN Pass(pub) ELSE pub' = pub /\ reading' = NoReading
    BY <2>1 DEF Resolved
  <2>3. CASE reading.owed
    <3>1. EntityOK' /\ mark'.ptr.pos # 0 /\ pub \in Publisher
      BY <1>2, Before DEF IInv, TypeOK, EntityOK, Behind
    <3>2. Idle(pub) \/ Asks(pub) \/ \E c \in 1..MaxPos : Decides(pub, c)
      BY <2>2, <2>3, <3>1, PassCases
    <3>3. CASE Idle(pub) \/ Asks(pub)
      BY <3>3 DEF Idle, Asks, BuffersForward
    <3>4. ASSUME NEW c \in 1..MaxPos, Decides(pub, c) PROVE BuffersForward
      <4>1. pub'.dirty = pub.dirty \/ told' <= pub'.dirty
        BY <1>2, <3>1, <3>4, DecidesForward
      <4> QED
        BY <4>1, BehindForward
    <3> QED
      BY <3>2, <3>3, <3>4
  <2>4. CASE ~reading.owed
    BY <2>2, <2>4 DEF BuffersForward
  <2> QED
    BY <2>3, <2>4
<1> QED
  BY <1>1, <1>2

\* A step that only clears what is buffered.
LEMMA ClearsForward == ASSUME pub'.dirty \in {0, pub.dirty} PROVE BuffersForward
BY DEF BuffersForward

LEMMA OthersForward ==
  ASSUME IInv, TimerFires \/ ServerTakes \/ HearAck \/ Drop \/ SeedFails
               \/ PeerPublishes \/ ServerArchives \/ GoOnline \/ UNCHANGED vars
  PROVE  BuffersForward
<1>1. CASE TimerFires
  <2>1. /\ [[pub EXCEPT !.timer = FALSE] EXCEPT !.dirty = 0].dirty = 0
        /\ [pub EXCEPT !.timer = FALSE].dirty = pub.dirty
        /\ Forgotten([[pub EXCEPT !.timer = FALSE] EXCEPT !.dirty = 0]).dirty = 0
    BY Before DEF Publisher, Forgotten
  <2> QED
    BY <1>1, <2>1, ClearsForward DEF TimerFires
<1>2. CASE ServerTakes \/ PeerPublishes \/ ServerArchives \/ UNCHANGED vars
  BY <1>2, ClearsForward DEF ServerTakes, PeerPublishes, ServerArchives, serverUnchanged, vars
<1>3. CASE HearAck \/ Drop \/ SeedFails \/ GoOnline
  <2>1. pub \in Publisher /\ seed \in BOOLEAN
    BY Before DEF EntityOK
  <2>2. CASE HearAck
    <3>1. pub' = Recorded(pub, Head(stream).pos)
      BY <2>2 DEF HearAck
    <3>2. \A s : Recorded(pub, s).dirty = pub.dirty
      BY <2>1 DEF Recorded, Publisher
    <3> QED
      BY <3>1, <3>2, ClearsForward
  <2>3. CASE Drop
    BY <2>1, <2>3, Dropping, ClearsForward DEF Drop
  <2>4. CASE SeedFails
    BY <2>1, <2>4, UnseededFields, ClearsForward DEF SeedFails
  <2>5. CASE GoOnline
    BY <2>1, <2>5, GoingOnline, ClearsForward DEF GoOnline
  <2> QED
    BY <1>3, <2>2, <2>3, <2>4, <2>5
<1> QED
  BY <1>1, <1>2, <1>3

LEMMA BuffersStep ==
  ASSUME IInv, IInv', MarkerKept', [Next]_vars
  PROVE  BuffersForward
<1>1. CASE Arrive \/ Echo \/ User
  BY <1>1, EntityForward DEF User, Arrive, Echo, Send, Read, MarkRead, Scroll, Activate, Leave
<1>2. CASE LookedUp \/ StartCatchUp \/ CatchUpDone \/ MarkerPlaced \/ CatchUpFails
  BY <1>2, EntityForward DEF LookedUp, StartCatchUp, CatchUpDone, MarkerPlaced, CatchUpFails
<1>3. CASE BookmarkLands
  <2>1. Consider([pub EXCEPT !.unrouted = 0]) /\ pub \in Publisher
    BY <1>3, Before DEF BookmarkLands
  <2> DEFINE p == [pub EXCEPT !.unrouted = 0]
  <2>2. p \in Publisher /\ p.dirty = pub.dirty
    BY <2>1, Routing
  <2> HIDE DEF p
  <2> QED
    BY <2>1, <2>2, ConsiderForward DEF p
<1>4. CASE Resume
  <2>1. Consider([Forgotten(pub) EXCEPT !.enabled = TRUE]) /\ pub \in Publisher
    BY <1>4, Before DEF Resume
  <2> DEFINE p == [Forgotten(pub) EXCEPT !.enabled = TRUE]
  <2>2. p \in Publisher /\ p.dirty = pub.dirty
    BY <2>1, Enabling
  <2> HIDE DEF p
  <2> QED
    BY <2>1, <2>2, ConsiderForward DEF p
<1>5. CASE HearNotify \/ HearSeed \/ Resolved
  BY <1>5, HeardForward, ResolvedForward
<1>6. CASE TimerFires \/ ServerTakes \/ HearAck \/ Drop \/ SeedFails
           \/ PeerPublishes \/ ServerArchives \/ GoOnline \/ UNCHANGED vars
  BY <1>6, OthersForward
<1> QED
  BY <1>1, <1>2, <1>3, <1>4, <1>5, <1>6
     DEF Next, Publishing, Wire, Faults, Environment, Tracker

\* Only the debounced publish sends a position.
LEMMA KeepsQuiet ==
  ASSUME sent \in Seq(0..MaxPos), sent' = sent \/ (sent # <<>> /\ sent' = Tail(sent)) \/ sent' = <<Seed>>
  PROVE  SendsForward
<1> SUFFICES ASSUME NEW c \in Pos PROVE ~Sends(c)
  BY DEF SendsForward
<1>1. Len(sent) \in Nat /\ c # 0
  BY LenProperties DEF Pos
<1>2. CASE sent' = sent
  BY <1>1, <1>2 DEF Sends
<1>3. CASE sent # <<>> /\ sent' = Tail(sent)
  <2>1. Len(Tail(sent)) = Len(sent) - 1
    BY <1>3, HeadTailProperties
  <2>2. Len(sent') = Len(sent) - 1
    BY <1>3, <2>1
  <2> QED
    BY <1>1, <2>2 DEF Sends
<1>4. CASE sent' = <<Seed>>
  <2>1. Len(sent') = 1 /\ sent'[1] = 0
    BY <1>4 DEF Seed
  <2> QED
    BY <1>1, <2>1 DEF Sends
<1> QED
  BY <1>2, <1>3, <1>4

LEMMA TimerForward == ASSUME IInv, TimerFires PROVE SendsForward
<1> DEFINE d == pub.dirty
<1>1. /\ sent \in Seq(0..MaxPos) /\ pub \in Publisher /\ d \in 0..MaxPos /\ d <= mark.ptr.pos
      /\ UNCHANGED <<mark, resident, unnamed>> /\ known
  BY Before DEF EntityOK, Publisher, Behind, Routed, TimerFires, view, archive
<1>2. CASE sent' = sent
  BY <1>1, <1>2, KeepsQuiet
<1>3. CASE sent' # sent
  <2>1. sent' = Append(sent, d) /\ Decision(pub, d) = "publish" /\ d # 0
    BY <1>3 DEF TimerFires
  <2>2. d \in 1..MaxPos /\ d \in Nat
    BY <1>1, <2>1, Before
  <2>3. /\ pub.sure \/ pub.confirmed
        /\ pub.last = 0 \/ pub.last < d \/ ~({d, pub.last} \subseteq resident \ unnamed)
    <3> HIDE DEF d
    <3>1. /\ pub.sure \/ pub.confirmed
          /\ \/ pub.last = 0
             \/ pub.last < d
             \/ ~({d, pub.last} \subseteq resident' \ unnamed')
      BY <1>1, <2>1, <2>2, Deciding
    <3> QED
      BY <1>1, <3>1
  <2>4. pub.last = told
    BY <2>3, Before DEF Aware, Knows
  <2>5. 0 \notin resident
    BY Before, Tops
  <2> HIDE DEF d
  <2>6. {d, told} \subseteq resident \ unnamed => told < d
    BY <2>3, <2>4, <2>5
  <2>7. Longer(Append(sent, d), sent, d) /\ Len(Append(sent, d)) = Len(sent) + 1
    <3>1. Append(sent, d) \in Seq(0..MaxPos) /\ Longer(Append(sent, d), sent, d)
      BY <1>1, AppendedPosition
    <3> DEFINE S == 0..MaxPos
    <3>2. sent \in Seq(S) /\ d \in S
      BY <1>1
    <3> HIDE DEF S
    <3>3. Len(Append(sent, d)) = Len(sent) + 1
      BY <3>2, AppendProperties
    <3> QED
      BY <3>1, <3>3
  <2>8. sent'[Len(sent')] = d
    <3>1. Longer(sent', sent, d) /\ Len(sent') = Len(sent) + 1
      BY <2>1, <2>7
    <3> QED
      BY <3>1 DEF Longer
  <2> QED
    BY <1>1, <2>6, <2>8 DEF SendsForward, Sends
<1> QED
  BY <1>2, <1>3

LEMMA SendsStep == ASSUME IInv, [Next]_vars PROVE SendsForward
<1>1. sent \in Seq(0..MaxPos)
  BY Before DEF EntityOK
<1>2. CASE TimerFires
  BY <1>2, TimerForward
<1>3. CASE Resolved \/ Tracker \/ User \/ Arrive \/ Echo \/ CatchUpFails
  <2>1. sent' = sent
    BY <1>3 DEF Resolved, Tracker, User, Arrive, Echo, CatchUpFails, LookedUp, BookmarkLands,
                StartCatchUp, CatchUpDone, MarkerPlaced, Send, Read, MarkRead, Scroll, Activate,
                Leave, entityUnchanged, wire
  <2> QED
    BY <1>1, <2>1, KeepsQuiet
<1>4. CASE HearNotify \/ HearAck \/ HearSeed \/ Drop \/ SeedFails \/ PeerPublishes
           \/ ServerArchives \/ Resume \/ UNCHANGED vars
  <2>1. sent' = sent
    BY <1>4 DEF HearNotify, HearAck, HearSeed, Drop, SeedFails, PeerPublishes, ServerArchives,
                Resume, vars, hearUnchanged, wire
  <2> QED
    BY <1>1, <2>1, KeepsQuiet
<1>5. CASE ServerTakes \/ GoOnline
  BY <1>1, <1>5, KeepsQuiet DEF ServerTakes, GoOnline
<1> QED
  BY <1>2, <1>3, <1>4, <1>5 DEF Next, Publishing, Wire, Faults, Environment

\* publishDecision, at both of its callers: nothing is buffered or sent that
\* lies past the pointer, or behind what the server told.
THEOREM PublishesCorrect ==
  ASSUME \A sc \in Scenarios : ~({"bookmark", "drop"} \subseteq sc)
  PROVE  Spec => PublishesForward
<1>1. IInv => MarkerKept
  BY DEF IInv, Kept, TypeOK
<1>2. IInv /\ IInv' /\ MarkerKept' /\ [Next]_vars => BuffersForward
  BY BuffersStep
<1>3. IInv /\ [Next]_vars => SendsForward
  BY SendsStep
<1> QED
  BY <1>1, <1>2, <1>3, Inductive, MarkerCorrect, PTL DEF Spec, PublishesForward
=============================================================================
