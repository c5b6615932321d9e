------------------------------ MODULE HubProofs ------------------------------
(***************************************************************************)
(* Safety of the hub for any number of participants and connections, any   *)
(* caps and any frames: its type, the registry (one name, one connection), *)
(* idle agents have no wakes waiting, and the round limit freezes.         *)
(*                                                                         *)
(* A handler is a composition of the operators of module Hub, so each of   *)
(* them has a lemma: it keeps the state well typed (Typed) and leaves      *)
(* registrations and names alone (Stable), which keeps the registry        *)
(* consistent (Linked).  Depart and Seated are the two that do not.  The   *)
(* inductive invariant is Inv; what the hub hands over, which rests on it, *)
(* comes after its theorems.                                               *)
(***************************************************************************)
EXTENDS HubProps, SequenceTheorems, FiniteSetTheorems, WellFoundedInduction, TLAPS

-----------------------------------------------------------------------------
(* The operators of Mailbox on the registration of a participant: each     *)
(* keeps it well typed and within its caps, and touches nothing but the    *)
(* mailbox.                                                                *)

BoundedReg(r) == Len(r.queue) <= QueueCap /\ Len(r.context) <= ContextCap

\* Registrations that differ in the state, the marks and the mailbox only.
SameSeat(r, q) ==
  q.where = r.where /\ q.kind = r.kind /\ q.capable = r.capable /\ q.client = r.client

\* q is r with another mailbox.
Reboxed(r, q) ==
  /\ q \in Reg /\ BoundedReg(q) /\ SameSeat(r, q)
  /\ q.state = r.state /\ q.finished = r.finished /\ q.awaiting = r.awaiting

\* The registration r with the given mailbox.
Box(r, queue, dropped, context, evicted) ==
  [r EXCEPT !.queue = queue, !.dropped = dropped, !.context = context, !.evicted = evicted]

LEMMA BoxType ==
  ASSUME NEW r \in Reg, NEW queue \in Seq(Msg), NEW dropped \in Nat,
         NEW context \in Seq(Msg), NEW evicted \in Nat,
         Len(queue) <= QueueCap, Len(context) <= ContextCap
  PROVE  LET q == Box(r, queue, dropped, context, evicted)
         IN  Reboxed(r, q) /\ q.queue = queue /\ q.context = context
BY DEF Box, Reg, Reboxed, BoundedReg, SameSeat

\* A message appended to a bounded sequence, the oldest evicted when full.
LEMMA AppendBounded ==
  ASSUME NEW s \in Seq(Msg), NEW m \in Msg, NEW cap \in Nat \ {0}, Len(s) <= cap
  PROVE  /\ Len(s) >= cap => Append(Tail(s), m) \in Seq(Msg) /\ Len(Append(Tail(s), m)) <= cap
         /\ ~(Len(s) >= cap) => Append(s, m) \in Seq(Msg) /\ Len(Append(s, m)) <= cap
<1>1. Len(s) \in Nat
  BY LenProperties
<1>2. CASE Len(s) >= cap
  <2>1. s # << >>
    BY <1>1, <1>2
  <2>2. Tail(s) \in Seq(Msg) /\ Len(Tail(s)) = Len(s) - 1
    BY <2>1, HeadTailProperties
  <2>3. QED
    BY <1>1, <1>2, <2>2, AppendProperties
<1>3. CASE ~(Len(s) >= cap)
  BY <1>1, <1>3, AppendProperties
<1>4. QED
  BY <1>2, <1>3

LEMMA EnqueueType ==
  ASSUME NEW r \in Reg, BoundedReg(r), NEW m \in Msg
  PROVE  Reboxed(r, Enqueue(r, m)) /\ Enqueue(r, m).context = r.context
<1>0. /\ r.queue \in Seq(Msg) /\ r.context \in Seq(Msg) /\ r.dropped \in Nat
      /\ r.evicted \in Nat /\ Len(r.queue) <= QueueCap /\ Len(r.context) <= ContextCap
      /\ QueueCap \in Nat \ {0}
  BY CapsAssumption DEF Reg, BoundedReg
<1>1. CASE Len(r.queue) >= QueueCap
  <2> DEFINE s == Append(Tail(r.queue), m)
             d == r.dropped + 1
  <2>1. s \in Seq(Msg) /\ Len(s) <= QueueCap /\ d \in Nat
    BY <1>0, <1>1, AppendBounded
  <2>2. Enqueue(r, m) = Box(r, s, d, r.context, r.evicted)
    BY <1>1 DEF Enqueue, Box, Reg
  <2> HIDE DEF s, d
  <2>3. QED
    BY <1>0, <2>1, <2>2, BoxType
<1>2. CASE ~(Len(r.queue) >= QueueCap)
  <2> DEFINE s == Append(r.queue, m)
  <2>1. s \in Seq(Msg) /\ Len(s) <= QueueCap
    BY <1>0, <1>2, AppendBounded
  <2>2. Enqueue(r, m) = Box(r, s, r.dropped, r.context, r.evicted)
    BY <1>2 DEF Enqueue, Box, Reg
  <2> HIDE DEF s
  <2>3. QED
    BY <1>0, <2>1, <2>2, BoxType
<1>3. QED
  BY <1>1, <1>2

LEMMA OverhearType ==
  ASSUME NEW r \in Reg, BoundedReg(r), NEW m \in Msg
  PROVE  Reboxed(r, Overhear(r, m)) /\ Overhear(r, m).queue = r.queue
<1>0. /\ r.queue \in Seq(Msg) /\ r.context \in Seq(Msg) /\ r.dropped \in Nat
      /\ r.evicted \in Nat /\ Len(r.queue) <= QueueCap /\ Len(r.context) <= ContextCap
      /\ ContextCap \in Nat \ {0}
  BY CapsAssumption DEF Reg, BoundedReg
<1>1. CASE Len(r.context) >= ContextCap
  <2> DEFINE s == Append(Tail(r.context), m)
             e == r.evicted + 1
  <2>1. s \in Seq(Msg) /\ Len(s) <= ContextCap /\ e \in Nat
    BY <1>0, <1>1, AppendBounded
  <2>2. Overhear(r, m) = Box(r, r.queue, r.dropped, s, e)
    BY <1>1 DEF Overhear, Box, Reg
  <2> HIDE DEF s, e
  <2>3. QED
    BY <1>0, <2>1, <2>2, BoxType
<1>2. CASE ~(Len(r.context) >= ContextCap)
  <2> DEFINE s == Append(r.context, m)
  <2>1. s \in Seq(Msg) /\ Len(s) <= ContextCap
    BY <1>0, <1>2, AppendBounded
  <2>2. Overhear(r, m) = Box(r, r.queue, r.dropped, s, r.evicted)
    BY <1>2 DEF Overhear, Box, Reg
  <2> HIDE DEF s
  <2>3. QED
    BY <1>0, <2>1, <2>2, BoxType
<1>3. QED
  BY <1>1, <1>2

\* What is left of a sequence without its first k elements.
LEMMA RestType ==
  ASSUME NEW s \in Seq(Msg), NEW k \in 0 .. Len(s)
  PROVE  /\ SubSeq(s, k + 1, Len(s)) \in Seq(Msg)
         /\ Len(SubSeq(s, k + 1, Len(s))) = Len(s) - k
         /\ Len(SubSeq(s, k + 1, Len(s))) <= Len(s)
<1>1. Len(s) \in Nat /\ k \in Nat /\ k <= Len(s)
  BY LenProperties
<1>2. \A i \in k + 1 .. Len(s) : s[i] \in Msg
  BY <1>1, ElementOfSeq
<1>3. SubSeq(s, k + 1, Len(s)) \in Seq(Msg)
  BY <1>1, <1>2, SubSeqProperties
<1>4. Len(SubSeq(s, k + 1, Len(s))) = Len(s) - k
  BY <1>1, SubSeqProperties
<1>5. QED
  BY <1>1, <1>3, <1>4

LEMMA DrainedType ==
  ASSUME NEW r \in Reg, BoundedReg(r), NEW k \in 0 .. Len(r.context)
  PROVE  Reboxed(r, Drained(r, k)) /\ Drained(r, k).queue = r.queue
<1> DEFINE s == SubSeq(r.context, k + 1, Len(r.context))
<1>0. /\ r.queue \in Seq(Msg) /\ r.context \in Seq(Msg) /\ r.dropped \in Nat
      /\ Len(r.queue) <= QueueCap /\ Len(r.context) <= ContextCap /\ ContextCap \in Nat
  BY CapsAssumption DEF Reg, BoundedReg
<1>1. s \in Seq(Msg) /\ Len(s) <= Len(r.context) /\ Len(r.context) \in Nat
  BY <1>0, RestType, LenProperties
<1>2. Drained(r, k) = Box(r, r.queue, r.dropped, s, 0)
  BY DEF Drained, Box, Reg
<1>3. Len(s) \in Nat
  BY <1>1, LenProperties
<1> HIDE DEF s
<1>4. Len(s) <= ContextCap
  BY <1>0, <1>1, <1>3
<1>5. QED
  BY <1>0, <1>1, <1>2, <1>4, BoxType

LEMMA OverhearAllType ==
  ASSUME NEW r \in Reg, BoundedReg(r), NEW ms \in Seq(Msg)
  PROVE  Reboxed(r, OverhearAll(r, ms)) /\ OverhearAll(r, ms).queue = r.queue
<1> DEFINE all    == r.context \o ms
           excess == IF Len(all) > ContextCap THEN Len(all) - ContextCap ELSE 0
           s      == SubSeq(all, excess + 1, Len(all))
           e      == r.evicted + excess
<1>0. /\ r.queue \in Seq(Msg) /\ r.context \in Seq(Msg) /\ r.dropped \in Nat
      /\ r.evicted \in Nat /\ Len(r.queue) <= QueueCap /\ ContextCap \in Nat
  BY CapsAssumption DEF Reg, BoundedReg
<1>1. all \in Seq(Msg)
  BY <1>0, ConcatProperties
<1>2. OverhearAll(r, ms) = Box(r, r.queue, r.dropped, s, e)
  BY DEF OverhearAll, Box, Reg
<1> HIDE DEF all
<1>3. Len(all) \in Nat
  BY <1>1, LenProperties
<1>4. excess \in 0 .. Len(all) /\ Len(all) - excess <= ContextCap
  BY <1>0, <1>3
<1> HIDE DEF excess
<1>5. s \in Seq(Msg) /\ Len(s) = Len(all) - excess
  BY <1>1, <1>4, RestType
<1>6. e \in Nat
  BY <1>0, <1>4
<1> HIDE DEF s, e
<1>7. QED
  BY SMTT(30), <1>0, <1>2, <1>4, <1>5, <1>6, BoxType

LEMMA PrefixBounded ==
  ASSUME NEW s \in Seq(Msg), NEW upto
  PROVE  Prefix(s, upto) \in 0 .. Len(s)
<1> DEFINE K == {k \in 1 .. Len(s) : \A i \in 1 .. k : s[i].id <= upto}
<1>1. Len(s) \in Nat
  BY LenProperties
<1>2. IsFiniteSet(1 .. Len(s)) /\ Cardinality(1 .. Len(s)) = Len(s)
  BY <1>1, FS_Interval
<1>3. K \subseteq 1 .. Len(s)
  OBVIOUS
<1>4. Prefix(s, upto) = Cardinality(K)
  BY DEF Prefix
<1> HIDE DEF K
<1>5. IsFiniteSet(K) /\ Cardinality(K) <= Len(s)
  BY <1>2, <1>3, FS_Subset
<1>6. Cardinality(K) \in Nat
  BY <1>5, FS_CardinalityType
<1>7. QED
  BY <1>1, <1>4, <1>5, <1>6

LEMMA ItemsType ==
  ASSUME NEW s \in Seq(Msg), NEW k \in 0 .. Len(s)
  PROVE  Items(s, k) \in SUBSET Msg
<1>1. Len(s) \in Nat
  BY LenProperties
<1>2. \A i \in 1 .. k : s[i] \in Msg
  BY <1>1, ElementOfSeq
<1>3. QED
  BY <1>2 DEF Items

LEMMA SliceType ==
  ASSUME NEW r \in Reg
  PROVE  /\ SliceLen(r) \in 0 .. Len(r.queue)
         /\ SliceRest(r) \in Seq(Msg) /\ Len(SliceRest(r)) <= Len(r.queue)
         /\ SliceContext(r) \in 0 .. Len(r.context)
<1>0. /\ r.queue \in Seq(Msg) /\ r.context \in Seq(Msg) /\ WakeCap \in Nat \ {0}
      /\ Len(r.queue) \in Nat /\ Len(r.context) \in Nat
  BY CapsAssumption, LenProperties DEF Reg
<1>1. SliceLen(r) \in 0 .. Len(r.queue)
  BY <1>0 DEF SliceLen
<1>2. SliceRest(r) \in Seq(Msg) /\ Len(SliceRest(r)) <= Len(r.queue)
  BY <1>0, <1>1, RestType DEF SliceRest
<1>3. SliceContext(r) \in 0 .. Len(r.context)
  BY <1>0, PrefixBounded DEF SliceContext
<1>4. QED
  BY <1>1, <1>2, <1>3

LEMMA AfterSliceType ==
  ASSUME NEW r \in Reg, BoundedReg(r)
  PROVE  Reboxed(r, AfterSlice(r))
<1> DEFINE k == SliceContext(r)
           s == SubSeq(r.context, k + 1, Len(r.context))
           t == SliceRest(r)
<1>0. /\ r.queue \in Seq(Msg) /\ r.context \in Seq(Msg) /\ QueueCap \in Nat /\ ContextCap \in Nat
      /\ Len(r.queue) \in Nat /\ Len(r.context) \in Nat
      /\ Len(r.queue) <= QueueCap /\ Len(r.context) <= ContextCap
  BY CapsAssumption, LenProperties DEF Reg, BoundedReg
<1>1. AfterSlice(r) = Box(r, t, 0, s, 0)
  BY DEF AfterSlice, Drained, Box, Reg
<1>2. k \in 0 .. Len(r.context) /\ t \in Seq(Msg) /\ Len(t) <= Len(r.queue)
  BY SliceType
<1> HIDE DEF k, t
<1>3. s \in Seq(Msg) /\ Len(s) <= Len(r.context)
  BY <1>0, <1>2, RestType
<1>4. Len(s) \in Nat /\ Len(t) \in Nat
  BY <1>2, <1>3, LenProperties
<1> HIDE DEF s
<1>5. Len(s) <= ContextCap /\ Len(t) <= QueueCap
  BY <1>0, <1>2, <1>3, <1>4
<1>6. QED
  BY <1>1, <1>2, <1>3, <1>5, BoxType

-----------------------------------------------------------------------------
(* The hub.                                                                *)

USE DEF Sinks

Typed(h) ==
  /\ h \in HubState
  /\ \A n \in Name : BoundedReg(h.reg[n])
  /\ \A c \in Conn : h.conn[c].out <= OutboundMax
  /\ Len(h.recent) <= RecentWindow

\* A live registration is held by a connection that carries its name.
Owned(h) ==
  \A n \in Live(h) : h.reg[n].client \in Conn /\ h.conn[h.reg[n].client].name = n

\* A connection that does not exist carries no name.
Blank(h) == \A c \in Conn : h.conn[c].phase = "free" => h.conn[c].name = NoName

Linked(h) == Owned(h) /\ Exclusive(h) /\ Blank(h)

\* g follows h with the same registrations and names; connections are only cut.
Stable(h, g) ==
  /\ \A n \in Name : /\ g.reg[n].where = h.reg[n].where
                     /\ g.reg[n].kind = h.reg[n].kind
                     /\ g.reg[n].capable = h.reg[n].capable
                     /\ g.reg[n].client = h.reg[n].client
  /\ \A c \in Conn : /\ g.conn[c].name = h.conn[c].name
                     /\ g.conn[c].phase = "free" => h.conn[c].phase = "free"
                     /\ g.conn[c].connected => h.conn[c].connected

\* The floor is the same: rounds, freeze, mute, counter and history.
SameFloor(h, g) ==
  /\ g.round = h.round /\ g.frozen = h.frozen /\ g.muted = h.muted
  /\ g.limit = h.limit /\ g.counter = h.counter /\ g.recent = h.recent

\* IdleDrained but for the participants in S.
DrainedBut(h, S) ==
  \A n \in Agents(h) \ S :
    h.reg[n].state = "idle" /\ Reachable(h, n) => h.reg[n].queue = << >>

-----------------------------------------------------------------------------
(* Relations between states.                                               *)

LEMMA StableAlike ==
  ASSUME NEW h, NEW g, Stable(h, g)
  PROVE  /\ Live(g) = Live(h) /\ Agents(g) = Agents(h) /\ Observers(g) = Observers(h)
         /\ \A n \in Name : Reachable(g, n) => Reachable(h, n)
BY DEF Stable, Live, Agents, Observers, IsObserver, Reachable

LEMMA StableLinked ==
  ASSUME NEW h, NEW g, Stable(h, g), Linked(h)
  PROVE  Linked(g)
<1>1. Live(g) = Live(h)
  BY StableAlike
<1>2. Owned(g)
  BY <1>1 DEF Stable, Linked, Owned, Live
<1>3. Exclusive(g)
  BY <1>1 DEF Stable, Linked, Exclusive, Live
<1>4. Blank(g)
  BY DEF Stable, Linked, Blank
<1>5. QED
  BY <1>2, <1>3, <1>4 DEF Linked

LEMMA StableTransitive ==
  ASSUME NEW h, NEW g, NEW i, Stable(h, g), Stable(g, i)
  PROVE  Stable(h, i)
BY DEF Stable

-----------------------------------------------------------------------------
(* Records: a change of one field keeps the others.                        *)

LEMMA LinkFields ==
  ASSUME NEW k \in Link
  PROVE  /\ Cut(k) \in Link
         /\ Cut(k).name = k.name /\ Cut(k).connected = FALSE /\ Cut(k).phase = k.phase
         /\ Cut(k).out = 0
         /\ \A m \in Nat : /\ [k EXCEPT !.out = m] \in Link
                           /\ [k EXCEPT !.out = m].name = k.name
                           /\ [k EXCEPT !.out = m].phase = k.phase
                           /\ [k EXCEPT !.out = m].connected = k.connected
                           /\ [k EXCEPT !.out = m].out = m
BY DEF Link, Cut

\* A state with other registrations.
WithReg(h, reg) == [h EXCEPT !.reg = reg]

LEMMA WithRegType ==
  ASSUME NEW h, Typed(h), NEW reg \in [Name -> Reg], \A n \in Name : BoundedReg(reg[n])
  PROVE  /\ Typed(WithReg(h, reg))
         /\ WithReg(h, reg).reg = reg
         /\ WithReg(h, reg).conn = h.conn
         /\ SameFloor(h, WithReg(h, reg))
<1>1. /\ WithReg(h, reg) \in HubState /\ WithReg(h, reg).reg = reg
      /\ WithReg(h, reg).conn = h.conn /\ SameFloor(h, WithReg(h, reg))
  BY DEF Typed, HubState, SameFloor, WithReg
<1>2. QED
  BY <1>1 DEF Typed, SameFloor

LEMMA WithRegStable ==
  ASSUME NEW h, Typed(h), NEW reg \in [Name -> Reg], \A n \in Name : BoundedReg(reg[n]),
         \A n \in Name : SameSeat(h.reg[n], reg[n])
  PROVE  Stable(h, WithReg(h, reg))
BY WithRegType DEF Stable, SameSeat

-----------------------------------------------------------------------------
(* Sending.                                                                *)

LEMMA LoadedType ==
  ASSUME NEW h, Typed(h), NEW c \in Conn
  PROVE  /\ Loaded(h, c) \in Link
         /\ Loaded(h, c).name = h.conn[c].name
         /\ Loaded(h, c).phase = h.conn[c].phase
         /\ Loaded(h, c).connected => h.conn[c].connected
         /\ Loaded(h, c).out <= OutboundMax
<1>1. h.conn[c] \in Link /\ h.conn[c].out <= OutboundMax
  BY DEF Typed, HubState
<1>2. h.conn[c].out + 1 \in Nat /\ OutboundMax \in Nat
  BY <1>1, ConfigAssumption DEF Link
<1>4. CASE ~Takes(h, c)
  <2>1. Loaded(h, c) = Cut(h.conn[c])
    BY <1>4 DEF Loaded
  <2>2. /\ Loaded(h, c) \in Link /\ Loaded(h, c).name = h.conn[c].name
        /\ Loaded(h, c).phase = h.conn[c].phase
        /\ Loaded(h, c).connected = FALSE /\ Loaded(h, c).out = 0
    BY <1>1, <2>1, LinkFields, Zenon
  <2>3. QED
    BY <1>2, <2>2
<1>5. CASE Takes(h, c) /\ c \in Slow
  <2> DEFINE m == h.conn[c].out + 1
  <2>1. m \in Nat /\ m <= OutboundMax
    BY <1>1, <1>2, <1>5 DEF Takes, Full, Link
  <2>2. Loaded(h, c) = [h.conn[c] EXCEPT !.out = m]
    BY <1>5 DEF Loaded
  <2> HIDE DEF m
  <2>3. /\ Loaded(h, c) \in Link /\ Loaded(h, c).name = h.conn[c].name
        /\ Loaded(h, c).phase = h.conn[c].phase
        /\ Loaded(h, c).connected = h.conn[c].connected
        /\ Loaded(h, c).out = m
    BY <1>1, <2>1, <2>2 DEF Link
  <2>4. QED
    BY <2>1, <2>3
<1>6. CASE Takes(h, c) /\ c \notin Slow
  BY <1>1, <1>6 DEF Loaded
<1>7. QED
  BY <1>4, <1>5, <1>6

LEMMA PushType ==
  ASSUME NEW h, Typed(h), NEW frames \in SUBSET Frame, NEW records \in SUBSET Frame
  PROVE  LET p == Push(h, frames, records)
         IN  Typed(p) /\ p.reg = h.reg /\ Stable(h, p) /\ SameFloor(h, p)
<1> DEFINE sinks == {f.sink : f \in frames}
           conn  == [c \in Conn |-> IF c \in sinks THEN Loaded(h, c) ELSE h.conn[c]]
           sent  == h.sent \cup {f \in frames : Takes(h, f.sink)} \cup records
           p     == [h EXCEPT !.conn = conn, !.sent = sent]
<1>1. conn \in [Conn -> Link]
  BY LoadedType DEF Typed, HubState
<1>2. \A c \in Conn : /\ conn[c].name = h.conn[c].name
                      /\ conn[c].phase = h.conn[c].phase
                      /\ conn[c].connected => h.conn[c].connected
                      /\ conn[c].out <= OutboundMax
  BY LoadedType DEF Typed
<1>3. sent \in SUBSET Frame
  BY DEF Typed, HubState
<1>4. Push(h, frames, records) = p
  BY DEF Push
<1> HIDE DEF conn, sent
<1>5. p \in HubState /\ p.conn = conn /\ p.reg = h.reg /\ SameFloor(h, p)
  BY <1>1, <1>3 DEF Typed, HubState, SameFloor
<1> HIDE DEF p
<1>6. QED
  BY <1>2, <1>4, <1>5 DEF Typed, Stable, SameFloor

LEMMA EmitType ==
  ASSUME NEW h, Typed(h), NEW event \in Events, NEW about \in Name \cup {NoName}, NEW skip
  PROVE  LET p == EmitSkipping(h, event, about, skip)
         IN  Typed(p) /\ p.reg = h.reg /\ Stable(h, p) /\ SameFloor(h, p)
<1> DEFINE seen(s) == [sink |-> s, t |-> "event", event |-> event, name |-> about]
           seats   == {h.reg[n].client : n \in Observers(h) \ skip}
           frames  == {seen(c) : c \in seats \cap Conn}
<1>1. frames \in SUBSET Frame /\ {seen(Transcript)} \in SUBSET Frame
  BY DEF Frame, Event
<1>2. EmitSkipping(h, event, about, skip) = Push(h, frames, {seen(Transcript)})
  BY DEF EmitSkipping
<1> HIDE DEF frames, seen
<1>3. QED
  BY <1>1, <1>2, PushType

LEMMA ReplyType ==
  ASSUME NEW h, Typed(h), NEW c \in Conn, NEW from \in Conn, NEW verdict \in {"ok", "err"}
  PROVE  LET p == Reply(h, c, from, verdict)
         IN  Typed(p) /\ p.reg = h.reg /\ Stable(h, p) /\ SameFloor(h, p)
<1>1. {[sink |-> c, t |-> verdict, re |-> from]} \in SUBSET Frame /\ {} \in SUBSET Frame
  BY DEF Frame, Answer
<1>2. QED
  BY <1>1, PushType DEF Reply

-----------------------------------------------------------------------------
(* Delivery.                                                               *)

Busied(h, to, n) ==
  IF n \in to /\ ~IsObserver(h, n) THEN [h.reg[n] EXCEPT !.state = "busy"] ELSE h.reg[n]

LEMMA BusiedType ==
  ASSUME NEW h, Typed(h), NEW to, NEW n \in Name
  PROVE  /\ Busied(h, to, n) \in Reg
         /\ SameSeat(h.reg[n], Busied(h, to, n))
         /\ Busied(h, to, n).queue = h.reg[n].queue
         /\ Busied(h, to, n).context = h.reg[n].context
         /\ Busied(h, to, n).finished = h.reg[n].finished
         /\ Busied(h, to, n).state \in {h.reg[n].state, "busy"}
         /\ n \in to /\ h.reg[n].kind # "observer" => Busied(h, to, n).state = "busy"
<1>1. h.reg[n] \in Reg
  BY DEF Typed, HubState
<1>2. CASE n \in to /\ ~IsObserver(h, n)
  <2>1. Busied(h, to, n) = [h.reg[n] EXCEPT !.state = "busy"]
    BY <1>2 DEF Busied
  <2>2. QED
    BY <1>1, <2>1 DEF Reg, States, SameSeat
<1>3. CASE ~(n \in to /\ ~IsObserver(h, n))
  <2>1. Busied(h, to, n) = h.reg[n]
    BY <1>3 DEF Busied
  <2>2. QED
    BY <1>1, <1>3, <2>1 DEF SameSeat, IsObserver
<1>4. QED
  BY <1>2, <1>3

LEMMA DeliverType ==
  ASSUME NEW h, Typed(h), NEW batch, DOMAIN batch \subseteq Live(h),
         \A n \in DOMAIN batch : h.reg[n].client \in Conn /\ batch[n] \in SUBSET Msg
  PROVE  LET d == Deliver(h, batch)
         IN  /\ Typed(d) /\ Stable(h, d) /\ SameFloor(h, d)
             /\ \A n \in Name : d.reg[n] = Busied(h, DOMAIN batch, n)
<1> DEFINE to == DOMAIN batch
           frame(s, n) == [sink |-> s, t |-> "deliver", name |-> n,
                           round |-> h.round, msgs |-> batch[n]]
           frames  == {frame(h.reg[n].client, n) : n \in to}
           records == {frame(Transcript, n) : n \in to}
           p       == Push(h, frames, records)
           reg     == [n \in Name |-> Busied(h, to, n)]
<1>1. frames \in SUBSET Frame /\ records \in SUBSET Frame
  BY DEF Frame, Delivery, Live, Typed, HubState
<1>2. Deliver(h, batch) = WithReg(p, reg)
  BY DEF Deliver, WithReg, Busied
<1> HIDE DEF frames, records
<1>3. Typed(p) /\ p.reg = h.reg /\ Stable(h, p) /\ SameFloor(h, p)
  BY <1>1, PushType
<1>4. /\ reg \in [Name -> Reg]
      /\ \A n \in Name : BoundedReg(reg[n]) /\ SameSeat(p.reg[n], reg[n])
  BY <1>3, BusiedType DEF BoundedReg, Typed
<1> HIDE DEF p
<1>5. \A n \in Name : reg[n] = Busied(h, to, n)
  OBVIOUS
<1> HIDE DEF reg
<1>6. /\ Typed(WithReg(p, reg)) /\ Stable(p, WithReg(p, reg))
      /\ SameFloor(p, WithReg(p, reg)) /\ WithReg(p, reg).reg = reg
  BY <1>3, <1>4, WithRegType, WithRegStable
<1>7. SameFloor(h, WithReg(p, reg)) /\ Stable(h, WithReg(p, reg))
  BY <1>3, <1>6, StableTransitive DEF SameFloor
<1>8. QED
  BY <1>2, <1>5, <1>6, <1>7

-----------------------------------------------------------------------------
(* Rounds and the end of a session.                                        *)

WithRound(h, k) == [h EXCEPT !.round = k]

LEMMA WithRoundType ==
  ASSUME NEW h, Typed(h), NEW k \in Nat
  PROVE  LET g == WithRound(h, k)
         IN  /\ Typed(g) /\ g.reg = h.reg /\ g.conn = h.conn /\ g.round = k /\ Stable(h, g)
             /\ g.frozen = h.frozen /\ g.limit = h.limit /\ g.counter = h.counter
<1> DEFINE g == WithRound(h, k)
<1>1. /\ g \in HubState /\ g.reg = h.reg /\ g.conn = h.conn /\ g.round = k
      /\ g.frozen = h.frozen /\ g.limit = h.limit /\ g.counter = h.counter
      /\ g.recent = h.recent
  BY DEF Typed, HubState, WithRound
<1> HIDE DEF g
<1>2. QED
  BY <1>1 DEF Typed, Stable, g

LEMMA CheckRoundLimitType ==
  ASSUME NEW h, Typed(h)
  PROVE  LET g == CheckRoundLimit(h)
         IN  /\ Typed(g) /\ g.reg = h.reg /\ Stable(h, g)
             /\ g.round = h.round /\ g.limit = h.limit /\ g.counter = h.counter
             /\ LimitFrozen(g)
<1> DEFINE f == [h EXCEPT !.frozen = TRUE]
<1>1. CASE h.round >= h.limit /\ ~h.frozen
  <2>1. /\ f \in HubState /\ f.reg = h.reg /\ f.conn = h.conn /\ f.round = h.round
        /\ f.frozen = TRUE /\ f.limit = h.limit /\ f.counter = h.counter
        /\ f.recent = h.recent
    BY DEF Typed, HubState
  <2> HIDE DEF f
  <2>2. Typed(f) /\ Stable(h, f)
    BY <2>1 DEF Typed, Stable
  <2>3. CheckRoundLimit(h) = EmitSkipping(f, "round_limit", NoName, {})
    BY <1>1 DEF CheckRoundLimit, Emit, f
  <2> DEFINE e == EmitSkipping(f, "round_limit", NoName, {})
  <2>4. Typed(e) /\ e.reg = f.reg /\ Stable(f, e) /\ SameFloor(f, e)
    BY <2>2, EmitType DEF Events
  <2> HIDE DEF e
  <2>5. Stable(h, e)
    BY <2>2, <2>4, StableTransitive
  <2>6. QED
    BY <2>1, <2>3, <2>4, <2>5 DEF SameFloor, LimitFrozen, e
<1>2. CASE ~(h.round >= h.limit /\ ~h.frozen)
  BY <1>2 DEF CheckRoundLimit, LimitFrozen, Stable
<1>3. QED
  BY <1>1, <1>2

\* The mark taken off every agent.
Unmarked(h, n) ==
  IF n \in Agents(h) THEN [h.reg[n] EXCEPT !.finished = FALSE] ELSE h.reg[n]

LEMMA UnmarkedType ==
  ASSUME NEW h, Typed(h), NEW n \in Name
  PROVE  /\ Unmarked(h, n) \in Reg
         /\ SameSeat(h.reg[n], Unmarked(h, n))
         /\ Unmarked(h, n).queue = h.reg[n].queue
         /\ Unmarked(h, n).context = h.reg[n].context
         /\ Unmarked(h, n).state = h.reg[n].state
<1>1. h.reg[n] \in Reg
  BY DEF Typed, HubState
<1>2. CASE n \in Agents(h)
  <2>1. Unmarked(h, n) = [h.reg[n] EXCEPT !.finished = FALSE]
    BY <1>2 DEF Unmarked
  <2>2. QED
    BY <1>1, <2>1 DEF Reg, SameSeat
<1>3. CASE n \notin Agents(h)
  BY <1>1, <1>3 DEF Unmarked, SameSeat
<1>4. QED
  BY <1>2, <1>3

LEMMA CheckSessionDoneType ==
  ASSUME NEW h, Typed(h)
  PROVE  LET g == CheckSessionDone(h)
         IN  /\ Typed(g) /\ Stable(h, g)
             /\ \A n \in Name : /\ g.reg[n].queue = h.reg[n].queue
                                /\ g.reg[n].state = h.reg[n].state
             /\ g.limit = h.limit /\ g.counter = h.counter
             /\ LimitFrozen(h) => LimitFrozen(g)
<1> DEFINE e   == EmitSkipping(h, "session_done", NoName, {})
           w   == WithRound(e, 0)
           reg == [n \in Name |-> Unmarked(h, n)]
           g   == WithReg(w, reg)
<1>1. CASE SessionOver(h)
  <2>1. CheckSessionDone(h) = g
    BY <1>1 DEF CheckSessionDone, Emit, WithRound, WithReg, Unmarked
  <2>2. Typed(e) /\ e.reg = h.reg /\ Stable(h, e) /\ SameFloor(h, e)
    BY EmitType DEF Events
  <2> HIDE DEF e
  <2>3. /\ Typed(w) /\ w.reg = h.reg /\ w.round = 0 /\ Stable(e, w)
        /\ w.frozen = h.frozen /\ w.limit = h.limit /\ w.counter = h.counter
    BY <2>2, WithRoundType DEF SameFloor
  <2> HIDE DEF w
  <2>4. /\ reg \in [Name -> Reg]
        /\ \A n \in Name : BoundedReg(reg[n]) /\ SameSeat(w.reg[n], reg[n])
    BY <2>3, UnmarkedType DEF BoundedReg, Typed
  <2>5. \A n \in Name : reg[n].queue = h.reg[n].queue /\ reg[n].state = h.reg[n].state
    BY UnmarkedType
  <2> HIDE DEF reg
  <2>6. Typed(g) /\ g.reg = reg /\ SameFloor(w, g) /\ Stable(w, g)
    BY <2>3, <2>4, WithRegType, WithRegStable
  <2> HIDE DEF g
  <2>7. Stable(h, g)
    BY <2>2, <2>3, <2>6, StableTransitive
  <2>8. g.round = 0 /\ g.limit = h.limit /\ g.counter = h.counter
    BY <2>3, <2>6 DEF SameFloor
  <2>9. g.limit \in Nat \ {0}
    BY <2>6 DEF Typed, HubState
  <2>10. LimitFrozen(g)
    BY <2>8, <2>9 DEF LimitFrozen
  <2>11. QED
    BY <2>1, <2>5, <2>6, <2>7, <2>8, <2>10
<1>2. CASE ~SessionOver(h)
  <2>1. CheckSessionDone(h) = h
    BY <1>2 DEF CheckSessionDone
  <2>2. QED
    BY <2>1 DEF Stable
<1>3. QED
  BY <1>1, <1>2

-----------------------------------------------------------------------------
(* What most operators keep.                                               *)

\* An agent idle and reachable in g was idle in h, and its queue is the same.
Follows(h, g) ==
  /\ Stable(h, g)
  /\ \A n \in Agents(g) : g.reg[n].state = "idle" /\ Reachable(g, n)
       => h.reg[n].state = "idle" /\ g.reg[n].queue = h.reg[n].queue

Keeps(h, g) == Typed(g) /\ Follows(h, g) /\ (LimitFrozen(h) => LimitFrozen(g))

LEMMA KeepsTransitive ==
  ASSUME NEW h, NEW g, NEW i, Keeps(h, g), Keeps(g, i)
  PROVE  Keeps(h, i)
<1>1. Stable(h, i)
  BY StableTransitive DEF Keeps, Follows
<1>2. Agents(i) = Agents(g) /\ \A n \in Agents(i) : Reachable(i, n) => Reachable(g, n)
  BY StableAlike DEF Keeps, Follows, Agents, Live
<1>3. QED
  BY <1>1, <1>2 DEF Keeps, Follows

LEMMA KeepsInvariants ==
  ASSUME NEW h, NEW g, Keeps(h, g), NEW S
  PROVE  /\ Linked(h) => Linked(g)
         /\ DrainedBut(h, S) => DrainedBut(g, S)
         /\ Live(g) = Live(h) /\ Agents(g) = Agents(h)
<1>1. Linked(h) => Linked(g)
  BY StableLinked DEF Keeps, Follows
<1>2. /\ Live(g) = Live(h) /\ Agents(g) = Agents(h)
      /\ \A n \in Name : Reachable(g, n) => Reachable(h, n)
  BY StableAlike DEF Keeps, Follows
<1>3. DrainedBut(h, S) => DrainedBut(g, S)
  BY <1>2 DEF Keeps, Follows, DrainedBut, Agents, Live
<1>4. QED
  BY <1>1, <1>2, <1>3

\* Steps that leave the registrations and the floor alone.
LEMMA SameKeeps ==
  ASSUME NEW h, NEW g, Typed(g), Stable(h, g), g.reg = h.reg, SameFloor(h, g)
  PROVE  Keeps(h, g)
BY DEF Keeps, Follows, SameFloor, LimitFrozen

LEMMA DrainedAll ==
  ASSUME NEW h
  PROVE  /\ IdleDrained(h) <=> DrainedBut(h, {})
         /\ \A S : IdleDrained(h) => DrainedBut(h, S)
         /\ \A n : DrainedBut(h, {n}) /\ n \notin Agents(h) => IdleDrained(h)
         /\ \A n : DrainedBut(h, {n}) /\ n \in Agents(h) /\ h.reg[n].state # "idle"
                  => IdleDrained(h)
BY DEF IdleDrained, DrainedBut

-----------------------------------------------------------------------------
(* The queue of an agent is flushed.                                       *)

LEMMA LineType ==
  ASSUME NEW adr \in {"direct", "broadcast", "overheard"}, NEW count \in Nat
  PROVE  Line(adr, count) \in Msg
BY DEF Line, Msg

LEMMA NoticeType ==
  ASSUME NEW r \in Reg
  PROVE  Omitted(r) \in SUBSET Msg /\ Notice(r) \in SUBSET Msg
BY LineType DEF Omitted, Notice, Reg

LEMMA HandSliceKeeps ==
  ASSUME NEW h, Typed(h), Linked(h), NEW n \in Live(h)
  PROVE  LET g == HandSlice(h, n)
         IN  Keeps(h, g) /\ (n \in Agents(h) => g.reg[n].state = "busy")
<1> DEFINE p     == h.reg[n]
           wake  == Notice(p) \cup Items(p.queue, SliceLen(p))
           batch == Omitted(p) \cup Items(p.context, SliceContext(p)) \cup wake
           k     == IF Asked(wake) THEN h.round + 1 ELSE h.round
           reg   == [h.reg EXCEPT ![n] = AfterSlice(p)]
           w     == WithReg(h, reg)
           taken == WithRound(w, k)
           one   == [q \in {n} |-> batch]
           given == Deliver(taken, one)
<1>1. n \in Name /\ p \in Reg /\ BoundedReg(p) /\ p.client \in Conn /\ h.round \in Nat
  BY DEF Typed, HubState, Live, Linked, Owned
<1>2. batch \in SUBSET Msg
  BY <1>1, NoticeType, SliceType, ItemsType DEF Reg
<1>3. Reboxed(p, AfterSlice(p))
  BY <1>1, AfterSliceType
<1>4. /\ reg \in [Name -> Reg]
      /\ \A m \in Name : BoundedReg(reg[m])
      /\ \A m \in Name : SameSeat(h.reg[m], reg[m])
      /\ \A m \in Name : m # n => reg[m] = h.reg[m]
  BY <1>1, <1>3 DEF Typed, HubState, Reboxed, SameSeat
<1>5. HandSlice(h, n) = IF Asked(wake) THEN CheckRoundLimit(given) ELSE given
  BY DEF HandSlice, WithReg, WithRound
<1>6. k \in Nat /\ (~Asked(wake) => k = h.round)
  BY <1>1
<1>7. one = [q \in {n} |-> batch] /\ DOMAIN one = {n} /\ one[n] = batch
  OBVIOUS
<1> HIDE DEF batch, wake, k, reg, one
<1>8. Typed(w) /\ Stable(h, w) /\ w.reg = reg /\ SameFloor(h, w)
  BY <1>4, WithRegType, WithRegStable
<1> HIDE DEF w
<1>9. /\ Typed(taken) /\ taken.reg = reg /\ Stable(w, taken)
      /\ taken.round = k /\ taken.frozen = h.frozen /\ taken.limit = h.limit
  BY <1>6, <1>8, WithRoundType DEF SameFloor
<1>10. Stable(h, taken)
  BY <1>8, <1>9, StableTransitive
<1> HIDE DEF taken
<1>11. DOMAIN one \subseteq Live(taken)
  BY <1>7, <1>10, StableAlike
<1>12. \A q \in DOMAIN one : taken.reg[q].client \in Conn /\ one[q] \in SUBSET Msg
  BY <1>1, <1>2, <1>7, <1>10 DEF Stable
<1>13. /\ Typed(given) /\ Stable(taken, given) /\ SameFloor(taken, given)
       /\ \A m \in Name : given.reg[m] = Busied(taken, DOMAIN one, m)
  BY <1>9, <1>11, <1>12, DeliverType
<1>14. Stable(h, given)
  BY <1>10, <1>13, StableTransitive
<1> HIDE DEF given
<1>15. n \in Agents(h) => given.reg[n].state = "busy"
  <2>1. n \in Agents(h) => taken.reg[n].kind # "observer"
    BY <1>1, <1>10 DEF Stable, Agents, IsObserver
  <2>2. QED
    BY <1>1, <1>7, <1>9, <1>13, <2>1, BusiedType
<1>16. \A m \in Name : m # n => given.reg[m].queue = h.reg[m].queue
                             /\ given.reg[m].state \in {h.reg[m].state, "busy"}
  <2> TAKE m \in Name
  <2> HAVE m # n
  <2>1. taken.reg[m] = h.reg[m]
    BY <1>4, <1>9
  <2>2. given.reg[m] = Busied(taken, DOMAIN one, m)
    BY <1>13
  <2>3. QED
    BY <1>9, <2>1, <2>2, BusiedType
<1>17. Follows(h, given)
  <2> SUFFICES ASSUME NEW m \in Agents(given), given.reg[m].state = "idle"
               PROVE  h.reg[m].state = "idle" /\ given.reg[m].queue = h.reg[m].queue
    BY <1>14 DEF Follows
  <2>1. m \in Agents(h) /\ m \in Name
    BY <1>14, StableAlike DEF Agents, Live
  <2>2. m # n
    BY <1>15, <2>1
  <2>3. QED
    BY <1>16, <2>1, <2>2
<1>18. CASE Asked(wake)
  <2> DEFINE g == CheckRoundLimit(given)
  <2>1. Typed(g) /\ g.reg = given.reg /\ Stable(given, g) /\ LimitFrozen(g)
    BY <1>13, CheckRoundLimitType
  <2> HIDE DEF g
  <2>2. Keeps(given, g)
    BY <2>1 DEF Keeps, Follows
  <2>3. Follows(h, g)
    <3>1. Stable(h, g)
      BY <1>14, <2>1, StableTransitive
    <3>2. Agents(g) = Agents(given) /\ \A m \in Name : Reachable(g, m) => Reachable(given, m)
      BY <2>1, StableAlike
    <3>3. QED
      BY <1>17, <2>1, <3>1, <3>2 DEF Follows, Agents, Live
  <2>4. QED
    BY <1>5, <1>15, <1>18, <2>1, <2>3 DEF Keeps, g
<1>19. CASE ~Asked(wake)
  <2>1. LimitFrozen(h) => LimitFrozen(given)
    BY <1>6, <1>9, <1>13, <1>19 DEF SameFloor, LimitFrozen
  <2>2. QED
    BY <1>5, <1>13, <1>15, <1>17, <1>19, <2>1 DEF Keeps
<1>20. QED
  BY <1>18, <1>19

LEMMA CheckSessionDoneKeeps ==
  ASSUME NEW h, Typed(h)
  PROVE  /\ Keeps(h, CheckSessionDone(h))
         /\ \A n \in Name : CheckSessionDone(h).reg[n].state = h.reg[n].state
BY CheckSessionDoneType DEF Keeps, Follows, Agents, Live

LEMMA FlushQueueKeeps ==
  ASSUME NEW h, Typed(h), Linked(h), NEW n \in Live(h)
  PROVE  LET g == FlushQueue(h, n)
         IN  Keeps(h, g) /\ (DrainedBut(h, {n}) => IdleDrained(g))
<1>1. CASE h.reg[n].queue = << >> \/ ~Reachable(h, n)
  <2>1. FlushQueue(h, n) = h
    BY <1>1 DEF FlushQueue
  <2>2. Keeps(h, h)
    BY DEF Keeps, Follows, Stable
  <2>3. DrainedBut(h, {n}) => IdleDrained(h)
    BY <1>1 DEF DrainedBut, IdleDrained
  <2>4. QED
    BY <2>1, <2>2, <2>3
<1>2. CASE ~(h.reg[n].queue = << >> \/ ~Reachable(h, n))
  <2> DEFINE s == HandSlice(h, n)
             g == CheckSessionDone(s)
  <2>1. FlushQueue(h, n) = g
    BY <1>2 DEF FlushQueue
  <2>2. Keeps(h, s) /\ (n \in Agents(h) => s.reg[n].state = "busy")
    BY HandSliceKeeps
  <2> HIDE DEF s
  <2>3. Keeps(s, g) /\ \A m \in Name : g.reg[m].state = s.reg[m].state
    BY <2>2, CheckSessionDoneKeeps DEF Keeps
  <2> HIDE DEF g
  <2>4. Keeps(h, g)
    BY <2>2, <2>3, KeepsTransitive
  <2>5. DrainedBut(h, {n}) => DrainedBut(g, {n})
    BY <2>4, KeepsInvariants
  <2>6. n \in Agents(g) => g.reg[n].state # "idle"
    BY <2>2, <2>3, <2>4, KeepsInvariants DEF Agents, Live
  <2>7. QED
    BY <2>1, <2>4, <2>5, <2>6, DrainedAll
<1>3. QED
  BY <1>1, <1>2

-----------------------------------------------------------------------------
(* Messages are routed and handed over.                                    *)

LEMMA ReboxKeeps ==
  ASSUME NEW h, Typed(h), NEW reg \in [Name -> Reg],
         \A n \in Name : Reboxed(h.reg[n], reg[n]),
         \A n \in Agents(h) : h.reg[n].state = "idle" /\ Reachable(h, n)
           => reg[n].queue = h.reg[n].queue
  PROVE  LET g == WithReg(h, reg)
         IN  /\ Keeps(h, g) /\ g.reg = reg /\ g.conn = h.conn
             /\ SameFloor(h, g)
<1> DEFINE g == WithReg(h, reg)
<1>1. \A n \in Name : BoundedReg(reg[n])
  BY DEF Reboxed
<1>2. \A n \in Name : SameSeat(h.reg[n], reg[n]) /\ reg[n].state = h.reg[n].state
  BY DEF Reboxed
<1>3. /\ Typed(g) /\ Stable(h, g) /\ g.reg = reg /\ g.conn = h.conn
      /\ SameFloor(h, g)
  BY <1>1, <1>2, WithRegType, WithRegStable
<1> HIDE DEF g
<1>4. /\ Agents(g) = Agents(h)
      /\ \A n \in Name : Reachable(g, n) => Reachable(h, n)
  BY <1>3, StableAlike
<1>5. Follows(h, g)
  BY <1>2, <1>3, <1>4 DEF Follows, Agents, Live
<1>6. LimitFrozen(h) => LimitFrozen(g)
  BY <1>3 DEF SameFloor, LimitFrozen
<1>7. QED
  BY <1>3, <1>5, <1>6 DEF Keeps, g

LEMMA DeliverKeeps ==
  ASSUME NEW h, Typed(h), NEW batch, DOMAIN batch \subseteq Live(h),
         \A n \in DOMAIN batch : h.reg[n].client \in Conn /\ batch[n] \in SUBSET Msg
  PROVE  LET d == Deliver(h, batch) IN Keeps(h, d) /\ SameFloor(h, d)
<1> DEFINE d == Deliver(h, batch)
<1>1. /\ Typed(d) /\ Stable(h, d) /\ SameFloor(h, d)
      /\ \A n \in Name : d.reg[n] = Busied(h, DOMAIN batch, n)
  BY DeliverType
<1> HIDE DEF d
<1>2. \A n \in Name : /\ d.reg[n].queue = h.reg[n].queue
                      /\ d.reg[n].state \in {h.reg[n].state, "busy"}
  BY <1>1, BusiedType
<1>3. Follows(h, d)
  BY <1>1, <1>2 DEF Follows, Agents, Live
<1>4. LimitFrozen(h) => LimitFrozen(d)
  BY <1>1 DEF SameFloor, LimitFrozen
<1>5. QED
  BY <1>1, <1>3, <1>4 DEF Keeps, d

WithCounter(h, k) == [h EXCEPT !.counter = k]

LEMMA WithCounterKeeps ==
  ASSUME NEW h, Typed(h), NEW k \in Nat
  PROVE  LET g == WithCounter(h, k) IN Keeps(h, g) /\ g.reg = h.reg /\ g.conn = h.conn
<1> DEFINE g == WithCounter(h, k)
<1>1. /\ g \in HubState /\ g.reg = h.reg /\ g.conn = h.conn /\ g.round = h.round
      /\ g.frozen = h.frozen /\ g.limit = h.limit /\ g.recent = h.recent
  BY DEF Typed, HubState, WithCounter
<1> HIDE DEF g
<1>2. Typed(g) /\ Stable(h, g)
  BY <1>1 DEF Typed, Stable
<1>3. QED
  BY <1>1, <1>2 DEF Keeps, Follows, LimitFrozen, g

LEMMA AgentsFinite ==
  ASSUME NEW h
  PROVE  Cardinality(Agents(h)) \in Nat
<1>1. Agents(h) \subseteq Name
  BY DEF Agents, Live
<1>2. IsFiniteSet(Agents(h))
  BY <1>1, IdentityAssumption, FS_Subset
<1>3. QED
  BY <1>2, FS_CardinalityType

LEMMA SystemMessageKeeps ==
  ASSUME NEW h, Typed(h), Linked(h), NEW rank \in Ranks(Agents(h))
  PROVE  Keeps(h, SystemMessage(h, rank))
<1> DEFINE note(n)  == [id |-> h.counter + rank[n], from |-> System, to |-> n,
                        adr |-> "direct", private |-> FALSE, count |-> 0]
           woken    == {n \in Agents(h) : h.reg[n].state = "idle" /\ Reachable(h, n)}
           upto(n)  == Prefix(h.reg[n].context, note(n).id)
           reg      == [n \in Name |->
                          IF n \in woken THEN Drained(h.reg[n], upto(n))
                          ELSE IF n \in Agents(h) THEN Enqueue(h.reg[n], note(n))
                          ELSE h.reg[n]]
           batch    == [n \in woken |-> Omitted(h.reg[n])
                          \cup Items(h.reg[n].context, upto(n)) \cup {note(n)}]
           k        == h.counter + Cardinality(Agents(h))
           w        == WithReg(h, reg)
           noted    == WithCounter(w, k)
<1>1. SystemMessage(h, rank) = Deliver(noted, batch)
  BY DEF SystemMessage, WithReg, WithCounter, Typed, HubState
<1>2. k \in Nat
  BY AgentsFinite DEF Typed, HubState
<1>3. \A n \in Agents(h) : n \in Name /\ note(n) \in Msg
  <2> TAKE n \in Agents(h)
  <2>1. n \in Name
    BY DEF Agents, Live
  <2>2. h.counter + rank[n] \in Nat
    BY AgentsFinite DEF Ranks, Typed, HubState
  <2>3. QED
    BY <2>1, <2>2 DEF Msg
<1>4. \A n \in Name : h.reg[n] \in Reg /\ BoundedReg(h.reg[n])
  BY DEF Typed, HubState
<1> HIDE DEF note
<1>5. \A n \in Name : upto(n) \in 0 .. Len(h.reg[n].context)
  BY <1>4, PrefixBounded DEF Reg
<1>6. woken \subseteq Agents(h)
  OBVIOUS
<1> HIDE DEF upto
<1>7. \A n \in woken : batch[n] \in SUBSET Msg
  <2> TAKE n \in woken
  <2>1. n \in Name /\ note(n) \in Msg /\ h.reg[n] \in Reg
    BY <1>3, <1>4, <1>6
  <2>2. Omitted(h.reg[n]) \in SUBSET Msg
    BY <2>1, NoticeType
  <2>3. Items(h.reg[n].context, upto(n)) \in SUBSET Msg
    BY <1>5, <2>1, ItemsType DEF Reg
  <2>4. QED
    BY <2>1, <2>2, <2>3
<1>8. \A n \in Name : Reboxed(h.reg[n], reg[n])
  <2> TAKE n \in Name
  <2>1. CASE n \in woken
    BY <1>4, <1>5, <2>1, DrainedType
  <2>2. CASE n \notin woken /\ n \in Agents(h)
    BY <1>3, <1>4, <2>2, EnqueueType
  <2>3. CASE n \notin woken /\ n \notin Agents(h)
    BY <1>4, <1>6, <2>3 DEF Reboxed, SameSeat
  <2>4. QED
    BY <2>1, <2>2, <2>3
<1>9. \A n \in Agents(h) : h.reg[n].state = "idle" /\ Reachable(h, n)
        => reg[n].queue = h.reg[n].queue
  <2> TAKE n \in Agents(h)
  <2> HAVE h.reg[n].state = "idle" /\ Reachable(h, n)
  <2>1. n \in woken /\ n \in Name
    BY <1>3
  <2>2. reg[n] = Drained(h.reg[n], upto(n))
    BY <2>1
  <2>3. QED
    BY <1>4, <1>5, <2>1, <2>2, DrainedType
<1>10. reg \in [Name -> Reg]
  BY <1>8 DEF Reboxed
<1>11. DOMAIN batch = woken
  OBVIOUS
<1> HIDE DEF reg, batch, k
<1>12. Keeps(h, w)
  BY <1>8, <1>9, <1>10, ReboxKeeps
<1> HIDE DEF w
<1>13. Keeps(w, noted)
  BY <1>2, <1>12, WithCounterKeeps DEF Keeps
<1> HIDE DEF noted
<1>14. Keeps(h, noted)
  BY <1>12, <1>13, KeepsTransitive
<1>15. DOMAIN batch \subseteq Live(noted)
  BY <1>6, <1>11, <1>14, KeepsInvariants DEF Agents
<1>16. \A n \in DOMAIN batch : noted.reg[n].client \in Conn /\ batch[n] \in SUBSET Msg
  BY <1>3, <1>7, <1>11, <1>14 DEF Keeps, Follows, Stable, Reachable
<1> HIDE DEF woken
<1>17. Keeps(noted, Deliver(noted, batch))
  BY <1>14, <1>15, <1>16, DeliverKeeps DEF Keeps
<1>18. QED
  BY <1>1, <1>14, <1>17, KeepsTransitive

\* A state whose history has grown by an accepted say.
WithRecord(h, id, recent, sent) ==
  [h EXCEPT !.counter = id, !.recent = recent, !.sent = sent]

LEMMA WithRecordKeeps ==
  ASSUME NEW h, Typed(h), NEW id \in Nat, NEW recent \in Seq(Record),
         Len(recent) <= RecentWindow, NEW sent \in SUBSET Frame
  PROVE  LET g == WithRecord(h, id, recent, sent)
         IN  Keeps(h, g) /\ g.reg = h.reg /\ g.round = h.round /\ Stable(h, g)
<1> DEFINE g == WithRecord(h, id, recent, sent)
<1>1. /\ g \in HubState /\ g.reg = h.reg /\ g.conn = h.conn /\ g.round = h.round
      /\ g.frozen = h.frozen /\ g.limit = h.limit /\ g.recent = recent
  BY DEF Typed, HubState, WithRecord
<1> HIDE DEF g
<1>2. Typed(g) /\ Stable(h, g)
  BY <1>1 DEF Typed, Stable
<1>3. QED
  BY <1>1, <1>2 DEF Keeps, Follows, LimitFrozen, g

LEMMA LastOfType ==
  ASSUME NEW s \in Seq(Record), NEW k \in Nat
  PROVE  LastOf(s, k) \in Seq(Record) /\ Len(LastOf(s, k)) <= k
<1>1. Len(s) \in Nat
  BY LenProperties
<1>2. CASE Len(s) <= k
  BY <1>2 DEF LastOf
<1>3. CASE ~(Len(s) <= k)
  <2> DEFINE i == Len(s) - k + 1
  <2>1. i \in 1 .. Len(s) + 1 /\ Len(s) - i + 1 = k
    BY <1>1, <1>3
  <2>2. LastOf(s, k) = SubSeq(s, i, Len(s))
    BY <1>3 DEF LastOf
  <2> HIDE DEF i
  <2>3. \A j \in i .. Len(s) : s[j] \in Record
    BY <1>1, <2>1, ElementOfSeq
  <2>4. SubSeq(s, i, Len(s)) \in Seq(Record)
    BY <1>1, <2>1, <2>3, SubSeqProperties
  <2>5. Len(SubSeq(s, i, Len(s))) = IF i <= Len(s) THEN Len(s) - i + 1 ELSE 0
    BY <1>1, <2>1, SubSeqProperties
  <2>6. Len(SubSeq(s, i, Len(s))) <= k
    BY <1>1, <2>1, <2>5
  <2>7. QED
    BY <2>2, <2>4, <2>6
<1>4. QED
  BY <1>2, <1>3

LEMMA AddressingType ==
  ASSUME NEW n, NEW to
  PROVE  Addressing(n, to) \in {"direct", "broadcast", "overheard"}
BY DEF Addressing

LEMMA TagType ==
  ASSUME NEW r \in Record, NEW adr \in {"direct", "broadcast", "overheard"}
  PROVE  Tag(r, adr) \in Msg
BY DEF Tag, Msg, Record

\* Everything Accept does up to its replies.
LEMMA AcceptKeeps ==
  ASSUME NEW h, Typed(h), Linked(h), NEW c \in Conn, NEW n \in Live(h), NEW s \in SayFrame
  PROVE  Keeps(h, Accept(h, c, n, s))
<1> DEFINE rec     == [id |-> h.counter + 1, from |-> n, to |-> s.to, private |-> s.private]
           copy(q) == Tag(rec, Addressing(q, s.to))
           woken   == Woken(h, n, s)
           upto(q) == Prefix(h.reg[q].context, rec.id)
           seats   == Seats(h, n, s)
           reg     == [q \in Name |->
              IF q \in woken THEN Drained(h.reg[q], upto(q))
              ELSE IF q \in Addressed(h, n, s) THEN Enqueue(h.reg[q], copy(q))
              ELSE IF q \in Aside(h, n, s) THEN Overhear(h.reg[q], copy(q))
              ELSE h.reg[q]]
           k       == h.round + RoundsFor(woken)
           recent  == LastOf(Append(h.recent, rec), RecentWindow)
           sent    == h.sent \cup {[sink |-> Transcript, t |-> "msg", id |-> rec.id,
                                     from |-> n, done |-> s.done]}
           toSeats == [q \in seats |-> {copy(q)}]
           toWoken == [q \in woken |->
              Omitted(h.reg[q]) \cup Items(h.reg[q].context, upto(q)) \cup {copy(q)}]
           w       == WithReg(h, reg)
           v       == WithRound(w, k)
           routed  == WithRecord(v, rec.id, recent, sent)
           shown   == Deliver(routed, toSeats)
           given   == Deliver(shown, toWoken)
           limited == IF woken = {} THEN shown ELSE CheckRoundLimit(given)
<1>1. Accept(h, c, n, s) = Reply(limited, h.reg[n].client, c, "ok")
  BY DEF Accept, WithReg, WithRound, WithRecord, Typed, HubState
<1>2. rec \in Record /\ rec.id \in Nat /\ n \in Name /\ h.reg[n].client \in Conn
  BY DEF Record, SayFrame, Live, Typed, HubState, Linked, Owned
<1>3. \A q : copy(q) \in Msg
  BY <1>2, AddressingType, TagType
<1>4. \A q \in Name : h.reg[q] \in Reg /\ BoundedReg(h.reg[q])
  BY DEF Typed, HubState
<1>5. recent \in Seq(Record) /\ Len(recent) <= RecentWindow
  <2>1. Append(h.recent, rec) \in Seq(Record)
    BY <1>2, AppendProperties DEF Typed, HubState
  <2>2. QED
    BY <2>1, LastOfType, ConfigAssumption
<1>6. sent \in SUBSET Frame
  BY <1>2 DEF Frame, Routed, SayFrame, Typed, HubState
<1>7. k \in Nat /\ (woken = {} => k = h.round)
  BY DEF RoundsFor, Typed, HubState
<1> DEFINE id == rec.id
<1>8. id \in Nat /\ routed = WithRecord(v, id, recent, sent)
  BY <1>2
<1> HIDE DEF rec, id
<1>9. \A q \in Name : upto(q) \in 0 .. Len(h.reg[q].context)
  BY <1>4, PrefixBounded DEF Reg
<1>10. /\ woken \subseteq Agents(h) /\ seats \subseteq Live(h)
       /\ \A q \in Addressed(h, n, s) : h.reg[q].state = "idle" /\ Reachable(h, q)
            <=> q \in woken
       /\ \A q \in woken \cup seats : h.reg[q].client \in Conn
       /\ Agents(h) \subseteq Live(h) /\ Live(h) \subseteq Name
  BY DEF Woken, Addressed, Seats, Observers, Agents, Live, Reachable
<1> HIDE DEF copy, upto, woken, seats
<1>11. \A q \in seats : toSeats[q] \in SUBSET Msg
  BY <1>3
<1>12. \A q \in woken : toWoken[q] \in SUBSET Msg
  <2> TAKE q \in woken
  <2>1. q \in Name /\ h.reg[q] \in Reg
    BY <1>4, <1>10
  <2>2. Omitted(h.reg[q]) \in SUBSET Msg
    BY <2>1, NoticeType
  <2>3. Items(h.reg[q].context, upto(q)) \in SUBSET Msg
    BY <1>9, <2>1, ItemsType DEF Reg
  <2>4. QED
    BY <1>3, <2>1, <2>2, <2>3
<1>13. \A q \in Name : Reboxed(h.reg[q], reg[q])
  <2> TAKE q \in Name
  <2>1. CASE q \in woken
    BY <1>4, <1>9, <2>1, DrainedType
  <2>2. CASE q \notin woken /\ q \in Addressed(h, n, s)
    BY <1>3, <1>4, <2>2, EnqueueType
  <2>3. CASE q \notin woken /\ q \notin Addressed(h, n, s) /\ q \in Aside(h, n, s)
    BY <1>3, <1>4, <2>3, OverhearType
  <2>4. CASE q \notin woken /\ q \notin Addressed(h, n, s) /\ q \notin Aside(h, n, s)
    BY <1>4, <2>4 DEF Reboxed, SameSeat
  <2>5. QED
    BY <2>1, <2>2, <2>3, <2>4
<1>14. \A q \in Agents(h) : h.reg[q].state = "idle" /\ Reachable(h, q)
         => reg[q].queue = h.reg[q].queue
  <2> TAKE q \in Agents(h)
  <2> HAVE h.reg[q].state = "idle" /\ Reachable(h, q)
  <2>0. q \in Name
    BY <1>10
  <2>1. CASE q \in woken
    <3>1. reg[q] = Drained(h.reg[q], upto(q))
      BY <2>0, <2>1
    <3>2. QED
      BY <1>4, <1>9, <2>0, <3>1, DrainedType
  <2>2. CASE q \notin woken
    <3>1. q \notin Addressed(h, n, s)
      BY <1>10, <2>2
    <3>2. reg[q] = IF q \in Aside(h, n, s) THEN Overhear(h.reg[q], copy(q)) ELSE h.reg[q]
      BY <2>0, <2>2, <3>1
    <3>3. QED
      BY <1>3, <1>4, <2>0, <3>2, OverhearType
  <2>3. QED
    BY <2>1, <2>2
<1>15. reg \in [Name -> Reg]
  BY <1>13 DEF Reboxed
<1>16. DOMAIN toSeats = seats /\ DOMAIN toWoken = woken
  OBVIOUS
<1> HIDE DEF reg, k, recent, sent, toSeats, toWoken
<1>17. Keeps(h, w) /\ SameFloor(h, w)
  BY <1>13, <1>14, <1>15, ReboxKeeps
<1> HIDE DEF w
<1>18. /\ Typed(v) /\ v.reg = w.reg /\ Stable(w, v) /\ v.round = k
       /\ v.frozen = w.frozen /\ v.limit = w.limit
  BY <1>7, <1>17, WithRoundType DEF Keeps
<1> HIDE DEF v
<1>19. Follows(w, v)
  BY <1>18 DEF Follows
<1>20. Keeps(v, routed)
  BY <1>5, <1>6, <1>8, <1>18, WithRecordKeeps
<1> HIDE DEF routed
<1>21. Live(routed) = Live(h) /\ Stable(h, routed)
  <2>1. Stable(h, v)
    BY <1>17, <1>18, StableTransitive DEF Keeps, Follows
  <2>2. Stable(h, routed)
    BY <1>20, <2>1, StableTransitive DEF Keeps, Follows
  <2>3. QED
    BY <2>2, StableAlike
<1>22. Keeps(routed, shown)
  <2>1. \A q \in seats : routed.reg[q].client \in Conn
    BY <1>10, <1>21 DEF Stable
  <2>2. QED
    BY <1>10, <1>11, <1>16, <1>20, <1>21, <2>1, DeliverKeeps DEF Keeps
<1> HIDE DEF shown
<1>23. Keeps(v, shown)
  BY <1>20, <1>22, KeepsTransitive
<1>24. CASE woken = {}
  <2>1. LimitFrozen(w) => LimitFrozen(v)
    BY <1>7, <1>17, <1>18, <1>24 DEF LimitFrozen, SameFloor
  <2>2. Keeps(w, v)
    BY <1>18, <1>19, <2>1 DEF Keeps
  <2>3. Keeps(h, shown)
    BY <1>17, <1>23, <2>2, KeepsTransitive
  <2>4. shown.reg[n].client \in Conn /\ Typed(shown)
    BY <1>2, <2>3 DEF Keeps, Follows, Stable
  <2>5. Keeps(shown, Reply(shown, h.reg[n].client, c, "ok"))
    BY <1>2, <2>4, ReplyType, SameKeeps
  <2>6. QED
    BY <1>1, <1>24, <2>3, <2>5, KeepsTransitive
<1>25. CASE woken # {}
  <2> DEFINE g == CheckRoundLimit(given)
  <2>1. Stable(h, shown) /\ Live(shown) = Live(h)
    <3>1. Stable(h, shown)
      BY <1>21, <1>22, StableTransitive DEF Keeps, Follows
    <3>2. QED
      BY <3>1, StableAlike
  <2>2. \A q \in woken : shown.reg[q].client \in Conn
    BY <1>10, <2>1 DEF Stable
  <2>3. Keeps(shown, given)
    BY <1>10, <1>12, <1>16, <1>23, <2>1, <2>2, DeliverKeeps DEF Keeps
  <2> HIDE DEF given
  <2>4. Typed(g) /\ g.reg = given.reg /\ Stable(given, g) /\ LimitFrozen(g)
    BY <2>3, CheckRoundLimitType DEF Keeps
  <2> HIDE DEF g
  <2>5. Keeps(given, g)
    BY <2>4 DEF Keeps, Follows
  <2>6. Keeps(v, g)
    BY <1>23, <2>3, <2>5, KeepsTransitive
  <2>7. Keeps(w, g)
    <3>1. Follows(w, g)
      <4>1. Stable(w, g)
        BY <1>18, <2>6, StableTransitive DEF Keeps, Follows
      <4>2. Agents(g) = Agents(v) /\ \A q \in Name : Reachable(g, q) => Reachable(v, q)
        BY <2>6, StableAlike DEF Keeps, Follows
      <4>3. QED
        BY <1>18, <2>6, <4>1, <4>2 DEF Keeps, Follows, Agents, Live
    <3>2. QED
      BY <2>4, <3>1 DEF Keeps
  <2>8. Keeps(h, g)
    BY <1>17, <2>7, KeepsTransitive
  <2>9. Keeps(g, Reply(g, h.reg[n].client, c, "ok"))
    BY <1>2, <2>4, ReplyType, SameKeeps
  <2>10. limited = g
    BY <1>25 DEF g
  <2>11. QED
    BY <1>1, <2>8, <2>9, <2>10, KeepsTransitive
<1>26. QED
  BY <1>24, <1>25

-----------------------------------------------------------------------------
(* The invariant, and changes of one registration that keep it.            *)

Inv(h) == Typed(h) /\ Linked(h) /\ IdleDrained(h) /\ LimitFrozen(h)

LEMMA KeepsInv ==
  ASSUME NEW h, NEW g, Inv(h), Keeps(h, g)
  PROVE  Inv(g) /\ Live(g) = Live(h) /\ Agents(g) = Agents(h) /\ Stable(h, g)
<1>1. DrainedBut(g, {})
  BY KeepsInvariants, DrainedAll DEF Inv
<1>2. QED
  BY <1>1, KeepsInvariants, DrainedAll DEF Inv, Keeps, Follows

WithState(h, n, state) == [h EXCEPT !.reg[n].state = state]

LEMMA WithStateType ==
  ASSUME NEW h, Typed(h), NEW n \in Name, NEW state \in States
  PROVE  LET g == WithState(h, n, state)
         IN  /\ Typed(g) /\ Stable(h, g) /\ SameFloor(h, g)
             /\ g.reg[n].state = state
             /\ DrainedBut(h, {n}) => DrainedBut(g, {n})
<1> DEFINE reg == [h.reg EXCEPT ![n].state = state]
           g   == WithReg(h, reg)
<1>1. WithState(h, n, state) = g
  BY DEF WithState, WithReg
<1>2. h.reg \in [Name -> Reg] /\ \A m \in Name : BoundedReg(h.reg[m])
  BY DEF Typed, HubState
<1>3. reg \in [Name -> Reg]
  <2> DEFINE r == [h.reg[n] EXCEPT !.state = state]
  <2>1. r \in Reg
    BY <1>2 DEF Reg
  <2>2. reg = [h.reg EXCEPT ![n] = r]
    OBVIOUS
  <2> HIDE DEF r, reg
  <2> QED
    BY <1>2, <2>1, <2>2
<1>4. \A m \in Name : BoundedReg(reg[m])
  BY <1>2 DEF BoundedReg, Reg
<1>5. \A m \in Name : SameSeat(h.reg[m], reg[m])
  BY <1>2 DEF SameSeat, Reg
<1>6. reg[n].state = state /\ \A m \in Name \ {n} : reg[m] = h.reg[m]
  BY <1>2 DEF Reg
<1> HIDE DEF reg
<1>7. Typed(g) /\ Stable(h, g) /\ SameFloor(h, g) /\ g.reg = reg
  BY <1>3, <1>4, <1>5, WithRegType, WithRegStable
<1> HIDE DEF g
<1>8. DrainedBut(h, {n}) => DrainedBut(g, {n})
  BY <1>6, <1>7, StableAlike DEF DrainedBut, Agents, Live
<1>9. QED
  BY <1>1, <1>6, <1>7, <1>8

\* An agent becomes idle and its queue is flushed.
LEMMA IdleFlushed ==
  ASSUME NEW h, Inv(h), NEW n \in Live(h), NEW g, Keeps(WithState(h, n, "idle"), g)
  PROVE  Inv(FlushQueue(g, n))
<1> DEFINE i == WithState(h, n, "idle")
           f == FlushQueue(g, n)
<1>0. n \in Name
  BY DEF Live
<1>1. /\ Typed(i) /\ Stable(h, i) /\ SameFloor(h, i) /\ DrainedBut(i, {n})
  BY <1>0, WithStateType, DrainedAll DEF Inv, States
<1>2. Linked(i) /\ LimitFrozen(i) /\ Live(i) = Live(h)
  BY <1>1, StableLinked, StableAlike DEF Inv, SameFloor, LimitFrozen
<1> HIDE DEF i
<1>3. Keeps(i, g)
  BY DEF i
<1>4. Typed(g) /\ Linked(g) /\ DrainedBut(g, {n}) /\ n \in Live(g) /\ LimitFrozen(g)
  BY <1>1, <1>2, <1>3, KeepsInvariants DEF Keeps
<1>5. Keeps(g, f) /\ IdleDrained(f)
  BY <1>4, FlushQueueKeeps
<1>6. QED
  BY <1>4, <1>5, KeepsInvariants DEF Inv, Keeps

\* A mark of a participant: finished or awaiting a pong.
LEMMA MarkKeeps ==
  ASSUME NEW h, Typed(h), NEW n \in Name, NEW b \in BOOLEAN
  PROVE  /\ Keeps(h, [h EXCEPT !.reg[n].finished = b])
         /\ Keeps(h, [h EXCEPT !.reg[n].awaiting = b])
<1>1. h.reg \in [Name -> Reg] /\ \A m \in Name : BoundedReg(h.reg[m])
  BY DEF Typed, HubState
<1>2. Keeps(h, [h EXCEPT !.reg[n].finished = b])
  <2> DEFINE reg == [h.reg EXCEPT ![n].finished = b]
  <2>1. reg \in [Name -> Reg]
    <3> DEFINE r == [h.reg[n] EXCEPT !.finished = b]
    <3>1. r \in Reg
      BY <1>1 DEF Reg
    <3>2. reg = [h.reg EXCEPT ![n] = r]
      OBVIOUS
    <3> HIDE DEF r, reg
    <3> QED
      BY <1>1, <3>1, <3>2
  <2>2. \A m \in Name : BoundedReg(reg[m])
    BY <1>1 DEF BoundedReg, Reg
  <2>3. \A m \in Name : SameSeat(h.reg[m], reg[m])
    BY <1>1 DEF SameSeat, Reg
  <2>4. \A m \in Name : reg[m].queue = h.reg[m].queue /\ reg[m].state = h.reg[m].state
    BY <1>1 DEF Reg
  <2>5. [h EXCEPT !.reg[n].finished = b] = WithReg(h, reg)
    BY DEF WithReg
  <2> HIDE DEF reg
  <2>6. /\ Typed(WithReg(h, reg)) /\ Stable(h, WithReg(h, reg))
        /\ SameFloor(h, WithReg(h, reg)) /\ WithReg(h, reg).reg = reg
    BY <2>1, <2>2, <2>3, WithRegType, WithRegStable
  <2>7. QED
    BY <2>4, <2>5, <2>6 DEF Keeps, Follows, SameFloor, LimitFrozen, Agents, Live
<1>3. Keeps(h, [h EXCEPT !.reg[n].awaiting = b])
  <2> DEFINE reg == [h.reg EXCEPT ![n].awaiting = b]
  <2>1. reg \in [Name -> Reg]
    <3> DEFINE r == [h.reg[n] EXCEPT !.awaiting = b]
    <3>1. r \in Reg
      BY <1>1 DEF Reg
    <3>2. reg = [h.reg EXCEPT ![n] = r]
      OBVIOUS
    <3> HIDE DEF r, reg
    <3> QED
      BY <1>1, <3>1, <3>2
  <2>2. \A m \in Name : BoundedReg(reg[m])
    BY <1>1 DEF BoundedReg, Reg
  <2>3. \A m \in Name : SameSeat(h.reg[m], reg[m])
    BY <1>1 DEF SameSeat, Reg
  <2>4. \A m \in Name : reg[m].queue = h.reg[m].queue /\ reg[m].state = h.reg[m].state
    BY <1>1 DEF Reg
  <2>5. [h EXCEPT !.reg[n].awaiting = b] = WithReg(h, reg)
    BY DEF WithReg
  <2> HIDE DEF reg
  <2>6. /\ Typed(WithReg(h, reg)) /\ Stable(h, WithReg(h, reg))
        /\ SameFloor(h, WithReg(h, reg)) /\ WithReg(h, reg).reg = reg
    BY <2>1, <2>2, <2>3, WithRegType, WithRegStable
  <2>7. QED
    BY <2>4, <2>5, <2>6 DEF Keeps, Follows, SameFloor, LimitFrozen, Agents, Live
<1>4. QED
  BY <1>2, <1>3

LEMMA EmitKeeps ==
  ASSUME NEW h, Typed(h), NEW event \in Events, NEW about \in Name \cup {NoName}
  PROVE  LET p == Emit(h, event, about)
         IN  Keeps(h, p) /\ p.reg = h.reg /\ SameFloor(h, p)
<1> DEFINE p == EmitSkipping(h, event, about, {})
<1>1. Typed(p) /\ p.reg = h.reg /\ Stable(h, p) /\ SameFloor(h, p)
  BY EmitType
<1>2. Emit(h, event, about) = p
  BY DEF Emit
<1> HIDE DEF p
<1>3. QED
  BY <1>1, <1>2, SameKeeps

LEMMA ReplyKeeps ==
  ASSUME NEW h, Typed(h), NEW c \in Conn, NEW from \in Conn, NEW verdict \in {"ok", "err"}
  PROVE  Keeps(h, Reply(h, c, from, verdict))
BY ReplyType, SameKeeps

-----------------------------------------------------------------------------
(* The frames of a participant.                                            *)

LEMMA RefuseKeeps ==
  ASSUME NEW h, Inv(h), NEW c \in Conn, NEW n \in Live(h)
  PROVE  Keeps(h, Refuse(h, c, n))
<1> DEFINE told == Reply(h, h.reg[n].client, c, "err")
<1>1. n \in Name /\ h.reg[n].client \in Conn /\ Typed(h)
  BY DEF Inv, Linked, Owned, Live
<1>2. Keeps(h, told)
  BY <1>1, ReplyKeeps
<1>3. Refuse(h, c, n) = IF IsObserver(h, n) THEN told ELSE Emit(told, "rejected", n)
  BY DEF Refuse
<1> HIDE DEF told
<1>4. Keeps(told, Emit(told, "rejected", n))
  BY <1>1, <1>2, EmitKeeps DEF Keeps, Events
<1>5. QED
  BY <1>2, <1>3, <1>4, KeepsTransitive

LEMMA HandleSayInv ==
  ASSUME NEW h, Inv(h), NEW c \in Conn, NEW n \in Live(h), NEW s \in SayFrame, NEW screen
  PROVE  Inv(HandleSay(h, c, n, s, screen))
<1> DEFINE accepted == Verdict(h, n, s, screen) = "pass"
           routed   == IF accepted THEN Accept(h, c, n, s) ELSE Refuse(h, c, n)
           flushed  == IF ~h.reg[n].capable /\ routed.reg[n].state # "idle"
                       THEN FlushQueue(SetIdle(routed, n), n) ELSE routed
           marked   == [flushed EXCEPT !.reg[n].finished = s.done]
<1>1. HandleSay(h, c, n, s, screen) =
        IF ~accepted \/ IsObserver(h, n) THEN flushed
        ELSE IF s.done THEN CheckSessionDone(marked) ELSE marked
  BY DEF HandleSay
<1>2. n \in Name /\ s.done \in BOOLEAN
  BY DEF Live, SayFrame
<1>3. Keeps(h, routed)
  BY AcceptKeeps, RefuseKeeps DEF Inv
<1> HIDE DEF routed
<1>4. Inv(routed) /\ n \in Live(routed)
  BY <1>3, KeepsInv
<1>5. Inv(flushed)
  <2> DEFINE i == WithState(routed, n, "idle")
  <2>1. SetIdle(routed, n) = i
    BY DEF SetIdle, WithState
  <2>2. Typed(i)
    BY <1>2, <1>4, WithStateType DEF Inv, States
  <2>3. Keeps(i, i)
    BY <2>2 DEF Keeps, Follows, Stable
  <2>4. Inv(FlushQueue(i, n))
    BY <1>4, <2>3, IdleFlushed
  <2>5. QED
    BY <1>4, <2>1, <2>4
<1> HIDE DEF flushed
<1>6. Keeps(flushed, marked)
  BY <1>2, <1>5, MarkKeeps DEF Inv
<1> HIDE DEF marked
<1>7. Inv(marked)
  BY <1>5, <1>6, KeepsInv
<1>8. Inv(CheckSessionDone(marked))
  BY <1>7, CheckSessionDoneKeeps, KeepsInv DEF Inv
<1>9. QED
  BY <1>1, <1>5, <1>7, <1>8

LEMMA HandleStateInv ==
  ASSUME NEW h, Inv(h), NEW n \in Live(h), NEW state \in States
  PROVE  Inv(HandleState(h, n, state))
<1> DEFINE i == WithState(h, n, state)
<1>1. HandleState(h, n, state) = IF state = "idle" THEN FlushQueue(i, n) ELSE i
  BY DEF HandleState, WithState
<1>2. n \in Name /\ Typed(h)
  BY DEF Live, Inv
<1>3. /\ Typed(i) /\ Stable(h, i) /\ SameFloor(h, i) /\ i.reg[n].state = state
      /\ DrainedBut(i, {n})
  BY <1>2, WithStateType, DrainedAll DEF Inv
<1>4. CASE state = "idle"
  <2>1. Keeps(i, i)
    BY <1>3 DEF Keeps, Follows, Stable
  <2>2. QED
    BY <1>1, <1>4, <2>1, IdleFlushed
<1>5. CASE state # "idle"
  <2>1. Linked(i) /\ LimitFrozen(i)
    BY <1>3, StableLinked DEF Inv, SameFloor, LimitFrozen
  <2>2. IdleDrained(i)
    BY <1>3, <1>5, DrainedAll
  <2>3. QED
    BY <1>1, <1>3, <1>5, <2>1, <2>2 DEF Inv
<1>6. QED
  BY <1>4, <1>5

LEMMA BufferGoalKeeps ==
  ASSUME NEW h, Typed(h)
  PROVE  Keeps(h, BufferGoal(h))
<1> DEFINE reg == [n \in Name |-> IF n \in Agents(h)
                     THEN Overhear(h.reg[n], Line("overheard", 0)) ELSE h.reg[n]]
<1>1. BufferGoal(h) = WithReg(h, reg)
  BY DEF BufferGoal, WithReg
<1>2. \A n \in Name : Reboxed(h.reg[n], reg[n]) /\ reg[n].queue = h.reg[n].queue
  <2> TAKE n \in Name
  <2>1. h.reg[n] \in Reg /\ BoundedReg(h.reg[n]) /\ Line("overheard", 0) \in Msg
    BY LineType DEF Typed, HubState
  <2>2. QED
    BY <2>1, OverhearType DEF Reboxed, SameSeat
<1>3. reg \in [Name -> Reg]
  BY <1>2 DEF Reboxed
<1> HIDE DEF reg
<1>4. QED
  BY <1>1, <1>2, <1>3, ReboxKeeps DEF Agents, Live

\* The floor after a command of an observer.
WithFloor(h, round, frozen, muted, limit) ==
  [h EXCEPT !.round = round, !.frozen = frozen, !.muted = muted, !.limit = limit]

LEMMA WithFloorKeeps ==
  ASSUME NEW h, Typed(h), NEW round \in Nat, NEW frozen \in BOOLEAN, NEW muted \in BOOLEAN,
         NEW limit \in Nat \ {0}, LimitFrozen(h) /\ round >= limit => frozen
  PROVE  LET g == WithFloor(h, round, frozen, muted, limit)
         IN  Keeps(h, g) /\ g.reg = h.reg
<1> DEFINE g == WithFloor(h, round, frozen, muted, limit)
<1>1. /\ g \in HubState /\ g.reg = h.reg /\ g.conn = h.conn /\ g.recent = h.recent
  BY DEF Typed, HubState, WithFloor
<1>2. g.round = round /\ g.limit = limit /\ (LimitFrozen(h) => LimitFrozen(g))
  BY DEF Typed, HubState, WithFloor, LimitFrozen
<1> HIDE DEF g
<1>3. Typed(g) /\ Stable(h, g)
  BY <1>1 DEF Typed, Stable
<1>4. QED
  BY <1>1, <1>2, <1>3 DEF Keeps, Follows, g

LEMMA ResumedAbove ==
  ASSUME NEW h, Typed(h), NEW k \in Nat
  PROVE  ResumedLimit(h, k) \in Nat \ {0} /\ h.round < ResumedLimit(h, k)
<1>1. h.round \in Nat /\ h.limit \in Nat \ {0} /\ ConfigRounds \in Nat \ {0}
  BY ConfigAssumption DEF Typed, HubState
<1>2. QED
  BY <1>1 DEF ResumedLimit

LEMMA RunCmdKeeps ==
  ASSUME NEW h, Inv(h), NEW x \in [cmd : CmdNames, n : Nat], NEW rank \in Ranks(Agents(h))
  PROVE  Keeps(h, RunCmd(h, x, rank))
<1>0. /\ Typed(h) /\ Linked(h) /\ NoName \in Name \cup {NoName}
      /\ h.round \in Nat /\ h.limit \in Nat \ {0}
      /\ h.frozen \in BOOLEAN /\ h.muted \in BOOLEAN
  BY DEF Inv, Typed, HubState
<1>1. CASE x.cmd = "freeze"
  <2> DEFINE g == WithFloor(h, h.round, TRUE, h.muted, h.limit)
  <2>1. RunCmd(h, x, rank) = Emit(g, "frozen", NoName)
    BY <1>0, <1>1 DEF RunCmd, WithFloor, Typed, HubState
  <2>2. Keeps(h, g)
    BY <1>0, WithFloorKeeps
  <2> HIDE DEF g
  <2>3. Keeps(g, Emit(g, "frozen", NoName))
    BY <2>2, <1>0, EmitKeeps DEF Keeps, Events
  <2>4. QED
    BY <2>1, <2>2, <2>3, KeepsTransitive
<1>2. CASE x.cmd = "resume"
  <2> DEFINE limit == ResumedLimit(h, x.n)
             g     == WithFloor(h, h.round, FALSE, h.muted, limit)
  <2>1. RunCmd(h, x, rank) = Emit(g, "resumed", NoName)
    BY <1>0, <1>2 DEF RunCmd, WithFloor, Typed, HubState
  <2>2. limit \in Nat \ {0} /\ h.round < limit
    BY <1>0, ResumedAbove
  <2> HIDE DEF limit
  <2>3. ~(h.round >= limit)
    BY <1>0, <2>2
  <2>4. Keeps(h, g)
    BY <1>0, <2>2, <2>3, WithFloorKeeps
  <2> HIDE DEF g
  <2>5. Keeps(g, Emit(g, "resumed", NoName))
    BY <2>4, <1>0, EmitKeeps DEF Keeps, Events
  <2>6. QED
    BY <2>1, <2>4, <2>5, KeepsTransitive
<1>3. CASE x.cmd = "reset"
  <2> DEFINE g == WithFloor(h, 0, FALSE, h.muted, h.limit)
  <2>1. RunCmd(h, x, rank) = Emit(g, "reset", NoName)
    BY <1>0, <1>3 DEF RunCmd, WithFloor, Typed, HubState
  <2>2. ~(0 >= h.limit)
    BY <1>0
  <2>3. Keeps(h, g)
    BY <1>0, <2>2, WithFloorKeeps
  <2> HIDE DEF g
  <2>4. Keeps(g, Emit(g, "reset", NoName))
    BY <2>3, <1>0, EmitKeeps DEF Keeps, Events
  <2>5. QED
    BY <2>1, <2>3, <2>4, KeepsTransitive
<1>4. ASSUME NEW b \in BOOLEAN, NEW event \in {"muted", "unmuted"}
      PROVE  LET e == Emit(WithFloor(h, h.round, h.frozen, b, h.limit), event, NoName)
             IN  Keeps(h, SystemMessage(e, rank))
  <2> DEFINE g == WithFloor(h, h.round, h.frozen, b, h.limit)
             e == Emit(g, event, NoName)
  <2>1. LimitFrozen(h) /\ h.round >= h.limit => h.frozen
    BY DEF LimitFrozen
  <2>2. Keeps(h, g)
    BY <1>0, <2>1, WithFloorKeeps
  <2> HIDE DEF g
  <2>3. Keeps(g, e)
    BY <2>2, <1>0, EmitKeeps DEF Keeps, Events
  <2> HIDE DEF e
  <2>4. Keeps(h, e)
    BY <2>2, <2>3, KeepsTransitive
  <2>5. Typed(e) /\ Linked(e) /\ Agents(e) = Agents(h)
    BY <1>0, <2>4, KeepsInvariants DEF Keeps
  <2>6. Keeps(e, SystemMessage(e, rank))
    BY <2>5, SystemMessageKeeps
  <2>7. Keeps(h, SystemMessage(e, rank))
    BY <2>4, <2>6, KeepsTransitive
  <2>8. QED
    BY <2>7 DEF e, g
<1>5. CASE x.cmd = "mute"
  <2>1. RunCmd(h, x, rank) =
          SystemMessage(Emit(WithFloor(h, h.round, h.frozen, TRUE, h.limit),
                             "muted", NoName), rank)
    BY <1>0, <1>5 DEF RunCmd, WithFloor, Typed, HubState
  <2>2. QED
    BY <1>4, <2>1
<1>6. CASE x.cmd = "unmute"
  <2>1. RunCmd(h, x, rank) =
          SystemMessage(Emit(WithFloor(h, h.round, h.frozen, FALSE, h.limit),
                             "unmuted", NoName), rank)
    BY <1>0, <1>6 DEF RunCmd, WithFloor, Typed, HubState
  <2>2. QED
    BY <1>4, <2>1
<1>7. CASE x.cmd = "goal"
  <2> DEFINE e == Emit(h, "goal_set", NoName)
  <2>1. RunCmd(h, x, rank) = BufferGoal(e)
    BY <1>7 DEF RunCmd
  <2>2. Keeps(h, e)
    BY <1>0, EmitKeeps DEF Events
  <2> HIDE DEF e
  <2>3. Keeps(e, BufferGoal(e))
    BY <2>2, BufferGoalKeeps DEF Keeps
  <2>4. QED
    BY <2>1, <2>2, <2>3, KeepsTransitive
<1>8. QED
  BY <1>1, <1>2, <1>3, <1>5, <1>6, <1>7 DEF CmdNames

LEMMA HandleCmdInv ==
  ASSUME NEW h, Inv(h), NEW c \in Conn, NEW n \in Live(h),
         NEW x \in [cmd : CmdNames, n : Nat], NEW rank \in Ranks(Agents(h))
  PROVE  Inv(HandleCmd(h, c, n, x, rank))
<1> DEFINE r == RunCmd(h, x, rank)
<1>1. h.reg[n].client \in Conn
  BY DEF Inv, Linked, Owned
<1>2. HandleCmd(h, c, n, x, rank) =
        IF IsObserver(h, n) THEN Reply(r, h.reg[n].client, c, "ok")
        ELSE Reply(h, h.reg[n].client, c, "err")
  BY DEF HandleCmd
<1>3. Keeps(h, r)
  BY RunCmdKeeps
<1> HIDE DEF r
<1>4. Inv(r)
  BY <1>3, KeepsInv
<1>5. Inv(Reply(r, h.reg[n].client, c, "ok"))
  BY <1>1, <1>4, ReplyKeeps, KeepsInv DEF Inv
<1>6. Inv(Reply(h, h.reg[n].client, c, "err"))
  BY <1>1, ReplyKeeps, KeepsInv DEF Inv
<1>7. QED
  BY <1>2, <1>5, <1>6

-----------------------------------------------------------------------------
(* Connections end.                                                        *)

\* Changes of connections that only take them down.
WithConn(h, conn) == [h EXCEPT !.conn = conn]

LEMMA WithConnType ==
  ASSUME NEW h, Typed(h), NEW conn \in [Conn -> Link], \A c \in Conn : conn[c].out <= OutboundMax
  PROVE  LET g == WithConn(h, conn)
         IN  Typed(g) /\ g.reg = h.reg /\ g.conn = conn /\ SameFloor(h, g)
<1> DEFINE g == WithConn(h, conn)
<1>1. /\ g \in HubState /\ g.reg = h.reg /\ g.conn = conn /\ SameFloor(h, g)
  BY DEF Typed, HubState, WithConn, SameFloor
<1> HIDE DEF g
<1>2. QED
  BY <1>1 DEF Typed, SameFloor, g

\* One connection is exchanged for k.
LEMMA OneConnType ==
  ASSUME NEW h, Typed(h), NEW c \in Conn, NEW k \in Link, k.out <= OutboundMax
  PROVE  LET g == [h EXCEPT !.conn[c] = k]
         IN  /\ Typed(g) /\ g.reg = h.reg /\ SameFloor(h, g)
             /\ g.conn[c] = k /\ \A d \in Conn \ {c} : g.conn[d] = h.conn[d]
<1> DEFINE conn == [h.conn EXCEPT ![c] = k]
<1>1. conn \in [Conn -> Link] /\ \A d \in Conn : conn[d].out <= OutboundMax
  BY DEF Typed, HubState
<1>2. [h EXCEPT !.conn[c] = k] = WithConn(h, conn)
  BY DEF WithConn
<1>3. conn[c] = k /\ \A d \in Conn \ {c} : conn[d] = h.conn[d]
  BY DEF Typed, HubState
<1> DEFINE g == WithConn(h, conn)
<1> HIDE DEF conn
<1>4. Typed(g) /\ g.reg = h.reg /\ g.conn = conn /\ SameFloor(h, g)
  BY <1>1, WithConnType
<1>5. g.conn[c] = k /\ \A d \in Conn \ {c} : g.conn[d] = h.conn[d]
  BY <1>3, <1>4
<1> HIDE DEF g
<1>6. [h EXCEPT !.conn[c] = k] = g
  BY <1>2 DEF g
<1>7. QED
  BY <1>4, <1>5, <1>6

LEMMA OneConnKeeps ==
  ASSUME NEW h, Typed(h), NEW c \in Conn, NEW k \in Link, k.out <= OutboundMax,
         k.name = h.conn[c].name, k.phase = "free" => h.conn[c].phase = "free",
         k.connected => h.conn[c].connected
  PROVE  LET g == [h EXCEPT !.conn[c] = k]
         IN  Keeps(h, g) /\ g.reg = h.reg /\ g.conn[c] = k
<1> DEFINE g == [h EXCEPT !.conn[c] = k]
<1>1. /\ Typed(g) /\ g.reg = h.reg /\ SameFloor(h, g)
      /\ g.conn[c] = k /\ \A d \in Conn \ {c} : g.conn[d] = h.conn[d]
  BY OneConnType
<1> HIDE DEF g
<1>2. Stable(h, g)
  BY <1>1 DEF Stable
<1>3. QED
  BY <1>1, <1>2, SameKeeps DEF g

LEMMA CloseKeeps ==
  ASSUME NEW h, Typed(h), NEW c \in Conn
  PROVE  LET g == Close(h, c)
         IN  /\ Keeps(h, g) /\ g.reg = h.reg
             /\ g.conn[c].connected = FALSE /\ g.conn[c].name = h.conn[c].name
<1> DEFINE k == Cut(h.conn[c])
<1>1. h.conn[c] \in Link /\ OutboundMax \in Nat
  BY ConfigAssumption DEF Typed, HubState
<1>2. /\ k \in Link /\ k.name = h.conn[c].name /\ k.connected = FALSE
      /\ k.phase = h.conn[c].phase /\ k.out = 0
  BY <1>1, LinkFields, Zenon
<1>3. Close(h, c) = [h EXCEPT !.conn[c] = k]
  BY DEF Close
<1> HIDE DEF k
<1>4. k.out <= OutboundMax
  BY <1>1, <1>2
<1>5. /\ Keeps(h, Close(h, c)) /\ Close(h, c).reg = h.reg /\ Close(h, c).conn[c] = k
  BY <1>2, <1>3, <1>4, OneConnKeeps
<1>6. QED
  BY <1>2, <1>5

\* Registrations and names as before, the one of n apart, which connection c held.
Departed(h, n) == [h EXCEPT !.reg[n].where = "dead", !.reg[n].client = NoConn]

LEMMA DepartedType ==
  ASSUME NEW h, Inv(h), NEW n \in Live(h)
  PROVE  LET g == Departed(h, n)
         IN  /\ Typed(g) /\ LimitFrozen(g) /\ IdleDrained(g) /\ Owned(g) /\ Blank(g)
             /\ g.conn = h.conn
             /\ Live(g) = Live(h) \ {n}
             /\ \A m \in Live(g) : g.reg[m].client = h.reg[m].client
<1> DEFINE reg == [h.reg EXCEPT ![n].where = "dead", ![n].client = NoConn]
           g   == WithReg(h, reg)
<1>0. n \in Name /\ h.reg \in [Name -> Reg] /\ \A m \in Name : BoundedReg(h.reg[m])
  BY DEF Inv, Typed, HubState, Live
<1>1. Departed(h, n) = g
  BY DEF Departed, WithReg
<1>2. reg \in [Name -> Reg]
  <2> DEFINE r == [h.reg[n] EXCEPT !.where = "dead", !.client = NoConn]
  <2>1. r \in Reg
    BY <1>0 DEF Reg
  <2>2. reg = [h.reg EXCEPT ![n] = r]
    OBVIOUS
  <2> HIDE DEF r, reg
  <2> QED
    BY <1>0, <2>1, <2>2
<1>3. \A m \in Name : BoundedReg(reg[m])
  BY <1>0 DEF BoundedReg, Reg
<1>4. reg[n].where = "dead" /\ \A m \in Name \ {n} : reg[m] = h.reg[m]
  BY <1>0 DEF Reg
<1> HIDE DEF reg
<1>5. Typed(g) /\ g.reg = reg /\ g.conn = h.conn /\ SameFloor(h, g)
  BY <1>2, <1>3, WithRegType DEF Inv
<1> HIDE DEF g
<1>6. Live(g) = Live(h) \ {n} /\ \A m \in Live(g) : g.reg[m] = h.reg[m]
  BY <1>0, <1>4, <1>5 DEF Live
<1>7. LimitFrozen(g)
  BY <1>5 DEF Inv, SameFloor, LimitFrozen
<1>8. IdleDrained(g)
  BY <1>5, <1>6 DEF Inv, IdleDrained, Agents, IsObserver, Reachable
<1>9. Owned(g) /\ Blank(g)
  BY <1>5, <1>6 DEF Inv, Linked, Owned, Blank
<1>10. QED
  BY <1>1, <1>5, <1>6, <1>7, <1>8, <1>9

LEMMA DisconnectInv ==
  ASSUME NEW h, Inv(h), NEW c \in Conn
  PROVE  LET g == Disconnect(h, c)
         IN  /\ Inv(g)
             /\ Live(g) \subseteq Live(h)
             /\ \A n \in Live(g) : g.reg[n].client # c
             /\ \A k \in Conn : /\ g.conn[k].name = h.conn[k].name
                                /\ g.conn[k].phase = "free" => h.conn[k].phase = "free"
<1> DEFINE n == h.conn[c].name
<1>0. Typed(h) /\ Linked(h) /\ Owned(h) /\ Exclusive(h)
  BY DEF Inv, Linked
<1>1. CASE Holds(h, c)
  <2> DEFINE d == Departed(h, n)
             e == Emit(d, "peer_left", n)
             s == CheckSessionDone(e)
             g == Close(s, c)
  <2>1. n \in Live(h) /\ n \in Name /\ h.reg[n].client = c
    BY <1>1 DEF Holds, Live
  <2>2. Disconnect(h, c) = g
    BY <1>1 DEF Disconnect, Depart, Departed
  <2>3. /\ Typed(d) /\ LimitFrozen(d) /\ IdleDrained(d) /\ Owned(d) /\ Blank(d)
        /\ d.conn = h.conn
        /\ Live(d) = Live(h) \ {n}
        /\ \A m \in Live(d) : d.reg[m].client = h.reg[m].client
    BY <2>1, DepartedType
  <2> HIDE DEF d
  <2>4. Keeps(d, e)
    BY <2>1, <2>3, EmitKeeps DEF Events
  <2> HIDE DEF e
  <2>5. Keeps(e, s)
    BY <2>4, CheckSessionDoneKeeps DEF Keeps
  <2> HIDE DEF s
  <2>6. Keeps(s, g) /\ g.conn[c].connected = FALSE
    BY <2>5, CloseKeeps DEF Keeps
  <2> HIDE DEF g
  <2>7. Keeps(d, g)
    BY <2>4, <2>5, <2>6, KeepsTransitive
  <2>8. Live(g) = Live(d) /\ (DrainedBut(d, {}) => DrainedBut(g, {}))
    BY <2>7, KeepsInvariants
  <2>9. Typed(g) /\ LimitFrozen(g) /\ IdleDrained(g)
    BY <2>3, <2>7, <2>8, DrainedAll DEF Keeps
  <2>10. Stable(d, g)
    BY <2>7 DEF Keeps, Follows
  <2>11. Owned(g) /\ Blank(g)
    BY <2>3, <2>8, <2>10 DEF Owned, Blank, Stable, Live
  <2>12. Exclusive(g)
    <3> SUFFICES ASSUME NEW k \in Conn, g.conn[k].connected, g.conn[k].name # NoName
                 PROVE  g.conn[k].name \in Live(g) /\ g.reg[g.conn[k].name].client = k
      BY DEF Exclusive
    <3> DEFINE m == h.conn[k].name
    <3>1. k # c
      BY <2>6
    <3>2. g.conn[k].name = m /\ h.conn[k].connected
      BY <2>3, <2>10 DEF Stable
    <3>3. m \in Live(h) /\ h.reg[m].client = k
      BY <1>0, <3>2 DEF Exclusive
    <3>4. m # n
      BY <2>1, <3>1, <3>3
    <3>5. m \in Live(d) /\ m \in Name /\ d.reg[m].client = k
      BY <2>3, <3>3, <3>4 DEF Live
    <3>6. QED
      BY <2>8, <2>10, <3>2, <3>5 DEF Stable
  <2>13. \A m \in Live(g) : g.reg[m].client # c
    <3> TAKE m \in Live(g)
    <3>1. m \in Live(h) /\ m # n /\ m \in Name /\ g.reg[m].client = h.reg[m].client
      BY <2>3, <2>8, <2>10 DEF Stable, Live
    <3>2. h.conn[h.reg[m].client].name = m
      BY <1>0, <3>1 DEF Owned
    <3>3. QED
      BY <3>1, <3>2
  <2>14. \A k \in Conn : /\ g.conn[k].name = h.conn[k].name
                         /\ g.conn[k].phase = "free" => h.conn[k].phase = "free"
    BY <2>3, <2>10 DEF Stable
  <2>15. QED
    BY <2>2, <2>3, <2>8, <2>9, <2>11, <2>12, <2>13, <2>14 DEF Inv, Linked
<1>2. CASE ~Holds(h, c)
  <2> DEFINE g == Close(h, c)
  <2>1. Disconnect(h, c) = g
    BY <1>2 DEF Disconnect
  <2>2. Keeps(h, g)
    BY <1>0, CloseKeeps
  <2> HIDE DEF g
  <2>3. Inv(g) /\ Live(g) = Live(h) /\ Stable(h, g)
    BY <2>2, KeepsInv
  <2>4. \A m \in Live(g) : g.reg[m].client # c
    <3> TAKE m \in Live(g)
    <3>1. m \in Live(h) /\ g.reg[m].client = h.reg[m].client
      BY <2>3 DEF Stable, Live
    <3>2. h.conn[h.reg[m].client].name = m
      BY <1>0, <3>1 DEF Owned
    <3>3. QED
      BY <1>2, <3>1, <3>2 DEF Holds
  <2>5. QED
    BY <2>1, <2>3, <2>4 DEF Stable
<1>3. QED
  BY <1>1, <1>2

-----------------------------------------------------------------------------
(* A connection claims a name.                                             *)

Claimed(r, x) ==
  [r EXCEPT !.where = "live", !.kind = x.kind, !.capable = x.capable,
            !.client = x.conn, !.state = "idle", !.finished = FALSE, !.awaiting = FALSE]

LEMMA ClaimedType ==
  ASSUME NEW r \in Reg, BoundedReg(r), NEW x \in Hello
  PROVE  LET q == Claimed(r, x)
         IN  /\ q \in Reg /\ BoundedReg(q) /\ q.where = "live" /\ q.kind = x.kind
             /\ q.client = x.conn /\ q.queue = r.queue
BY DEF Claimed, Reg, BoundedReg, Hello, Kinds, States

LEMMA RegisteredType ==
  ASSUME NEW p \in Reg, BoundedReg(p), NEW x \in Hello
  PROVE  LET q == Registered(p, x)
         IN  /\ q \in Reg /\ BoundedReg(q) /\ q.where = "live" /\ q.kind = x.kind
             /\ q.client = x.conn /\ (p.where # "dead" => q.queue = << >>)
<1>1. << >> \in Seq(Msg) /\ Len(<< >>) = 0 /\ QueueCap \in Nat /\ ContextCap \in Nat
  BY CapsAssumption, EmptySeq
<1>2. NoReg \in Reg /\ BoundedReg(NoReg) /\ NoReg.queue = << >>
  BY <1>1 DEF NoReg, Reg, Kinds, States, BoundedReg
<1>3. Registered(p, x) = Claimed(IF p.where = "dead" THEN p ELSE NoReg, x)
  BY DEF Registered, Claimed
<1>4. CASE p.where = "dead"
  BY <1>3, <1>4, ClaimedType
<1>5. CASE p.where # "dead"
  <2>1. Registered(p, x) = Claimed(NoReg, x)
    BY <1>3, <1>5
  <2>2. QED
    BY <1>2, <2>1, ClaimedType
<1>6. QED
  BY <1>4, <1>5

Named(h, x) == [h EXCEPT !.reg[x.name] = Registered(@, x), !.conn[x.conn].name = x.name]

LEMMA NamedType ==
  ASSUME NEW h, Inv(h), NEW x \in Hello, x.name \notin Live(h),
         h.conn[x.conn].name = NoName, h.conn[x.conn].phase # "free"
  PROVE  LET g == Named(h, x)
         IN  /\ Typed(g) /\ Linked(g) /\ LimitFrozen(g)
             /\ DrainedBut(g, {x.name})
             /\ x.name \in Live(g) /\ g.reg[x.name].client = x.conn
             /\ g.reg[x.name].kind = x.kind
             /\ h.reg[x.name].where # "dead" => g.reg[x.name].queue = << >>
<1> DEFINE n    == x.name
           c    == x.conn
           q    == Registered(h.reg[n], x)
           reg  == [h.reg EXCEPT ![n] = q]
           conn == [h.conn EXCEPT ![c].name = n]
           w    == WithReg(h, reg)
           g    == WithConn(w, conn)
<1>0. /\ n \in Name /\ c \in Conn /\ n # NoName
      /\ h.reg \in [Name -> Reg] /\ \A m \in Name : BoundedReg(h.reg[m])
      /\ h.conn \in [Conn -> Link] /\ \A k \in Conn : h.conn[k].out <= OutboundMax
  BY IdentityAssumption DEF Hello, Inv, Typed, HubState
<1>1. Named(h, x) = g
  BY DEF Named, WithReg, WithConn, Inv, Typed, HubState
<1>2. /\ q \in Reg /\ BoundedReg(q) /\ q.where = "live" /\ q.kind = x.kind
      /\ q.client = c /\ (h.reg[n].where # "dead" => q.queue = << >>)
  BY <1>0, RegisteredType
<1> HIDE DEF q
<1>3. /\ reg \in [Name -> Reg] /\ reg[n] = q /\ \A m \in Name \ {n} : reg[m] = h.reg[m]
  BY <1>0, <1>2
<1>4. \A m \in Name : BoundedReg(reg[m])
  BY <1>0, <1>2, <1>3
<1>5. conn \in [Conn -> Link]
  BY <1>0 DEF Link
<1>6. /\ conn[c].name = n /\ conn[c].connected = h.conn[c].connected
      /\ conn[c].phase = h.conn[c].phase /\ conn[c].out = h.conn[c].out
      /\ \A k \in Conn \ {c} : conn[k] = h.conn[k]
  BY <1>0 DEF Link
<1> HIDE DEF reg, conn
<1>7. Typed(w) /\ w.reg = reg /\ w.conn = h.conn /\ SameFloor(h, w)
  BY <1>3, <1>4, WithRegType DEF Inv
<1> HIDE DEF w
<1>8. \A k \in Conn : conn[k].out <= OutboundMax
  BY <1>0, <1>6
<1>9. Typed(g) /\ g.reg = reg /\ g.conn = conn /\ SameFloor(w, g)
  BY <1>5, <1>7, <1>8, WithConnType
<1> HIDE DEF g
<1>10. LimitFrozen(g)
  BY <1>7, <1>9 DEF Inv, SameFloor, LimitFrozen
<1>11. Live(g) = Live(h) \cup {n} /\ Live(h) \subseteq Name
  BY <1>0, <1>2, <1>3, <1>9 DEF Live
<1>12. \A m \in Live(h) : m # n /\ g.reg[m] = h.reg[m] /\ h.reg[m].client # c
                        /\ h.reg[m].client \in Conn
  <2> TAKE m \in Live(h)
  <2>1. m # n /\ m \in Name /\ g.reg[m] = h.reg[m]
    BY <1>3, <1>9, <1>11
  <2>2. h.reg[m].client \in Conn /\ h.conn[h.reg[m].client].name = m
    BY DEF Inv, Linked, Owned
  <2>3. m # NoName
    BY <2>1, IdentityAssumption
  <2>4. QED
    BY <2>1, <2>2, <2>3
<1>13. Owned(g)
  <2> SUFFICES ASSUME NEW m \in Live(g)
               PROVE  g.reg[m].client \in Conn /\ g.conn[g.reg[m].client].name = m
    BY DEF Owned
  <2>1. CASE m = n
    BY <1>0, <1>2, <1>3, <1>6, <1>9, <2>1
  <2>2. CASE m # n
    <3>1. m \in Live(h)
      BY <1>11, <2>2
    <3>2. h.conn[h.reg[m].client].name = m
      BY <3>1 DEF Inv, Linked, Owned
    <3>3. QED
      BY <1>6, <1>9, <1>12, <3>1, <3>2
  <2>3. QED
    BY <2>1, <2>2
<1>14. Exclusive(g)
  <2> SUFFICES ASSUME NEW k \in Conn, g.conn[k].connected, g.conn[k].name # NoName
               PROVE  g.conn[k].name \in Live(g) /\ g.reg[g.conn[k].name].client = k
    BY DEF Exclusive
  <2>1. CASE k = c
    BY <1>2, <1>3, <1>6, <1>9, <1>11, <2>1
  <2>2. CASE k # c
    <3>1. g.conn[k] = h.conn[k]
      BY <1>6, <1>9, <2>2
    <3>2. h.conn[k].name \in Live(h) /\ h.reg[h.conn[k].name].client = k
      BY <3>1 DEF Inv, Linked, Exclusive
    <3>3. QED
      BY <1>11, <1>12, <3>1, <3>2
  <2>3. QED
    BY <2>1, <2>2
<1>15. Blank(g)
  BY <1>6, <1>9 DEF Inv, Linked, Blank
<1>16. DrainedBut(g, {n})
  <2> SUFFICES ASSUME NEW m \in Agents(g) \ {n}, g.reg[m].state = "idle", Reachable(g, m)
               PROVE  g.reg[m].queue = << >>
    BY DEF DrainedBut
  <2>1. m \in Live(h)
    BY <1>11 DEF Agents
  <2>2. g.reg[m] = h.reg[m] /\ h.reg[m].client \in Conn /\ h.reg[m].client # c
    BY <1>12, <2>1
  <2>3. g.conn[h.reg[m].client] = h.conn[h.reg[m].client]
    BY <1>6, <1>9, <2>2
  <2>4. m \in Agents(h) /\ Reachable(h, m)
    BY <2>1, <2>2, <2>3 DEF Agents, IsObserver, Reachable
  <2>5. QED
    BY <2>2, <2>4 DEF Inv, IdleDrained
<1>17. QED
  BY <1>1, <1>2, <1>3, <1>9, <1>10, <1>11, <1>13, <1>14, <1>15, <1>16 DEF Linked

LEMMA PastType ==
  ASSUME NEW h, Typed(h), NEW x, NEW past \in InOrder(BacklogFor(h, x))
  PROVE  past \in Seq(Record)
<1> DEFINE S == BacklogFor(h, x)
           T == Items(h.recent, Len(h.recent))
           k == Cardinality(S)
<1>1. h.recent \in Seq(Record) /\ Len(h.recent) \in Nat
  BY LenProperties DEF Typed, HubState
<1>2. IsFiniteSet(1 .. Len(h.recent))
  BY <1>1, FS_Interval
<1>3. IsFiniteSet(T)
  <2> DEFINE f == [i \in 1 .. Len(h.recent) |-> h.recent[i]]
  <2>1. f \in Surjection(1 .. Len(h.recent), T)
    BY DEF Surjection, Items
  <2>2. QED
    BY <1>2, <2>1, FS_Surjection
<1>4. \A r \in T : r \in Record
  BY <1>1, ElementOfSeq DEF Items
<1>5. S \subseteq T
  BY DEF BacklogFor
<1> HIDE DEF S, T
<1>6. IsFiniteSet(S)
  BY <1>3, <1>5, FS_Subset
<1>7. k \in Nat
  BY <1>6, FS_CardinalityType
<1>8. past \in [1 .. k -> S]
  BY DEF InOrder, S
<1> HIDE DEF k
<1>9. QED
  BY <1>4, <1>5, <1>7, <1>8, SeqDef

LEMMA GiveBacklogKeeps ==
  ASSUME NEW h, Typed(h), NEW x \in Hello, x.name \in Live(h),
         h.reg[x.name].client = x.conn, NEW past \in Seq(Record)
  PROVE  Keeps(h, GiveBacklog(h, x, past))
<1> DEFINE n   == x.name
           ms  == [i \in DOMAIN past |-> Tag(past[i], "overheard")]
           reg == [h.reg EXCEPT ![n] = OverhearAll(@, ms)]
           all == {Tag(past[i], Addressing(n, past[i].to)) : i \in DOMAIN past}
           one == [q \in {n} |-> {Tag(past[i], Addressing(q, past[i].to)) : i \in DOMAIN past}]
<1>0. /\ n \in Name /\ x.conn \in Conn
      /\ h.reg \in [Name -> Reg] /\ \A m \in Name : BoundedReg(h.reg[m])
  BY DEF Hello, Typed, HubState
<1>1. DOMAIN past = 1 .. Len(past) /\ Len(past) \in Nat /\ \A i \in DOMAIN past : past[i] \in Record
  BY LenProperties, ElementOfSeq
<1>2. CASE x.kind = "agent"
  <2>1. \A i \in DOMAIN past : Tag(past[i], "overheard") \in Msg
    BY <1>1, TagType
  <2>2. ms \in [1 .. Len(past) -> Msg]
    BY <1>1, <2>1
  <2> HIDE DEF ms
  <2>3. ms \in Seq(Msg)
    BY <1>1, <2>2, SeqDef
  <2> DEFINE q == OverhearAll(h.reg[n], ms)
  <2>4. Reboxed(h.reg[n], q) /\ q.queue = h.reg[n].queue
    BY <1>0, <2>3, OverhearAllType
  <2>5. reg = [h.reg EXCEPT ![n] = q]
    BY <1>0
  <2> HIDE DEF q, reg
  <2>6. reg \in [Name -> Reg] /\ reg[n] = q /\ \A m \in Name \ {n} : reg[m] = h.reg[m]
    BY <1>0, <2>4, <2>5 DEF Reboxed
  <2>7. \A m \in Name : Reboxed(h.reg[m], reg[m]) /\ reg[m].queue = h.reg[m].queue
    BY <1>0, <2>4, <2>6 DEF Reboxed, SameSeat
  <2>8. GiveBacklog(h, x, past) = WithReg(h, reg)
    BY <1>2 DEF GiveBacklog, WithReg, reg, ms
  <2>9. QED
    BY <2>6, <2>7, <2>8, ReboxKeeps DEF Agents, Live
<1>3. CASE x.kind # "agent" /\ past = << >>
  <2>1. GiveBacklog(h, x, past) = h
    BY <1>3 DEF GiveBacklog
  <2>2. QED
    BY <2>1 DEF Keeps, Follows, Stable
<1>4. CASE x.kind # "agent" /\ past # << >>
  <2>1. all \in SUBSET Msg
    BY <1>1, TagType, AddressingType
  <2>2. DOMAIN one = {n} /\ one[n] = all
    OBVIOUS
  <2>3. GiveBacklog(h, x, past) = Deliver(h, one)
    BY <1>4 DEF GiveBacklog
  <2> HIDE DEF one, all
  <2>4. QED
    BY <1>0, <2>1, <2>2, <2>3, DeliverKeeps
<1>5. QED
  BY <1>2, <1>3, <1>4

\* The newcomer is seated; only its queue may still wait.
LEMMA SeatedType ==
  ASSUME NEW h, Inv(h), NEW x \in Hello, x.name \notin Live(h),
         h.conn[x.conn].name = NoName, h.conn[x.conn].phase # "free",
         NEW past \in Seq(Record)
  PROVE  Keeps(Named(h, x), Seated(h, x, past))
<1> DEFINE named    == Named(h, x)
           welcomed == Push(named, {[sink |-> x.conn, t |-> "welcome"]}, {})
           given    == GiveBacklog(welcomed, x, past)
           briefed  == IF h.reg[x.name].where = "dead" /\ x.kind = "agent" THEN welcomed
                       ELSE given
           joined   == EmitSkipping(briefed, "peer_joined", x.name, {x.name})
<1>0. x.name \in Name /\ x.conn \in Conn
  BY DEF Hello
<1>1. Seated(h, x, past) = joined
  BY DEF Seated, Named
<1>2. /\ Typed(named) /\ x.name \in Live(named) /\ named.reg[x.name].client = x.conn
  BY NamedType
<1> HIDE DEF named
<1>3. {[sink |-> x.conn, t |-> "welcome"]} \in SUBSET Frame /\ {} \in SUBSET Frame
  BY <1>0 DEF Frame, Signal
<1>4. Typed(welcomed) /\ welcomed.reg = named.reg /\ Keeps(named, welcomed)
  BY <1>2, <1>3, PushType, SameKeeps
<1> HIDE DEF welcomed
<1>5. x.name \in Live(welcomed) /\ welcomed.reg[x.name].client = x.conn
  BY <1>2, <1>4 DEF Live
<1>6. Keeps(welcomed, given)
  BY <1>4, <1>5, GiveBacklogKeeps
<1> HIDE DEF given
<1>7. Keeps(named, briefed)
  BY <1>4, <1>6, KeepsTransitive
<1> HIDE DEF briefed
<1>8. Keeps(briefed, joined)
  BY <1>0, <1>7, EmitType, SameKeeps DEF Keeps, Events
<1>9. QED
  BY <1>1, <1>7, <1>8, KeepsTransitive DEF named

LEMMA JoinInv ==
  ASSUME NEW h, Inv(h), NEW x \in Hello, x.name \notin Live(h),
         h.conn[x.conn].name = NoName, h.conn[x.conn].phase # "free",
         NEW past \in Seq(Record)
  PROVE  Inv(Join(h, x, past))
<1> DEFINE named  == Named(h, x)
           seated == Seated(h, x, past)
           f      == FlushQueue(seated, x.name)
<1>1. /\ Typed(named) /\ Linked(named) /\ LimitFrozen(named)
      /\ DrainedBut(named, {x.name}) /\ x.name \in Live(named)
      /\ h.reg[x.name].where # "dead" => named.reg[x.name].queue = << >>
  BY NamedType
<1>2. Keeps(named, seated)
  BY SeatedType
<1>3. Join(h, x, past) = IF h.reg[x.name].where = "dead" THEN f ELSE seated
  BY DEF Join
<1> HIDE DEF named, seated
<1>4. /\ Typed(seated) /\ Linked(seated) /\ LimitFrozen(seated)
      /\ DrainedBut(seated, {x.name}) /\ x.name \in Live(seated)
  BY <1>1, <1>2, KeepsInvariants DEF Keeps
<1>5. CASE h.reg[x.name].where = "dead"
  <2>1. Keeps(seated, f) /\ IdleDrained(f)
    BY <1>4, FlushQueueKeeps
  <2>2. QED
    BY <1>3, <1>4, <1>5, <2>1, KeepsInvariants DEF Inv, Keeps
<1>6. CASE h.reg[x.name].where # "dead"
  <2>1. IdleDrained(seated)
    <3> SUFFICES ASSUME NEW m \in Agents(seated), seated.reg[m].state = "idle",
                        Reachable(seated, m)
                 PROVE  seated.reg[m].queue = << >>
      BY DEF IdleDrained
    <3>1. CASE m = x.name
      BY <1>1, <1>2, <1>6, <3>1 DEF Keeps, Follows
    <3>2. CASE m # x.name
      BY <1>4, <3>2 DEF DrainedBut
    <3>3. QED
      BY <3>1, <3>2
  <2>2. QED
    BY <1>3, <1>4, <1>6, <2>1 DEF Inv
<1>7. QED
  BY <1>5, <1>6

LEMMA HandleHelloInv ==
  ASSUME NEW h, Inv(h), NEW x \in Hello, h.conn[x.conn].phase # "free",
         NEW past \in Seq(Record)
  PROVE  Inv(HandleHello(h, x, past))
<1> DEFINE c      == x.conn
           reaped == IF x.name \in Live(h) /\ ~Reachable(h, x.name)
                     THEN Disconnect(h, h.reg[x.name].client) ELSE h
           told   == Reply(reaped, c, c, "err")
<1>0. c \in Conn
  BY DEF Hello
<1>1. HandleHello(h, x, past) =
        IF h.conn[c].name # NoName THEN Reply(h, c, c, "err")
        ELSE IF x.name \in Live(reaped) THEN Close(told, c)
        ELSE Join(reaped, x, past)
  BY DEF HandleHello
<1>2. Inv(Reply(h, c, c, "err"))
  BY <1>0, ReplyKeeps, KeepsInv DEF Inv
<1>3. /\ Inv(reaped) /\ reaped.conn[c].name = h.conn[c].name
      /\ reaped.conn[c].phase # "free"
  <2>1. x.name \in Live(h) => h.reg[x.name].client \in Conn
    BY DEF Inv, Linked, Owned
  <2>2. CASE x.name \in Live(h) /\ ~Reachable(h, x.name)
    <3> DEFINE k == h.reg[x.name].client
               d == Disconnect(h, k)
    <3>0. k \in Conn
      BY <2>1, <2>2
    <3> HIDE DEF k
    <3>1. Inv(d) /\ \A m \in Conn : /\ d.conn[m].name = h.conn[m].name
                                    /\ d.conn[m].phase = "free" => h.conn[m].phase = "free"
      <4>1. Inv(d)
        BY <3>0, DisconnectInv
      <4>2. \A m \in Conn : /\ d.conn[m].name = h.conn[m].name
                            /\ d.conn[m].phase = "free" => h.conn[m].phase = "free"
        BY <3>0, DisconnectInv, Zenon
      <4>3. QED
        BY <4>1, <4>2
    <3> HIDE DEF d
    <3>2. reaped = d
      BY <2>2 DEF d, k
    <3>3. d.conn[c].phase # "free" /\ d.conn[c].name = h.conn[c].name
      BY <1>0, <3>1
    <3> HIDE DEF reaped
    <3>4. QED
      BY <3>1, <3>2, <3>3
  <2>3. CASE ~(x.name \in Live(h) /\ ~Reachable(h, x.name))
    BY <2>3
  <2>4. QED
    BY <2>2, <2>3
<1> HIDE DEF reaped
<1>4. Inv(Close(told, c))
  <2>1. Keeps(reaped, told)
    BY <1>0, <1>3, ReplyKeeps DEF Inv
  <2> HIDE DEF told
  <2>2. Keeps(told, Close(told, c))
    BY <1>0, <2>1, CloseKeeps DEF Keeps
  <2>3. QED
    BY <1>3, <2>1, <2>2, KeepsInv
<1>5. h.conn[c].name = NoName /\ x.name \notin Live(reaped) => Inv(Join(reaped, x, past))
  BY <1>3, JoinInv
<1>6. QED
  BY <1>1, <1>2, <1>4, <1>5

-----------------------------------------------------------------------------
(* The watchdog.                                                           *)

LEMMA PingKeeps ==
  ASSUME NEW h, Inv(h), NEW n \in Live(h)
  PROVE  Keeps(h, Ping(h, n))
<1> DEFINE p == Push(h, {[sink |-> h.reg[n].client, t |-> "ping"]}, {})
<1>0. n \in Name /\ h.reg[n].client \in Conn
  BY DEF Inv, Linked, Owned, Live
<1>1. {[sink |-> h.reg[n].client, t |-> "ping"]} \in SUBSET Frame /\ {} \in SUBSET Frame
  BY <1>0 DEF Frame, Signal
<1>2. Keeps(h, p)
  BY <1>1, PushType, SameKeeps DEF Inv
<1>3. Ping(h, n) = [p EXCEPT !.reg[n].awaiting = TRUE]
  BY DEF Ping
<1> HIDE DEF p
<1>4. Typed(p) /\ TRUE \in BOOLEAN
  BY <1>2 DEF Keeps
<1>5. Keeps(p, [p EXCEPT !.reg[n].awaiting = TRUE])
  BY <1>0, <1>4, MarkKeeps, Zenon
<1>6. QED
  BY <1>2, <1>3, <1>5, KeepsTransitive

LEMMA VisitedInv ==
  ASSUME NEW h, Inv(h), NEW n \in Live(h), NEW lapsed
  PROVE  Inv(Visited(h, n, lapsed))
<1> DEFINE pinged == IF "silence" \in lapsed /\ ~h.reg[n].awaiting THEN Ping(h, n) ELSE h
           i      == SetIdle(pinged, n)
           e      == Emit(i, "stall", n)
<1>0. n \in Name /\ h.reg[n].client \in Conn
  BY DEF Inv, Linked, Owned, Live
<1>1. Visited(h, n, lapsed) =
        IF Overdue(h, n, lapsed) THEN Disconnect(h, h.reg[n].client)
        ELSE IF InfersIdle(h, n, lapsed) THEN FlushQueue(e, n) ELSE pinged
  BY DEF Visited
<1>2. Inv(Disconnect(h, h.reg[n].client))
  BY <1>0, DisconnectInv
<1>3. Inv(pinged) /\ n \in Live(pinged)
  BY PingKeeps, KeepsInv
<1> HIDE DEF pinged
<1>4. i = WithState(pinged, n, "idle")
  BY DEF SetIdle, WithState
<1>5. Typed(i)
  BY <1>0, <1>3, <1>4, WithStateType DEF Inv, States
<1> HIDE DEF i
<1>6. Keeps(i, e)
  BY <1>0, <1>5, EmitKeeps DEF Events
<1> HIDE DEF e
<1>7. Inv(FlushQueue(e, n))
  BY <1>3, <1>4, <1>6, IdleFlushed
<1>8. QED
  BY <1>1, <1>2, <1>3, <1>7

-----------------------------------------------------------------------------
(* The steps of the process.                                               *)

LEMMA BootInv ==
  ASSUME NEW recent \in Seq(Record), Len(recent) <= RecentWindow
  PROVE  Inv(Boot(recent))
<1> DEFINE counter == IF recent = << >> THEN 0 ELSE recent[Len(recent)].id
           g == Boot(recent)
<1>1. counter \in Nat
  <2>1. CASE recent = << >>
    BY <2>1
  <2>2. CASE recent # << >>
    <3>1. Len(recent) \in 1 .. Len(recent)
      BY <2>2, LenProperties, EmptySeq
    <3>2. recent[Len(recent)] \in Record
      BY <3>1, ElementOfSeq
    <3>3. QED
      BY <2>2, <3>2 DEF Record
  <2>3. QED
    BY <2>1, <2>2
<1>2. NoReg \in Reg /\ BoundedReg(NoReg) /\ NoReg.where = "none"
  <2>1. << >> \in Seq(Msg) /\ Len(<< >>) = 0 /\ QueueCap \in Nat /\ ContextCap \in Nat
    BY CapsAssumption, EmptySeq
  <2>2. QED
    BY <2>1 DEF NoReg, Reg, Kinds, States, BoundedReg
<1>3. /\ FreeConn \in Link /\ FreeConn.name = NoName /\ FreeConn.connected = FALSE
      /\ FreeConn.out = 0
  BY DEF FreeConn, Link
<1>4. ConfigRounds \in Nat \ {0} /\ OutboundMax \in Nat
  BY ConfigAssumption
<1>5. /\ g.reg = [n \in Name |-> NoReg] /\ g.conn = [c \in Conn |-> FreeConn]
      /\ g.round = 0 /\ g.frozen = FALSE /\ g.limit = ConfigRounds /\ g.recent = recent
  BY DEF Boot
<1>6. g \in HubState
  <2> HIDE DEF NoReg, FreeConn
  <2>1. g = [reg |-> [n \in Name |-> NoReg], conn |-> [c \in Conn |-> FreeConn],
             round |-> 0, frozen |-> FALSE, muted |-> FALSE, limit |-> ConfigRounds,
             counter |-> counter, recent |-> recent, sent |-> {}]
    BY DEF Boot
  <2> HIDE DEF counter
  <2>2. QED
    BY <1>1, <1>2, <1>3, <1>4, <2>1 DEF HubState
<1> HIDE DEF g
<1>7. Live(g) = {}
  BY <1>2, <1>5 DEF Live
<1>8. Typed(g)
  BY <1>2, <1>3, <1>4, <1>5, <1>6 DEF Typed
<1>9. Linked(g)
  BY <1>3, <1>5, <1>7 DEF Linked, Owned, Exclusive, Blank
<1>10. IdleDrained(g) /\ LimitFrozen(g)
  BY <1>4, <1>5, <1>7 DEF IdleDrained, Agents, LimitFrozen
<1>11. QED
  BY <1>8, <1>9, <1>10 DEF Inv, g

LEMMA NowInv ==
  ASSUME Inv(hub)
  PROVE  Inv(Now) /\ Live(Now) = Live(hub) /\ Agents(Now) = Agents(hub)
         /\ Now.reg = hub.reg /\ Now.conn = hub.conn /\ SameFloor(hub, Now)
<1> DEFINE g == Now
<1>1. /\ g \in HubState /\ g.reg = hub.reg /\ g.conn = hub.conn /\ SameFloor(hub, g)
  BY DEF Now, Inv, Typed, HubState, SameFloor
<1> HIDE DEF g
<1>2. Typed(g) /\ Stable(hub, g)
  BY <1>1 DEF Inv, Typed, Stable, SameFloor
<1>3. Keeps(hub, g)
  BY <1>1, <1>2, SameKeeps
<1>4. QED
  BY <1>1, <1>3, KeepsInv DEF g

LEMMA HeardInv ==
  ASSUME Inv(hub), NEW c \in Conn, Known(c)
  PROVE  /\ Sender(c) \in Live(hub) /\ Sender(c) \in Name
         /\ Inv(Heard(c)) /\ Live(Heard(c)) = Live(hub) /\ Agents(Heard(c)) = Agents(hub)
<1> DEFINE n == Sender(c)
           w == Now
           g == [w EXCEPT !.reg[n].awaiting = FALSE]
<1>1. n \in Live(hub) /\ n \in Name
  BY DEF Known, Live
<1>2. Inv(w) /\ Live(w) = Live(hub) /\ Agents(w) = Agents(hub)
  BY NowInv
<1>3. Heard(c) = g
  BY DEF Heard
<1> HIDE DEF w, n
<1>4. Typed(w) /\ FALSE \in BOOLEAN
  BY <1>2 DEF Inv
<1>5. Keeps(w, g)
  BY <1>1, <1>4, MarkKeeps, Zenon
<1>6. QED
  BY <1>1, <1>2, <1>3, <1>5, KeepsInv DEF n

LEMMA HandledInv ==
  ASSUME NEW h, Inv(h), NEW c \in Conn
  PROVE  Inv(Handled(h, c))
<1> DEFINE k == [h.conn[c] EXCEPT !.phase = "ending"]
           g == [h EXCEPT !.conn[c] = k]
<1>1. h.conn[c] \in Link /\ h.conn[c].out <= OutboundMax
  BY DEF Inv, Typed, HubState
<1>2. /\ k \in Link /\ k.out = h.conn[c].out /\ k.name = h.conn[c].name
      /\ k.phase = "ending" /\ k.connected = h.conn[c].connected
  BY <1>1 DEF Link
<1>3. Handled(h, c) = IF h.conn[c].connected THEN h ELSE g
  BY DEF Handled
<1> HIDE DEF k
<1>4. Keeps(h, g)
  BY <1>1, <1>2, OneConnKeeps DEF Inv
<1> HIDE DEF g
<1>5. QED
  BY <1>3, <1>4, KeepsInv

LEMMA ConnectInv ==
  ASSUME Inv(hub), NEW c \in Conn, Connect(c)
  PROVE  Inv(hub')
<1> DEFINE w == Now
           k == [FreeConn EXCEPT !.phase = "reading", !.connected = TRUE]
           g == [w EXCEPT !.conn[c] = k]
<1>1. Inv(w) /\ w.conn = hub.conn
  BY NowInv
<1>2. hub' = g /\ hub.conn[c].phase = "free"
  BY DEF Connect
<1> HIDE DEF w
<1>3. k \in Link /\ k.name = NoName /\ k.phase = "reading" /\ k.out = 0
  BY DEF FreeConn, Link
<1>4. k.out <= OutboundMax
  BY <1>3, ConfigAssumption
<1> HIDE DEF k
<1>5. /\ Typed(g) /\ g.reg = w.reg /\ SameFloor(w, g)
      /\ g.conn[c] = k /\ \A d \in Conn \ {c} : g.conn[d] = w.conn[d]
  BY <1>1, <1>3, <1>4, OneConnType DEF Inv
<1> HIDE DEF g
<1>6. Live(g) = Live(w) /\ w.conn[c].name = NoName
  BY <1>1, <1>2, <1>5 DEF Live, Inv, Linked, Blank
<1>7. \A n \in Live(w) : w.reg[n].client \in Conn \ {c}
                         /\ w.conn[w.reg[n].client].name = n
  <2> TAKE n \in Live(w)
  <2>1. w.reg[n].client \in Conn /\ w.conn[w.reg[n].client].name = n /\ n \in Name
    BY <1>1 DEF Inv, Linked, Owned, Live
  <2>2. n # NoName
    BY <2>1, IdentityAssumption
  <2>3. QED
    BY <1>6, <2>1, <2>2
<1>8. Linked(g)
  <2>1. Owned(g)
    BY <1>5, <1>6, <1>7 DEF Owned
  <2>2. Exclusive(g)
    <3> SUFFICES ASSUME NEW d \in Conn, g.conn[d].connected, g.conn[d].name # NoName
                 PROVE  g.conn[d].name \in Live(g) /\ g.reg[g.conn[d].name].client = d
      BY DEF Exclusive
    <3>1. d # c /\ g.conn[d] = w.conn[d]
      BY <1>3, <1>5
    <3>2. w.conn[d].name \in Live(w) /\ w.reg[w.conn[d].name].client = d
      BY <1>1, <3>1 DEF Inv, Linked, Exclusive
    <3>3. QED
      BY <1>5, <1>6, <3>1, <3>2
  <2>3. Blank(g)
    BY <1>1, <1>3, <1>5 DEF Blank, Inv, Linked
  <2>4. QED
    BY <2>1, <2>2, <2>3 DEF Linked
<1>9. IdleDrained(g)
  BY <1>1, <1>5, <1>6, <1>7 DEF Inv, IdleDrained, Agents, IsObserver, Reachable
<1>10. LimitFrozen(g)
  BY <1>1, <1>5 DEF Inv, LimitFrozen, SameFloor
<1>11. QED
  BY <1>2, <1>5, <1>8, <1>9, <1>10 DEF Inv

LEMMA ReadHelloInv ==
  ASSUME Inv(hub), NEW x \in Hellos, ReadHello(x)
  PROVE  Inv(hub')
<1>1. x \in Hello /\ x.conn \in Conn
  BY InputAssumption DEF Hello
<1>2. PICK past \in InOrder(BacklogFor(hub, x)) :
        hub' = Handled(HandleHello(Now, x, past), x.conn)
  BY DEF ReadHello
<1>3. past \in Seq(Record)
  BY <1>2, PastType DEF Inv
<1>4. Inv(Now) /\ Now.conn[x.conn].phase # "free"
  BY NowInv DEF ReadHello, Reading
<1>5. Inv(HandleHello(Now, x, past))
  BY <1>1, <1>3, <1>4, HandleHelloInv
<1>6. QED
  BY <1>1, <1>2, <1>5, HandledInv

LEMMA ReadSayInv ==
  ASSUME Inv(hub), NEW c \in Conn, ReadSay(c)
  PROVE  Inv(hub')
<1>1. PICK s \in Says, screen \in Screens :
        hub' = Handled(HandleSay(Heard(c), c, Sender(c), s, screen), c)
  BY DEF ReadSay
<1>2. Inv(Heard(c)) /\ Sender(c) \in Live(Heard(c))
  BY HeardInv DEF ReadSay
<1>3. s \in SayFrame
  BY InputAssumption
<1>4. Inv(HandleSay(Heard(c), c, Sender(c), s, screen))
  BY <1>2, <1>3, HandleSayInv
<1>5. QED
  BY <1>1, <1>4, HandledInv

LEMMA ReadStateInv ==
  ASSUME Inv(hub), NEW c \in Conn, ReadState(c)
  PROVE  Inv(hub')
<1>1. PICK state \in Reports : hub' = Handled(HandleState(Heard(c), Sender(c), state), c)
  BY DEF ReadState
<1>2. Inv(Heard(c)) /\ Sender(c) \in Live(Heard(c))
  BY HeardInv DEF ReadState
<1>3. state \in States
  BY InputAssumption
<1>4. Inv(HandleState(Heard(c), Sender(c), state))
  BY <1>2, <1>3, HandleStateInv
<1>5. QED
  BY <1>1, <1>4, HandledInv

LEMMA ReadCmdInv ==
  ASSUME Inv(hub), NEW c \in Conn, ReadCmd(c)
  PROVE  Inv(hub')
<1>1. PICK x \in Cmds, rank \in Ranks(Agents(hub)) :
        hub' = Handled(HandleCmd(Heard(c), c, Sender(c), x, rank), c)
  BY DEF ReadCmd
<1>2. /\ Inv(Heard(c)) /\ Sender(c) \in Live(Heard(c))
      /\ rank \in Ranks(Agents(Heard(c)))
  BY HeardInv DEF ReadCmd
<1>3. x \in [cmd : CmdNames, n : Nat]
  BY InputAssumption
<1>4. Inv(HandleCmd(Heard(c), c, Sender(c), x, rank))
  BY <1>2, <1>3, HandleCmdInv
<1>5. QED
  BY <1>1, <1>4, HandledInv

LEMMA ReadOthersInv ==
  ASSUME Inv(hub), NEW c \in Conn,
         ReadRoster(c) \/ ReadPong(c) \/ ReadBye(c) \/ ReadMalformed(c)
  PROVE  Inv(hub')
<1>1. CASE ReadRoster(c)
  <2> DEFINE k == hub.reg[Sender(c)].client
             frames == {[sink |-> k, t |-> "roster"]}
  <2>1. hub' = Handled(Push(Heard(c), frames, {}), c)
    BY <1>1 DEF ReadRoster
  <2>2. Inv(Heard(c)) /\ k \in Conn
    BY <1>1, HeardInv DEF ReadRoster, Inv, Linked, Owned
  <2>3. frames \in SUBSET Frame /\ {} \in SUBSET Frame
    BY <2>2 DEF Frame, Signal
  <2> HIDE DEF frames
  <2>4. Keeps(Heard(c), Push(Heard(c), frames, {}))
    BY <2>2, <2>3, PushType, SameKeeps DEF Inv
  <2>5. QED
    BY <2>1, <2>2, <2>4, KeepsInv, HandledInv
<1>2. CASE ReadPong(c)
  BY <1>2, HeardInv, HandledInv DEF ReadPong
<1>3. CASE ReadBye(c)
  <2>1. hub' = Handled(Disconnect(Heard(c), c), c) /\ Inv(Heard(c))
    BY <1>3, HeardInv DEF ReadBye
  <2>2. Inv(Disconnect(Heard(c), c))
    BY <2>1, DisconnectInv
  <2>3. QED
    BY <2>1, <2>2, HandledInv
<1>4. CASE ReadMalformed(c)
  <2>1. hub' = Handled(Reply(Now, c, c, "err"), c) /\ Inv(Now)
    BY <1>4, NowInv DEF ReadMalformed
  <2>2. Inv(Reply(Now, c, c, "err"))
    BY <2>1, ReplyKeeps, KeepsInv DEF Inv
  <2>3. QED
    BY <2>1, <2>2, HandledInv
<1>5. QED
  BY <1>1, <1>2, <1>3, <1>4

LEMMA EndingInv ==
  ASSUME Inv(hub), NEW c \in Conn, StopReading(c) \/ WriteOne(c) \/ WriteFails(c)
  PROVE  Inv(hub')
<1>0. Inv(Now) /\ Now.conn = hub.conn
  BY NowInv
<1>1. CASE StopReading(c)
  <2>1. PICK told \in {Now, Reply(Now, c, c, "err")} :
          hub' = [told EXCEPT !.conn[c].phase = "ending"]
    BY <1>1 DEF StopReading
  <2>2. Inv(told)
    BY <1>0, ReplyKeeps, KeepsInv DEF Inv
  <2> DEFINE k == [told.conn[c] EXCEPT !.phase = "ending"]
             g == [told EXCEPT !.conn[c] = k]
  <2>3. told.conn[c] \in Link /\ told.conn[c].out <= OutboundMax
    BY <2>2 DEF Inv, Typed, HubState
  <2>4. /\ k \in Link /\ k.out = told.conn[c].out /\ k.name = told.conn[c].name
        /\ k.phase = "ending" /\ k.connected = told.conn[c].connected
    BY <2>3 DEF Link
  <2>5. hub' = g
    BY <2>1
  <2> HIDE DEF k
  <2>6. Keeps(told, g)
    BY <2>2, <2>3, <2>4, OneConnKeeps DEF Inv
  <2> HIDE DEF g
  <2>7. QED
    BY <2>2, <2>5, <2>6, KeepsInv
<1>2. CASE WriteOne(c)
  <2> DEFINE w == Now
             m == w.conn[c].out - 1
             k == [w.conn[c] EXCEPT !.out = m]
             g == [w EXCEPT !.conn[c] = k]
  <2>1. hub' = g
    BY <1>2 DEF WriteOne
  <2>2. w.conn[c] \in Link /\ w.conn[c].out <= OutboundMax /\ w.conn[c].out > 0
    BY <1>0, <1>2 DEF Inv, Typed, HubState, WriteOne
  <2> HIDE DEF w
  <2>3. m \in Nat /\ m <= OutboundMax
    BY <2>2, ConfigAssumption DEF Link
  <2> HIDE DEF m
  <2>4. /\ k \in Link /\ k.out = m /\ k.name = w.conn[c].name
        /\ k.phase = w.conn[c].phase /\ k.connected = w.conn[c].connected
    BY <2>2, <2>3 DEF Link
  <2> HIDE DEF k
  <2>5. Typed(w) /\ Inv(w)
    BY <1>0 DEF Inv, w
  <2>6. Keeps(w, g)
    BY <2>3, <2>4, <2>5, OneConnKeeps
  <2> HIDE DEF g
  <2>7. QED
    BY <2>1, <2>5, <2>6, KeepsInv
<1>3. CASE WriteFails(c)
  <2>1. hub' = Close(Now, c)
    BY <1>3 DEF WriteFails, Close
  <2>2. Keeps(Now, Close(Now, c))
    BY <1>0, CloseKeeps DEF Inv
  <2>3. QED
    BY <1>0, <2>1, <2>2, KeepsInv
<1>4. QED
  BY <1>1, <1>2, <1>3

\* The connection is given back once nobody holds a name through it.
LEMMA ReapInv ==
  ASSUME Inv(hub), NEW c \in Conn, Reap(c)
  PROVE  Inv(hub')
<1> DEFINE w == Disconnect(Now, c)
           k == FreeConn
           g == [w EXCEPT !.conn[c] = k]
<1>1. hub' = g
  BY DEF Reap
<1>2. Inv(w) /\ \A n \in Live(w) : w.reg[n].client # c
  BY NowInv, DisconnectInv
<1> HIDE DEF w
<1>3. k \in Link /\ k.name = NoName /\ k.out = 0 /\ k.connected = FALSE
  BY DEF FreeConn, Link
<1>4. k.out <= OutboundMax
  BY <1>3, ConfigAssumption
<1> HIDE DEF k
<1>5. /\ Typed(g) /\ g.reg = w.reg /\ SameFloor(w, g)
      /\ g.conn[c] = k /\ \A d \in Conn \ {c} : g.conn[d] = w.conn[d]
  BY <1>2, <1>3, <1>4, OneConnType DEF Inv
<1> HIDE DEF g
<1>6. Live(g) = Live(w)
  BY <1>5 DEF Live
<1>7. \A n \in Live(w) : /\ w.reg[n].client \in Conn \ {c}
                         /\ w.conn[w.reg[n].client].name = n
  BY <1>2 DEF Inv, Linked, Owned
<1>8. Owned(g)
  BY <1>5, <1>6, <1>7 DEF Owned
<1>9. Exclusive(g)
  <2> SUFFICES ASSUME NEW d \in Conn, g.conn[d].connected, g.conn[d].name # NoName
               PROVE  g.conn[d].name \in Live(g) /\ g.reg[g.conn[d].name].client = d
    BY DEF Exclusive
  <2>1. d # c /\ g.conn[d] = w.conn[d]
    BY <1>3, <1>5
  <2>2. w.conn[d].name \in Live(w) /\ w.reg[w.conn[d].name].client = d
    BY <1>2, <2>1 DEF Inv, Linked, Exclusive
  <2>3. QED
    BY <1>5, <1>6, <2>1, <2>2
<1>10. Blank(g)
  BY <1>2, <1>3, <1>5 DEF Blank, Inv, Linked
<1>11. IdleDrained(g)
  BY <1>2, <1>5, <1>6, <1>7 DEF Inv, IdleDrained, Agents, IsObserver, Reachable
<1>12. LimitFrozen(g)
  BY <1>2, <1>5 DEF Inv, LimitFrozen, SameFloor
<1>13. QED
  BY <1>1, <1>5, <1>8, <1>9, <1>10, <1>11, <1>12 DEF Inv, Linked

LEMMA VisitInv ==
  ASSUME Inv(hub), NEW n \in Name, NEW lapsed, Visit(n, lapsed)
  PROVE  Inv(hub')
<1>1. Inv(Now) /\ n \in Live(Now) /\ hub' = Visited(Now, n, lapsed)
  BY NowInv DEF Visit
<1>2. QED
  BY <1>1, VisitedInv

\* A dead registration is forgotten.
LEMMA ExpireInv ==
  ASSUME Inv(hub), NEW n \in Name, Expire(n)
  PROVE  Inv(hub')
<1> DEFINE w   == Now
           reg == [w.reg EXCEPT ![n] = NoReg]
           g   == WithReg(w, reg)
<1>1. hub' = g
  BY DEF Expire, WithReg
<1>2. Inv(w) /\ w.reg[n].where = "dead"
  BY NowInv DEF Expire
<1> HIDE DEF w
<1>3. NoReg \in Reg /\ BoundedReg(NoReg) /\ NoReg.where = "none"
  <2>1. << >> \in Seq(Msg) /\ Len(<< >>) = 0 /\ QueueCap \in Nat /\ ContextCap \in Nat
    BY CapsAssumption, EmptySeq
  <2>2. QED
    BY <2>1 DEF NoReg, Reg, Kinds, States, BoundedReg
<1>4. w.reg \in [Name -> Reg] /\ \A m \in Name : BoundedReg(w.reg[m])
  BY <1>2 DEF Inv, Typed, HubState
<1> HIDE DEF NoReg
<1>5. /\ reg \in [Name -> Reg] /\ reg[n] = NoReg
      /\ \A m \in Name \ {n} : reg[m] = w.reg[m]
  BY <1>3, <1>4
<1>6. \A m \in Name : BoundedReg(reg[m])
  BY <1>3, <1>4, <1>5
<1> HIDE DEF reg
<1>7. Typed(g) /\ g.reg = reg /\ g.conn = w.conn /\ SameFloor(w, g)
  BY <1>2, <1>5, <1>6, WithRegType DEF Inv
<1> HIDE DEF g
<1>8. Live(g) = Live(w) /\ \A m \in Live(w) : g.reg[m] = w.reg[m]
  BY <1>2, <1>3, <1>5, <1>7 DEF Live
<1>9. Linked(g)
  BY <1>2, <1>7, <1>8 DEF Inv, Linked, Owned, Exclusive, Blank
<1>10. IdleDrained(g)
  BY <1>2, <1>7, <1>8 DEF Inv, IdleDrained, Agents, IsObserver, Reachable
<1>11. LimitFrozen(g)
  BY <1>2, <1>7 DEF Inv, LimitFrozen, SameFloor
<1>12. QED
  BY <1>1, <1>7, <1>9, <1>10, <1>11 DEF Inv

LEMMA NextInv ==
  ASSUME Inv(hub), [Next]_vars
  PROVE  Inv(hub)'
<1>1. ASSUME NEW x \in Hellos, ReadHello(x)
      PROVE  Inv(hub')
  BY <1>1, ReadHelloInv
<1>2. ASSUME NEW c \in Conn, ConnStep(c)
      PROVE  Inv(hub')
  <2>1. CASE Connect(c)
    BY <2>1, ConnectInv
  <2>2. CASE ReadSay(c)
    BY <2>2, ReadSayInv
  <2>3. CASE ReadState(c)
    BY <2>3, ReadStateInv
  <2>4. CASE ReadCmd(c)
    BY <2>4, ReadCmdInv
  <2>5. CASE ReadRoster(c) \/ ReadPong(c) \/ ReadBye(c) \/ ReadMalformed(c)
    BY <2>5, ReadOthersInv
  <2>6. CASE StopReading(c) \/ WriteOne(c) \/ WriteFails(c)
    BY <2>6, EndingInv
  <2>7. CASE Reap(c)
    BY <2>7, ReapInv
  <2>8. QED
    BY <1>2, <2>1, <2>2, <2>3, <2>4, <2>5, <2>6, <2>7 DEF ConnStep
<1>3. CASE Tick
  BY <1>3, VisitInv DEF Tick
<1>4. ASSUME NEW n \in Name, Expire(n)
      PROVE  Inv(hub')
  BY <1>4, ExpireInv
<1>5. CASE Restart
  <2>1. hub' = Boot(hub.recent)
    BY <1>5 DEF Restart
  <2>2. hub.recent \in Seq(Record) /\ Len(hub.recent) <= RecentWindow
    BY DEF Inv, Typed, HubState
  <2>3. QED
    BY <2>1, <2>2, BootInv
<1>6. CASE UNCHANGED vars
  BY <1>6 DEF vars
<1>7. QED
  BY <1>1, <1>2, <1>3, <1>4, <1>5, <1>6 DEF Next

LEMMA InitInv == Init => Inv(hub)
<1>1. << >> \in Seq(Record) /\ Len(<< >>) <= RecentWindow
  BY ConfigAssumption, EmptySeq
<1>2. Inv(Boot(<< >>))
  BY <1>1, BootInv
<1>3. QED
  BY <1>2 DEF Init

-----------------------------------------------------------------------------
(* Theorems.                                                               *)

\* Inv is an inductive invariant: the type, the registry, the drained queues
\* and the limit hold together in every reachable state of the hub process
\* (every handler of core/hub.py under its lock, and the steps of server.py).
THEOREM Invariance == Spec => []Inv(hub)
<1>1. Inv(hub) /\ [Next]_vars => Inv(hub)'
  BY NextInv
<1>2. QED
  BY InitInv, <1>1, PTL DEF Spec

\* The state of the hub stays well typed and every queue, buffer, window and
\* outbound backlog within its cap (config.py's queue_cap, context_cap,
\* recent_window, outbound_queue_max), whatever the caps are.
THEOREM HubIsTyped == Spec => []TypeOK
<1>1. Inv(hub) => TypeOK
  BY DEF Inv, Typed, TypeOK, BoundedReg
<1>2. QED
  BY Invariance, <1>1, PTL

\* One name, one connection (handle_hello, disconnect): for any number of
\* connections that claim, lose, reclaim and give up names.
THEOREM OneConnectionPerName == Spec => []OneNameOneConnection
<1>1. Inv(hub) => OneNameOneConnection
  BY DEF Inv, Linked, OneNameOneConnection
<1>2. QED
  BY Invariance, <1>1, PTL

\* An idle, reachable agent has no wake waiting (every way to become idle
\* ends in _flush_queue, and _route_say queues only for the others).
THEOREM IdleAgentsAreDrained == Spec => []IdleMeansDrained
<1>1. Inv(hub) => IdleMeansDrained
  BY DEF Inv, IdleMeansDrained
<1>2. QED
  BY Invariance, <1>1, PTL

\* The round counter is at its limit only when the floor is frozen
\* (_check_round_limit, resume, reset).
THEOREM LimitMeansFrozen == Spec => []LimitFreezes
<1>1. Inv(hub) => LimitFreezes
  BY DEF Inv, LimitFreezes
<1>2. QED
  BY Invariance, <1>1, PTL

-----------------------------------------------------------------------------
(***************************************************************************)
(* Mail: what the hub hands over, for any number of participants and any   *)
(* caps.  Nobody is given a message before an older one that waits, a      *)
(* private message reaches its addressee only, ids ascend in the           *)
(* transcript, and the end of a session is not missed.                     *)
(*                                                                         *)
(* Mail adds to the property what makes it inductive: in a queue or a      *)
(* context buffer ids ascend, none is over the counter, and nothing that   *)
(* was handed over in this step is.  So what is put into a mailbox next    *)
(* has a higher id than anything there, and than anything handed over.     *)
(***************************************************************************)

\* What was handed over in the last step.
Given(h) == {f \in h.sent : f.t = "deliver"}

\* A mailbox of n with queue q and context c, when ids up to k are taken.
Sound(q, c, k, n) ==
  /\ \A i \in DOMAIN q : 0 < q[i].id /\ q[i].id <= k /\ (q[i].private => q[i].to = n)
  /\ \A i \in DOMAIN c : c[i].id <= k /\ (c[i].private => c[i].to = n)
  /\ Ascending(q)
  /\ \A i, j \in DOMAIN c : i < j /\ c[j].id > 0 => c[i].id < c[j].id
  /\ \A i \in DOMAIN q, j \in DOMAIN c : q[i].id # c[j].id

\* What n, whose registration is r, may be given.
Apt(msgs, r, n) ==
  \A m \in msgs : (m.private => m.to = n) /\ \A w \in Cited(r) : m.id < w.id

Mail(h) ==
  /\ \A n \in Name : Sound(h.reg[n].queue, h.reg[n].context, h.counter, n)
  /\ \A f \in Given(h) : \A m \in f.msgs : m.id <= h.counter
  /\ \A f \in Given(h) : f.name \in Agents(h) => Apt(f.msgs, h.reg[f.name], f.name)
  /\ Chronicled(h)

-----------------------------------------------------------------------------
(* Sequences of messages.                                                  *)

\* t is u without some of its first elements.
Suffix(t, u) ==
  \E k \in 0 .. Len(u) : Len(t) = Len(u) - k /\ \A i \in 1 .. Len(t) : t[i] = u[i + k]

LEMMA RestSuffix ==
  ASSUME NEW S, NEW s \in Seq(S), NEW k \in 0 .. Len(s)
  PROVE  /\ SubSeq(s, k + 1, Len(s)) \in Seq(S)
         /\ Len(SubSeq(s, k + 1, Len(s))) = Len(s) - k
         /\ \A i \in 1 .. Len(s) - k : SubSeq(s, k + 1, Len(s))[i] = s[i + k]
         /\ Suffix(SubSeq(s, k + 1, Len(s)), s)
<1> DEFINE t == SubSeq(s, k + 1, Len(s))
<1>1. Len(s) \in Nat /\ k \in Nat /\ k <= Len(s)
  BY LenProperties
<1>2. \A i \in k + 1 .. Len(s) : s[i] \in S
  BY <1>1, ElementOfSeq
<1>3. t \in Seq(S)
  BY <1>1, <1>2, SubSeqProperties
<1>4. Len(t) = Len(s) - k
  BY <1>1, SubSeqProperties
<1>5. \A i \in 1 .. Len(s) - k : t[i] = s[i + k]
  <2> TAKE i \in 1 .. Len(s) - k
  <2>1. t[i] = s[k + 1 + i - 1]
    BY <1>1, SubSeqProperties
  <2>2. k + 1 + i - 1 = i + k
    BY <1>1
  <2>3. QED
    BY <2>1, <2>2
<1> HIDE DEF t
<1>6. Suffix(t, s)
  BY <1>1, <1>4, <1>5 DEF Suffix
<1>7. QED
  BY <1>3, <1>4, <1>5, <1>6 DEF t

LEMMA AppendElements ==
  ASSUME NEW S, NEW s \in Seq(S), NEW m \in S
  PROVE  /\ Append(s, m) \in Seq(S) /\ Len(Append(s, m)) = Len(s) + 1
         /\ DOMAIN Append(s, m) = 1 .. Len(s) + 1
         /\ \A i \in 1 .. Len(s) : Append(s, m)[i] = s[i]
         /\ Append(s, m)[Len(s) + 1] = m
         /\ DOMAIN s = 1 .. Len(s) /\ Len(s) \in Nat
BY AppendProperties, LenProperties

\* What the bounded append keeps of the sequence with the new element.
LEMMA NewestSuffix ==
  ASSUME NEW s \in Seq(Msg), NEW m \in Msg
  PROVE  /\ s # << >> => Suffix(Append(Tail(s), m), Append(s, m))
         /\ Suffix(Append(s, m), Append(s, m))
<1> DEFINE u == Append(s, m)
<1>1. /\ u \in Seq(Msg) /\ Len(u) = Len(s) + 1 /\ Len(s) \in Nat
      /\ \A i \in 1 .. Len(s) : u[i] = s[i]
      /\ u[Len(s) + 1] = m
  BY AppendElements
<1>2. ASSUME s # << >>
      PROVE  Suffix(Append(Tail(s), m), u)
  <2> DEFINE t == Append(Tail(s), m)
  <2>1. Tail(s) \in Seq(Msg) /\ Len(Tail(s)) = Len(s) - 1 /\ Len(s) > 0
    BY <1>1, <1>2, HeadTailProperties, EmptySeq
  <2>2. \A i \in 1 .. Len(Tail(s)) : Tail(s)[i] = s[i + 1]
    BY <1>2, <2>1, HeadTailProperties
  <2>3. /\ Len(t) = Len(Tail(s)) + 1
        /\ \A i \in 1 .. Len(Tail(s)) : t[i] = Tail(s)[i]
        /\ t[Len(Tail(s)) + 1] = m
    BY <2>1, AppendElements
  <2> HIDE DEF t, u
  <2>4. Len(t) = Len(s)
    BY <1>1, <2>1, <2>3
  <2>5. \A i \in 1 .. Len(t) : t[i] = u[i + 1]
    <3> TAKE i \in 1 .. Len(t)
    <3>1. CASE i = Len(s)
      BY <1>1, <2>1, <2>3, <3>1
    <3>2. CASE i # Len(s)
      <4>0. i \in 1 .. Len(s)
        BY <2>4
      <4> DEFINE l == Len(s)
      <4>1. i \in 1 .. l - 1 /\ i + 1 \in 1 .. l
        <5>1. l \in Nat /\ i \in 1 .. l /\ i # l
          BY <1>1, <3>2, <4>0
        <5> HIDE DEF l
        <5>2. QED
          BY <5>1
      <4>2. i \in 1 .. Len(Tail(s)) /\ i + 1 \in 1 .. Len(s)
        BY <2>1, <4>1
      <4>3. QED
        BY <1>1, <2>2, <2>3, <4>2
    <3>3. QED
      BY <3>1, <3>2
  <2>6. QED
    BY <1>1, <2>4, <2>5 DEF Suffix, t
<1>3. Suffix(u, u)
  <2>1. 0 \in 0 .. Len(u) /\ Len(u) = Len(u) - 0 /\ \A i \in 1 .. Len(u) : u[i] = u[i + 0]
    BY <1>1
  <2>2. QED
    BY <2>1 DEF Suffix
<1>4. QED
  BY <1>2, <1>3

-----------------------------------------------------------------------------
(* A mailbox that is sound stays so.                                       *)

LEMMA ElementsType ==
  ASSUME NEW s \in Seq(Msg)
  PROVE  /\ DOMAIN s = 1 .. Len(s) /\ Len(s) \in Nat
         /\ \A i \in DOMAIN s : s[i] \in Msg /\ s[i].id \in Nat
<1>1. DOMAIN s = 1 .. Len(s) /\ Len(s) \in Nat
  BY LenProperties
<1>2. \A i \in DOMAIN s : s[i] \in Msg
  BY <1>1, ElementOfSeq
<1>3. QED
  BY <1>1, <1>2 DEF Msg

LEMMA SameSuffix ==
  ASSUME NEW s \in Seq(Msg)
  PROVE  Suffix(s, s)
<1>1. Len(s) \in Nat
  BY LenProperties
<1>2. 0 \in 0 .. Len(s) /\ Len(s) = Len(s) - 0 /\ \A i \in 1 .. Len(s) : s[i] = s[i + 0]
  BY <1>1
<1>3. QED
  BY <1>2 DEF Suffix

LEMMA SoundRest ==
  ASSUME NEW q \in Seq(Msg), NEW c \in Seq(Msg), NEW u \in Seq(Msg), NEW v \in Seq(Msg),
         Suffix(q, u), Suffix(c, v), NEW k \in Nat, NEW n, Sound(u, v, k, n)
  PROVE  Sound(q, c, k, n)
<1>1. /\ DOMAIN q = 1 .. Len(q) /\ DOMAIN c = 1 .. Len(c)
      /\ DOMAIN u = 1 .. Len(u) /\ DOMAIN v = 1 .. Len(v)
      /\ Len(q) \in Nat /\ Len(c) \in Nat /\ Len(u) \in Nat /\ Len(v) \in Nat
  BY LenProperties
<1>2. PICK a \in 0 .. Len(u) : Len(q) = Len(u) - a /\ \A i \in 1 .. Len(q) : q[i] = u[i + a]
  BY DEF Suffix
<1>3. PICK b \in 0 .. Len(v) : Len(c) = Len(v) - b /\ \A i \in 1 .. Len(c) : c[i] = v[i + b]
  BY DEF Suffix
<1>4. \A i \in DOMAIN q : i + a \in DOMAIN u /\ q[i] = u[i + a]
  BY <1>1, <1>2
<1>5. \A i \in DOMAIN c : i + b \in DOMAIN v /\ c[i] = v[i + b]
  BY <1>1, <1>3
<1>6. \A i, j \in DOMAIN q : i < j => i + a < j + a
  BY <1>1
<1>7. \A i, j \in DOMAIN c : i < j => i + b < j + b
  BY <1>1
<1>8. \A i \in DOMAIN q : 0 < q[i].id /\ q[i].id <= k /\ (q[i].private => q[i].to = n)
  BY <1>4 DEF Sound
<1>9. \A i \in DOMAIN c : c[i].id <= k /\ (c[i].private => c[i].to = n)
  BY <1>5 DEF Sound
<1>10. Ascending(q)
  BY <1>4, <1>6 DEF Sound, Ascending
<1>11. \A i, j \in DOMAIN c : i < j /\ c[j].id > 0 => c[i].id < c[j].id
  BY <1>5, <1>7 DEF Sound
<1>12. \A i \in DOMAIN q, j \in DOMAIN c : q[i].id # c[j].id
  BY <1>4, <1>5 DEF Sound
<1>13. QED
  BY <1>8, <1>9, <1>10, <1>11, <1>12 DEF Sound

LEMMA SoundLater ==
  ASSUME NEW q \in Seq(Msg), NEW c \in Seq(Msg), NEW k \in Nat, NEW l \in Nat, k <= l,
         NEW n, Sound(q, c, k, n)
  PROVE  Sound(q, c, l, n)
<1>1. /\ \A i \in DOMAIN q : q[i].id \in Nat
      /\ \A i \in DOMAIN c : c[i].id \in Nat
  BY ElementsType
<1>2. QED
  BY <1>1 DEF Sound

\* A wake that is newer than all the mailbox holds.
LEMMA SoundQueued ==
  ASSUME NEW q \in Seq(Msg), NEW c \in Seq(Msg), NEW k \in Nat, NEW n, Sound(q, c, k, n),
         NEW m \in Msg, k < m.id, m.private => m.to = n
  PROVE  Sound(Append(q, m), c, m.id, n)
<1> DEFINE u == Append(q, m)
<1>0. m.id \in Nat
  BY DEF Msg
<1>1. /\ u \in Seq(Msg) /\ DOMAIN u = 1 .. Len(q) + 1 /\ Len(q) \in Nat
      /\ \A i \in 1 .. Len(q) : u[i] = q[i]
      /\ u[Len(q) + 1] = m
      /\ DOMAIN q = 1 .. Len(q)
  BY AppendElements
<1> HIDE DEF u
<1>2. /\ \A i \in DOMAIN q : q[i].id \in Nat
      /\ \A i \in DOMAIN c : c[i].id \in Nat
  BY ElementsType
<1>3. \A i \in DOMAIN u : (i \in DOMAIN q /\ u[i] = q[i]) \/ (i = Len(q) + 1 /\ u[i] = m)
  BY <1>1
<1>4. \A i \in DOMAIN u : 0 < u[i].id /\ u[i].id <= m.id /\ (u[i].private => u[i].to = n)
  BY <1>0, <1>2, <1>3 DEF Sound
<1>5. \A i \in DOMAIN c : c[i].id <= m.id /\ (c[i].private => c[i].to = n)
  BY <1>0, <1>2 DEF Sound
<1>6. Ascending(u)
  <2> SUFFICES ASSUME NEW i \in DOMAIN u, NEW j \in DOMAIN u, i < j
               PROVE  u[i].id < u[j].id
    BY DEF Ascending
  <2>1. i \in DOMAIN q /\ u[i] = q[i]
    BY <1>1, <1>3
  <2>2. QED
    BY <1>0, <1>2, <1>3, <2>1 DEF Sound, Ascending
<1>7. \A i \in DOMAIN u, j \in DOMAIN c : u[i].id # c[j].id
  BY <1>0, <1>2, <1>3 DEF Sound
<1>8. QED
  BY <1>4, <1>5, <1>6, <1>7 DEF Sound, u

\* A context line that is newer than all the mailbox holds, or uncitable.
LEMMA SoundOverheard ==
  ASSUME NEW q \in Seq(Msg), NEW c \in Seq(Msg), NEW k \in Nat, NEW n, Sound(q, c, k, n),
         NEW m \in Msg, NEW l \in Nat, k <= l, m.id <= l, (m.id = 0) \/ (k < m.id),
         m.private => m.to = n
  PROVE  Sound(q, Append(c, m), l, n)
<1> DEFINE u == Append(c, m)
<1>0. m.id \in Nat
  BY DEF Msg
<1>1. /\ u \in Seq(Msg) /\ DOMAIN u = 1 .. Len(c) + 1 /\ Len(c) \in Nat
      /\ \A i \in 1 .. Len(c) : u[i] = c[i]
      /\ u[Len(c) + 1] = m
      /\ DOMAIN c = 1 .. Len(c)
  BY AppendElements
<1> HIDE DEF u
<1>2. /\ \A i \in DOMAIN q : q[i].id \in Nat
      /\ \A i \in DOMAIN c : c[i].id \in Nat
  BY ElementsType
<1>3. \A i \in DOMAIN u : (i \in DOMAIN c /\ u[i] = c[i]) \/ (i = Len(c) + 1 /\ u[i] = m)
  BY <1>1
<1>4. \A i \in DOMAIN q : 0 < q[i].id /\ q[i].id <= l /\ (q[i].private => q[i].to = n)
  BY <1>0, <1>2 DEF Sound
<1>5. \A i \in DOMAIN u : u[i].id <= l /\ (u[i].private => u[i].to = n)
  BY <1>0, <1>2, <1>3 DEF Sound
<1>6. \A i, j \in DOMAIN u : i < j /\ u[j].id > 0 => u[i].id < u[j].id
  <2> TAKE i, j \in DOMAIN u
  <2> HAVE i < j /\ u[j].id > 0
  <2>1. i \in DOMAIN c /\ u[i] = c[i]
    BY <1>1, <1>3
  <2>2. QED
    BY <1>0, <1>2, <1>3, <2>1 DEF Sound
<1>7. \A i \in DOMAIN q, j \in DOMAIN u : q[i].id # u[j].id
  BY <1>0, <1>2, <1>3 DEF Sound
<1>8. Ascending(q)
  BY DEF Sound
<1>9. QED
  BY <1>4, <1>5, <1>6, <1>7, <1>8 DEF Sound, u

-----------------------------------------------------------------------------
(* The prefix that a bounded drain takes.                                  *)

\* A set of positions that goes without gaps from the first is counted by its
\* last.
LEMMA InitialPart ==
  ASSUME NEW n \in Nat, NEW S \in SUBSET (1 .. n), \A k \in S : \A i \in 1 .. k : i \in S
  PROVE  S = 1 .. Cardinality(S) /\ Cardinality(S) \in 0 .. n
<1>1. CASE S = 1 .. n
  <2>1. Cardinality(1 .. n) = n
    BY FS_Interval
  <2>2. QED
    BY <1>1, <2>1
<1>2. CASE S # 1 .. n
  <2> DEFINE T == {i \in 1 .. n : i \notin S}
  <2>1. T # {} /\ T \subseteq Nat
    <3>1. \E i \in 1 .. n : i \notin S
      BY <1>2
    <3>2. QED
      BY <3>1
  <2> HIDE DEF T
  <2>2. PICK j \in T : \A i \in T : ~(<<i, j>> \in OpToRel(<, Nat))
    BY <2>1, NatLessThanWellFounded, WFMin
  <2>3. \A i \in T : ~(i < j)
    BY <2>1, <2>2 DEF OpToRel
  <2>4. j \in 1 .. n /\ j \notin S
    BY <2>2 DEF T
  <2>5. \A i \in 1 .. n : i < j => i \in S
    BY <2>3 DEF T
  <2>6. \A i \in S : i < j
    BY <2>4
  <2>7. S = 1 .. (j - 1)
    <3>1. \A i \in S : i \in 1 .. (j - 1)
      BY <2>4, <2>6
    <3>2. \A i \in 1 .. (j - 1) : i \in 1 .. n /\ i < j
      BY <2>4
    <3>3. QED
      BY <2>5, <3>1, <3>2
  <2>8. j - 1 \in 0 .. n /\ Cardinality(1 .. (j - 1)) = j - 1
    BY <2>4, FS_Interval
  <2>9. QED
    BY <2>7, <2>8
<1>3. QED
  BY <1>1, <1>2

LEMMA PrefixSplits ==
  ASSUME NEW c \in Seq(Msg), NEW u \in Nat,
         \A i, j \in DOMAIN c : i < j /\ c[j].id > 0 => c[i].id < c[j].id
  PROVE  /\ \A i \in 1 .. Prefix(c, u) : c[i].id <= u
         /\ \A j \in DOMAIN c : j > Prefix(c, u) /\ c[j].id > 0 => u < c[j].id
<1> DEFINE S == {k \in 1 .. Len(c) : \A i \in 1 .. k : c[i].id <= u}
           p == Cardinality(S)
<1>1. DOMAIN c = 1 .. Len(c) /\ Len(c) \in Nat /\ \A i \in DOMAIN c : c[i].id \in Nat
  BY ElementsType
<1>2. S \in SUBSET (1 .. Len(c))
  OBVIOUS
<1>3. \A k \in S : \A i \in 1 .. k : i \in S
  BY <1>1
<1>4. S = 1 .. p /\ p \in 0 .. Len(c)
  <2> HIDE DEF S
  <2>1. QED
    BY <1>1, <1>2, <1>3, InitialPart
<1>5. Prefix(c, u) = p
  BY DEF Prefix
<1> HIDE DEF p
<1>6. \A i \in 1 .. p : c[i].id <= u
  <2> TAKE i \in 1 .. p
  <2>1. i \in S /\ i \in 1 .. i
    BY <1>1, <1>4
  <2>2. QED
    BY <2>1
<1>7. \A j \in DOMAIN c : j > p /\ c[j].id > 0 => u < c[j].id
  <2> TAKE j \in DOMAIN c
  <2> HAVE j > p /\ c[j].id > 0
  <2>1. p + 1 \in 1 .. Len(c) /\ p + 1 \notin 1 .. p /\ p \in Nat
    BY <1>1, <1>4
  <2>2. p + 1 \notin S
    BY <1>4, <2>1
  <2>3. PICK i \in 1 .. p + 1 : ~(c[i].id <= u)
    BY <2>1, <2>2
  <2>4. i = p + 1
    BY <1>6, <2>1, <2>3
  <2>5. u < c[p + 1].id
    BY <1>1, <2>1, <2>3, <2>4
  <2>6. CASE j = p + 1
    BY <2>5, <2>6
  <2>7. CASE j # p + 1
    <3>1. p + 1 \in DOMAIN c /\ p + 1 < j
      BY <1>1, <2>1, <2>7
    <3>2. c[p + 1].id < c[j].id
      BY <3>1
    <3>3. QED
      BY <1>1, <2>5, <3>1, <3>2
  <2>8. QED
    BY <2>6, <2>7
<1>8. QED
  BY <1>5, <1>6, <1>7

LEMMA PrefixWhole ==
  ASSUME NEW c \in Seq(Msg), NEW u \in Nat, \A i \in DOMAIN c : c[i].id <= u
  PROVE  Prefix(c, u) = Len(c)
<1>1. DOMAIN c = 1 .. Len(c) /\ Len(c) \in Nat
  BY ElementsType
<1>2. {k \in 1 .. Len(c) : \A i \in 1 .. k : c[i].id <= u} = 1 .. Len(c)
  <2>1. \A k \in 1 .. Len(c) : \A i \in 1 .. k : c[i].id <= u
    BY <1>1
  <2>2. QED
    BY <2>1
<1>3. \A l \in Nat : Cardinality(1 .. l) = l
  BY FS_Interval
<1>4. QED
  BY <1>1, <1>2, <1>3 DEF Prefix

-----------------------------------------------------------------------------
(* The operators of Mailbox.                                               *)

LEMMA CitedElements ==
  ASSUME NEW r, r.queue \in Seq(Msg), r.context \in Seq(Msg)
  PROVE  \A w : w \in Cited(r) <=>
           /\ w.id > 0
           /\ (\E i \in DOMAIN r.queue : w = r.queue[i])
                \/ (\E i \in DOMAIN r.context : w = r.context[i])
<1>1. DOMAIN r.queue = 1 .. Len(r.queue) /\ DOMAIN r.context = 1 .. Len(r.context)
  BY ElementsType
<1>2. QED
  BY <1>1 DEF Cited, Waiting, Items

LEMMA CitedRest ==
  ASSUME NEW r, r.queue \in Seq(Msg), r.context \in Seq(Msg),
         NEW p, p.queue \in Seq(Msg), p.context \in Seq(Msg),
         Suffix(p.queue, r.queue), Suffix(p.context, r.context)
  PROVE  Cited(p) \subseteq Cited(r)
<1> DEFINE q == p.queue
           c == p.context
           u == r.queue
           v == r.context
<1>1. /\ DOMAIN q = 1 .. Len(q) /\ DOMAIN c = 1 .. Len(c)
      /\ DOMAIN u = 1 .. Len(u) /\ DOMAIN v = 1 .. Len(v)
      /\ Len(q) \in Nat /\ Len(c) \in Nat /\ Len(u) \in Nat /\ Len(v) \in Nat
  BY ElementsType
<1>2. Suffix(q, u) /\ Suffix(c, v)
  OBVIOUS
<1> HIDE DEF q, c, u, v
<1>3. \A i \in DOMAIN q : \E j \in DOMAIN u : q[i] = u[j]
  <2>1. PICK a \in 0 .. Len(u) : Len(q) = Len(u) - a /\ \A i \in 1 .. Len(q) : q[i] = u[i + a]
    BY <1>2 DEF Suffix
  <2>2. \A i \in DOMAIN q : i + a \in DOMAIN u /\ q[i] = u[i + a]
    BY <1>1, <2>1
  <2>3. QED
    BY <2>2
<1>4. \A i \in DOMAIN c : \E j \in DOMAIN v : c[i] = v[j]
  <2>1. PICK a \in 0 .. Len(v) : Len(c) = Len(v) - a /\ \A i \in 1 .. Len(c) : c[i] = v[i + a]
    BY <1>2 DEF Suffix
  <2>2. \A i \in DOMAIN c : i + a \in DOMAIN v /\ c[i] = v[i + a]
    BY SMTT(30), <1>1, <2>1
  <2>3. QED
    BY <2>2
<1>5. QED
  BY SMTT(30), <1>3, <1>4, CitedElements DEF q, c, u, v

LEMMA EnqueueSound ==
  ASSUME NEW r \in Reg, BoundedReg(r), NEW k \in Nat, NEW n,
         Sound(r.queue, r.context, k, n),
         NEW m \in Msg, k < m.id, m.private => m.to = n
  PROVE  LET p == Enqueue(r, m)
         IN  /\ Sound(p.queue, p.context, m.id, n)
             /\ \A w \in Cited(p) : (w \in Cited(r)) \/ (w = m)
             /\ p.queue # << >>
<1> DEFINE p == Enqueue(r, m)
           u == Append(r.queue, m)
<1>0. /\ r.queue \in Seq(Msg) /\ r.context \in Seq(Msg) /\ Len(r.queue) \in Nat
      /\ QueueCap \in Nat \ {0} /\ m.id \in Nat
  BY CapsAssumption, LenProperties DEF Reg, Msg
<1>1. p.queue \in Seq(Msg) /\ p.context = r.context
  BY EnqueueType DEF Reboxed, Reg
<1>2. \/ Len(r.queue) >= QueueCap /\ p.queue = Append(Tail(r.queue), m)
      \/ p.queue = u
  BY DEF Enqueue, Reg
<1>3. Suffix(p.queue, u) /\ p.queue # << >>
  <2>1. CASE Len(r.queue) >= QueueCap /\ p.queue = Append(Tail(r.queue), m)
    <3>1. r.queue # << >>
      BY <1>0, <2>1
    <3>2. Tail(r.queue) \in Seq(Msg)
      BY <1>0, <3>1, HeadTailProperties
    <3>3. Len(p.queue) = Len(Tail(r.queue)) + 1 /\ Len(Tail(r.queue)) \in Nat
      BY <2>1, <3>2, AppendElements
    <3>4. p.queue # << >>
      BY <3>3
    <3>5. QED
      BY <1>0, <2>1, <3>1, <3>4, NewestSuffix
  <2>2. CASE p.queue = u
    <3>1. Len(p.queue) = Len(r.queue) + 1
      BY <1>0, <2>2, AppendElements
    <3>2. p.queue # << >>
      BY <1>0, <3>1
    <3>3. QED
      BY <1>0, <2>2, <3>2, NewestSuffix
  <2>3. QED
    BY <1>2, <2>1, <2>2
<1> HIDE DEF p
<1>4. u \in Seq(Msg) /\ Sound(u, r.context, m.id, n)
  BY <1>0, AppendElements, SoundQueued
<1>5. Suffix(r.context, r.context)
  BY <1>0, SameSuffix
<1>6. Sound(p.queue, p.context, m.id, n)
  <2> HIDE DEF u
  <2>1. QED
    BY <1>0, <1>1, <1>3, <1>4, <1>5, SoundRest
<1>7. \A w \in Cited(p) : (w \in Cited(r)) \/ (w = m)
  <2> DEFINE b == [queue |-> u, context |-> r.context]
  <2>1. b.queue = u /\ b.context = r.context
    OBVIOUS
  <2>2. \A i \in DOMAIN u : (i \in DOMAIN r.queue /\ u[i] = r.queue[i]) \/ u[i] = m
    <3>1. /\ DOMAIN u = 1 .. Len(r.queue) + 1
          /\ \A i \in 1 .. Len(r.queue) : u[i] = r.queue[i]
          /\ u[Len(r.queue) + 1] = m
          /\ DOMAIN r.queue = 1 .. Len(r.queue)
      BY <1>0, AppendElements
    <3> HIDE DEF u
    <3>2. QED
      BY <1>0, <3>1
  <2> HIDE DEF b, u
  <2>3. Cited(p) \subseteq Cited(b)
    BY <1>0, <1>1, <1>3, <1>4, <1>5, <2>1, CitedRest
  <2>4. \A w \in Cited(b) : (w \in Cited(r)) \/ (w = m)
    BY <1>0, <1>4, <2>1, <2>2, CitedElements
  <2>5. QED
    BY <2>3, <2>4
<1>8. QED
  BY <1>3, <1>6, <1>7 DEF p

LEMMA OverhearSound ==
  ASSUME NEW r \in Reg, BoundedReg(r), NEW k \in Nat, NEW n,
         Sound(r.queue, r.context, k, n),
         NEW m \in Msg, NEW l \in Nat, k <= l, m.id <= l, (m.id = 0) \/ (k < m.id),
         m.private => m.to = n
  PROVE  LET p == Overhear(r, m)
         IN  /\ Sound(p.queue, p.context, l, n)
             /\ \A w \in Cited(p) : (w \in Cited(r)) \/ (w = m /\ k < w.id)
             /\ p.queue = r.queue
<1> DEFINE p == Overhear(r, m)
           u == Append(r.context, m)
<1>0. /\ r.queue \in Seq(Msg) /\ r.context \in Seq(Msg) /\ Len(r.context) \in Nat
      /\ ContextCap \in Nat \ {0} /\ m.id \in Nat
  BY CapsAssumption, LenProperties DEF Reg, Msg
<1>1. p.context \in Seq(Msg) /\ p.queue = r.queue
  BY OverhearType DEF Reboxed, Reg
<1>2. \/ Len(r.context) >= ContextCap /\ p.context = Append(Tail(r.context), m)
      \/ p.context = u
  BY DEF Overhear, Reg
<1>3. Suffix(p.context, u)
  <2>1. CASE Len(r.context) >= ContextCap /\ p.context = Append(Tail(r.context), m)
    <3>1. r.context # << >>
      BY <1>0, <2>1
    <3>2. QED
      BY <1>0, <2>1, <3>1, NewestSuffix
  <2>2. CASE p.context = u
    BY <1>0, <2>2, NewestSuffix
  <2>3. QED
    BY <1>2, <2>1, <2>2
<1> HIDE DEF p
<1>4. u \in Seq(Msg) /\ Sound(r.queue, u, l, n)
  BY <1>0, AppendElements, SoundOverheard
<1>5. Suffix(r.queue, r.queue)
  BY <1>0, SameSuffix
<1>6. Sound(p.queue, p.context, l, n)
  <2> HIDE DEF u
  <2>1. QED
    BY <1>0, <1>1, <1>3, <1>4, <1>5, SoundRest
<1>7. \A w \in Cited(p) : (w \in Cited(r)) \/ (w = m /\ k < w.id)
  <2> DEFINE b == [queue |-> r.queue, context |-> u]
  <2>1. b.queue = r.queue /\ b.context = u
    OBVIOUS
  <2>2. \A i \in DOMAIN u : (i \in DOMAIN r.context /\ u[i] = r.context[i]) \/ u[i] = m
    <3>1. /\ DOMAIN u = 1 .. Len(r.context) + 1
          /\ \A i \in 1 .. Len(r.context) : u[i] = r.context[i]
          /\ u[Len(r.context) + 1] = m
          /\ DOMAIN r.context = 1 .. Len(r.context)
      BY <1>0, AppendElements
    <3> HIDE DEF u
    <3>2. QED
      BY <1>0, <3>1
  <2> HIDE DEF b, u
  <2>3. Cited(p) \subseteq Cited(b)
    BY <1>0, <1>1, <1>3, <1>4, <1>5, <2>1, CitedRest
  <2>4. \A w \in Cited(b) : (w \in Cited(r)) \/ (w = m /\ w.id > 0)
    BY SMTT(30), <1>0, <1>4, <2>1, <2>2, CitedElements
  <2>5. QED
    BY <1>0, <2>3, <2>4
<1>8. QED
  BY <1>1, <1>6, <1>7 DEF p

\* An empty mailbox is anybody's, and cites nothing.
LEMMA EmptySound ==
  ASSUME NEW k, NEW n
  PROVE  /\ Sound(<< >>, << >>, k, n)
         /\ \A r : r.queue = << >> /\ r.context = << >> => Cited(r) = {}
<1>1. DOMAIN << >> = {} /\ << >> \in Seq(Msg)
  BY EmptySeq
<1>2. Sound(<< >>, << >>, k, n)
  BY <1>1 DEF Sound, Ascending
<1>3. \A r : r.queue = << >> /\ r.context = << >> => Cited(r) = {}
  BY <1>1, CitedElements
<1>4. QED
  BY <1>2, <1>3

LEMMA DrainedSound ==
  ASSUME NEW r \in Reg, BoundedReg(r), NEW k \in Nat, NEW n,
         Sound(r.queue, r.context, k, n), NEW j \in 0 .. Len(r.context)
  PROVE  LET p == Drained(r, j)
         IN  /\ Sound(p.queue, p.context, k, n) /\ Cited(p) \subseteq Cited(r)
             /\ p.queue = r.queue
             /\ j = Len(r.context) => p.context = << >>
<1> DEFINE p == Drained(r, j)
<1>0. r.queue \in Seq(Msg) /\ r.context \in Seq(Msg) /\ Len(r.context) \in Nat
  BY LenProperties DEF Reg
<1>1. /\ p.queue = r.queue
      /\ p.context = SubSeq(r.context, j + 1, Len(r.context))
  BY DEF Drained, Reg
<1> HIDE DEF p
<1>2. /\ p.context \in Seq(Msg) /\ Len(p.context) = Len(r.context) - j
      /\ Suffix(p.context, r.context) /\ Suffix(p.queue, r.queue)
  BY <1>0, <1>1, RestSuffix, SameSuffix
<1>3. Sound(p.queue, p.context, k, n)
  BY <1>0, <1>1, <1>2, SoundRest
<1>4. Cited(p) \subseteq Cited(r)
  BY <1>0, <1>1, <1>2, CitedRest
<1>5. j = Len(r.context) => p.context = << >>
  BY <1>0, <1>2, EmptySeq
<1>6. QED
  BY <1>1, <1>3, <1>4, <1>5 DEF p

\* A slice leaves nothing behind that is older than what it takes.
LEMMA SliceSound ==
  ASSUME NEW r \in Reg, BoundedReg(r), NEW k \in Nat, NEW n,
         Sound(r.queue, r.context, k, n)
  PROVE  LET p == AfterSlice(r)
         IN  /\ Sound(p.queue, p.context, k, n) /\ Cited(p) \subseteq Cited(r)
             /\ \A m \in Items(r.context, SliceContext(r)) \cup Items(r.queue, SliceLen(r)) :
                  m.id \in Nat /\ \A w \in Cited(p) : m.id < w.id
<1> DEFINE p == AfterSlice(r)
           a == SliceLen(r)
           b == SliceContext(r)
           q == r.queue
           c == r.context
<1>0. /\ q \in Seq(Msg) /\ c \in Seq(Msg)
      /\ DOMAIN q = 1 .. Len(q) /\ Len(q) \in Nat /\ \A i \in DOMAIN q : q[i].id \in Nat
      /\ DOMAIN c = 1 .. Len(c) /\ Len(c) \in Nat /\ \A i \in DOMAIN c : c[i].id \in Nat
  BY ElementsType DEF Reg
<1>1. a \in 0 .. Len(q) /\ b \in 0 .. Len(c)
  BY SliceType
<1>2. p.queue = SubSeq(q, a + 1, Len(q)) /\ p.context = SubSeq(c, b + 1, Len(c))
  BY DEF AfterSlice, Drained, SliceRest, Reg
<1>3. SliceRest(r) = p.queue
  BY <1>2 DEF SliceRest
<1>4. b = IF p.queue = << >> THEN Len(c) ELSE Prefix(c, IF a = 0 THEN 0 ELSE q[a].id)
  BY <1>3 DEF SliceContext
<1> HIDE DEF p, a, b
<1>5. /\ p.queue \in Seq(Msg) /\ Len(p.queue) = Len(q) - a /\ Suffix(p.queue, q)
      /\ \A i \in 1 .. Len(q) - a : p.queue[i] = q[i + a]
  BY <1>0, <1>1, <1>2, RestSuffix
<1>6. /\ p.context \in Seq(Msg) /\ Len(p.context) = Len(c) - b /\ Suffix(p.context, c)
      /\ \A i \in 1 .. Len(c) - b : p.context[i] = c[i + b]
  BY <1>0, <1>1, <1>2, RestSuffix
<1>7. Sound(p.queue, p.context, k, n) /\ Cited(p) \subseteq Cited(r)
  BY <1>0, <1>5, <1>6, SoundRest, CitedRest
<1>8. \A m \in Items(c, b) \cup Items(q, a) : m.id \in Nat
  BY <1>0, <1>1, SMTT(30) DEF Items
<1>9. ASSUME p.queue # << >>
      PROVE  \A m \in Items(c, b) \cup Items(q, a), w \in Cited(p) : m.id < w.id
  <2> DEFINE u == IF a = 0 THEN 0 ELSE q[a].id
  <2>1. u \in Nat /\ b = Prefix(c, u)
    BY <1>0, <1>1, <1>4, <1>9
  <2>2. \A i, j \in DOMAIN c : i < j /\ c[j].id > 0 => c[i].id < c[j].id
    BY DEF Sound
  <2>3. \A i \in DOMAIN q : u >= 0 /\ q[i].id > 0 /\ (i > a => u < q[i].id) /\ (i <= a => q[i].id <= u)
    <3> TAKE i \in DOMAIN q
    <3>1. q[i].id > 0
      BY DEF Sound
    <3>2. CASE a = 0
      BY <1>0, <3>1, <3>2
    <3>3. CASE a # 0
      <4>1. a \in DOMAIN q /\ u = q[a].id
        BY <1>0, <1>1, <3>3
      <4>2. (i > a => q[a].id < q[i].id) /\ (i < a => q[i].id < q[a].id)
        BY <4>1 DEF Sound, Ascending
      <4> HIDE DEF u
      <4>3. i > a \/ i < a \/ i = a
        BY <1>0, <1>1
      <4>4. QED
        BY <1>0, <3>1, <4>1, <4>2, <4>3
    <3>4. QED
      BY <3>2, <3>3
  <2> HIDE DEF u
  <2>4. /\ \A i \in 1 .. Prefix(c, u) : c[i].id <= u
        /\ \A j \in DOMAIN c : j > Prefix(c, u) /\ c[j].id > 0 => u < c[j].id
    BY <1>0, <2>1, <2>2, PrefixSplits
  <2>5. \A m \in Items(c, b) \cup Items(q, a) : m.id <= u
    <3>1. \A i \in 1 .. a : q[i].id <= u
      BY <1>0, <1>1, <2>3
    <3>2. QED
      BY <2>1, <2>4, <3>1 DEF Items
  <2>6. \A w \in Cited(p) : w.id \in Nat /\ u < w.id
    <3> TAKE w \in Cited(p)
    <3>1. CASE \E i \in DOMAIN p.queue : w = p.queue[i]
      <4>1. PICK i \in DOMAIN p.queue : w = p.queue[i]
        BY <3>1
      <4>2. i \in 1 .. Len(q) - a
        BY <1>5, <4>1, ElementsType
      <4>3. w = q[i + a] /\ i + a \in DOMAIN q /\ i + a > a
        BY SMTT(30), <1>0, <1>1, <1>5, <4>1, <4>2
      <4>4. QED
        BY <1>0, <2>3, <4>3
    <3>2. CASE w.id > 0 /\ \E i \in DOMAIN p.context : w = p.context[i]
      <4>1. PICK i \in DOMAIN p.context : w = p.context[i]
        BY <3>2
      <4>2. i \in 1 .. Len(c) - b
        BY <1>6, <4>1, ElementsType
      <4>3. w = c[i + b] /\ i + b \in DOMAIN c /\ i + b > b
        BY SMTT(30), <1>0, <1>1, <1>6, <4>1, <4>2
      <4>4. QED
        BY <1>0, <2>1, <2>4, <3>2, <4>3
    <3>3. QED
      BY <1>5, <1>6, <3>1, <3>2, CitedElements
  <2>7. QED
    BY <1>8, <2>1, <2>5, <2>6
<1>10. ASSUME p.queue = << >>
       PROVE  Cited(p) = {}
  <2>1. b = Len(c)
    BY <1>4, <1>10
  <2>2. p.context = << >>
    BY <1>0, <1>6, <2>1, EmptySeq
  <2>3. QED
    BY <1>10, <2>2, EmptySound
<1>11. \A m \in Items(c, b) \cup Items(q, a) : m.id \in Nat /\ \A w \in Cited(p) : m.id < w.id
  BY <1>8, <1>9, <1>10
<1>12. QED
  BY <1>7, <1>11 DEF p, a, b

\* A newcomer's backlog, of which the newest lines are kept.
LEMMA OverhearAllSound ==
  ASSUME NEW r \in Reg, BoundedReg(r), r.queue = << >>, r.context = << >>,
         NEW ms \in Seq(Msg), NEW k \in Nat, NEW n, Sound(<< >>, ms, k, n)
  PROVE  LET p == OverhearAll(r, ms)
         IN  Sound(p.queue, p.context, k, n) /\ p.queue = << >>
<1> DEFINE p      == OverhearAll(r, ms)
           excess == IF Len(ms) > ContextCap THEN Len(ms) - ContextCap ELSE 0
<1>0. r.context \o ms = ms /\ Len(ms) \in Nat /\ ContextCap \in Nat \ {0}
  BY CapsAssumption, ConcatEmptySeq, LenProperties
<1>1. p.queue = << >> /\ p.context = SubSeq(ms, excess + 1, Len(ms))
  BY <1>0 DEF OverhearAll, Reg
<1>2. excess \in 0 .. Len(ms)
  BY <1>0
<1> HIDE DEF p, excess
<1>3. p.context \in Seq(Msg) /\ Suffix(p.context, ms)
  BY <1>1, <1>2, RestSuffix
<1>4. << >> \in Seq(Msg) /\ Suffix(<< >>, << >>)
  BY EmptySeq, SameSuffix
<1>5. Sound(p.queue, p.context, k, n)
  BY <1>1, <1>3, <1>4, SoundRest
<1>6. QED
  BY <1>1, <1>5 DEF p

-----------------------------------------------------------------------------
(* Steps that leave the mail alone.                                        *)

\* Both hold in every state of the process, and not between a flush or a mark
\* and the check that follows it.
Upheld(h) == Mail(h) /\ ~SessionOver(h)

Calm(h, g) ==
  /\ g.counter = h.counter /\ g.recent = h.recent
  /\ \A n \in Name : /\ g.reg[n].where = h.reg[n].where
                     /\ g.reg[n].kind = h.reg[n].kind
                     /\ g.reg[n].queue = h.reg[n].queue
                     /\ g.reg[n].context = h.reg[n].context
  /\ Given(g) \subseteq Given(h)

Quiet(h, g) == Calm(h, g) /\ \A n \in Name : g.reg[n].finished = h.reg[n].finished

LEMMA CalmMail ==
  ASSUME NEW h, NEW g, Calm(h, g), Mail(h)
  PROVE  Mail(g)
<1>1. Agents(g) = Agents(h) /\ Agents(h) \subseteq Name
  BY DEF Calm, Agents, Live, IsObserver
<1>2. \A n \in Name : Cited(g.reg[n]) = Cited(h.reg[n])
  BY DEF Calm, Cited, Waiting
<1>3. \A f \in Given(g) : f.name \in Agents(g) => Apt(f.msgs, g.reg[f.name], f.name)
  BY <1>1, <1>2 DEF Calm, Mail, Apt
<1>4. Chronicled(g)
  BY DEF Calm, Mail, Chronicled
<1>5. QED
  BY <1>3, <1>4 DEF Calm, Mail

LEMMA QuietUpheld ==
  ASSUME NEW h, NEW g, Quiet(h, g)
  PROVE  /\ Mail(h) => Mail(g)
         /\ Upheld(h) => Upheld(g)
<1>1. Agents(g) = Agents(h) /\ Agents(h) \subseteq Name
  BY DEF Quiet, Calm, Agents, Live, IsObserver
<1>2. SessionOver(g) => SessionOver(h)
  BY <1>1 DEF Quiet, Calm, SessionOver
<1>3. QED
  BY <1>2, CalmMail DEF Quiet, Upheld

LEMMA QuietTransitive ==
  ASSUME NEW h, NEW g, NEW i, Quiet(h, g), Quiet(g, i)
  PROVE  Quiet(h, i)
BY DEF Quiet, Calm

\* Nothing but connections, answers and the floor has changed.
LEMMA SameQuiet ==
  ASSUME NEW h, NEW g, g.reg = h.reg, g.counter = h.counter, g.recent = h.recent,
         Given(g) \subseteq Given(h)
  PROVE  Quiet(h, g)
BY DEF Quiet, Calm

LEMMA KeptFields ==
  ASSUME NEW h, Typed(h)
  PROVE  /\ \A x : /\ WithReg(h, x).sent = h.sent
                   /\ WithReg(h, x).counter = h.counter
                   /\ WithReg(h, x).recent = h.recent
         /\ \A x : /\ WithRound(h, x).sent = h.sent
                   /\ WithRound(h, x).recent = h.recent
                   /\ WithRound(h, x).counter = h.counter
         /\ \A x : /\ WithCounter(h, x).sent = h.sent
                   /\ WithCounter(h, x).recent = h.recent
                   /\ WithCounter(h, x).counter = x
         /\ \A x : /\ WithConn(h, x).sent = h.sent
                   /\ WithConn(h, x).recent = h.recent
                   /\ WithConn(h, x).counter = h.counter
         /\ \A x, y, z : /\ WithRecord(h, x, y, z).sent = z
                         /\ WithRecord(h, x, y, z).recent = y
                         /\ WithRecord(h, x, y, z).counter = x
         /\ \A u, x, y, z : /\ WithFloor(h, u, x, y, z).sent = h.sent
                            /\ WithFloor(h, u, x, y, z).recent = h.recent
                            /\ WithFloor(h, u, x, y, z).counter = h.counter
<1>1. h \in HubState
  BY DEF Typed
<1>2. QED
  BY <1>1 DEF HubState, WithReg, WithRound, WithCounter, WithConn, WithRecord, WithFloor

LEMMA PushSent ==
  ASSUME NEW h, Typed(h), NEW frames \in SUBSET Frame, NEW records \in SUBSET Frame
  PROVE  LET p == Push(h, frames, records)
         IN  /\ \A f \in p.sent : f \in h.sent \cup frames \cup records
             /\ (\A f \in frames \cup records : f.t # "deliver") => Quiet(h, p)
<1> DEFINE p == Push(h, frames, records)
<1>1. p.reg = h.reg /\ SameFloor(h, p)
  BY PushType
<1>2. p.sent = h.sent \cup {f \in frames : Takes(h, f.sink)} \cup records
  BY DEF Push, Typed, HubState
<1> HIDE DEF p
<1>3. \A f \in p.sent : f \in h.sent \cup frames \cup records
  BY <1>2
<1>4. ASSUME \A f \in frames \cup records : f.t # "deliver"
      PROVE  Quiet(h, p)
  <2>1. Given(p) \subseteq Given(h)
    BY <1>3, <1>4 DEF Given
  <2>2. QED
    BY <1>1, <2>1, SameQuiet DEF SameFloor
<1>5. QED
  BY <1>3, <1>4 DEF p

LEMMA EmitQuiet ==
  ASSUME NEW h, Typed(h), NEW event \in Events, NEW about \in Name \cup {NoName}
  PROVE  /\ \A skip : Quiet(h, EmitSkipping(h, event, about, skip))
         /\ Quiet(h, Emit(h, event, about))
<1>1. ASSUME NEW skip
      PROVE  Quiet(h, EmitSkipping(h, event, about, skip))
  <2> DEFINE seen(s) == [sink |-> s, t |-> "event", event |-> event, name |-> about]
             seats   == {h.reg[n].client : n \in Observers(h) \ skip}
             frames  == {seen(c) : c \in seats \cap Conn}
             records == {seen(Transcript)}
  <2>1. frames \in SUBSET Frame /\ records \in SUBSET Frame
    BY DEF Frame, Event, Sinks
  <2>2. EmitSkipping(h, event, about, skip) = Push(h, frames, records)
    BY DEF EmitSkipping
  <2>3. \A f \in frames \cup records : f.t # "deliver"
    OBVIOUS
  <2> HIDE DEF frames, records
  <2>4. QED
    BY <2>1, <2>2, <2>3, PushSent
<1>2. QED
  BY <1>1 DEF Emit

LEMMA ReplyQuiet ==
  ASSUME NEW h, Typed(h), NEW c \in Conn, NEW from \in Conn, NEW verdict \in {"ok", "err"}
  PROVE  Quiet(h, Reply(h, c, from, verdict))
<1> DEFINE frames == {[sink |-> c, t |-> verdict, re |-> from]}
<1>1. frames \in SUBSET Frame /\ {} \in SUBSET Frame
  BY DEF Frame, Answer
<1>2. \A f \in frames \cup {} : f.t # "deliver"
  OBVIOUS
<1>3. Reply(h, c, from, verdict) = Push(h, frames, {})
  BY DEF Reply
<1> HIDE DEF frames
<1>4. QED
  BY <1>1, <1>2, <1>3, PushSent

LEMMA WithFloorQuiet ==
  ASSUME NEW h, Typed(h), NEW round, NEW frozen, NEW muted, NEW limit
  PROVE  Quiet(h, WithFloor(h, round, frozen, muted, limit))
<1> DEFINE g == WithFloor(h, round, frozen, muted, limit)
<1>1. g.sent = h.sent /\ g.recent = h.recent /\ g.counter = h.counter
  BY KeptFields
<1>2. g.reg = h.reg
  BY DEF WithFloor, Typed, HubState
<1> HIDE DEF g
<1>3. Quiet(h, g)
  BY <1>1, <1>2, SameQuiet DEF Given
<1>4. QED
  BY <1>3 DEF g

LEMMA OneConnQuiet ==
  ASSUME NEW h, Typed(h), NEW c \in Conn, NEW k \in Link, k.out <= OutboundMax
  PROVE  Quiet(h, [h EXCEPT !.conn[c] = k])
<1> DEFINE g == [h EXCEPT !.conn[c] = k]
<1>1. g.reg = h.reg /\ SameFloor(h, g)
  BY OneConnType
<1>2. g.sent = h.sent
  BY DEF Typed, HubState
<1> HIDE DEF g
<1>3. Quiet(h, g)
  BY <1>1, <1>2, SameQuiet DEF Given, SameFloor
<1>4. QED
  BY <1>3 DEF g

LEMMA CloseQuiet ==
  ASSUME NEW h, Typed(h), NEW c \in Conn
  PROVE  Quiet(h, Close(h, c))
<1> DEFINE k == Cut(h.conn[c])
<1>1. h.conn[c] \in Link /\ OutboundMax \in Nat
  BY ConfigAssumption DEF Typed, HubState
<1>2. k \in Link /\ k.out = 0
  BY <1>1, LinkFields, Zenon
<1>3. Close(h, c) = [h EXCEPT !.conn[c] = k]
  BY DEF Close
<1> HIDE DEF k
<1>4. k.out <= OutboundMax
  BY <1>1, <1>2
<1>5. QED
  BY <1>2, <1>3, <1>4, OneConnQuiet

LEMMA CheckRoundLimitQuiet ==
  ASSUME NEW h, Typed(h)
  PROVE  Quiet(h, CheckRoundLimit(h))
<1> DEFINE f == WithFloor(h, h.round, TRUE, h.muted, h.limit)
<1>1. CASE h.round >= h.limit /\ ~h.frozen
  <2>1. CheckRoundLimit(h) = Emit(f, "round_limit", NoName)
    BY <1>1 DEF CheckRoundLimit, WithFloor, Typed, HubState
  <2>2. Typed(f)
    <3>1. h.round \in Nat /\ h.limit \in Nat \ {0} /\ h.muted \in BOOLEAN
      BY DEF Typed, HubState
    <3>2. QED
      BY <3>1, WithFloorKeeps DEF Keeps
  <2>3. Quiet(h, f)
    BY WithFloorQuiet
  <2> HIDE DEF f
  <2>4. Quiet(f, Emit(f, "round_limit", NoName))
    BY <2>2, EmitQuiet DEF Events
  <2>5. QED
    BY <2>1, <2>3, <2>4, QuietTransitive
<1>2. CASE ~(h.round >= h.limit /\ ~h.frozen)
  BY <1>2 DEF CheckRoundLimit, Quiet, Calm
<1>3. QED
  BY <1>1, <1>2

\* One registration is changed outside its mailbox.
LEMMA OneRegCalm ==
  ASSUME NEW h, Typed(h), NEW n \in Name, NEW r, r.where = h.reg[n].where,
         r.kind = h.reg[n].kind, r.queue = h.reg[n].queue, r.context = h.reg[n].context
  PROVE  LET g == [h EXCEPT !.reg[n] = r]
         IN  Calm(h, g) /\ (r.finished = h.reg[n].finished => Quiet(h, g))
<1> DEFINE reg == [h.reg EXCEPT ![n] = r]
           g   == WithReg(h, reg)
<1>1. [h EXCEPT !.reg[n] = r] = g
  BY DEF WithReg
<1>2. \A m \in Name : reg[m] = IF m = n THEN r ELSE h.reg[m]
  BY DEF Typed, HubState
<1> HIDE DEF reg
<1>3. g.reg = reg
  BY DEF WithReg, Typed, HubState
<1>4. g.sent = h.sent /\ g.counter = h.counter /\ g.recent = h.recent
  BY KeptFields
<1> HIDE DEF g
<1>5. Calm(h, g) /\ (r.finished = h.reg[n].finished => Quiet(h, g))
  BY <1>2, <1>3, <1>4 DEF Calm, Quiet, Given
<1>6. QED
  BY <1>1, <1>5

LEMMA MarksCalm ==
  ASSUME NEW h, Typed(h), NEW n \in Name, NEW b, NEW state
  PROVE  /\ Calm(h, [h EXCEPT !.reg[n].finished = b])
         /\ [h EXCEPT !.reg[n].finished = b].reg[n].finished = b
         /\ Quiet(h, [h EXCEPT !.reg[n].awaiting = b])
         /\ Quiet(h, WithState(h, n, state))
<1>0. h.reg[n] \in Reg /\ h.reg \in [Name -> Reg]
  BY DEF Typed, HubState
<1>1. Calm(h, [h EXCEPT !.reg[n].finished = b])
  <2> DEFINE r == [h.reg[n] EXCEPT !.finished = b]
  <2>1. /\ r.where = h.reg[n].where /\ r.kind = h.reg[n].kind
        /\ r.queue = h.reg[n].queue /\ r.context = h.reg[n].context
    BY <1>0 DEF Reg
  <2>2. [h EXCEPT !.reg[n].finished = b] = [h EXCEPT !.reg[n] = r]
    OBVIOUS
  <2> HIDE DEF r
  <2>3. QED
    BY <2>1, <2>2, OneRegCalm
<1>2. [h EXCEPT !.reg[n].finished = b].reg[n].finished = b
  BY <1>0 DEF Typed, HubState, Reg
<1>3. Quiet(h, [h EXCEPT !.reg[n].awaiting = b])
  <2> DEFINE r == [h.reg[n] EXCEPT !.awaiting = b]
  <2>1. /\ r.where = h.reg[n].where /\ r.kind = h.reg[n].kind
        /\ r.queue = h.reg[n].queue /\ r.context = h.reg[n].context
        /\ r.finished = h.reg[n].finished
    BY <1>0 DEF Reg
  <2>2. [h EXCEPT !.reg[n].awaiting = b] = [h EXCEPT !.reg[n] = r]
    OBVIOUS
  <2> HIDE DEF r
  <2>3. QED
    BY <2>1, <2>2, OneRegCalm
<1>4. Quiet(h, WithState(h, n, state))
  <2> DEFINE r == [h.reg[n] EXCEPT !.state = state]
  <2>1. /\ r.where = h.reg[n].where /\ r.kind = h.reg[n].kind
        /\ r.queue = h.reg[n].queue /\ r.context = h.reg[n].context
        /\ r.finished = h.reg[n].finished
    BY <1>0 DEF Reg
  <2>2. WithState(h, n, state) = [h EXCEPT !.reg[n] = r]
    BY DEF WithState
  <2> HIDE DEF r
  <2>3. QED
    BY <2>1, <2>2, OneRegCalm
<1>5. QED
  BY <1>1, <1>2, <1>3, <1>4

\* After the check no session is over.
LEMMA CheckSessionDoneUpheld ==
  ASSUME NEW h, Typed(h), Mail(h)
  PROVE  Upheld(CheckSessionDone(h)) /\ Calm(h, CheckSessionDone(h))
<1> DEFINE e   == Emit(h, "session_done", NoName)
           w   == WithRound(e, 0)
           reg == [n \in Name |-> Unmarked(h, n)]
           g   == WithReg(w, reg)
<1>1. CASE SessionOver(h)
  <2>1. CheckSessionDone(h) = g
    BY <1>1 DEF CheckSessionDone, WithRound, WithReg, Unmarked
  <2>2. Typed(e) /\ Quiet(h, e)
    BY EmitKeeps, EmitQuiet DEF Events, Keeps
  <2> HIDE DEF e
  <2>3. Typed(w)
    BY <2>2, WithRoundType
  <2>4. w.sent = e.sent /\ w.counter = e.counter /\ w.recent = e.recent
    BY <2>2, KeptFields
  <2> HIDE DEF w
  <2>5. g.sent = w.sent /\ g.counter = w.counter /\ g.recent = w.recent
    BY <2>3, KeptFields
  <2>6. g.reg = reg
    BY <2>3 DEF WithReg, Typed, HubState
  <2> HIDE DEF g
  <2>7. \A n \in Name : /\ reg[n].where = h.reg[n].where /\ reg[n].kind = h.reg[n].kind
                        /\ reg[n].queue = h.reg[n].queue
                        /\ reg[n].context = h.reg[n].context
    BY UnmarkedType DEF SameSeat
  <2>8. Calm(h, g)
    BY <2>2, <2>4, <2>5, <2>6, <2>7 DEF Calm, Quiet, Given
  <2>9. Agents(g) = Agents(h) /\ Agents(h) \subseteq Name
    BY <2>8 DEF Calm, Agents, Live, IsObserver
  <2>10. PICK n \in Agents(h) : TRUE
    BY <1>1 DEF SessionOver
  <2>11. h.reg[n] \in Reg /\ n \in Name
    BY <2>9, <2>10 DEF Typed, HubState
  <2>12. reg[n].finished = FALSE
    BY <2>10, <2>11 DEF Unmarked, Reg
  <2>13. ~SessionOver(g)
    BY <2>6, <2>9, <2>10, <2>12 DEF SessionOver
  <2>14. QED
    BY <2>1, <2>8, <2>13, CalmMail DEF Upheld
<1>2. CASE ~SessionOver(h)
  BY <1>2 DEF CheckSessionDone, Upheld, Calm
<1>3. QED
  BY <1>1, <1>2

-----------------------------------------------------------------------------
(* Steps that change mailboxes or hand over.                               *)

LEMMA GivenType ==
  ASSUME NEW h, Typed(h), NEW f \in Given(h)
  PROVE  f.msgs \in SUBSET Msg /\ \A m \in f.msgs : m.id \in Nat
<1>1. f \in Frame /\ f.t = "deliver"
  BY DEF Given, Typed, HubState
<1>2. f \in Delivery
  BY <1>1 DEF Frame, Delivery, Event, Answer, Signal, Routed
<1>3. QED
  BY <1>2 DEF Delivery, Msg

LEMMA CitedType ==
  ASSUME NEW r, r.queue \in Seq(Msg), r.context \in Seq(Msg), NEW w \in Cited(r)
  PROVE  w \in Msg /\ w.id \in Nat /\ w.id > 0
<1>1. PICK s \in {r.queue, r.context} : w.id > 0 /\ \E i \in DOMAIN s : w = s[i]
  BY CitedElements
<1>2. QED
  BY <1>1, ElementsType

\* What is handed over is new or was fitting before, and what came to wait
\* for anybody who was given something is newer than all that was there.
LEMMA MailStep ==
  ASSUME NEW h, Typed(h), Mail(h), NEW g, Typed(g), h.counter <= g.counter, Chronicled(g),
         \A n \in Name : Sound(g.reg[n].queue, g.reg[n].context, g.counter, n),
         \A f \in Given(g) :
           \/ f \in Given(h)
           \/ /\ \A m \in f.msgs : m.id <= g.counter
              /\ f.name \in Agents(g) => Apt(f.msgs, g.reg[f.name], f.name),
         \A f \in Given(h) : f.name \in Agents(g) =>
           /\ f.name \in Agents(h)
           /\ \A w \in Cited(g.reg[f.name]) :
                (w \in Cited(h.reg[f.name])) \/ (h.counter < w.id)
  PROVE  Mail(g)
<1>0. h.counter \in Nat /\ g.counter \in Nat
  BY DEF Typed, HubState
<1>1. \A f \in Given(g) : \A m \in f.msgs : m.id <= g.counter
  <2> TAKE f \in Given(g)
  <2>1. CASE f \in Given(h)
    BY <1>0, <2>1, GivenType DEF Mail
  <2>2. CASE f \notin Given(h)
    BY <2>2
  <2>3. QED
    BY <2>1, <2>2
<1>2. \A f \in Given(g) : f.name \in Agents(g) => Apt(f.msgs, g.reg[f.name], f.name)
  <2> TAKE f \in Given(g)
  <2> HAVE f.name \in Agents(g)
  <2>1. CASE f \in Given(h)
    <3> DEFINE n == f.name
    <3>1. n \in Agents(h) /\ Apt(f.msgs, h.reg[n], n)
      BY <2>1 DEF Mail
    <3>2. n \in Name /\ g.reg[n].queue \in Seq(Msg) /\ g.reg[n].context \in Seq(Msg)
      BY DEF Agents, Live, Typed, HubState, Reg
    <3>3. \A w \in Cited(g.reg[n]) : w.id \in Nat
      BY <3>2, CitedType
    <3>4. \A m \in f.msgs : m.id \in Nat /\ m.id <= h.counter
      BY <2>1, GivenType DEF Mail
    <3>5. \A m \in f.msgs, w \in Cited(g.reg[n]) : m.id < w.id
      <4> TAKE m \in f.msgs, w \in Cited(g.reg[n])
      <4>1. CASE w \in Cited(h.reg[n])
        BY <3>1, <4>1 DEF Apt
      <4>2. CASE h.counter < w.id
        BY <1>0, <3>3, <3>4, <4>2
      <4>3. QED
        BY <2>1, <4>1, <4>2
    <3>6. QED
      BY <3>1, <3>5 DEF Apt
  <2>2. CASE f \notin Given(h)
    BY <2>2
  <2>3. QED
    BY <2>1, <2>2
<1>3. QED
  BY <1>1, <1>2 DEF Mail

LEMMA SameChronicle ==
  ASSUME NEW h, Typed(h), Chronicled(h), NEW g, Typed(g), g.recent = h.recent,
         h.counter <= g.counter
  PROVE  Chronicled(g)
<1>1. h.counter \in Nat /\ g.counter \in Nat
  BY DEF Typed, HubState
<1>2. \A i \in DOMAIN h.recent : h.recent[i].id \in Nat
  <2>1. h.recent \in Seq(Record) /\ DOMAIN h.recent = 1 .. Len(h.recent)
    BY LenProperties DEF Typed, HubState
  <2>2. \A i \in DOMAIN h.recent : h.recent[i] \in Record
    BY <2>1, ElementOfSeq
  <2>3. QED
    BY <2>2 DEF Record
<1>3. QED
  BY <1>1, <1>2 DEF Chronicled

LEMMA DeliverMail ==
  ASSUME NEW h, Typed(h), Mail(h), NEW batch, DOMAIN batch \subseteq Live(h),
         \A n \in DOMAIN batch : h.reg[n].client \in Conn /\ batch[n] \in SUBSET Msg,
         \A n \in DOMAIN batch : \A m \in batch[n] : m.id <= h.counter,
         \A n \in DOMAIN batch : n \in Agents(h) => Apt(batch[n], h.reg[n], n)
  PROVE  LET d == Deliver(h, batch)
         IN  /\ Mail(d)
             /\ SessionOver(d) => SessionOver(h)
<1> DEFINE d  == Deliver(h, batch)
           to == DOMAIN batch
           frame(s, n) == [sink |-> s, t |-> "deliver", name |-> n,
                           round |-> h.round, msgs |-> batch[n]]
           frames  == {frame(h.reg[n].client, n) : n \in to}
           records == {frame(Transcript, n) : n \in to}
           p       == Push(h, frames, records)
<1>1. /\ Typed(d) /\ Stable(h, d) /\ SameFloor(h, d)
      /\ \A n \in Name : d.reg[n] = Busied(h, to, n)
  BY DeliverType
<1>2. \A n \in Name : /\ d.reg[n].queue = h.reg[n].queue
                      /\ d.reg[n].context = h.reg[n].context
                      /\ d.reg[n].finished = h.reg[n].finished
  BY <1>1, BusiedType
<1>3. Agents(d) = Agents(h) /\ Agents(h) \subseteq Name
  BY <1>1, StableAlike DEF Agents, Live
<1>4. \A f \in Given(d) : \/ f \in Given(h)
                          \/ f.name \in to /\ f.msgs = batch[f.name]
  <2>1. frames \in SUBSET Frame /\ records \in SUBSET Frame
    BY DEF Frame, Delivery, Live, Typed, HubState, Sinks
  <2>2. Typed(p)
    BY <2>1, PushType
  <2>3. d.sent = p.sent
    BY <2>2 DEF Deliver, Typed, HubState
  <2>4. \A f \in frames \cup records : f.name \in to /\ f.msgs = batch[f.name]
    OBVIOUS
  <2> HIDE DEF d, p, frames, records
  <2>5. \A f \in p.sent : f \in h.sent \cup frames \cup records
    BY <2>1, PushSent DEF p
  <2>6. QED
    BY <2>3, <2>4, <2>5 DEF Given
<1> HIDE DEF d
<1>5. \A n \in Name : Cited(d.reg[n]) = Cited(h.reg[n])
  BY <1>2 DEF Cited, Waiting
<1>6. d.counter = h.counter /\ d.recent = h.recent /\ h.counter \in Nat
  BY <1>1 DEF SameFloor, Typed, HubState
<1>7. \A n \in Name : Sound(d.reg[n].queue, d.reg[n].context, d.counter, n)
  BY <1>2, <1>6 DEF Mail
<1>8. \A f \in Given(d) :
        \/ f \in Given(h)
        \/ /\ \A m \in f.msgs : m.id <= d.counter
           /\ f.name \in Agents(d) => Apt(f.msgs, d.reg[f.name], f.name)
  BY <1>3, <1>4, <1>5, <1>6 DEF Apt
<1>9. \A f \in Given(h) : f.name \in Agents(d) =>
        /\ f.name \in Agents(h)
        /\ \A w \in Cited(d.reg[f.name]) :
             (w \in Cited(h.reg[f.name])) \/ (h.counter < w.id)
  BY <1>3, <1>5
<1>10. Mail(d)
  <2>1. Chronicled(d)
    BY <1>1, <1>6, SameChronicle DEF Mail
  <2>2. h.counter <= d.counter
    BY <1>6
  <2>3. QED
    BY <1>1, <1>7, <1>8, <1>9, <2>1, <2>2, MailStep
<1>11. SessionOver(d) => SessionOver(h)
  BY <1>2, <1>3 DEF SessionOver
<1>12. QED
  BY <1>10, <1>11 DEF d

LEMMA HandSliceMail ==
  ASSUME NEW h, Typed(h), Linked(h), Mail(h), NEW n \in Live(h)
  PROVE  Mail(HandSlice(h, n))
<1> DEFINE p     == h.reg[n]
           wake  == Notice(p) \cup Items(p.queue, SliceLen(p))
           batch == Omitted(p) \cup Items(p.context, SliceContext(p)) \cup wake
           k     == IF Asked(wake) THEN h.round + 1 ELSE h.round
           reg   == [h.reg EXCEPT ![n] = AfterSlice(p)]
           w     == WithReg(h, reg)
           taken == WithRound(w, k)
           one   == [q \in {n} |-> batch]
           given == Deliver(taken, one)
<1>1. /\ n \in Name /\ p \in Reg /\ BoundedReg(p) /\ p.client \in Conn
      /\ h.round \in Nat /\ h.counter \in Nat
  BY DEF Typed, HubState, Live, Linked, Owned
<1>2. batch \in SUBSET Msg
  BY <1>1, NoticeType, SliceType, ItemsType DEF Reg
<1>3. Reboxed(p, AfterSlice(p))
  BY <1>1, AfterSliceType
<1>4. /\ reg \in [Name -> Reg] /\ reg[n] = AfterSlice(p)
      /\ \A m \in Name : BoundedReg(reg[m])
      /\ \A m \in Name : SameSeat(h.reg[m], reg[m])
      /\ \A m \in Name : m # n => reg[m] = h.reg[m]
  BY <1>1, <1>3 DEF Typed, HubState, Reboxed, SameSeat
<1>5. HandSlice(h, n) = IF Asked(wake) THEN CheckRoundLimit(given) ELSE given
  BY DEF HandSlice, WithReg, WithRound
<1>6. k \in Nat
  BY <1>1
<1>7. one = [q \in {n} |-> batch] /\ DOMAIN one = {n} /\ one[n] = batch
  OBVIOUS
<1>8. Sound(p.queue, p.context, h.counter, n)
  BY <1>1 DEF Mail
<1>9. /\ Sound(AfterSlice(p).queue, AfterSlice(p).context, h.counter, n)
      /\ Cited(AfterSlice(p)) \subseteq Cited(p)
      /\ \A m \in Items(p.context, SliceContext(p)) \cup Items(p.queue, SliceLen(p)) :
           m.id \in Nat /\ \A c \in Cited(AfterSlice(p)) : m.id < c.id
  BY <1>1, <1>8, SliceSound
<1>10. \A m \in batch : m.id <= h.counter /\ (m.private => m.to = n)
                        /\ \A c \in Cited(AfterSlice(p)) : m.id < c.id
  <2> TAKE m \in batch
  <2>1. CASE m \in Omitted(p) \cup Notice(p)
    <3>1. m.id = 0 /\ m.private = FALSE
      BY <2>1 DEF Omitted, Notice, Line
    <3>2. \A c \in Cited(AfterSlice(p)) : c.id > 0
      BY DEF Cited
    <3>3. QED
      BY <1>1, <3>1, <3>2
  <2>2. CASE m \in Items(p.context, SliceContext(p)) \cup Items(p.queue, SliceLen(p))
    <3>1. \/ \E i \in 1 .. SliceContext(p) : m = p.context[i]
          \/ \E i \in 1 .. SliceLen(p) : m = p.queue[i]
      BY <2>2 DEF Items
    <3>2. /\ SliceContext(p) \in 0 .. Len(p.context) /\ SliceLen(p) \in 0 .. Len(p.queue)
          /\ DOMAIN p.context = 1 .. Len(p.context) /\ Len(p.context) \in Nat
          /\ DOMAIN p.queue = 1 .. Len(p.queue) /\ Len(p.queue) \in Nat
      BY <1>1, SliceType, ElementsType DEF Reg
    <3>3. \/ \E i \in DOMAIN p.context : m = p.context[i]
          \/ \E i \in DOMAIN p.queue : m = p.queue[i]
      BY <3>1, <3>2
    <3>4. m.id <= h.counter /\ (m.private => m.to = n)
      BY <1>8, <3>3 DEF Sound
    <3>5. QED
      BY <1>9, <2>2, <3>4
  <2>3. QED
    BY <2>1, <2>2
<1> DEFINE asked == Asked(wake)
<1> HIDE DEF asked, batch, wake, k, reg, one
<1>11. /\ Typed(w) /\ Stable(h, w) /\ w.reg = reg /\ w.sent = h.sent
       /\ w.counter = h.counter /\ w.recent = h.recent
  BY <1>4, WithRegType, WithRegStable, KeptFields
<1> HIDE DEF w
<1>12. /\ Typed(taken) /\ taken.reg = reg /\ Stable(w, taken) /\ taken.sent = h.sent
       /\ taken.counter = h.counter /\ taken.recent = h.recent
  BY <1>6, <1>11, WithRoundType, KeptFields
<1>13. Stable(h, taken)
  BY <1>11, <1>12, StableTransitive
<1> HIDE DEF taken
<1>14. Mail(taken)
  <2>1. h.counter <= taken.counter /\ Chronicled(taken)
    BY <1>1, <1>12, SameChronicle DEF Mail
  <2>2. \A m \in Name : Sound(taken.reg[m].queue, taken.reg[m].context, taken.counter, m)
    <3> TAKE m \in Name
    <3>1. CASE m = n
      BY <1>4, <1>9, <1>12, <3>1
    <3>2. CASE m # n
      BY <1>4, <1>12, <3>2 DEF Mail
    <3>3. QED
      BY <3>1, <3>2
  <2>3. \A m \in Name : Cited(taken.reg[m]) \subseteq Cited(h.reg[m])
    <3> TAKE m \in Name
    <3>1. CASE m = n
      BY <1>4, <1>9, <1>12, <3>1
    <3>2. CASE m # n
      BY <1>4, <1>12, <3>2
    <3>3. QED
      BY <3>1, <3>2
  <2>4. Agents(taken) = Agents(h) /\ Agents(h) \subseteq Name
    BY <1>13, StableAlike DEF Agents, Live
  <2>5. \A f \in Given(taken) : f \in Given(h)
    BY <1>12 DEF Given
  <2>6. \A f \in Given(h) : f.name \in Agents(taken) =>
          /\ f.name \in Agents(h)
          /\ \A c \in Cited(taken.reg[f.name]) :
               (c \in Cited(h.reg[f.name])) \/ (h.counter < c.id)
    BY <2>3, <2>4
  <2>7. QED
    BY <1>12, <2>1, <2>2, <2>5, <2>6, MailStep
<1>15. DOMAIN one \subseteq Live(taken)
  BY <1>7, <1>13, StableAlike
<1>16. \A q \in DOMAIN one : taken.reg[q].client \in Conn /\ one[q] \in SUBSET Msg
  BY <1>1, <1>2, <1>7, <1>13 DEF Stable
<1>17. \A q \in DOMAIN one : \A m \in one[q] : m.id <= taken.counter
  BY <1>7, <1>10, <1>12
<1>18. \A q \in DOMAIN one : q \in Agents(taken) => Apt(one[q], taken.reg[q], q)
  <2>1. taken.reg[n] = AfterSlice(p)
    BY <1>4, <1>12
  <2>2. Apt(batch, taken.reg[n], n)
    BY <1>10, <2>1 DEF Apt
  <2>3. QED
    BY <1>7, <2>2
<1>19. Mail(given) /\ Typed(given)
  BY <1>12, <1>14, <1>15, <1>16, <1>17, <1>18, DeliverMail, DeliverType
<1> HIDE DEF given
<1>20. Mail(CheckRoundLimit(given))
  BY <1>19, CheckRoundLimitQuiet, QuietUpheld
<1>21. QED
  BY <1>5, <1>19, <1>20

LEMMA FlushQueueUpheld ==
  ASSUME NEW h, Typed(h), Linked(h), Upheld(h), NEW n \in Live(h)
  PROVE  Upheld(FlushQueue(h, n))
<1>1. CASE h.reg[n].queue = << >> \/ ~Reachable(h, n)
  BY <1>1 DEF FlushQueue
<1>2. CASE ~(h.reg[n].queue = << >> \/ ~Reachable(h, n))
  <2> DEFINE s == HandSlice(h, n)
  <2>1. FlushQueue(h, n) = CheckSessionDone(s)
    BY <1>2 DEF FlushQueue
  <2>2. Typed(s) /\ Mail(s)
    BY HandSliceKeeps, HandSliceMail DEF Upheld, Keeps
  <2> HIDE DEF s
  <2>3. QED
    BY <2>1, <2>2, CheckSessionDoneUpheld
<1>3. QED
  BY <1>1, <1>2

-----------------------------------------------------------------------------
(* System notes and accepted says.                                         *)

\* An idle agent that can be reached has its whole context taken, up to an id
\* that is over all of it, and has no wake waiting: nothing is left.
LEMMA WholeTaken ==
  ASSUME NEW h, Inv(h), Mail(h), NEW n \in Agents(h), h.reg[n].state = "idle",
         Reachable(h, n), NEW id \in Nat, h.counter <= id
  PROVE  LET p == Drained(h.reg[n], Prefix(h.reg[n].context, id))
         IN  /\ p.queue = h.reg[n].queue /\ p.queue = << >> /\ p.context = << >>
             /\ Cited(p) = {}
<1> DEFINE r == h.reg[n]
           j == Prefix(r.context, id)
           p == Drained(r, j)
<1>1. n \in Name /\ r \in Reg /\ BoundedReg(r) /\ h.counter \in Nat /\ r.context \in Seq(Msg)
  BY DEF Inv, Typed, HubState, Agents, Live, Reg
<1>2. Sound(r.queue, r.context, h.counter, n)
  BY <1>1 DEF Mail
<1>3. \A i \in DOMAIN r.context : r.context[i].id <= id
  <2>1. \A i \in DOMAIN r.context : r.context[i].id \in Nat
    BY <1>1, ElementsType
  <2>2. QED
    BY <1>1, <1>2, <2>1 DEF Sound
<1> HIDE DEF r
<1>4. j = Len(r.context) /\ j \in 0 .. Len(r.context)
  BY <1>1, <1>3, PrefixWhole, PrefixBounded
<1> HIDE DEF j
<1>5. p.queue = r.queue /\ p.context = << >>
  BY <1>1, <1>2, <1>4, DrainedSound
<1>6. r.queue = << >>
  BY DEF Inv, IdleDrained, r
<1> HIDE DEF p
<1>7. Cited(p) = {}
  BY <1>5, <1>6, EmptySound
<1>8. QED
  BY <1>5, <1>6, <1>7 DEF p, j, r

\* What is taken of the context is the agent's own and under the counter.
LEMMA TakenOwn ==
  ASSUME NEW h, Typed(h), Mail(h), NEW n \in Name, NEW id,
         NEW m \in Omitted(h.reg[n]) \cup Items(h.reg[n].context, Prefix(h.reg[n].context, id))
  PROVE  m.id <= h.counter /\ (m.private => m.to = n)
<1> DEFINE c == h.reg[n].context
<1>1. /\ c \in Seq(Msg) /\ h.counter \in Nat
      /\ Sound(h.reg[n].queue, c, h.counter, n)
  BY DEF Typed, HubState, Reg, Mail
<1>2. CASE m \in Omitted(h.reg[n])
  <2>1. m.id = 0 /\ m.private = FALSE
    BY <1>2 DEF Omitted, Line
  <2>2. QED
    BY <1>1, <2>1
<1>3. CASE m \in Items(c, Prefix(c, id))
  <2>1. Prefix(c, id) \in 0 .. Len(c) /\ DOMAIN c = 1 .. Len(c) /\ Len(c) \in Nat
    BY <1>1, PrefixBounded, ElementsType
  <2>2. \E i \in 1 .. Prefix(c, id) : m = c[i]
    BY <1>3 DEF Items
  <2>3. \E i \in DOMAIN c : m = c[i]
    BY <2>1, <2>2
  <2>4. QED
    BY <1>1, <2>3 DEF Sound
<1>4. QED
  BY <1>2, <1>3

LEMMA SystemMessageUpheld ==
  ASSUME NEW h, Inv(h), Upheld(h), NEW rank \in Ranks(Agents(h))
  PROVE  Upheld(SystemMessage(h, rank))
<1> DEFINE note(n)  == [id |-> h.counter + rank[n], from |-> System, to |-> n,
                        adr |-> "direct", private |-> FALSE, count |-> 0]
           woken    == {n \in Agents(h) : h.reg[n].state = "idle" /\ Reachable(h, n)}
           upto(n)  == Prefix(h.reg[n].context, note(n).id)
           reg      == [n \in Name |->
                          IF n \in woken THEN Drained(h.reg[n], upto(n))
                          ELSE IF n \in Agents(h) THEN Enqueue(h.reg[n], note(n))
                          ELSE h.reg[n]]
           batch    == [n \in woken |-> Omitted(h.reg[n])
                          \cup Items(h.reg[n].context, upto(n)) \cup {note(n)}]
           k        == h.counter + Cardinality(Agents(h))
           w        == WithReg(h, reg)
           noted    == WithCounter(w, k)
<1>0. Typed(h) /\ Linked(h) /\ Mail(h) /\ h.counter \in Nat
  BY DEF Inv, Upheld, Typed, HubState
<1>1. SystemMessage(h, rank) = Deliver(noted, batch)
  BY <1>0 DEF SystemMessage, WithReg, WithCounter, Typed, HubState
<1>2. k \in Nat /\ h.counter <= k
  BY <1>0, AgentsFinite
<1>3. \A n \in Agents(h) : /\ n \in Name /\ note(n) \in Msg
                           /\ note(n).id \in Nat /\ h.counter < note(n).id /\ note(n).id <= k
                           /\ note(n).private = FALSE /\ note(n).to = n
  <2> TAKE n \in Agents(h)
  <2>1. n \in Name
    BY DEF Agents, Live
  <2>2. rank[n] \in 1 .. Cardinality(Agents(h)) /\ Cardinality(Agents(h)) \in Nat
    BY AgentsFinite DEF Ranks
  <2>3. h.counter + rank[n] \in Nat /\ h.counter < h.counter + rank[n] /\ h.counter + rank[n] <= k
    BY <1>0, <2>2
  <2>4. QED
    BY <2>1, <2>3 DEF Msg
<1>4. \A n \in Name : /\ h.reg[n] \in Reg /\ BoundedReg(h.reg[n])
                      /\ Sound(h.reg[n].queue, h.reg[n].context, h.counter, n)
                      /\ h.reg[n].queue \in Seq(Msg) /\ h.reg[n].context \in Seq(Msg)
  BY <1>0 DEF Typed, HubState, Mail, Reg
<1> HIDE DEF note, k
<1>5. \A n \in Name : upto(n) \in 0 .. Len(h.reg[n].context)
  BY <1>4, PrefixBounded
<1>6. woken \subseteq Agents(h) /\ Agents(h) \subseteq Name
  BY <1>3
<1>7. \A n \in Name : /\ (n \in woken => reg[n] = Drained(h.reg[n], upto(n)))
                      /\ (n \in Agents(h) \ woken => reg[n] = Enqueue(h.reg[n], note(n)))
                      /\ (n \notin Agents(h) => reg[n] = h.reg[n])
  BY <1>6
<1>8. \A n \in woken : reg[n].queue = h.reg[n].queue /\ reg[n].queue = << >>
                       /\ reg[n].context = << >> /\ Cited(reg[n]) = {}
  <2> TAKE n \in woken
  <2>1. h.counter <= note(n).id /\ note(n).id \in Nat
    BY <1>0, <1>3
  <2>2. h.reg[n].state = "idle" /\ Reachable(h, n) /\ n \in Agents(h)
    OBVIOUS
  <2>3. reg[n] = Drained(h.reg[n], Prefix(h.reg[n].context, note(n).id))
    BY <1>6, <1>7
  <2> DEFINE id == note(n).id
  <2>4. id \in Nat /\ h.counter <= id /\ reg[n] = Drained(h.reg[n], Prefix(h.reg[n].context, id))
    BY <2>1, <2>3
  <2> DEFINE p == Drained(h.reg[n], Prefix(h.reg[n].context, id))
  <2> HIDE DEF reg, woken, id
  <2>5. p.queue = h.reg[n].queue /\ p.queue = << >> /\ p.context = << >> /\ Cited(p) = {}
    BY <1>0, <2>2, <2>4, WholeTaken
  <2> HIDE DEF p
  <2>6. reg[n] = p
    BY <2>4 DEF p
  <2>7. QED
    BY <2>5, <2>6
<1>9. \A n \in woken : batch[n] \in SUBSET Msg
  <2> TAKE n \in woken
  <2>1. n \in Name /\ note(n) \in Msg /\ h.reg[n] \in Reg
    BY <1>3, <1>4, <1>6
  <2>2. Omitted(h.reg[n]) \in SUBSET Msg
    BY <2>1, NoticeType
  <2>3. Items(h.reg[n].context, upto(n)) \in SUBSET Msg
    BY <1>4, <1>5, <2>1, ItemsType
  <2>4. QED
    BY <2>1, <2>2, <2>3
<1>10. \A n \in woken : \A m \in batch[n] : m.id <= k /\ (m.private => m.to = n)
  <2> TAKE n \in woken
  <2> TAKE m \in batch[n]
  <2>0. n \in Name
    BY <1>6
  <2>1. CASE m = note(n)
    BY <1>3, <1>6, <2>1
  <2>2. CASE m \in Omitted(h.reg[n]) \cup Items(h.reg[n].context, upto(n))
    <3>1. m.id <= h.counter /\ (m.private => m.to = n)
      BY SMTT(30), <1>0, <2>0, <2>2, TakenOwn
    <3>2. m.id \in Nat
      BY <1>9 DEF Msg
    <3>3. QED
      BY <1>0, <1>2, <3>1, <3>2
  <2>3. QED
    BY <2>1, <2>2
<1> HIDE DEF upto
<1>11. \A n \in Name : Reboxed(h.reg[n], reg[n])
  <2> TAKE n \in Name
  <2>1. CASE n \in woken
    BY <1>4, <1>5, <1>7, <2>1, DrainedType
  <2>2. CASE n \in Agents(h) \ woken
    BY <1>3, <1>4, <1>7, <2>2, EnqueueType
  <2>3. CASE n \notin Agents(h)
    BY <1>4, <1>7, <2>3 DEF Reboxed, SameSeat
  <2>4. QED
    BY <2>1, <2>2, <2>3
<1>12. \A n \in Agents(h) \ woken :
          /\ Sound(reg[n].queue, reg[n].context, k, n)
          /\ \A c \in Cited(reg[n]) : (c \in Cited(h.reg[n])) \/ (h.counter < c.id)
          /\ reg[n].queue # << >>
  <2> TAKE n \in Agents(h) \ woken
  <2>1. /\ n \in Name /\ note(n) \in Msg /\ note(n).id \in Nat /\ h.counter < note(n).id
        /\ note(n).id <= k /\ (note(n).private => note(n).to = n)
    BY <1>3
  <2>2. reg[n] = Enqueue(h.reg[n], note(n))
    BY <1>7, <2>1
  <2> DEFINE p == Enqueue(h.reg[n], note(n))
  <2>3. /\ Sound(p.queue, p.context, note(n).id, n)
        /\ \A c \in Cited(p) : (c \in Cited(h.reg[n])) \/ (c = note(n))
        /\ p.queue # << >>
    <3> DEFINE r == h.reg[n]
               m == note(n)
               l == h.counter
    <3>1. /\ r \in Reg /\ BoundedReg(r) /\ l \in Nat /\ Sound(r.queue, r.context, l, n)
          /\ m \in Msg /\ l < m.id /\ (m.private => m.to = n)
      BY <1>0, <1>4, <2>1
    <3> HIDE DEF r, m, l
    <3>2. /\ Sound(Enqueue(r, m).queue, Enqueue(r, m).context, m.id, n)
          /\ \A c \in Cited(Enqueue(r, m)) : (c \in Cited(r)) \/ (c = m)
          /\ Enqueue(r, m).queue # << >>
      BY <3>1, EnqueueSound
    <3>3. QED
      BY <3>2 DEF r, m, p
  <2>4. reg[n].queue \in Seq(Msg) /\ reg[n].context \in Seq(Msg)
    BY <1>11, <2>1 DEF Reboxed, Reg
  <2> HIDE DEF reg, p
  <2>5. reg[n] = p
    BY <2>2 DEF p
  <2>6. /\ Sound(reg[n].queue, reg[n].context, note(n).id, n) /\ reg[n].queue # << >>
        /\ \A c \in Cited(reg[n]) : (c \in Cited(h.reg[n])) \/ (h.counter < c.id)
    BY <2>1, <2>3, <2>5
  <2>7. Sound(reg[n].queue, reg[n].context, k, n)
    BY <1>2, <2>1, <2>4, <2>6, SoundLater
  <2>8. QED
    BY <2>6, <2>7
<1>13. \A n \in Name : Sound(reg[n].queue, reg[n].context, k, n)
  <2> TAKE n \in Name
  <2>1. CASE n \in woken
    BY <1>8, <2>1, EmptySound
  <2>2. CASE n \in Agents(h) \ woken
    BY <1>12, <2>2
  <2>3. CASE n \notin Agents(h)
    BY <1>0, <1>2, <1>4, <1>7, <2>3, SoundLater
  <2>4. QED
    BY <2>1, <2>2, <2>3
<1>14. \A n \in Agents(h) : \A c \in Cited(reg[n]) :
          (c \in Cited(h.reg[n])) \/ (h.counter < c.id)
  BY <1>8, <1>12
<1>15. \A n \in Agents(h) : reg[n].queue = << >> => h.reg[n].queue = << >>
  BY <1>8, <1>12
<1>16. DOMAIN batch = woken
  OBVIOUS
<1>17. \A n \in woken : n \in Agents(h) /\ h.reg[n].client \in Conn
  BY DEF Reachable
<1>18. reg \in [Name -> Reg] /\ \A n \in Name : BoundedReg(reg[n]) /\ SameSeat(h.reg[n], reg[n])
  BY <1>11 DEF Reboxed
<1> HIDE DEF reg, batch, woken
<1>19. /\ Typed(w) /\ Stable(h, w) /\ w.reg = reg /\ w.sent = h.sent
       /\ w.counter = h.counter /\ w.recent = h.recent
  BY <1>0, <1>18, WithRegType, WithRegStable, KeptFields
<1> HIDE DEF w
<1>20. /\ Typed(noted) /\ noted.reg = reg /\ Stable(w, noted) /\ noted.sent = h.sent
       /\ noted.counter = k /\ noted.recent = h.recent
  BY <1>2, <1>19, WithCounterKeeps, KeptFields DEF Keeps, Follows
<1> HIDE DEF noted
<1>21. Stable(h, noted) /\ Agents(noted) = Agents(h) /\ Live(noted) = Live(h)
  BY <1>19, <1>20, StableTransitive, StableAlike
<1>22. Mail(noted)
  <2>1. h.counter <= noted.counter /\ Chronicled(noted)
    BY <1>0, <1>2, <1>20, SameChronicle DEF Mail
  <2>2. \A n \in Name : Sound(noted.reg[n].queue, noted.reg[n].context, noted.counter, n)
    BY <1>13, <1>20
  <2>3. \A f \in Given(noted) : f \in Given(h)
    BY <1>20 DEF Given
  <2>4. \A f \in Given(h) : f.name \in Agents(noted) =>
          /\ f.name \in Agents(h)
          /\ \A c \in Cited(noted.reg[f.name]) :
               (c \in Cited(h.reg[f.name])) \/ (h.counter < c.id)
    BY <1>14, <1>20, <1>21
  <2>5. QED
    BY <1>0, <1>20, <2>1, <2>2, <2>3, <2>4, MailStep
<1>23. ~SessionOver(noted)
  <2>1. \A n \in Agents(h) : reg[n].finished = h.reg[n].finished
    BY <1>6, <1>11 DEF Reboxed
  <2>2. QED
    BY <1>15, <1>20, <1>21, <2>1 DEF SessionOver, Upheld
<1>24. /\ DOMAIN batch \subseteq Live(noted)
       /\ \A n \in DOMAIN batch : noted.reg[n].client \in Conn /\ batch[n] \in SUBSET Msg
       /\ \A n \in DOMAIN batch : \A m \in batch[n] : m.id <= noted.counter
  <2>1. DOMAIN batch \subseteq Live(noted)
    BY <1>6, <1>16, <1>21 DEF Agents
  <2>2. \A n \in DOMAIN batch : noted.reg[n].client \in Conn /\ batch[n] \in SUBSET Msg
    BY <1>6, <1>9, <1>16, <1>17, <1>21 DEF Stable
  <2>3. QED
    BY <1>10, <1>16, <1>20, <2>1, <2>2
<1>25. \A n \in DOMAIN batch : n \in Agents(noted) => Apt(batch[n], noted.reg[n], n)
  BY <1>8, <1>10, <1>16, <1>20 DEF Apt
<1>26. Mail(Deliver(noted, batch)) /\ (SessionOver(Deliver(noted, batch)) => SessionOver(noted))
  BY <1>20, <1>22, <1>24, <1>25, DeliverMail
<1>27. QED
  BY <1>1, <1>23, <1>26 DEF Upheld

\* The window of the transcript once an accepted say is in it.
LEMMA RecordChronicled ==
  ASSUME NEW s \in Seq(Record), NEW k \in Nat, Ascending(s),
         \A i \in DOMAIN s : s[i].id <= k, NEW r \in Record, k < r.id, NEW l \in Nat
  PROVE  LET t == LastOf(Append(s, r), l)
         IN  Ascending(t) /\ \A i \in DOMAIN t : t[i].id <= r.id
<1> DEFINE u == Append(s, r)
           t == LastOf(u, l)
           a == IF Len(u) <= l THEN 0 ELSE Len(u) - l
<1>1. /\ u \in Seq(Record) /\ Len(u) = Len(s) + 1 /\ DOMAIN u = 1 .. Len(s) + 1
      /\ \A i \in 1 .. Len(s) : u[i] = s[i]
      /\ u[Len(s) + 1] = r
      /\ DOMAIN s = 1 .. Len(s) /\ Len(s) \in Nat
  BY AppendElements
<1>2. \A i \in DOMAIN s : s[i].id \in Nat
  <2>1. \A i \in DOMAIN s : s[i] \in Record
    BY <1>1, ElementOfSeq
  <2>2. QED
    BY <2>1 DEF Record
<1>3. r.id \in Nat
  BY DEF Record
<1> HIDE DEF u
<1>4. \A i \in DOMAIN u : (i \in DOMAIN s /\ u[i] = s[i]) \/ (i = Len(s) + 1 /\ u[i] = r)
  BY <1>1
<1>5. \A i \in DOMAIN u : u[i].id <= r.id
  BY <1>2, <1>3, <1>4
<1>6. \A i, j \in DOMAIN u : i < j => u[i].id < u[j].id
  <2> TAKE i, j \in DOMAIN u
  <2> HAVE i < j
  <2>1. i \in DOMAIN s /\ u[i] = s[i]
    BY <1>1, <1>4
  <2>2. QED
    BY <1>2, <1>3, <1>4, <2>1 DEF Ascending
<1>7. a \in 0 .. Len(u)
  BY <1>1
<1>8. /\ t \in Seq(Record) /\ Len(t) = Len(u) - a
      /\ \A i \in 1 .. Len(u) - a : t[i] = u[i + a]
  <2>1. CASE Len(u) <= l
    BY <1>1, <2>1 DEF LastOf
  <2>2. CASE ~(Len(u) <= l)
    <3>1. t = SubSeq(u, a + 1, Len(u))
      BY <2>2 DEF LastOf
    <3> HIDE DEF a, t
    <3>2. QED
      BY <1>1, <1>7, <3>1, RestSuffix
  <2>3. QED
    BY <2>1, <2>2
<1> HIDE DEF a, t
<1>9. DOMAIN t = 1 .. Len(u) - a
  BY <1>8, LenProperties
<1>10. \A i \in DOMAIN t : i \in Nat /\ a \in Nat /\ i + a \in DOMAIN u /\ t[i] = u[i + a]
  BY <1>1, <1>7, <1>8, <1>9
<1>11. \A i, j \in DOMAIN t : i < j => i + a < j + a
  BY <1>10
<1>12. Ascending(t)
  BY <1>6, <1>10, <1>11 DEF Ascending
<1>13. \A i \in DOMAIN t : t[i].id <= r.id
  BY <1>5, <1>10
<1>14. QED
  BY <1>12, <1>13 DEF t, u

LEMMA AcceptUpheld ==
  ASSUME NEW h, Inv(h), Upheld(h), NEW c \in Conn, NEW n \in Live(h),
         NEW s \in SayFrame, s.private => s.to \in Name
  PROVE  Upheld(Accept(h, c, n, s))
<1> DEFINE rec     == [id |-> h.counter + 1, from |-> n, to |-> s.to, private |-> s.private]
           copy(q) == Tag(rec, Addressing(q, s.to))
           woken   == Woken(h, n, s)
           upto(q) == Prefix(h.reg[q].context, rec.id)
           seats   == Seats(h, n, s)
           reg     == [q \in Name |->
              IF q \in woken THEN Drained(h.reg[q], upto(q))
              ELSE IF q \in Addressed(h, n, s) THEN Enqueue(h.reg[q], copy(q))
              ELSE IF q \in Aside(h, n, s) THEN Overhear(h.reg[q], copy(q))
              ELSE h.reg[q]]
           k       == h.round + RoundsFor(woken)
           recent  == LastOf(Append(h.recent, rec), RecentWindow)
           sent    == h.sent \cup {[sink |-> Transcript, t |-> "msg", id |-> rec.id,
                                     from |-> n, done |-> s.done]}
           toSeats == [q \in seats |-> {copy(q)}]
           toWoken == [q \in woken |->
              Omitted(h.reg[q]) \cup Items(h.reg[q].context, upto(q)) \cup {copy(q)}]
           w       == WithReg(h, reg)
           v       == WithRound(w, k)
           routed  == WithRecord(v, rec.id, recent, sent)
           shown   == Deliver(routed, toSeats)
           given   == Deliver(shown, toWoken)
           limited == IF woken = {} THEN shown ELSE CheckRoundLimit(given)
<1>0. Typed(h) /\ Linked(h) /\ Mail(h) /\ h.counter \in Nat
  BY DEF Inv, Upheld, Typed, HubState
<1>1. Accept(h, c, n, s) = Reply(limited, h.reg[n].client, c, "ok")
  BY <1>0 DEF Accept, WithReg, WithRound, WithRecord, Typed, HubState
<1>2. /\ rec \in Record /\ rec.id \in Nat /\ h.counter < rec.id
      /\ n \in Name /\ h.reg[n].client \in Conn
  BY <1>0 DEF Record, SayFrame, Live, Typed, HubState, Linked, Owned
<1>3. \A q : /\ copy(q) \in Msg /\ copy(q).id = rec.id
             /\ copy(q).private = s.private /\ copy(q).to = s.to
  <2>1. \A q : copy(q) \in Msg
    BY <1>2, AddressingType, TagType
  <2>2. QED
    BY <2>1 DEF Tag
<1>4. \A q \in Name : /\ h.reg[q] \in Reg /\ BoundedReg(h.reg[q])
                      /\ Sound(h.reg[q].queue, h.reg[q].context, h.counter, q)
                      /\ h.reg[q].queue \in Seq(Msg) /\ h.reg[q].context \in Seq(Msg)
  BY <1>0 DEF Typed, HubState, Mail, Reg
<1>5. recent \in Seq(Record) /\ Len(recent) <= RecentWindow
  <2>1. Append(h.recent, rec) \in Seq(Record)
    BY <1>0, <1>2, AppendProperties DEF Typed, HubState
  <2>2. QED
    BY <2>1, LastOfType, ConfigAssumption
<1>6. Ascending(recent) /\ \A i \in DOMAIN recent : recent[i].id <= rec.id
  <2>1. /\ h.recent \in Seq(Record) /\ Ascending(h.recent) /\ RecentWindow \in Nat
        /\ \A i \in DOMAIN h.recent : h.recent[i].id <= h.counter
    BY <1>0, ConfigAssumption DEF Typed, HubState, Mail, Chronicled
  <2> HIDE DEF rec
  <2>2. QED
    BY <1>0, <1>2, <2>1, RecordChronicled
<1>7. sent \in SUBSET Frame /\ \A f \in sent : f.t = "deliver" => f \in h.sent
  BY <1>0, <1>2 DEF Frame, Routed, SayFrame, Typed, HubState
<1>8. k \in Nat
  BY <1>0 DEF RoundsFor, Typed, HubState
<1> DEFINE id == rec.id
<1>9. id \in Nat /\ routed = WithRecord(v, id, recent, sent) /\ h.counter < id
      /\ \A q : copy(q).id = id
  BY <1>2, <1>3
<1>10. \A i \in DOMAIN recent : recent[i].id <= id
  BY <1>6
<1>11. \A q : upto(q) = Prefix(h.reg[q].context, id)
  OBVIOUS
<1> HIDE DEF rec, id
<1>12. /\ woken \subseteq Addressed(h, n, s) /\ Addressed(h, n, s) \subseteq Agents(h)
       /\ Aside(h, n, s) \subseteq Agents(h) /\ Aside(h, n, s) \cap Addressed(h, n, s) = {}
       /\ seats \subseteq Live(h) /\ seats \cap Agents(h) = {}
       /\ Agents(h) \subseteq Live(h) /\ Live(h) \subseteq Name
  BY DEF Woken, Addressed, Aside, Seats, Observers, Agents, Live
<1>13. /\ \A q \in woken : h.reg[q].state = "idle" /\ Reachable(h, q)
       /\ \A q \in woken \cup seats : h.reg[q].client \in Conn
  BY DEF Woken, Seats, Reachable
<1>14. /\ \A q \in Addressed(h, n, s) : s.private => s.to = q
       /\ \A q \in Aside(h, n, s) : ~s.private
  BY IdentityAssumption DEF Addressed, Addressing, Aside
<1>15. \A q \in Name :
         /\ q \in woken => reg[q] = Drained(h.reg[q], upto(q))
         /\ q \in Addressed(h, n, s) \ woken => reg[q] = Enqueue(h.reg[q], copy(q))
         /\ q \in Aside(h, n, s) => reg[q] = Overhear(h.reg[q], copy(q))
         /\ q \notin Addressed(h, n, s) \cup Aside(h, n, s) => reg[q] = h.reg[q]
  BY <1>12
<1>16. \A q \in Name : upto(q) \in 0 .. Len(h.reg[q].context)
  BY <1>4, PrefixBounded
<1> HIDE DEF copy, woken, seats
<1>17. \A q \in woken : /\ reg[q].queue = h.reg[q].queue /\ reg[q].queue = << >>
                        /\ reg[q].context = << >> /\ Cited(reg[q]) = {}
  <2> TAKE q \in woken
  <2> DEFINE p == Drained(h.reg[q], Prefix(h.reg[q].context, id))
  <2>1. q \in Agents(h) /\ h.reg[q].state = "idle" /\ Reachable(h, q) /\ h.counter <= id
    BY <1>0, <1>9, <1>12, <1>13
  <2>2. reg[q] = p
    BY <1>11, <1>12, <1>15
  <2> HIDE DEF reg
  <2>3. p.queue = h.reg[q].queue /\ p.queue = << >> /\ p.context = << >> /\ Cited(p) = {}
    BY <1>0, <1>9, <2>1, WholeTaken
  <2> HIDE DEF p
  <2>4. QED
    BY <2>2, <2>3
<1>18. \A q \in seats : toSeats[q] \in SUBSET Msg
  BY <1>3
<1>19. \A q \in woken : toWoken[q] \in SUBSET Msg
  <2> TAKE q \in woken
  <2>1. q \in Name /\ h.reg[q] \in Reg
    BY <1>4, <1>12
  <2>2. Omitted(h.reg[q]) \in SUBSET Msg
    BY <2>1, NoticeType
  <2>3. Items(h.reg[q].context, upto(q)) \in SUBSET Msg
    BY <1>4, <1>16, <2>1, ItemsType
  <2>4. QED
    BY <1>3, <2>1, <2>2, <2>3
<1>20. \A q \in woken : \A m \in toWoken[q] : m.id <= id /\ (m.private => m.to = q)
  <2> TAKE q \in woken
  <2> TAKE m \in toWoken[q]
  <2>0. q \in Name /\ q \in Addressed(h, n, s)
    BY <1>12
  <2>1. CASE m = copy(q)
    BY <1>3, <1>9, <1>14, <2>0, <2>1
  <2>2. CASE m \in Omitted(h.reg[q]) \cup Items(h.reg[q].context, upto(q))
    <3>1. m.id <= h.counter /\ (m.private => m.to = q)
      BY <1>0, <1>11, <2>0, <2>2, TakenOwn
    <3>2. m.id \in Nat
      BY <1>19 DEF Msg
    <3>3. QED
      BY <1>0, <1>9, <3>1, <3>2
  <2>3. QED
    BY <2>1, <2>2
<1> HIDE DEF upto
<1>21. \A q \in Name : Reboxed(h.reg[q], reg[q])
  <2> TAKE q \in Name
  <2>1. CASE q \in woken
    BY <1>4, <1>15, <1>16, <2>1, DrainedType
  <2>2. CASE q \in Addressed(h, n, s) \ woken
    BY <1>3, <1>4, <1>15, <2>2, EnqueueType
  <2>3. CASE q \in Aside(h, n, s)
    BY <1>3, <1>4, <1>15, <2>3, OverhearType
  <2>4. CASE q \notin Addressed(h, n, s) \cup Aside(h, n, s)
    BY <1>4, <1>15, <2>4 DEF Reboxed, SameSeat
  <2>5. QED
    BY <2>1, <2>2, <2>3, <2>4
<1>22. \A q \in Addressed(h, n, s) \ woken :
          /\ Sound(reg[q].queue, reg[q].context, id, q)
          /\ \A d \in Cited(reg[q]) : (d \in Cited(h.reg[q])) \/ (h.counter < d.id)
          /\ reg[q].queue # << >>
  <2> TAKE q \in Addressed(h, n, s) \ woken
  <2> DEFINE r == h.reg[q]
             m == copy(q)
             l == h.counter
  <2>1. /\ r \in Reg /\ BoundedReg(r) /\ l \in Nat /\ Sound(r.queue, r.context, l, q)
        /\ m \in Msg /\ l < m.id /\ (m.private => m.to = q) /\ m.id = id
    BY <1>0, <1>3, <1>4, <1>9, <1>12, <1>14
  <2>2. reg[q] = Enqueue(r, m)
    BY <1>12, <1>15
  <2> HIDE DEF r, m, l, reg
  <2>3. /\ Sound(Enqueue(r, m).queue, Enqueue(r, m).context, m.id, q)
        /\ \A d \in Cited(Enqueue(r, m)) : (d \in Cited(r)) \/ (d = m)
        /\ Enqueue(r, m).queue # << >>
    BY <2>1, EnqueueSound
  <2>4. QED
    BY <2>1, <2>2, <2>3 DEF r, l
<1>23. \A q \in Aside(h, n, s) :
          /\ Sound(reg[q].queue, reg[q].context, id, q)
          /\ \A d \in Cited(reg[q]) : (d \in Cited(h.reg[q])) \/ (h.counter < d.id)
          /\ reg[q].queue = h.reg[q].queue
  <2> TAKE q \in Aside(h, n, s)
  <2> DEFINE r == h.reg[q]
             m == copy(q)
             l == h.counter
  <2>1. /\ r \in Reg /\ BoundedReg(r) /\ l \in Nat /\ Sound(r.queue, r.context, l, q)
        /\ m \in Msg /\ l < m.id /\ (m.private => m.to = q) /\ m.id = id
        /\ l <= id /\ m.id <= id
    BY <1>0, <1>3, <1>4, <1>9, <1>12, <1>14
  <2>2. reg[q] = Overhear(r, m)
    BY <1>12, <1>15
  <2> HIDE DEF r, m, l, reg
  <2>3. /\ Sound(Overhear(r, m).queue, Overhear(r, m).context, id, q)
        /\ \A d \in Cited(Overhear(r, m)) : (d \in Cited(r)) \/ (d = m /\ l < d.id)
        /\ Overhear(r, m).queue = r.queue
    BY SMTT(30), <1>9, <2>1, OverhearSound
  <2>4. QED
    BY <2>2, <2>3 DEF r, l
<1>24. \A q \in Name : Sound(reg[q].queue, reg[q].context, id, q)
  <2> TAKE q \in Name
  <2>1. CASE q \in woken
    BY <1>17, <2>1, EmptySound
  <2>2. CASE q \in Addressed(h, n, s) \ woken
    BY <1>22, <2>2
  <2>3. CASE q \in Aside(h, n, s)
    BY <1>23, <2>3
  <2>4. CASE q \notin Addressed(h, n, s) \cup Aside(h, n, s)
    <3>1. reg[q] = h.reg[q] /\ h.counter <= id
      BY <1>0, <1>9, <1>15, <2>4
    <3> HIDE DEF reg
    <3>2. QED
      BY <1>0, <1>4, <1>9, <3>1, SoundLater
  <2>5. QED
    BY <2>1, <2>2, <2>3, <2>4
<1>25. \A q \in Agents(h) :
          /\ \A d \in Cited(reg[q]) : (d \in Cited(h.reg[q])) \/ (h.counter < d.id)
          /\ reg[q].queue = << >> => h.reg[q].queue = << >>
  <2> TAKE q \in Agents(h)
  <2>1. CASE q \in woken
    BY <1>17, <2>1
  <2>2. CASE q \in Addressed(h, n, s) \ woken
    BY <1>22, <2>2
  <2>3. CASE q \in Aside(h, n, s)
    BY <1>23, <2>3
  <2>4. CASE q \notin Addressed(h, n, s) \cup Aside(h, n, s)
    BY <1>12, <1>15, <2>4
  <2>5. QED
    BY <2>1, <2>2, <2>3, <2>4
<1>26. reg \in [Name -> Reg] /\ \A q \in Name : BoundedReg(reg[q]) /\ SameSeat(h.reg[q], reg[q])
                                              /\ reg[q].finished = h.reg[q].finished
  BY <1>21 DEF Reboxed
<1>27. /\ DOMAIN toSeats = seats /\ DOMAIN toWoken = woken
       /\ \A q \in seats : \A m \in toSeats[q] : m.id = id
  BY <1>9
<1> HIDE DEF reg, k, recent, sent, toSeats, toWoken
<1>28. /\ Typed(w) /\ Stable(h, w) /\ w.reg = reg
  BY <1>0, <1>26, WithRegType, WithRegStable
<1> HIDE DEF w
<1>29. Typed(v) /\ v.reg = reg /\ Stable(w, v)
  BY <1>8, <1>28, WithRoundType
<1> HIDE DEF v
<1>30. /\ Typed(routed) /\ routed.reg = reg /\ Stable(v, routed)
       /\ routed.counter = id /\ routed.recent = recent /\ routed.sent = sent
  BY <1>5, <1>7, <1>9, <1>29, WithRecordKeeps, KeptFields DEF Keeps
<1> HIDE DEF routed
<1>31. Stable(h, routed) /\ Agents(routed) = Agents(h) /\ Live(routed) = Live(h)
  BY <1>28, <1>29, <1>30, StableTransitive, StableAlike
<1>32. Mail(routed)
  <2>1. h.counter <= routed.counter /\ Chronicled(routed)
    BY <1>0, <1>6, <1>9, <1>10, <1>30 DEF Chronicled
  <2>2. \A q \in Name : Sound(routed.reg[q].queue, routed.reg[q].context, routed.counter, q)
    BY <1>24, <1>30
  <2>3. \A f \in Given(routed) : f \in Given(h)
    BY <1>7, <1>30 DEF Given
  <2>4. \A f \in Given(h) : f.name \in Agents(routed) =>
          /\ f.name \in Agents(h)
          /\ \A d \in Cited(routed.reg[f.name]) :
               (d \in Cited(h.reg[f.name])) \/ (h.counter < d.id)
    BY <1>25, <1>30, <1>31
  <2>5. QED
    BY <1>0, <1>30, <2>1, <2>2, <2>3, <2>4, MailStep
<1>33. ~SessionOver(routed)
  <2>1. \A q \in Agents(h) : reg[q].finished = h.reg[q].finished
    BY <1>12, <1>26
  <2>2. QED
    BY <1>25, <1>30, <1>31, <2>1 DEF SessionOver, Upheld
<1>34. /\ DOMAIN toSeats \subseteq Live(routed)
       /\ \A q \in DOMAIN toSeats : routed.reg[q].client \in Conn /\ toSeats[q] \in SUBSET Msg
  BY <1>12, <1>13, <1>18, <1>27, <1>31 DEF Stable
<1>35. /\ \A q \in DOMAIN toSeats : \A m \in toSeats[q] : m.id <= routed.counter
       /\ \A q \in DOMAIN toSeats : q \in Agents(routed) => Apt(toSeats[q], routed.reg[q], q)
  BY <1>9, <1>12, <1>27, <1>30, <1>31
<1>36. Mail(shown) /\ (SessionOver(shown) => SessionOver(routed))
  BY <1>30, <1>32, <1>34, <1>35, DeliverMail
<1>37. /\ Typed(shown) /\ Stable(routed, shown) /\ SameFloor(routed, shown)
       /\ \A q \in Name : shown.reg[q] = Busied(routed, DOMAIN toSeats, q)
  BY <1>30, <1>34, DeliverType
<1> HIDE DEF shown
<1>38. \A q \in Name : shown.reg[q].queue = reg[q].queue /\ shown.reg[q].context = reg[q].context
  BY <1>30, <1>37, BusiedType
<1>39. Stable(h, shown) /\ Agents(shown) = Agents(h) /\ Live(shown) = Live(h)
  BY <1>31, <1>37, StableTransitive, StableAlike
<1>40. /\ DOMAIN toWoken \subseteq Live(shown)
       /\ \A q \in DOMAIN toWoken : shown.reg[q].client \in Conn /\ toWoken[q] \in SUBSET Msg
  BY <1>12, <1>13, <1>19, <1>27, <1>39 DEF Stable
<1>41. /\ \A q \in DOMAIN toWoken : \A m \in toWoken[q] : m.id <= shown.counter
       /\ \A q \in DOMAIN toWoken : q \in Agents(shown) => Apt(toWoken[q], shown.reg[q], q)
  <2>1. shown.counter = id
    BY <1>30, <1>37 DEF SameFloor
  <2>2. \A q \in woken : Cited(shown.reg[q]) = {}
    BY <1>12, <1>17, <1>38, EmptySound
  <2>3. QED
    BY <1>20, <1>27, <2>1, <2>2 DEF Apt
<1>42. Mail(given) /\ (SessionOver(given) => SessionOver(shown)) /\ Typed(given)
       /\ Stable(shown, given)
  BY <1>36, <1>37, <1>40, <1>41, DeliverMail, DeliverType
<1> HIDE DEF given
<1>43. Upheld(shown) /\ Upheld(given)
  BY <1>33, <1>36, <1>42 DEF Upheld
<1>44. Upheld(CheckRoundLimit(given)) /\ Typed(CheckRoundLimit(given))
  BY <1>42, <1>43, CheckRoundLimitQuiet, CheckRoundLimitType, QuietUpheld
<1>45. Typed(limited) /\ Upheld(limited)
  BY <1>37, <1>43, <1>44
<1> HIDE DEF limited
<1>46. QED
  BY <1>1, <1>2, <1>45, ReplyQuiet, QuietUpheld

-----------------------------------------------------------------------------
(* Commands.                                                               *)

\* Nothing is handed over, nothing new and citable comes to wait.
LEMMA ReboxMail ==
  ASSUME NEW h, Typed(h), Mail(h), NEW g, Typed(g), Given(g) \subseteq Given(h),
         g.counter = h.counter, g.recent = h.recent, Agents(g) \subseteq Agents(h),
         \A n \in Name : Sound(g.reg[n].queue, g.reg[n].context, h.counter, n),
         \A n \in Agents(g) : Cited(g.reg[n]) \subseteq Cited(h.reg[n])
  PROVE  Mail(g)
<1>1. h.counter \in Nat /\ h.counter <= g.counter
  BY DEF Typed, HubState
<1>2. Chronicled(g)
  BY <1>1, SameChronicle DEF Mail
<1>3. \A n \in Name : Sound(g.reg[n].queue, g.reg[n].context, g.counter, n)
  OBVIOUS
<1>4. \A f \in Given(h) : f.name \in Agents(g) =>
         /\ f.name \in Agents(h)
         /\ \A w \in Cited(g.reg[f.name]) :
              (w \in Cited(h.reg[f.name])) \/ (h.counter < w.id)
  OBVIOUS
<1>5. \A f \in Given(g) : f \in Given(h)
  OBVIOUS
<1>6. QED
  BY <1>1, <1>2, <1>3, <1>4, <1>5, MailStep

LEMMA BufferGoalUpheld ==
  ASSUME NEW h, Typed(h), Upheld(h)
  PROVE  Upheld(BufferGoal(h))
<1> DEFINE m   == Line("overheard", 0)
           reg == [n \in Name |-> IF n \in Agents(h) THEN Overhear(h.reg[n], m)
                                  ELSE h.reg[n]]
           g   == WithReg(h, reg)
           k   == h.counter
<1>0. Mail(h) /\ k \in Nat
  BY DEF Upheld, Typed, HubState
<1>1. BufferGoal(h) = g
  BY DEF BufferGoal, WithReg
<1>2. m \in Msg /\ m.id = 0 /\ m.private = FALSE
  BY LineType DEF Line
<1> HIDE DEF m
<1>3. \A n \in Name : /\ h.reg[n] \in Reg /\ BoundedReg(h.reg[n])
                      /\ Sound(h.reg[n].queue, h.reg[n].context, k, n)
  BY <1>0 DEF Typed, HubState, Mail
<1>4. \A n \in Name : /\ (n \in Agents(h) => reg[n] = Overhear(h.reg[n], m))
                      /\ (n \notin Agents(h) => reg[n] = h.reg[n])
  OBVIOUS
<1> HIDE DEF reg, k
<1>5. \A n \in Agents(h) : /\ Sound(reg[n].queue, reg[n].context, k, n)
                           /\ Cited(reg[n]) \subseteq Cited(h.reg[n])
                           /\ reg[n].queue = h.reg[n].queue
                           /\ Reboxed(h.reg[n], reg[n])
  <2> TAKE n \in Agents(h)
  <2> DEFINE r == h.reg[n]
             p == Overhear(r, m)
  <2>0. n \in Name /\ reg[n] = p
    BY <1>4 DEF Agents, Live
  <2>1. r \in Reg /\ BoundedReg(r) /\ Sound(r.queue, r.context, k, n)
    BY <1>3, <2>0
  <2> HIDE DEF r
  <2>2. k <= k /\ m.id <= k /\ (m.private => m.to = n)
    BY <1>0, <1>2
  <2>3. /\ Sound(p.queue, p.context, k, n)
        /\ \A w \in Cited(p) : (w \in Cited(r)) \/ (w = m /\ k < w.id)
        /\ p.queue = r.queue
    BY <1>0, <1>2, <2>1, <2>2, OverhearSound
  <2>4. Reboxed(r, p)
    BY <1>2, <2>1, OverhearType
  <2> HIDE DEF p
  <2>5. \A w \in Cited(p) : w \in Cited(r)
    BY <1>0, <1>2, <2>3
  <2>6. QED
    BY <2>0, <2>3, <2>4, <2>5 DEF r
<1>6. \A n \in Name : Reboxed(h.reg[n], reg[n]) /\ reg[n].queue = h.reg[n].queue
  BY <1>3, <1>4, <1>5 DEF Reboxed, SameSeat
<1>7. reg \in [Name -> Reg] /\ \A n \in Name : BoundedReg(reg[n]) /\ SameSeat(h.reg[n], reg[n])
                                              /\ reg[n].finished = h.reg[n].finished
  BY <1>4, <1>6 DEF Reboxed, reg
<1>8. /\ Typed(g) /\ Stable(h, g) /\ g.reg = reg /\ g.sent = h.sent
      /\ g.counter = k /\ g.recent = h.recent
  BY <1>7, WithRegType, WithRegStable, KeptFields DEF k
<1> HIDE DEF g
<1>9. Agents(g) = Agents(h) /\ Agents(h) \subseteq Name
  BY <1>8, StableAlike DEF Agents, Live
<1>10. \A n \in Name : Sound(reg[n].queue, reg[n].context, k, n)
  BY <1>3, <1>4, <1>5
<1>11. \A n \in Agents(g) : Cited(reg[n]) \subseteq Cited(h.reg[n])
  BY <1>5, <1>9
<1>12. Given(g) \subseteq Given(h)
  BY <1>8 DEF Given
<1>13. Mail(g)
  BY <1>0, <1>8, <1>9, <1>10, <1>11, <1>12, ReboxMail DEF k
<1>14. ~SessionOver(g)
  BY <1>6, <1>7, <1>8, <1>9 DEF SessionOver, Upheld
<1>15. QED
  BY <1>1, <1>13, <1>14 DEF Upheld

LEMMA RunCmdUpheld ==
  ASSUME NEW h, Inv(h), Upheld(h), NEW x \in [cmd : CmdNames, n : Nat],
         NEW rank \in Ranks(Agents(h))
  PROVE  Upheld(RunCmd(h, x, rank))
<1>0. /\ Typed(h) /\ Linked(h) /\ NoName \in Name \cup {NoName}
      /\ h.round \in Nat /\ h.limit \in Nat \ {0}
      /\ h.frozen \in BOOLEAN /\ h.muted \in BOOLEAN
  BY DEF Inv, Typed, HubState
\* The floor is set to something, and the observers hear of it.
<1>1. ASSUME NEW round \in Nat, NEW frozen \in BOOLEAN, NEW muted \in BOOLEAN,
             NEW limit \in Nat \ {0}, LimitFrozen(h) /\ round >= limit => frozen,
             NEW event \in Events
      PROVE  LET e == Emit(WithFloor(h, round, frozen, muted, limit), event, NoName)
             IN  Upheld(e) /\ Inv(e) /\ Agents(e) = Agents(h)
  <2> DEFINE g == WithFloor(h, round, frozen, muted, limit)
             e == Emit(g, event, NoName)
  <2>1. Keeps(h, g) /\ Quiet(h, g)
    BY <1>0, <1>1, WithFloorKeeps, WithFloorQuiet
  <2> HIDE DEF g
  <2>2. Keeps(g, e) /\ Quiet(g, e)
    BY <1>0, <2>1, EmitKeeps, EmitQuiet DEF Keeps
  <2> HIDE DEF e
  <2>3. Upheld(e)
    BY <2>1, <2>2, QuietUpheld
  <2>4. Inv(g) /\ Agents(g) = Agents(h)
    BY <2>1, KeepsInv
  <2>5. Inv(e) /\ Agents(e) = Agents(g)
    BY <2>2, <2>4, KeepsInv
  <2>6. QED
    BY <2>3, <2>4, <2>5 DEF e, g
<1>2. CASE x.cmd = "freeze"
  <2>1. RunCmd(h, x, rank) = Emit(WithFloor(h, h.round, TRUE, h.muted, h.limit), "frozen", NoName)
    BY <1>0, <1>2 DEF RunCmd, WithFloor, Typed, HubState
  <2>2. "frozen" \in Events
    BY DEF Events
  <2>3. QED
    BY <1>0, <1>1, <2>1, <2>2
<1>3. CASE x.cmd = "resume"
  <2> DEFINE limit == ResumedLimit(h, x.n)
  <2>1. RunCmd(h, x, rank) = Emit(WithFloor(h, h.round, FALSE, h.muted, limit), "resumed", NoName)
    BY <1>0, <1>3 DEF RunCmd, WithFloor, Typed, HubState
  <2>2. limit \in Nat \ {0} /\ h.round < limit
    BY <1>0, ResumedAbove
  <2> HIDE DEF limit
  <2>3. ~(h.round >= limit)
    BY <1>0, <2>2
  <2>4. "resumed" \in Events
    BY DEF Events
  <2>5. QED
    BY <1>0, <1>1, <2>1, <2>2, <2>3, <2>4
<1>4. CASE x.cmd = "reset"
  <2> DEFINE round == 0
             limit == h.limit
             muted == h.muted
  <2>1. RunCmd(h, x, rank) = Emit(WithFloor(h, round, FALSE, muted, limit), "reset", NoName)
    BY <1>0, <1>4 DEF RunCmd, WithFloor, Typed, HubState
  <2>2. round \in Nat /\ limit \in Nat \ {0} /\ muted \in BOOLEAN /\ ~(round >= limit)
    BY <1>0
  <2>3. "reset" \in Events
    BY DEF Events
  <2> HIDE DEF round, limit, muted
  <2>4. Upheld(Emit(WithFloor(h, round, FALSE, muted, limit), "reset", NoName))
    BY <1>1, <2>2, <2>3
  <2>5. QED
    BY <2>1, <2>4
<1>5. ASSUME NEW b \in BOOLEAN, NEW event \in Events
      PROVE  Upheld(SystemMessage(Emit(WithFloor(h, h.round, h.frozen, b, h.limit),
                                       event, NoName), rank))
  <2> DEFINE e == Emit(WithFloor(h, h.round, h.frozen, b, h.limit), event, NoName)
  <2>1. LimitFrozen(h) /\ h.round >= h.limit => h.frozen
    BY DEF LimitFrozen
  <2>2. Upheld(e) /\ Inv(e) /\ Agents(e) = Agents(h)
    BY <1>0, <1>1, <2>1
  <2> HIDE DEF e
  <2>3. Upheld(SystemMessage(e, rank))
    BY <2>2, SystemMessageUpheld
  <2>4. QED
    BY <2>3 DEF e
<1>6. "muted" \in Events /\ "unmuted" \in Events /\ "goal_set" \in Events
  BY DEF Events
<1>7. CASE x.cmd = "mute"
  <2>1. RunCmd(h, x, rank) =
          SystemMessage(Emit(WithFloor(h, h.round, h.frozen, TRUE, h.limit),
                             "muted", NoName), rank)
    BY <1>0, <1>7 DEF RunCmd, WithFloor, Typed, HubState
  <2>2. QED
    BY <1>5, <1>6, <2>1
<1>8. CASE x.cmd = "unmute"
  <2>1. RunCmd(h, x, rank) =
          SystemMessage(Emit(WithFloor(h, h.round, h.frozen, FALSE, h.limit),
                             "unmuted", NoName), rank)
    BY <1>0, <1>8 DEF RunCmd, WithFloor, Typed, HubState
  <2>2. QED
    BY <1>5, <1>6, <2>1
<1>9. CASE x.cmd = "goal"
  <2> DEFINE e == Emit(h, "goal_set", NoName)
  <2>1. RunCmd(h, x, rank) = BufferGoal(e)
    BY <1>9 DEF RunCmd
  <2>2. Keeps(h, e) /\ Quiet(h, e)
    BY <1>0, <1>6, EmitKeeps, EmitQuiet
  <2> HIDE DEF e
  <2>3. QED
    BY <2>1, <2>2, QuietUpheld, BufferGoalUpheld DEF Keeps
<1>10. QED
  BY <1>2, <1>3, <1>4, <1>7, <1>8, <1>9 DEF CmdNames

LEMMA HandleCmdUpheld ==
  ASSUME NEW h, Inv(h), Upheld(h), NEW c \in Conn, NEW n \in Live(h),
         NEW x \in [cmd : CmdNames, n : Nat], NEW rank \in Ranks(Agents(h))
  PROVE  Upheld(HandleCmd(h, c, n, x, rank))
<1> DEFINE r == RunCmd(h, x, rank)
           k == h.reg[n].client
<1>1. k \in Conn /\ Typed(h)
  BY DEF Inv, Linked, Owned
<1>2. HandleCmd(h, c, n, x, rank) =
        IF IsObserver(h, n) THEN Reply(r, k, c, "ok") ELSE Reply(h, k, c, "err")
  BY DEF HandleCmd
<1>3. Upheld(r) /\ Typed(r)
  BY RunCmdUpheld, RunCmdKeeps DEF Keeps
<1> HIDE DEF r, k
<1>4. Quiet(r, Reply(r, k, c, "ok")) /\ Quiet(h, Reply(h, k, c, "err"))
  BY <1>1, <1>3, ReplyQuiet
<1>5. QED
  BY <1>2, <1>3, <1>4, QuietUpheld

-----------------------------------------------------------------------------
(* Says and state reports.                                                 *)

LEMMA RefuseQuiet ==
  ASSUME NEW h, Inv(h), NEW c \in Conn, NEW n \in Live(h)
  PROVE  Quiet(h, Refuse(h, c, n))
<1> DEFINE told == Reply(h, h.reg[n].client, c, "err")
<1>1. n \in Name /\ h.reg[n].client \in Conn /\ Typed(h) /\ "rejected" \in Events
  BY DEF Inv, Linked, Owned, Live, Events
<1>2. Typed(told) /\ Quiet(h, told)
  BY <1>1, ReplyKeeps, ReplyQuiet DEF Keeps
<1>3. Refuse(h, c, n) = IF IsObserver(h, n) THEN told ELSE Emit(told, "rejected", n)
  BY DEF Refuse
<1> HIDE DEF told
<1>4. Quiet(told, Emit(told, "rejected", n))
  BY <1>1, <1>2, EmitQuiet
<1>5. QED
  BY <1>2, <1>3, <1>4, QuietTransitive

\* A participant is found or told idle, and given what waits for it.
LEMMA IdleUpheld ==
  ASSUME NEW h, Inv(h), Upheld(h), NEW n \in Live(h), NEW g,
         Keeps(WithState(h, n, "idle"), g), Quiet(WithState(h, n, "idle"), g)
  PROVE  Upheld(FlushQueue(g, n))
<1> DEFINE i == WithState(h, n, "idle")
<1>1. n \in Name /\ Typed(h)
  BY DEF Live, Inv
<1>2. Typed(i) /\ Stable(h, i) /\ Quiet(h, i)
  BY <1>1, WithStateType, MarksCalm DEF States
<1>3. Linked(i) /\ Live(i) = Live(h)
  BY <1>2, StableLinked, StableAlike DEF Inv
<1>4. Keeps(i, g) /\ Quiet(i, g)
  OBVIOUS
<1> HIDE DEF i
<1>5. Typed(g) /\ Linked(g) /\ n \in Live(g)
  BY <1>3, <1>4, KeepsInvariants DEF Keeps
<1>6. Upheld(g)
  BY <1>2, <1>4, QuietUpheld
<1>7. QED
  BY <1>5, <1>6, FlushQueueUpheld

LEMMA HandleSayUpheld ==
  ASSUME NEW h, Inv(h), Upheld(h), NEW c \in Conn, NEW n \in Live(h),
         NEW s \in SayFrame, s.private => s.to \in Name, NEW screen
  PROVE  Upheld(HandleSay(h, c, n, s, screen))
<1> DEFINE accepted == Verdict(h, n, s, screen) = "pass"
           routed   == IF accepted THEN Accept(h, c, n, s) ELSE Refuse(h, c, n)
           flushed  == IF ~h.reg[n].capable /\ routed.reg[n].state # "idle"
                       THEN FlushQueue(SetIdle(routed, n), n) ELSE routed
           marked   == [flushed EXCEPT !.reg[n].finished = s.done]
<1>1. HandleSay(h, c, n, s, screen) =
        IF ~accepted \/ IsObserver(h, n) THEN flushed
        ELSE IF s.done THEN CheckSessionDone(marked) ELSE marked
  BY DEF HandleSay
<1>2. n \in Name /\ s.done \in BOOLEAN
  BY DEF Live, SayFrame
<1>3. Keeps(h, routed) /\ Upheld(routed)
  BY AcceptKeeps, RefuseKeeps, AcceptUpheld, RefuseQuiet, QuietUpheld DEF Inv
<1> HIDE DEF routed
<1>4. Inv(routed) /\ n \in Live(routed) /\ Agents(routed) = Agents(h)
  BY <1>3, KeepsInv
<1>5. Inv(flushed) /\ Upheld(flushed) /\ Agents(flushed) = Agents(h)
  <2> DEFINE i == WithState(routed, n, "idle")
             f == FlushQueue(i, n)
  <2>1. SetIdle(routed, n) = i
    BY DEF SetIdle, WithState
  <2>2. Typed(i) /\ Stable(routed, i)
    BY <1>2, <1>4, WithStateType DEF Inv, States
  <2>3. Keeps(i, i) /\ Quiet(i, i)
    BY <2>2 DEF Keeps, Follows, Stable, Quiet, Calm
  <2>4. Inv(f) /\ Upheld(f)
    BY <1>3, <1>4, <2>3, IdleFlushed, IdleUpheld
  <2>5. Linked(i) /\ n \in Live(i) /\ Agents(i) = Agents(routed)
    BY <1>4, <2>2, StableLinked, StableAlike DEF Inv
  <2> HIDE DEF i
  <2>6. Keeps(i, f)
    BY <2>2, <2>5, FlushQueueKeeps
  <2> HIDE DEF f
  <2>7. Agents(f) = Agents(h)
    BY <1>4, <2>5, <2>6, KeepsInvariants
  <2>8. QED
    BY <1>3, <1>4, <2>1, <2>4, <2>7 DEF f
<1> HIDE DEF flushed
<1>6. Keeps(flushed, marked)
  BY <1>2, <1>5, MarkKeeps DEF Inv
<1>7. Calm(flushed, marked) /\ marked.reg[n].finished = s.done
  <2> DEFINE done == s.done
             g    == [flushed EXCEPT !.reg[n].finished = done]
  <2>1. Typed(flushed) /\ marked = g
    BY <1>5 DEF Inv
  <2> HIDE DEF done, marked
  <2>2. Calm(flushed, g)
    BY <1>2, <2>1, MarksCalm, Zenon
  <2>3. g.reg[n].finished = done
    BY <1>2, <2>1 DEF Typed, HubState, Reg
  <2> HIDE DEF g
  <2>4. QED
    BY <2>1, <2>2, <2>3 DEF done
<1> HIDE DEF marked
<1>8. Mail(marked) /\ Typed(marked) /\ Agents(marked) = Agents(h)
  BY <1>5, <1>6, <1>7, CalmMail, KeepsInvariants DEF Upheld, Keeps
<1>9. Upheld(CheckSessionDone(marked))
  BY <1>8, CheckSessionDoneUpheld
<1>10. CASE ~IsObserver(h, n) /\ ~s.done
  <2>1. n \in Agents(marked)
    BY <1>8, <1>10 DEF Agents
  <2>2. ~SessionOver(marked)
    BY <1>7, <1>10, <2>1 DEF SessionOver
  <2>3. QED
    BY <1>1, <1>5, <1>8, <1>10, <2>2 DEF Upheld
<1>11. QED
  BY <1>1, <1>5, <1>9, <1>10

LEMMA HandleStateUpheld ==
  ASSUME NEW h, Inv(h), Upheld(h), NEW n \in Live(h), NEW state \in States
  PROVE  Upheld(HandleState(h, n, state))
<1> DEFINE i == WithState(h, n, state)
<1>1. HandleState(h, n, state) = IF state = "idle" THEN FlushQueue(i, n) ELSE i
  BY DEF HandleState, WithState
<1>2. n \in Name /\ Typed(h)
  BY DEF Live, Inv
<1>3. Typed(i) /\ Quiet(h, i)
  BY <1>2, WithStateType, MarksCalm
<1>4. Keeps(i, i) /\ Quiet(i, i)
  BY <1>3 DEF Keeps, Follows, Stable, Quiet, Calm
<1>5. CASE state = "idle"
  BY <1>1, <1>4, <1>5, IdleUpheld
<1>6. CASE state # "idle"
  BY <1>1, <1>3, <1>6, QuietUpheld
<1>7. QED
  BY <1>5, <1>6

-----------------------------------------------------------------------------
(* Leaving.                                                                *)

LEMMA DepartedMail ==
  ASSUME NEW h, Inv(h), Mail(h), NEW n \in Live(h)
  PROVE  LET g == Departed(h, n)
         IN  /\ Mail(g) /\ Typed(g)
             /\ g.counter = h.counter /\ g.recent = h.recent /\ Given(g) \subseteq Given(h)
<1> DEFINE reg == [h.reg EXCEPT ![n].where = "dead", ![n].client = NoConn]
           g   == WithReg(h, reg)
<1>0. n \in Name /\ h.reg \in [Name -> Reg] /\ \A m \in Name : BoundedReg(h.reg[m])
  BY DEF Inv, Typed, HubState, Live
<1>1. Departed(h, n) = g
  BY DEF Departed, WithReg
<1>2. reg \in [Name -> Reg]
  <2> DEFINE r == [h.reg[n] EXCEPT !.where = "dead", !.client = NoConn]
  <2>1. r \in Reg
    BY <1>0 DEF Reg
  <2>2. reg = [h.reg EXCEPT ![n] = r]
    OBVIOUS
  <2> HIDE DEF r, reg
  <2> QED
    BY <1>0, <2>1, <2>2
<1>3. \A m \in Name : BoundedReg(reg[m])
  BY <1>0 DEF BoundedReg, Reg
<1>4. \A m \in Name : /\ reg[m].queue = h.reg[m].queue /\ reg[m].context = h.reg[m].context
                      /\ reg[m].kind = h.reg[m].kind
                      /\ reg[m].where = "live" => h.reg[m].where = "live"
  BY <1>0 DEF Reg
<1> HIDE DEF reg
<1>5. /\ Typed(g) /\ g.reg = reg /\ g.counter = h.counter /\ g.recent = h.recent
      /\ g.sent = h.sent
  BY <1>2, <1>3, WithRegType, KeptFields DEF Inv
<1> HIDE DEF g
<1>6. Agents(g) \subseteq Agents(h) /\ Agents(h) \subseteq Name
  BY <1>4, <1>5 DEF Agents, Live, IsObserver
<1>7. \A m \in Name : Sound(g.reg[m].queue, g.reg[m].context, h.counter, m)
  BY <1>4, <1>5 DEF Mail
<1>8. \A m \in Agents(g) : Cited(g.reg[m]) \subseteq Cited(h.reg[m])
  BY <1>4, <1>5, <1>6 DEF Cited, Waiting
<1>9. Given(g) \subseteq Given(h)
  BY <1>5 DEF Given
<1>10. Mail(g)
  BY <1>5, <1>6, <1>7, <1>8, <1>9, ReboxMail DEF Inv
<1>11. QED
  BY <1>1, <1>5, <1>9, <1>10

LEMMA DisconnectUpheld ==
  ASSUME NEW h, Inv(h), Upheld(h), NEW c \in Conn
  PROVE  LET g == Disconnect(h, c)
         IN  /\ Upheld(g)
             /\ g.counter = h.counter /\ g.recent = h.recent /\ Given(g) \subseteq Given(h)
<1> DEFINE n == h.conn[c].name
<1>1. CASE Holds(h, c)
  <2> DEFINE d == Departed(h, n)
             e == Emit(d, "peer_left", n)
             s == CheckSessionDone(e)
             g == Close(s, c)
  <2>1. n \in Live(h) /\ n \in Name /\ "peer_left" \in Events
    BY <1>1 DEF Holds, Live, Events
  <2>2. Disconnect(h, c) = g
    BY <1>1 DEF Disconnect, Depart, Departed
  <2>3. /\ Mail(d) /\ Typed(d)
        /\ d.counter = h.counter /\ d.recent = h.recent /\ Given(d) \subseteq Given(h)
    BY <2>1, DepartedMail DEF Upheld
  <2> HIDE DEF d
  <2>4. Typed(e) /\ Quiet(d, e) /\ Mail(e)
    BY <2>1, <2>3, EmitKeeps, EmitQuiet, QuietUpheld DEF Keeps
  <2> HIDE DEF e
  <2>5. Typed(s) /\ Upheld(s) /\ Calm(e, s)
    BY <2>4, CheckSessionDoneKeeps, CheckSessionDoneUpheld DEF Keeps
  <2> HIDE DEF s
  <2>6. Quiet(s, g) /\ Upheld(g)
    BY <2>5, CloseQuiet, QuietUpheld
  <2> HIDE DEF g
  <2>7. g.counter = h.counter /\ g.recent = h.recent /\ Given(g) \subseteq Given(h)
    BY <2>3, <2>4, <2>5, <2>6 DEF Quiet, Calm
  <2>8. QED
    BY <2>2, <2>6, <2>7
<1>2. CASE ~Holds(h, c)
  <2> DEFINE g == Close(h, c)
  <2>1. Disconnect(h, c) = g
    BY <1>2 DEF Disconnect
  <2>2. Quiet(h, g)
    BY CloseQuiet DEF Inv
  <2> HIDE DEF g
  <2>3. QED
    BY <2>1, <2>2, QuietUpheld DEF Quiet, Calm
<1>3. QED
  BY <1>1, <1>2

-----------------------------------------------------------------------------
(* A newcomer, and what it is told of the past.                            *)

\* The mailbox that a reclaimed name comes with; a new one is empty.
LEMMA RegisteredBox ==
  ASSUME NEW p \in Reg, NEW x
  PROVE  LET q == Registered(p, x)
         IN  /\ q.queue = (IF p.where = "dead" THEN p.queue ELSE << >>)
             /\ q.context = (IF p.where = "dead" THEN p.context ELSE << >>)
             /\ q.finished = FALSE /\ q.where = "live" /\ q.kind = x.kind
BY DEF Registered, NoReg, Reg

LEMMA NamedUpheld ==
  ASSUME NEW h, Inv(h), Upheld(h), Given(h) = {}, NEW x \in Hello, x.name \notin Live(h),
         h.conn[x.conn].name = NoName, h.conn[x.conn].phase # "free"
  PROVE  LET g == Named(h, x)
         IN  /\ Upheld(g) /\ Given(g) = {}
             /\ g.counter = h.counter /\ g.recent = h.recent
             /\ h.reg[x.name].where # "dead" =>
                  g.reg[x.name].queue = << >> /\ g.reg[x.name].context = << >>
<1> DEFINE n    == x.name
           c    == x.conn
           q    == Registered(h.reg[n], x)
           reg  == [h.reg EXCEPT ![n] = q]
           conn == [h.conn EXCEPT ![c].name = n]
           w    == WithReg(h, reg)
           g    == WithConn(w, conn)
<1>0. n \in Name /\ Typed(h) /\ Mail(h) /\ h.reg \in [Name -> Reg]
  BY DEF Hello, Inv, Typed, HubState, Upheld
<1>1. Named(h, x) = g
  BY <1>0 DEF Named, WithReg, WithConn, Typed, HubState
<1>2. Typed(g)
  BY <1>1, NamedType
<1>3. /\ q.queue = (IF h.reg[n].where = "dead" THEN h.reg[n].queue ELSE << >>)
      /\ q.context = (IF h.reg[n].where = "dead" THEN h.reg[n].context ELSE << >>)
      /\ q.finished = FALSE /\ q.where = "live" /\ q.kind = x.kind
  <2> DEFINE p == h.reg[n]
  <2>1. p \in Reg
    BY <1>0
  <2> HIDE DEF p
  <2>2. QED
    BY <2>1, RegisteredBox DEF p
<1> HIDE DEF q
<1>4. reg[n] = q /\ \A m \in Name \ {n} : reg[m] = h.reg[m]
  BY <1>0
<1>5. /\ g.reg = reg /\ g.sent = h.sent /\ g.counter = h.counter /\ g.recent = h.recent
  BY <1>0 DEF WithReg, WithConn, Typed, HubState
<1> HIDE DEF reg, g
<1>6. Given(g) = {}
  BY <1>5 DEF Given
<1>7. \A m \in Name : Sound(g.reg[m].queue, g.reg[m].context, g.counter, m)
  <2> TAKE m \in Name
  <2>1. Sound(h.reg[m].queue, h.reg[m].context, h.counter, m)
    BY <1>0 DEF Mail
  <2>2. CASE m # n
    BY <1>4, <1>5, <2>1, <2>2
  <2>3. CASE m = n /\ h.reg[n].where = "dead"
    BY <1>3, <1>4, <1>5, <2>1, <2>3
  <2>4. CASE m = n /\ h.reg[n].where # "dead"
    <3>1. g.reg[m].queue = << >> /\ g.reg[m].context = << >>
      BY <1>3, <1>4, <1>5, <2>4
    <3>2. QED
      BY <3>1, EmptySound
  <2>5. QED
    BY <2>2, <2>3, <2>4
<1>8. Mail(g)
  <2>1. h.counter \in Nat /\ h.counter <= g.counter
    BY <1>0, <1>5 DEF Typed, HubState
  <2>2. Chronicled(g)
    BY <1>0, <1>2, <1>5, <2>1, SameChronicle DEF Mail
  <2>3. QED
    BY <1>6, <1>7, <2>2 DEF Mail
<1>9. ~SessionOver(g)
  <2>1. CASE x.kind = "agent"
    <3>1. n \in Agents(g)
      BY <1>0, <1>3, <1>4, <1>5, <2>1 DEF Agents, Live, IsObserver
    <3>2. QED
      BY <1>3, <1>4, <1>5, <3>1 DEF SessionOver
  <2>2. CASE x.kind # "agent"
    <3>1. x.kind = "observer"
      BY <2>2 DEF Hello, Kinds
    <3>2. Agents(g) = Agents(h) /\ n \notin Agents(h) /\ Agents(h) \subseteq Name
      BY <1>0, <1>3, <1>4, <1>5, <3>1 DEF Agents, Live, IsObserver
    <3>3. QED
      BY <1>4, <1>5, <3>2 DEF SessionOver, Upheld
  <2>3. QED
    BY <2>1, <2>2
<1>10. QED
  BY <1>1, <1>3, <1>4, <1>5, <1>6, <1>8, <1>9 DEF Upheld

\* A joiner is told of records in the order of their ids, none newer than the
\* counter, and an agent only of what it may read.
LEMMA PastTold ==
  ASSUME NEW h, Typed(h), Chronicled(h), NEW x, NEW past \in InOrder(BacklogFor(h, x))
  PROVE  /\ Ascending(past)
         /\ \A i \in DOMAIN past :
              /\ past[i] \in Record /\ past[i].id <= h.counter
              /\ x.kind = "agent" /\ past[i].private => past[i].to = x.name
<1> DEFINE S == BacklogFor(h, x)
           k == Cardinality(S)
<1>1. h.recent \in Seq(Record) /\ Len(h.recent) \in Nat /\ DOMAIN h.recent = 1 .. Len(h.recent)
  BY LenProperties DEF Typed, HubState
<1>2. \A r \in S : \E i \in DOMAIN h.recent : r = h.recent[i]
  BY <1>1 DEF BacklogFor, Items
<1>3. \A r \in S : r.id <= h.counter
  BY <1>2 DEF Chronicled
<1>4. \A r \in S : x.kind = "agent" /\ r.private => r.to = x.name
  BY DEF BacklogFor, MayRead
<1>5. past \in [1 .. k -> S] /\ \A i, j \in 1 .. k : i < j => past[i].id < past[j].id
  BY DEF InOrder
<1> HIDE DEF S, k
<1>6. DOMAIN past = 1 .. k /\ \A i \in DOMAIN past : past[i] \in S
  BY <1>5
<1>7. Ascending(past)
  BY <1>5, <1>6 DEF Ascending
<1>8. \A i \in DOMAIN past : past[i] \in Record
  <2>1. past \in Seq(Record)
    BY PastType
  <2>2. QED
    BY <2>1, LenProperties, ElementOfSeq
<1>9. QED
  BY <1>3, <1>4, <1>6, <1>7, <1>8

LEMMA GiveBacklogUpheld ==
  ASSUME NEW h, Typed(h), Upheld(h), Given(h) = {}, NEW x \in Hello, x.name \in Live(h),
         h.reg[x.name].client = x.conn, h.reg[x.name].kind = x.kind,
         NEW past \in Seq(Record), Ascending(past),
         \A i \in DOMAIN past : /\ past[i].id <= h.counter
                                /\ x.kind = "agent" /\ past[i].private => past[i].to = x.name,
         x.kind = "agent" => h.reg[x.name].queue = << >> /\ h.reg[x.name].context = << >>
  PROVE  Upheld(GiveBacklog(h, x, past))
<1> DEFINE n   == x.name
           ms  == [i \in DOMAIN past |-> Tag(past[i], "overheard")]
           all == {Tag(past[i], Addressing(n, past[i].to)) : i \in DOMAIN past}
           one == [q \in {n} |-> {Tag(past[i], Addressing(q, past[i].to)) : i \in DOMAIN past}]
<1>0. /\ n \in Name /\ x.conn \in Conn /\ Mail(h)
      /\ h.reg \in [Name -> Reg] /\ \A m \in Name : BoundedReg(h.reg[m])
  BY DEF Hello, Typed, HubState, Upheld
<1>1. DOMAIN past = 1 .. Len(past) /\ Len(past) \in Nat /\ \A i \in DOMAIN past : past[i] \in Record
  BY LenProperties, ElementOfSeq
<1>2. CASE x.kind = "agent"
  <2> DEFINE r   == h.reg[n]
             k   == h.counter
             q   == OverhearAll(r, ms)
             reg == [h.reg EXCEPT ![n] = q]
             g   == WithReg(h, reg)
  <2>1. \A i \in DOMAIN past : Tag(past[i], "overheard") \in Msg
    BY <1>1, TagType
  <2>2. ms \in [1 .. Len(past) -> Msg]
    BY <1>1, <2>1
  <2>3. /\ DOMAIN ms = 1 .. Len(past)
        /\ \A i \in DOMAIN ms : /\ ms[i].id = past[i].id /\ ms[i].private = past[i].private
                                /\ ms[i].to = past[i].to
    BY <1>1 DEF Tag
  <2> HIDE DEF ms
  <2>4. ms \in Seq(Msg)
    BY <1>1, <2>2, SeqDef
  <2>5. Sound(<< >>, ms, k, n)
    <3>1. DOMAIN << >> = {} /\ << >> \in Seq(Msg)
      BY EmptySeq
    <3>2. Ascending(<< >>)
      BY <3>1 DEF Ascending
    <3>3. \A i \in DOMAIN ms : ms[i].id <= k /\ (ms[i].private => ms[i].to = n)
      BY <1>1, <1>2, <2>3
    <3>4. \A i, j \in DOMAIN ms : i < j => ms[i].id < ms[j].id
      BY <1>1, <2>3 DEF Ascending
    <3>5. QED
      BY <3>1, <3>2, <3>3, <3>4 DEF Sound
  <2>6. r \in Reg /\ BoundedReg(r) /\ r.queue = << >> /\ r.context = << >> /\ k \in Nat
    BY <1>0, <1>2 DEF Typed, HubState
  <2>7. GiveBacklog(h, x, past) = g
    BY <1>0, <1>2 DEF GiveBacklog, WithReg, ms
  <2> HIDE DEF r, k
  <2>8. Reboxed(r, q) /\ Sound(q.queue, q.context, k, n) /\ q.queue = << >>
    BY <2>4, <2>5, <2>6, OverhearAllType, OverhearAllSound
  <2> HIDE DEF q
  <2>9. reg[n] = q /\ \A m \in Name \ {n} : reg[m] = h.reg[m]
    BY <1>0
  <2>10. /\ g.reg = reg /\ g.sent = h.sent /\ g.counter = k /\ g.recent = h.recent
    BY KeptFields DEF WithReg, Typed, HubState, k
  <2>11. Typed(g)
    BY <2>7, GiveBacklogKeeps DEF Keeps
  <2> HIDE DEF reg, g
  <2>12. \A m \in Name : Sound(g.reg[m].queue, g.reg[m].context, g.counter, m)
    <3> TAKE m \in Name
    <3>1. CASE m = n
      BY <2>8, <2>9, <2>10, <3>1
    <3>2. CASE m # n
      BY <1>0, <2>9, <2>10, <3>2 DEF Mail, k
    <3>3. QED
      BY <3>1, <3>2
  <2>13. Given(g) = {}
    BY <2>10 DEF Given
  <2>14. Chronicled(g)
    <3>1. h.counter <= g.counter
      BY <2>6, <2>10 DEF k
    <3>2. QED
      BY <1>0, <2>10, <2>11, <3>1, SameChronicle DEF Mail
  <2>15. Mail(g)
    BY <2>12, <2>13, <2>14 DEF Mail
  <2>16. \A m \in Name : /\ g.reg[m].where = h.reg[m].where /\ g.reg[m].kind = h.reg[m].kind
                         /\ g.reg[m].queue = h.reg[m].queue
                         /\ g.reg[m].finished = h.reg[m].finished
    BY <2>6, <2>8, <2>9, <2>10 DEF Reboxed, SameSeat, r
  <2>17. Agents(g) = Agents(h) /\ Agents(h) \subseteq Name
    BY <2>16 DEF Agents, Live, IsObserver
  <2>18. ~SessionOver(g)
    BY <2>16, <2>17 DEF SessionOver, Upheld
  <2>19. QED
    BY <2>7, <2>15, <2>18 DEF Upheld
<1>3. CASE x.kind # "agent" /\ past = << >>
  BY <1>3 DEF GiveBacklog
<1>4. CASE x.kind # "agent" /\ past # << >>
  <2>1. all \in SUBSET Msg
    BY <1>1, TagType, AddressingType
  <2>2. DOMAIN one = {n} /\ one[n] = all
    OBVIOUS
  <2>3. GiveBacklog(h, x, past) = Deliver(h, one)
    BY <1>4 DEF GiveBacklog
  <2>4. \A m \in all : m.id <= h.counter
    BY DEF Tag
  <2>5. n \notin Agents(h)
    BY <1>4 DEF Agents, IsObserver, Hello, Kinds
  <2> HIDE DEF one, all
  <2>6. Mail(Deliver(h, one)) /\ (SessionOver(Deliver(h, one)) => SessionOver(h))
    BY <1>0, <2>1, <2>2, <2>4, <2>5, DeliverMail
  <2>7. QED
    BY <2>3, <2>6 DEF Upheld
<1>5. QED
  BY <1>2, <1>3, <1>4

\* What is known of the past that is told to x.
Told(past, x, k) ==
  /\ past \in Seq(Record) /\ Ascending(past)
  /\ \A i \in DOMAIN past : /\ past[i].id <= k
                            /\ x.kind = "agent" /\ past[i].private => past[i].to = x.name

LEMMA SeatedUpheld ==
  ASSUME NEW h, Inv(h), Upheld(h), Given(h) = {}, NEW x \in Hello, x.name \notin Live(h),
         h.conn[x.conn].name = NoName, h.conn[x.conn].phase # "free",
         NEW past, Told(past, x, h.counter)
  PROVE  Upheld(Seated(h, x, past))
<1> DEFINE named    == Named(h, x)
           frames   == {[sink |-> x.conn, t |-> "welcome"]}
           welcomed == Push(named, frames, {})
           given    == GiveBacklog(welcomed, x, past)
           briefed  == IF h.reg[x.name].where = "dead" /\ x.kind = "agent" THEN welcomed
                       ELSE given
           joined   == EmitSkipping(briefed, "peer_joined", x.name, {x.name})
<1>0. x.name \in Name /\ x.conn \in Conn /\ "peer_joined" \in Events /\ past \in Seq(Record)
  BY DEF Hello, Events, Told
<1>1. Seated(h, x, past) = joined
  BY DEF Seated, Named
<1>2. /\ Typed(named) /\ x.name \in Live(named) /\ named.reg[x.name].client = x.conn
      /\ named.reg[x.name].kind = x.kind
  BY NamedType
<1>3. /\ Upheld(named) /\ Given(named) = {} /\ named.counter = h.counter
      /\ (h.reg[x.name].where # "dead" =>
            named.reg[x.name].queue = << >> /\ named.reg[x.name].context = << >>)
  BY NamedUpheld
<1> HIDE DEF named
<1>4. frames \in SUBSET Frame /\ {} \in SUBSET Frame /\ \A f \in frames \cup {} : f.t # "deliver"
  BY <1>0 DEF Frame, Signal
<1> HIDE DEF frames
<1>5. /\ Typed(welcomed) /\ welcomed.reg = named.reg /\ Quiet(named, welcomed)
  BY <1>2, <1>4, PushType, PushSent
<1> HIDE DEF welcomed
<1>6. /\ Upheld(welcomed) /\ Given(welcomed) = {} /\ welcomed.counter = h.counter
      /\ x.name \in Live(welcomed) /\ welcomed.reg[x.name].client = x.conn
      /\ welcomed.reg[x.name].kind = x.kind
  BY <1>2, <1>3, <1>5, QuietUpheld DEF Live, Quiet, Calm
<1>7. Keeps(welcomed, given)
  BY <1>0, <1>5, <1>6, GiveBacklogKeeps
<1>8. /\ Ascending(past)
      /\ \A i \in DOMAIN past :
           /\ past[i].id <= welcomed.counter
           /\ x.kind = "agent" /\ past[i].private => past[i].to = x.name
  BY <1>6 DEF Told
<1>9. CASE h.reg[x.name].where = "dead" /\ x.kind = "agent"
  <2>1. Upheld(briefed) /\ Typed(briefed)
    BY <1>5, <1>6, <1>9
  <2> HIDE DEF briefed
  <2>2. QED
    BY <1>0, <1>1, <2>1, EmitQuiet, QuietUpheld
<1>10. CASE ~(h.reg[x.name].where = "dead" /\ x.kind = "agent")
  <2>1. x.kind = "agent" => /\ welcomed.reg[x.name].queue = << >>
                            /\ welcomed.reg[x.name].context = << >>
    BY <1>3, <1>5, <1>10
  <2>2. Upheld(given)
    BY <1>0, <1>5, <1>6, <1>8, <2>1, GiveBacklogUpheld
  <2> HIDE DEF given
  <2>3. Upheld(briefed) /\ Typed(briefed)
    BY <1>7, <1>10, <2>2 DEF Keeps
  <2> HIDE DEF briefed
  <2>4. QED
    BY <1>0, <1>1, <2>3, EmitQuiet, QuietUpheld
<1>11. QED
  BY <1>9, <1>10

LEMMA JoinUpheld ==
  ASSUME NEW h, Inv(h), Upheld(h), Given(h) = {}, NEW x \in Hello, x.name \notin Live(h),
         h.conn[x.conn].name = NoName, h.conn[x.conn].phase # "free",
         NEW past, Told(past, x, h.counter)
  PROVE  Upheld(Join(h, x, past))
<1> DEFINE named  == Named(h, x)
           seated == Seated(h, x, past)
<1>1. Typed(named) /\ Linked(named) /\ x.name \in Live(named)
  BY NamedType
<1>2. Keeps(named, seated) /\ Upheld(seated)
  BY SeatedType, SeatedUpheld DEF Told
<1>3. Join(h, x, past) =
        IF h.reg[x.name].where = "dead" THEN FlushQueue(seated, x.name) ELSE seated
  BY DEF Join
<1> HIDE DEF named, seated
<1>4. Typed(seated) /\ Linked(seated) /\ x.name \in Live(seated)
  BY <1>1, <1>2, KeepsInvariants DEF Keeps
<1>5. QED
  BY <1>2, <1>3, <1>4, FlushQueueUpheld

LEMMA HandleHelloUpheld ==
  ASSUME NEW h, Inv(h), Upheld(h), Given(h) = {}, NEW x \in Hello,
         h.conn[x.conn].phase # "free", NEW past, Told(past, x, h.counter)
  PROVE  Upheld(HandleHello(h, x, past))
<1> DEFINE c      == x.conn
           reaped == IF x.name \in Live(h) /\ ~Reachable(h, x.name)
                     THEN Disconnect(h, h.reg[x.name].client) ELSE h
           told   == Reply(reaped, c, c, "err")
<1>0. c \in Conn /\ Typed(h)
  BY DEF Hello, Inv
<1>1. HandleHello(h, x, past) =
        IF h.conn[c].name # NoName THEN Reply(h, c, c, "err")
        ELSE IF x.name \in Live(reaped) THEN Close(told, c)
        ELSE Join(reaped, x, past)
  BY DEF HandleHello
<1>2. Upheld(Reply(h, c, c, "err"))
  BY <1>0, ReplyQuiet, QuietUpheld
<1>3. /\ Inv(reaped) /\ Upheld(reaped) /\ Given(reaped) = {} /\ reaped.counter = h.counter
      /\ reaped.conn[c].name = h.conn[c].name /\ reaped.conn[c].phase # "free"
  <2>1. x.name \in Live(h) => h.reg[x.name].client \in Conn
    BY DEF Inv, Linked, Owned
  <2>2. CASE x.name \in Live(h) /\ ~Reachable(h, x.name)
    <3> DEFINE k == h.reg[x.name].client
               d == Disconnect(h, k)
    <3>0. k \in Conn
      BY <2>1, <2>2
    <3> HIDE DEF k
    <3>1. Inv(d) /\ Upheld(d) /\ d.counter = h.counter /\ Given(d) \subseteq Given(h)
      BY <3>0, DisconnectInv, DisconnectUpheld
    <3>2. \A m \in Conn : /\ d.conn[m].name = h.conn[m].name
                          /\ d.conn[m].phase = "free" => h.conn[m].phase = "free"
      BY <3>0, DisconnectInv, Zenon
    <3> HIDE DEF d
    <3>3. reaped = d
      BY <2>2 DEF d, k
    <3>4. d.conn[c].phase # "free" /\ d.conn[c].name = h.conn[c].name /\ Given(d) = {}
      BY <1>0, <3>1, <3>2
    <3> HIDE DEF reaped
    <3>5. QED
      BY <3>1, <3>3, <3>4
  <2>3. CASE ~(x.name \in Live(h) /\ ~Reachable(h, x.name))
    BY <2>3
  <2>4. QED
    BY <2>2, <2>3
<1> HIDE DEF reaped
<1>4. Upheld(Close(told, c))
  <2>1. Typed(told) /\ Upheld(told)
    BY <1>0, <1>3, ReplyKeeps, ReplyQuiet, QuietUpheld DEF Inv, Keeps
  <2> HIDE DEF told
  <2>2. QED
    BY <1>0, <2>1, CloseQuiet, QuietUpheld
<1>5. h.conn[c].name = NoName /\ x.name \notin Live(reaped) => Upheld(Join(reaped, x, past))
  BY <1>3, JoinUpheld
<1>6. QED
  BY <1>1, <1>2, <1>4, <1>5

-----------------------------------------------------------------------------
(* The watchdog, and what every frame goes through.                        *)

LEMMA PingQuiet ==
  ASSUME NEW h, Inv(h), NEW n \in Live(h)
  PROVE  Quiet(h, Ping(h, n))
<1> DEFINE frames == {[sink |-> h.reg[n].client, t |-> "ping"]}
           p      == Push(h, frames, {})
<1>0. n \in Name /\ h.reg[n].client \in Conn /\ Typed(h)
  BY DEF Inv, Linked, Owned, Live
<1>1. frames \in SUBSET Frame /\ {} \in SUBSET Frame /\ \A f \in frames \cup {} : f.t # "deliver"
  BY <1>0 DEF Frame, Signal
<1>2. Ping(h, n) = [p EXCEPT !.reg[n].awaiting = TRUE]
  BY DEF Ping
<1> HIDE DEF frames
<1>3. Typed(p) /\ Quiet(h, p)
  BY <1>0, <1>1, PushType, PushSent
<1> HIDE DEF p
<1>4. Quiet(p, [p EXCEPT !.reg[n].awaiting = TRUE])
  BY <1>0, <1>3, MarksCalm, Zenon
<1>5. QED
  BY <1>2, <1>3, <1>4, QuietTransitive

LEMMA VisitedUpheld ==
  ASSUME NEW h, Inv(h), Upheld(h), NEW n \in Live(h), NEW lapsed
  PROVE  Upheld(Visited(h, n, lapsed))
<1> DEFINE pinged == IF "silence" \in lapsed /\ ~h.reg[n].awaiting THEN Ping(h, n) ELSE h
           i      == SetIdle(pinged, n)
           e      == Emit(i, "stall", n)
<1>0. n \in Name /\ h.reg[n].client \in Conn /\ "stall" \in Events
  BY DEF Inv, Linked, Owned, Live, Events
<1>1. Visited(h, n, lapsed) =
        IF Overdue(h, n, lapsed) THEN Disconnect(h, h.reg[n].client)
        ELSE IF InfersIdle(h, n, lapsed) THEN FlushQueue(e, n) ELSE pinged
  BY DEF Visited
<1>2. Upheld(Disconnect(h, h.reg[n].client))
  BY <1>0, DisconnectUpheld
<1>3. Inv(pinged) /\ Upheld(pinged) /\ n \in Live(pinged)
  BY PingKeeps, KeepsInv, PingQuiet, QuietUpheld
<1> HIDE DEF pinged
<1>4. i = WithState(pinged, n, "idle")
  BY DEF SetIdle, WithState
<1>5. Typed(i)
  BY <1>0, <1>3, <1>4, WithStateType DEF Inv, States
<1> HIDE DEF i
<1>6. Keeps(i, e) /\ Quiet(i, e)
  BY <1>0, <1>5, EmitKeeps, EmitQuiet
<1> HIDE DEF e
<1>7. Upheld(FlushQueue(e, n))
  BY <1>3, <1>4, <1>6, IdleUpheld
<1>8. QED
  BY <1>1, <1>2, <1>3, <1>7

\* The counter of a new process is the last id of the transcript.
LEMMA BootUpheld ==
  ASSUME NEW recent \in Seq(Record), Ascending(recent)
  PROVE  Upheld(Boot(recent))
<1> DEFINE counter == IF recent = << >> THEN 0 ELSE recent[Len(recent)].id
           g == Boot(recent)
<1>1. /\ g.reg = [n \in Name |-> NoReg] /\ g.recent = recent /\ g.sent = {}
      /\ g.counter = counter
  BY DEF Boot
<1> HIDE DEF g
<1>2. NoReg.queue = << >> /\ NoReg.context = << >> /\ NoReg.where = "none"
  BY DEF NoReg
<1>3. Agents(g) = {} /\ Given(g) = {}
  BY <1>1, <1>2 DEF Agents, Live, Given
<1>4. \A i \in DOMAIN recent : recent[i].id <= counter
  <2> TAKE i \in DOMAIN recent
  <2>1. DOMAIN recent = 1 .. Len(recent) /\ Len(recent) \in Nat
    BY LenProperties
  <2>2. recent # << >>
    BY EmptySeq
  <2>3. \A j \in DOMAIN recent : recent[j].id \in Nat
    <3>1. \A j \in DOMAIN recent : recent[j] \in Record
      BY <2>1, ElementOfSeq
    <3>2. QED
      BY <3>1 DEF Record
  <2>4. Len(recent) \in DOMAIN recent /\ i <= Len(recent)
    BY <2>1
  <2>5. CASE i = Len(recent)
    BY <2>2, <2>3, <2>5
  <2>6. CASE i # Len(recent)
    <3>1. i < Len(recent)
      BY <2>1, <2>4, <2>6
    <3>2. recent[i].id < recent[Len(recent)].id
      BY <2>4, <3>1 DEF Ascending
    <3>3. QED
      BY <2>2, <2>3, <2>4, <3>2
  <2>7. QED
    BY <2>5, <2>6
<1>5. Chronicled(g)
  BY <1>1, <1>4 DEF Chronicled
<1>6. \A n \in Name : Sound(g.reg[n].queue, g.reg[n].context, g.counter, n)
  BY <1>1, <1>2, EmptySound
<1>7. Upheld(g)
  BY <1>3, <1>5, <1>6 DEF Upheld, Mail, SessionOver
<1>8. QED
  BY <1>7 DEF g

LEMMA NowUpheld ==
  ASSUME Inv(hub), Upheld(hub)
  PROVE  Upheld(Now) /\ Given(Now) = {} /\ Now.counter = hub.counter
<1> DEFINE g == Now
<1>1. /\ g.sent = {} /\ g.reg = hub.reg /\ g.counter = hub.counter /\ g.recent = hub.recent
  BY DEF Now, Inv, Typed, HubState
<1> HIDE DEF g
<1>2. Given(g) = {}
  BY <1>1 DEF Given
<1>3. Quiet(hub, g)
  BY <1>1, <1>2, SameQuiet
<1>4. QED
  BY <1>1, <1>2, <1>3, QuietUpheld DEF g

LEMMA HeardUpheld ==
  ASSUME Inv(hub), Upheld(hub), NEW c \in Conn, Known(c)
  PROVE  Upheld(Heard(c))
<1> DEFINE n == Sender(c)
           w == Now
           g == [w EXCEPT !.reg[n].awaiting = FALSE]
<1>1. n \in Name
  BY DEF Known, Live
<1>2. Typed(w) /\ Upheld(w)
  BY NowInv, NowUpheld DEF Inv
<1>3. Heard(c) = g
  BY DEF Heard
<1> HIDE DEF w, n
<1>4. Quiet(w, g)
  BY <1>1, <1>2, MarksCalm, Zenon
<1>5. QED
  BY <1>2, <1>3, <1>4, QuietUpheld

LEMMA HandledUpheld ==
  ASSUME NEW h, Typed(h), Upheld(h), NEW c \in Conn
  PROVE  Upheld(Handled(h, c))
<1> DEFINE k == [h.conn[c] EXCEPT !.phase = "ending"]
           g == [h EXCEPT !.conn[c] = k]
<1>1. h.conn[c] \in Link /\ h.conn[c].out <= OutboundMax
  BY DEF Typed, HubState
<1>2. k \in Link /\ k.out <= OutboundMax
  BY <1>1 DEF Link
<1>3. Handled(h, c) = IF h.conn[c].connected THEN h ELSE g
  BY DEF Handled
<1> HIDE DEF k
<1>4. Quiet(h, g)
  BY <1>2, OneConnQuiet
<1> HIDE DEF g
<1>5. QED
  BY <1>3, <1>4, QuietUpheld

-----------------------------------------------------------------------------
(* The steps of the process.                                               *)

LEMMA ReadHelloUpheld ==
  ASSUME Inv(hub), Upheld(hub), NEW x \in Hellos, ReadHello(x)
  PROVE  Upheld(hub')
<1>1. x \in Hello /\ x.conn \in Conn
  BY InputAssumption DEF Hello
<1>2. PICK past \in InOrder(BacklogFor(hub, x)) :
        hub' = Handled(HandleHello(Now, x, past), x.conn)
  BY DEF ReadHello
<1>3. past \in Seq(Record)
  BY <1>2, PastType DEF Inv
<1>4. /\ Inv(Now) /\ Now.conn[x.conn].phase # "free"
      /\ Upheld(Now) /\ Given(Now) = {} /\ Now.counter = hub.counter
  BY NowInv, NowUpheld DEF ReadHello, Reading
<1>5. Told(past, x, Now.counter)
  <2>1. Typed(hub) /\ Chronicled(hub)
    BY DEF Inv, Upheld, Mail
  <2>2. Told(past, x, hub.counter)
    BY <1>2, <1>3, <2>1, PastTold DEF Told
  <2>3. QED
    BY <1>4, <2>2
<1>6. Inv(HandleHello(Now, x, past)) /\ Upheld(HandleHello(Now, x, past))
  BY <1>1, <1>3, <1>4, <1>5, HandleHelloInv, HandleHelloUpheld
<1>7. QED
  BY <1>1, <1>2, <1>6, HandledUpheld DEF Inv

LEMMA ReadSayUpheld ==
  ASSUME Inv(hub), Upheld(hub), NEW c \in Conn, ReadSay(c)
  PROVE  Upheld(hub')
<1>1. PICK s \in Says, screen \in Screens :
        hub' = Handled(HandleSay(Heard(c), c, Sender(c), s, screen), c)
  BY DEF ReadSay
<1>2. Inv(Heard(c)) /\ Upheld(Heard(c)) /\ Sender(c) \in Live(Heard(c))
  BY HeardInv, HeardUpheld DEF ReadSay
<1>3. s \in SayFrame /\ (s.private => s.to \in Name)
  BY InputAssumption, PrivacyAssumption
<1> DEFINE g == HandleSay(Heard(c), c, Sender(c), s, screen)
<1>4. Inv(g) /\ Upheld(g)
  BY <1>2, <1>3, HandleSayInv, HandleSayUpheld
<1>5. QED
  BY <1>1, <1>4, HandledUpheld DEF Inv

LEMMA ReadStateUpheld ==
  ASSUME Inv(hub), Upheld(hub), NEW c \in Conn, ReadState(c)
  PROVE  Upheld(hub')
<1>1. PICK state \in Reports : hub' = Handled(HandleState(Heard(c), Sender(c), state), c)
  BY DEF ReadState
<1>2. Inv(Heard(c)) /\ Upheld(Heard(c)) /\ Sender(c) \in Live(Heard(c))
  BY HeardInv, HeardUpheld DEF ReadState
<1>3. state \in States
  BY InputAssumption
<1>4. Inv(HandleState(Heard(c), Sender(c), state)) /\ Upheld(HandleState(Heard(c), Sender(c), state))
  BY <1>2, <1>3, HandleStateInv, HandleStateUpheld
<1>5. QED
  BY <1>1, <1>4, HandledUpheld DEF Inv

LEMMA ReadCmdUpheld ==
  ASSUME Inv(hub), Upheld(hub), NEW c \in Conn, ReadCmd(c)
  PROVE  Upheld(hub')
<1>1. PICK x \in Cmds, rank \in Ranks(Agents(hub)) :
        hub' = Handled(HandleCmd(Heard(c), c, Sender(c), x, rank), c)
  BY DEF ReadCmd
<1>2. /\ Inv(Heard(c)) /\ Upheld(Heard(c)) /\ Sender(c) \in Live(Heard(c))
      /\ rank \in Ranks(Agents(Heard(c)))
  BY HeardInv, HeardUpheld DEF ReadCmd
<1>3. x \in [cmd : CmdNames, n : Nat]
  BY InputAssumption
<1> DEFINE g == HandleCmd(Heard(c), c, Sender(c), x, rank)
<1>4. Inv(g) /\ Upheld(g)
  BY <1>2, <1>3, HandleCmdInv, HandleCmdUpheld
<1>5. QED
  BY <1>1, <1>4, HandledUpheld DEF Inv

LEMMA ReadOthersUpheld ==
  ASSUME Inv(hub), Upheld(hub), NEW c \in Conn,
         ReadRoster(c) \/ ReadPong(c) \/ ReadBye(c) \/ ReadMalformed(c)
  PROVE  Upheld(hub')
<1>1. CASE ReadRoster(c)
  <2> DEFINE k == hub.reg[Sender(c)].client
             frames == {[sink |-> k, t |-> "roster"]}
             g == Push(Heard(c), frames, {})
  <2>1. hub' = Handled(g, c)
    BY <1>1 DEF ReadRoster
  <2>2. Typed(Heard(c)) /\ Upheld(Heard(c)) /\ k \in Conn
    BY <1>1, HeardInv, HeardUpheld DEF ReadRoster, Inv, Linked, Owned
  <2>3. frames \in SUBSET Frame /\ {} \in SUBSET Frame /\ \A f \in frames \cup {} : f.t # "deliver"
    BY <2>2 DEF Frame, Signal
  <2> HIDE DEF frames
  <2>4. Typed(g) /\ Quiet(Heard(c), g)
    BY <2>2, <2>3, PushType, PushSent
  <2> HIDE DEF g
  <2>5. QED
    BY <2>1, <2>2, <2>4, QuietUpheld, HandledUpheld
<1>2. CASE ReadPong(c)
  BY <1>2, HeardInv, HeardUpheld, HandledUpheld DEF ReadPong, Inv
<1>3. CASE ReadBye(c)
  <2>1. hub' = Handled(Disconnect(Heard(c), c), c) /\ Inv(Heard(c)) /\ Upheld(Heard(c))
    BY <1>3, HeardInv, HeardUpheld DEF ReadBye
  <2>2. Inv(Disconnect(Heard(c), c)) /\ Upheld(Disconnect(Heard(c), c))
    BY <2>1, DisconnectInv, DisconnectUpheld
  <2>3. QED
    BY <2>1, <2>2, HandledUpheld DEF Inv
<1>4. CASE ReadMalformed(c)
  <2>1. hub' = Handled(Reply(Now, c, c, "err"), c) /\ Typed(Now) /\ Upheld(Now)
    BY <1>4, NowInv, NowUpheld DEF ReadMalformed, Inv
  <2>2. Typed(Reply(Now, c, c, "err")) /\ Upheld(Reply(Now, c, c, "err"))
    BY <2>1, ReplyKeeps, ReplyQuiet, QuietUpheld DEF Keeps
  <2>3. QED
    BY <2>1, <2>2, HandledUpheld
<1>5. QED
  BY <1>1, <1>2, <1>3, <1>4

\* A connection is made, ends, fails, is given back, or takes a frame.
LEMMA ConnectionUpheld ==
  ASSUME Inv(hub), Upheld(hub), NEW c \in Conn,
         Connect(c) \/ StopReading(c) \/ WriteOne(c) \/ WriteFails(c) \/ Reap(c)
  PROVE  Upheld(hub')
<1>0. Inv(Now) /\ Typed(Now) /\ Upheld(Now) /\ Now.conn = hub.conn
  BY NowInv, NowUpheld DEF Inv
<1>1. ASSUME NEW h, Typed(h), Upheld(h), NEW k \in Link, k.out <= OutboundMax,
             hub' = [h EXCEPT !.conn[c] = k]
      PROVE  Upheld(hub')
  BY <1>1, OneConnQuiet, QuietUpheld
<1>2. CASE Connect(c)
  <2> DEFINE k == [FreeConn EXCEPT !.phase = "reading", !.connected = TRUE]
  <2>1. hub' = [Now EXCEPT !.conn[c] = k]
    BY <1>2 DEF Connect
  <2>2. k \in Link /\ k.out = 0
    BY DEF FreeConn, Link
  <2> HIDE DEF k
  <2>3. k.out <= OutboundMax
    BY <2>2, ConfigAssumption
  <2> DEFINE w == Now
  <2>4. Typed(w) /\ Upheld(w) /\ hub' = [w EXCEPT !.conn[c] = k]
    BY <1>0, <2>1
  <2> HIDE DEF w
  <2>5. QED
    BY <1>1, <2>2, <2>3, <2>4
<1>3. CASE StopReading(c)
  <2>1. PICK told \in {Now, Reply(Now, c, c, "err")} :
          hub' = [told EXCEPT !.conn[c].phase = "ending"]
    BY <1>3 DEF StopReading
  <2>2. Typed(told) /\ Upheld(told)
    BY <1>0, ReplyKeeps, ReplyQuiet, QuietUpheld DEF Keeps
  <2> DEFINE k == [told.conn[c] EXCEPT !.phase = "ending"]
  <2>3. told.conn[c] \in Link /\ told.conn[c].out <= OutboundMax
    BY <2>2 DEF Typed, HubState
  <2>4. k \in Link /\ k.out <= OutboundMax
    BY <2>3 DEF Link
  <2>5. hub' = [told EXCEPT !.conn[c] = k]
    BY <2>1
  <2> HIDE DEF k
  <2>6. QED
    BY <1>1, <2>2, <2>4, <2>5
<1>4. CASE WriteOne(c)
  <2> DEFINE w == Now
             m == w.conn[c].out - 1
             k == [w.conn[c] EXCEPT !.out = m]
  <2>1. hub' = [w EXCEPT !.conn[c] = k]
    BY <1>4 DEF WriteOne
  <2>2. w.conn[c] \in Link /\ w.conn[c].out <= OutboundMax /\ w.conn[c].out > 0
    BY <1>0, <1>4 DEF Typed, HubState, WriteOne
  <2>3. k \in Link /\ k.out <= OutboundMax
    <3> HIDE DEF w
    <3>1. w.conn[c].out \in Nat /\ OutboundMax \in Nat
      BY <2>2, ConfigAssumption DEF Link
    <3>2. m \in Nat /\ m <= OutboundMax
      BY <2>2, <3>1
    <3> HIDE DEF m
    <3>3. QED
      BY <2>2, <3>2 DEF Link
  <2> HIDE DEF k
  <2>4. QED
    BY <1>0, <1>1, <2>1, <2>3
<1>5. CASE WriteFails(c)
  <2>1. hub' = Close(Now, c)
    BY <1>5 DEF WriteFails, Close
  <2>2. QED
    BY <1>0, <2>1, CloseQuiet, QuietUpheld
<1>6. CASE Reap(c)
  <2> DEFINE w == Disconnect(Now, c)
             k == FreeConn
  <2>1. hub' = [w EXCEPT !.conn[c] = k]
    BY <1>6 DEF Reap
  <2>2. Inv(w) /\ Upheld(w)
    BY <1>0, DisconnectInv, DisconnectUpheld
  <2> HIDE DEF w
  <2>3. k \in Link /\ k.out = 0
    BY DEF FreeConn, Link
  <2> HIDE DEF k
  <2>4. k.out <= OutboundMax
    BY <2>3, ConfigAssumption
  <2>5. QED
    BY <1>1, <2>1, <2>2, <2>3, <2>4 DEF Inv
<1>7. QED
  BY <1>2, <1>3, <1>4, <1>5, <1>6

LEMMA VisitUpheld ==
  ASSUME Inv(hub), Upheld(hub), NEW n \in Name, NEW lapsed, Visit(n, lapsed)
  PROVE  Upheld(hub')
<1>1. Inv(Now) /\ Upheld(Now) /\ n \in Live(Now) /\ hub' = Visited(Now, n, lapsed)
  BY NowInv, NowUpheld DEF Visit
<1>2. QED
  BY <1>1, VisitedUpheld

\* What waited in a dead mailbox is forgotten with it.
LEMMA ExpireUpheld ==
  ASSUME Inv(hub), Upheld(hub), NEW n \in Name, Expire(n)
  PROVE  Upheld(hub')
<1> DEFINE w   == Now
           reg == [w.reg EXCEPT ![n] = NoReg]
           g   == WithReg(w, reg)
<1>1. hub' = g
  BY DEF Expire, WithReg
<1>2. Typed(w) /\ Upheld(w) /\ Given(w) = {} /\ w.reg[n].where = "dead"
  BY NowInv, NowUpheld DEF Expire, Inv
<1>3. Typed(g)
  BY <1>1, ExpireInv DEF Inv
<1> HIDE DEF w
<1>4. NoReg.where = "none" /\ NoReg.queue = << >> /\ NoReg.context = << >>
  BY DEF NoReg
<1> HIDE DEF NoReg
<1>5. reg[n] = NoReg /\ \A m \in Name \ {n} : reg[m] = w.reg[m]
  BY <1>2 DEF Typed, HubState
<1>6. /\ g.reg = reg /\ g.sent = w.sent /\ g.counter = w.counter /\ g.recent = w.recent
  BY <1>2 DEF WithReg, Typed, HubState
<1> HIDE DEF reg, g
<1>7. Agents(g) = Agents(w) /\ Agents(w) \subseteq Name /\ n \notin Agents(w)
  BY <1>2, <1>4, <1>5, <1>6 DEF Agents, Live, IsObserver
<1>8. \A m \in Name : Sound(g.reg[m].queue, g.reg[m].context, w.counter, m)
  BY <1>2, <1>4, <1>5, <1>6, EmptySound DEF Upheld, Mail
<1>9. \A m \in Agents(g) : Cited(g.reg[m]) \subseteq Cited(w.reg[m])
  BY <1>5, <1>6, <1>7
<1>10. Given(g) \subseteq Given(w)
  BY <1>6 DEF Given
<1>11. Mail(g)
  BY <1>2, <1>3, <1>6, <1>7, <1>8, <1>9, <1>10, ReboxMail DEF Upheld
<1>12. ~SessionOver(g)
  BY <1>2, <1>5, <1>6, <1>7 DEF SessionOver, Upheld
<1>13. QED
  BY <1>1, <1>11, <1>12 DEF Upheld

LEMMA NextUpheld ==
  ASSUME Inv(hub), Upheld(hub), [Next]_vars
  PROVE  Upheld(hub)'
<1>1. ASSUME NEW x \in Hellos, ReadHello(x)
      PROVE  Upheld(hub')
  BY <1>1, ReadHelloUpheld
<1>2. ASSUME NEW c \in Conn, ConnStep(c)
      PROVE  Upheld(hub')
  <2>1. CASE ReadSay(c)
    BY <2>1, ReadSayUpheld
  <2>2. CASE ReadState(c)
    BY <2>2, ReadStateUpheld
  <2>3. CASE ReadCmd(c)
    BY <2>3, ReadCmdUpheld
  <2>4. CASE ReadRoster(c) \/ ReadPong(c) \/ ReadBye(c) \/ ReadMalformed(c)
    BY <2>4, ReadOthersUpheld
  <2>5. CASE Connect(c) \/ StopReading(c) \/ WriteOne(c) \/ WriteFails(c) \/ Reap(c)
    BY <2>5, ConnectionUpheld
  <2>6. QED
    BY <1>2, <2>1, <2>2, <2>3, <2>4, <2>5 DEF ConnStep
<1>3. CASE Tick
  BY <1>3, VisitUpheld DEF Tick
<1>4. ASSUME NEW n \in Name, Expire(n)
      PROVE  Upheld(hub')
  BY <1>4, ExpireUpheld
<1>5. CASE Restart
  <2>1. hub' = Boot(hub.recent)
    BY <1>5 DEF Restart
  <2>2. hub.recent \in Seq(Record) /\ Ascending(hub.recent)
    BY DEF Inv, Typed, HubState, Upheld, Mail, Chronicled
  <2>3. QED
    BY <2>1, <2>2, BootUpheld
<1>6. CASE UNCHANGED vars
  BY <1>6 DEF vars
<1>7. QED
  BY <1>1, <1>2, <1>3, <1>4, <1>5, <1>6 DEF Next

LEMMA InitUpheld == Init => Upheld(hub)
<1>1. << >> \in Seq(Record) /\ Ascending(<< >>)
  BY EmptySeq DEF Ascending
<1>2. QED
  BY <1>1, BootUpheld DEF Init

-----------------------------------------------------------------------------
(* Theorems.                                                               *)

LEMMA MailPromises ==
  ASSUME Inv(hub), Upheld(hub)
  PROVE  OldestFirst /\ PrivateStaysPrivate /\ SessionDoneNotMissed
<1>1. \A n \in Name : /\ hub.reg[n].queue \in Seq(Msg) /\ hub.reg[n].context \in Seq(Msg)
                      /\ Sound(hub.reg[n].queue, hub.reg[n].context, hub.counter, n)
  BY DEF Inv, Typed, HubState, Reg, Upheld, Mail
<1>2. \A n \in Name : \A m \in Waiting(hub.reg[n]) :
         m.id <= hub.counter /\ (m.private => m.to = n)
  <2> TAKE n \in Name
  <2> TAKE m \in Waiting(hub.reg[n])
  <2> DEFINE q == hub.reg[n].queue
             c == hub.reg[n].context
  <2>1. DOMAIN q = 1 .. Len(q) /\ DOMAIN c = 1 .. Len(c)
    BY <1>1, LenProperties
  <2>2. (\E i \in DOMAIN q : m = q[i]) \/ (\E i \in DOMAIN c : m = c[i])
    BY <2>1 DEF Waiting, Items
  <2>3. QED
    BY <1>1, <2>2 DEF Sound
<1>3. \A f \in hub.sent : f.t = "deliver" /\ f.name \in Agents(hub) =>
         Apt(f.msgs, hub.reg[f.name], f.name)
  BY DEF Upheld, Mail, Given
<1>4. Orderly(hub)
  BY <1>1, <1>2, <1>3 DEF Orderly, Sound, Apt
<1>5. Discreet(hub)
  BY <1>2, <1>3 DEF Discreet, Apt
<1>6. QED
  BY <1>4, <1>5 DEF OldestFirst, PrivateStaysPrivate, SessionDoneNotMissed, Upheld, Mail

\* Mail, with no session over, is an inductive invariant next to Inv: what
\* waits in any mailbox is in the order of its ids, under the counter and newer
\* than what the last step handed over (_enqueue, ContextBuffer, _flush_queue,
\* _route_say, _system_message, the late-join backlog, the reseeding of the
\* counter in Hub.__init__).
THEOREM MailInvariance == Spec => [](Inv(hub) /\ Upheld(hub))
<1>1. Init => Inv(hub) /\ Upheld(hub)
  BY InitInv, InitUpheld
<1>2. Inv(hub) /\ Upheld(hub) /\ [Next]_vars => (Inv(hub) /\ Upheld(hub))'
  BY NextInv, NextUpheld
<1>3. QED
  BY <1>1, <1>2, PTL DEF Spec

\* Nobody is given a message before an older one that waits for him: the wakes
\* and the context of a delivery are drained to one bound (_flush_queue), and
\* ids ascend, also after a restart.
THEOREM OldestFirstAlways == Spec => []OldestFirst
<1>1. Inv(hub) /\ Upheld(hub) => OldestFirst
  BY MailPromises
<1>2. QED
  BY MailInvariance, <1>1, PTL

\* A private message waits for and is handed to its addressee only, also as
\* backlog, from a queue that outlived its connection and after a restart
\* (_route_say, handle_hello).
THEOREM PrivateStaysPrivateAlways == Spec => []PrivateStaysPrivate
<1>1. Inv(hub) /\ Upheld(hub) => PrivateStaysPrivate
  BY MailPromises
<1>2. QED
  BY MailInvariance, <1>1, PTL

\* Every step that can leave all agents finished with nothing queued (a done
\* say, a flush, a departure) ends the session (_check_session_done).
THEOREM SessionDoneNotMissedAlways == Spec => []SessionDoneNotMissed
<1>1. Inv(hub) /\ Upheld(hub) => SessionDoneNotMissed
  BY MailPromises
<1>2. QED
  BY MailInvariance, <1>1, PTL
=============================================================================
