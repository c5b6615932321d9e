--------------------------- MODULE OpenCodeProofs ---------------------------
(***************************************************************************)
(* The OpenCode spoke, for any sessions, any cap and any bounds: what      *)
(* arrives is read in order or announced as dropped, the hub learns of     *)
(* every boundary of a turn, and nothing waits for what never comes.       *)
(*                                                                         *)
(* The inductive invariant has two halves that meet in the steps only.     *)
(* Sound is about the texts: where each of them is, in which order, and    *)
(* which sessions have been given the rules.  The rest is about one        *)
(* connection: what the hub and the spoke have still to tell each other    *)
(* (Agreed), and that a hub which takes the agent for busy is owed the     *)
(* report that it is idle (Awaited).                                       *)
(***************************************************************************)
EXTENDS OpenCode, SequenceTheorems, FiniteSetTheorems, TLAPS

Socket  == {"none", "opening", "hello", "welcomed"}
Id      == TopLevel \cup {NoSession}
Run     == [pc : {"free", "briefing", "posted", "taken", "answered"}, text : Nat,
            id : Id, brief : BOOLEAN]
Prompt  == [text : Nat, id : TopLevel, brief : BOOLEAN]
Seat    == [active : Id, reported : {"none", "idle", "busy"}, briefed : SUBSET TopLevel,
            children : SUBSET Child, held : Seq(Nat), dropped : Nat, notified : BOOLEAN,
            chain : Seq(Nat), run : Run]
Past    == [got : Nat, read : Seq(Prompt), held : SUBSET Nat, told : Nat,
            failed : BOOLEAN, moved : BOOLEAN]
Upward  == [t : {"hello"}] \cup [t : {"state"}, is : {"idle", "busy"}] \cup [t : {"say"}, seq : Nat]
Downward == [t : {"welcome", "err", "deliver", "odd"}] \cup [t : {"ok"}, seq : Nat]
Turns   == {"absent", "rest", "busy", "replied"}

ConnTyped == conn \in [sock : Socket, stopped : BOOLEAN, retry : BOOLEAN, seq : Nat,
                       pending : SUBSET Nat]
HubTyped  == hub \in [up : BOOLEAN, known : BOOLEAN, holder : {"none", "ours", "ghost"},
                      state : {"idle", "busy"}, heard : {"none", "idle", "busy"},
                      queue : Nat, said : Nat, outages : Nat]
WireTyped == wire \in [open : BOOLEAN, toHub : Seq(Upward), toSpoke : Seq(Downward)]
HostTyped == host \in [turn : [Session -> Turns], begun : Nat]
TextTyped(s) == s \in [seat : Seat, past : Past]

Typed == ConnTyped /\ HubTyped /\ WireTyped /\ HostTyped

-----------------------------------------------------------------------------
(* Where the texts are: posted, being briefed for, in the chain, held.     *)

Read(s)    == {s.past.read[i].text : i \in DOMAIN s.past.read}
Asked(s)   == {s.past.read[i].id : i \in DOMAIN s.past.read}
OnItsWay(s) == IF s.seat.run.pc = "briefing" THEN {s.seat.run.text} ELSE {}
Chained(s) == ToSet(s.seat.chain)
Waiting(s) == ToSet(s.seat.held)
Line(s)    == Read(s) \cup OnItsWay(s) \cup Chained(s)
Gone(s)    == (1 .. s.past.got) \ (Line(s) \cup Waiting(s))

\* ReadInOrder for the texts of A, all before those of B, and within a sequence.
Like(s, x, y)   == x \in s.past.held <=> y \in s.past.held
Before(s, A, B) == \A x \in A, y \in B : Like(s, x, y) => x < y
Rising(s, q)    == \A i, j \in DOMAIN q : i < j /\ Like(s, q[i], q[j]) => q[i] < q[j]

Numbered(s) == Line(s) \cup Waiting(s) \cup s.past.held \subseteq 1 .. s.past.got

Ordered(s) ==
  /\ \A i, j \in DOMAIN s.past.read :
       i < j /\ Like(s, s.past.read[i].text, s.past.read[j].text)
         => s.past.read[i].text < s.past.read[j].text
  /\ Before(s, Read(s), OnItsWay(s)) /\ Before(s, Read(s), Chained(s))
  /\ Before(s, OnItsWay(s), Chained(s)) /\ Rising(s, s.seat.chain)

\* Texts wait for the first session only, and all texts before it did.
Apart(s) ==
  /\ Len(s.seat.held) <= HeldCap
  /\ \A i, j \in DOMAIN s.seat.held : i < j => s.seat.held[i] < s.seat.held[j]
  /\ Waiting(s) \subseteq s.past.held
  /\ Waiting(s) # {} => Line(s) \cap s.past.held = {}
  /\ s.seat.active = NoSession =>
       /\ s.seat.run = Free /\ s.past.read = << >>
       /\ \/ s.seat.chain = << >>
          \/ s.past.got > 0 /\ s.seat.chain = << s.past.got >> /\ s.past.got \notin s.past.held

Counted(s) == Cardinality(Gone(s)) = s.seat.dropped + s.past.told

\* The text under way, and the sessions that had the rules.
Running(s) ==
  /\ s.seat.run.pc = "free" => s.seat.run = Free
  /\ s.seat.run.pc # "free" => s.seat.run.id \in TopLevel
  /\ s.seat.run.pc \in {"posted", "taken", "answered"} => s.seat.run.text \in Read(s)
Instructed(s) ==
  /\ s.seat.run.pc = "briefing" =>
       /\ s.seat.run.brief <=> s.seat.run.id \notin Asked(s)
       /\ s.seat.briefed = Asked(s) \cup {s.seat.run.id}
  /\ s.seat.run.pc # "briefing" => s.seat.briefed = Asked(s)
  /\ \A i \in DOMAIN s.past.read :
       s.past.read[i].brief <=> \A j \in 1 .. i - 1 : s.past.read[j].id # s.past.read[i].id

Sound(s) ==
  TextTyped(s) /\ Numbered(s) /\ Ordered(s) /\ Apart(s) /\ Counted(s) /\ Running(s) /\ Instructed(s)

\* Some text has still to be read.
Unread(s) ==
  s.seat.chain # << >> \/ s.seat.held # << >> \/ s.seat.run.pc \in {"briefing", "posted"}

\* Nothing is left in the chain for the next time.
Settled(s) == s.seat.run.pc = "free" => s.seat.chain = << >>

-----------------------------------------------------------------------------
(* The turns, the connection and the hub.                                  *)

InTurn(id) == host.turn[id] \in {"busy", "replied"}

Followed ==
  /\ \A c \in Child : host.turn[c] # "absent" => c \in seat.children
  /\ seat.reported = "busy" <=> seat.active # NoSession /\ InTurn(seat.active)
  /\ seat.active = NoSession => \A id \in TopLevel : ~InTurn(id)
  /\ ~past.moved /\ seat.run.pc # "free" => seat.run.id = seat.active

Tidy ==
  /\ conn.pending # {} => conn.sock = "welcomed"
  /\ conn.pending \subseteq 1 .. conn.seq
  /\ conn.stopped => conn.sock = "none" /\ ~conn.retry
  /\ conn.sock # "none" => ~conn.retry

\* Of one connection, hub and spoke hold the same.
Agreed ==
  /\ ~Live => wire = NoSocket
  /\ hub.holder = "ours" => Live /\ wire.open
  /\ conn.sock = "hello" /\ wire.open =>
       \/ wire.toHub = << [t |-> "hello"] >> /\ wire.toSpoke = << >> /\ hub.holder # "ours"
       \/ /\ wire.toHub = << >> /\ hub.holder = "ours" /\ hub.heard = "none"
          /\ wire.toSpoke # << >> /\ Head(wire.toSpoke).t = "welcome"
  /\ conn.sock = "welcomed" /\ wire.open =>
       hub.holder = "ours" /\ \A f \in ToSet(wire.toHub) : f.t # "hello"

\* An agent that the hub takes for busy has yet to say that it is idle.
Given == \E f \in ToSet(wire.toSpoke) : f.t = "deliver"
Owed ==
  \/ \E f \in ToSet(wire.toHub) : f.t = "state" /\ f.is = "idle"
  \/ Given \/ Unread(Now) \/ seat.reported = "busy"

Awaited ==
  hub.holder = "ours" =>
    /\ hub.state = "idle" => hub.queue = 0
    /\ hub.state = "busy" /\ ~past.failed /\ ~past.moved =>
         /\ conn.sock = "hello" => Given
         /\ conn.sock = "welcomed" => Owed

Linked == Tidy /\ NeverStranded /\ SayHasAnswer /\ Agreed /\ StateRestated /\ Awaited

Inv == Typed /\ Sound(Now) /\ Settled(Now) /\ Followed /\ Linked

-----------------------------------------------------------------------------
(* Sequences.                                                              *)

LEMMA SetOf ==
  ASSUME NEW S, NEW q \in Seq(S)
  PROVE  /\ Len(q) \in Nat /\ DOMAIN q = 1 .. Len(q)
         /\ \A i \in 1 .. Len(q) : q[i] \in S /\ q[i] \in ToSet(q)
         /\ \A x \in ToSet(q) : x \in S /\ \E i \in 1 .. Len(q) : q[i] = x
         /\ ToSet(q) = {} <=> q = << >>
<1>1. Len(q) \in Nat /\ DOMAIN q = 1 .. Len(q)
  BY LenProperties
<1>2. \A i \in 1 .. Len(q) : q[i] \in S
  BY ElementOfSeq
<1>3. ToSet(q) = {} <=> q = << >>
  <2>1. CASE q = << >>
    BY <2>1 DEF ToSet
  <2>2. CASE q # << >>
    <3>1. 1 \in 1 .. Len(q)
      BY <1>1, <2>2, EmptySeq
    <3> QED
      BY <1>1, <2>2, <3>1 DEF ToSet
  <2> QED
    BY <2>1, <2>2
<1> QED
  BY <1>1, <1>2, <1>3 DEF ToSet

LEMMA Added ==
  ASSUME NEW S, NEW q \in Seq(S), NEW x \in S
  PROVE  /\ Append(q, x) \in Seq(S) /\ Len(Append(q, x)) = Len(q) + 1
         /\ \A i \in 1 .. Len(q) : Append(q, x)[i] = q[i]
         /\ Append(q, x)[Len(q) + 1] = x
         /\ ToSet(Append(q, x)) = ToSet(q) \cup {x}
<1> DEFINE n == Len(q)
           a == Append(q, x)
<1>1. /\ a \in Seq(S) /\ Len(a) = n + 1 /\ (\A i \in 1 .. n : a[i] = q[i]) /\ a[n + 1] = x
  BY AppendProperties
<1>2. n \in Nat
  BY LenProperties
<1>3. DOMAIN a = 1 .. n + 1 /\ DOMAIN q = 1 .. n
  BY <1>1, LenProperties
<1>4. ToSet(a) = ToSet(q) \cup {x}
  <2> HIDE DEF a, n
  <2>1. 1 .. n + 1 = (1 .. n) \cup {n + 1}
    BY <1>2
  <2> QED
    BY <1>1, <1>3, <2>1 DEF ToSet
<1> QED
  BY <1>1, <1>4

LEMMA Joined ==
  ASSUME NEW S, NEW q \in Seq(S), NEW r \in Seq(S)
  PROVE  /\ q \o r \in Seq(S) /\ Len(q \o r) = Len(q) + Len(r)
         /\ \A i \in 1 .. Len(q) : (q \o r)[i] = q[i]
         /\ \A i \in 1 .. Len(q) + Len(r) : i > Len(q) => (q \o r)[i] = r[i - Len(q)]
         /\ ToSet(q \o r) = ToSet(q) \cup ToSet(r)
<1> DEFINE m == Len(q)
           n == Len(r)
           a == q \o r
<1>1. m \in Nat /\ n \in Nat
  BY LenProperties
<1>2. /\ a \in Seq(S) /\ Len(a) = m + n
      /\ \A i \in 1 .. m + n : a[i] = IF i <= m THEN q[i] ELSE r[i - m]
  BY ConcatProperties
<1>3. DOMAIN a = 1 .. m + n /\ DOMAIN q = 1 .. m /\ DOMAIN r = 1 .. n
  BY <1>2, LenProperties
<1> HIDE DEF a, m, n
<1>4. \A i \in 1 .. m : a[i] = q[i]
  BY <1>1, <1>2
<1>5. \A i \in 1 .. m + n : i > m => a[i] = r[i - m]
  BY <1>1, <1>2
<1>6. \A j \in 1 .. n : a[j + m] = r[j] /\ j + m \in 1 .. m + n
  <2> TAKE j \in 1 .. n
  <2>1. j + m \in 1 .. m + n /\ j + m > m /\ (j + m) - m = j
    BY <1>1
  <2> QED
    BY <1>5, <2>1
<1>7. ToSet(a) \subseteq ToSet(q) \cup ToSet(r)
  <2> SUFFICES ASSUME NEW i \in 1 .. m + n PROVE a[i] \in ToSet(q) \cup ToSet(r)
    BY <1>3 DEF ToSet
  <2>1. CASE i <= m
    BY <1>1, <1>3, <1>4, <2>1 DEF ToSet
  <2>2. CASE i > m
    <3>1. i - m \in 1 .. n
      BY <1>1, <2>2
    <3> QED
      BY <1>3, <1>5, <2>2, <3>1 DEF ToSet
  <2> QED
    BY <1>1, <2>1, <2>2
<1>8. ToSet(q) \subseteq ToSet(a)
  <2>1. \A i \in 1 .. m : i \in 1 .. m + n
    BY <1>1
  <2> QED
    BY <1>3, <1>4, <2>1 DEF ToSet
<1>9. ToSet(r) \subseteq ToSet(a)
  BY <1>3, <1>6 DEF ToSet
<1> QED
  BY <1>2, <1>4, <1>5, <1>7, <1>8, <1>9 DEF a, m, n

LEMMA Rest1 ==
  ASSUME NEW S, NEW q \in Seq(S), q # << >>
  PROVE  /\ Tail(q) \in Seq(S) /\ Len(Tail(q)) = Len(q) - 1 /\ Len(q) > 0
         /\ Head(q) = q[1] /\ Head(q) \in S
         /\ \A i \in 1 .. Len(q) - 1 : Tail(q)[i] = q[i + 1]
         /\ ToSet(q) = {Head(q)} \cup ToSet(Tail(q))
<1> DEFINE n == Len(q)
           t == Tail(q)
<1>1. n \in Nat /\ n > 0 /\ DOMAIN q = 1 .. n
  BY LenProperties, EmptySeq
<1>2. /\ Head(q) \in S /\ t \in Seq(S) /\ Len(t) = n - 1
      /\ \A i \in 1 .. Len(t) : t[i] = q[i + 1]
  BY HeadTailProperties
<1>3. Head(q) = q[1]
  OBVIOUS
<1>4. DOMAIN t = 1 .. n - 1
  BY <1>2, LenProperties
<1> HIDE DEF n, t
<1>5. \A i \in 1 .. n : i = 1 \/ (i - 1 \in 1 .. n - 1 /\ (i - 1) + 1 = i)
  BY <1>1
<1>6. ToSet(q) \subseteq {Head(q)} \cup ToSet(t)
  <2> SUFFICES ASSUME NEW i \in 1 .. n PROVE q[i] \in {Head(q)} \cup ToSet(t)
    BY <1>1 DEF ToSet
  <2>1. CASE i = 1
    BY <1>3, <2>1
  <2>2. CASE i - 1 \in 1 .. n - 1 /\ (i - 1) + 1 = i
    BY <1>2, <1>4, <2>2 DEF ToSet
  <2> QED
    BY <1>5, <2>1, <2>2
<1>7. {Head(q)} \cup ToSet(t) \subseteq ToSet(q)
  <2>1. 1 \in 1 .. n /\ \A i \in 1 .. n - 1 : i + 1 \in 1 .. n
    BY <1>1
  <2> QED
    BY <1>1, <1>2, <1>3, <1>4, <2>1 DEF ToSet
<1> QED
  BY <1>1, <1>2, <1>3, <1>6, <1>7 DEF n, t

LEMMA Single ==
  ASSUME NEW x
  PROVE  /\ Len(<< x >>) = 1 /\ << x >>[1] = x /\ ToSet(<< x >>) = {x} /\ DOMAIN << x >> = {1}
         /\ << x >> # << >> /\ Head(<< x >>) = x /\ Tail(<< x >>) = << >>
         /\ \A S : x \in S => << x >> \in Seq(S)
BY DEF ToSet

-----------------------------------------------------------------------------
(* What the operators on a seat and its past do.                           *)

LEMMA TextParts ==
  ASSUME NEW s, TextTyped(s)
  PROVE  /\ s.seat.active \in Id /\ s.seat.briefed \in SUBSET TopLevel
         /\ s.seat.held \in Seq(Nat) /\ s.seat.dropped \in Nat /\ s.seat.chain \in Seq(Nat)
         /\ s.seat.run \in Run /\ s.seat.run.text \in Nat /\ s.seat.run.id \in Id
         /\ s.seat.run.brief \in BOOLEAN
         /\ s.seat.run.pc \in {"free", "briefing", "posted", "taken", "answered"}
         /\ s.past.got \in Nat /\ s.past.read \in Seq(Prompt) /\ s.past.held \subseteq Nat
         /\ s.past.told \in Nat
         /\ s.seat \in Seat /\ s.past \in Past
BY DEF TextTyped, Seat, Past, Run

LEMMA Constants ==
  /\ HeldCap \in Nat /\ HeldCap > 0 /\ NoSession \notin TopLevel /\ NoSession \notin Child
  /\ TopLevel \cap Child = {} /\ Free \in Run /\ Session = TopLevel \cup Child
  /\ MaxMsg \in Nat /\ MaxOutage \in Nat /\ MaxSay \in Nat /\ MaxTurn \in Nat
BY PluginAssumption DEF Session, Free, Run, Id

\* Nothing but texts and the run changes.
Outside(s, p) ==
  /\ p.seat.active = s.seat.active /\ p.seat.reported = s.seat.reported
  /\ p.seat.children = s.seat.children
  /\ p.past.moved = s.past.moved /\ (s.past.failed => p.past.failed)

Posted(s, p) ==
  /\ TextTyped(p) /\ Outside(s, p) /\ p.past.failed = s.past.failed
  /\ p.seat.run.pc = "posted" /\ p.seat.run.text = s.seat.run.text
  /\ p.seat.run.id = s.seat.run.id
  /\ p.seat.held = s.seat.held /\ p.seat.chain = s.seat.chain
  /\ p.seat.dropped = s.seat.dropped /\ p.seat.briefed = s.seat.briefed
  /\ p.past.got = s.past.got /\ p.past.held = s.past.held /\ p.past.told = s.past.told
  /\ p.past.read = Append(s.past.read, [text |-> s.seat.run.text, id |-> s.seat.run.id,
                                        brief |-> s.seat.run.brief])

LEMMA PostDoes ==
  ASSUME NEW s, TextTyped(s), s.seat.run.id \in TopLevel
  PROVE  Posted(s, Post(s))
<1> DEFINE x == [text |-> s.seat.run.text, id |-> s.seat.run.id, brief |-> s.seat.run.brief]
           r == [s.seat.run EXCEPT !.pc = "posted"]
           e == [s.seat EXCEPT !.run = r]
           q == Append(s.past.read, x)
           h == [s.past EXCEPT !.read = q]
<1>1. x \in Prompt
  BY TextParts DEF Prompt
<1>2. q \in Seq(Prompt)
  BY <1>1, TextParts, Added
<1>3. r \in Run /\ r.pc = "posted" /\ r.text = s.seat.run.text /\ r.id = s.seat.run.id
  BY TextParts DEF Run
<1>4. Post(s) = [seat |-> e, past |-> h]
  <2>1. s = [seat |-> s.seat, past |-> s.past]
    BY DEF TextTyped
  <2>3. Post(s) = [s EXCEPT !.seat = e, !.past = h]
    BY <2>1 DEF Post
  <2> HIDE DEF e, h
  <2> QED
    BY <2>1, <2>3
<1> HIDE DEF q, r
<1>5. e \in Seat /\ e.run = r
  BY <1>3, TextParts DEF Seat
<1>6. h \in Past /\ h.read = q
  BY <1>2, TextParts DEF Past
<1>7. /\ e.active = s.seat.active /\ e.reported = s.seat.reported
      /\ e.children = s.seat.children /\ e.held = s.seat.held /\ e.chain = s.seat.chain
      /\ e.dropped = s.seat.dropped /\ e.briefed = s.seat.briefed
  BY TextParts DEF Seat
<1>8. /\ h.got = s.past.got /\ h.held = s.past.held /\ h.told = s.past.told
      /\ h.failed = s.past.failed /\ h.moved = s.past.moved
  BY TextParts DEF Past
<1> HIDE DEF e, h, x
<1>9. TextTyped(Post(s)) /\ Post(s).seat = e /\ Post(s).past = h
  BY <1>4, <1>5, <1>6 DEF TextTyped
<1> QED
  BY <1>3, <1>5, <1>6, <1>7, <1>8, <1>9 DEF Posted, Outside, q, x

Started(s, p) ==
  /\ TextTyped(p) /\ Outside(s, p) /\ p.past = s.past
  /\ s.seat.chain # << >> /\ s.seat.active \in TopLevel
  /\ p.seat.run = [pc |-> "briefing", text |-> Head(s.seat.chain), id |-> s.seat.active,
                   brief |-> Fresh(s)]
  /\ p.seat.chain = Tail(s.seat.chain) /\ p.seat.briefed = s.seat.briefed \cup {s.seat.active}
  /\ p.seat.held = s.seat.held /\ p.seat.dropped = s.seat.dropped

Begun(s) ==
  [s EXCEPT !.seat.chain = Tail(@), !.seat.briefed = @ \cup {s.seat.active},
            !.seat.run = [pc |-> "briefing", text |-> Head(s.seat.chain),
                          id |-> s.seat.active, brief |-> Fresh(s)]]

LEMMA BegunDoes ==
  ASSUME NEW s, TextTyped(s), s.seat.chain # << >>, s.seat.active \in TopLevel
  PROVE  Started(s, Begun(s))
<1> DEFINE r == [pc |-> "briefing", text |-> Head(s.seat.chain), id |-> s.seat.active,
                 brief |-> Fresh(s)]
           c == Tail(s.seat.chain)
           b == s.seat.briefed \cup {s.seat.active}
           e == [s.seat EXCEPT !.chain = c, !.briefed = b, !.run = r]
<1>1. c \in Seq(Nat) /\ Head(s.seat.chain) \in Nat
  BY TextParts, Rest1
<1>2. r \in Run
  BY <1>1 DEF Run, Id, Fresh
<1>3. b \in SUBSET TopLevel
  BY TextParts
<1>4. Begun(s) = [seat |-> e, past |-> s.past]
  <2>1. s = [seat |-> s.seat, past |-> s.past]
    BY DEF TextTyped
  <2>2. Begun(s) = [s EXCEPT !.seat = e]
    BY <2>1 DEF Begun
  <2> HIDE DEF e
  <2> QED
    BY <2>1, <2>2
<1> HIDE DEF r, c, b
<1>5. e \in Seat /\ e.run = r /\ e.chain = c /\ e.briefed = b
  BY <1>1, <1>2, <1>3, TextParts DEF Seat
<1>6. /\ e.active = s.seat.active /\ e.reported = s.seat.reported
      /\ e.children = s.seat.children /\ e.held = s.seat.held /\ e.dropped = s.seat.dropped
  BY TextParts DEF Seat
<1> HIDE DEF e
<1>7. TextTyped(Begun(s)) /\ Begun(s).seat = e /\ Begun(s).past = s.past
  BY <1>4, <1>5, TextParts DEF TextTyped
<1> QED
  BY <1>5, <1>6, <1>7 DEF Started, Outside, r, c, b

HeldBack(s, p) ==
  LET all  == s.seat.held \o s.seat.chain
      over == IF Len(all) > HeldCap THEN Len(all) - HeldCap ELSE 0
  IN  /\ TextTyped(p) /\ Outside(s, p) /\ p.past.failed = s.past.failed
      /\ p.seat.held = SubSeq(all, over + 1, Len(all)) /\ p.seat.dropped = s.seat.dropped + over
      /\ p.past.held = s.past.held \cup ToSet(s.seat.chain)
      /\ p.seat.chain = << >> /\ p.seat.run = s.seat.run /\ p.seat.briefed = s.seat.briefed
      /\ p.past.got = s.past.got /\ p.past.read = s.past.read /\ p.past.told = s.past.told

Emptied(s) == [s EXCEPT !.seat.chain = << >>]

LEMMA HoldDoes ==
  ASSUME NEW s, TextTyped(s)
  PROVE  HeldBack(s, Hold(Emptied(s), s.seat.chain))
<1> DEFINE all  == s.seat.held \o s.seat.chain
           over == IF Len(all) > HeldCap THEN Len(all) - HeldCap ELSE 0
           w    == SubSeq(all, over + 1, Len(all))
           d    == s.seat.dropped + over
           g    == s.past.held \cup ToSet(s.seat.chain)
           e    == [s.seat EXCEPT !.chain = << >>, !.held = w, !.dropped = d]
           h    == [s.past EXCEPT !.held = g]
<1>1. all \in Seq(Nat)
  BY TextParts, Joined
<1>2. Len(all) \in Nat
  BY <1>1, LenProperties
<1>3. over \in Nat
  <2> HIDE DEF all
  <2>1. CASE Len(all) > HeldCap
    BY <1>2, <2>1, Constants
  <2>2. CASE ~(Len(all) > HeldCap)
    BY <2>2
  <2> QED
    BY <2>1, <2>2
<1> HIDE DEF over
<1>4. w \in Seq(Nat)
  <2> HIDE DEF all
  <2>1. \A i \in over + 1 .. Len(all) : all[i] \in Nat
    <3>1. \A i \in over + 1 .. Len(all) : i \in 1 .. Len(all)
      BY <1>2, <1>3
    <3> QED
      BY <1>1, <3>1, ElementOfSeq
  <2> QED
    BY <1>1, <1>2, <1>3, <2>1, SubSeqProperties
<1>5. d \in Nat
  BY <1>3, TextParts
<1>6. g \in SUBSET Nat
  BY TextParts, SetOf
<1>7. Hold(Emptied(s), s.seat.chain) = [seat |-> e, past |-> h]
  <2> DEFINE c == [s.seat EXCEPT !.chain = << >>]
  <2>1. s = [seat |-> s.seat, past |-> s.past]
    BY DEF TextTyped
  <2>2. Emptied(s) = [seat |-> c, past |-> s.past]
    BY <2>1 DEF Emptied
  <2>3. c \in Seat /\ c.held = s.seat.held /\ c.dropped = s.seat.dropped
    BY TextParts, EmptySeq DEF Seat
  <2>4. e = [c EXCEPT !.held = w, !.dropped = d]
    BY TextParts DEF Seat
  <2> HIDE DEF c
  <2> DEFINE z == Emptied(s)
             a == z.seat.held \o s.seat.chain
             o == IF Len(a) > HeldCap THEN Len(a) - HeldCap ELSE 0
  <2>5. Hold(z, s.seat.chain) = [z EXCEPT !.seat.held = SubSeq(a, o + 1, Len(a)),
                                          !.seat.dropped = @ + o,
                                          !.past.held = @ \cup ToSet(s.seat.chain)]
    BY DEF Hold
  <2>6. z = [seat |-> c, past |-> s.past] /\ z.seat = c /\ z.past = s.past
    BY <2>2
  <2>7. a = all
    BY <2>3, <2>6
  <2>8. o = over
    BY <2>7 DEF over
  <2> HIDE DEF z, a, o, all, over
  <2>9. Hold(z, s.seat.chain) = [z EXCEPT !.seat.held = w, !.seat.dropped = @ + over,
                                          !.past.held = g]
    BY <2>5, <2>6, <2>7, <2>8
  <2>10. Hold(z, s.seat.chain) = [seat |-> [c EXCEPT !.held = w, !.dropped = d], past |-> h]
    <3> HIDE DEF w, g
    <3>1. c.dropped + over = d
      BY <2>3
    <3>2. Hold(z, s.seat.chain) = [z EXCEPT !.seat.held = w, !.seat.dropped = d,
                                            !.past.held = g]
      BY <2>6, <2>9, <3>1
    <3>3. h = [s.past EXCEPT !.held = g]
      BY DEF h
    <3> HIDE DEF h, d, c
    <3> QED
      BY <2>6, <3>2, <3>3
  <2> QED
    BY <2>4, <2>10 DEF z
<1> HIDE DEF w, d, g, all
<1>8. << >> \in Seq(Nat)
  BY EmptySeq
<1>9. e \in Seat /\ e.held = w /\ e.chain = << >> /\ e.dropped = d
  BY <1>4, <1>5, <1>8, TextParts DEF Seat
<1>10. /\ e.active = s.seat.active /\ e.reported = s.seat.reported
       /\ e.children = s.seat.children /\ e.run = s.seat.run /\ e.briefed = s.seat.briefed
  BY TextParts DEF Seat
<1>11. /\ h \in Past /\ h.held = g /\ h.got = s.past.got /\ h.read = s.past.read
       /\ h.told = s.past.told /\ h.failed = s.past.failed /\ h.moved = s.past.moved
  BY <1>6, TextParts DEF Past
<1> HIDE DEF e, h
<1> DEFINE p == Hold(Emptied(s), s.seat.chain)
<1>12. TextTyped(p) /\ p.seat = e /\ p.past = h
  BY <1>7, <1>9, <1>11 DEF TextTyped
<1> HIDE DEF p
<1>13. HeldBack(s, p)
  BY <1>9, <1>10, <1>11, <1>12 DEF HeldBack, Outside, w, d, g, over, all
<1> QED
  BY <1>13 DEF p

-----------------------------------------------------------------------------
(* The texts stay sound: a prompt is posted.                               *)

LEMMA ReadIs ==
  ASSUME NEW s, TextTyped(s)
  PROVE  /\ Len(s.past.read) \in Nat /\ DOMAIN s.past.read = 1 .. Len(s.past.read)
         /\ \A i \in 1 .. Len(s.past.read) :
              s.past.read[i] \in Prompt /\ s.past.read[i].text \in Read(s)
              /\ s.past.read[i].text \in Nat /\ s.past.read[i].id \in Asked(s)
         /\ Read(s) \subseteq Nat /\ Asked(s) \subseteq TopLevel
<1>1. Len(s.past.read) \in Nat /\ DOMAIN s.past.read = 1 .. Len(s.past.read)
  BY TextParts, LenProperties
<1>2. \A i \in 1 .. Len(s.past.read) : s.past.read[i] \in Prompt
  BY TextParts, ElementOfSeq
<1> QED
  BY <1>1, <1>2 DEF Read, Asked, Prompt

LEMMA GrownRead ==
  ASSUME NEW s, NEW p, TextTyped(s), NEW x \in Prompt, p.past.read = Append(s.past.read, x)
  PROVE  /\ Read(p) = Read(s) \cup {x.text} /\ Asked(p) = Asked(s) \cup {x.id}
         /\ Len(p.past.read) = Len(s.past.read) + 1
         /\ DOMAIN p.past.read = 1 .. Len(s.past.read) + 1
         /\ \A i \in 1 .. Len(s.past.read) : p.past.read[i] = s.past.read[i]
         /\ p.past.read[Len(s.past.read) + 1] = x
<1> DEFINE q == s.past.read
           n == Len(q)
           a == Append(q, x)
<1>1. q \in Seq(Prompt)
  BY TextParts
<1>2. a \in Seq(Prompt) /\ Len(a) = n + 1 /\ (\A i \in 1 .. n : a[i] = q[i]) /\ a[n + 1] = x
  BY <1>1, Added
<1>3. n \in Nat /\ DOMAIN q = 1 .. n /\ DOMAIN a = 1 .. n + 1
  BY <1>1, <1>2, LenProperties
<1>4. p.past.read = a
  OBVIOUS
<1> HIDE DEF a, n
<1>5. 1 .. n + 1 = (1 .. n) \cup {n + 1}
  BY <1>3
<1>6. Read(p) = Read(s) \cup {x.text} /\ Asked(p) = Asked(s) \cup {x.id}
  BY <1>2, <1>3, <1>4, <1>5 DEF Read, Asked
<1> QED
  BY <1>2, <1>3, <1>4, <1>6 DEF n

LEMMA PostedPlaces ==
  ASSUME NEW s, NEW p, TextTyped(s), s.seat.run.pc = "briefing", s.seat.run.id \in TopLevel,
         Posted(s, p)
  PROVE  /\ Read(p) = Read(s) \cup {s.seat.run.text} /\ OnItsWay(s) = {s.seat.run.text}
         /\ OnItsWay(p) = {} /\ Chained(p) = Chained(s) /\ Waiting(p) = Waiting(s)
         /\ Line(p) = Line(s) /\ Gone(p) = Gone(s)
<1> DEFINE x == [text |-> s.seat.run.text, id |-> s.seat.run.id, brief |-> s.seat.run.brief]
<1>1. x \in Prompt /\ x.text = s.seat.run.text
  BY TextParts DEF Prompt
<1>2. p.past.read = Append(s.past.read, x)
  BY DEF Posted
<1>3. Read(p) = Read(s) \cup {s.seat.run.text}
  BY <1>1, <1>2, GrownRead
<1>4. OnItsWay(s) = {s.seat.run.text} /\ OnItsWay(p) = {}
  BY DEF OnItsWay, Posted
<1>5. Chained(p) = Chained(s) /\ Waiting(p) = Waiting(s) /\ p.past.got = s.past.got
  BY DEF Chained, Waiting, Posted
<1>6. Line(p) = Line(s)
  BY <1>3, <1>4, <1>5 DEF Line
<1> QED
  BY <1>3, <1>4, <1>5, <1>6 DEF Gone

LEMMA PostedSound ==
  ASSUME NEW s, NEW p, Sound(s), s.seat.run.pc = "briefing", Posted(s, p)
  PROVE  Sound(p)
<1> DEFINE x == [text |-> s.seat.run.text, id |-> s.seat.run.id, brief |-> s.seat.run.brief]
           n == Len(s.past.read)
<1>1. TextTyped(s) /\ TextTyped(p) /\ s.seat.run.id \in TopLevel
  BY DEF Sound, Posted, Running
<1>2. /\ Read(p) = Read(s) \cup {s.seat.run.text} /\ OnItsWay(s) = {s.seat.run.text}
      /\ OnItsWay(p) = {} /\ Chained(p) = Chained(s) /\ Waiting(p) = Waiting(s)
      /\ Line(p) = Line(s) /\ Gone(p) = Gone(s)
  BY <1>1, PostedPlaces
<1>3. /\ p.past.got = s.past.got /\ p.past.held = s.past.held /\ p.past.told = s.past.told
      /\ p.seat.held = s.seat.held /\ p.seat.chain = s.seat.chain
      /\ p.seat.dropped = s.seat.dropped /\ p.seat.active = s.seat.active
      /\ p.seat.briefed = s.seat.briefed
      /\ p.seat.run.pc = "posted" /\ p.seat.run.id = s.seat.run.id
      /\ p.seat.run.text = s.seat.run.text
  BY DEF Posted, Outside
<1>4. x \in Prompt /\ x.text = s.seat.run.text /\ x.id = s.seat.run.id
      /\ x.brief = s.seat.run.brief
  BY <1>1, TextParts DEF Prompt
<1>5. /\ Asked(p) = Asked(s) \cup {s.seat.run.id}
      /\ DOMAIN p.past.read = 1 .. n + 1
      /\ \A i \in 1 .. n : p.past.read[i] = s.past.read[i]
      /\ p.past.read[n + 1] = x
  <2>1. p.past.read = Append(s.past.read, x)
    BY DEF Posted
  <2> QED
    BY <1>1, <1>4, <2>1, GrownRead
<1>6. /\ n \in Nat /\ DOMAIN s.past.read = 1 .. n
      /\ \A i \in 1 .. n : s.past.read[i].text \in Read(s) /\ s.past.read[i].id \in Asked(s)
  BY <1>1, ReadIs
<1>7. \A i \in 1 .. n + 1 : i \in 1 .. n \/ i = n + 1
  BY <1>6
<1> HIDE DEF x, n
<1>8. Numbered(p)
  BY <1>2, <1>3 DEF Sound, Numbered
<1>9. Ordered(p)
  <2>1. ASSUME NEW i \in 1 .. n + 1, NEW j \in 1 .. n + 1, i < j,
               Like(p, p.past.read[i].text, p.past.read[j].text)
        PROVE  p.past.read[i].text < p.past.read[j].text
    <3>1. i \in 1 .. n /\ p.past.read[i] = s.past.read[i]
      BY <1>5, <1>6, <2>1
    <3>2. CASE j \in 1 .. n
      <4>1. Like(s, s.past.read[i].text, s.past.read[j].text)
        BY <1>3, <1>5, <2>1, <3>1, <3>2 DEF Like
      <4> QED
        BY <1>5, <1>6, <2>1, <3>1, <3>2, <4>1 DEF Sound, Ordered
    <3>3. CASE j = n + 1
      <4>1. Like(s, s.past.read[i].text, s.seat.run.text)
        BY <1>3, <1>4, <1>5, <2>1, <3>1, <3>3 DEF Like
      <4>2. s.past.read[i].text < s.seat.run.text
        BY <1>2, <1>6, <3>1, <4>1 DEF Sound, Ordered, Before
      <4> QED
        BY <1>4, <1>5, <3>1, <3>3, <4>2
    <3> QED
      BY <1>7, <3>2, <3>3
  <2>2. Before(p, Read(p), OnItsWay(p)) /\ Before(p, OnItsWay(p), Chained(p))
    BY <1>2 DEF Before
  <2>3. Before(p, Read(p), Chained(p))
    <3>1. Before(s, Read(s), Chained(s)) /\ Before(s, OnItsWay(s), Chained(s))
      BY DEF Sound, Ordered
    <3> QED
      BY <1>2, <1>3, <3>1 DEF Before, Like
  <2>4. Rising(p, p.seat.chain)
    <3>1. Rising(s, s.seat.chain)
      BY DEF Sound, Ordered
    <3> QED
      BY <1>3, <3>1 DEF Rising, Like
  <2> QED
    BY <1>5, <2>1, <2>2, <2>3, <2>4 DEF Ordered
<1>10. Apart(p)
  <2>1. s.seat.active # NoSession
    BY DEF Sound, Apart, Free
  <2> QED
    BY <1>2, <1>3, <2>1 DEF Sound, Apart
<1>11. Counted(p)
  BY <1>2, <1>3 DEF Sound, Counted
<1>12. Running(p)
  BY <1>1, <1>2, <1>3 DEF Running
<1>13. Instructed(p)
  <2>1. /\ s.seat.run.brief <=> s.seat.run.id \notin Asked(s)
        /\ s.seat.briefed = Asked(s) \cup {s.seat.run.id}
        /\ \A i \in 1 .. n :
             s.past.read[i].brief <=> \A j \in 1 .. i - 1 : s.past.read[j].id # s.past.read[i].id
    BY <1>6 DEF Sound, Instructed
  <2>2. p.seat.briefed = Asked(p)
    BY <1>3, <1>5, <2>1
  <2>3. ASSUME NEW i \in 1 .. n + 1
        PROVE  p.past.read[i].brief
                 <=> \A j \in 1 .. i - 1 : p.past.read[j].id # p.past.read[i].id
    <3>1. CASE i \in 1 .. n
      <4>1. \A j \in 1 .. i - 1 : p.past.read[j] = s.past.read[j]
        <5>1. \A j \in 1 .. i - 1 : j \in 1 .. n
          BY <1>6, <3>1
        <5> QED
          BY <1>5, <5>1
      <4> QED
        BY <1>5, <2>1, <3>1, <4>1
    <3>2. CASE i = n + 1
      <4>1. i - 1 = n
        BY <1>6, <3>2
      <4>2. (\A j \in 1 .. n : p.past.read[j].id # s.seat.run.id)
               <=> s.seat.run.id \notin Asked(s)
        BY <1>5, <1>6 DEF Asked
      <4> QED
        BY <1>4, <1>5, <2>1, <3>2, <4>1, <4>2
    <3> QED
      BY <1>7, <3>1, <3>2
  <2> QED
    BY <1>3, <1>5, <2>2, <2>3 DEF Instructed
<1> QED
  BY <1>1, <1>8, <1>9, <1>10, <1>11, <1>12, <1>13 DEF Sound

-----------------------------------------------------------------------------
(* The next text of the chain is under way.                                *)

LEMMA SameReads ==
  ASSUME NEW s, NEW p, p.past.read = s.past.read
  PROVE  Read(p) = Read(s) /\ Asked(p) = Asked(s)
BY DEF Read, Asked

LEMMA StartedPlaces ==
  ASSUME NEW s, NEW p, TextTyped(s), s.seat.run.pc = "free", Started(s, p)
  PROVE  /\ Read(p) = Read(s) /\ Asked(p) = Asked(s) /\ OnItsWay(s) = {}
         /\ OnItsWay(p) = {s.seat.chain[1]} /\ Waiting(p) = Waiting(s)
         /\ Chained(s) = {s.seat.chain[1]} \cup Chained(p)
         /\ Line(p) = Line(s) /\ Gone(p) = Gone(s)
         /\ Len(s.seat.chain) \in Nat /\ Len(s.seat.chain) > 0
         /\ DOMAIN s.seat.chain = 1 .. Len(s.seat.chain)
         /\ DOMAIN p.seat.chain = 1 .. Len(s.seat.chain) - 1
         /\ \A i \in 1 .. Len(s.seat.chain) - 1 : p.seat.chain[i] = s.seat.chain[i + 1]
<1>1. /\ s.seat.chain \in Seq(Nat) /\ s.seat.chain # << >> /\ p.seat.chain = Tail(s.seat.chain)
      /\ p.past = s.past /\ p.seat.held = s.seat.held
  BY TextParts DEF Started
<1>2. Read(p) = Read(s) /\ Asked(p) = Asked(s)
  BY <1>1, SameReads
<1>3. OnItsWay(s) = {} /\ OnItsWay(p) = {Head(s.seat.chain)}
  BY DEF OnItsWay, Started
<1>4. Waiting(p) = Waiting(s)
  BY <1>1 DEF Waiting
<1>5. /\ Head(s.seat.chain) = s.seat.chain[1] /\ Len(Tail(s.seat.chain)) = Len(s.seat.chain) - 1
      /\ Tail(s.seat.chain) \in Seq(Nat) /\ Len(s.seat.chain) > 0
      /\ \A i \in 1 .. Len(s.seat.chain) - 1 : Tail(s.seat.chain)[i] = s.seat.chain[i + 1]
      /\ ToSet(s.seat.chain) = {Head(s.seat.chain)} \cup ToSet(Tail(s.seat.chain))
  BY <1>1, Rest1
<1>6. Chained(s) = {s.seat.chain[1]} \cup Chained(p)
  BY <1>1, <1>5 DEF Chained
<1>7. Line(p) = Line(s)
  BY <1>2, <1>3, <1>5, <1>6 DEF Line
<1>8. Gone(p) = Gone(s)
  BY <1>1, <1>4, <1>7 DEF Gone
<1>9. /\ Len(s.seat.chain) \in Nat /\ DOMAIN s.seat.chain = 1 .. Len(s.seat.chain)
      /\ DOMAIN p.seat.chain = 1 .. Len(s.seat.chain) - 1
  BY <1>1, <1>5, LenProperties
<1> QED
  BY <1>1, <1>2, <1>3, <1>4, <1>5, <1>6, <1>7, <1>8, <1>9

LEMMA StartedSound ==
  ASSUME NEW s, NEW p, Sound(s), s.seat.run.pc = "free", Started(s, p)
  PROVE  Sound(p)
<1> DEFINE c == s.seat.chain
           n == Len(s.seat.chain)
<1>1. TextTyped(s) /\ TextTyped(p)
  BY DEF Sound, Started
<1>2. /\ Read(p) = Read(s) /\ Asked(p) = Asked(s) /\ OnItsWay(s) = {}
      /\ OnItsWay(p) = {c[1]} /\ Waiting(p) = Waiting(s)
      /\ Chained(s) = {c[1]} \cup Chained(p) /\ Line(p) = Line(s) /\ Gone(p) = Gone(s)
      /\ n \in Nat /\ n > 0 /\ DOMAIN c = 1 .. n /\ DOMAIN p.seat.chain = 1 .. n - 1
      /\ \A i \in 1 .. n - 1 : p.seat.chain[i] = c[i + 1]
  BY <1>1, StartedPlaces
<1>3. /\ p.past = s.past /\ p.seat.active = s.seat.active /\ s.seat.active \in TopLevel
      /\ p.seat.held = s.seat.held /\ p.seat.dropped = s.seat.dropped
      /\ p.seat.run.pc = "briefing" /\ p.seat.run.id = s.seat.active
      /\ p.seat.run.brief = Fresh(s) /\ p.seat.briefed = s.seat.briefed \cup {s.seat.active}
  BY DEF Started, Outside
<1>4. Rising(s, c) /\ Before(s, Read(s), Chained(s))
  BY DEF Sound, Ordered
<1>5. \A i \in 1 .. n - 1 : i + 1 \in 1 .. n
  BY <1>2
<1>6. 1 \in 1 .. n
  BY <1>2
<1> HIDE DEF c, n
<1>7. Numbered(p)
  BY <1>2, <1>3 DEF Sound, Numbered
<1>8. Ordered(p)
  <2>1. Before(p, Read(p), OnItsWay(p)) /\ Before(p, Read(p), Chained(p))
    BY <1>2, <1>3, <1>4 DEF Before, Like
  <2>2. Before(p, OnItsWay(p), Chained(p))
    <3>1. ASSUME NEW y \in Chained(p), Like(s, c[1], y) PROVE c[1] < y
      <4>1. PICK i \in 1 .. n - 1 : y = p.seat.chain[i]
        BY <1>2, <3>1 DEF Chained, ToSet
      <4>2. y = c[i + 1] /\ i + 1 \in 1 .. n /\ 1 < i + 1
        BY <1>2, <1>5, <4>1
      <4> QED
        BY <1>2, <1>4, <1>6, <3>1, <4>2 DEF Rising
    <3> QED
      BY <1>2, <1>3, <3>1 DEF Before, Like
  <2>3. Rising(p, p.seat.chain)
    <3>1. ASSUME NEW i \in 1 .. n - 1, NEW j \in 1 .. n - 1, i < j,
                 Like(s, p.seat.chain[i], p.seat.chain[j])
          PROVE  p.seat.chain[i] < p.seat.chain[j]
      <4>1. p.seat.chain[i] = c[i + 1] /\ p.seat.chain[j] = c[j + 1] /\ i + 1 < j + 1
        BY <1>2, <3>1
      <4> QED
        BY <1>2, <1>4, <1>5, <3>1, <4>1 DEF Rising
    <3> QED
      BY <1>2, <1>3, <3>1 DEF Rising, Like
  <2>4. \A i, j \in DOMAIN s.past.read :
          i < j /\ Like(s, s.past.read[i].text, s.past.read[j].text)
            => s.past.read[i].text < s.past.read[j].text
    BY DEF Sound, Ordered
  <2> QED
    BY <1>3, <2>1, <2>2, <2>3, <2>4 DEF Ordered, Like
<1>9. Apart(p)
  BY <1>2, <1>3, Constants DEF Sound, Apart
<1>10. Counted(p)
  BY <1>2, <1>3 DEF Sound, Counted
<1>11. Running(p)
  BY <1>3 DEF Running
<1>12. Instructed(p)
  <2>1. s.seat.briefed = Asked(s)
    BY DEF Sound, Instructed
  <2>2. \A i \in DOMAIN s.past.read :
          s.past.read[i].brief <=> \A j \in 1 .. i - 1 : s.past.read[j].id # s.past.read[i].id
    BY DEF Sound, Instructed
  <2>3. Fresh(s) <=> s.seat.active \notin Asked(s)
    BY <2>1 DEF Fresh
  <2> QED
    BY <1>2, <1>3, <2>1, <2>2, <2>3 DEF Instructed
<1> QED
  BY <1>1, <1>7, <1>8, <1>9, <1>10, <1>11, <1>12 DEF Sound

-----------------------------------------------------------------------------
(* A text waits for the first session.                                     *)

\* What is kept of a rising sequence to which a number is added.
LEMMA Newest ==
  ASSUME NEW q \in Seq(Nat), NEW k \in Nat, NEW cap \in Nat, cap > 0, Len(q) <= cap,
         \A i, j \in DOMAIN q : i < j => q[i] < q[j],
         \A i \in DOMAIN q : q[i] < k
  PROVE  LET all  == q \o << k >>
             over == IF Len(all) > cap THEN Len(all) - cap ELSE 0
             w    == SubSeq(all, over + 1, Len(all))
         IN  /\ w \in Seq(Nat) /\ Len(w) <= cap
             /\ \A i, j \in DOMAIN w : i < j => w[i] < w[j]
             /\ \/ over = 0 /\ ToSet(w) = ToSet(q) \cup {k}
                \/ /\ over = 1
                   /\ \E x \in ToSet(q) : ToSet(w) = (ToSet(q) \cup {k}) \ {x} /\ x # k
<1> DEFINE m    == Len(q)
           all  == q \o << k >>
           over == IF Len(all) > cap THEN Len(all) - cap ELSE 0
           w    == SubSeq(all, over + 1, Len(all))
<1>1. m \in Nat /\ DOMAIN q = 1 .. m /\ (\A i \in 1 .. m : q[i] \in Nat)
  BY SetOf
<1>2. << k >> \in Seq(Nat) /\ Len(<< k >>) = 1 /\ << k >>[1] = k /\ ToSet(<< k >>) = {k}
  <2>1. << k >> \in Seq(Nat) /\ Len(<< k >>) = 1 /\ << k >>[1] = k
    OBVIOUS
  <2>2. ToSet(<< k >>) = {k}
    BY Single
  <2> QED
    BY <2>1, <2>2
<1>3. /\ all \in Seq(Nat) /\ Len(all) = m + 1 /\ (\A i \in 1 .. m : all[i] = q[i])
      /\ ToSet(all) = ToSet(q) \cup {k}
  <2> DEFINE r == << k >>
  <2>1. r \in Seq(Nat) /\ Len(r) = 1 /\ ToSet(r) = {k}
    BY <1>2
  <2> HIDE DEF r
  <2>2. /\ q \o r \in Seq(Nat) /\ Len(q \o r) = Len(q) + Len(r)
        /\ ToSet(q \o r) = ToSet(q) \cup ToSet(r)
        /\ \A i \in 1 .. Len(q) : (q \o r)[i] = q[i]
    <3>1. q \o r \in Seq(Nat) /\ Len(q \o r) = Len(q) + Len(r)
      BY <2>1, Joined
    <3>2. ToSet(q \o r) = ToSet(q) \cup ToSet(r)
      BY <2>1, Joined
    <3>3. \A i \in 1 .. Len(q) : (q \o r)[i] = q[i]
      BY <2>1, Joined
    <3> QED
      BY <3>1, <3>2, <3>3
  <2> QED
    BY <2>1, <2>2 DEF r
<1>4. all[m + 1] = k
  <2>1. m + 1 \in 1 .. m + 1 /\ m + 1 > m /\ (m + 1) - m = 1
    BY <1>1
  <2>2. all[m + 1] = << k >>[(m + 1) - m]
    BY <1>1, <1>2, <2>1, Joined
  <2> QED
    BY <1>2, <2>1, <2>2
<1>5. \A i, j \in 1 .. m + 1 : i < j => all[i] < all[j]
  <2> TAKE i, j \in 1 .. m + 1
  <2> HAVE i < j
  <2> HIDE DEF all
  <2>1. i \in 1 .. m
    BY <1>1
  <2>2. CASE j \in 1 .. m
    BY <1>1, <1>3, <2>1, <2>2
  <2>3. CASE j = m + 1
    BY <1>1, <1>3, <1>4, <2>1, <2>3
  <2>4. j \in 1 .. m \/ j = m + 1
    <3>1. m \in Nat /\ j \in 1 .. m + 1
      BY <1>1
    <3> HIDE DEF m
    <3> QED
      BY <3>1
  <2> QED
    BY <2>2, <2>3, <2>4
<1> HIDE DEF m, all
<1>6. \/ over = 0 /\ m + 1 <= cap
      \/ over = 1 /\ m = cap
  <2>1. m <= cap
    BY DEF m
  <2>2. CASE m = cap
    BY <1>1, <1>3, <2>2
  <2>3. CASE m < cap
    BY <1>1, <1>3, <2>3
  <2> QED
    BY <1>1, <2>1, <2>2, <2>3
<1> HIDE DEF over
<1>7. over \in Nat /\ over <= m
  BY <1>1, <1>6
<1>8. /\ w \in Seq(Nat) /\ Len(w) = m + 1 - over
      /\ \A i \in 1 .. m + 1 - over : w[i] = all[i + over]
  <2>1. \A i \in over + 1 .. Len(all) : all[i] \in Nat
    <3>1. \A i \in over + 1 .. Len(all) : i \in 1 .. Len(all)
      BY <1>1, <1>3, <1>7
    <3> QED
      BY <1>3, <3>1, ElementOfSeq
  <2>2. over + 1 <= Len(all) /\ over + 1 \in Nat /\ Len(all) \in Nat
    BY <1>1, <1>3, <1>7
  <2>3. /\ w \in Seq(Nat) /\ Len(w) = Len(all) - (over + 1) + 1
        /\ \A i \in 1 .. Len(all) - (over + 1) + 1 : w[i] = all[over + 1 + i - 1]
    BY <1>3, <2>1, <2>2, SubSeqProperties
  <2>4. Len(all) - (over + 1) + 1 = m + 1 - over
    BY <1>1, <1>3, <1>7
  <2>5. \A i \in 1 .. m + 1 - over : over + 1 + i - 1 = i + over
    BY <1>1, <1>7
  <2> QED
    BY <2>3, <2>4, <2>5
<1> HIDE DEF w
<1>9. DOMAIN w = 1 .. m + 1 - over
  BY <1>8, LenProperties
<1>10. \A i \in 1 .. m + 1 - over : i + over \in 1 .. m + 1
  BY <1>1, <1>7
<1>11. \A i, j \in DOMAIN w : i < j => w[i] < w[j]
  <2> TAKE i, j \in DOMAIN w
  <2> HAVE i < j
  <2>1. i + over < j + over
    BY <1>7, <1>9
  <2> QED
    BY <1>5, <1>8, <1>9, <1>10, <2>1
<1>12. DOMAIN all = 1 .. m + 1
  BY <1>1, <1>3, LenProperties
<1>13. ASSUME over = 0 PROVE ToSet(w) = ToSet(q) \cup {k}
  <2>1. \A i \in 1 .. m + 1 : w[i] = all[i]
    BY <1>1, <1>8, <1>13
  <2>2. DOMAIN w = 1 .. m + 1
    BY <1>1, <1>9, <1>13
  <2> QED
    BY <1>3, <1>12, <2>1, <2>2 DEF ToSet
<1>14. ASSUME over = 1
       PROVE  all[1] \in ToSet(q) /\ all[1] # k /\ ToSet(w) = (ToSet(q) \cup {k}) \ {all[1]}
  <2>1. m > 0 /\ 1 \in 1 .. m
    BY <1>1, <1>6, <1>14
  <2>2. all[1] = q[1] /\ q[1] < k /\ q[1] \in ToSet(q)
    BY <1>1, <1>3, <2>1 DEF ToSet
  <2>3. \A i \in 1 .. m : w[i] = all[i + 1] /\ i + 1 \in 1 .. m + 1 /\ 1 < i + 1
    BY <1>1, <1>8, <1>14
  <2>4. DOMAIN w = 1 .. m
    BY <1>1, <1>9, <1>14
  <2>5. ToSet(w) \subseteq ToSet(all) \ {all[1]}
    <3>1. \A i \in 1 .. m : all[1] < all[i + 1]
      BY <1>1, <1>5, <2>1, <2>3
    <3>2. \A i \in 1 .. m + 1 : all[i] \in Nat
      BY <1>1, <1>3, <1>12, ElementOfSeq
    <3>3. \A i \in 1 .. m : all[i + 1] # all[1]
      BY <2>1, <2>3, <3>1, <3>2
    <3> QED
      BY <1>12, <2>3, <2>4, <3>3 DEF ToSet
  <2>6. ToSet(all) \ {all[1]} \subseteq ToSet(w)
    <3> SUFFICES ASSUME NEW i \in 1 .. m + 1, all[i] # all[1] PROVE all[i] \in ToSet(w)
      BY <1>12 DEF ToSet
    <3>1. i - 1 \in 1 .. m /\ (i - 1) + 1 = i
      BY <1>1
    <3> QED
      BY <2>3, <2>4, <3>1 DEF ToSet
  <2> QED
    BY <1>1, <1>3, <2>1, <2>2, <2>5, <2>6
<1>15. Len(w) <= cap
  BY <1>1, <1>6, <1>8
<1>16. \/ over = 0 /\ ToSet(w) = ToSet(q) \cup {k}
       \/ over = 1 /\ \E x \in ToSet(q) : ToSet(w) = (ToSet(q) \cup {k}) \ {x} /\ x # k
  BY <1>6, <1>13, <1>14
<1> QED
  BY <1>8, <1>11, <1>15, <1>16 DEF w, over, all

LEMMA HeldBackSound ==
  ASSUME NEW s, NEW p, Sound(s), s.seat.active = NoSession, s.seat.chain # << >>, HeldBack(s, p)
  PROVE  Sound(p) /\ p.seat.chain = << >> /\ p.seat.held # << >>
<1> DEFINE k    == s.past.got
           q    == s.seat.held
           all  == q \o << k >>
           over == IF Len(all) > HeldCap THEN Len(all) - HeldCap ELSE 0
           w    == SubSeq(all, over + 1, Len(all))
<1>1. TextTyped(s) /\ TextTyped(p)
  BY DEF Sound, HeldBack
<1>2. /\ s.seat.run = Free /\ s.past.read = << >> /\ k > 0 /\ s.seat.chain = << k >>
      /\ k \notin s.past.held /\ Len(q) <= HeldCap /\ Waiting(s) \subseteq s.past.held
      /\ \A i, j \in DOMAIN q : i < j => q[i] < q[j]
  BY DEF Sound, Apart
<1>3. ToSet(<< k >>) = {k}
  BY Single
<1>4. /\ p.seat.held = w /\ p.seat.dropped = s.seat.dropped + over
      /\ p.past.held = s.past.held \cup {k} /\ p.seat.chain = << >> /\ p.seat.run = Free
      /\ p.seat.briefed = s.seat.briefed /\ p.past.got = k /\ p.past.read = << >>
      /\ p.past.told = s.past.told /\ p.seat.active = NoSession
  BY <1>2, <1>3 DEF HeldBack, Outside
<1>5. /\ k \in Nat /\ q \in Seq(Nat) /\ s.seat.dropped \in Nat /\ s.past.told \in Nat
  BY <1>1, TextParts
<1>6. s.past.held \subseteq 1 .. k /\ Waiting(s) \subseteq 1 .. k
  BY DEF Sound, Numbered
<1>7. \A i \in DOMAIN q : q[i] < k
  <2> TAKE i \in DOMAIN q
  <2>1. q[i] \in Waiting(s)
    BY DEF Waiting, ToSet
  <2>2. q[i] \in 1 .. k /\ q[i] # k
    BY <1>2, <1>6, <2>1
  <2> QED
    BY <1>5, <2>2
<1>8. /\ w \in Seq(Nat) /\ Len(w) <= HeldCap
      /\ \A i, j \in DOMAIN w : i < j => w[i] < w[j]
      /\ \/ over = 0 /\ ToSet(w) = ToSet(q) \cup {k}
         \/ over = 1 /\ \E x \in ToSet(q) : ToSet(w) = (ToSet(q) \cup {k}) \ {x} /\ x # k
  BY <1>2, <1>5, <1>7, Constants, Newest
<1> HIDE DEF w, over, all
<1>9. /\ Read(s) = {} /\ Read(p) = {} /\ OnItsWay(s) = {} /\ OnItsWay(p) = {}
      /\ Asked(s) = {} /\ Asked(p) = {} /\ Chained(s) = {k} /\ Chained(p) = {}
  BY <1>2, <1>3, <1>4 DEF Read, Asked, OnItsWay, Chained, Free, ToSet
<1>10. Line(s) = {k} /\ Line(p) = {} /\ Waiting(s) = ToSet(q) /\ Waiting(p) = ToSet(w)
  BY <1>4, <1>9 DEF Line, Waiting
<1>11. k \in Waiting(p) /\ Waiting(p) \subseteq Waiting(s) \cup {k}
  BY <1>8, <1>10
<1>12. Numbered(p)
  BY <1>4, <1>5, <1>2, <1>6, <1>10, <1>11 DEF Numbered
<1>13. Ordered(p)
  BY <1>4, <1>9 DEF Ordered, Before, Rising
<1>14. Apart(p)
  BY <1>2, <1>4, <1>8, <1>10, <1>11 DEF Apart
<1>15. Counted(p)
  <2>1. Cardinality(Gone(s)) = s.seat.dropped + s.past.told
    BY DEF Sound, Counted
  <2>2. CASE over = 0 /\ ToSet(w) = ToSet(q) \cup {k}
    <3>1. Gone(p) = Gone(s)
      BY <1>4, <1>10, <2>2 DEF Gone
    <3> QED
      BY <1>4, <1>5, <2>1, <2>2, <3>1 DEF Counted
  <2>3. CASE over = 1 /\ \E x \in ToSet(q) : ToSet(w) = (ToSet(q) \cup {k}) \ {x} /\ x # k
    <3>1. PICK x \in ToSet(q) : ToSet(w) = (ToSet(q) \cup {k}) \ {x} /\ x # k
      BY <2>3
    <3>2. x \in 1 .. k
      BY <1>6, <1>10
    <3>3. Gone(p) = Gone(s) \cup {x} /\ x \notin Gone(s)
      BY <1>4, <1>10, <3>1, <3>2 DEF Gone
    <3>4. IsFiniteSet(Gone(s))
      <4>1. IsFiniteSet(1 .. k)
        <5>1. 1 \in Int /\ k \in Int
          BY <1>5
        <5> QED
          BY <5>1, FS_Interval
      <4>2. Gone(s) \in SUBSET (1 .. k)
        BY DEF Gone
      <4> QED
        BY <4>1, <4>2, FS_Subset
    <3>5. Cardinality(Gone(p)) = Cardinality(Gone(s)) + 1
      BY <3>3, <3>4, FS_AddElement
    <3>6. p.seat.dropped = s.seat.dropped + 1 /\ p.past.told = s.past.told
      BY <1>4, <2>3
    <3> QED
      BY <1>5, <2>1, <3>5, <3>6 DEF Counted
  <2> QED
    BY <1>8, <2>2, <2>3
<1>16. Running(p)
  BY <1>4 DEF Running, Free
<1>17. Instructed(p)
  <2>1. s.seat.briefed = Asked(s)
    BY <1>2 DEF Sound, Instructed, Free
  <2> QED
    BY <1>4, <1>9, <2>1 DEF Instructed, Free
<1>18. p.seat.held # << >>
  BY <1>4, <1>10, <1>11 DEF ToSet
<1> QED
  BY <1>1, <1>4, <1>12, <1>13, <1>14, <1>15, <1>16, <1>17, <1>18 DEF Sound

-----------------------------------------------------------------------------
(* A text arrives, a prompt returns, what is held goes on.                 *)

\* The texts are where they were; the run may have moved on.
Steady(s, p) ==
  /\ TextTyped(p) /\ (p.seat.active = s.seat.active \/ p.seat.active \in TopLevel)
  /\ p.seat.held = s.seat.held /\ p.seat.chain = s.seat.chain
  /\ p.seat.dropped = s.seat.dropped /\ p.seat.briefed = s.seat.briefed
  /\ p.past.got = s.past.got /\ p.past.held = s.past.held /\ p.past.told = s.past.told
  /\ p.past.read = s.past.read
  /\ \/ p.seat.run = s.seat.run
     \/ /\ s.seat.run.pc \in {"posted", "taken"} /\ p.seat.run.pc \in {"taken", "answered"}
        /\ p.seat.run.text = s.seat.run.text /\ p.seat.run.id = s.seat.run.id

LEMMA SteadySound ==
  ASSUME NEW s, NEW p, Sound(s), Steady(s, p)
  PROVE  Sound(p) /\ (Settled(s) => Settled(p))
<1>1. TextTyped(s) /\ TextTyped(p)
  BY DEF Sound, Steady
<1>2. Read(p) = Read(s) /\ Asked(p) = Asked(s)
  BY SameReads DEF Steady
<1>3. /\ p.past.got = s.past.got /\ p.past.held = s.past.held /\ p.past.told = s.past.told
      /\ p.past.read = s.past.read /\ p.seat.held = s.seat.held
      /\ p.seat.chain = s.seat.chain /\ p.seat.dropped = s.seat.dropped
      /\ p.seat.briefed = s.seat.briefed
  BY DEF Steady
<1>4. OnItsWay(p) = OnItsWay(s)
  BY DEF Steady, OnItsWay
<1>5. Chained(p) = Chained(s) /\ Waiting(p) = Waiting(s)
  BY <1>3 DEF Chained, Waiting
<1>6. Line(p) = Line(s) /\ Gone(p) = Gone(s)
  BY <1>2, <1>3, <1>4, <1>5 DEF Line, Gone
<1>7. p.seat.active = NoSession => s.seat.active = NoSession
  BY Constants DEF Steady
<1>8. Numbered(p)
  BY <1>3, <1>5, <1>6 DEF Sound, Numbered
<1>9. Ordered(p)
  BY <1>2, <1>3, <1>4, <1>5 DEF Sound, Ordered, Before, Rising, Like
<1>10. Apart(p)
  <2>1. s.seat.active = NoSession => p.seat.run = s.seat.run
    BY DEF Sound, Apart, Free, Steady
  <2> QED
    BY <1>3, <1>5, <1>6, <1>7, <2>1 DEF Sound, Apart
<1>11. Counted(p)
  BY <1>3, <1>6 DEF Sound, Counted
<1>12. Running(p)
  BY <1>2 DEF Sound, Running, Steady
<1>13. Instructed(p)
  <2>1. /\ p.seat.run.pc = "briefing" <=> s.seat.run.pc = "briefing"
        /\ p.seat.run.pc = "briefing" => p.seat.run = s.seat.run
    BY DEF Steady
  <2> QED
    BY <1>2, <1>3, <2>1 DEF Sound, Instructed
<1>14. Settled(s) => Settled(p)
  BY DEF Settled, Steady
<1> QED
  BY <1>1, <1>8, <1>9, <1>10, <1>11, <1>12, <1>13, <1>14 DEF Sound

Freed(s, p) ==
  /\ TextTyped(p) /\ Outside(s, p)
  /\ s.seat.run.pc \in {"posted", "taken", "answered"} /\ p.seat.run = Free
  /\ p.seat.held = s.seat.held /\ p.seat.chain = s.seat.chain
  /\ p.seat.dropped = s.seat.dropped /\ p.seat.briefed = s.seat.briefed
  /\ p.past.got = s.past.got /\ p.past.held = s.past.held /\ p.past.told = s.past.told
  /\ p.past.read = s.past.read

LEMMA FreedSound ==
  ASSUME NEW s, NEW p, Sound(s), Freed(s, p)
  PROVE  Sound(p) /\ p.seat.active # NoSession
<1>1. TextTyped(s) /\ TextTyped(p)
  BY DEF Sound, Freed
<1>2. Read(p) = Read(s) /\ Asked(p) = Asked(s)
  BY SameReads DEF Freed
<1>3. /\ p.past.got = s.past.got /\ p.past.held = s.past.held /\ p.past.told = s.past.told
      /\ p.past.read = s.past.read /\ p.seat.held = s.seat.held
      /\ p.seat.chain = s.seat.chain /\ p.seat.dropped = s.seat.dropped
      /\ p.seat.briefed = s.seat.briefed /\ p.seat.active = s.seat.active
  BY DEF Freed, Outside
<1>4. OnItsWay(p) = {} /\ OnItsWay(s) = {}
  BY DEF Freed, OnItsWay, Free
<1>5. Chained(p) = Chained(s) /\ Waiting(p) = Waiting(s)
  BY <1>3 DEF Chained, Waiting
<1>6. Line(p) = Line(s) /\ Gone(p) = Gone(s)
  BY <1>2, <1>3, <1>4, <1>5 DEF Line, Gone
<1>7. s.seat.active # NoSession
  BY DEF Sound, Apart, Free, Freed
<1>8. Numbered(p)
  BY <1>3, <1>5, <1>6 DEF Sound, Numbered
<1>9. Ordered(p)
  BY <1>2, <1>3, <1>4, <1>5 DEF Sound, Ordered, Before, Rising, Like
<1>10. Apart(p)
  BY <1>3, <1>5, <1>6, <1>7 DEF Sound, Apart
<1>11. Counted(p)
  BY <1>3, <1>6 DEF Sound, Counted
<1>12. Running(p)
  BY DEF Running, Freed, Free
<1>13. Instructed(p)
  BY <1>2, <1>3 DEF Sound, Instructed, Freed, Free
<1> QED
  BY <1>1, <1>3, <1>7, <1>8, <1>9, <1>10, <1>11, <1>12, <1>13 DEF Sound

\* A new text is put at the end of the chain.
Pushed(s, p) ==
  /\ TextTyped(p) /\ Outside(s, p) /\ p.past.failed = s.past.failed
  /\ p.past.got = s.past.got + 1 /\ p.seat.chain = s.seat.chain \o << s.past.got + 1 >>
  /\ p.seat.run = s.seat.run /\ p.seat.held = s.seat.held
  /\ p.seat.dropped = s.seat.dropped /\ p.seat.briefed = s.seat.briefed
  /\ p.past.held = s.past.held /\ p.past.told = s.past.told /\ p.past.read = s.past.read

LEMMA PushedSound ==
  ASSUME NEW s, NEW p, Sound(s), Settled(s), Pushed(s, p)
  PROVE  Sound(p) /\ p.seat.chain # << >>
<1> DEFINE c == s.seat.chain
           n == Len(s.seat.chain)
           k == s.past.got
           r == << k + 1 >>
<1>1. TextTyped(s) /\ TextTyped(p)
  BY DEF Sound, Pushed
<1>2. k \in Nat /\ c \in Seq(Nat) /\ n \in Nat /\ DOMAIN c = 1 .. n
  BY <1>1, TextParts, LenProperties
<1>3. r \in Seq(Nat) /\ Len(r) = 1 /\ r[1] = k + 1 /\ ToSet(r) = {k + 1}
  <2>1. r \in Seq(Nat) /\ Len(r) = 1 /\ r[1] = k + 1
    BY <1>2
  <2> QED
    BY <2>1, Single
<1>4. /\ p.past.got = k + 1 /\ p.seat.chain = c \o r /\ p.seat.run = s.seat.run
      /\ p.seat.held = s.seat.held /\ p.seat.dropped = s.seat.dropped
      /\ p.seat.briefed = s.seat.briefed /\ p.past.held = s.past.held
      /\ p.past.told = s.past.told /\ p.past.read = s.past.read
      /\ p.seat.active = s.seat.active
  BY DEF Pushed, Outside
<1> HIDE DEF r, c
<1>5. c \in Seq(Nat)
  BY <1>2 DEF c
<1>6. r \in Seq(Nat)
  BY <1>3
<1>7. /\ c \o r \in Seq(Nat) /\ Len(c \o r) = Len(c) + Len(r)
      /\ ToSet(c \o r) = ToSet(c) \cup ToSet(r)
      /\ \A i \in 1 .. Len(c) : (c \o r)[i] = c[i]
      /\ \A i \in 1 .. Len(c) + Len(r) : i > Len(c) => (c \o r)[i] = r[i - Len(c)]
  BY <1>5, <1>6, Joined
<1>8. /\ p.seat.chain # << >> /\ DOMAIN p.seat.chain = 1 .. n + 1
      /\ (\A i \in 1 .. n : p.seat.chain[i] = c[i]) /\ p.seat.chain[n + 1] = k + 1
  <2>1. Len(c) = n
    BY DEF c
  <2>2. n + 1 \in 1 .. n + 1 /\ n + 1 > n /\ (n + 1) - n = 1
    BY <1>2
  <2>3. p.seat.chain[n + 1] = k + 1
    BY <1>3, <1>4, <1>7, <2>1, <2>2
  <2>4. DOMAIN p.seat.chain = 1 .. n + 1 /\ Len(p.seat.chain) = n + 1
    BY <1>3, <1>4, <1>7, <2>1, LenProperties
  <2> QED
    BY <1>2, <1>4, <1>7, <2>1, <2>3, <2>4
<1>9. Chained(p) = Chained(s) \cup {k + 1} /\ Waiting(p) = Waiting(s)
  BY <1>3, <1>4, <1>7 DEF Chained, Waiting, c
<1>10. Read(p) = Read(s) /\ Asked(p) = Asked(s) /\ OnItsWay(p) = OnItsWay(s)
  BY <1>4, SameReads DEF OnItsWay
<1>11. Line(p) = Line(s) \cup {k + 1}
  BY <1>9, <1>10 DEF Line
<1>12. Line(s) \cup Waiting(s) \cup s.past.held \subseteq 1 .. k
  BY DEF Sound, Numbered
<1>13. \A x \in 1 .. k : x < k + 1 /\ x # k + 1 /\ x \in 1 .. k + 1
  BY <1>2
<1>14. Numbered(p)
  BY <1>2, <1>4, <1>9, <1>11, <1>12, <1>13 DEF Numbered
<1> HIDE DEF k, n
<1>15. Ordered(p)
  <2>1. Read(s) \subseteq 1 .. k /\ OnItsWay(s) \subseteq 1 .. k /\ Chained(s) \subseteq 1 .. k
    BY <1>12 DEF Line
  <2>2. Before(p, Read(p), OnItsWay(p))
    BY <1>4, <1>10 DEF Sound, Ordered, Before, Like
  <2>3. Before(p, Read(p), Chained(p))
    BY <1>4, <1>9, <1>10, <1>13, <2>1 DEF Sound, Ordered, Before, Like
  <2>4. Before(p, OnItsWay(p), Chained(p))
    BY <1>4, <1>9, <1>10, <1>13, <2>1 DEF Sound, Ordered, Before, Like
  <2>5. Rising(p, p.seat.chain)
    <3>1. ASSUME NEW i \in 1 .. n + 1, NEW j \in 1 .. n + 1, i < j,
                 Like(s, p.seat.chain[i], p.seat.chain[j])
          PROVE  p.seat.chain[i] < p.seat.chain[j]
      <4>1. i \in 1 .. n
        BY <1>2, <3>1
      <4>2. CASE j \in 1 .. n
        <5>1. Rising(s, c)
          BY DEF Sound, Ordered, c
        <5> QED
          BY <1>2, <1>8, <3>1, <4>1, <4>2, <5>1 DEF Rising
      <4>3. CASE j = n + 1
        <5>1. c[i] \in 1 .. k
          BY <1>2, <2>1, <4>1 DEF Chained, ToSet, c
        <5> QED
          BY <1>8, <1>13, <4>1, <4>3, <5>1
      <4> QED
        BY <1>2, <4>2, <4>3
    <3> QED
      BY <1>4, <1>8, <3>1 DEF Rising, Like
  <2> QED
    BY <1>4, <2>2, <2>3, <2>4, <2>5 DEF Sound, Ordered, Like
<1>16. Apart(p)
  <2>1. Waiting(s) # {} => Line(p) \cap s.past.held = {}
    BY <1>11, <1>12, <1>13 DEF Sound, Apart
  <2>2. ASSUME s.seat.active = NoSession
        PROVE  p.seat.chain = << p.past.got >> /\ p.past.got > 0 /\ p.past.got \notin p.past.held
    <3>1. c = << >>
      BY <2>2 DEF Sound, Apart, Settled, Free, c
    <3>2. c \o r = r
      BY <1>3, <3>1, ConcatEmptySeq
    <3> QED
      BY <1>2, <1>4, <1>12, <1>13, <3>2 DEF r
  <2> QED
    BY <1>4, <1>9, <2>1, <2>2 DEF Sound, Apart
<1>17. Counted(p)
  <2>1. 1 .. k + 1 = (1 .. k) \cup {k + 1}
    BY <1>2
  <2>2. Gone(p) = Gone(s)
    BY <1>4, <1>9, <1>11, <1>13, <2>1 DEF Gone, k
  <2> QED
    BY <1>4, <2>2 DEF Sound, Counted
<1>18. Running(p)
  BY <1>4, <1>10 DEF Sound, Running
<1>19. Instructed(p)
  BY <1>4, <1>10 DEF Sound, Instructed
<1> QED
  BY <1>1, <1>8, <1>14, <1>15, <1>16, <1>17, <1>18, <1>19 DEF Sound

\* What is held goes to the end of the chain of the session id.
Flushed(s, p) ==
  /\ TextTyped(p) /\ p.seat.active \in TopLevel
  /\ p.seat.chain = s.seat.chain \o s.seat.held /\ p.seat.held = << >>
  /\ p.seat.dropped + p.past.told = s.seat.dropped + s.past.told
  /\ p.seat.run = s.seat.run /\ p.seat.briefed = s.seat.briefed
  /\ p.past.got = s.past.got /\ p.past.held = s.past.held /\ p.past.read = s.past.read

LEMMA FlushedSound ==
  ASSUME NEW s, NEW p, Sound(s), Flushed(s, p)
  PROVE  Sound(p)
<1> DEFINE c == s.seat.chain
           h == s.seat.held
           m == Len(c)
           n == Len(h)
           a == c \o h
<1>1. TextTyped(s) /\ TextTyped(p)
  BY DEF Sound, Flushed
<1>2. c \in Seq(Nat)
  BY <1>1, TextParts
<1>3. h \in Seq(Nat)
  BY <1>1, TextParts
<1>4. m \in Nat /\ n \in Nat /\ DOMAIN c = 1 .. m /\ DOMAIN h = 1 .. n
  BY <1>2, <1>3, LenProperties
<1>5. /\ p.seat.chain = a /\ p.seat.held = << >>
      /\ p.seat.dropped + p.past.told = s.seat.dropped + s.past.told
      /\ p.seat.run = s.seat.run /\ p.seat.briefed = s.seat.briefed
      /\ p.past.got = s.past.got /\ p.past.held = s.past.held /\ p.past.read = s.past.read
      /\ p.seat.active # NoSession
  BY Constants DEF Flushed
<1>6. /\ a \in Seq(Nat) /\ Len(a) = m + n /\ ToSet(a) = ToSet(c) \cup ToSet(h)
      /\ \A i \in 1 .. m : a[i] = c[i]
      /\ \A i \in 1 .. m + n : i > m => a[i] = h[i - m]
  <2> HIDE DEF c, h
  <2> QED
    BY <1>2, <1>3, Joined
<1>7. DOMAIN a = 1 .. m + n
  BY <1>6, LenProperties
<1>8. /\ Waiting(s) \subseteq s.past.held /\ (Waiting(s) # {} => Line(s) \cap s.past.held = {})
      /\ \A i, j \in DOMAIN h : i < j => h[i] < h[j]
  BY DEF Sound, Apart
<1>9. Rising(s, c)
  BY DEF Sound, Ordered
<1>10. Chained(s) = ToSet(c) /\ Waiting(s) = ToSet(h)
  BY DEF Chained, Waiting
<1>11. \A i \in 1 .. m : c[i] \in Chained(s)
  BY <1>4, <1>10 DEF ToSet
<1>12. \A i \in 1 .. n : h[i] \in Waiting(s)
  BY <1>4, <1>10 DEF ToSet
<1> HIDE DEF a, c, h, m, n
<1>13. Chained(p) = Chained(s) \cup Waiting(s) /\ Waiting(p) = {}
  <2>1. Chained(p) = ToSet(a) /\ Waiting(p) = ToSet(<< >>)
    BY <1>5 DEF Chained, Waiting
  <2>2. ToSet(<< >>) = {}
    BY DEF ToSet
  <2> QED
    BY <1>6, <1>10, <2>1, <2>2
<1>14. Read(p) = Read(s) /\ Asked(p) = Asked(s) /\ OnItsWay(p) = OnItsWay(s)
  BY <1>5, SameReads DEF OnItsWay
<1>15. Line(p) = Line(s) \cup Waiting(s)
  BY <1>13, <1>14 DEF Line
<1>16. Gone(p) = Gone(s)
  BY <1>5, <1>13, <1>15 DEF Gone
<1>17. Numbered(p)
  BY <1>5, <1>13, <1>15 DEF Sound, Numbered
<1>18. Ordered(p)
  <2>1. \A x \in Line(s), y \in Waiting(s) : ~Like(s, x, y)
    BY <1>8 DEF Like
  <2>2. Read(s) \subseteq Line(s) /\ OnItsWay(s) \subseteq Line(s) /\ Chained(s) \subseteq Line(s)
    BY DEF Line
  <2>3. Before(p, Read(p), Chained(p)) /\ Before(p, OnItsWay(p), Chained(p))
    BY <1>5, <1>13, <1>14, <2>1, <2>2 DEF Sound, Ordered, Before, Like
  <2>4. Before(p, Read(p), OnItsWay(p))
    BY <1>5, <1>14 DEF Sound, Ordered, Before, Like
  <2>5. ASSUME NEW i \in 1 .. m + n, NEW j \in 1 .. m + n, i < j, Like(s, a[i], a[j])
        PROVE  a[i] < a[j]
    <3>1. CASE j <= m
      <4>1. i \in 1 .. m /\ j \in 1 .. m
        BY <1>4, <2>5, <3>1
      <4> QED
        BY <1>4, <1>6, <1>9, <2>5, <4>1 DEF Rising
    <3>2. CASE i <= m /\ j > m
      <4>1. i \in 1 .. m /\ j - m \in 1 .. n
        BY <1>4, <3>2
      <4>2. a[i] \in Line(s) /\ a[j] \in Waiting(s)
        BY <1>6, <1>11, <1>12, <2>2, <3>2, <4>1
      <4> QED
        BY <2>1, <2>5, <4>2
    <3>3. CASE i > m /\ j > m
      <4>1. i - m \in 1 .. n /\ j - m \in 1 .. n /\ i - m < j - m
        BY <1>4, <2>5, <3>3
      <4> QED
        BY <1>4, <1>6, <1>8, <3>3, <4>1
    <3> QED
      BY <1>4, <2>5, <3>1, <3>2, <3>3
  <2>6. Rising(p, p.seat.chain)
    BY <1>5, <1>7, <2>5 DEF Rising, Like
  <2> QED
    BY <1>5, <2>3, <2>4, <2>6 DEF Sound, Ordered, Like
<1>19. Apart(p)
  BY <1>5, <1>13, Constants DEF Apart
<1>20. Counted(p)
  BY <1>5, <1>16 DEF Sound, Counted
<1>21. Running(p)
  BY <1>5, <1>14 DEF Sound, Running
<1>22. Instructed(p)
  BY <1>5, <1>14 DEF Sound, Instructed
<1> QED
  BY <1>1, <1>17, <1>18, <1>19, <1>20, <1>21, <1>22 DEF Sound

-----------------------------------------------------------------------------
(* Whatever is put in the chain, the chain moves.                          *)

\* What a handler that may move the chain leaves: p is what it made of s.
Moved(s, p) ==
  /\ Sound(p) /\ Settled(p)
  /\ p.seat.active = s.seat.active /\ p.seat.reported = s.seat.reported
  /\ p.seat.children = s.seat.children
  /\ p.past.moved = s.past.moved /\ p.past.failed = s.past.failed
  /\ p.seat.run.pc # "free" =>
       \/ p.seat.run.id = s.seat.active
       \/ s.seat.run.pc # "free" /\ p.seat.run.id = s.seat.run.id
  /\ Unread(s) => Unread(p)

LEMMA AdvanceMoves ==
  ASSUME NEW s, Sound(s)
  PROVE  Moved(s, Advance(s))
<1> DEFINE p == Advance(s)
<1>1. TextTyped(s)
  BY DEF Sound
<1>2. s.seat.active \in Id /\ s.seat.run.pc \in {"free", "briefing", "posted", "taken", "answered"}
  BY <1>1, TextParts
<1>3. CASE s.seat.run.pc # "free" \/ s.seat.chain = << >>
  <2>1. p = s
    BY <1>3 DEF Advance
  <2> HIDE DEF p
  <2>2. Settled(p)
    BY <1>3, <2>1 DEF Settled
  <2> QED
    BY <2>1, <2>2 DEF Moved, Unread, p
<1>4. CASE s.seat.run.pc = "free" /\ s.seat.chain # << >> /\ s.seat.active = NoSession
  <2>1. p = Hold(Emptied(s), s.seat.chain)
    BY <1>4 DEF Advance, Emptied
  <2>2. HeldBack(s, p)
    BY <1>1, <2>1, HoldDoes
  <2> HIDE DEF p
  <2>3. Sound(p) /\ p.seat.chain = << >> /\ p.seat.held # << >>
    BY <1>4, <2>2, HeldBackSound
  <2>4. Settled(p)
    BY <2>3 DEF Settled
  <2> QED
    BY <1>4, <2>2, <2>3, <2>4 DEF Moved, Unread, HeldBack, Outside, p
<1>5. CASE s.seat.run.pc = "free" /\ s.seat.chain # << >> /\ s.seat.active # NoSession
  <2> DEFINE r == Begun(s)
  <2>1. s.seat.active \in TopLevel
    BY <1>2, <1>5 DEF Id
  <2>2. Started(s, r)
    BY <1>1, <1>5, <2>1, BegunDoes
  <2>3. Sound(r)
    BY <1>5, <2>2, StartedSound
  <2>4. p = IF Fresh(s) THEN r ELSE Post(r)
    BY <1>5 DEF Advance, Begun
  <2>5. /\ r.seat.run.pc = "briefing" /\ r.seat.run.id = s.seat.active
        /\ r.seat.active = s.seat.active /\ r.seat.reported = s.seat.reported
        /\ r.seat.children = s.seat.children /\ r.past = s.past
    BY <2>2 DEF Started, Outside
  <2> HIDE DEF r, p
  <2>6. CASE Fresh(s)
    <3>1. p = r
      BY <2>4, <2>6
    <3> QED
      BY <1>5, <2>3, <2>5, <3>1 DEF Moved, Unread, Settled, p
  <2>7. CASE ~Fresh(s)
    <3>1. p = Post(r)
      BY <2>4, <2>7
    <3>2. Posted(r, p)
      BY <2>1, <2>3, <2>5, <3>1, PostDoes DEF Sound
    <3>3. Sound(p)
      BY <2>3, <2>5, <3>2, PostedSound
    <3>4. /\ p.seat.run.pc = "posted" /\ p.seat.run.id = s.seat.active
          /\ p.seat.active = s.seat.active /\ p.seat.reported = s.seat.reported
          /\ p.seat.children = s.seat.children /\ p.past.moved = s.past.moved
          /\ p.past.failed = s.past.failed
      BY <2>5, <3>2 DEF Posted, Outside
    <3> QED
      BY <1>5, <3>3, <3>4 DEF Moved, Unread, Settled, p
  <2> QED
    BY <2>6, <2>7
<1> QED
  BY <1>3, <1>4, <1>5

LEMMA ArrivesMoves ==
  ASSUME NEW s, Sound(s), Settled(s)
  PROVE  Moved(s, Arrives(s)) /\ Unread(Arrives(s))
<1> DEFINE k == s.past.got + 1
           c == s.seat.chain \o << k >>
           e == [s.seat EXCEPT !.chain = c]
           h == [s.past EXCEPT !.got = k]
           r == [seat |-> e, past |-> h]
<1>1. TextTyped(s)
  BY DEF Sound
<1>2. k \in Nat
  BY <1>1, TextParts
<1>3. c \in Seq(Nat)
  <2> DEFINE q == << k >>
  <2>1. q \in Seq(Nat)
    BY <1>2
  <2> HIDE DEF q
  <2>2. s.seat.chain \o q \in Seq(Nat)
    BY <1>1, <2>1, TextParts, Joined
  <2> QED
    BY <2>2 DEF q
<1>4. Arrives(s) = Advance(r)
  <2>1. s = [seat |-> s.seat, past |-> s.past]
    BY <1>1 DEF TextTyped
  <2> DEFINE t == [s EXCEPT !.past.got = @ + 1]
  <2>2. t = [seat |-> s.seat, past |-> h]
    BY <2>1
  <2>3. [t EXCEPT !.seat.chain = @ \o << k >>] = r
    <3> HIDE DEF t, h, k
    <3>1. t.seat = s.seat
      BY <2>2
    <3> QED
      BY <2>2, <3>1
  <2>4. Arrives(s) = Advance([t EXCEPT !.seat.chain = @ \o << k >>])
    BY DEF Arrives, InjectSoon
  <2> QED
    BY <2>3, <2>4
<1> HIDE DEF k, c
<1>5. e \in Seat /\ e.chain = c
  BY <1>1, <1>3, TextParts DEF Seat
<1>6. /\ e.active = s.seat.active /\ e.reported = s.seat.reported
      /\ e.children = s.seat.children /\ e.held = s.seat.held /\ e.run = s.seat.run
      /\ e.dropped = s.seat.dropped /\ e.briefed = s.seat.briefed
  BY <1>1, TextParts DEF Seat
<1>7. /\ h \in Past /\ h.got = k /\ h.held = s.past.held /\ h.told = s.past.told
      /\ h.read = s.past.read /\ h.failed = s.past.failed /\ h.moved = s.past.moved
  BY <1>1, <1>2, TextParts DEF Past
<1> HIDE DEF e, h
<1>8. r.seat = e /\ r.past = h /\ TextTyped(r)
  BY <1>5, <1>7 DEF TextTyped
<1> HIDE DEF r
<1>9. Pushed(s, r)
  BY <1>5, <1>6, <1>7, <1>8 DEF Pushed, Outside, k, c
<1>10. Sound(r) /\ r.seat.chain # << >>
  BY <1>9, PushedSound
<1>11. Moved(r, Advance(r)) /\ Unread(r)
  BY <1>10, AdvanceMoves DEF Unread
<1> QED
  BY <1>4, <1>9, <1>11 DEF Moved, Pushed, Outside

-----------------------------------------------------------------------------
(* The handlers of the spoke, as far as they deal with texts.              *)

LEMMA NowIs ==
  /\ Now.seat = seat /\ Now.past = past
  /\ \A s : TextTyped(s) /\ Becomes(s) => Now' = s /\ seat' = s.seat /\ past' = s.past
  /\ seat' = seat /\ past' = past => Now' = Now
BY DEF Now, Becomes, TextTyped

LEMMA SeatIs ==
  ASSUME Sound(Now)
  PROVE  /\ seat \in Seat /\ past \in Past /\ seat.active \in Id
         /\ seat.reported \in {"none", "idle", "busy"} /\ seat.children \subseteq Child
         /\ seat.run.pc \in {"free", "briefing", "posted", "taken", "answered"}
         /\ seat.run \in Run /\ seat.held \in Seq(Nat) /\ seat.chain \in Seq(Nat)
         /\ seat.dropped \in Nat /\ past.told \in Nat
         /\ past.failed \in BOOLEAN /\ past.moved \in BOOLEAN
<1>1. TextTyped(Now)
  BY DEF Sound
<1>2. /\ seat \in Seat /\ past \in Past
      /\ seat.run.pc \in {"free", "briefing", "posted", "taken", "answered"}
  BY <1>1, NowIs, TextParts
<1> QED
  BY <1>2 DEF Seat, Past

\* A note of the plugin's own arrives as a text does.
LEMMA NoteMoves ==
  ASSUME Sound(Now), Settled(Now), NEW b \in BOOLEAN,
         Becomes(Arrives([Now EXCEPT !.seat.notified = b]))
  PROVE  Moved(Now, Now') /\ Unread(Now')
<1> DEFINE e == [seat EXCEPT !.notified = b]
           r == [seat |-> e, past |-> past]
<1>1. [Now EXCEPT !.seat.notified = b] = r
  BY DEF Now
<1>2. e \in Seat
  BY SeatIs DEF Seat
<1>3. /\ e.active = seat.active /\ e.reported = seat.reported
      /\ e.children = seat.children /\ e.held = seat.held /\ e.run = seat.run
      /\ e.dropped = seat.dropped /\ e.briefed = seat.briefed /\ e.chain = seat.chain
  BY SeatIs DEF Seat
<1> HIDE DEF e
<1>4. r.seat = e /\ r.past = past /\ TextTyped(r)
  BY <1>2, SeatIs DEF TextTyped
<1> HIDE DEF r
<1>5. Steady(Now, r)
  BY <1>3, <1>4, NowIs DEF Steady
<1>6. Sound(r) /\ Settled(r)
  BY <1>5, SteadySound
<1>7. Moved(r, Arrives(r)) /\ Unread(Arrives(r))
  BY <1>6, ArrivesMoves
<1>8. Now' = Arrives(r)
  <2>1. TextTyped(Arrives(r))
    BY <1>7 DEF Moved, Sound
  <2>2. Becomes(Arrives(r))
    BY <1>1
  <2> QED
    BY <2>1, <2>2, NowIs
<1>9. Unread(Now) => Unread(r)
  BY <1>3, <1>4, NowIs DEF Unread
<1> QED
  BY <1>3, <1>4, <1>7, <1>8, <1>9, NowIs DEF Moved

LEMMA FrameMoves ==
  ASSUME Sound(Now), Settled(Now), Becomes(Arrives(Now))
  PROVE  Moved(Now, Now') /\ Unread(Now')
<1>1. Moved(Now, Arrives(Now)) /\ Unread(Arrives(Now))
  BY ArrivesMoves
<1>2. Now' = Arrives(Now)
  BY <1>1, NowIs DEF Moved, Sound
<1> QED
  BY <1>1, <1>2

LEMMA StillMoves ==
  ASSUME Sound(Now), Settled(Now), Becomes(Now) \/ UNCHANGED <<seat, past>>
  PROVE  Moved(Now, Now')
<1>1. Now' = Now
  BY NowIs DEF Now, Becomes
<1> QED
  BY <1>1 DEF Moved

LEMMA BriefMoves ==
  ASSUME Sound(Now), BriefReturns
  PROVE  Moved(Now, Now')
<1>1. seat.run.pc = "briefing" /\ Becomes(Post(Now))
  BY DEF BriefReturns
<1>2. TextTyped(Now) /\ Now.seat.run.id \in TopLevel
  BY <1>1, NowIs DEF Sound, Running
<1>3. Posted(Now, Post(Now))
  BY <1>2, PostDoes
<1>4. Now' = Post(Now)
  BY <1>1, <1>3, NowIs DEF Posted
<1>5. Sound(Now')
  BY <1>1, <1>3, <1>4, NowIs, PostedSound
<1>6. Settled(Now')
  BY <1>3, <1>4 DEF Settled, Posted
<1> QED
  BY <1>1, <1>3, <1>4, <1>5, <1>6, NowIs DEF Moved, Posted, Outside, Unread

\* A prompt returns, or is refused.
LEMMA ReturnedMoves ==
  ASSUME Sound(Now), seat.run.pc \in {"posted", "answered"}, NEW f \in BOOLEAN,
         past.failed => f, Becomes(Returned([Now EXCEPT !.past.failed = f]))
  PROVE  /\ Sound(Now') /\ Settled(Now')
         /\ seat'.active = seat.active /\ seat'.reported = seat.reported
         /\ seat'.children = seat.children /\ past'.moved = past.moved /\ past'.failed = f
         /\ seat'.run.pc # "free" => seat'.run.id = seat.active
         /\ seat.run.pc = "answered" /\ Unread(Now) => Unread(Now')
<1> DEFINE e == [seat EXCEPT !.run = Free]
           h == [past EXCEPT !.failed = f]
           r == [seat |-> e, past |-> h]
<1>1. Returned([Now EXCEPT !.past.failed = f]) = Advance(r)
  <2>1. [Now EXCEPT !.past.failed = f] = [seat |-> seat, past |-> h]
    BY DEF Now
  <2> HIDE DEF h
  <2>2. [[seat |-> seat, past |-> h] EXCEPT !.seat.run = Free] = [seat |-> e, past |-> h]
    OBVIOUS
  <2> QED
    BY <2>1, <2>2 DEF Returned
<1>2. e \in Seat /\ e.run = Free
  BY SeatIs, Constants DEF Seat
<1>3. /\ e.active = seat.active /\ e.reported = seat.reported /\ e.children = seat.children
      /\ e.held = seat.held /\ e.dropped = seat.dropped /\ e.briefed = seat.briefed
      /\ e.chain = seat.chain
  BY SeatIs DEF Seat
<1>4. /\ h \in Past /\ h.failed = f /\ h.got = past.got /\ h.held = past.held
      /\ h.told = past.told /\ h.read = past.read /\ h.moved = past.moved
  BY SeatIs DEF Past
<1> HIDE DEF e, h
<1>5. r.seat = e /\ r.past = h /\ TextTyped(r)
  BY <1>2, <1>4 DEF TextTyped
<1> HIDE DEF r
<1>6. Freed(Now, r)
  BY <1>2, <1>3, <1>4, <1>5, NowIs DEF Freed, Outside
<1>7. Sound(r)
  BY <1>6, FreedSound
<1>8. Moved(r, Advance(r))
  BY <1>7, AdvanceMoves
<1>9. Now' = Advance(r) /\ seat' = Advance(r).seat /\ past' = Advance(r).past
  BY <1>1, <1>8, NowIs DEF Moved, Sound
<1>10. seat.run.pc = "answered" /\ Unread(Now) => Unread(r)
  BY <1>3, <1>5, NowIs DEF Unread
<1>11. r.seat.run.pc = "free"
  BY <1>2, <1>5 DEF Free
<1> QED
  BY <1>3, <1>4, <1>5, <1>8, <1>9, <1>10, <1>11 DEF Moved

\* The seat of id goes idle: what is held goes on.
LEMMA IdleMoves ==
  ASSUME Sound(Now), NEW id \in TopLevel, id \notin seat.children, OnIdle(id)
  PROVE  /\ Sound(Now') /\ Settled(Now')
         /\ seat'.active = id /\ seat'.reported = "idle" /\ seat'.children = seat.children
         /\ past'.moved = (past.moved \/ seat.active \notin {NoSession, id})
         /\ past'.failed = past.failed
         /\ seat'.run.pc # "free" =>
              \/ seat'.run.id = id
              \/ seat.run.pc # "free" /\ seat'.run.id = seat.run.id
         /\ Unread(Now) => Unread(Now')
         /\ wire' = IF Stale("idle") THEN Stated(wire, "idle") ELSE wire
<1> DEFINE m == seat.active \notin {NoSession, id}
           k == IF seat.held # << >> THEN seat.dropped ELSE 0
           s == [Now EXCEPT !.seat.active = id, !.seat.reported = "idle",
                            !.seat.held = << >>, !.seat.dropped = @ - k,
                            !.past.told = @ + k, !.past.moved = @ \/ m]
           c == seat.chain \o seat.held
           d == seat.dropped - k
           t == past.told + k
           v == past.moved \/ m
           e == [seat EXCEPT !.active = id, !.reported = "idle", !.held = << >>,
                             !.dropped = d, !.chain = c]
           h == [past EXCEPT !.told = t, !.moved = v]
           r == [seat |-> e, past |-> h]
<1>1. /\ Becomes(InjectSoon(s, seat.held))
      /\ wire' = IF Stale("idle") THEN Stated(wire, "idle") ELSE wire
  BY DEF OnIdle
<1>2. k \in Nat /\ d \in Nat /\ t \in Nat /\ d + t = seat.dropped + past.told
  <2>1. seat.dropped \in Nat /\ past.told \in Nat
    BY SeatIs
  <2>2. CASE seat.held # << >>
    BY <2>1, <2>2
  <2>3. CASE seat.held = << >>
    BY <2>1, <2>3
  <2> QED
    BY <2>2, <2>3
<1>3. c \in Seq(Nat)
  BY SeatIs, Joined
<1>4. v \in BOOLEAN
  BY SeatIs
<1>5. InjectSoon(s, seat.held) = Advance(r)
  <2> DEFINE e0 == [seat EXCEPT !.active = id, !.reported = "idle", !.held = << >>,
                                !.dropped = d]
  <2>1. s = [seat |-> e0, past |-> h]
    <3>1. s = [Now EXCEPT !.seat.active = id, !.seat.reported = "idle", !.seat.held = << >>,
                          !.seat.dropped = d, !.past.told = t, !.past.moved = v]
      BY NowIs
    <3> HIDE DEF d, t, v, s
    <3> QED
      BY <3>1 DEF Now
  <2>2. e0.chain = seat.chain /\ e = [e0 EXCEPT !.chain = c]
    BY SeatIs DEF Seat
  <2> HIDE DEF e0, h, e, s, c
  <2>3. s.seat = e0 /\ s.seat.chain \o seat.held = c
    BY <2>1, <2>2 DEF c
  <2>4. [s EXCEPT !.seat.chain = @ \o seat.held] = [s EXCEPT !.seat.chain = c]
    BY <2>3
  <2>5. [s EXCEPT !.seat.chain = c] = [seat |-> [e0 EXCEPT !.chain = c], past |-> h]
    BY <2>1
  <2>6. [s EXCEPT !.seat.chain = @ \o seat.held] = [seat |-> e, past |-> h]
    BY <2>2, <2>4, <2>5
  <2> QED
    BY <2>6 DEF InjectSoon
<1> HIDE DEF k, d, t, v, m
<1>6. e \in Seat
  BY <1>2, <1>3, SeatIs, EmptySeq DEF Seat, Id
<1>7. /\ e.active = id /\ e.reported = "idle" /\ e.children = seat.children
      /\ e.held = << >> /\ e.dropped = d /\ e.briefed = seat.briefed
      /\ e.chain = c /\ e.run = seat.run
  BY SeatIs DEF Seat
<1>8. /\ h \in Past /\ h.failed = past.failed /\ h.got = past.got /\ h.held = past.held
      /\ h.told = t /\ h.read = past.read /\ h.moved = v
  BY <1>2, <1>4, SeatIs DEF Past
<1> HIDE DEF e, h, s
<1>9. r.seat = e /\ r.past = h /\ TextTyped(r)
  BY <1>6, <1>8 DEF TextTyped
<1> HIDE DEF r
<1>10. Flushed(Now, r)
  BY <1>2, <1>7, <1>8, <1>9, NowIs DEF Flushed
<1>11. Sound(r)
  BY <1>10, FlushedSound
<1>12. Moved(r, Advance(r))
  BY <1>11, AdvanceMoves
<1>13. Now' = Advance(r) /\ seat' = Advance(r).seat /\ past' = Advance(r).past
  BY <1>1, <1>5, <1>12, NowIs DEF Moved, Sound
<1>14. Unread(Now) => Unread(r)
  <2>1. seat.chain # << >> \/ seat.held # << >> => c # << >>
    BY SeatIs, ConcatEqualIffEmpty, ConcatEmptySeq
  <2> HIDE DEF c
  <2> QED
    BY <1>7, <1>9, <2>1, NowIs DEF Unread
<1> QED
  BY <1>1, <1>7, <1>8, <1>9, <1>12, <1>13, <1>14 DEF Moved, v, m

-----------------------------------------------------------------------------
(* The frames on a wire.                                                   *)

\* StateRestated, of the frames q on their way up, what the plugin thinks it
\* has reported and what the hub has heard.
Restates(q, st, heard) ==
  LET states == {i \in DOMAIN q : q[i].t = "state"}
  IN  IF states = {} THEN st = heard
      ELSE \E i \in states : (\A j \in states : j <= i) /\ q[i].is = st

LEMMA RestatesNow ==
  StateRestated
    <=> (conn.sock = "welcomed" /\ wire.open => Restates(wire.toHub, seat.reported, hub.heard))
BY DEF StateRestated, Restates

LEMMA RestatesState ==
  ASSUME NEW S, NEW q \in Seq(S), NEW f \in S, f.t = "state", NEW heard
  PROVE  Restates(Append(q, f), f.is, heard)
<1> DEFINE a == Append(q, f)
           n == Len(q)
<1>1. a \in Seq(S) /\ Len(a) = n + 1 /\ a[n + 1] = f
  BY Added
<1>2. n \in Nat /\ DOMAIN a = 1 .. n + 1
  BY <1>1, LenProperties
<1> HIDE DEF a, n
<1>3. n + 1 \in {i \in DOMAIN a : a[i].t = "state"}
  BY <1>1, <1>2
<1>4. \A j \in DOMAIN a : j <= n + 1
  BY <1>2
<1> QED
  BY <1>1, <1>3, <1>4 DEF Restates, a

LEMMA RestatesOther ==
  ASSUME NEW S, NEW q \in Seq(S), NEW f \in S, f.t # "state", NEW st, NEW heard,
         Restates(q, st, heard)
  PROVE  Restates(Append(q, f), st, heard)
<1> DEFINE a == Append(q, f)
           n == Len(q)
           A == {i \in DOMAIN a : a[i].t = "state"}
           Q == {i \in DOMAIN q : q[i].t = "state"}
<1>1. a \in Seq(S) /\ Len(a) = n + 1 /\ a[n + 1] = f /\ \A i \in 1 .. n : a[i] = q[i]
  BY Added
<1>2. n \in Nat /\ DOMAIN a = 1 .. n + 1 /\ DOMAIN q = 1 .. n
  BY <1>1, LenProperties
<1> HIDE DEF a, n
<1>3. A = Q
  <2>1. 1 .. n + 1 = (1 .. n) \cup {n + 1}
    BY <1>2
  <2> QED
    BY <1>1, <1>2, <2>1
<1>4. \A i \in Q : a[i] = q[i]
  BY <1>1, <1>2
<1> QED
  BY <1>3, <1>4 DEF Restates, a

LEMMA RestatesTaken ==
  ASSUME NEW S, NEW q \in Seq(S), q # << >>, NEW st, NEW heard, Restates(q, st, heard)
  PROVE  /\ Head(q).t = "state" => Restates(Tail(q), st, Head(q).is)
         /\ Head(q).t # "state" => Restates(Tail(q), st, heard)
<1> DEFINE t == Tail(q)
           n == Len(q)
           T == {i \in DOMAIN t : t[i].t = "state"}
           Q == {i \in DOMAIN q : q[i].t = "state"}
<1>1. /\ t \in Seq(S) /\ Len(t) = n - 1 /\ n > 0 /\ Head(q) = q[1]
      /\ \A i \in 1 .. n - 1 : t[i] = q[i + 1]
  BY Rest1
<1>2. n \in Nat /\ DOMAIN t = 1 .. n - 1 /\ DOMAIN q = 1 .. n
  BY <1>1, LenProperties
<1> HIDE DEF t, n
<1>3. \A i \in T : i + 1 \in Q /\ t[i] = q[i + 1]
  BY <1>1, <1>2
<1>4. \A i \in Q : i = 1 \/ (i - 1 \in T /\ t[i - 1] = q[i])
  <2> TAKE i \in Q
  <2>1. i = 1 \/ (i - 1 \in 1 .. n - 1 /\ (i - 1) + 1 = i)
    BY <1>2
  <2> QED
    BY <1>1, <1>2, <2>1
<1>5. 1 \in DOMAIN q
  BY <1>1, <1>2
<1>6. CASE T = {}
  <2>1. Q \subseteq {1}
    BY <1>4, <1>6
  <2>2. CASE Head(q).t = "state"
    <3>1. Q = {1}
      BY <1>1, <1>5, <2>1, <2>2
    <3>2. q[1].is = st
      BY <3>1 DEF Restates
    <3> QED
      BY <1>1, <1>6, <2>2, <3>2 DEF Restates, t
  <2>3. CASE Head(q).t # "state"
    <3>1. Q = {}
      BY <1>1, <2>1, <2>3
    <3> QED
      BY <1>6, <2>3, <3>1 DEF Restates, t
  <2> QED
    BY <2>2, <2>3
<1>7. CASE T # {}
  <2>1. Q # {}
    BY <1>3, <1>7
  <2>2. PICK k \in Q : (\A j \in Q : j <= k) /\ q[k].is = st
    BY <2>1 DEF Restates
  <2>3. k # 1
    <3>1. PICK i \in T : TRUE
      BY <1>7
    <3>2. i + 1 \in Q /\ i \in Nat /\ i > 0
      BY <1>2, <1>3
    <3>3. i + 1 <= k
      BY <2>2, <3>2
    <3> QED
      BY <3>2, <3>3
  <2>4. k - 1 \in T /\ t[k - 1] = q[k]
    BY <1>4, <2>3
  <2>5. \A j \in T : j <= k - 1
    <3> TAKE j \in T
    <3>1. j + 1 <= k /\ j \in Nat /\ k \in Nat
      BY <1>2, <1>3, <2>2
    <3> QED
      BY <3>1
  <2>6. \E i \in T : (\A j \in T : j <= i) /\ t[i].is = st
    BY <2>2, <2>4, <2>5
  <2> QED
    BY <1>7, <2>6 DEF Restates, t
<1> QED
  BY <1>6, <1>7

LEMMA FrameKinds ==
  /\ [t |-> "hello"] \in Upward
  /\ \A st \in {"idle", "busy"} : [t |-> "state", is |-> st] \in Upward
  /\ \A q \in Nat : [t |-> "say", seq |-> q] \in Upward /\ [t |-> "ok", seq |-> q] \in Downward
  /\ \A k \in {"welcome", "err", "deliver", "odd"} : [t |-> k] \in Downward
  /\ \A f \in Upward : /\ f.t \in {"hello", "state", "say"}
                       /\ f.t = "state" => f.is \in {"idle", "busy"}
                       /\ f.t = "say" => f.seq \in Nat
  /\ \A f \in Downward : /\ f.t \in {"welcome", "err", "deliver", "odd", "ok"}
                         /\ f.t = "ok" => f.seq \in Nat
BY DEF Upward, Downward

-----------------------------------------------------------------------------
(* A connection comes and goes.                                            *)

\* What the steps of a connection leave well typed.
Wired == ConnTyped /\ HubTyped /\ WireTyped

LEMMA LinkParts ==
  ASSUME Wired
  PROVE  /\ conn.sock \in Socket /\ conn.stopped \in BOOLEAN /\ conn.retry \in BOOLEAN
         /\ conn.seq \in Nat /\ conn.pending \subseteq Nat
         /\ hub.up \in BOOLEAN /\ hub.known \in BOOLEAN
         /\ hub.holder \in {"none", "ours", "ghost"} /\ hub.state \in {"idle", "busy"}
         /\ hub.heard \in {"none", "idle", "busy"}
         /\ hub.queue \in Nat /\ hub.said \in Nat /\ hub.outages \in Nat
         /\ wire.open \in BOOLEAN /\ wire.toHub \in Seq(Upward) /\ wire.toSpoke \in Seq(Downward)
BY DEF Wired, ConnTyped, HubTyped, WireTyped

LEMMA NoSocketTyped ==
  /\ NoSocket \in [open : BOOLEAN, toHub : Seq(Upward), toSpoke : Seq(Downward)]
  /\ ~NoSocket.open
BY EmptySeq DEF NoSocket

LEMMA GoneLinks ==
  ASSUME Wired, Agreed, Lost, ConnTyped', conn'.sock = "none", conn'.pending = {},
         conn'.stopped => ~conn'.retry, conn'.retry \/ conn'.stopped
  PROVE  Wired' /\ Linked'
<1>1. wire' = NoSocket /\ WireTyped' /\ ~wire'.open
  BY NoSocketTyped DEF Lost, WireTyped
<1>2. HubTyped' /\ hub'.holder # "ours"
  <2>1. CASE wire.open /\ hub.holder = "ours"
    <3>1. hub' = [hub EXCEPT !.holder = "ghost"]
      BY <2>1 DEF Lost
    <3> QED
      BY <3>1 DEF Wired, HubTyped
  <2>2. CASE ~(wire.open /\ hub.holder = "ours")
    <3>1. hub' = hub
      BY <2>2 DEF Lost
    <3> QED
      BY <2>2, <3>1 DEF Wired, HubTyped, Agreed
  <2> QED
    BY <2>1, <2>2
<1>3. ~Live'
  BY DEF Live
<1>4. Tidy' /\ NeverStranded'
  BY DEF Tidy, NeverStranded
<1>5. SayHasAnswer'
  BY DEF SayHasAnswer
<1>6. Agreed'
  BY <1>1, <1>2, <1>3 DEF Agreed, Live
<1>7. StateRestated'
  BY <1>1 DEF StateRestated
<1>8. Awaited'
  BY <1>2 DEF Awaited
<1> QED
  BY <1>1, <1>2, <1>4, <1>5, <1>6, <1>7, <1>8 DEF Wired, Linked

LEMMA DownLinks ==
  ASSUME Wired, Linked, conn.sock # "none", Down
  PROVE  Wired' /\ Linked'
<1>1. /\ conn' = [[conn EXCEPT !.pending = {}] EXCEPT !.sock = "none", !.retry = ~conn.stopped]
      /\ Lost
  BY DEF Down, FailPending, Schedule
<1>2. ~conn.stopped
  BY DEF Linked, Tidy
<1>3. /\ ConnTyped' /\ conn'.sock = "none" /\ conn'.pending = {} /\ conn'.retry
      /\ ~conn'.stopped
  BY <1>1, <1>2 DEF Wired, ConnTyped, Socket
<1> QED
  BY <1>1, <1>3, GoneLinks DEF Linked

LEMMA StopLinks ==
  ASSUME Wired, Linked, Stop
  PROVE  Wired' /\ Linked'
<1>1. /\ conn' = [[conn EXCEPT !.pending = {}] EXCEPT !.sock = "none", !.retry = FALSE,
                                                       !.stopped = TRUE]
      /\ Lost
  BY DEF Stop, FailPending
<1>2. /\ ConnTyped' /\ conn'.sock = "none" /\ conn'.pending = {} /\ ~conn'.retry
      /\ conn'.stopped
  BY <1>1 DEF Wired, ConnTyped, Socket
<1> QED
  BY <1>1, <1>2, GoneLinks DEF Linked

LEMMA OpenLinks ==
  ASSUME Wired, Linked, Open
  PROVE  Wired' /\ Linked'
<1>1. /\ conn.retry /\ ~conn.stopped
      /\ conn' = [conn EXCEPT !.retry = FALSE, !.sock = "opening"]
      /\ hub' = hub /\ wire' = wire
  BY DEF Open
<1>2. conn.sock = "none"
  BY <1>1 DEF Linked, Tidy
<1>3. ConnTyped' /\ conn'.sock = "opening" /\ ~conn'.retry /\ ~conn'.stopped
      /\ conn'.pending = conn.pending
  BY <1>1 DEF Wired, ConnTyped, Socket
<1>4. conn.pending = {} /\ ~Live /\ wire = NoSocket /\ hub.holder # "ours"
  BY <1>2 DEF Linked, Tidy, Agreed, Live
<1>5. Wired'
  BY <1>1, <1>3 DEF Wired, HubTyped, WireTyped
<1>6. Tidy' /\ NeverStranded' /\ SayHasAnswer'
  BY <1>3, <1>4 DEF Tidy, NeverStranded, SayHasAnswer
<1>7. Agreed' /\ StateRestated' /\ Awaited'
  BY <1>1, <1>3, <1>4 DEF Agreed, StateRestated, Awaited, Live
<1> QED
  BY <1>5, <1>6, <1>7 DEF Linked

LEMMA ConnectLinks ==
  ASSUME Wired, Linked, Connect
  PROVE  Wired' /\ Linked'
<1>1. conn.sock = "opening"
  BY DEF Connect
<1>2. CASE hub.up
  <2>1. /\ conn' = [conn EXCEPT !.sock = "hello"] /\ hub' = hub
        /\ wire' = [open |-> TRUE, toHub |-> << [t |-> "hello"] >>, toSpoke |-> << >>]
    BY <1>2 DEF Connect
  <2>2. /\ ConnTyped' /\ conn'.sock = "hello" /\ conn'.pending = conn.pending
        /\ conn'.retry = conn.retry /\ conn'.stopped = conn.stopped
    BY <2>1 DEF Wired, ConnTyped, Socket
  <2>3. conn.pending = {} /\ hub.holder # "ours" /\ ~conn.retry /\ ~conn.stopped
    BY <1>1 DEF Linked, Tidy, Agreed, Live
  <2>4. WireTyped'
    <3>1. << [t |-> "hello"] >> \in Seq(Upward)
      <4> DEFINE f == [t |-> "hello"]
      <4>1. f \in Upward
        BY FrameKinds
      <4> HIDE DEF f
      <4>2. << f >> \in Seq(Upward)
        BY <4>1
      <4> QED
        BY <4>2 DEF f
    <3> QED
      BY <2>1, <3>1, EmptySeq DEF WireTyped
  <2>5. Wired'
    BY <2>1, <2>2, <2>4 DEF Wired, HubTyped
  <2>6. Tidy' /\ NeverStranded' /\ SayHasAnswer'
    BY <2>2, <2>3 DEF Tidy, NeverStranded, SayHasAnswer
  <2>7. Agreed' /\ StateRestated' /\ Awaited'
    BY <2>1, <2>2, <2>3 DEF Agreed, StateRestated, Awaited, Live
  <2> QED
    BY <2>5, <2>6, <2>7 DEF Linked
<1>3. CASE ~hub.up
  BY <1>1, <1>3, DownLinks DEF Connect
<1> QED
  BY <1>2, <1>3

Wires == [open : BOOLEAN, toHub : Seq(Upward), toSpoke : Seq(Downward)]

LEMMA WireParts ==
  ASSUME NEW w \in Wires
  PROVE  w.open \in BOOLEAN /\ w.toHub \in Seq(Upward) /\ w.toSpoke \in Seq(Downward)
BY DEF Wires

\* A frame goes up, down, or is taken by the spoke or by the hub.
LEMMA PutUp ==
  ASSUME NEW w \in Wires, NEW f \in Upward
  PROVE  LET v == [w EXCEPT !.toHub = Append(@, f)]
         IN  /\ v \in Wires /\ v.open = w.open /\ v.toSpoke = w.toSpoke
             /\ v.toHub = Append(w.toHub, f) /\ ToSet(v.toHub) = ToSet(w.toHub) \cup {f}
<1>1. Append(w.toHub, f) \in Seq(Upward) /\ ToSet(Append(w.toHub, f)) = ToSet(w.toHub) \cup {f}
  BY WireParts, Added
<1> QED
  BY <1>1 DEF Wires

LEMMA PutDown ==
  ASSUME NEW w \in Wires, NEW f \in Downward
  PROVE  LET v == ToSpoke(w, f)
         IN  /\ v \in Wires /\ v.open = w.open /\ v.toHub = w.toHub /\ v.toSpoke # << >>
             /\ v.toSpoke = Append(w.toSpoke, f) /\ ToSet(v.toSpoke) = ToSet(w.toSpoke) \cup {f}
             /\ Head(v.toSpoke) = IF w.toSpoke = << >> THEN f ELSE Head(w.toSpoke)
<1> DEFINE a == Append(w.toSpoke, f)
<1>1. a \in Seq(Downward) /\ ToSet(a) = ToSet(w.toSpoke) \cup {f} /\ a # << >>
  BY WireParts, Added, AppendProperties
<1>2. Head(a) = IF w.toSpoke = << >> THEN f ELSE Head(w.toSpoke)
  BY WireParts, HeadTailAppend
<1> HIDE DEF a
<1>3. ToSpoke(w, f) = [w EXCEPT !.toSpoke = a]
  BY DEF ToSpoke, a
<1>4. /\ ToSpoke(w, f) \in Wires /\ ToSpoke(w, f).open = w.open
      /\ ToSpoke(w, f).toHub = w.toHub /\ ToSpoke(w, f).toSpoke = a
  BY <1>1, <1>3 DEF Wires
<1> QED
  BY <1>1, <1>2, <1>4 DEF a

LEMMA TakeDown ==
  ASSUME NEW w \in Wires, w.toSpoke # << >>
  PROVE  LET v == Rest(w)
         IN  /\ v \in Wires /\ v.open = w.open /\ v.toHub = w.toHub
             /\ v.toSpoke = Tail(w.toSpoke) /\ Head(w.toSpoke) \in Downward
             /\ ToSet(w.toSpoke) = {Head(w.toSpoke)} \cup ToSet(v.toSpoke)
<1>1. /\ Tail(w.toSpoke) \in Seq(Downward) /\ Head(w.toSpoke) \in Downward
      /\ ToSet(w.toSpoke) = {Head(w.toSpoke)} \cup ToSet(Tail(w.toSpoke))
  BY WireParts, Rest1
<1> QED
  BY <1>1 DEF Wires, Rest

LEMMA TakeUp ==
  ASSUME NEW w \in Wires, w.toHub # << >>
  PROVE  LET v == [w EXCEPT !.toHub = Tail(@)]
         IN  /\ v \in Wires /\ v.open = w.open /\ v.toSpoke = w.toSpoke
             /\ v.toHub = Tail(w.toHub) /\ Head(w.toHub) \in Upward
             /\ ToSet(w.toHub) = {Head(w.toHub)} \cup ToSet(v.toHub)
<1>1. /\ Tail(w.toHub) \in Seq(Upward) /\ Head(w.toHub) \in Upward
      /\ ToSet(w.toHub) = {Head(w.toHub)} \cup ToSet(Tail(w.toHub))
  BY WireParts, Rest1
<1> QED
  BY <1>1 DEF Wires

-----------------------------------------------------------------------------
(* The spoke says and reads.                                               *)

LEMMA SayLinks ==
  ASSUME Wired, Linked, Say
  PROVE  Wired' /\ Linked'
<1> DEFINE q == conn.seq + 1
           f == [t |-> "say", seq |-> q]
           P == IF conn.sock = "welcomed" THEN conn.pending \cup {q} ELSE conn.pending
<1>1. /\ conn' = [conn EXCEPT !.seq = q, !.pending = P]
      /\ wire' = Sent(wire, f) /\ hub' = hub /\ seat' = seat /\ past' = past
  BY DEF Say
<1>2. q \in Nat /\ f \in Upward /\ f.t = "say" /\ f.seq = q
  <2>1. q \in Nat
    BY LinkParts
  <2> HIDE DEF q
  <2> QED
    BY <2>1, FrameKinds
<1>3. P \subseteq Nat
  BY <1>2, LinkParts
<1> HIDE DEF f, P
<1>4. /\ ConnTyped' /\ conn'.sock = conn.sock /\ conn'.retry = conn.retry
      /\ conn'.stopped = conn.stopped /\ conn'.seq = q /\ conn'.pending = P
  BY <1>1, <1>2, <1>3 DEF Wired, ConnTyped
<1>5. P \subseteq 1 .. q
  <2>1. conn.pending \subseteq 1 .. conn.seq /\ conn.seq \in Nat
    BY LinkParts DEF Linked, Tidy
  <2>2. \A x \in 1 .. conn.seq : x \in 1 .. q
    BY <2>1
  <2> QED
    BY <2>1, <2>2 DEF P
<1> HIDE DEF q
<1>6. Tidy' /\ NeverStranded'
  BY <1>4, <1>5 DEF Linked, Tidy, NeverStranded, P
<1>7. CASE conn.sock = "welcomed" /\ wire.open
  <2>1. wire' = [wire EXCEPT !.toHub = Append(@, f)]
    BY <1>1, <1>7 DEF Sent
  <2>2. wire \in Wires
    BY DEF Wired, WireTyped, Wires
  <2>3. /\ wire' \in Wires /\ wire'.open = wire.open /\ wire'.toSpoke = wire.toSpoke
        /\ wire'.toHub = Append(wire.toHub, f)
        /\ ToSet(wire'.toHub) = ToSet(wire.toHub) \cup {f}
    BY <1>2, <2>1, <2>2, PutUp
  <2>4. Wired'
    BY <1>1, <1>4, <2>3 DEF Wired, HubTyped, WireTyped, Wires
  <2>5. SayHasAnswer'
    BY <1>2, <1>4, <2>3 DEF Linked, SayHasAnswer, P
  <2>6. Agreed'
    BY <1>1, <1>2, <1>4, <1>7, <2>3 DEF Linked, Agreed, Live
  <2>7. StateRestated'
    <3>1. Restates(wire.toHub, seat.reported, hub.heard)
      BY <1>7, RestatesNow DEF Linked
    <3>2. Restates(wire'.toHub, seat.reported, hub.heard)
      BY <1>2, <2>2, <2>3, <3>1, RestatesOther, WireParts
    <3> QED
      BY <1>1, <3>2 DEF StateRestated, Restates
  <2>8. Awaited'
    <3>1. Given' = Given
      BY <2>3 DEF Given
    <3>2. Now' = Now
      BY <1>1, NowIs
    <3>3. Owed => Owed'
      BY <1>1, <2>3, <3>1, <3>2 DEF Owed
    <3> QED
      BY <1>1, <1>4, <3>1, <3>3 DEF Linked, Awaited
  <2> QED
    BY <1>6, <2>4, <2>5, <2>6, <2>7, <2>8 DEF Linked
<1>8. CASE ~(conn.sock = "welcomed" /\ wire.open)
  <2>1. wire' = wire
    BY <1>1, <1>8 DEF Sent
  <2>2. Wired'
    BY <1>1, <1>4, <2>1 DEF Wired, HubTyped, WireTyped
  <2>3. SayHasAnswer'
    BY <1>4, <1>8, <2>1 DEF Linked, SayHasAnswer, P
  <2>4. Agreed'
    BY <1>1, <1>4, <2>1 DEF Linked, Agreed, Live
  <2>5. StateRestated'
    BY <1>1, <1>4, <2>1 DEF Linked, StateRestated
  <2>6. Awaited'
    BY <1>1, <1>4, <2>1 DEF Linked, Awaited, Given, Owed, Now
  <2> QED
    BY <1>6, <2>2, <2>3, <2>4, <2>5, <2>6 DEF Linked
<1> QED
  BY <1>7, <1>8

LEMMA TimeoutLinks ==
  ASSUME Wired, Linked, NEW q \in conn.pending, SayTimesOut(q)
  PROVE  Wired' /\ Linked'
<1>1. /\ conn' = [conn EXCEPT !.pending = @ \ {q}]
      /\ wire' = wire /\ hub' = hub /\ seat' = seat /\ past' = past
  BY DEF SayTimesOut
<1>2. /\ ConnTyped' /\ conn'.sock = conn.sock /\ conn'.retry = conn.retry
      /\ conn'.stopped = conn.stopped /\ conn'.seq = conn.seq
      /\ conn'.pending = conn.pending \ {q}
  BY <1>1 DEF Wired, ConnTyped
<1>3. Wired'
  BY <1>1, <1>2 DEF Wired, HubTyped, WireTyped
<1>4. Tidy' /\ NeverStranded' /\ SayHasAnswer'
  BY <1>1, <1>2 DEF Linked, Tidy, NeverStranded, SayHasAnswer
<1>5. Agreed' /\ StateRestated'
  BY <1>1, <1>2 DEF Linked, Agreed, Live, StateRestated
<1>6. Awaited'
  BY <1>1, <1>2 DEF Linked, Awaited, Given, Owed, Now
<1> QED
  BY <1>3, <1>4, <1>5, <1>6 DEF Linked

\* An agent that reads what the hub sent, frame f, reads no welcome twice.
LEMMA TakenLinks ==
  ASSUME Wired, Linked, wire.toSpoke # << >>, wire' = Rest(wire), hub' = hub,
         Head(wire.toSpoke).t \notin {"welcome"},
         ConnTyped', conn'.sock = conn.sock, conn'.retry = conn.retry,
         conn'.stopped = conn.stopped, conn'.seq = conn.seq,
         conn'.pending \subseteq conn.pending,
         Head(wire.toSpoke).t = "ok" => Head(wire.toSpoke).seq \notin conn'.pending,
         Moved(Now, Now'), Head(wire.toSpoke).t = "deliver" => Unread(Now')
  PROVE  Wired' /\ Linked'
<1> DEFINE f == Head(wire.toSpoke)
<1>1. wire \in Wires
  BY DEF Wired, WireTyped, Wires
<1>2. /\ wire' \in Wires /\ wire'.open = wire.open /\ wire'.toHub = wire.toHub
      /\ wire'.toSpoke = Tail(wire.toSpoke) /\ f \in Downward
      /\ ToSet(wire.toSpoke) = {f} \cup ToSet(wire'.toSpoke)
  BY <1>1, TakeDown
<1>3. Wired'
  BY <1>2 DEF Wired, HubTyped, WireTyped, Wires
<1>4. Tidy' /\ NeverStranded'
  BY DEF Linked, Tidy, NeverStranded
<1>5. f.t # "say"
  BY <1>2, FrameKinds
<1> HIDE DEF f
<1>6. SayHasAnswer'
  <2> SUFFICES ASSUME NEW q \in conn'.pending, wire'.open
               PROVE  \E g \in ToSet(wire'.toHub) \cup ToSet(wire'.toSpoke) :
                        g.t \in {"say", "ok"} /\ g.seq = q
    BY DEF SayHasAnswer
  <2>1. PICK g \in ToSet(wire.toHub) \cup ToSet(wire.toSpoke) : g.t \in {"say", "ok"} /\ g.seq = q
    BY <1>2 DEF Linked, SayHasAnswer
  <2>2. g # f
    BY <1>5, <2>1 DEF f
  <2> QED
    BY <1>2, <2>1, <2>2
<1>7. Agreed'
  <2>1. Live /\ ~(conn.sock = "hello" /\ wire.open)
    BY DEF Linked, Agreed, NoSocket
  <2> QED
    BY <1>2, <2>1 DEF Linked, Agreed, Live
<1>8. seat'.reported = seat.reported /\ past'.moved = past.moved /\ past'.failed = past.failed
  BY NowIs DEF Moved, Now
<1>9. StateRestated'
  BY <1>2, <1>8 DEF Linked, StateRestated
<1>10. Awaited'
  <2>1. f.t # "deliver" => (Given => Given')
    BY <1>2 DEF Given
  <2>2. Owed => Owed'
    BY <1>2, <1>8, <2>1 DEF Owed, Moved, f
  <2>3. conn.sock = "hello" => ~wire.open
    BY DEF Linked, Agreed
  <2>4. hub.holder = "ours" => wire.open
    BY DEF Linked, Agreed
  <2> QED
    BY <1>8, <2>2, <2>3, <2>4 DEF Linked, Awaited
<1> QED
  BY <1>3, <1>4, <1>6, <1>7, <1>9, <1>10 DEF Linked

LEMMA WelcomeLinks ==
  ASSUME Wired, Linked, Live, wire.toSpoke # << >>, Head(wire.toSpoke).t = "welcome",
         conn' = [conn EXCEPT !.sock = "welcomed"], wire' = Restated(Rest(wire)),
         hub' = hub, Moved(Now, Now'), seat.reported \in {"none", "idle", "busy"}
  PROVE  Wired' /\ Linked'
<1> DEFINE w == Rest(wire)
           st == seat.reported
           f == [t |-> "state", is |-> st]
<1>1. wire \in Wires
  BY DEF Wired, WireTyped, Wires
<1>2. /\ w \in Wires /\ w.open = wire.open /\ w.toHub = wire.toHub
      /\ ToSet(wire.toSpoke) = {Head(wire.toSpoke)} \cup ToSet(w.toSpoke)
  BY <1>1, TakeDown
<1>3. /\ ConnTyped' /\ conn'.sock = "welcomed" /\ conn'.retry = conn.retry
      /\ conn'.stopped = conn.stopped /\ conn'.seq = conn.seq /\ conn'.pending = conn.pending
  BY DEF Wired, ConnTyped, Socket
<1>4. wire' = IF st = "none" \/ ~w.open THEN w ELSE [w EXCEPT !.toHub = Append(@, f)]
  BY DEF Restated
<1>5. seat'.reported = st /\ past'.moved = past.moved /\ past'.failed = past.failed
  BY NowIs DEF Moved, Now
<1>6. st # "none" => f \in Upward /\ f.t = "state" /\ f.is = st
  BY FrameKinds
<1>7. f.t = "state" /\ f.is = st
  OBVIOUS
<1> HIDE DEF w, f, st
<1>8. /\ wire' \in Wires /\ wire'.open = wire.open /\ wire'.toSpoke = w.toSpoke
      /\ IF st = "none" \/ ~w.open THEN wire'.toHub = wire.toHub
         ELSE /\ wire'.toHub = Append(wire.toHub, f)
              /\ ToSet(wire'.toHub) = ToSet(wire.toHub) \cup {f}
  <2>1. CASE st = "none" \/ ~w.open
    <3>1. wire' = w
      BY <1>4, <2>1
    <3> QED
      BY <1>2, <2>1, <3>1
  <2>2. CASE ~(st = "none" \/ ~w.open)
    <3>1. wire' = [w EXCEPT !.toHub = Append(@, f)] /\ f \in Upward
      BY <1>4, <1>6, <2>2
    <3>2. w \in Wires /\ f \in Upward
      BY <1>2, <3>1
    <3> DEFINE v == [w EXCEPT !.toHub = Append(@, f)]
    <3>3. /\ v \in Wires /\ v.open = w.open /\ v.toSpoke = w.toSpoke
          /\ v.toHub = Append(w.toHub, f) /\ ToSet(v.toHub) = ToSet(w.toHub) \cup {f}
      BY <3>2, PutUp
    <3>4. wire' = v
      BY <3>1
    <3> HIDE DEF v
    <3> QED
      BY <1>2, <2>2, <3>3, <3>4
  <2> QED
    BY <2>1, <2>2
<1>9. Wired'
  BY <1>3, <1>8 DEF Wired, HubTyped, WireTyped, Wires
<1>10. Tidy' /\ NeverStranded'
  BY <1>3 DEF Linked, Tidy, NeverStranded, Live
<1>11. ToSet(wire.toHub) \subseteq ToSet(wire'.toHub)
  BY <1>8
<1>12. SayHasAnswer'
  BY <1>2, <1>3, <1>8, <1>11 DEF Linked, SayHasAnswer
<1>13. ASSUME wire.open, conn.sock = "hello"
       PROVE  /\ wire.toHub = << >> /\ hub.holder = "ours" /\ hub.heard = "none"
              /\ ToSet(wire.toHub) = {}
  <2>1. wire.toHub = << >> /\ hub.holder = "ours" /\ hub.heard = "none"
    BY <1>13 DEF Linked, Agreed
  <2> QED
    BY <2>1 DEF ToSet
<1>14. Agreed'
  <2>1. wire.open => hub.holder = "ours" /\ \A g \in ToSet(wire.toHub) : g.t # "hello"
    BY <1>13 DEF Linked, Agreed, Live
  <2>2. hub.holder = "ours" => wire.open
    BY DEF Linked, Agreed
  <2>3. wire.open => \A g \in ToSet(wire'.toHub) : g.t # "hello"
    BY <1>2, <1>7, <1>8, <2>1
  <2> QED
    BY <1>3, <1>8, <2>1, <2>2, <2>3 DEF Agreed, Live
<1>15. StateRestated'
  <2> SUFFICES ASSUME wire.open PROVE Restates(wire'.toHub, st, hub.heard)
    BY <1>3, <1>5, <1>8 DEF StateRestated, Restates
  <2>1. CASE st = "none"
    <3>1. CASE conn.sock = "hello"
      BY <1>8, <1>13, <2>1, <3>1 DEF Restates
    <3>2. CASE conn.sock = "welcomed"
      BY <1>8, <2>1, <3>2, RestatesNow DEF Linked, st
    <3> QED
      BY <3>1, <3>2 DEF Live
  <2>2. CASE st # "none"
    <3>1. wire'.toHub = Append(wire.toHub, f) /\ f \in Upward
      BY <1>2, <1>6, <1>8, <2>2
    <3> QED
      BY <1>1, <1>7, <3>1, RestatesState, WireParts
  <2> QED
    BY <2>1, <2>2
<1>16. Awaited'
  <2>1. Given => Given'
    BY <1>2, <1>8 DEF Given
  <2>2. Owed => Owed'
    BY <1>5, <1>11, <2>1 DEF Owed, Moved, st
  <2>3. Given' => Owed'
    BY DEF Owed
  <2> QED
    BY <1>3, <1>5, <2>1, <2>2, <2>3 DEF Linked, Awaited, Live
<1> QED
  BY <1>9, <1>10, <1>12, <1>14, <1>15, <1>16 DEF Linked

-----------------------------------------------------------------------------
(* The hub acts.                                                           *)

\* What the hub holds of the name, and what it sends down on w; the spoke and
\* its seat stand still.
LEMMA FlushDoes ==
  ASSUME NEW h, NEW w \in Wires,
         h \in [up : BOOLEAN, known : BOOLEAN, holder : {"none", "ours", "ghost"},
                state : {"idle", "busy"}, heard : {"none", "idle", "busy"},
                queue : Nat, said : Nat, outages : Nat],
         Flushes(h, w)
  PROVE  /\ HubTyped' /\ wire' \in Wires /\ wire'.open = w.open /\ wire'.toHub = w.toHub
         /\ ToSet(w.toSpoke) \subseteq ToSet(wire'.toSpoke)
         /\ w.toSpoke # << >> => /\ wire'.toSpoke # << >>
                                 /\ Head(wire'.toSpoke) = Head(w.toSpoke)
         /\ hub'.holder = h.holder /\ hub'.heard = h.heard
         /\ hub'.queue = 0
         /\ hub'.state = h.state \/ (hub'.state = "busy" /\ Given')
<1>1. CASE h.queue > 0
  <2> DEFINE f == [t |-> "deliver"]
  <2>1. hub' = [h EXCEPT !.queue = 0, !.state = "busy"] /\ wire' = ToSpoke(w, f)
    BY <1>1 DEF Flushes
  <2>2. f \in Downward /\ f.t = "deliver"
    BY FrameKinds
  <2> HIDE DEF f
  <2>3. /\ wire' \in Wires /\ wire'.open = w.open /\ wire'.toHub = w.toHub
        /\ wire'.toSpoke # << >> /\ ToSet(wire'.toSpoke) = ToSet(w.toSpoke) \cup {f}
        /\ Head(wire'.toSpoke) = IF w.toSpoke = << >> THEN f ELSE Head(w.toSpoke)
    BY <2>1, <2>2, PutDown
  <2>4. Given'
    BY <2>2, <2>3 DEF Given
  <2>5. /\ HubTyped' /\ hub'.holder = h.holder /\ hub'.heard = h.heard /\ hub'.queue = 0
        /\ hub'.state = "busy"
    BY <2>1 DEF HubTyped
  <2> QED
    BY <2>3, <2>4, <2>5
<1>2. CASE ~(h.queue > 0)
  <2>1. hub' = h /\ wire' = w
    BY <1>2 DEF Flushes
  <2>2. h.queue = 0
    BY <1>2
  <2> QED
    BY <2>1, <2>2 DEF HubTyped
<1> QED
  BY <1>1, <1>2

\* A step of the hub that takes nothing off the wire.
LEMMA HubAddsLinks ==
  ASSUME Wired, Linked, conn' = conn, seat' = seat, past' = past,
         HubTyped', wire' \in Wires, wire'.open = wire.open, wire'.toHub = wire.toHub,
         ToSet(wire.toSpoke) \subseteq ToSet(wire'.toSpoke),
         wire.toSpoke # << >> => /\ wire'.toSpoke # << >>
                                 /\ Head(wire'.toSpoke) = Head(wire.toSpoke),
         hub'.heard = hub.heard, wire.open \/ wire' = wire,
         hub'.holder = hub.holder \/ (hub.holder = "ghost" /\ hub'.holder = "none"),
         hub.holder = "ours" \/ wire' = wire,
         hub.holder = "ours" => \/ hub'.state = hub.state /\ (hub.state = "idle" => hub'.queue = 0)
                                \/ hub'.state = "busy" /\ Given'
  PROVE  Wired' /\ Linked'
<1>1. Wired'
  BY DEF Wired, ConnTyped, WireTyped, Wires
<1>2. Tidy' /\ NeverStranded' /\ SayHasAnswer'
  BY DEF Linked, Tidy, NeverStranded, SayHasAnswer
<1>3. Agreed'
  <2>1. ~Live => wire' = wire
    BY DEF Linked, Agreed, NoSocket
  <2>2. CASE hub.holder = "ours"
    BY <2>1, <2>2 DEF Linked, Agreed, Live
  <2>3. CASE hub.holder # "ours"
    BY <2>1, <2>3 DEF Linked, Agreed, Live
  <2> QED
    BY <2>2, <2>3
<1>4. StateRestated'
  BY DEF Linked, StateRestated
<1>5. Awaited'
  <2>1. Given => Given'
    BY DEF Given
  <2>2. Now' = Now
    BY NowIs
  <2>3. Owed => Owed'
    BY <2>1, <2>2 DEF Owed
  <2>4. Given' => Owed'
    BY DEF Owed
  <2> QED
    BY <2>1, <2>3, <2>4 DEF Linked, Awaited
<1> QED
  BY <1>1, <1>2, <1>3, <1>4, <1>5 DEF Linked

LEMMA StartsLinks ==
  ASSUME Wired, Linked, HubStarts \/ HubNotices
  PROVE  Wired' /\ Linked'
<1>1. wire \in Wires
  BY DEF Wired, WireTyped, Wires
<1>2. CASE HubStarts
  <2>1. /\ hub' = [hub EXCEPT !.up = TRUE]
        /\ conn' = conn /\ seat' = seat /\ past' = past /\ wire' = wire
    BY <1>2 DEF HubStarts
  <2>2. /\ HubTyped' /\ hub'.holder = hub.holder /\ hub'.heard = hub.heard
        /\ hub'.state = hub.state /\ hub'.queue = hub.queue
    BY <2>1 DEF Wired, HubTyped
  <2> QED
    BY <1>1, <2>1, <2>2, HubAddsLinks DEF Linked, Awaited
<1>3. CASE HubNotices
  <2>1. /\ hub' = [hub EXCEPT !.holder = "none"] /\ hub.holder = "ghost"
        /\ conn' = conn /\ seat' = seat /\ past' = past /\ wire' = wire
    BY <1>3 DEF HubNotices
  <2>2. /\ HubTyped' /\ hub'.holder = "none" /\ hub'.heard = hub.heard
    BY <2>1 DEF Wired, HubTyped
  <2> QED
    BY <1>1, <2>1, <2>2, HubAddsLinks
<1> QED
  BY <1>2, <1>3

LEMMA OddLinks ==
  ASSUME Wired, Linked, HubSendsOdd
  PROVE  Wired' /\ Linked'
<1> DEFINE f == [t |-> "odd"]
<1>1. wire \in Wires
  BY DEF Wired, WireTyped, Wires
<1>2. /\ wire.open /\ hub.holder = "ours" /\ hub' = [hub EXCEPT !.outages = @ + 1]
      /\ wire' = ToSpoke(wire, f) /\ conn' = conn /\ seat' = seat /\ past' = past
  BY DEF HubSendsOdd
<1>3. f \in Downward
  BY FrameKinds
<1> HIDE DEF f
<1>4. /\ wire' \in Wires /\ wire'.open = wire.open /\ wire'.toHub = wire.toHub
      /\ wire'.toSpoke # << >> /\ ToSet(wire'.toSpoke) = ToSet(wire.toSpoke) \cup {f}
      /\ Head(wire'.toSpoke) = IF wire.toSpoke = << >> THEN f ELSE Head(wire.toSpoke)
  BY <1>1, <1>2, <1>3, PutDown
<1>5. hub.outages + 1 \in Nat
  BY LinkParts
<1>6. /\ HubTyped' /\ hub'.holder = hub.holder /\ hub'.heard = hub.heard
      /\ hub'.state = hub.state /\ hub'.queue = hub.queue
  BY <1>2, <1>5 DEF Wired, HubTyped
<1>7. hub.state = "idle" => hub.queue = 0
  BY <1>2 DEF Linked, Awaited
<1> QED
  BY <1>2, <1>4, <1>6, <1>7, HubAddsLinks

LEMMA SaidLinks ==
  ASSUME Wired, Linked, Said
  PROVE  Wired' /\ Linked'
<1> DEFINE h == [hub EXCEPT !.said = @ + 1]
           g == [h EXCEPT !.queue = 1]
<1>1. wire \in Wires
  BY DEF Wired, WireTyped, Wires
<1>2. conn' = conn /\ seat' = seat /\ past' = past
  BY DEF Said
<1>3. hub.said + 1 \in Nat /\ hub.queue + 1 \in Nat
  BY LinkParts
<1>4. CASE hub.state = "busy" \/ hub.holder = "none"
  <2>1. hub' = [h EXCEPT !.queue = @ + 1] /\ wire' = wire
    BY <1>4 DEF Said
  <2>2. /\ HubTyped' /\ hub'.holder = hub.holder /\ hub'.heard = hub.heard
        /\ hub'.state = hub.state
    BY <1>3, <2>1 DEF Wired, HubTyped
  <2> QED
    BY <1>1, <1>2, <1>4, <2>1, <2>2, HubAddsLinks
<1>5. CASE hub.state # "busy" /\ hub.holder = "ours"
  <2>1. Flushes(g, wire)
    BY <1>5 DEF Said
  <2>2. /\ g \in [up : BOOLEAN, known : BOOLEAN, holder : {"none", "ours", "ghost"},
                  state : {"idle", "busy"}, heard : {"none", "idle", "busy"},
                  queue : Nat, said : Nat, outages : Nat]
        /\ g.holder = hub.holder /\ g.heard = hub.heard /\ g.state = hub.state
    BY <1>3 DEF Wired, HubTyped
  <2> HIDE DEF g
  <2>3. /\ HubTyped' /\ wire' \in Wires /\ wire'.open = wire.open /\ wire'.toHub = wire.toHub
        /\ ToSet(wire.toSpoke) \subseteq ToSet(wire'.toSpoke)
        /\ wire.toSpoke # << >> => /\ wire'.toSpoke # << >>
                                   /\ Head(wire'.toSpoke) = Head(wire.toSpoke)
        /\ hub'.holder = g.holder /\ hub'.heard = g.heard
        /\ hub'.queue = 0
        /\ hub'.state = g.state \/ (hub'.state = "busy" /\ Given')
    BY <1>1, <2>1, <2>2, FlushDoes
  <2>4. wire.open
    BY <1>5 DEF Linked, Agreed
  <2> QED
    BY <1>2, <1>5, <2>2, <2>3, <2>4, HubAddsLinks
<1>6. CASE hub.state # "busy" /\ hub.holder = "ghost"
  <2>1. hub' = [h EXCEPT !.state = "busy"] /\ wire' = wire
    BY <1>6 DEF Said
  <2>2. /\ HubTyped' /\ hub'.holder = hub.holder /\ hub'.heard = hub.heard
    BY <1>3, <2>1 DEF Wired, HubTyped
  <2> QED
    BY <1>1, <1>2, <1>6, <2>1, <2>2, HubAddsLinks
<1> QED
  BY <1>4, <1>5, <1>6, LinkParts

LEMMA ClosesLinks ==
  ASSUME Wired, Linked, HubCloses
  PROVE  Wired' /\ Linked'
<1>1. PICK up \in BOOLEAN :
        hub' = [hub EXCEPT !.up = up, !.outages = @ + 1, !.holder = "none", !.known = up,
                           !.queue = IF up THEN @ ELSE 0]
  BY DEF HubCloses
<1>2. /\ wire.open /\ wire' = [wire EXCEPT !.open = FALSE, !.toHub = << >>]
      /\ conn' = conn /\ seat' = seat /\ past' = past
  BY DEF HubCloses
<1>3. wire \in Wires
  BY DEF Wired, WireTyped, Wires
<1>4. WireTyped' /\ ~wire'.open
  BY <1>2, <1>3, EmptySeq DEF Wires, WireTyped
<1>5. HubTyped' /\ hub'.holder = "none"
  <2>1. (IF up THEN hub.queue ELSE 0) \in Nat /\ hub.outages + 1 \in Nat
    BY LinkParts
  <2> QED
    BY <1>1, <2>1 DEF Wired, HubTyped
<1>6. Live
  BY <1>2 DEF Linked, Agreed, NoSocket
<1>7. Wired'
  BY <1>2, <1>4, <1>5 DEF Wired, ConnTyped
<1>8. Tidy' /\ NeverStranded' /\ SayHasAnswer' /\ StateRestated'
  BY <1>2, <1>4 DEF Linked, Tidy, NeverStranded, SayHasAnswer, StateRestated
<1>9. Agreed' /\ Awaited'
  BY <1>2, <1>4, <1>5, <1>6 DEF Agreed, Awaited, Live
<1> QED
  BY <1>7, <1>8, <1>9 DEF Linked


\* The hub takes the first frame that the spoke sent.
LEMMA ReadsParts ==
  ASSUME Wired, Linked, wire.open, wire.toHub # << >>
  PROVE  LET f == Head(wire.toHub)
             w == [wire EXCEPT !.toHub = Tail(@)]
         IN  /\ f \in Upward /\ w \in Wires /\ w.open /\ w.toSpoke = wire.toSpoke
             /\ w.toHub = Tail(wire.toHub) /\ ToSet(wire.toHub) = {f} \cup ToSet(w.toHub)
             /\ f.t = "hello" => /\ conn.sock = "hello" /\ hub.holder # "ours"
                                 /\ w.toHub = << >> /\ w.toSpoke = << >>
             /\ f.t # "hello" => conn.sock = "welcomed" /\ hub.holder = "ours"
<1> DEFINE f == Head(wire.toHub)
           w == [wire EXCEPT !.toHub = Tail(@)]
           k == [t |-> "hello"]
<1>1. wire \in Wires
  BY DEF Wired, WireTyped, Wires
<1>2. /\ w \in Wires /\ w.open = wire.open /\ w.toSpoke = wire.toSpoke
      /\ w.toHub = Tail(wire.toHub) /\ f \in Upward
      /\ ToSet(wire.toHub) = {f} \cup ToSet(w.toHub)
  BY <1>1, TakeUp
<1>3. k.t = "hello" /\ Head(<< k >>) = k /\ Tail(<< k >>) = << >>
  BY Single
<1>4. Live
  BY DEF Linked, Agreed, NoSocket
<1>5. CASE conn.sock = "hello"
  <2>1. wire.toHub = << k >> /\ wire.toSpoke = << >> /\ hub.holder # "ours"
    BY <1>5 DEF Linked, Agreed
  <2>2. f = k /\ w.toHub = << >>
    BY <1>2, <1>3, <2>1
  <2> QED
    BY <1>2, <1>3, <1>5, <2>1, <2>2
<1>6. CASE conn.sock = "welcomed"
  <2>1. hub.holder = "ours" /\ f.t # "hello"
    BY <1>2, <1>6 DEF Linked, Agreed
  <2> QED
    BY <1>2, <1>6, <2>1
<1> QED
  BY <1>4, <1>5, <1>6 DEF Live

LEMMA HelloLinks ==
  ASSUME Wired, Linked, HubReads, Head(wire.toHub).t = "hello"
  PROVE  Wired' /\ Linked'
<1> DEFINE w == [wire EXCEPT !.toHub = Tail(@)]
<1>1. /\ wire.open /\ wire.toHub # << >> /\ conn' = conn /\ seat' = seat /\ past' = past
  BY DEF HubReads
<1>2. /\ w \in Wires /\ w.open /\ w.toHub = << >> /\ w.toSpoke = << >>
      /\ conn.sock = "hello" /\ hub.holder # "ours"
  BY <1>1, ReadsParts
<1>3. /\ conn.pending = {} /\ ConnTyped' /\ Tidy' /\ NeverStranded' /\ StateRestated'
      /\ SayHasAnswer' /\ Live'
  BY <1>1, <1>2 DEF Wired, ConnTyped, Linked, Tidy, NeverStranded, StateRestated, SayHasAnswer, Live
<1>4. CASE hub.holder = "none"
  <2> DEFINE f == [t |-> "welcome"]
             v == ToSpoke(w, f)
             h == [hub EXCEPT !.known = TRUE, !.holder = "ours", !.state = "idle",
                              !.heard = "none"]
  <2>1. Flushes(h, v)
    BY <1>4 DEF HubReads
  <2>2. f \in Downward /\ f.t = "welcome"
    BY FrameKinds
  <2>3. /\ h \in [up : BOOLEAN, known : BOOLEAN, holder : {"none", "ours", "ghost"},
                  state : {"idle", "busy"}, heard : {"none", "idle", "busy"},
                  queue : Nat, said : Nat, outages : Nat]
        /\ h.holder = "ours" /\ h.heard = "none" /\ h.state = "idle"
    BY DEF Wired, HubTyped
  <2> HIDE DEF f, h, w
  <2>4. v \in Wires /\ v.open /\ v.toHub = << >> /\ v.toSpoke # << >> /\ Head(v.toSpoke) = f
    BY <1>2, <2>2, PutDown
  <2> HIDE DEF v
  <2>5. /\ HubTyped' /\ wire' \in Wires /\ wire'.open /\ wire'.toHub = << >>
        /\ wire'.toSpoke # << >> /\ Head(wire'.toSpoke) = f
        /\ hub'.holder = "ours" /\ hub'.heard = "none" /\ hub'.queue = 0
        /\ hub'.state = "idle" \/ (hub'.state = "busy" /\ Given')
    BY <2>1, <2>3, <2>4, FlushDoes
  <2>6. Wired'
    BY <1>3, <2>5 DEF Wired, WireTyped, Wires
  <2>7. Agreed' /\ Awaited'
    BY <1>1, <1>2, <1>3, <2>2, <2>5 DEF Agreed, Awaited, Live
  <2> QED
    BY <1>3, <2>6, <2>7 DEF Linked
<1>5. CASE hub.holder # "none"
  <2> DEFINE f == [t |-> "err"]
             v == ToSpoke(w, f)
  <2>1. wire' = [v EXCEPT !.open = FALSE] /\ hub' = hub
    BY <1>5 DEF HubReads
  <2>2. f \in Downward
    BY FrameKinds
  <2> HIDE DEF f, w
  <2>3. v \in Wires
    BY <1>2, <2>2, PutDown
  <2> HIDE DEF v
  <2>4. wire' \in Wires /\ ~wire'.open
    BY <2>1, <2>3 DEF Wires
  <2>5. Wired'
    BY <1>3, <2>1, <2>4 DEF Wired, HubTyped, WireTyped, Wires
  <2>6. Agreed' /\ Awaited'
    BY <1>2, <1>3, <2>1, <2>4 DEF Agreed, Awaited
  <2> QED
    BY <1>3, <2>5, <2>6 DEF Linked
<1> QED
  BY <1>4, <1>5

\* The frame was no hello.
LEMMA TakesUpLinks ==
  ASSUME Wired, Linked, wire.open, wire.toHub # << >>, Head(wire.toHub).t # "hello",
         conn' = conn, seat' = seat, past' = past, HubTyped', hub'.holder = hub.holder,
         wire' \in Wires, wire'.open, wire'.toHub = Tail(wire.toHub),
         ToSet(wire.toSpoke) \subseteq ToSet(wire'.toSpoke),
         hub'.heard = IF Head(wire.toHub).t = "state" THEN Head(wire.toHub).is ELSE hub.heard,
         Head(wire.toHub).t = "say" =>
           \E g \in ToSet(wire'.toSpoke) : g.t = "ok" /\ g.seq = Head(wire.toHub).seq
  PROVE  /\ Wired' /\ Tidy' /\ NeverStranded' /\ SayHasAnswer' /\ Agreed' /\ StateRestated'
         /\ conn.sock = "welcomed" /\ hub.holder = "ours"
<1> DEFINE f == Head(wire.toHub)
<1>1. /\ f \in Upward /\ conn.sock = "welcomed" /\ hub.holder = "ours"
      /\ ToSet(wire.toHub) = {f} \cup ToSet(wire'.toHub)
  BY ReadsParts
<1>2. f.t \in {"state", "say"}
  BY <1>1, FrameKinds
<1> HIDE DEF f
<1>3. Wired'
  BY DEF Wired, ConnTyped, WireTyped, Wires
<1>4. Tidy' /\ NeverStranded'
  BY DEF Linked, Tidy, NeverStranded
<1>5. SayHasAnswer'
  <2> SUFFICES ASSUME NEW q \in conn.pending
               PROVE  \E g \in ToSet(wire'.toHub) \cup ToSet(wire'.toSpoke) :
                        g.t \in {"say", "ok"} /\ g.seq = q
    BY DEF SayHasAnswer
  <2>1. PICK g \in ToSet(wire.toHub) \cup ToSet(wire.toSpoke) : g.t \in {"say", "ok"} /\ g.seq = q
    BY DEF Linked, SayHasAnswer
  <2>2. CASE g = f
    <3>1. f.t = "say" /\ f.seq = q
      BY <1>2, <2>1, <2>2
    <3> QED
      BY <3>1 DEF f
  <2>3. CASE g # f
    BY <1>1, <2>1, <2>3
  <2> QED
    BY <2>2, <2>3
<1>6. Agreed'
  BY <1>1 DEF Linked, Agreed, Live
<1>7. StateRestated'
  <2>1. Restates(wire.toHub, seat.reported, hub.heard)
    BY <1>1, RestatesNow DEF Linked
  <2>2. wire.toHub \in Seq(Upward)
    BY LinkParts
  <2>3. Restates(wire'.toHub, seat.reported, hub'.heard)
    BY <2>1, <2>2, RestatesTaken DEF f
  <2> QED
    BY <2>3 DEF StateRestated, Restates
<1> QED
  BY <1>1, <1>3, <1>4, <1>5, <1>6, <1>7

LEMMA HubReadsLinks ==
  ASSUME Wired, Linked, HubReads
  PROVE  Wired' /\ Linked'
<1> DEFINE f == Head(wire.toHub)
           w == [wire EXCEPT !.toHub = Tail(@)]
<1>1. /\ wire.open /\ wire.toHub # << >> /\ conn' = conn /\ seat' = seat /\ past' = past
  BY DEF HubReads
<1>2. /\ f \in Upward /\ w \in Wires /\ w.open /\ w.toSpoke = wire.toSpoke
      /\ w.toHub = Tail(wire.toHub) /\ ToSet(wire.toHub) = {f} \cup ToSet(w.toHub)
  BY <1>1, ReadsParts
<1>3. Now' = Now
  BY <1>1, NowIs
<1>4. CASE f.t = "hello"
  BY <1>4, HelloLinks
<1>5. CASE f.t = "state" /\ f.is = "idle"
  <2> DEFINE h == [hub EXCEPT !.state = "idle", !.heard = "idle"]
  <2>1. Flushes(h, w)
    BY <1>5 DEF HubReads
  <2>2. /\ h \in [up : BOOLEAN, known : BOOLEAN, holder : {"none", "ours", "ghost"},
                  state : {"idle", "busy"}, heard : {"none", "idle", "busy"},
                  queue : Nat, said : Nat, outages : Nat]
        /\ h.holder = hub.holder /\ h.heard = "idle" /\ h.state = "idle"
    BY DEF Wired, HubTyped
  <2> HIDE DEF h, w
  <2>3. /\ HubTyped' /\ wire' \in Wires /\ wire'.open /\ wire'.toHub = Tail(wire.toHub)
        /\ ToSet(wire.toSpoke) \subseteq ToSet(wire'.toSpoke)
        /\ hub'.holder = hub.holder /\ hub'.heard = "idle" /\ hub'.queue = 0
        /\ hub'.state = "idle" \/ (hub'.state = "busy" /\ Given')
    BY <1>2, <2>1, <2>2, FlushDoes
  <2>4. /\ Wired' /\ Tidy' /\ NeverStranded' /\ SayHasAnswer' /\ Agreed' /\ StateRestated'
        /\ conn.sock = "welcomed" /\ hub.holder = "ours"
    BY <1>1, <1>5, <2>3, TakesUpLinks
  <2>5. Awaited'
    BY <1>1, <2>3, <2>4 DEF Awaited, Owed
  <2> QED
    BY <2>4, <2>5 DEF Linked
<1>6. CASE f.t = "state" /\ f.is = "busy"
  <2>1. hub' = [hub EXCEPT !.state = "busy", !.heard = "busy"] /\ wire' = w
    BY <1>6 DEF HubReads
  <2>2. HubTyped' /\ hub'.holder = hub.holder /\ hub'.heard = "busy" /\ hub'.state = "busy"
    BY <2>1 DEF Wired, HubTyped
  <2> HIDE DEF w
  <2>3. /\ Wired' /\ Tidy' /\ NeverStranded' /\ SayHasAnswer' /\ Agreed' /\ StateRestated'
        /\ conn.sock = "welcomed" /\ hub.holder = "ours"
    BY <1>1, <1>2, <1>6, <2>1, <2>2, TakesUpLinks
  <2>4. Owed'
    <3> DEFINE q == wire'.toHub
               states == {i \in DOMAIN q : q[i].t = "state"}
    <3>1. IF states = {} THEN seat.reported = "busy"
          ELSE \E i \in states : /\ \A j \in states : j <= i
                                 /\ q[i].is = seat.reported
      BY <1>1, <1>2, <2>1, <2>2, <2>3 DEF StateRestated
    <3>2. CASE states = {}
      BY <1>1, <3>1, <3>2 DEF Owed
    <3>3. CASE states # {}
      <4>1. PICK i \in states : q[i].is = seat.reported
        BY <3>1, <3>3
      <4>2. q \in Seq(Upward) /\ i \in 1 .. Len(q)
        BY <1>2, <2>1, WireParts, LenProperties
      <4>3. q[i] \in Upward /\ q[i] \in ToSet(q)
        BY <4>2, SetOf
      <4>4. q[i].is \in {"idle", "busy"} /\ q[i].t = "state"
        BY <4>3, FrameKinds
      <4> QED
        BY <1>1, <4>1, <4>3, <4>4 DEF Owed
    <3> QED
      BY <3>2, <3>3
  <2>5. Awaited'
    BY <1>1, <2>2, <2>3, <2>4 DEF Awaited
  <2> QED
    BY <2>3, <2>5 DEF Linked
<1>7. CASE f.t = "say"
  <2> DEFINE g == [t |-> "ok", seq |-> f.seq]
  <2>1. wire' = ToSpoke(w, g) /\ hub' = hub
    BY <1>7 DEF HubReads
  <2>2. f.seq \in Nat
    BY <1>2, <1>7, FrameKinds
  <2> HIDE DEF w
  <2>3. g \in Downward /\ g.t = "ok" /\ g.seq = f.seq
    BY <2>2, FrameKinds
  <2> HIDE DEF f, g
  <2>4. /\ wire' \in Wires /\ wire'.open /\ wire'.toHub = Tail(wire.toHub)
        /\ ToSet(wire'.toSpoke) = ToSet(wire.toSpoke) \cup {g}
    BY <1>2, <2>1, <2>3, PutDown
  <2>5. HubTyped' /\ hub'.holder = hub.holder
    BY <2>1 DEF Wired, HubTyped
  <2>6. /\ Wired' /\ Tidy' /\ NeverStranded' /\ SayHasAnswer' /\ Agreed' /\ StateRestated'
        /\ conn.sock = "welcomed" /\ hub.holder = "ours"
    <3>1. g \in ToSet(wire'.toSpoke)
      BY <2>4
    <3> QED
      BY <1>1, <1>7, <2>1, <2>3, <2>4, <2>5, <3>1, TakesUpLinks DEF f
  <2>7. Awaited'
    <3>1. Given => Given'
      BY <2>4 DEF Given
    <3>2. Owed => Owed'
      <4>1. ToSet(wire.toHub) = {f} \cup ToSet(wire'.toHub)
        BY <1>2, <2>4
      <4> QED
        BY <1>1, <1>3, <1>7, <3>1, <4>1 DEF Owed
    <3> QED
      BY <1>1, <2>1, <2>6, <3>2 DEF Linked, Awaited
  <2> QED
    BY <2>6, <2>7 DEF Linked
<1> QED
  <2>1. f.t \in {"hello", "state", "say"} /\ (f.t = "state" => f.is \in {"idle", "busy"})
    BY <1>2, FrameKinds
  <2> HIDE DEF f
  <2> QED
    BY <1>4, <1>5, <1>6, <1>7, <2>1

-----------------------------------------------------------------------------
(* What leaves OpenCode alone: the connection, the hub and the chain.      *)

LEMMA DownMoves ==
  ASSUME Sound(Now), Settled(Now), Down
  PROVE  Moved(Now, Now')
<1>1. CASE Live /\ ~seat.notified
  <2>1. Becomes(Arrives([Now EXCEPT !.seat.notified = TRUE]))
    BY <1>1 DEF Down
  <2> QED
    BY <2>1, NoteMoves
<1>2. CASE ~(Live /\ ~seat.notified)
  <2>1. Becomes(Now)
    BY <1>2 DEF Down
  <2> QED
    BY <2>1, StillMoves
<1> QED
  BY <1>1, <1>2

LEMMA WelcomeMoves ==
  ASSUME Sound(Now), Settled(Now), OnWelcome
  PROVE  Moved(Now, Now')
<1>1. CASE seat.notified
  <2>1. Becomes(Arrives([Now EXCEPT !.seat.notified = FALSE]))
    BY <1>1 DEF OnWelcome
  <2> QED
    BY <2>1, NoteMoves
<1>2. CASE ~seat.notified
  <2>1. Becomes(Now)
    BY <1>2 DEF OnWelcome
  <2> QED
    BY <2>1, StillMoves
<1> QED
  BY <1>1, <1>2

LEMMA DispatchKeeps ==
  ASSUME Wired, Linked, Sound(Now), Settled(Now), Dispatch
  PROVE  Wired' /\ Linked' /\ Moved(Now, Now')
<1> DEFINE f == Head(wire.toSpoke)
<1>1. Live /\ wire.toSpoke # << >>
  BY DEF Dispatch
<1>2. conn.sock # "none"
  BY <1>1 DEF Live
<1>3. CASE f.t = "welcome" /\ OnWelcome
  <2>1. Moved(Now, Now')
    BY <1>3, WelcomeMoves
  <2>2. seat.reported \in {"none", "idle", "busy"}
    BY SeatIs
  <2>3. /\ conn' = [conn EXCEPT !.sock = "welcomed"] /\ wire' = Restated(Rest(wire))
        /\ hub' = hub
    BY <1>3 DEF OnWelcome
  <2> QED
    BY <1>1, <1>3, <2>1, <2>2, <2>3, WelcomeLinks
<1>4. CASE Stop
  <2>1. Moved(Now, Now')
    BY <1>4, StillMoves DEF Stop
  <2> QED
    BY <1>4, <2>1, StopLinks
<1>5. CASE f.t = "ok" /\ OnReply(f)
  <2>1. /\ conn' = [conn EXCEPT !.pending = @ \ {f.seq}] /\ wire' = Rest(wire)
        /\ hub' = hub /\ seat' = seat /\ past' = past
    BY <1>5 DEF OnReply
  <2>2. Moved(Now, Now') /\ f.t \notin {"welcome", "deliver"}
    BY <1>5, <2>1, StillMoves
  <2> HIDE DEF f
  <2>3. /\ ConnTyped' /\ conn'.sock = conn.sock /\ conn'.retry = conn.retry
        /\ conn'.stopped = conn.stopped /\ conn'.seq = conn.seq
        /\ conn'.pending = conn.pending \ {f.seq}
    BY <2>1 DEF Wired, ConnTyped
  <2> QED
    BY <1>1, <2>1, <2>2, <2>3, TakenLinks DEF f
<1>6. CASE f.t = "deliver" /\ OnFrame
  <2>1. Becomes(Arrives(Now)) /\ wire' = Rest(wire) /\ conn' = conn /\ hub' = hub
    BY <1>6 DEF OnFrame
  <2>2. Moved(Now, Now') /\ Unread(Now')
    BY <2>1, FrameMoves
  <2>3. ConnTyped' /\ f.t \notin {"welcome", "ok"}
    BY <1>6, <2>1 DEF Wired, ConnTyped
  <2> QED
    BY <1>1, <2>1, <2>2, <2>3, TakenLinks
<1>7. CASE Down
  BY <1>2, <1>7, DownLinks, DownMoves
<1> QED
  BY <1>3, <1>4, <1>5, <1>6, <1>7 DEF Dispatch

\* The steps of the connection and of the hub.
Link ==
  \/ Spoke \/ Say \/ (\E q \in conn.pending : SayTimesOut(q)) \/ Dispose
  \/ HubReads \/ HubStarts \/ Said \/ HubCloses \/ HubNotices \/ HubSendsOdd

LEMMA LinkKeeps ==
  ASSUME Wired, Linked, Sound(Now), Settled(Now), Link
  PROVE  Wired' /\ Linked' /\ Moved(Now, Now') /\ host' = host
<1>1. CASE Open
  <2>1. UNCHANGED <<seat, past>> /\ host' = host
    BY <1>1 DEF Open
  <2> QED
    BY <1>1, <2>1, OpenLinks, StillMoves
<1>2. CASE Connect
  <2>1. Moved(Now, Now')
    <3>1. CASE hub.up
      <4>1. UNCHANGED <<seat, past>>
        BY <1>2, <3>1 DEF Connect
      <4> QED
        BY <4>1, StillMoves
    <3>2. CASE ~hub.up
      BY <1>2, <3>2, DownMoves DEF Connect
    <3> QED
      BY <3>1, <3>2
  <2> QED
    BY <1>2, <2>1, ConnectLinks DEF Connect
<1>3. CASE SocketEnds
  <2>1. Down /\ host' = host /\ conn.sock # "none"
    BY <1>3 DEF SocketEnds, Live
  <2> QED
    BY <2>1, DownLinks, DownMoves
<1>4. CASE Dispatch
  BY <1>4, DispatchKeeps DEF Dispatch
<1>5. CASE Say
  <2>1. UNCHANGED <<seat, past>> /\ host' = host
    BY <1>5 DEF Say
  <2> QED
    BY <1>5, <2>1, SayLinks, StillMoves
<1>6. CASE \E q \in conn.pending : SayTimesOut(q)
  <2>1. PICK q \in conn.pending : SayTimesOut(q)
    BY <1>6
  <2>2. UNCHANGED <<seat, past>> /\ host' = host
    BY <2>1 DEF SayTimesOut
  <2> QED
    BY <2>1, <2>2, TimeoutLinks, StillMoves
<1>7. CASE Dispose
  <2>1. Stop /\ UNCHANGED <<seat, past>> /\ host' = host
    BY <1>7 DEF Dispose, Stop
  <2> QED
    BY <2>1, StopLinks, StillMoves
<1>8. CASE HubReads
  <2>1. UNCHANGED <<seat, past>> /\ host' = host
    BY <1>8 DEF HubReads
  <2> QED
    BY <1>8, <2>1, HubReadsLinks, StillMoves
<1>9. CASE HubStarts \/ HubNotices
  <2>1. UNCHANGED <<seat, past>> /\ host' = host
    BY <1>9 DEF HubStarts, HubNotices
  <2> QED
    BY <1>9, <2>1, StartsLinks, StillMoves
<1>10. CASE Said
  <2>1. UNCHANGED <<seat, past>> /\ host' = host
    BY <1>10 DEF Said
  <2> QED
    BY <1>10, <2>1, SaidLinks, StillMoves
<1>11. CASE HubCloses
  <2>1. UNCHANGED <<seat, past>> /\ host' = host
    BY <1>11 DEF HubCloses
  <2> QED
    BY <1>11, <2>1, ClosesLinks, StillMoves
<1>12. CASE HubSendsOdd
  <2>1. UNCHANGED <<seat, past>> /\ host' = host
    BY <1>12 DEF HubSendsOdd
  <2> QED
    BY <1>12, <2>1, OddLinks, StillMoves
<1> QED
  BY <1>1, <1>2, <1>3, <1>4, <1>5, <1>6, <1>7, <1>8, <1>9, <1>10, <1>11, <1>12 DEF Link, Spoke

\* What the plugin knows of the turns does not depend on the texts.
LEMMA StaysFollowed ==
  ASSUME Followed, host' = host, seat'.active = seat.active,
         seat'.reported = seat.reported, seat'.children = seat.children,
         past'.moved = past.moved,
         seat'.run.pc # "free" => \/ seat'.run.id = seat.active
                                  \/ seat.run.pc # "free" /\ seat'.run.id = seat.run.id
  PROVE  Followed'
BY DEF Followed, InTurn

-----------------------------------------------------------------------------
(* The texts of one run: briefed, posted, returned.                        *)

LEMMA TextsKeep ==
  ASSUME Wired, Linked, Sound(Now), Settled(Now), Followed,
         BriefReturns \/ PromptReturns \/ PromptFails
  PROVE  Wired' /\ Linked' /\ Sound(Now') /\ Settled(Now') /\ Followed' /\ host' = host
<1>1. conn' = conn /\ hub' = hub /\ wire' = wire /\ host' = host
  BY DEF BriefReturns, PromptReturns, PromptFails
<1>2. /\ Sound(Now') /\ Settled(Now')
      /\ seat'.active = seat.active /\ seat'.reported = seat.reported
      /\ seat'.children = seat.children /\ past'.moved = past.moved
      /\ seat'.run.pc # "free" => \/ seat'.run.id = seat.active
                                  \/ seat.run.pc # "free" /\ seat'.run.id = seat.run.id
      /\ past'.failed \/ (~past.failed /\ (Unread(Now) => Unread(Now')))
  <2>1. CASE BriefReturns
    <3>1. Moved(Now, Now')
      BY <2>1, BriefMoves
    <3>2. past.failed \in BOOLEAN
      BY SeatIs
    <3> QED
      BY <3>1, <3>2, NowIs DEF Moved, Now
  <2>2. CASE PromptReturns
    <3>1. [Now EXCEPT !.past.failed = past.failed] = Now
      <4>1. [past EXCEPT !.failed = past.failed] = past
        BY SeatIs DEF Past
      <4> QED
        BY <4>1 DEF Now
    <3>2. seat.run.pc = "answered" /\ Becomes(Returned([Now EXCEPT !.past.failed = past.failed]))
      BY <2>2, <3>1 DEF PromptReturns
    <3>3. past.failed \in BOOLEAN
      BY SeatIs
    <3> QED
      BY <3>2, <3>3, ReturnedMoves
  <2>3. CASE PromptFails
    <3>1. seat.run.pc = "posted" /\ Becomes(Returned([Now EXCEPT !.past.failed = TRUE]))
      BY <2>3 DEF PromptFails
    <3> QED
      BY <3>1, ReturnedMoves
  <2> QED
    BY <2>1, <2>2, <2>3
<1>3. Wired' /\ Tidy' /\ NeverStranded' /\ SayHasAnswer' /\ Agreed' /\ StateRestated'
  <2>1. Wired'
    BY <1>1 DEF Wired, ConnTyped, HubTyped, WireTyped
  <2>2. Tidy' /\ NeverStranded' /\ SayHasAnswer'
    BY <1>1 DEF Linked, Tidy, NeverStranded, SayHasAnswer
  <2>3. Agreed' /\ StateRestated'
    BY <1>1, <1>2 DEF Linked, Agreed, Live, StateRestated
  <2> QED
    BY <2>1, <2>2, <2>3
<1>4. Awaited'
  <2>1. Given' = Given
    BY <1>1 DEF Given
  <2>2. ~past'.failed => ~past.failed /\ (Owed => Owed')
    BY <1>1, <1>2, <2>1 DEF Owed
  <2> QED
    BY <1>1, <1>2, <2>1, <2>2 DEF Linked, Awaited
<1>5. Followed'
  BY <1>1, <1>2, StaysFollowed
<1> QED
  BY <1>1, <1>2, <1>3, <1>4, <1>5 DEF Linked

-----------------------------------------------------------------------------
(* The turns of OpenCode.                                                  *)

\* The state st is reported, or nothing is.
LEMMA ToldLinks ==
  ASSUME Wired, Linked, conn' = conn, hub' = hub, NEW st,
         ~past'.failed /\ ~past'.moved => ~past.failed /\ ~past.moved,
         \/ /\ wire' = wire /\ seat'.reported = seat.reported
            /\ ~past'.failed /\ ~past'.moved /\ Unread(Now) =>
                 Unread(Now') \/ seat'.reported = "busy"
         \/ st \in {"idle", "busy"} /\ seat'.reported = st /\ wire' = Stated(wire, st)
  PROVE  Wired' /\ Linked'
<1> DEFINE f == [t |-> "state", is |-> st]
<1>1. wire \in Wires
  BY DEF Wired, WireTyped, Wires
<1>2. Tidy' /\ NeverStranded'
  BY DEF Linked, Tidy, NeverStranded
<1>3. CASE /\ wire' = wire /\ seat'.reported = seat.reported
           /\ ~past'.failed /\ ~past'.moved /\ Unread(Now) =>
                Unread(Now') \/ seat'.reported = "busy"
  <2>1. Wired'
    BY <1>3 DEF Wired, ConnTyped, HubTyped, WireTyped
  <2>2. SayHasAnswer' /\ Agreed' /\ StateRestated'
    BY <1>3 DEF Linked, SayHasAnswer, Agreed, Live, StateRestated
  <2>3. Given' = Given
    BY <1>3 DEF Given
  <2>4. ~past'.failed /\ ~past'.moved => ~past.failed /\ ~past.moved /\ (Owed => Owed')
    BY <1>3, <2>3 DEF Owed
  <2>5. Awaited'
    BY <2>3, <2>4 DEF Linked, Awaited
  <2> QED
    BY <1>2, <2>1, <2>2, <2>5 DEF Linked
<1>4. CASE st \in {"idle", "busy"} /\ seat'.reported = st /\ wire' = Stated(wire, st)
  <2>1. f \in Upward /\ f.t = "state" /\ f.is = st
    BY <1>4, FrameKinds
  <2>2. wire' = IF conn.sock = "welcomed" /\ wire.open
                THEN [wire EXCEPT !.toHub = Append(@, f)] ELSE wire
    BY <1>4 DEF Stated, Sent
  <2> HIDE DEF f
  <2>3. CASE conn.sock = "welcomed" /\ wire.open
    <3>1. wire' = [wire EXCEPT !.toHub = Append(@, f)]
      BY <2>2, <2>3
    <3>2. /\ wire' \in Wires /\ wire'.open = wire.open /\ wire'.toSpoke = wire.toSpoke
          /\ wire'.toHub = Append(wire.toHub, f)
          /\ ToSet(wire'.toHub) = ToSet(wire.toHub) \cup {f}
      BY <1>1, <2>1, <3>1, PutUp
    <3>3. Wired'
      BY <3>2 DEF Wired, ConnTyped, HubTyped, WireTyped, Wires
    <3>4. SayHasAnswer'
      BY <3>2 DEF Linked, SayHasAnswer
    <3>5. Agreed'
      BY <2>1, <2>3, <3>2 DEF Linked, Agreed, Live
    <3>6. StateRestated'
      <4>1. Restates(wire'.toHub, st, hub.heard)
        BY <1>1, <2>1, <3>2, RestatesState, WireParts
      <4> QED
        BY <1>4, <4>1 DEF StateRestated, Restates
    <3>7. Awaited'
      <4>1. Owed'
        BY <1>4, <2>1, <3>2 DEF Owed
      <4> QED
        BY <2>3, <4>1 DEF Linked, Awaited
    <3> QED
      BY <1>2, <3>3, <3>4, <3>5, <3>6, <3>7 DEF Linked
  <2>4. CASE ~(conn.sock = "welcomed" /\ wire.open)
    <3>1. wire' = wire
      BY <2>2, <2>4
    <3>2. Wired'
      BY <3>1 DEF Wired, ConnTyped, HubTyped, WireTyped
    <3>3. SayHasAnswer' /\ Agreed' /\ StateRestated'
      BY <2>4, <3>1 DEF Linked, SayHasAnswer, Agreed, Live, StateRestated
    <3>4. Given' = Given
      BY <3>1 DEF Given
    <3>5. hub.holder = "ours" => conn.sock # "welcomed"
      BY <2>4 DEF Linked, Agreed
    <3>6. Awaited'
      BY <3>4, <3>5 DEF Linked, Awaited
    <3> QED
      BY <1>2, <3>2, <3>3, <3>6 DEF Linked
  <2> QED
    BY <2>3, <2>4
<1> QED
  BY <1>3, <1>4

LEMMA TurnDoes ==
  ASSUME HostTyped, NEW id \in Session, NEW is \in Turns,
         host' = [host EXCEPT !.turn[id] = is]
  PROVE  /\ HostTyped' /\ host'.turn[id] = is
         /\ \A x \in Session : x # id => host'.turn[x] = host.turn[x]
<1> DEFINE t == [host.turn EXCEPT ![id] = is]
<1>1. host.turn \in [Session -> Turns] /\ host.begun \in Nat
  BY DEF HostTyped
<1>2. t \in [Session -> Turns] /\ t[id] = is /\ \A x \in Session : x # id => t[x] = host.turn[x]
  BY <1>1
<1>3. host' = [host EXCEPT !.turn = t]
  OBVIOUS
<1> HIDE DEF t
<1>4. host'.turn = t /\ HostTyped'
  BY <1>2, <1>3 DEF HostTyped
<1> QED
  BY <1>2, <1>4

\* The seat as a turn leaves it: the texts are where they were.
Seated(a, r, c, run) ==
  seat' = [seat EXCEPT !.active = a, !.reported = r, !.children = c, !.run = run] /\ past' = past

\* Only the model takes the prompt, or has answered it.
Onwards(run) ==
  \/ run = seat.run
  \/ /\ seat.run.pc \in {"posted", "taken"} /\ run.pc \in {"taken", "answered"}
     /\ run.text = seat.run.text /\ run.id = seat.run.id

LEMMA SeatedDoes ==
  ASSUME Sound(Now), Settled(Now), NEW a \in Id, a = seat.active \/ a \in TopLevel,
         NEW r \in {"none", "idle", "busy"}, NEW c \in SUBSET Child, NEW run \in Run,
         Onwards(run), Seated(a, r, c, run)
  PROVE  /\ Sound(Now') /\ Settled(Now')
         /\ seat'.active = a /\ seat'.reported = r /\ seat'.children = c /\ seat'.run = run
         /\ past'.moved = past.moved /\ past'.failed = past.failed
         /\ run.pc = seat.run.pc \/ (run.pc = "answered" /\ seat.run.pc # "posted")
              => (Unread(Now) => Unread(Now'))
<1>1. /\ seat' \in Seat /\ past' = past
      /\ seat'.active = a /\ seat'.reported = r /\ seat'.children = c /\ seat'.run = run
      /\ seat'.held = seat.held /\ seat'.chain = seat.chain /\ seat'.dropped = seat.dropped
      /\ seat'.briefed = seat.briefed
  BY SeatIs DEF Seated, Seat
<1>2. Now'.seat = seat' /\ Now'.past = past'
  BY DEF Now
<1>3. TextTyped(Now')
  BY <1>1, SeatIs DEF TextTyped, Now
<1>4. Steady(Now, Now')
  BY <1>1, <1>2, <1>3, NowIs DEF Steady, Onwards
<1>5. Sound(Now') /\ Settled(Now')
  BY <1>4, SteadySound
<1>6. run.pc = seat.run.pc \/ (run.pc = "answered" /\ seat.run.pc # "posted")
        => (Unread(Now) => Unread(Now'))
  BY <1>1, <1>2, NowIs DEF Unread, Onwards
<1> QED
  BY <1>1, <1>5, <1>6

\* A status busy of session id: the session that has the seat, or takes it.
LEMMA BusyKeeps ==
  ASSUME Wired, Linked, Sound(Now), Settled(Now), Followed, HostTyped,
         NEW id \in Session, HostTyped', host.turn[id] # "absent",
         host'.turn[id] = "busy", \A x \in Session : x # id => host'.turn[x] = host.turn[x],
         NEW run \in Run, Onwards(run), run.pc = seat.run.pc \/ Heard(id) \/ past.moved,
         conn' = conn, hub' = hub,
         IF Heard(id) THEN /\ Seated(id, "busy", seat.children, run)
                           /\ wire' = IF Stale("busy") THEN Stated(wire, "busy") ELSE wire
         ELSE Seated(seat.active, seat.reported, seat.children, run) /\ wire' = wire
  PROVE  Wired' /\ Linked' /\ Sound(Now') /\ Settled(Now') /\ Followed'
<1>1. /\ seat.active \in Id /\ seat.children \subseteq Child
      /\ seat.reported \in {"none", "idle", "busy"}
  BY SeatIs
<1>2. id \in Child => id \in seat.children
  BY DEF Followed
<1>3. \A x \in Session : x # id => (InTurn(x)' <=> InTurn(x))
  BY DEF InTurn
<1>4. InTurn(id)'
  BY DEF InTurn
<1>5. seat.active = NoSession => seat.run.pc = "free"
  BY NowIs DEF Sound, Apart, Free
<1>6. run.pc # "free" => seat.run.pc # "free" /\ run.id = seat.run.id
  BY DEF Onwards
<1>7. CASE Heard(id)
  <2>1. id \in TopLevel /\ id # NoSession /\ id \in Id
    BY <1>2, <1>7, Constants DEF Heard, Id
  <2>2. /\ Seated(id, "busy", seat.children, run)
        /\ wire' = IF Stale("busy") THEN Stated(wire, "busy") ELSE wire
    BY <1>7
  <2>3. /\ Sound(Now') /\ Settled(Now')
        /\ seat'.active = id /\ seat'.reported = "busy" /\ seat'.children = seat.children
        /\ seat'.run = run /\ past'.moved = past.moved /\ past'.failed = past.failed
    BY <1>1, <2>1, <2>2, SeatedDoes
  <2>4. Wired' /\ Linked'
    <3>1. CASE Stale("busy")
      BY <2>2, <2>3, <3>1, ToldLinks
    <3>2. CASE ~Stale("busy")
      <4>1. seat.reported = "busy"
        BY <3>2 DEF Stale
      <4> QED
        BY <2>2, <2>3, <3>2, <4>1, ToldLinks
    <3> QED
      BY <3>1, <3>2
  <2>5. Followed'
    <3>1. \A c \in Child : host'.turn[c] # "absent" => c \in seat'.children
      BY <1>2, <2>3, Constants DEF Followed
    <3>2. ~past'.moved /\ run.pc # "free" => run.id = id
      BY <1>5, <1>6, <1>7, <2>3 DEF Followed, Heard
    <3> QED
      BY <1>4, <2>1, <2>3, <3>1, <3>2 DEF Followed
  <2> QED
    BY <2>3, <2>4, <2>5
<1>8. CASE ~Heard(id)
  <2>1. Seated(seat.active, seat.reported, seat.children, run) /\ wire' = wire
    BY <1>8
  <2>2. /\ Sound(Now') /\ Settled(Now')
        /\ seat'.active = seat.active /\ seat'.reported = seat.reported
        /\ seat'.children = seat.children
        /\ seat'.run = run /\ past'.moved = past.moved /\ past'.failed = past.failed
        /\ run.pc = seat.run.pc => (Unread(Now) => Unread(Now'))
    BY <1>1, <2>1, SeatedDoes
  <2>3. id # seat.active /\ (seat.active = NoSession => id \notin TopLevel)
    <3>1. id \in seat.children \/ seat.active \notin {NoSession, id}
      BY <1>8 DEF Heard
    <3> QED
      BY <1>1, <3>1, Constants DEF Id
  <2>4. Wired' /\ Linked'
    BY <1>8, <2>1, <2>2, ToldLinks
  <2>5. Followed'
    <3>1. \A c \in Child : host'.turn[c] # "absent" => c \in seat'.children
      BY <1>2, <2>2, Constants DEF Followed
    <3>2. seat.active # NoSession => host'.turn[seat.active] = host.turn[seat.active]
      BY <1>1, <2>3, Constants DEF Id
    <3>3. seat.active = NoSession => \A x \in TopLevel : ~InTurn(x)'
      BY <1>3, <2>3, Constants DEF Followed
    <3> QED
      BY <1>6, <2>2, <3>1, <3>2, <3>3 DEF Followed, InTurn
  <2> QED
    BY <2>2, <2>4, <2>5
<1> QED
  BY <1>7, <1>8

LEMMA BusyTurnsKeep ==
  ASSUME Wired, Linked, Sound(Now), Settled(Now), Followed, HostTyped,
         NEW id \in Session, UserTurn(id) \/ StatusRepeats(id)
  PROVE  Wired' /\ Linked' /\ Sound(Now') /\ Settled(Now') /\ Followed' /\ HostTyped'
<1>1. conn' = conn /\ hub' = hub /\ OnBusy(id) /\ host.turn[id] \in {"rest", "busy"}
  BY DEF UserTurn, StatusRepeats
<1>2. /\ HostTyped' /\ host'.turn[id] = "busy"
      /\ \A x \in Session : x # id => host'.turn[x] = host.turn[x]
  <2>1. CASE UserTurn(id)
    <3> DEFINE t == [host.turn EXCEPT ![id] = "busy"]
               n == host.begun + 1
    <3>1. host.turn \in [Session -> Turns] /\ n \in Nat
      BY DEF HostTyped
    <3>2. /\ t \in [Session -> Turns] /\ t[id] = "busy"
          /\ \A x \in Session : x # id => t[x] = host.turn[x]
      BY <3>1 DEF Turns
    <3>3. host' = [host EXCEPT !.turn = t, !.begun = n]
      BY <2>1 DEF UserTurn
    <3> HIDE DEF t, n
    <3>4. host'.turn = t /\ HostTyped'
      BY <3>1, <3>2, <3>3 DEF HostTyped
    <3> QED
      BY <3>2, <3>4
  <2>2. CASE StatusRepeats(id)
    BY <2>2 DEF StatusRepeats, HostTyped
  <2> QED
    BY <2>1, <2>2
<1>3. seat.run \in Run /\ Onwards(seat.run)
  BY SeatIs DEF Onwards
<1>4. IF Heard(id)
      THEN /\ Seated(id, "busy", seat.children, seat.run)
           /\ wire' = IF Stale("busy") THEN Stated(wire, "busy") ELSE wire
      ELSE Seated(seat.active, seat.reported, seat.children, seat.run) /\ wire' = wire
  <2>1. seat \in Seat
    BY SeatIs
  <2>2. [seat EXCEPT !.active = seat.active, !.reported = seat.reported,
                     !.children = seat.children, !.run = seat.run] = seat
    BY <2>1 DEF Seat
  <2>3. [seat EXCEPT !.active = id, !.reported = "busy"]
          = [seat EXCEPT !.active = id, !.reported = "busy", !.children = seat.children,
                         !.run = seat.run]
    BY <2>1 DEF Seat
  <2>4. CASE Heard(id)
    BY <1>1, <2>3, <2>4 DEF OnBusy, Seated
  <2>5. CASE ~Heard(id)
    BY <1>1, <2>2, <2>5 DEF OnBusy, Seated
  <2> QED
    BY <2>4, <2>5
<1> QED
  BY <1>1, <1>2, <1>3, <1>4, BusyKeeps

LEMMA PromptTurnKeeps ==
  ASSUME Wired, Linked, Sound(Now), Settled(Now), Followed, HostTyped,
         NEW id \in Session, PromptTurn(id)
  PROVE  Wired' /\ Linked' /\ Sound(Now') /\ Settled(Now') /\ Followed' /\ HostTyped'
<1> DEFINE run == [seat.run EXCEPT !.pc = "taken"]
           taken == [seat EXCEPT !.run = run]
<1>1. /\ conn' = conn /\ hub' = hub /\ past' = past /\ host.turn[id] = "rest"
      /\ seat.run.pc = "posted" /\ seat.run.id = id /\ host' = [host EXCEPT !.turn[id] = "busy"]
      /\ IF Heard(id)
         THEN /\ seat' = [taken EXCEPT !.active = id, !.reported = "busy"]
              /\ wire' = IF Stale("busy") THEN Stated(wire, "busy") ELSE wire
         ELSE seat' = taken /\ wire' = wire
  BY DEF PromptTurn, Turn
<1>2. /\ HostTyped' /\ host'.turn[id] = "busy"
      /\ \A x \in Session : x # id => host'.turn[x] = host.turn[x]
  BY <1>1, TurnDoes DEF Turns
<1>3. seat \in Seat /\ seat.run \in Run
  BY SeatIs
<1>4. /\ run \in Run /\ run.pc = "taken" /\ run.text = seat.run.text /\ run.id = seat.run.id
  BY <1>3 DEF Run
<1>5. Onwards(run)
  BY <1>1, <1>4 DEF Onwards
<1>6. Heard(id) \/ past.moved
  <2>1. id \in TopLevel
    BY <1>1, NowIs DEF Sound, Running
  <2>2. id \notin seat.children
    BY <2>1, SeatIs, Constants
  <2>3. ~past.moved => id = seat.active
    BY <1>1 DEF Followed
  <2> QED
    BY <2>2, <2>3 DEF Heard
<1> HIDE DEF run
<1>7. IF Heard(id)
      THEN /\ Seated(id, "busy", seat.children, run)
           /\ wire' = IF Stale("busy") THEN Stated(wire, "busy") ELSE wire
      ELSE Seated(seat.active, seat.reported, seat.children, run) /\ wire' = wire
  <2>1. taken = [seat EXCEPT !.active = seat.active, !.reported = seat.reported,
                             !.children = seat.children, !.run = run]
    BY <1>3 DEF Seat
  <2>2. [taken EXCEPT !.active = id, !.reported = "busy"]
          = [seat EXCEPT !.active = id, !.reported = "busy", !.children = seat.children,
                         !.run = run]
    BY <1>3 DEF Seat
  <2> HIDE DEF taken
  <2>3. CASE Heard(id)
    BY <1>1, <2>2, <2>3 DEF Seated
  <2>4. CASE ~Heard(id)
    BY <1>1, <2>1, <2>4 DEF Seated
  <2> QED
    BY <2>3, <2>4
<1> QED
  BY <1>1, <1>2, <1>4, <1>5, <1>6, <1>7, BusyKeeps

LEMMA RepliesKeep ==
  ASSUME Wired, Linked, Sound(Now), Settled(Now), Followed, HostTyped,
         NEW id \in Session, Replies(id)
  PROVE  Wired' /\ Linked' /\ Sound(Now') /\ Settled(Now') /\ Followed' /\ HostTyped'
<1> DEFINE run == IF seat.run.pc = "taken" /\ seat.run.id = id
                  THEN [seat.run EXCEPT !.pc = "answered"] ELSE seat.run
<1>1. /\ conn' = conn /\ hub' = hub /\ wire' = wire /\ past' = past /\ host.turn[id] = "busy"
      /\ host' = [host EXCEPT !.turn[id] = "replied"]
      /\ seat' = IF seat.run.pc = "taken" /\ seat.run.id = id
                 THEN [seat EXCEPT !.run.pc = "answered"] ELSE seat
  BY DEF Replies, Turn
<1>2. /\ HostTyped' /\ host'.turn[id] = "replied"
      /\ \A x \in Session : x # id => host'.turn[x] = host.turn[x]
  BY <1>1, TurnDoes DEF Turns
<1>3. /\ seat \in Seat /\ seat.run \in Run /\ seat.active \in Id /\ seat.children \subseteq Child
      /\ seat.reported \in {"none", "idle", "busy"}
  BY SeatIs
<1>4. /\ run \in Run /\ Onwards(run) /\ run.id = seat.run.id
      /\ run.pc = seat.run.pc \/ (run.pc = "answered" /\ seat.run.pc # "posted")
      /\ run.pc # "free" => seat.run.pc # "free"
  BY <1>3 DEF Run, Onwards
<1>5. Seated(seat.active, seat.reported, seat.children, run)
  <2>1. CASE seat.run.pc = "taken" /\ seat.run.id = id
    <3>1. seat' = [seat EXCEPT !.run = run]
      BY <1>1, <2>1
    <3> HIDE DEF run
    <3>2. [seat EXCEPT !.run = run]
            = [seat EXCEPT !.active = seat.active, !.reported = seat.reported,
                           !.children = seat.children, !.run = run]
      BY <1>3 DEF Seat
    <3> QED
      BY <1>1, <3>1, <3>2 DEF Seated
  <2>2. CASE ~(seat.run.pc = "taken" /\ seat.run.id = id)
    <3>1. seat' = seat /\ run = seat.run
      BY <1>1, <2>2
    <3> HIDE DEF run
    <3>2. seat = [seat EXCEPT !.active = seat.active, !.reported = seat.reported,
                              !.children = seat.children, !.run = run]
      BY <1>3, <3>1 DEF Seat
    <3> QED
      BY <1>1, <3>1, <3>2 DEF Seated
  <2> QED
    BY <2>1, <2>2
<1> HIDE DEF run
<1>6. /\ Sound(Now') /\ Settled(Now')
      /\ seat'.active = seat.active /\ seat'.reported = seat.reported
      /\ seat'.children = seat.children /\ seat'.run = run
      /\ past'.moved = past.moved /\ past'.failed = past.failed
      /\ Unread(Now) => Unread(Now')
  BY <1>3, <1>4, <1>5, SeatedDoes
<1>7. Wired' /\ Linked'
  BY <1>1, <1>6, ToldLinks
<1>8. Followed'
  <2>1. \A x \in Session : /\ host'.turn[x] \in {"busy", "replied"} <=> InTurn(x)
                           /\ host'.turn[x] # "absent" => host.turn[x] # "absent"
    BY <1>1, <1>2 DEF InTurn
  <2>2. seat.active # NoSession => seat.active \in Session
    BY <1>3, Constants DEF Id
  <2> QED
    BY <1>4, <1>6, <2>1, <2>2, Constants DEF Followed, InTurn
<1> QED
  BY <1>2, <1>6, <1>7, <1>8

LEMMA CreatedKeeps ==
  ASSUME Wired, Linked, Sound(Now), Settled(Now), Followed, HostTyped,
         NEW id \in Session, Created(id)
  PROVE  Wired' /\ Linked' /\ Sound(Now') /\ Settled(Now') /\ Followed' /\ HostTyped'
<1> DEFINE a == IF id \notin Child /\ seat.active = NoSession THEN id ELSE seat.active
           c == IF id \in Child THEN seat.children \cup {id} ELSE seat.children
<1>1. /\ conn' = conn /\ hub' = hub /\ wire' = wire /\ past' = past /\ host.turn[id] = "absent"
      /\ host' = [host EXCEPT !.turn[id] = "rest"]
      /\ seat' = IF id \in Child THEN [seat EXCEPT !.children = @ \cup {id}]
                 ELSE IF seat.active = NoSession THEN [seat EXCEPT !.active = id]
                 ELSE seat
  BY DEF Created, Turn, OnCreated
<1>2. /\ HostTyped' /\ host'.turn[id] = "rest"
      /\ \A x \in Session : x # id => host'.turn[x] = host.turn[x]
  BY <1>1, TurnDoes DEF Turns
<1>3. /\ seat \in Seat /\ seat.run \in Run /\ seat.active \in Id /\ seat.children \subseteq Child
      /\ seat.reported \in {"none", "idle", "busy"}
  BY SeatIs
<1>4. a \in Id /\ (a = seat.active \/ a \in TopLevel) /\ c \in SUBSET Child
  BY <1>3, Constants DEF Id
<1>5. Seated(a, seat.reported, c, seat.run)
  <2>1. seat' = [seat EXCEPT !.active = a, !.reported = seat.reported, !.children = c,
                             !.run = seat.run]
    BY <1>1, <1>3 DEF Seat
  <2> QED
    BY <1>1, <2>1 DEF Seated
<1>6. /\ seat.active # NoSession => a = seat.active
      /\ seat.active = NoSession => a \in {NoSession, id}
      /\ seat.children \subseteq c /\ (id \in Child => id \in c)
  OBVIOUS
<1> HIDE DEF a, c
<1>7. /\ Sound(Now') /\ Settled(Now')
      /\ seat'.active = a /\ seat'.reported = seat.reported
      /\ seat'.children = c /\ seat'.run = seat.run
      /\ past'.moved = past.moved /\ past'.failed = past.failed
      /\ Unread(Now) => Unread(Now')
  BY <1>3, <1>4, <1>5, SeatedDoes DEF Onwards
<1>8. Wired' /\ Linked'
  BY <1>1, <1>7, ToldLinks
<1>9. Followed'
  <2>1. \A x \in Session : host'.turn[x] \in {"busy", "replied"} <=> InTurn(x)
    BY <1>1, <1>2 DEF InTurn
  <2>2. \A x \in Child : host'.turn[x] # "absent" => x \in c
    BY <1>2, <1>6, Constants DEF Followed
  <2>3. seat.active = NoSession => seat.run.pc = "free"
    BY NowIs DEF Sound, Apart, Free
  <2>4. ~InTurn(id) /\ (seat.active # NoSession => seat.active \in Session)
    BY <1>1, <1>3, Constants DEF InTurn, Id
  <2>5. seat.reported = "busy" <=> a # NoSession /\ host'.turn[a] \in {"busy", "replied"}
    <3>1. CASE seat.active # NoSession
      BY <1>6, <2>1, <2>4, <3>1 DEF Followed
    <3>2. CASE seat.active = NoSession
      BY <1>2, <1>6, <3>2 DEF Followed
    <3> QED
      BY <3>1, <3>2
  <2>6. a = NoSession => \A x \in TopLevel : ~(host'.turn[x] \in {"busy", "replied"})
    BY <1>6, <2>1, Constants DEF Followed
  <2>7. ~past.moved /\ seat.run.pc # "free" => seat.run.id = a
    BY <1>6, <2>3 DEF Followed
  <2> QED
    BY <1>7, <2>2, <2>5, <2>6, <2>7 DEF Followed, InTurn
<1> QED
  BY <1>2, <1>7, <1>8, <1>9

LEMMA TurnEndsKeeps ==
  ASSUME Wired, Linked, Sound(Now), Settled(Now), Followed, HostTyped,
         NEW id \in Session, TurnEnds(id)
  PROVE  Wired' /\ Linked' /\ Sound(Now') /\ Settled(Now') /\ Followed' /\ HostTyped'
<1>1. /\ conn' = conn /\ hub' = hub /\ host.turn[id] = "replied" /\ OnIdle(id)
      /\ host' = [host EXCEPT !.turn[id] = "rest"]
  BY DEF TurnEnds, Turn
<1>2. /\ HostTyped' /\ host'.turn[id] = "rest"
      /\ \A x \in Session : x # id => host'.turn[x] = host.turn[x]
  BY <1>1, TurnDoes DEF Turns
<1>3. /\ seat.active \in Id /\ seat.children \subseteq Child
      /\ seat.reported \in {"none", "idle", "busy"}
  BY SeatIs
<1>4. \A x \in Child : host'.turn[x] # "absent" => x \in seat.children
  BY <1>1, <1>2, Constants DEF Followed
<1>5. CASE id \in Child
  <2>1. id \in seat.children /\ id # seat.active
    BY <1>1, <1>3, <1>5, Constants DEF Followed, Id
  <2>2. seat' = seat /\ past' = past /\ wire' = wire
    BY <1>1, <2>1 DEF OnIdle
  <2>3. Now' = Now
    BY <2>2, NowIs
  <2>4. Wired' /\ Linked'
    BY <1>1, <2>2, <2>3, ToldLinks
  <2>5. Followed'
    <3>1. \A x \in TopLevel : host'.turn[x] = host.turn[x]
      BY <1>2, <1>5, Constants
    <3>2. seat.active # NoSession => host'.turn[seat.active] = host.turn[seat.active]
      BY <1>3, <3>1 DEF Id
    <3> QED
      BY <1>4, <2>2, <3>1, <3>2 DEF Followed, InTurn
  <2> QED
    BY <1>2, <2>3, <2>4, <2>5
<1>6. CASE id \in TopLevel
  <2>1. id \notin seat.children /\ id # NoSession
    BY <1>3, <1>6, Constants
  <2>2. /\ Sound(Now') /\ Settled(Now')
        /\ seat'.active = id /\ seat'.reported = "idle" /\ seat'.children = seat.children
        /\ past'.moved = (past.moved \/ seat.active \notin {NoSession, id})
        /\ past'.failed = past.failed
        /\ seat'.run.pc # "free" =>
             \/ seat'.run.id = id
             \/ seat.run.pc # "free" /\ seat'.run.id = seat.run.id
        /\ Unread(Now) => Unread(Now')
        /\ wire' = IF Stale("idle") THEN Stated(wire, "idle") ELSE wire
    BY <1>1, <1>6, <2>1, IdleMoves
  <2>3. ~past'.moved => ~past.moved /\ seat.active \in {NoSession, id}
    BY <2>2
  <2>4. Wired' /\ Linked'
    <3>1. CASE Stale("idle")
      BY <1>1, <2>2, <2>3, <3>1, ToldLinks
    <3>2. CASE ~Stale("idle")
      <4>1. seat.reported = "idle" /\ wire' = wire
        BY <2>2, <3>2 DEF Stale
      <4> QED
        BY <1>1, <2>2, <2>3, <4>1, ToldLinks
    <3> QED
      BY <3>1, <3>2
  <2>5. Followed'
    <3>1. seat.active = NoSession => seat.run.pc = "free"
      BY NowIs DEF Sound, Apart, Free
    <3>2. ~past'.moved /\ seat'.run.pc # "free" => seat'.run.id = id
      BY <2>2, <2>3, <3>1 DEF Followed
    <3> QED
      BY <1>2, <1>4, <2>1, <2>2, <3>2 DEF Followed, InTurn
  <2> QED
    BY <1>2, <2>2, <2>4, <2>5
<1> QED
  BY <1>5, <1>6, Constants

-----------------------------------------------------------------------------
(* The inductive invariant, and the properties.                            *)

LEMMA InitInv ==
  ASSUME Init
  PROVE  Inv
<1>1. /\ conn = [sock |-> "opening", stopped |-> FALSE, retry |-> FALSE, seq |-> 0,
                 pending |-> {}]
      /\ seat = [active |-> NoSession, reported |-> "none", briefed |-> {}, children |-> {},
                 held |-> << >>, dropped |-> 0, notified |-> FALSE, chain |-> << >>,
                 run |-> Free]
      /\ hub = [up |-> TRUE, known |-> FALSE, holder |-> "none", state |-> "idle",
                heard |-> "none", queue |-> 0, said |-> 0, outages |-> 0]
      /\ wire = NoSocket
      /\ past = [got |-> 0, read |-> << >>, held |-> {}, told |-> 0, failed |-> FALSE,
                 moved |-> FALSE]
  BY DEF Init
<1>2. /\ host.turn \in [Session -> {"absent", "rest"}] /\ host.begun = 0
      /\ host = [turn |-> host.turn, begun |-> host.begun]
      /\ \A c \in Child : host.turn[c] = "absent"
  BY DEF Init
<1>3. Typed
  <2>1. ConnTyped /\ HubTyped
    BY <1>1 DEF ConnTyped, HubTyped, Socket
  <2>2. WireTyped
    BY <1>1, NoSocketTyped DEF WireTyped
  <2>3. HostTyped
    <3>1. host.turn \in [Session -> Turns]
      BY <1>2 DEF Turns
    <3> DEFINE t == host.turn
               n == host.begun
    <3>2. host = [turn |-> t, begun |-> n] /\ t \in [Session -> Turns] /\ n \in Nat
      BY <1>2, <3>1
    <3> HIDE DEF t, n
    <3> QED
      BY <3>2 DEF HostTyped
  <2> QED
    BY <2>1, <2>2, <2>3 DEF Typed
<1>4. Sound(Now) /\ Settled(Now)
  <2>1. /\ Now.seat = seat /\ Now.past = past /\ seat.active = NoSession /\ seat.held = << >>
        /\ seat.chain = << >> /\ seat.run = Free /\ seat.run.pc = "free" /\ seat.briefed = {}
        /\ seat.dropped = 0 /\ past.got = 0 /\ past.read = << >> /\ past.held = {}
        /\ past.told = 0
    BY <1>1 DEF Now, Free
  <2>2. TextTyped(Now)
    <3>1. seat \in Seat
      BY <1>1, Constants, EmptySeq DEF Seat, Id
    <3>2. past \in Past
      BY <1>1, EmptySeq DEF Past
    <3> QED
      BY <3>1, <3>2 DEF TextTyped, Now
  <2>3. DOMAIN << >> = {} /\ ToSet(<< >>) = {}
    BY DEF ToSet
  <2>4. Read(Now) = {} /\ Asked(Now) = {} /\ OnItsWay(Now) = {}
    BY <2>1, <2>3 DEF Read, Asked, OnItsWay
  <2>5. Chained(Now) = {} /\ Waiting(Now) = {}
    BY <2>1, <2>3 DEF Chained, Waiting
  <2>6. Gone(Now) = {}
    BY <2>1 DEF Gone
  <2>7. Numbered(Now)
    BY <2>1, <2>4, <2>5 DEF Numbered, Line
  <2>8. Ordered(Now)
    BY <2>1, <2>3, <2>4, <2>5 DEF Ordered, Before, Rising
  <2>9. Apart(Now)
    <3>1. Len(<< >>) <= HeldCap
      BY Constants, EmptySeq
    <3> QED
      BY <2>1, <2>3, <2>5, <3>1 DEF Apart
  <2>10. Counted(Now)
    BY <2>1, <2>6, FS_EmptySet DEF Counted
  <2>11. Running(Now) /\ Instructed(Now)
    BY <2>1, <2>3, <2>4 DEF Running, Instructed
  <2>12. Settled(Now)
    BY <2>1 DEF Settled
  <2> QED
    BY <2>2, <2>7, <2>8, <2>9, <2>10, <2>11, <2>12 DEF Sound
<1>5. Followed
  <2>1. /\ seat.active = NoSession /\ seat.reported = "none" /\ seat.run.pc = "free"
    BY <1>1 DEF Free
  <2>2. \A x \in Session : ~InTurn(x)
    BY <1>2 DEF InTurn
  <2> QED
    BY <1>2, <2>1, <2>2, Constants DEF Followed
<1>6. Linked
  <2>1. Tidy /\ NeverStranded /\ SayHasAnswer
    BY <1>1 DEF Tidy, NeverStranded, SayHasAnswer
  <2>2. Agreed /\ StateRestated /\ Awaited
    BY <1>1 DEF Agreed, StateRestated, Awaited, Live
  <2> QED
    BY <2>1, <2>2 DEF Linked
<1> QED
  BY <1>3, <1>4, <1>5, <1>6 DEF Inv

LEMMA NextInv ==
  ASSUME Inv, [Next]_vars
  PROVE  Inv'
<1>1. Wired /\ HostTyped /\ Sound(Now) /\ Settled(Now) /\ Followed /\ Linked
  BY DEF Inv, Typed, Wired
<1>2. ASSUME Wired', HostTyped', Sound(Now'), Settled(Now'), Followed', Linked'
      PROVE  Inv'
  BY <1>2 DEF Inv, Typed, Wired
<1>3. CASE Link
  <2>1. Wired' /\ Linked' /\ Moved(Now, Now') /\ host' = host
    BY <1>1, <1>3, LinkKeeps
  <2>2. Followed'
    BY <1>1, <2>1, NowIs, StaysFollowed DEF Moved, Now
  <2> QED
    BY <1>1, <1>2, <2>1, <2>2 DEF Moved, HostTyped
<1>4. CASE BriefReturns \/ PromptReturns \/ PromptFails
  <2>1. /\ Wired' /\ Linked' /\ Sound(Now') /\ Settled(Now') /\ Followed' /\ host' = host
    BY <1>1, <1>4, TextsKeep
  <2> QED
    BY <1>1, <1>2, <2>1 DEF HostTyped
<1>5. ASSUME NEW id \in Session,
             Host(id) \/ Created(id) \/ UserTurn(id) \/ StatusRepeats(id)
      PROVE  Inv'
  <2>1. CASE UserTurn(id) \/ StatusRepeats(id)
    BY <1>1, <1>2, <2>1, BusyTurnsKeep
  <2>2. CASE PromptTurn(id)
    BY <1>1, <1>2, <2>2, PromptTurnKeeps
  <2>3. CASE Replies(id)
    BY <1>1, <1>2, <2>3, RepliesKeep
  <2>4. CASE TurnEnds(id)
    BY <1>1, <1>2, <2>4, TurnEndsKeeps
  <2>5. CASE Created(id)
    BY <1>1, <1>2, <2>5, CreatedKeeps
  <2> QED
    BY <1>5, <2>1, <2>2, <2>3, <2>4, <2>5 DEF Host
<1>6. CASE UNCHANGED vars
  <2>1. /\ conn' = conn /\ seat' = seat /\ hub' = hub /\ wire' = wire /\ host' = host
        /\ past' = past
    BY <1>6 DEF vars
  <2>2. Now' = Now
    BY <2>1, NowIs
  <2>3. Wired' /\ HostTyped'
    BY <1>1, <2>1 DEF Wired, ConnTyped, HubTyped, WireTyped, HostTyped
  <2>4. Followed'
    BY <1>1, <2>1, StaysFollowed
  <2>5. Linked'
    BY <1>1, <2>1, <2>2, ToldLinks
  <2> QED
    BY <1>1, <1>2, <2>2, <2>3, <2>4, <2>5
<1> QED
  BY <1>3, <1>4, <1>5, <1>6 DEF Next, Link

\* What is said above of texts, turns and connections holds of every state.
THEOREM SpokeInvariance == Spec => []Inv
<1>1. Init => Inv
  BY InitInv
<1>2. Inv /\ [Next]_vars => Inv'
  BY NextInv
<1> QED
  BY <1>1, <1>2, PTL DEF Spec

LEMMA InvTellsTheTurn ==
  ASSUME Inv
  PROVE  HubKnowsTheTurn
<1>1. Wired /\ Sound(Now) /\ Followed /\ Linked
  BY DEF Inv, Typed, Wired
<1>2. ASSUME Quiet, ~past.failed, ~past.moved
      PROVE  hub.state = "idle" /\ hub.queue = 0
  <2>1. /\ conn.sock = "welcomed" /\ wire.open /\ wire.toHub = << >> /\ wire.toSpoke = << >>
        /\ seat.active # NoSession /\ seat.run = Free /\ seat.held = << >>
        /\ \A id \in Session : host.turn[id] \in {"absent", "rest"}
    BY <1>2 DEF Quiet
  <2>2. hub.holder = "ours"
    BY <1>1, <2>1 DEF Linked, Agreed
  <2>3. seat.reported # "busy"
    BY <1>1, <2>1, SeatIs, Constants DEF Followed, InTurn, Id
  <2>4. ToSet(wire.toHub) = {} /\ ToSet(wire.toSpoke) = {}
    BY <2>1 DEF ToSet
  <2>5. ~Unread(Now)
    <3>1. Settled(Now) /\ seat.run.pc = "free"
      BY <2>1 DEF Inv, Free
    <3> QED
      BY <2>1, <3>1, NowIs DEF Unread, Settled
  <2>6. ~Owed
    BY <2>3, <2>4, <2>5 DEF Owed, Given
  <2>7. hub.state = "idle"
    BY <1>1, <1>2, <2>1, <2>2, <2>6, LinkParts DEF Linked, Awaited
  <2> QED
    BY <1>1, <2>2, <2>7 DEF Linked, Awaited
<1> QED
  BY <1>1, <1>2 DEF HubKnowsTheTurn, NotStuck, Linked

LEMMA InvReachesTheModel ==
  ASSUME Inv
  PROVE  TextsReachTheModel
<1>1. Sound(Now) /\ TextTyped(Now) /\ Now.seat = seat /\ Now.past = past
  BY NowIs DEF Inv, Sound
<1>2. ReadInOrder
  BY <1>1 DEF Sound, Ordered, Like, ReadInOrder, SameLot
<1>3. DropsAreTold
  <2> DEFINE kept == ToSet(seat.held) \cup ToSet(seat.chain) \cup {seat.run.text}
                       \cup {past.read[i].text : i \in DOMAIN past.read}
  <2>1. Read(Now) = {past.read[i].text : i \in DOMAIN past.read}
    BY <1>1 DEF Read
  <2>2. Waiting(Now) = ToSet(seat.held) /\ Chained(Now) = ToSet(seat.chain)
    BY <1>1 DEF Waiting, Chained
  <2>3. \/ OnItsWay(Now) = {seat.run.text}
        \/ OnItsWay(Now) = {} /\ (seat.run.text = 0 \/ seat.run.text \in Read(Now))
    BY <1>1, SeatIs DEF OnItsWay, Sound, Running, Free
  <2>4. 0 \notin 1 .. past.got
    BY <1>1, TextParts
  <2>5. (1 .. past.got) \ kept = Gone(Now)
    <3>1. Gone(Now) = (1 .. past.got) \ (Read(Now) \cup OnItsWay(Now) \cup ToSet(seat.chain)
                                          \cup ToSet(seat.held))
      BY <1>1, <2>2 DEF Gone, Line
    <3>2. kept = ToSet(seat.held) \cup ToSet(seat.chain) \cup {seat.run.text} \cup Read(Now)
      BY <2>1
    <3> HIDE DEF kept
    <3> QED
      BY <2>3, <2>4, <3>1, <3>2
  <2> QED
    BY <1>1, <2>5 DEF DropsAreTold, Sound, Counted
<1>4. BriefedFirst
  <2>1. \A i \in DOMAIN past.read : past.read[i].id \in TopLevel
    <3>1. past.read \in Seq(Prompt)
      BY <1>1, TextParts
    <3>2. \A i \in DOMAIN past.read : past.read[i] \in Prompt
      BY <3>1, ElementOfSeq, LenProperties
    <3> QED
      BY <3>2 DEF Prompt
  <2> QED
    BY <1>1, <2>1 DEF BriefedFirst, Sound, Instructed
<1> QED
  BY <1>2, <1>3, <1>4 DEF TextsReachTheModel

LEMMA InvHangsNothing ==
  ASSUME Inv
  PROVE  NothingHangs
<1>1. Wired /\ Sound(Now) /\ Linked /\ Now.seat = seat
  BY NowIs DEF Inv, Typed, Wired
<1>2. PluginTypeOK
  <2>1. /\ conn.sock \in {"none", "opening", "hello", "welcomed"}
        /\ seat.active \in Session \cup {NoSession}
        /\ seat.reported \in {"none", "idle", "busy"}
    BY <1>1, LinkParts, SeatIs, Constants DEF Socket, Id
  <2>2. Len(seat.held) <= HeldCap
    BY <1>1 DEF Sound, Apart
  <2> QED
    BY <1>1, <2>1, <2>2 DEF PluginTypeOK, Linked, Tidy
<1> QED
  BY <1>1, <1>2 DEF NothingHangs, Linked

\* moot.ts, reportedState: the hub has read, or will read, the last boundary of
\* a turn on every connection, and when everything has come to rest it takes the
\* agent for idle and keeps nothing back.
THEOREM HubKnowsTheTurnAlways == Spec => []HubKnowsTheTurn
BY SpokeInvariance, InvTellsTheTurn, PTL

\* moot.ts, injectSoon, held and briefed: what arrives is read in its order, by
\* a session that has the rules, or is counted among the drops.
THEOREM TextsReachTheModelAlways == Spec => []TextsReachTheModel
BY SpokeInvariance, InvReachesTheModel, PTL

\* lib.ts, failPending and scheduleReconnect: no say waits for an answer that
\* cannot come, and no spoke is without a timer that has not been told to stop.
THEOREM NothingHangsAlways == Spec => []NothingHangs
BY SpokeInvariance, InvHangsNothing, PTL

=============================================================================
