-------------------------- MODULE ObserverSeatProofs --------------------------
(***************************************************************************)
(* The human seat, for any peers, any ring and any backlog: it knows the   *)
(* floor, each answer of the hub meets what asked for it, and what /last   *)
(* shows is complete.                                                      *)
(*                                                                         *)
(* Each of the three is about what is under way between the threads and    *)
(* the hub, so each part of the invariant reads the frames on their way:   *)
(* a number is in one place (Numbered), an echo is owed for just the says  *)
(* under way (Owed), the last frame about a peer says what holds at the    *)
(* hub (Told), and ring and frames together ascend and have every message  *)
(* (Kept).                                                                 *)
(***************************************************************************)
EXTENDS ObserverSeat, SequenceTheorems, FiniteSetTheorems, FunctionTheorems, TLAPS

Asking  == {"say", "cmd", "roster"}
Answers == {"ok", "err", "roster"}
Kinds   == Asking \cup Answers \cup {"echo"}

\* What may travel to the hub: lines with a number from s, polls with one from p.
Outgoing == [t : {"say"}, seq : Nat] \cup [t : {"cmd"}, cmd : {"goal", "reset"}, seq : Nat]
            \cup [t : {"roster"}, seq : Int]
Incoming == [t : {"ok"}, seq : Nat, id : Nat] \cup [t : {"err"}, seq : Nat]
            \cup [t : {"deliver"}, ids : Seq(Nat)] \cup [t : {"ping"}]
            \cup [t : {"event"}, event : {"joined", "left"}, name : Peer]
            \cup [t : {"event"}, event : {"goal"}, goal : Nat]
            \cup [t : {"roster"}, seq : Int, goal : Nat, names : SUBSET (Peer \cup {"me"})]

Hubs   == [day : Seq({"peer", "me"}), peers : SUBSET Peer, goal : Nat, open : BOOLEAN, events : Nat]
Seats  == [mode : {"tui", "classic"}, since : Nat, ring : Seq(Nat), peers : SUBSET Peer, goal : Nat,
           pending : SUBSET Nat, seq : Nat, poll : Int, closed : BOOLEAN]
Inputs == [pc : {"idle", "typed", "sending", "over"}, out : Seq(Outgoing), echo : SUBSET Nat]

Typed ==
  /\ hub \in Hubs /\ toHub \in Seq(Outgoing) /\ toSeat \in Seq(Incoming)
  /\ seat \in Seats /\ input \in Inputs
  /\ reader \in {"reads", "ended", "gone"} /\ wake \in BOOLEAN /\ rosters \subseteq Nat
  /\ seat.poll <= 0

-----------------------------------------------------------------------------
(* The numbers of the frames under way.                                    *)

\* An ok that carries the id of a message is an echo.
Kind(f) == IF f.t = "ok" /\ f.id # 0 THEN "echo" ELSE f.t

\* The places of the frames of the given kinds, and their numbers.
At(fs, K) == {i \in 1 .. Len(fs) : Kind(fs[i]) \in K}
Of(fs, K) == {fs[i].seq : i \in At(fs, K)}

\* No two frames have the same number.
Single(fs) == \A i, j \in At(fs, Kinds) : fs[i].seq = fs[j].seq => i = j

\* A number is in one place: with the seat, on the way to the hub, or on the
\* way back; typed lines have those that were taken, polls their own.
Numbers == Of(toSeat, Kinds) \cup Of(toHub, Kinds)
Numbered ==
  /\ Single(toSeat) /\ Single(toHub) /\ Single(input.out)
  /\ Of(toSeat, Kinds) \cap Of(toHub, Kinds) = {}
  /\ Numbers \cap Of(input.out, Kinds) = {}
  /\ \A s \in Numbers : s \in 1 .. seat.seq \/ (Tui /\ s \in seat.poll .. -1)
  /\ Of(input.out, Kinds) \subseteq 1 .. seat.seq
  /\ rosters \subseteq 1 .. seat.seq
  /\ rosters \cap (Numbers \cup Of(input.out, Kinds)) = {}

\* The echo the input thread is about to register is that of the says it has
\* yet to send.
Owed ==
  /\ seat.pending \subseteq 1 .. seat.seq
  /\ input.echo \subseteq 1 .. seat.seq
  /\ input.pc = "typed" => input.echo = Of(input.out, {"say"})
  /\ input.pc \in {"idle", "over"} => input.out = <<>>
  /\ Tui /\ InTouch =>
       seat.pending = Of(toHub, {"say"}) \cup Of(toSeat, {"err", "echo"})
                        \cup IF input.pc = "sending" THEN Of(input.out, {"say"}) ELSE {}

Ended ==
  /\ seat.closed => ~hub.open
  /\ Len(seat.ring) <= RingCap

-----------------------------------------------------------------------------
(* The peers and the goal.                                                 *)

\* The frames on their way that say whether p is there, and what they say.
AboutPeer(f, p) == f.t = "roster" \/ (f.t = "event" /\ f.event \in {"joined", "left"} /\ f.name = p)
Presence(fs, p) == {i \in 1 .. Len(fs) : AboutPeer(fs[i], p)}
SaysThere(f, p) == IF f.t = "roster" THEN p \in f.names ELSE f.event = "joined"

AboutGoal(f) == f.t = "roster" \/ (f.t = "event" /\ f.event = "goal")
Goals(fs)    == {i \in 1 .. Len(fs) : AboutGoal(fs[i])}

\* The last of the frames about a peer, or about the goal, says what holds at
\* the hub (theirs); without one the seat (mine) knows.
PeerHeard(fs, p, mine, theirs) ==
  IF Presence(fs, p) = {} THEN p \in mine <=> p \in theirs
  ELSE \E i \in Presence(fs, p) : /\ \A j \in Presence(fs, p) : j <= i
                                  /\ SaysThere(fs[i], p) <=> p \in theirs
GoalHeard(fs, mine, theirs) ==
  IF Goals(fs) = {} THEN mine = theirs
  ELSE \E i \in Goals(fs) : (\A j \in Goals(fs) : j <= i) /\ fs[i].goal = theirs
Told ==
  input.pc # "over" => /\ GoalHeard(toSeat, seat.goal, hub.goal)
                       /\ \A p \in Peer : PeerHeard(toSeat, p, seat.peers, hub.peers)

-----------------------------------------------------------------------------
(* The messages.                                                           *)

Rising(s) == \A i, j \in 1 .. Len(s) : i < j => s[i] < s[j]

\* The frames carry messages upwards.
Ascends(fs) ==
  /\ \A i, j \in 1 .. Len(fs) : i < j => \A k \in Ids(fs[i]), l \in Ids(fs[j]) : k < l
  /\ \A i \in 1 .. Len(fs) : fs[i].t = "deliver" => Rising(fs[i].ids)

\* The first message the ring has had, or will have had.
From == IF \A i \in 1 .. seat.since : hub.day[i] # "me" THEN 2 ELSE seat.since + 1

\* The ring, and what is on its way to it, ascend and miss nothing.
Kept ==
  /\ Tui /\ InTouch =>
       /\ Rising(seat.ring) /\ Ascends(toSeat)
       /\ \A id \in ToSet(seat.ring), k \in OnTheWay : id < k
       /\ ToSet(seat.ring) \cup OnTheWay \subseteq 2 .. Len(hub.day)
       /\ \A id \in From .. Len(hub.day) :
            \/ id \in ToSet(seat.ring) \cup OnTheWay
            \/ Len(seat.ring) = RingCap /\ id < seat.ring[1]
  /\ 2 <= seat.since /\ seat.since <= Len(hub.day)

Inv == Typed /\ Numbered /\ Owed /\ Ended /\ Told /\ Kept

-----------------------------------------------------------------------------
(* Frames put on the way and taken from it.                                *)

LEMMA Put ==
  ASSUME NEW S, NEW fs \in Seq(S), NEW f
  PROVE  /\ Len(fs) \in Nat /\ Len(Append(fs, f)) = Len(fs) + 1
         /\ \A i \in 1 .. Len(fs) : Append(fs, f)[i] = fs[i]
         /\ Append(fs, f)[Len(fs) + 1] = f
         /\ 1 .. Len(Append(fs, f)) = (1 .. Len(fs)) \cup {Len(fs) + 1}
<1>1. Len(fs) \in Nat /\ Len(Append(fs, f)) = Len(fs) + 1
  OBVIOUS
<1>2. \A i \in 1 .. Len(fs) : Append(fs, f)[i] = fs[i]
  OBVIOUS
<1>3. Append(fs, f)[Len(fs) + 1] = f
  OBVIOUS
<1> QED
  BY <1>1, <1>2, <1>3

LEMMA Took ==
  ASSUME NEW S, NEW fs \in Seq(S), fs # <<>>
  PROVE  /\ Head(fs) = fs[1] /\ fs[1] \in S /\ Tail(fs) \in Seq(S)
         /\ Len(fs) \in Nat \ {0} /\ Len(Tail(fs)) = Len(fs) - 1
         /\ \A i \in 1 .. Len(Tail(fs)) : Tail(fs)[i] = fs[i + 1] /\ i + 1 \in 1 .. Len(fs)
         /\ \A i \in 1 .. Len(fs) : i # 1 => i - 1 \in 1 .. Len(Tail(fs)) /\ Tail(fs)[i - 1] = fs[i]
<1> DEFINE t == Tail(fs)
<1>1. /\ Head(fs) = fs[1] /\ fs[1] \in S /\ t \in Seq(S)
      /\ Len(fs) \in Nat \ {0} /\ Len(t) = Len(fs) - 1
  OBVIOUS
<1>2. \A i \in 1 .. Len(t) : t[i] = fs[i + 1]
  OBVIOUS
<1> HIDE DEF t
<1>3. \A i \in 1 .. Len(t) : i + 1 \in 1 .. Len(fs)
  BY <1>1
<1>4. \A i \in 1 .. Len(fs) : i # 1 => i - 1 \in 1 .. Len(t) /\ (i - 1) + 1 = i
  BY <1>1
<1>5. \A i \in 1 .. Len(fs) : i # 1 => t[i - 1] = fs[i]
  BY <1>2, <1>4
<1> QED
  BY <1>1, <1>2, <1>3, <1>4, <1>5 DEF t

LEMMA OfPut ==
  ASSUME NEW S, NEW fs \in Seq(S), NEW f, NEW K
  PROVE  Of(Append(fs, f), K) = Of(fs, K) \cup IF Kind(f) \in K THEN {f.seq} ELSE {}
<1> DEFINE g == Append(fs, f)
<1>1. /\ Len(fs) \in Nat /\ \A i \in 1 .. Len(fs) : g[i] = fs[i]
      /\ g[Len(fs) + 1] = f /\ 1 .. Len(g) = (1 .. Len(fs)) \cup {Len(fs) + 1}
  BY Put
<1> HIDE DEF g
<1>2. At(g, K) = At(fs, K) \cup IF Kind(f) \in K THEN {Len(fs) + 1} ELSE {}
  BY <1>1 DEF At
<1>3. \A i \in At(fs, K) : g[i].seq = fs[i].seq
  BY <1>1 DEF At
<1>4. Of(g, K) = Of(fs, K) \cup IF Kind(f) \in K THEN {f.seq} ELSE {}
  BY <1>1, <1>2, <1>3 DEF Of
<1> QED
  BY <1>4 DEF g

LEMMA OfNone == \A K : Of(<<>>, K) = {} /\ At(<<>>, K) = {}
BY DEF Of, At

LEMMA OfTook ==
  ASSUME NEW S, NEW fs \in Seq(S), fs # <<>>, NEW K
  PROVE  Of(fs, K) = Of(Tail(fs), K) \cup IF Kind(Head(fs)) \in K THEN {Head(fs).seq} ELSE {}
<1> DEFINE t == Tail(fs)
<1>1. /\ Head(fs) = fs[1] /\ Len(fs) \in Nat \ {0}
      /\ \A i \in 1 .. Len(t) : t[i] = fs[i + 1] /\ i + 1 \in 1 .. Len(fs)
      /\ \A i \in 1 .. Len(fs) : i # 1 => i - 1 \in 1 .. Len(t) /\ t[i - 1] = fs[i]
  BY Took
<1> HIDE DEF t
<1>2. \A i \in At(t, K) : i + 1 \in At(fs, K) /\ fs[i + 1].seq = t[i].seq
  BY <1>1 DEF At
<1>3. \A i \in At(fs, K) : i # 1 => i - 1 \in At(t, K) /\ t[i - 1].seq = fs[i].seq
  BY <1>1 DEF At
<1>4. 1 \in At(fs, K) <=> Kind(Head(fs)) \in K
  BY <1>1 DEF At
<1>5. Of(t, K) \subseteq Of(fs, K)
  BY <1>2 DEF Of
<1>6. Kind(Head(fs)) \in K => Head(fs).seq \in Of(fs, K)
  BY <1>1, <1>4 DEF Of
<1>7. \A i \in At(fs, K) : fs[i].seq \in Of(t, K) \/ (Kind(Head(fs)) \in K /\ fs[i].seq = Head(fs).seq)
  BY <1>1, <1>3, <1>4 DEF Of
<1>8. Of(fs, K) = Of(t, K) \cup IF Kind(Head(fs)) \in K THEN {Head(fs).seq} ELSE {}
  BY <1>5, <1>6, <1>7 DEF Of
<1> QED
  BY <1>8 DEF t

LEMMA OfMore ==
  ASSUME NEW fs, NEW K, NEW L, K \subseteq L
  PROVE  Of(fs, K) \subseteq Of(fs, L)
BY DEF Of, At

\* Frames of different kinds have different numbers.
LEMMA OfApart ==
  ASSUME NEW fs, NEW K, NEW L, K \subseteq Kinds, L \subseteq Kinds, K \cap L = {}, Single(fs)
  PROVE  Of(fs, K) \cap Of(fs, L) = {}
BY DEF Of, At, Single

LEMMA SingleTook ==
  ASSUME NEW S, NEW fs \in Seq(S), fs # <<>>, Single(fs)
  PROVE  /\ Single(Tail(fs))
         /\ Kind(Head(fs)) \in Kinds => Head(fs).seq \notin Of(Tail(fs), Kinds)
<1> DEFINE t == Tail(fs)
<1>1. /\ Head(fs) = fs[1] /\ Len(fs) \in Nat \ {0}
      /\ \A i \in 1 .. Len(t) : t[i] = fs[i + 1] /\ i + 1 \in 1 .. Len(fs)
  BY Took
<1> HIDE DEF t
<1>2. \A i \in At(t, Kinds) : i \in Nat \ {0} /\ i + 1 \in At(fs, Kinds) /\ fs[i + 1].seq = t[i].seq
  BY <1>1 DEF At
<1>3. Single(t)
  BY <1>2 DEF Single
<1>4. ASSUME Kind(Head(fs)) \in Kinds PROVE Head(fs).seq \notin Of(t, Kinds)
  <2>1. 1 \in At(fs, Kinds)
    BY <1>1, <1>4 DEF At
  <2>2. \A i \in At(t, Kinds) : t[i].seq # fs[1].seq
    BY <1>2, <2>1 DEF Single
  <2> QED
    BY <1>1, <2>2 DEF Of
<1> QED
  BY <1>3, <1>4 DEF t

LEMMA SinglePut ==
  ASSUME NEW S, NEW fs \in Seq(S), NEW f, Single(fs),
         Kind(f) \in Kinds => f.seq \notin Of(fs, Kinds)
  PROVE  Single(Append(fs, f))
<1> DEFINE g == Append(fs, f)
<1>1. /\ Len(fs) \in Nat /\ \A i \in 1 .. Len(fs) : g[i] = fs[i]
      /\ g[Len(fs) + 1] = f /\ 1 .. Len(g) = (1 .. Len(fs)) \cup {Len(fs) + 1}
  BY Put
<1> HIDE DEF g
<1>2. At(g, Kinds) \subseteq At(fs, Kinds) \cup {Len(fs) + 1}
      /\ (Len(fs) + 1 \in At(g, Kinds) => Kind(f) \in Kinds)
  BY <1>1 DEF At
<1>3. \A i \in At(fs, Kinds) : g[i].seq = fs[i].seq /\ fs[i].seq \in Of(fs, Kinds)
  BY <1>1 DEF At, Of
<1>4. Single(g)
  BY <1>1, <1>2, <1>3 DEF Single
<1> QED
  BY <1>4 DEF g

-----------------------------------------------------------------------------
(* What each step does to the parts of the state.                          *)

\* A frame on its way to the seat.
Arrives(f) == f \in Incoming /\ toSeat' = Append(toSeat, f)

LEMMA ArrivesType ==
  ASSUME Typed, NEW f, Arrives(f)
  PROVE  toSeat' \in Seq(Incoming)
BY DEF Typed, Arrives

LEMMA PeerSaysDoes ==
  ASSUME Typed, PeerSays
  PROVE  /\ Typed' /\ hub.open /\ input.pc # "over"
         /\ hub' = [hub EXCEPT !.day = Append(hub.day, "peer")]
         /\ hub'.day = Append(hub.day, "peer") /\ hub'.peers = hub.peers /\ hub'.goal = hub.goal
         /\ hub'.open = hub.open
         /\ Arrives([t |-> "deliver", ids |-> <<Len(hub.day) + 1>>])
         /\ UNCHANGED <<toHub, seat, input, reader, wake, rosters>>
<1> DEFINE f == [t |-> "deliver", ids |-> <<Len(hub.day) + 1>>]
           d == Append(hub.day, "peer")
<1>1. hub \in Hubs /\ hub.day \in Seq({"peer", "me"})
  BY DEF Typed, Hubs
<1>2. hub' = [hub EXCEPT !.day = d] /\ toSeat' = Append(toSeat, f)
      /\ UNCHANGED <<toHub, seat, input, reader, wake, rosters>> /\ hub.open /\ input.pc # "over"
  BY DEF PeerSays, ToSeat, HubRuns
<1>3. d \in Seq({"peer", "me"}) /\ <<Len(hub.day) + 1>> \in Seq(Nat)
  BY <1>1
<1>4. f \in Incoming
  BY <1>3 DEF Incoming
<1> HIDE DEF f, d
<1>5. /\ hub' \in Hubs /\ hub'.day = d /\ hub'.peers = hub.peers /\ hub'.goal = hub.goal
      /\ hub'.open = hub.open
  BY <1>1, <1>2, <1>3 DEF Hubs
<1>6. Typed'
  BY <1>2, <1>4, <1>5, ArrivesType DEF Typed, Arrives
<1> QED
  BY <1>2, <1>4, <1>5, <1>6 DEF Arrives, f, d

LEMMA PeerMovesDoes ==
  ASSUME Typed, NEW p \in Peer, PeerMoves(p)
  PROVE  LET joins == p \notin hub.peers
         IN  /\ Typed' /\ hub.open /\ input.pc # "over"
             /\ hub'.peers = IF joins THEN hub.peers \cup {p} ELSE hub.peers \ {p}
             /\ hub'.day = hub.day /\ hub'.goal = hub.goal /\ hub'.open = hub.open
             /\ Arrives([t |-> "event", event |-> IF joins THEN "joined" ELSE "left", name |-> p])
             /\ UNCHANGED <<toHub, seat, input, reader, wake, rosters>>
<1> DEFINE e == IF p \notin hub.peers THEN "joined" ELSE "left"
           f == [t |-> "event", event |-> e, name |-> p]
           P == IF p \notin hub.peers THEN hub.peers \cup {p} ELSE hub.peers \ {p}
           n == hub.events + 1
<1>1. hub \in Hubs /\ hub.peers \subseteq Peer /\ hub.events \in Nat
  BY DEF Typed, Hubs
<1>2. hub' = [hub EXCEPT !.events = n, !.peers = P] /\ toSeat' = Append(toSeat, f)
      /\ UNCHANGED <<toHub, seat, input, reader, wake, rosters>> /\ hub.open /\ input.pc # "over"
  BY DEF PeerMoves, ToSeat, HubRuns
<1>3. P \subseteq Peer /\ e \in {"joined", "left"} /\ n \in Nat
  BY <1>1
<1> HIDE DEF e, P, n
<1>4. f \in Incoming
  BY <1>3 DEF Incoming
<1> HIDE DEF f
<1>5. /\ hub' \in Hubs /\ hub'.day = hub.day /\ hub'.peers = P /\ hub'.goal = hub.goal
      /\ hub'.open = hub.open
  BY <1>1, <1>2, <1>3 DEF Hubs
<1>6. Typed'
  BY <1>2, <1>4, <1>5, ArrivesType DEF Typed, Arrives
<1> QED
  BY <1>2, <1>4, <1>5, <1>6 DEF Arrives, f, e, P

LEMMA PingsDoes ==
  ASSUME Typed, Pings
  PROVE  /\ Typed' /\ hub.open /\ input.pc # "over"
         /\ hub'.day = hub.day /\ hub'.peers = hub.peers /\ hub'.goal = hub.goal
         /\ hub'.open = hub.open
         /\ Arrives([t |-> "ping"])
         /\ UNCHANGED <<toHub, seat, input, reader, wake, rosters>>
<1> DEFINE n == hub.events + 1
<1>1. hub \in Hubs /\ n \in Nat
  BY DEF Typed, Hubs
<1>2. hub' = [hub EXCEPT !.events = n] /\ toSeat' = Append(toSeat, [t |-> "ping"])
      /\ UNCHANGED <<toHub, seat, input, reader, wake, rosters>> /\ hub.open /\ input.pc # "over"
  BY DEF Pings, ToSeat, HubRuns
<1> HIDE DEF n
<1>3. [t |-> "ping"] \in Incoming
  BY DEF Incoming
<1>4. /\ hub' \in Hubs /\ hub'.day = hub.day /\ hub'.peers = hub.peers /\ hub'.goal = hub.goal
      /\ hub'.open = hub.open
  BY <1>1, <1>2 DEF Hubs
<1>5. Typed'
  BY <1>2, <1>3, <1>4, ArrivesType DEF Typed, Arrives
<1> QED
  BY <1>2, <1>3, <1>4, <1>5 DEF Arrives

\* The hub takes a frame: what it then answers, and what becomes of its state.
Routed(f) ==
  /\ f.t = "say"
  /\ hub'.day = Append(hub.day, "me") /\ hub'.goal = hub.goal
  /\ Arrives([t |-> "ok", seq |-> f.seq, id |-> Len(hub.day) + 1])
Refused(f) ==
  /\ f.t = "say"
  /\ hub'.day = hub.day /\ hub'.goal = hub.goal
  /\ Arrives([t |-> "err", seq |-> f.seq])
Announced(f) ==
  /\ f.t = "cmd"
  /\ hub'.day = hub.day /\ hub'.goal = hub.goal + 1
  /\ [t |-> "event", event |-> "goal", goal |-> hub.goal + 1] \in Incoming
  /\ [t |-> "ok", seq |-> f.seq, id |-> 0] \in Incoming
  /\ toSeat' = Append(Append(toSeat, [t |-> "event", event |-> "goal", goal |-> hub.goal + 1]),
                      [t |-> "ok", seq |-> f.seq, id |-> 0])
Obeyed(f) ==
  /\ f.t = "cmd"
  /\ hub'.day = hub.day /\ hub'.goal = hub.goal
  /\ Arrives([t |-> "ok", seq |-> f.seq, id |-> 0])
Listed(f) ==
  /\ f.t = "roster"
  /\ hub'.day = hub.day /\ hub'.goal = hub.goal
  /\ Arrives([t |-> "roster", seq |-> f.seq, goal |-> hub.goal, names |-> hub.peers \cup {"me"}])

LEMMA TwoPut ==
  ASSUME NEW S, NEW fs \in Seq(S), NEW e \in S, NEW f \in S
  PROVE  fs \o <<e, f>> = Append(Append(fs, e), f)
OBVIOUS

LEMMA HubTakesDoes ==
  ASSUME Typed, HubTakes
  PROVE  LET f == Head(toHub)
         IN  /\ Typed' /\ hub.open /\ input.pc # "over" /\ toHub # <<>>
             /\ f \in Outgoing /\ toHub' = Tail(toHub)
             /\ hub'.peers = hub.peers /\ hub'.open = hub.open
             /\ Routed(f) \/ Refused(f) \/ Announced(f) \/ Obeyed(f) \/ Listed(f)
             /\ UNCHANGED <<seat, input, reader, wake, rosters>>
<1> DEFINE f == Head(toHub)
           d == Append(hub.day, "me")
<1>1. hub \in Hubs /\ hub.goal \in Nat /\ hub.peers \subseteq Peer /\ hub.day \in Seq({"peer", "me"})
  BY DEF Typed, Hubs
<1>2. /\ toHub # <<>> /\ toHub' = Tail(toHub) /\ UNCHANGED <<seat, input, reader, wake, rosters>>
      /\ hub.open /\ input.pc # "over"
  BY DEF HubTakes, HubRuns
<1>3. f \in Outgoing /\ toHub' \in Seq(Outgoing)
  BY <1>2, Took DEF Typed
<1>4. /\ f.t = "say" => HubSay(f)
      /\ f.t = "cmd" => HubCmd(f)
      /\ f.t = "roster" => /\ toSeat' = Append(toSeat, [t |-> "roster", seq |-> f.seq,
                                    goal |-> hub.goal, names |-> hub.peers \cup {"me"}])
                           /\ UNCHANGED hub
  BY DEF HubTakes, ToSeat
<1> HIDE DEF f
<1>5. f.t \in {"say", "cmd", "roster"} /\ f.seq \in Int /\ (f.t \in {"say", "cmd"} => f.seq \in Nat)
  BY <1>3 DEF Outgoing
<1>6. d \in Seq({"peer", "me"}) /\ Len(hub.day) \in Nat
  BY <1>1
<1> HIDE DEF d
<1>7. hub' \in Hubs /\ toSeat' \in Seq(Incoming) /\ hub'.peers = hub.peers /\ hub'.open = hub.open
      /\ (Routed(f) \/ Refused(f) \/ Announced(f) \/ Obeyed(f) \/ Listed(f))
  <2>1. CASE f.t = "say" /\ UNCHANGED hub
    <3> DEFINE g == [t |-> "err", seq |-> f.seq]
    <3>1. toSeat' = Append(toSeat, g) \/ hub' # hub \/ hub' = [hub EXCEPT !.day = d]
      BY <1>4, <2>1 DEF HubSay, ToSeat, d
    <3>2. hub' # [hub EXCEPT !.day = d]
      <4>1. Len(d) = Len(hub.day) + 1
        BY <1>1 DEF d
      <4>2. d # hub.day
        BY <1>6, <4>1
      <4> QED
        BY <1>1, <2>1, <4>2 DEF Hubs
    <3>3. g \in Incoming
      BY <1>5, <2>1 DEF Incoming
    <3>4. Arrives(g)
      BY <2>1, <3>1, <3>2, <3>3 DEF Arrives
    <3> QED
      BY <1>1, <2>1, <3>4, ArrivesType DEF Refused
  <2>2. CASE f.t = "say" /\ ~UNCHANGED hub
    <3> DEFINE g == [t |-> "ok", seq |-> f.seq, id |-> Len(hub.day) + 1]
    <3>1. hub' = [hub EXCEPT !.day = d] /\ toSeat' = Append(toSeat, g)
      BY <1>4, <2>2 DEF HubSay, ToSeat, d
    <3>2. g \in Incoming
      BY <1>5, <1>6, <2>2 DEF Incoming
    <3>3. Arrives(g)
      BY <3>1, <3>2 DEF Arrives
    <3>4. /\ hub' \in Hubs /\ hub'.day = d /\ hub'.peers = hub.peers /\ hub'.goal = hub.goal
          /\ hub'.open = hub.open
      BY <1>1, <1>6, <3>1 DEF Hubs
    <3> QED
      BY <2>2, <3>3, <3>4, ArrivesType DEF Routed, d
  <2>3. CASE f.t = "cmd" /\ f.cmd = "goal"
    <3> DEFINE e == [t |-> "event", event |-> "goal", goal |-> hub.goal + 1]
               g == [t |-> "ok", seq |-> f.seq, id |-> 0]
               n == hub.goal + 1
    <3>1. hub' = [hub EXCEPT !.goal = n] /\ toSeat' = toSeat \o <<e, g>> /\ n \in Nat
      BY <1>1, <1>4, <2>3 DEF HubCmd
    <3>2. e \in Incoming /\ g \in Incoming
      BY <1>1, <1>5, <2>3 DEF Incoming
    <3> HIDE DEF e, g
    <3>3. toSeat' = Append(Append(toSeat, e), g) /\ toSeat' \in Seq(Incoming)
      BY <3>1, <3>2, TwoPut DEF Typed
    <3> HIDE DEF n
    <3>4. /\ hub' \in Hubs /\ hub'.day = hub.day /\ hub'.peers = hub.peers
          /\ hub'.goal = n /\ hub'.open = hub.open
      BY <1>1, <3>1 DEF Hubs
    <3> QED
      BY <2>3, <3>2, <3>3, <3>4 DEF Announced, e, g, n
  <2>4. CASE f.t = "cmd" /\ f.cmd # "goal"
    <3> DEFINE g == [t |-> "ok", seq |-> f.seq, id |-> 0]
    <3>1. UNCHANGED hub /\ toSeat' = Append(toSeat, g)
      BY <1>4, <2>4 DEF HubCmd, ToSeat
    <3>2. g \in Incoming
      BY <1>5, <2>4 DEF Incoming
    <3>3. Arrives(g)
      BY <3>1, <3>2 DEF Arrives
    <3> QED
      BY <1>1, <2>4, <3>1, <3>3, ArrivesType DEF Obeyed
  <2>5. CASE f.t = "roster"
    <3> DEFINE g == [t |-> "roster", seq |-> f.seq, goal |-> hub.goal, names |-> hub.peers \cup {"me"}]
    <3>1. UNCHANGED hub /\ toSeat' = Append(toSeat, g)
      BY <1>4, <2>5
    <3>2. g \in Incoming
      BY <1>1, <1>5 DEF Incoming
    <3>3. Arrives(g)
      BY <3>1, <3>2 DEF Arrives
    <3> QED
      BY <1>1, <2>5, <3>1, <3>3, ArrivesType DEF Listed
  <2> QED
    BY <1>5, <2>1, <2>2, <2>3, <2>4, <2>5
<1>8. Typed'
  BY <1>2, <1>3, <1>7 DEF Typed
<1> QED
  BY <1>2, <1>3, <1>7, <1>8 DEF f

LEMMA HangupDoes ==
  ASSUME Typed, Hangup
  PROVE  /\ Typed' /\ hub'.open = FALSE /\ toHub' = <<>> /\ hub.open
         /\ hub'.day = hub.day /\ hub'.peers = hub.peers /\ hub'.goal = hub.goal
         /\ UNCHANGED <<toSeat, seat, input, reader, wake, rosters>>
<1>1. hub \in Hubs
  BY DEF Typed
<1>2. /\ hub' \in Hubs /\ hub'.open = FALSE
      /\ hub'.day = hub.day /\ hub'.peers = hub.peers /\ hub'.goal = hub.goal
  BY <1>1 DEF Hangup, Hubs
<1>3. toHub' = <<>> /\ toHub' \in Seq(Outgoing) /\ hub.open
      /\ UNCHANGED <<toSeat, seat, input, reader, wake, rosters>>
  BY DEF Hangup, HubRuns
<1> QED
  BY <1>2, <1>3 DEF Typed

-----------------------------------------------------------------------------
(* The reader.                                                             *)

\* The ring keeps the last of what it is given.
LEMMA CappedKeeps ==
  ASSUME NEW s \in Seq(Nat)
  PROVE  /\ Capped(s) \in Seq(Nat) /\ Len(s) \in Nat
         /\ Len(s) <= RingCap => Capped(s) = s
         /\ Len(s) > RingCap =>
              /\ Len(Capped(s)) = RingCap
              /\ \A i \in 1 .. RingCap : Capped(s)[i] = s[i + (Len(s) - RingCap)]
                                         /\ i + (Len(s) - RingCap) \in 1 .. Len(s)
<1>1. RingCap \in Nat \ {0}
  BY SeatAssumption
<1>2. Len(s) \in Nat
  OBVIOUS
<1> DEFINE k == Len(s) - RingCap + 1
<1>3. Max({1, k}) = IF k >= 1 THEN k ELSE 1
  <2> DEFINE m == IF k >= 1 THEN k ELSE 1
  <2>1. m \in {1, k} /\ \A y \in {1, k} : m >= y
    BY <1>1, <1>2
  <2>2. \A x \in {1, k} : (\A y \in {1, k} : x >= y) => x = m
    BY <1>1, <1>2
  <2> HIDE DEF m, k
  <2>3. Max({1, k}) = m
    BY <2>1, <2>2 DEF Max
  <2> QED
    BY <2>3 DEF m
<1>4. CASE Len(s) <= RingCap
  <2>1. Max({1, k}) = 1
    BY <1>1, <1>2, <1>3, <1>4
  <2>2. Capped(s) = SubSeq(s, 1, Len(s))
    BY <2>1 DEF Capped
  <2>3. SubSeq(s, 1, Len(s)) = s
    OBVIOUS
  <2>4. Capped(s) = s /\ ~(Len(s) > RingCap)
    BY <1>1, <1>2, <1>4, <2>2, <2>3
  <2> QED
    BY <1>2, <2>4
<1>5. CASE Len(s) > RingCap
  <2>1. Max({1, k}) = k /\ k \in 1 .. Len(s)
    BY <1>1, <1>2, <1>3, <1>5
  <2>2. Capped(s) = SubSeq(s, k, Len(s))
    BY <2>1 DEF Capped
  <2> HIDE DEF k
  <2>3. SubSeq(s, k, Len(s)) \in Seq(Nat) /\ Len(SubSeq(s, k, Len(s))) = Len(s) - k + 1
        /\ \A i \in 1 .. Len(s) - k + 1 : SubSeq(s, k, Len(s))[i] = s[k + i - 1]
    BY <1>2, <2>1, SubSeqProperties
  <2>4. Len(s) - k + 1 = RingCap
    BY <1>1, <1>2 DEF k
  <2>5. \A i \in 1 .. RingCap : k + i - 1 = i + (Len(s) - RingCap)
                                /\ i + (Len(s) - RingCap) \in 1 .. Len(s)
    <3>1. \A i \in 1 .. RingCap : i \in Nat /\ 1 <= i /\ i <= RingCap
      BY <1>1
    <3> QED
      BY <1>1, <1>2, <1>5, <3>1 DEF k
  <2>6. \A i \in 1 .. RingCap : Capped(s)[i] = s[i + (Len(s) - RingCap)]
    BY <2>2, <2>3, <2>4, <2>5
  <2>7. Capped(s) \in Seq(Nat) /\ Len(Capped(s)) = RingCap
    BY <2>2, <2>3, <2>4
  <2>8. ~(Len(s) <= RingCap)
    BY <1>1, <1>2, <1>5
  <2> QED
    BY <1>2, <2>5, <2>6, <2>7, <2>8
<1> QED
  BY <1>1, <1>2, <1>4, <1>5

\* What becomes of the parts of the seat when a frame is read.
PendingAfter(f) ==
  IF f.t = "err" \/ (f.t = "ok" /\ Tui) THEN seat.pending \ {f.seq} ELSE seat.pending
RingAfter(f) ==
  IF f.t = "deliver" THEN Capped(seat.ring \o f.ids)
  ELSE IF f.t = "ok" /\ Tui /\ f.seq \in seat.pending THEN Capped(Append(seat.ring, f.id))
  ELSE seat.ring
PeersAfter(f) ==
  IF f.t = "roster" THEN f.names \ {"me"}
  ELSE IF f.t = "event" /\ f.event = "joined" THEN seat.peers \cup {f.name}
  ELSE IF f.t = "event" /\ f.event = "left" THEN seat.peers \ {f.name}
  ELSE seat.peers
GoalAfter(f) ==
  IF f.t = "roster" \/ (f.t = "event" /\ f.event = "goal") THEN f.goal ELSE seat.goal
RostersAfter(f) ==
  IF f.t = "roster" /\ ~(Tui /\ f.seq < 0) THEN rosters \cup {f.seq} ELSE rosters

\* The types of what the parts become; a roster that was typed has a number.
LEMMA AfterTyped ==
  ASSUME Typed, NEW f \in Incoming, f.t = "roster" => f.seq \in Nat \/ (Tui /\ f.seq < 0)
  PROVE  /\ PendingAfter(f) \subseteq Nat /\ RingAfter(f) \in Seq(Nat) /\ PeersAfter(f) \subseteq Peer
         /\ GoalAfter(f) \in Nat /\ RostersAfter(f) \subseteq Nat
<1>1. /\ seat.pending \subseteq Nat /\ seat.ring \in Seq(Nat) /\ seat.peers \subseteq Peer
      /\ seat.goal \in Nat /\ rosters \subseteq Nat
  BY DEF Typed, Seats
<1>2. PendingAfter(f) \subseteq Nat
  BY <1>1 DEF PendingAfter
<1>3. RingAfter(f) \in Seq(Nat)
  <2>1. CASE f.t = "deliver"
    <3>1. f.ids \in Seq(Nat)
      BY <2>1 DEF Incoming
    <3>2. seat.ring \o f.ids \in Seq(Nat)
      BY <1>1, <3>1
    <3> QED
      BY <2>1, <3>2, CappedKeeps DEF RingAfter
  <2>2. CASE f.t = "ok" /\ Tui /\ f.seq \in seat.pending
    <3>1. f.id \in Nat
      BY <2>2 DEF Incoming
    <3>2. Append(seat.ring, f.id) \in Seq(Nat)
      BY <1>1, <3>1
    <3> QED
      BY <2>2, <3>2, CappedKeeps DEF RingAfter
  <2> QED
    BY <1>1, <2>1, <2>2 DEF RingAfter
<1>4. PeersAfter(f) \subseteq Peer
  <2>1. f.t = "roster" => f.names \ {"me"} \subseteq Peer
    BY DEF Incoming
  <2>2. f.t = "event" /\ f.event \in {"joined", "left"} => f.name \in Peer
    BY DEF Incoming
  <2> QED
    BY <1>1, <2>1, <2>2 DEF PeersAfter
<1>5. GoalAfter(f) \in Nat
  <2>1. f.t = "roster" \/ (f.t = "event" /\ f.event = "goal") => f.goal \in Nat
    BY DEF Incoming
  <2> QED
    BY <1>1, <2>1 DEF GoalAfter
<1>6. RostersAfter(f) \subseteq Nat
  BY <1>1 DEF RostersAfter
<1> QED
  BY <1>2, <1>3, <1>4, <1>5, <1>6

LEMMA ReadDoes ==
  ASSUME Typed, Numbered, Read
  PROVE  LET f == Head(toSeat)
         IN  /\ Typed' /\ toSeat # <<>> /\ f \in Incoming /\ toSeat' = Tail(toSeat)
             /\ reader = "reads" /\ input.pc # "over"
             /\ UNCHANGED <<hub, toHub, input, reader, wake>>
             /\ seat'.mode = seat.mode /\ seat'.since = seat.since /\ seat'.seq = seat.seq
             /\ seat'.poll = seat.poll /\ seat'.closed = seat.closed
             /\ seat'.pending = PendingAfter(f) /\ seat'.ring = RingAfter(f)
             /\ seat'.peers = PeersAfter(f) /\ seat'.goal = GoalAfter(f)
             /\ rosters' = RostersAfter(f)
<1> DEFINE f == Head(toSeat)
<1>1. seat \in Seats /\ seat.pending \subseteq Nat
  BY DEF Typed, Seats
<1>2. toSeat # <<>> /\ f \in Incoming /\ Tail(toSeat) \in Seq(Incoming)
  BY Took DEF Read, Typed
<1>3. /\ f.t = "ok" => ReadOk(f)
      /\ f.t = "err" => ReadErr(f)
      /\ f.t = "deliver" => ReadDeliver(f)
      /\ f.t = "event" => ReadEvent(f)
      /\ f.t = "roster" => ReadRoster(f)
      /\ f.t = "ping" => UNCHANGED <<seat, rosters>>
  BY DEF Read
<1>4. toSeat' = Tail(toSeat) /\ reader = "reads" /\ input.pc # "over"
      /\ UNCHANGED <<hub, toHub, input, reader, wake>>
  BY DEF Read
<1>5. f.t = "roster" => f.seq \in Nat \/ (Tui /\ f.seq < 0)
  <2>1. ASSUME f.t = "roster" PROVE f.seq \in Of(toSeat, Kinds)
    BY <1>2, <2>1, OfTook DEF Typed, Kind, Kinds, Asking
  <2>2. \A s \in Of(toSeat, Kinds) : s \in 1 .. seat.seq \/ (Tui /\ s \in seat.poll .. -1)
    BY DEF Numbered, Numbers
  <2>3. seat.seq \in Nat /\ seat.poll \in Int
    BY <1>1 DEF Seats
  <2> QED
    BY <2>1, <2>2, <2>3
<1> HIDE DEF f
<1> DEFINE A == PendingAfter(f)
           B == RingAfter(f)
           C == PeersAfter(f)
           D == GoalAfter(f)
<1>6. A \subseteq Nat /\ B \in Seq(Nat) /\ C \subseteq Peer /\ D \in Nat /\ RostersAfter(f) \subseteq Nat
  BY <1>2, <1>5, AfterTyped
<1>7. f.t \in {"ok", "err", "deliver", "event", "roster", "ping"}
      /\ (f.t = "event" => f.event \in {"joined", "left", "goal"})
  BY <1>2 DEF Incoming
<1>8. rosters' = RostersAfter(f)
  BY <1>3, <1>7 DEF ReadOk, ReadErr, ReadDeliver, ReadEvent, ReadRoster, RostersAfter
<1>9. seat' = [seat EXCEPT !.pending = A, !.ring = B, !.peers = C, !.goal = D]
  <2>1. CASE f.t = "ok"
    <3>1. C = seat.peers /\ D = seat.goal
      BY <2>1 DEF PeersAfter, GoalAfter
    <3>2. CASE Tui /\ f.seq \in seat.pending
      <4>1. A = seat.pending \ {f.seq} /\ B = Capped(Append(seat.ring, f.id))
        BY <2>1, <3>2 DEF PendingAfter, RingAfter
      <4>2. seat' = [seat EXCEPT !.pending = seat.pending \ {f.seq},
                                 !.ring = Capped(Append(seat.ring, f.id))]
        BY <1>3, <2>1, <3>2 DEF ReadOk
      <4> HIDE DEF A, B, C, D
      <4> QED
        BY <1>1, <3>1, <4>1, <4>2 DEF Seats
    <3>3. CASE ~(Tui /\ f.seq \in seat.pending)
      <4>1. A = seat.pending /\ B = seat.ring
        BY <2>1, <3>3 DEF PendingAfter, RingAfter
      <4>2. seat' = seat
        BY <1>3, <2>1, <3>3 DEF ReadOk
      <4> HIDE DEF A, B, C, D
      <4> QED
        BY <1>1, <3>1, <4>1, <4>2 DEF Seats
    <3> QED
      BY <3>2, <3>3
  <2>2. CASE f.t = "err"
    <3>1. A = seat.pending \ {f.seq} /\ B = seat.ring /\ C = seat.peers /\ D = seat.goal
      BY <2>2 DEF PendingAfter, RingAfter, PeersAfter, GoalAfter
    <3>2. seat' = [seat EXCEPT !.pending = seat.pending \ {f.seq}]
      BY <1>3, <2>2 DEF ReadErr
    <3> HIDE DEF A, B, C, D
    <3> QED
      BY <1>1, <3>1, <3>2 DEF Seats
  <2>3. CASE f.t = "deliver"
    <3>1. A = seat.pending /\ B = Capped(seat.ring \o f.ids) /\ C = seat.peers /\ D = seat.goal
      BY <2>3 DEF PendingAfter, RingAfter, PeersAfter, GoalAfter
    <3>2. seat' = [seat EXCEPT !.ring = Capped(seat.ring \o f.ids)]
      BY <1>3, <2>3 DEF ReadDeliver
    <3> HIDE DEF A, B, C, D
    <3> QED
      BY <1>1, <3>1, <3>2 DEF Seats
  <2>4. CASE f.t = "event"
    <3>1. A = seat.pending /\ B = seat.ring
      BY <2>4 DEF PendingAfter, RingAfter
    <3>2. seat' = CASE f.event = "joined" -> [seat EXCEPT !.peers = seat.peers \cup {f.name}]
                    [] f.event = "left"   -> [seat EXCEPT !.peers = seat.peers \ {f.name}]
                    [] f.event = "goal"   -> [seat EXCEPT !.goal = f.goal]
      BY <1>3, <2>4 DEF ReadEvent
    <3>3. CASE f.event = "joined"
      <4>1. C = seat.peers \cup {f.name} /\ D = seat.goal
        BY <2>4, <3>3 DEF PeersAfter, GoalAfter
      <4> HIDE DEF A, B, C, D
      <4> QED
        BY <1>1, <3>1, <3>2, <3>3, <4>1 DEF Seats
    <3>4. CASE f.event = "left"
      <4>1. C = seat.peers \ {f.name} /\ D = seat.goal
        BY <2>4, <3>4 DEF PeersAfter, GoalAfter
      <4> HIDE DEF A, B, C, D
      <4> QED
        BY <1>1, <3>1, <3>2, <3>4, <4>1 DEF Seats
    <3>5. CASE f.event = "goal"
      <4>1. C = seat.peers /\ D = f.goal
        BY <2>4, <3>5 DEF PeersAfter, GoalAfter
      <4> HIDE DEF A, B, C, D
      <4> QED
        BY <1>1, <3>1, <3>2, <3>5, <4>1 DEF Seats
    <3> QED
      BY <1>7, <2>4, <3>3, <3>4, <3>5
  <2>5. CASE f.t = "roster"
    <3>1. /\ A = seat.pending /\ B = seat.ring /\ C = f.names \ {"me"} /\ D = f.goal
      BY <2>5 DEF PendingAfter, RingAfter, PeersAfter, GoalAfter
    <3>2. seat' = [seat EXCEPT !.peers = f.names \ {"me"}, !.goal = f.goal]
      BY <1>3, <2>5 DEF ReadRoster
    <3> HIDE DEF A, B, C, D
    <3> QED
      BY <1>1, <3>1, <3>2 DEF Seats
  <2>6. CASE f.t = "ping"
    BY <1>1, <1>3, <2>6 DEF Seats, PendingAfter, RingAfter, PeersAfter, GoalAfter
  <2> QED
    BY <1>7, <2>1, <2>2, <2>3, <2>4, <2>5, <2>6
<1> HIDE DEF A, B, C, D
<1>10. /\ seat' \in Seats /\ seat'.mode = seat.mode /\ seat'.since = seat.since
       /\ seat'.seq = seat.seq /\ seat'.poll = seat.poll /\ seat'.closed = seat.closed
       /\ seat'.pending = A /\ seat'.ring = B /\ seat'.peers = C /\ seat'.goal = D
  BY <1>1, <1>6, <1>9 DEF Seats
<1>11. Typed'
  BY <1>2, <1>4, <1>6, <1>8, <1>10 DEF Typed
<1> QED
  BY <1>2, <1>4, <1>8, <1>10, <1>11 DEF f, A, B, C, D

\* The reader ends: nothing that is under way moves.
LEMMA ReaderEndsDoes ==
  ASSUME Typed, ReadFails \/ ReadEnd
  PROVE  /\ Typed' /\ ~hub.open /\ reader' # "reads"
         /\ UNCHANGED <<hub, toHub, toSeat, input, wake, rosters>>
         /\ seat'.mode = seat.mode /\ seat'.since = seat.since /\ seat'.ring = seat.ring
         /\ seat'.peers = seat.peers /\ seat'.goal = seat.goal
         /\ seat'.pending = seat.pending /\ seat'.seq = seat.seq /\ seat'.poll = seat.poll
<1>1. seat \in Seats
  BY DEF Typed
<1>2. /\ ~hub.open /\ reader' # "reads" /\ reader' \in {"reads", "ended", "gone"}
      /\ UNCHANGED <<hub, toHub, toSeat, input, wake, rosters>>
  BY DEF ReadFails, ReadEnd
<1>3. PICK c \in BOOLEAN : seat' = [seat EXCEPT !.closed = c]
  BY <1>1 DEF ReadFails, ReadEnd, Tui, Seats
<1>4. /\ seat' \in Seats /\ seat'.mode = seat.mode /\ seat'.since = seat.since
      /\ seat'.ring = seat.ring /\ seat'.peers = seat.peers /\ seat'.goal = seat.goal
      /\ seat'.pending = seat.pending /\ seat'.seq = seat.seq /\ seat'.poll = seat.poll
  BY <1>1, <1>3 DEF Seats
<1>5. Typed'
  BY <1>2, <1>4 DEF Typed
<1> QED
  BY <1>2, <1>4, <1>5

LEMMA WakeDoes ==
  ASSUME Typed, Wake
  PROVE  /\ Typed' /\ reader # "reads" /\ reader' # "reads"
         /\ UNCHANGED <<hub, toHub, toSeat, seat, input, rosters>>
<1>1. reader' = "gone" /\ wake' \in BOOLEAN /\ reader # "reads"
      /\ UNCHANGED <<hub, toHub, toSeat, seat, input, rosters>>
  BY DEF Wake, Tui
<1> QED
  BY <1>1 DEF Typed

-----------------------------------------------------------------------------
(* The input thread.                                                       *)

\* A line takes the next numbers, one for each frame, and is owed the echo of
\* its say.
LEMMA LineNumbers ==
  ASSUME Typed, NEW line \in Lines
  PROVE  /\ line.out \in Seq(Outgoing) /\ Len(line.out) \in Nat
         /\ Single(line.out)
         /\ Of(line.out, Kinds) \subseteq seat.seq + 1 .. seat.seq + Len(line.out)
         /\ line.echo = Of(line.out, {"say"}) /\ line.echo \subseteq Nat
<1> DEFINE n == seat.seq + 1
           o == line.out
<1>1. n \in Nat /\ n + 1 \in Nat /\ seat.seq \in Nat
  BY DEF Typed, Seats
<1>2. \/ o = <<Say(n)>> /\ line.echo = {n}
      \/ o = <<Say(n), Cmd(n + 1, "reset")>> /\ line.echo = {n}
      \/ o = <<Cmd(n, "goal")>> /\ line.echo = {}
      \/ o = <<[t |-> "roster", seq |-> n]>> /\ line.echo = {}
  BY DEF Lines
<1> HIDE DEF n
<1>3. /\ Say(n) \in Outgoing /\ Cmd(n, "goal") \in Outgoing /\ Cmd(n + 1, "reset") \in Outgoing
      /\ [t |-> "roster", seq |-> n] \in Outgoing
  BY <1>1 DEF Say, Cmd, Outgoing
<1>4. /\ Say(n).seq = n /\ Cmd(n, "goal").seq = n /\ Cmd(n + 1, "reset").seq = n + 1
      /\ Kind(Say(n)) = "say" /\ Kind(Cmd(n, "goal")) = "cmd" /\ Kind(Cmd(n + 1, "reset")) = "cmd"
  BY DEF Say, Cmd, Kind
<1> DEFINE r == [t |-> "roster", seq |-> n]
<1>5. r.seq = n /\ Kind(r) = "roster" /\ r \in Outgoing
  BY <1>3 DEF Kind
<1> DEFINE One(f) == o = <<f>>
<1>6. ASSUME NEW f \in Outgoing, o = <<f>>, f.seq = n, Kind(f) \in Kinds
      PROVE  /\ o \in Seq(Outgoing) /\ Len(o) = 1 /\ Single(o) /\ Of(o, Kinds) \subseteq {n}
             /\ Of(o, {"say"}) = IF Kind(f) = "say" THEN {n} ELSE {}
  <2>1. o \in Seq(Outgoing) /\ Len(o) = 1 /\ o[1] = f
    BY <1>6
  <2>2. \A K : At(o, K) = IF Kind(f) \in K THEN {1} ELSE {}
    BY <2>1 DEF At
  <2> HIDE DEF o
  <2>3. Single(o)
    BY <2>2 DEF Single
  <2>4. Of(o, Kinds) \subseteq {n} /\ Of(o, {"say"}) = IF Kind(f) = "say" THEN {n} ELSE {}
    BY <1>6, <2>1, <2>2 DEF Of
  <2> QED
    BY <2>1, <2>3, <2>4
<1>7. ASSUME o = <<Say(n), Cmd(n + 1, "reset")>>
      PROVE  /\ o \in Seq(Outgoing) /\ Len(o) = 2 /\ Single(o) /\ Of(o, Kinds) \subseteq {n, n + 1}
             /\ Of(o, {"say"}) = {n}
  <2>1. o \in Seq(Outgoing) /\ Len(o) = 2 /\ o[1] = Say(n) /\ o[2] = Cmd(n + 1, "reset")
    BY <1>3, <1>7
  <2>2. 1 .. Len(o) = {1, 2}
    BY <2>1
  <2> HIDE DEF o
  <2>3. At(o, Kinds) = {1, 2} /\ At(o, {"say"}) = {1}
    BY <1>4, <2>1, <2>2 DEF At, Kinds, Asking
  <2>4. n # n + 1
    BY <1>1
  <2>5. Single(o)
    BY <1>4, <2>1, <2>3, <2>4 DEF Single
  <2>6. Of(o, Kinds) \subseteq {n, n + 1} /\ Of(o, {"say"}) = {n}
    BY <1>4, <2>1, <2>3 DEF Of
  <2> QED
    BY <2>1, <2>5, <2>6
<1>8. seat.seq + 1 = n /\ (seat.seq + 1 .. seat.seq + 1) = {n} /\ (seat.seq + 1 .. seat.seq + 2) = {n, n + 1}
  BY <1>1 DEF n
<1>9. "say" \in Kinds /\ "cmd" \in Kinds /\ "roster" \in Kinds /\ "cmd" # "say" /\ "roster" # "say"
  BY DEF Kinds, Asking
<1>10. CASE o = <<Say(n), Cmd(n + 1, "reset")>> /\ line.echo = {n}
  BY <1>1, <1>7, <1>8, <1>10
<1>11. CASE o = <<Say(n)>> /\ line.echo = {n}
  BY <1>1, <1>3, <1>4, <1>6, <1>8, <1>9, <1>11
<1>12. CASE o = <<Cmd(n, "goal")>> /\ line.echo = {}
  BY <1>1, <1>3, <1>4, <1>6, <1>8, <1>9, <1>12
<1>13. CASE o = <<r>> /\ line.echo = {}
  BY <1>1, <1>5, <1>6, <1>8, <1>9, <1>13
<1> QED
  BY <1>2, <1>10, <1>11, <1>12, <1>13

\* The seat is over: nothing is under way any more.
LEMMA EndsDoes ==
  ASSUME Typed, Ends, UNCHANGED <<hub, seat, reader, wake, rosters>>
  PROVE  /\ Typed' /\ input'.pc = "over" /\ input'.out = <<>> /\ input'.echo = {}
         /\ toHub' = <<>> /\ toSeat' = <<>>
<1>1. input' = [pc |-> "over", out |-> <<>>, echo |-> {}] /\ toHub' = <<>> /\ toSeat' = <<>>
  BY DEF Ends, Idle
<1>2. input' \in Inputs /\ toHub' \in Seq(Outgoing) /\ toSeat' \in Seq(Incoming)
  BY <1>1 DEF Inputs
<1> QED
  BY <1>1, <1>2 DEF Typed

LEMMA EnterDoes ==
  ASSUME Typed, Enter
  PROVE  /\ input.pc = "idle" /\ UNCHANGED <<hub, reader, wake, rosters>>
         /\ \/ Ends /\ UNCHANGED seat
            \/ /\ Typed' /\ UNCHANGED <<toHub, toSeat>>
               /\ seat'.mode = seat.mode /\ seat'.since = seat.since /\ seat'.ring = seat.ring
               /\ seat'.peers = seat.peers /\ seat'.goal = seat.goal
               /\ seat'.pending = seat.pending /\ seat'.poll = seat.poll
               /\ seat'.closed = seat.closed /\ seat.seq <= seat'.seq
               /\ \/ UNCHANGED input
                  \/ /\ input'.pc = "typed" /\ input'.out \in Seq(Outgoing)
                     /\ Single(input'.out)
                     /\ Of(input'.out, Kinds) \subseteq seat.seq + 1 .. seat'.seq
                     /\ input'.echo = Of(input'.out, {"say"})
<1>1. seat \in Seats /\ seat.seq \in Nat
  BY DEF Typed, Seats
<1>2. PICK line \in Lines :
        \/ /\ seat' = [seat EXCEPT !.seq = @ + Len(line.out)]
           /\ input' = [pc |-> "typed", out |-> line.out, echo |-> line.echo]
           /\ UNCHANGED <<toHub, toSeat>>
        \/ /\ seat' = [seat EXCEPT !.seq = @ + Len(line.out)]
           /\ UNCHANGED <<input, toHub, toSeat>>
        \/ Ends /\ UNCHANGED seat
  BY DEF Enter
<1>3. input.pc = "idle" /\ UNCHANGED <<hub, reader, wake, rosters>>
  BY DEF Enter
<1> DEFINE k == seat.seq + Len(line.out)
<1>4. /\ line.out \in Seq(Outgoing) /\ Single(line.out) /\ Of(line.out, Kinds) \subseteq seat.seq + 1 .. k
      /\ line.echo = Of(line.out, {"say"}) /\ line.echo \subseteq Nat
  BY LineNumbers
<1>5. k \in Nat /\ seat.seq <= k
  BY <1>1, LineNumbers
<1>6. CASE seat' = [seat EXCEPT !.seq = @ + Len(line.out)] /\ UNCHANGED <<toHub, toSeat>>
  <2>1. seat' = [seat EXCEPT !.seq = k]
    BY <1>6
  <2> HIDE DEF k
  <2>2. /\ seat' \in Seats
        /\ seat'.mode = seat.mode /\ seat'.since = seat.since /\ seat'.ring = seat.ring
        /\ seat'.peers = seat.peers /\ seat'.goal = seat.goal
        /\ seat'.pending = seat.pending /\ seat'.poll = seat.poll
        /\ seat'.closed = seat.closed /\ seat'.seq = k
    BY <1>1, <1>5, <2>1 DEF Seats
  <2>3. CASE UNCHANGED input
    BY <1>3, <1>5, <1>6, <2>2, <2>3 DEF Typed
  <2>4. CASE input' = [pc |-> "typed", out |-> line.out, echo |-> line.echo]
    <3>1. input' \in Inputs /\ input'.pc = "typed" /\ input'.out = line.out /\ input'.echo = line.echo
      BY <1>4, <2>4 DEF Inputs
    <3>2. Typed'
      BY <1>3, <1>6, <2>2, <3>1 DEF Typed
    <3> QED
      BY <1>3, <1>4, <1>5, <1>6, <2>2, <3>1, <3>2
  <2>5. UNCHANGED input \/ input' = [pc |-> "typed", out |-> line.out, echo |-> line.echo]
        \/ (Ends /\ UNCHANGED seat)
    BY <1>2
  <2> QED
    BY <1>3, <2>3, <2>4, <2>5
<1> QED
  BY <1>2, <1>3, <1>6

LEMMA RegisterDoes ==
  ASSUME Typed, Register
  PROVE  /\ Typed' /\ input.pc = "typed" /\ input'.pc = "sending"
         /\ input'.out = input.out /\ input'.echo = input.echo
         /\ seat'.pending = seat.pending \cup IF Tui THEN input.echo ELSE {}
         /\ seat'.mode = seat.mode /\ seat'.since = seat.since /\ seat'.ring = seat.ring
         /\ seat'.peers = seat.peers /\ seat'.goal = seat.goal /\ seat'.seq = seat.seq
         /\ seat'.poll = seat.poll /\ seat'.closed = seat.closed
         /\ UNCHANGED <<hub, toHub, toSeat, reader, wake, rosters>>
<1> DEFINE P == seat.pending \cup IF Tui THEN input.echo ELSE {}
<1>1. seat \in Seats /\ input \in Inputs /\ P \subseteq Nat
  BY DEF Typed, Seats, Inputs
<1>2. /\ input.pc = "typed" /\ seat' = [seat EXCEPT !.pending = P]
      /\ input' = [input EXCEPT !.pc = "sending"]
      /\ UNCHANGED <<hub, toHub, toSeat, reader, wake, rosters>>
  BY DEF Register
<1> HIDE DEF P
<1>3. /\ seat' \in Seats /\ seat'.pending = P
      /\ seat'.mode = seat.mode /\ seat'.since = seat.since /\ seat'.ring = seat.ring
      /\ seat'.peers = seat.peers /\ seat'.goal = seat.goal /\ seat'.seq = seat.seq
      /\ seat'.poll = seat.poll /\ seat'.closed = seat.closed
  BY <1>1, <1>2 DEF Seats
<1>4. /\ input' \in Inputs /\ input'.pc = "sending" /\ input'.out = input.out
      /\ input'.echo = input.echo
  BY <1>1, <1>2 DEF Inputs
<1>5. Typed'
  BY <1>2, <1>3, <1>4 DEF Typed
<1> QED
  BY <1>2, <1>3, <1>4, <1>5 DEF P

LEMMA SendDoes ==
  ASSUME Typed, Send
  PROVE  /\ input.pc = "sending" /\ UNCHANGED <<hub, seat, reader, wake, rosters>>
         /\ \/ Ends
            \/ /\ Typed' /\ input.out = <<>> /\ UNCHANGED <<toHub, toSeat>>
               /\ input'.pc = "idle" /\ input'.out = <<>> /\ input'.echo = {}
            \/ /\ Typed' /\ input.out # <<>> /\ UNCHANGED toSeat /\ hub.open
               /\ toHub' = Append(toHub, Head(input.out)) /\ Head(input.out) \in Outgoing
               /\ input'.pc = "sending" /\ input'.out = Tail(input.out) /\ input'.echo = input.echo
<1>1. input \in Inputs /\ input.out \in Seq(Outgoing)
  BY DEF Typed, Inputs
<1>2. input.pc = "sending" /\ UNCHANGED <<hub, seat, reader, wake, rosters>>
  BY DEF Send
<1>3. CASE input.out = <<>>
  <2>1. input' = [pc |-> "idle", out |-> <<>>, echo |-> {}] /\ UNCHANGED <<toHub, toSeat>>
    BY <1>3 DEF Send, Idle
  <2>2. input' \in Inputs
    BY <2>1 DEF Inputs
  <2> QED
    BY <1>2, <1>3, <2>1, <2>2 DEF Typed
<1>4. CASE input.out # <<>>
  <2>1. CASE ~hub.open
    BY <1>2, <1>4, <2>1 DEF Send, SendsNext
  <2>2. CASE hub.open
    <3> DEFINE h == Head(input.out)
               t == Tail(input.out)
    <3>1. h \in Outgoing /\ t \in Seq(Outgoing)
      BY <1>1, <1>4, Took
    <3>2. toHub' = Append(toHub, h) /\ input' = [input EXCEPT !.out = t] /\ UNCHANGED toSeat
      BY <1>4, <2>2 DEF Send, SendsNext
    <3> HIDE DEF h, t
    <3>3. toHub' \in Seq(Outgoing)
      BY <3>1, <3>2 DEF Typed
    <3>4. /\ input' \in Inputs /\ input'.pc = input.pc /\ input'.out = t
          /\ input'.echo = input.echo
      BY <1>1, <3>1, <3>2 DEF Inputs
    <3>5. Typed'
      BY <1>2, <3>2, <3>3, <3>4 DEF Typed
    <3> QED
      BY <1>2, <1>4, <2>2, <3>1, <3>2, <3>4, <3>5 DEF h, t
  <2> QED
    BY <2>1, <2>2
<1> QED
  BY <1>3, <1>4

LEMMA PollDoes ==
  ASSUME Typed, Poll
  PROVE  /\ Typed' /\ Tui /\ input.pc = "idle"
         /\ seat'.poll = seat.poll - 1
         /\ \/ toHub' = toHub
            \/ toHub' = Append(toHub, [t |-> "roster", seq |-> seat.poll - 1])
         /\ seat'.mode = seat.mode /\ seat'.since = seat.since /\ seat'.ring = seat.ring
         /\ seat'.peers = seat.peers /\ seat'.goal = seat.goal /\ seat'.seq = seat.seq
         /\ seat'.pending = seat.pending /\ seat'.closed = seat.closed
         /\ UNCHANGED <<hub, toSeat, input, reader, wake, rosters>>
<1> DEFINE k == seat.poll - 1
           f == [t |-> "roster", seq |-> k]
<1>1. seat \in Seats /\ k \in Int /\ k <= 0
  BY DEF Typed, Seats
<1>2. /\ Tui /\ input.pc = "idle" /\ seat' = [seat EXCEPT !.poll = k]
      /\ (toHub' = toHub \/ toHub' = Append(toHub, f))
      /\ UNCHANGED <<hub, toSeat, input, reader, wake, rosters>>
  BY DEF Poll, PollSeq
<1> HIDE DEF k
<1>3. f \in Outgoing
  BY <1>1 DEF Outgoing
<1> HIDE DEF f
<1>4. toHub' \in Seq(Outgoing)
  BY <1>2, <1>3 DEF Typed
<1>5. /\ seat' \in Seats /\ seat'.poll = k
      /\ seat'.mode = seat.mode /\ seat'.since = seat.since /\ seat'.ring = seat.ring
      /\ seat'.peers = seat.peers /\ seat'.goal = seat.goal /\ seat'.seq = seat.seq
      /\ seat'.pending = seat.pending /\ seat'.closed = seat.closed
  BY <1>1, <1>2 DEF Seats
<1>6. Typed'
  BY <1>1, <1>2, <1>4, <1>5 DEF Typed
<1> QED
  BY <1>2, <1>5, <1>6 DEF f, k

-----------------------------------------------------------------------------
(* A number stays in one place.                                            *)

\* Nothing numbered moves; numbers may have been taken.
LEMMA NumberedKept ==
  ASSUME Typed, Numbered, Typed',
         Single(toSeat'), Of(toSeat', Kinds) \subseteq Of(toSeat, Kinds),
         Single(toHub'), Of(toHub', Kinds) \subseteq Of(toHub, Kinds),
         input'.out = input.out \/ input'.out = <<>>,
         seat'.mode = seat.mode, seat.seq <= seat'.seq, seat'.poll <= seat.poll, rosters' = rosters
  PROVE  Numbered'
<1>1. /\ seat.seq \in Nat /\ seat'.seq \in Nat /\ seat.poll \in Int /\ seat'.poll \in Int
  BY DEF Typed, Seats
<1>2. Single(input'.out) /\ Of(input'.out, Kinds) \subseteq Of(input.out, Kinds)
  <2>1. Single(<<>>)
    BY OfNone DEF Single
  <2> QED
    BY <2>1, OfNone DEF Numbered
<1>3. 1 .. seat.seq \subseteq 1 .. seat'.seq /\ seat.poll .. -1 \subseteq seat'.poll .. -1
  BY <1>1
<1>4. Numbers' \subseteq Numbers
  BY DEF Numbers
<1>5. \A s \in Numbers' : s \in 1 .. seat'.seq \/ (Tui' /\ s \in seat'.poll .. -1)
  BY <1>3, <1>4 DEF Numbered, Tui
<1> QED
  BY <1>2, <1>3, <1>4, <1>5 DEF Numbered

\* A frame that has no number.
LEMMA NumberedPut ==
  ASSUME Typed, Numbered, NEW f, toSeat' = Append(toSeat, f), Kind(f) \notin Kinds
  PROVE  Single(toSeat') /\ Of(toSeat', Kinds) = Of(toSeat, Kinds)
<1>1. toSeat \in Seq(Incoming) /\ Single(toSeat)
  BY DEF Typed, Numbered
<1>2. Single(Append(toSeat, f))
  BY <1>1, SinglePut
<1>3. Of(Append(toSeat, f), Kinds) = Of(toSeat, Kinds) \cup {}
  BY <1>1, OfPut
<1> QED
  BY <1>2, <1>3

LEMMA NumberedNone ==
  Single(<<>>)
BY OfNone DEF Single

\* The hub answers a frame by one with its number.
LEMMA NumberedAnswer ==
  ASSUME Typed, Numbered, Typed', toHub # <<>>, toHub' = Tail(toHub),
         NEW fs \in Seq(Incoming), Single(fs), Of(fs, Kinds) = Of(toSeat, Kinds),
         NEW g, toSeat' = Append(fs, g), Kind(g) \in Kinds, g.seq = Head(toHub).seq,
         Kind(Head(toHub)) \in Kinds, UNCHANGED <<seat, input, rosters>>
  PROVE  Numbered'
<1> DEFINE f == Head(toHub)
<1>1. toHub \in Seq(Outgoing) /\ Single(toHub)
  BY DEF Typed, Numbered
<1>2. Of(toHub, Kinds) = Of(toHub', Kinds) \cup {f.seq}
  BY <1>1, OfTook
<1>3. Single(toHub') /\ f.seq \notin Of(toHub', Kinds)
  BY <1>1, SingleTook
<1>4. f.seq \notin Of(fs, Kinds)
  BY <1>2 DEF Numbered
<1>5. Single(toSeat') /\ Of(toSeat', Kinds) = Of(toSeat, Kinds) \cup {f.seq}
  BY <1>4, SinglePut, OfPut
<1> HIDE DEF f
<1>6. Numbers' = Numbers
  BY <1>2, <1>5 DEF Numbers
<1>7. Of(toSeat', Kinds) \cap Of(toHub', Kinds) = {}
  BY <1>2, <1>3, <1>5 DEF Numbered
<1> QED
  BY <1>3, <1>5, <1>6, <1>7 DEF Numbered, Tui

\* The kind of a frame on its way to the hub is its type, and it has a number.
LEMMA AskingKind ==
  ASSUME NEW f \in Outgoing
  PROVE  Kind(f) = f.t /\ Kind(f) \in Kinds /\ f.seq \in Int
BY DEF Outgoing, Kind, Kinds, Asking

LEMMA NumberedTakes ==
  ASSUME Typed, Numbered, HubTakes
  PROVE  Numbered'
<1> DEFINE f == Head(toHub)
<1>1. /\ Typed' /\ toHub # <<>> /\ f \in Outgoing /\ toHub' = Tail(toHub)
      /\ Routed(f) \/ Refused(f) \/ Announced(f) \/ Obeyed(f) \/ Listed(f)
      /\ UNCHANGED <<seat, input, rosters>>
  BY HubTakesDoes
<1>2. Kind(f) \in Kinds
  BY <1>1, AskingKind
<1>3. toSeat \in Seq(Incoming) /\ Single(toSeat)
  BY DEF Typed, Numbered
<1>4. ASSUME NEW g, toSeat' = Append(toSeat, g), Kind(g) \in Kinds, g.seq = f.seq PROVE Numbered'
  BY <1>1, <1>2, <1>3, <1>4, NumberedAnswer
<1>5. CASE Announced(f)
  <2> DEFINE e == [t |-> "event", event |-> "goal", goal |-> hub.goal + 1]
             g == [t |-> "ok", seq |-> f.seq, id |-> 0]
             fs == Append(toSeat, e)
  <2>1. toSeat' = Append(fs, g) /\ e \in Incoming
    BY <1>5 DEF Announced
  <2>2. Kind(e) \notin Kinds /\ Kind(g) \in Kinds /\ g.seq = f.seq
    BY DEF Kind, Kinds, Asking, Answers
  <2> HIDE DEF e, g
  <2>3. fs \in Seq(Incoming) /\ Single(fs) /\ Of(fs, Kinds) = Of(toSeat, Kinds)
    <3>1. fs \in Seq(Incoming)
      BY <1>3, <2>1
    <3>2. Single(fs)
      BY <1>3, <2>2, SinglePut
    <3>3. Of(fs, Kinds) = Of(toSeat, Kinds) \cup {}
      BY <1>3, <2>2, OfPut
    <3> QED
      BY <3>1, <3>2, <3>3
  <2> HIDE DEF fs, f
  <2> QED
    BY <1>1, <1>2, <2>1, <2>2, <2>3, NumberedAnswer DEF f
<1>6. CASE Routed(f)
  <2> DEFINE g == [t |-> "ok", seq |-> f.seq, id |-> Len(hub.day) + 1]
  <2>1. toSeat' = Append(toSeat, g) /\ Kind(g) \in Kinds /\ g.seq = f.seq
    BY <1>6 DEF Routed, Arrives, Kind, Kinds, Answers
  <2> QED
    BY <1>4, <2>1
<1>7. CASE Refused(f)
  <2> DEFINE g == [t |-> "err", seq |-> f.seq]
  <2>1. toSeat' = Append(toSeat, g) /\ Kind(g) \in Kinds /\ g.seq = f.seq
    BY <1>7 DEF Refused, Arrives, Kind, Kinds, Answers
  <2> QED
    BY <1>4, <2>1
<1>8. CASE Obeyed(f)
  <2> DEFINE g == [t |-> "ok", seq |-> f.seq, id |-> 0]
  <2>1. toSeat' = Append(toSeat, g) /\ Kind(g) \in Kinds /\ g.seq = f.seq
    BY <1>8 DEF Obeyed, Arrives, Kind, Kinds, Answers
  <2> QED
    BY <1>4, <2>1
<1>9. CASE Listed(f)
  <2> DEFINE g == [t |-> "roster", seq |-> f.seq, goal |-> hub.goal, names |-> hub.peers \cup {"me"}]
  <2>1. toSeat' = Append(toSeat, g) /\ Kind(g) \in Kinds /\ g.seq = f.seq
    BY <1>9 DEF Listed, Arrives, Kind, Kinds, Answers
  <2> QED
    BY <1>4, <2>1
<1> QED
  BY <1>1, <1>5, <1>6, <1>7, <1>8, <1>9

\* A number that was read is nowhere else, and a roster line shown has one.
LEMMA NumberedRead ==
  ASSUME Typed, Numbered, Read
  PROVE  Numbered'
<1> DEFINE f == Head(toSeat)
<1>1. /\ Typed' /\ toSeat # <<>> /\ f \in Incoming /\ toSeat' = Tail(toSeat)
      /\ UNCHANGED <<toHub, input>> /\ seat'.mode = seat.mode /\ seat'.seq = seat.seq
      /\ seat'.poll = seat.poll /\ rosters' = RostersAfter(f)
  BY ReadDoes
<1>2. toSeat \in Seq(Incoming) /\ Single(toSeat) /\ seat.seq \in Nat /\ seat.poll \in Int
      /\ seat.poll <= 0
  BY DEF Typed, Numbered, Seats
<1>3. Single(toSeat') /\ (Kind(f) \in Kinds => f.seq \notin Of(toSeat', Kinds))
  BY <1>1, <1>2, SingleTook
<1>4. Of(toSeat, Kinds) = Of(toSeat', Kinds) \cup IF Kind(f) \in Kinds THEN {f.seq} ELSE {}
  BY <1>1, <1>2, OfTook
<1>5. Numbers' \subseteq Numbers
  BY <1>1, <1>4 DEF Numbers
<1> HIDE DEF f
<1>6. CASE rosters' = rosters
  BY <1>1, <1>3, <1>4, <1>5, <1>6 DEF Numbered, Tui
<1>7. CASE f.t = "roster" /\ ~(Tui /\ f.seq < 0) /\ rosters' = rosters \cup {f.seq}
  <2>1. Kind(f) \in Kinds
    BY <1>7 DEF Kind, Kinds, Asking
  <2>2. f.seq \in Numbers
    BY <1>4, <2>1 DEF Numbers
  <2>3. f.seq \in 1 .. seat.seq
    BY <1>2, <1>7, <2>2 DEF Numbered
  <2>4. f.seq \notin Numbers' /\ f.seq \notin Of(input.out, Kinds)
    BY <1>1, <1>3, <1>4, <2>1, <2>2 DEF Numbered, Numbers
  <2>5. Of(toSeat', Kinds) \subseteq Of(toSeat, Kinds) /\ Single(toHub') /\ Single(input'.out)
    BY <1>1, <1>4 DEF Numbered
  <2>6. rosters' \subseteq 1 .. seat.seq
    BY <1>7, <2>3 DEF Numbered
  <2>7. rosters' \cap (Numbers' \cup Of(input.out, Kinds)) = {}
    BY <1>5, <1>7, <2>4 DEF Numbered
  <2>8. \A x \in Numbers' : x \in 1 .. seat'.seq \/ (Tui' /\ x \in seat'.poll .. -1)
    BY <1>1, <1>5 DEF Numbered, Tui
  <2>9. Numbers' \cap Of(input'.out, Kinds) = {} /\ Of(toSeat', Kinds) \cap Of(toHub', Kinds) = {}
    BY <1>1, <1>5, <2>5 DEF Numbered
  <2>10. Of(input'.out, Kinds) \subseteq 1 .. seat'.seq
    BY <1>1 DEF Numbered
  <2> QED
    BY <1>1, <1>3, <2>5, <2>6, <2>7, <2>8, <2>9, <2>10 DEF Numbered
<1> QED
  BY <1>1, <1>6, <1>7 DEF RostersAfter

LEMMA NumberedEnter ==
  ASSUME Typed, Numbered, Enter
  PROVE  Numbered'
<1>1. CASE Ends /\ UNCHANGED seat
  <2>1. Typed' /\ input'.out = <<>> /\ toHub' = <<>> /\ toSeat' = <<>> /\ rosters' = rosters
    BY <1>1, EnterDoes, EndsDoes
  <2>2. seat.seq \in Nat /\ seat.poll \in Int
    BY DEF Typed, Seats
  <2> QED
    BY <1>1, <2>1, <2>2, OfNone, NumberedNone, NumberedKept
<1>2. CASE UNCHANGED input /\ ~(Ends /\ UNCHANGED seat)
  <2>1. /\ Typed' /\ UNCHANGED <<toHub, toSeat, rosters>> /\ seat'.mode = seat.mode
        /\ seat'.poll = seat.poll /\ seat.seq <= seat'.seq
    BY <1>2, EnterDoes
  <2>2. Single(toSeat') /\ Single(toHub') /\ seat.poll \in Int
    BY <2>1 DEF Numbered, Typed, Seats
  <2> QED
    BY <1>2, <2>1, <2>2, NumberedKept
<1>3. CASE ~UNCHANGED input /\ ~(Ends /\ UNCHANGED seat)
  <2>1. /\ UNCHANGED <<toHub, toSeat, rosters>> /\ seat'.mode = seat.mode
        /\ seat'.poll = seat.poll /\ seat.seq <= seat'.seq
        /\ Single(input'.out) /\ Of(input'.out, Kinds) \subseteq seat.seq + 1 .. seat'.seq
        /\ Typed'
    BY <1>3, EnterDoes
  <2>2. seat.seq \in Nat /\ seat'.seq \in Nat /\ seat.poll \in Int
    BY <2>1 DEF Typed, Seats
  <2>3. \A s \in Of(input'.out, Kinds) : s \in 1 .. seat'.seq /\ s \notin 1 .. seat.seq
                                         /\ s \notin seat.poll .. -1
    BY <2>1, <2>2
  <2>4. 1 .. seat.seq \subseteq 1 .. seat'.seq
    BY <2>1, <2>2
  <2>5. Numbers' = Numbers
    BY <2>1 DEF Numbers
  <2> QED
    BY <2>1, <2>3, <2>4, <2>5 DEF Numbered, Tui
<1> QED
  BY <1>1, <1>2, <1>3

LEMMA NumberedSend ==
  ASSUME Typed, Numbered, Send
  PROVE  Numbered'
<1>1. UNCHANGED <<hub, seat, rosters>> /\ seat.seq \in Nat /\ seat.poll \in Int
  BY SendDoes DEF Typed, Seats
<1>2. CASE Ends
  <2>1. Typed' /\ input'.out = <<>> /\ toHub' = <<>> /\ toSeat' = <<>>
    BY <1>2, SendDoes, EndsDoes
  <2> QED
    BY <1>1, <2>1, OfNone, NumberedNone, NumberedKept
<1>3. CASE Typed' /\ UNCHANGED <<toHub, toSeat>> /\ input'.out = <<>>
  <2>1. Single(toSeat') /\ Single(toHub')
    BY <1>3 DEF Numbered
  <2> QED
    BY <1>1, <1>3, <2>1, NumberedKept
<1>4. CASE /\ input.out # <<>> /\ UNCHANGED toSeat
           /\ toHub' = Append(toHub, Head(input.out)) /\ Head(input.out) \in Outgoing
           /\ input'.out = Tail(input.out)
  <2> DEFINE f == Head(input.out)
  <2>1. input.out \in Seq(Outgoing) /\ toHub \in Seq(Outgoing) /\ Single(input.out) /\ Single(toHub)
    BY DEF Typed, Numbered, Inputs
  <2>2. Kind(f) \in Kinds
    BY <1>4, AskingKind
  <2>3. Of(input.out, Kinds) = Of(input'.out, Kinds) \cup {f.seq}
    BY <1>4, <2>1, <2>2, OfTook
  <2>4. Single(input'.out) /\ f.seq \notin Of(input'.out, Kinds)
    BY <1>4, <2>1, <2>2, SingleTook
  <2>5. f.seq \notin Numbers /\ f.seq \notin rosters /\ f.seq \in 1 .. seat.seq
    BY <2>3 DEF Numbered
  <2>6. Single(toHub') /\ Of(toHub', Kinds) = Of(toHub, Kinds) \cup {f.seq}
    BY <1>4, <2>1, <2>2, <2>5, SinglePut, OfPut DEF Numbers
  <2> HIDE DEF f
  <2>7. Numbers' = Numbers \cup {f.seq}
    BY <1>4, <2>6 DEF Numbers
  <2>8. Of(toSeat', Kinds) \cap Of(toHub', Kinds) = {}
    BY <1>4, <2>5, <2>6 DEF Numbered, Numbers
  <2> QED
    BY <1>1, <1>4, <2>3, <2>4, <2>5, <2>6, <2>7, <2>8 DEF Numbered, Tui
<1> QED
  BY <1>2, <1>3, <1>4, SendDoes

LEMMA NumberedPoll ==
  ASSUME Typed, Numbered, Poll
  PROVE  Numbered'
<1> DEFINE k == seat.poll - 1
           f == [t |-> "roster", seq |-> k]
<1>1. /\ Typed' /\ Tui /\ seat'.poll = k /\ (toHub' = toHub \/ toHub' = Append(toHub, f))
      /\ seat'.mode = seat.mode /\ seat'.seq = seat.seq /\ UNCHANGED <<toSeat, input, rosters>>
  BY PollDoes
<1>2. seat.seq \in Nat /\ seat.poll \in Int /\ k \in Int /\ k <= seat.poll /\ seat.poll <= 0
  BY DEF Typed, Seats
<1>3. CASE toHub' = toHub
  <2>1. Single(toSeat') /\ Single(toHub') /\ seat.seq <= seat'.seq
    BY <1>1, <1>2, <1>3 DEF Numbered
  <2> QED
    BY <1>1, <1>2, <1>3, <2>1, NumberedKept
<1>4. CASE toHub' = Append(toHub, f)
  <2>1. Kind(f) \in Kinds /\ f.seq = k
    BY DEF Kind, Kinds, Asking
  <2>2. k \notin 1 .. seat.seq /\ k \notin seat.poll .. -1 /\ k \in k .. -1
        /\ seat.poll .. -1 \subseteq k .. -1
    BY <1>2
  <2>3. k \notin Numbers /\ k \notin rosters /\ k \notin Of(input.out, Kinds)
    BY <2>2 DEF Numbered
  <2> HIDE DEF k, f
  <2>4. toHub \in Seq(Outgoing) /\ Single(toHub)
    BY DEF Typed, Numbered
  <2>5. Single(toHub') /\ Of(toHub', Kinds) = Of(toHub, Kinds) \cup {k}
    BY <1>4, <2>1, <2>3, <2>4, SinglePut, OfPut DEF Numbers
  <2>6. Numbers' = Numbers \cup {k}
    BY <1>1, <2>5 DEF Numbers
  <2>7. Of(toSeat', Kinds) \cap Of(toHub', Kinds) = {}
    BY <1>1, <2>3, <2>5 DEF Numbered, Numbers
  <2> QED
    BY <1>1, <2>2, <2>3, <2>5, <2>6, <2>7 DEF Numbered, Tui
<1> QED
  BY <1>1, <1>3, <1>4

LEMMA NumberedNext ==
  ASSUME Typed, Numbered, [Next]_vars
  PROVE  Typed' /\ Numbered'
<1>1. seat.seq \in Nat /\ seat.poll \in Int /\ Single(toSeat) /\ Single(toHub)
  BY DEF Typed, Seats, Numbered
<1>2. ASSUME NEW f, Arrives(f), Kind(f) \notin Kinds, Typed', UNCHANGED <<toHub, seat, input, rosters>>
      PROVE  Numbered'
  <2>1. Single(toSeat') /\ Of(toSeat', Kinds) = Of(toSeat, Kinds)
    BY <1>2, NumberedPut DEF Arrives
  <2> QED
    BY <1>1, <1>2, <2>1, NumberedKept
<1>3. CASE PeerSays
  <2> DEFINE f == [t |-> "deliver", ids |-> <<Len(hub.day) + 1>>]
  <2>1. Kind(f) \notin Kinds
    BY DEF Kind, Kinds, Asking, Answers
  <2> QED
    BY <1>2, <1>3, <2>1, PeerSaysDoes
<1>4. ASSUME NEW p \in Peer, PeerMoves(p) PROVE Typed' /\ Numbered'
  <2> DEFINE f == [t |-> "event", event |-> IF p \notin hub.peers THEN "joined" ELSE "left", name |-> p]
  <2>1. Kind(f) \notin Kinds
    BY DEF Kind, Kinds, Asking, Answers
  <2>2. Typed' /\ Arrives(f) /\ UNCHANGED <<toHub, seat, input, rosters>>
    BY <1>4, PeerMovesDoes
  <2> QED
    BY <1>2, <2>1, <2>2
<1>5. CASE Pings
  <2> DEFINE f == [t |-> "ping"]
  <2>1. Kind(f) \notin Kinds
    BY DEF Kind, Kinds, Asking, Answers
  <2> QED
    BY <1>2, <1>5, <2>1, PingsDoes
<1>6. CASE HubTakes
  BY <1>6, NumberedTakes, HubTakesDoes
<1>7. CASE Hangup
  <2>1. Typed' /\ toHub' = <<>> /\ UNCHANGED <<toSeat, seat, input, rosters>>
    BY <1>7, HangupDoes
  <2> QED
    BY <1>1, <2>1, OfNone, NumberedNone, NumberedKept
<1>8. CASE Read
  BY <1>8, NumberedRead, ReadDoes
<1>9. CASE ReadFails \/ ReadEnd
  <2>1. Typed' /\ UNCHANGED <<toHub, toSeat, input, rosters>> /\ seat'.mode = seat.mode
        /\ seat'.seq = seat.seq /\ seat'.poll = seat.poll
    BY <1>9, ReaderEndsDoes
  <2> QED
    BY <1>1, <2>1, NumberedKept
<1>10. CASE Wake
  <2>1. Typed' /\ UNCHANGED <<toHub, toSeat, input, rosters, seat>>
    BY <1>10, WakeDoes
  <2> QED
    BY <1>1, <2>1, NumberedKept
<1>11. CASE Enter
  BY <1>11, NumberedEnter, EnterDoes, EndsDoes
<1>12. CASE Register
  <2>1. Typed' /\ UNCHANGED <<toHub, toSeat, rosters>> /\ input'.out = input.out
        /\ seat'.mode = seat.mode /\ seat'.seq = seat.seq /\ seat'.poll = seat.poll
    BY <1>12, RegisterDoes
  <2> QED
    BY <1>1, <2>1, NumberedKept
<1>13. CASE Send
  BY <1>13, NumberedSend, SendDoes, EndsDoes
<1>14. CASE Poll
  BY <1>14, NumberedPoll, PollDoes
<1>15. CASE SeesHangup \/ Quit
  <2>1. Ends /\ UNCHANGED <<hub, seat, reader, wake, rosters>>
    BY <1>15 DEF SeesHangup, Quit
  <2>2. Typed' /\ input'.out = <<>> /\ toHub' = <<>> /\ toSeat' = <<>>
    BY <2>1, EndsDoes
  <2> QED
    BY <1>1, <2>1, <2>2, OfNone, NumberedNone, NumberedKept
<1>16. CASE UNCHANGED vars
  <2>1. UNCHANGED <<hub, toHub, toSeat, seat, input, reader, wake, rosters>>
    BY <1>16 DEF vars
  <2>2. Typed'
    BY <2>1 DEF Typed
  <2> QED
    BY <1>1, <2>1, <2>2, NumberedKept
<1> QED
  BY <1>3, <1>4, <1>5, <1>6, <1>7, <1>8, <1>9, <1>10, <1>11, <1>12, <1>13, <1>14, <1>15, <1>16
  DEF Next, ReaderStep

-----------------------------------------------------------------------------
(* The echo that is owed.                                                  *)

Asked  == Of(toHub, {"say"})
Coming == Of(toSeat, {"err", "echo"})
Leaving == IF input.pc = "sending" THEN Of(input.out, {"say"}) ELSE {}

LEMMA EchoKinds == {"say"} \subseteq Kinds /\ {"err", "echo"} \subseteq Kinds
BY DEF Kinds, Asking, Answers

\* Nothing that is owed moves.
LEMMA OwedKept ==
  ASSUME Typed, Owed, Typed', UNCHANGED input, seat'.mode = seat.mode,
         seat'.pending = seat.pending, seat.seq <= seat'.seq,
         InTouch' => InTouch /\ Asked' \cup Coming' = Asked \cup Coming
  PROVE  Owed'
<1>1. seat.seq \in Nat /\ seat'.seq \in Nat
  BY DEF Typed, Seats
<1>2. 1 .. seat.seq \subseteq 1 .. seat'.seq
  BY <1>1
<1> QED
  BY <1>2 DEF Owed, Tui, Asked, Coming, Leaving

\* The seat is over or its hub gone.
LEMMA OwedOver ==
  ASSUME Owed, ~InTouch', seat'.pending = seat.pending, seat'.seq = seat.seq,
         UNCHANGED input \/ (input'.pc = "over" /\ input'.out = <<>> /\ input'.echo = {})
  PROVE  Owed'
BY DEF Owed

\* A frame that answers no say.
LEMMA OwedPut ==
  ASSUME Typed, NEW f, toSeat' = Append(toSeat, f), Kind(f) \notin {"err", "echo"}
  PROVE  Coming' = Coming
<1>1. toSeat \in Seq(Incoming)
  BY DEF Typed
<1>2. Of(Append(toSeat, f), {"err", "echo"}) = Of(toSeat, {"err", "echo"}) \cup {}
  BY <1>1, OfPut
<1> QED
  BY <1>2 DEF Coming

\* A say the hub has taken is owed by its answer.
LEMMA OwedTakes ==
  ASSUME Typed, Owed, HubTakes
  PROVE  Owed'
<1> DEFINE f == Head(toHub)
<1>1. /\ Typed' /\ toHub # <<>> /\ f \in Outgoing /\ toHub' = Tail(toHub) /\ hub'.open = hub.open
      /\ Routed(f) \/ Refused(f) \/ Announced(f) \/ Obeyed(f) \/ Listed(f)
      /\ UNCHANGED <<seat, input, reader, wake, rosters>>
  BY HubTakesDoes
<1>2. toHub \in Seq(Outgoing) /\ toSeat \in Seq(Incoming) /\ Len(hub.day) \in Nat /\ seat.seq \in Nat
  BY DEF Typed, Hubs, Seats
<1>3. Kind(f) = f.t
  BY <1>1, AskingKind
<1>4. Asked = Asked' \cup IF f.t = "say" THEN {f.seq} ELSE {}
  BY <1>1, <1>2, <1>3, OfTook DEF Asked
<1> HIDE DEF f
<1>5. ASSUME NEW g, toSeat' = Append(toSeat, g), Kind(g) \in {"err", "echo"}, g.seq = f.seq, f.t = "say"
      PROVE  Asked' \cup Coming' = Asked \cup Coming
  <2>1. Coming' = Coming \cup {f.seq}
    BY <1>2, <1>5, OfPut DEF Coming
  <2> QED
    BY <1>4, <1>5, <2>1
<1>6. CASE Routed(f)
  <2> DEFINE n == Len(hub.day) + 1
             g == [t |-> "ok", seq |-> f.seq, id |-> n]
  <2>1. n # 0
    BY <1>2
  <2>2. toSeat' = Append(toSeat, g) /\ f.t = "say"
    BY <1>6 DEF Routed, Arrives
  <2> HIDE DEF n
  <2>3. Kind(g) = "echo" /\ g.seq = f.seq
    BY <2>1 DEF Kind
  <2> HIDE DEF g
  <2>4. Asked' \cup Coming' = Asked \cup Coming
    BY <1>5, <2>2, <2>3
  <2> QED
    BY <1>1, <1>2, <2>4, OwedKept DEF InTouch
<1>7. CASE Refused(f)
  <2> DEFINE g == [t |-> "err", seq |-> f.seq]
  <2>1. toSeat' = Append(toSeat, g) /\ f.t = "say" /\ Kind(g) = "err" /\ g.seq = f.seq
    BY <1>7 DEF Refused, Arrives, Kind
  <2> HIDE DEF g
  <2>2. Asked' \cup Coming' = Asked \cup Coming
    BY <1>5, <2>1
  <2> QED
    BY <1>1, <1>2, <2>2, OwedKept DEF InTouch
<1>8. CASE Announced(f)
  <2> DEFINE e == [t |-> "event", event |-> "goal", goal |-> hub.goal + 1]
             g == [t |-> "ok", seq |-> f.seq, id |-> 0]
             fs == Append(toSeat, e)
  <2>1. toSeat' = Append(fs, g) /\ e \in Incoming /\ f.t = "cmd"
    BY <1>8 DEF Announced
  <2>2. Kind(e) \notin {"err", "echo"} /\ Kind(g) \notin {"err", "echo"}
    BY DEF Kind
  <2> HIDE DEF e, g
  <2>3. fs \in Seq(Incoming)
    BY <1>2, <2>1
  <2>4. Of(fs, {"err", "echo"}) = Coming \cup {}
    BY <1>2, <2>2, OfPut DEF Coming
  <2> HIDE DEF fs
  <2>5. Of(toSeat', {"err", "echo"}) = Of(fs, {"err", "echo"}) \cup {}
    BY <2>1, <2>2, <2>3, OfPut
  <2>6. Asked' = Asked /\ Coming' = Coming
    BY <1>4, <2>1, <2>4, <2>5 DEF Coming
  <2> QED
    BY <1>1, <1>2, <2>6, OwedKept DEF InTouch
<1>9. CASE Obeyed(f)
  <2> DEFINE g == [t |-> "ok", seq |-> f.seq, id |-> 0]
  <2>1. toSeat' = Append(toSeat, g) /\ f.t = "cmd" /\ Kind(g) = "ok"
    BY <1>9 DEF Obeyed, Arrives, Kind
  <2> HIDE DEF g
  <2>2. Asked' = Asked /\ Coming' = Coming
    BY <1>4, <2>1, OwedPut
  <2> QED
    BY <1>1, <1>2, <2>2, OwedKept DEF InTouch
<1>10. CASE Listed(f)
  <2> DEFINE g == [t |-> "roster", seq |-> f.seq, goal |-> hub.goal, names |-> hub.peers \cup {"me"}]
  <2>1. toSeat' = Append(toSeat, g) /\ f.t = "roster" /\ Kind(g) = "roster"
    BY <1>10 DEF Listed, Arrives, Kind
  <2> HIDE DEF g
  <2>2. Asked' = Asked /\ Coming' = Coming
    BY <1>4, <2>1, OwedPut
  <2> QED
    BY <1>1, <1>2, <2>2, OwedKept DEF InTouch
<1> QED
  BY <1>1, <1>6, <1>7, <1>8, <1>9, <1>10

\* An answer that was read is owed no more, and was owed to nobody else.
LEMMA OwedRead ==
  ASSUME Typed, Numbered, Owed, Read
  PROVE  Owed'
<1> DEFINE f == Head(toSeat)
<1>1. /\ Typed' /\ toSeat # <<>> /\ f \in Incoming /\ toSeat' = Tail(toSeat)
      /\ UNCHANGED <<hub, toHub, input, reader>> /\ seat'.mode = seat.mode /\ seat'.seq = seat.seq
      /\ seat'.pending = PendingAfter(f)
  BY ReadDoes
<1>2. toSeat \in Seq(Incoming) /\ Single(toSeat)
  BY DEF Typed, Numbered
<1>3. Kind(f) \in Kinds => f.seq \notin Of(toSeat', Kinds) /\ f.seq \in Of(toSeat, Kinds)
  BY <1>1, <1>2, SingleTook, OfTook
<1>4. Coming = Coming' \cup IF Kind(f) \in {"err", "echo"} THEN {f.seq} ELSE {}
  BY <1>1, <1>2, OfTook DEF Coming
<1> HIDE DEF f
<1>5. Kind(f) \in Kinds => f.seq \notin Asked \cup Coming' \cup Leaving
  <2>1. /\ Asked \subseteq Of(toHub, Kinds) /\ Coming' \subseteq Of(toSeat', Kinds)
        /\ Of(input.out, {"say"}) \subseteq Of(input.out, Kinds)
    BY EchoKinds, OfMore DEF Asked, Coming
  <2>2. ASSUME Kind(f) \in Kinds
        PROVE  f.seq \notin Of(toHub, Kinds) /\ f.seq \notin Of(input.out, Kinds)
    BY <1>3, <2>2 DEF Numbered, Numbers
  <2> QED
    BY <1>3, <2>1, <2>2 DEF Leaving
<1>6. Asked' = Asked /\ Leaving' = Leaving /\ InTouch' = InTouch /\ Tui' = Tui
  BY <1>1 DEF Asked, Leaving, InTouch, Tui
<1>7. Tui /\ InTouch => seat.pending = Asked \cup Coming \cup Leaving
  BY DEF Owed, Asked, Coming, Leaving
<1>8. Tui' /\ InTouch' => seat'.pending = Asked' \cup Coming' \cup Leaving'
  <2> SUFFICES ASSUME Tui, InTouch PROVE seat'.pending = Asked \cup Coming' \cup Leaving
    BY <1>6
  <2>1. CASE f.t = "err" \/ f.t = "ok"
    <3>1. Kind(f) \in Kinds
      BY <2>1 DEF Kind, Kinds, Answers
    <3>2. seat'.pending = (Asked \cup Coming \cup Leaving) \ {f.seq}
      BY <1>1, <1>7, <2>1 DEF PendingAfter
    <3> QED
      BY <1>4, <1>5, <3>1, <3>2
  <2>2. CASE ~(f.t = "err" \/ f.t = "ok")
    <3>1. Kind(f) \notin {"err", "echo"}
      BY <1>1, <2>2 DEF Kind, Incoming
    <3>2. seat'.pending = Asked \cup Coming \cup Leaving
      BY <1>1, <1>7, <2>2 DEF PendingAfter
    <3> QED
      BY <1>4, <3>1, <3>2
  <2> QED
    BY <2>1, <2>2
<1>9. seat'.pending \subseteq seat.pending
  BY <1>1 DEF PendingAfter
<1>10. Tui' /\ InTouch' =>
         seat'.pending = Of(toHub', {"say"}) \cup Of(toSeat', {"err", "echo"})
                           \cup IF input'.pc = "sending" THEN Of(input'.out, {"say"}) ELSE {}
  BY <1>8 DEF Asked, Coming, Leaving
<1> QED
  BY <1>1, <1>9, <1>10 DEF Owed

LEMMA OwedEnter ==
  ASSUME Typed, Owed, Enter
  PROVE  Owed'
<1>1. input.pc = "idle" /\ UNCHANGED <<hub, reader, wake, rosters>>
  BY EnterDoes
<1>2. CASE Ends /\ UNCHANGED seat
  <2>1. input'.pc = "over" /\ input'.out = <<>> /\ input'.echo = {}
    BY <1>1, <1>2, EndsDoes
  <2> QED
    BY <1>2, <2>1, OwedOver DEF InTouch
<1>3. CASE UNCHANGED input /\ ~(Ends /\ UNCHANGED seat)
  <2>1. /\ Typed' /\ UNCHANGED <<toHub, toSeat>> /\ seat'.mode = seat.mode
        /\ seat'.pending = seat.pending /\ seat.seq <= seat'.seq
    BY <1>3, EnterDoes
  <2> QED
    BY <1>1, <1>3, <2>1, OwedKept DEF InTouch, Asked, Coming
<1>4. CASE ~UNCHANGED input /\ ~(Ends /\ UNCHANGED seat)
  <2>1. /\ Typed' /\ UNCHANGED <<toHub, toSeat>> /\ seat'.mode = seat.mode
        /\ seat'.pending = seat.pending /\ seat.seq <= seat'.seq /\ input'.pc = "typed"
        /\ Of(input'.out, Kinds) \subseteq seat.seq + 1 .. seat'.seq
        /\ input'.echo = Of(input'.out, {"say"})
    BY <1>4, EnterDoes
  <2>2. Of(input'.out, {"say"}) \subseteq Of(input'.out, Kinds)
    BY EchoKinds, OfMore
  <2>3. seat.seq \in Nat /\ seat'.seq \in Nat
    BY <2>1 DEF Typed, Seats
  <2>4. 1 .. seat.seq \subseteq 1 .. seat'.seq /\ seat.seq + 1 .. seat'.seq \subseteq 1 .. seat'.seq
    BY <2>1, <2>3
  <2>5. Tui' = Tui /\ (InTouch' => InTouch)
    BY <1>1, <2>1 DEF Tui, InTouch
  <2> QED
    BY <1>1, <2>1, <2>2, <2>4, <2>5 DEF Owed
<1> QED
  BY <1>2, <1>3, <1>4

LEMMA OwedRegister ==
  ASSUME Typed, Owed, Register
  PROVE  Owed'
<1>1. /\ Typed' /\ input.pc = "typed" /\ input'.pc = "sending"
      /\ input'.out = input.out /\ input'.echo = input.echo
      /\ seat'.pending = seat.pending \cup IF Tui THEN input.echo ELSE {}
      /\ seat'.mode = seat.mode /\ seat'.seq = seat.seq
      /\ UNCHANGED <<hub, toHub, toSeat, reader, wake, rosters>>
  BY RegisterDoes
<1>2. Tui' = Tui /\ (InTouch' => InTouch)
  BY <1>1 DEF Tui, InTouch
<1> QED
  BY <1>1, <1>2 DEF Owed

LEMMA OwedSend ==
  ASSUME Typed, Owed, Send
  PROVE  Owed'
<1>1. input.pc = "sending" /\ UNCHANGED <<hub, seat, reader, wake, rosters>>
  BY SendDoes
<1>2. Tui' = Tui
  BY <1>1 DEF Tui
<1>3. CASE Ends
  <2>1. input'.pc = "over" /\ input'.out = <<>> /\ input'.echo = {}
    BY <1>1, <1>3, EndsDoes
  <2> QED
    BY <1>1, <2>1, OwedOver DEF InTouch
<1>4. CASE /\ input.out = <<>> /\ UNCHANGED <<toHub, toSeat>>
           /\ input'.pc = "idle" /\ input'.out = <<>> /\ input'.echo = {}
  <2>1. Of(input.out, {"say"}) = {}
    BY <1>4, OfNone
  <2>2. InTouch' => InTouch
    BY <1>1 DEF InTouch
  <2> QED
    BY <1>1, <1>2, <1>4, <2>1, <2>2 DEF Owed
<1>5. CASE /\ input.out # <<>> /\ UNCHANGED toSeat
           /\ toHub' = Append(toHub, Head(input.out)) /\ Head(input.out) \in Outgoing
           /\ input'.pc = "sending" /\ input'.out = Tail(input.out) /\ input'.echo = input.echo
  <2> DEFINE f == Head(input.out)
             own == IF Kind(f) \in {"say"} THEN {f.seq} ELSE {}
  <2>1. input.out \in Seq(Outgoing) /\ toHub \in Seq(Outgoing)
    BY DEF Typed, Inputs
  <2>2. Of(input.out, {"say"}) = Of(input'.out, {"say"}) \cup own
    BY <1>5, <2>1, OfTook
  <2>3. Of(toHub', {"say"}) = Of(toHub, {"say"}) \cup own
    BY <1>5, <2>1, OfPut
  <2>4. InTouch' => InTouch
    BY <1>1, <1>5 DEF InTouch
  <2> HIDE DEF own
  <2> QED
    BY <1>1, <1>2, <1>5, <2>2, <2>3, <2>4 DEF Owed
<1> QED
  BY <1>3, <1>4, <1>5, SendDoes

LEMMA OwedNext ==
  ASSUME Typed, Numbered, Owed, [Next]_vars
  PROVE  Owed'
<1>1. seat.seq \in Nat /\ Typed'
  BY NumberedNext DEF Typed, Seats
<1>2. ASSUME NEW f, Arrives(f), Kind(f) \notin {"err", "echo"}, hub'.open = hub.open,
             UNCHANGED <<toHub, seat, input, reader>>
      PROVE  Owed'
  <2>1. Coming' = Coming /\ Asked' = Asked
    BY <1>2, OwedPut DEF Arrives, Asked
  <2> QED
    BY <1>1, <1>2, <2>1, OwedKept DEF InTouch
<1>3. CASE PeerSays
  <2> DEFINE f == [t |-> "deliver", ids |-> <<Len(hub.day) + 1>>]
  <2>1. Kind(f) \notin {"err", "echo"}
    BY DEF Kind
  <2> QED
    BY <1>2, <1>3, <2>1, PeerSaysDoes
<1>4. ASSUME NEW p \in Peer, PeerMoves(p) PROVE Owed'
  <2> DEFINE f == [t |-> "event", event |-> IF p \notin hub.peers THEN "joined" ELSE "left", name |-> p]
  <2>1. Kind(f) \notin {"err", "echo"}
    BY DEF Kind
  <2>2. Arrives(f) /\ hub'.open = hub.open /\ UNCHANGED <<toHub, seat, input, reader>>
    BY <1>4, PeerMovesDoes
  <2> QED
    BY <1>2, <2>1, <2>2
<1>5. CASE Pings
  <2> DEFINE f == [t |-> "ping"]
  <2>1. Kind(f) \notin {"err", "echo"}
    BY DEF Kind
  <2> QED
    BY <1>2, <1>5, <2>1, PingsDoes
<1>6. CASE HubTakes
  BY <1>6, OwedTakes
<1>7. CASE Hangup
  BY <1>7, HangupDoes, OwedOver DEF InTouch
<1>8. CASE Read
  BY <1>8, OwedRead
<1>9. CASE ReadFails \/ ReadEnd
  BY <1>9, ReaderEndsDoes, OwedOver DEF InTouch
<1>10. CASE Wake
  BY <1>10, WakeDoes, OwedOver DEF InTouch
<1>11. CASE Enter
  BY <1>11, OwedEnter
<1>12. CASE Register
  BY <1>12, OwedRegister
<1>13. CASE Send
  BY <1>13, OwedSend
<1>14. CASE Poll
  <2> DEFINE f == [t |-> "roster", seq |-> seat.poll - 1]
  <2>1. /\ seat'.mode = seat.mode /\ seat'.pending = seat.pending /\ seat'.seq = seat.seq
        /\ toHub' = toHub \/ toHub' = Append(toHub, f)
        /\ UNCHANGED <<hub, toSeat, input, reader>>
    BY <1>14, PollDoes
  <2>2. Kind(f) \notin {"say"} /\ toHub \in Seq(Outgoing)
    BY DEF Kind, Typed
  <2> HIDE DEF f
  <2>3. Of(Append(toHub, f), {"say"}) = Of(toHub, {"say"}) \cup {}
    BY <2>2, OfPut
  <2>4. Asked' = Asked /\ Coming' = Coming
    BY <2>1, <2>3 DEF Asked, Coming
  <2> QED
    BY <1>1, <2>1, <2>4, OwedKept DEF InTouch
<1>15. CASE SeesHangup \/ Quit
  <2>1. Ends /\ UNCHANGED <<hub, seat, reader, wake, rosters>>
    BY <1>15 DEF SeesHangup, Quit
  <2> QED
    BY <2>1, EndsDoes, OwedOver DEF InTouch
<1>16. CASE UNCHANGED vars
  <2>1. UNCHANGED <<hub, toHub, toSeat, seat, input, reader, wake, rosters>>
    BY <1>16 DEF vars
  <2> QED
    BY <1>1, <2>1, OwedKept DEF InTouch, Asked, Coming
<1> QED
  BY <1>3, <1>4, <1>5, <1>6, <1>7, <1>8, <1>9, <1>10, <1>11, <1>12, <1>13, <1>14, <1>15, <1>16
  DEF Next, ReaderStep

-----------------------------------------------------------------------------
(* The answers.                                                            *)

LEMMA CappedFits ==
  ASSUME NEW s \in Seq(Nat)
  PROVE  Len(Capped(s)) <= RingCap
<1>1. RingCap \in Nat /\ Len(s) \in Nat
  BY SeatAssumption
<1>2. CASE Len(s) <= RingCap
  BY <1>2, CappedKeeps
<1>3. CASE Len(s) > RingCap
  BY <1>1, <1>3, CappedKeeps
<1> QED
  BY <1>1, <1>2, <1>3

\* The seat knows its hub is gone only when it is, and its ring is never over.
LEMMA EndedNext ==
  ASSUME Typed, Numbered, Ended, [Next]_vars
  PROVE  Ended'
<1>1. ASSUME seat'.closed = seat.closed, seat'.ring = seat.ring, hub'.open = hub.open \/ ~hub'.open
      PROVE  Ended'
  BY <1>1 DEF Ended
<1>2. CASE Read
  <2> DEFINE f == Head(toSeat)
  <2>1. /\ f \in Incoming /\ UNCHANGED hub /\ seat'.closed = seat.closed
        /\ seat'.ring = RingAfter(f)
    BY <1>2, ReadDoes
  <2>2. seat.ring \in Seq(Nat)
    BY DEF Typed, Seats
  <2> HIDE DEF f
  <2>3. f.t = "deliver" => seat.ring \o f.ids \in Seq(Nat)
    <3>1. f.t = "deliver" => f.ids \in Seq(Nat)
      BY <2>1 DEF Incoming
    <3> QED
      BY <2>2, <3>1
  <2>4. f.t = "ok" => Append(seat.ring, f.id) \in Seq(Nat)
    <3>1. f.t = "ok" => f.id \in Nat
      BY <2>1 DEF Incoming
    <3> QED
      BY <2>2, <3>1
  <2>5. Len(seat'.ring) <= RingCap
    BY <2>1, <2>3, <2>4, CappedFits DEF RingAfter, Ended
  <2> QED
    BY <2>1, <2>5 DEF Ended
<1>3. CASE ReadFails \/ ReadEnd
  BY <1>3, ReaderEndsDoes DEF Ended
<1>4. ASSUME Ends, UNCHANGED <<hub, seat>> PROVE Ended'
  BY <1>1, <1>4
<1>5. CASE Enter
  BY <1>1, <1>4, <1>5, EnterDoes
<1>6. CASE SeesHangup \/ Quit
  BY <1>1, <1>6 DEF SeesHangup, Quit
<1>7. ASSUME NEW p \in Peer, PeerMoves(p) PROVE Ended'
  BY <1>1, <1>7, PeerMovesDoes
<1>8. CASE PeerSays \/ Pings \/ HubTakes \/ Hangup
  BY <1>1, <1>8, PeerSaysDoes, PingsDoes, HubTakesDoes, HangupDoes
<1>9. CASE Wake \/ Register \/ Send \/ Poll
  BY <1>1, <1>9, WakeDoes, RegisterDoes, SendDoes, PollDoes
<1>10. CASE UNCHANGED vars
  BY <1>1, <1>10 DEF vars
<1> QED
  BY <1>2, <1>3, <1>5, <1>6, <1>7, <1>8, <1>9, <1>10 DEF Next, ReaderStep

LEMMA AnswersFollow ==
  ASSUME Typed, Numbered, Owed, Ended
  PROVE  AnswersFindTheirAsker
<1>1. SeatTypeOK
  BY DEF SeatTypeOK, Typed, Seats, Inputs, Owed, Ended
<1>2. ASSUME NEW fs \in Seq(Outgoing), NEW i \in 1 .. Len(fs)
      PROVE  Kind(fs[i]) = fs[i].t
  <2>1. fs[i] \in Outgoing
    OBVIOUS
  <2> QED
    BY <2>1, AskingKind
<1>3. ASSUME NEW fs \in Seq(Outgoing)
      PROVE  {fs[i].seq : i \in {j \in 1 .. Len(fs) : fs[j].t = "say"}} = Of(fs, {"say"})
  <2>1. {j \in 1 .. Len(fs) : fs[j].t = "say"} = At(fs, {"say"})
    BY <1>2 DEF At
  <2> QED
    BY <2>1 DEF Of
<1>4. toHub \in Seq(Outgoing) /\ input.out \in Seq(Outgoing) /\ toSeat \in Seq(Incoming)
  BY DEF Typed, Inputs
<1>5. ASSUME NEW i \in 1 .. Len(toSeat)
      PROVE  /\ toSeat[i].t = "err" \/ (toSeat[i].t = "ok" /\ Ids(toSeat[i]) # {})
                <=> Kind(toSeat[i]) \in {"err", "echo"}
             /\ toSeat[i].t = "roster" <=> Kind(toSeat[i]) \in {"roster"}
  <2> DEFINE f == toSeat[i]
  <2>1. f \in Incoming
    BY <1>4
  <2> HIDE DEF f
  <2>2. f.t # "echo"
    BY <2>1 DEF Incoming
  <2>3. CASE f.t = "ok"
    <3>1. Ids(f) = {f.id} \ {0}
      BY <2>3 DEF Ids
    <3>2. Ids(f) # {} <=> f.id # 0
      BY <3>1
    <3> QED
      BY <2>3, <3>2 DEF Kind, f
  <2>4. CASE f.t # "ok"
    BY <2>2, <2>4 DEF Kind, f
  <2> QED
    BY <2>3, <2>4
<1>6. {toSeat[i].seq : i \in {j \in 1 .. Len(toSeat) :
           toSeat[j].t = "err" \/ (toSeat[j].t = "ok" /\ Ids(toSeat[j]) # {})}}
        = Of(toSeat, {"err", "echo"})
  <2>1. {j \in 1 .. Len(toSeat) :
           toSeat[j].t = "err" \/ (toSeat[j].t = "ok" /\ Ids(toSeat[j]) # {})}
          = At(toSeat, {"err", "echo"})
    BY <1>5 DEF At
  <2> QED
    BY <2>1 DEF Of
<1>7. {toSeat[i].seq : i \in {j \in 1 .. Len(toSeat) : toSeat[j].t = "roster"}} = Of(toSeat, {"roster"})
  <2>1. {j \in 1 .. Len(toSeat) : toSeat[j].t = "roster"} = At(toSeat, {"roster"})
    BY <1>5 DEF At
  <2> QED
    BY <2>1 DEF Of
<1>8. EchoIsOwed
  BY <1>3, <1>4, <1>6 DEF EchoIsOwed, Owed
<1>9. PollsStayQuiet
  <2>1. ASSUME NEW i \in 1 .. Len(toHub), toHub[i].t = "roster"
        PROVE  toHub[i].seq \in Of(toHub, Kinds)
    BY <1>2, <1>4, <2>1 DEF Of, At, Kinds, Asking
  <2>2. Of(toSeat, {"roster"}) \subseteq Of(toSeat, Kinds)
    BY OfMore DEF Kinds, Asking
  <2>3. ASSUME NEW i \in 1 .. Len(toHub), toHub[i].t = "roster"
        PROVE  toHub[i].seq \notin rosters \cup Of(toSeat, {"roster"})
    BY <2>1, <2>2, <2>3 DEF Numbered, Numbers
  <2> QED
    BY <1>7, <2>3 DEF PollsStayQuiet, Numbered
<1> QED
  BY <1>1, <1>8, <1>9 DEF AnswersFindTheirAsker

-----------------------------------------------------------------------------
(* The floor.                                                              *)

LEMMA PeerHeardPut ==
  ASSUME NEW fs \in Seq(Incoming), NEW f, NEW p, NEW mine, NEW theirs, NEW now,
         IF AboutPeer(f, p) THEN SaysThere(f, p) <=> p \in now
         ELSE PeerHeard(fs, p, mine, theirs) /\ (p \in theirs <=> p \in now)
  PROVE  PeerHeard(Append(fs, f), p, mine, now)
<1> DEFINE g == Append(fs, f)
           n == Len(fs) + 1
<1>1. /\ Len(fs) \in Nat /\ n \in Nat /\ \A i \in 1 .. Len(fs) : g[i] = fs[i] /\ i <= n
      /\ g[n] = f /\ 1 .. Len(g) = (1 .. Len(fs)) \cup {n}
  BY Put
<1> HIDE DEF g, n
<1>2. \A i \in 1 .. Len(g) : i <= n
  BY <1>1
<1>3. CASE AboutPeer(f, p)
  <2>1. n \in Presence(g, p) /\ \A j \in Presence(g, p) : j <= n
    BY <1>1, <1>2, <1>3 DEF Presence
  <2>2. SaysThere(g[n], p) <=> p \in now
    BY <1>1, <1>3
  <2>3. PeerHeard(g, p, mine, now)
    BY <2>1, <2>2 DEF PeerHeard
  <2> QED
    BY <2>3 DEF g
<1>4. CASE ~AboutPeer(f, p)
  <2>1. Presence(g, p) = Presence(fs, p)
    BY <1>1, <1>4 DEF Presence
  <2>2. \A i \in Presence(fs, p) : g[i] = fs[i]
    BY <1>1 DEF Presence
  <2>3. PeerHeard(g, p, mine, now)
    BY <1>4, <2>1, <2>2 DEF PeerHeard
  <2> QED
    BY <2>3 DEF g
<1> QED
  BY <1>3, <1>4

LEMMA GoalHeardPut ==
  ASSUME NEW fs \in Seq(Incoming), NEW f, NEW mine, NEW theirs, NEW now,
         IF AboutGoal(f) THEN f.goal = now ELSE GoalHeard(fs, mine, theirs) /\ theirs = now
  PROVE  GoalHeard(Append(fs, f), mine, now)
<1> DEFINE g == Append(fs, f)
           n == Len(fs) + 1
<1>1. /\ Len(fs) \in Nat /\ n \in Nat /\ \A i \in 1 .. Len(fs) : g[i] = fs[i] /\ i <= n
      /\ g[n] = f /\ 1 .. Len(g) = (1 .. Len(fs)) \cup {n}
  BY Put
<1> HIDE DEF g, n
<1>2. \A i \in 1 .. Len(g) : i <= n
  BY <1>1
<1>3. CASE AboutGoal(f)
  <2>1. n \in Goals(g) /\ \A j \in Goals(g) : j <= n
    BY <1>1, <1>2, <1>3 DEF Goals
  <2>2. GoalHeard(g, mine, now)
    BY <1>1, <1>3, <2>1 DEF GoalHeard
  <2> QED
    BY <2>2 DEF g
<1>4. CASE ~AboutGoal(f)
  <2>1. Goals(g) = Goals(fs)
    BY <1>1, <1>4 DEF Goals
  <2>2. \A i \in Goals(fs) : g[i] = fs[i]
    BY <1>1 DEF Goals
  <2>3. GoalHeard(g, mine, now)
    BY <1>4, <2>1, <2>2 DEF GoalHeard
  <2> QED
    BY <2>3 DEF g
<1> QED
  BY <1>3, <1>4

LEMMA PeerHeardTook ==
  ASSUME NEW fs \in Seq(Incoming), fs # <<>>, NEW p, NEW mine, NEW theirs, NEW now,
         PeerHeard(fs, p, mine, theirs),
         p \in now <=> IF AboutPeer(Head(fs), p) THEN SaysThere(Head(fs), p) ELSE p \in mine
  PROVE  PeerHeard(Tail(fs), p, now, theirs)
<1> DEFINE t == Tail(fs)
           h == Head(fs)
<1>1. /\ h = fs[1] /\ Len(fs) \in Nat \ {0}
      /\ \A i \in 1 .. Len(t) : t[i] = fs[i + 1] /\ i + 1 \in 1 .. Len(fs)
      /\ \A i \in 1 .. Len(fs) : i # 1 => i - 1 \in 1 .. Len(t) /\ t[i - 1] = fs[i]
  BY Took
<1> HIDE DEF t, h
<1>2. \A i \in Presence(t, p) : i \in Int /\ i + 1 \in Presence(fs, p) /\ i + 1 # 1
  BY <1>1 DEF Presence
<1>3. \A i \in Presence(fs, p) : i \in Int /\ 1 <= i /\ (i # 1 => i - 1 \in Presence(t, p))
  BY <1>1 DEF Presence
<1>4. 1 \in Presence(fs, p) <=> AboutPeer(h, p)
  BY <1>1 DEF Presence
<1>5. CASE Presence(fs, p) = {}
  <2>1. Presence(t, p) = {} /\ ~AboutPeer(h, p)
    BY <1>2, <1>4, <1>5
  <2>2. PeerHeard(t, p, now, theirs)
    BY <1>5, <2>1 DEF PeerHeard, h
  <2> QED
    BY <2>2 DEF t
<1>6. CASE Presence(fs, p) # {}
  <2>1. PICK i \in Presence(fs, p) :
          (\A j \in Presence(fs, p) : j <= i) /\ (SaysThere(fs[i], p) <=> p \in theirs)
    BY <1>6 DEF PeerHeard
  <2>2. CASE i = 1
    <3>1. \A j \in Presence(t, p) : FALSE
      BY <1>2, <1>3, <2>1, <2>2
    <3>2. Presence(t, p) = {} /\ AboutPeer(h, p)
      BY <1>4, <2>2, <3>1
    <3>3. PeerHeard(t, p, now, theirs)
      BY <1>1, <2>1, <2>2, <3>2 DEF PeerHeard, h
    <3> QED
      BY <3>3 DEF t
  <2>3. CASE i # 1
    <3> DEFINE k == i - 1
    <3>1. k \in Presence(t, p) /\ t[k] = fs[i]
      BY <1>1, <1>3, <2>3 DEF Presence
    <3>2. \A j \in Presence(t, p) : j <= k
      BY <1>2, <1>3, <2>1
    <3> HIDE DEF k
    <3>3. SaysThere(t[k], p) <=> p \in theirs
      BY <2>1, <3>1
    <3>4. PeerHeard(t, p, now, theirs)
      BY <3>1, <3>2, <3>3 DEF PeerHeard
    <3> QED
      BY <3>4 DEF t
  <2> QED
    BY <2>2, <2>3
<1> QED
  BY <1>5, <1>6

LEMMA GoalHeardTook ==
  ASSUME NEW fs \in Seq(Incoming), fs # <<>>, NEW mine, NEW theirs,
         GoalHeard(fs, mine, theirs)
  PROVE  GoalHeard(Tail(fs), IF AboutGoal(Head(fs)) THEN Head(fs).goal ELSE mine, theirs)
<1> DEFINE t == Tail(fs)
           h == Head(fs)
           now == IF AboutGoal(h) THEN h.goal ELSE mine
<1>1. /\ h = fs[1] /\ Len(fs) \in Nat \ {0}
      /\ \A i \in 1 .. Len(t) : t[i] = fs[i + 1] /\ i + 1 \in 1 .. Len(fs)
      /\ \A i \in 1 .. Len(fs) : i # 1 => i - 1 \in 1 .. Len(t) /\ t[i - 1] = fs[i]
  BY Took
<1> HIDE DEF t, h
<1>2. \A i \in Goals(t) : i \in Int /\ i + 1 \in Goals(fs) /\ i + 1 # 1
  BY <1>1 DEF Goals
<1>3. \A i \in Goals(fs) : i \in Int /\ 1 <= i /\ (i # 1 => i - 1 \in Goals(t))
  BY <1>1 DEF Goals
<1>4. 1 \in Goals(fs) <=> AboutGoal(h)
  BY <1>1 DEF Goals
<1>5. CASE Goals(fs) = {}
  <2>1. Goals(t) = {} /\ ~AboutGoal(h)
    BY <1>2, <1>4, <1>5
  <2>2. GoalHeard(t, now, theirs)
    BY <1>5, <2>1 DEF GoalHeard
  <2> QED
    BY <2>2 DEF t, h
<1>6. CASE Goals(fs) # {}
  <2>1. PICK i \in Goals(fs) : (\A j \in Goals(fs) : j <= i) /\ fs[i].goal = theirs
    BY <1>6 DEF GoalHeard
  <2>2. CASE i = 1
    <3>1. \A j \in Goals(t) : FALSE
      BY <1>2, <1>3, <2>1, <2>2
    <3>2. Goals(t) = {} /\ AboutGoal(h)
      BY <1>4, <2>2, <3>1
    <3>3. GoalHeard(t, now, theirs)
      BY <1>1, <2>1, <2>2, <3>2 DEF GoalHeard
    <3> QED
      BY <3>3 DEF t, h
  <2>3. CASE i # 1
    <3> DEFINE k == i - 1
    <3>1. k \in Goals(t) /\ t[k] = fs[i]
      BY <1>1, <1>3, <2>3 DEF Goals
    <3>2. \A j \in Goals(t) : j <= k
      BY <1>2, <1>3, <2>1
    <3> HIDE DEF k
    <3>3. GoalHeard(t, now, theirs)
      BY <2>1, <3>1, <3>2 DEF GoalHeard
    <3> QED
      BY <3>3 DEF t, h
  <2> QED
    BY <2>2, <2>3
<1> QED
  BY <1>5, <1>6

\* A frame that tells nothing of the floor.
LEMMA ToldPut ==
  ASSUME Typed, Told, input.pc # "over", NEW f, toSeat' = Append(toSeat, f),
         f.t \in {"ok", "err", "deliver", "ping"},
         hub'.peers = hub.peers, hub'.goal = hub.goal, UNCHANGED <<seat, input>>
  PROVE  Told'
<1>1. ~AboutGoal(f) /\ \A p : ~AboutPeer(f, p)
  BY DEF AboutGoal, AboutPeer
<1>2. toSeat \in Seq(Incoming)
  BY DEF Typed
<1>3. GoalHeard(toSeat, seat.goal, hub.goal) /\ \A p \in Peer : PeerHeard(toSeat, p, seat.peers, hub.peers)
  BY DEF Told
<1>4. GoalHeard(Append(toSeat, f), seat.goal, hub.goal)
  BY <1>1, <1>2, <1>3, GoalHeardPut
<1>5. \A p \in Peer : PeerHeard(Append(toSeat, f), p, seat.peers, hub.peers)
  BY <1>1, <1>2, <1>3, PeerHeardPut
<1> QED
  BY <1>4, <1>5 DEF Told

LEMMA ToldKept ==
  ASSUME Told, UNCHANGED toSeat, seat'.peers = seat.peers, seat'.goal = seat.goal,
         hub'.peers = hub.peers, hub'.goal = hub.goal, input'.pc # "over" => input.pc # "over"
  PROVE  Told'
BY DEF Told

LEMMA ToldMoves ==
  ASSUME Typed, Told, NEW q \in Peer, PeerMoves(q)
  PROVE  Told'
<1> DEFINE e == IF q \notin hub.peers THEN "joined" ELSE "left"
           f == [t |-> "event", event |-> e, name |-> q]
<1>1. /\ input.pc # "over" /\ hub'.goal = hub.goal /\ toSeat' = Append(toSeat, f)
      /\ hub'.peers = IF q \notin hub.peers THEN hub.peers \cup {q} ELSE hub.peers \ {q}
      /\ UNCHANGED <<seat, input>>
  BY PeerMovesDoes DEF Arrives
<1>2. toSeat \in Seq(Incoming)
  BY DEF Typed
<1>3. GoalHeard(toSeat, seat.goal, hub.goal) /\ \A p \in Peer : PeerHeard(toSeat, p, seat.peers, hub.peers)
  BY <1>1 DEF Told
<1>4. ~AboutGoal(f) /\ (\A p : AboutPeer(f, p) <=> p = q) /\ (SaysThere(f, q) <=> q \notin hub.peers)
  BY DEF AboutGoal, AboutPeer, SaysThere
<1> HIDE DEF f
<1>5. GoalHeard(Append(toSeat, f), seat.goal, hub.goal)
  BY <1>2, <1>3, <1>4, GoalHeardPut
<1>6. ASSUME NEW p \in Peer PROVE PeerHeard(Append(toSeat, f), p, seat.peers, hub'.peers)
  <2>1. CASE p = q
    <3>1. AboutPeer(f, p) /\ (SaysThere(f, p) <=> p \in hub'.peers)
      BY <1>1, <1>4, <2>1
    <3> QED
      BY <1>2, <3>1, PeerHeardPut
  <2>2. CASE p # q
    <3>1. ~AboutPeer(f, p) /\ (p \in hub.peers <=> p \in hub'.peers)
      BY <1>1, <1>4, <2>2
    <3> QED
      BY <1>2, <1>3, <3>1, PeerHeardPut
  <2> QED
    BY <2>1, <2>2
<1> QED
  BY <1>1, <1>5, <1>6 DEF Told

LEMMA ToldTakes ==
  ASSUME Typed, Told, HubTakes
  PROVE  Told'
<1> DEFINE f == Head(toHub)
<1>1. /\ hub'.peers = hub.peers /\ input.pc # "over"
      /\ Routed(f) \/ Refused(f) \/ Announced(f) \/ Obeyed(f) \/ Listed(f)
      /\ UNCHANGED <<seat, input>>
  BY HubTakesDoes
<1> HIDE DEF f
<1>2. toSeat \in Seq(Incoming)
  BY DEF Typed
<1>3. GoalHeard(toSeat, seat.goal, hub.goal) /\ \A p \in Peer : PeerHeard(toSeat, p, seat.peers, hub.peers)
  BY <1>1 DEF Told
<1>4. CASE Routed(f)
  BY <1>1, <1>4, ToldPut DEF Routed, Arrives
<1>5. CASE Refused(f)
  BY <1>1, <1>5, ToldPut DEF Refused, Arrives
<1>6. CASE Obeyed(f)
  BY <1>1, <1>6, ToldPut DEF Obeyed, Arrives
<1>7. CASE Announced(f)
  <2> DEFINE n == hub.goal + 1
             e == [t |-> "event", event |-> "goal", goal |-> n]
             g == [t |-> "ok", seq |-> f.seq, id |-> 0]
             fs == Append(toSeat, e)
  <2>1. toSeat' = Append(fs, g) /\ e \in Incoming /\ hub'.goal = n
    BY <1>7 DEF Announced
  <2> HIDE DEF n
  <2>2. AboutGoal(e) /\ e.goal = n /\ \A p : ~AboutPeer(e, p)
    BY DEF AboutGoal, AboutPeer
  <2>3. ~AboutGoal(g) /\ \A p : ~AboutPeer(g, p)
    BY DEF AboutGoal, AboutPeer
  <2> HIDE DEF e, g
  <2>4. fs \in Seq(Incoming)
    BY <1>2, <2>1
  <2>5. GoalHeard(fs, seat.goal, n)
    BY <1>2, <2>2, GoalHeardPut
  <2>6. \A p \in Peer : PeerHeard(fs, p, seat.peers, hub.peers)
    BY <1>2, <1>3, <2>2, PeerHeardPut
  <2> HIDE DEF fs
  <2>7. GoalHeard(Append(fs, g), seat.goal, n)
    BY <2>3, <2>4, <2>5, GoalHeardPut
  <2>8. \A p \in Peer : PeerHeard(Append(fs, g), p, seat.peers, hub.peers)
    BY <2>3, <2>4, <2>6, PeerHeardPut
  <2> QED
    BY <1>1, <2>1, <2>7, <2>8 DEF Told
<1>8. CASE Listed(f)
  <2> DEFINE g == [t |-> "roster", seq |-> f.seq, goal |-> hub.goal, names |-> hub.peers \cup {"me"}]
  <2>1. toSeat' = Append(toSeat, g) /\ hub'.goal = hub.goal
    BY <1>8 DEF Listed, Arrives
  <2>2. AboutGoal(g) /\ g.goal = hub.goal /\ \A p : AboutPeer(g, p)
    BY DEF AboutGoal, AboutPeer
  <2>3. \A p \in Peer : SaysThere(g, p) <=> p \in hub.peers
    BY SeatAssumption DEF SaysThere
  <2> HIDE DEF g
  <2>4. GoalHeard(Append(toSeat, g), seat.goal, hub.goal)
    BY <1>2, <2>2, GoalHeardPut
  <2>5. \A p \in Peer : PeerHeard(Append(toSeat, g), p, seat.peers, hub.peers)
    BY <1>2, <2>2, <2>3, PeerHeardPut
  <2> QED
    BY <1>1, <2>1, <2>4, <2>5 DEF Told
<1> QED
  BY <1>1, <1>4, <1>5, <1>6, <1>7, <1>8

\* What was last heard is what the seat now knows.
LEMMA ToldRead ==
  ASSUME Typed, Numbered, Told, Read
  PROVE  Told'
<1> DEFINE f == Head(toSeat)
<1>1. /\ toSeat # <<>> /\ f \in Incoming /\ toSeat' = Tail(toSeat) /\ input.pc # "over"
      /\ UNCHANGED <<hub, input>> /\ seat'.peers = PeersAfter(f) /\ seat'.goal = GoalAfter(f)
  BY ReadDoes
<1>2. toSeat \in Seq(Incoming)
  BY DEF Typed
<1>3. GoalHeard(toSeat, seat.goal, hub.goal) /\ \A p \in Peer : PeerHeard(toSeat, p, seat.peers, hub.peers)
  BY <1>1 DEF Told
<1>4. GoalHeard(Tail(toSeat), IF AboutGoal(f) THEN f.goal ELSE seat.goal, hub.goal)
  BY <1>1, <1>2, <1>3, GoalHeardTook
<1>5. ASSUME NEW p \in Peer
      PROVE  p \in PeersAfter(f) <=> IF AboutPeer(f, p) THEN SaysThere(f, p) ELSE p \in seat.peers
  <2> HIDE DEF f
  <2>1. p # "me"
    BY SeatAssumption
  <2> QED
    BY <2>1 DEF PeersAfter, AboutPeer, SaysThere
<1>6. ASSUME NEW p \in Peer PROVE PeerHeard(Tail(toSeat), p, PeersAfter(f), hub.peers)
  BY <1>1, <1>2, <1>3, <1>5, PeerHeardTook
<1> HIDE DEF f
<1>7. seat'.goal = IF AboutGoal(f) THEN f.goal ELSE seat.goal
  BY <1>1 DEF AboutGoal, GoalAfter
<1> QED
  BY <1>1, <1>4, <1>6, <1>7 DEF Told

LEMMA ToldNext ==
  ASSUME Typed, Numbered, Told, [Next]_vars
  PROVE  Told'
<1>1. ASSUME NEW p \in Peer, PeerMoves(p) PROVE Told'
  BY <1>1, ToldMoves
<1>2. CASE PeerSays
  BY <1>2, PeerSaysDoes, ToldPut DEF Arrives
<1>3. CASE Pings
  BY <1>3, PingsDoes, ToldPut DEF Arrives
<1>4. CASE HubTakes
  BY <1>4, ToldTakes
<1>5. CASE Hangup
  BY <1>5, HangupDoes, ToldKept
<1>6. CASE Read
  BY <1>6, ToldRead
<1>7. CASE ReadFails \/ ReadEnd
  BY <1>7, ReaderEndsDoes, ToldKept
<1>8. CASE Wake
  BY <1>8, WakeDoes, ToldKept
<1>9. ASSUME Ends, UNCHANGED <<hub, seat, reader, wake, rosters>> PROVE Told'
  BY <1>9, EndsDoes DEF Told
<1>10. CASE Enter
  BY <1>9, <1>10, EnterDoes, ToldKept
<1>11. CASE Register
  BY <1>11, RegisterDoes, ToldKept
<1>12. CASE Send
  BY <1>9, <1>12, SendDoes, ToldKept
<1>13. CASE Poll
  BY <1>13, PollDoes, ToldKept
<1>14. CASE SeesHangup \/ Quit
  BY <1>9, <1>14 DEF SeesHangup, Quit
<1>15. CASE UNCHANGED vars
  BY <1>15, ToldKept DEF vars
<1> QED
  BY <1>1, <1>2, <1>3, <1>4, <1>5, <1>6, <1>7, <1>8, <1>10, <1>11, <1>12, <1>13, <1>14, <1>15
  DEF Next, ReaderStep

LEMMA ToldFollows ==
  ASSUME Typed, Told
  PROVE  KnowsTheFloor
<1> SUFFICES ASSUME InTouch, toSeat = <<>>
             PROVE  seat.peers = hub.peers /\ seat.goal = hub.goal
  BY DEF KnowsTheFloor
<1>1. Goals(toSeat) = {} /\ \A p : Presence(toSeat, p) = {}
  BY DEF Goals, Presence
<1>2. seat.goal = hub.goal /\ \A p \in Peer : p \in seat.peers <=> p \in hub.peers
  BY <1>1 DEF Told, InTouch, PeerHeard, GoalHeard
<1> QED
  BY <1>2 DEF Typed, Seats, Hubs

-----------------------------------------------------------------------------
(* The ring and the frames.                                                *)

Way(fs) == UNION {Ids(fs[i]) : i \in 1 .. Len(fs)}

LEMMA OnTheWayIs == OnTheWay = Way(toSeat)
BY DEF OnTheWay, Way

LEMMA ToSetIs ==
  ASSUME NEW s \in Seq(Nat)
  PROVE  /\ ToSet(s) \subseteq Nat /\ \A i \in 1 .. Len(s) : s[i] \in ToSet(s)
         /\ \A x \in ToSet(s) : \E i \in 1 .. Len(s) : s[i] = x
BY DEF ToSet

LEMMA WayNone == Way(<<>>) = {} /\ Ascends(<<>>)
BY DEF Way, Ascends

LEMMA WayPut ==
  ASSUME NEW fs \in Seq(Incoming), NEW f
  PROVE  Way(Append(fs, f)) = Way(fs) \cup Ids(f)
<1> DEFINE g == Append(fs, f)
<1>1. /\ \A i \in 1 .. Len(fs) : g[i] = fs[i]
      /\ g[Len(fs) + 1] = f /\ 1 .. Len(g) = (1 .. Len(fs)) \cup {Len(fs) + 1}
  BY Put
<1> HIDE DEF g
<1>2. Way(g) \subseteq Way(fs) \cup Ids(f)
  BY <1>1 DEF Way
<1>3. Way(fs) \cup Ids(f) \subseteq Way(g)
  BY <1>1 DEF Way
<1> QED
  BY <1>2, <1>3 DEF g

LEMMA AscendsPut ==
  ASSUME NEW fs \in Seq(Incoming), NEW f, Ascends(fs),
         \A k \in Way(fs), l \in Ids(f) : k < l,
         f.t = "deliver" => Rising(f.ids)
  PROVE  Ascends(Append(fs, f))
<1> DEFINE g == Append(fs, f)
           n == Len(fs) + 1
<1>1. /\ Len(fs) \in Nat /\ n \in Nat /\ \A i \in 1 .. Len(fs) : g[i] = fs[i] /\ i < n
      /\ g[n] = f /\ 1 .. Len(g) = (1 .. Len(fs)) \cup {n}
  BY Put
<1> HIDE DEF g, n
<1>2. \A i \in 1 .. Len(fs) : Ids(fs[i]) \subseteq Way(fs)
  BY DEF Way
<1>3. ASSUME NEW i \in 1 .. Len(g), NEW j \in 1 .. Len(g), i < j,
             NEW k \in Ids(g[i]), NEW l \in Ids(g[j])
      PROVE  k < l
  <2>1. CASE j = n
    <3>1. i \in 1 .. Len(fs)
      BY <1>1, <1>3, <2>1
    <3> QED
      BY <1>1, <1>2, <1>3, <2>1, <3>1
  <2>2. CASE j # n
    <3>1. j \in 1 .. Len(fs) /\ i \in 1 .. Len(fs)
      BY <1>1, <1>3, <2>2
    <3> QED
      BY <1>1, <1>3, <3>1 DEF Ascends
  <2> QED
    BY <2>1, <2>2
<1>4. \A i \in 1 .. Len(g) : g[i].t = "deliver" => Rising(g[i].ids)
  BY <1>1 DEF Ascends
<1>5. Ascends(g)
  BY <1>3, <1>4 DEF Ascends
<1> QED
  BY <1>5 DEF g

LEMMA WayTook ==
  ASSUME NEW fs \in Seq(Incoming), fs # <<>>
  PROVE  Way(fs) = Way(Tail(fs)) \cup Ids(Head(fs))
<1> DEFINE t == Tail(fs)
<1>1. /\ Head(fs) = fs[1] /\ Len(fs) \in Nat \ {0}
      /\ \A i \in 1 .. Len(t) : t[i] = fs[i + 1] /\ i + 1 \in 1 .. Len(fs)
      /\ \A i \in 1 .. Len(fs) : i # 1 => i - 1 \in 1 .. Len(t) /\ t[i - 1] = fs[i]
  BY Took
<1> HIDE DEF t
<1>2. ASSUME NEW i \in 1 .. Len(t) PROVE Ids(t[i]) \subseteq Way(fs)
  BY <1>1 DEF Way
<1>3. Ids(Head(fs)) \subseteq Way(fs)
  BY <1>1 DEF Way
<1>4. ASSUME NEW i \in 1 .. Len(fs) PROVE Ids(fs[i]) \subseteq Way(t) \cup Ids(Head(fs))
  <2>1. CASE i = 1
    BY <1>1, <2>1
  <2>2. CASE i # 1
    BY <1>1, <2>2 DEF Way
  <2> QED
    BY <2>1, <2>2
<1>5. Way(t) \subseteq Way(fs)
  BY <1>2 DEF Way
<1>6. Way(fs) \subseteq Way(t) \cup Ids(Head(fs))
  BY <1>4 DEF Way
<1> QED
  BY <1>3, <1>5, <1>6 DEF t

LEMMA AscendsTook ==
  ASSUME NEW fs \in Seq(Incoming), fs # <<>>, Ascends(fs)
  PROVE  /\ Ascends(Tail(fs))
         /\ \A k \in Ids(Head(fs)), l \in Way(Tail(fs)) : k < l
         /\ Head(fs).t = "deliver" => Rising(Head(fs).ids)
<1> DEFINE t == Tail(fs)
<1>1. /\ Head(fs) = fs[1] /\ Len(fs) \in Nat \ {0}
      /\ \A i \in 1 .. Len(t) : t[i] = fs[i + 1] /\ i + 1 \in 1 .. Len(fs)
  BY Took
<1> HIDE DEF t
<1>2. \A i \in 1 .. Len(t) : i \in Int /\ 1 < i + 1 /\ 1 \in 1 .. Len(fs)
  BY <1>1
<1>3. ASSUME NEW i \in 1 .. Len(t), NEW j \in 1 .. Len(t), i < j,
             NEW k \in Ids(t[i]), NEW l \in Ids(t[j])
      PROVE  k < l
  <2>1. i + 1 < j + 1
    BY <1>2, <1>3
  <2> QED
    BY <1>1, <1>3, <2>1 DEF Ascends
<1>4. \A i \in 1 .. Len(t) : t[i].t = "deliver" => Rising(t[i].ids)
  BY <1>1 DEF Ascends
<1>5. ASSUME NEW k \in Ids(Head(fs)), NEW l \in Way(t) PROVE k < l
  <2>1. PICK i \in 1 .. Len(t) : l \in Ids(t[i])
    BY DEF Way
  <2> QED
    BY <1>1, <1>2, <2>1 DEF Ascends
<1>6. Head(fs).t = "deliver" => Rising(Head(fs).ids)
  BY <1>1, 1 \in 1 .. Len(fs) DEF Ascends
<1>7. Ascends(t)
  BY <1>3, <1>4 DEF Ascends
<1> QED
  BY <1>5, <1>6, <1>7 DEF t

LEMMA RisingJoined ==
  ASSUME NEW r \in Seq(Nat), NEW s \in Seq(Nat), Rising(r), Rising(s),
         \A k \in ToSet(r), l \in ToSet(s) : k < l
  PROVE  /\ r \o s \in Seq(Nat) /\ Rising(r \o s) /\ ToSet(r \o s) = ToSet(r) \cup ToSet(s)
         /\ Len(r \o s) = Len(r) + Len(s)
         /\ r # <<>> => (r \o s)[1] = r[1]
<1> DEFINE c == r \o s
           m == Len(r)
<1>1. /\ c \in Seq(Nat) /\ m \in Nat /\ Len(s) \in Nat /\ Len(c) = m + Len(s)
      /\ (r # <<>> => m # 0)
  OBVIOUS
<1>2. \A i \in 1 .. Len(c) : c[i] = IF i <= m THEN r[i] ELSE s[i - m]
  BY ConcatProperties
<1>3. \A i \in 1 .. m : i \in 1 .. Len(c) /\ c[i] = r[i]
  BY <1>1, <1>2
<1> HIDE DEF c, m
<1>4. \A i \in 1 .. Len(c) : i \in Int /\ (i > m => i - m \in 1 .. Len(s) /\ c[i] = s[i - m])
                             /\ (i <= m => i \in 1 .. m)
  <2>1. \A i \in 1 .. Len(c) : i \in Int /\ (i > m => i - m \in 1 .. Len(s) /\ ~(i <= m))
                               /\ (i <= m => i \in 1 .. m)
    BY <1>1
  <2> QED
    BY <1>2, <2>1
<1>5. \A i \in 1 .. Len(s) : i \in Int /\ i + m \in 1 .. Len(c) /\ i + m > m /\ (i + m) - m = i
  BY <1>1
<1>6. \A i \in 1 .. m : c[i] \in ToSet(r)
  BY <1>3, ToSetIs DEF m
<1>7. \A i \in 1 .. Len(s) : s[i] \in ToSet(s) /\ s[i] = c[i + m]
  BY <1>4, <1>5, ToSetIs
<1>8. \A i \in 1 .. Len(c) : i > m => c[i] \in ToSet(s)
  BY <1>4, ToSetIs
<1>9. ASSUME NEW i \in 1 .. Len(c), NEW j \in 1 .. Len(c), i < j PROVE c[i] < c[j]
  <2>1. CASE j <= m
    <3>1. i \in 1 .. m /\ j \in 1 .. m
      BY <1>1, <1>4, <1>9, <2>1
    <3>2. r[i] < r[j]
      BY <1>9, <3>1 DEF Rising, m
    <3> QED
      BY <1>3, <3>1, <3>2
  <2>2. CASE i > m
    <3>1. j > m
      BY <1>1, <1>4, <1>9, <2>2
    <3>2. i - m \in 1 .. Len(s) /\ j - m \in 1 .. Len(s) /\ c[i] = s[i - m] /\ c[j] = s[j - m]
      BY <1>4, <2>2, <3>1
    <3>3. i - m < j - m
      BY <1>1, <1>4, <1>9
    <3>4. s[i - m] < s[j - m]
      BY <3>2, <3>3 DEF Rising
    <3> QED
      BY <3>2, <3>4
  <2>3. CASE i <= m /\ j > m
    <3>1. c[i] \in ToSet(r)
      BY <1>4, <1>6, <2>3
    <3>2. c[j] \in ToSet(s)
      BY <1>8, <2>3
    <3> QED
      BY <3>1, <3>2
  <2> QED
    BY <1>1, <1>4, <2>1, <2>2, <2>3
<1>10. Rising(c)
  BY <1>9 DEF Rising
<1>11. ToSet(c) = ToSet(r) \cup ToSet(s)
  <2>1. ASSUME NEW x \in ToSet(c) PROVE x \in ToSet(r) \cup ToSet(s)
    <3>1. PICK i \in 1 .. Len(c) : c[i] = x
      BY <1>1, ToSetIs
    <3> QED
      BY <1>1, <1>4, <1>6, <1>8, <3>1
  <2>2. ASSUME NEW x \in ToSet(r) PROVE x \in ToSet(c)
    <3>1. PICK i \in 1 .. m : r[i] = x
      BY ToSetIs DEF m
    <3> QED
      BY <1>1, <1>3, <3>1, ToSetIs
  <2>3. ASSUME NEW x \in ToSet(s) PROVE x \in ToSet(c)
    <3>1. PICK i \in 1 .. Len(s) : s[i] = x
      BY ToSetIs
    <3> QED
      BY <1>1, <1>5, <1>7, <3>1, ToSetIs
  <2> QED
    BY <2>1, <2>2, <2>3
<1>12. r # <<>> => c[1] = r[1]
  BY <1>1, <1>3
<1> QED
  BY <1>1, <1>10, <1>11, <1>12 DEF c, m

\* What the ring drops is older than all it keeps.
LEMMA CappedRising ==
  ASSUME NEW s \in Seq(Nat), Rising(s)
  PROVE  /\ Rising(Capped(s)) /\ ToSet(Capped(s)) \subseteq ToSet(s)
         /\ \A x \in ToSet(s) : x \in ToSet(Capped(s))
                                \/ (Len(Capped(s)) = RingCap /\ x < Capped(s)[1])
         /\ Len(s) >= RingCap => Len(Capped(s)) = RingCap /\ s[1] <= Capped(s)[1]
<1> DEFINE c == Capped(s)
           d == Len(s) - RingCap
<1>1. RingCap \in Nat \ {0} /\ Len(s) \in Nat /\ c \in Seq(Nat)
  BY SeatAssumption, CappedKeeps
<1>2. CASE Len(s) <= RingCap
  <2>1. c = s
    BY <1>2, CappedKeeps
  <2>2. Len(s) >= RingCap => Len(s) = RingCap /\ s[1] <= s[1]
    BY <1>1, <1>2
  <2> QED
    BY <1>2, <2>1, <2>2
<1>3. CASE Len(s) > RingCap
  <2>1. Len(c) = RingCap /\ \A i \in 1 .. RingCap : c[i] = s[i + d] /\ i + d \in 1 .. Len(s)
    BY <1>3, CappedKeeps
  <2>2. d \in Nat \ {0} /\ 1 + d \in 1 .. Len(s) /\ 1 \in 1 .. Len(s) /\ 1 < 1 + d
    BY <1>1, <1>3
  <2>3. \A i \in 1 .. Len(s) : i \in Int /\ (i > d => i - d \in 1 .. RingCap /\ (i - d) + d = i)
    BY <1>1, <1>3
  <2>4. 1 \in 1 .. RingCap
    BY <1>1
  <2> HIDE DEF c, d
  <2>5. Rising(c)
    <3> SUFFICES ASSUME NEW i \in 1 .. RingCap, NEW j \in 1 .. RingCap, i < j
                 PROVE  c[i] < c[j]
      BY <2>1 DEF Rising
    <3>1. i + d < j + d
      BY <1>1, <2>2
    <3> QED
      BY <2>1, <3>1 DEF Rising
  <2>6. ToSet(c) \subseteq ToSet(s)
    <3>1. \A i \in 1 .. RingCap : c[i] \in ToSet(s)
      BY <2>1, ToSetIs
    <3> QED
      BY <1>1, <2>1, <3>1, ToSetIs
  <2>7. ASSUME NEW x \in ToSet(s) PROVE x \in ToSet(c) \/ x < c[1]
    <3>1. PICK i \in 1 .. Len(s) : s[i] = x
      BY ToSetIs
    <3>2. CASE i > d
      <4> DEFINE k == i - d
      <4>1. k \in 1 .. RingCap /\ k + d = i
        BY <2>3, <3>2
      <4> HIDE DEF k
      <4>2. c[k] = x /\ k \in 1 .. Len(c)
        BY <2>1, <3>1, <4>1
      <4> QED
        BY <1>1, <4>2, ToSetIs
    <3>3. CASE i <= d
      <4>1. i < 1 + d
        BY <2>2, <2>3, <3>3
      <4> QED
        BY <2>1, <2>2, <2>4, <3>1, <4>1 DEF Rising
    <3> QED
      BY <2>2, <2>3, <3>2, <3>3
  <2>8. s[1] < c[1] /\ s[1] \in Nat /\ c[1] \in Nat
    <3>1. c[1] = s[1 + d]
      BY <2>1, <2>4
    <3>2. s[1] < s[1 + d]
      BY <2>2 DEF Rising
    <3>3. s[1] \in Nat /\ s[1 + d] \in Nat
      BY <2>2, ElementOfSeq
    <3> QED
      BY <3>1, <3>2, <3>3
  <2>9. s[1] <= c[1]
    BY <2>8
  <2> QED
    BY <2>1, <2>5, <2>6, <2>7, <2>9 DEF c
<1> QED
  BY <1>1, <1>2, <1>3

\* What the seat has or will have, and what it has dropped.
Held == ToSet(seat.ring) \cup OnTheWay
Dropped(id) == Len(seat.ring) = RingCap /\ id < seat.ring[1]

LEMMA KeptIs ==
  Kept <=> /\ Tui /\ InTouch =>
                /\ Rising(seat.ring) /\ Ascends(toSeat)
                /\ \A id \in ToSet(seat.ring), k \in OnTheWay : id < k
                /\ Held \subseteq 2 .. Len(hub.day)
                /\ \A id \in From .. Len(hub.day) : id \in Held \/ Dropped(id)
           /\ 2 <= seat.since /\ seat.since <= Len(hub.day)
BY DEF Kept, Held, Dropped

\* Nothing the ring may hear of moves.
LEMMA KeptSame ==
  ASSUME Kept, hub'.day = hub.day, seat'.since = seat.since, seat'.ring = seat.ring,
         seat'.mode = seat.mode,
         InTouch' => InTouch /\ (Ascends(toSeat) => Ascends(toSeat')) /\ OnTheWay' = OnTheWay
  PROVE  Kept'
<1>1. From' = From /\ Tui' = Tui
  BY DEF From, Tui
<1>2. InTouch' => Held' = Held
  BY DEF Held
<1>3. \A id : Dropped(id)' <=> Dropped(id)
  BY DEF Dropped
<1> QED
  BY <1>1, <1>2, <1>3, KeptIs DEF Kept, Held, Dropped

LEMMA KeptOver ==
  ASSUME Kept, hub'.day = hub.day, seat'.since = seat.since, ~InTouch'
  PROVE  Kept'
BY DEF Kept

\* A frame that carries no message.
LEMMA KeptPut ==
  ASSUME Typed, Kept, NEW f, toSeat' = Append(toSeat, f), Ids(f) = {}, f.t # "deliver",
         hub'.day = hub.day, hub'.open = hub.open, UNCHANGED <<seat, input, reader>>
  PROVE  Kept'
<1>1. toSeat \in Seq(Incoming)
  BY DEF Typed
<1>2. Way(Append(toSeat, f)) = Way(toSeat)
  BY <1>1, WayPut
<1>3. Ascends(toSeat) => Ascends(Append(toSeat, f))
  BY <1>1, AscendsPut
<1>4. OnTheWay' = Way(toSeat')
  BY DEF OnTheWay, Way
<1>5. OnTheWay' = OnTheWay
  BY <1>2, <1>4, OnTheWayIs
<1> QED
  BY <1>3, <1>5, KeptSame DEF InTouch

\* A frame that carries the message that was just said.
LEMMA KeptSaid ==
  ASSUME Typed, Kept, NEW f, toSeat' = Append(toSeat, f), NEW who \in {"peer", "me"},
         hub'.day = Append(hub.day, who), Ids(f) = {Len(hub.day) + 1},
         f.t = "deliver" => Rising(f.ids),
         hub'.open = hub.open, UNCHANGED <<seat, input, reader>>
  PROVE  Kept'
<1> DEFINE n == Len(hub.day) + 1
<1>1. /\ toSeat \in Seq(Incoming) /\ hub.day \in Seq({"peer", "me"}) /\ Len(hub.day) \in Nat
      /\ n \in Nat /\ seat.since \in Nat
  BY DEF Typed, Hubs, Seats
<1>2. Len(hub'.day) = n /\ \A i \in 1 .. Len(hub.day) : hub'.day[i] = hub.day[i]
  BY <1>1
<1>3. 2 <= seat.since /\ seat.since <= Len(hub.day) /\ 2 <= n /\ seat.since <= n /\ Len(hub.day) < n
  BY <1>1 DEF Kept
<1> HIDE DEF n
<1>4. From' = From
  <2>1. \A i \in 1 .. seat.since : hub'.day[i] = hub.day[i]
    BY <1>1, <1>2, <1>3
  <2> QED
    BY <2>1 DEF From
<1>5. Tui' = Tui /\ InTouch' = InTouch
  BY DEF Tui, InTouch
<1>6. OnTheWay' = Way(toSeat') /\ Way(Append(toSeat, f)) = Way(toSeat) \cup {n}
  <2>1. OnTheWay' = Way(toSeat')
    BY DEF OnTheWay, Way
  <2> QED
    BY <1>1, <2>1, WayPut DEF n
<1>7. OnTheWay' = OnTheWay \cup {n} /\ Held' = Held \cup {n}
  BY <1>6, OnTheWayIs DEF Held
<1>8. \A id : Dropped(id)' <=> Dropped(id)
  BY DEF Dropped
<1>9. ASSUME Tui, InTouch
      PROVE  /\ Rising(seat'.ring) /\ Ascends(toSeat')
             /\ \A id \in ToSet(seat'.ring), k \in OnTheWay' : id < k
             /\ Held' \subseteq 2 .. n
             /\ \A id \in From .. n : id \in Held' \/ Dropped(id)'
  <2>1. /\ Rising(seat.ring) /\ Ascends(toSeat)
        /\ \A id \in ToSet(seat.ring), k \in OnTheWay : id < k
        /\ Held \subseteq 2 .. Len(hub.day)
        /\ \A id \in From .. Len(hub.day) : id \in Held \/ Dropped(id)
    BY <1>9, KeptIs
  <2>2. \A k \in 2 .. Len(hub.day) : k < n /\ k \in 2 .. n
    BY <1>1, <1>3
  <2>3. \A k \in Held : k < n /\ k \in 2 .. n
    BY <2>1, <2>2
  <2>4. \A k \in Way(toSeat), l \in Ids(f) : k < l
    BY <2>3, OnTheWayIs DEF Held, n
  <2>5. Ascends(toSeat')
    BY <1>1, <2>1, <2>4, AscendsPut
  <2>6. \A id \in ToSet(seat'.ring), k \in OnTheWay' : id < k
    BY <1>7, <2>1, <2>3 DEF Held
  <2>7. n \in 2 .. n
    BY <1>1, <1>3
  <2>8. \A id \in From .. n : id \in From .. Len(hub.day) \/ id = n
    <3>1. From \in Int
      BY <1>1 DEF From
    <3> QED
      BY <1>1, <3>1 DEF n
  <2> QED
    BY <1>7, <1>8, <2>1, <2>3, <2>5, <2>6, <2>7, <2>8
<1> QED
  BY <1>2, <1>3, <1>4, <1>5, <1>9 DEF Kept, Held, Dropped

\* An ok that carries a message is one the seat waits for, another ok is not.
LEMMA EchoAwaited ==
  ASSUME Typed, Numbered, Owed, Tui, InTouch, toSeat # <<>>, Head(toSeat).t = "ok"
  PROVE  Head(toSeat).seq \in seat.pending <=> Head(toSeat).id # 0
<1> DEFINE f == Head(toSeat)
<1>1. toSeat \in Seq(Incoming) /\ Single(toSeat)
  BY DEF Typed, Numbered
<1>2. seat.pending = Asked \cup Coming \cup Leaving
  BY DEF Owed, Asked, Coming, Leaving
<1>3. Kind(f) = (IF f.id # 0 THEN "echo" ELSE "ok") /\ Kind(f) \in Kinds
  BY DEF Kind, Kinds, Answers
<1>4. f.seq \in Of(toSeat, {Kind(f)})
  BY <1>1, OfTook
<1>5. {Kind(f)} \subseteq Kinds
  BY <1>3
<1>6. f.seq \in Of(toSeat, Kinds)
  BY <1>4, <1>5, OfMore
<1> HIDE DEF f
<1>7. f.id # 0 => f.seq \in Coming
  <2>1. f.id # 0 => {Kind(f)} \subseteq {"err", "echo"}
    BY <1>3
  <2> QED
    BY <1>4, <2>1, OfMore DEF Coming
<1>8. f.id = 0 => f.seq \notin Coming
  <2>1. f.id = 0 => {Kind(f)} \cap {"err", "echo"} = {}
    BY <1>3
  <2>2. f.id = 0 => Of(toSeat, {Kind(f)}) \cap Coming = {}
    BY <1>1, <1>5, <2>1, EchoKinds, OfApart DEF Coming
  <2> QED
    BY <1>4, <2>2
<1>9. f.seq \notin Asked \cup Leaving
  <2>1. Asked \subseteq Of(toHub, Kinds) /\ Of(input.out, {"say"}) \subseteq Of(input.out, Kinds)
    BY EchoKinds, OfMore DEF Asked
  <2>2. f.seq \notin Of(toHub, Kinds) /\ f.seq \notin Of(input.out, Kinds)
    BY <1>6 DEF Numbered, Numbers
  <2> QED
    BY <2>1, <2>2 DEF Leaving
<1> QED
  BY <1>2, <1>7, <1>8, <1>9 DEF f

\* The ring takes the messages of the frame that is read, if it has any.
LEMMA RingTakes ==
  ASSUME Typed, Numbered, Owed, Kept, Tui, InTouch, Read
  PROVE  LET f == Head(toSeat)
         IN  \/ seat'.ring = seat.ring /\ Ids(f) = {}
             \/ \E new \in Seq(Nat) : /\ Rising(new) /\ ToSet(new) = Ids(f)
                                      /\ seat'.ring = Capped(seat.ring \o new)
<1> DEFINE f == Head(toSeat)
<1>1. toSeat # <<>> /\ f \in Incoming /\ seat'.ring = RingAfter(f)
  BY ReadDoes
<1>2. toSeat \in Seq(Incoming) /\ seat.ring \in Seq(Nat) /\ Ascends(toSeat)
  BY DEF Typed, Seats, Kept
<1>3. f.t = "deliver" => Rising(f.ids)
  BY <1>1, <1>2, AscendsTook
<1>4. f.t = "ok" => (f.seq \in seat.pending <=> f.id # 0)
  BY <1>1, EchoAwaited
<1> HIDE DEF f
<1>5. CASE f.t = "deliver"
  <2>1. f.ids \in Seq(Nat)
    BY <1>1, <1>5 DEF Incoming
  <2>2. seat'.ring = Capped(seat.ring \o f.ids) /\ ToSet(f.ids) = Ids(f)
    BY <1>1, <1>5 DEF RingAfter, Ids
  <2> QED
    BY <1>3, <1>5, <2>1, <2>2 DEF f
<1>6. CASE f.t = "ok" /\ f.id # 0
  <2> DEFINE new == <<f.id>>
  <2>1. f.id \in Nat
    BY <1>1, <1>6 DEF Incoming
  <2>2. Ids(f) = {f.id}
    BY <1>6 DEF Ids
  <2>3. new \in Seq(Nat) /\ Len(new) = 1 /\ new[1] = f.id
    BY <2>1
  <2>4. Append(seat.ring, f.id) = seat.ring \o new
    BY <1>2, <2>1
  <2> HIDE DEF new
  <2>5. \A i \in 1 .. Len(new) : i = 1
    BY <2>3
  <2>6. Rising(new)
    BY <2>5 DEF Rising
  <2>7. ToSet(new) = {f.id}
    BY <2>3, <2>5, ToSetIs
  <2>8. seat'.ring = Capped(Append(seat.ring, f.id))
    BY <1>1, <1>4, <1>6 DEF RingAfter
  <2> QED
    BY <2>2, <2>3, <2>4, <2>6, <2>7, <2>8 DEF f
<1>7. CASE f.t = "ok" /\ f.id = 0
  <2>1. Ids(f) = {} /\ seat'.ring = seat.ring
    BY <1>1, <1>4, <1>7 DEF Ids, RingAfter
  <2> QED
    BY <2>1 DEF f
<1>8. CASE f.t # "deliver" /\ f.t # "ok"
  <2>1. Ids(f) = {} /\ seat'.ring = seat.ring
    BY <1>1, <1>8 DEF Ids, RingAfter
  <2> QED
    BY <2>1 DEF f
<1> QED
  BY <1>5, <1>6, <1>7, <1>8

LEMMA KeptRead ==
  ASSUME Typed, Numbered, Owed, Ended, Kept, Read
  PROVE  Kept'
<1> DEFINE f == Head(toSeat)
<1>1. /\ Typed' /\ toSeat # <<>> /\ toSeat' = Tail(toSeat)
      /\ UNCHANGED <<hub, input, reader>> /\ seat'.mode = seat.mode /\ seat'.since = seat.since
  BY ReadDoes
<1>2. CASE ~(Tui /\ InTouch)
  <2>1. ~(Tui' /\ InTouch')
    BY <1>1, <1>2 DEF Tui, InTouch
  <2> QED
    BY <1>1, <2>1 DEF Kept
<1>3. CASE Tui /\ InTouch
  <2>1. toSeat \in Seq(Incoming) /\ seat.ring \in Seq(Nat) /\ seat'.ring \in Seq(Nat) /\ RingCap \in Nat \ {0}
    BY <1>1, SeatAssumption DEF Typed, Seats
  <2>2. /\ Rising(seat.ring) /\ Ascends(toSeat)
        /\ \A id \in ToSet(seat.ring), k \in OnTheWay : id < k
        /\ Held \subseteq 2 .. Len(hub.day)
        /\ \A id \in From .. Len(hub.day) : id \in Held \/ Dropped(id)
    BY <1>3, KeptIs
  <2>3. OnTheWay' = Way(toSeat')
    BY DEF OnTheWay, Way
  <2>4. OnTheWay = OnTheWay' \cup Ids(f)
    BY <1>1, <2>1, <2>3, WayTook, OnTheWayIs
  <2>5. Ascends(toSeat') /\ \A k \in Ids(f), l \in OnTheWay' : k < l
    BY <1>1, <2>1, <2>2, <2>3, AscendsTook
  <2>6. From' = From
    BY <1>1 DEF From
  <2> HIDE DEF f
  <2>7. CASE seat'.ring = seat.ring /\ Ids(f) = {}
    <3>1. OnTheWay' = OnTheWay /\ (InTouch' => InTouch)
      BY <1>1, <2>4, <2>7 DEF InTouch
    <3> QED
      BY <1>1, <2>5, <2>7, <3>1, KeptSame
  <2>8. ASSUME NEW new \in Seq(Nat), Rising(new), ToSet(new) = Ids(f),
               seat'.ring = Capped(seat.ring \o new)
        PROVE  Kept'
    <3> DEFINE c == seat.ring \o new
    <3>1. \A k \in ToSet(seat.ring), l \in ToSet(new) : k < l
      BY <2>2, <2>4, <2>8
    <3>2. /\ c \in Seq(Nat) /\ Rising(c) /\ ToSet(c) = ToSet(seat.ring) \cup Ids(f)
          /\ Len(c) = Len(seat.ring) + Len(new) /\ (seat.ring # <<>> => c[1] = seat.ring[1])
      BY <2>1, <2>2, <2>8, <3>1, RisingJoined
    <3> HIDE DEF c
    <3>3. /\ Rising(seat'.ring) /\ ToSet(seat'.ring) \subseteq ToSet(c)
          /\ \A x \in ToSet(c) : x \in ToSet(seat'.ring)
                                 \/ (Len(seat'.ring) = RingCap /\ x < seat'.ring[1])
          /\ Len(c) >= RingCap => Len(seat'.ring) = RingCap /\ c[1] <= seat'.ring[1]
      BY <2>8, <3>2, CappedRising DEF c
    <3>4. \A id \in ToSet(seat'.ring), k \in OnTheWay' : id < k
      BY <2>2, <2>4, <2>5, <3>2, <3>3
    <3>5. ToSet(seat'.ring) \cup OnTheWay' \subseteq 2 .. Len(hub.day)
      BY <2>2, <2>4, <3>2, <3>3 DEF Held
    <3>6. ASSUME NEW id \in From .. Len(hub.day)
          PROVE  \/ id \in ToSet(seat'.ring) \cup OnTheWay'
                 \/ Len(seat'.ring) = RingCap /\ id < seat'.ring[1]
      <4>1. CASE id \in Held
        BY <2>4, <3>2, <3>3, <4>1 DEF Held
      <4>2. CASE Dropped(id)
        <5>1. Len(new) \in Nat /\ Len(seat.ring) = RingCap /\ id < seat.ring[1]
          BY <4>2 DEF Dropped
        <5>2. Len(c) >= RingCap /\ seat.ring # <<>>
          BY <2>1, <3>2, <5>1
        <5>3. id < c[1] /\ Len(seat'.ring) = RingCap /\ c[1] <= seat'.ring[1]
          BY <3>2, <3>3, <5>1, <5>2
        <5>4. 1 \in 1 .. Len(c) /\ 1 \in 1 .. Len(seat'.ring)
          BY <2>1, <3>2, <5>2, <5>3
        <5>5. c[1] \in Nat /\ seat'.ring[1] \in Nat
          BY <2>1, <3>2, <5>4, ElementOfSeq
        <5>6. id \in Int
          BY DEF From
        <5> QED
          BY <5>3, <5>5, <5>6
      <4> QED
        BY <2>2, <4>1, <4>2
    <3> QED
      BY <1>1, <2>5, <2>6, <3>3, <3>4, <3>5, <3>6 DEF Kept
  <2>9. \/ seat'.ring = seat.ring /\ Ids(f) = {}
        \/ \E new \in Seq(Nat) : /\ Rising(new) /\ ToSet(new) = Ids(f)
                                 /\ seat'.ring = Capped(seat.ring \o new)
    BY <1>3, RingTakes DEF f
  <2> QED
    BY <2>7, <2>8, <2>9
<1> QED
  BY <1>2, <1>3

LEMMA KeptTakes ==
  ASSUME Typed, Kept, HubTakes
  PROVE  Kept'
<1> DEFINE f == Head(toHub)
<1>1. /\ hub'.open = hub.open
      /\ Routed(f) \/ Refused(f) \/ Announced(f) \/ Obeyed(f) \/ Listed(f)
      /\ UNCHANGED <<seat, input, reader>>
  BY HubTakesDoes
<1> HIDE DEF f
<1>2. toSeat \in Seq(Incoming) /\ Len(hub.day) \in Nat
  BY DEF Typed, Hubs
<1>3. CASE Routed(f)
  <2> DEFINE n == Len(hub.day) + 1
             g == [t |-> "ok", seq |-> f.seq, id |-> n]
  <2>1. toSeat' = Append(toSeat, g) /\ hub'.day = Append(hub.day, "me") /\ n # 0
    BY <1>2, <1>3 DEF Routed, Arrives
  <2> HIDE DEF n
  <2>2. g.t = "ok" /\ Ids(g) = {n}
    BY <2>1 DEF Ids
  <2> HIDE DEF g
  <2> QED
    BY <1>1, <2>1, <2>2, KeptSaid DEF n
<1>4. CASE Refused(f)
  <2> DEFINE g == [t |-> "err", seq |-> f.seq]
  <2>1. toSeat' = Append(toSeat, g) /\ hub'.day = hub.day /\ Ids(g) = {} /\ g.t # "deliver"
    BY <1>4 DEF Refused, Arrives, Ids
  <2> QED
    BY <1>1, <2>1, KeptPut
<1>5. CASE Obeyed(f)
  <2> DEFINE g == [t |-> "ok", seq |-> f.seq, id |-> 0]
  <2>1. toSeat' = Append(toSeat, g) /\ hub'.day = hub.day /\ Ids(g) = {} /\ g.t # "deliver"
    BY <1>5 DEF Obeyed, Arrives, Ids
  <2> QED
    BY <1>1, <2>1, KeptPut
<1>6. CASE Listed(f)
  <2> DEFINE g == [t |-> "roster", seq |-> f.seq, goal |-> hub.goal, names |-> hub.peers \cup {"me"}]
  <2>1. toSeat' = Append(toSeat, g) /\ hub'.day = hub.day /\ Ids(g) = {} /\ g.t # "deliver"
    BY <1>6 DEF Listed, Arrives, Ids
  <2> QED
    BY <1>1, <2>1, KeptPut
<1>7. CASE Announced(f)
  <2> DEFINE e == [t |-> "event", event |-> "goal", goal |-> hub.goal + 1]
             g == [t |-> "ok", seq |-> f.seq, id |-> 0]
             fs == Append(toSeat, e)
  <2>1. toSeat' = Append(fs, g) /\ e \in Incoming /\ hub'.day = hub.day
    BY <1>7 DEF Announced
  <2>2. Ids(e) = {} /\ Ids(g) = {} /\ e.t # "deliver" /\ g.t # "deliver"
    BY DEF Ids
  <2> HIDE DEF e, g
  <2>3. fs \in Seq(Incoming)
    BY <1>2, <2>1
  <2>4. Way(fs) = Way(toSeat) /\ (Ascends(toSeat) => Ascends(fs))
    BY <1>2, <2>2, WayPut, AscendsPut
  <2> HIDE DEF fs
  <2>5. Way(toSeat') = Way(fs) /\ (Ascends(fs) => Ascends(toSeat'))
    BY <2>1, <2>2, <2>3, WayPut, AscendsPut
  <2>6. OnTheWay' = Way(toSeat')
    BY DEF OnTheWay, Way
  <2>7. OnTheWay' = OnTheWay
    BY <2>4, <2>5, <2>6, OnTheWayIs
  <2> QED
    BY <1>1, <2>1, <2>4, <2>5, <2>7, KeptSame DEF InTouch
<1> QED
  BY <1>1, <1>3, <1>4, <1>5, <1>6, <1>7

LEMMA KeptNext ==
  ASSUME Typed, Numbered, Owed, Ended, Kept, [Next]_vars
  PROVE  Kept'
<1>1. ASSUME hub'.day = hub.day, seat'.since = seat.since, seat'.ring = seat.ring,
             seat'.mode = seat.mode, InTouch' => InTouch, UNCHANGED toSeat
      PROVE  Kept'
  <2>1. OnTheWay' = OnTheWay
    BY <1>1 DEF OnTheWay
  <2> QED
    BY <1>1, <2>1, KeptSame
<1>2. CASE PeerSays
  <2> DEFINE f == [t |-> "deliver", ids |-> <<Len(hub.day) + 1>>]
             n == Len(hub.day) + 1
  <2>1. /\ toSeat' = Append(toSeat, f) /\ hub'.day = Append(hub.day, "peer")
        /\ hub'.open = hub.open /\ UNCHANGED <<seat, input, reader>>
    BY <1>2, PeerSaysDoes DEF Arrives
  <2>2. n \in Nat /\ f.ids = <<n>> /\ f.t = "deliver"
    BY DEF Typed, Hubs
  <2>3. Ids(f) = ToSet(<<n>>)
    BY DEF Ids
  <2> HIDE DEF f, n
  <2>4. ToSet(<<n>>) = {n} /\ Rising(<<n>>)
    <3> DEFINE s == <<n>>
    <3>1. s \in Seq(Nat) /\ Len(s) = 1 /\ s[1] = n
      BY <2>2
    <3> HIDE DEF s
    <3>2. \A i \in 1 .. Len(s) : i = 1
      BY <3>1
    <3>3. Rising(s)
      BY <3>2 DEF Rising
    <3>4. ToSet(s) = {n}
      BY <3>1, <3>2, ToSetIs
    <3> QED
      BY <3>3, <3>4 DEF s
  <2> QED
    BY <2>1, <2>2, <2>3, <2>4, KeptSaid DEF n
<1>3. ASSUME NEW p \in Peer, PeerMoves(p) PROVE Kept'
  <2> DEFINE f == [t |-> "event", event |-> IF p \notin hub.peers THEN "joined" ELSE "left", name |-> p]
  <2>1. /\ toSeat' = Append(toSeat, f) /\ hub'.day = hub.day /\ hub'.open = hub.open
        /\ UNCHANGED <<seat, input, reader>>
    BY <1>3, PeerMovesDoes DEF Arrives
  <2>2. Ids(f) = {} /\ f.t # "deliver"
    BY DEF Ids
  <2> QED
    BY <2>1, <2>2, KeptPut
<1>4. CASE Pings
  <2> DEFINE f == [t |-> "ping"]
  <2>1. /\ toSeat' = Append(toSeat, f) /\ hub'.day = hub.day /\ hub'.open = hub.open
        /\ UNCHANGED <<seat, input, reader>>
    BY <1>4, PingsDoes DEF Arrives
  <2>2. Ids(f) = {} /\ f.t # "deliver"
    BY DEF Ids
  <2> QED
    BY <2>1, <2>2, KeptPut
<1>5. CASE HubTakes
  BY <1>5, KeptTakes
<1>6. CASE Hangup
  BY <1>6, HangupDoes, KeptOver DEF InTouch
<1>7. CASE Read
  BY <1>7, KeptRead
<1>8. CASE ReadFails \/ ReadEnd
  BY <1>8, ReaderEndsDoes, KeptOver DEF InTouch
<1>9. CASE Wake
  BY <1>9, WakeDoes, KeptOver DEF InTouch
<1>10. ASSUME Ends, UNCHANGED <<hub, seat, reader, wake, rosters>> PROVE Kept'
  BY <1>10, EndsDoes, KeptOver DEF InTouch
<1>11. CASE Enter
  <2>1. CASE Ends /\ UNCHANGED seat
    BY <1>10, <1>11, <2>1, EnterDoes
  <2>2. CASE ~(Ends /\ UNCHANGED seat)
    BY <1>1, <1>11, <2>2, EnterDoes DEF InTouch
  <2> QED
    BY <2>1, <2>2
<1>12. CASE Register
  BY <1>1, <1>12, RegisterDoes DEF InTouch
<1>13. CASE Send
  <2>1. CASE Ends
    BY <1>10, <1>13, <2>1, SendDoes
  <2>2. CASE ~Ends
    BY <1>1, <1>13, <2>2, SendDoes DEF InTouch
  <2> QED
    BY <2>1, <2>2
<1>14. CASE Poll
  BY <1>1, <1>14, PollDoes DEF InTouch
<1>15. CASE SeesHangup \/ Quit
  BY <1>10, <1>15 DEF SeesHangup, Quit
<1>16. CASE UNCHANGED vars
  BY <1>1, <1>16 DEF vars, InTouch
<1> QED
  BY <1>2, <1>3, <1>4, <1>5, <1>6, <1>7, <1>8, <1>9, <1>11, <1>12, <1>13, <1>14, <1>15, <1>16
  DEF Next, ReaderStep

-----------------------------------------------------------------------------
(* What /last shows.                                                       *)

\* A sequence that rises through an interval has each place's value.
LEMMA RisingInterval ==
  ASSUME NEW s \in Seq(Nat), Rising(s), NEW a \in Nat, NEW b \in Nat, ToSet(s) = a .. b,
         NEW i \in 1 .. Len(s)
  PROVE  s[i] = a + i - 1
<1>1. i \in Nat /\ Len(s) \in Nat /\ i <= Len(s) /\ 1 <= i
  OBVIOUS
<1>2. s[i] \in a .. b /\ s[i] \in Nat
  BY ToSetIs
<1> DEFINE S == a .. s[i]
           g == [k \in 1 .. i |-> s[k]]
<1>3. \A k \in 1 .. i : k \in 1 .. Len(s) /\ k \in Int /\ k <= i
  BY <1>1
<1>4. \A k \in 1 .. i : s[k] \in S
  <2> TAKE k \in 1 .. i
  <2>1. s[k] \in a .. b
    BY <1>3, ToSetIs
  <2>2. k = i \/ s[k] < s[i]
    BY <1>3 DEF Rising
  <2> QED
    BY <1>2, <2>1, <2>2
<1>5. \A x \in S : \E k \in 1 .. i : s[k] = x
  <2> TAKE x \in S
  <2>1. x \in a .. b
    BY <1>2
  <2>2. PICK k \in 1 .. Len(s) : s[k] = x
    BY <2>1, ToSetIs
  <2>3. ~(i < k)
    <3>1. i < k => s[i] < s[k]
      BY DEF Rising
    <3> QED
      BY <1>2, <2>2, <3>1
  <2>4. k \in 1 .. i
    BY <1>1, <2>3
  <2> QED
    BY <2>2, <2>4
<1>6. \A k, l \in 1 .. i : s[k] = s[l] => k = l
  <2> TAKE k, l \in 1 .. i
  <2>1. (k < l => s[k] < s[l]) /\ (l < k => s[l] < s[k])
    BY <1>3 DEF Rising
  <2>2. s[k] \in Int /\ s[l] \in Int /\ k \in Int /\ l \in Int
    BY <1>3, <1>4
  <2> QED
    BY <2>1, <2>2
<1> HIDE DEF S
<1>7. g \in Bijection(1 .. i, S)
  <2>1. g \in [1 .. i -> S]
    BY <1>4
  <2> QED
    BY <1>5, <1>6, <2>1, Fun_IsBij
<1>8. Cardinality(S) = i
  BY <1>1, <1>7, FS_CountingElements DEF ExistsBijection
<1>9. Cardinality(S) = s[i] - a + 1
  BY <1>2, FS_Interval DEF S
<1> QED
  BY <1>1, <1>2, <1>8, <1>9

\* The ring is a run of messages, up to the last or the last but one.
RunsTo(a, b) ==
  /\ a \in Nat \ {0} /\ b \in Nat /\ a <= b + 1
  /\ b <= Len(hub.day) /\ Len(hub.day) <= b + 1
  /\ ToSet(seat.ring) = a .. b /\ Len(seat.ring) = b - a + 1
  /\ \A i \in 1 .. Len(seat.ring) : seat.ring[i] = a + i - 1

LEMMA RingRuns ==
  ASSUME Typed, Kept, Tui, InTouch, Cardinality(OnTheWay) <= 1,
         \A i \in 1 .. seat.since : hub.day[i] # "me"
  PROVE  \E a, b : RunsTo(a, b)
<1> DEFINE r == seat.ring
           m == Len(r)
           l == Len(hub.day)
<1>1. r \in Seq(Nat) /\ m \in Nat /\ l \in Nat /\ From = 2 /\ 2 <= l
  BY DEF Typed, Seats, Hubs, From, Kept
<1>2. /\ Rising(r)
      /\ \A id \in ToSet(r), k \in OnTheWay : id < k
      /\ Held \subseteq 2 .. l
      /\ \A id \in 2 .. l : id \in Held \/ Dropped(id)
  BY <1>1, KeptIs
<1> HIDE DEF r, m, l
<1>3. CASE m = 0
  <2>1. r = <<>> /\ ToSet(r) = {}
    BY <1>1, <1>3 DEF ToSet, m
  <2> DEFINE a == l + 1
  <2>2. /\ a \in Nat \ {0} /\ a <= l + 1 /\ l <= l /\ l <= l + 1 /\ a .. l = {} /\ l - a + 1 = 0
        /\ 1 .. m = {}
    BY <1>1, <1>3
  <2>3. RunsTo(a, l)
    BY <1>1, <1>3, <2>1, <2>2 DEF RunsTo, r, m, l
  <2> QED
    BY <2>3
<1>4. CASE m # 0
  <2> DEFINE a == r[1]
             b == r[m]
  <2>1. 1 \in 1 .. m /\ m \in 1 .. m
    BY <1>1, <1>4
  <2>2. a \in Nat /\ b \in Nat /\ a \in ToSet(r) /\ b \in ToSet(r)
    BY <1>1, <2>1, ToSetIs DEF m
  <2>3. ToSet(r) \subseteq 2 .. l /\ OnTheWay \subseteq 2 .. l
    BY <1>2 DEF Held, r
  <2>4. \A x \in ToSet(r) : a <= x /\ x <= b
    <3> TAKE x \in ToSet(r)
    <3>1. PICK i \in 1 .. m : r[i] = x
      BY <1>1, ToSetIs DEF m
    <3>2. (i # 1 => a < x) /\ (i # m => x < b)
      <4>1. (i # 1 => 1 < i) /\ (i # m => i < m)
        BY <1>1
      <4> QED
        BY <1>1, <1>2, <2>1, <3>1, <4>1 DEF Rising, m
    <3>3. x \in Int
      BY <2>3
    <3> QED
      BY <2>2, <3>1, <3>2, <3>3
  <2>5. \A x : Dropped(x) => x < a
    BY DEF Dropped, r
  <2>6. a \in 2 .. l /\ b \in 2 .. l /\ a <= b
    BY <2>2, <2>3, <2>4
  <2> HIDE DEF a, b
  <2>7. ToSet(r) = a .. b
    <3>1. \A x \in ToSet(r) : x \in a .. b
      <4> TAKE x \in ToSet(r)
      <4>1. x \in Int /\ a <= x /\ x <= b
        BY <2>3, <2>4
      <4> QED
        BY <2>2, <4>1
    <3>2. \A x \in a .. b : x \in ToSet(r)
      <4> TAKE x \in a .. b
      <4>1. x \in 2 .. l /\ ~(x < a)
        BY <1>1, <2>6
      <4>2. x \notin OnTheWay
        <5>1. x \in OnTheWay => b < x
          BY <1>2, <2>2
        <5> QED
          BY <2>6, <5>1
      <4> QED
        BY <1>2, <2>5, <4>1, <4>2 DEF Held, r
    <3> QED
      BY <3>1, <3>2
  <2>8. \A i \in 1 .. m : r[i] = a + i - 1
    BY <1>1, <1>2, <2>2, <2>7, RisingInterval DEF m
  <2>9. m = b - a + 1
    <3>1. b = a + m - 1
      BY <2>1, <2>8 DEF b
    <3> QED
      BY <1>1, <2>2, <3>1
  <2>10. l <= b + 1
    <3> SUFFICES ASSUME b + 1 < l PROVE FALSE
      BY <1>1, <2>6
    <3> DEFINE c == b + 1
    <3>1. c \in 2 .. l /\ l \in 2 .. l /\ c # l /\ c \notin a .. b /\ l \notin a .. b
          /\ ~(c < a) /\ ~(l < a)
      BY <1>1, <2>6
    <3> HIDE DEF c
    <3>2. c \in OnTheWay /\ l \in OnTheWay
      BY <1>2, <2>5, <2>7, <3>1 DEF Held, r
    <3>3. IsFiniteSet(OnTheWay)
      <4>1. IsFiniteSet(2 .. l) /\ OnTheWay \in SUBSET (2 .. l)
        BY <1>1, <2>3, FS_Interval
      <4> QED
        BY <4>1, FS_Subset
    <3>4. Cardinality({c, l}) <= Cardinality(OnTheWay) /\ Cardinality(OnTheWay) \in Nat
      <4>1. {c, l} \in SUBSET OnTheWay
        BY <3>2
      <4> QED
        BY <3>3, <4>1, FS_Subset, FS_CardinalityType
    <3>5. Cardinality({c} \cup {l}) = 1 + 1
      <4>1. IsFiniteSet({c}) /\ Cardinality({c}) = 1 /\ l \notin {c}
        BY <3>1, FS_Singleton
      <4>2. Cardinality({c} \cup {l}) = Cardinality({c}) + 1
        BY <4>1, FS_AddElement
      <4> QED
        BY <4>1, <4>2
    <3>6. {c} \cup {l} = {c, l}
      OBVIOUS
    <3> QED
      BY <3>4, <3>5, <3>6
  <2>11. RunsTo(a, b)
    BY <1>1, <2>6, <2>7, <2>8, <2>9, <2>10 DEF RunsTo, r, m, l
  <2> QED
    BY <2>11
<1> QED
  BY <1>3, <1>4

\* With such a ring the n latest messages are shown, or all.
LEMMA RecentRuns ==
  ASSUME Typed, NEW a, NEW b, RunsTo(a, b), NEW n \in Nat \ {0}
  PROVE  \E lo, hi \in Nat : /\ Recent(n) = lo .. hi /\ lo <= hi + 1
                             /\ hi - lo + 1 = IF n <= Len(hub.day) THEN n ELSE Len(hub.day)
<1> DEFINE r == seat.ring
           m == Len(r)
           l == Len(hub.day)
<1>1. /\ r \in Seq(Nat) /\ m \in Nat /\ l \in Nat /\ Transcript = 1 .. l
  BY DEF Typed, Seats, Hubs, Transcript
<1>2. /\ a \in Nat \ {0} /\ b \in Nat /\ a <= b + 1 /\ b <= l /\ l <= b + 1
      /\ ToSet(r) = a .. b /\ m = b - a + 1
      /\ \A i \in 1 .. m : r[i] = a + i - 1
  BY DEF RunsTo
<1>3. Recent(n) = IF m >= n THEN ToSet(SubSeq(r, m - n + 1, m))
                  ELSE ToSet(r) \cup Largest(Transcript \ ToSet(r), n - m)
  BY DEF Recent
<1> HIDE DEF r, m, l
<1>4. CASE m >= n
  <2> DEFINE k == m - n + 1
             t == SubSeq(r, k, m)
  <2>1. k \in 1 .. m /\ m - k + 1 = n
    BY <1>1, <1>4
  <2> HIDE DEF k
  <2>2. t \in Seq(Nat) /\ Len(t) = n /\ \A i \in 1 .. n : t[i] = r[k + i - 1]
    <3>1. k \in 1 .. Len(r) /\ m \in k - 1 .. Len(r)
      BY <1>1, <2>1 DEF m
    <3>2. t \in Seq(Nat) /\ Len(t) = m - k + 1 /\ \A i \in 1 .. m - k + 1 : t[i] = r[k + i - 1]
      BY <1>1, <3>1, SubSeqProperties
    <3> QED
      BY <2>1, <3>2
  <2>3. \A i \in 1 .. n : k + i - 1 \in 1 .. m /\ a + (k + i - 1) - 1 = b - n + i
    BY <1>1, <1>2, <1>4 DEF k
  <2> DEFINE lo == b - n + 1
  <2>4. lo \in Nat /\ b - lo + 1 = n /\ n <= l /\ lo <= b + 1
    BY <1>1, <1>2, <1>4
  <2> HIDE DEF t
  <2>5. \A i \in 1 .. n : t[i] = b - n + i
    BY <1>2, <2>2, <2>3
  <2>6. \A x \in ToSet(t) : x \in lo .. b
    <3> TAKE x \in ToSet(t)
    <3>1. PICK i \in 1 .. n : t[i] = x
      BY <2>2, ToSetIs
    <3> QED
      BY <1>2, <2>5, <3>1
  <2>7. \A x \in lo .. b : x \in ToSet(t)
    <3> TAKE x \in lo .. b
    <3>1. x - b + n \in 1 .. n /\ b - n + (x - b + n) = x
      BY <1>2, <2>4
    <3>2. t[x - b + n] = x
      BY <2>5, <3>1
    <3> QED
      BY <2>2, <3>1, <3>2, ToSetIs
  <2>8. Recent(n) = lo .. b
    BY <1>3, <1>4, <2>6, <2>7 DEF k, t
  <2> HIDE DEF lo
  <2> QED
    BY <1>2, <2>4, <2>8 DEF l
<1>5. CASE m < n
  <2> DEFINE S == (1 .. l) \ (a .. b)
             T(i) == {j \in S : j > i}
             lo == IF n <= l THEN l - n + 1 ELSE 1
  <2>1. \A i \in S : i \in Nat /\ 1 <= i /\ i <= l /\ (i < a \/ b < i)
    BY <1>1, <1>2
  <2>2. ASSUME NEW i \in S PROVE Cardinality(T(i)) < n - m <=> l - n < i
    <3>1. T(i) = (i + 1 .. l) \ (a .. b)
      BY <1>1, <2>1
    <3>2. IsFiniteSet(i + 1 .. l) /\ Cardinality(i + 1 .. l) = l - i
      BY <1>1, <2>1, FS_Interval
    <3>3. Cardinality(T(i)) = (l - i) - Cardinality((i + 1 .. l) \cap (a .. b))
      BY <3>1, <3>2, FS_Difference
    <3>4. CASE i < a
      <4>1. (i + 1 .. l) \cap (a .. b) = a .. b
        BY <1>1, <1>2, <2>1, <3>4
      <4>2. Cardinality(a .. b) = m
        <5>1. Cardinality(a .. b) = IF a > b THEN 0 ELSE b - a + 1
          BY <1>2, FS_Interval
        <5> QED
          BY <1>2, <5>1
      <4> HIDE DEF S, T
      <4>3. Cardinality(T(i)) = (l - i) - m
        BY <3>3, <4>1, <4>2
      <4>4. i \in Nat
        BY <2>1
      <4> QED
        BY <1>1, <4>3, <4>4
    <3>5. CASE b < i
      <4>1. (i + 1 .. l) \cap (a .. b) = {}
        BY <1>1, <1>2, <2>1, <3>5
      <4>2. Cardinality({}) = 0
        BY FS_EmptySet
      <4>3. i = l
        BY <1>1, <1>2, <2>1, <3>5
      <4> HIDE DEF S, T
      <4>4. Cardinality(T(i)) = (l - i) - 0
        BY <3>3, <4>1, <4>2
      <4> QED
        BY <1>1, <1>5, <4>3, <4>4
    <3> QED
      BY <2>1, <3>4, <3>5
  <2>3. Largest(S, n - m) = {i \in S : l - n < i}
    BY <2>2 DEF Largest
  <2>4. \A i \in a .. b : l - n < i /\ i \in 1 .. l
    BY <1>1, <1>2, <1>5
  <2>5. (a .. b) \cup {i \in S : l - n < i} = {i \in 1 .. l : l - n < i}
    BY <2>4
  <2>6. {i \in 1 .. l : l - n < i} = lo .. l
    BY <1>1
  <2>7. Recent(n) = lo .. l
    <3>1. Recent(n) = (a .. b) \cup Largest(S, n - m)
      <4>1. ~(m >= n)
        BY <1>1, <1>5
      <4> QED
        BY <1>1, <1>2, <1>3, <4>1
    <3> QED
      BY <2>3, <2>5, <2>6, <3>1
  <2>8. lo \in Nat /\ lo <= l + 1 /\ l - lo + 1 = IF n <= l THEN n ELSE l
    BY <1>1
  <2> HIDE DEF lo
  <2> QED
    BY <1>1, <2>7, <2>8 DEF l
<1> QED
  BY <1>1, <1>4, <1>5

LEMMA MinOfTwo ==
  ASSUME NEW m \in Nat, NEW n \in Nat
  PROVE  Min({m, n}) = IF m <= n THEN m ELSE n
<1> DEFINE k == IF m <= n THEN m ELSE n
<1>1. k \in {m, n} /\ \A y \in {m, n} : k =< y
  OBVIOUS
<1>2. \A x \in {m, n} : (\A y \in {m, n} : x =< y) => x = k
  OBVIOUS
<1> HIDE DEF k
<1>3. Min({m, n}) = k
  BY <1>1, <1>2 DEF Min
<1> QED
  BY <1>3 DEF k

LEMMA KeptFollows ==
  ASSUME Typed, Kept
  PROVE  RingIsComplete
<1>1. seat.since \in Nat /\ Len(hub.day) \in Nat
  BY DEF Typed, Seats, Hubs
<1>2. RingMissesNothing
  <2> SUFFICES ASSUME Tui, InTouch
               PROVE  /\ Rising(seat.ring)
                      /\ \A id \in seat.since + 1 .. Len(hub.day) : id \in Held \/ Dropped(id)
    BY DEF RingMissesNothing, Held, Dropped, Rising
  <2>1. seat.since + 1 .. Len(hub.day) \subseteq From .. Len(hub.day)
    <3>1. From \in Int /\ From <= seat.since + 1
      BY <1>1 DEF From, Kept
    <3> QED
      BY <1>1, <3>1
  <2> QED
    BY <2>1, KeptIs
<1>3. LastLeavesNoGap
  <2> SUFFICES ASSUME Tui, InTouch, Cardinality(OnTheWay) <= 1,
                      \A i \in 1 .. seat.since : hub.day[i] # "me",
                      NEW n \in 1 .. MaxDay
               PROVE  /\ Cardinality(Recent(n)) = Min({n, Len(hub.day)})
                      /\ \A i, j \in Recent(n) : i .. j \subseteq Recent(n)
    BY DEF LastLeavesNoGap
  <2>1. n \in Nat \ {0}
    BY SeatAssumption
  <2>2. PICK a, b : RunsTo(a, b)
    BY RingRuns
  <2>3. PICK lo, hi \in Nat : /\ Recent(n) = lo .. hi /\ lo <= hi + 1
                              /\ hi - lo + 1 = IF n <= Len(hub.day) THEN n ELSE Len(hub.day)
    BY <2>1, <2>2, RecentRuns
  <2>4. Min({n, Len(hub.day)}) = hi - lo + 1
    BY <1>1, <2>1, <2>3, MinOfTwo
  <2>5. Cardinality(lo .. hi) = hi - lo + 1
    BY <2>3, FS_Interval
  <2>6. \A i, j \in lo .. hi : i .. j \subseteq lo .. hi
    BY <2>3
  <2> QED
    BY <2>3, <2>4, <2>5, <2>6
<1> QED
  BY <1>2, <1>3 DEF RingIsComplete

-----------------------------------------------------------------------------
(* The theorems.                                                           *)

\* The day the seat joins, and the backlog it is sent.
LEMMA FirstDay ==
  ASSUME NEW last \in {"me", "peer"}, NEW day,
         day = Append([i \in 1 .. BacklogCap |-> "peer"], last)
  PROVE  /\ day \in Seq({"peer", "me"}) /\ Len(day) = BacklogCap + 1 /\ day[BacklogCap + 1] = last
         /\ \A i \in 1 .. BacklogCap : day[i] = "peer"
<1> DEFINE s == [i \in 1 .. BacklogCap |-> "peer"]
<1>1. BacklogCap \in Nat
  BY SeatAssumption
<1>2. s \in Seq({"peer", "me"}) /\ Len(s) = BacklogCap /\ \A i \in 1 .. BacklogCap : s[i] = "peer"
  BY <1>1
<1> HIDE DEF s
<1>3. day = Append(s, last)
  BY DEF s
<1> QED
  BY <1>1, <1>2, <1>3, AppendProperties

LEMMA FirstBacklog ==
  ASSUME NEW last \in {"me", "peer"}, NEW day,
         day = Append([i \in 1 .. BacklogCap |-> "peer"], last)
  PROVE  /\ Backlog(day) \in Seq(Nat) /\ Rising(Backlog(day))
         /\ ToSet(Backlog(day)) \subseteq 2 .. Len(day)
         /\ last = "peer" => ToSet(Backlog(day)) = 2 .. Len(day)
<1> DEFINE n == IF last = "me" THEN BacklogCap - 1 ELSE BacklogCap
           s == [i \in 1 .. n |-> i + 1]
<1>1. BacklogCap \in Nat \ {0} /\ n \in Nat /\ Len(day) = BacklogCap + 1
      /\ day[Len(day)] = last /\ 2 .. Len(day) = 2 .. BacklogCap + 1
  BY SeatAssumption, FirstDay
<1>2. \A i \in 1 .. n : Len(day) - BacklogCap + i = i + 1 /\ i + 1 \in Nat /\ i \in Int
  BY <1>1
<1>3. Backlog(day) = s
  BY <1>1, <1>2 DEF Backlog
<1>4. s \in Seq(Nat) /\ Len(s) = n /\ \A i \in 1 .. n : s[i] = i + 1
  BY <1>1, <1>2
<1> HIDE DEF s
<1>5. Rising(s)
  BY <1>2, <1>4 DEF Rising
<1>6. \A x \in ToSet(s) : x \in 2 .. n + 1
  <2> TAKE x \in ToSet(s)
  <2>1. PICK i \in 1 .. n : s[i] = x
    BY <1>4, ToSetIs
  <2> QED
    BY <1>1, <1>4, <2>1
<1>7. \A x \in 2 .. n + 1 : x \in ToSet(s)
  <2> TAKE x \in 2 .. n + 1
  <2>1. x - 1 \in 1 .. n /\ (x - 1) + 1 = x
    BY <1>1
  <2>2. s[x - 1] = x
    BY <1>4, <2>1
  <2> QED
    BY <1>4, <2>1, <2>2, ToSetIs
<1>8. 2 .. n + 1 \subseteq 2 .. BacklogCap + 1 /\ (last = "peer" => n = BacklogCap)
  BY <1>1
<1> QED
  BY <1>1, <1>3, <1>4, <1>5, <1>6, <1>7, <1>8

LEMMA InitInv ==
  ASSUME Init
  PROVE  Inv
<1>1. PICK mode \in {"tui", "classic"}, peers \in SUBSET Peer, last \in {"me", "peer"} :
        LET day == Append([i \in 1 .. BacklogCap |-> "peer"], last) IN
        /\ hub = [day |-> day, peers |-> peers, goal |-> 0, open |-> TRUE, events |-> 0]
        /\ seat = [mode |-> mode, since |-> Len(day), ring |-> <<>>, peers |-> peers, goal |-> 0,
                   pending |-> {}, seq |-> 0, poll |-> 0, closed |-> FALSE]
        /\ toSeat = IF Backlog(day) = <<>> THEN <<>> ELSE <<[t |-> "deliver", ids |-> Backlog(day)]>>
  BY DEF Init
<1> DEFINE day == Append([i \in 1 .. BacklogCap |-> "peer"], last)
           ids == Backlog(day)
           f == [t |-> "deliver", ids |-> ids]
<1>2. /\ day \in Seq({"peer", "me"}) /\ Len(day) = BacklogCap + 1 /\ day[BacklogCap + 1] = last
      /\ \A i \in 1 .. BacklogCap : day[i] = "peer"
  BY FirstDay
<1>3. /\ ids \in Seq(Nat) /\ Rising(ids) /\ ToSet(ids) \subseteq 2 .. Len(day)
      /\ last = "peer" => ToSet(ids) = 2 .. Len(day)
  BY FirstBacklog
<1>4. BacklogCap \in Nat \ {0} /\ RingCap \in Nat \ {0}
  BY SeatAssumption
<1>5. /\ hub = [day |-> day, peers |-> peers, goal |-> 0, open |-> TRUE, events |-> 0]
      /\ seat = [mode |-> mode, since |-> Len(day), ring |-> <<>>, peers |-> peers, goal |-> 0,
                 pending |-> {}, seq |-> 0, poll |-> 0, closed |-> FALSE]
      /\ toSeat = IF ids = <<>> THEN <<>> ELSE <<f>>
  BY <1>1
<1>6. /\ toHub = <<>> /\ input = [pc |-> "idle", out |-> <<>>, echo |-> {}]
      /\ reader = "reads" /\ wake = FALSE /\ rosters = {}
  BY DEF Init, Idle
<1> HIDE DEF day, ids
<1>7. f \in Incoming /\ Kind(f) = "deliver" /\ f.t = "deliver" /\ f.ids = ids /\ Ids(f) = ToSet(ids)
  BY <1>3 DEF Incoming, Kind, Ids
<1> HIDE DEF f
<1>8. /\ toSeat \in Seq(Incoming)
      /\ toSeat = <<>> \/ (toSeat = <<f>> /\ Len(toSeat) = 1 /\ toSeat[1] = f)
  <2>1. <<f>> \in Seq(Incoming) /\ Len(<<f>>) = 1 /\ <<f>>[1] = f
    BY <1>7
  <2>2. toSeat = <<>> \/ toSeat = <<f>>
    BY <1>5
  <2>3. <<>> \in Seq(Incoming)
    OBVIOUS
  <2>4. CASE toSeat = <<>>
    BY <2>3, <2>4
  <2>5. CASE toSeat = <<f>>
    BY <2>1, <2>5
  <2> QED
    BY <2>2, <2>4, <2>5
<1>9. \A i \in 1 .. Len(toSeat) : i = 1 /\ toSeat[i] = f
  <2>1. CASE toSeat = <<>>
    <3>1. 1 .. Len(toSeat) = {}
      BY <2>1
    <3> QED
      BY <3>1
  <2>2. CASE Len(toSeat) = 1 /\ toSeat[1] = f
    BY <2>2
  <2> QED
    BY <1>8, <2>1, <2>2
<1>10. Typed
  <2>1. hub \in Hubs
    BY <1>2, <1>5 DEF Hubs
  <2>2. seat \in Seats /\ seat.poll <= 0
    BY <1>2, <1>4, <1>5 DEF Seats
  <2>3. input \in Inputs /\ toHub \in Seq(Outgoing)
    BY <1>6 DEF Inputs
  <2> QED
    BY <1>6, <1>8, <2>1, <2>2, <2>3 DEF Typed
<1>11. At(toSeat, Kinds) = {} /\ At(toSeat, {"err", "echo"}) = {}
  BY <1>7, <1>9 DEF At, Kinds, Asking, Answers
<1>12. Of(toSeat, Kinds) = {} /\ Of(toSeat, {"err", "echo"}) = {} /\ Single(toSeat)
  BY <1>11 DEF Of, Single
<1>13. Numbered
  <2>1. Single(<<>>)
    BY OfNone DEF Single
  <2> QED
    BY <1>5, <1>6, <1>12, <2>1, OfNone DEF Numbered, Numbers
<1>14. Owed
  BY <1>5, <1>6, <1>12, OfNone DEF Owed
<1>15. Ended
  <2>1. Len(<<>>) = 0
    OBVIOUS
  <2> QED
    BY <1>4, <1>5, <2>1 DEF Ended
<1>16. Told
  <2>1. Goals(toSeat) = {} /\ \A p : Presence(toSeat, p) = {}
    BY <1>7, <1>9 DEF Goals, Presence, AboutGoal, AboutPeer
  <2> QED
    BY <1>5, <2>1 DEF Told, GoalHeard, PeerHeard
<1>17. Kept
  <2>1. 2 <= seat.since /\ seat.since <= Len(hub.day) /\ hub.day = day /\ seat.since = Len(day)
        /\ seat.ring = <<>>
    BY <1>2, <1>4, <1>5
  <2>2. ToSet(<<>>) = {} /\ Rising(<<>>)
    BY DEF ToSet, Rising
  <2>3. Way(toSeat) = ToSet(ids)
    <3>1. CASE ids = <<>>
      BY <1>5, <2>2, <3>1, WayNone
    <3>2. CASE ids # <<>>
      <4>1. toSeat = <<f>> /\ 1 \in 1 .. Len(toSeat) /\ toSeat[1] = f
        BY <1>5, <3>2
      <4> QED
        BY <1>7, <1>9, <4>1 DEF Way
    <3> QED
      BY <3>1, <3>2
  <2>4. Ascends(toSeat)
    <3>1. \A i, j \in 1 .. Len(toSeat) : ~(i < j)
      BY <1>9
    <3> QED
      BY <1>3, <1>7, <1>9, <3>1 DEF Ascends
  <2>5. Held = ToSet(ids)
    BY <2>1, <2>2, <2>3, OnTheWayIs DEF Held
  <2>6. \A id \in From .. Len(hub.day) : id \in Held
    <3>1. CASE last = "peer"
      <4>1. \A i \in 1 .. Len(day) : day[i] # "me"
        BY <1>2, <1>4, <3>1
      <4>2. From = 2
        BY <2>1, <4>1 DEF From
      <4> QED
        BY <1>3, <2>1, <2>5, <3>1, <4>2
    <3>2. CASE last = "me"
      <4>1. BacklogCap + 1 \in 1 .. Len(day)
        BY <1>2, <1>4
      <4>2. From = Len(day) + 1
        BY <1>2, <2>1, <3>2, <4>1 DEF From
      <4>3. From .. Len(hub.day) = {}
        BY <1>2, <1>4, <2>1, <4>2
      <4> QED
        BY <4>3
    <3> QED
      BY <3>1, <3>2
  <2> QED
    BY <1>3, <2>1, <2>2, <2>4, <2>5, <2>6, KeptIs
<1> QED
  BY <1>10, <1>13, <1>14, <1>15, <1>16, <1>17 DEF Inv

LEMMA NextInv ==
  ASSUME Inv, [Next]_vars
  PROVE  Inv'
<1>1. Typed /\ Numbered /\ Owed /\ Ended /\ Told /\ Kept
  BY DEF Inv
<1>2. Typed' /\ Numbered'
  BY <1>1, NumberedNext
<1>3. Owed' /\ Ended' /\ Told' /\ Kept'
  BY <1>1, OwedNext, EndedNext, ToldNext, KeptNext
<1> QED
  BY <1>2, <1>3 DEF Inv

\* The invariant of the seat: what is under way between its two threads and the
\* hub (observer.py, _run_tui and the line mode's reader).
THEOREM SeatInvariance == Spec => []Inv
<1>1. Init => Inv
  BY InitInv
<1>2. Inv /\ [Next]_vars => Inv'
  BY NextInv
<1> QED
  BY <1>1, <1>2, PTL DEF Spec

\* observer.py, the reader of _run_tui: an echo is owed for just the says under
\* way, a refused one is forgotten, and the band's polls never print a roster.
THEOREM AnswersFindTheirAskerAlways == Spec => []AnswersFindTheirAsker
<1>1. Inv => AnswersFindTheirAsker
  BY AnswersFollow DEF Inv
<1> QED
  BY <1>1, SeatInvariance, PTL

\* observer.py, the events and rosters the reader takes: with nothing on its
\* way the seat has the hub's peers and goal, whatever overtook what.
THEOREM KnowsTheFloorAlways == Spec => []KnowsTheFloor
<1>1. Inv => KnowsTheFloor
  BY ToldFollows DEF Inv
<1> QED
  BY <1>1, SeatInvariance, PTL

\* observer.py, record_own and recent: the ring misses no message, and /last
\* shows the n latest without a gap.
THEOREM RingIsCompleteAlways == Spec => []RingIsComplete
<1>1. Inv => RingIsComplete
  BY KeptFollows DEF Inv
<1> QED
  BY <1>1, SeatInvariance, PTL

=============================================================================
