---------------------------- MODULE HubFloorProofs ----------------------------
(***************************************************************************)
(* The hub implements the floor, for any number of participants, any caps  *)
(* and any frames: every step of module Hub is a step of module Floor, or  *)
(* leaves it alone.  Its observers see every say, what leaves a box is     *)
(* handed to its owner or counted as lost, and rounds count who was woken. *)
(*                                                                         *)
(* A handler acts on one participant, whose box stays as it is or gives a  *)
(* slice, and leaves every other seat untouched; a say, a note and a goal  *)
(* reach others, each in one of three ways.  The lemmas follow a handler   *)
(* through the operators it is composed of and say which of these it is.   *)
(* Those about what a step reports (Adds) come first.                      *)
(***************************************************************************)
EXTENDS HubProofs, HubFloor

IsAgent(h, n) == h.reg[n].where # "none" /\ h.reg[n].kind = "agent"

ModeOf(h, n) ==
  IF h.reg[n].where = "dead" \/ ~Reachable(h, n) THEN "away"
  ELSE IF h.reg[n].state = "idle" THEN "waiting" ELSE "engaged"

\* The seat of an agent in some mode whose registration is r.
BoxSeat(mode, r) == [mode |-> mode, wakes |-> Ids(r.queue), asides |-> Ids(r.context),
                     lost |-> r.dropped + r.evicted]

Ready(h, q) == h.reg[q].state = "idle" /\ Reachable(h, q)

\* A box without queued wakes has none to announce, and that of nobody is empty.
Emptied(p) == /\ p.queue = << >> /\ p.context = << >> /\ p.dropped = 0 /\ p.evicted = 0

Even(r) == /\ r.queue = << >> => r.dropped = 0
           /\ r.where = "none" => Emptied(r)

SameBox(r, p) == /\ p.queue = r.queue /\ p.context = r.context
                 /\ p.dropped = r.dropped /\ p.evicted = r.evicted

-----------------------------------------------------------------------------
(* What an operator reports.                                               *)

\* The records of accepted says.
Routes(h) == {r \in h.sent : r.t = "msg"}

\* Deliveries may be added, and none is taken back; no say is recorded.
Adds(h, g) ==
  /\ DOMAIN g = DOMAIN h
  /\ "sent" \in DOMAIN h => Given(h) \subseteq Given(g) /\ Routes(g) = Routes(h)

\* The transcript has it that n was handed the messages in S, if no others.
Handing(h, n, S) ==
  \E f \in Given(h) : f.sink = Transcript /\ f.name = n /\ S \subseteq f.msgs

LEMMA AddsTransitive ==
  ASSUME NEW h, NEW g, NEW i, Adds(h, g), Adds(g, i)
  PROVE  Adds(h, i)
BY DEF Adds

LEMMA HandingLater ==
  ASSUME NEW h, "sent" \in DOMAIN h, NEW g, Adds(h, g), NEW n, NEW S, Handing(h, n, S)
  PROVE  Handing(g, n, S)
BY DEF Adds, Handing

LEMMA SameAdds ==
  ASSUME NEW h, NEW g, DOMAIN g = DOMAIN h, "sent" \in DOMAIN h => g.sent = h.sent
  PROVE  Adds(h, g)
BY DEF Adds, Given, Routes

LEMMA PushAdds ==
  ASSUME NEW h, NEW frames, NEW records, \A f \in frames \cup records : f.t # "msg"
  PROVE  /\ Adds(h, Push(h, frames, records))
         /\ "sent" \in DOMAIN h => records \subseteq Push(h, frames, records).sent
<1> DEFINE p == Push(h, frames, records)
           new == {f \in frames : Takes(h, f.sink)} \cup records
           conn == [c \in Conn |-> IF c \in {f.sink : f \in frames}
                                   THEN Loaded(h, c) ELSE h.conn[c]]
<1>1. new \subseteq frames \cup records /\ records \subseteq new
  OBVIOUS
<1>2. p = [h EXCEPT !.conn = conn, !.sent = h.sent \cup new]
  BY DEF Push
<1> HIDE DEF new, conn, p
<1>3. DOMAIN p = DOMAIN h /\ ("sent" \in DOMAIN h => p.sent = h.sent \cup new)
  BY <1>2
<1>4. Adds(h, p)
  BY <1>1, <1>3 DEF Adds, Given, Routes
<1>5. QED
  BY <1>1, <1>3, <1>4 DEF p

LEMMA EmitAdds ==
  ASSUME NEW h, NEW event, NEW about
  PROVE  /\ \A skip : Adds(h, EmitSkipping(h, event, about, skip))
         /\ Adds(h, Emit(h, event, about))
<1>1. ASSUME NEW skip
      PROVE  Adds(h, EmitSkipping(h, event, about, skip))
  <2> DEFINE seen(s) == [sink |-> s, t |-> "event", event |-> event, name |-> about]
             seats   == {h.reg[n].client : n \in Observers(h) \ skip}
             frames  == {seen(c) : c \in seats \cap Conn}
             records == {seen(Transcript)}
  <2>1. \A f \in frames \cup records : f.t # "msg"
    OBVIOUS
  <2>2. EmitSkipping(h, event, about, skip) = Push(h, frames, records)
    BY DEF EmitSkipping
  <2> HIDE DEF frames, records
  <2>3. QED
    BY <2>1, <2>2, PushAdds
<1>2. QED
  BY <1>1 DEF Emit

LEMMA ReplyAdds ==
  ASSUME NEW h, NEW c, NEW from, NEW verdict \in {"ok", "err"}
  PROVE  Adds(h, Reply(h, c, from, verdict))
<1> DEFINE frames == {[sink |-> c, t |-> verdict, re |-> from]}
<1>1. \A f \in frames \cup {} : f.t # "msg"
  OBVIOUS
<1>2. Reply(h, c, from, verdict) = Push(h, frames, {})
  BY DEF Reply
<1> HIDE DEF frames
<1>3. QED
  BY <1>1, <1>2, PushAdds

LEMMA DeliverAdds ==
  ASSUME NEW h, NEW batch
  PROVE  /\ Adds(h, Deliver(h, batch))
         /\ "sent" \in DOMAIN h =>
              \A n \in DOMAIN batch : Handing(Deliver(h, batch), n, batch[n])
<1> DEFINE to == DOMAIN batch
           frame(s, n) == [sink |-> s, t |-> "deliver", name |-> n,
                           round |-> h.round, msgs |-> batch[n]]
           frames  == {frame(h.reg[n].client, n) : n \in to}
           records == {frame(Transcript, n) : n \in to}
           p       == Push(h, frames, records)
           reg     == [n \in Name |->
             IF n \in to /\ ~IsObserver(h, n) THEN [h.reg[n] EXCEPT !.state = "busy"]
             ELSE h.reg[n]]
           d       == [p EXCEPT !.reg = reg]
<1>1. Deliver(h, batch) = d
  BY DEF Deliver
<1>2. \A f \in frames \cup records : f.t # "msg"
  OBVIOUS
<1>3. \A n \in to : frame(Transcript, n) \in records
  OBVIOUS
<1> HIDE DEF frames, records, reg
<1>4. Adds(h, p) /\ ("sent" \in DOMAIN h => records \subseteq p.sent)
  BY <1>2, PushAdds
<1> HIDE DEF p
<1>5. DOMAIN d = DOMAIN p /\ ("sent" \in DOMAIN p => d.sent = p.sent)
  OBVIOUS
<1> HIDE DEF d
<1>6. Adds(h, d)
  BY <1>4, <1>5, SameAdds, AddsTransitive
<1>7. ASSUME "sent" \in DOMAIN h, NEW n \in to
      PROVE  Handing(d, n, batch[n])
  <2>1. frame(Transcript, n) \in d.sent
    BY <1>3, <1>4, <1>5, <1>7 DEF Adds
  <2>2. frame(Transcript, n) \in Given(d)
    BY <2>1 DEF Given
  <2>3. /\ frame(Transcript, n).sink = Transcript /\ frame(Transcript, n).name = n
        /\ frame(Transcript, n).msgs = batch[n]
    OBVIOUS
  <2> HIDE DEF frame
  <2>4. QED
    BY <2>2, <2>3 DEF Handing
<1>8. QED
  BY <1>1, <1>6, <1>7

LEMMA CheckRoundLimitAdds ==
  ASSUME NEW h
  PROVE  Adds(h, CheckRoundLimit(h))
<1> DEFINE f == [h EXCEPT !.frozen = TRUE]
<1>1. DOMAIN f = DOMAIN h /\ ("sent" \in DOMAIN h => f.sent = h.sent)
  OBVIOUS
<1>2. CheckRoundLimit(h) \in {h, Emit(f, "round_limit", NoName)}
  BY DEF CheckRoundLimit
<1> HIDE DEF f
<1>3. Adds(h, f) /\ Adds(f, Emit(f, "round_limit", NoName)) /\ Adds(h, h)
  BY <1>1, SameAdds, EmitAdds
<1>4. QED
  BY <1>2, <1>3, AddsTransitive

LEMMA CheckSessionDoneAdds ==
  ASSUME NEW h
  PROVE  Adds(h, CheckSessionDone(h))
<1> DEFINE e   == Emit(h, "session_done", NoName)
           reg == [n \in Name |-> IF n \in Agents(h)
                                  THEN [h.reg[n] EXCEPT !.finished = FALSE]
                                  ELSE h.reg[n]]
           g   == [e EXCEPT !.round = 0, !.reg = reg]
<1>1. CheckSessionDone(h) \in {h, g}
  BY DEF CheckSessionDone
<1>2. Adds(h, e) /\ Adds(h, h)
  BY EmitAdds, SameAdds
<1> HIDE DEF e, reg
<1>3. DOMAIN g = DOMAIN e /\ ("sent" \in DOMAIN e => g.sent = e.sent)
  OBVIOUS
<1> HIDE DEF g
<1>4. QED
  BY <1>1, <1>2, <1>3, SameAdds, AddsTransitive

\* All that one slice of a mailbox takes along.
SliceOf(r) == Omitted(r) \cup Notice(r) \cup Items(r.queue, SliceLen(r))
                \cup Items(r.context, SliceContext(r))

LEMMA HandSliceAdds ==
  ASSUME NEW h, NEW n
  PROVE  /\ Adds(h, HandSlice(h, n))
         /\ "sent" \in DOMAIN h => Handing(HandSlice(h, n), n, SliceOf(h.reg[n]))
<1> DEFINE p     == h.reg[n]
           wake  == Notice(p) \cup Items(p.queue, SliceLen(p))
           batch == Omitted(p) \cup Items(p.context, SliceContext(p)) \cup wake
           one   == [q \in {n} |-> batch]
           k     == IF Asked(wake) THEN h.round + 1 ELSE h.round
           taken == [h EXCEPT !.reg[n] = AfterSlice(p), !.round = k]
           given == Deliver(taken, one)
<1>1. HandSlice(h, n) \in {given, CheckRoundLimit(given)}
  BY DEF HandSlice
<1>2. one[n] = SliceOf(p) /\ n \in DOMAIN one
  BY DEF SliceOf
<1> HIDE DEF one, wake, k, p, batch
<1>3. DOMAIN taken = DOMAIN h /\ ("sent" \in DOMAIN h => taken.sent = h.sent)
  OBVIOUS
<1> HIDE DEF taken
<1>4. Adds(h, taken) /\ Adds(taken, given)
  BY <1>3, SameAdds, DeliverAdds
<1>5. "sent" \in DOMAIN h => Handing(given, n, SliceOf(p))
  BY <1>2, <1>3, DeliverAdds
<1> HIDE DEF given
<1>6. Adds(given, CheckRoundLimit(given)) /\ Adds(h, given)
  BY <1>4, CheckRoundLimitAdds, AddsTransitive
<1>7. DOMAIN given = DOMAIN h
  BY <1>6 DEF Adds
<1>8. Adds(h, CheckRoundLimit(given))
  BY <1>6, AddsTransitive
<1>9. "sent" \in DOMAIN h => Handing(CheckRoundLimit(given), n, SliceOf(p))
  BY <1>5, <1>6, <1>7, HandingLater
<1>10. QED
  BY <1>1, <1>5, <1>6, <1>8, <1>9 DEF p

LEMMA FlushQueueAdds ==
  ASSUME NEW h, NEW n
  PROVE  Adds(h, FlushQueue(h, n))
<1> DEFINE s == HandSlice(h, n)
<1>1. FlushQueue(h, n) \in {h, CheckSessionDone(s)}
  BY DEF FlushQueue
<1>2. Adds(h, h) /\ Adds(h, s)
  BY SameAdds, HandSliceAdds
<1> HIDE DEF s
<1>3. QED
  BY <1>1, <1>2, CheckSessionDoneAdds, AddsTransitive

LEMMA SystemMessageAdds ==
  ASSUME NEW h, NEW rank
  PROVE  /\ Adds(h, SystemMessage(h, rank))
         /\ "sent" \in DOMAIN h =>
              \A n \in Agents(h) : Ready(h, n) =>
                Handing(SystemMessage(h, rank), n,
                        Omitted(h.reg[n])
                          \cup Items(h.reg[n].context,
                                     Prefix(h.reg[n].context, h.counter + rank[n])))
<1> DEFINE note(n)  == [id |-> h.counter + rank[n], from |-> System, to |-> n,
                        adr |-> "direct", private |-> FALSE, count |-> 0]
           woken    == {n \in Agents(h) : h.reg[n].state = "idle" /\ Reachable(h, n)}
           upto(n)  == Prefix(h.reg[n].context, note(n).id)
           reg      == [n \in Name |->
                          IF n \in woken THEN Drained(h.reg[n], upto(n))
                          ELSE IF n \in Agents(h) THEN Enqueue(h.reg[n], note(n))
                          ELSE h.reg[n]]
           all(n)   == Omitted(h.reg[n]) \cup Items(h.reg[n].context, upto(n))
           batch    == [n \in woken |-> Omitted(h.reg[n])
                          \cup Items(h.reg[n].context, upto(n)) \cup {note(n)}]
           noted    == [h EXCEPT !.counter = @ + Cardinality(Agents(h)), !.reg = reg]
           g        == Deliver(noted, batch)
<1>1. SystemMessage(h, rank) = g
  BY DEF SystemMessage
<1>2. \A n \in woken : n \in DOMAIN batch /\ all(n) \subseteq batch[n]
  OBVIOUS
<1>3. \A n \in Agents(h) : Ready(h, n) => n \in woken
  BY DEF Ready
<1>4. \A n : note(n).id = h.counter + rank[n]
  OBVIOUS
<1> HIDE DEF note, woken, reg, batch
<1>5. DOMAIN noted = DOMAIN h /\ ("sent" \in DOMAIN h => noted.sent = h.sent)
  OBVIOUS
<1> HIDE DEF noted
<1>6. Adds(h, g)
  BY <1>5, SameAdds, DeliverAdds, AddsTransitive
<1>7. ASSUME "sent" \in DOMAIN h, NEW n \in Agents(h), Ready(h, n)
      PROVE  Handing(g, n, all(n))
  <2>1. n \in DOMAIN batch /\ all(n) \subseteq batch[n]
    BY <1>2, <1>3, <1>7
  <2>2. Handing(g, n, batch[n])
    BY <1>5, <1>7, <2>1, DeliverAdds
  <2> HIDE DEF all, g
  <2>3. QED
    BY <2>1, <2>2 DEF Handing
<1> HIDE DEF g
<1>8. \A n : all(n) = Omitted(h.reg[n])
                        \cup Items(h.reg[n].context, Prefix(h.reg[n].context, h.counter + rank[n]))
  BY <1>4
<1> HIDE DEF all
<1>9. QED
  BY <1>1, <1>6, <1>7, <1>8

LEMMA DisconnectAdds ==
  ASSUME NEW h, NEW c
  PROVE  Adds(h, Close(h, c)) /\ Adds(h, Disconnect(h, c))
<1> DEFINE n == h.conn[c].name
           d == [h EXCEPT !.reg[n].where = "dead", !.reg[n].client = NoConn]
           s == CheckSessionDone(Emit(d, "peer_left", n))
<1>1. ASSUME NEW g
      PROVE  Adds(g, Close(g, c))
  <2>1. /\ DOMAIN Close(g, c) = DOMAIN g
        /\ "sent" \in DOMAIN g => Close(g, c).sent = g.sent
    BY DEF Close
  <2>2. QED
    BY <2>1, SameAdds
<1>2. Disconnect(h, c) \in {Close(s, c), Close(h, c)}
  BY DEF Disconnect, Depart
<1>3. DOMAIN d = DOMAIN h /\ ("sent" \in DOMAIN h => d.sent = h.sent)
  OBVIOUS
<1> HIDE DEF d, n
<1>4. Adds(h, d) /\ Adds(d, Emit(d, "peer_left", n)) /\ Adds(Emit(d, "peer_left", n), s)
  BY <1>3, SameAdds, EmitAdds, CheckSessionDoneAdds
<1> HIDE DEF s
<1>5. Adds(h, s)
  BY <1>4, AddsTransitive
<1>6. QED
  BY <1>1, <1>2, <1>5, AddsTransitive

LEMMA JoinAdds ==
  ASSUME NEW h, NEW x, NEW past
  PROVE  Adds(h, Seated(h, x, past)) /\ Adds(h, Join(h, x, past))
<1> DEFINE n        == x.name
           named    == [h EXCEPT !.reg[x.name] = Registered(@, x),
                                 !.conn[x.conn].name = x.name]
           frames   == {[sink |-> x.conn, t |-> "welcome"]}
           welcomed == Push(named, frames, {})
           given    == GiveBacklog(welcomed, x, past)
           seated   == Seated(h, x, past)
<1>1. seated \in {EmitSkipping(b, "peer_joined", n, {n}) : b \in {welcomed, given}}
  BY DEF Seated
<1>2. \A f \in frames \cup {} : f.t # "msg"
  OBVIOUS
<1>3. DOMAIN named = DOMAIN h /\ ("sent" \in DOMAIN h => named.sent = h.sent)
  OBVIOUS
<1> HIDE DEF named, frames
<1>4. Adds(h, welcomed)
  BY <1>2, <1>3, SameAdds, PushAdds, AddsTransitive
<1> HIDE DEF welcomed
<1>5. Adds(welcomed, given)
  <2> DEFINE tags == [i \in DOMAIN past |-> Tag(past[i], "overheard")]
             v == [welcomed EXCEPT !.reg[x.name] = OverhearAll(@, tags)]
             one == [m \in {x.name} |->
                       {Tag(past[i], Addressing(m, past[i].to)) : i \in DOMAIN past}]
  <2>1. given \in {v, welcomed, Deliver(welcomed, one)}
    BY DEF GiveBacklog
  <2> HIDE DEF tags, one
  <2>2. DOMAIN v = DOMAIN welcomed /\ ("sent" \in DOMAIN welcomed => v.sent = welcomed.sent)
    OBVIOUS
  <2> HIDE DEF v, given
  <2>3. QED
    BY <2>1, <2>2, SameAdds, DeliverAdds
<1> HIDE DEF given
<1>6. ASSUME NEW b \in {welcomed, given}
      PROVE  Adds(h, EmitSkipping(b, "peer_joined", n, {n}))
  <2>1. Adds(h, b)
    BY <1>4, <1>5, AddsTransitive
  <2>2. Adds(b, EmitSkipping(b, "peer_joined", n, {n}))
    BY EmitAdds
  <2>3. QED
    BY <2>1, <2>2, AddsTransitive
<1> HIDE DEF seated, n
<1>7. Adds(h, seated)
  BY <1>1, <1>6
<1>8. Join(h, x, past) \in {seated, FlushQueue(seated, n)}
  BY DEF Join, seated, n
<1>9. QED
  BY <1>7, <1>8, FlushQueueAdds, AddsTransitive DEF seated

LEMMA HandleHelloAdds ==
  ASSUME NEW h, NEW x, NEW past
  PROVE  Adds(h, HandleHello(h, x, past))
<1> DEFINE c      == x.conn
           reaped == IF x.name \in Live(h) /\ ~Reachable(h, x.name)
                     THEN Disconnect(h, h.reg[x.name].client) ELSE h
<1>1. HandleHello(h, x, past) \in
        {Reply(h, c, c, "err"), Close(Reply(reaped, c, c, "err"), c), Join(reaped, x, past)}
  BY DEF HandleHello
<1>2. Adds(h, reaped)
  BY SameAdds, DisconnectAdds
<1> HIDE DEF reaped
<1>3. /\ Adds(h, Reply(h, c, c, "err"))
      /\ Adds(h, Reply(reaped, c, c, "err")) /\ Adds(h, Join(reaped, x, past))
  BY <1>2, ReplyAdds, JoinAdds, AddsTransitive
<1>4. Adds(h, Close(Reply(reaped, c, c, "err"), c))
  BY <1>3, DisconnectAdds, AddsTransitive
<1>5. QED
  BY <1>1, <1>3, <1>4

LEMMA RefuseAdds ==
  ASSUME NEW h, NEW c, NEW n
  PROVE  Adds(h, Refuse(h, c, n))
<1> DEFINE told == Reply(h, h.reg[n].client, c, "err")
<1>1. Refuse(h, c, n) \in {told, Emit(told, "rejected", n)}
  BY DEF Refuse
<1>2. Adds(h, told)
  BY ReplyAdds
<1> HIDE DEF told
<1>3. QED
  BY <1>1, <1>2, EmitAdds, AddsTransitive

\* What follows the routing or the refusal of a say.
LEMMA HandleSayAdds ==
  ASSUME NEW h, NEW c, NEW n, NEW s, NEW screen
  PROVE  LET routed == IF Verdict(h, n, s, screen) = "pass" THEN Accept(h, c, n, s)
                       ELSE Refuse(h, c, n)
         IN  Adds(routed, HandleSay(h, c, n, s, screen))
<1> DEFINE routed  == IF Verdict(h, n, s, screen) = "pass" THEN Accept(h, c, n, s)
                      ELSE Refuse(h, c, n)
           idle    == SetIdle(routed, n)
           flushed == IF ~h.reg[n].capable /\ routed.reg[n].state # "idle"
                      THEN FlushQueue(idle, n) ELSE routed
           marked  == [flushed EXCEPT !.reg[n].finished = s.done]
<1>1. HandleSay(h, c, n, s, screen) \in {flushed, marked, CheckSessionDone(marked)}
  BY DEF HandleSay
<1> HIDE DEF routed
<1>2. DOMAIN idle = DOMAIN routed /\ ("sent" \in DOMAIN routed => idle.sent = routed.sent)
  BY DEF SetIdle
<1>3. Adds(routed, flushed)
  BY <1>2, SameAdds, FlushQueueAdds, AddsTransitive
<1> HIDE DEF flushed
<1>4. DOMAIN marked = DOMAIN flushed /\ ("sent" \in DOMAIN flushed => marked.sent = flushed.sent)
  OBVIOUS
<1> HIDE DEF marked
<1>5. Adds(routed, marked)
  BY <1>3, <1>4, SameAdds, AddsTransitive
<1>6. QED
  BY <1>1, <1>3, <1>5, CheckSessionDoneAdds, AddsTransitive DEF routed

LEMMA HandleStateAdds ==
  ASSUME NEW h, NEW n, NEW state
  PROVE  Adds(h, HandleState(h, n, state))
<1> DEFINE told == [h EXCEPT !.reg[n].state = state]
<1>1. HandleState(h, n, state) \in {told, FlushQueue(told, n)}
  BY DEF HandleState
<1>2. DOMAIN told = DOMAIN h /\ ("sent" \in DOMAIN h => told.sent = h.sent)
  OBVIOUS
<1> HIDE DEF told
<1>3. QED
  BY <1>1, <1>2, SameAdds, FlushQueueAdds, AddsTransitive

LEMMA HandleCmdAdds ==
  ASSUME NEW h, NEW c, NEW n, NEW x, x.cmd \in CmdNames, NEW rank
  PROVE  /\ Adds(h, HandleCmd(h, c, n, x, rank))
         /\ IsObserver(h, n) => Adds(RunCmd(h, x, rank), HandleCmd(h, c, n, x, rank))
<1> DEFINE told(event, g) == Emit(g, event, NoName)
           d == h.reg[n].client
<1>1. ASSUME NEW g, DOMAIN g = DOMAIN h, "sent" \in DOMAIN h => g.sent = h.sent, NEW event
      PROVE  Adds(h, told(event, g)) /\ Adds(h, SystemMessage(told(event, g), rank))
  <2>1. Adds(h, told(event, g))
    BY <1>1, SameAdds, EmitAdds, AddsTransitive
  <2> HIDE DEF told
  <2>2. QED
    BY <2>1, SystemMessageAdds, AddsTransitive
<1>2. Adds(h, RunCmd(h, x, rank))
  <2>1. CASE x.cmd = "freeze"
    <3>1. RunCmd(h, x, rank) = told("frozen", [h EXCEPT !.frozen = TRUE])
      BY <2>1 DEF RunCmd
    <3> HIDE DEF told
    <3>2. QED
      BY <1>1, <3>1
  <2>2. CASE x.cmd = "resume"
    <3> DEFINE limit == ResumedLimit(h, x.n)
    <3>1. RunCmd(h, x, rank) = told("resumed", [h EXCEPT !.limit = limit, !.frozen = FALSE])
      BY <2>2 DEF RunCmd
    <3> HIDE DEF told, limit
    <3>2. QED
      BY <1>1, <3>1
  <2>3. CASE x.cmd = "reset"
    <3>1. RunCmd(h, x, rank) = told("reset", [h EXCEPT !.round = 0, !.frozen = FALSE])
      BY <2>3 DEF RunCmd
    <3> HIDE DEF told
    <3>2. QED
      BY <1>1, <3>1
  <2>4. CASE x.cmd = "mute"
    <3>1. RunCmd(h, x, rank) = SystemMessage(told("muted", [h EXCEPT !.muted = TRUE]), rank)
      BY <2>4 DEF RunCmd
    <3> HIDE DEF told
    <3>2. QED
      BY <1>1, <3>1
  <2>5. CASE x.cmd = "unmute"
    <3>1. RunCmd(h, x, rank) = SystemMessage(told("unmuted", [h EXCEPT !.muted = FALSE]), rank)
      BY <2>5 DEF RunCmd
    <3> HIDE DEF told
    <3>2. QED
      BY <1>1, <3>1
  <2>6. CASE x.cmd = "goal"
    <3> DEFINE e == told("goal_set", h)
               b == BufferGoal(e)
    <3>1. RunCmd(h, x, rank) = b
      BY <2>6 DEF RunCmd
    <3>2. Adds(h, e)
      BY <1>1
    <3> HIDE DEF e
    <3>3. DOMAIN b = DOMAIN e /\ ("sent" \in DOMAIN e => b.sent = e.sent)
      BY DEF BufferGoal
    <3> HIDE DEF b
    <3>4. QED
      BY <3>1, <3>2, <3>3, SameAdds, AddsTransitive
  <2>7. QED
    BY <2>1, <2>2, <2>3, <2>4, <2>5, <2>6 DEF CmdNames
<1> DEFINE r == RunCmd(h, x, rank)
<1>3. HandleCmd(h, c, n, x, rank) = IF IsObserver(h, n) THEN Reply(r, d, c, "ok")
                                    ELSE Reply(h, d, c, "err")
  BY DEF HandleCmd
<1> HIDE DEF r
<1>4. Adds(r, Reply(r, d, c, "ok")) /\ Adds(h, Reply(h, d, c, "err"))
  BY ReplyAdds
<1>5. Adds(h, Reply(r, d, c, "ok"))
  BY <1>2, <1>4, AddsTransitive DEF r
<1>6. QED
  BY <1>3, <1>4, <1>5 DEF r

LEMMA VisitedAdds ==
  ASSUME NEW h, NEW n, NEW lapsed
  PROVE  Adds(h, Visited(h, n, lapsed))
<1> DEFINE frames == {[sink |-> h.reg[n].client, t |-> "ping"]}
           p      == Push(h, frames, {})
           ping   == [p EXCEPT !.reg[n].awaiting = TRUE]
           pinged == IF "silence" \in lapsed /\ ~h.reg[n].awaiting THEN ping ELSE h
           idle   == SetIdle(pinged, n)
           stall  == Emit(idle, "stall", n)
<1>1. Visited(h, n, lapsed) \in
        {Disconnect(h, h.reg[n].client), FlushQueue(stall, n), pinged}
  BY DEF Visited, Ping
<1>2. \A f \in frames \cup {} : f.t # "msg"
  OBVIOUS
<1> HIDE DEF frames
<1>3. Adds(h, p)
  BY <1>2, PushAdds
<1> HIDE DEF p
<1>4. DOMAIN ping = DOMAIN p /\ ("sent" \in DOMAIN p => ping.sent = p.sent)
  OBVIOUS
<1> HIDE DEF ping
<1>5. Adds(h, pinged)
  BY <1>3, <1>4, SameAdds, AddsTransitive
<1> HIDE DEF pinged
<1>6. DOMAIN idle = DOMAIN pinged /\ ("sent" \in DOMAIN pinged => idle.sent = pinged.sent)
  BY DEF SetIdle
<1> HIDE DEF idle
<1>7. Adds(h, idle) /\ Adds(idle, stall)
  BY <1>5, <1>6, SameAdds, EmitAdds, AddsTransitive
<1> HIDE DEF stall
<1>8. Adds(h, FlushQueue(stall, n))
  BY <1>7, FlushQueueAdds, AddsTransitive
<1>9. QED
  BY <1>1, <1>5, <1>8, DisconnectAdds

LEMMA HandledAdds ==
  ASSUME NEW h, NEW c
  PROVE  Adds(h, Handled(h, c))
<1>1. /\ DOMAIN Handled(h, c) = DOMAIN h
      /\ "sent" \in DOMAIN h => Handled(h, c).sent = h.sent
  BY DEF Handled
<1>2. QED
  BY <1>1, SameAdds

\* A say that is accepted is recorded, shown to every observer that can be
\* reached, and handed to those it wakes together with all they overheard.
LEMMA AcceptAdds ==
  ASSUME NEW h, "sent" \in DOMAIN h, NEW c, NEW n, NEW s
  PROVE  LET g  == Accept(h, c, n, s)
             id == h.counter + 1
         IN  /\ DOMAIN g = DOMAIN h /\ Given(h) \subseteq Given(g)
             /\ Routes(g) = Routes(h) \cup {[sink |-> Transcript, t |-> "msg", id |-> id,
                                             from |-> n, done |-> s.done]}
             /\ \A q \in Seats(h, n, s) : \E m : m.id = id /\ Handing(g, q, {m})
             /\ \A q \in Woken(h, n, s) :
                  Handing(g, q, Omitted(h.reg[q])
                    \cup Items(h.reg[q].context, Prefix(h.reg[q].context, id)))
<1> DEFINE rec     == [id |-> h.counter + 1, from |-> n, to |-> s.to, private |-> s.private]
           copy(q) == Tag(rec, Addressing(q, s.to))
           woken   == Woken(h, n, s)
           upto(q) == Prefix(h.reg[q].context, rec.id)
           seats   == Seats(h, n, s)
           reg     == [q \in Name |->
              IF q \in woken THEN Drained(h.reg[q], upto(q))
              ELSE IF q \in Addressed(h, n, s) THEN Enqueue(h.reg[q], copy(q))
              ELSE IF q \in Aside(h, n, s) THEN Overhear(h.reg[q], copy(q))
              ELSE h.reg[q]]
           recent  == LastOf(Append(h.recent, rec), RecentWindow)
           route   == [sink |-> Transcript, t |-> "msg", id |-> rec.id,
                       from |-> n, done |-> s.done]
           all(q)  == Omitted(h.reg[q]) \cup Items(h.reg[q].context, upto(q))
           toSeats == [q \in seats |-> {copy(q)}]
           toWoken == [q \in woken |->
              Omitted(h.reg[q]) \cup Items(h.reg[q].context, upto(q)) \cup {copy(q)}]
           routed  == [h EXCEPT !.counter = rec.id, !.recent = recent, !.reg = reg,
                                !.round = @ + RoundsFor(woken), !.sent = @ \cup {route}]
           shown   == Deliver(routed, toSeats)
           given   == Deliver(shown, toWoken)
           limited == IF woken = {} THEN shown ELSE CheckRoundLimit(given)
           g       == Reply(limited, h.reg[n].client, c, "ok")
<1>1. Accept(h, c, n, s) = g
  BY DEF Accept
<1>2. rec.id = h.counter + 1 /\ \A q : copy(q).id = rec.id
  BY DEF Tag
<1>3. \A q \in seats : q \in DOMAIN toSeats /\ copy(q) \in toSeats[q]
  OBVIOUS
<1>4. \A q \in woken : q \in DOMAIN toWoken /\ all(q) \subseteq toWoken[q]
  OBVIOUS
<1>5. route.t = "msg"
  OBVIOUS
<1> DEFINE id == rec.id
<1>6. \A q : all(q) = Omitted(h.reg[q]) \cup Items(h.reg[q].context, Prefix(h.reg[q].context, id))
  OBVIOUS
<1>7. route = [sink |-> Transcript, t |-> "msg", id |-> id, from |-> n, done |-> s.done]
  OBVIOUS
<1> HIDE DEF reg, recent, toSeats, toWoken, route, rec, id, copy, all
<1>9. DOMAIN routed = DOMAIN h /\ routed.sent = h.sent \cup {route}
  OBVIOUS
<1> HIDE DEF routed, woken
<1>10. Given(routed) = Given(h) /\ Routes(routed) = Routes(h) \cup {route}
  BY <1>5, <1>9 DEF Given, Routes
<1>11. /\ Adds(routed, shown) /\ Adds(shown, given)
       /\ \A q \in DOMAIN toSeats : Handing(shown, q, toSeats[q])
  BY <1>9, DeliverAdds
<1>12. DOMAIN shown = DOMAIN h
  BY <1>9, <1>11 DEF Adds
<1>13. \A q \in DOMAIN toWoken : Handing(given, q, toWoken[q])
  BY <1>12, DeliverAdds
<1> HIDE DEF given, shown
<1>14. Adds(given, CheckRoundLimit(given)) /\ DOMAIN given = DOMAIN h
  BY <1>11, <1>12, CheckRoundLimitAdds DEF Adds
<1>15. Adds(shown, limited) /\ (woken # {} => Adds(given, limited)) /\ DOMAIN limited = DOMAIN h
  <2>1. Adds(shown, shown)
    BY SameAdds
  <2>2. Adds(shown, CheckRoundLimit(given))
    BY <1>11, <1>14, AddsTransitive
  <2>3. QED
    BY <1>12, <1>14, <2>1, <2>2 DEF Adds
<1> HIDE DEF limited
<1>16. Adds(limited, g)
  BY ReplyAdds
<1> HIDE DEF g
<1>17. Adds(routed, g) /\ Adds(shown, g) /\ (woken # {} => Adds(given, g))
  BY <1>11, <1>15, <1>16, AddsTransitive
<1>18. ASSUME NEW q \in seats
       PROVE  Handing(g, q, {copy(q)})
  <2>1. Handing(g, q, toSeats[q]) /\ copy(q) \in toSeats[q]
    BY <1>3, <1>11, <1>12, <1>17, HandingLater
  <2>2. QED
    BY <2>1 DEF Handing
<1>19. ASSUME NEW q \in woken
       PROVE  Handing(g, q, all(q))
  <2>1. Handing(g, q, toWoken[q]) /\ all(q) \subseteq toWoken[q]
    BY <1>4, <1>13, <1>14, <1>17, HandingLater
  <2>2. QED
    BY <2>1 DEF Handing
<1>20. /\ DOMAIN g = DOMAIN h /\ Given(h) \subseteq Given(g)
       /\ Routes(g) = Routes(h) \cup {route}
  BY <1>9, <1>10, <1>17 DEF Adds
<1>21. id = h.counter + 1 /\ \A q : copy(q).id = id
  BY <1>2 DEF id
<1> HIDE DEF id
<1>22. QED
  BY <1>1, <1>6, <1>7, <1>18, <1>19, <1>20, <1>21 DEF woken

-----------------------------------------------------------------------------
(* What happens to a box, and what the floor calls it.                     *)

LEMMA SeatIs ==
  ASSUME NEW h, Typed(h), NEW n \in Name
  PROVE  /\ IsAgent(h, n) => SeatOf(h, n) = BoxSeat(ModeOf(h, n), h.reg[n])
         /\ ~IsAgent(h, n) => SeatOf(h, n) = TheFloor!Empty
<1>1. h.reg[n].kind \in Kinds
  BY DEF Typed, HubState, Reg
<1>2. QED
  BY <1>1 DEF SeatOf, IsAgent, BoxSeat, ModeOf, TheFloor!Empty, Kinds

LEMMA IdsOf ==
  ASSUME NEW s \in Seq(Msg)
  PROVE  /\ Ids(s) \subseteq Nat
         /\ \A i : i \in Ids(s) <=> i # 0 /\ \E j \in DOMAIN s : s[j].id = i
         /\ s = << >> => Ids(s) = {}
<1>1. \A j \in DOMAIN s : s[j].id \in Nat
  BY ElementsType
<1>2. s = << >> => DOMAIN s = {}
  BY EmptySeq
<1>3. QED
  BY <1>1, <1>2 DEF Ids

\* The numbers at a seat are those of the cited messages of the box.
LEMMA HeldCited ==
  ASSUME NEW r, r.queue \in Seq(Msg), r.context \in Seq(Msg)
  PROVE  \A i : i \in Ids(r.queue) \cup Ids(r.context) <=> \E w \in Cited(r) : w.id = i
<1>1. \A w \in Cited(r) : w.id \in Nat /\ w.id > 0
  BY CitedType
<1>2. \A s \in {r.queue, r.context} : \A j \in DOMAIN s : s[j].id \in Nat
  BY ElementsType
<1>3. QED
  BY <1>1, <1>2, CitedElements, IdsOf

LEMMA SuffixIds ==
  ASSUME NEW t \in Seq(Msg), NEW u \in Seq(Msg), Suffix(t, u)
  PROVE  Ids(t) \subseteq Ids(u)
<1>1. /\ DOMAIN t = 1 .. Len(t) /\ DOMAIN u = 1 .. Len(u)
      /\ Len(t) \in Nat /\ Len(u) \in Nat
  BY ElementsType
<1>2. PICK k \in 0 .. Len(u) : Len(t) = Len(u) - k /\ \A i \in 1 .. Len(t) : t[i] = u[i + k]
  BY DEF Suffix
<1>3. \A i \in 1 .. Len(t) : i + k \in 1 .. Len(u)
  BY <1>1, <1>2
<1>4. \A i \in DOMAIN t : \E j \in DOMAIN u : t[i].id = u[j].id
  BY <1>1, <1>2, <1>3
<1>5. QED
  BY <1>4, IdsOf

\* A bounded sequence that takes m loses at most its first element, and that is
\* the oldest.
LEMMA NewestIds ==
  ASSUME NEW s \in Seq(Msg), NEW m \in Msg, NEW cap \in Nat \ {0}, NEW k \in Nat,
         \A i, j \in DOMAIN s : i < j /\ s[j].id > 0 => s[i].id < s[j].id,
         \A i \in DOMAIN s : s[i].id <= k,
         m.id = 0 \/ k < m.id
  PROVE  LET t == IF Len(s) >= cap THEN Append(Tail(s), m) ELSE Append(s, m)
         IN  /\ Ids(t) \subseteq Ids(s) \cup ({m.id} \ {0})
             /\ {m.id} \ {0} \subseteq Ids(t)
             /\ TheFloor!Older(Ids(s) \ Ids(t), Ids(t))
             /\ Len(s) < cap => Ids(s) \subseteq Ids(t)
             /\ Len(s) >= cap => Ids(s) \ Ids(t) \subseteq {s[1].id}
<1> DEFINE t == IF Len(s) >= cap THEN Append(Tail(s), m) ELSE Append(s, m)
<1>0. /\ Len(s) >= cap => t = Append(Tail(s), m)
      /\ ~(Len(s) >= cap) => t = Append(s, m)
  OBVIOUS
<1> HIDE DEF t
<1>1. /\ DOMAIN s = 1 .. Len(s) /\ Len(s) \in Nat /\ m.id \in Nat
      /\ \A i \in DOMAIN s : s[i].id \in Nat
  BY ElementsType DEF Msg
<1>2. CASE Len(s) < cap
  <2>1. t = Append(s, m)
    BY <1>0, <1>1, <1>2
  <2>2. /\ t \in Seq(Msg) /\ DOMAIN t = 1 .. Len(s) + 1
        /\ \A i \in 1 .. Len(s) : t[i] = s[i]
        /\ t[Len(s) + 1] = m
    BY <2>1, AppendElements
  <2>3. \A i \in DOMAIN t : (i \in DOMAIN s /\ t[i] = s[i]) \/ t[i] = m
    BY <1>1, <2>2
  <2>4. DOMAIN s \subseteq DOMAIN t /\ Len(s) + 1 \in DOMAIN t
    BY <1>1, <2>2
  <2>5. Ids(t) \subseteq Ids(s) \cup ({m.id} \ {0}) /\ {m.id} \ {0} \subseteq Ids(t)
    BY <2>2, <2>3, <2>4, IdsOf
  <2>6. Ids(s) \subseteq Ids(t)
    BY <1>1, <2>2, <2>4, IdsOf
  <2>7. TheFloor!Older(Ids(s) \ Ids(t), Ids(t)) /\ ~(Len(s) >= cap)
    BY <1>1, <1>2, <2>6 DEF TheFloor!Older
  <2>8. QED
    BY <2>5, <2>6, <2>7 DEF t
<1>3. CASE Len(s) >= cap
  <2> DEFINE u == Tail(s)
  <2>0. s # << >> /\ Len(s) > 0
    BY <1>1, <1>3, EmptySeq
  <2>1. /\ u \in Seq(Msg) /\ Len(u) = Len(s) - 1 /\ Len(u) \in Nat
        /\ \A i \in 1 .. Len(u) : u[i] = s[i + 1]
    BY <1>1, <2>0, HeadTailProperties
  <2> HIDE DEF u
  <2>2. t = Append(u, m)
    BY <1>0, <1>3 DEF u
  <2>3. /\ t \in Seq(Msg) /\ DOMAIN t = 1 .. Len(u) + 1
        /\ \A i \in 1 .. Len(u) : t[i] = u[i]
        /\ t[Len(u) + 1] = m
    BY <2>1, <2>2, AppendElements
  <2>4. DOMAIN t = 1 .. Len(s)
    BY <1>1, <2>1, <2>3
  <2>5. \A i \in DOMAIN t : (i + 1 \in DOMAIN s /\ t[i] = s[i + 1]) \/ t[i] = m
    BY <1>1, <2>1, <2>3, <2>4
  <2>6. \A i \in DOMAIN s : i = 1 \/ (i - 1 \in DOMAIN t /\ t[i - 1] = s[i])
    <3> TAKE i \in DOMAIN s
    <3>1. CASE i # 1
      <4>1. i - 1 \in 1 .. Len(u) /\ i - 1 + 1 = i
        BY <1>1, <2>1, <3>1
      <4>2. QED
        BY <1>1, <2>1, <2>3, <2>4, <4>1
    <3>2. QED
      BY <3>1
  <2>7. Len(s) \in DOMAIN t /\ t[Len(s)] = m
    BY <1>1, <2>0, <2>1, <2>3, <2>4
  <2>8. Ids(t) \subseteq Ids(s) \cup ({m.id} \ {0}) /\ {m.id} \ {0} \subseteq Ids(t)
    <3>1. t \in Seq(Msg)
      BY <2>3
    <3> HIDE DEF t
    <3>2. Ids(t) \subseteq Ids(s) \cup ({m.id} \ {0})
      BY <2>5, <3>1, IdsOf, SMTT(20)
    <3>3. {m.id} \ {0} \subseteq Ids(t)
      BY <2>7, <3>1, IdsOf
    <3>4. QED
      BY <3>2, <3>3
  <2>9. Ids(s) \ Ids(t) \subseteq {s[1].id}
    BY <2>3, <2>6, IdsOf
  <2>10. \A i \in DOMAIN t : t[i].id # 0 => s[1].id < t[i].id
    <3> TAKE i \in DOMAIN t
    <3> HAVE t[i].id # 0
    <3>1. 1 \in DOMAIN s /\ s[1].id \in Nat /\ s[1].id <= k
      BY <1>1, <2>0
    <3>2. CASE t[i] = m
      BY <1>1, <3>1, <3>2
    <3>3. CASE i + 1 \in DOMAIN s /\ t[i] = s[i + 1]
      BY <1>1, <2>4, <3>1, <3>3
    <3>4. QED
      BY <2>5, <3>2, <3>3
  <2>11. TheFloor!Older(Ids(s) \ Ids(t), Ids(t))
    BY <2>3, <2>9, <2>10, IdsOf DEF TheFloor!Older
  <2>12. ~(Len(s) < cap)
    BY <1>1, <1>3
  <2>13. QED
    BY <2>8, <2>9, <2>11, <2>12 DEF t
<1>4. QED
  BY <1>1, <1>2, <1>3 DEF t

\* Floor counts as the hub does.
LEMMA CountsAlike == \A S : TheFloor!Cardinality(S) = Cardinality(S)
BY Zenon DEF TheFloor!Cardinality, Cardinality

\* What one element at the most can be is one at the most.
LEMMA AtMostOne ==
  ASSUME NEW S, NEW e, S \subseteq {e}
  PROVE  Cardinality(S) \in {0, 1}
<1>1. CASE S = {}
  BY <1>1, FS_EmptySet
<1>2. CASE S = {e}
  BY <1>2, FS_Singleton
<1>3. QED
  BY <1>1, <1>2

LEMMA EnqueueKeeps ==
  ASSUME NEW r \in Reg, BoundedReg(r), NEW k \in Nat, NEW n,
         Sound(r.queue, r.context, k, n), NEW m \in Msg, k < m.id,
         NEW p, SameBox(Enqueue(r, m), p), NEW mode, mode \notin {"empty", "waiting"}
  PROVE  TheFloor!Keeps(BoxSeat(mode, r), BoxSeat(mode, p), {m.id})
<1> DEFINE q == r.queue
           full == Len(q) >= QueueCap
<1>1. /\ q \in Seq(Msg) /\ r.context \in Seq(Msg) /\ QueueCap \in Nat \ {0}
      /\ r.dropped \in Nat /\ r.evicted \in Nat /\ m.id \in Nat /\ m.id # 0
      /\ Len(q) \in Nat
  BY CapsAssumption, LenProperties DEF Reg, Msg
<1>2. /\ p.queue = (IF full THEN Append(Tail(q), m) ELSE Append(q, m))
      /\ p.dropped = (IF full THEN r.dropped + 1 ELSE r.dropped)
      /\ p.context = r.context /\ p.evicted = r.evicted
  BY DEF SameBox, Enqueue, Reg
<1>3. /\ \A i, j \in DOMAIN q : i < j /\ q[j].id > 0 => q[i].id < q[j].id
      /\ \A i \in DOMAIN q : q[i].id <= k
  BY DEF Sound, Ascending
<1>4. /\ Ids(p.queue) \subseteq Ids(q) \cup ({m.id} \ {0})
      /\ {m.id} \ {0} \subseteq Ids(p.queue)
      /\ TheFloor!Older(Ids(q) \ Ids(p.queue), Ids(p.queue))
      /\ Len(q) < QueueCap => Ids(q) \subseteq Ids(p.queue)
      /\ full => Ids(q) \ Ids(p.queue) \subseteq {q[1].id}
  BY <1>1, <1>2, <1>3, NewestIds
<1> DEFINE gone == (Ids(q) \cup Ids(r.context)) \ (Ids(p.queue) \cup Ids(p.context))
<1>5. gone \subseteq Ids(q) \ Ids(p.queue)
  BY <1>2
<1>6. /\ Cardinality(gone) \in Nat
      /\ r.dropped + r.evicted + Cardinality(gone) <= p.dropped + p.evicted
  <2>1. CASE full
    <3>1. Cardinality(gone) \in {0, 1}
      BY <1>4, <1>5, <2>1, AtMostOne
    <3> HIDE DEF gone
    <3>2. QED
      BY <1>1, <1>2, <2>1, <3>1
  <2>2. CASE ~full
    <3>1. gone = {}
      BY <1>1, <1>4, <1>5, <2>2
    <3>2. Cardinality(gone) = 0
      BY <3>1, FS_EmptySet
    <3> HIDE DEF gone
    <3>3. QED
      BY <1>1, <1>2, <2>2, <3>2
  <2>3. QED
    BY <2>1, <2>2
<1>7. TheFloor!Older(Ids(r.context) \ Ids(p.context), Ids(p.context))
  BY <1>2 DEF TheFloor!Older
<1> DEFINE s == BoxSeat(mode, r)
           t == BoxSeat(mode, p)
<1>8. /\ s.mode = mode /\ s.wakes = Ids(q) /\ s.asides = Ids(r.context)
      /\ s.lost = r.dropped + r.evicted
      /\ t.mode = mode /\ t.wakes = Ids(p.queue) /\ t.asides = Ids(p.context)
      /\ t.lost = p.dropped + p.evicted
  BY DEF BoxSeat
<1>9. TheFloor!Held(s) \ TheFloor!Held(t) = gone
  BY <1>8 DEF TheFloor!Held
<1>10. p.dropped \in Nat /\ p.evicted \in Nat
  BY <1>1, <1>2
<1> HIDE DEF gone, s, t
<1>11. t.lost >= s.lost + Cardinality(TheFloor!Held(s) \ TheFloor!Held(t))
  BY <1>1, <1>6, <1>8, <1>9, <1>10
<1>12. /\ t.wakes \subseteq s.wakes \cup {m.id} /\ t.asides \subseteq s.asides \cup {m.id}
       /\ {m.id} \subseteq TheFloor!Held(t)
  BY <1>1, <1>2, <1>4, <1>8 DEF TheFloor!Held
<1>13. /\ TheFloor!Older(s.wakes \ t.wakes, t.wakes)
       /\ TheFloor!Older(s.asides \ t.asides, t.asides)
  BY <1>4, <1>7, <1>8
<1>14. TheFloor!Keeps(s, t, {m.id})
  BY <1>8, <1>11, <1>12, <1>13, CountsAlike DEF TheFloor!Keeps, TheFloor!Rested
<1>15. QED
  BY <1>14 DEF s, t

LEMMA OverhearKeeps ==
  ASSUME NEW r \in Reg, BoundedReg(r), NEW k \in Nat, NEW n,
         Sound(r.queue, r.context, k, n), NEW m \in Msg, m.id = 0 \/ k < m.id,
         NEW p, SameBox(Overhear(r, m), p), NEW mode, mode # "empty",
         mode = "waiting" => r.queue = << >>
  PROVE  TheFloor!Keeps(BoxSeat(mode, r), BoxSeat(mode, p), {m.id} \ {0})
<1> DEFINE c == r.context
           full == Len(c) >= ContextCap
           new  == {m.id} \ {0}
<1>1. /\ c \in Seq(Msg) /\ r.queue \in Seq(Msg) /\ ContextCap \in Nat \ {0}
      /\ r.dropped \in Nat /\ r.evicted \in Nat /\ m.id \in Nat
      /\ Len(c) \in Nat
  BY CapsAssumption, LenProperties DEF Reg, Msg
<1>2. /\ p.context = (IF full THEN Append(Tail(c), m) ELSE Append(c, m))
      /\ p.evicted = (IF full THEN r.evicted + 1 ELSE r.evicted)
      /\ p.queue = r.queue /\ p.dropped = r.dropped
  BY DEF SameBox, Overhear, Reg
<1>3. /\ \A i, j \in DOMAIN c : i < j /\ c[j].id > 0 => c[i].id < c[j].id
      /\ \A i \in DOMAIN c : c[i].id <= k
  BY DEF Sound
<1>4. /\ Ids(p.context) \subseteq Ids(c) \cup new
      /\ new \subseteq Ids(p.context)
      /\ TheFloor!Older(Ids(c) \ Ids(p.context), Ids(p.context))
      /\ Len(c) < ContextCap => Ids(c) \subseteq Ids(p.context)
      /\ full => Ids(c) \ Ids(p.context) \subseteq {c[1].id}
  BY <1>1, <1>2, <1>3, NewestIds
<1> DEFINE gone == (Ids(r.queue) \cup Ids(c)) \ (Ids(p.queue) \cup Ids(p.context))
<1>5. gone \subseteq Ids(c) \ Ids(p.context)
  BY <1>2
<1>6. /\ Cardinality(gone) \in Nat
      /\ r.dropped + r.evicted + Cardinality(gone) <= p.dropped + p.evicted
  <2>1. CASE full
    <3>1. Cardinality(gone) \in {0, 1}
      BY <1>4, <1>5, <2>1, AtMostOne
    <3> HIDE DEF gone
    <3>2. QED
      BY <1>1, <1>2, <2>1, <3>1
  <2>2. CASE ~full
    <3>1. gone = {}
      BY <1>1, <1>4, <1>5, <2>2
    <3>2. Cardinality(gone) = 0
      BY <3>1, FS_EmptySet
    <3> HIDE DEF gone
    <3>3. QED
      BY <1>1, <1>2, <2>2, <3>2
  <2>3. QED
    BY <2>1, <2>2
<1>7. TheFloor!Older(Ids(r.queue) \ Ids(p.queue), Ids(p.queue))
  BY <1>2 DEF TheFloor!Older
<1>8. r.queue = << >> => Ids(p.queue) = {}
  BY <1>1, <1>2, IdsOf
<1> DEFINE s == BoxSeat(mode, r)
           t == BoxSeat(mode, p)
<1>9. /\ s.mode = mode /\ s.wakes = Ids(r.queue) /\ s.asides = Ids(c)
      /\ s.lost = r.dropped + r.evicted
      /\ t.mode = mode /\ t.wakes = Ids(p.queue) /\ t.asides = Ids(p.context)
      /\ t.lost = p.dropped + p.evicted
  BY DEF BoxSeat
<1>10. TheFloor!Held(s) \ TheFloor!Held(t) = gone
  BY <1>9 DEF TheFloor!Held
<1>11. p.dropped \in Nat /\ p.evicted \in Nat
  BY <1>1, <1>2
<1> HIDE DEF gone, s, t
<1>12. t.lost >= s.lost + Cardinality(TheFloor!Held(s) \ TheFloor!Held(t))
  BY <1>1, <1>6, <1>9, <1>10, <1>11
<1>13. /\ t.wakes \subseteq s.wakes \cup new /\ t.asides \subseteq s.asides \cup new
       /\ new \subseteq TheFloor!Held(t)
  BY <1>2, <1>4, <1>9 DEF TheFloor!Held
<1>14. /\ TheFloor!Older(s.wakes \ t.wakes, t.wakes)
       /\ TheFloor!Older(s.asides \ t.asides, t.asides)
  BY <1>4, <1>7, <1>9
<1> HIDE DEF new
<1>15. TheFloor!Keeps(s, t, new)
  BY <1>8, <1>9, <1>12, <1>13, <1>14, CountsAlike DEF TheFloor!Keeps, TheFloor!Rested
<1>16. QED
  BY <1>15 DEF s, t, new

\* The box once a slice was handed over.
Sliced(r, p) == SameBox(AfterSlice(r), p)

\* What a slice takes from a box is in the slice.
LEMMA SliceTakes ==
  ASSUME NEW r \in Reg, BoundedReg(r), NEW p, Sliced(r, p)
  PROVE  /\ \A i \in Ids(r.queue) \ Ids(p.queue) :
              \E m \in Items(r.queue, SliceLen(r)) : m.id = i
         /\ \A i \in Ids(r.context) \ Ids(p.context) :
              \E m \in Items(r.context, SliceContext(r)) : m.id = i
<1> DEFINE u == AfterSlice(r)
           v == SliceLen(r)
           w == SliceContext(r)
<1>1. /\ r.queue \in Seq(Msg) /\ r.context \in Seq(Msg)
      /\ u.queue = SubSeq(r.queue, v + 1, Len(r.queue))
      /\ u.context = SubSeq(r.context, w + 1, Len(r.context))
  BY DEF AfterSlice, Drained, SliceRest, Reg
<1>2. v \in 0 .. Len(r.queue) /\ w \in 0 .. Len(r.context)
  BY SliceType
<1>3. p.queue = u.queue /\ p.context = u.context
  BY DEF Sliced, SameBox
<1> HIDE DEF u, v, w
<1>4. ASSUME NEW s \in Seq(Msg), NEW k \in 0 .. Len(s),
             NEW i \in Ids(s) \ Ids(SubSeq(s, k + 1, Len(s)))
      PROVE  \E m \in Items(s, k) : m.id = i
  <2> DEFINE t == SubSeq(s, k + 1, Len(s))
  <2>1. DOMAIN s = 1 .. Len(s) /\ Len(s) \in Nat
    BY ElementsType
  <2>2. /\ t \in Seq(Msg) /\ Len(t) = Len(s) - k
        /\ \A j \in 1 .. Len(s) - k : t[j] = s[j + k]
    BY RestSuffix
  <2> HIDE DEF t
  <2>3. PICK j \in DOMAIN s : s[j].id = i /\ i # 0
    BY IdsOf
  <2>4. CASE j <= k
    BY <2>1, <2>3, <2>4 DEF Items
  <2>5. CASE k < j
    <3>1. j - k \in 1 .. Len(t) /\ j - k + k = j
      BY <2>1, <2>2, <2>5
    <3>2. j - k \in DOMAIN t /\ t[j - k] = s[j]
      BY <2>2, <3>1, ElementsType
    <3>3. i \in Ids(t)
      BY <2>2, <2>3, <3>2, IdsOf
    <3>4. QED
      BY <3>3 DEF t
  <2>6. QED
    BY <2>1, <2>4, <2>5
<1>5. QED
  BY <1>1, <1>2, <1>3, <1>4 DEF v, w

LEMMA SliceHands ==
  ASSUME NEW r \in Reg, BoundedReg(r), NEW k \in Nat, NEW n,
         Sound(r.queue, r.context, k, n), NEW p, Sliced(r, p),
         NEW a, a # "empty", NEW b \in {"engaged", "away"}
  PROVE  TheFloor!Hands(BoxSeat(a, r), BoxSeat(b, p), {})
<1> DEFINE u == AfterSlice(r)
           v == SliceLen(r)
           w == SliceContext(r)
<1>1. /\ r.queue \in Seq(Msg) /\ r.context \in Seq(Msg)
      /\ DOMAIN r.queue = 1 .. Len(r.queue) /\ Len(r.queue) \in Nat
      /\ DOMAIN r.context = 1 .. Len(r.context) /\ Len(r.context) \in Nat
  BY ElementsType DEF Reg
<1>2. /\ Sound(u.queue, u.context, k, n) /\ Cited(u) \subseteq Cited(r)
      /\ \A m \in Items(r.context, w) \cup Items(r.queue, v) :
           m.id \in Nat /\ \A x \in Cited(u) : m.id < x.id
  BY SliceSound
<1>3. u.queue \in Seq(Msg) /\ u.context \in Seq(Msg)
  BY AfterSliceType DEF Reboxed, Reg
<1>4. /\ u.queue = SubSeq(r.queue, v + 1, Len(r.queue))
      /\ u.context = SubSeq(r.context, w + 1, Len(r.context))
      /\ u.dropped = 0 /\ u.evicted = 0
  BY DEF AfterSlice, Drained, SliceRest, Reg
<1>5. v \in 0 .. Len(r.queue) /\ w \in 0 .. Len(r.context)
  BY SliceType
<1>6. p.queue = u.queue /\ p.context = u.context /\ p.dropped = 0 /\ p.evicted = 0
  BY <1>4 DEF Sliced, SameBox
<1> HIDE DEF u, v, w
<1>7. /\ Suffix(u.queue, r.queue) /\ Len(u.queue) = Len(r.queue) - v
      /\ \A i \in 1 .. Len(r.queue) - v : u.queue[i] = r.queue[i + v]
  BY <1>1, <1>4, <1>5, RestSuffix
<1>8. /\ Suffix(u.context, r.context) /\ Len(u.context) = Len(r.context) - w
      /\ \A i \in 1 .. Len(r.context) - w : u.context[i] = r.context[i + w]
  BY <1>1, <1>4, <1>5, RestSuffix
<1>9. Ids(u.queue) \subseteq Ids(r.queue) /\ Ids(u.context) \subseteq Ids(r.context)
  BY <1>1, <1>3, <1>7, <1>8, SuffixIds
<1>10. \A i \in Ids(r.queue) \ Ids(u.queue) : \E m \in Items(r.queue, v) : m.id = i
  BY <1>6, SliceTakes DEF v
<1>11. \A i \in Ids(r.context) \ Ids(u.context) : \E m \in Items(r.context, w) : m.id = i
  BY <1>6, SliceTakes DEF w
<1> DEFINE s == BoxSeat(a, r)
           t == BoxSeat(b, p)
<1>12. /\ s.mode = a /\ s.wakes = Ids(r.queue) /\ s.asides = Ids(r.context)
       /\ t.mode = b /\ t.wakes = Ids(u.queue) /\ t.asides = Ids(u.context) /\ t.lost = 0
  BY <1>6 DEF BoxSeat
<1>13. TheFloor!Older((TheFloor!Held(s) \cup {}) \ TheFloor!Held(t), TheFloor!Held(t))
  <2> SUFFICES ASSUME NEW i \in (Ids(r.queue) \cup Ids(r.context)) \ (Ids(u.queue) \cup Ids(u.context)),
                      NEW j \in Ids(u.queue) \cup Ids(u.context)
               PROVE  i < j
    BY <1>12 DEF TheFloor!Older, TheFloor!Held
  <2>1. PICK m \in Items(r.context, w) \cup Items(r.queue, v) : m.id = i
    BY <1>10, <1>11
  <2>2. PICK x \in Cited(u) : x.id = j
    BY <1>3, HeldCited
  <2>3. QED
    BY <1>2, <2>1, <2>2
<1> HIDE DEF s, t
<1>14. TheFloor!Hands(s, t, {})
  BY <1>9, <1>12, <1>13 DEF TheFloor!Hands
<1>15. QED
  BY <1>14 DEF s, t

\* A box that is handed over as a whole with what is new.
LEMMA WholeHands ==
  ASSUME NEW r \in Reg, NEW p, Emptied(p), NEW new,
         NEW a, a # "empty", NEW b \in {"engaged", "away"}
  PROVE  TheFloor!Hands(BoxSeat(a, r), BoxSeat(b, p), new)
<1>1. Ids(<< >>) = {}
  BY EmptySeq, IdsOf
<1> DEFINE s == BoxSeat(a, r)
           t == BoxSeat(b, p)
<1>2. s.mode = a /\ t.mode = b /\ t.wakes = {} /\ t.asides = {} /\ t.lost = 0
  BY <1>1 DEF BoxSeat, Emptied
<1> HIDE DEF s, t
<1>3. TheFloor!Hands(s, t, new)
  BY <1>2 DEF TheFloor!Hands, TheFloor!Older, TheFloor!Held
<1>4. QED
  BY <1>3 DEF s, t

-----------------------------------------------------------------------------
(* Where the messages of a box go.                                         *)

\* The deliveries to n, as the transcript has them.
GivenTo(g, n) == {f \in Given(g) : f.sink = Transcript /\ f.name = n}

\* How many of the messages in old are neither in new nor handed to n.
Missing(old, new, g, n) ==
  Cardinality((Ids(old) \ Ids(new)) \ UNION {{m.id : m \in f.msgs} : f \in GivenTo(g, n)})

\* They are on the count, which goes from k to l, or the count was told.
Accounted(old, k, new, l, adr, g, n) ==
  \/ k + Missing(old, new, g, n) <= l
  \/ /\ Missing(old, new, g, n) = 0
     /\ \E f \in GivenTo(g, n) : \E m \in f.msgs : m.id = 0 /\ m.count = k /\ m.adr = adr

\* What was in the box r is in the box of n, handed over, or counted as lost.
Fares(r, g, n) ==
  LET p == g.reg[n]
  IN  /\ Accounted(r.queue, r.dropped, p.queue, p.dropped, "direct", g, n)
      /\ Accounted(r.context, r.evicted, p.context, p.evicted, "overheard", g, n)

LEMMA KeptAccounted ==
  ASSUME NEW old, NEW new, Ids(old) \subseteq Ids(new), NEW k \in Nat, NEW l \in Nat, k <= l
  PROVE  \A adr, g, n : Accounted(old, k, new, l, adr, g, n)
<1> SUFFICES ASSUME NEW adr, NEW g, NEW n PROVE Accounted(old, k, new, l, adr, g, n)
  OBVIOUS
<1>1. \A S : (Ids(old) \ Ids(new)) \ S = {}
  OBVIOUS
<1>2. Missing(old, new, g, n) = 0
  BY <1>1, FS_EmptySet DEF Missing
<1>3. QED
  BY <1>2 DEF Accounted

LEMMA SameAccounted ==
  ASSUME NEW s, NEW k \in Nat
  PROVE  \A adr, g, n : Accounted(s, k, s, k, adr, g, n)
<1>1. Ids(s) \subseteq Ids(s) /\ k <= k
  OBVIOUS
<1>2. QED
  BY <1>1, KeptAccounted

\* One message lost is one more on the count.
LEMMA OneAccounted ==
  ASSUME NEW old, NEW new, NEW e, Ids(old) \ Ids(new) \subseteq {e},
         NEW k \in Nat, NEW l \in Nat, k < l
  PROVE  \A adr, g, n : Accounted(old, k, new, l, adr, g, n)
<1> SUFFICES ASSUME NEW adr, NEW g, NEW n PROVE Accounted(old, k, new, l, adr, g, n)
  OBVIOUS
<1>1. \A S : (Ids(old) \ Ids(new)) \ S \subseteq {e}
  OBVIOUS
<1>2. Missing(old, new, g, n) \in {0, 1}
  BY <1>1, AtMostOne DEF Missing
<1>3. QED
  BY <1>2 DEF Accounted

\* What is gone was handed over, with the count if there was one.
LEMMA HandedAccounted ==
  ASSUME NEW g, NEW n, NEW S, Handing(g, n, S), NEW old, NEW new,
         \A i \in Ids(old) \ Ids(new) : \E m \in S : m.id = i,
         NEW k \in Nat, NEW l \in Nat, NEW adr, k > 0 => Line(adr, k) \in S
  PROVE  Accounted(old, k, new, l, adr, g, n)
<1>1. PICK f \in GivenTo(g, n) : S \subseteq f.msgs
  BY DEF Handing, GivenTo
<1>2. Missing(old, new, g, n) = 0
  <2> DEFINE told == UNION {{m.id : m \in d.msgs} : d \in GivenTo(g, n)}
  <2>1. \A m \in S : m.id \in told
    BY <1>1
  <2> HIDE DEF told
  <2>2. (Ids(old) \ Ids(new)) \ told = {}
    BY <2>1
  <2>3. QED
    BY <2>2, FS_EmptySet DEF Missing, told
<1>3. CASE k = 0
  BY <1>2, <1>3 DEF Accounted
<1>4. CASE k > 0
  <2>1. Line(adr, k) \in f.msgs
    BY <1>1, <1>4
  <2>2. Line(adr, k).id = 0 /\ Line(adr, k).count = k /\ Line(adr, k).adr = adr
    BY DEF Line
  <2>3. QED
    BY <1>1, <1>2, <2>1, <2>2 DEF Accounted
<1>5. QED
  BY <1>3, <1>4

LEMMA SameFares ==
  ASSUME NEW r \in Reg, NEW g, NEW n, SameBox(r, g.reg[n])
  PROVE  Fares(r, g, n)
<1>1. r.dropped \in Nat /\ r.evicted \in Nat
  BY DEF Reg
<1>2. /\ Accounted(r.queue, r.dropped, r.queue, r.dropped, "direct", g, n)
      /\ Accounted(r.context, r.evicted, r.context, r.evicted, "overheard", g, n)
  BY <1>1, SameAccounted
<1>3. QED
  BY <1>2 DEF Fares, SameBox

LEMMA FaresAlike ==
  ASSUME NEW r, NEW p, SameBox(r, p), NEW g, NEW n, Fares(p, g, n)
  PROVE  Fares(r, g, n)
BY DEF Fares, SameBox

\* A box with nothing in it loses nothing.
LEMMA EmptyFares ==
  ASSUME NEW r, Emptied(r), NEW g, NEW n, g.reg[n] \in Reg
  PROVE  Fares(r, g, n)
<1>1. \A s : Ids(<< >>) \subseteq Ids(s)
  BY EmptySeq, IdsOf
<1>2. /\ r.queue = << >> /\ r.context = << >> /\ r.dropped = 0 /\ r.evicted = 0
      /\ g.reg[n].dropped \in Nat /\ g.reg[n].evicted \in Nat
  BY DEF Emptied, Reg
<1>3. \A l \in Nat : 0 \in Nat /\ 0 <= l
  OBVIOUS
<1>4. QED
  BY <1>1, <1>2, <1>3, KeptAccounted DEF Fares

LEMMA SlicedFares ==
  ASSUME NEW r \in Reg, BoundedReg(r), NEW g, NEW n, g.reg[n] \in Reg,
         Sliced(r, g.reg[n]), Handing(g, n, SliceOf(r))
  PROVE  Fares(r, g, n)
<1> DEFINE p == g.reg[n]
<1>1. /\ \A i \in Ids(r.queue) \ Ids(p.queue) : \E m \in SliceOf(r) : m.id = i
      /\ \A i \in Ids(r.context) \ Ids(p.context) : \E m \in SliceOf(r) : m.id = i
  BY SliceTakes DEF SliceOf
<1>2. /\ r.dropped > 0 => Line("direct", r.dropped) \in SliceOf(r)
      /\ r.evicted > 0 => Line("overheard", r.evicted) \in SliceOf(r)
  BY DEF SliceOf, Notice, Omitted
<1>3. /\ r.dropped \in Nat /\ r.evicted \in Nat /\ p.dropped \in Nat /\ p.evicted \in Nat
  BY DEF Reg
<1>4. QED
  BY <1>1, <1>2, <1>3, HandedAccounted DEF Fares

\* All that an agent overheard.
Overheard(r) == Omitted(r) \cup Items(r.context, Len(r.context))

LEMMA WholeFares ==
  ASSUME NEW r \in Reg, r.queue = << >>, r.dropped = 0,
         NEW g, NEW n, g.reg[n] \in Reg, Handing(g, n, Overheard(r))
  PROVE  Fares(r, g, n)
<1> DEFINE p == g.reg[n]
<1>1. /\ r.context \in Seq(Msg) /\ r.evicted \in Nat /\ p.dropped \in Nat /\ p.evicted \in Nat
  BY DEF Reg
<1>2. \A i \in Ids(r.context) \ Ids(p.context) : \E m \in Overheard(r) : m.id = i
  <2> TAKE i \in Ids(r.context) \ Ids(p.context)
  <2>1. PICK j \in DOMAIN r.context : r.context[j].id = i
    BY <1>1, IdsOf
  <2>2. j \in 1 .. Len(r.context)
    BY <1>1, ElementsType
  <2>3. QED
    BY <2>1, <2>2 DEF Overheard, Items
<1>3. r.evicted > 0 => Line("overheard", r.evicted) \in Overheard(r)
  BY DEF Overheard, Omitted
<1>4. Accounted(r.context, r.evicted, p.context, p.evicted, "overheard", g, n)
  BY <1>1, <1>2, <1>3, HandedAccounted
<1>5. Ids(<< >>) \subseteq Ids(p.queue)
  BY EmptySeq, IdsOf
<1>6. Accounted(r.queue, r.dropped, p.queue, p.dropped, "direct", g, n)
  <2>1. \A l \in Nat : 0 \in Nat /\ 0 <= l
    OBVIOUS
  <2>2. QED
    BY <1>1, <1>5, <2>1, KeptAccounted
<1>7. QED
  BY <1>4, <1>6 DEF Fares

\* A bounded sequence that takes m, and the count that goes with it.
LEMMA NewestAccounted ==
  ASSUME NEW s \in Seq(Msg), NEW m \in Msg, NEW cap \in Nat \ {0}, NEW k \in Nat,
         \A i, j \in DOMAIN s : i < j /\ s[j].id > 0 => s[i].id < s[j].id,
         \A i \in DOMAIN s : s[i].id <= k,
         m.id = 0 \/ k < m.id,
         NEW t, t = (IF Len(s) >= cap THEN Append(Tail(s), m) ELSE Append(s, m)),
         NEW a \in Nat, NEW b, b = (IF Len(s) >= cap THEN a + 1 ELSE a)
  PROVE  \A adr, g, n : Accounted(s, a, t, b, adr, g, n)
<1>1. Len(s) \in Nat
  BY ElementsType
<1>2. /\ Len(s) < cap => Ids(s) \subseteq Ids(t)
      /\ Len(s) >= cap => Ids(s) \ Ids(t) \subseteq {s[1].id}
  BY NewestIds
<1>3. CASE Len(s) < cap
  <2>1. b = a /\ b \in Nat /\ a <= b
    BY <1>1, <1>3
  <2>2. QED
    BY <1>2, <1>3, <2>1, KeptAccounted
<1>4. CASE Len(s) >= cap
  <2>1. b \in Nat /\ a < b
    BY <1>4
  <2>2. QED
    BY <1>2, <1>4, <2>1, OneAccounted
<1>5. QED
  BY <1>1, <1>3, <1>4

LEMMA FilledFares ==
  ASSUME NEW r \in Reg, NEW k \in Nat, NEW x, Sound(r.queue, r.context, k, x),
         NEW m \in Msg, m.id = 0 \/ k < m.id, NEW g, NEW n,
         SameBox(Enqueue(r, m), g.reg[n]) \/ SameBox(Overhear(r, m), g.reg[n])
  PROVE  Fares(r, g, n)
<1> DEFINE p == g.reg[n]
<1>1. /\ r.queue \in Seq(Msg) /\ r.context \in Seq(Msg) /\ r.dropped \in Nat
      /\ r.evicted \in Nat /\ QueueCap \in Nat \ {0} /\ ContextCap \in Nat \ {0}
  BY CapsAssumption DEF Reg
<1>2. /\ \A i, j \in DOMAIN r.queue : i < j /\ r.queue[j].id > 0 => r.queue[i].id < r.queue[j].id
      /\ \A i \in DOMAIN r.queue : r.queue[i].id <= k
      /\ \A i, j \in DOMAIN r.context : i < j /\ r.context[j].id > 0 => r.context[i].id < r.context[j].id
      /\ \A i \in DOMAIN r.context : r.context[i].id <= k
  BY DEF Sound, Ascending
<1>3. CASE SameBox(Enqueue(r, m), p)
  <2>1. /\ p.queue = (IF Len(r.queue) >= QueueCap THEN Append(Tail(r.queue), m)
                      ELSE Append(r.queue, m))
        /\ p.dropped = (IF Len(r.queue) >= QueueCap THEN r.dropped + 1 ELSE r.dropped)
        /\ p.context = r.context /\ p.evicted = r.evicted
    BY <1>3 DEF SameBox, Enqueue, Reg
  <2>2. Accounted(r.queue, r.dropped, p.queue, p.dropped, "direct", g, n)
    BY <1>1, <1>2, <2>1, NewestAccounted
  <2>3. Accounted(r.context, r.evicted, p.context, p.evicted, "overheard", g, n)
    BY <1>1, <2>1, SameAccounted
  <2>4. QED
    BY <2>2, <2>3 DEF Fares
<1>4. CASE SameBox(Overhear(r, m), p)
  <2>1. /\ p.context = (IF Len(r.context) >= ContextCap THEN Append(Tail(r.context), m)
                        ELSE Append(r.context, m))
        /\ p.evicted = (IF Len(r.context) >= ContextCap THEN r.evicted + 1 ELSE r.evicted)
        /\ p.queue = r.queue /\ p.dropped = r.dropped
    BY <1>4 DEF SameBox, Overhear, Reg
  <2>2. Accounted(r.context, r.evicted, p.context, p.evicted, "overheard", g, n)
    BY <1>1, <1>2, <2>1, NewestAccounted
  <2>3. Accounted(r.queue, r.dropped, p.queue, p.dropped, "direct", g, n)
    BY <1>1, <2>1, SameAccounted
  <2>4. QED
    BY <2>2, <2>3 DEF Fares
<1>5. QED
  BY <1>3, <1>4

-----------------------------------------------------------------------------
(* What an operator leaves alone.                                          *)

\* The connections that no agent but those in W depends on.
Own(h, W) == {c \in Conn : \A q \in Agents(h) \ W : h.reg[q].client # c}

\* But for W, agents are where they were.
Placed(h, g, W) ==
  /\ \A q \in Name \ W : /\ g.reg[q].where = h.reg[q].where
                         /\ g.reg[q].kind = h.reg[q].kind
                         /\ g.reg[q].client = h.reg[q].client
                         /\ g.reg[q].state = h.reg[q].state
  /\ \A c \in Conn \ Own(h, W) : g.conn[c].connected = h.conn[c].connected

Boxed(h, g, W) == \A q \in Name \ W : SameBox(h.reg[q], g.reg[q])

\* No message more, and the floor no more open.
Onward(h, g) == g.counter = h.counter /\ (h.frozen => g.frozen)

Level(h, g, W)  == Placed(h, g, W) /\ Boxed(h, g, {}) /\ Onward(h, g)
Beside(h, g, W) == Placed(h, g, W) /\ Boxed(h, g, W) /\ Onward(h, g)

LEMMA PlacedOwn ==
  ASSUME NEW h, NEW g, NEW W, Placed(h, g, W)
  PROVE  Agents(g) \ W = Agents(h) \ W /\ Own(g, W) = Own(h, W)
<1>1. Agents(g) \ W = Agents(h) \ W
  BY DEF Placed, Agents, Live, IsObserver
<1>2. \A q \in Agents(h) \ W : g.reg[q].client = h.reg[q].client
  BY DEF Placed, Agents, Live
<1>3. QED
  BY <1>1, <1>2 DEF Own

LEMMA PlacedTransitive ==
  ASSUME NEW h, NEW g, NEW i, NEW W, Placed(h, g, W), Placed(g, i, W)
  PROVE  Placed(h, i, W)
<1>1. Own(g, W) = Own(h, W)
  BY PlacedOwn
<1>2. QED
  BY <1>1 DEF Placed

LEMMA PlacedWider ==
  ASSUME NEW h, NEW g, NEW W, NEW V, W \subseteq V, Placed(h, g, W)
  PROVE  Placed(h, g, V)
<1>1. Own(h, W) \subseteq Own(h, V)
  BY DEF Own
<1>2. QED
  BY <1>1 DEF Placed

LEMMA BoxedTransitive ==
  ASSUME NEW h, NEW g, NEW i, NEW W, Boxed(h, g, W), Boxed(g, i, W)
  PROVE  Boxed(h, i, W)
BY DEF Boxed, SameBox

LEMMA LevelTransitive ==
  ASSUME NEW h, NEW g, NEW i, NEW W, Level(h, g, W), Level(g, i, W)
  PROVE  Level(h, i, W)
BY PlacedTransitive, BoxedTransitive DEF Level, Onward

LEMMA LevelBeside ==
  ASSUME NEW h, NEW g, NEW W, Level(h, g, W)
  PROVE  Beside(h, g, W)
BY DEF Level, Beside, Boxed

LEMMA BesideTransitive ==
  ASSUME NEW h, NEW g, NEW i, NEW W, Beside(h, g, W), Beside(g, i, W)
  PROVE  Beside(h, i, W)
BY PlacedTransitive, BoxedTransitive DEF Beside, Onward

\* What is not about registrations, and cuts no connection of an agent.
LEMMA SameRegLevel ==
  ASSUME NEW h, NEW g, NEW W, g.reg = h.reg, Onward(h, g),
         \A c \in Conn \ Own(h, W) : g.conn[c].connected = h.conn[c].connected
  PROVE  Level(h, g, W)
BY DEF Level, Placed, Boxed, SameBox

\* A seat that a step leaves alone.
LEMMA BesideSeat ==
  ASSUME NEW h, Typed(h), NEW g, NEW W, Placed(h, g, W), NEW q \in Name \ W
  PROVE  /\ IsAgent(g, q) <=> IsAgent(h, q)
         /\ IsAgent(h, q) => ModeOf(g, q) = ModeOf(h, q)
         /\ Typed(g) /\ SameBox(h.reg[q], g.reg[q]) => SeatOf(g, q) = SeatOf(h, q)
<1>1. IsAgent(g, q) <=> IsAgent(h, q)
  BY DEF Placed, IsAgent
<1>2. ASSUME IsAgent(h, q)
      PROVE  ModeOf(g, q) = ModeOf(h, q)
  <2>1. CASE h.reg[q].where = "dead"
    BY <2>1 DEF Placed, ModeOf
  <2>2. CASE h.reg[q].where = "live"
    <3>1. q \in Agents(h) \ W
      BY <1>2, <2>2 DEF IsAgent, Agents, Live, IsObserver
    <3>2. h.reg[q].client \in Conn => g.conn[h.reg[q].client].connected = h.conn[h.reg[q].client].connected
      BY <3>1 DEF Placed, Own
    <3>3. Reachable(g, q) <=> Reachable(h, q)
      BY <3>2 DEF Placed, Reachable
    <3>4. QED
      BY <3>3 DEF Placed, ModeOf
  <2>3. h.reg[q].where \in {"live", "dead"}
    BY <1>2 DEF IsAgent, Typed, HubState, Reg
  <2>4. QED
    BY <2>1, <2>2, <2>3
<1>3. QED
  BY <1>1, <1>2, SeatIs DEF SameBox, BoxSeat

\* Whose connection it is.
LEMMA OwnConnections ==
  ASSUME NEW h, Owned(h), NEW W
  PROVE  /\ \A q \in Live(h) : q \in W \/ q \notin Agents(h) => h.reg[q].client \in Own(h, W)
         /\ \A c \in Conn : h.conn[c].name \in W \/ h.conn[c].name \notin Name => c \in Own(h, W)
<1>1. Agents(h) \subseteq Live(h) /\ Live(h) \subseteq Name
  BY DEF Agents, Live
<1>2. \A q \in Live(h) : h.reg[q].client \in Conn /\ h.conn[h.reg[q].client].name = q
  BY DEF Owned
<1>3. ASSUME NEW c \in Conn, h.conn[c].name \notin Agents(h) \ W
      PROVE  c \in Own(h, W)
  BY <1>1, <1>2, <1>3 DEF Own
<1>4. QED
  BY <1>1, <1>2, <1>3

LEMMA PushLevel ==
  ASSUME NEW h, Typed(h), NEW W, NEW frames \in SUBSET Frame, NEW records \in SUBSET Frame,
         \A f \in frames : f.sink \in Conn => f.sink \in Own(h, W)
  PROVE  Level(h, Push(h, frames, records), W)
<1> DEFINE p == Push(h, frames, records)
           sinks == {f.sink : f \in frames}
<1>1. p.reg = h.reg /\ SameFloor(h, p)
  BY PushType
<1>2. p.conn = [c \in Conn |-> IF c \in sinks THEN Loaded(h, c) ELSE h.conn[c]]
  BY DEF Push, Typed, HubState
<1>3. \A c \in Conn \ Own(h, W) : p.conn[c] = h.conn[c]
  BY <1>2
<1> HIDE DEF p
<1>4. Level(h, p, W)
  BY <1>1, <1>3, SameRegLevel DEF SameFloor, Onward
<1>5. QED
  BY <1>4 DEF p

LEMMA EmitLevel ==
  ASSUME NEW h, Typed(h), Owned(h), NEW W,
         NEW event \in Events, NEW about \in Name \cup {NoName}
  PROVE  /\ \A skip : Level(h, EmitSkipping(h, event, about, skip), W)
         /\ Level(h, Emit(h, event, about), W)
<1>1. ASSUME NEW skip
      PROVE  Level(h, EmitSkipping(h, event, about, skip), W)
  <2> DEFINE seen(s) == [sink |-> s, t |-> "event", event |-> event, name |-> about]
             seats   == {h.reg[n].client : n \in Observers(h) \ skip}
             frames  == {seen(c) : c \in seats \cap Conn}
             records == {seen(Transcript)}
  <2>1. frames \in SUBSET Frame /\ records \in SUBSET Frame
    BY DEF Frame, Event, Sinks
  <2>2. \A f \in frames : f.sink \in seats
    OBVIOUS
  <2>3. \A n \in Observers(h) : n \in Live(h) /\ n \notin Agents(h)
    BY DEF Observers, Agents
  <2>4. \A f \in frames : f.sink \in Own(h, W)
    BY <2>2, <2>3, OwnConnections
  <2>5. EmitSkipping(h, event, about, skip) = Push(h, frames, records)
    BY DEF EmitSkipping
  <2> HIDE DEF frames, records
  <2>6. QED
    BY <2>1, <2>4, <2>5, PushLevel
<1>2. Level(h, EmitSkipping(h, event, about, {}), W)
  BY <1>1
<1>3. Level(h, Emit(h, event, about), W)
  BY <1>2 DEF Emit
<1>4. QED
  BY <1>1, <1>3

LEMMA ReplyLevel ==
  ASSUME NEW h, Typed(h), NEW W, NEW c \in Conn, c \in Own(h, W), NEW from \in Conn,
         NEW verdict \in {"ok", "err"}
  PROVE  Level(h, Reply(h, c, from, verdict), W)
<1> DEFINE frames == {[sink |-> c, t |-> verdict, re |-> from]}
<1>1. frames \in SUBSET Frame /\ {} \in SUBSET Frame
  BY DEF Frame, Answer
<1>2. \A f \in frames : f.sink = c
  OBVIOUS
<1>3. Reply(h, c, from, verdict) = Push(h, frames, {})
  BY DEF Reply
<1> HIDE DEF frames
<1>4. QED
  BY <1>1, <1>2, <1>3, PushLevel

LEMMA WithFloorLevel ==
  ASSUME NEW h, Typed(h), NEW W, NEW round, NEW frozen, NEW muted, NEW limit,
         h.frozen => frozen
  PROVE  Level(h, WithFloor(h, round, frozen, muted, limit), W)
<1> DEFINE g == WithFloor(h, round, frozen, muted, limit)
<1>1. g.reg = h.reg /\ g.conn = h.conn /\ g.frozen = frozen /\ g.counter = h.counter
  BY DEF WithFloor, Typed, HubState
<1> HIDE DEF g
<1>2. Level(h, g, W)
  BY <1>1, SameRegLevel DEF Onward
<1>3. QED
  BY <1>2 DEF g

LEMMA CheckRoundLimitLevel ==
  ASSUME NEW h, Typed(h), Owned(h), NEW W
  PROVE  Level(h, CheckRoundLimit(h), W)
<1> DEFINE f == [h EXCEPT !.frozen = TRUE]
<1>1. CASE h.round >= h.limit /\ ~h.frozen
  <2>1. /\ f \in HubState /\ f.reg = h.reg /\ f.conn = h.conn /\ f.frozen = TRUE
        /\ f.counter = h.counter /\ f.recent = h.recent
    BY DEF Typed, HubState
  <2>2. CheckRoundLimit(h) = Emit(f, "round_limit", NoName)
    BY <1>1 DEF CheckRoundLimit
  <2> HIDE DEF f
  <2>3. Typed(f) /\ Owned(f) /\ Level(h, f, W)
    BY <2>1, SameRegLevel DEF Typed, Owned, Live, Onward
  <2>4. Level(f, Emit(f, "round_limit", NoName), W)
    BY <2>3, EmitLevel DEF Events
  <2>5. QED
    BY <2>2, <2>3, <2>4, LevelTransitive
<1>2. CASE ~(h.round >= h.limit /\ ~h.frozen)
  <2>1. CheckRoundLimit(h) = h
    BY <1>2 DEF CheckRoundLimit
  <2>2. QED
    BY <2>1, SameRegLevel DEF Onward
<1>3. QED
  BY <1>1, <1>2

LEMMA CheckSessionDoneLevel ==
  ASSUME NEW h, Typed(h), Owned(h), NEW W
  PROVE  /\ Level(h, CheckSessionDone(h), W)
         /\ \A n \in Name : CheckSessionDone(h).reg[n].state = h.reg[n].state
<1> DEFINE e   == Emit(h, "session_done", NoName)
           reg == [n \in Name |-> Unmarked(h, n)]
           g   == [e EXCEPT !.round = 0, !.reg = reg]
<1>1. CASE SessionOver(h)
  <2>1. CheckSessionDone(h) = g
    BY <1>1 DEF CheckSessionDone, Unmarked
  <2>2. Typed(e) /\ e.reg = h.reg /\ Level(h, e, W)
    BY EmitType, EmitLevel DEF Events, Emit
  <2> HIDE DEF e
  <2>3. \A n \in Name : /\ reg[n].where = h.reg[n].where /\ reg[n].kind = h.reg[n].kind
                        /\ reg[n].client = h.reg[n].client /\ reg[n].state = h.reg[n].state
                        /\ SameBox(h.reg[n], reg[n])
    BY DEF Typed, HubState, Reg, Unmarked, SameBox
  <2> HIDE DEF reg
  <2>4. g.reg = reg /\ g.conn = e.conn /\ g.counter = e.counter /\ g.frozen = e.frozen
    BY <2>2 DEF Typed, HubState
  <2> HIDE DEF g
  <2>5. Level(e, g, W)
    BY <2>2, <2>3, <2>4 DEF Level, Placed, Boxed, Onward
  <2>6. QED
    BY <2>1, <2>2, <2>3, <2>4, <2>5, LevelTransitive
<1>2. CASE ~SessionOver(h)
  <2>1. CheckSessionDone(h) = h
    BY <1>2 DEF CheckSessionDone
  <2>2. QED
    BY <2>1, SameRegLevel DEF Onward
<1>3. QED
  BY <1>1, <1>2

LEMMA DeliverLevel ==
  ASSUME NEW h, Typed(h), Owned(h), NEW batch, DOMAIN batch \subseteq Live(h),
         \A n \in DOMAIN batch : batch[n] \in SUBSET Msg,
         NEW W, \A n \in DOMAIN batch : n \in W \/ n \notin Agents(h)
  PROVE  LET d == Deliver(h, batch)
         IN  /\ Level(h, d, W)
             /\ \A n \in DOMAIN batch : n \in Agents(h) => d.reg[n].state = "busy"
             /\ \A n \in Name \ DOMAIN batch : d.reg[n].state = h.reg[n].state
<1> DEFINE to == DOMAIN batch
           frame(s, n) == [sink |-> s, t |-> "deliver", name |-> n,
                           round |-> h.round, msgs |-> batch[n]]
           frames  == {frame(h.reg[n].client, n) : n \in to}
           records == {frame(Transcript, n) : n \in to}
           p       == Push(h, frames, records)
           reg     == [n \in Name |-> Busied(h, to, n)]
           d       == [p EXCEPT !.reg = reg]
<1>1. \A n \in to : h.reg[n].client \in Own(h, W) /\ n \in Name /\ h.reg[n].client \in Conn
  BY OwnConnections DEF Live, Own
<1>2. frames \in SUBSET Frame /\ records \in SUBSET Frame
  BY <1>1 DEF Frame, Delivery, Sinks, Live, Typed, HubState
<1>3. \A f \in frames : f.sink \in Own(h, W)
  BY <1>1
<1>4. Deliver(h, batch) = d
  BY DEF Deliver, Busied
<1> HIDE DEF frames, records
<1>5. Typed(p) /\ p.reg = h.reg /\ Level(h, p, W)
  BY <1>2, <1>3, PushType, PushLevel
<1> HIDE DEF p
<1>6. \A n \in Name : /\ reg[n].where = h.reg[n].where /\ reg[n].kind = h.reg[n].kind
                      /\ reg[n].client = h.reg[n].client /\ SameBox(h.reg[n], reg[n])
                      /\ n \notin to => reg[n].state = h.reg[n].state
                      /\ IsObserver(h, n) => reg[n].state = h.reg[n].state
                      /\ n \in to /\ ~IsObserver(h, n) => reg[n].state = "busy"
  BY DEF Typed, HubState, Reg, Busied, SameBox
<1> HIDE DEF reg
<1>7. d.reg = reg /\ d.conn = p.conn /\ d.counter = p.counter /\ d.frozen = p.frozen
  BY <1>5 DEF Typed, HubState
<1> HIDE DEF d
<1>8. \A n \in Name \ W : n \in to => IsObserver(h, n)
  BY DEF Agents
<1>9. Level(p, d, W)
  BY <1>5, <1>6, <1>7, <1>8 DEF Level, Placed, Boxed, Onward
<1>10. Level(h, d, W)
  BY <1>5, <1>9, LevelTransitive
<1>11. \A n \in Agents(h) : n \in Name /\ ~IsObserver(h, n)
  BY DEF Agents, Live
<1>12. QED
  BY <1>4, <1>6, <1>7, <1>10, <1>11

-----------------------------------------------------------------------------
(* What a handler does with the box of its participant.                    *)

\* A slice of it was handed over, and an agent is at work.
GaveSlice(h, g, n) ==
  /\ Sliced(h.reg[n], g.reg[n]) /\ Handing(g, n, SliceOf(h.reg[n]))
  /\ g.reg[n].kind = "agent" => g.reg[n].state = "busy"

\* It was left alone, or gave a slice.
Serves(h, g, n) == SameBox(h.reg[n], g.reg[n]) \/ GaveSlice(h, g, n)

\* A handler of n that does not change who n is.
Tends(h, g, n) == Beside(h, g, {n}) /\ Serves(h, g, n)

LEMMA SlicedAlike ==
  ASSUME NEW r \in Reg, NEW p \in Reg, SameBox(r, p)
  PROVE  SameBox(AfterSlice(r), AfterSlice(p)) /\ SliceOf(p) = SliceOf(r)
<1>1. /\ p.queue = r.queue /\ p.context = r.context
      /\ p.dropped = r.dropped /\ p.evicted = r.evicted
  BY DEF SameBox
<1>2. SliceLen(p) = SliceLen(r)
  BY <1>1 DEF SliceLen
<1>3. SliceRest(p) = SliceRest(r)
  BY <1>1, <1>2 DEF SliceRest
<1>4. SliceContext(p) = SliceContext(r)
  BY <1>1, <1>2, <1>3 DEF SliceContext
<1>5. ASSUME NEW b \in {r, p}
      PROVE  /\ AfterSlice(b).queue = SliceRest(b)
             /\ AfterSlice(b).dropped = 0 /\ AfterSlice(b).evicted = 0
             /\ AfterSlice(b).context = SubSeq(b.context, SliceContext(b) + 1, Len(b.context))
  <2>1. b \in Reg
    OBVIOUS
  <2>2. QED
    BY <2>1 DEF AfterSlice, Drained, Reg
<1>6. SliceOf(p) = SliceOf(r)
  BY <1>1, <1>2, <1>4 DEF SliceOf, Omitted, Notice
<1>7. QED
  BY <1>1, <1>3, <1>4, <1>5, <1>6 DEF SameBox

LEMMA ServesAfter ==
  ASSUME NEW h, Typed(h), NEW g, Typed(g), NEW i, NEW n \in Name,
         SameBox(h.reg[n], g.reg[n]), Serves(g, i, n)
  PROVE  Serves(h, i, n)
<1>1. h.reg[n] \in Reg /\ g.reg[n] \in Reg
  BY DEF Typed, HubState
<1>2. /\ SameBox(AfterSlice(h.reg[n]), AfterSlice(g.reg[n]))
      /\ SliceOf(g.reg[n]) = SliceOf(h.reg[n])
  BY <1>1, SlicedAlike
<1>3. QED
  BY <1>2 DEF Serves, GaveSlice, Sliced, SameBox

\* Before and after a handler serves a box, others may keep it.
LEMMA ServesBetween ==
  ASSUME NEW h, Typed(h), NEW g, Typed(g), NEW i, Typed(i), NEW n \in Name,
         i.reg[n].kind = g.reg[n].kind
  PROVE  /\ SameBox(h.reg[n], g.reg[n]) /\ Serves(g, i, n) => Serves(h, i, n)
         /\ Serves(h, g, n) /\ SameBox(g.reg[n], i.reg[n]) /\ i.reg[n].state = g.reg[n].state
            /\ Adds(g, i) => Serves(h, i, n)
<1>1. h.reg[n] \in Reg /\ g.reg[n] \in Reg /\ i.reg[n] \in Reg
  BY DEF Typed, HubState
<1>2. SameBox(h.reg[n], g.reg[n]) => /\ SameBox(AfterSlice(h.reg[n]), AfterSlice(g.reg[n]))
                                   /\ SliceOf(g.reg[n]) = SliceOf(h.reg[n])
  BY <1>1, SlicedAlike
<1>3. Adds(g, i) => \A S : Handing(g, n, S) => Handing(i, n, S)
  BY HandingLater DEF Typed, HubState
<1>4. QED
  BY <1>2, <1>3 DEF Serves, GaveSlice, Sliced, SameBox

LEMMA HandSliceTends ==
  ASSUME NEW h, Typed(h), Owned(h), NEW n \in Live(h)
  PROVE  LET g == HandSlice(h, n) IN Beside(h, g, {n}) /\ GaveSlice(h, g, n)
<1> DEFINE p     == h.reg[n]
           wake  == Notice(p) \cup Items(p.queue, SliceLen(p))
           batch == Omitted(p) \cup Items(p.context, SliceContext(p)) \cup wake
           k     == IF Asked(wake) THEN h.round + 1 ELSE h.round
           reg   == [h.reg EXCEPT ![n] = AfterSlice(p)]
           taken == WithRound(WithReg(h, reg), k)
           one   == [q \in {n} |-> batch]
           given == Deliver(taken, one)
           g     == HandSlice(h, n)
<1>1. n \in Name /\ p \in Reg /\ BoundedReg(p) /\ h.round \in Nat
  BY DEF Typed, HubState, Live
<1>2. batch \in SUBSET Msg
  BY <1>1, NoticeType, SliceType, ItemsType DEF Reg
<1>3. Reboxed(p, AfterSlice(p))
  BY <1>1, AfterSliceType
<1>4. /\ reg \in [Name -> Reg]
      /\ \A m \in Name : BoundedReg(reg[m])
      /\ \A m \in Name : m # n => reg[m] = h.reg[m]
      /\ reg[n] = AfterSlice(p)
  BY <1>1, <1>3 DEF Typed, HubState, Reboxed
<1>5. g = IF Asked(wake) THEN CheckRoundLimit(given) ELSE given
  BY DEF HandSlice, WithReg, WithRound
<1>6. k \in Nat
  BY <1>1
<1>7. DOMAIN one = {n} /\ one[n] = batch
  OBVIOUS
<1> HIDE DEF batch, wake, k, reg, one
<1>8. /\ Typed(taken) /\ taken.reg = reg /\ taken.conn = h.conn
      /\ taken.frozen = h.frozen /\ taken.counter = h.counter
  BY <1>4, <1>6, WithRegType, WithRoundType DEF SameFloor
<1> HIDE DEF taken
<1>9. Beside(h, taken, {n})
  BY <1>4, <1>8 DEF Beside, Placed, Boxed, Onward, SameBox
<1>10. Live(taken) = Live(h) /\ Owned(taken)
  BY <1>3, <1>4, <1>8 DEF Live, Owned, Reboxed, SameSeat
<1>11. /\ Level(taken, given, {n})
       /\ n \in Agents(taken) => given.reg[n].state = "busy"
  BY <1>2, <1>7, <1>8, <1>10, DeliverLevel
<1>12. \A m \in DOMAIN one : taken.reg[m].client \in Conn /\ one[m] \in SUBSET Msg
  BY <1>2, <1>7, <1>10 DEF Owned
<1>13. Typed(given) /\ Stable(taken, given)
  BY <1>7, <1>8, <1>10, <1>12, DeliverType
<1> HIDE DEF given
<1>14. Owned(given)
  BY <1>10, <1>13, StableAlike DEF Owned, Stable, Live
<1>15. Typed(g) /\ Level(given, g, {n}) /\ g.reg = given.reg
  <2>1. CASE Asked(wake)
    BY <1>5, <1>13, <1>14, <2>1, CheckRoundLimitLevel, CheckRoundLimitType
  <2>2. CASE ~Asked(wake)
    BY <1>5, <1>13, <2>2, SameRegLevel DEF Onward
  <2>3. QED
    BY <2>1, <2>2
<1> HIDE DEF g
<1>16. Level(taken, g, {n})
  BY <1>11, <1>15, LevelTransitive
<1>17. Beside(h, g, {n})
  BY <1>9, <1>16, LevelBeside, BesideTransitive
<1>18. Sliced(p, g.reg[n])
  BY <1>1, <1>4, <1>8, <1>16 DEF Level, Boxed, Sliced
<1>19. g.reg[n].kind = "agent" => g.reg[n].state = "busy"
  <2>1. given.reg[n].kind = taken.reg[n].kind
    BY <1>1, <1>13 DEF Stable
  <2>2. taken.reg[n].kind = "agent" => n \in Agents(taken)
    BY <1>10 DEF Agents, IsObserver
  <2>3. QED
    BY <1>11, <1>15, <2>1, <2>2
<1>20. "sent" \in DOMAIN h
  BY DEF Typed, HubState
<1>21. Handing(g, n, SliceOf(p))
  BY <1>20, HandSliceAdds DEF g
<1>22. QED
  BY <1>17, <1>18, <1>19, <1>21 DEF g, GaveSlice

LEMMA StableOwned ==
  ASSUME NEW h, NEW g, Stable(h, g), Owned(h)
  PROVE  Owned(g)
BY StableAlike DEF Owned, Stable, Live

LEMMA OneRegBeside ==
  ASSUME NEW h, Typed(h), NEW n \in Name, NEW r
  PROVE  LET g == [h EXCEPT !.reg[n] = r]
         IN  /\ Beside(h, g, {n}) /\ g.reg[n] = r
             /\ SameBox(h.reg[n], r) => Level(h, g, {n})
<1> DEFINE g == [h EXCEPT !.reg[n] = r]
<1>1. /\ g.reg = [h.reg EXCEPT ![n] = r]
      /\ g.conn = h.conn /\ g.counter = h.counter /\ g.frozen = h.frozen
  BY DEF Typed, HubState
<1>2. g.reg[n] = r /\ \A q \in Name \ {n} : g.reg[q] = h.reg[q]
  BY <1>1 DEF Typed, HubState
<1> HIDE DEF g
<1>3. Placed(h, g, {n}) /\ Boxed(h, g, {n}) /\ Onward(h, g)
  BY <1>1, <1>2 DEF Placed, Boxed, Onward, SameBox
<1>4. SameBox(h.reg[n], r) => Boxed(h, g, {})
  BY <1>2 DEF Boxed, SameBox
<1>5. QED
  BY <1>2, <1>3, <1>4 DEF g, Beside, Level

LEMMA OneConnLevel ==
  ASSUME NEW h, Typed(h), NEW W, NEW c \in Conn, c \in Own(h, W), NEW k
  PROVE  Level(h, [h EXCEPT !.conn[c] = k], W)
<1> DEFINE g == [h EXCEPT !.conn[c] = k]
<1>1. /\ g.conn = [h.conn EXCEPT ![c] = k]
      /\ g.reg = h.reg /\ g.counter = h.counter /\ g.frozen = h.frozen
  BY DEF Typed, HubState
<1>2. \A d \in Conn \ {c} : g.conn[d] = h.conn[d]
  BY <1>1 DEF Typed, HubState
<1> HIDE DEF g
<1>3. Level(h, g, W)
  BY <1>1, <1>2, SameRegLevel DEF Onward
<1>4. QED
  BY <1>3 DEF g

LEMMA FlushQueueTends ==
  ASSUME NEW h, Typed(h), Linked(h), NEW n \in Live(h)
  PROVE  Tends(h, FlushQueue(h, n), n)
<1>1. n \in Name
  BY DEF Live
<1>2. CASE h.reg[n].queue = << >> \/ ~Reachable(h, n)
  <2>1. FlushQueue(h, n) = h
    BY <1>2 DEF FlushQueue
  <2>2. QED
    BY <2>1, SameRegLevel, LevelBeside DEF Onward, Tends, Serves, SameBox
<1>3. CASE ~(h.reg[n].queue = << >> \/ ~Reachable(h, n))
  <2> DEFINE s == HandSlice(h, n)
             g == CheckSessionDone(s)
  <2>1. FlushQueue(h, n) = g
    BY <1>3 DEF FlushQueue
  <2>2. Beside(h, s, {n}) /\ GaveSlice(h, s, n) /\ Typed(s) /\ Stable(h, s)
    BY HandSliceTends, HandSliceKeeps DEF Linked, Keeps, Follows
  <2> HIDE DEF s
  <2>3. Adds(s, g)
    BY CheckSessionDoneAdds
  <2>4. Owned(s)
    BY <2>2, StableOwned DEF Linked
  <2>5. Level(s, g, {n}) /\ g.reg[n].state = s.reg[n].state /\ Typed(g) /\ Stable(s, g)
    BY <1>1, <2>2, <2>4, CheckSessionDoneLevel, CheckSessionDoneType
  <2> HIDE DEF g
  <2>6. Beside(h, g, {n})
    BY <2>2, <2>5, LevelBeside, BesideTransitive
  <2>7. SameBox(s.reg[n], g.reg[n]) /\ g.reg[n].kind = s.reg[n].kind
    BY <1>1, <2>5 DEF Level, Boxed, Stable
  <2>8. Serves(h, g, n)
    BY <1>1, <2>2, <2>5, <2>7, <2>3, ServesBetween DEF Serves
  <2>9. QED
    BY <2>1, <2>6, <2>8 DEF Tends
<1>4. QED
  BY <1>2, <1>3

LEMMA DisconnectLevel ==
  ASSUME NEW h, Inv(h), NEW c \in Conn
  PROVE  LET g == Disconnect(h, c)
         IN  /\ Level(h, g, {h.conn[c].name})
             /\ \A q \in Name : g.reg[q].where = "none" => h.reg[q].where = "none"
<1> DEFINE n == h.conn[c].name
           W == {n}
           d == Departed(h, n)
           e == Emit(d, "peer_left", n)
           s == CheckSessionDone(e)
           i == IF Holds(h, c) THEN s ELSE h
<1>1. Disconnect(h, c) = Close(i, c)
  BY DEF Disconnect, Depart, Departed
<1>2. Typed(h) /\ Owned(h)
  BY DEF Inv, Linked
<1>3. /\ Typed(i) /\ Owned(i) /\ Level(h, i, W) /\ i.conn[c].name = n
      /\ \A q \in Name : i.reg[q].where = "none" => h.reg[q].where = "none"
  <2>1. CASE Holds(h, c)
    <3>1. n \in Live(h) /\ n \in Name
      BY <2>1 DEF Holds, Live
    <3> DEFINE r == [h.reg[n] EXCEPT !.where = "dead", !.client = NoConn]
    <3>2. d = [h EXCEPT !.reg[n] = r]
      BY <1>2, <3>1 DEF Departed, Typed, HubState
    <3>3. SameBox(h.reg[n], r) /\ r.where = "dead"
      BY <1>2, <3>1 DEF Typed, HubState, Reg, SameBox
    <3>4. Typed(d) /\ Owned(d) /\ d.conn = h.conn
      BY <3>1, DepartedType
    <3> HIDE DEF n, d, r
    <3>5. Level(h, d, W)
      BY <1>2, <3>1, <3>2, <3>3, OneRegBeside
    <3>6. \A q \in Name : d.reg[q].where = "none" => h.reg[q].where = "none"
      BY <1>2, <3>1, <3>2, <3>3 DEF Typed, HubState
    <3>7. Level(d, e, W) /\ Typed(e) /\ Stable(d, e)
      BY <3>1, <3>4, EmitLevel, EmitType DEF Emit, Events
    <3>8. Owned(e)
      BY <3>4, <3>7, StableOwned
    <3> HIDE DEF e
    <3>9. Level(e, s, W) /\ Typed(s) /\ Stable(e, s)
      BY <3>7, <3>8, CheckSessionDoneLevel, CheckSessionDoneType
    <3>10. Owned(s)
      BY <3>8, <3>9, StableOwned
    <3> HIDE DEF s
    <3>11. Level(h, s, W)
      BY <3>5, <3>7, <3>9, LevelTransitive
    <3>12. s.conn[c].name = n
      BY <3>4, <3>7, <3>9 DEF Stable, n
    <3>13. \A q \in Name : s.reg[q].where = d.reg[q].where
      BY <3>7, <3>9 DEF Stable
    <3>14. QED
      BY <2>1, <3>9, <3>10, <3>11, <3>12, <3>6, <3>13
  <2>2. CASE ~Holds(h, c)
    BY <1>2, <2>2, SameRegLevel DEF Onward
  <2>3. QED
    BY <2>1, <2>2
<1> HIDE DEF i
<1>4. c \in Own(i, W)
  BY <1>3, OwnConnections
<1>5. Level(i, Close(i, c), W)
  BY <1>3, <1>4, OneConnLevel DEF Close
<1>6. Level(h, Close(i, c), W)
  BY <1>3, <1>5, LevelTransitive
<1>7. Close(i, c).reg = i.reg
  BY <1>3 DEF Close, Typed, HubState
<1>8. QED
  BY <1>1, <1>3, <1>6, <1>7

LEMMA LevelThenTends ==
  ASSUME NEW h, Typed(h), NEW g, Typed(g), NEW i, Typed(i), NEW n \in Name,
         i.reg[n].kind = g.reg[n].kind, Level(h, g, {n}), Tends(g, i, n)
  PROVE  Tends(h, i, n)
<1>1. Beside(h, i, {n})
  BY LevelBeside, BesideTransitive DEF Tends
<1>2. SameBox(h.reg[n], g.reg[n])
  BY DEF Level, Boxed
<1>3. QED
  BY <1>1, <1>2, ServesBetween DEF Tends

LEMMA TendsThenLevel ==
  ASSUME NEW h, Typed(h), NEW g, Typed(g), NEW i, Typed(i), NEW n \in Name,
         i.reg[n].kind = g.reg[n].kind, i.reg[n].state = g.reg[n].state,
         Tends(h, g, n), Level(g, i, {n}), Adds(g, i)
  PROVE  Tends(h, i, n)
<1>1. Beside(h, i, {n})
  BY LevelBeside, BesideTransitive DEF Tends
<1>2. SameBox(g.reg[n], i.reg[n])
  BY DEF Level, Boxed
<1>3. QED
  BY <1>1, <1>2, ServesBetween DEF Tends

LEMMA LevelTends ==
  ASSUME NEW h, NEW g, NEW n \in Name, Level(h, g, {n})
  PROVE  Tends(h, g, n)
BY LevelBeside DEF Tends, Serves, Level, Boxed

LEMMA MarksLevel ==
  ASSUME NEW h, Typed(h), NEW n \in Name, NEW b
  PROVE  /\ LET g == [h EXCEPT !.reg[n].finished = b]
            IN  Level(h, g, {n}) /\ g.reg[n].state = h.reg[n].state
         /\ LET g == [h EXCEPT !.reg[n].awaiting = b]
            IN  Level(h, g, {n}) /\ g.reg[n].state = h.reg[n].state
         /\ Level(h, WithState(h, n, b), {n})
<1> DEFINE r == [h.reg[n] EXCEPT !.finished = b]
           p == [h.reg[n] EXCEPT !.awaiting = b]
           q == [h.reg[n] EXCEPT !.state = b]
<1>1. /\ [h EXCEPT !.reg[n].finished = b] = [h EXCEPT !.reg[n] = r]
      /\ [h EXCEPT !.reg[n].awaiting = b] = [h EXCEPT !.reg[n] = p]
      /\ WithState(h, n, b) = [h EXCEPT !.reg[n] = q]
  BY DEF WithState
<1>2. /\ SameBox(h.reg[n], r) /\ r.state = h.reg[n].state
      /\ SameBox(h.reg[n], p) /\ p.state = h.reg[n].state
      /\ SameBox(h.reg[n], q)
  BY DEF Typed, HubState, Reg, SameBox
<1> HIDE DEF p, q, r
<1>3. ASSUME NEW x, SameBox(h.reg[n], x)
      PROVE  Level(h, [h EXCEPT !.reg[n] = x], {n}) /\ [h EXCEPT !.reg[n] = x].reg[n] = x
  BY <1>3, OneRegBeside
<1>4. QED
  BY <1>1, <1>2, <1>3

LEMMA RefuseLevel ==
  ASSUME NEW h, Inv(h), NEW c \in Conn, NEW n \in Live(h)
  PROVE  Level(h, Refuse(h, c, n), {n})
<1> DEFINE d == h.reg[n].client
           told == Reply(h, d, c, "err")
<1>0. Typed(h) /\ Owned(h) /\ n \in Name
  BY DEF Inv, Linked, Live
<1>1. d \in Conn /\ d \in Own(h, {n})
  BY <1>0, OwnConnections DEF Owned, Own
<1>2. Level(h, told, {n}) /\ Typed(told) /\ Stable(h, told)
  BY <1>0, <1>1, ReplyLevel, ReplyType
<1> HIDE DEF told
<1>3. Owned(told)
  BY <1>0, <1>2, StableOwned
<1>4. Level(told, Emit(told, "rejected", n), {n})
  BY <1>0, <1>2, <1>3, EmitLevel DEF Events
<1>5. Level(h, Emit(told, "rejected", n), {n})
  BY <1>2, <1>4, LevelTransitive
<1>6. Refuse(h, c, n) \in {told, Emit(told, "rejected", n)}
  BY DEF Refuse, told
<1>7. QED
  BY <1>2, <1>5, <1>6

LEMMA HandleStateTends ==
  ASSUME NEW h, Inv(h), NEW n \in Live(h), NEW state \in States
  PROVE  /\ Tends(h, HandleState(h, n, state), n)
         /\ HandleState(h, n, state).reg[n].where = h.reg[n].where
<1> DEFINE told == WithState(h, n, state)
           g    == HandleState(h, n, state)
<1>0. Typed(h) /\ Linked(h) /\ n \in Name
  BY DEF Inv, Live
<1>1. g = IF state = "idle" THEN FlushQueue(told, n) ELSE told
  BY DEF HandleState, WithState
<1>2. Typed(told) /\ Stable(h, told) /\ Level(h, told, {n})
  BY <1>0, WithStateType, MarksLevel
<1> HIDE DEF told
<1>3. Linked(told) /\ n \in Live(told)
  BY <1>0, <1>2, StableLinked, StableAlike
<1>4. Tends(told, FlushQueue(told, n), n) /\ Keeps(told, FlushQueue(told, n))
  BY <1>2, <1>3, FlushQueueTends, FlushQueueKeeps
<1>5. Tends(h, FlushQueue(told, n), n)
  BY <1>0, <1>2, <1>4, LevelThenTends DEF Keeps, Follows, Stable
<1>6. Tends(h, told, n)
  BY <1>0, <1>2, LevelTends
<1>7. /\ told.reg[n].where = h.reg[n].where
      /\ FlushQueue(told, n).reg[n].where = h.reg[n].where
  BY <1>0, <1>2, <1>4 DEF Keeps, Follows, Stable
<1>8. QED
  BY <1>1, <1>5, <1>6, <1>7

\* What a say does once it is routed, or refused.
LEMMA SayTends ==
  ASSUME NEW h, Inv(h), NEW c \in Conn, NEW n \in Live(h), NEW s \in SayFrame, NEW screen
  PROVE  LET accepted == Verdict(h, n, s, screen) = "pass"
             routed   == IF accepted THEN Accept(h, c, n, s) ELSE Refuse(h, c, n)
         IN  /\ Tends(routed, HandleSay(h, c, n, s, screen), n)
             /\ Stable(routed, HandleSay(h, c, n, s, screen))
<1> DEFINE accepted == Verdict(h, n, s, screen) = "pass"
           routed   == IF accepted THEN Accept(h, c, n, s) ELSE Refuse(h, c, n)
           idle     == WithState(routed, n, "idle")
           flushed  == IF ~h.reg[n].capable /\ routed.reg[n].state # "idle"
                       THEN FlushQueue(idle, n) ELSE routed
           marked   == [flushed EXCEPT !.reg[n].finished = s.done]
           done     == CheckSessionDone(marked)
           g        == HandleSay(h, c, n, s, screen)
<1>1. g = IF ~accepted \/ IsObserver(h, n) THEN flushed
          ELSE IF s.done THEN done ELSE marked
  BY DEF HandleSay, SetIdle, WithState
<1>2. n \in Name /\ s.done \in BOOLEAN /\ "idle" \in States
  BY DEF Live, SayFrame, States
<1>3. Keeps(h, routed)
  BY AcceptKeeps, RefuseKeeps DEF Inv
<1> HIDE DEF routed, accepted
<1>4. Inv(routed) /\ n \in Live(routed) /\ Typed(routed) /\ Linked(routed)
  BY <1>3, KeepsInv DEF Inv
<1>5. Typed(flushed) /\ Stable(routed, flushed) /\ Tends(routed, flushed, n)
  <2>1. Typed(idle) /\ Stable(routed, idle) /\ Level(routed, idle, {n})
    BY <1>2, <1>4, WithStateType, MarksLevel
  <2> HIDE DEF idle
  <2>2. Linked(idle) /\ n \in Live(idle)
    BY <1>4, <2>1, StableLinked, StableAlike
  <2>3. Tends(idle, FlushQueue(idle, n), n) /\ Keeps(idle, FlushQueue(idle, n))
    BY <2>1, <2>2, FlushQueueTends, FlushQueueKeeps
  <2>4. /\ Typed(FlushQueue(idle, n)) /\ Stable(routed, FlushQueue(idle, n))
        /\ FlushQueue(idle, n).reg[n].kind = idle.reg[n].kind
    BY <1>2, <2>1, <2>3, StableTransitive DEF Keeps, Follows, Stable
  <2>5. Tends(routed, FlushQueue(idle, n), n)
    BY <1>2, <1>4, <2>1, <2>3, <2>4, LevelThenTends
  <2>6. Stable(routed, routed) /\ Tends(routed, routed, n)
    BY <1>2, SameRegLevel, LevelTends DEF Stable, Onward
  <2>7. QED
    BY <1>4, <2>4, <2>5, <2>6
<1> HIDE DEF flushed
<1>6. /\ Typed(marked) /\ Stable(flushed, marked)
      /\ Level(flushed, marked, {n}) /\ marked.reg[n].state = flushed.reg[n].state
  <2>1. Keeps(flushed, marked)
    BY <1>2, <1>5, MarkKeeps
  <2>2. Level(flushed, marked, {n}) /\ marked.reg[n].state = flushed.reg[n].state
    BY <1>2, <1>5, MarksLevel
  <2>3. QED
    BY <2>1, <2>2 DEF Keeps, Follows
<1>7. Adds(flushed, marked)
  BY SameAdds
<1> HIDE DEF marked
<1>8. Adds(marked, done)
  BY CheckSessionDoneAdds
<1>9. Owned(marked)
  BY <1>4, <1>5, <1>6, StableOwned DEF Linked
<1>10. /\ Typed(done) /\ Stable(marked, done) /\ Level(marked, done, {n})
      /\ done.reg[n].state = marked.reg[n].state
  BY <1>2, <1>6, <1>9, CheckSessionDoneLevel, CheckSessionDoneType
<1> HIDE DEF done
<1>11. Tends(routed, marked, n)
  BY <1>2, <1>4, <1>5, <1>6, <1>7, TendsThenLevel DEF Stable
<1>12. Tends(routed, done, n)
  BY <1>2, <1>4, <1>6, <1>10, <1>11, <1>8, TendsThenLevel DEF Stable
<1>13. Stable(routed, marked) /\ Stable(routed, done)
  BY <1>5, <1>6, <1>10, StableTransitive
<1>14. QED
  BY <1>1, <1>5, <1>11, <1>12, <1>13 DEF routed, accepted

LEMMA GiveBacklogBeside ==
  ASSUME NEW h, Typed(h), Owned(h), NEW x \in Hello, x.name \in Live(h),
         NEW past \in Seq(Record)
  PROVE  LET g == GiveBacklog(h, x, past)
         IN  /\ Beside(h, g, {x.name})
             /\ g.reg[x.name].dropped = h.reg[x.name].dropped
             /\ x.kind # "agent" => SameBox(h.reg[x.name], g.reg[x.name])
<1> DEFINE n    == x.name
           g    == GiveBacklog(h, x, past)
           tags == [i \in DOMAIN past |-> Tag(past[i], "overheard")]
           r    == OverhearAll(h.reg[n], tags)
           all  == {Tag(past[i], Addressing(n, past[i].to)) : i \in DOMAIN past}
           one  == [q \in {n} |-> all]
<1>0. n \in Name /\ h.reg[n] \in Reg
  BY DEF Hello, Typed, HubState
<1>1. CASE x.kind = "agent"
  <2>1. g = [h EXCEPT !.reg[n] = r]
    BY <1>1 DEF GiveBacklog
  <2>2. r.dropped = h.reg[n].dropped
    BY <1>0 DEF OverhearAll, Reg
  <2> HIDE DEF r, n, g
  <2>3. Beside(h, g, {n}) /\ g.reg[n] = r
    BY <1>0, <2>1, OneRegBeside
  <2>4. QED
    BY <1>1, <2>2, <2>3 DEF g, n
<1>2. CASE x.kind # "agent" /\ past = << >>
  <2>1. g = h
    BY <1>2 DEF GiveBacklog
  <2>2. QED
    BY <2>1, SameRegLevel, LevelBeside DEF Onward, SameBox
<1>3. CASE x.kind # "agent" /\ past # << >>
  <2>1. g = Deliver(h, one)
    BY <1>3 DEF GiveBacklog
  <2>2. \A i \in DOMAIN past : past[i] \in Record
    BY ElementOfSeq, LenProperties
  <2>3. all \in SUBSET Msg
    BY <2>2, AddressingType, TagType
  <2>4. DOMAIN one = {n} /\ one[n] = all
    OBVIOUS
  <2> HIDE DEF one, g, all
  <2>5. Level(h, g, {n})
    BY <2>1, <2>3, <2>4, DeliverLevel
  <2>6. QED
    BY <1>0, <2>5, LevelBeside DEF Level, Boxed, SameBox, g
<1>4. QED
  BY <1>1, <1>2, <1>3

LEMMA NamedBeside ==
  ASSUME NEW h, Inv(h), NEW x \in Hello, x.name \notin Live(h)
  PROVE  LET g == Named(h, x)
         IN  /\ Beside(h, g, {x.name})
             /\ h.reg[x.name].where = "dead" => SameBox(h.reg[x.name], g.reg[x.name])
             /\ h.reg[x.name].where # "dead" => g.reg[x.name].dropped = 0
<1> DEFINE n == x.name
           g == Named(h, x)
           r == Registered(h.reg[n], x)
<1>1. n \in Name /\ x.conn \in Conn /\ h.reg[n] \in Reg
  BY DEF Hello, Inv, Typed, HubState
<1>2. /\ g.reg = [h.reg EXCEPT ![n] = r] /\ g.counter = h.counter /\ g.frozen = h.frozen
      /\ \A c \in Conn : g.conn[c].connected = h.conn[c].connected
  BY <1>1 DEF Inv, Typed, HubState, Link, Named
<1>3. g.reg[n] = r /\ \A q \in Name \ {n} : g.reg[q] = h.reg[q]
  BY <1>1, <1>2 DEF Inv, Typed, HubState
<1>4. /\ h.reg[n].where = "dead" => SameBox(h.reg[n], r)
      /\ h.reg[n].where # "dead" => r.dropped = 0
  BY <1>1 DEF Registered, Reg, NoReg, SameBox
<1> HIDE DEF g, r, n
<1>5. Beside(h, g, {n})
  BY <1>2, <1>3 DEF Beside, Placed, Boxed, Onward, SameBox
<1>6. QED
  BY <1>3, <1>4, <1>5 DEF g, n

LEMMA SeatedBeside ==
  ASSUME NEW h, Inv(h), NEW x \in Hello, x.name \notin Live(h),
         h.conn[x.conn].name = NoName, h.conn[x.conn].phase # "free",
         NEW past \in Seq(Record)
  PROVE  LET g == Seated(h, x, past)
         IN  /\ Beside(h, g, {x.name})
             /\ h.reg[x.name].where = "dead" => SameBox(h.reg[x.name], g.reg[x.name])
             /\ h.reg[x.name].where # "dead" => g.reg[x.name].dropped = 0
<1> DEFINE n        == x.name
           named    == Named(h, x)
           frames   == {[sink |-> x.conn, t |-> "welcome"]}
           welcomed == Push(named, frames, {})
           rejoined == h.reg[n].where = "dead"
           briefed  == IF rejoined /\ x.kind = "agent" THEN welcomed
                       ELSE GiveBacklog(welcomed, x, past)
           g        == EmitSkipping(briefed, "peer_joined", n, {n})
<1>1. n \in Name /\ x.conn \in Conn
  BY DEF Hello
<1>2. Seated(h, x, past) = g
  BY DEF Seated, Named
<1>3. /\ Typed(named) /\ Linked(named) /\ n \in Live(named)
      /\ named.reg[n].client = x.conn
  BY NamedType
<1>4. /\ Beside(h, named, {n})
      /\ rejoined => SameBox(h.reg[n], named.reg[n])
      /\ ~rejoined => named.reg[n].dropped = 0
  BY NamedBeside
<1> HIDE DEF named
<1>5. x.conn \in Own(named, {n})
  BY <1>3, OwnConnections DEF Linked
<1>6. frames \in SUBSET Frame /\ {} \in SUBSET Frame /\ \A f \in frames : f.sink = x.conn
  BY <1>1 DEF Frame, Signal
<1> HIDE DEF frames
<1>7. /\ Level(named, welcomed, {n}) /\ Typed(welcomed) /\ Stable(named, welcomed)
      /\ welcomed.reg = named.reg
  BY <1>3, <1>5, <1>6, PushLevel, PushType
<1> HIDE DEF welcomed
<1>8. Owned(welcomed) /\ n \in Live(welcomed)
  BY <1>3, <1>7, StableOwned, StableAlike DEF Linked
<1>9. /\ Beside(welcomed, briefed, {n}) /\ Typed(briefed) /\ Stable(welcomed, briefed)
      /\ briefed.reg[n].dropped = welcomed.reg[n].dropped
      /\ rejoined => SameBox(welcomed.reg[n], briefed.reg[n])
  <2>1. CASE rejoined /\ x.kind = "agent"
    BY <1>7, <2>1, SameRegLevel, LevelBeside DEF Onward, SameBox, Stable
  <2>2. CASE ~(rejoined /\ x.kind = "agent")
    <3>1. Keeps(welcomed, GiveBacklog(welcomed, x, past))
      BY <1>3, <1>7, <1>8, GiveBacklogKeeps
    <3>2. /\ Beside(welcomed, GiveBacklog(welcomed, x, past), {n})
          /\ GiveBacklog(welcomed, x, past).reg[n].dropped = welcomed.reg[n].dropped
          /\ x.kind # "agent" => SameBox(welcomed.reg[n], GiveBacklog(welcomed, x, past).reg[n])
      BY <1>7, <1>8, GiveBacklogBeside
    <3>3. QED
      BY <2>2, <3>1, <3>2 DEF Keeps, Follows
  <2>3. QED
    BY <2>1, <2>2
<1> HIDE DEF briefed
<1>10. Owned(briefed)
  BY <1>8, <1>9, StableOwned
<1>11. Level(briefed, g, {n})
  BY <1>1, <1>9, <1>10, EmitLevel DEF Events
<1> HIDE DEF g
<1>12. Beside(h, g, {n})
  BY <1>4, <1>7, <1>9, <1>11, LevelBeside, BesideTransitive
<1>13. SameBox(briefed.reg[n], g.reg[n])
  BY <1>1, <1>11 DEF Level, Boxed
<1>14. QED
  BY <1>2, <1>4, <1>7, <1>9, <1>12, <1>13 DEF SameBox

-----------------------------------------------------------------------------
(* The handlers that act on one participant.                               *)

\* n has had its turn: somebody else's agent sits where it sat, and its own box
\* is left alone, gives a slice, is a newcomer's, or is forgotten.
Turns(h, g, n) ==
  /\ Beside(h, g, {n})
  /\ \/ Serves(h, g, n) /\ (g.reg[n].where = "none" => h.reg[n].where = "none")
     \/ h.reg[n].where = "none" /\ g.reg[n].where # "none" /\ g.reg[n].dropped = 0
     \/ g.reg[n].where = "none" /\ Emptied(g.reg[n])

LEMMA LevelTurns ==
  ASSUME NEW h, NEW g, NEW n \in Name, Level(h, g, {n}),
         g.reg[n].where = "none" => h.reg[n].where = "none"
  PROVE  Turns(h, g, n)
BY LevelTends DEF Turns, Tends

LEMMA JoinTurns ==
  ASSUME NEW h, Inv(h), NEW x \in Hello, x.name \notin Live(h),
         h.conn[x.conn].name = NoName, h.conn[x.conn].phase # "free",
         NEW past \in Seq(Record)
  PROVE  LET g == Join(h, x, past)
         IN  /\ Beside(h, g, {x.name})
             /\ h.reg[x.name].where = "dead" => Serves(h, g, x.name)
             /\ h.reg[x.name].where # "dead" => g.reg[x.name].dropped = 0
             /\ g.reg[x.name].where # "none"
<1> DEFINE n      == x.name
           seated == Seated(h, x, past)
           flush  == FlushQueue(seated, n)
           g      == Join(h, x, past)
<1>1. n \in Name /\ Typed(h)
  BY DEF Hello, Inv
<1>2. /\ Beside(h, seated, {n})
      /\ h.reg[n].where = "dead" => SameBox(h.reg[n], seated.reg[n])
      /\ h.reg[n].where # "dead" => seated.reg[n].dropped = 0
  BY SeatedBeside
<1>3. Keeps(Named(h, x), seated)
  BY SeatedType
<1>4. Linked(Named(h, x)) /\ n \in Live(Named(h, x))
  BY NamedType
<1>5. Typed(seated) /\ Linked(seated) /\ n \in Live(seated)
  BY <1>3, <1>4, KeepsInvariants DEF Keeps
<1>6. g = IF h.reg[n].where = "dead" THEN flush ELSE seated
  BY DEF Join
<1> HIDE DEF seated
<1>7. Tends(seated, flush, n) /\ Keeps(seated, flush)
  BY <1>5, FlushQueueTends, FlushQueueKeeps
<1>8. Typed(flush) /\ flush.reg[n].kind = seated.reg[n].kind
  BY <1>1, <1>7 DEF Keeps, Follows, Stable
<1>9. seated.reg[n].where # "none" /\ flush.reg[n].where # "none"
  BY <1>1, <1>5, <1>7 DEF Live, Keeps, Follows, Stable
<1> HIDE DEF flush
<1>10. Beside(h, flush, {n})
  BY <1>2, <1>7, BesideTransitive DEF Tends
<1>11. h.reg[n].where = "dead" => Serves(h, flush, n)
  BY <1>1, <1>2, <1>5, <1>7, <1>8, ServesBetween DEF Tends
<1>12. QED
  BY <1>2, <1>6, <1>10, <1>11, <1>9

LEMMA HelloTurns ==
  ASSUME NEW h, Inv(h), NEW x \in Hello, h.conn[x.conn].phase # "free",
         NEW past \in Seq(Record)
  PROVE  \E m \in Name : Turns(h, HandleHello(h, x, past), m)
<1> DEFINE n      == x.name
           c      == x.conn
           held   == n \in Live(h)
           d      == h.reg[n].client
           reaped == IF held /\ ~Reachable(h, n) THEN Disconnect(h, d) ELSE h
           told   == Reply(reaped, c, c, "err")
           g      == HandleHello(h, x, past)
<1>1. n \in Name /\ c \in Conn /\ Typed(h) /\ Owned(h) /\ h.conn[c].name \in Name \cup {NoName}
  BY DEF Hello, Inv, Linked, Typed, HubState, Link
<1>2. g = IF h.conn[c].name # NoName THEN Reply(h, c, c, "err")
          ELSE IF n \in Live(reaped) THEN Close(told, c)
          ELSE Join(reaped, x, past)
  BY DEF HandleHello
<1>3. CASE h.conn[c].name # NoName
  <2> DEFINE m == h.conn[c].name
             r == Reply(h, c, c, "err")
  <2>1. m \in Name /\ c \in Own(h, {m})
    BY <1>1, <1>3, OwnConnections
  <2>2. Level(h, r, {m}) /\ r.reg = h.reg
    BY <1>1, <2>1, ReplyLevel, ReplyType
  <2> HIDE DEF m, r
  <2>3. Turns(h, r, m)
    BY <2>1, <2>2, LevelTurns
  <2>4. g = r
    BY <1>2, <1>3 DEF r
  <2>5. QED
    BY <2>1, <2>3, <2>4
<1>4. CASE h.conn[c].name = NoName
  <2>1. held => d \in Conn /\ h.conn[d].name = n
    BY <1>1 DEF Owned
  <2>2. /\ Inv(reaped) /\ Level(h, reaped, {n})
        /\ reaped.reg[n].where = "none" => h.reg[n].where = "none"
        /\ reaped.conn[c].name = NoName /\ reaped.conn[c].phase # "free"
    <3>1. CASE held /\ ~Reachable(h, n)
      <4>1. Level(h, reaped, {n}) /\ (reaped.reg[n].where = "none" => h.reg[n].where = "none")
        BY <1>1, <2>1, <3>1, DisconnectLevel
      <4>2. d \in Conn
        BY <2>1, <3>1
      <4>3. Inv(Disconnect(h, d))
        BY <4>2, DisconnectInv
      <4>4. \A k \in Conn : /\ Disconnect(h, d).conn[k].name = h.conn[k].name
                            /\ Disconnect(h, d).conn[k].phase = "free" => h.conn[k].phase = "free"
        BY <4>2, DisconnectInv, Zenon
      <4>5. reaped = Disconnect(h, d)
        BY <3>1
      <4> HIDE DEF reaped
      <4>6. QED
        BY <1>1, <1>4, <4>1, <4>3, <4>4, <4>5
    <3>2. CASE ~(held /\ ~Reachable(h, n))
      BY <1>4, <3>2, SameRegLevel DEF Onward
    <3>3. QED
      BY <3>1, <3>2
  <2> HIDE DEF reaped
  <2>3. CASE n \in Live(reaped)
    <3>1. Typed(reaped) /\ Owned(reaped) /\ NoName \notin Name
      BY <2>2, IdentityAssumption DEF Inv, Linked
    <3>2. c \in Own(reaped, {n})
      BY <1>1, <2>2, <3>1, OwnConnections
    <3>3. Level(reaped, told, {n}) /\ Typed(told) /\ told.reg = reaped.reg
      BY <1>1, <3>1, <3>2, ReplyLevel, ReplyType
    <3>4. c \in Own(told, {n})
      BY <3>2, <3>3, PlacedOwn DEF Level
    <3> HIDE DEF told
    <3>5. Level(told, Close(told, c), {n})
      BY <1>1, <3>3, <3>4, OneConnLevel DEF Close
    <3>6. Level(h, Close(told, c), {n})
      BY <2>2, <3>3, <3>5, LevelTransitive
    <3>7. Close(told, c).reg = told.reg
      BY <3>3 DEF Close, Typed, HubState
    <3>8. Turns(h, Close(told, c), n)
      BY <1>1, <2>2, <3>3, <3>6, <3>7, LevelTurns
    <3>9. QED
      BY <1>1, <1>2, <1>4, <2>3, <3>8
  <2>4. CASE n \notin Live(reaped)
    <3> DEFINE j == Join(reaped, x, past)
    <3>1. /\ Beside(reaped, j, {n})
          /\ reaped.reg[n].where = "dead" => Serves(reaped, j, n)
          /\ reaped.reg[n].where # "dead" => j.reg[n].dropped = 0
          /\ j.reg[n].where # "none"
      BY <2>2, <2>4, JoinTurns
    <3>2. Inv(j)
      BY <2>2, <2>4, JoinInv
    <3> HIDE DEF j
    <3>3. Beside(h, j, {n})
      BY <2>2, <3>1, LevelBeside, BesideTransitive
    <3>4. CASE reaped.reg[n].where = "dead"
      <4>1. SameBox(h.reg[n], reaped.reg[n])
        BY <1>1, <2>2 DEF Level, Boxed
      <4>2. Serves(h, j, n)
        BY <1>1, <2>2, <3>1, <3>2, <3>4, <4>1, ServesAfter DEF Inv
      <4>3. QED
        BY <1>1, <1>2, <1>4, <2>4, <3>1, <3>3, <4>2 DEF j, Turns
    <3>5. CASE reaped.reg[n].where # "dead"
      <4>1. reaped.reg[n].where = "none"
        BY <1>1, <2>2, <2>4, <3>5 DEF Live, Inv, Typed, HubState, Reg
      <4>2. h.reg[n].where = "none"
        BY <2>2, <4>1
      <4>3. QED
        BY <1>1, <1>2, <1>4, <2>4, <3>1, <3>3, <3>5, <4>2 DEF j, Turns
    <3>6. QED
      BY <3>4, <3>5
  <2>5. QED
    BY <2>3, <2>4
<1>5. QED
  BY <1>3, <1>4

\* A turn with steps before and after it that leave the participant alone.
LEMMA TurnsBetween ==
  ASSUME NEW h, Typed(h), NEW g, Typed(g), NEW i, Typed(i), NEW j, NEW n \in Name,
         Level(h, g, {n}),
         g.reg[n].where = h.reg[n].where, g.reg[n].kind = h.reg[n].kind,
         Turns(g, i, n), Level(i, j, {n}), j.reg = i.reg, Adds(i, j)
  PROVE  Turns(h, j, n)
<1>1. Beside(h, j, {n})
  BY LevelBeside, BesideTransitive DEF Turns
<1>2. SameBox(h.reg[n], g.reg[n])
  BY DEF Level, Boxed
<1>3. Serves(g, i, n) => Serves(h, i, n)
  BY <1>2, ServesAfter
<1>4. \A S : Handing(i, n, S) => Handing(j, n, S)
  BY HandingLater DEF Typed, HubState
<1>5. Serves(h, i, n) => Serves(h, j, n)
  BY <1>4 DEF Serves, GaveSlice, Sliced, SameBox
<1>6. QED
  BY <1>1, <1>3, <1>5 DEF Turns

LEMMA PingLevel ==
  ASSUME NEW h, Inv(h), NEW n \in Live(h)
  PROVE  Level(h, Ping(h, n), {n})
<1> DEFINE d == h.reg[n].client
           frames == {[sink |-> d, t |-> "ping"]}
           p == Push(h, frames, {})
<1>1. Typed(h) /\ n \in Name /\ d \in Conn /\ d \in Own(h, {n})
  BY OwnConnections DEF Inv, Linked, Owned, Live
<1>2. frames \in SUBSET Frame /\ {} \in SUBSET Frame /\ \A f \in frames : f.sink = d
  BY <1>1 DEF Frame, Signal
<1> HIDE DEF frames
<1>3. Typed(p) /\ Level(h, p, {n})
  BY <1>1, <1>2, PushLevel, PushType
<1>4. Ping(h, n) = [p EXCEPT !.reg[n].awaiting = TRUE]
  BY DEF Ping, frames
<1> HIDE DEF p
<1>5. Level(p, [p EXCEPT !.reg[n].awaiting = TRUE], {n})
  BY <1>1, <1>3, MarksLevel, Zenon
<1>6. QED
  BY <1>3, <1>4, <1>5, LevelTransitive

LEMMA VisitedTurns ==
  ASSUME NEW h, Inv(h), NEW n \in Live(h), NEW lapsed
  PROVE  Turns(h, Visited(h, n, lapsed), n)
<1> DEFINE d      == h.reg[n].client
           pinged == IF "silence" \in lapsed /\ ~h.reg[n].awaiting THEN Ping(h, n) ELSE h
           i      == WithState(pinged, n, "idle")
           e      == Emit(i, "stall", n)
           f      == FlushQueue(e, n)
           g      == Visited(h, n, lapsed)
<1>1. n \in Name /\ d \in Conn /\ h.conn[d].name = n /\ Typed(h) /\ Linked(h)
  BY DEF Inv, Linked, Owned, Live
<1>2. g = IF Overdue(h, n, lapsed) THEN Disconnect(h, d)
          ELSE IF InfersIdle(h, n, lapsed) THEN f ELSE pinged
  BY DEF Visited, SetIdle, WithState
<1>3. Turns(h, Disconnect(h, d), n)
  BY <1>1, DisconnectLevel, LevelTurns
<1>4. Level(h, pinged, {n}) /\ Typed(pinged) /\ Stable(h, pinged)
  <2>1. Level(h, Ping(h, n), {n}) /\ Keeps(h, Ping(h, n))
    BY PingLevel, PingKeeps
  <2>2. Level(h, h, {n}) /\ Stable(h, h)
    BY SameRegLevel DEF Onward, Stable
  <2>3. QED
    BY <1>1, <2>1, <2>2 DEF Keeps, Follows
<1> HIDE DEF pinged
<1>5. Level(pinged, i, {n}) /\ Typed(i) /\ Stable(pinged, i)
  BY <1>1, <1>4, MarksLevel, WithStateType DEF States
<1> HIDE DEF i
<1>6. Stable(h, i)
  BY <1>4, <1>5, StableTransitive
<1>7. Owned(i)
  BY <1>1, <1>6, StableOwned DEF Linked
<1>8. Level(i, e, {n}) /\ Typed(e) /\ Stable(i, e)
  BY <1>1, <1>5, <1>7, EmitLevel, EmitType DEF Emit, Events
<1> HIDE DEF e
<1>9. Stable(h, e) /\ Level(h, e, {n})
  BY <1>4, <1>5, <1>6, <1>8, StableTransitive, LevelTransitive
<1>10. Linked(e) /\ n \in Live(e)
  BY <1>1, <1>9, StableLinked, StableAlike
<1>11. Tends(e, f, n) /\ Keeps(e, f)
  BY <1>8, <1>10, FlushQueueTends, FlushQueueKeeps
<1> HIDE DEF f
<1>12. Tends(h, f, n)
  BY <1>1, <1>8, <1>9, <1>11, LevelThenTends DEF Keeps, Follows, Stable
<1>13. f.reg[n].where = h.reg[n].where
  BY <1>1, <1>9, <1>11 DEF Keeps, Follows, Stable
<1>14. Turns(h, f, n) /\ Turns(h, pinged, n)
  BY <1>1, <1>4, <1>12, <1>13, LevelTurns DEF Turns, Tends, Stable
<1>15. QED
  BY <1>2, <1>3, <1>14

LEMMA NowLevel ==
  ASSUME NEW W, Typed(hub)
  PROVE  Level(hub, Now, W)
<1>1. /\ Now.reg = hub.reg /\ Now.conn = hub.conn
      /\ Now.counter = hub.counter /\ Now.frozen = hub.frozen
  BY DEF Now, Typed, HubState
<1>2. QED
  BY <1>1, SameRegLevel DEF Onward

LEMMA HeardLevel ==
  ASSUME Inv(hub), NEW c \in Conn, Known(c)
  PROVE  /\ Level(hub, Heard(c), {Sender(c)})
         /\ Stable(hub, Heard(c))
<1> DEFINE n == Sender(c)
           w == Now
           g == [w EXCEPT !.reg[n].awaiting = FALSE]
<1>1. n \in Name
  BY DEF Known, Live
<1>2. /\ Inv(w) /\ Typed(w) /\ Level(hub, w, {n}) /\ Stable(hub, w) /\ Typed(hub)
  BY NowInv, NowLevel DEF Inv, Stable
<1>3. Heard(c) = g
  BY DEF Heard
<1> HIDE DEF w, n
<1>4. Keeps(w, g)
  BY <1>1, <1>2, MarkKeeps, Zenon
<1>5. Level(w, g, {n})
  BY <1>1, <1>2, MarksLevel, Zenon
<1> HIDE DEF g
<1>6. Level(hub, g, {n}) /\ Stable(hub, g)
  BY <1>2, <1>4, <1>5, LevelTransitive, StableTransitive DEF Keeps, Follows
<1>7. QED
  BY <1>3, <1>6 DEF n

LEMMA HandledLevel ==
  ASSUME NEW h, Typed(h), NEW W, NEW c \in Conn
  PROVE  Level(h, Handled(h, c), W) /\ Handled(h, c).reg = h.reg
<1>1. /\ Handled(h, c).reg = h.reg /\ Handled(h, c).counter = h.counter
      /\ Handled(h, c).frozen = h.frozen
      /\ \A d \in Conn : Handled(h, c).conn[d].connected = h.conn[d].connected
  BY DEF Handled, Typed, HubState, Link
<1>2. QED
  BY <1>1, SameRegLevel DEF Onward

\* A frame of a participant, or of a connection.
LEMMA FrameTurns ==
  ASSUME Inv(hub), NEW c \in Conn, Known(c), NEW g, Typed(g),
         Turns(Heard(c), g, Sender(c)), hub' = Handled(g, c)
  PROVE  Turns(hub, hub', Sender(c))
<1>1. Sender(c) \in Name /\ Inv(Heard(c)) /\ Typed(hub)
  BY HeardInv DEF Inv
<1>2. Level(hub, Heard(c), {Sender(c)}) /\ Stable(hub, Heard(c))
  BY HeardLevel
<1>3. Level(g, hub', {Sender(c)}) /\ hub'.reg = g.reg
  BY HandledLevel
<1>4. Adds(g, hub')
  BY HandledAdds
<1>5. QED
  BY <1>1, <1>2, <1>3, <1>4, TurnsBetween DEF Inv, Stable

-----------------------------------------------------------------------------
(* What the floor makes of it.                                             *)

\* No count of dropped wakes without wakes to announce it with.
Evened(h) == \A n \in Name : Even(h.reg[n])

LEMMA ModeIs ==
  ASSUME NEW h, Inv(h), NEW n \in Name
  PROVE  /\ ModeOf(h, n) \in {"away", "waiting", "engaged"}
         /\ IsAgent(h, n) /\ ModeOf(h, n) = "waiting" <=> n \in Agents(h) /\ h.reg[n].state = "idle" /\ Reachable(h, n)
         /\ IsAgent(h, n) /\ ModeOf(h, n) = "waiting" => h.reg[n].queue = << >>
         /\ IsAgent(h, n) /\ h.reg[n].state = "busy" => ModeOf(h, n) \in {"away", "engaged"}
<1>1. h.reg[n].where \in {"none", "live", "dead"} /\ h.reg[n].kind \in {"agent", "observer"}
  BY DEF Inv, Typed, HubState, Reg, Kinds
<1>2. ModeOf(h, n) \in {"away", "waiting", "engaged"}
  BY DEF ModeOf
<1>3. IsAgent(h, n) /\ ModeOf(h, n) = "waiting" <=> n \in Agents(h) /\ h.reg[n].state = "idle" /\ Reachable(h, n)
  BY <1>1 DEF ModeOf, IsAgent, Agents, Live, IsObserver
<1>4. n \in Agents(h) /\ h.reg[n].state = "idle" /\ Reachable(h, n) => h.reg[n].queue = << >>
  BY DEF Inv, IdleDrained
<1>5. h.reg[n].state = "busy" => ModeOf(h, n) \in {"away", "engaged"}
  BY DEF ModeOf
<1>6. QED
  BY <1>2, <1>3, <1>4, <1>5

\* The seats are those of a floor.
LEMMA SeatRests ==
  ASSUME NEW h, Inv(h), Mail(h), NEW n \in Name
  PROVE  /\ TheFloor!Rested(SeatOf(h, n))
         /\ IsAgent(h, n) <=> SeatOf(h, n).mode # "empty"
         /\ \A i \in TheFloor!Held(SeatOf(h, n)) : i <= h.counter
<1> DEFINE r == h.reg[n]
           s == SeatOf(h, n)
<1>1. Typed(h) /\ r.queue \in Seq(Msg) /\ r.context \in Seq(Msg)
  BY DEF Inv, Typed, HubState, Reg
<1>2. CASE ~IsAgent(h, n)
  BY <1>1, <1>2, SeatIs DEF TheFloor!Empty, TheFloor!Rested, TheFloor!Held
<1>3. CASE IsAgent(h, n)
  <2>1. /\ s.mode = ModeOf(h, n) /\ s.wakes = Ids(r.queue) /\ s.asides = Ids(r.context)
    BY <1>1, <1>3, SeatIs DEF BoxSeat
  <2> HIDE DEF s
  <2>2. s.mode # "empty" /\ (s.mode = "waiting" => s.wakes = {})
    BY <1>1, <1>3, <2>1, ModeIs, IdsOf
  <2>3. \A i \in Ids(r.queue) : i <= h.counter
    BY <1>1, IdsOf DEF Mail, Sound
  <2>4. \A i \in Ids(r.context) : i <= h.counter
    BY <1>1, IdsOf DEF Mail, Sound
  <2>5. TheFloor!Rested(s) /\ \A i \in TheFloor!Held(s) : i <= h.counter
    BY <2>1, <2>2, <2>3, <2>4 DEF TheFloor!Rested, TheFloor!Held
  <2>6. QED
    BY <1>3, <2>2, <2>5 DEF s
<1>4. QED
  BY <1>2, <1>3

\* The seat of an agent whose box was left alone, or gave a slice.
LEMMA ServedSeat ==
  ASSUME NEW h, Inv(h), Mail(h), NEW n \in Name, IsAgent(h, n),
         NEW g, Inv(g), Mail(g), IsAgent(g, n), Serves(h, g, n)
  PROVE  \/ TheFloor!Moves(SeatOf(h, n), SeatOf(g, n))
         \/ TheFloor!Hands(SeatOf(h, n), SeatOf(g, n), {})
<1> DEFINE r == h.reg[n]
           p == g.reg[n]
           a == ModeOf(h, n)
           b == ModeOf(g, n)
<1>1. /\ Typed(h) /\ Typed(g) /\ r \in Reg /\ BoundedReg(r)
      /\ h.counter \in Nat /\ Sound(r.queue, r.context, h.counter, n)
  BY DEF Inv, Typed, HubState, Mail
<1>2. SeatOf(h, n) = BoxSeat(a, r) /\ SeatOf(g, n) = BoxSeat(b, p)
  BY <1>1, SeatIs
<1>3. a # "empty" /\ b # "empty" /\ (p.state = "busy" => b \in {"engaged", "away"})
  BY ModeIs
<1>4. p.kind = "agent"
  BY DEF IsAgent
<1>5. TheFloor!Rested(BoxSeat(b, p))
  BY <1>2, SeatRests
<1> HIDE DEF r, p, a, b
<1>6. CASE SameBox(r, p)
  <2>1. BoxSeat(b, p) = [BoxSeat(a, r) EXCEPT !.mode = b]
    BY <1>6 DEF BoxSeat, SameBox
  <2>2. BoxSeat(a, r).mode = a /\ BoxSeat(b, p).mode = b
    BY DEF BoxSeat
  <2>3. TheFloor!Moves(BoxSeat(a, r), BoxSeat(b, p))
    BY <1>3, <1>5, <2>1, <2>2 DEF TheFloor!Moves
  <2>4. QED
    BY <1>2, <2>3
<1>7. CASE Sliced(r, p) /\ p.state = "busy"
  <2>1. TheFloor!Hands(BoxSeat(a, r), BoxSeat(b, p), {})
    BY <1>1, <1>3, <1>7, SliceHands
  <2>2. QED
    BY <1>2, <2>1
<1>8. QED
  BY <1>4, <1>6, <1>7 DEF Serves, GaveSlice, r, p

LEMMA AnyTurn ==
  ASSUME Inv(hub), Mail(hub), NEW g, Inv(g), Mail(g), g.counter = hub.counter,
         NEW n \in Name, Serves(hub, g, n) \/ ~(IsAgent(hub, n) /\ IsAgent(g, n))
  PROVE  TheFloor!Turn(SeatOf(hub, n), SeatOf(g, n))
<1> DEFINE s == SeatOf(hub, n)
           t == SeatOf(g, n)
<1>1. /\ IsAgent(hub, n) <=> s.mode # "empty"
      /\ IsAgent(g, n) <=> t.mode # "empty"
      /\ TheFloor!Rested(t) /\ \A i \in TheFloor!Held(t) : i <= hub.counter
  BY SeatRests
<1>2. /\ ~IsAgent(hub, n) => s = TheFloor!Empty
      /\ ~IsAgent(g, n) => t = TheFloor!Empty
  BY SeatIs DEF Inv
<1>3. IsAgent(hub, n) /\ IsAgent(g, n) => TheFloor!Moves(s, t) \/ TheFloor!Hands(s, t, {})
  BY ServedSeat
<1> HIDE DEF s, t
<1>4. TheFloor!Turn(s, t)
  BY <1>1, <1>2, <1>3 DEF TheFloor!Turn, TheFloor!Arrives, TheFloor!Forgotten
<1>5. QED
  BY <1>4 DEF s, t

LEMMA EmptySliced ==
  ASSUME NEW r \in Reg, Emptied(r)
  PROVE  Emptied(AfterSlice(r))
<1> DEFINE v == SliceLen(r)
           w == SliceContext(r)
<1>1. /\ AfterSlice(r).queue = SubSeq(r.queue, v + 1, Len(r.queue))
      /\ AfterSlice(r).context = SubSeq(r.context, w + 1, Len(r.context))
      /\ AfterSlice(r).dropped = 0 /\ AfterSlice(r).evicted = 0
  BY DEF AfterSlice, Drained, SliceRest, Reg
<1>2. v \in 0 .. Len(r.queue) /\ w \in 0 .. Len(r.context)
  BY SliceType
<1>3. << >> \in Seq(Msg) /\ r.queue = << >> /\ r.context = << >> /\ Len(<< >>) = 0
  BY DEF Emptied
<1> HIDE DEF v, w
<1>4. \A k \in 0 .. Len(<< >>) : SubSeq(<< >>, k + 1, Len(<< >>)) = << >>
  <2> TAKE k \in 0 .. Len(<< >>)
  <2>1. /\ SubSeq(<< >>, k + 1, Len(<< >>)) \in Seq(Msg)
        /\ Len(SubSeq(<< >>, k + 1, Len(<< >>))) = Len(<< >>) - k
    BY <1>3, RestSuffix
  <2>2. QED
    BY <1>3, <2>1, EmptySeq
<1>5. QED
  BY <1>1, <1>2, <1>3, <1>4 DEF Emptied

LEMMA ServesEven ==
  ASSUME NEW h, Typed(h), NEW g, NEW n \in Name, Even(h.reg[n]),
         \/ Serves(h, g, n) /\ (g.reg[n].where = "none" => h.reg[n].where = "none")
         \/ g.reg[n].dropped = 0 /\ g.reg[n].where # "none"
         \/ Emptied(g.reg[n])
  PROVE  Even(g.reg[n])
<1>1. h.reg[n] \in Reg
  BY DEF Typed, HubState
<1>2. AfterSlice(h.reg[n]).dropped = 0
  BY <1>1 DEF Reg, AfterSlice, Drained
<1>3. Emptied(h.reg[n]) => Emptied(AfterSlice(h.reg[n]))
  BY <1>1, EmptySliced
<1>4. QED
  BY <1>2, <1>3 DEF Serves, GaveSlice, Sliced, SameBox, Even, Emptied

\* Whoever is there has lost nothing in silence.
Spared(h, g) == \A q \in Name : g.reg[q].where # "none" => Fares(h.reg[q], g, q)

LEMMA BoxedSpared ==
  ASSUME NEW h, Typed(h), NEW g, Boxed(h, g, {})
  PROVE  Spared(h, g)
BY SameFares DEF Spared, Boxed, Typed, HubState

LEMMA ServedFares ==
  ASSUME NEW h, Typed(h), NEW g, Typed(g), NEW n \in Name, Serves(h, g, n)
  PROVE  Fares(h.reg[n], g, n)
<1>1. h.reg[n] \in Reg /\ BoundedReg(h.reg[n]) /\ g.reg[n] \in Reg
  BY DEF Typed, HubState
<1>2. QED
  BY <1>1, SameFares, SlicedFares DEF Serves, GaveSlice

\* A turn of one participant is a turn on the floor.
LEMMA TurnTaken ==
  ASSUME Inv(hub), Mail(hub), Evened(hub), Inv(hub'), Mail(hub'),
         NEW n \in Name, Turns(hub, hub', n)
  PROVE  TheFloor!TakeTurn(n) /\ Evened(hub') /\ Spared(hub, hub')
<1>1. Typed(hub) /\ Typed(hub')
  BY DEF Inv
<1>2. hub'.counter = hub.counter /\ (hub.frozen => hub'.frozen)
  BY DEF Turns, Beside, Onward
<1>3. TheFloor!Turn(SeatOf(hub, n), SeatOf(hub', n))
  BY <1>2, AnyTurn DEF Turns, IsAgent
<1>4. \A q \in Name \ {n} : SeatOf(hub', q) = SeatOf(hub, q) /\ SameBox(hub.reg[q], hub'.reg[q])
                             /\ hub'.reg[q].where = hub.reg[q].where
  BY <1>1, BesideSeat DEF Turns, Beside, Boxed, Placed
<1>5. TheFloor!TakeTurn(n)
  BY <1>2, <1>3, <1>4 DEF TheFloor!TakeTurn, TheFloor!StaysClosed
<1>6. Evened(hub')
  <2> SUFFICES ASSUME NEW q \in Name PROVE Even(hub'.reg[q])
    BY DEF Evened
  <2>1. CASE q = n
    BY <1>1, <2>1, ServesEven DEF Evened, Turns
  <2>2. CASE q # n
    BY <1>4, <2>2 DEF Evened, Even, SameBox, Emptied
  <2>3. QED
    BY <2>1, <2>2
<1>7. Spared(hub, hub')
  <2> SUFFICES ASSUME NEW q \in Name, hub'.reg[q].where # "none"
               PROVE  Fares(hub.reg[q], hub', q)
    BY DEF Spared
  <2>1. CASE q = n /\ Serves(hub, hub', n)
    BY <1>1, <2>1, ServedFares
  <2>2. CASE q = n /\ hub.reg[n].where = "none"
    <3>1. Emptied(hub.reg[n]) /\ hub'.reg[n] \in Reg
      BY <1>1, <2>2 DEF Evened, Even, Typed, HubState
    <3>2. QED
      BY <2>2, <3>1, EmptyFares
  <2>3. CASE q # n
    BY <1>1, <1>4, <2>3, SameFares DEF Typed, HubState
  <2>4. QED
    BY <2>1, <2>2, <2>3 DEF Turns
<1>8. QED
  BY <1>5, <1>6, <1>7

-----------------------------------------------------------------------------
(* A message for several.                                                  *)

\* What a message numbered id does to a box that is not handed over.
Reached(h, g, q, id) ==
  \/ SameBox(h.reg[q], g.reg[q])
  \/ /\ q \in Agents(h)
     /\ \E m \in Msg : m.id = id /\ SameBox(Overhear(h.reg[q], m), g.reg[q])
  \/ /\ q \in Agents(h) /\ ~Ready(h, q)
     /\ \E m \in Msg : m.id = id /\ SameBox(Enqueue(h.reg[q], m), g.reg[q])

\* An agent that waits is handed all there is.
Woke(h, g, q) ==
  /\ q \in Agents(h) /\ Ready(h, q)
  /\ IsAgent(g, q) /\ Emptied(g.reg[q]) /\ g.reg[q].state = "busy"
  /\ Handing(g, q, Overheard(h.reg[q]))

\* The seat of an agent that stays where it is.
LEMMA StaidSeat ==
  ASSUME NEW h, Inv(h), NEW W, NEW g, Typed(g), Placed(h, g, W),
         NEW q \in Name \ W, q \in Agents(h)
  PROVE  LET a == ModeOf(h, q)
         IN  /\ SeatOf(h, q) = BoxSeat(a, h.reg[q]) /\ SeatOf(g, q) = BoxSeat(a, g.reg[q])
             /\ a # "empty"
             /\ a = "waiting" => h.reg[q].queue = << >> /\ Ready(h, q)
<1>1. Typed(h) /\ IsAgent(h, q)
  BY DEF Inv, IsAgent, Agents, Live, IsObserver, Typed, HubState, Reg, Kinds
<1>2. IsAgent(g, q) /\ ModeOf(g, q) = ModeOf(h, q)
  BY <1>1, BesideSeat
<1>3. /\ SeatOf(h, q) = BoxSeat(ModeOf(h, q), h.reg[q])
      /\ SeatOf(g, q) = BoxSeat(ModeOf(h, q), g.reg[q])
  BY <1>1, <1>2, SeatIs
<1>4. /\ ModeOf(h, q) # "empty"
      /\ ModeOf(h, q) = "waiting" => h.reg[q].queue = << >> /\ Ready(h, q)
  BY <1>1, ModeIs DEF Ready
<1>5. QED
  BY <1>3, <1>4

LEMMA OverheardKeeps ==
  ASSUME NEW h, Inv(h), Mail(h), NEW W, NEW g, Typed(g), Placed(h, g, W),
         NEW q \in Name \ W, q \in Agents(h),
         NEW m \in Msg, (m.id = 0) \/ (h.counter < m.id),
         SameBox(Overhear(h.reg[q], m), g.reg[q])
  PROVE  TheFloor!Keeps(SeatOf(h, q), SeatOf(g, q), {m.id} \ {0})
<1> DEFINE r == h.reg[q]
           p == g.reg[q]
           a == ModeOf(h, q)
           k == h.counter
           n == q
<1>1. r \in Reg /\ BoundedReg(r) /\ k \in Nat /\ Sound(r.queue, r.context, k, n)
  BY DEF Inv, Typed, HubState, Mail
<1>2. /\ SeatOf(h, q) = BoxSeat(a, r) /\ SeatOf(g, q) = BoxSeat(a, p)
      /\ a # "empty" /\ (a = "waiting" => r.queue = << >>)
  BY StaidSeat
<1>3. (m.id = 0 \/ k < m.id) /\ SameBox(Overhear(r, m), p)
  OBVIOUS
<1> HIDE DEF r, p, a, k, n
<1>4. TheFloor!Keeps(BoxSeat(a, r), BoxSeat(a, p), {m.id} \ {0})
  BY <1>1, <1>2, <1>3, OverhearKeeps
<1>5. QED
  BY <1>2, <1>4

LEMMA ReachedHears ==
  ASSUME NEW h, Inv(h), Mail(h), NEW W, NEW g, Typed(g), Placed(h, g, W), NEW q \in Name \ W,
         NEW id \in Nat, h.counter < id, Reached(h, g, q, id)
  PROVE  TheFloor!Hears(SeatOf(h, q), SeatOf(g, q), id)
<1> DEFINE r == h.reg[q]
           p == g.reg[q]
           a == ModeOf(h, q)
           k == h.counter
           n == q
<1>1. /\ Typed(h) /\ r \in Reg /\ BoundedReg(r) /\ k \in Nat
      /\ Sound(r.queue, r.context, k, n)
  BY DEF Inv, Typed, HubState, Mail
<1>2. CASE SameBox(r, p)
  <2>1. SeatOf(g, q) = SeatOf(h, q)
    BY <1>1, <1>2, BesideSeat
  <2>2. QED
    BY <2>1 DEF TheFloor!Hears
<1>3. id # 0
  BY <1>1
<1>4. ASSUME q \in Agents(h), NEW m \in Msg, m.id = id, SameBox(Overhear(r, m), p)
      PROVE  TheFloor!Hears(SeatOf(h, q), SeatOf(g, q), id)
  <2>1. TheFloor!Keeps(SeatOf(h, q), SeatOf(g, q), {m.id} \ {0})
    BY <1>4, OverheardKeeps
  <2>2. {m.id} \ {0} = {id}
    BY <1>3, <1>4
  <2>3. QED
    BY <2>1, <2>2 DEF TheFloor!Hears
<1>5. ASSUME q \in Agents(h), ~Ready(h, q), NEW m \in Msg, m.id = id, SameBox(Enqueue(r, m), p)
      PROVE  TheFloor!Hears(SeatOf(h, q), SeatOf(g, q), id)
  <2>1. /\ SeatOf(h, q) = BoxSeat(a, r) /\ SeatOf(g, q) = BoxSeat(a, p)
        /\ a \notin {"empty", "waiting"}
    BY <1>5, StaidSeat
  <2>2. k < m.id
    BY <1>5
  <2> HIDE DEF r, p, a, k, n
  <2>3. TheFloor!Keeps(BoxSeat(a, r), BoxSeat(a, p), {m.id})
    BY <1>1, <1>5, <2>1, <2>2, EnqueueKeeps
  <2>4. QED
    BY <1>5, <2>1, <2>3 DEF TheFloor!Hears
<1>6. QED
  BY <1>2, <1>4, <1>5 DEF Reached

LEMMA WokeHears ==
  ASSUME NEW h, Inv(h), NEW g, Inv(g), NEW q \in Name, NEW id, Woke(h, g, q)
  PROVE  TheFloor!Hears(SeatOf(h, q), SeatOf(g, q), id)
<1> DEFINE r == h.reg[q]
           p == g.reg[q]
           a == ModeOf(h, q)
           b == ModeOf(g, q)
<1>1. Typed(h) /\ Typed(g) /\ r \in Reg
  BY DEF Inv, Typed, HubState
<1>2. IsAgent(h, q) /\ a = "waiting"
  BY ModeIs DEF Woke, Ready
<1>3. b \in {"engaged", "away"}
  BY ModeIs DEF Woke
<1>4. SeatOf(h, q) = BoxSeat(a, r) /\ SeatOf(g, q) = BoxSeat(b, p)
  BY <1>1, <1>2, SeatIs DEF Woke
<1>5. Emptied(p)
  BY DEF Woke
<1> HIDE DEF r, p, a, b
<1>6. TheFloor!Hands(BoxSeat(a, r), BoxSeat(b, p), {id})
  BY <1>1, <1>2, <1>3, <1>5, WholeHands
<1>7. BoxSeat(a, r).mode = "waiting"
  BY <1>2 DEF BoxSeat
<1>8. QED
  BY <1>4, <1>6, <1>7 DEF TheFloor!Hears

LEMMA ReachedEven ==
  ASSUME NEW h, Typed(h), NEW g, NEW q \in Name, Even(h.reg[q]), NEW id,
         Reached(h, g, q, id) \/ Woke(h, g, q),
         g.reg[q].where = "none" => h.reg[q].where = "none"
  PROVE  Even(g.reg[q])
<1>0. q \in Agents(h) => g.reg[q].where # "none"
  BY DEF Agents, Live
<1>1. h.reg[q] \in Reg /\ BoundedReg(h.reg[q])
  BY DEF Typed, HubState
<1>2. CASE SameBox(h.reg[q], g.reg[q])
  BY <1>2 DEF SameBox, Even, Emptied
<1>3. ASSUME q \in Agents(h), NEW m \in Msg, SameBox(Overhear(h.reg[q], m), g.reg[q])
      PROVE  Even(g.reg[q])
  BY <1>0, <1>1, <1>3 DEF SameBox, Even, Overhear, Reg
<1>4. ASSUME q \in Agents(h), NEW m \in Msg, SameBox(Enqueue(h.reg[q], m), g.reg[q])
      PROVE  Even(g.reg[q])
  <2>1. /\ h.reg[q].queue \in Seq(Msg)
        /\ h.reg[q].queue # << >> => Tail(h.reg[q].queue) \in Seq(Msg)
        /\ Len(h.reg[q].queue) >= QueueCap => h.reg[q].queue # << >>
    BY <1>1, CapsAssumption, EmptySeq, HeadTailProperties DEF Reg
  <2>2. \A s \in Seq(Msg) : Append(s, m) # << >>
    BY AppendElements, ElementsType, EmptySeq
  <2>3. Enqueue(h.reg[q], m).queue # << >>
    BY <1>1, <2>1, <2>2 DEF Enqueue, Reg
  <2>4. QED
    BY <1>0, <1>4, <2>3 DEF SameBox, Even
<1>5. CASE Woke(h, g, q)
  BY <1>5 DEF Woke, Emptied, Even, IsAgent
<1>6. QED
  BY <1>2, <1>3, <1>4, <1>5 DEF Reached

\* What is taken of an agent that waits is all there is.
LEMMA WholeEmptied ==
  ASSUME NEW h, Inv(h), Mail(h), NEW q \in Agents(h), Ready(h, q), Even(h.reg[q]),
         NEW id \in Nat, h.counter <= id
  PROVE  /\ Emptied(Drained(h.reg[q], Prefix(h.reg[q].context, id)))
         /\ Prefix(h.reg[q].context, id) = Len(h.reg[q].context)
<1> DEFINE k == Prefix(h.reg[q].context, id)
           p == Drained(h.reg[q], k)
<1>1. q \in Name /\ h.reg[q] \in Reg
  BY DEF Inv, Typed, HubState, Agents, Live
<1>2. k = Len(h.reg[q].context)
  <2>1. h.reg[q].context \in Seq(Msg) /\ h.counter \in Nat
    BY <1>1 DEF Reg, Inv, Typed, HubState
  <2>2. \A i \in DOMAIN h.reg[q].context : h.reg[q].context[i].id <= h.counter
    BY <1>1 DEF Mail, Sound
  <2>3. \A i \in DOMAIN h.reg[q].context : h.reg[q].context[i].id <= id
    BY <2>1, <2>2, ElementsType
  <2>4. QED
    BY <2>1, <2>3, PrefixWhole
<1>3. p.queue = h.reg[q].queue /\ p.queue = << >> /\ p.context = << >>
  BY WholeTaken DEF Ready
<1> HIDE DEF k
<1>4. p.dropped = h.reg[q].dropped /\ p.evicted = 0
  BY <1>1 DEF Drained, Reg
<1> HIDE DEF p
<1>5. Emptied(p)
  BY <1>3, <1>4 DEF Emptied, Even
<1>6. QED
  BY <1>5, <1>2 DEF p, k

LEMMA WokeFares ==
  ASSUME NEW h, Inv(h), NEW g, Typed(g), NEW q \in Name, Even(h.reg[q]), Woke(h, g, q)
  PROVE  Fares(h.reg[q], g, q)
<1>1. h.reg[q] \in Reg /\ g.reg[q] \in Reg
  BY DEF Inv, Typed, HubState
<1>2. h.reg[q].queue = << >>
  BY DEF Inv, IdleDrained, Woke, Ready
<1>3. h.reg[q].dropped = 0
  BY <1>2 DEF Even
<1>4. QED
  BY <1>1, <1>2, <1>3, WholeFares DEF Woke

LEMMA ReachedFares ==
  ASSUME NEW h, Inv(h), Mail(h), NEW g, NEW q \in Name, NEW id \in Nat,
         id = 0 \/ h.counter < id, Reached(h, g, q, id)
  PROVE  Fares(h.reg[q], g, q)
<1>1. /\ h.reg[q] \in Reg /\ h.counter \in Nat
      /\ Sound(h.reg[q].queue, h.reg[q].context, h.counter, q)
  BY DEF Inv, Typed, HubState, Mail
<1>2. CASE SameBox(h.reg[q], g.reg[q])
  BY <1>1, <1>2, SameFares
<1>3. ASSUME NEW m \in Msg, m.id = id,
             SameBox(Enqueue(h.reg[q], m), g.reg[q]) \/ SameBox(Overhear(h.reg[q], m), g.reg[q])
      PROVE  Fares(h.reg[q], g, q)
  BY <1>1, <1>3, FilledFares
<1>4. QED
  BY <1>2, <1>3 DEF Reached

\* Boxes are filled or emptied, and nobody moves.
LEMMA ReboxedPlaced ==
  ASSUME NEW h, NEW g, g.conn = h.conn, \A q \in Name : Reboxed(h.reg[q], g.reg[q]), NEW W
  PROVE  Placed(h, g, W)
BY DEF Placed, Reboxed, SameSeat

LEMMA FrozenKept ==
  ASSUME NEW h, Typed(h)
  PROVE  /\ \A x : WithCounter(h, x).frozen = h.frozen /\ WithCounter(h, x).conn = h.conn
         /\ \A x, y, z : /\ WithRecord(h, x, y, z).frozen = h.frozen
                         /\ WithRecord(h, x, y, z).conn = h.conn
<1>1. h \in HubState
  BY DEF Typed
<1>2. QED
  BY <1>1 DEF HubState, WithCounter, WithRecord

\* What a message does to others stays what it did when nothing else touches
\* their boxes.
LEMMA ReachedLater ==
  ASSUME NEW h, NEW f, NEW g, NEW q \in Name, SameBox(f.reg[q], g.reg[q]), NEW id,
         Reached(h, f, q, id)
  PROVE  Reached(h, g, q, id)
BY DEF Reached, SameBox

LEMMA EmptiedLater ==
  ASSUME NEW f, NEW g, Boxed(f, g, {}), NEW q \in Name, Emptied(f.reg[q])
  PROVE  Emptied(g.reg[q])
BY DEF Emptied, Boxed, SameBox

LEMMA AcceptReaches ==
  ASSUME NEW h, Inv(h), Upheld(h), Evened(h), NEW c \in Conn, NEW n \in Live(h), NEW s \in SayFrame
  PROVE  LET g == Accept(h, c, n, s)
         IN  /\ Placed(h, g, Woken(h, n, s) \cup {n})
             /\ g.counter = h.counter + 1 /\ (h.frozen => g.frozen)
             /\ SameBox(h.reg[n], g.reg[n])
             /\ \A q \in Woken(h, n, s) : Woke(h, g, q)
             /\ \A q \in Name \ Woken(h, n, s) : Reached(h, g, q, h.counter + 1)
<1> DEFINE rec     == [id |-> h.counter + 1, from |-> n, to |-> s.to, private |-> s.private]
           copy(q) == Tag(rec, Addressing(q, s.to))
           woken   == Woken(h, n, s)
           upto(q) == Prefix(h.reg[q].context, rec.id)
           seats   == Seats(h, n, s)
           reg     == [q \in Name |->
              IF q \in woken THEN Drained(h.reg[q], upto(q))
              ELSE IF q \in Addressed(h, n, s) THEN Enqueue(h.reg[q], copy(q))
              ELSE IF q \in Aside(h, n, s) THEN Overhear(h.reg[q], copy(q))
              ELSE h.reg[q]]
           k       == h.round + RoundsFor(woken)
           recent  == LastOf(Append(h.recent, rec), RecentWindow)
           sent    == h.sent \cup {[sink |-> Transcript, t |-> "msg", id |-> rec.id,
                                     from |-> n, done |-> s.done]}
           toSeats == [q \in seats |-> {copy(q)}]
           toWoken == [q \in woken |->
              Omitted(h.reg[q]) \cup Items(h.reg[q].context, upto(q)) \cup {copy(q)}]
           w       == WithReg(h, reg)
           v       == WithRound(w, k)
           routed  == WithRecord(v, rec.id, recent, sent)
           shown   == Deliver(routed, toSeats)
           given   == Deliver(shown, toWoken)
           limited == IF woken = {} THEN shown ELSE CheckRoundLimit(given)
           d       == h.reg[n].client
           g       == Reply(limited, d, c, "ok")
           W       == woken \cup {n}
<1>1. Typed(h) /\ Linked(h) /\ Owned(h) /\ Mail(h) /\ h.counter \in Nat
  BY DEF Inv, Upheld, Typed, HubState, Linked
<1>2. Accept(h, c, n, s) = g
  BY <1>1 DEF Accept, WithReg, WithRound, WithRecord, Typed, HubState
<1>3. \A q \in Woken(h, n, s) :
         Handing(Accept(h, c, n, s), q,
                 Omitted(h.reg[q])
                   \cup Items(h.reg[q].context, Prefix(h.reg[q].context, h.counter + 1)))
  BY <1>1, AcceptAdds DEF Typed, HubState
<1>4. rec \in Record /\ rec.id \in Nat /\ n \in Name /\ d \in Conn
  BY <1>1 DEF Record, SayFrame, Live, Typed, HubState, Linked, Owned
<1>5. \A q : copy(q) \in Msg /\ copy(q).id = rec.id
  <2>1. \A q : copy(q) \in Msg
    BY <1>4, AddressingType, TagType
  <2>2. QED
    BY <2>1 DEF Tag
<1>6. \A q \in Name : /\ h.reg[q] \in Reg /\ BoundedReg(h.reg[q])
                      /\ h.reg[q].context \in Seq(Msg)
  BY <1>1 DEF Typed, HubState, Reg
<1>7. recent \in Seq(Record) /\ Len(recent) <= RecentWindow
  <2>1. Append(h.recent, rec) \in Seq(Record)
    BY <1>1, <1>4, AppendProperties DEF Typed, HubState
  <2>2. QED
    BY <2>1, LastOfType, ConfigAssumption
<1>8. sent \in SUBSET Frame
  BY <1>1, <1>4 DEF Frame, Routed, SayFrame, Typed, HubState, Sinks
<1>9. k \in Nat
  BY <1>1 DEF RoundsFor, Typed, HubState
<1> DEFINE id == rec.id
<1>10. /\ id \in Nat /\ routed = WithRecord(v, id, recent, sent) /\ h.counter <= id
      /\ id = h.counter + 1 /\ \A q : copy(q) \in Msg /\ copy(q).id = id
  BY <1>1, <1>4, <1>5
<1>11. \A q : upto(q) = Prefix(h.reg[q].context, id)
  OBVIOUS
<1> HIDE DEF rec, id
<1>12. /\ woken \subseteq Addressed(h, n, s) /\ Addressed(h, n, s) \subseteq Agents(h)
       /\ Aside(h, n, s) \subseteq Agents(h) /\ Aside(h, n, s) \cap Addressed(h, n, s) = {}
       /\ seats \subseteq Live(h) /\ seats \cap Agents(h) = {}
       /\ Agents(h) \subseteq Live(h) /\ Live(h) \subseteq Name
       /\ n \notin Addressed(h, n, s) \cup Aside(h, n, s)
       /\ \A q \in woken : Ready(h, q)
       /\ \A q \in Addressed(h, n, s) \ woken : ~Ready(h, q)
       /\ \A q \in woken \cup seats : h.reg[q].client \in Conn
  BY DEF Woken, Addressed, Aside, Seats, Observers, Agents, Live, Ready, Reachable
<1>13. \A q \in Name : upto(q) \in 0 .. Len(h.reg[q].context)
  BY <1>6, PrefixBounded
<1> HIDE DEF copy, woken, seats
<1>14. \A q \in Name :
         /\ q \in woken => reg[q] = Drained(h.reg[q], upto(q))
         /\ q \in Addressed(h, n, s) \ woken => reg[q] = Enqueue(h.reg[q], copy(q))
         /\ q \in Aside(h, n, s) => reg[q] = Overhear(h.reg[q], copy(q))
         /\ q \notin Addressed(h, n, s) \cup Aside(h, n, s) => reg[q] = h.reg[q]
  BY <1>12
<1>15. \A q \in woken : /\ Emptied(reg[q])
                        /\ Prefix(h.reg[q].context, id) = Len(h.reg[q].context)
  <2> TAKE q \in woken
  <2>1. q \in Agents(h) /\ q \in Name /\ Ready(h, q) /\ Even(h.reg[q])
    BY <1>12 DEF Evened
  <2>2. /\ Emptied(Drained(h.reg[q], Prefix(h.reg[q].context, id)))
        /\ Prefix(h.reg[q].context, id) = Len(h.reg[q].context)
    BY <1>1, <1>10, <2>1, WholeEmptied
  <2>3. QED
    BY <1>11, <1>14, <2>1, <2>2
<1>16. \A q \in seats : toSeats[q] \in SUBSET Msg
  BY <1>5
<1>17. \A q \in woken : toWoken[q] \in SUBSET Msg
  <2> TAKE q \in woken
  <2>1. q \in Name /\ h.reg[q] \in Reg
    BY <1>6, <1>12
  <2>2. Omitted(h.reg[q]) \in SUBSET Msg
    BY <2>1, NoticeType
  <2>3. Items(h.reg[q].context, upto(q)) \in SUBSET Msg
    BY <1>6, <1>13, <2>1, ItemsType
  <2>4. QED
    BY <1>5, <2>1, <2>2, <2>3
<1> HIDE DEF upto
<1>18. \A q \in Name : Reboxed(h.reg[q], reg[q])
  <2> TAKE q \in Name
  <2>1. CASE q \in woken
    BY <1>6, <1>13, <1>14, <2>1, DrainedType
  <2>2. CASE q \in Addressed(h, n, s) \ woken
    BY <1>5, <1>6, <1>14, <2>2, EnqueueType
  <2>3. CASE q \in Aside(h, n, s)
    BY <1>5, <1>6, <1>14, <2>3, OverhearType
  <2>4. CASE q \notin Addressed(h, n, s) \cup Aside(h, n, s)
    BY <1>6, <1>14, <2>4 DEF Reboxed, SameSeat
  <2>5. QED
    BY <2>1, <2>2, <2>3, <2>4
<1>19. reg \in [Name -> Reg] /\ \A q \in Name : BoundedReg(reg[q]) /\ SameSeat(h.reg[q], reg[q])
  BY <1>18 DEF Reboxed
<1>20. DOMAIN toSeats = seats /\ DOMAIN toWoken = woken
  OBVIOUS
<1> HIDE DEF reg, k, recent, sent, toSeats, toWoken
<1>21. /\ Typed(w) /\ Stable(h, w) /\ w.reg = reg /\ w.conn = h.conn
       /\ w.frozen = h.frozen
  BY <1>1, <1>19, WithRegType, WithRegStable DEF SameFloor
<1> HIDE DEF w
<1>22. /\ Typed(v) /\ v.reg = reg /\ Stable(w, v) /\ v.conn = h.conn /\ v.frozen = h.frozen
  BY <1>9, <1>21, WithRoundType
<1> HIDE DEF v
<1>23. /\ Typed(routed) /\ routed.reg = reg /\ Stable(v, routed) /\ routed.counter = id
       /\ routed.conn = h.conn /\ routed.frozen = h.frozen
  BY <1>7, <1>8, <1>10, <1>22, WithRecordKeeps, KeptFields, FrozenKept DEF Keeps
<1> HIDE DEF routed
<1>24. /\ Stable(h, routed) /\ Agents(routed) = Agents(h) /\ Live(routed) = Live(h)
       /\ Owned(routed) /\ Placed(h, routed, W)
  BY <1>1, <1>18, <1>21, <1>22, <1>23, StableTransitive, StableAlike, StableOwned, ReboxedPlaced
<1>25. /\ DOMAIN toSeats \subseteq Live(routed)
       /\ \A q \in DOMAIN toSeats : routed.reg[q].client \in Conn /\ toSeats[q] \in SUBSET Msg
       /\ \A q \in DOMAIN toSeats : q \in W \/ q \notin Agents(routed)
  BY <1>12, <1>16, <1>20, <1>24 DEF Stable
<1> HIDE DEF W
<1>26. /\ Typed(shown) /\ Stable(routed, shown) /\ Level(routed, shown, W)
  BY <1>23, <1>24, <1>25, DeliverType, DeliverLevel
<1> HIDE DEF shown
<1>27. Stable(h, shown) /\ Agents(shown) = Agents(h) /\ Live(shown) = Live(h) /\ Owned(shown)
  BY <1>1, <1>24, <1>26, StableTransitive, StableAlike, StableOwned
<1>28. /\ DOMAIN toWoken \subseteq Live(shown)
       /\ \A q \in DOMAIN toWoken : shown.reg[q].client \in Conn /\ toWoken[q] \in SUBSET Msg
       /\ \A q \in DOMAIN toWoken : q \in W \/ q \notin Agents(shown)
  BY <1>12, <1>17, <1>20, <1>27 DEF Stable, W
<1>29. /\ Typed(given) /\ Stable(shown, given) /\ Level(shown, given, W)
       /\ \A q \in DOMAIN toWoken : q \in Agents(shown) => given.reg[q].state = "busy"
  BY <1>26, <1>27, <1>28, DeliverType, DeliverLevel
<1> HIDE DEF given
<1>30. Owned(given) /\ \A q \in woken : given.reg[q].state = "busy"
  BY <1>12, <1>20, <1>27, <1>29, StableOwned
<1>31. /\ Typed(CheckRoundLimit(given)) /\ Stable(given, CheckRoundLimit(given))
       /\ CheckRoundLimit(given).reg = given.reg /\ Level(given, CheckRoundLimit(given), W)
  BY <1>29, <1>30, CheckRoundLimitType, CheckRoundLimitLevel
<1>32. /\ Typed(limited) /\ Stable(shown, limited) /\ Level(routed, limited, W)
       /\ \A q \in woken : limited.reg[q].state = "busy"
  <2>1. CASE woken = {}
    BY <1>26, <2>1 DEF Stable
  <2>2. CASE woken # {}
    <3>1. Stable(shown, CheckRoundLimit(given))
      BY <1>29, <1>31, StableTransitive
    <3>2. Level(routed, given, W)
      BY <1>26, <1>29, LevelTransitive
    <3>3. Level(routed, CheckRoundLimit(given), W)
      BY <1>31, <3>2, LevelTransitive
    <3>4. QED
      BY <1>30, <1>31, <2>2, <3>1, <3>3
  <2>3. QED
    BY <2>1, <2>2
<1> HIDE DEF limited
<1>33. Stable(h, limited) /\ Owned(limited)
  BY <1>1, <1>27, <1>32, StableTransitive, StableOwned
<1>34. n \in Live(limited) /\ limited.reg[n].client = d /\ n \in W
  BY <1>4, <1>33, StableAlike DEF Stable, W
<1>35. d \in Own(limited, W)
  BY <1>33, <1>34, OwnConnections
<1>36. /\ Level(limited, g, W) /\ g.reg = limited.reg /\ Stable(limited, g)
  BY <1>4, <1>32, <1>35, ReplyLevel, ReplyType
<1> HIDE DEF g, d
<1>37. Level(routed, g, W) /\ Stable(h, g)
  BY <1>32, <1>33, <1>36, LevelTransitive, StableTransitive
<1>38. Placed(h, g, W) /\ g.counter = id /\ (h.frozen => g.frozen) /\ Boxed(routed, g, {})
  BY <1>23, <1>24, <1>37, PlacedTransitive DEF Level, Onward
<1>39. SameBox(h.reg[n], g.reg[n])
  BY <1>4, <1>12, <1>14, <1>23, <1>38 DEF Boxed
<1>40. ASSUME NEW q \in woken
       PROVE  Woke(h, g, q)
  <2>1. q \in Name /\ q \in Agents(h) /\ Ready(h, q)
    BY <1>12
  <2>2. Emptied(g.reg[q])
    BY <1>15, <1>23, <1>38, <2>1, EmptiedLater
  <2>3. g.reg[q].state = "busy"
    BY <1>32, <1>36
  <2>4. IsAgent(h, q)
    BY <1>1, <2>1 DEF IsAgent, Agents, Live, IsObserver, Typed, HubState, Reg, Kinds
  <2>5. IsAgent(g, q)
    BY <1>37, <2>1, <2>4 DEF IsAgent, Stable
  <2>6. Handing(g, q, Overheard(h.reg[q]))
    BY <1>2, <1>10, <1>15, <1>3 DEF woken, Overheard
  <2>7. QED
    BY <2>1, <2>2, <2>3, <2>5, <2>6 DEF Woke
<1>41. ASSUME NEW q \in Name \ woken
       PROVE  Reached(h, g, q, id)
  <2>1. CASE q \in Addressed(h, n, s) \ woken
    BY <1>10, <1>12, <1>14, <1>23, <1>38, <2>1 DEF Reached, Boxed, SameBox
  <2>2. CASE q \in Aside(h, n, s)
    BY <1>10, <1>12, <1>14, <1>23, <1>38, <2>2 DEF Reached, Boxed, SameBox
  <2>3. CASE q \notin Addressed(h, n, s) \cup Aside(h, n, s)
    BY <1>14, <1>23, <1>38, <2>3 DEF Reached, Boxed
  <2>4. QED
    BY <2>1, <2>2, <2>3
<1>42. QED
  BY <1>2, <1>10, <1>38, <1>39, <1>40, <1>41 DEF W, woken

-----------------------------------------------------------------------------
(* A say.                                                                  *)

\* An accepted say, with what follows it: the sender has its turn, the others
\* hear it.
LEMMA SaySeats ==
  ASSUME NEW h, Inv(h), Upheld(h), Evened(h), NEW c \in Conn, NEW n \in Live(h),
         NEW s \in SayFrame, NEW screen, Verdict(h, n, s, screen) = "pass",
         NEW g, g = Handled(HandleSay(h, c, n, s, screen), c), Inv(g), Mail(g)
  PROVE  /\ h.frozen => SeatOf(h, n).mode = "empty"
         /\ g.counter = h.counter + 1 /\ (h.frozen => g.frozen)
         /\ \/ SeatOf(g, n) = SeatOf(h, n)
            \/ TheFloor!Moves(SeatOf(h, n), SeatOf(g, n))
            \/ TheFloor!Hands(SeatOf(h, n), SeatOf(g, n), {})
         /\ \A q \in Name \ {n} : TheFloor!Hears(SeatOf(h, q), SeatOf(g, q), h.counter + 1)
         /\ Evened(g)
         /\ \A q \in Name : Fares(h.reg[q], g, q)
<1> DEFINE a     == Accept(h, c, n, s)
           f     == HandleSay(h, c, n, s, screen)
           woken == Woken(h, n, s)
           W     == woken \cup {n}
           id    == h.counter + 1
<1>1. /\ Typed(h) /\ Linked(h) /\ Mail(h) /\ Typed(g) /\ h.counter \in Nat
      /\ n \in Name /\ h.reg[n].where = "live" /\ h.reg[n].kind \in Kinds
      /\ id \in Nat /\ h.counter < id
  <2>1. /\ Typed(h) /\ Linked(h) /\ Mail(h) /\ Typed(g)
        /\ n \in Name /\ h.reg[n].where = "live"
    BY DEF Inv, Upheld, Live
  <2>2. h.counter \in Nat /\ h.reg[n].kind \in Kinds
    BY <2>1 DEF Typed, HubState, Reg
  <2>3. QED
    BY <2>1, <2>2
<1>2. h.frozen => SeatOf(h, n).mode = "empty"
  <2>1. ASSUME h.frozen, ~IsObserver(h, n)
        PROVE  FALSE
    <3>1. Verdict(h, n, s, screen) = "frozen"
      BY <2>1, Zenon DEF Verdict
    <3>2. QED
      BY <3>1
  <2>2. IsObserver(h, n) => ~IsAgent(h, n)
    BY DEF IsObserver, IsAgent
  <2>3. ~IsAgent(h, n) => SeatOf(h, n).mode = "empty"
    BY <1>1, SeatIs DEF TheFloor!Empty
  <2>4. QED
    BY <2>1, <2>2, <2>3
<1>3. /\ Placed(h, a, W) /\ a.counter = id /\ (h.frozen => a.frozen)
      /\ SameBox(h.reg[n], a.reg[n])
      /\ \A q \in woken : Woke(h, a, q)
      /\ \A q \in Name \ woken : Reached(h, a, q, id)
  BY AcceptReaches
<1>4. Typed(a) /\ Stable(h, a)
  BY <1>1, AcceptKeeps DEF Keeps, Follows
<1>5. Tends(a, f, n) /\ Stable(a, f)
  BY SayTends
<1>6. Typed(f)
  BY HandleSayInv DEF Inv
<1>7. Adds(a, f) /\ Adds(f, g)
  BY HandleSayAdds, HandledAdds
<1> HIDE DEF a, f, id
<1>8. Level(f, g, {n}) /\ g.reg = f.reg
  BY <1>6, HandledLevel DEF f
<1>9. Beside(a, g, {n}) /\ Serves(a, g, n)
  <2>1. Beside(a, g, {n})
    BY <1>5, <1>8, LevelBeside, BesideTransitive DEF Tends
  <2>2. SameBox(f.reg[n], g.reg[n])
    BY <1>8 DEF SameBox
  <2>3. Serves(a, g, n)
    BY <1>1, <1>4, <1>5, <1>6, <1>7, <1>8, <2>2, ServesBetween DEF Tends
  <2>4. QED
    BY <2>1, <2>3
<1>10. /\ Placed(a, g, {n}) /\ g.counter = id /\ (h.frozen => g.frozen)
      /\ \A q \in Name \ {n} : SameBox(a.reg[q], g.reg[q])
  BY <1>3, <1>9 DEF Beside, Onward, Boxed
<1>11. Placed(h, g, W)
  BY <1>3, <1>10, PlacedWider, PlacedTransitive
<1>12. n \notin woken /\ woken \subseteq Name
  BY DEF Woken, Addressed, Agents, Live
<1> HIDE DEF woken
<1>13. \A q \in Name : g.reg[q].where = h.reg[q].where
  BY <1>4, <1>5, <1>8 DEF Stable
<1>14. Adds(a, g) /\ "sent" \in DOMAIN a
  BY <1>4, <1>7, AddsTransitive DEF Typed, HubState
<1>15. ASSUME NEW q \in woken
       PROVE  Woke(h, g, q)
  <2>1. q \in Name \ {n}
    BY <1>12
  <2>2. Woke(h, a, q)
    BY <1>3
  <2>3. Emptied(g.reg[q])
    BY <1>10, <2>1, <2>2 DEF Woke, Emptied, SameBox
  <2>4. /\ g.reg[q].where = a.reg[q].where /\ g.reg[q].kind = a.reg[q].kind
        /\ g.reg[q].state = a.reg[q].state
    BY <1>10, <2>1 DEF Placed
  <2>5. Handing(g, q, Overheard(h.reg[q]))
    BY <1>14, <2>2, HandingLater DEF Woke
  <2>6. QED
    BY <2>2, <2>3, <2>4, <2>5 DEF Woke, IsAgent
<1>16. ASSUME NEW q \in Name \ W
       PROVE  Reached(h, g, q, id)
  <2>1. q \in Name \ woken /\ q \in Name \ {n}
    OBVIOUS
  <2>2. Reached(h, a, q, id) /\ SameBox(a.reg[q], g.reg[q])
    BY <1>3, <1>10, <2>1
  <2>3. QED
    BY <2>2, ReachedLater
<1>17. ASSUME NEW q \in Name \ {n}
       PROVE  /\ TheFloor!Hears(SeatOf(h, q), SeatOf(g, q), id)
              /\ Even(g.reg[q]) /\ Fares(h.reg[q], g, q)
  <2>1. CASE q \in woken
    <3>1. Woke(h, g, q)
      BY <1>15, <2>1
    <3>2. QED
      BY <1>1, <1>13, <3>1, WokeHears, WokeFares, ReachedEven DEF Evened
  <2>2. CASE q \in Name \ W
    <3>1. Reached(h, g, q, id)
      BY <1>16, <2>2
    <3>2. TheFloor!Hears(SeatOf(h, q), SeatOf(g, q), id)
      BY <1>1, <1>11, <2>2, <3>1, ReachedHears
    <3>3. Even(g.reg[q])
      BY <1>1, <1>13, <3>1, ReachedEven DEF Evened
    <3>4. Fares(h.reg[q], g, q)
      BY <1>1, <2>2, <3>1, ReachedFares
    <3>5. QED
      BY <3>2, <3>3, <3>4
  <2>3. QED
    BY <2>1, <2>2
<1>18. Serves(h, g, n)
  BY <1>1, <1>3, <1>4, <1>9, ServesAfter
<1>19. IsAgent(h, n) <=> IsAgent(g, n)
  BY <1>1, <1>4, <1>5, <1>8 DEF IsAgent, Stable
<1>20. \/ SeatOf(g, n) = SeatOf(h, n)
       \/ TheFloor!Moves(SeatOf(h, n), SeatOf(g, n))
       \/ TheFloor!Hands(SeatOf(h, n), SeatOf(g, n), {})
  <2>1. CASE IsAgent(h, n)
    BY <1>1, <1>18, <1>19, <2>1, ServedSeat
  <2>2. CASE ~IsAgent(h, n)
    BY <1>1, <1>19, <2>2, SeatIs
  <2>3. QED
    BY <2>1, <2>2
<1>21. Evened(g)
  <2>1. Even(g.reg[n])
    BY <1>1, <1>18, <1>13, ServesEven DEF Evened
  <2>2. QED
    BY <1>17, <2>1 DEF Evened
<1>22. Fares(h.reg[n], g, n)
  BY <1>1, <1>18, ServedFares
<1>23. QED
  BY <1>2, <1>10, <1>17, <1>20, <1>21, <1>22 DEF id

\* A frame of a participant is also a sign of life, which moves nobody.
LEMMA HeardSeats ==
  ASSUME Inv(hub), NEW c \in Conn, Known(c)
  PROVE  LET h == Heard(c)
         IN  /\ Placed(hub, h, {}) /\ Boxed(hub, h, {})
             /\ h.counter = hub.counter /\ h.frozen = hub.frozen
             /\ \A q \in Name : SeatOf(h, q) = SeatOf(hub, q)
             /\ Evened(hub) => Evened(h)
<1> DEFINE n == Sender(c)
           h == Heard(c)
<1>1. n \in Name /\ Typed(hub) /\ Typed(h)
  BY HeardInv DEF Inv
<1>2. /\ h.conn = hub.conn /\ h.counter = hub.counter /\ h.frozen = hub.frozen
      /\ \A q \in Name : /\ h.reg[q].where = hub.reg[q].where
                         /\ h.reg[q].kind = hub.reg[q].kind
                         /\ h.reg[q].client = hub.reg[q].client
                         /\ h.reg[q].state = hub.reg[q].state
                         /\ SameBox(hub.reg[q], h.reg[q])
  <2> DEFINE w == Now
             r == [w.reg[n] EXCEPT !.awaiting = FALSE]
  <2>1. /\ w.reg = hub.reg /\ w.conn = hub.conn /\ w.counter = hub.counter
        /\ w.frozen = hub.frozen /\ w \in HubState
    BY <1>1 DEF Now, Typed, HubState
  <2>2. h = [w EXCEPT !.reg[n] = r]
    BY DEF Heard
  <2> HIDE DEF w, n, h
  <2>3. /\ r.where = w.reg[n].where /\ r.kind = w.reg[n].kind /\ r.client = w.reg[n].client
        /\ r.state = w.reg[n].state /\ SameBox(w.reg[n], r)
    BY <1>1, <2>1 DEF HubState, Reg, SameBox
  <2> HIDE DEF r
  <2>4. /\ h.reg = [w.reg EXCEPT ![n] = r] /\ h.conn = w.conn
        /\ h.counter = w.counter /\ h.frozen = w.frozen
    BY <2>1, <2>2 DEF HubState
  <2>5. \A q \in Name : h.reg[q] = IF q = n THEN r ELSE w.reg[q]
    BY <2>1, <2>4 DEF HubState
  <2>6. \A q \in Name : SameBox(w.reg[q], w.reg[q])
    BY DEF SameBox
  <2>7. QED
    BY <2>1, <2>3, <2>4, <2>5, <2>6
<1> HIDE DEF h, n
<1>3. Placed(hub, h, {}) /\ Boxed(hub, h, {})
  BY <1>2 DEF Placed, Boxed
<1>4. \A q \in Name : SeatOf(h, q) = SeatOf(hub, q)
  BY <1>1, <1>2, <1>3, BesideSeat
<1>5. Evened(hub) => Evened(h)
  BY <1>2 DEF Evened, Even, SameBox, Emptied
<1>6. QED
  BY <1>2, <1>3, <1>4, <1>5 DEF h

LEMMA SayOnFloor ==
  ASSUME Inv(hub), Upheld(hub), Evened(hub), Inv(hub'), Upheld(hub'),
         NEW c \in Conn, ReadSay(c)
  PROVE  /\ \E n \in Name : TheFloor!TakeTurn(n) \/ TheFloor!Say(n)
         /\ Evened(hub') /\ Spared(hub, hub')
<1> DEFINE h == Heard(c)
           n == Sender(c)
<1>1. Known(c)
  BY DEF ReadSay
<1>2. PICK s \in Says, screen \in Screens :
        hub' = Handled(HandleSay(h, c, n, s, screen), c)
  BY DEF ReadSay
<1>3. s \in SayFrame
  BY InputAssumption
<1>4. n \in Name /\ Inv(h) /\ Upheld(h) /\ n \in Live(h)
  BY <1>1, HeardInv, HeardUpheld
<1>5. /\ h.counter = hub.counter /\ h.frozen = hub.frozen /\ Evened(h)
      /\ Boxed(hub, h, {})
      /\ \A q \in Name : SeatOf(h, q) = SeatOf(hub, q)
  BY <1>1, HeardSeats
<1>6. Mail(hub) /\ Mail(hub')
  BY DEF Upheld
<1> HIDE DEF h, n
<1>7. CASE Verdict(h, n, s, screen) = "pass"
  <2>1. /\ h.frozen => SeatOf(h, n).mode = "empty"
        /\ hub'.counter = h.counter + 1 /\ (h.frozen => hub'.frozen)
        /\ \/ SeatOf(hub', n) = SeatOf(h, n)
           \/ TheFloor!Moves(SeatOf(h, n), SeatOf(hub', n))
           \/ TheFloor!Hands(SeatOf(h, n), SeatOf(hub', n), {})
        /\ \A q \in Name \ {n} : TheFloor!Hears(SeatOf(h, q), SeatOf(hub', q), h.counter + 1)
        /\ Evened(hub')
        /\ \A q \in Name : Fares(h.reg[q], hub', q)
    BY <1>2, <1>3, <1>4, <1>5, <1>6, <1>7, SaySeats
  <2>2. TheFloor!Turn(SeatOf(hub, n), SeatOf(hub', n))
    BY <1>4, <1>5, <2>1 DEF TheFloor!Turn
  <2>3. \A q \in Name \ {n} : TheFloor!Hears(SeatOf(hub, q), SeatOf(hub', q), hub'.counter)
    BY <1>5, <2>1
  <2>4. /\ hub.frozen => SeatOf(hub, n).mode = "empty"
        /\ hub'.counter = hub.counter + 1 /\ (hub.frozen => hub'.frozen)
    BY <1>4, <1>5, <2>1
  <2>5. TheFloor!Say(n)
    BY <1>4, <2>2, <2>3, <2>4 DEF TheFloor!Say, TheFloor!StaysClosed
  <2>6. Spared(hub, hub')
    BY <1>5, <2>1, FaresAlike DEF Spared, Boxed
  <2>7. QED
    BY <1>4, <2>1, <2>5, <2>6
<1>8. CASE Verdict(h, n, s, screen) # "pass"
  <2> DEFINE told == Refuse(h, c, n)
             f    == HandleSay(h, c, n, s, screen)
  <2>1. Tends(told, f, n) /\ Stable(told, f)
    BY <1>3, <1>4, <1>8, SayTends
  <2>2. Level(h, told, {n})
    BY <1>4, RefuseLevel
  <2>3. Keeps(h, told)
    BY <1>4, RefuseKeeps DEF Inv
  <2>4. Typed(f)
    BY <1>3, <1>4, HandleSayInv DEF Inv
  <2> HIDE DEF told, f
  <2>5. Tends(h, f, n)
    <3>1. Typed(h) /\ Typed(told)
      BY <1>4, <2>3 DEF Inv, Keeps
    <3>2. f.reg[n].kind = told.reg[n].kind
      BY <1>4, <2>1 DEF Stable
    <3>3. QED
      BY <1>4, <2>1, <2>2, <2>4, <3>1, <3>2, LevelThenTends
  <2>6. f.reg[n].where = h.reg[n].where
    BY <1>4, <2>1, <2>3 DEF Stable, Keeps, Follows
  <2>7. Turns(h, f, n)
    BY <2>5, <2>6 DEF Tends, Turns
  <2>8. Turns(hub, hub', n)
    BY <1>1, <1>2, <2>4, <2>7, FrameTurns DEF h, n, f
  <2>9. QED
    BY <1>4, <1>6, <2>8, TurnTaken
<1>9. QED
  BY <1>7, <1>8

-----------------------------------------------------------------------------
(* A note of the hub's own.                                                *)

\* A note for every agent: those that wait are handed all there is, the others
\* find it in their queues.
Noted(h, g, rank) ==
  /\ Placed(h, g, {q \in Agents(h) : Ready(h, q)})
  /\ g.counter = h.counter + Cardinality(Agents(h)) /\ (h.frozen => g.frozen)
  /\ \A q \in Agents(h) : IF Ready(h, q) THEN Woke(h, g, q)
                          ELSE Reached(h, g, q, h.counter + rank[q])
  /\ \A q \in Name \ Agents(h) : SameBox(h.reg[q], g.reg[q])

LEMMA NotedLater ==
  ASSUME NEW h, NEW g, NEW i, NEW rank, Noted(h, g, rank), Level(g, i, {}),
         Adds(g, i), Typed(g)
  PROVE  Noted(h, i, rank)
<1> DEFINE W == {q \in Agents(h) : Ready(h, q)}
<1>1. Agents(h) \subseteq Name
  BY DEF Agents, Live
<1>2. \A q \in Name : /\ SameBox(g.reg[q], i.reg[q]) /\ i.reg[q].where = g.reg[q].where
                      /\ i.reg[q].kind = g.reg[q].kind /\ i.reg[q].state = g.reg[q].state
  BY DEF Level, Placed, Boxed
<1>3. Placed(h, i, W)
  BY PlacedWider, PlacedTransitive DEF Noted, Level
<1>4. i.counter = h.counter + Cardinality(Agents(h)) /\ (h.frozen => i.frozen)
  BY DEF Noted, Level, Onward
<1>5. ASSUME NEW q \in Agents(h)
      PROVE  IF Ready(h, q) THEN Woke(h, i, q) ELSE Reached(h, i, q, h.counter + rank[q])
  <2>1. CASE Ready(h, q)
    <3>1. Woke(h, g, q) /\ q \in Name
      BY <1>1, <2>1 DEF Noted
    <3>2. Emptied(i.reg[q])
      BY <1>2, <3>1 DEF Woke, Emptied, SameBox
    <3>3. Handing(i, q, Overheard(h.reg[q]))
      BY <3>1, HandingLater DEF Woke, Typed, HubState
    <3>4. QED
      BY <1>2, <2>1, <3>1, <3>2, <3>3 DEF Woke, IsAgent
  <2>2. CASE ~Ready(h, q)
    <3>1. Reached(h, g, q, h.counter + rank[q]) /\ q \in Name
      BY <1>1, <2>2 DEF Noted
    <3>2. QED
      BY <1>2, <2>2, <3>1, ReachedLater
  <2>3. QED
    BY <2>1, <2>2
<1>6. \A q \in Name \ Agents(h) : SameBox(h.reg[q], i.reg[q])
  BY <1>2 DEF Noted, SameBox
<1>7. QED
  BY <1>3, <1>4, <1>5, <1>6 DEF Noted

LEMMA NotedSeats ==
  ASSUME NEW h, Inv(h), Mail(h), Evened(h), NEW rank \in Ranks(Agents(h)),
         NEW g, Inv(g), Noted(h, g, rank), NEW q \in Name
  PROVE  /\ \/ SeatOf(g, q) = SeatOf(h, q)
            \/ \E id \in h.counter + 1 .. g.counter :
                 TheFloor!Hears(SeatOf(h, q), SeatOf(g, q), id)
         /\ Even(g.reg[q]) /\ Fares(h.reg[q], g, q)
<1> DEFINE W  == {p \in Agents(h) : Ready(h, p)}
           id == h.counter + rank[q]
<1>1. /\ Typed(h) /\ Typed(g) /\ h.counter \in Nat /\ Placed(h, g, W)
      /\ Cardinality(Agents(h)) \in Nat
      /\ g.counter = h.counter + Cardinality(Agents(h))
  BY AgentsFinite DEF Inv, Typed, HubState, Noted
<1>2. q \in Agents(h) => /\ id \in Nat /\ h.counter < id
                         /\ id \in h.counter + 1 .. g.counter
  <2>1. q \in Agents(h) => rank[q] \in 1 .. Cardinality(Agents(h))
    BY DEF Ranks
  <2>2. QED
    BY <1>1, <2>1
<1> HIDE DEF id
<1>3. CASE q \in Agents(h) /\ Ready(h, q)
  <2>1. Woke(h, g, q)
    BY <1>3 DEF Noted
  <2>2. QED
    BY <1>1, <1>2, <1>3, <2>1, WokeHears, WokeFares, ReachedEven DEF Evened, Woke, IsAgent
<1>4. CASE q \in Agents(h) /\ ~Ready(h, q)
  <2>1. Reached(h, g, q, id) /\ q \in Name \ W
    BY <1>4 DEF Noted, id
  <2> HIDE DEF W
  <2>2. g.reg[q].where = h.reg[q].where
    BY <1>1, <2>1 DEF Placed
  <2>3. TheFloor!Hears(SeatOf(h, q), SeatOf(g, q), id)
    BY <1>1, <1>2, <1>4, <2>1, ReachedHears
  <2>4. Even(g.reg[q])
    BY <1>1, <2>1, <2>2, ReachedEven DEF Evened
  <2>5. Fares(h.reg[q], g, q)
    BY <1>1, <1>2, <1>4, <2>1, ReachedFares
  <2>6. QED
    BY <1>2, <1>4, <2>3, <2>4, <2>5
<1>5. CASE q \notin Agents(h)
  <2>1. SameBox(h.reg[q], g.reg[q]) /\ q \in Name \ W
    BY <1>5 DEF Noted
  <2> HIDE DEF W
  <2>2. SeatOf(g, q) = SeatOf(h, q)
    BY <1>1, <2>1, BesideSeat
  <2>3. g.reg[q].where = h.reg[q].where
    BY <1>1, <2>1 DEF Placed
  <2>4. Fares(h.reg[q], g, q)
    BY <1>1, <2>1, SameFares DEF Typed, HubState
  <2>5. QED
    BY <2>1, <2>2, <2>3, <2>4 DEF SameBox, Even, Evened, Emptied
<1>6. QED
  BY <1>3, <1>4, <1>5

LEMMA SystemMessageNoted ==
  ASSUME NEW h, Inv(h), Upheld(h), Evened(h), NEW rank \in Ranks(Agents(h))
  PROVE  Noted(h, SystemMessage(h, rank), rank)
<1> DEFINE note(n)  == [id |-> h.counter + rank[n], from |-> System, to |-> n,
                        adr |-> "direct", private |-> FALSE, count |-> 0]
           woken    == {n \in Agents(h) : h.reg[n].state = "idle" /\ Reachable(h, n)}
           upto(n)  == Prefix(h.reg[n].context, note(n).id)
           reg      == [n \in Name |->
                          IF n \in woken THEN Drained(h.reg[n], upto(n))
                          ELSE IF n \in Agents(h) THEN Enqueue(h.reg[n], note(n))
                          ELSE h.reg[n]]
           batch    == [n \in woken |-> Omitted(h.reg[n])
                          \cup Items(h.reg[n].context, upto(n)) \cup {note(n)}]
           k        == h.counter + Cardinality(Agents(h))
           w        == WithReg(h, reg)
           noted    == WithCounter(w, k)
           g        == Deliver(noted, batch)
           id(n)    == h.counter + rank[n]
<1>1. Typed(h) /\ Linked(h) /\ Owned(h) /\ Mail(h) /\ h.counter \in Nat
  BY DEF Inv, Upheld, Typed, HubState, Linked
<1>2. SystemMessage(h, rank) = g
  BY <1>1 DEF SystemMessage, WithReg, WithCounter, Typed, HubState
<1>3. \A n \in Agents(h) : Ready(h, n) =>
         Handing(SystemMessage(h, rank), n,
                 Omitted(h.reg[n])
                   \cup Items(h.reg[n].context, Prefix(h.reg[n].context, h.counter + rank[n])))
  BY <1>1, SystemMessageAdds DEF Typed, HubState
<1>4. k \in Nat
  BY <1>1, AgentsFinite
<1>5. \A n \in Agents(h) : /\ n \in Name /\ note(n) \in Msg /\ note(n).id = id(n)
                           /\ id(n) \in Nat /\ h.counter <= id(n)
  <2> TAKE n \in Agents(h)
  <2>1. n \in Name
    BY DEF Agents, Live
  <2>2. rank[n] \in 1 .. Cardinality(Agents(h)) /\ Cardinality(Agents(h)) \in Nat
    BY AgentsFinite DEF Ranks
  <2>3. id(n) \in Nat /\ h.counter <= id(n)
    BY <1>1, <2>2
  <2>4. QED
    BY <2>1, <2>3 DEF Msg
<1>6. \A n \in Name : /\ h.reg[n] \in Reg /\ BoundedReg(h.reg[n])
                      /\ h.reg[n].context \in Seq(Msg)
  BY <1>1 DEF Typed, HubState, Reg
<1>7. \A n \in Agents(h) : upto(n) = Prefix(h.reg[n].context, id(n))
  OBVIOUS
<1> HIDE DEF note, k
<1>8. \A n \in Name : upto(n) \in 0 .. Len(h.reg[n].context)
  BY <1>6, PrefixBounded
<1>9. /\ woken \subseteq Agents(h) /\ Agents(h) \subseteq Live(h) /\ Live(h) \subseteq Name
      /\ \A n \in Agents(h) : n \in woken <=> Ready(h, n)
      /\ woken = {n \in Agents(h) : Ready(h, n)}
      /\ \A n \in woken : h.reg[n].client \in Conn
  BY DEF Ready, Reachable, Agents, Live
<1> HIDE DEF woken
<1>10. \A n \in Name : /\ (n \in woken => reg[n] = Drained(h.reg[n], upto(n)))
                      /\ (n \in Agents(h) \ woken => reg[n] = Enqueue(h.reg[n], note(n)))
                      /\ (n \notin Agents(h) => reg[n] = h.reg[n])
  BY <1>9
<1>11. DOMAIN batch = woken /\ \A n \in woken : batch[n] \in SUBSET Msg
  <2>1. ASSUME NEW n \in woken
        PROVE  batch[n] \in SUBSET Msg
    <3>1. n \in Name /\ note(n) \in Msg /\ h.reg[n] \in Reg
      BY <1>5, <1>6, <1>9
    <3>2. Omitted(h.reg[n]) \in SUBSET Msg
      BY <3>1, NoticeType
    <3>3. Items(h.reg[n].context, upto(n)) \in SUBSET Msg
      BY <1>6, <1>8, <3>1, ItemsType
    <3>4. QED
      BY <3>1, <3>2, <3>3
  <2>2. QED
    BY <2>1
<1> HIDE DEF upto, id
<1>12. \A n \in woken : /\ Emptied(reg[n])
                        /\ Prefix(h.reg[n].context, id(n)) = Len(h.reg[n].context)
  <2> TAKE n \in woken
  <2>1. n \in Agents(h) /\ n \in Name /\ Ready(h, n) /\ Even(h.reg[n])
    BY <1>9 DEF Evened
  <2>2. /\ Emptied(Drained(h.reg[n], Prefix(h.reg[n].context, id(n))))
        /\ Prefix(h.reg[n].context, id(n)) = Len(h.reg[n].context)
    BY <1>1, <1>5, <2>1, WholeEmptied
  <2>3. QED
    BY <1>7, <1>10, <2>1, <2>2
<1>13. \A n \in Name : Reboxed(h.reg[n], reg[n])
  <2> TAKE n \in Name
  <2>1. CASE n \in woken
    BY <1>6, <1>8, <1>10, <2>1, DrainedType
  <2>2. CASE n \in Agents(h) \ woken
    BY <1>5, <1>6, <1>10, <2>2, EnqueueType
  <2>3. CASE n \notin Agents(h)
    BY <1>6, <1>10, <2>3 DEF Reboxed, SameSeat
  <2>4. QED
    BY <2>1, <2>2, <2>3
<1>14. reg \in [Name -> Reg] /\ \A n \in Name : BoundedReg(reg[n]) /\ SameSeat(h.reg[n], reg[n])
  BY <1>13 DEF Reboxed
<1> HIDE DEF reg, batch
<1>15. /\ Typed(w) /\ Stable(h, w) /\ w.reg = reg /\ w.conn = h.conn
       /\ w.frozen = h.frozen
  BY <1>1, <1>14, WithRegType, WithRegStable DEF SameFloor
<1> HIDE DEF w
<1>16. /\ Typed(noted) /\ noted.reg = reg /\ Stable(w, noted) /\ noted.conn = h.conn
       /\ noted.frozen = h.frozen /\ noted.counter = k
  BY <1>4, <1>15, WithCounterKeeps, KeptFields, FrozenKept DEF Keeps, Follows
<1> HIDE DEF noted
<1>17. /\ Stable(h, noted) /\ Agents(noted) = Agents(h) /\ Live(noted) = Live(h)
       /\ Owned(noted) /\ Placed(h, noted, woken)
  BY <1>1, <1>13, <1>15, <1>16, StableTransitive, StableAlike, StableOwned, ReboxedPlaced
<1>18. /\ DOMAIN batch \subseteq Live(noted)
       /\ \A n \in DOMAIN batch : noted.reg[n].client \in Conn /\ batch[n] \in SUBSET Msg
       /\ \A n \in DOMAIN batch : n \in woken \/ n \notin Agents(noted)
  BY <1>9, <1>11, <1>17 DEF Stable
<1>19. /\ Typed(g) /\ Stable(noted, g) /\ Level(noted, g, woken)
       /\ \A n \in DOMAIN batch : n \in Agents(noted) => g.reg[n].state = "busy"
  BY <1>16, <1>17, <1>18, DeliverType, DeliverLevel
<1> HIDE DEF g
<1>20. /\ Placed(h, g, woken) /\ g.counter = k /\ (h.frozen => g.frozen)
       /\ Boxed(noted, g, {}) /\ Stable(h, g)
  BY <1>16, <1>17, <1>19, PlacedTransitive, StableTransitive DEF Level, Onward
<1>21. ASSUME NEW n \in woken
       PROVE  Woke(h, g, n)
  <2>1. n \in Name /\ n \in Agents(h) /\ Ready(h, n)
    BY <1>9
  <2>2. Emptied(g.reg[n])
    BY <1>12, <1>16, <1>20, <2>1, EmptiedLater
  <2>3. g.reg[n].state = "busy"
    BY <1>11, <1>17, <1>19, <2>1
  <2>4. IsAgent(h, n)
    BY <1>1, <2>1 DEF IsAgent, Agents, Live, IsObserver, Typed, HubState, Reg, Kinds
  <2>5. IsAgent(g, n)
    BY <1>20, <2>1, <2>4 DEF IsAgent, Stable
  <2>6. Handing(g, n, Overheard(h.reg[n]))
    BY <1>2, <1>12, <1>3, <2>1 DEF id, Overheard
  <2>7. QED
    BY <2>1, <2>2, <2>3, <2>5, <2>6 DEF Woke
<1>22. ASSUME NEW n \in Agents(h), ~Ready(h, n)
       PROVE  Reached(h, g, n, id(n))
  <2>1. n \in Name /\ n \in Agents(h) \ woken /\ note(n) \in Msg /\ note(n).id = id(n)
    BY <1>5, <1>9, <1>22
  <2>2. SameBox(Enqueue(h.reg[n], note(n)), g.reg[n])
    BY <1>10, <1>16, <1>20, <2>1 DEF Boxed
  <2>3. QED
    BY <1>22, <2>1, <2>2 DEF Reached
<1>23. \A n \in Name \ Agents(h) : SameBox(h.reg[n], g.reg[n])
  BY <1>10, <1>16, <1>20 DEF Boxed
<1>24. Noted(h, g, rank)
  BY <1>9, <1>20, <1>21, <1>22, <1>23 DEF Noted, id, k
<1>25. QED
  BY <1>2, <1>24 DEF g

-----------------------------------------------------------------------------
(* A command.                                                              *)

LEMMA SeatsKept ==
  ASSUME NEW h, Typed(h), NEW g, Typed(g), Placed(h, g, {}), Boxed(h, g, {})
  PROVE  /\ \A q \in Name : SeatOf(g, q) = SeatOf(h, q)
         /\ Evened(h) => Evened(g)
<1>1. \A q \in Name \ {} : SameBox(h.reg[q], g.reg[q]) /\ g.reg[q].where = h.reg[q].where
  BY DEF Boxed, Placed
<1>2. \A q \in Name : SeatOf(g, q) = SeatOf(h, q)
  BY <1>1, BesideSeat
<1>3. Evened(h) => Evened(g)
  BY <1>1 DEF Evened, Even, SameBox, Emptied
<1>4. QED
  BY <1>2, <1>3

\* What follows a command is its answer.
LEMMA CmdAnswered ==
  ASSUME NEW h, Inv(h), NEW c \in Conn, NEW n \in Live(h), IsObserver(h, n),
         NEW x \in [cmd : CmdNames, n : Nat], NEW rank \in Ranks(Agents(h))
  PROVE  LET r == RunCmd(h, x, rank)
             g == Handled(HandleCmd(h, c, n, x, rank), c)
         IN  Level(r, g, {}) /\ g.frozen = r.frozen /\ Keeps(h, r) /\ Adds(r, g)
<1> DEFINE r == RunCmd(h, x, rank)
           d == h.reg[n].client
           a == Reply(r, d, c, "ok")
           g == Handled(a, c)
<1>1. HandleCmd(h, c, n, x, rank) = a
  BY DEF HandleCmd
<1>2. Keeps(h, r)
  BY RunCmdKeeps
<1>3. Adds(r, a)
  BY ReplyAdds
<1> HIDE DEF r
<1>4. Inv(r) /\ Owned(r) /\ Typed(r) /\ Stable(h, r) /\ n \in Live(r) /\ n \in Name
  BY <1>2, KeepsInv DEF Inv, Linked, Live
<1>5. n \notin Agents(r) /\ r.reg[n].client = d
  BY <1>4 DEF Stable, Agents, IsObserver
<1>6. d \in Conn /\ d \in Own(r, {})
  BY <1>4, <1>5, OwnConnections DEF Owned
<1>7. Level(r, a, {}) /\ Typed(a) /\ a.frozen = r.frozen
  BY <1>4, <1>6, ReplyLevel, ReplyType DEF SameFloor
<1> HIDE DEF a, d
<1>8. Level(a, g, {}) /\ g.frozen = a.frozen
  BY <1>7, HandledLevel DEF Handled, Typed, HubState
<1>9. Level(r, g, {})
  BY <1>7, <1>8, LevelTransitive
<1>10. Adds(r, g)
  BY <1>3, HandledAdds, AddsTransitive
<1>11. QED
  BY <1>1, <1>2, <1>7, <1>8, <1>9, <1>10 DEF r

\* The floor is set to something, and the observers hear of it.
LEMMA FloorSet ==
  ASSUME NEW h, Inv(h), Upheld(h), Evened(h),
         NEW round \in Nat, NEW frozen \in BOOLEAN, NEW muted \in BOOLEAN,
         NEW limit \in Nat \ {0}, LimitFrozen(h) /\ round >= limit => frozen,
         NEW event \in Events
  PROVE  LET e == Emit(WithFloor(h, round, frozen, muted, limit), event, NoName)
         IN  /\ Inv(e) /\ Upheld(e) /\ Evened(e) /\ Agents(e) = Agents(h)
             /\ Placed(h, e, {}) /\ Boxed(h, e, {})
             /\ e.counter = h.counter /\ e.frozen = frozen
             /\ \A q \in Name : SeatOf(e, q) = SeatOf(h, q)
<1> DEFINE g == WithFloor(h, round, frozen, muted, limit)
           e == Emit(g, event, NoName)
<1>0. Typed(h) /\ Owned(h) /\ NoName \in Name \cup {NoName}
  BY DEF Inv, Linked
<1>1. /\ g.reg = h.reg /\ g.conn = h.conn /\ g.counter = h.counter /\ g.frozen = frozen
  BY <1>0 DEF WithFloor, Typed, HubState
<1>2. Keeps(h, g) /\ Quiet(h, g)
  BY <1>0, WithFloorKeeps, WithFloorQuiet
<1> HIDE DEF g
<1>3. Typed(g) /\ Owned(g)
  BY <1>0, <1>2, StableOwned DEF Keeps, Follows
<1>4. Keeps(g, e) /\ Quiet(g, e)
  BY <1>0, <1>3, EmitKeeps, EmitQuiet
<1>5. Level(g, e, {}) /\ SameFloor(g, e)
  BY <1>0, <1>3, EmitLevel, EmitType DEF Emit
<1> HIDE DEF e
<1>6. Inv(e) /\ Upheld(e) /\ Agents(e) = Agents(h)
  BY <1>2, <1>4, KeepsInv, QuietUpheld
<1>7. Placed(h, e, {}) /\ Boxed(h, e, {}) /\ e.counter = h.counter /\ e.frozen = frozen
  <2>1. Placed(h, g, {}) /\ Boxed(h, g, {})
    BY <1>1 DEF Placed, Boxed, SameBox
  <2>2. e.counter = h.counter /\ e.frozen = frozen
    BY <1>1, <1>5 DEF Level, Onward, SameFloor
  <2>3. QED
    BY <1>5, <2>1, <2>2, PlacedTransitive, BoxedTransitive DEF Level
<1>8. Typed(e)
  BY <1>6 DEF Inv
<1>9. Evened(e) /\ \A q \in Name : SeatOf(e, q) = SeatOf(h, q)
  BY <1>0, <1>7, <1>8, SeatsKept
<1>10. QED
  BY <1>6, <1>7, <1>9 DEF e, g

\* The goal is overheard by every agent, as a line without a number.
LEMMA GoalSeats ==
  ASSUME NEW h, Inv(h), Upheld(h), Evened(h),
         NEW g, Level(BufferGoal(h), g, {}), Typed(g)
  PROVE  /\ g.counter = h.counter /\ (h.frozen => g.frozen)
         /\ \A q \in Name : \/ SeatOf(g, q) = SeatOf(h, q)
                            \/ TheFloor!Keeps(SeatOf(h, q), SeatOf(g, q), {})
         /\ Evened(g)
         /\ \A q \in Name : Fares(h.reg[q], g, q)
<1> DEFINE m   == Line("overheard", 0)
           reg == [n \in Name |-> IF n \in Agents(h) THEN Overhear(h.reg[n], m)
                                  ELSE h.reg[n]]
           b   == WithReg(h, reg)
<1>1. Typed(h) /\ Mail(h) /\ m \in Msg /\ m.id = 0
  BY LineType DEF Inv, Upheld, Line
<1> HIDE DEF m
<1>2. BufferGoal(h) = b
  BY <1>1 DEF BufferGoal, WithReg, m
<1>3. \A n \in Name : h.reg[n] \in Reg /\ BoundedReg(h.reg[n])
  BY <1>1 DEF Typed, HubState
<1>4. \A n \in Name : Reboxed(h.reg[n], reg[n])
  <2> TAKE n \in Name
  <2>1. CASE n \in Agents(h)
    BY <1>1, <1>3, <2>1, OverhearType
  <2>2. CASE n \notin Agents(h)
    BY <1>3, <2>2 DEF Reboxed, SameSeat
  <2>3. QED
    BY <2>1, <2>2
<1>5. \A n \in Name : /\ n \in Agents(h) => reg[n] = Overhear(h.reg[n], m)
                      /\ n \notin Agents(h) => reg[n] = h.reg[n]
  OBVIOUS
<1>6. reg \in [Name -> Reg] /\ \A n \in Name : BoundedReg(reg[n])
  BY <1>4 DEF Reboxed
<1> HIDE DEF reg
<1>7. b.reg = reg /\ b.conn = h.conn /\ b.counter = h.counter /\ b.frozen = h.frozen
  BY <1>1, <1>6, WithRegType DEF SameFloor
<1> HIDE DEF b
<1>8. /\ Placed(h, g, {}) /\ g.counter = h.counter /\ (h.frozen => g.frozen)
      /\ \A n \in Name : SameBox(reg[n], g.reg[n])
  BY <1>2, <1>4, <1>7, ReboxedPlaced, PlacedTransitive DEF Level, Onward, Boxed
<1>9. \A q \in Name : g.reg[q].where = h.reg[q].where
  BY <1>8 DEF Placed
<1>10. ASSUME NEW q \in Name
      PROVE  /\ \/ SeatOf(g, q) = SeatOf(h, q)
                \/ TheFloor!Keeps(SeatOf(h, q), SeatOf(g, q), {})
             /\ Even(g.reg[q]) /\ Fares(h.reg[q], g, q)
  <2>1. CASE q \in Agents(h)
    <3>1. q \in Name \ {} /\ SameBox(Overhear(h.reg[q], m), g.reg[q])
      BY <1>5, <1>8, <2>1
    <3>2. TheFloor!Keeps(SeatOf(h, q), SeatOf(g, q), {m.id} \ {0})
      BY <1>1, <1>8, <2>1, <3>1, OverheardKeeps
    <3>3. {m.id} \ {0} = {}
      BY <1>1
    <3>4. Reached(h, g, q, m.id)
      BY <1>1, <2>1, <3>1 DEF Reached
    <3>5. Even(g.reg[q])
      BY <1>1, <1>9, <3>4, ReachedEven DEF Evened
    <3>6. Fares(h.reg[q], g, q)
      BY <1>1, <3>4, ReachedFares
    <3>7. QED
      BY <3>2, <3>3, <3>5, <3>6
  <2>2. CASE q \notin Agents(h)
    <3>1. q \in Name \ {} /\ SameBox(h.reg[q], g.reg[q])
      BY <1>5, <1>8, <2>2
    <3>2. SeatOf(g, q) = SeatOf(h, q)
      BY <1>1, <1>8, <3>1, BesideSeat
    <3>3. Fares(h.reg[q], g, q)
      BY <1>3, <3>1, SameFares
    <3>4. QED
      BY <1>9, <3>1, <3>2, <3>3 DEF SameBox, Even, Evened, Emptied
  <2>3. QED
    BY <2>1, <2>2
<1>11. QED
  BY <1>8, <1>10 DEF Evened

\* The agents that are there have seats.
LEMMA SeatsCounted ==
  ASSUME Inv(hub), Mail(hub)
  PROVE  /\ Cardinality(Agents(hub)) \in Nat
         /\ TheFloor!Cardinality({n \in Name : SeatOf(hub, n).mode # "empty"}) \in Nat
         /\ Cardinality(Agents(hub)) <=
              TheFloor!Cardinality({n \in Name : SeatOf(hub, n).mode # "empty"})
<1> DEFINE there == {n \in Name : SeatOf(hub, n).mode # "empty"}
<1>1. \A n \in Agents(hub) : n \in Name /\ IsAgent(hub, n)
  BY DEF Inv, IsAgent, Agents, Live, IsObserver, Typed, HubState, Reg, Kinds
<1>2. Agents(hub) \subseteq there
  BY <1>1, SeatRests
<1>3. IsFiniteSet(there)
  BY IdentityAssumption, FS_Subset
<1> HIDE DEF there
<1>4. /\ Cardinality(Agents(hub)) \in Nat /\ Cardinality(there) \in Nat
      /\ Cardinality(Agents(hub)) <= Cardinality(there)
  BY <1>2, <1>3, FS_Subset, FS_CardinalityType
<1>5. QED
  BY <1>4, CountsAlike DEF there

LEMMA AnnounceIs ==
  ASSUME Inv(hub), Mail(hub), hub.frozen => hub'.frozen,
         hub'.counter = hub.counter + Cardinality(Agents(hub)),
         \A q \in Name : \/ SeatOf(hub', q) = SeatOf(hub, q)
                         \/ \E id \in hub.counter + 1 .. hub'.counter :
                              TheFloor!Hears(SeatOf(hub, q), SeatOf(hub', q), id)
  PROVE  TheFloor!Announce
<1> DEFINE count == TheFloor!Cardinality({n \in Name : SeatOf(hub, n).mode # "empty"})
<1>1. hub.counter \in Nat
  BY DEF Inv, Typed, HubState
<1>2. hub'.counter \in hub.counter .. hub.counter + count
  BY <1>1, SeatsCounted
<1> HIDE DEF count
<1>3. \A q \in Name :
        \E id \in hub.counter + 1 .. hub'.counter \cup {0} :
           IF id = 0 THEN SeatOf(hub', q) = SeatOf(hub, q)
           ELSE TheFloor!Hears(SeatOf(hub, q), SeatOf(hub', q), id)
  <2> TAKE q \in Name
  <2>1. CASE SeatOf(hub', q) = SeatOf(hub, q)
    BY <2>1
  <2>2. CASE \E id \in hub.counter + 1 .. hub'.counter :
               TheFloor!Hears(SeatOf(hub, q), SeatOf(hub', q), id)
    <3>1. PICK id \in hub.counter + 1 .. hub'.counter :
            TheFloor!Hears(SeatOf(hub, q), SeatOf(hub', q), id)
      BY <2>2
    <3>2. id # 0
      BY <1>1, <3>1
    <3>3. QED
      BY <3>1, <3>2
  <2>3. QED
    BY <2>1, <2>2
<1>4. {n \in Name : [q \in Name |-> SeatOf(hub, q)][n].mode # "empty"}
        = {n \in Name : SeatOf(hub, n).mode # "empty"}
  OBVIOUS
<1>5. QED
  BY <1>2, <1>3, <1>4 DEF TheFloor!Announce, TheFloor!StaysClosed, count

\* An agent has no command; a freeze moves nobody.
LEMMA CmdOnFloor ==
  ASSUME Inv(hub), Upheld(hub), Evened(hub), Inv(hub'), Upheld(hub'),
         NEW c \in Conn, ReadCmd(c)
  PROVE  /\ \/ \E n \in Name : TheFloor!TakeTurn(n)
            \/ TheFloor!Announce \/ TheFloor!Remark \/ TheFloor!Open
         /\ Evened(hub') /\ Spared(hub, hub')
<1> DEFINE h == Heard(c)
           n == Sender(c)
<1>1. Known(c)
  BY DEF ReadCmd
<1>2. PICK x \in Cmds, rank \in Ranks(Agents(hub)) :
        hub' = Handled(HandleCmd(h, c, n, x, rank), c)
  BY DEF ReadCmd
<1>3. x \in [cmd : CmdNames, n : Nat]
  BY InputAssumption
<1>4. /\ n \in Name /\ Inv(h) /\ Upheld(h) /\ n \in Live(h) /\ Agents(h) = Agents(hub)
      /\ rank \in Ranks(Agents(h)) /\ Typed(h) /\ Linked(h) /\ Owned(h)
  BY <1>1, HeardInv, HeardUpheld DEF Inv, Linked
<1>5. /\ Placed(hub, h, {}) /\ Boxed(hub, h, {}) /\ Evened(h)
      /\ h.counter = hub.counter /\ h.frozen = hub.frozen
      /\ \A q \in Name : SeatOf(h, q) = SeatOf(hub, q)
  BY <1>1, HeardSeats
<1>6. Mail(hub) /\ Mail(hub') /\ Typed(hub) /\ Typed(hub')
  BY DEF Upheld, Inv
<1>7. /\ h.round \in Nat /\ h.limit \in Nat \ {0} /\ h.frozen \in BOOLEAN
      /\ h.muted \in BOOLEAN /\ NoName \in Name \cup {NoName}
  BY <1>4 DEF Typed, HubState
<1> HIDE DEF h, n
<1>8. CASE ~IsObserver(h, n)
  <2> DEFINE d == h.reg[n].client
             f == Reply(h, d, c, "err")
  <2>1. HandleCmd(h, c, n, x, rank) = f
    BY <1>8 DEF HandleCmd
  <2>2. d \in Conn /\ d \in Own(h, {n})
    BY <1>4, OwnConnections DEF Owned, Own
  <2>3. Level(h, f, {n}) /\ Typed(f) /\ f.reg = h.reg
    BY <1>4, <2>2, ReplyLevel, ReplyType
  <2> HIDE DEF f, d
  <2>4. Turns(h, f, n)
    BY <1>4, <2>3, LevelTurns
  <2>5. Turns(hub, hub', n)
    BY <1>1, <1>2, <2>1, <2>3, <2>4, FrameTurns DEF h, n
  <2>6. QED
    BY <1>4, <1>6, <2>5, TurnTaken
<1>9. CASE IsObserver(h, n)
  <2> DEFINE r == RunCmd(h, x, rank)
  <2>1. Level(r, hub', {}) /\ hub'.frozen = r.frozen /\ Keeps(h, r) /\ Adds(r, hub')
    BY <1>2, <1>3, <1>4, <1>9, CmdAnswered
  <2>2. Typed(r)
    BY <2>1 DEF Keeps
  <2>3. ASSUME NEW round \in Nat, NEW frozen \in BOOLEAN, NEW limit \in Nat \ {0},
               LimitFrozen(h) /\ round >= limit => frozen, NEW event \in Events,
               r = Emit(WithFloor(h, round, frozen, h.muted, limit), event, NoName)
        PROVE  /\ \A q \in Name : SeatOf(hub', q) = SeatOf(hub, q)
               /\ hub'.counter = hub.counter /\ hub'.frozen = frozen
               /\ Evened(hub') /\ Spared(hub, hub')
    <3> DEFINE e == Emit(WithFloor(h, round, frozen, h.muted, limit), event, NoName)
    <3>1. /\ Placed(h, e, {}) /\ Boxed(h, e, {}) /\ e.counter = h.counter
          /\ e.frozen = frozen /\ Evened(e)
          /\ \A q \in Name : SeatOf(e, q) = SeatOf(h, q)
      <4>1. LimitFrozen(h) /\ round >= limit => frozen
        BY <2>3
      <4> HIDE DEF r
      <4>2. h.muted \in BOOLEAN
        BY <1>7
      <4> QED
        BY <1>4, <1>5, <4>1, <4>2, FloorSet, SMTT(30)
    <3>2. r = e
      BY <2>3
    <3> HIDE DEF r, e
    <3>3. Level(e, hub', {}) /\ hub'.frozen = e.frozen /\ Typed(e)
      BY <2>1, <2>2, <3>2
    <3>4. Evened(hub') /\ \A q \in Name : SeatOf(hub', q) = SeatOf(e, q)
      BY <1>6, <3>1, <3>3, SeatsKept DEF Level
    <3>5. Spared(hub, hub')
      BY <1>5, <1>6, <3>1, <3>3, BoxedTransitive, BoxedSpared DEF Level
    <3>6. QED
      BY <1>5, <3>1, <3>3, <3>4, <3>5 DEF Level, Onward
  <2>4. CASE x.cmd = "freeze"
    <3>1. r = Emit(WithFloor(h, h.round, TRUE, h.muted, h.limit), "frozen", NoName)
      BY <1>4, <2>4 DEF RunCmd, WithFloor, Typed, HubState
    <3> HIDE DEF r
    <3>2. /\ \A q \in Name : SeatOf(hub', q) = SeatOf(hub, q)
          /\ hub'.counter = hub.counter /\ hub'.frozen = TRUE /\ Evened(hub')
          /\ Spared(hub, hub')
      BY <1>7, <2>3, <3>1 DEF Events
    <3>3. TheFloor!TakeTurn(n)
      BY <1>4, <3>2 DEF TheFloor!TakeTurn, TheFloor!Turn, TheFloor!StaysClosed
    <3>4. QED
      BY <1>4, <3>2, <3>3
  <2>5. CASE x.cmd \in {"resume", "reset"}
    <3>1. /\ \A q \in Name : SeatOf(hub', q) = SeatOf(hub, q)
          /\ hub'.counter = hub.counter /\ hub'.frozen = FALSE /\ Evened(hub')
          /\ Spared(hub, hub')
      <4>1. CASE x.cmd = "resume"
        <5> DEFINE limit == ResumedLimit(h, x.n)
        <5>1. r = Emit(WithFloor(h, h.round, FALSE, h.muted, limit), "resumed", NoName)
          BY <1>4, <4>1 DEF RunCmd, WithFloor, Typed, HubState
        <5>2. limit \in Nat \ {0} /\ h.round < limit
          BY <1>3, <1>4, ResumedAbove
        <5> HIDE DEF r, limit
        <5>3. ~(h.round >= limit)
          BY <1>7, <5>2
        <5>4. QED
          BY <1>7, <2>3, <5>1, <5>2, <5>3 DEF Events
      <4>2. CASE x.cmd = "reset"
        <5>1. r = Emit(WithFloor(h, 0, FALSE, h.muted, h.limit), "reset", NoName)
          BY <1>4, <4>2 DEF RunCmd, WithFloor, Typed, HubState
        <5> HIDE DEF r
        <5>2. ~(0 >= h.limit)
          BY <1>7
        <5>3. QED
          BY <1>7, <2>3, <5>1, <5>2 DEF Events
      <4>3. QED
        BY <2>5, <4>1, <4>2
    <3>2. [q \in Name |-> SeatOf(hub', q)] = [q \in Name |-> SeatOf(hub, q)]
      BY <3>1
    <3>3. TheFloor!Open
      BY <3>1, <3>2 DEF TheFloor!Open
    <3>4. QED
      BY <3>1, <3>3
  <2>6. ASSUME NEW round \in Nat, NEW frozen \in BOOLEAN, NEW limit \in Nat \ {0},
               LimitFrozen(h) /\ round >= limit => frozen, frozen = h.frozen,
               NEW muted \in BOOLEAN, NEW event \in Events,
               r = SystemMessage(Emit(WithFloor(h, round, frozen, muted, limit),
                                      event, NoName), rank)
        PROVE  TheFloor!Announce /\ Evened(hub') /\ Spared(hub, hub')
    <3> DEFINE e == Emit(WithFloor(h, round, frozen, muted, limit), event, NoName)
    <3>1. /\ Inv(e) /\ Upheld(e) /\ Evened(e) /\ Agents(e) = Agents(h)
          /\ e.counter = h.counter /\ e.frozen = frozen /\ Boxed(h, e, {})
          /\ \A q \in Name : SeatOf(e, q) = SeatOf(h, q)
      <4>1. LimitFrozen(h) /\ round >= limit => frozen
        BY <2>6
      <4> HIDE DEF r
      <4> QED
        BY <1>4, <1>5, <4>1, FloorSet, SMTT(30)
    <3>2. r = SystemMessage(e, rank)
      BY <2>6
    <3>3. frozen = h.frozen
      BY <2>6
    <3> HIDE DEF r, e
    <3>4. rank \in Ranks(Agents(e))
      BY <1>4, <3>1
    <3>5. Noted(e, hub', rank)
      BY <2>1, <2>2, <3>1, <3>2, <3>4, SystemMessageNoted, NotedLater
    <3>6. \A q \in Name :
            /\ \/ SeatOf(hub', q) = SeatOf(hub, q)
               \/ \E id \in hub.counter + 1 .. hub'.counter :
                    TheFloor!Hears(SeatOf(hub, q), SeatOf(hub', q), id)
            /\ Even(hub'.reg[q]) /\ Fares(e.reg[q], hub', q)
      BY <1>5, <3>1, <3>4, <3>5, NotedSeats DEF Upheld
    <3>7. hub'.counter = hub.counter + Cardinality(Agents(hub)) /\ (hub.frozen => hub'.frozen)
      BY <1>4, <1>5, <3>3, <3>1, <3>5 DEF Noted
    <3>8. TheFloor!Announce
      BY <1>6, <3>6, <3>7, AnnounceIs
    <3>9. Spared(hub, hub')
      BY <1>5, <3>1, <3>6, BoxedTransitive, FaresAlike DEF Spared, Boxed
    <3>10. QED
      BY <3>6, <3>8, <3>9 DEF Evened
  <2>7. CASE x.cmd \in {"mute", "unmute"}
    <3>1. /\ LimitFrozen(h) /\ h.round >= h.limit => h.frozen
          /\ "muted" \in Events /\ "unmuted" \in Events
      BY DEF LimitFrozen, Events
    <3>2. CASE x.cmd = "mute"
      <4>1. r = SystemMessage(Emit(WithFloor(h, h.round, h.frozen, TRUE, h.limit),
                                   "muted", NoName), rank)
        BY <1>4, <3>2 DEF RunCmd, WithFloor, Typed, HubState
      <4> HIDE DEF r
      <4>2. QED
        BY <1>7, <2>6, <3>1, <4>1
    <3>3. CASE x.cmd = "unmute"
      <4>1. r = SystemMessage(Emit(WithFloor(h, h.round, h.frozen, FALSE, h.limit),
                                   "unmuted", NoName), rank)
        BY <1>4, <3>3 DEF RunCmd, WithFloor, Typed, HubState
      <4> HIDE DEF r
      <4>2. QED
        BY <1>7, <2>6, <3>1, <4>1
    <3>4. QED
      BY <2>7, <3>2, <3>3
  <2>8. CASE x.cmd = "goal"
    <3> DEFINE e == Emit(h, "goal_set", NoName)
    <3>1. r = BufferGoal(e)
      BY <2>8 DEF RunCmd
    <3>2. Level(h, e, {}) /\ Inv(e) /\ Upheld(e)
      BY <1>4, <1>7, EmitLevel, EmitKeeps, EmitQuiet, KeepsInv, QuietUpheld DEF Events
    <3> HIDE DEF r, e
    <3>3. /\ Typed(e) /\ Evened(e) /\ e.counter = h.counter /\ (h.frozen => e.frozen)
          /\ \A q \in Name : SeatOf(e, q) = SeatOf(h, q)
      BY <1>4, <1>5, <3>2, SeatsKept DEF Inv, Level, Onward
    <3>4. Level(BufferGoal(e), hub', {})
      BY <2>1, <3>1
    <3>5. /\ hub'.counter = e.counter /\ (e.frozen => hub'.frozen)
          /\ \A q \in Name : \/ SeatOf(hub', q) = SeatOf(e, q)
                             \/ TheFloor!Keeps(SeatOf(e, q), SeatOf(hub', q), {})
          /\ Evened(hub') /\ \A q \in Name : Fares(e.reg[q], hub', q)
      BY <1>6, <3>2, <3>3, <3>4, GoalSeats
    <3>6. TheFloor!Remark
      BY <1>5, <3>3, <3>5 DEF TheFloor!Remark, TheFloor!StaysClosed
    <3>7. Spared(hub, hub')
      BY <1>5, <3>2, <3>5, BoxedTransitive, FaresAlike DEF Spared, Boxed, Level
    <3>8. QED
      BY <3>5, <3>6, <3>7
  <2>9. QED
    BY <1>3, <2>4, <2>5, <2>7, <2>8 DEF CmdNames
<1>10. QED
  BY <1>8, <1>9

-----------------------------------------------------------------------------
(* The steps of the hub.                                                   *)

\* A step that moves nobody but the one it is about, if it is about anybody.
LEMMA LevelOnFloor ==
  ASSUME Inv(hub), Mail(hub), Evened(hub), Inv(hub'), Mail(hub'),
         NEW m \in Name \cup {NoName}, Level(hub, hub', {m}),
         \A q \in Name : hub'.reg[q].where = "none" => hub.reg[q].where = "none"
  PROVE  /\ (\E n \in Name : TheFloor!TakeTurn(n)) \/ TheFloor!Remark
         /\ Evened(hub') /\ Spared(hub, hub')
<1>1. CASE m \in Name
  BY <1>1, LevelTurns, TurnTaken
<1>2. CASE m = NoName
  <2>1. Name \ {m} = Name
    BY <1>2, IdentityAssumption
  <2>2. Typed(hub) /\ Typed(hub')
    BY DEF Inv
  <2>3. \A q \in Name : SeatOf(hub', q) = SeatOf(hub, q)
    BY <2>1, <2>2, BesideSeat DEF Level, Boxed
  <2>4. hub'.counter = hub.counter /\ (hub.frozen => hub'.frozen)
    BY DEF Level, Onward
  <2>5. TheFloor!Remark
    BY <2>3, <2>4 DEF TheFloor!Remark, TheFloor!StaysClosed
  <2>6. Evened(hub')
    BY DEF Evened, Even, Level, Boxed, SameBox, Emptied
  <2>7. Spared(hub, hub')
    BY <2>2, BoxedSpared DEF Level
  <2>8. QED
    BY <2>5, <2>6, <2>7
<1>3. QED
  BY <1>1, <1>2

\* What happens to a connection is about nobody but the one it belongs to.
LEMMA ConnectionLevel ==
  ASSUME Inv(hub), NEW c \in Conn,
         \/ Connect(c) \/ ReadMalformed(c) \/ StopReading(c) \/ Reap(c)
         \/ WriteOne(c) \/ WriteFails(c)
  PROVE  /\ hub.conn[c].name \in Name \cup {NoName}
         /\ Level(hub, hub', {hub.conn[c].name})
         /\ \A q \in Name : hub'.reg[q].where = "none" => hub.reg[q].where = "none"
<1> DEFINE m == hub.conn[c].name
           w == Now
           told == Reply(w, c, c, "err")
           gone == Disconnect(w, c)
           Stays(h) == \A q \in Name : h.reg[q].where = "none" => hub.reg[q].where = "none"
<1>1. m \in Name \cup {NoName} /\ Typed(hub)
  BY DEF Inv, Typed, HubState, Link
<1>2. Inv(w) /\ Typed(w) /\ Owned(w) /\ w.conn = hub.conn /\ Level(hub, w, {m})
      /\ w.reg = hub.reg
  BY <1>1, NowInv, NowLevel DEF Inv, Linked
<1>3. c \in Own(w, {m}) /\ w.conn[c].name = m
  BY <1>2, OwnConnections
<1>4. Level(w, told, {m}) /\ Typed(told) /\ Stays(told)
  BY <1>2, <1>3, ReplyLevel, ReplyType
<1>5. Level(w, gone, {m}) /\ Typed(gone) /\ Stays(gone)
  <2>1. Inv(gone)
    BY <1>2, DisconnectInv
  <2>2. Level(w, gone, {w.conn[c].name}) /\ Stays(gone)
    BY <1>2, DisconnectLevel
  <2>3. QED
    BY <1>3, <2>1, <2>2 DEF Inv
<1>6. c \in Own(told, {m}) /\ c \in Own(gone, {m})
  BY <1>3, <1>4, <1>5, PlacedOwn DEF Level
<1>7. CASE ReadMalformed(c)
  <2>1. hub' = Handled(told, c)
    BY <1>7 DEF ReadMalformed
  <2> HIDE DEF told, w, m
  <2>2. Level(told, hub', {m})
    BY <1>4, <2>1, HandledLevel
  <2>3. Level(hub, hub', {m}) /\ Stays(hub')
    BY <1>2, <1>4, <2>1, <2>2, LevelTransitive, HandledLevel
  <2>4. QED
    BY <1>1, <2>3 DEF m
<1>8. ASSUME NEW h, NEW k, Typed(h), c \in Own(h, {m}), Level(w, h, {m}), Stays(h),
             hub' = [h EXCEPT !.conn[c] = k]
      PROVE  Level(hub, hub', {m}) /\ Stays(hub')
  <2> HIDE DEF w, m
  <2> DEFINE g == [h EXCEPT !.conn[c] = k]
  <2>1. Level(h, g, {m})
    BY <1>8, OneConnLevel
  <2>2. Stays(g)
    BY <1>8 DEF Typed, HubState
  <2> HIDE DEF g
  <2>3. Level(hub, g, {m})
    BY <1>2, <1>8, <2>1, LevelTransitive
  <2>4. QED
    BY <1>8, <2>2, <2>3 DEF g
<1>9. Level(w, w, {m}) /\ Stays(w)
  BY SameRegLevel, <1>2 DEF Onward
<1>10. CASE Connect(c)
  <2> DEFINE k == [FreeConn EXCEPT !.phase = "reading", !.connected = TRUE]
  <2>1. hub' = [w EXCEPT !.conn[c] = k]
    BY <1>10 DEF Connect
  <2> HIDE DEF k, w, m
  <2>2. Level(hub, hub', {m}) /\ Stays(hub')
    BY <1>2, <1>3, <1>8, <1>9, <2>1
  <2>3. QED
    BY <1>1, <2>2 DEF m
<1>11. CASE StopReading(c)
  <2>1. PICK h \in {w, told} : hub' = [h EXCEPT !.conn[c].phase = "ending"]
    BY <1>11 DEF StopReading
  <2> DEFINE k == [h.conn[c] EXCEPT !.phase = "ending"]
  <2>2. hub' = [h EXCEPT !.conn[c] = k]
    BY <2>1
  <2>3. Typed(h) /\ c \in Own(h, {m}) /\ Level(w, h, {m}) /\ Stays(h)
    BY <1>2, <1>3, <1>4, <1>6, <1>9
  <2> HIDE DEF k, w, m, told
  <2>4. Level(hub, hub', {m}) /\ Stays(hub')
    BY <1>8, <2>2, <2>3
  <2>5. QED
    BY <1>1, <2>4 DEF m
<1>12. CASE Reap(c)
  <2>1. hub' = [gone EXCEPT !.conn[c] = FreeConn]
    BY <1>12 DEF Reap
  <2> HIDE DEF w, m, gone
  <2>2. Level(hub, hub', {m}) /\ Stays(hub')
    BY <1>5, <1>6, <1>8, <2>1
  <2>3. QED
    BY <1>1, <2>2 DEF m
<1>13. CASE WriteOne(c)
  <2> DEFINE k == [w.conn[c] EXCEPT !.out = @ - 1]
  <2>1. hub' = [w EXCEPT !.conn[c] = k]
    BY <1>13 DEF WriteOne
  <2> HIDE DEF k, w, m
  <2>2. Level(hub, hub', {m}) /\ Stays(hub')
    BY <1>2, <1>3, <1>8, <1>9, <2>1
  <2>3. QED
    BY <1>1, <2>2 DEF m
<1>14. CASE WriteFails(c)
  <2> DEFINE k == Cut(w.conn[c])
  <2>1. hub' = [w EXCEPT !.conn[c] = k]
    BY <1>14 DEF WriteFails
  <2> HIDE DEF k, w, m
  <2>2. Level(hub, hub', {m}) /\ Stays(hub')
    BY <1>2, <1>3, <1>8, <1>9, <2>1
  <2>3. QED
    BY <1>1, <2>2 DEF m
<1>15. QED
  BY <1>7, <1>10, <1>11, <1>12, <1>13, <1>14

\* A frame of a participant that is no say and no command.
LEMMA ParticipantTurns ==
  ASSUME Inv(hub), NEW c \in Conn,
         ReadState(c) \/ ReadRoster(c) \/ ReadPong(c) \/ ReadBye(c)
  PROVE  \E n \in Name : Turns(hub, hub', n)
<1> DEFINE n == Sender(c)
           h == Heard(c)
<1>1. Known(c)
  BY DEF ReadState, ReadRoster, ReadPong, ReadBye
<1>2. n \in Name /\ n \in Live(h) /\ Inv(h) /\ Typed(h) /\ Owned(h) /\ Live(h) = Live(hub)
  <2>1. n \in Name /\ n \in Live(hub) /\ Inv(h) /\ Live(h) = Live(hub)
    BY <1>1, HeardInv
  <2> HIDE DEF h, n
  <2>2. QED
    BY <2>1 DEF Inv, Linked
<1>3. Stable(hub, h) /\ hub.conn[c].name = n
  <2>1. n = hub.conn[c].name
    BY DEF Sender
  <2>2. QED
    BY <1>1, <2>1, HeardLevel
<1>4. ASSUME NEW g, Typed(g), Turns(h, g, n), hub' = Handled(g, c)
      PROVE  Turns(hub, hub', n)
  BY <1>1, <1>4, FrameTurns
<1> HIDE DEF h, n
<1>5. CASE ReadState(c)
  <2>1. PICK state \in Reports : hub' = Handled(HandleState(h, n, state), c)
    BY <1>5 DEF ReadState, h, n
  <2> DEFINE g == HandleState(h, n, state)
  <2>2. state \in States
    BY InputAssumption
  <2>3. Tends(h, g, n) /\ Inv(g) /\ g.reg[n].where = h.reg[n].where
    BY <1>2, <2>2, HandleStateTends, HandleStateInv
  <2> HIDE DEF g
  <2>4. Turns(h, g, n) /\ Typed(g)
    BY <2>3 DEF Turns, Tends, Inv
  <2>5. QED
    BY <1>2, <1>4, <2>1, <2>4 DEF g
<1>6. CASE ReadRoster(c)
  <2> DEFINE k == hub.reg[n].client
             frames == {[sink |-> k, t |-> "roster"]}
             g == Push(h, frames, {})
  <2>1. hub' = Handled(g, c)
    BY <1>6 DEF ReadRoster, h, n
  <2>2. k \in Conn /\ k \in Own(h, {n})
    <3>1. Owned(hub)
      BY DEF Inv, Linked
    <3>2. k \in Conn /\ hub.conn[k].name = n
      BY <1>2, <3>1 DEF Owned
    <3>3. h.conn[k].name = n
      BY <1>3, <3>2 DEF Stable
    <3>4. QED
      BY <1>2, <3>2, <3>3, OwnConnections
  <2>3. /\ frames \in SUBSET Frame /\ {} \in SUBSET Frame
        /\ \A f \in frames : f.sink = k
    BY <2>2 DEF Frame, Signal
  <2> HIDE DEF frames
  <2>4. Level(h, g, {n}) /\ Typed(g) /\ g.reg = h.reg
    BY <1>2, <2>2, <2>3, PushLevel, PushType
  <2> HIDE DEF g
  <2>5. QED
    BY <1>2, <1>4, <2>1, <2>4, LevelTurns
<1>7. CASE ReadPong(c)
  <2>1. hub' = Handled(h, c)
    BY <1>7 DEF ReadPong, h
  <2>2. Level(h, h, {n})
    BY SameRegLevel, <1>2 DEF Onward
  <2>3. QED
    BY <1>2, <1>4, <2>1, <2>2, LevelTurns
<1>8. CASE ReadBye(c)
  <2> DEFINE g == Disconnect(h, c)
  <2>1. hub' = Handled(g, c)
    BY <1>8 DEF ReadBye, h
  <2>2. h.conn[c].name = n
    BY <1>3 DEF Stable
  <2>3. /\ Level(h, g, {h.conn[c].name})
        /\ g.reg[n].where = "none" => h.reg[n].where = "none"
    BY <1>2, DisconnectLevel
  <2>4. Inv(g)
    BY <1>2, DisconnectInv
  <2> HIDE DEF g
  <2>5. QED
    BY <1>2, <1>4, <2>1, <2>2, <2>3, <2>4, LevelTurns DEF Inv
<1>9. QED
  BY <1>5, <1>6, <1>7, <1>8

\* Whoever says hello has its turn, or the one that holds the connection.
LEMMA ReadHelloTurns ==
  ASSUME Inv(hub), NEW x \in Hellos, ReadHello(x)
  PROVE  \E n \in Name : Turns(hub, hub', n)
<1> DEFINE c == x.conn
           w == Now
<1>1. x \in Hello /\ c \in Conn
  BY InputAssumption DEF Hello
<1>2. PICK past \in InOrder(BacklogFor(hub, x)) : hub' = Handled(HandleHello(w, x, past), c)
  BY DEF ReadHello
<1>3. past \in Seq(Record)
  BY <1>2, PastType DEF Inv
<1>4. Inv(w) /\ Typed(w) /\ w.conn[c].phase # "free" /\ w.reg = hub.reg /\ Typed(hub)
  BY NowInv DEF ReadHello, Reading, Inv
<1>5. \A W : Level(hub, w, W)
  BY <1>4, NowLevel
<1> HIDE DEF w, c
<1> DEFINE g == HandleHello(w, x, past)
<1>6. Typed(g)
  BY <1>1, <1>3, <1>4, HandleHelloInv DEF Inv, c
<1>7. PICK n \in Name : Turns(w, g, n)
  BY <1>1, <1>3, <1>4, HelloTurns DEF c
<1>8. hub' = Handled(g, c) /\ Adds(g, hub')
  BY <1>2, HandledAdds
<1> HIDE DEF g
<1>9. Level(g, hub', {n}) /\ hub'.reg = g.reg
  BY <1>1, <1>6, <1>8, HandledLevel
<1>10. Turns(hub, hub', n)
  BY <1>4, <1>5, <1>6, <1>7, <1>8, <1>9, TurnsBetween
<1>11. QED
  BY <1>10

LEMMA VisitTurns ==
  ASSUME Inv(hub), NEW n \in Name, NEW lapsed, Visit(n, lapsed)
  PROVE  Turns(hub, hub', n)
<1> DEFINE w == Now
<1>1. Inv(w) /\ Typed(w) /\ n \in Live(w) /\ w.reg = hub.reg /\ Typed(hub)
  BY NowInv DEF Visit, Inv
<1>2. hub' = Visited(w, n, lapsed) /\ Level(hub, w, {n})
  BY <1>1, NowLevel DEF Visit
<1> HIDE DEF w
<1>3. Turns(w, hub', n) /\ Typed(hub')
  BY <1>1, <1>2, VisitedTurns, VisitedInv DEF Inv
<1>4. Level(hub', hub', {n}) /\ Adds(hub', hub')
  BY <1>3, SameRegLevel, SameAdds DEF Onward
<1>5. QED
  BY <1>1, <1>2, <1>3, <1>4, TurnsBetween

\* What is forgotten is nobody's.
LEMMA ExpireTurns ==
  ASSUME Inv(hub), NEW n \in Name, Expire(n)
  PROVE  Turns(hub, hub', n)
<1> DEFINE w == Now
           g == [w EXCEPT !.reg[n] = NoReg]
<1>1. Typed(w) /\ w.reg = hub.reg /\ Typed(hub) /\ Level(hub, w, {n})
  BY NowInv, NowLevel DEF Inv
<1>2. hub' = g
  BY DEF Expire
<1>3. NoReg.where = "none" /\ Emptied(NoReg)
  BY DEF NoReg, Emptied
<1> HIDE DEF w, NoReg
<1>4. Beside(w, g, {n}) /\ g.reg[n] = NoReg
  BY <1>1, OneRegBeside
<1> HIDE DEF g
<1>5. Beside(hub, g, {n})
  BY <1>1, <1>4, LevelBeside, BesideTransitive
<1>6. QED
  BY <1>2, <1>3, <1>4, <1>5 DEF Turns

\* A hub that has just started seats nobody, and its floor is open.
LEMMA BootFloor ==
  ASSUME NEW recent
  PROVE  LET g == Boot(recent)
         IN  /\ \A n \in Name : SeatOf(g, n) = TheFloor!Empty
             /\ g.frozen = FALSE /\ Evened(g) /\ \A h : Spared(h, g)
             /\ g.counter = IF recent = << >> THEN 0 ELSE recent[Len(recent)].id
<1> DEFINE g == Boot(recent)
<1>1. /\ \A n \in Name : g.reg[n] = NoReg
      /\ g.frozen = FALSE
      /\ g.counter = IF recent = << >> THEN 0 ELSE recent[Len(recent)].id
  BY DEF Boot
<1> HIDE DEF g
<1>2. NoReg.where = "none" /\ NoReg.dropped = 0 /\ Emptied(NoReg)
  BY DEF NoReg, Emptied
<1>3. \A n \in Name : SeatOf(g, n) = TheFloor!Empty
  BY <1>1, <1>2 DEF SeatOf, TheFloor!Empty
<1>4. Evened(g)
  BY <1>1, <1>2 DEF Evened, Even
<1>5. \A h : Spared(h, g)
  BY <1>1, <1>2 DEF Spared
<1>6. QED
  BY <1>1, <1>3, <1>4, <1>5 DEF g

\* The ids of a new process go on from the transcript, whose tail was said
\* before the old one died.
LEMMA RestartOnFloor ==
  ASSUME Inv(hub), Mail(hub), Restart
  PROVE  TheFloor!Crash /\ Evened(hub') /\ Spared(hub, hub')
<1> DEFINE r == hub.recent
<1>1. hub' = Boot(r)
  BY DEF Restart
<1>2. r \in Seq(Record) /\ hub.counter \in Nat /\ \A i \in DOMAIN r : r[i].id <= hub.counter
  BY DEF Inv, Typed, HubState, Mail, Chronicled
<1> HIDE DEF r
<1>3. /\ \A n \in Name : SeatOf(hub', n) = TheFloor!Empty
      /\ hub'.frozen = FALSE /\ Evened(hub') /\ Spared(hub, hub')
      /\ hub'.counter = IF r = << >> THEN 0 ELSE r[Len(r)].id
  BY <1>1, BootFloor
<1>4. hub'.counter <= hub.counter
  <2>1. CASE r = << >>
    BY <1>2, <1>3, <2>1
  <2>2. CASE r # << >>
    <3>1. Len(r) \in DOMAIN r
      BY <1>2, <2>2, EmptySeq, LenProperties
    <3>2. QED
      BY <1>2, <1>3, <2>2, <3>1
  <2>3. QED
    BY <2>1, <2>2
<1>5. [n \in Name |-> SeatOf(hub', n)] = [n \in Name |-> TheFloor!Empty]
  BY <1>3
<1>6. QED
  BY <1>3, <1>4, <1>5 DEF TheFloor!Crash

LEMMA NextOnFloor ==
  ASSUME Inv(hub), Upheld(hub), Evened(hub), [Next]_vars, Inv(hub'), Upheld(hub')
  PROVE  [TheFloor!Next]_(TheFloor!vars) /\ Evened(hub') /\ Spared(hub, hub')
<1>0. Mail(hub) /\ Mail(hub')
  BY DEF Upheld
<1>1. ASSUME NEW n \in Name, Turns(hub, hub', n)
      PROVE  TheFloor!Next /\ Evened(hub') /\ Spared(hub, hub')
  BY <1>0, <1>1, TurnTaken DEF TheFloor!Next
<1>2. ASSUME NEW x \in Hellos, ReadHello(x)
      PROVE  TheFloor!Next /\ Evened(hub') /\ Spared(hub, hub')
  BY <1>1, <1>2, ReadHelloTurns
<1>3. ASSUME NEW c \in Conn, ConnStep(c)
      PROVE  TheFloor!Next /\ Evened(hub') /\ Spared(hub, hub')
  <2>1. CASE ReadSay(c)
    BY <2>1, SayOnFloor DEF TheFloor!Next
  <2>2. CASE ReadCmd(c)
    BY <2>2, CmdOnFloor DEF TheFloor!Next
  <2>3. CASE ReadState(c) \/ ReadRoster(c) \/ ReadPong(c) \/ ReadBye(c)
    BY <1>1, <2>3, ParticipantTurns
  <2>4. CASE \/ Connect(c) \/ ReadMalformed(c) \/ StopReading(c) \/ Reap(c)
             \/ WriteOne(c) \/ WriteFails(c)
    BY <1>0, <2>4, ConnectionLevel, LevelOnFloor DEF TheFloor!Next
  <2>5. QED
    BY <1>3, <2>1, <2>2, <2>3, <2>4 DEF ConnStep
<1>4. CASE Tick
  BY <1>1, <1>4, VisitTurns DEF Tick
<1>5. ASSUME NEW n \in Name, Expire(n)
      PROVE  TheFloor!Next /\ Evened(hub') /\ Spared(hub, hub')
  BY <1>1, <1>5, ExpireTurns
<1>6. CASE Restart
  BY <1>0, <1>6, RestartOnFloor DEF TheFloor!Next
<1>7. CASE UNCHANGED vars
  <2>1. hub' = hub
    BY <1>7 DEF vars
  <2>2. [n \in Name |-> SeatOf(hub', n)] = [n \in Name |-> SeatOf(hub, n)]
    BY <2>1
  <2>3. Spared(hub, hub')
    BY <2>1, BoxedSpared DEF Inv, Boxed, SameBox
  <2>4. QED
    BY <2>1, <2>2, <2>3 DEF TheFloor!vars, Evened
<1>8. QED
  BY <1>2, <1>3, <1>4, <1>5, <1>6, <1>7 DEF Next

LEMMA InitOnFloor == Init => TheFloor!Init /\ Evened(hub)
<1> SUFFICES ASSUME Init PROVE TheFloor!Init /\ Evened(hub)
  OBVIOUS
<1>1. hub = Boot(<< >>)
  BY DEF Init
<1>2. /\ \A n \in Name : SeatOf(hub, n) = TheFloor!Empty
      /\ hub.frozen = FALSE /\ Evened(hub) /\ hub.counter = 0
  BY <1>1, BootFloor
<1>3. [n \in Name |-> SeatOf(hub, n)] = [n \in Name |-> TheFloor!Empty]
  BY <1>2
<1>4. QED
  BY <1>2, <1>3 DEF TheFloor!Init

-----------------------------------------------------------------------------
(* What the observers see.                                                 *)

LEMMA FreshAdds ==
  ASSUME Typed(hub)
  PROVE  /\ "sent" \in DOMAIN Now /\ Routes(Now) = {}
         /\ \A c : Adds(Now, Heard(c))
         /\ \A g : Adds(Now, g) => Routes(g) = {}
<1>1. "sent" \in DOMAIN Now /\ Now.sent = {}
  BY DEF Now, Typed, HubState
<1>2. Routes(Now) = {}
  BY <1>1 DEF Routes
<1>3. ASSUME NEW c
      PROVE  Adds(Now, Heard(c))
  <2> DEFINE w == Now
             n == Sender(c)
             g == [w EXCEPT !.reg[n].awaiting = FALSE]
  <2>1. Heard(c) = g
    BY DEF Heard
  <2> HIDE DEF w, n
  <2>2. DOMAIN g = DOMAIN w /\ ("sent" \in DOMAIN w => g.sent = w.sent)
    OBVIOUS
  <2> HIDE DEF g
  <2>3. QED
    BY <2>1, <2>2, SameAdds DEF w
<1>4. QED
  BY <1>1, <1>2, <1>3 DEF Adds

\* A say is recorded by nothing else than a say.
LEMMA OnlySaysRoute ==
  ASSUME Typed(hub), [Next]_vars, \A c \in Conn : ~ReadSay(c), hub' # hub
  PROVE  Routes(hub') = {}
<1> DEFINE w == Now
<1>1. /\ \A c : Adds(w, Heard(c))
      /\ \A g : Adds(w, g) => Routes(g) = {}
  BY FreshAdds
<1>2. ASSUME NEW g, NEW i, Adds(w, g), Adds(g, i), hub' = i
      PROVE  Routes(hub') = {}
  BY <1>1, <1>2, AddsTransitive
<1>3. ASSUME NEW g, NEW c, Adds(w, g), hub' = Handled(g, c)
      PROVE  Routes(hub') = {}
  BY <1>2, <1>3, HandledAdds
<1>4. ASSUME NEW g, NEW c, Adds(Heard(c), g), hub' = Handled(g, c)
      PROVE  Routes(hub') = {}
  BY <1>1, <1>3, <1>4, AddsTransitive
<1>5. ASSUME NEW g, Adds(w, g), NEW c, NEW k, hub' = [g EXCEPT !.conn[c] = k]
      PROVE  Routes(hub') = {}
  <2> DEFINE i == [g EXCEPT !.conn[c] = k]
  <2>1. DOMAIN i = DOMAIN g /\ ("sent" \in DOMAIN g => i.sent = g.sent)
    OBVIOUS
  <2> HIDE DEF i
  <2>2. QED
    BY <1>2, <1>5, <2>1, SameAdds DEF i
<1>6. Adds(w, w) /\ \A c : Adds(w, Reply(w, c, c, "err")) /\ Adds(w, Disconnect(w, c))
  BY SameAdds, ReplyAdds, DisconnectAdds
<1>7. ASSUME NEW x \in Hellos, ReadHello(x)
      PROVE  Routes(hub') = {}
  <2>1. PICK past : hub' = Handled(HandleHello(w, x, past), x.conn)
    BY <1>7 DEF ReadHello
  <2> HIDE DEF w
  <2>2. QED
    BY <1>3, <2>1, HandleHelloAdds
<1>8. ASSUME NEW c \in Conn, ConnStep(c)
      PROVE  Routes(hub') = {}
  <2> DEFINE h == Heard(c)
             n == Sender(c)
  <2>1. CASE Connect(c)
    <3> DEFINE k == [FreeConn EXCEPT !.phase = "reading", !.connected = TRUE]
    <3>1. hub' = [w EXCEPT !.conn[c] = k]
      BY <2>1 DEF Connect
    <3> HIDE DEF w, k
    <3>2. QED
      BY <1>5, <1>6, <3>1
  <2>2. CASE ReadState(c)
    <3>1. PICK state : hub' = Handled(HandleState(h, n, state), c)
      BY <2>2 DEF ReadState
    <3>2. QED
      BY <1>4, <3>1, HandleStateAdds
  <2>3. CASE ReadCmd(c)
    <3>1. PICK x \in Cmds, rank \in Ranks(Agents(hub)) :
            hub' = Handled(HandleCmd(h, c, n, x, rank), c)
      BY <2>3 DEF ReadCmd
    <3>2. x.cmd \in CmdNames
      BY InputAssumption
    <3>3. QED
      BY <1>4, <3>1, <3>2, HandleCmdAdds
  <2>4. CASE ReadRoster(c)
    <3> DEFINE frames == {[sink |-> hub.reg[n].client, t |-> "roster"]}
    <3>1. hub' = Handled(Push(h, frames, {}), c)
      BY <2>4 DEF ReadRoster
    <3>2. \A f \in frames \cup {} : f.t # "msg"
      OBVIOUS
    <3> HIDE DEF frames
    <3>3. QED
      BY <1>4, <3>1, <3>2, PushAdds
  <2>5. CASE ReadPong(c)
    BY <1>1, <1>3, <2>5 DEF ReadPong
  <2>6. CASE ReadBye(c)
    <3>1. hub' = Handled(Disconnect(h, c), c)
      BY <2>6 DEF ReadBye
    <3>2. QED
      BY <1>4, <3>1, DisconnectAdds
  <2>7. CASE ReadMalformed(c)
    BY <1>3, <1>6, <2>7 DEF ReadMalformed
  <2>8. CASE StopReading(c)
    <3>1. PICK g \in {w, Reply(w, c, c, "err")} : hub' = [g EXCEPT !.conn[c].phase = "ending"]
      BY <2>8 DEF StopReading
    <3> DEFINE k == [g.conn[c] EXCEPT !.phase = "ending"]
    <3>2. hub' = [g EXCEPT !.conn[c] = k]
      BY <3>1
    <3> HIDE DEF k
    <3>3. Adds(w, g)
      BY <1>6
    <3>4. QED
      BY <1>5, <3>2, <3>3
  <2>9. CASE Reap(c)
    <3>1. hub' = [Disconnect(w, c) EXCEPT !.conn[c] = FreeConn]
      BY <2>9 DEF Reap
    <3>2. QED
      BY <1>5, <1>6, <3>1
  <2>10. CASE WriteOne(c)
    <3> DEFINE k == [w.conn[c] EXCEPT !.out = @ - 1]
    <3>1. hub' = [w EXCEPT !.conn[c] = k]
      BY <2>10 DEF WriteOne
    <3> HIDE DEF w, k
    <3>2. QED
      BY <1>5, <1>6, <3>1
  <2>11. CASE WriteFails(c)
    <3> DEFINE k == Cut(w.conn[c])
    <3>1. hub' = [w EXCEPT !.conn[c] = k]
      BY <2>11 DEF WriteFails
    <3> HIDE DEF w, k
    <3>2. QED
      BY <1>5, <1>6, <3>1
  <2>12. QED
    BY <1>8, <2>1, <2>2, <2>3, <2>4, <2>5, <2>6, <2>7, <2>8, <2>9, <2>10, <2>11 DEF ConnStep
<1>9. CASE Tick
  <2>1. PICK n, lapsed : hub' = Visited(w, n, lapsed)
    BY <1>9 DEF Tick, Visit
  <2> HIDE DEF w
  <2>2. QED
    BY <1>1, <2>1, VisitedAdds
<1>10. ASSUME NEW n \in Name, Expire(n)
       PROVE  Routes(hub') = {}
  <2> DEFINE g == [w EXCEPT !.reg[n] = NoReg]
  <2>1. hub' = g
    BY <1>10 DEF Expire
  <2> HIDE DEF w
  <2>2. DOMAIN g = DOMAIN w /\ ("sent" \in DOMAIN w => g.sent = w.sent)
    OBVIOUS
  <2> HIDE DEF g
  <2>3. QED
    BY <1>1, <2>1, <2>2, SameAdds
<1>11. CASE Restart
  <2>1. hub'.sent = {}
    BY <1>11 DEF Restart, Boot
  <2>2. QED
    BY <2>1 DEF Routes
<1>12. QED
  BY <1>7, <1>8, <1>9, <1>10, <1>11 DEF Next, vars

\* The observers that can be reached are shown it, but for the sender.
LEMMA SaysAreSeen ==
  ASSUME Typed(hub), NEW c \in Conn, ReadSay(c),
         NEW r \in hub'.sent, r.t = "msg",
         NEW n \in Observers(hub), r.from # n, Reachable(hub, n)
  PROVE  \E f \in Handed(n) : \E m \in f.msgs : m.id = r.id
<1> DEFINE h == Heard(c)
           q == Sender(c)
<1>1. PICK s \in Says, screen \in Screens : hub' = Handled(HandleSay(h, c, q, s, screen), c)
  BY DEF ReadSay
<1>2. "sent" \in DOMAIN h /\ Routes(h) = {}
  BY FreshAdds DEF Adds
<1>3. h.conn = hub.conn
      /\ \A p \in Name : /\ h.reg[p].where = hub.reg[p].where
                         /\ h.reg[p].kind = hub.reg[p].kind
                         /\ h.reg[p].client = hub.reg[p].client
  BY DEF Heard, Now, Typed, HubState, Reg
<1>4. n \in Observers(h) /\ Reachable(h, n)
  BY <1>3 DEF Observers, Live, IsObserver, Reachable
<1> HIDE DEF h, q
<1> DEFINE f == HandleSay(h, c, q, s, screen)
<1>5. Adds(f, hub') /\ r \in Routes(hub')
  BY <1>1, HandledAdds DEF Routes
<1>6. CASE Verdict(h, q, s, screen) = "pass"
  <2> HIDE DEF f
  <2> DEFINE a == Accept(h, c, q, s)
             id == h.counter + 1
  <2>1. /\ DOMAIN a = DOMAIN h
        /\ Routes(a) = Routes(h) \cup {[sink |-> Transcript, t |-> "msg", id |-> id,
                                        from |-> q, done |-> s.done]}
        /\ \A p \in Seats(h, q, s) : \E m : m.id = id /\ Handing(a, p, {m})
    <3>1. DOMAIN a = DOMAIN h
      BY <1>2, AcceptAdds
    <3>2. Routes(a) = Routes(h) \cup {[sink |-> Transcript, t |-> "msg", id |-> id,
                                       from |-> q, done |-> s.done]}
      BY <1>2, AcceptAdds
    <3>3. \A p \in Seats(h, q, s) : \E m : m.id = id /\ Handing(a, p, {m})
      BY <1>2, AcceptAdds
    <3>4. QED
      BY <3>1, <3>2, <3>3
  <2>2. Adds(a, f)
    BY <1>6, HandleSayAdds DEF f
  <2> HIDE DEF a, f, id
  <2>3. Adds(a, hub')
    BY <1>5, <2>2, AddsTransitive
  <2>4. r \in Routes(a)
    BY <1>2, <1>5, <2>1, <2>3 DEF Adds
  <2>5. r.id = id /\ r.from = q
    BY <1>2, <2>1, <2>4
  <2>6. n \in Seats(h, q, s)
    BY <1>4, <2>5 DEF Seats
  <2>7. PICK m : m.id = id /\ Handing(a, n, {m})
    BY <2>1, <2>6
  <2>8. Handing(hub', n, {m})
    BY <1>2, <2>1, <2>3, <2>7, HandingLater
  <2>9. PICK g \in Given(hub') : g.sink = Transcript /\ g.name = n /\ m \in g.msgs
    BY <2>8 DEF Handing
  <2>10. g \in Handed(n)
    BY <2>9 DEF Given, Handed
  <2>11. QED
    BY <2>5, <2>7, <2>9, <2>10
<1>7. CASE Verdict(h, q, s, screen) # "pass"
  <2>1. Adds(h, Refuse(h, c, q)) /\ Adds(Refuse(h, c, q), f)
    BY <1>7, RefuseAdds, HandleSayAdds
  <2> HIDE DEF f
  <2>2. Adds(h, hub')
    BY <1>5, <2>1, AddsTransitive
  <2>3. QED
    BY <1>2, <1>5, <2>2 DEF Adds
<1>8. QED
  BY <1>6, <1>7

-----------------------------------------------------------------------------
(* Theorems.                                                               *)

\* The hub implements the floor of docs/PROTOCOL.md, "Floor control", for any
\* number of participants and connections, any caps and any frames: whatever
\* handle(), disconnect, the watchdog, a failing connection or a restart does,
\* an agent is handed what waits for it oldest first, in its turn, with its
\* losses told; others cannot reach it while it works; a message is kept for
\* it or counted as lost; and a closed floor opens only on command.
THEOREM FloorIsKept == Spec => KeepsTheFloor
<1> DEFINE IInv == Inv(hub) /\ Upheld(hub) /\ Evened(hub)
<1>1. Init => IInv /\ TheFloor!Init
  BY InitInv, InitUpheld, InitOnFloor
<1>2. IInv /\ [Next]_vars => IInv' /\ [TheFloor!Next]_(TheFloor!vars)
  <2> SUFFICES ASSUME Inv(hub), Upheld(hub), Evened(hub), [Next]_vars
               PROVE  IInv' /\ [TheFloor!Next]_(TheFloor!vars)
    OBVIOUS
  <2>1. Inv(hub') /\ Upheld(hub')
    BY NextInv, NextUpheld
  <2>2. [TheFloor!Next]_(TheFloor!vars) /\ Evened(hub')
    BY <2>1, NextOnFloor
  <2>3. QED
    BY <2>1, <2>2
<1> HIDE DEF IInv
<1>3. QED
  BY <1>1, <1>2, PTL DEF Spec, KeepsTheFloor, TheFloor!Spec

\* Hub._handle_say delivers to every observer other than the sender, by
\* whatever path the say is routed: none that can be reached misses a say.
THEOREM ObserversSeeAllAlways == Spec => ObserversSeeAll
<1> DEFINE A == \A r \in hub'.sent, n \in Observers(hub) :
                  r.t = "msg" /\ r.from # n /\ Reachable(hub, n) =>
                    \E f \in Handed(n) : \E m \in f.msgs : m.id = r.id
<1>1. Typed(hub) /\ [Next]_vars => [A]_vars
  <2> SUFFICES ASSUME Typed(hub), [Next]_vars, hub' # hub,
                      NEW r \in hub'.sent, NEW n \in Observers(hub),
                      r.t = "msg", r.from # n, Reachable(hub, n)
               PROVE  \E f \in Handed(n) : \E m \in f.msgs : m.id = r.id
    BY DEF vars
  <2>1. r \in Routes(hub')
    BY DEF Routes
  <2>2. \E c \in Conn : ReadSay(c)
    BY <2>1, OnlySaysRoute
  <2>3. QED
    BY <2>2, SaysAreSeen
<1> HIDE DEF A
<1>2. Inv(hub) => Typed(hub)
  BY DEF Inv
<1>3. QED
  BY <1>1, <1>2, Invariance, PTL DEF Spec, ObserversSeeAll, A

\* Hub._enqueue, ContextBuffer.append, _flush_queue and drain, on whatever path
\* they are called: what leaves the mailbox of a participant, alive or dead, is
\* handed to it or is on a count of lost messages, and a count is cleared only
\* when the participant is told it.
THEOREM NothingLostAlways == Spec => NothingLostInSilence
<1> DEFINE IInv == Inv(hub) /\ Upheld(hub) /\ Evened(hub)
           A == \A n \in Name : Kept(n) =>
             LET was == hub.reg[n]
                 is  == hub'.reg[n]
                 lost(field) == Cardinality((Ids(was[field]) \ Ids(is[field])) \ GivenIds(n))
             IN  /\ \/ was.dropped + lost("queue") <= is.dropped
                    \/ lost("queue") = 0 /\ Announced(n, was.dropped, "direct")
                 /\ \/ was.evicted + lost("context") <= is.evicted
                    \/ lost("context") = 0 /\ Announced(n, was.evicted, "overheard")
<1>1. Init => IInv
  BY InitInv, InitUpheld, InitOnFloor
<1>2. IInv /\ [Next]_vars => IInv' /\ Spared(hub, hub')
  <2> SUFFICES ASSUME Inv(hub), Upheld(hub), Evened(hub), [Next]_vars
               PROVE  IInv' /\ Spared(hub, hub')
    OBVIOUS
  <2>1. Inv(hub') /\ Upheld(hub')
    BY NextInv, NextUpheld
  <2>2. QED
    BY <2>1, NextOnFloor
<1>3. Spared(hub, hub') => A
  <2> SUFFICES ASSUME Spared(hub, hub'), NEW n \in Name, Kept(n)
               PROVE  LET was == hub.reg[n]
                          is  == hub'.reg[n]
                          lost(field) == Cardinality((Ids(was[field]) \ Ids(is[field]))
                                                       \ GivenIds(n))
                      IN  /\ \/ was.dropped + lost("queue") <= is.dropped
                             \/ lost("queue") = 0 /\ Announced(n, was.dropped, "direct")
                          /\ \/ was.evicted + lost("context") <= is.evicted
                             \/ lost("context") = 0 /\ Announced(n, was.evicted, "overheard")
    OBVIOUS
  <2>1. Fares(hub.reg[n], hub', n)
    BY DEF Spared, Kept
  <2>2. Handed(n) = GivenTo(hub', n)
    BY DEF Handed, GivenTo, Given
  <2>3. QED
    BY <2>1, <2>2 DEF Fares, Accounted, Missing, GivenIds, Announced
<1> HIDE DEF IInv, A
<1>4. QED
  BY <1>1, <1>2, <1>3, PTL DEF Spec, NothingLostInSilence, A

-----------------------------------------------------------------------------
(***************************************************************************)
(* Rounds: what a step charges for.  A delivery of a wake to an agent is   *)
(* an alert; the ones of messages that waited when the step began are late.*)
(* The lemmas follow the bill through the operators of a handler: what it  *)
(* hands over before its flush is charged as a say, the flush as one more, *)
(* and the end of a session may cancel what was charged before.            *)
(***************************************************************************)

Waking(m) == m.from # System /\ m.adr # "overheard"

\* The transcript has it that n was handed the wake m.
Alerted(h, n, m) ==
  \E f \in Given(h) : f.sink = Transcript /\ f.name = n /\ m \in f.msgs /\ Waking(m)

Ended(h) == \E f \in h.sent : f.t = "event" /\ f.event = "session_done"

\* The agents handed a wake of an id up to k, and the price of the others.
Late(h, k) == {n \in Agents(h) : \E m : Alerted(h, n, m) /\ ~(m.id > k)}
Said(h, k) == IF \E n \in Agents(h) : \E m : Alerted(h, n, m) /\ m.id > k THEN 1 ELSE 0
Cost(h, k) == Said(h, k) + Cardinality(Late(h, k))

\* The rounds of h are charged as they should, since the counter was at k and
\* the round at r.
Bill(h, r, k)   == h.round = r + Cost(h, k) \/ (Ended(h) /\ h.round = Cost(h, k))
Billed(h, r, k) == h.round = 0 \/ Bill(h, r, k)

\* Wakes wait in the queue, asides in the context, and nothing for observers.
Labels(r) ==
  /\ \A i \in DOMAIN r.queue : r.queue[i].from # System => r.queue[i].adr # "overheard"
  /\ \A i \in DOMAIN r.context : r.context[i].adr = "overheard"
  /\ r.kind = "observer" => r.queue = << >>

Tidy(h) ==
  /\ \A n \in Name : Labels(h.reg[n])
  /\ \A x \in Hellos : h.reg[x.name].where # "none" => h.reg[x.name].kind = x.kind

Kin(h, g) ==
  \A n \in Name : /\ g.reg[n].kind = h.reg[n].kind
                  /\ g.reg[n].where # "none" => h.reg[n].where # "none"
                  /\ Labels(h.reg[n]) => Labels(g.reg[n])

\* No wake more was handed over.
Alike(h, g) ==
  /\ Kin(h, g) /\ Agents(g) = Agents(h) /\ (Ended(h) => Ended(g))
  /\ \A n \in Agents(h) : \A m : Alerted(g, n, m) <=> Alerted(h, n, m)

Still(h, g) == Alike(h, g) /\ g.round = h.round

LEMMA KinTransitive ==
  ASSUME NEW h, NEW g, NEW i, Kin(h, g), Kin(g, i)
  PROVE  Kin(h, i)
BY DEF Kin

LEMMA KinTidy ==
  ASSUME NEW h, NEW g, Kin(h, g), Tidy(h)
  PROVE  Tidy(g)
<1>1. \A x \in Hellos : x.name \in Name
  BY InputAssumption DEF Hello
<1>2. QED
  BY <1>1 DEF Kin, Tidy

LEMMA StillTransitive ==
  ASSUME NEW h, NEW g, NEW i, Still(h, g), Still(g, i)
  PROVE  Still(h, i)
BY KinTransitive DEF Still, Alike

LEMMA SameStill == \A h : Still(h, h)
BY DEF Still, Alike, Kin

LEMMA AlikeCost ==
  ASSUME NEW h, NEW g, NEW k, Alike(h, g)
  PROVE  Late(g, k) = Late(h, k) /\ Said(g, k) = Said(h, k) /\ Cost(g, k) = Cost(h, k)
<1>1. Late(g, k) = Late(h, k) /\ Said(g, k) = Said(h, k)
  BY DEF Alike, Late, Said
<1>2. QED
  BY <1>1 DEF Cost

LEMMA StillBill ==
  ASSUME NEW h, NEW g, NEW r, NEW k, Still(h, g)
  PROVE  /\ Late(g, k) = Late(h, k)
         /\ Bill(h, r, k) => Bill(g, r, k)
         /\ Billed(h, r, k) => Billed(g, r, k)
BY AlikeCost DEF Still, Alike, Bill, Billed

\* Nothing was handed over: the round has stayed, or went back to 0.
Fresh(h, r) == Given(h) = {} /\ (h.round = r \/ (Ended(h) /\ h.round = 0))

LEMMA FreshBill ==
  ASSUME NEW h, NEW r \in Nat, Fresh(h, r), NEW k
  PROVE  Late(h, k) = {} /\ Bill(h, r, k) /\ Cost(h, k) = 0
<1>1. \A n, m : ~Alerted(h, n, m)
  BY DEF Fresh, Alerted
<1>2. Late(h, k) = {} /\ Said(h, k) = 0
  BY <1>1 DEF Late, Said
<1>3. Cost(h, k) = 0
  BY <1>2, FS_EmptySet DEF Cost
<1>4. QED
  BY <1>2, <1>3 DEF Bill, Fresh

-----------------------------------------------------------------------------
(* The operators that alert nobody.                                        *)

LEMMA BoxesKin ==
  ASSUME NEW h, NEW g,
         \A n \in Name : /\ g.reg[n].where = h.reg[n].where /\ g.reg[n].kind = h.reg[n].kind
                         /\ g.reg[n].queue = h.reg[n].queue
                         /\ g.reg[n].context = h.reg[n].context
  PROVE  Kin(h, g)
BY DEF Kin, Labels

LEMMA SentAlike ==
  ASSUME NEW h, NEW g, Kin(h, g), Agents(g) = Agents(h), Given(g) = Given(h),
         h.sent \subseteq g.sent
  PROVE  Alike(h, g)
BY DEF Alike, Alerted, Ended

\* Registrations changed outside their mailboxes.
LEMMA MarkedStill ==
  ASSUME NEW h, NEW g, g.round = h.round, g.sent = h.sent,
         \A n \in Name : /\ g.reg[n].where = h.reg[n].where /\ g.reg[n].kind = h.reg[n].kind
                         /\ g.reg[n].queue = h.reg[n].queue
                         /\ g.reg[n].context = h.reg[n].context
  PROVE  Still(h, g)
<1>1. Kin(h, g)
  BY BoxesKin
<1>2. Agents(g) = Agents(h)
  BY DEF Agents, Live, IsObserver
<1>3. QED
  BY <1>1, <1>2, SentAlike DEF Still, Given

LEMMA PushStill ==
  ASSUME NEW h, Typed(h), NEW frames \in SUBSET Frame, NEW records \in SUBSET Frame,
         \A f \in frames \cup records : f.t # "deliver"
  PROVE  Still(h, Push(h, frames, records))
<1> DEFINE p == Push(h, frames, records)
<1>1. p.reg = h.reg /\ SameFloor(h, p) /\ Stable(h, p)
  BY PushType
<1>2. p.sent = h.sent \cup {f \in frames : Takes(h, f.sink)} \cup records
  BY DEF Push, Typed, HubState
<1> HIDE DEF p
<1>3. Given(p) = Given(h) /\ h.sent \subseteq p.sent
  BY <1>2 DEF Given
<1>4. Kin(h, p) /\ Agents(p) = Agents(h)
  BY <1>1, BoxesKin, StableAlike
<1>5. Still(h, p)
  BY <1>1, <1>3, <1>4, SentAlike DEF Still, SameFloor
<1>6. QED
  BY <1>5 DEF p

LEMMA EmitStill ==
  ASSUME NEW h, Typed(h), NEW event \in Events, NEW about \in Name \cup {NoName}
  PROVE  /\ \A skip : Still(h, EmitSkipping(h, event, about, skip))
         /\ Still(h, Emit(h, event, about))
<1>1. ASSUME NEW skip
      PROVE  Still(h, EmitSkipping(h, event, about, skip))
  <2> DEFINE seen(s) == [sink |-> s, t |-> "event", event |-> event, name |-> about]
             seats   == {h.reg[n].client : n \in Observers(h) \ skip}
             frames  == {seen(c) : c \in seats \cap Conn}
             records == {seen(Transcript)}
  <2>1. frames \in SUBSET Frame /\ records \in SUBSET Frame
    BY DEF Frame, Event, Sinks
  <2>2. EmitSkipping(h, event, about, skip) = Push(h, frames, records)
    BY DEF EmitSkipping
  <2>3. \A f \in frames \cup records : f.t # "deliver"
    OBVIOUS
  <2> HIDE DEF frames, records
  <2>4. QED
    BY <2>1, <2>2, <2>3, PushStill
<1>2. QED
  BY <1>1 DEF Emit

LEMMA ReplyStill ==
  ASSUME NEW h, Typed(h), NEW c \in Conn, NEW from \in Conn, NEW verdict \in {"ok", "err"}
  PROVE  Still(h, Reply(h, c, from, verdict))
<1> DEFINE frames == {[sink |-> c, t |-> verdict, re |-> from]}
<1>1. frames \in SUBSET Frame /\ {} \in SUBSET Frame
  BY DEF Frame, Answer
<1>2. \A f \in frames \cup {} : f.t # "deliver"
  OBVIOUS
<1>3. Reply(h, c, from, verdict) = Push(h, frames, {})
  BY DEF Reply
<1> HIDE DEF frames
<1>4. QED
  BY <1>1, <1>2, <1>3, PushStill

LEMMA CloseStill ==
  ASSUME NEW h, Typed(h), NEW c, NEW k
  PROVE  Still(h, [h EXCEPT !.conn[c] = k]) /\ Still(h, Close(h, c))
<1>1. ASSUME NEW j
      PROVE  Still(h, [h EXCEPT !.conn[c] = j])
  <2> DEFINE g == [h EXCEPT !.conn[c] = j]
  <2>1. g.reg = h.reg /\ g.sent = h.sent /\ g.round = h.round
    BY DEF Typed, HubState
  <2> HIDE DEF g
  <2>2. Still(h, g)
    BY <2>1, MarkedStill
  <2>3. QED
    BY <2>2 DEF g
<1>2. QED
  BY <1>1 DEF Close

LEMMA MarksStill ==
  ASSUME NEW h, Typed(h), NEW n \in Name, NEW b, NEW state
  PROVE  /\ Still(h, [h EXCEPT !.reg[n].finished = b])
         /\ Still(h, [h EXCEPT !.reg[n].awaiting = b])
         /\ Still(h, WithState(h, n, state))
<1>0. h.reg[n] \in Reg /\ h.reg \in [Name -> Reg]
  BY DEF Typed, HubState
<1>1. ASSUME NEW r, r.where = h.reg[n].where, r.kind = h.reg[n].kind,
             r.queue = h.reg[n].queue, r.context = h.reg[n].context
      PROVE  Still(h, [h EXCEPT !.reg[n] = r])
  <2> DEFINE g == [h EXCEPT !.reg[n] = r]
  <2>1. g.reg = [h.reg EXCEPT ![n] = r] /\ g.sent = h.sent /\ g.round = h.round
    BY DEF Typed, HubState
  <2>2. \A m \in Name : g.reg[m] = IF m = n THEN r ELSE h.reg[m]
    BY <1>0, <2>1
  <2> HIDE DEF g
  <2>3. \A m \in Name : /\ g.reg[m].where = h.reg[m].where
                        /\ g.reg[m].kind = h.reg[m].kind
                        /\ g.reg[m].queue = h.reg[m].queue
                        /\ g.reg[m].context = h.reg[m].context
    BY <1>1, <2>2
  <2>4. Still(h, g)
    <3>1. g.sent = h.sent /\ g.round = h.round
      BY <2>1
    <3>2. QED
      BY <2>3, <3>1, MarkedStill
  <2>5. QED
    BY <2>4 DEF g
<1>2. Still(h, [h EXCEPT !.reg[n] = [h.reg[n] EXCEPT !.finished = b]])
  BY <1>0, <1>1 DEF Reg
<1>3. Still(h, [h EXCEPT !.reg[n] = [h.reg[n] EXCEPT !.awaiting = b]])
  BY <1>0, <1>1 DEF Reg
<1>4. Still(h, [h EXCEPT !.reg[n] = [h.reg[n] EXCEPT !.state = state]])
  BY <1>0, <1>1 DEF Reg
<1>5. QED
  BY <1>2, <1>3, <1>4 DEF WithState

LEMMA CheckRoundLimitStill ==
  ASSUME NEW h, Typed(h)
  PROVE  Still(h, CheckRoundLimit(h))
<1> DEFINE f == [h EXCEPT !.frozen = TRUE]
<1>1. f.reg = h.reg /\ f.sent = h.sent /\ f.round = h.round
  BY DEF Typed, HubState
<1>2. f \in HubState /\ f.conn = h.conn /\ f.recent = h.recent
  BY DEF Typed, HubState
<1>3. CheckRoundLimit(h) \in {h, Emit(f, "round_limit", NoName)}
  BY DEF CheckRoundLimit
<1> HIDE DEF f
<1>4. Typed(f) /\ Still(h, f)
  BY <1>1, <1>2, MarkedStill DEF Typed
<1>5. Still(f, Emit(f, "round_limit", NoName))
  BY <1>4, EmitStill DEF Events
<1>6. QED
  BY <1>3, <1>4, <1>5, StillTransitive, SameStill

LEMMA CheckSessionDoneAlike ==
  ASSUME NEW h, Typed(h)
  PROVE  LET g == CheckSessionDone(h)
         IN  /\ Alike(h, g) /\ (g.round = h.round \/ (g.round = 0 /\ Ended(g)))
             /\ \A r, k : Billed(h, r, k) => Billed(g, r, k)
             /\ \A r : Fresh(h, r) => Fresh(g, r)
<1> DEFINE e   == Emit(h, "session_done", NoName)
           w   == WithRound(e, 0)
           reg == [n \in Name |-> Unmarked(h, n)]
           d   == WithReg(w, reg)
           g   == CheckSessionDone(h)
<1>1. CASE SessionOver(h)
  <2>1. g = d
    BY <1>1 DEF CheckSessionDone, WithRound, WithReg, Unmarked
  <2>2. Typed(e) /\ Still(h, e) /\ Quiet(h, e)
    BY EmitKeeps, EmitStill, EmitQuiet DEF Events, Keeps
  <2>3. Ended(e)
    <3> DEFINE seen(s) == [sink |-> s, t |-> "event", event |-> "session_done", name |-> NoName]
    <3>1. seen(Transcript) \in e.sent
      BY DEF Emit, EmitSkipping, Push, Typed, HubState
    <3>2. QED
      BY <3>1 DEF Ended
  <2> HIDE DEF e
  <2>4. Typed(w) /\ w.round = 0 /\ w.sent = e.sent
    BY <2>2, WithRoundType, KeptFields
  <2> HIDE DEF w
  <2>5. d.reg = reg /\ d.sent = e.sent /\ d.round = 0
    BY <2>4 DEF WithReg, Typed, HubState
  <2> HIDE DEF d
  <2>6. \A n \in Name : /\ reg[n].where = h.reg[n].where /\ reg[n].kind = h.reg[n].kind
                        /\ reg[n].queue = h.reg[n].queue
                        /\ reg[n].context = h.reg[n].context
    BY UnmarkedType DEF SameSeat
  <2> HIDE DEF reg
  <2>7. Kin(h, d) /\ Agents(d) = Agents(h)
    <3>1. Kin(h, d)
      BY <2>5, <2>6, BoxesKin
    <3>2. QED
      BY <2>5, <2>6, <3>1 DEF Agents, Live, IsObserver
  <2>8. Given(d) = Given(e) /\ Ended(d)
    BY <2>3, <2>5 DEF Given, Ended
  <2>9. Alike(h, d)
    BY <2>2, <2>7, <2>8 DEF Alike, Alerted, Still
  <2>10. \A r : Fresh(h, r) => Fresh(d, r)
    BY <2>2, <2>5, <2>8 DEF Fresh, Quiet, Calm
  <2> HIDE DEF g
  <2>11. QED
    BY <2>1, <2>5, <2>8, <2>9, <2>10 DEF Billed, g
<1>2. CASE ~SessionOver(h)
  <2>1. g = h
    BY <1>2 DEF CheckSessionDone
  <2> HIDE DEF g
  <2>2. Alike(h, g)
    BY <2>1, SameStill DEF Still
  <2>3. /\ g.round = h.round
        /\ \A r, k : Billed(h, r, k) => Billed(g, r, k)
        /\ \A r : Fresh(h, r) => Fresh(g, r)
    BY <2>1
  <2>4. QED
    BY <2>2, <2>3 DEF g
<1>3. QED
  BY <1>1, <1>2


-----------------------------------------------------------------------------
(* A delivery.                                                             *)

Awake(batch, n, m) == n \in DOMAIN batch /\ m \in batch[n] /\ Waking(m)

LEMMA DeliverAlerts ==
  ASSUME NEW h, Typed(h), NEW batch, DOMAIN batch \subseteq Live(h),
         \A n \in DOMAIN batch : h.reg[n].client \in Conn /\ batch[n] \in SUBSET Msg
  PROVE  LET d == Deliver(h, batch)
         IN  /\ Kin(h, d) /\ Agents(d) = Agents(h) /\ (Ended(h) => Ended(d))
             /\ d.round = h.round
             /\ \A n, m : Alerted(d, n, m) <=> (Alerted(h, n, m) \/ Awake(batch, n, m))
<1> DEFINE to == DOMAIN batch
           frame(s, n) == [sink |-> s, t |-> "deliver", name |-> n,
                           round |-> h.round, msgs |-> batch[n]]
           frames  == {frame(h.reg[n].client, n) : n \in to}
           records == {frame(Transcript, n) : n \in to}
           p       == Push(h, frames, records)
           reg     == [n \in Name |-> Busied(h, to, n)]
           d       == Deliver(h, batch)
<1>1. frames \in SUBSET Frame /\ records \in SUBSET Frame
  BY DEF Frame, Delivery, Sinks, Live, Typed, HubState
<1>2. d = WithReg(p, reg)
  BY DEF Deliver, WithReg, Busied
<1>3. \A f \in frames : f.sink # Transcript
  BY IdentityAssumption
<1>4. \A f : f \in records <=> \E n \in to : f = frame(Transcript, n)
  OBVIOUS
<1> HIDE DEF frames, records
<1>5. Typed(p) /\ p.sent = h.sent \cup {f \in frames : Takes(h, f.sink)} \cup records
  BY <1>1, PushType DEF Push, Typed, HubState
<1> HIDE DEF p
<1>6. d.sent = p.sent
  BY <1>2, <1>5, KeptFields
<1>7. /\ Stable(h, d) /\ SameFloor(h, d)
      /\ \A n \in Name : d.reg[n] = Busied(h, to, n)
  BY DeliverType
<1> HIDE DEF d
<1>8. Kin(h, d)
  <2>1. \A n \in Name : /\ d.reg[n].where = h.reg[n].where /\ d.reg[n].kind = h.reg[n].kind
                        /\ d.reg[n].queue = h.reg[n].queue
                        /\ d.reg[n].context = h.reg[n].context
    BY <1>7, BusiedType DEF Stable
  <2>2. QED
    BY <2>1, BoxesKin
<1>9. Agents(d) = Agents(h) /\ d.round = h.round
  BY <1>7, StableAlike DEF SameFloor
<1>10. Ended(h) => Ended(d)
  BY <1>5, <1>6 DEF Ended
<1>11. ASSUME NEW n, NEW m
       PROVE  Alerted(d, n, m) <=> (Alerted(h, n, m) \/ Awake(batch, n, m))
  <2>1. ASSUME Alerted(d, n, m), ~Alerted(h, n, m)
        PROVE  Awake(batch, n, m)
    <3>1. PICK f \in d.sent : /\ f.t = "deliver" /\ f.sink = Transcript /\ f.name = n
                              /\ m \in f.msgs /\ Waking(m)
      BY <2>1 DEF Alerted, Given
    <3>2. f \in records
      BY <1>3, <1>5, <1>6, <2>1, <3>1 DEF Alerted, Given
    <3>3. PICK q \in to : f = frame(Transcript, q)
      BY <1>4, <3>2
    <3>4. q = n /\ m \in batch[n]
      BY <3>1, <3>3
    <3>5. QED
      BY <3>1, <3>4 DEF Awake
  <2>2. Alerted(h, n, m) => Alerted(d, n, m)
    BY <1>5, <1>6 DEF Alerted, Given
  <2>3. ASSUME Awake(batch, n, m)
        PROVE  Alerted(d, n, m)
    <3>1. frame(Transcript, n) \in d.sent
      BY <1>4, <1>5, <1>6, <2>3 DEF Awake
    <3>2. QED
      BY <2>3, <3>1 DEF Awake, Alerted, Given
  <2>4. QED
    BY <2>1, <2>2, <2>3
<1>12. QED
  BY <1>8, <1>9, <1>10, <1>11 DEF d

LEMMA DeliverStill ==
  ASSUME NEW h, Typed(h), NEW batch, DOMAIN batch \subseteq Live(h),
         \A n \in DOMAIN batch : h.reg[n].client \in Conn /\ batch[n] \in SUBSET Msg,
         \A n \in Agents(h) : \A m : ~Awake(batch, n, m)
  PROVE  Still(h, Deliver(h, batch))
BY DeliverAlerts DEF Still, Alike

-----------------------------------------------------------------------------
(* Labels in the mailboxes.                                                *)

LEMMA SuffixElements ==
  ASSUME NEW t \in Seq(Msg), NEW u \in Seq(Msg), Suffix(t, u)
  PROVE  \A i \in DOMAIN t : \E j \in DOMAIN u : t[i] = u[j]
<1>1. /\ DOMAIN t = 1 .. Len(t) /\ DOMAIN u = 1 .. Len(u)
      /\ Len(t) \in Nat /\ Len(u) \in Nat
  BY LenProperties
<1>2. PICK a \in 0 .. Len(u) : Len(t) = Len(u) - a /\ \A i \in 1 .. Len(t) : t[i] = u[i + a]
  BY DEF Suffix
<1>3. \A i \in DOMAIN t : i + a \in DOMAIN u /\ t[i] = u[i + a]
  BY <1>1, <1>2
<1>4. QED
  BY <1>3

LEMMA LabelsRest ==
  ASSUME NEW r \in Reg, NEW p \in Reg, p.kind = r.kind,
         Suffix(p.queue, r.queue), Suffix(p.context, r.context), Labels(r)
  PROVE  Labels(p)
<1>1. /\ p.queue \in Seq(Msg) /\ r.queue \in Seq(Msg)
      /\ p.context \in Seq(Msg) /\ r.context \in Seq(Msg)
  BY DEF Reg
<1>2. /\ \A i \in DOMAIN p.queue : \E j \in DOMAIN r.queue : p.queue[i] = r.queue[j]
      /\ \A i \in DOMAIN p.context : \E j \in DOMAIN r.context : p.context[i] = r.context[j]
  BY <1>1, SuffixElements
<1>3. r.queue = << >> => p.queue = << >>
  <2>1. Len(<< >>) = 0
    BY EmptySeq
  <2>2. ASSUME r.queue = << >>
        PROVE  Len(p.queue) = 0
    <3>1. PICK a \in 0 .. Len(r.queue) : Len(p.queue) = Len(r.queue) - a
      BY DEF Suffix
    <3>2. Len(r.queue) \in Nat /\ Len(p.queue) \in Nat /\ a \in 0 .. Len(r.queue)
      BY <1>1, <3>1, LenProperties
    <3>3. Len(p.queue) <= Len(r.queue)
      BY <3>1, <3>2
    <3>4. Len(r.queue) = 0
      BY <2>1, <2>2
    <3>5. QED
      BY <3>2, <3>3, <3>4
  <2>3. QED
    BY <1>1, <2>2, EmptySeq
<1>4. QED
  BY <1>2, <1>3 DEF Labels

LEMMA LabelsRemain ==
  ASSUME NEW r \in Reg, BoundedReg(r), Labels(r)
  PROVE  /\ Labels(AfterSlice(r))
         /\ \A k \in 0 .. Len(r.context) : Labels(Drained(r, k))
<1>1. r.queue \in Seq(Msg) /\ r.context \in Seq(Msg)
  BY DEF Reg
<1>2. ASSUME NEW k \in 0 .. Len(r.context)
      PROVE  Labels(Drained(r, k))
  <2> DEFINE p == Drained(r, k)
  <2>1. /\ p \in Reg /\ p.kind = r.kind /\ p.queue = r.queue
        /\ p.context = SubSeq(r.context, k + 1, Len(r.context))
    <3>1. Reboxed(r, p)
      BY DrainedType
    <3>2. QED
      BY <3>1 DEF Reboxed, SameSeat, Drained, Reg
  <2> HIDE DEF p
  <2>2. Suffix(p.queue, r.queue) /\ Suffix(p.context, r.context)
    BY <1>1, <2>1, SameSuffix, RestSuffix
  <2>3. QED
    BY <2>1, <2>2, LabelsRest DEF p
<1>3. Labels(AfterSlice(r))
  <2> DEFINE p == AfterSlice(r)
  <2>1. /\ p \in Reg /\ p.kind = r.kind /\ p.queue = SliceRest(r)
        /\ p.context = SubSeq(r.context, SliceContext(r) + 1, Len(r.context))
    <3>1. Reboxed(r, p)
      BY AfterSliceType
    <3>2. QED
      BY <3>1 DEF Reboxed, SameSeat, AfterSlice, Drained, Reg
  <2> HIDE DEF p
  <2>2. SliceLen(r) \in 0 .. Len(r.queue) /\ SliceContext(r) \in 0 .. Len(r.context)
    BY SliceType
  <2>3. Suffix(p.queue, r.queue) /\ Suffix(p.context, r.context)
    BY <1>1, <2>1, <2>2, RestSuffix DEF SliceRest
  <2>4. QED
    BY <2>1, <2>3, LabelsRest DEF p
<1>4. QED
  BY <1>2, <1>3


\* What is appended to a bounded sequence has the label of the others.
LEMMA LabelsAppended ==
  ASSUME NEW s \in Seq(Msg), NEW m \in Msg, NEW t \in Seq(Msg),
         Suffix(t, Append(s, m))
  PROVE  \A i \in DOMAIN t : t[i] = m \/ \E j \in DOMAIN s : t[i] = s[j]
<1> DEFINE u == Append(s, m)
<1>1. /\ u \in Seq(Msg) /\ DOMAIN u = 1 .. Len(s) + 1 /\ u[Len(s) + 1] = m
      /\ \A i \in 1 .. Len(s) : u[i] = s[i]
      /\ DOMAIN s = 1 .. Len(s) /\ Len(s) \in Nat
  BY AppendElements
<1> HIDE DEF u
<1>2. \A j \in DOMAIN u : u[j] = m \/ \E k \in DOMAIN s : u[j] = s[k]
  <2> TAKE j \in DOMAIN u
  <2>1. j = Len(s) + 1 \/ j \in 1 .. Len(s)
    BY <1>1
  <2>2. QED
    BY <1>1, <2>1
<1>3. \A i \in DOMAIN t : \E j \in DOMAIN u : t[i] = u[j]
  BY <1>1, SuffixElements DEF u
<1>4. QED
  BY <1>2, <1>3

LEMMA LabelsEnqueued ==
  ASSUME NEW r \in Reg, BoundedReg(r), NEW m \in Msg, m.from # System => m.adr # "overheard",
         r.kind # "observer", Labels(r)
  PROVE  Labels(Enqueue(r, m))
<1> DEFINE p == Enqueue(r, m)
<1>1. /\ r.queue \in Seq(Msg) /\ r.context \in Seq(Msg) /\ Len(r.queue) \in Nat
      /\ QueueCap \in Nat \ {0}
  BY CapsAssumption, LenProperties DEF Reg
<1>2. p \in Reg /\ p.kind = r.kind /\ p.context = r.context
  BY EnqueueType DEF Reboxed, SameSeat
<1>3. Suffix(p.queue, Append(r.queue, m))
  <2>1. CASE Len(r.queue) >= QueueCap
    <3>1. p.queue = Append(Tail(r.queue), m)
      BY <2>1 DEF Enqueue, Reg
    <3>2. r.queue # << >>
      BY <1>1, <2>1
    <3> HIDE DEF p
    <3>3. QED
      BY <1>1, <3>1, <3>2, NewestSuffix
  <2>2. CASE ~(Len(r.queue) >= QueueCap)
    <3>1. p.queue = Append(r.queue, m)
      BY <2>2 DEF Enqueue, Reg
    <3> HIDE DEF p
    <3>2. QED
      BY <1>1, <3>1, NewestSuffix
  <2>3. QED
    BY <2>1, <2>2
<1> HIDE DEF p
<1>4. p.queue \in Seq(Msg)
  BY <1>2 DEF Reg
<1>5. \A i \in DOMAIN p.queue : p.queue[i] = m \/ \E j \in DOMAIN r.queue : p.queue[i] = r.queue[j]
  BY <1>1, <1>3, <1>4, LabelsAppended
<1>6. Labels(p)
  BY <1>2, <1>5 DEF Labels
<1>7. QED
  BY <1>6 DEF p

LEMMA LabelsOverheard ==
  ASSUME NEW r \in Reg, BoundedReg(r), NEW m \in Msg, m.adr = "overheard", Labels(r)
  PROVE  Labels(Overhear(r, m))
<1> DEFINE p == Overhear(r, m)
<1>1. /\ r.queue \in Seq(Msg) /\ r.context \in Seq(Msg) /\ Len(r.context) \in Nat
      /\ ContextCap \in Nat \ {0}
  BY CapsAssumption, LenProperties DEF Reg
<1>2. p \in Reg /\ p.kind = r.kind /\ p.queue = r.queue
  BY OverhearType DEF Reboxed, SameSeat
<1>3. Suffix(p.context, Append(r.context, m))
  <2>1. CASE Len(r.context) >= ContextCap
    <3>1. p.context = Append(Tail(r.context), m)
      BY <2>1 DEF Overhear, Reg
    <3>2. r.context # << >>
      BY <1>1, <2>1
    <3> HIDE DEF p
    <3>3. QED
      BY <1>1, <3>1, <3>2, NewestSuffix
  <2>2. CASE ~(Len(r.context) >= ContextCap)
    <3>1. p.context = Append(r.context, m)
      BY <2>2 DEF Overhear, Reg
    <3> HIDE DEF p
    <3>2. QED
      BY <1>1, <3>1, NewestSuffix
  <2>3. QED
    BY <2>1, <2>2
<1> HIDE DEF p
<1>4. p.context \in Seq(Msg)
  BY <1>2 DEF Reg
<1>5. \A i \in DOMAIN p.context :
        p.context[i] = m \/ \E j \in DOMAIN r.context : p.context[i] = r.context[j]
  BY <1>1, <1>3, <1>4, LabelsAppended
<1>6. Labels(p)
  BY <1>2, <1>5 DEF Labels
<1>7. QED
  BY <1>6 DEF p

LEMMA LabelsPast ==
  ASSUME NEW r \in Reg, BoundedReg(r), NEW ms \in Seq(Msg),
         \A i \in DOMAIN ms : ms[i].adr = "overheard", Labels(r)
  PROVE  Labels(OverhearAll(r, ms))
<1> DEFINE all    == r.context \o ms
           excess == IF Len(all) > ContextCap THEN Len(all) - ContextCap ELSE 0
           p      == OverhearAll(r, ms)
<1>1. r.queue \in Seq(Msg) /\ r.context \in Seq(Msg) /\ ContextCap \in Nat
  BY CapsAssumption DEF Reg
<1>2. p \in Reg /\ p.kind = r.kind /\ p.queue = r.queue
  BY OverhearAllType DEF Reboxed, SameSeat
<1>3. p.context = SubSeq(all, excess + 1, Len(all))
  BY DEF OverhearAll, Reg
<1> HIDE DEF p
<1>4. /\ all \in Seq(Msg) /\ Len(all) = Len(r.context) + Len(ms)
      /\ \A i \in 1 .. Len(r.context) : all[i] = r.context[i]
      /\ \A i \in 1 .. Len(ms) : all[Len(r.context) + i] = ms[i]
  BY <1>1, ConcatProperties
<1>5. /\ Len(r.context) \in Nat /\ Len(ms) \in Nat /\ DOMAIN all = 1 .. Len(all)
      /\ DOMAIN ms = 1 .. Len(ms) /\ DOMAIN r.context = 1 .. Len(r.context)
  BY <1>1, <1>4, LenProperties
<1> HIDE DEF all
<1>6. \A j \in DOMAIN all : all[j].adr = "overheard"
  <2> TAKE j \in DOMAIN all
  <2>1. CASE j \in 1 .. Len(r.context)
    BY <1>4, <1>5, <2>1 DEF Labels
  <2>2. CASE ~(j \in 1 .. Len(r.context))
    <3> DEFINE i == j - Len(r.context)
    <3>1. i \in 1 .. Len(ms) /\ j = Len(r.context) + i
      BY <1>4, <1>5, <2>2
    <3> HIDE DEF i
    <3>2. all[j] = ms[i]
      BY <1>4, <3>1
    <3>3. QED
      BY <1>5, <3>1, <3>2
  <2>3. QED
    BY <2>1, <2>2
<1>7. excess \in 0 .. Len(all)
  BY <1>1, <1>4, <1>5
<1> HIDE DEF excess
<1>8. p.context \in Seq(Msg) /\ Suffix(p.context, all)
  BY <1>3, <1>4, <1>7, RestSuffix
<1>9. \A i \in DOMAIN p.context : p.context[i].adr = "overheard"
  BY <1>4, <1>6, <1>8, SuffixElements
<1>10. Labels(p)
  BY <1>2, <1>9 DEF Labels
<1>11. QED
  BY <1>10 DEF p


-----------------------------------------------------------------------------
(* A flush.                                                                *)

\* Who is handed wakes that waited is one more to charge for.
LEMMA LateBill ==
  ASSUME NEW h, NEW g, NEW n \in Agents(h), NEW r \in Nat, NEW k \in Nat, h.round \in Nat,
         Agents(g) = Agents(h), Ended(h) => Ended(g), g.round = h.round + 1,
         Late(h, k) = {}, Late(g, k) = {n}, Said(g, k) = Said(h, k), Bill(h, r, k)
  PROVE  Bill(g, r, k)
<1>1. Cardinality({}) = 0 /\ Cardinality({n}) = 1
  BY FS_EmptySet, FS_Singleton
<1>2. Said(h, k) \in {0, 1}
  BY DEF Said
<1>3. Cost(h, k) = Said(h, k) + 0 /\ Cost(g, k) = Said(h, k) + 1
  BY <1>1 DEF Cost
<1>4. Cost(h, k) \in Nat /\ Cost(g, k) = Cost(h, k) + 1
  BY <1>2, <1>3
<1>5. CASE h.round = r + Cost(h, k)
  <2>1. g.round = r + Cost(g, k)
    BY <1>4, <1>5
  <2>2. QED
    BY <2>1 DEF Bill
<1>6. CASE Ended(h) /\ h.round = Cost(h, k)
  <2>1. g.round = Cost(g, k)
    BY <1>4, <1>6
  <2>2. QED
    BY <1>6, <2>1 DEF Bill
<1>7. QED
  BY <1>5, <1>6 DEF Bill

\* A slice holds a message that wakes just when it is charged for.
LEMMA SliceWakes ==
  ASSUME NEW p \in Reg, Labels(p), NEW k \in Nat, \A i \in DOMAIN p.queue : p.queue[i].id <= k
  PROVE  LET wake  == Notice(p) \cup Items(p.queue, SliceLen(p))
             batch == Omitted(p) \cup Items(p.context, SliceContext(p)) \cup wake
         IN  /\ Asked(wake) <=> \E m \in batch : Waking(m)
             /\ \A m \in batch : Waking(m) => m.id \in Nat /\ m.id <= k
<1> DEFINE wake  == Notice(p) \cup Items(p.queue, SliceLen(p))
           batch == Omitted(p) \cup Items(p.context, SliceContext(p)) \cup wake
<1>1. \A m \in Notice(p) \cup Omitted(p) : m.from = System
  BY DEF Notice, Omitted, Line
<1>2. /\ p.queue \in Seq(Msg) /\ p.context \in Seq(Msg)
      /\ SliceLen(p) \in 0 .. Len(p.queue) /\ SliceContext(p) \in 0 .. Len(p.context)
  BY SliceType DEF Reg
<1>3. /\ DOMAIN p.queue = 1 .. Len(p.queue) /\ Len(p.queue) \in Nat
      /\ DOMAIN p.context = 1 .. Len(p.context) /\ Len(p.context) \in Nat
      /\ \A i \in DOMAIN p.queue : p.queue[i].id \in Nat
  BY <1>2, ElementsType
<1>4. \A m \in Items(p.queue, SliceLen(p)) : \E i \in DOMAIN p.queue : m = p.queue[i]
  BY <1>2, <1>3 DEF Items
<1>5. \A m \in Items(p.context, SliceContext(p)) : \E i \in DOMAIN p.context : m = p.context[i]
  BY <1>2, <1>3 DEF Items
<1>6. \A m \in Items(p.queue, SliceLen(p)) : /\ m.id \in Nat /\ m.id <= k
                                             /\ m.from # System => Waking(m)
  BY <1>3, <1>4 DEF Labels, Waking
<1>7. \A m \in Items(p.context, SliceContext(p)) : ~Waking(m)
  BY <1>5 DEF Labels, Waking
<1>8. \A m \in batch : Waking(m) => m \in Items(p.queue, SliceLen(p))
  BY <1>1, <1>7 DEF Waking
<1>9. Asked(wake) => \E m \in batch : Waking(m)
  BY <1>1, <1>6 DEF Asked
<1>10. (\E m \in batch : Waking(m)) => Asked(wake)
  BY <1>8 DEF Asked, Waking
<1>11. QED
  BY <1>6, <1>8, <1>9, <1>10

LEMMA HandSliceBill ==
  ASSUME NEW h, Typed(h), Linked(h), NEW n \in Live(h), Labels(h.reg[n]),
         h.reg[n].queue # << >>, NEW r \in Nat, NEW k \in Nat,
         \A i \in DOMAIN h.reg[n].queue : h.reg[n].queue[i].id <= k, Late(h, k) = {}
  PROVE  LET g == HandSlice(h, n)
         IN  Kin(h, g) /\ (Bill(h, r, k) => Bill(g, r, k))
<1> DEFINE p     == h.reg[n]
           wake  == Notice(p) \cup Items(p.queue, SliceLen(p))
           batch == Omitted(p) \cup Items(p.context, SliceContext(p)) \cup wake
           due   == IF Asked(wake) THEN h.round + 1 ELSE h.round
           reg   == [h.reg EXCEPT ![n] = AfterSlice(p)]
           w     == WithReg(h, reg)
           taken == WithRound(w, due)
           one   == [q \in {n} |-> batch]
           given == Deliver(taken, one)
           g     == HandSlice(h, n)
<1>1. n \in Name /\ p \in Reg /\ BoundedReg(p) /\ p.client \in Conn /\ h.round \in Nat
  BY DEF Typed, HubState, Live, Linked, Owned
<1>2. /\ Asked(wake) <=> \E m \in batch : Waking(m)
      /\ \A m \in batch : Waking(m) => m.id \in Nat /\ m.id <= k
  BY <1>1, SliceWakes
<1>3. batch \in SUBSET Msg
  BY <1>1, NoticeType, SliceType, ItemsType DEF Reg
<1>4. /\ reg \in [Name -> Reg]
      /\ \A m \in Name : BoundedReg(reg[m])
      /\ \A m \in Name : SameSeat(h.reg[m], reg[m])
      /\ \A m \in Name : m # n => reg[m] = h.reg[m]
      /\ Labels(reg[n])
  BY <1>1, AfterSliceType, LabelsRemain DEF Typed, HubState, Reboxed, SameSeat
<1>5. g = IF Asked(wake) THEN CheckRoundLimit(given) ELSE given
  BY DEF HandSlice, WithReg, WithRound
<1>6. due \in Nat /\ (Asked(wake) => due = h.round + 1) /\ (~Asked(wake) => due = h.round)
  BY <1>1
<1>7. DOMAIN one = {n} /\ one[n] = batch
  OBVIOUS
<1>8. n \in Agents(h)
  BY DEF Labels, Agents, IsObserver
<1> HIDE DEF batch, wake, due, reg, one
<1>9. Typed(w) /\ Stable(h, w) /\ w.reg = reg /\ w.sent = h.sent
  BY <1>4, WithRegType, WithRegStable, KeptFields
<1> HIDE DEF w
<1>10. /\ Typed(taken) /\ taken.reg = reg /\ Stable(h, taken)
       /\ taken.round = due /\ taken.sent = h.sent
  BY <1>6, <1>9, WithRoundType, StableTransitive, KeptFields
<1> HIDE DEF taken
<1>11. Kin(h, taken)
  <2>1. \A m \in Name : Labels(h.reg[m]) => Labels(reg[m])
    BY <1>4
  <2>2. QED
    BY <1>10, <2>1 DEF Kin, Stable
<1>12. Live(taken) = Live(h) /\ Agents(taken) = Agents(h)
  BY <1>10, StableAlike
<1>13. /\ Kin(taken, given) /\ Agents(given) = Agents(taken)
       /\ Ended(taken) => Ended(given)
       /\ given.round = taken.round
       /\ \A q, m : Alerted(given, q, m) <=> (Alerted(taken, q, m) \/ Awake(one, q, m))
       /\ Typed(given)
  <2>1. \A q \in DOMAIN one : taken.reg[q].client \in Conn /\ one[q] \in SUBSET Msg
    BY <1>1, <1>3, <1>7, <1>10 DEF Stable
  <2>2. DOMAIN one \subseteq Live(taken)
    BY <1>7, <1>12
  <2>3. QED
    BY <1>10, <2>1, <2>2, DeliverAlerts, DeliverType
<1> HIDE DEF given
<1>14. \A q, m : Alerted(given, q, m) <=> (Alerted(h, q, m) \/ (q = n /\ m \in batch /\ Waking(m)))
  <2>1. \A q, m : Alerted(taken, q, m) <=> Alerted(h, q, m)
    BY <1>10 DEF Alerted, Given
  <2>2. \A q, m : Awake(one, q, m) <=> (q = n /\ m \in batch /\ Waking(m))
    BY <1>7 DEF Awake
  <2>3. QED
    BY <1>13, <2>1, <2>2
<1>15. Ended(h) => Ended(given)
  BY <1>10, <1>13 DEF Ended
<1>16. Kin(h, given) /\ Agents(given) = Agents(h) /\ given.round = due
  BY <1>10, <1>11, <1>12, <1>13, KinTransitive
<1>17. Bill(h, r, k) => Bill(given, r, k)
  <2>1. CASE Asked(wake)
    <3>1. PICK x \in batch : Waking(x)
      BY <1>2, <2>1
    <3>2. x.id \in Nat /\ ~(x.id > k) /\ Alerted(given, n, x)
      BY <1>2, <1>14, <3>1
    <3>3. \A q \in Agents(h) : \A m : Alerted(given, q, m) /\ ~(m.id > k) => q = n
      BY <1>14 DEF Late
    <3>4. Late(given, k) = {n}
      BY <1>8, <1>16, <3>2, <3>3 DEF Late
    <3>5. \A q, m : Alerted(given, q, m) /\ m.id > k => Alerted(h, q, m)
      BY <1>2, <1>14
    <3>6. Said(given, k) = Said(h, k)
      BY <1>14, <1>16, <3>5 DEF Said
    <3>7. given.round = h.round + 1
      BY <1>6, <1>16, <2>1
    <3>8. QED
      BY <1>1, <1>8, <1>15, <1>16, <3>4, <3>6, <3>7, LateBill
  <2>2. CASE ~Asked(wake)
    <3>1. \A q, m : Alerted(given, q, m) <=> Alerted(h, q, m)
      BY <1>2, <1>14, <2>2
    <3>2. given.round = h.round
      BY <1>6, <1>16, <2>2
    <3>3. Still(h, given)
      BY <1>15, <1>16, <3>1, <3>2 DEF Still, Alike
    <3>4. QED
      BY <3>3, StillBill
  <2>3. QED
    BY <2>1, <2>2
<1>18. Still(given, g)
  BY <1>5, <1>13, CheckRoundLimitStill, SameStill
<1> HIDE DEF g
<1>19. Kin(h, g) /\ (Bill(h, r, k) => Bill(g, r, k))
  BY <1>16, <1>17, <1>18, KinTransitive, StillBill DEF Still, Alike
<1>20. QED
  BY <1>19 DEF g

\* The wakes that wait have ids up to k.
Waited(h, n, k) == \A i \in DOMAIN h.reg[n].queue : h.reg[n].queue[i].id <= k

LEMMA FlushQueueBill ==
  ASSUME NEW h, Typed(h), Linked(h), NEW n \in Live(h), Labels(h.reg[n]),
         NEW r \in Nat, NEW k \in Nat, Waited(h, n, k), Late(h, k) = {}
  PROVE  LET g == FlushQueue(h, n)
         IN  Kin(h, g) /\ (Bill(h, r, k) => Billed(g, r, k))
<1>1. CASE h.reg[n].queue = << >> \/ ~Reachable(h, n)
  <2>1. FlushQueue(h, n) = h
    BY <1>1 DEF FlushQueue
  <2>2. QED
    BY <2>1, SameStill DEF Still, Alike, Billed
<1>2. CASE ~(h.reg[n].queue = << >> \/ ~Reachable(h, n))
  <2> DEFINE s == HandSlice(h, n)
             g == CheckSessionDone(s)
  <2>1. FlushQueue(h, n) = g
    BY <1>2 DEF FlushQueue
  <2>2. Typed(s) /\ Kin(h, s) /\ (Bill(h, r, k) => Bill(s, r, k))
    BY <1>2, HandSliceKeeps, HandSliceBill DEF Waited, Keeps
  <2> HIDE DEF s
  <2>3. Alike(s, g) /\ (Billed(s, r, k) => Billed(g, r, k))
    BY <2>2, CheckSessionDoneAlike
  <2> HIDE DEF g
  <2>4. Kin(h, g) /\ (Bill(h, r, k) => Billed(g, r, k))
    BY <2>2, <2>3, KinTransitive DEF Alike, Billed
  <2>5. QED
    BY <2>1, <2>4
<1>3. QED
  BY <1>1, <1>2


-----------------------------------------------------------------------------
(* A say that is routed.                                                   *)

LEMMA AcceptBill ==
  ASSUME NEW h, Typed(h), Linked(h), \A q \in Name : Labels(h.reg[q]), Given(h) = {},
         NEW c \in Conn, NEW n \in Live(h), NEW s \in SayFrame
  PROVE  LET g == Accept(h, c, n, s)
         IN  /\ Kin(h, g) /\ Late(g, h.counter) = {} /\ Bill(g, h.round, h.counter)
             /\ g.reg[n].queue = h.reg[n].queue
<1> DEFINE rec     == [id |-> h.counter + 1, from |-> n, to |-> s.to, private |-> s.private]
           copy(q) == Tag(rec, Addressing(q, s.to))
           woken   == Woken(h, n, s)
           upto(q) == Prefix(h.reg[q].context, rec.id)
           seats   == Seats(h, n, s)
           reg     == [q \in Name |->
              IF q \in woken THEN Drained(h.reg[q], upto(q))
              ELSE IF q \in Addressed(h, n, s) THEN Enqueue(h.reg[q], copy(q))
              ELSE IF q \in Aside(h, n, s) THEN Overhear(h.reg[q], copy(q))
              ELSE h.reg[q]]
           k       == h.round + RoundsFor(woken)
           recent  == LastOf(Append(h.recent, rec), RecentWindow)
           sent    == h.sent \cup {[sink |-> Transcript, t |-> "msg", id |-> rec.id,
                                     from |-> n, done |-> s.done]}
           toSeats == [q \in seats |-> {copy(q)}]
           toWoken == [q \in woken |->
              Omitted(h.reg[q]) \cup Items(h.reg[q].context, upto(q)) \cup {copy(q)}]
           w       == WithReg(h, reg)
           v       == WithRound(w, k)
           routed  == WithRecord(v, rec.id, recent, sent)
           shown   == Deliver(routed, toSeats)
           given   == Deliver(shown, toWoken)
           limited == IF woken = {} THEN shown ELSE CheckRoundLimit(given)
           d       == h.reg[n].client
           g       == Reply(limited, d, c, "ok")
<1>1. Accept(h, c, n, s) = g
  BY DEF Accept, WithReg, WithRound, WithRecord, Typed, HubState
<1>2. rec \in Record /\ rec.id \in Nat /\ n \in Name /\ d \in Conn /\ h.counter \in Nat
  BY DEF Record, SayFrame, Live, Typed, HubState, Linked, Owned
<1>3. \A q : copy(q) \in Msg /\ copy(q).id = rec.id /\ copy(q).from = n
             /\ copy(q).adr = Addressing(q, s.to)
  <2>1. \A q : copy(q) \in Msg
    BY <1>2, AddressingType, TagType
  <2>2. QED
    BY <2>1 DEF Tag
<1>4. \A q \in Name : /\ h.reg[q] \in Reg /\ BoundedReg(h.reg[q])
                      /\ h.reg[q].context \in Seq(Msg) /\ Labels(h.reg[q])
  BY DEF Typed, HubState, Reg
<1>5. recent \in Seq(Record) /\ Len(recent) <= RecentWindow
  <2>1. Append(h.recent, rec) \in Seq(Record)
    BY <1>2, AppendProperties DEF Typed, HubState
  <2>2. QED
    BY <2>1, LastOfType, ConfigAssumption
<1>6. sent \in SUBSET Frame
  BY <1>2 DEF Frame, Routed, SayFrame, Typed, HubState, Sinks
<1>7. h.round \in Nat /\ k \in Nat /\ (woken = {} => k = h.round + 0) /\ (woken # {} => k = h.round + 1)
  BY DEF RoundsFor, Typed, HubState
<1>8. \A f \in sent : f \in h.sent \/ f.t = "msg"
  OBVIOUS
<1> DEFINE id == rec.id
<1>9. id \in Nat /\ id > h.counter /\ routed = WithRecord(v, id, recent, sent)
      /\ \A q : copy(q).id = id
  BY <1>2, <1>3
<1> HIDE DEF rec, id
<1>10. /\ woken \subseteq Addressed(h, n, s) /\ Addressed(h, n, s) \subseteq Agents(h)
       /\ seats \subseteq Live(h) /\ seats \cap Agents(h) = {}
       /\ Agents(h) \subseteq Live(h) /\ Live(h) \subseteq Name
       /\ n \notin Addressed(h, n, s) \cup Aside(h, n, s)
       /\ \A q \in woken \cup seats : h.reg[q].client \in Conn
       /\ \A q \in Addressed(h, n, s) : h.reg[q].kind # "observer"
       /\ \A q \in Addressed(h, n, s) : Addressing(q, s.to) # "overheard"
       /\ \A q \in Aside(h, n, s) : Addressing(q, s.to) = "overheard"
  BY DEF Woken, Addressed, Aside, Seats, Observers, Agents, Live, Reachable, IsObserver
<1>11. n # System
  BY <1>2, IdentityAssumption
<1>12. \A q \in Name : upto(q) \in 0 .. Len(h.reg[q].context)
  BY <1>4, PrefixBounded
<1> HIDE DEF copy, upto, woken, seats
<1>13. \A q \in Name :
         /\ q \in woken => reg[q] = Drained(h.reg[q], upto(q))
         /\ q \in Addressed(h, n, s) \ woken => reg[q] = Enqueue(h.reg[q], copy(q))
         /\ q \in Aside(h, n, s) \ Addressed(h, n, s) => reg[q] = Overhear(h.reg[q], copy(q))
         /\ q \notin Addressed(h, n, s) \cup Aside(h, n, s) => reg[q] = h.reg[q]
  BY <1>10
<1>14. \A q \in seats : toSeats[q] = {copy(q)} /\ toSeats[q] \in SUBSET Msg
  BY <1>3
<1>15. \A q \in woken : /\ toWoken[q] \in SUBSET Msg
                        /\ \A m \in toWoken[q] : Waking(m) <=> m = copy(q)
  <2> TAKE q \in woken
  <2>1. q \in Name /\ h.reg[q] \in Reg
    BY <1>4, <1>10
  <2>2. Omitted(h.reg[q]) \in SUBSET Msg
    BY <2>1, NoticeType
  <2>3. Items(h.reg[q].context, upto(q)) \in SUBSET Msg
    BY <1>4, <1>12, <2>1, ItemsType
  <2>4. \A m \in Omitted(h.reg[q]) : ~Waking(m)
    BY DEF Omitted, Line, Waking
  <2>5. \A m \in Items(h.reg[q].context, upto(q)) : ~Waking(m)
    <3>1. /\ DOMAIN h.reg[q].context = 1 .. Len(h.reg[q].context)
          /\ Len(h.reg[q].context) \in Nat
      BY <1>4, <2>1, ElementsType
    <3>2. \A i \in 1 .. upto(q) : i \in DOMAIN h.reg[q].context
      BY <1>12, <2>1, <3>1
    <3>3. Labels(h.reg[q])
      BY <1>4, <2>1
    <3>4. QED
      BY <3>2, <3>3 DEF Items, Labels, Waking
  <2>6. Waking(copy(q))
    BY <1>3, <1>10, <1>11 DEF Waking
  <2>7. toWoken[q] = Omitted(h.reg[q]) \cup Items(h.reg[q].context, upto(q)) \cup {copy(q)}
    OBVIOUS
  <2> HIDE DEF toWoken
  <2>8. \A m \in toWoken[q] : Waking(m) <=> m = copy(q)
    BY <2>4, <2>5, <2>6, <2>7
  <2>9. QED
    BY <1>3, <2>1, <2>2, <2>3, <2>7, <2>8
<1>16. \A q \in woken : copy(q) \in toWoken[q]
  OBVIOUS
<1>17. \A q \in Name : Reboxed(h.reg[q], reg[q]) /\ Labels(reg[q])
  <2> TAKE q \in Name
  <2>1. CASE q \in woken
    BY <1>4, <1>12, <1>13, <2>1, DrainedType, LabelsRemain
  <2>2. CASE q \in Addressed(h, n, s) \ woken
    BY <1>3, <1>4, <1>10, <1>13, <2>2, EnqueueType, LabelsEnqueued
  <2>3. CASE q \in Aside(h, n, s) \ Addressed(h, n, s)
    BY <1>3, <1>4, <1>10, <1>13, <2>3, OverhearType, LabelsOverheard
  <2>4. CASE q \notin Addressed(h, n, s) \cup Aside(h, n, s)
    BY <1>4, <1>13, <2>4 DEF Reboxed, SameSeat
  <2>5. QED
    BY <1>10, <2>1, <2>2, <2>3, <2>4
<1>18. reg \in [Name -> Reg] /\ \A q \in Name : BoundedReg(reg[q]) /\ SameSeat(h.reg[q], reg[q])
  BY <1>17 DEF Reboxed
<1>19. DOMAIN toSeats = seats /\ DOMAIN toWoken = woken
  OBVIOUS
<1>20. reg[n] = h.reg[n]
  BY <1>2, <1>10, <1>13
<1> HIDE DEF reg, k, recent, sent, toSeats, toWoken
<1>21. Typed(w) /\ Stable(h, w) /\ w.reg = reg /\ w.sent = h.sent
  BY <1>18, WithRegType, WithRegStable, KeptFields
<1> HIDE DEF w
<1>22. Typed(v) /\ v.reg = reg /\ Stable(w, v) /\ v.round = k
  BY <1>7, <1>21, WithRoundType
<1> HIDE DEF v
<1>23. /\ Typed(routed) /\ routed.reg = reg /\ Stable(v, routed)
       /\ routed.round = k /\ routed.sent = sent
  BY <1>5, <1>6, <1>9, <1>22, WithRecordKeeps, KeptFields DEF Keeps
<1> HIDE DEF routed
<1>24. /\ Stable(h, routed) /\ Agents(routed) = Agents(h) /\ Live(routed) = Live(h)
  BY <1>21, <1>22, <1>23, StableTransitive, StableAlike
<1>25. Kin(h, routed)
  BY <1>17, <1>23, <1>24 DEF Kin, Stable
<1>26. \A q, m : ~Alerted(routed, q, m)
  <2>1. Given(routed) = {}
    BY <1>8, <1>23 DEF Given
  <2>2. QED
    BY <2>1 DEF Alerted
<1>27. /\ DOMAIN toSeats \subseteq Live(routed)
       /\ \A q \in DOMAIN toSeats : routed.reg[q].client \in Conn /\ toSeats[q] \in SUBSET Msg
       /\ \A q \in Agents(routed) : \A m : ~Awake(toSeats, q, m)
  BY <1>10, <1>14, <1>19, <1>24 DEF Stable, Awake
<1>28. /\ Typed(shown) /\ Stable(routed, shown) /\ Still(routed, shown)
       /\ shown.reg[n].queue = reg[n].queue
  BY <1>2, <1>23, <1>27, DeliverType, DeliverStill, BusiedType
<1> HIDE DEF shown
<1>29. Stable(h, shown) /\ Agents(shown) = Agents(h) /\ Live(shown) = Live(h)
  BY <1>24, <1>28, StableTransitive, StableAlike
<1>30. \A q \in Agents(h) : \A m : ~Alerted(shown, q, m)
  BY <1>24, <1>26, <1>28 DEF Still, Alike
<1>31. Kin(h, shown) /\ shown.round = k
  BY <1>23, <1>25, <1>28, KinTransitive DEF Still, Alike
<1>32. /\ DOMAIN toWoken \subseteq Live(shown)
       /\ \A q \in DOMAIN toWoken : shown.reg[q].client \in Conn /\ toWoken[q] \in SUBSET Msg
  BY <1>10, <1>15, <1>19, <1>29 DEF Stable
<1>33. /\ Typed(given) /\ given.reg[n].queue = reg[n].queue
       /\ Kin(shown, given) /\ Agents(given) = Agents(shown) /\ given.round = shown.round
       /\ \A q, m : Alerted(given, q, m) <=> (Alerted(shown, q, m) \/ Awake(toWoken, q, m))
  BY <1>2, <1>28, <1>32, DeliverType, DeliverAlerts, BusiedType
<1> HIDE DEF given
<1>34. \A q \in Agents(h) : \A m : Alerted(given, q, m) <=> (q \in woken /\ m = copy(q))
  <2>1. \A q, m : Awake(toWoken, q, m) <=> (q \in woken /\ m = copy(q))
    BY <1>15, <1>16, <1>19 DEF Awake
  <2>2. QED
    BY <1>30, <1>33, <2>1
<1>35. CASE woken = {}
  <2>1. Typed(limited) /\ Agents(limited) = Agents(h) /\ limited = shown
    BY <1>28, <1>29, <1>35
  <2>2. Late(limited, h.counter) = {} /\ Said(limited, h.counter) = 0
    BY <1>30, <2>1 DEF Late, Said
  <2>3. Cost(limited, h.counter) = 0
    BY <2>2, FS_EmptySet DEF Cost
  <2>4. Bill(limited, h.round, h.counter)
    BY <1>7, <1>31, <1>35, <2>1, <2>3 DEF Bill
  <2>5. Still(limited, g)
    BY <1>2, <2>1, ReplyStill
  <2>6. g.reg[n].queue = reg[n].queue
    <3>1. g.reg = limited.reg
      BY <1>2, <2>1, ReplyType
    <3>2. QED
      BY <1>28, <2>1, <3>1
  <2> HIDE DEF limited, g
  <2>7. Kin(h, g) /\ Late(g, h.counter) = {} /\ Bill(g, h.round, h.counter)
    BY <1>31, <2>1, <2>2, <2>4, <2>5, KinTransitive, StillBill DEF Still, Alike
  <2>8. QED
    BY <1>1, <1>20, <2>6, <2>7
<1>36. CASE woken # {}
  <2>1. Agents(given) = Agents(h) /\ Kin(h, given) /\ given.round = h.round + 1
    BY <1>7, <1>29, <1>31, <1>33, <1>36, KinTransitive
  <2>2. Late(given, h.counter) = {}
    BY <1>9, <1>34, <2>1 DEF Late
  <2>3. Said(given, h.counter) = 1
    BY <1>9, <1>10, <1>34, <1>36, <2>1 DEF Said
  <2>4. Cost(given, h.counter) = 1
    BY <2>2, <2>3, FS_EmptySet DEF Cost
  <2>5. Bill(given, h.round, h.counter)
    BY <2>1, <2>4 DEF Bill
  <2>6. /\ Typed(limited) /\ Still(given, limited)
        /\ limited.reg[n].queue = given.reg[n].queue
    BY <1>2, <1>33, <1>36, CheckRoundLimitStill, CheckRoundLimitType
  <2> HIDE DEF limited
  <2>7. Still(limited, g) /\ g.reg = limited.reg
    BY <1>2, <2>6, ReplyStill, ReplyType
  <2> HIDE DEF g
  <2>8. Still(given, g)
    BY <2>6, <2>7, StillTransitive
  <2>9. Kin(h, g) /\ Late(g, h.counter) = {} /\ Bill(g, h.round, h.counter)
    BY <2>1, <2>2, <2>5, <2>8, KinTransitive, StillBill DEF Still, Alike
  <2>10. QED
    BY <1>1, <1>20, <1>33, <2>6, <2>7, <2>9
<1>37. QED
  BY <1>35, <1>36


-----------------------------------------------------------------------------
(* The frames of a participant.                                            *)

\* A step from h to g charges for what it hands over.
Pays(h, g) == Kin(h, g) /\ Billed(g, h.round, h.counter)

LEMMA StillPays ==
  ASSUME NEW h, Typed(h), Given(h) = {}, NEW g, Still(h, g)
  PROVE  /\ Late(g, h.counter) = {} /\ Bill(g, h.round, h.counter)
         /\ Pays(h, g)
<1>1. h.round \in Nat /\ Fresh(h, h.round)
  BY DEF Typed, HubState, Fresh
<1>2. Late(h, h.counter) = {} /\ Bill(h, h.round, h.counter)
  BY <1>1, FreshBill
<1>3. QED
  BY <1>2, StillBill DEF Still, Alike, Pays, Billed

LEMMA SystemMessageStill ==
  ASSUME NEW h, Typed(h), Linked(h), \A n \in Name : Labels(h.reg[n]),
         NEW rank \in Ranks(Agents(h))
  PROVE  Still(h, SystemMessage(h, rank))
<1> DEFINE note(n)  == [id |-> h.counter + rank[n], from |-> System, to |-> n,
                        adr |-> "direct", private |-> FALSE, count |-> 0]
           woken    == {n \in Agents(h) : h.reg[n].state = "idle" /\ Reachable(h, n)}
           upto(n)  == Prefix(h.reg[n].context, note(n).id)
           reg      == [n \in Name |->
                          IF n \in woken THEN Drained(h.reg[n], upto(n))
                          ELSE IF n \in Agents(h) THEN Enqueue(h.reg[n], note(n))
                          ELSE h.reg[n]]
           batch    == [n \in woken |-> Omitted(h.reg[n])
                          \cup Items(h.reg[n].context, upto(n)) \cup {note(n)}]
           k        == h.counter + Cardinality(Agents(h))
           w        == WithReg(h, reg)
           noted    == WithCounter(w, k)
           g        == Deliver(noted, batch)
<1>1. SystemMessage(h, rank) = g
  BY DEF SystemMessage, WithReg, WithCounter, Typed, HubState
<1>2. k \in Nat
  BY AgentsFinite DEF Typed, HubState
<1>3. \A n \in Agents(h) : /\ n \in Name /\ note(n) \in Msg /\ note(n).from = System
                           /\ h.reg[n].kind # "observer"
  <2> TAKE n \in Agents(h)
  <2>1. n \in Name /\ h.reg[n].kind # "observer"
    BY DEF Agents, Live, IsObserver
  <2>2. h.counter + rank[n] \in Nat
    BY AgentsFinite DEF Ranks, Typed, HubState
  <2>3. QED
    BY <2>1, <2>2 DEF Msg
<1>4. \A n \in Name : /\ h.reg[n] \in Reg /\ BoundedReg(h.reg[n]) /\ Labels(h.reg[n])
                      /\ h.reg[n].context \in Seq(Msg)
  BY DEF Typed, HubState, Reg
<1> HIDE DEF note
<1>5. \A n \in Name : upto(n) \in 0 .. Len(h.reg[n].context)
  BY <1>4, PrefixBounded
<1>6. woken \subseteq Agents(h) /\ \A n \in woken : h.reg[n].client \in Conn
  BY DEF Reachable
<1> HIDE DEF upto
<1>7. \A n \in woken : batch[n] \in SUBSET Msg /\ \A m \in batch[n] : ~Waking(m)
  <2> TAKE n \in woken
  <2>1. n \in Name /\ note(n) \in Msg /\ h.reg[n] \in Reg
    BY <1>3, <1>4, <1>6
  <2>2. Omitted(h.reg[n]) \in SUBSET Msg
    BY <2>1, NoticeType
  <2>3. Items(h.reg[n].context, upto(n)) \in SUBSET Msg
    BY <1>4, <1>5, <2>1, ItemsType
  <2>4. \A m \in Omitted(h.reg[n]) : ~Waking(m)
    BY DEF Omitted, Line, Waking
  <2>5. \A m \in Items(h.reg[n].context, upto(n)) : ~Waking(m)
    <3>1. /\ DOMAIN h.reg[n].context = 1 .. Len(h.reg[n].context)
          /\ Len(h.reg[n].context) \in Nat
      BY <1>4, <2>1, ElementsType
    <3>2. \A i \in 1 .. upto(n) : i \in DOMAIN h.reg[n].context
      BY <1>5, <2>1, <3>1
    <3>3. Labels(h.reg[n])
      BY <1>4, <2>1
    <3>4. QED
      BY <3>2, <3>3 DEF Items, Labels, Waking
  <2>6. ~Waking(note(n))
    BY <1>3, <1>6 DEF Waking
  <2>7. QED
    BY <2>1, <2>2, <2>3, <2>4, <2>5, <2>6
<1>8. \A n \in Name : Reboxed(h.reg[n], reg[n]) /\ Labels(reg[n])
  <2> TAKE n \in Name
  <2>1. CASE n \in woken
    BY <1>4, <1>5, <2>1, DrainedType, LabelsRemain
  <2>2. CASE n \notin woken /\ n \in Agents(h)
    BY <1>3, <1>4, <2>2, EnqueueType, LabelsEnqueued
  <2>3. CASE n \notin woken /\ n \notin Agents(h)
    BY <1>4, <1>6, <2>3 DEF Reboxed, SameSeat
  <2>4. QED
    BY <2>1, <2>2, <2>3
<1>9. reg \in [Name -> Reg] /\ \A n \in Name : BoundedReg(reg[n]) /\ SameSeat(h.reg[n], reg[n])
  BY <1>8 DEF Reboxed
<1>10. DOMAIN batch = woken
  OBVIOUS
<1> HIDE DEF reg, batch, k, woken
<1>11. /\ Typed(w) /\ Stable(h, w) /\ w.reg = reg /\ SameFloor(h, w) /\ w.sent = h.sent
  BY <1>9, WithRegType, WithRegStable, KeptFields
<1> HIDE DEF w
<1>12. Typed(noted) /\ noted.reg = reg /\ noted.sent = h.sent /\ Keeps(w, noted)
  BY <1>2, <1>11, WithCounterKeeps, KeptFields DEF Keeps
<1>13. noted.round = h.round
  BY <1>11 DEF WithCounter, SameFloor, Typed, HubState
<1> HIDE DEF noted
<1>14. Stable(h, noted) /\ Agents(noted) = Agents(h) /\ Live(noted) = Live(h)
  BY <1>11, <1>12, StableTransitive, StableAlike DEF Keeps, Follows
<1>15. Still(h, noted)
  <2>1. Kin(h, noted)
    BY <1>8, <1>12, <1>14 DEF Kin, Stable
  <2>2. QED
    BY <1>12, <1>13, <1>14, <2>1, SentAlike DEF Still, Given
<1>16. /\ DOMAIN batch \subseteq Live(noted)
       /\ \A n \in DOMAIN batch : noted.reg[n].client \in Conn /\ batch[n] \in SUBSET Msg
       /\ \A n \in Agents(noted) : \A m : ~Awake(batch, n, m)
  BY <1>3, <1>6, <1>7, <1>10, <1>14 DEF Stable, Agents, Awake
<1>17. Still(noted, g)
  BY <1>12, <1>16, DeliverStill
<1> HIDE DEF g
<1>18. QED
  BY <1>1, <1>15, <1>17, StillTransitive

LEMMA BufferGoalStill ==
  ASSUME NEW h, Typed(h)
  PROVE  Still(h, BufferGoal(h))
<1> DEFINE reg == [n \in Name |-> IF n \in Agents(h)
                     THEN Overhear(h.reg[n], Line("overheard", 0)) ELSE h.reg[n]]
           g   == WithReg(h, reg)
<1>1. BufferGoal(h) = g
  BY DEF BufferGoal, WithReg
<1>2. \A n \in Name : /\ Reboxed(h.reg[n], reg[n])
                      /\ Labels(h.reg[n]) => Labels(reg[n])
  <2> TAKE n \in Name
  <2>1. /\ h.reg[n] \in Reg /\ BoundedReg(h.reg[n]) /\ Line("overheard", 0) \in Msg
        /\ Line("overheard", 0).adr = "overheard"
    BY LineType DEF Typed, HubState, Line
  <2>2. CASE n \in Agents(h)
    BY <2>1, <2>2, OverhearType, LabelsOverheard
  <2>3. CASE n \notin Agents(h)
    BY <2>1, <2>3 DEF Reboxed, SameSeat
  <2>4. QED
    BY <2>2, <2>3
<1>3. reg \in [Name -> Reg] /\ \A n \in Name : BoundedReg(reg[n]) /\ SameSeat(h.reg[n], reg[n])
  BY <1>2 DEF Reboxed
<1> HIDE DEF reg
<1>4. Stable(h, g) /\ g.reg = reg /\ SameFloor(h, g) /\ g.sent = h.sent
  BY <1>3, WithRegType, WithRegStable, KeptFields
<1> HIDE DEF g
<1>5. Kin(h, g) /\ Agents(g) = Agents(h)
  BY <1>2, <1>4, StableAlike DEF Kin, Stable
<1>6. Still(h, g)
  BY <1>4, <1>5, SentAlike DEF Still, SameFloor, Given
<1>7. QED
  BY <1>1, <1>6

LEMMA RefuseStill ==
  ASSUME NEW h, Inv(h), NEW c \in Conn, NEW n \in Live(h)
  PROVE  Still(h, Refuse(h, c, n))
<1> DEFINE told == Reply(h, h.reg[n].client, c, "err")
<1>1. n \in Name /\ h.reg[n].client \in Conn /\ Typed(h)
  BY DEF Inv, Linked, Owned, Live
<1>2. Typed(told) /\ Still(h, told)
  BY <1>1, ReplyType, ReplyStill
<1>3. Refuse(h, c, n) = IF IsObserver(h, n) THEN told ELSE Emit(told, "rejected", n)
  BY DEF Refuse
<1> HIDE DEF told
<1>4. Still(told, Emit(told, "rejected", n))
  BY <1>1, <1>2, EmitStill DEF Events
<1>5. QED
  BY <1>2, <1>3, <1>4, StillTransitive

\* A command changes the round in no way but back to 0.
LEMMA RunCmdPays ==
  ASSUME NEW h, Inv(h), \A n \in Name : Labels(h.reg[n]),
         NEW x \in [cmd : CmdNames, n : Nat], NEW rank \in Ranks(Agents(h))
  PROVE  LET g == RunCmd(h, x, rank)
         IN  Kin(h, g) /\ (Still(h, g) \/ g.round = 0)
<1>0. /\ Typed(h) /\ Linked(h) /\ NoName \in Name \cup {NoName}
      /\ h.round \in Nat /\ h.limit \in Nat \ {0}
      /\ h.frozen \in BOOLEAN /\ h.muted \in BOOLEAN
  BY DEF Inv, Typed, HubState
\* What the floor is set to first.
<1>1. ASSUME NEW frozen \in BOOLEAN, NEW muted \in BOOLEAN, NEW limit \in Nat \ {0},
             LimitFrozen(h) /\ h.round >= limit => frozen
      PROVE  LET g == WithFloor(h, h.round, frozen, muted, limit)
             IN  Typed(g) /\ Still(h, g) /\ Keeps(h, g)
  <2> DEFINE g == WithFloor(h, h.round, frozen, muted, limit)
  <2>1. Keeps(h, g) /\ g.reg = h.reg /\ g.sent = h.sent
    BY <1>0, <1>1, WithFloorKeeps, KeptFields
  <2>2. g.round = h.round
    BY <1>0 DEF WithFloor, Typed, HubState
  <2> HIDE DEF g
  <2>3. Still(h, g)
    BY <2>1, <2>2, MarkedStill
  <2>4. QED
    BY <2>1, <2>3 DEF Keeps, g
<1>2. ASSUME NEW g, Typed(g), Still(h, g), NEW event \in Events
      PROVE  Still(h, Emit(g, event, NoName))
  BY <1>0, <1>2, EmitStill, StillTransitive
<1>3. ASSUME Still(h, RunCmd(h, x, rank))
      PROVE  Kin(h, RunCmd(h, x, rank))
  BY <1>3 DEF Still, Alike
<1>4. CASE x.cmd = "freeze"
  <2> DEFINE g == WithFloor(h, h.round, TRUE, h.muted, h.limit)
  <2>1. RunCmd(h, x, rank) = Emit(g, "frozen", NoName)
    BY <1>0, <1>4 DEF RunCmd, WithFloor, Typed, HubState
  <2>2. Typed(g) /\ Still(h, g)
    BY <1>0, <1>1
  <2> HIDE DEF g
  <2>3. QED
    BY <1>2, <1>3, <2>1, <2>2 DEF Events
<1>5. CASE x.cmd = "resume"
  <2> DEFINE limit == ResumedLimit(h, x.n)
             g     == WithFloor(h, h.round, FALSE, h.muted, limit)
  <2>1. RunCmd(h, x, rank) = Emit(g, "resumed", NoName)
    BY <1>0, <1>5 DEF RunCmd, WithFloor, Typed, HubState
  <2>2. limit \in Nat \ {0} /\ h.round < limit
    BY <1>0, ResumedAbove
  <2> HIDE DEF limit
  <2>3. ~(h.round >= limit)
    BY <1>0, <2>2
  <2>4. Typed(g) /\ Still(h, g)
    BY <1>0, <1>1, <2>2, <2>3
  <2> HIDE DEF g
  <2>5. QED
    BY <1>2, <1>3, <2>1, <2>4 DEF Events
<1>6. CASE x.cmd = "reset"
  <2> DEFINE g == WithFloor(h, 0, FALSE, h.muted, h.limit)
  <2>1. RunCmd(h, x, rank) = Emit(g, "reset", NoName)
    BY <1>0, <1>6 DEF RunCmd, WithFloor, Typed, HubState
  <2>2. ~(0 >= h.limit)
    BY <1>0
  <2>3. Keeps(h, g) /\ g.reg = h.reg /\ g.round = 0
    BY <1>0, <2>2, WithFloorKeeps DEF WithFloor, Typed, HubState
  <2> HIDE DEF g
  <2>4. Kin(h, g)
    BY <2>3, BoxesKin
  <2>5. Still(g, Emit(g, "reset", NoName))
    BY <1>0, <2>3, EmitStill DEF Keeps, Events
  <2>6. QED
    BY <2>1, <2>3, <2>4, <2>5, KinTransitive DEF Still, Alike
<1>7. ASSUME NEW b \in BOOLEAN, NEW event \in {"muted", "unmuted"}
      PROVE  LET e == Emit(WithFloor(h, h.round, h.frozen, b, h.limit), event, NoName)
             IN  Still(h, SystemMessage(e, rank))
  <2> DEFINE g == WithFloor(h, h.round, h.frozen, b, h.limit)
             e == Emit(g, event, NoName)
  <2>1. LimitFrozen(h) /\ h.round >= h.limit => h.frozen
    BY DEF LimitFrozen
  <2>2. Typed(g) /\ Still(h, g) /\ Keeps(h, g)
    BY <1>0, <1>1, <2>1
  <2> HIDE DEF g
  <2>3. Keeps(g, e) /\ Still(h, e)
    BY <1>0, <1>2, <2>2, EmitKeeps DEF Events
  <2> HIDE DEF e
  <2>4. Keeps(h, e)
    BY <2>2, <2>3, KeepsTransitive
  <2>5. Typed(e) /\ Linked(e) /\ Agents(e) = Agents(h) /\ \A n \in Name : Labels(e.reg[n])
    BY <1>0, <2>3, <2>4, KeepsInvariants DEF Keeps, Still, Alike, Kin
  <2>6. Still(e, SystemMessage(e, rank))
    BY <2>5, SystemMessageStill
  <2>7. Still(h, SystemMessage(e, rank))
    BY <2>3, <2>6, StillTransitive
  <2>8. QED
    BY <2>7 DEF e, g
<1>8. CASE x.cmd = "mute"
  <2>1. RunCmd(h, x, rank) =
          SystemMessage(Emit(WithFloor(h, h.round, h.frozen, TRUE, h.limit),
                             "muted", NoName), rank)
    BY <1>0, <1>8 DEF RunCmd, WithFloor, Typed, HubState
  <2>2. QED
    BY <1>3, <1>7, <2>1
<1>9. CASE x.cmd = "unmute"
  <2>1. RunCmd(h, x, rank) =
          SystemMessage(Emit(WithFloor(h, h.round, h.frozen, FALSE, h.limit),
                             "unmuted", NoName), rank)
    BY <1>0, <1>9 DEF RunCmd, WithFloor, Typed, HubState
  <2>2. QED
    BY <1>3, <1>7, <2>1
<1>10. CASE x.cmd = "goal"
  <2> DEFINE e == Emit(h, "goal_set", NoName)
  <2>1. RunCmd(h, x, rank) = BufferGoal(e)
    BY <1>10 DEF RunCmd
  <2>2. Typed(e) /\ Still(h, e)
    BY <1>0, EmitKeeps, EmitStill DEF Events, Keeps
  <2> HIDE DEF e
  <2>3. Still(h, BufferGoal(e))
    BY <2>2, BufferGoalStill, StillTransitive
  <2>4. QED
    BY <1>3, <2>1, <2>3
<1>11. QED
  BY <1>4, <1>5, <1>6, <1>8, <1>9, <1>10 DEF CmdNames

LEMMA HandleCmdPays ==
  ASSUME NEW h, Inv(h), \A q \in Name : Labels(h.reg[q]), Given(h) = {},
         NEW c \in Conn, NEW n \in Live(h),
         NEW x \in [cmd : CmdNames, n : Nat], NEW rank \in Ranks(Agents(h))
  PROVE  Pays(h, HandleCmd(h, c, n, x, rank))
<1> DEFINE r == RunCmd(h, x, rank)
           d == h.reg[n].client
<1>1. d \in Conn /\ Typed(h)
  BY DEF Inv, Linked, Owned
<1>2. HandleCmd(h, c, n, x, rank) =
        IF IsObserver(h, n) THEN Reply(r, d, c, "ok") ELSE Reply(h, d, c, "err")
  BY DEF HandleCmd
<1>3. Typed(r) /\ Kin(h, r) /\ (Still(h, r) \/ r.round = 0)
  BY RunCmdKeeps, RunCmdPays DEF Keeps
<1> HIDE DEF r, d
<1>4. Still(r, Reply(r, d, c, "ok")) /\ Still(h, Reply(h, d, c, "err"))
  BY <1>1, <1>3, ReplyStill
<1>5. Pays(h, Reply(h, d, c, "err"))
  BY <1>1, <1>4, StillPays
<1>6. Pays(h, Reply(r, d, c, "ok"))
  <2>1. CASE Still(h, r)
    BY <1>1, <1>4, <2>1, StillTransitive, StillPays
  <2>2. CASE r.round = 0
    BY <1>3, <1>4, <2>2, KinTransitive DEF Still, Alike, Pays, Billed
  <2>3. QED
    BY <1>3, <2>1, <2>2
<1>7. QED
  BY <1>2, <1>5, <1>6


\* A participant is idle, and its queue is flushed.
LEMMA IdleBill ==
  ASSUME NEW h, Inv(h), NEW n \in Live(h), Labels(h.reg[n]), NEW r \in Nat, NEW k \in Nat,
         Waited(h, n, k), Late(h, k) = {}, Bill(h, r, k)
  PROVE  LET g == FlushQueue(WithState(h, n, "idle"), n)
         IN  Kin(h, g) /\ Billed(g, r, k)
<1> DEFINE i == WithState(h, n, "idle")
<1>1. n \in Name /\ Typed(h)
  BY DEF Live, Inv
<1>2. Typed(i) /\ Stable(h, i) /\ Still(h, i) /\ Quiet(h, i)
  BY <1>1, WithStateType, MarksStill, MarksCalm DEF States
<1> HIDE DEF i
<1>3. Linked(i) /\ n \in Live(i)
  BY <1>2, StableLinked, StableAlike DEF Inv
<1>4. Labels(i.reg[n]) /\ Waited(i, n, k)
  BY <1>1, <1>2 DEF Still, Alike, Kin, Waited, Quiet, Calm
<1>5. Late(i, k) = {} /\ Bill(i, r, k)
  BY <1>2, StillBill
<1>6. Kin(i, FlushQueue(i, n)) /\ Billed(FlushQueue(i, n), r, k)
  BY <1>2, <1>3, <1>4, <1>5, FlushQueueBill
<1>7. Kin(h, i)
  BY <1>2 DEF Still, Alike
<1>8. QED
  BY <1>6, <1>7, KinTransitive DEF i

LEMMA WaitedAlways ==
  ASSUME NEW h, Mail(h), NEW n \in Name
  PROVE  Waited(h, n, h.counter)
BY DEF Mail, Sound, Waited

LEMMA HandleStatePays ==
  ASSUME NEW h, Inv(h), Upheld(h), \A q \in Name : Labels(h.reg[q]), Given(h) = {},
         NEW n \in Live(h), NEW state \in States
  PROVE  Pays(h, HandleState(h, n, state))
<1> DEFINE i == WithState(h, n, state)
<1>1. HandleState(h, n, state) = IF state = "idle" THEN FlushQueue(i, n) ELSE i
  BY DEF HandleState, WithState
<1>2. n \in Name /\ Typed(h) /\ h.round \in Nat /\ h.counter \in Nat
  BY DEF Live, Inv, Typed, HubState
<1>3. Still(h, i)
  BY <1>2, MarksStill
<1>4. CASE state = "idle"
  <2>1. Late(h, h.counter) = {} /\ Bill(h, h.round, h.counter)
    BY <1>2, SameStill, StillPays
  <2>2. Waited(h, n, h.counter)
    BY <1>2, WaitedAlways DEF Upheld
  <2>3. QED
    BY <1>1, <1>2, <1>4, <2>1, <2>2, IdleBill DEF Pays
<1>5. CASE state # "idle"
  <2> HIDE DEF i
  <2>1. QED
    BY <1>1, <1>2, <1>3, <1>5, StillPays
<1>6. QED
  BY <1>4, <1>5

LEMMA HandleSayPays ==
  ASSUME NEW h, Inv(h), Upheld(h), \A q \in Name : Labels(h.reg[q]), Given(h) = {},
         NEW c \in Conn, NEW n \in Live(h), NEW s \in SayFrame, NEW screen
  PROVE  Pays(h, HandleSay(h, c, n, s, screen))
<1> DEFINE accepted == Verdict(h, n, s, screen) = "pass"
           routed   == IF accepted THEN Accept(h, c, n, s) ELSE Refuse(h, c, n)
           flushed  == IF ~h.reg[n].capable /\ routed.reg[n].state # "idle"
                       THEN FlushQueue(SetIdle(routed, n), n) ELSE routed
           marked   == [flushed EXCEPT !.reg[n].finished = s.done]
           r        == h.round
           k        == h.counter
<1>1. HandleSay(h, c, n, s, screen) =
        IF ~accepted \/ IsObserver(h, n) THEN flushed
        ELSE IF s.done THEN CheckSessionDone(marked) ELSE marked
  BY DEF HandleSay
<1>2. /\ n \in Name /\ s.done \in BOOLEAN /\ Typed(h) /\ Linked(h)
      /\ r \in Nat /\ k \in Nat
  BY DEF Live, SayFrame, Inv, Typed, HubState
<1>3. Waited(h, n, k)
  BY <1>2, WaitedAlways DEF Upheld
<1>4. Keeps(h, routed)
  BY AcceptKeeps, RefuseKeeps DEF Inv
<1>5. Kin(h, routed) /\ Late(routed, k) = {} /\ Bill(routed, r, k) /\ Waited(routed, n, k)
  <2>1. CASE accepted
    <3>1. routed = Accept(h, c, n, s)
      BY <2>1
    <3> HIDE DEF routed
    <3>2. /\ Kin(h, routed) /\ Late(routed, k) = {} /\ Bill(routed, r, k)
          /\ routed.reg[n].queue = h.reg[n].queue
      BY <1>2, <3>1, AcceptBill
    <3>3. QED
      BY <1>3, <3>2 DEF Waited
  <2>2. CASE ~accepted
    <3>1. routed = Refuse(h, c, n)
      BY <2>2
    <3> HIDE DEF routed
    <3>2. Still(h, routed) /\ Quiet(h, routed)
      BY <3>1, RefuseStill, RefuseQuiet
    <3>3. Late(routed, k) = {} /\ Bill(routed, r, k) /\ Kin(h, routed)
      BY <1>2, <3>2, StillPays DEF Still, Alike
    <3>4. Waited(routed, n, k)
      BY <1>2, <1>3, <3>2 DEF Waited, Quiet, Calm
    <3>5. QED
      BY <3>3, <3>4
  <2>3. QED
    BY <2>1, <2>2
<1> HIDE DEF routed
<1>6. Inv(routed) /\ n \in Live(routed)
  BY <1>4, KeepsInv
<1>7. Inv(flushed) /\ Kin(h, flushed) /\ Billed(flushed, r, k)
  <2> DEFINE i == WithState(routed, n, "idle")
             f == FlushQueue(i, n)
  <2>1. SetIdle(routed, n) = i
    BY DEF SetIdle, WithState
  <2>2. Labels(routed.reg[n])
    BY <1>2, <1>5 DEF Kin
  <2>3. Kin(routed, f) /\ Billed(f, r, k)
    BY <1>2, <1>5, <1>6, <2>2, IdleBill
  <2>4. Inv(f)
    <3>1. Typed(i)
      BY <1>2, <1>6, WithStateType DEF Inv, States
    <3>2. Keeps(i, i)
      BY <3>1 DEF Keeps, Follows, Stable
    <3>3. QED
      BY <1>6, <3>2, IdleFlushed
  <2> HIDE DEF f
  <2>5. Kin(h, f)
    BY <1>5, <2>3, KinTransitive
  <2>6. flushed \in {f, routed}
    BY <2>1 DEF f
  <2>7. QED
    BY <1>5, <1>6, <2>3, <2>4, <2>5, <2>6 DEF Billed
<1> HIDE DEF flushed
<1>8. Typed(marked) /\ Kin(h, marked) /\ Billed(marked, r, k)
  <2> DEFINE done == s.done
             g    == [flushed EXCEPT !.reg[n].finished = done]
  <2>1. Typed(flushed) /\ marked = g /\ done \in BOOLEAN
    BY <1>2, <1>7 DEF Inv
  <2> HIDE DEF done, marked
  <2>2. Keeps(flushed, g) /\ Still(flushed, g)
    BY <1>2, <2>1, MarkKeeps, MarksStill
  <2> HIDE DEF g
  <2>3. QED
    BY <1>7, <2>1, <2>2, KinTransitive, StillBill DEF Keeps, Still, Alike
<1> HIDE DEF marked
<1>9. Kin(h, CheckSessionDone(marked)) /\ Billed(CheckSessionDone(marked), r, k)
  BY <1>8, CheckSessionDoneAlike, KinTransitive DEF Alike
<1>10. QED
  BY <1>1, <1>7, <1>8, <1>9 DEF Pays


LEMMA StillFresh ==
  ASSUME NEW h, NEW g, Still(h, g), Given(g) \subseteq Given(h), NEW r, Fresh(h, r)
  PROVE  Fresh(g, r)
BY DEF Still, Alike, Fresh

LEMMA DepartedFresh ==
  ASSUME NEW h, Inv(h), NEW n \in Live(h)
  PROVE  LET g == Departed(h, n)
         IN  /\ Kin(h, g) /\ \A r : Fresh(h, r) => Fresh(g, r)
<1> DEFINE reg == [h.reg EXCEPT ![n].where = "dead", ![n].client = NoConn]
           g   == WithReg(h, reg)
<1>0. n \in Name /\ h.reg \in [Name -> Reg] /\ h.reg[n].where = "live"
  BY DEF Inv, Typed, HubState, Live
<1>1. Departed(h, n) = g
  BY DEF Departed, WithReg
<1>2. \A m \in Name : /\ reg[m].queue = h.reg[m].queue /\ reg[m].context = h.reg[m].context
                      /\ reg[m].kind = h.reg[m].kind
                      /\ reg[m].where # "none" => h.reg[m].where # "none"
  BY <1>0 DEF Reg
<1> HIDE DEF reg
<1>3. g.reg = reg /\ g.sent = h.sent /\ g.round = h.round
  BY DEF WithReg, Inv, Typed, HubState
<1> HIDE DEF g
<1>4. Kin(h, g)
  BY <1>2, <1>3 DEF Kin, Labels
<1>5. \A r : Fresh(h, r) => Fresh(g, r)
  BY <1>3 DEF Fresh, Given, Ended
<1>6. QED
  BY <1>1, <1>4, <1>5

LEMMA DisconnectFresh ==
  ASSUME NEW h, Inv(h), NEW c \in Conn
  PROVE  LET g == Disconnect(h, c)
         IN  Kin(h, g) /\ \A r : Fresh(h, r) => Fresh(g, r)
<1> DEFINE n == h.conn[c].name
<1>1. CASE Holds(h, c)
  <2> DEFINE d == Departed(h, n)
             e == Emit(d, "peer_left", n)
             s == CheckSessionDone(e)
             g == Close(s, c)
  <2>1. n \in Live(h) /\ n \in Name /\ "peer_left" \in Events
    BY <1>1 DEF Holds, Live, Events
  <2>2. Disconnect(h, c) = g
    BY <1>1 DEF Disconnect, Depart, Departed
  <2>3. Typed(d) /\ Kin(h, d) /\ \A r : Fresh(h, r) => Fresh(d, r)
    BY <2>1, DepartedType, DepartedFresh
  <2> HIDE DEF d
  <2>4. Typed(e) /\ Quiet(d, e) /\ Still(d, e)
    BY <2>1, <2>3, EmitKeeps, EmitQuiet, EmitStill DEF Keeps
  <2> HIDE DEF e
  <2>5. Kin(d, e) /\ \A r : Fresh(d, r) => Fresh(e, r)
    BY <2>4, StillFresh DEF Still, Alike, Quiet, Calm
  <2>6. Typed(s) /\ Alike(e, s) /\ \A r : Fresh(e, r) => Fresh(s, r)
    BY <2>4, CheckSessionDoneKeeps, CheckSessionDoneAlike DEF Keeps
  <2> HIDE DEF s
  <2>7. Quiet(s, g) /\ Still(s, g)
    BY <2>6, CloseQuiet, CloseStill
  <2> HIDE DEF g
  <2>8. Kin(s, g) /\ \A r : Fresh(s, r) => Fresh(g, r)
    BY <2>7, StillFresh DEF Still, Alike, Quiet, Calm
  <2>9. Kin(h, g)
    BY <2>3, <2>5, <2>6, <2>8, KinTransitive DEF Alike
  <2>10. QED
    BY <2>2, <2>3, <2>5, <2>6, <2>8, <2>9
<1>2. CASE ~Holds(h, c)
  <2> DEFINE g == Close(h, c)
  <2>1. Disconnect(h, c) = g
    BY <1>2 DEF Disconnect
  <2>2. Quiet(h, g) /\ Still(h, g)
    BY CloseQuiet, CloseStill DEF Inv
  <2> HIDE DEF g
  <2>3. Kin(h, g) /\ \A r : Fresh(h, r) => Fresh(g, r)
    BY <2>2, StillFresh DEF Still, Alike, Quiet, Calm
  <2>4. QED
    BY <2>1, <2>3
<1>3. QED
  BY <1>1, <1>2


\* A name is not claimed by peers of both kinds.
KindsKept == \A x, y \in Hellos : x.name = y.name => x.kind = y.kind

LEMMA NamedTidy ==
  ASSUME KindsKept, NEW h, Inv(h), Tidy(h), NEW x \in Hellos
  PROVE  LET g == Named(h, x)
         IN  /\ Tidy(g) /\ g.counter = h.counter
             /\ \A r : Fresh(h, r) => Fresh(g, r)
<1> DEFINE n    == x.name
           c    == x.conn
           p    == h.reg[n]
           q    == Registered(p, x)
           reg  == [h.reg EXCEPT ![n] = q]
           conn == [h.conn EXCEPT ![c].name = n]
           w    == WithReg(h, reg)
           g    == WithConn(w, conn)
<1>0. /\ n \in Name /\ Typed(h) /\ h.reg \in [Name -> Reg]
      /\ \A y \in Hellos : y.name \in Name
  BY InputAssumption DEF Hello, Inv, Typed, HubState
<1>1. Named(h, x) = g
  BY <1>0 DEF Named, WithReg, WithConn, Typed, HubState
<1>2. /\ q.queue = (IF p.where = "dead" THEN p.queue ELSE << >>)
      /\ q.context = (IF p.where = "dead" THEN p.context ELSE << >>)
      /\ q.where = "live" /\ q.kind = x.kind
  <2>1. p \in Reg
    BY <1>0
  <2> HIDE DEF p
  <2>2. QED
    BY <2>1, RegisteredBox
<1>3. Labels(p) /\ (p.where # "none" => p.kind = x.kind)
  BY <1>0 DEF Tidy
<1>4. Labels(q)
  <2>1. CASE p.where = "dead"
    <3>1. q.queue = p.queue /\ q.context = p.context /\ q.kind = p.kind
      BY <1>2, <1>3, <2>1
    <3> HIDE DEF p, q
    <3>2. QED
      BY <1>3, <3>1 DEF Labels
  <2>2. CASE p.where # "dead"
    <3>1. q.queue = << >> /\ q.context = << >> /\ DOMAIN << >> = {}
      BY <1>2, <2>2
    <3> HIDE DEF p, q
    <3>2. QED
      BY <3>1 DEF Labels
  <2>3. QED
    BY <2>1, <2>2
<1> HIDE DEF p, q
<1>5. reg[n] = q /\ \A m \in Name \ {n} : reg[m] = h.reg[m]
  BY <1>0
<1>6. g.reg = reg /\ g.sent = h.sent /\ g.counter = h.counter /\ g.round = h.round
  BY <1>0 DEF WithReg, WithConn, Typed, HubState
<1> HIDE DEF reg, g
<1>7. \A m \in Name : Labels(g.reg[m])
  BY <1>4, <1>5, <1>6 DEF Tidy
<1>8. ASSUME NEW y \in Hellos, g.reg[y.name].where # "none"
      PROVE  g.reg[y.name].kind = y.kind
  <2>1. CASE y.name = n
    <3>1. y.kind = x.kind
      BY <2>1 DEF KindsKept
    <3>2. QED
      BY <1>2, <1>5, <1>6, <2>1, <3>1
  <2>2. CASE y.name # n
    <3>1. g.reg[y.name] = h.reg[y.name]
      BY <1>0, <1>5, <1>6, <2>2
    <3>2. QED
      BY <1>8, <3>1 DEF Tidy
  <2>3. QED
    BY <2>1, <2>2
<1>9. \A r : Fresh(h, r) => Fresh(g, r)
  BY <1>6 DEF Fresh, Given, Ended
<1>10. QED
  BY <1>1, <1>6, <1>7, <1>8, <1>9 DEF Tidy

\* What a newcomer is told wakes no agent.
LEMMA GiveBacklogStill ==
  ASSUME NEW h, Typed(h), NEW x \in Hello, x.name \in Live(h),
         h.reg[x.name].client = x.conn, h.reg[x.name].kind = x.kind,
         NEW past \in Seq(Record)
  PROVE  LET g == GiveBacklog(h, x, past)
         IN  Still(h, g) /\ g.counter = h.counter
<1> DEFINE n   == x.name
           ms  == [i \in DOMAIN past |-> Tag(past[i], "overheard")]
           all == {Tag(past[i], Addressing(n, past[i].to)) : i \in DOMAIN past}
           one == [q \in {n} |-> {Tag(past[i], Addressing(q, past[i].to)) : i \in DOMAIN past}]
<1>0. /\ n \in Name /\ x.conn \in Conn
      /\ h.reg \in [Name -> Reg] /\ \A m \in Name : BoundedReg(h.reg[m])
  BY DEF Hello, Typed, HubState
<1>1. DOMAIN past = 1 .. Len(past) /\ Len(past) \in Nat /\ \A i \in DOMAIN past : past[i] \in Record
  BY LenProperties, ElementOfSeq
<1>2. CASE x.kind = "agent"
  <2> DEFINE p   == h.reg[n]
             q   == OverhearAll(p, ms)
             reg == [h.reg EXCEPT ![n] = q]
             g   == WithReg(h, reg)
  <2>1. \A i \in DOMAIN past : Tag(past[i], "overheard") \in Msg
    BY <1>1, TagType
  <2>2. ms \in [1 .. Len(past) -> Msg]
    BY <1>1, <2>1
  <2>3. \A i \in DOMAIN ms : ms[i].adr = "overheard"
    BY DEF Tag
  <2>4. GiveBacklog(h, x, past) = g
    BY <1>0, <1>2 DEF GiveBacklog, WithReg
  <2> HIDE DEF ms
  <2>5. ms \in Seq(Msg)
    BY <1>1, <2>2, SeqDef
  <2>6. p \in Reg /\ BoundedReg(p)
    BY <1>0
  <2>7. reg[n] = q /\ \A m \in Name \ {n} : reg[m] = h.reg[m]
    BY <1>0
  <2> HIDE DEF p
  <2>8. Reboxed(p, q) /\ (Labels(p) => Labels(q))
    BY <2>3, <2>5, <2>6, OverhearAllType, LabelsPast
  <2> HIDE DEF q
  <2>9. q.where = p.where /\ q.kind = p.kind
    BY <2>8 DEF Reboxed, SameSeat
  <2>10. g.reg = reg /\ g.sent = h.sent /\ g.round = h.round /\ g.counter = h.counter
    BY DEF WithReg, Typed, HubState
  <2> HIDE DEF reg, g
  <2>11. \A m \in Name : /\ g.reg[m].where = h.reg[m].where /\ g.reg[m].kind = h.reg[m].kind
                         /\ Labels(h.reg[m]) => Labels(g.reg[m])
    BY <2>7, <2>8, <2>9, <2>10 DEF p
  <2>12. Kin(h, g)
    BY <2>11 DEF Kin
  <2>13. Agents(g) = Agents(h)
    BY <2>11 DEF Agents, Live, IsObserver
  <2>14. Given(g) = Given(h) /\ h.sent \subseteq g.sent
    BY <2>10 DEF Given
  <2>15. Still(h, g)
    BY <2>10, <2>12, <2>13, <2>14, SentAlike DEF Still
  <2>16. QED
    BY <2>4, <2>10, <2>15
<1>3. CASE x.kind # "agent" /\ past = << >>
  <2>1. GiveBacklog(h, x, past) = h
    BY <1>3 DEF GiveBacklog
  <2>2. QED
    BY <2>1, SameStill
<1>4. CASE x.kind # "agent" /\ past # << >>
  <2>1. all \in SUBSET Msg
    BY <1>1, TagType, AddressingType
  <2>2. DOMAIN one = {n} /\ one[n] = all
    OBVIOUS
  <2>3. GiveBacklog(h, x, past) = Deliver(h, one)
    BY <1>4 DEF GiveBacklog
  <2>4. n \notin Agents(h)
    BY <1>4 DEF Agents, IsObserver, Hello, Kinds
  <2> HIDE DEF one, all
  <2>5. \A m \in Agents(h) : \A y : ~Awake(one, m, y)
    BY <2>2, <2>4 DEF Awake
  <2>6. /\ DOMAIN one \subseteq Live(h)
        /\ \A m \in DOMAIN one : h.reg[m].client \in Conn /\ one[m] \in SUBSET Msg
    BY <1>0, <2>1, <2>2
  <2>7. Still(h, Deliver(h, one)) /\ SameFloor(h, Deliver(h, one))
    BY <2>5, <2>6, DeliverStill, DeliverType
  <2>8. QED
    BY <2>3, <2>7 DEF SameFloor
<1>5. QED
  BY <1>2, <1>3, <1>4

LEMMA SeatedStill ==
  ASSUME NEW h, Inv(h), NEW x \in Hello, x.name \notin Live(h),
         h.conn[x.conn].name = NoName, h.conn[x.conn].phase # "free",
         NEW past \in Seq(Record)
  PROVE  LET g == Seated(h, x, past)
         IN  Still(Named(h, x), g) /\ g.counter = Named(h, x).counter
<1> DEFINE named    == Named(h, x)
           frames   == {[sink |-> x.conn, t |-> "welcome"]}
           welcomed == Push(named, frames, {})
           given    == GiveBacklog(welcomed, x, past)
           briefed  == IF h.reg[x.name].where = "dead" /\ x.kind = "agent" THEN welcomed
                       ELSE given
           joined   == EmitSkipping(briefed, "peer_joined", x.name, {x.name})
<1>0. x.name \in Name /\ x.conn \in Conn /\ "peer_joined" \in Events
  BY DEF Hello, Events
<1>1. Seated(h, x, past) = joined
  BY DEF Seated, Named
<1>2. /\ Typed(named) /\ x.name \in Live(named) /\ named.reg[x.name].client = x.conn
      /\ named.reg[x.name].kind = x.kind
  BY NamedType
<1> HIDE DEF named
<1>3. frames \in SUBSET Frame /\ {} \in SUBSET Frame /\ \A f \in frames \cup {} : f.t # "deliver"
  BY <1>0 DEF Frame, Signal, Sinks
<1> HIDE DEF frames
<1>4. /\ Typed(welcomed) /\ welcomed.reg = named.reg /\ SameFloor(named, welcomed)
      /\ Still(named, welcomed)
  BY <1>2, <1>3, PushType, PushStill
<1> HIDE DEF welcomed
<1>5. /\ x.name \in Live(welcomed) /\ welcomed.reg[x.name].client = x.conn
      /\ welcomed.reg[x.name].kind = x.kind
  BY <1>2, <1>4 DEF Live
<1>6. Typed(given) /\ Still(welcomed, given) /\ given.counter = welcomed.counter
  BY <1>4, <1>5, GiveBacklogKeeps, GiveBacklogStill DEF Keeps
<1> HIDE DEF given
<1>7. Typed(briefed) /\ Still(named, briefed) /\ briefed.counter = named.counter
  BY <1>4, <1>6, StillTransitive DEF SameFloor
<1> HIDE DEF briefed
<1>8. Still(briefed, joined) /\ joined.counter = briefed.counter
  BY <1>0, <1>7, EmitStill, EmitType DEF SameFloor
<1> HIDE DEF joined
<1>9. QED
  BY <1>1, <1>7, <1>8, StillTransitive DEF named

\* What a step leaves behind: mailboxes in order, and rounds that are paid.
Settled(g, r, k) == Tidy(g) /\ Billed(g, r, k)

LEMMA JoinSettled ==
  ASSUME KindsKept, NEW h, Inv(h), Upheld(h), Tidy(h), NEW r \in Nat, Fresh(h, r),
         NEW x \in Hellos, x.name \notin Live(h),
         h.conn[x.conn].name = NoName, h.conn[x.conn].phase # "free",
         NEW past, Told(past, x, h.counter)
  PROVE  Settled(Join(h, x, past), r, h.counter)
<1> DEFINE n      == x.name
           k      == h.counter
           named  == Named(h, x)
           seated == Seated(h, x, past)
           f      == FlushQueue(seated, n)
<1>0. x \in Hello /\ n \in Name /\ past \in Seq(Record) /\ k \in Nat /\ Given(h) = {}
  BY InputAssumption DEF Hello, Told, Inv, Typed, HubState, Fresh
<1>1. Typed(named) /\ Linked(named) /\ n \in Live(named)
  BY <1>0, NamedType
<1>2. Tidy(named) /\ named.counter = k /\ Fresh(named, r)
  BY NamedTidy
<1>3. Keeps(named, seated) /\ Upheld(seated)
  BY <1>0, SeatedType, SeatedUpheld
<1>4. Still(named, seated) /\ seated.counter = k
  BY <1>0, <1>2, SeatedStill
<1>5. Join(h, x, past) = IF h.reg[n].where = "dead" THEN f ELSE seated
  BY DEF Join
<1> HIDE DEF named, seated
<1>6. Typed(seated) /\ Linked(seated) /\ n \in Live(seated)
  BY <1>1, <1>3, KeepsInvariants DEF Keeps
<1>7. Kin(named, seated) /\ Tidy(seated)
  BY <1>2, <1>4, KinTidy DEF Still, Alike
<1>8. Late(seated, k) = {} /\ Bill(seated, r, k)
  BY <1>2, <1>4, FreshBill, StillBill
<1>9. Labels(seated.reg[n]) /\ Waited(seated, n, k)
  BY <1>0, <1>3, <1>4, <1>7, WaitedAlways DEF Tidy, Upheld
<1>10. Kin(seated, f) /\ Billed(f, r, k)
  BY <1>0, <1>6, <1>8, <1>9, FlushQueueBill
<1> HIDE DEF f
<1>11. Tidy(f)
  BY <1>7, <1>10, KinTidy
<1>12. QED
  BY <1>5, <1>7, <1>8, <1>10, <1>11 DEF Settled, Billed


LEMMA StillSettled ==
  ASSUME NEW h, NEW g, Still(h, g), NEW r, NEW k, Settled(h, r, k)
  PROVE  Settled(g, r, k)
BY StillBill, KinTidy DEF Settled, Still, Alike

LEMMA FreshSettled ==
  ASSUME NEW h, Tidy(h), NEW r \in Nat, Fresh(h, r), NEW k
  PROVE  Settled(h, r, k)
BY FreshBill DEF Settled, Billed

LEMMA PaysSettled ==
  ASSUME NEW h, Tidy(h), NEW g, Pays(h, g)
  PROVE  Settled(g, h.round, h.counter)
BY KinTidy DEF Pays, Settled

LEMMA DisconnectSettled ==
  ASSUME NEW h, Inv(h), Tidy(h), NEW r \in Nat, Fresh(h, r), NEW c \in Conn, NEW k
  PROVE  /\ Tidy(Disconnect(h, c)) /\ Fresh(Disconnect(h, c), r)
         /\ Settled(Disconnect(h, c), r, k)
<1> DEFINE g == Disconnect(h, c)
<1>1. Kin(h, g) /\ Fresh(g, r)
  BY DisconnectFresh
<1> HIDE DEF g
<1>2. Tidy(g)
  BY <1>1, KinTidy
<1>3. QED
  BY <1>1, <1>2, FreshSettled DEF g

LEMMA HandleHelloSettled ==
  ASSUME KindsKept, NEW h, Inv(h), Upheld(h), Tidy(h), Given(h) = {}, NEW x \in Hellos,
         h.conn[x.conn].phase # "free", NEW past, Told(past, x, h.counter)
  PROVE  Settled(HandleHello(h, x, past), h.round, h.counter)
<1> DEFINE c      == x.conn
           r      == h.round
           reaped == IF x.name \in Live(h) /\ ~Reachable(h, x.name)
                     THEN Disconnect(h, h.reg[x.name].client) ELSE h
           told   == Reply(reaped, c, c, "err")
<1>0. c \in Conn /\ Typed(h) /\ r \in Nat /\ Fresh(h, r)
  BY InputAssumption DEF Hello, Inv, Typed, HubState, Fresh
<1>1. HandleHello(h, x, past) =
        IF h.conn[c].name # NoName THEN Reply(h, c, c, "err")
        ELSE IF x.name \in Live(reaped) THEN Close(told, c)
        ELSE Join(reaped, x, past)
  BY DEF HandleHello
<1>2. Settled(Reply(h, c, c, "err"), r, h.counter)
  <2>1. Settled(h, r, h.counter)
    BY <1>0, FreshSettled
  <2>2. Still(h, Reply(h, c, c, "err"))
    BY <1>0, ReplyStill
  <2>3. QED
    BY <2>1, <2>2, StillSettled
<1>3. /\ Inv(reaped) /\ Upheld(reaped) /\ Tidy(reaped) /\ Fresh(reaped, r)
      /\ reaped.counter = h.counter
      /\ reaped.conn[c].name = h.conn[c].name /\ reaped.conn[c].phase # "free"
  <2>1. x.name \in Live(h) => h.reg[x.name].client \in Conn
    BY DEF Inv, Linked, Owned
  <2>2. CASE x.name \in Live(h) /\ ~Reachable(h, x.name)
    <3> DEFINE k == h.reg[x.name].client
               d == Disconnect(h, k)
    <3>0. k \in Conn
      BY <2>1, <2>2
    <3> HIDE DEF k
    <3>1. Inv(d) /\ Upheld(d) /\ d.counter = h.counter
      BY <3>0, DisconnectInv, DisconnectUpheld
    <3>2. \A m \in Conn : /\ d.conn[m].name = h.conn[m].name
                          /\ d.conn[m].phase = "free" => h.conn[m].phase = "free"
      BY <3>0, DisconnectInv, Zenon
    <3>3. Tidy(d) /\ Fresh(d, r)
      BY <1>0, <3>0, DisconnectSettled
    <3> HIDE DEF d
    <3>4. reaped = d
      BY <2>2 DEF d, k
    <3>5. d.conn[c].phase # "free" /\ d.conn[c].name = h.conn[c].name
      BY <1>0, <3>2
    <3> HIDE DEF reaped
    <3>6. QED
      BY <3>1, <3>3, <3>4, <3>5
  <2>3. CASE ~(x.name \in Live(h) /\ ~Reachable(h, x.name))
    BY <1>0, <2>3
  <2>4. QED
    BY <2>2, <2>3
<1> HIDE DEF reaped, r
<1>4. Settled(Close(told, c), r, h.counter)
  <2>1. Typed(told) /\ Still(reaped, told)
    BY <1>0, <1>3, ReplyKeeps, ReplyStill DEF Inv, Keeps
  <2>2. Settled(reaped, r, h.counter)
    BY <1>0, <1>3, FreshSettled
  <2> HIDE DEF told
  <2>3. Still(told, Close(told, c))
    BY <2>1, CloseStill
  <2>4. QED
    BY <2>1, <2>2, <2>3, StillSettled
<1>5. h.conn[c].name = NoName /\ x.name \notin Live(reaped)
        => Settled(Join(reaped, x, past), r, h.counter)
  BY <1>0, <1>3, JoinSettled
<1>6. QED
  BY <1>1, <1>2, <1>4, <1>5 DEF r

LEMMA PingStill ==
  ASSUME NEW h, Inv(h), NEW n \in Live(h)
  PROVE  Still(h, Ping(h, n))
<1> DEFINE frames == {[sink |-> h.reg[n].client, t |-> "ping"]}
           p      == Push(h, frames, {})
<1>0. n \in Name /\ h.reg[n].client \in Conn /\ Typed(h)
  BY DEF Inv, Linked, Owned, Live
<1>1. frames \in SUBSET Frame /\ {} \in SUBSET Frame /\ \A f \in frames \cup {} : f.t # "deliver"
  BY <1>0 DEF Frame, Signal, Sinks
<1>2. Ping(h, n) = [p EXCEPT !.reg[n].awaiting = TRUE]
  BY DEF Ping
<1> HIDE DEF frames
<1>3. Typed(p) /\ Still(h, p)
  BY <1>0, <1>1, PushType, PushStill
<1> HIDE DEF p
<1>4. Still(p, [p EXCEPT !.reg[n].awaiting = TRUE])
  BY <1>0, <1>3, MarksStill, Zenon
<1>5. QED
  BY <1>2, <1>3, <1>4, StillTransitive

LEMMA VisitedSettled ==
  ASSUME NEW h, Inv(h), Upheld(h), Tidy(h), Given(h) = {}, NEW n \in Live(h), NEW lapsed
  PROVE  Settled(Visited(h, n, lapsed), h.round, h.counter)
<1> DEFINE pinged == IF "silence" \in lapsed /\ ~h.reg[n].awaiting THEN Ping(h, n) ELSE h
           i      == SetIdle(pinged, n)
           e      == Emit(i, "stall", n)
           f      == FlushQueue(e, n)
           r      == h.round
           k      == h.counter
<1>0. /\ n \in Name /\ h.reg[n].client \in Conn /\ "stall" \in Events
      /\ r \in Nat /\ k \in Nat /\ Fresh(h, r)
  BY DEF Inv, Typed, HubState, Linked, Owned, Live, Events, Fresh
<1>1. Visited(h, n, lapsed) =
        IF Overdue(h, n, lapsed) THEN Disconnect(h, h.reg[n].client)
        ELSE IF InfersIdle(h, n, lapsed) THEN f ELSE pinged
  BY DEF Visited
<1>2. Settled(Disconnect(h, h.reg[n].client), r, k)
  BY <1>0, DisconnectSettled
<1>3. /\ Inv(pinged) /\ Upheld(pinged) /\ n \in Live(pinged)
      /\ Still(h, pinged) /\ pinged.counter = k
  BY PingKeeps, KeepsInv, PingQuiet, QuietUpheld, PingStill, SameStill DEF Quiet, Calm
<1> HIDE DEF pinged
<1>4. Tidy(pinged) /\ Late(pinged, k) = {} /\ Bill(pinged, r, k) /\ Settled(pinged, r, k)
  <2>1. Late(h, k) = {} /\ Bill(h, r, k) /\ Settled(h, r, k)
    BY <1>0, FreshBill, FreshSettled
  <2>2. Late(pinged, k) = {} /\ Bill(pinged, r, k)
    BY <1>3, <2>1, StillBill
  <2>3. Settled(pinged, r, k)
    BY <1>3, <2>1, StillSettled
  <2>4. QED
    BY <2>2, <2>3 DEF Settled
<1>5. i = WithState(pinged, n, "idle")
  BY DEF SetIdle, WithState
<1>6. Typed(i) /\ Stable(pinged, i) /\ Still(pinged, i) /\ Quiet(pinged, i)
  <2>1. Typed(pinged) /\ "idle" \in States
    BY <1>3 DEF Inv, States
  <2>2. Typed(i) /\ Stable(pinged, i)
    BY <1>0, <1>5, <2>1, WithStateType
  <2>3. Still(pinged, WithState(pinged, n, "idle"))
    BY <1>0, <2>1, MarksStill, Zenon
  <2>4. Quiet(pinged, WithState(pinged, n, "idle"))
    BY <1>0, <2>1, MarksCalm, Zenon
  <2>5. QED
    BY <1>5, <2>2, <2>3, <2>4
<1> HIDE DEF i
<1>7. Keeps(i, e) /\ Still(i, e) /\ Quiet(i, e)
  BY <1>0, <1>6, EmitKeeps, EmitStill, EmitQuiet
<1> HIDE DEF e
<1>8. Typed(e) /\ Linked(e) /\ n \in Live(e)
  BY <1>3, <1>6, <1>7, StableLinked, StableAlike, KeepsInvariants DEF Inv, Keeps
<1>9. Still(pinged, e) /\ Tidy(e) /\ Late(e, k) = {} /\ Bill(e, r, k)
  <2>1. Still(pinged, e)
    BY <1>6, <1>7, StillTransitive
  <2>2. QED
    BY <1>4, <2>1, StillBill, KinTidy DEF Still, Alike
<1>10. Waited(e, n, k)
  <2>1. Waited(pinged, n, k)
    BY <1>0, <1>3, WaitedAlways DEF Upheld
  <2>2. e.reg[n].queue = pinged.reg[n].queue
    BY <1>0, <1>6, <1>7 DEF Quiet, Calm
  <2>3. QED
    BY <2>1, <2>2 DEF Waited
<1>11. Kin(e, f) /\ Billed(f, r, k)
  BY <1>0, <1>8, <1>9, <1>10, FlushQueueBill DEF Tidy
<1> HIDE DEF f
<1>12. Settled(f, r, k)
  BY <1>9, <1>11, KinTidy DEF Settled
<1>13. QED
  BY <1>1, <1>2, <1>4, <1>12

LEMMA BootSettled ==
  ASSUME NEW recent, NEW r, NEW k
  PROVE  Settled(Boot(recent), r, k)
<1> DEFINE g == Boot(recent)
<1>1. g.reg = [n \in Name |-> NoReg] /\ g.round = 0
  BY DEF Boot
<1> HIDE DEF g
<1>2. NoReg.queue = << >> /\ NoReg.context = << >> /\ NoReg.where = "none" /\ DOMAIN << >> = {}
  BY DEF NoReg
<1>3. Labels(NoReg)
  BY <1>2 DEF Labels
<1>4. \A x \in Hellos : x.name \in Name
  BY InputAssumption DEF Hello
<1>5. QED
  BY <1>1, <1>2, <1>3, <1>4 DEF Settled, Tidy, Billed, g


LEMMA NowSettled ==
  ASSUME Inv(hub), Tidy(hub)
  PROVE  /\ Tidy(Now) /\ Given(Now) = {} /\ Fresh(Now, hub.round) /\ hub.round \in Nat
         /\ Now.round = hub.round /\ Now.counter = hub.counter
         /\ Settled(Now, hub.round, hub.counter)
<1> DEFINE g == Now
<1>1. /\ g.sent = {} /\ g.reg = hub.reg /\ g.counter = hub.counter
      /\ g.round = hub.round /\ hub.round \in Nat
  BY DEF Now, Inv, Typed, HubState
<1> HIDE DEF g
<1>2. Tidy(g) /\ Given(g) = {}
  BY <1>1 DEF Tidy, Given
<1>3. Fresh(g, hub.round)
  BY <1>1, <1>2 DEF Fresh
<1>4. Settled(g, hub.round, hub.counter)
  BY <1>1, <1>2, <1>3, FreshSettled
<1>5. QED
  BY <1>1, <1>2, <1>3, <1>4 DEF g

LEMMA HeardSettled ==
  ASSUME Inv(hub), Upheld(hub), Tidy(hub), NEW c \in Conn, Known(c)
  PROVE  LET g == Heard(c)
         IN  /\ Inv(g) /\ Upheld(g) /\ Tidy(g) /\ Given(g) = {}
             /\ Sender(c) \in Live(g)
             /\ g.round = hub.round /\ g.counter = hub.counter
             /\ Fresh(g, hub.round) /\ Settled(g, hub.round, hub.counter)
<1> DEFINE n == Sender(c)
           w == Now
           g == [w EXCEPT !.reg[n].awaiting = FALSE]
<1>0. Inv(Heard(c)) /\ Upheld(Heard(c)) /\ n \in Live(Heard(c)) /\ n \in Name
  BY HeardInv, HeardUpheld
<1>1. Typed(w)
  BY NowInv DEF Inv
<1>2. /\ Given(w) = {} /\ Fresh(w, hub.round) /\ Settled(w, hub.round, hub.counter)
      /\ w.round = hub.round /\ w.counter = hub.counter
  BY NowSettled
<1>3. Heard(c) = g
  BY DEF Heard
<1> HIDE DEF w, n
<1>4. Still(w, g)
  BY <1>0, <1>1, MarksStill, Zenon
<1>5. Quiet(w, g)
  BY <1>0, <1>1, MarksCalm, Zenon
<1> HIDE DEF g
<1>6. Given(g) = {} /\ g.counter = hub.counter /\ g.round = hub.round
  BY <1>2, <1>4, <1>5 DEF Quiet, Calm, Still
<1>7. Settled(g, hub.round, hub.counter)
  BY <1>2, <1>4, StillSettled
<1>8. Fresh(g, hub.round)
  BY <1>6 DEF Fresh
<1>9. QED
  BY <1>0, <1>3, <1>6, <1>7, <1>8 DEF Settled, n

LEMMA HandledSettled ==
  ASSUME NEW h, Typed(h), NEW c, NEW r, NEW k, Settled(h, r, k)
  PROVE  Settled(Handled(h, c), r, k)
<1> DEFINE j == [h.conn[c] EXCEPT !.phase = "ending"]
           g == [h EXCEPT !.conn[c] = j]
<1>1. Handled(h, c) = IF h.conn[c].connected THEN h ELSE g
  BY DEF Handled
<1> HIDE DEF j
<1>2. Still(h, g)
  BY CloseStill
<1> HIDE DEF g
<1>3. QED
  BY <1>1, <1>2, StillSettled

-----------------------------------------------------------------------------
(* The steps of the process.                                               *)

LEMMA ReadHelloSettled ==
  ASSUME KindsKept, Inv(hub), Upheld(hub), Tidy(hub), NEW x \in Hellos, ReadHello(x)
  PROVE  Settled(hub', hub.round, hub.counter)
<1>1. x \in Hello /\ x.conn \in Conn
  BY InputAssumption DEF Hello
<1>2. PICK past \in InOrder(BacklogFor(hub, x)) :
        hub' = Handled(HandleHello(Now, x, past), x.conn)
  BY DEF ReadHello
<1>3. past \in Seq(Record)
  BY <1>2, PastType DEF Inv
<1>4. /\ Inv(Now) /\ Now.conn[x.conn].phase # "free" /\ Upheld(Now)
  BY NowInv, NowUpheld DEF ReadHello, Reading
<1>5. /\ Tidy(Now) /\ Given(Now) = {} /\ Now.round = hub.round /\ Now.counter = hub.counter
  BY NowSettled
<1>6. Told(past, x, Now.counter)
  <2>1. Typed(hub) /\ Chronicled(hub)
    BY DEF Inv, Upheld, Mail
  <2>2. Told(past, x, hub.counter)
    BY <1>2, <1>3, <2>1, PastTold DEF Told
  <2>3. QED
    BY <1>5, <2>2
<1> DEFINE w == Now
           g == HandleHello(w, x, past)
<1>7. Typed(g)
  BY <1>1, <1>3, <1>4, HandleHelloInv DEF Inv
<1>8. Settled(g, w.round, w.counter)
  <2> HIDE DEF w
  <2>1. Settled(HandleHello(w, x, past), w.round, w.counter)
    BY <1>4, <1>5, <1>6, HandleHelloSettled DEF w
  <2>2. QED
    BY <2>1
<1>9. hub' = Handled(g, x.conn) /\ w.round = hub.round /\ w.counter = hub.counter
  BY <1>2, <1>5
<1> HIDE DEF g, w
<1>10. QED
  BY <1>7, <1>8, <1>9, HandledSettled

LEMMA FrameSettled ==
  ASSUME Inv(hub), Upheld(hub), Tidy(hub), NEW c \in Conn,
         ReadSay(c) \/ ReadState(c) \/ ReadCmd(c)
  PROVE  Settled(hub', hub.round, hub.counter)
<1> DEFINE h == Heard(c)
           n == Sender(c)
<1>1. /\ Inv(h) /\ Upheld(h) /\ Tidy(h) /\ Given(h) = {} /\ n \in Live(h)
      /\ h.round = hub.round /\ h.counter = hub.counter
      /\ Agents(h) = Agents(hub)
  BY HeardSettled, HeardInv DEF ReadSay, ReadState, ReadCmd
<1> HIDE DEF h, n
<1>2. \A q \in Name : Labels(h.reg[q])
  BY <1>1 DEF Tidy
<1>3. ASSUME NEW g, Inv(g), Pays(h, g), hub' = Handled(g, c)
      PROVE  Settled(hub', hub.round, hub.counter)
  <2>1. Settled(g, hub.round, hub.counter)
    BY <1>1, <1>3, PaysSettled
  <2>2. QED
    BY <1>3, <2>1, HandledSettled DEF Inv
<1>4. CASE ReadSay(c)
  <2>1. PICK s \in Says, screen \in Screens : hub' = Handled(HandleSay(h, c, n, s, screen), c)
    BY <1>4 DEF ReadSay, h, n
  <2>2. s \in SayFrame
    BY InputAssumption
  <2>3. Inv(HandleSay(h, c, n, s, screen)) /\ Pays(h, HandleSay(h, c, n, s, screen))
    BY <1>1, <1>2, <2>2, HandleSayInv, HandleSayPays
  <2>4. QED
    BY <1>3, <2>1, <2>3
<1>5. CASE ReadState(c)
  <2>1. PICK state \in Reports : hub' = Handled(HandleState(h, n, state), c)
    BY <1>5 DEF ReadState, h, n
  <2>2. state \in States
    BY InputAssumption
  <2>3. Inv(HandleState(h, n, state)) /\ Pays(h, HandleState(h, n, state))
    BY <1>1, <1>2, <2>2, HandleStateInv, HandleStatePays
  <2>4. QED
    BY <1>3, <2>1, <2>3
<1>6. CASE ReadCmd(c)
  <2>1. PICK x \in Cmds, rank \in Ranks(Agents(hub)) :
          hub' = Handled(HandleCmd(h, c, n, x, rank), c)
    BY <1>6 DEF ReadCmd, h, n
  <2>2. x \in [cmd : CmdNames, n : Nat] /\ rank \in Ranks(Agents(h))
    BY <1>1, InputAssumption
  <2>3. Inv(HandleCmd(h, c, n, x, rank)) /\ Pays(h, HandleCmd(h, c, n, x, rank))
    BY <1>1, <1>2, <2>2, HandleCmdInv, HandleCmdPays
  <2>4. QED
    BY <1>3, <2>1, <2>3
<1>7. QED
  BY <1>4, <1>5, <1>6

LEMMA ReadOthersSettled ==
  ASSUME Inv(hub), Upheld(hub), Tidy(hub), NEW c \in Conn,
         ReadRoster(c) \/ ReadPong(c) \/ ReadBye(c) \/ ReadMalformed(c)
  PROVE  Settled(hub', hub.round, hub.counter)
<1> DEFINE h == Heard(c)
           r == hub.round
           k == hub.counter
<1>0. r \in Nat
  BY NowSettled
<1>1. Known(c) => Inv(h) /\ Tidy(h) /\ Fresh(h, r) /\ Settled(h, r, k)
  BY HeardSettled
<1> HIDE DEF h, r, k
<1>2. CASE ReadRoster(c)
  <2> DEFINE j == hub.reg[Sender(c)].client
             frames == {[sink |-> j, t |-> "roster"]}
             g == Push(h, frames, {})
  <2>1. hub' = Handled(g, c) /\ Known(c)
    BY <1>2 DEF ReadRoster, h
  <2>2. j \in Conn
    BY <2>1, HeardInv DEF Inv, Linked, Owned
  <2>3. frames \in SUBSET Frame /\ {} \in SUBSET Frame /\ \A f \in frames \cup {} : f.t # "deliver"
    BY <2>2 DEF Frame, Signal, Sinks
  <2> HIDE DEF frames
  <2>4. Typed(g) /\ Still(h, g)
    BY <1>1, <2>1, <2>3, PushType, PushStill DEF Inv
  <2> HIDE DEF g
  <2>5. QED
    BY <1>1, <2>1, <2>4, StillSettled, HandledSettled DEF r, k
<1>3. CASE ReadPong(c)
  <2>1. hub' = Handled(h, c) /\ Known(c)
    BY <1>3 DEF ReadPong, h
  <2>2. QED
    BY <1>1, <2>1, HandledSettled DEF Inv, r, k
<1>4. CASE ReadBye(c)
  <2> DEFINE g == Disconnect(h, c)
  <2>1. hub' = Handled(g, c) /\ Known(c)
    BY <1>4 DEF ReadBye, h
  <2>2. Typed(g) /\ Settled(g, r, k)
    BY <1>0, <1>1, <2>1, DisconnectInv, DisconnectSettled DEF Inv
  <2> HIDE DEF g
  <2>3. QED
    BY <2>1, <2>2, HandledSettled DEF r, k
<1>5. CASE ReadMalformed(c)
  <2> DEFINE w == Now
             g == Reply(w, c, c, "err")
  <2>1. hub' = Handled(g, c) /\ Typed(w) /\ Settled(w, r, k)
    BY <1>5, NowInv, NowSettled DEF ReadMalformed, Inv, r, k
  <2> HIDE DEF w
  <2>2. Typed(g) /\ Still(w, g)
    BY <2>1, ReplyKeeps, ReplyStill DEF Keeps
  <2> HIDE DEF g
  <2>3. QED
    BY <2>1, <2>2, StillSettled, HandledSettled DEF r, k
<1>6. QED
  BY <1>2, <1>3, <1>4, <1>5

LEMMA ConnectionSettled ==
  ASSUME Inv(hub), Upheld(hub), Tidy(hub), NEW c \in Conn,
         Connect(c) \/ StopReading(c) \/ WriteOne(c) \/ WriteFails(c) \/ Reap(c)
  PROVE  Settled(hub', hub.round, hub.counter)
<1> DEFINE w == Now
           r == hub.round
           k == hub.counter
<1>0. Inv(w) /\ Typed(w) /\ Settled(w, r, k) /\ Tidy(w) /\ Fresh(w, r) /\ r \in Nat
  BY NowInv, NowSettled DEF Inv
<1> HIDE DEF w, r, k
<1>1. ASSUME NEW h, Typed(h), Settled(h, r, k), NEW j, hub' = [h EXCEPT !.conn[c] = j]
      PROVE  Settled(hub', r, k)
  BY <1>1, CloseStill, StillSettled
<1>2. CASE Connect(c)
  <2> DEFINE j == [FreeConn EXCEPT !.phase = "reading", !.connected = TRUE]
  <2>1. hub' = [w EXCEPT !.conn[c] = j]
    BY <1>2 DEF Connect, w
  <2> HIDE DEF j
  <2>2. QED
    BY <1>0, <1>1, <2>1 DEF r, k
<1>3. CASE StopReading(c)
  <2>1. PICK told \in {w, Reply(w, c, c, "err")} :
          hub' = [told EXCEPT !.conn[c].phase = "ending"]
    BY <1>3 DEF StopReading, w
  <2>2. Typed(told) /\ Settled(told, r, k)
    BY <1>0, ReplyKeeps, ReplyStill, StillSettled DEF Keeps
  <2> DEFINE j == [told.conn[c] EXCEPT !.phase = "ending"]
  <2>3. hub' = [told EXCEPT !.conn[c] = j]
    BY <2>1
  <2> HIDE DEF j
  <2>4. QED
    BY <1>1, <2>2, <2>3 DEF r, k
<1>4. CASE WriteOne(c)
  <2> DEFINE m == w.conn[c].out - 1
             j == [w.conn[c] EXCEPT !.out = m]
  <2>1. hub' = [w EXCEPT !.conn[c] = j]
    BY <1>4 DEF WriteOne, w
  <2> HIDE DEF j
  <2>2. QED
    BY <1>0, <1>1, <2>1 DEF r, k
<1>5. CASE WriteFails(c)
  <2> DEFINE j == Cut(w.conn[c])
  <2>1. hub' = [w EXCEPT !.conn[c] = j]
    BY <1>5 DEF WriteFails, w
  <2> HIDE DEF j
  <2>2. QED
    BY <1>0, <1>1, <2>1 DEF r, k
<1>6. CASE Reap(c)
  <2> DEFINE d == Disconnect(w, c)
             j == FreeConn
  <2>1. hub' = [d EXCEPT !.conn[c] = j]
    BY <1>6 DEF Reap, w
  <2>2. Typed(d) /\ Settled(d, r, k)
    BY <1>0, DisconnectInv, DisconnectSettled DEF Inv
  <2> HIDE DEF d, j
  <2>3. QED
    BY <1>1, <2>1, <2>2 DEF r, k
<1>7. QED
  BY <1>2, <1>3, <1>4, <1>5, <1>6 DEF r, k

LEMMA ExpireSettled ==
  ASSUME Inv(hub), Tidy(hub), NEW n \in Name, Expire(n)
  PROVE  Settled(hub', hub.round, hub.counter)
<1> DEFINE w   == Now
           reg == [w.reg EXCEPT ![n] = NoReg]
           g   == WithReg(w, reg)
<1>1. hub' = g
  BY DEF Expire, WithReg
<1>2. Typed(w) /\ Tidy(w) /\ Fresh(w, hub.round) /\ hub.round \in Nat
  BY NowInv, NowSettled DEF Inv
<1> HIDE DEF w
<1>3. NoReg.where = "none" /\ NoReg.queue = << >> /\ NoReg.context = << >> /\ DOMAIN << >> = {}
  BY DEF NoReg
<1>4. Labels(NoReg)
  BY <1>3 DEF Labels
<1> HIDE DEF NoReg
<1>5. reg[n] = NoReg /\ \A m \in Name \ {n} : reg[m] = w.reg[m]
  BY <1>2 DEF Typed, HubState
<1>6. g.reg = reg /\ g.sent = w.sent /\ g.round = w.round
  BY <1>2 DEF WithReg, Typed, HubState
<1> HIDE DEF reg, g
<1>7. \A x \in Hellos : x.name \in Name
  BY InputAssumption DEF Hello
<1>8. Tidy(g)
  BY <1>2, <1>3, <1>4, <1>5, <1>6, <1>7 DEF Tidy
<1>9. Fresh(g, hub.round)
  BY <1>2, <1>6 DEF Fresh, Given, Ended
<1>10. QED
  BY <1>1, <1>2, <1>8, <1>9, FreshSettled

LEMMA NextSettled ==
  ASSUME KindsKept, Inv(hub), Upheld(hub), Tidy(hub), Next
  PROVE  Settled(hub', hub.round, hub.counter)
<1>1. ASSUME NEW x \in Hellos, ReadHello(x)
      PROVE  Settled(hub', hub.round, hub.counter)
  BY <1>1, ReadHelloSettled
<1>2. ASSUME NEW c \in Conn, ConnStep(c)
      PROVE  Settled(hub', hub.round, hub.counter)
  <2>1. CASE ReadSay(c) \/ ReadState(c) \/ ReadCmd(c)
    BY <2>1, FrameSettled
  <2>2. CASE ReadRoster(c) \/ ReadPong(c) \/ ReadBye(c) \/ ReadMalformed(c)
    BY <2>2, ReadOthersSettled
  <2>3. CASE Connect(c) \/ StopReading(c) \/ WriteOne(c) \/ WriteFails(c) \/ Reap(c)
    BY <2>3, ConnectionSettled
  <2>4. QED
    BY <1>2, <2>1, <2>2, <2>3 DEF ConnStep
<1>3. ASSUME NEW n \in Name, NEW lapsed, Visit(n, lapsed)
      PROVE  Settled(hub', hub.round, hub.counter)
  <2> DEFINE w == Now
  <2>1. Inv(w) /\ Upheld(w) /\ n \in Live(w) /\ hub' = Visited(w, n, lapsed)
    BY <1>3, NowInv, NowUpheld DEF Visit
  <2>2. Tidy(w) /\ Given(w) = {} /\ w.round = hub.round /\ w.counter = hub.counter
    BY NowSettled
  <2> HIDE DEF w
  <2>3. Settled(Visited(w, n, lapsed), w.round, w.counter)
    BY <2>1, <2>2, VisitedSettled
  <2>4. QED
    BY <2>1, <2>2, <2>3
<1>4. ASSUME NEW n \in Name, Expire(n)
      PROVE  Settled(hub', hub.round, hub.counter)
  BY <1>4, ExpireSettled
<1>5. CASE Restart
  BY <1>5, BootSettled DEF Restart
<1>6. QED
  BY <1>1, <1>2, <1>3, <1>4, <1>5 DEF Next, Tick

\* A step that settles charges what the transcript says was handed over.
LEMMA SettledCounts ==
  ASSUME Settled(hub', hub.round, hub.counter)
  PROVE  RoundStep
<1> DEFINE g       == hub'
           k       == hub.counter
           woke(n, new) == \E f \in g.sent :
             /\ f.t = "deliver" /\ f.sink = Transcript /\ f.name = n
             /\ \E m \in f.msgs : /\ m.from # System /\ m.adr # "overheard"
                                  /\ new <=> m.id > k
           flushed == {n \in Agents(g) : woke(n, FALSE)}
           said    == IF \E n \in Agents(g) : woke(n, TRUE) THEN 1 ELSE 0
           ended   == \E f \in g.sent : f.t = "event" /\ f.event = "session_done"
           cost    == said + Cardinality(flushed)
<1>1. \A n : woke(n, FALSE) <=> \E m : Alerted(g, n, m) /\ ~(m.id > k)
  BY DEF Alerted, Given, Waking
<1>2. \A n : woke(n, TRUE) <=> \E m : Alerted(g, n, m) /\ m.id > k
  BY DEF Alerted, Given, Waking
<1>3. flushed = Late(g, k)
  BY <1>1 DEF Late
<1>4. said = Said(g, k)
  BY <1>2 DEF Said
<1>5. cost = Cost(g, k)
  BY <1>3, <1>4 DEF Cost
<1>6. ended <=> Ended(g)
  BY DEF Ended
<1>7. g.round = 0 \/ g.round = hub.round + Cost(g, k) \/ (Ended(g) /\ g.round = Cost(g, k))
  BY DEF Settled, Billed, Bill
<1> HIDE DEF cost, ended
<1>8. g.round \in {0, hub.round + cost} \cup (IF ended THEN {cost} ELSE {})
  BY <1>5, <1>6, <1>7
<1>9. QED
  BY <1>8 DEF RoundStep, cost, ended

\* A say that wakes agents costs one round, however many it wakes, the flush of
\* a queue with a wake in it one, and nothing else moves the counter but its
\* return to 0 (_route_say, _flush_queue, _check_session_done, handle_cmd), as
\* long as no name is claimed by peers of both kinds: what waits for a dead
\* agent is flushed, and charged, to an observer that claims its name
\* (handle_hello).
THEOREM RoundsCountWakesAlways == ASSUME KindsKept PROVE Spec => RoundsCountWakes
<1>1. Init => Tidy(hub)
  BY BootSettled DEF Init, Settled
<1>2. Inv(hub) /\ Upheld(hub) /\ Tidy(hub) /\ Next => Tidy(hub)' /\ RoundStep
  BY NextSettled, SettledCounts DEF Settled
<1>3. Tidy(hub) /\ UNCHANGED vars => Tidy(hub)'
  BY DEF vars
<1>4. Inv(hub) /\ Upheld(hub) /\ Tidy(hub) /\ [Next]_vars => Tidy(hub)' /\ [RoundStep]_vars
  BY <1>2, <1>3
<1>5. QED
  BY <1>1, <1>4, MailInvariance, PTL DEF Spec, RoundsCountWakes
=============================================================================
