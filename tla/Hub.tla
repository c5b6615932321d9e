-------------------------------- MODULE Hub --------------------------------
(***************************************************************************)
(* The hub process of moot: core/hub.py (registry, floor control, routing, *)
(* rounds and freeze, session end, watchdog registry sweep) behind the     *)
(* connections of core/server.py (StreamClient, _read_loop).               *)
(*                                                                         *)
(* Every handler runs under the one asyncio lock of serve(), so a handler  *)
(* is one action.  What interleaves are the connections: frames arriving,  *)
(* a peer closing, a write failing or an outbound queue overflowing (which *)
(* only marks the connection), the read loop reaping it later, a second    *)
(* connection claiming the same name meanwhile, the watchdog, a crash.     *)
(*                                                                         *)
(* Operators named after the methods of Hub map the state of the process   *)
(* to its state after the call.  Time is left out: whatever a timer would  *)
(* do, it may do at any tick.  A tick visits the participants in turn; the *)
(* model lets other handlers run between two visits, which is more than    *)
(* the lock allows.                                                        *)
(*                                                                         *)
(* A definition whose name starts with Slip is a mistake one could make in *)
(* the definition that follows it; nothing uses it.  The README lists      *)
(* which property notices which slip.                                      *)
(***************************************************************************)
EXTENDS Mailbox

CONSTANTS
  Name,            \* participant names
  Conn,            \* connections that can exist at one time
  Slow,            \* connections whose peer may stop reading
  NoName, NoConn,
  System,          \* proto.SYSTEM_SENDER
  Everyone,        \* the addressee "*"
  Transcript,      \* where the hub records what it does
  Backlog,         \* Config.backlog_on_join
  RecentWindow,    \* Config.recent_window
  ConfigRounds,    \* Config.max_rounds
  OutboundMax      \* Config.outbound_queue_max

CONSTANTS          \* the frames the peers may send, and the timers that run
  Hellos,          \* set of [conn, name, kind, capable]
  Says,            \* set of [to, done, private]
  Reports,         \* states a peer may report
  Cmds,            \* set of [cmd, n]; n = 0 where the command has no number
  Screens,         \* outcomes of the rate and duplicate checks of a say
  Others,          \* subset of {"roster", "pong", "bye", "malformed"}: other frames
  Fragile,         \* connections that may end or fail
  Lapses,          \* subset of {"pong", "silence", "infer", "ttl"}
  Crashes          \* whether the hub process may be restarted

CONSTANTS MaxId, MaxLimit, MaxEvicted   \* bounds of the model, in the guards

States == {"idle", "busy", "blocked"}
Kinds  == {"agent", "observer"}
\* A record of the transcript, and its copy for one recipient (Msg.tag).
Record == [id : Nat, from : Name, to : Name \cup {Everyone}, private : BOOLEAN]
Msg    == [id : Nat, from : Name \cup {System}, to : Name \cup {Everyone},
           adr : {"direct", "broadcast", "overheard"}, private : BOOLEAN,
           count : Nat]     \* count: the number a placeholder line announces
Hello  == [conn : Conn, name : Name, kind : Kinds, capable : BOOLEAN]
SayFrame == [to : Name \cup {Everyone}, done : BOOLEAN, private : BOOLEAN]
CmdNames == {"freeze", "resume", "reset", "mute", "unmute", "goal"}

ASSUME IdentityAssumption ==
  /\ IsFiniteSet(Name)
  /\ NoName \notin Name /\ NoConn \notin Conn
  /\ System \notin Name /\ Everyone \notin Name /\ Transcript \notin Conn
ASSUME ConfigAssumption ==
  /\ Backlog \in Nat \ {0} /\ RecentWindow \in Nat \ {0}
  /\ ConfigRounds \in Nat \ {0} /\ OutboundMax \in Nat \ {0}
ASSUME InputAssumption ==
  /\ Slow \subseteq Conn /\ Fragile \subseteq Conn
  /\ Others \subseteq {"roster", "pong", "bye", "malformed"}
  /\ Hellos \subseteq Hello /\ Says \subseteq SayFrame /\ Reports \subseteq States
  /\ Cmds \subseteq [cmd : CmdNames, n : Nat]
  /\ Screens \subseteq {"pass", "rate_limited", "duplicate"}
  /\ Lapses \subseteq {"pong", "silence", "infer", "ttl"}
  /\ Crashes \in BOOLEAN
  /\ MaxId \in Nat /\ MaxLimit \in Nat /\ MaxEvicted \in Nat
\* A private say names its one reader (core/proto.py, validate_say).
ASSUME PrivacyAssumption == \A s \in Says : s.private => s.to \in Name

VARIABLE hub
(***************************************************************************)
(* hub.reg       the registrations, Hub.participants ("live") and Hub.dead *)
(* hub.conn      the connections: phase "free", "reading" (in _read_loop)  *)
(*               or "ending" (in its finally), Client.connected and .name, *)
(*               and the length of StreamClient._queue for the slow ones   *)
(* hub.round, frozen, muted, limit (max_rounds), counter (_msg_counter)    *)
(* hub.recent    Hub._recent, the tail of the transcript's msg records     *)
(* hub.sent      what the last step emitted: frames that entered an        *)
(*               outbound queue, and records in the transcript             *)
(***************************************************************************)

FreeConn == [phase |-> "free", connected |-> FALSE, name |-> NoName, out |-> 0]

NoReg ==
  [where |-> "none", kind |-> "agent", capable |-> FALSE, client |-> NoConn,
   state |-> "idle", queue |-> << >>, dropped |-> 0, context |-> << >>,
   evicted |-> 0, finished |-> FALSE, awaiting |-> FALSE]

SlipBootFromZero(recent) ==
  [reg |-> [n \in Name |-> NoReg], conn |-> [c \in Conn |-> FreeConn],
   round |-> 0, frozen |-> FALSE, muted |-> FALSE, limit |-> ConfigRounds,
   counter |-> 0, recent |-> recent, sent |-> {}]

\* A hub process that has just started on this transcript tail (Hub.__init__).
Boot(recent) ==
  [reg |-> [n \in Name |-> NoReg], conn |-> [c \in Conn |-> FreeConn],
   round |-> 0, frozen |-> FALSE, muted |-> FALSE, limit |-> ConfigRounds,
   counter |-> IF recent = << >> THEN 0 ELSE recent[Len(recent)].id,
   recent |-> recent, sent |-> {}]

-----------------------------------------------------------------------------
(* Who is who.                                                             *)

Live(h)         == {n \in Name : h.reg[n].where = "live"}
IsObserver(h, n) == h.reg[n].kind = "observer"
Agents(h)       == {n \in Live(h) : ~IsObserver(h, n)}
Observers(h)    == {n \in Live(h) : IsObserver(h, n)}
Reachable(h, n) == h.reg[n].client \in Conn /\ h.conn[h.reg[n].client].connected

-----------------------------------------------------------------------------
(* Sending.  StreamClient.send drops a frame for a dead connection, and    *)
(* aborts the connection when its outbound queue is full.                  *)

Full(h, c)    == c \in Slow /\ h.conn[c].out >= OutboundMax
Takes(h, c)   == h.conn[c].connected /\ ~Full(h, c)
Cut(k)        == [k EXCEPT !.connected = FALSE, !.out = 0]

\* A connection after one frame was sent to it.
Loaded(h, c) ==
  IF ~Takes(h, c) THEN Cut(h.conn[c])
  ELSE IF c \in Slow THEN [h.conn[c] EXCEPT !.out = @ + 1]
  ELSE h.conn[c]

\* One frame to each of several connections, and records in the transcript.
Push(h, frames, records) ==
  LET sinks == {f.sink : f \in frames}
  IN  [h EXCEPT
        !.conn = [c \in Conn |-> IF c \in sinks THEN Loaded(h, c) ELSE h.conn[c]],
        !.sent = @ \cup {f \in frames : Takes(h, f.sink)} \cup records]

Reply(h, c, from, verdict) ==
  Push(h, {[sink |-> c, t |-> verdict, re |-> from]}, {})

\* _emit_event: to the observers that are connected, and to the transcript.
EmitSkipping(h, event, about, skip) ==
  LET seen(s) == [sink |-> s, t |-> "event", event |-> event, name |-> about]
      seats   == {h.reg[n].client : n \in Observers(h) \ skip}
  IN  Push(h, {seen(c) : c \in seats \cap Conn}, {seen(Transcript)})

Emit(h, event, about) == EmitSkipping(h, event, about, {})

\* _deliver to the participants in the domain of batch; each is a live one.
Deliver(h, batch) ==
  LET to == DOMAIN batch
      frame(s, n) == [sink |-> s, t |-> "deliver", name |-> n,
                      round |-> h.round, msgs |-> batch[n]]
      p == Push(h, {frame(h.reg[n].client, n) : n \in to},
                   {frame(Transcript, n) : n \in to})
  IN  [p EXCEPT !.reg = [n \in Name |->
         IF n \in to /\ ~IsObserver(h, n) THEN [h.reg[n] EXCEPT !.state = "busy"]
         ELSE h.reg[n]]]

-----------------------------------------------------------------------------
(* Rounds, the freeze, and the end of a session.                           *)

SlipRoundLimitDecidesAlone(h) == [h EXCEPT !.frozen = h.round >= h.limit]

CheckRoundLimit(h) ==
  IF h.round >= h.limit /\ ~h.frozen
  THEN Emit([h EXCEPT !.frozen = TRUE], "round_limit", NoName)
  ELSE h

SessionOver(h) ==
  /\ Agents(h) # {}
  /\ \A n \in Agents(h) : h.reg[n].finished /\ h.reg[n].queue = << >>

CheckSessionDone(h) ==
  IF SessionOver(h)
  THEN [Emit(h, "session_done", NoName) EXCEPT
          !.round = 0,
          !.reg = [n \in Name |-> IF n \in Agents(h)
                                  THEN [h.reg[n] EXCEPT !.finished = FALSE]
                                  ELSE h.reg[n]]]
  ELSE h

-----------------------------------------------------------------------------
(* Delivery.                                                               *)

Line(adr, count) ==   \* a line of the hub's own, never a citable message
  [id |-> 0, from |-> System, to |-> Everyone, adr |-> adr,
   private |-> FALSE, count |-> count]

Omitted(box)  == IF box.evicted > 0 THEN {Line("overheard", box.evicted)} ELSE {}
Notice(box)   == IF box.dropped > 0 THEN {Line("direct", box.dropped)} ELSE {}

\* A slice of notes of the hub's own costs no round.
SlipAskedByNotes(wake) == \A m \in wake : m.from = System
Asked(wake) == \E m \in wake : m.from # System

HandSlice(h, n) ==
  LET p     == h.reg[n]
      wake  == Notice(p) \cup Items(p.queue, SliceLen(p))
      batch == Omitted(p) \cup Items(p.context, SliceContext(p)) \cup wake
      taken == [h EXCEPT !.reg[n] = AfterSlice(p),
                         !.round = IF Asked(wake) THEN @ + 1 ELSE @]
      given == Deliver(taken, [q \in {n} |-> batch])
  IN  IF Asked(wake) THEN CheckRoundLimit(given) ELSE given

SlipFlushUnchecked(h, n) ==
  IF h.reg[n].queue = << >> \/ ~Reachable(h, n) THEN h ELSE HandSlice(h, n)

FlushQueue(h, n) ==
  IF h.reg[n].queue = << >> \/ ~Reachable(h, n) THEN h
  ELSE CheckSessionDone(HandSlice(h, n))

\* _system_message to every live agent; rank is their order in the registry.
SystemMessage(h, rank) ==
  LET note(n)  == [id |-> h.counter + rank[n], from |-> System, to |-> n,
                   adr |-> "direct", private |-> FALSE, count |-> 0]
      woken    == {n \in Agents(h) : h.reg[n].state = "idle" /\ Reachable(h, n)}
      upto(n)  == Prefix(h.reg[n].context, note(n).id)
      noted    == [h EXCEPT
        !.counter = @ + Cardinality(Agents(h)),
        !.reg = [n \in Name |->
          IF n \in woken THEN Drained(h.reg[n], upto(n))
          ELSE IF n \in Agents(h) THEN Enqueue(h.reg[n], note(n))
          ELSE h.reg[n]]]
  IN  Deliver(noted, [n \in woken |->
        Omitted(h.reg[n]) \cup Items(h.reg[n].context, upto(n)) \cup {note(n)}])

-----------------------------------------------------------------------------
(* Leaving and joining.                                                    *)

Close(h, c) == [h EXCEPT !.conn[c] = Cut(h.conn[c])]

\* Only the connection that holds the name gives it up.
SlipHoldsByName(h, c) == h.conn[c].name \in Live(h)
Holds(h, c) == h.conn[c].name \in Live(h) /\ h.reg[h.conn[c].name].client = c

Depart(h, n) ==
  Emit([h EXCEPT !.reg[n].where = "dead", !.reg[n].client = NoConn], "peer_left", n)

SlipDisconnectUnchecked(h, c) ==
  Close(IF Holds(h, c) THEN Depart(h, h.conn[c].name) ELSE h, c)

Disconnect(h, c) ==
  Close(IF Holds(h, c) THEN CheckSessionDone(Depart(h, h.conn[c].name)) ELSE h, c)

Tag(r, adr) == [id |-> r.id, from |-> r.from, to |-> r.to, adr |-> adr,
                private |-> r.private, count |-> 0]

Addressing(n, to) == CASE to = n -> "direct"
                       [] to = Everyone -> "broadcast"
                       [] OTHER -> "overheard"

(***************************************************************************)
(* What a joiner is told of the past: of the recent records it may see,    *)
(* the last Backlog, less its own.  InOrder holds the one sequence that    *)
(* lists a set of records by id.                                           *)
(***************************************************************************)
SlipMayReadAll(x, r) == TRUE
MayRead(x, r) == x.kind = "observer" \/ ~r.private \/ r.to = x.name

BacklogFor(h, x) ==
  LET visible == {r \in Items(h.recent, Len(h.recent)) : MayRead(x, r)}
      window  == {r \in visible : Cardinality({s \in visible : s.id >= r.id}) <= Backlog}
  IN  {r \in window : r.from # x.name}

InOrder(S) == {s \in [1 .. Cardinality(S) -> S] :
                 \A i, j \in 1 .. Cardinality(S) : i < j => s[i].id < s[j].id}

GiveBacklog(h, x, past) ==
  IF x.kind = "agent"
  THEN [h EXCEPT !.reg[x.name] =
          OverhearAll(@, [i \in DOMAIN past |-> Tag(past[i], "overheard")])]
  ELSE IF past = << >> THEN h
  ELSE Deliver(h, [n \in {x.name} |->
         {Tag(past[i], Addressing(n, past[i].to)) : i \in DOMAIN past}])

\* The registration of a newcomer, or of the dead one it reclaims.
Registered(p, x) ==
  LET box == IF p.where = "dead" THEN p ELSE NoReg
  IN  [box EXCEPT !.where = "live", !.kind = x.kind, !.capable = x.capable,
                  !.client = x.conn, !.state = "idle", !.finished = FALSE,
                  !.awaiting = FALSE]

Seated(h, x, past) ==
  LET rejoined == h.reg[x.name].where = "dead"
      named    == [h EXCEPT !.reg[x.name] = Registered(@, x),
                            !.conn[x.conn].name = x.name]
      welcomed == Push(named, {[sink |-> x.conn, t |-> "welcome"]}, {})
      briefed  == IF rejoined /\ x.kind = "agent" THEN welcomed
                  ELSE GiveBacklog(welcomed, x, past)
  IN  EmitSkipping(briefed, "peer_joined", x.name, {x.name})

SlipJoinUnflushed(h, x, past) == Seated(h, x, past)

Join(h, x, past) ==
  IF h.reg[x.name].where = "dead" THEN FlushQueue(Seated(h, x, past), x.name)
  ELSE Seated(h, x, past)

HandleHello(h, x, past) ==
  LET c      == x.conn
      held   == x.name \in Live(h)
      reaped == IF held /\ ~Reachable(h, x.name)
                THEN Disconnect(h, h.reg[x.name].client) ELSE h
  IN  IF h.conn[c].name # NoName THEN Reply(h, c, c, "err")
      ELSE IF x.name \in Live(reaped) THEN Close(Reply(reaped, c, c, "err"), c)
      ELSE Join(reaped, x, past)

-----------------------------------------------------------------------------
(* A say.  The frame came in on connection c; whoever holds the name of c  *)
(* now is taken for its sender, and gets the reply.                        *)

Verdict(h, n, s, screen) ==
  LET agent == ~IsObserver(h, n)
  IN  IF agent /\ h.frozen THEN "frozen"
      ELSE IF agent /\ h.muted /\ (s.to = Everyone \/ s.to \in Agents(h)) THEN "muted"
      ELSE IF s.to # Everyone /\ s.to \notin Live(h) THEN "unknown_recipient"
      ELSE IF agent THEN screen    \* TokenBucket, then DedupWindow
      ELSE "pass"

Refuse(h, c, n) ==
  LET told == Reply(h, h.reg[n].client, c, "err")
  IN  IF IsObserver(h, n) THEN told ELSE Emit(told, "rejected", n)

LastOf(seq, k) == IF Len(seq) <= k THEN seq ELSE SubSeq(seq, Len(seq) - k + 1, Len(seq))

\* Whom a say of n concerns, the sender never: the agents it addresses, the
\* ones of them it wakes, the agents that overhear it, the observers.
Addressed(h, n, s) ==
  {q \in Agents(h) \ {n} : Addressing(q, s.to) # "overheard"}

SlipWokenBusy(h, n, s) == {q \in Addressed(h, n, s) : Reachable(h, q)}
Woken(h, n, s) == {q \in Addressed(h, n, s) : h.reg[q].state = "idle" /\ Reachable(h, q)}

SlipAsideOfPrivate(h, n, s) == (Agents(h) \ {n}) \ Addressed(h, n, s)
Aside(h, n, s) ==
  IF s.private THEN {} ELSE (Agents(h) \ {n}) \ Addressed(h, n, s)

SlipSeatsNotPrivate(h, n, s) ==
  IF s.private THEN {} ELSE {q \in Observers(h) \ {n} : Reachable(h, q)}
Seats(h, n, s) == {q \in Observers(h) \ {n} : Reachable(h, q)}

\* One round per say that wakes, independent of the number it wakes.
SlipRoundPerRecipient(woken) == Cardinality(woken)
RoundsFor(woken) == IF woken = {} THEN 0 ELSE 1

Accept(h, c, n, s) ==
  LET rec     == [id |-> h.counter + 1, from |-> n, to |-> s.to, private |-> s.private]
      copy(q) == Tag(rec, Addressing(q, s.to))
      woken   == Woken(h, n, s)
      upto(q) == Prefix(h.reg[q].context, rec.id)
      routed  == [h EXCEPT
        !.counter = rec.id,
        !.recent  = LastOf(Append(@, rec), RecentWindow),
        !.reg     = [q \in Name |->
          IF q \in woken THEN Drained(h.reg[q], upto(q))
          ELSE IF q \in Addressed(h, n, s) THEN Enqueue(h.reg[q], copy(q))
          ELSE IF q \in Aside(h, n, s) THEN Overhear(h.reg[q], copy(q))
          ELSE h.reg[q]],
        !.round   = @ + RoundsFor(woken),
        !.sent    = @ \cup {[sink |-> Transcript, t |-> "msg", id |-> rec.id,
                              from |-> n, done |-> s.done]}]
      shown   == Deliver(routed, [q \in Seats(h, n, s) |-> {copy(q)}])
      given   == Deliver(shown, [q \in woken |->
                   Omitted(h.reg[q]) \cup Items(h.reg[q].context, upto(q)) \cup {copy(q)}])
  IN  Reply(IF woken = {} THEN shown ELSE CheckRoundLimit(given),
            h.reg[n].client, c, "ok")

SetIdle(h, n) == [h EXCEPT !.reg[n].state = "idle"]

\* The flush comes between the routing and the sender's done mark.
HandleSay(h, c, n, s, screen) ==
  LET accepted == Verdict(h, n, s, screen) = "pass"
      routed   == IF accepted THEN Accept(h, c, n, s) ELSE Refuse(h, c, n)
      flushed  == IF ~h.reg[n].capable /\ routed.reg[n].state # "idle"
                  THEN FlushQueue(SetIdle(routed, n), n) ELSE routed
      marked   == [flushed EXCEPT !.reg[n].finished = s.done]
  IN  IF ~accepted \/ IsObserver(h, n) THEN flushed
      ELSE IF s.done THEN CheckSessionDone(marked) ELSE marked

SlipStateUnflushed(h, n, state) == [h EXCEPT !.reg[n].state = state]

HandleState(h, n, state) ==
  LET told == [h EXCEPT !.reg[n].state = state]
  IN  IF state = "idle" THEN FlushQueue(told, n) ELSE told

\* The goal becomes a context line of every agent; it takes no id.
BufferGoal(h) ==
  [h EXCEPT !.reg = [n \in Name |->
     IF n \in Agents(h) THEN Overhear(h.reg[n], Line("overheard", 0)) ELSE h.reg[n]]]

SlipResumeFromLimit(h, n) ==
  IF n > 0 THEN h.limit + n
  ELSE IF h.round >= h.limit THEN h.round + ConfigRounds ELSE h.limit

ResumedLimit(h, n) ==
  LET higher == IF h.limit >= h.round THEN h.limit ELSE h.round
  IN  IF n > 0 THEN higher + n
      ELSE IF h.round >= h.limit THEN h.round + ConfigRounds
      ELSE h.limit

RunCmd(h, x, rank) ==
  CASE x.cmd = "freeze" -> Emit([h EXCEPT !.frozen = TRUE], "frozen", NoName)
    [] x.cmd = "resume" -> Emit([h EXCEPT !.limit = ResumedLimit(h, x.n),
                                          !.frozen = FALSE], "resumed", NoName)
    [] x.cmd = "reset"  -> Emit([h EXCEPT !.round = 0, !.frozen = FALSE],
                                "reset", NoName)
    [] x.cmd = "mute"   -> SystemMessage(Emit([h EXCEPT !.muted = TRUE],
                                              "muted", NoName), rank)
    [] x.cmd = "unmute" -> SystemMessage(Emit([h EXCEPT !.muted = FALSE],
                                              "unmuted", NoName), rank)
    [] x.cmd = "goal"   -> BufferGoal(Emit(h, "goal_set", NoName))

HandleCmd(h, c, n, x, rank) ==
  IF IsObserver(h, n)
  THEN Reply(RunCmd(h, x, rank), h.reg[n].client, c, "ok")
  ELSE Reply(h, h.reg[n].client, c, "err")

Ranks(S) == {f \in [S -> 1 .. Cardinality(S)] : \A p, q \in S : f[p] = f[q] => p = q}

-----------------------------------------------------------------------------
(* The steps of the process.                                               *)

Now == [hub EXCEPT !.sent = {}]

\* _read_loop leaves its loop after a frame that left the client unconnected.
Handled(h, c) ==
  IF h.conn[c].connected THEN h ELSE [h EXCEPT !.conn[c].phase = "ending"]

Reading(c) == hub.conn[c].phase = "reading"

\* handle(): a registered sender's frame is a sign of life.  The lookup is
\* by the name the connection once claimed.
Sender(c)  == hub.conn[c].name
Known(c)   == Reading(c) /\ Sender(c) \in Live(hub)
Heard(c)   == [Now EXCEPT !.reg[Sender(c)].awaiting = FALSE]

Connect(c) ==      \* listen(): a peer connects
  /\ hub.conn[c].phase = "free"
  /\ hub' = [Now EXCEPT !.conn[c] = [FreeConn EXCEPT !.phase = "reading",
                                                     !.connected = TRUE]]

ReadHello(x) ==
  /\ Reading(x.conn)
  /\ \E past \in InOrder(BacklogFor(hub, x)) :
       hub' = Handled(HandleHello(Now, x, past), x.conn)

ReadSay(c) ==
  /\ Known(c)
  /\ hub.counter < MaxId
  /\ \E s \in Says, screen \in Screens :
       hub' = Handled(HandleSay(Heard(c), c, Sender(c), s, screen), c)

ReadState(c) ==
  /\ Known(c)
  /\ \E state \in Reports :
       hub' = Handled(HandleState(Heard(c), Sender(c), state), c)

ReadCmd(c) ==
  /\ Known(c)
  /\ \E x \in Cmds, rank \in Ranks(Agents(hub)) :
       /\ x.cmd \in {"mute", "unmute"} =>
            hub.counter + Cardinality(Agents(hub)) <= MaxId
       /\ x.cmd = "resume" => ResumedLimit(hub, x.n) <= MaxLimit
       /\ x.cmd = "goal" => \A n \in Name : hub.reg[n].evicted < MaxEvicted
       /\ hub' = Handled(HandleCmd(Heard(c), c, Sender(c), x, rank), c)

ReadRoster(c) ==
  /\ "roster" \in Others /\ Known(c)
  /\ hub' = Handled(Push(Heard(c), {[sink |-> hub.reg[Sender(c)].client,
                                     t |-> "roster"]}, {}), c)

ReadPong(c) ==
  /\ "pong" \in Others /\ Known(c)
  /\ hub' = Handled(Heard(c), c)

ReadBye(c) ==
  /\ "bye" \in Others /\ Known(c)
  /\ hub' = Handled(Disconnect(Heard(c), c), c)

\* A frame that does not parse or validate, or one before hello.
ReadMalformed(c) ==
  /\ "malformed" \in Others /\ Reading(c)
  /\ hub' = Handled(Reply(Now, c, c, "err"), c)

\* EOF, a transport error or an oversized frame ends the loop ...
StopReading(c) ==
  /\ Reading(c)
  /\ c \in Fragile \/ ~hub.conn[c].connected
  /\ \E told \in {Now, Reply(Now, c, c, "err")} :
       hub' = [told EXCEPT !.conn[c].phase = "ending"]

\* ... and its finally takes the lock and gives the registration up.
Reap(c) ==
  /\ hub.conn[c].phase = "ending"
  /\ hub' = [Disconnect(Now, c) EXCEPT !.conn[c] = FreeConn]

\* _write_loop passes a frame to the transport, or fails and aborts.
WriteOne(c) ==
  /\ hub.conn[c].out > 0
  /\ hub' = [Now EXCEPT !.conn[c].out = @ - 1]

WriteFails(c) ==
  /\ c \in Fragile /\ hub.conn[c].connected
  /\ hub' = [Now EXCEPT !.conn[c] = Cut(@)]

\* watchdog_tick, the part that changes a registration: an unreachable or
\* silent one is dropped, a long quiet one is pinged, and an agent that
\* cannot report idle is taken for idle.
SlipOverdueOnlyByPong(h, n, lapsed) == h.reg[n].awaiting /\ "pong" \in lapsed
Overdue(h, n, lapsed) ==
  ~Reachable(h, n) \/ (h.reg[n].awaiting /\ "pong" \in lapsed)

SlipInfersTheCapable(h, n, lapsed) ==
  /\ "infer" \in lapsed
  /\ n \in Agents(h) /\ h.reg[n].capable /\ h.reg[n].state # "idle"
InfersIdle(h, n, lapsed) ==
  /\ "infer" \in lapsed
  /\ n \in Agents(h) /\ ~h.reg[n].capable /\ h.reg[n].state # "idle"

Ping(h, n) ==
  [Push(h, {[sink |-> h.reg[n].client, t |-> "ping"]}, {}) EXCEPT !.reg[n].awaiting = TRUE]

Visited(h, n, lapsed) ==
  LET pinged == IF "silence" \in lapsed /\ ~h.reg[n].awaiting THEN Ping(h, n) ELSE h
  IN  IF Overdue(h, n, lapsed) THEN Disconnect(h, h.reg[n].client)
      ELSE IF InfersIdle(h, n, lapsed)
      THEN FlushQueue(Emit(SetIdle(pinged, n), "stall", n), n)
      ELSE pinged

Visit(n, lapsed) ==
  /\ n \in Live(hub)
  /\ hub' = Visited(Now, n, lapsed)

Expire(n) ==
  /\ "ttl" \in Lapses
  /\ hub.reg[n].where = "dead"
  /\ hub' = [Now EXCEPT !.reg[n] = NoReg]

\* The process dies and is started again; the transcript is all that is left.
Restart ==
  /\ Crashes
  /\ hub' = Boot(hub.recent)

Init == hub = Boot(<< >>)

ConnStep(c) ==
  \/ Connect(c)
  \/ ReadSay(c) \/ ReadState(c) \/ ReadCmd(c) \/ ReadRoster(c) \/ ReadPong(c)
  \/ ReadBye(c) \/ ReadMalformed(c)
  \/ StopReading(c) \/ Reap(c) \/ WriteOne(c) \/ WriteFails(c)

Tick == \E n \in Name, lapsed \in SUBSET Lapses : Visit(n, lapsed)

Next ==
  \/ \E x \in Hellos : ReadHello(x)
  \/ \E c \in Conn : ConnStep(c)
  \/ Tick
  \/ \E n \in Name : Expire(n)
  \/ Restart

vars == hub
Spec == Init /\ [][Next]_vars

\* _watchdog_loop runs for ever and survives a failing tick: every
\* registration is visited again and again, and an agent that stays busy for
\* assume_idle_after without a say is found so at some visit.
Watchdog == \A n \in Name : WF_vars(Visit(n, Lapses \cap {"infer"}))
LiveSpec == Spec /\ Watchdog
=============================================================================
