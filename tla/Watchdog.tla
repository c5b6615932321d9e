------------------------------ MODULE Watchdog ------------------------------
(***************************************************************************)
(* The timers of the hub (core/hub.py, watchdog_tick) and the stamps and   *)
(* latches that the handlers keep for them: the ping of a silent peer, the *)
(* idle state inferred for an agent that cannot report it, and the three   *)
(* signals for observers, blocked, quorum and stall.                       *)
(*                                                                         *)
(* Module Hub lets a timer fire at any visit; here there is a clock, and   *)
(* of the mail only what the timers read is left: how many wakes an agent  *)
(* has queued.  A handler and a tick each run under the lock of serve(),   *)
(* so each is one action.  The tick is not tied to its interval: it may    *)
(* come at any moment, as the lock and a loaded host allow.                *)
(*                                                                         *)
(* hub.log is what the last step did, the frames that came in and what the *)
(* hub sent; past is what a listener recalls from the logs.  Only the      *)
(* properties read them.                                                   *)
(*                                                                         *)
(* A definition whose name starts with Slip is a mistake one could make in *)
(* the definition that follows it; nothing uses it.                        *)
(***************************************************************************)
EXTENDS Naturals

CONSTANTS
  Agent, Observer,   \* the names of the two kinds
  Capable,           \* agents with the capability idle-events
  Everyone,          \* the addressee "*"
  Detail, NoDetail,  \* what an agent may be blocked on
  DeadAfter, PongTimeout, DeadTtl, AssumeIdleAfter, BlockedAfter, StallAfter,
  QueueCap, WakeCap

CONSTANTS            \* what the peers do
  Silent,            \* names that may fall silent; the others send a frame of
                     \* some kind at every instant
  Fragile,           \* names whose connection may end
  Says,              \* set of [from, to, accepted]
  Reports,           \* set of [from, state, detail], from an agent
  MaxNow             \* bound of the model: the last instant

Name == Agent \cup Observer

ASSUME WatchdogAssumption ==
  /\ Agent \cap Observer = {} /\ Capable \subseteq Agent
  /\ Everyone \notin Name /\ NoDetail \notin Detail
  /\ {DeadAfter, PongTimeout, DeadTtl, AssumeIdleAfter, BlockedAfter, StallAfter} \subseteq Nat
  /\ QueueCap \in Nat \ {0} /\ WakeCap \in Nat \ {0} /\ MaxNow \in Nat \ {0}
  /\ Silent \subseteq Name /\ Fragile \subseteq Name
  /\ Says \subseteq [from : Name, to : Name \cup {Everyone}, accepted : BOOLEAN]
  /\ Reports \subseteq [from : Agent, state : {"idle", "busy", "blocked"},
                        detail : Detail \cup {NoDetail}]
  /\ \A r \in Reports : (r.state = "blocked") <=> (r.detail # NoDetail)

VARIABLES now,       \* Clock.monotonic
          hub,       \* the registrations, _last_observer_say (asked),
                     \* _quorum_expected, _quorum_latched, _last_activity,
                     \* _stall_latched, _blocked_notified (cried), and the log
          past
vars == <<now, hub, past>>

\* A stamp that was never set; the clock starts after it.
Never == 0

\* busy is kept only while the agent is not idle: it is set before it is read.
NoReg == [where |-> "none", connected |-> FALSE, state |-> "idle", queue |-> 0,
          rx |-> Never, busy |-> Never, say |-> Never, blocked |-> Never,
          detail |-> NoDetail, awaiting |-> FALSE, deadline |-> Never]

Live(h)       == {n \in Name : h.reg[n].where = "live"}
Agents(h)     == Live(h) \cap Agent
Quiet(h)      == \A n \in Agents(h) : h.reg[n].state = "idle" /\ h.reg[n].queue = 0

Did(h, what) == [h EXCEPT !.log = @ \cup {what}]

-----------------------------------------------------------------------------
(* What the handlers leave for the timers.                                 *)

SlipTouch(h) == [h EXCEPT !.activity = now]
Touch(h) == [h EXCEPT !.activity = now, !.stalled = FALSE]     \* _touch_activity

Deliver(h, n) ==
  Touch(Did([h EXCEPT !.reg[n].state = "busy", !.reg[n].busy = now], <<"deliver", n>>))

FlushQueue(h, n) ==
  LET q == h.reg[n].queue
  IN  IF q = 0 \/ ~h.reg[n].connected THEN h
      ELSE Deliver([h EXCEPT !.reg[n].queue = IF q > WakeCap THEN q - WakeCap ELSE 0], n)

SetIdle(h, n) ==
  [h EXCEPT !.reg[n] = [@ EXCEPT !.state = "idle", !.busy = Never,
                                 !.blocked = Never, !.detail = NoDetail]]

Disconnect(h, n) ==
  Touch(Did([h EXCEPT !.reg[n].where = "dead", !.reg[n].connected = FALSE,
                      !.cried = @ \ {n}], <<"left", n>>))

\* handle(): any frame of a registered sender is a sign of life.
SlipHeard(h, n) == [h EXCEPT !.reg[n].rx = now]
Heard(h, n) == [h EXCEPT !.reg[n].rx = now, !.reg[n].awaiting = FALSE]

\* The registration of a newcomer, or of the dead one it reclaims, which
\* keeps its queue and the time of its last say.
SlipReclaimed(p) == [p EXCEPT !.where = "live", !.connected = TRUE, !.state = "idle",
                              !.rx = now, !.awaiting = FALSE]
Reclaimed(p) == [p EXCEPT !.where = "live", !.connected = TRUE, !.state = "idle",
                          !.busy = Never, !.rx = now, !.awaiting = FALSE,
                          !.blocked = Never, !.detail = NoDetail]

HandleHello(h, n) ==
  LET freed  == IF h.reg[n].where = "live" THEN Disconnect(h, n) ELSE h
      seated == [freed EXCEPT !.reg[n] = Reclaimed(@), !.cried = @ \ {n}]
  IN  FlushQueue(Touch(Did(seated, <<"joined", n>>)), n)

\* _route_say: whom a say of n wakes at once, for whom it waits.
Addressed(h, n, to) == {q \in Agents(h) \ {n} : to \in {q, Everyone}}
Woken(h, n, to) ==
  {q \in Addressed(h, n, to) : h.reg[q].state = "idle" /\ h.reg[q].connected}

\* Whom an observer's say asks; the sender is no agent.
Asked(h, to) == IF to = Everyone THEN {q \in Agents(h) : h.reg[q].connected}
                ELSE Agents(h) \cap {to}

Asking(h, to) ==
  IF Asked(h, to) = {} THEN h
  ELSE [h EXCEPT !.asked = now, !.expected = Asked(h, to), !.quorum = FALSE]

Accept(h, n, to) ==
  LET said   == Did([h EXCEPT !.reg[n].say = now], <<"say", n, to>>)
      asking == IF n \in Observer THEN Asking(said, to) ELSE said
      woken  == Woken(h, n, to)
  IN  Touch([asking EXCEPT
        !.reg = [q \in Name |->
          IF q \in woken THEN [asking.reg[q] EXCEPT !.state = "busy", !.busy = now]
          ELSE IF q \in Addressed(h, n, to)
          THEN [asking.reg[q] EXCEPT !.queue = IF @ < QueueCap THEN @ + 1 ELSE @]
          ELSE asking.reg[q]],
        !.log = @ \cup {<<"deliver", q>> : q \in woken}])

\* A say the hub refuses still shows that its sender produces output.
HandleSay(h, n, to, accepted) ==
  LET routed == IF accepted THEN Accept(h, n, to) ELSE h
  IN  IF n \notin Capable /\ routed.reg[n].state # "idle"
      THEN FlushQueue(SetIdle(routed, n), n) ELSE routed

\* Only a transition to blocked, or another detail, starts an episode.
SlipHandleBlocked(h, n, detail) ==
  [h EXCEPT !.reg[n].blocked = now, !.reg[n].detail = detail, !.cried = @ \ {n}]

HandleBlocked(h, n, detail) ==
  IF h.reg[n].state = "blocked" /\ h.reg[n].detail = detail THEN h
  ELSE [h EXCEPT !.reg[n].blocked = now, !.reg[n].detail = detail, !.cried = @ \ {n}]

HandleState(h, n, state, detail) ==
  LET rest == [SetIdle(h, n) EXCEPT !.reg[n].state = state]
  IN  CASE state = "blocked" -> [HandleBlocked(h, n, detail) EXCEPT
                                   !.reg[n].state = "blocked", !.reg[n].busy = now]
        [] state = "busy"    -> [rest EXCEPT !.reg[n].busy = now]
        [] state = "idle"    -> FlushQueue(rest, n)

-----------------------------------------------------------------------------
(* The tick.                                                               *)

Lapsed(stamp, limit) == now > stamp + limit      \* now - stamp > limit

Expired(h) ==
  LET gone == {n \in Name : h.reg[n].where = "dead" /\ Lapsed(h.reg[n].rx, DeadTtl)}
  IN  [h EXCEPT !.reg = [n \in Name |-> IF n \in gone THEN NoReg ELSE h.reg[n]],
                !.log = @ \cup {<<"expired", n>> : n \in gone}]

Ping(h, n) ==
  IF Lapsed(h.reg[n].rx, DeadAfter) /\ ~h.reg[n].awaiting
  THEN Did([h EXCEPT !.reg[n].awaiting = TRUE,
                     !.reg[n].deadline = now + PongTimeout], <<"ping", n>>)
  ELSE h

InferIdle(h, n) ==
  IF /\ n \notin Capable /\ h.reg[n].state # "idle"
     /\ Lapsed(h.reg[n].busy, AssumeIdleAfter)
  THEN FlushQueue(Did(SetIdle(h, n), <<"assumed", n>>), n) ELSE h

CryBlocked(h, n) ==
  IF /\ h.reg[n].state = "blocked" /\ h.reg[n].blocked # Never
     /\ Lapsed(h.reg[n].blocked, BlockedAfter) /\ n \notin h.cried
  THEN Did([h EXCEPT !.cried = @ \cup {n}], <<"blocked", n>>) ELSE h

\* One participant's turn in the loop of the tick.
Visited(h, n) ==
  LET p == h.reg[n]
      pinged == Ping(h, n)
  IN  IF ~p.connected \/ (p.awaiting /\ now > p.deadline) THEN Disconnect(h, n)
      ELSE IF n \in Observer THEN pinged
      ELSE CryBlocked(InferIdle(pinged, n), n)

\* The participants are visited one after the other.  A visit reads and
\* changes what is its own name's; of what they share it only touches the
\* activity.  So the visits of a tick are taken side by side.
VisitAll(h) ==
  LET visit(n) == Visited(h, n)
      visits   == {visit(n) : n \in Live(h)}
  IN  [h EXCEPT
        !.reg = [n \in Name |-> IF n \in Live(h) THEN visit(n).reg[n] ELSE @[n]],
        !.activity = IF \E g \in visits : g.activity = now THEN now ELSE @,
        !.stalled = \A g \in visits \cup {h} : g.stalled,
        !.cried = {n \in Agent : n \in (IF n \in Live(h) THEN visit(n) ELSE h).cried},
        !.log = @ \cup UNION {g.log : g \in visits}]

SlipQuorum(h) ==
  IF /\ Agents(h) # {} /\ ~h.quorum /\ h.asked # Never /\ Quiet(h)
     /\ \A n \in Agents(h) \cap h.expected : h.reg[n].say >= h.asked
  THEN Did([h EXCEPT !.quorum = TRUE], <<"quorum">>) ELSE h

Quorum(h) ==
  LET waited == Agents(h) \cap h.expected
  IN  IF /\ Agents(h) # {} /\ ~h.quorum /\ h.asked # Never /\ Quiet(h)
         /\ waited # {} /\ \A n \in waited : h.reg[n].say > h.asked
      THEN Did([h EXCEPT !.quorum = TRUE], <<"quorum">>) ELSE h

Stall(h) ==
  IF /\ Agents(h) # {} /\ Quiet(h)
     /\ Lapsed(h.activity, StallAfter) /\ ~h.stalled
  THEN Did([h EXCEPT !.stalled = TRUE], <<"stall">>) ELSE h

WatchdogTick(h) == Did(Stall(Quorum(VisitAll(Expired(h)))), <<"tick">>)

-----------------------------------------------------------------------------
(* What a listener recalls: who was asked and has answered since, how long *)
(* nothing has happened, and how long an agent has been blocked on a thing *)
(* without a cry.                                                          *)

Activity(e) == e[1] \in {"say", "deliver", "joined", "left", "cmd"}

Recall(h) ==
  LET does(t)  == {e \in h.log : e[1] = t}
      asking   == {e \in does("say") : e[2] \in Observer /\ Asked(h, e[3]) # {}}
      answers  == {e[2] : e \in does("say")} \cap Agent
      episode(n) ==
        IF h.reg[n].where # "live" \/ h.reg[n].state # "blocked" THEN Never
        ELSE IF past.on[n] = Never \/ past.what[n] # h.reg[n].detail THEN now
        ELSE past.on[n]
  IN  [asked    |-> IF asking = {} THEN past.asked
                    ELSE UNION {Asked(h, e[3]) : e \in asking},
       when     |-> IF asking = {} THEN past.when ELSE now,
       answered |-> IF asking # {} THEN {}
                    ELSE (past.answered \cup (IF now > past.when THEN answers ELSE {}))
                         \ {e[2] : e \in does("expired")},
       reached  |-> (IF asking = {} THEN past.reached ELSE FALSE) \/ does("quorum") # {},
       calm     |-> IF \E e \in h.log : Activity(e) THEN now ELSE past.calm,
       rung     |-> (past.rung /\ ~\E e \in h.log : Activity(e)) \/ does("stall") # {},
       on       |-> [n \in Agent |-> episode(n)],
       what     |-> [n \in Agent |-> h.reg[n].detail],
       cried    |-> {n \in Agent : /\ episode(n) # Never
                                   /\ \/ <<"blocked", n>> \in h.log
                                      \/ n \in past.cried /\ episode(n) = past.on[n]}]

Init ==
  /\ now = 1
  /\ hub = [reg |-> [n \in Name |-> NoReg], asked |-> Never, expected |-> {},
            quorum |-> FALSE, activity |-> 1, stalled |-> FALSE, cried |-> {},
            log |-> {}]
  /\ past = [asked |-> {}, when |-> Never, answered |-> {}, reached |-> FALSE,
             calm |-> 1, rung |-> FALSE, on |-> [n \in Agent |-> Never],
             what |-> [n \in Agent |-> NoDetail], cried |-> {}]

\* The hub as a handler finds it, and the step to what it leaves; of the log
\* only the part of the watchdog is kept.
Now == [hub EXCEPT !.log = {}]

Kept(e) == e[1] \in {"tick", "left", "blocked", "quorum", "stall"}
Becomes(h) ==
  /\ hub' = [h EXCEPT !.log = {e \in @ : <<"tick">> \in h.log /\ Kept(e)}]
  /\ past' = Recall(h)
  /\ UNCHANGED now

-----------------------------------------------------------------------------
(* The steps.                                                              *)

Known(n) == hub.reg[n].where = "live" /\ hub.reg[n].connected

Hello(n) ==        \* a name that is held by a connection that is up is refused
  /\ ~Known(n)
  /\ Becomes(HandleHello(Now, n))

Say(s) ==
  /\ Known(s.from) /\ s.to \in {Everyone} \cup Live(hub)
  /\ Becomes(HandleSay(Heard(Now, s.from), s.from, s.to, s.accepted))

Report(r) ==
  /\ Known(r.from)
  /\ Becomes(HandleState(Heard(Now, r.from), r.from, r.state, r.detail))

Pong(n) ==         \* or a roster request
  /\ Known(n) /\ n \in Silent
  /\ Becomes(Heard(Now, n))

Cmd(n) ==
  /\ Known(n) /\ n \in Observer
  /\ Becomes(Touch(Did(Heard(Now, n), <<"cmd", n>>)))

Fails(n) ==        \* a write fails or overflows; the read loop has not noticed
  /\ Known(n) /\ n \in Fragile
  /\ Becomes([Now EXCEPT !.reg[n].connected = FALSE])

Leaves(n) ==       \* bye, or the read loop has reaped the connection
  /\ hub.reg[n].where = "live" /\ n \in Fragile
  /\ Becomes(Disconnect(Now, n))

Tick == Becomes(WatchdogTick(Now))

Pass ==
  /\ now < MaxNow
  /\ now' = now + 1
  /\ hub' = [Now EXCEPT !.reg = [n \in Name |->   \* frames of the others
               IF Known(n) /\ n \notin Silent THEN [hub.reg[n] EXCEPT !.rx = now + 1]
               ELSE hub.reg[n]]]
  /\ past' = past

Next ==
  \/ \E n \in Name : Hello(n) \/ Pong(n) \/ Cmd(n) \/ Fails(n) \/ Leaves(n)
  \/ \E s \in Says : Say(s)
  \/ \E r \in Reports : Report(r)
  \/ Tick \/ Pass

Spec == Init /\ [][Next]_vars

-----------------------------------------------------------------------------
(* Properties.                                                             *)

Stamp == 0 .. MaxNow
Reg == [where : {"none", "live", "dead"}, connected : BOOLEAN,
        state : {"idle", "busy", "blocked"}, queue : 0 .. QueueCap,
        rx : Stamp, busy : Stamp, say : Stamp, blocked : Stamp,
        detail : Detail \cup {NoDetail}, awaiting : BOOLEAN, deadline : Nat]

\* Registrations and stamps are typed, and the stamps and the state of an
\* agent agree: only the blocked are blocked since some time and on something.
WatchdogTypeOK ==
  /\ now \in Stamp
  /\ hub.reg \in [Name -> Reg]
  /\ hub.asked \in Stamp /\ hub.expected \subseteq Agent /\ hub.cried \subseteq Agent
  /\ hub.activity \in Stamp /\ hub.quorum \in BOOLEAN /\ hub.stalled \in BOOLEAN
  /\ \A n \in Live(hub) :
       LET p == hub.reg[n]
       IN  /\ (p.state = "blocked") <=> (p.blocked # Never)
           /\ (p.state = "blocked") <=> (p.detail # NoDetail)

Ticked    == <<"tick">> \in hub'.log
Cried(n)  == <<"blocked", n>> \in hub'.log

\* docs/PROTOCOL.md, "Watchdog behavior clients observe": quorum fires at a
\* tick if and only if it has not fired since an observer last asked agents,
\* someone asked is still there, all of those have had a say accepted strictly
\* later, through departures and reclaims, and the floor is quiet.
QuorumWhenAnswered ==
  [][LET waited == past.asked \cap Agents(hub')
     IN  (<<"quorum">> \in hub'.log) <=>
           /\ Ticked /\ ~past.reached /\ past.when # Never
           /\ waited # {} /\ waited \subseteq past'.answered
           /\ Quiet(hub')]_vars

\* docs/PROTOCOL.md, stall: it fires at a tick if and only if there are agents,
\* all are idle with nothing queued, nothing that counts as activity has
\* happened for longer than stall_after, and it has not fired since.
StallOncePerCalm ==
  [][(<<"stall">> \in hub'.log) <=>
       /\ Ticked /\ Agents(hub') # {} /\ Quiet(hub')
       /\ now > past'.calm + StallAfter /\ ~past.rung]_vars

\* docs/PROTOCOL.md, blocked: it fires once in an episode, at the first tick
\* that finds the agent blocked on the same thing for longer than
\* blocked_after; repeated reports neither delay nor repeat it.
BlockedOncePerEpisode ==
  [][\A n \in Agent :
       Cried(n) <=>
         /\ Ticked /\ hub'.reg[n].where = "live" /\ hub'.reg[n].state = "blocked"
         /\ now > past.on[n] + BlockedAfter /\ n \notin past.cried]_vars

\* docs/PROTOCOL.md, ping: a peer whose connection is up is given up only
\* after a silence longer than dead_after and pong_timeout together, so never
\* one that answers its pings, nor a newcomer for its predecessor's silence.
OnlyTheSilentAreDropped ==
  [][\A n \in Name :
       Ticked /\ <<"left", n>> \in hub'.log /\ hub.reg[n].connected =>
         now > hub.reg[n].rx + DeadAfter + PongTimeout]_vars

\* The three signals to observers (Hub.watchdog_tick): each fires when it is
\* due, then only, and once, whatever frames and departures come between.
SignalsWhenDue ==
  []WatchdogTypeOK /\ QuorumWhenAnswered /\ StallOncePerCalm /\ BlockedOncePerEpisode

=============================================================================
