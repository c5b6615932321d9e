--------------------------- MODULE WatchdogProofs ---------------------------
(***************************************************************************)
(* The signals of the watchdog, for any peers and any timeouts: what the   *)
(* stamps and latches of the hub say is what a listener recalls, so each   *)
(* signal is given when it is due, and only then.                          *)
(*                                                                         *)
(* A handler is followed through the operators it is composed of, from the *)
(* state it finds (Now) to the state it leaves, which Becomes hands to the *)
(* next step.  In between the log has what was done so far.                *)
(***************************************************************************)
EXTENDS Watchdog, TLAPS

-----------------------------------------------------------------------------
(* The inductive invariant.                                                *)

Time == 0 .. now

Entry == [where : {"none", "live", "dead"}, connected : BOOLEAN,
          state : {"idle", "busy", "blocked"}, queue : 0 .. QueueCap,
          rx : Time, busy : Time, say : Time, blocked : Time,
          detail : Detail \cup {NoDetail}, awaiting : BOOLEAN, deadline : Nat]

Event == {<<"tick">>, <<"quorum">>, <<"stall">>}
           \cup {<<t, n>> : t \in {"deliver", "left", "joined", "cmd", "expired",
                                   "ping", "assumed", "blocked"}, n \in Name}
           \cup {<<"say", n, to>> : n \in Name, to \in Name \cup {Everyone}}

HubState == [reg : [Name -> Entry], asked : Time, expected : SUBSET Agent,
             quorum : BOOLEAN, activity : Time, stalled : BOOLEAN,
             cried : SUBSET Agent, log : SUBSET Event]

Memory == [asked : SUBSET Agent, when : Time, answered : SUBSET Agent,
           reached : BOOLEAN, calm : Time, rung : BOOLEAN, on : [Agent -> Time],
           what : [Agent -> Detail \cup {NoDetail}], cried : SUBSET Agent]

Blocked(p) == p.where = "live" /\ p.state = "blocked"

\* A registration is in order.  Only the live are connected; the blocked are
\* blocked since some time and on something; a ping is out only after the
\* silence that is allowed, and never to those who are heard all the time.
Sane(n, p) ==
  /\ p.where = "live" => /\ (p.state = "blocked") <=> (p.blocked # Never)
                         /\ (p.state = "blocked") <=> (p.detail # NoDetail)
  /\ p.connected => p.where = "live"
  /\ p.connected /\ p.awaiting => p.deadline > p.rx + DeadAfter + PongTimeout
  /\ p.connected /\ n \notin Silent => p.rx = now /\ ~p.awaiting

\* What is recalled is what the stamps and latches say.
Polled(r, h) ==
  /\ r.asked = h.expected /\ r.when = h.asked /\ r.reached = h.quorum
  /\ r.answered = {n \in Agent : h.reg[n].say > h.asked}

Hushed(r, h) == r.calm = h.activity /\ r.rung = h.stalled

Followed(r, h) ==
  \A n \in Agent :
    LET p == h.reg[n]
    IN  /\ r.on[n] = (IF Blocked(p) THEN p.blocked ELSE Never) /\ r.what[n] = p.detail
        /\ n \in r.cried <=> Blocked(p) /\ n \in h.cried
        /\ n \in r.cried => now > r.on[n] + BlockedAfter

Inv ==
  /\ now \in 1 .. MaxNow /\ hub \in HubState /\ past \in Memory
  /\ \A n \in Name : Sane(n, hub.reg[n])
  /\ Polled(past, hub) /\ Hushed(past, hub) /\ Followed(past, hub)

-----------------------------------------------------------------------------
(* What a handler has done so far.                                         *)

Stirred(h) == \E e \in h.log : Activity(e)

Calm(h) ==
  /\ h.activity = (IF Stirred(h) THEN now ELSE past.calm)
  /\ h.stalled = (past.rung /\ ~Stirred(h))

\* An agent is not blocked, or is it as it was, but for a cry, or anew.
Lasting(h, n) ==
  LET p == h.reg[n]
      cry == <<"blocked", n>> \in h.log
  IN  \/ ~Blocked(p) /\ ~cry
      \/ /\ Blocked(p) /\ p.blocked = past.on[n] /\ p.detail = past.what[n]
         /\ n \in h.cried <=> n \in past.cried \/ cry
         /\ cry => now > past.on[n] + BlockedAfter
      \/ /\ Blocked(p) /\ p.blocked = now /\ n \notin h.cried /\ ~cry
         /\ past.on[n] = Never \/ past.what[n] # p.detail

Steady(h) ==
  /\ now \in Nat \ {0} /\ h \in HubState
  /\ \A n \in Name : Sane(n, h.reg[n])
  /\ \A n \in Agent : Lasting(h, n)

Proper(h) == Steady(h) /\ Calm(h)

\* Nothing that decides a quorum has changed.
Votes(h, g) ==
  /\ g.asked = h.asked /\ g.expected = h.expected /\ g.quorum = h.quorum
  /\ \A n \in Name : g.reg[n].say = h.reg[n].say
  /\ \A e : e[1] \in {"say", "expired", "quorum"} => (e \in g.log <=> e \in h.log)

\* Nor has anyone come or gone.
Seated(h, g) ==
  \A n \in Name : /\ g.reg[n].where = h.reg[n].where
                  /\ g.reg[n].connected = h.reg[n].connected

LEMMA VotesTransitive ==
  ASSUME NEW h, NEW g, NEW i, Votes(h, g), Votes(g, i)
  PROVE  Votes(h, i)
BY DEF Votes

\* One registration changes, and the agent is no longer blocked or still is.
LEMMA OneReg ==
  ASSUME NEW h, Steady(h), NEW n \in Name, NEW p \in Entry, Sane(n, p),
         p.say = h.reg[n].say,
         \/ ~Blocked(p) /\ <<"blocked", n>> \notin h.log
         \/ /\ p.where = h.reg[n].where /\ p.state = h.reg[n].state
            /\ p.blocked = h.reg[n].blocked /\ p.detail = h.reg[n].detail
  PROVE  LET g == [h EXCEPT !.reg[n] = p]
         IN  /\ Steady(g) /\ (Calm(h) => Calm(g)) /\ Votes(h, g)
             /\ g.reg[n] = p /\ g.log = h.log /\ g.cried = h.cried
<1> DEFINE g == [h EXCEPT !.reg[n] = p]
<1>1. /\ g \in HubState /\ g.log = h.log /\ g.cried = h.cried
      /\ g.asked = h.asked /\ g.expected = h.expected /\ g.quorum = h.quorum
      /\ g.activity = h.activity /\ g.stalled = h.stalled
      /\ g.reg = [h.reg EXCEPT ![n] = p]
  BY DEF Steady, HubState
<1>2. g.reg[n] = p /\ \A q \in Name \ {n} : g.reg[q] = h.reg[q]
  BY <1>1 DEF Steady, HubState
<1> HIDE DEF g
<1>3. \A q \in Name : Sane(q, g.reg[q])
  BY <1>2 DEF Steady
<1>4. \A q \in Agent : Lasting(g, q)
  <2> TAKE q \in Agent
  <2>1. Lasting(h, q) /\ q \in Name
    BY DEF Steady, Name
  <2>2. CASE q = n
    BY <1>1, <1>2, <2>1, <2>2 DEF Lasting, Blocked
  <2>3. CASE q # n
    BY <1>1, <1>2, <2>1, <2>3 DEF Lasting
  <2>4. QED
    BY <2>2, <2>3
<1>5. Calm(h) => Calm(g)
  BY <1>1 DEF Calm, Stirred
<1>6. Votes(h, g)
  BY <1>1, <1>2 DEF Votes
<1>7. QED
  BY <1>1, <1>2, <1>3, <1>4, <1>5, <1>6 DEF Steady, g

\* What is done is noted.
LEMMA Noted ==
  ASSUME NEW h, Steady(h), NEW e \in Event,
         e[1] \notin {"blocked", "say", "expired", "quorum"}
  PROVE  LET g == Did(h, e)
         IN  /\ Steady(g) /\ (Calm(h) /\ ~Activity(e) => Calm(g)) /\ Votes(h, g)
             /\ (Activity(e) => Stirred(g))
             /\ g.reg = h.reg /\ g.cried = h.cried /\ g.log = h.log \cup {e}
<1> DEFINE g == Did(h, e)
<1>1. /\ g \in HubState /\ g.log = h.log \cup {e} /\ g.cried = h.cried /\ g.reg = h.reg
      /\ g.asked = h.asked /\ g.expected = h.expected /\ g.quorum = h.quorum
      /\ g.activity = h.activity /\ g.stalled = h.stalled
  BY DEF Did, Steady, HubState
<1> HIDE DEF g
<1>2. \A q : <<"blocked", q>> # e
  OBVIOUS
<1>3. \A q \in Agent : Lasting(g, q)
  BY <1>1, <1>2 DEF Lasting, Steady
<1>4. (Activity(e) => Stirred(g)) /\ (~Activity(e) => (Stirred(g) <=> Stirred(h)))
  BY <1>1 DEF Stirred
<1>5. Calm(h) /\ ~Activity(e) => Calm(g)
  BY <1>1, <1>4 DEF Calm
<1>6. Votes(h, g)
  BY <1>1 DEF Votes
<1>7. QED
  BY <1>1, <1>3, <1>4, <1>5, <1>6 DEF Steady, g

\* _touch_activity, after what has stirred the floor.
LEMMA TouchCalm ==
  ASSUME NEW h, Steady(h), Stirred(h)
  PROVE  LET g == Touch(h)
         IN  /\ Proper(g) /\ Votes(h, g)
             /\ g.reg = h.reg /\ g.cried = h.cried /\ g.log = h.log
<1> DEFINE g == Touch(h)
<1>1. now \in Time
  BY DEF Steady, Time
<1>2. /\ g \in HubState /\ g.log = h.log /\ g.cried = h.cried /\ g.reg = h.reg
      /\ g.asked = h.asked /\ g.expected = h.expected /\ g.quorum = h.quorum
      /\ g.activity = now /\ g.stalled = FALSE
  BY <1>1 DEF Touch, Steady, HubState
<1> HIDE DEF g
<1>3. \A q \in Agent : Lasting(g, q)
  BY <1>2 DEF Lasting, Steady
<1>4. Calm(g)
  BY <1>2 DEF Calm, Stirred
<1>5. Votes(h, g)
  BY <1>2 DEF Votes
<1>6. QED
  BY <1>2, <1>3, <1>4, <1>5 DEF Proper, Steady, g

LEMMA TouchDid ==
  ASSUME NEW h, Steady(h), NEW e \in Event, Activity(e), e[1] # "say"
  PROVE  LET g == Touch(Did(h, e))
         IN  /\ Proper(g) /\ Votes(h, g)
             /\ g.reg = h.reg /\ g.cried = h.cried /\ g.log = h.log \cup {e}
<1> DEFINE d == Did(h, e)
<1>1. e[1] \notin {"blocked", "say", "expired", "quorum"}
  BY DEF Activity
<1>2. /\ Steady(d) /\ Votes(h, d) /\ Stirred(d)
      /\ d.reg = h.reg /\ d.cried = h.cried /\ d.log = h.log \cup {e}
  BY <1>1, Noted
<1> HIDE DEF d
<1>3. QED
  BY <1>2, TouchCalm, VotesTransitive DEF d

\* A handler of n changes what is its own, and what all share.
Own(h, g, n) ==
  /\ \A q \in Name \ {n} : g.reg[q] = h.reg[q] /\ (q \in g.cried <=> q \in h.cried)
  /\ h.log \subseteq g.log
  /\ \A e \in g.log \ h.log : e[2] = n /\ e[1] \notin {"say", "expired", "quorum", "stall", "tick"}

Serves(h, g, n) == Votes(h, g) /\ Own(h, g, n)

LEMMA ServesTransitive ==
  ASSUME NEW h, NEW g, NEW i, NEW n, Serves(h, g, n), Serves(g, i, n)
  PROVE  Serves(h, i, n)
BY VotesTransitive DEF Serves, Own

LEMMA SetIdleServes ==
  ASSUME NEW h, Proper(h), NEW n \in Name, <<"blocked", n>> \notin h.log
  PROVE  LET g == SetIdle(h, n)
         IN  /\ Proper(g) /\ Serves(h, g, n) /\ Seated(h, g)
             /\ g.log = h.log /\ g.cried = h.cried /\ g.reg[n].state = "idle"
<1> DEFINE r == h.reg[n]
           p == [r EXCEPT !.state = "idle", !.busy = Never, !.blocked = Never,
                          !.detail = NoDetail]
           g == [h EXCEPT !.reg[n] = p]
<1>1. SetIdle(h, n) = g
  BY DEF SetIdle
<1>2. r \in Entry /\ Sane(n, r) /\ Never \in Time
  BY DEF Proper, Steady, HubState, Time, Never
<1>3. /\ p \in Entry /\ p.say = r.say /\ p.state = "idle"
      /\ p.where = r.where /\ p.connected = r.connected
      /\ p.blocked = Never /\ p.detail = NoDetail
      /\ p.rx = r.rx /\ p.awaiting = r.awaiting /\ p.deadline = r.deadline
  BY <1>2 DEF Entry
<1> HIDE DEF p
<1>4. Sane(n, p) /\ ~Blocked(p)
  BY <1>2, <1>3 DEF Sane, Blocked
<1>5. /\ Steady(g) /\ Calm(g) /\ Votes(h, g)
      /\ g.reg[n] = p /\ g.log = h.log /\ g.cried = h.cried
  BY <1>3, <1>4, OneReg DEF Proper
<1>6. \A q \in Name \ {n} : g.reg[q] = h.reg[q]
  BY DEF Proper, Steady, HubState
<1> HIDE DEF g
<1>7. QED
  BY <1>1, <1>3, <1>5, <1>6 DEF Proper, Serves, Own, Seated

LEMMA DeliverServes ==
  ASSUME NEW h, Steady(h), NEW n \in Name, <<"blocked", n>> \notin h.log,
         h.reg[n].where = "live", h.reg[n].state # "blocked"
  PROVE  LET g == Deliver(h, n)
         IN  /\ Proper(g) /\ Serves(h, g, n) /\ Seated(h, g) /\ ~Blocked(g.reg[n])
             /\ g.log = h.log \cup {<<"deliver", n>>} /\ g.cried = h.cried
<1> DEFINE r == h.reg[n]
           p == [r EXCEPT !.state = "busy", !.busy = now]
           i == [h EXCEPT !.reg[n] = p]
           g == Touch(Did(i, <<"deliver", n>>))
<1>1. Deliver(h, n) = g
  <2>1. [h EXCEPT !.reg[n].state = "busy", !.reg[n].busy = now] = i
    BY DEF Steady, HubState
  <2>2. QED
    BY <2>1 DEF Deliver
<1>2. r \in Entry /\ Sane(n, r) /\ now \in Nat \ {0} /\ now \in Time
  BY DEF Steady, HubState, Time
<1>3. /\ p \in Entry /\ p.say = r.say /\ p.state = "busy"
      /\ p.where = r.where /\ p.connected = r.connected
      /\ p.blocked = r.blocked /\ p.detail = r.detail
      /\ p.rx = r.rx /\ p.awaiting = r.awaiting /\ p.deadline = r.deadline
  BY <1>2 DEF Entry
<1> HIDE DEF p
<1>4. Sane(n, p) /\ ~Blocked(p)
  BY <1>2, <1>3 DEF Sane, Blocked
<1>5. Steady(i) /\ Votes(h, i) /\ i.reg[n] = p /\ i.log = h.log /\ i.cried = h.cried
  BY <1>3, <1>4, OneReg
<1>6. \A q \in Name \ {n} : i.reg[q] = h.reg[q]
  BY DEF Steady, HubState
<1> HIDE DEF i
<1>7. <<"deliver", n>> \in Event /\ Activity(<<"deliver", n>>)
  BY DEF Event, Activity
<1>8. /\ Proper(g) /\ Votes(i, g)
      /\ g.reg = i.reg /\ g.cried = i.cried /\ g.log = i.log \cup {<<"deliver", n>>}
  BY <1>5, <1>7, TouchDid
<1>9. Votes(h, g)
  BY <1>5, <1>8, VotesTransitive
<1> HIDE DEF g
<1>10. QED
  BY <1>1, <1>3, <1>4, <1>5, <1>6, <1>8, <1>9 DEF Serves, Own, Seated

LEMMA FlushQueueServes ==
  ASSUME NEW h, Proper(h), NEW n \in Name, <<"blocked", n>> \notin h.log,
         h.reg[n].state = "idle"
  PROVE  LET g == FlushQueue(h, n)
         IN  /\ Proper(g) /\ Serves(h, g, n) /\ Seated(h, g) /\ ~Blocked(g.reg[n])
             /\ g.log \in {h.log, h.log \cup {<<"deliver", n>>}} /\ g.cried = h.cried
<1> DEFINE r == h.reg[n]
           q == r.queue
           k == IF q > WakeCap THEN q - WakeCap ELSE 0
           p == [r EXCEPT !.queue = k]
           i == [h EXCEPT !.reg[n] = p]
<1>1. CASE q = 0 \/ ~r.connected
  <2>1. FlushQueue(h, n) = h
    BY <1>1 DEF FlushQueue
  <2>2. QED
    BY <2>1 DEF Serves, Votes, Own, Seated, Blocked
<1>2. CASE ~(q = 0 \/ ~r.connected)
  <2>1. FlushQueue(h, n) = Deliver(i, n)
    <3>1. [h EXCEPT !.reg[n].queue = k] = i
      BY DEF Proper, Steady, HubState
    <3>2. QED
      BY <1>2, <3>1 DEF FlushQueue
  <2>2. r \in Entry /\ Sane(n, r) /\ r.connected
    BY <1>2 DEF Proper, Steady, HubState
  <2>3. k \in 0 .. QueueCap
    BY <2>2, WatchdogAssumption DEF Entry
  <2> HIDE DEF k
  <2>4. /\ p \in Entry /\ p.say = r.say /\ p.state = r.state
        /\ p.where = r.where /\ p.connected = r.connected
        /\ p.blocked = r.blocked /\ p.detail = r.detail
        /\ p.rx = r.rx /\ p.awaiting = r.awaiting /\ p.deadline = r.deadline
    BY <2>2, <2>3 DEF Entry
  <2> HIDE DEF p
  <2>5. Sane(n, p)
    BY <2>2, <2>4 DEF Sane
  <2>6. Steady(i) /\ Votes(h, i) /\ i.reg[n] = p /\ i.log = h.log /\ i.cried = h.cried
    BY <2>4, <2>5, OneReg DEF Proper
  <2>7. \A x \in Name \ {n} : i.reg[x] = h.reg[x]
    BY DEF Proper, Steady, HubState
  <2> HIDE DEF i
  <2>8. Serves(h, i, n) /\ Seated(h, i)
    BY <2>4, <2>6, <2>7 DEF Serves, Own, Seated
  <2>9. /\ Proper(Deliver(i, n)) /\ Serves(i, Deliver(i, n), n) /\ Seated(i, Deliver(i, n))
        /\ ~Blocked(Deliver(i, n).reg[n])
        /\ Deliver(i, n).log = i.log \cup {<<"deliver", n>>}
        /\ Deliver(i, n).cried = i.cried
    <3>1. p.where = "live" /\ p.state # "blocked"
      BY <2>2, <2>4 DEF Sane
    <3>2. QED
      BY <2>6, <3>1, DeliverServes
  <2>10. Serves(h, Deliver(i, n), n)
    BY <2>8, <2>9, ServesTransitive
  <2>11. QED
    BY <2>1, <2>6, <2>8, <2>9, <2>10 DEF Seated
<1>3. QED
  BY <1>1, <1>2

LEMMA HeardServes ==
  ASSUME NEW h, Proper(h), NEW n \in Name
  PROVE  LET g == Heard(h, n)
         IN  /\ Proper(g) /\ Serves(h, g, n) /\ Seated(h, g)
             /\ g.log = h.log /\ g.cried = h.cried
             /\ g.reg[n].state = h.reg[n].state /\ g.reg[n].detail = h.reg[n].detail
<1> DEFINE r == h.reg[n]
           p == [r EXCEPT !.rx = now, !.awaiting = FALSE]
           g == [h EXCEPT !.reg[n] = p]
<1>1. Heard(h, n) = g
  BY DEF Heard, Proper, Steady, HubState
<1>2. r \in Entry /\ Sane(n, r) /\ now \in Nat /\ now \in Time
  BY DEF Proper, Steady, HubState, Time
<1>3. /\ p \in Entry /\ p.say = r.say /\ p.state = r.state
      /\ p.where = r.where /\ p.connected = r.connected
      /\ p.blocked = r.blocked /\ p.detail = r.detail
      /\ p.rx = now /\ p.awaiting = FALSE
  BY <1>2 DEF Entry
<1> HIDE DEF p
<1>4. Sane(n, p)
  BY <1>2, <1>3 DEF Sane
<1>5. /\ Steady(g) /\ Calm(g) /\ Votes(h, g)
      /\ g.reg[n] = p /\ g.log = h.log /\ g.cried = h.cried
  BY <1>3, <1>4, OneReg DEF Proper
<1>6. \A q \in Name \ {n} : g.reg[q] = h.reg[q]
  BY DEF Proper, Steady, HubState
<1> HIDE DEF g
<1>7. QED
  BY <1>1, <1>3, <1>5, <1>6 DEF Proper, Serves, Own, Seated

\* What has been cried of those who are not blocked does not matter.
LEMMA Uncried ==
  ASSUME NEW h, Steady(h), NEW n \in Name, ~Blocked(h.reg[n])
  PROVE  LET g == [h EXCEPT !.cried = h.cried \ {n}]
         IN  /\ Steady(g) /\ (Calm(h) => Calm(g)) /\ Serves(h, g, n) /\ Seated(h, g)
             /\ g.reg = h.reg /\ g.log = h.log
<1> DEFINE g == [h EXCEPT !.cried = h.cried \ {n}]
<1>1. /\ g \in HubState /\ g.log = h.log /\ g.cried = h.cried \ {n} /\ g.reg = h.reg
      /\ g.asked = h.asked /\ g.expected = h.expected /\ g.quorum = h.quorum
      /\ g.activity = h.activity /\ g.stalled = h.stalled
  BY DEF Steady, HubState
<1> HIDE DEF g
<1>2. \A q \in Agent : Lasting(g, q)
  BY <1>1 DEF Steady, Lasting
<1>3. Calm(h) => Calm(g)
  BY <1>1 DEF Calm, Stirred
<1>4. Serves(h, g, n) /\ Seated(h, g)
  BY <1>1 DEF Serves, Votes, Own, Seated
<1>5. QED
  BY <1>1, <1>2, <1>3, <1>4 DEF Steady, g

LEMMA DisconnectServes ==
  ASSUME NEW h, Proper(h), NEW n \in Name, <<"blocked", n>> \notin h.log
  PROVE  LET g == Disconnect(h, n)
         IN  /\ Proper(g) /\ Serves(h, g, n) /\ ~Blocked(g.reg[n])
             /\ g.log = h.log \cup {<<"left", n>>}
<1> DEFINE r == h.reg[n]
           p == [r EXCEPT !.where = "dead", !.connected = FALSE]
           i == [h EXCEPT !.reg[n] = p]
           j == [i EXCEPT !.cried = i.cried \ {n}]
           g == Touch(Did(j, <<"left", n>>))
<1>1. Disconnect(h, n) = g
  <2>1. [h EXCEPT !.reg[n].where = "dead", !.reg[n].connected = FALSE, !.cried = @ \ {n}] = j
    BY DEF Proper, Steady, HubState
  <2>2. QED
    BY <2>1 DEF Disconnect
<1>2. r \in Entry /\ Sane(n, r)
  BY DEF Proper, Steady, HubState
<1>3. p \in Entry /\ p.say = r.say /\ p.where = "dead" /\ p.connected = FALSE
  BY <1>2 DEF Entry
<1> HIDE DEF p
<1>4. Sane(n, p) /\ ~Blocked(p)
  BY <1>3 DEF Sane, Blocked
<1>5. /\ Steady(i) /\ Votes(h, i)
      /\ i.reg[n] = p /\ i.log = h.log /\ i.cried = h.cried
  BY <1>3, <1>4, OneReg DEF Proper
<1>6. \A q \in Name \ {n} : i.reg[q] = h.reg[q]
  BY DEF Proper, Steady, HubState
<1> HIDE DEF i
<1>7. Serves(h, i, n)
  BY <1>5, <1>6 DEF Serves, Own
<1>8. Steady(j) /\ Serves(i, j, n) /\ j.reg = i.reg /\ j.log = i.log
  BY <1>4, <1>5, Uncried
<1> HIDE DEF j
<1>9. <<"left", n>> \in Event /\ Activity(<<"left", n>>)
  BY DEF Event, Activity
<1>10. /\ Proper(g) /\ Votes(j, g)
       /\ g.reg = j.reg /\ g.cried = j.cried /\ g.log = j.log \cup {<<"left", n>>}
  BY <1>8, <1>9, TouchDid
<1> HIDE DEF g
<1>11. Serves(j, g, n)
  BY <1>10 DEF Serves, Own
<1>12. Serves(h, g, n)
  BY <1>7, <1>8, <1>11, ServesTransitive
<1>13. QED
  BY <1>1, <1>4, <1>5, <1>8, <1>10, <1>12

LEMMA HandleHelloServes ==
  ASSUME NEW h, Proper(h), NEW n \in Name, h.log = {}
  PROVE  LET g == HandleHello(h, n)
         IN  Proper(g) /\ Serves(h, g, n)
<1> DEFINE f == IF h.reg[n].where = "live" THEN Disconnect(h, n) ELSE h
           r == f.reg[n]
           p == Reclaimed(r)
           i == [f EXCEPT !.reg[n] = p]
           j == [i EXCEPT !.cried = i.cried \ {n}]
           t == Touch(Did(j, <<"joined", n>>))
           g == FlushQueue(t, n)
<1>1. Proper(f) /\ Serves(h, f, n) /\ <<"blocked", n>> \notin f.log
  <2>1. Serves(h, h, n)
    BY DEF Serves, Votes, Own
  <2>2. QED
    BY <2>1, DisconnectServes
<1> HIDE DEF f
<1>2. HandleHello(h, n) = g
  <2>1. [f EXCEPT !.reg[n] = Reclaimed(@), !.cried = @ \ {n}] = j
    BY <1>1 DEF Proper, Steady, HubState
  <2>2. QED
    BY <2>1 DEF HandleHello, f
<1>3. r \in Entry /\ now \in Time /\ Never \in Time /\ now \in Nat \ {0}
  BY <1>1 DEF Proper, Steady, HubState, Time, Never
<1>4. /\ p \in Entry /\ p.say = r.say /\ p.where = "live" /\ p.state = "idle"
      /\ p.rx = now /\ p.awaiting = FALSE /\ p.blocked = Never /\ p.detail = NoDetail
  BY <1>3 DEF Reclaimed, Entry
<1> HIDE DEF p
<1>5. Sane(n, p) /\ ~Blocked(p)
  BY <1>4 DEF Sane, Blocked
<1>6. /\ Steady(i) /\ Votes(f, i)
      /\ i.reg[n] = p /\ i.log = f.log /\ i.cried = f.cried
  BY <1>1, <1>4, <1>5, OneReg DEF Proper
<1>7. \A q \in Name \ {n} : i.reg[q] = f.reg[q]
  BY <1>1 DEF Proper, Steady, HubState
<1> HIDE DEF i
<1>8. Serves(f, i, n)
  BY <1>6, <1>7 DEF Serves, Own
<1>9. Steady(j) /\ Serves(i, j, n) /\ j.reg = i.reg /\ j.log = i.log
  BY <1>5, <1>6, Uncried
<1> HIDE DEF j
<1>10. <<"joined", n>> \in Event /\ Activity(<<"joined", n>>)
  BY DEF Event, Activity
<1>11. /\ Proper(t) /\ Votes(j, t)
       /\ t.reg = j.reg /\ t.cried = j.cried /\ t.log = j.log \cup {<<"joined", n>>}
  BY <1>9, <1>10, TouchDid
<1> HIDE DEF t
<1>12. Serves(j, t, n)
  BY <1>11 DEF Serves, Own
<1>13. Proper(g) /\ Serves(t, g, n)
  <2>1. <<"blocked", n>> \notin t.log /\ t.reg[n].state = "idle"
    BY <1>1, <1>4, <1>6, <1>9, <1>11
  <2>2. QED
    BY <1>11, <2>1, FlushQueueServes
<1> HIDE DEF g
<1>14. Serves(h, g, n)
  BY <1>1, <1>8, <1>9, <1>12, <1>13, ServesTransitive
<1>15. QED
  BY <1>2, <1>13, <1>14

\* A report of an agent; a new episode has begun when it was not blocked, or
\* on something else.
LEMMA HandleStateServes ==
  ASSUME NEW h, Proper(h), h.log = {}, NEW n \in Agent, h.reg[n].where = "live",
         ~Blocked(h.reg[n]) => past.on[n] = Never,
         past.what[n] = h.reg[n].detail,
         NEW state \in {"idle", "busy", "blocked"}, NEW detail \in Detail \cup {NoDetail},
         (state = "blocked") <=> (detail # NoDetail)
  PROVE  LET g == HandleState(h, n, state, detail)
         IN  Proper(g) /\ Serves(h, g, n)
<1> DEFINE r == h.reg[n]
           rest == SetIdle(h, n)
<1>1. /\ n \in Name /\ r \in Entry /\ Sane(n, r) /\ now \in Time /\ now \in Nat \ {0}
      /\ Lasting(h, n)
  BY DEF Proper, Steady, HubState, Time, Name
<1>2. /\ Proper(rest) /\ Serves(h, rest, n) /\ rest.log = h.log /\ rest.cried = h.cried
      /\ rest.reg[n].state = "idle"
  BY <1>1, SetIdleServes
<1>3. CASE state = "idle"
  <2>1. HandleState(h, n, state, detail) =
          FlushQueue([rest EXCEPT !.reg[n].state = "idle"], n)
    BY <1>3 DEF HandleState
  <2>2. [rest EXCEPT !.reg[n].state = "idle"] = rest
    <3> HIDE DEF rest
    <3>1. rest.reg[n] \in Entry
      BY <1>1, <1>2 DEF Proper, Steady, HubState
    <3>2. [rest.reg[n] EXCEPT !.state = "idle"] = rest.reg[n]
      BY <1>2, <3>1 DEF Entry
    <3>3. QED
      BY <1>1, <1>2, <3>2 DEF Proper, Steady, HubState
  <2> HIDE DEF rest
  <2>3. Proper(FlushQueue(rest, n)) /\ Serves(rest, FlushQueue(rest, n), n)
    BY <1>1, <1>2, FlushQueueServes
  <2>4. QED
    BY <1>2, <2>1, <2>2, <2>3, ServesTransitive
<1>4. CASE state = "busy"
  <2> DEFINE q == rest.reg[n]
             p == [q EXCEPT !.state = "busy", !.busy = now]
             g == [rest EXCEPT !.reg[n] = p]
  <2>1. HandleState(h, n, state, detail) = g
    <3> DEFINE k == [q EXCEPT !.state = "busy"]
               i == [rest EXCEPT !.reg[n] = k]
    <3>1. HandleState(h, n, state, detail) =
            [[rest EXCEPT !.reg[n].state = "busy"] EXCEPT !.reg[n].busy = now]
      BY <1>4 DEF HandleState
    <3> HIDE DEF rest
    <3>2. [rest EXCEPT !.reg[n].state = "busy"] = i
      BY <1>2 DEF Proper, Steady, HubState
    <3>3. i.reg[n] = k /\ "reg" \in DOMAIN i
      BY <1>1, <1>2 DEF Proper, Steady, HubState
    <3>4. [i EXCEPT !.reg[n].busy = now] = [i EXCEPT !.reg[n] = [k EXCEPT !.busy = now]]
      BY <3>3
    <3>5. [k EXCEPT !.busy = now] = p
      OBVIOUS
    <3>6. [i EXCEPT !.reg[n] = p] = g
      BY <1>2 DEF Proper, Steady, HubState
    <3> HIDE DEF i, k, p, g
    <3>7. QED
      BY <3>1, <3>2, <3>4, <3>5, <3>6
  <2> HIDE DEF rest
  <2>2. q \in Entry /\ Sane(n, q)
    BY <1>1, <1>2 DEF Proper, Steady, HubState
  <2>3. /\ p \in Entry /\ p.say = q.say /\ p.state = "busy"
        /\ p.where = q.where /\ p.connected = q.connected
        /\ p.blocked = q.blocked /\ p.detail = q.detail
        /\ p.rx = q.rx /\ p.awaiting = q.awaiting /\ p.deadline = q.deadline
    BY <1>1, <2>2 DEF Entry
  <2> HIDE DEF p
  <2>4. Sane(n, p) /\ ~Blocked(p)
    BY <1>2, <2>2, <2>3 DEF Sane, Blocked
  <2>5. /\ Steady(g) /\ Calm(g) /\ Votes(rest, g)
        /\ g.log = rest.log /\ g.cried = rest.cried
    <3>1. Steady(rest) /\ Calm(rest) /\ <<"blocked", n>> \notin rest.log
      BY <1>2 DEF Proper
    <3>2. QED
      BY <1>1, <2>3, <2>4, <3>1, OneReg
  <2>6. \A x \in Name \ {n} : g.reg[x] = rest.reg[x]
    BY <1>2 DEF Proper, Steady, HubState
  <2> HIDE DEF g
  <2>7. Serves(rest, g, n)
    BY <2>5, <2>6 DEF Serves, Own
  <2>8. QED
    BY <1>2, <2>1, <2>5, <2>7, ServesTransitive DEF Proper
<1>5. CASE state = "blocked" /\ r.state = "blocked" /\ r.detail = detail
  <2> DEFINE p == [r EXCEPT !.state = "blocked", !.busy = now]
             g == [h EXCEPT !.reg[n] = p]
  <2>1. HandleState(h, n, state, detail) = g
    BY <1>5 DEF HandleState, HandleBlocked, Proper, Steady, HubState
  <2>2. /\ p \in Entry /\ p.say = r.say /\ p.state = r.state
        /\ p.where = r.where /\ p.connected = r.connected
        /\ p.blocked = r.blocked /\ p.detail = r.detail
        /\ p.rx = r.rx /\ p.awaiting = r.awaiting /\ p.deadline = r.deadline
    BY <1>1, <1>5 DEF Entry
  <2> HIDE DEF p
  <2>3. Sane(n, p)
    BY <1>1, <2>2 DEF Sane
  <2>4. /\ Steady(g) /\ Calm(g) /\ Votes(h, g)
        /\ g.log = h.log /\ g.cried = h.cried
    BY <1>1, <2>2, <2>3, OneReg DEF Proper
  <2>5. \A x \in Name \ {n} : g.reg[x] = h.reg[x]
    BY DEF Proper, Steady, HubState
  <2> HIDE DEF g
  <2>6. QED
    BY <2>1, <2>4, <2>5 DEF Proper, Serves, Own
<1>6. CASE state = "blocked" /\ ~(r.state = "blocked" /\ r.detail = detail)
  <2> DEFINE p == [r EXCEPT !.blocked = now, !.detail = detail,
                            !.state = "blocked", !.busy = now]
             g == [h EXCEPT !.reg[n] = p, !.cried = h.cried \ {n}]
  <2>1. HandleState(h, n, state, detail) = g
    <3> DEFINE k == [r EXCEPT !.blocked = now, !.detail = detail]
               i == [h EXCEPT !.reg[n] = k, !.cried = h.cried \ {n}]
    <3>1. HandleBlocked(h, n, detail) = i
      <4>1. [h EXCEPT !.reg[n].blocked = now, !.reg[n].detail = detail, !.cried = @ \ {n}] = i
        BY <1>1 DEF Proper, Steady, HubState
      <4> HIDE DEF i
      <4>2. QED
        BY <1>6, <4>1 DEF HandleBlocked
    <3>2. HandleState(h, n, state, detail) =
            [i EXCEPT !.reg[n].state = "blocked", !.reg[n].busy = now]
      BY <1>6, <3>1 DEF HandleState
    <3>3. i.reg[n] = k /\ "reg" \in DOMAIN i
      BY <1>1 DEF Proper, Steady, HubState
    <3>4. [i EXCEPT !.reg[n].state = "blocked", !.reg[n].busy = now]
            = [i EXCEPT !.reg[n] = [k EXCEPT !.state = "blocked", !.busy = now]]
      BY <1>1, <3>3 DEF Proper, Steady, HubState
    <3>5. [k EXCEPT !.state = "blocked", !.busy = now] = p
      OBVIOUS
    <3>6. [i EXCEPT !.reg[n] = p] = g
      BY DEF Proper, Steady, HubState
    <3> HIDE DEF i, k, p, g
    <3>7. QED
      BY <3>2, <3>4, <3>5, <3>6
  <2>2. /\ p \in Entry /\ p.say = r.say /\ p.state = "blocked"
        /\ p.where = r.where /\ p.connected = r.connected
        /\ p.blocked = now /\ p.detail = detail
        /\ p.rx = r.rx /\ p.awaiting = r.awaiting /\ p.deadline = r.deadline
    BY <1>1 DEF Entry
  <2> HIDE DEF p
  <2>3. Sane(n, p) /\ Blocked(p)
    BY <1>1, <1>6, <2>2 DEF Sane, Blocked, Never
  <2>4. /\ g \in HubState /\ g.log = h.log /\ g.cried = h.cried \ {n} /\ g.reg[n] = p
        /\ \A x \in Name \ {n} : g.reg[x] = h.reg[x]
        /\ g.asked = h.asked /\ g.expected = h.expected /\ g.quorum = h.quorum
        /\ g.activity = h.activity /\ g.stalled = h.stalled
    BY <1>1, <2>2 DEF Proper, Steady, HubState
  <2> HIDE DEF g
  <2>5. \A x \in Name : Sane(x, g.reg[x])
    BY <2>3, <2>4 DEF Proper, Steady
  <2>6. \A x \in Agent : Lasting(g, x)
    <3> TAKE x \in Agent
    <3>1. CASE x = n
      <4>1. past.on[n] = Never \/ past.what[n] # p.detail
        BY <1>6, <2>2 DEF Blocked
      <4>2. QED
        BY <2>2, <2>3, <2>4, <3>1, <4>1 DEF Lasting
    <3>2. CASE x # n
      <4>1. Lasting(h, x) /\ x \in Name
        BY DEF Proper, Steady, Name
      <4>2. QED
        BY <2>4, <3>2, <4>1 DEF Lasting
    <3>3. QED
      BY <3>1, <3>2
  <2>7. Calm(g)
    BY <2>4 DEF Proper, Calm, Stirred
  <2>8. Serves(h, g, n)
    BY <2>2, <2>4 DEF Serves, Votes, Own
  <2>9. QED
    BY <1>1, <2>1, <2>4, <2>5, <2>6, <2>7, <2>8 DEF Proper, Steady
<1>7. QED
  BY <1>3, <1>4, <1>5, <1>6

\* An accepted say: it is stamped, it wakes, and that of an observer may ask.
AcceptedAs(h, n, to, a) ==
  /\ Proper(a) /\ Seated(h, a)
  /\ <<"say", n, to>> \in a.log
  /\ \A e \in a.log : e = <<"say", n, to>> \/ e[1] = "deliver"
  /\ a.reg[n].say = now
  /\ \A q \in Name \ {n} : a.reg[q].say = h.reg[q].say
  /\ IF n \in Observer /\ Asked(h, to) # {}
     THEN a.asked = now /\ a.expected = Asked(h, to) /\ a.quorum = FALSE
     ELSE a.asked = h.asked /\ a.expected = h.expected /\ a.quorum = h.quorum

LEMMA AcceptDoes ==
  ASSUME NEW h, Proper(h), h.log = {}, NEW n \in Name, NEW to \in Name \cup {Everyone}
  PROVE  AcceptedAs(h, n, to, Accept(h, n, to))
<1> DEFINE i      == [h EXCEPT !.reg[n].say = now]
           said   == Did(i, <<"say", n, to>>)
           asks   == n \in Observer /\ Asked(h, to) # {}
           asking == IF n \in Observer THEN Asking(said, to) ELSE said
           woken  == Woken(h, n, to)
           some   == Addressed(h, n, to)
           more(k) == IF k < QueueCap THEN k + 1 ELSE k
           reg    == [q \in Name |->
                        IF q \in woken THEN [asking.reg[q] EXCEPT !.state = "busy", !.busy = now]
                        ELSE IF q \in some
                        THEN [asking.reg[q] EXCEPT !.queue = more(@)]
                        ELSE asking.reg[q]]
           log    == asking.log \cup {<<"deliver", q>> : q \in woken}
           w      == [asking EXCEPT !.reg = reg, !.log = log]
           a      == Touch(w)
<1>1. Accept(h, n, to) = a
  BY DEF Accept
<1>2. /\ now \in Time /\ now \in Nat \ {0} /\ h \in HubState
      /\ \A q \in Name : h.reg[q] \in Entry /\ Sane(q, h.reg[q])
      /\ \A q \in Agent : Lasting(h, q)
  BY DEF Proper, Steady, HubState, Time
<1>3. woken \subseteq some /\ some \subseteq Name \ {n} /\ \A q \in woken : h.reg[q].state = "idle"
  BY DEF Woken, Addressed, Agents, Live
<1> HIDE DEF woken, some
<1>4. /\ said \in HubState /\ said.log = {<<"say", n, to>>} /\ said.cried = h.cried
      /\ said.asked = h.asked /\ said.expected = h.expected /\ said.quorum = h.quorum
      /\ said.reg = [h.reg EXCEPT ![n] = [h.reg[n] EXCEPT !.say = now]]
  <2>1. i \in HubState /\ i.log = {} /\ i.cried = h.cried
        /\ i.asked = h.asked /\ i.expected = h.expected /\ i.quorum = h.quorum
        /\ i.reg = [h.reg EXCEPT ![n] = [h.reg[n] EXCEPT !.say = now]]
    <3>1. [h.reg[n] EXCEPT !.say = now] \in Entry
      BY <1>2 DEF Entry
    <3>2. i = [h EXCEPT !.reg = [h.reg EXCEPT ![n] = [h.reg[n] EXCEPT !.say = now]]]
      OBVIOUS
    <3>3. QED
      BY <1>2, <3>1, <3>2 DEF HubState
  <2> HIDE DEF i
  <2>2. <<"say", n, to>> \in Event
    BY DEF Event
  <2>3. QED
    BY <2>1, <2>2 DEF Did, HubState
<1> HIDE DEF i
<1>5. Asked(said, to) = Asked(h, to)
  <2>1. ASSUME NEW q \in Name
        PROVE  /\ said.reg[q].where = h.reg[q].where
               /\ said.reg[q].connected = h.reg[q].connected
    <3> DEFINE r == h.reg[n]
               x == [r EXCEPT !.say = now]
    <3>1. r \in Entry
      BY <1>2
    <3>2. x.where = r.where /\ x.connected = r.connected
      BY <3>1 DEF Entry
    <3> HIDE DEF x
    <3>3. said.reg[q] = IF q = n THEN x ELSE h.reg[q]
      BY <1>2, <1>4 DEF HubState, x
    <3> HIDE DEF said
    <3>4. QED
      BY <3>2, <3>3
  <2>2. Agents(said) = Agents(h) /\ Agents(h) \subseteq Name
    BY <2>1 DEF Agents, Live
  <2> HIDE DEF said
  <2>3. {q \in Agents(said) : said.reg[q].connected} = {q \in Agents(h) : h.reg[q].connected}
    BY <2>1, <2>2
  <2>4. QED
    BY <2>2, <2>3 DEF Asked
<1>6. Asked(h, to) \subseteq Agent
  BY DEF Asked, Agents
<1> HIDE DEF said
<1>7. /\ asking \in HubState /\ asking.log = said.log /\ asking.cried = said.cried
      /\ asking.reg = said.reg
      /\ IF asks THEN asking.asked = now /\ asking.expected = Asked(h, to) /\ asking.quorum = FALSE
         ELSE /\ asking.asked = h.asked /\ asking.expected = h.expected
              /\ asking.quorum = h.quorum
  BY <1>2, <1>4, <1>5, <1>6 DEF Asking, HubState
<1> HIDE DEF asking, asks
<1>8. \A q \in Name :
        LET r == h.reg[q]
            p == reg[q]
        IN  /\ p \in Entry /\ p.where = r.where /\ p.connected = r.connected
            /\ p.blocked = r.blocked /\ p.detail = r.detail
            /\ p.rx = r.rx /\ p.awaiting = r.awaiting /\ p.deadline = r.deadline
            /\ p.say = (IF q = n THEN now ELSE r.say)
            /\ p.state = (IF q \in woken THEN "busy" ELSE r.state)
  <2> TAKE q \in Name
  <2> DEFINE r == h.reg[q]
             m == said.reg[q]
             p == reg[q]
  <2>1. /\ m \in Entry /\ m.where = r.where /\ m.connected = r.connected
        /\ m.blocked = r.blocked /\ m.detail = r.detail /\ m.state = r.state
        /\ m.rx = r.rx /\ m.awaiting = r.awaiting /\ m.deadline = r.deadline
        /\ m.say = (IF q = n THEN now ELSE r.say)
    BY <1>2, <1>4 DEF Entry, HubState
  <2>2. \A k \in 0 .. QueueCap : more(k) \in 0 .. QueueCap
    BY WatchdogAssumption
  <2>3. p = IF q \in woken THEN [m EXCEPT !.state = "busy", !.busy = now]
            ELSE IF q \in some THEN [m EXCEPT !.queue = more(@)] ELSE m
    BY <1>7
  <2> HIDE DEF m, reg, more
  <2>4. CASE q \in woken
    <3> DEFINE x == [m EXCEPT !.state = "busy", !.busy = now]
    <3>1. reg[q] = x
      BY <2>3, <2>4
    <3>2. /\ x \in Entry /\ x.where = m.where /\ x.connected = m.connected
          /\ x.blocked = m.blocked /\ x.detail = m.detail /\ x.state = "busy"
          /\ x.rx = m.rx /\ x.awaiting = m.awaiting /\ x.deadline = m.deadline
          /\ x.say = m.say
      BY <1>2, <2>1 DEF Entry
    <3> HIDE DEF x
    <3>3. QED
      BY <2>1, <2>4, <3>1, <3>2
  <2>5. CASE q \notin woken /\ q \in some
    <3>1. m.queue \in 0 .. QueueCap
      BY <2>1 DEF Entry
    <3>2. p = [m EXCEPT !.queue = more(m.queue)] /\ more(m.queue) \in 0 .. QueueCap
      BY <2>2, <2>3, <2>5, <3>1
    <3>3. QED
      BY <2>1, <2>5, <3>2 DEF Entry
  <2>6. CASE q \notin woken /\ q \notin some
    BY <2>1, <2>3, <2>6
  <2>7. QED
    BY <2>4, <2>5, <2>6
<1>9. /\ w \in HubState /\ w.reg = reg /\ w.cried = h.cried
      /\ w.log = {<<"say", n, to>>} \cup {<<"deliver", q>> : q \in woken}
      /\ w.asked = asking.asked /\ w.expected = asking.expected /\ w.quorum = asking.quorum
  <2>1. reg \in [Name -> Entry]
    <3>1. \A q \in Name : reg[q] \in Entry
      BY <1>8
    <3>2. QED
      BY <3>1
  <2>2. log \in SUBSET Event
    BY <1>3, <1>4, <1>7 DEF Event, HubState
  <2>3. log = {<<"say", n, to>>} \cup {<<"deliver", q>> : q \in woken}
    BY <1>4, <1>7
  <2> HIDE DEF reg, log
  <2>4. QED
    BY <1>4, <1>7, <2>1, <2>2, <2>3 DEF HubState
<1> HIDE DEF w, reg
<1>10. \A q \in Name : Sane(q, w.reg[q])
  <2> TAKE q \in Name
  <2>1. Sane(q, h.reg[q]) /\ (q \in woken => h.reg[q].state = "idle")
    BY <1>2, <1>3
  <2>2. QED
    BY <1>8, <1>9, <2>1 DEF Sane
<1>11. \A q \in Agent : Lasting(w, q)
  <2> TAKE q \in Agent
  <2>1. q \in Name /\ Lasting(h, q) /\ (q \in woken => h.reg[q].state = "idle")
    BY <1>2, <1>3 DEF Name
  <2>2. <<"blocked", q>> \notin w.log
    BY <1>9
  <2>3. QED
    BY <1>8, <1>9, <2>1, <2>2 DEF Lasting, Blocked
<1>12. Stirred(w)
  BY <1>9 DEF Stirred, Activity
<1>13. /\ Proper(a) /\ Votes(w, a)
       /\ a.reg = w.reg /\ a.cried = w.cried /\ a.log = w.log
  BY <1>2, <1>9, <1>10, <1>11, <1>12, TouchCalm DEF Steady
<1> HIDE DEF a
<1>14. Seated(h, a)
  BY <1>8, <1>9, <1>13 DEF Seated
<1>15. /\ <<"say", n, to>> \in a.log
       /\ \A e \in a.log : e = <<"say", n, to>> \/ e[1] = "deliver"
  BY <1>9, <1>13
<1>16. /\ a.reg[n].say = now
       /\ \A q \in Name \ {n} : a.reg[q].say = h.reg[q].say
  BY <1>3, <1>8, <1>9, <1>13
<1>17. IF asks
       THEN a.asked = now /\ a.expected = Asked(h, to) /\ a.quorum = FALSE
       ELSE a.asked = h.asked /\ a.expected = h.expected /\ a.quorum = h.quorum
  BY <1>7, <1>9, <1>13 DEF Votes
<1>18. QED
  BY <1>1, <1>13, <1>14, <1>15, <1>16, <1>17 DEF asks, AcceptedAs

\* What follows the routing of a say.
LEMMA HandleSayServes ==
  ASSUME NEW h, Proper(h), h.log = {}, NEW n \in Name, NEW to, NEW accepted,
         NEW a, a = IF accepted THEN Accept(h, n, to) ELSE h, Proper(a),
         <<"blocked", n>> \notin a.log
  PROVE  LET g == HandleSay(h, n, to, accepted)
         IN  Proper(g) /\ Serves(a, g, n) /\ Seated(a, g)
<1> DEFINE i == SetIdle(a, n)
           g == FlushQueue(i, n)
<1>1. HandleSay(h, n, to, accepted) \in {a, g}
  BY DEF HandleSay
<1>2. Proper(i) /\ Serves(a, i, n) /\ Seated(a, i) /\ i.log = a.log /\ i.reg[n].state = "idle"
  BY SetIdleServes
<1> HIDE DEF i
<1>3. Proper(g) /\ Serves(i, g, n) /\ Seated(i, g)
  BY <1>2, FlushQueueServes
<1> HIDE DEF g
<1>4. Serves(a, g, n) /\ Seated(a, g)
  BY <1>2, <1>3, ServesTransitive DEF Seated
<1>5. Serves(a, a, n) /\ Seated(a, a)
  BY DEF Serves, Votes, Own, Seated
<1>6. QED
  BY <1>1, <1>3, <1>4, <1>5

-----------------------------------------------------------------------------
(* From one step to the next.                                              *)

\* A handler finds the floor in order.
LEMMA NowProper ==
  ASSUME Inv
  PROVE  /\ Proper(Now) /\ Now.log = {} /\ Now.reg = hub.reg /\ Now.cried = hub.cried
         /\ Now.asked = hub.asked /\ Now.expected = hub.expected /\ Now.quorum = hub.quorum
<1>1. /\ Now \in HubState /\ Now.log = {} /\ Now.reg = hub.reg /\ Now.cried = hub.cried
      /\ Now.asked = hub.asked /\ Now.expected = hub.expected /\ Now.quorum = hub.quorum
      /\ Now.activity = hub.activity /\ Now.stalled = hub.stalled
  BY DEF Inv, Now, HubState
<1>2. \A n \in Agent : Lasting(Now, n)
  BY <1>1 DEF Inv, Followed, Lasting
<1>3. Calm(Now)
  BY <1>1 DEF Inv, Hushed, Calm, Stirred, Memory
<1>4. now \in Nat \ {0}
  BY WatchdogAssumption DEF Inv
<1>5. QED
  BY <1>1, <1>2, <1>3, <1>4 DEF Inv, Proper, Steady

\* What a step leaves, when the tick may have rung the stall.
Settled(f) ==
  /\ Steady(f)
  /\ f.activity = (IF Stirred(f) THEN now ELSE past.calm)
  /\ f.stalled = ((past.rung /\ ~Stirred(f)) \/ <<"stall">> \in f.log)

\* Without a say, only an expiry forgets who has answered.
LEMMA PolledUnasked ==
  ASSUME Inv, NEW f \in HubState,
         f.asked = hub.asked, f.expected = hub.expected,
         f.quorum = (hub.quorum \/ <<"quorum">> \in f.log),
         \A e \in f.log : e[1] # "say",
         \A n \in Name : f.reg[n].say = (IF <<"expired", n>> \in f.log THEN Never
                                         ELSE hub.reg[n].say)
  PROVE  Polled(Recall(f), f)
<1> DEFINE does(t)  == {e \in f.log : e[1] = t}
           asking   == {e \in does("say") : e[2] \in Observer /\ Asked(f, e[3]) # {}}
           answers  == {e[2] : e \in does("say")} \cap Agent
           gone     == {e[2] : e \in does("expired")}
<1>1. does("say") = {} /\ asking = {} /\ answers = {}
  OBVIOUS
<1>2. does("quorum") # {} <=> <<"quorum">> \in f.log
  <2>1. \A e \in f.log : e[1] = "quorum" => e = <<"quorum">>
    BY DEF HubState, Event
  <2>2. QED
    BY <2>1
<1>3. \A n : n \in gone <=> <<"expired", n>> \in f.log
  <2>1. \A e \in f.log : e[1] = "expired" => e = <<"expired", e[2]>>
    BY DEF HubState, Event
  <2>2. QED
    BY <2>1
<1> DEFINE r == Recall(f)
<1>4. /\ r.asked = past.asked /\ r.when = past.when
      /\ r.answered = (past.answered \cup (IF now > past.when THEN answers ELSE {})) \ gone
      /\ r.reached = (past.reached \/ does("quorum") # {})
  BY <1>1 DEF Recall
<1> HIDE DEF does, asking, answers, gone, r
<1>5. r.answered = past.answered \ gone
  BY <1>1, <1>4
<1>6. \A n \in Agent : n \in r.answered <=> f.reg[n].say > f.asked
  <2> TAKE n \in Agent
  <2>1. n \in Name /\ (n \in past.answered <=> hub.reg[n].say > hub.asked)
    BY DEF Inv, Polled, Name
  <2>2. hub.asked \in Nat /\ ~(Never > hub.asked)
    BY DEF Inv, HubState, Time, Never
  <2>3. QED
    BY <1>3, <1>5, <2>1, <2>2
<1>7. r.answered \subseteq Agent
  BY <1>5 DEF Inv, Memory
<1>8. r.answered = {n \in Agent : f.reg[n].say > f.asked}
  BY <1>6, <1>7
<1>9. r.asked = f.expected /\ r.when = f.asked /\ r.reached = f.quorum
  BY <1>2, <1>4 DEF Inv, Polled, Memory, HubState
<1>10. QED
  BY <1>8, <1>9 DEF Polled, r

LEMMA RecallHushed ==
  ASSUME Inv, NEW f, Settled(f)
  PROVE  Hushed(Recall(f), f)
<1>1. {e \in f.log : e[1] = "stall"} # {} <=> <<"stall">> \in f.log
  <2>1. \A e \in f.log : e[1] = "stall" => e = <<"stall">>
    BY DEF Settled, Steady, HubState, Event
  <2>2. QED
    BY <2>1
<1>2. Recall(f).calm = IF Stirred(f) THEN now ELSE past.calm
  BY DEF Recall, Stirred
<1>3. Recall(f).rung = ((past.rung /\ ~Stirred(f)) \/ {e \in f.log : e[1] = "stall"} # {})
  BY DEF Recall, Stirred
<1>4. QED
  BY <1>1, <1>2, <1>3 DEF Settled, Hushed

LEMMA RecallFollowed ==
  ASSUME Inv, NEW f, Steady(f)
  PROVE  Followed(Recall(f), f)
<1> DEFINE episode(n) ==
             IF f.reg[n].where # "live" \/ f.reg[n].state # "blocked" THEN Never
             ELSE IF past.on[n] = Never \/ past.what[n] # f.reg[n].detail THEN now
             ELSE past.on[n]
           r == Recall(f)
<1>1. \A n \in Agent :
        /\ r.on[n] = episode(n) /\ r.what[n] = f.reg[n].detail
        /\ n \in r.cried <=> /\ episode(n) # Never
                             /\ \/ <<"blocked", n>> \in f.log
                                \/ n \in past.cried /\ episode(n) = past.on[n]
  BY DEF Recall
<1> HIDE DEF r
<1>2. ASSUME NEW n \in Agent
      PROVE  LET p == f.reg[n]
             IN  /\ r.on[n] = (IF Blocked(p) THEN p.blocked ELSE Never) /\ r.what[n] = p.detail
                 /\ n \in r.cried <=> Blocked(p) /\ n \in f.cried
                 /\ n \in r.cried => now > r.on[n] + BlockedAfter
  <2> DEFINE p == f.reg[n]
             cry == <<"blocked", n>> \in f.log
  <2>1. n \in past.cried => now > past.on[n] + BlockedAfter
    BY DEF Inv, Followed
  <2>2. past.on[n] \in Nat /\ BlockedAfter \in Nat /\ now \in Nat \ {0} /\ n \in Name
    BY WatchdogAssumption DEF Inv, Memory, Time, Name
  <2>3. Sane(n, p) /\ Lasting(f, n)
    BY <2>2 DEF Steady
  <2>4. CASE ~Blocked(p) /\ ~cry
    BY <1>1, <2>4 DEF Blocked
  <2>5. CASE /\ Blocked(p) /\ p.blocked = past.on[n] /\ p.detail = past.what[n]
             /\ n \in f.cried <=> n \in past.cried \/ cry
             /\ cry => now > past.on[n] + BlockedAfter
    <3>1. past.on[n] # Never
      BY <2>3, <2>5 DEF Sane, Blocked
    <3>2. episode(n) = past.on[n]
      BY <2>5, <3>1 DEF Blocked
    <3>3. QED
      BY <1>1, <2>1, <2>5, <3>1, <3>2
  <2>6. CASE /\ Blocked(p) /\ p.blocked = now /\ n \notin f.cried /\ ~cry
             /\ past.on[n] = Never \/ past.what[n] # p.detail
    <3>1. episode(n) = now
      BY <2>6 DEF Blocked
    <3>2. n \notin r.cried
      BY <1>1, <2>1, <2>2, <2>6, <3>1
    <3>3. QED
      BY <1>1, <2>6, <3>1, <3>2
  <2>7. QED
    BY <2>3, <2>4, <2>5, <2>6 DEF Lasting
<1>3. QED
  BY <1>2 DEF Followed, r

LEMMA RecallMemory ==
  ASSUME Inv, NEW f \in HubState
  PROVE  Recall(f) \in Memory
<1> DEFINE does(t)  == {e \in f.log : e[1] = t}
           asking   == {e \in does("say") : e[2] \in Observer /\ Asked(f, e[3]) # {}}
           answers  == {e[2] : e \in does("say")} \cap Agent
           gone     == {e[2] : e \in does("expired")}
           episode(n) ==
             IF f.reg[n].where # "live" \/ f.reg[n].state # "blocked" THEN Never
             ELSE IF past.on[n] = Never \/ past.what[n] # f.reg[n].detail THEN now
             ELSE past.on[n]
           stirs == \E e \in f.log : Activity(e)
           cried == {n \in Agent : /\ episode(n) # Never
                                   /\ \/ <<"blocked", n>> \in f.log
                                      \/ n \in past.cried /\ episode(n) = past.on[n]}
           asked == IF asking = {} THEN past.asked ELSE UNION {Asked(f, e[3]) : e \in asking}
           when  == IF asking = {} THEN past.when ELSE now
           answered == IF asking # {} THEN {}
                       ELSE (past.answered \cup (IF now > past.when THEN answers ELSE {})) \ gone
           reached == (IF asking = {} THEN past.reached ELSE FALSE) \/ does("quorum") # {}
           calm == IF stirs THEN now ELSE past.calm
           rung == (past.rung /\ ~stirs) \/ does("stall") # {}
           on == [n \in Agent |-> episode(n)]
           what == [n \in Agent |-> f.reg[n].detail]
<1>1. past \in Memory /\ now \in Time /\ Never \in Time
  BY WatchdogAssumption DEF Inv, Time, Never
<1>2. \A to : Asked(f, to) \subseteq Agent
  BY DEF Asked, Agents
<1>3. asked \in SUBSET Agent /\ when \in Time /\ answered \in SUBSET Agent
  BY <1>1, <1>2 DEF Memory
<1>4. reached \in BOOLEAN /\ rung \in BOOLEAN
  BY <1>1 DEF Memory
<1>5. calm \in Time
  BY <1>1 DEF Memory
<1>6. on \in [Agent -> Time] /\ cried \in SUBSET Agent
  <2>1. \A n \in Agent : episode(n) \in Time
    BY <1>1 DEF Memory
  <2>2. QED
    BY <2>1
<1>7. what \in [Agent -> Detail \cup {NoDetail}]
  <2>1. \A n \in Agent : f.reg[n].detail \in Detail \cup {NoDetail}
    BY DEF HubState, Entry, Name
  <2>2. QED
    BY <2>1
<1>8. Recall(f) = [asked |-> asked, when |-> when, answered |-> answered,
                   reached |-> reached, calm |-> calm, rung |-> rung, on |-> on,
                   what |-> what, cried |-> cried]
  BY DEF Recall
<1> HIDE DEF asked, when, answered, reached, calm, rung, on, what, cried
<1>9. QED
  BY <1>3, <1>4, <1>5, <1>6, <1>7, <1>8 DEF Memory

\* What a step leaves is handed to the next one, without the log.
LEMMA BecomesInv ==
  ASSUME Inv, NEW f, Settled(f), Polled(Recall(f), f), Becomes(f)
  PROVE  Inv'
<1> DEFINE kept == {e \in f.log : <<"tick">> \in f.log /\ Kept(e)}
           g == [f EXCEPT !.log = kept]
           r == Recall(f)
<1>1. hub' = g /\ past' = r /\ now' = now
  BY DEF Becomes
<1>2. /\ g \in HubState /\ g.reg = f.reg /\ g.cried = f.cried
      /\ g.asked = f.asked /\ g.expected = f.expected /\ g.quorum = f.quorum
      /\ g.activity = f.activity /\ g.stalled = f.stalled
  <2>1. f \in HubState /\ kept \subseteq f.log
    BY DEF Settled, Steady
  <2> HIDE DEF kept
  <2>2. QED
    BY <2>1 DEF HubState
<1> HIDE DEF g
<1>3. r \in Memory
  BY RecallMemory DEF Settled, Steady
<1>4. Hushed(r, f) /\ Followed(r, f) /\ Polled(r, f)
  BY RecallHushed, RecallFollowed DEF Settled
<1> HIDE DEF r
<1>5. Hushed(r, g) /\ Followed(r, g) /\ Polled(r, g)
  BY <1>2, <1>4 DEF Hushed, Followed, Polled
<1>6. \A n \in Name : Sane(n, g.reg[n])
  BY <1>2 DEF Settled, Steady
<1>7. /\ now' \in 1 .. MaxNow /\ hub' \in HubState' /\ past' \in Memory'
  BY <1>1, <1>2, <1>3 DEF Inv, HubState, Memory, Entry, Time, Event
<1>8. (\A n \in Name : Sane(n, hub.reg[n]))'
  BY <1>1, <1>6 DEF Sane
<1>9. Polled(past, hub)' /\ Hushed(past, hub)' /\ Followed(past, hub)'
  BY <1>1, <1>5 DEF Polled, Hushed, Followed, Blocked
<1>10. QED
  BY <1>7, <1>8, <1>9 DEF Inv

\* So for a handler that serves n, other than a say that is accepted.
LEMMA ServesInv ==
  ASSUME Inv, NEW n \in Name, NEW f, Proper(f), Serves(Now, f, n), Becomes(f)
  PROVE  Inv' /\ hub'.log = {}
<1>1. /\ Proper(Now) /\ Now.log = {} /\ Now.reg = hub.reg
      /\ Now.asked = hub.asked /\ Now.expected = hub.expected /\ Now.quorum = hub.quorum
  BY NowProper
<1>2. \A e \in f.log : e[1] \notin {"say", "expired", "quorum", "stall", "tick"}
  BY <1>1 DEF Serves, Own
<1>3. /\ <<"stall">> \notin f.log /\ <<"quorum">> \notin f.log /\ <<"tick">> \notin f.log
      /\ \A q : <<"expired", q>> \notin f.log
  BY <1>2
<1>4. Settled(f)
  BY <1>3 DEF Settled, Proper, Calm
<1>5. Polled(Recall(f), f)
  <2>1. f \in HubState /\ hub.quorum \in BOOLEAN
    BY DEF Proper, Steady, Inv, HubState
  <2>2. f.asked = hub.asked /\ f.expected = hub.expected
    BY <1>1 DEF Serves, Votes
  <2>3. f.quorum = (hub.quorum \/ <<"quorum">> \in f.log)
    BY <1>1, <1>3, <2>1 DEF Serves, Votes
  <2>4. \A e \in f.log : e[1] # "say"
    BY <1>2
  <2>5. \A q \in Name : f.reg[q].say = (IF <<"expired", q>> \in f.log THEN Never
                                        ELSE hub.reg[q].say)
    BY <1>1, <1>3 DEF Serves, Votes
  <2>6. QED
    BY <2>1, <2>2, <2>3, <2>4, <2>5, PolledUnasked
<1>6. Inv'
  BY <1>4, <1>5, BecomesInv
<1>7. hub'.log = {}
  <2>1. f \in HubState
    BY DEF Proper, Steady
  <2>2. QED
    BY <1>3, <2>1 DEF Becomes, HubState
<1>8. QED
  BY <1>6, <1>7

LEMMA HelloInv ==
  ASSUME Inv, NEW n \in Name, Hello(n)
  PROVE  Inv' /\ hub'.log = {}
<1>1. Proper(HandleHello(Now, n)) /\ Serves(Now, HandleHello(Now, n), n)
  BY NowProper, HandleHelloServes
<1>2. QED
  BY <1>1, ServesInv DEF Hello

LEMMA ReportInv ==
  ASSUME Inv, NEW r \in Reports, Report(r)
  PROVE  Inv' /\ hub'.log = {}
<1> DEFINE n == r.from
           d == Heard(Now, n)
           f == HandleState(d, n, r.state, r.detail)
<1>1. /\ n \in Agent /\ n \in Name /\ r.state \in {"idle", "busy", "blocked"}
      /\ r.detail \in Detail \cup {NoDetail}
      /\ (r.state = "blocked") <=> (r.detail # NoDetail)
  BY WatchdogAssumption DEF Name
<1>2. Proper(Now) /\ Now.log = {} /\ Now.reg = hub.reg
  BY NowProper
<1>3. /\ Proper(d) /\ Serves(Now, d, n) /\ Seated(Now, d) /\ d.log = {}
      /\ d.reg[n].state = hub.reg[n].state /\ d.reg[n].detail = hub.reg[n].detail
  BY <1>1, <1>2, HeardServes
<1> HIDE DEF d
<1>4. d.reg[n].where = "live" /\ hub.reg[n].where = "live"
  BY <1>1, <1>2, <1>3 DEF Report, Known, Seated
<1>5. past.what[n] = d.reg[n].detail
  BY <1>1, <1>3 DEF Inv, Followed
<1>6. ~Blocked(d.reg[n]) => past.on[n] = Never
  BY <1>1, <1>3, <1>4 DEF Inv, Followed, Blocked
<1>7. Proper(f) /\ Serves(d, f, n)
  BY <1>1, <1>3, <1>4, <1>5, <1>6, HandleStateServes
<1>8. Serves(Now, f, n)
  BY <1>3, <1>7, ServesTransitive
<1>9. Becomes(f)
  BY DEF Report, d
<1> HIDE DEF f
<1>10. QED
  BY <1>1, <1>7, <1>8, <1>9, ServesInv

LEMMA PongInv ==
  ASSUME Inv, NEW n \in Name, Pong(n)
  PROVE  Inv' /\ hub'.log = {}
<1>1. Proper(Heard(Now, n)) /\ Serves(Now, Heard(Now, n), n)
  BY NowProper, HeardServes
<1>2. QED
  BY <1>1, ServesInv DEF Pong

LEMMA CmdInv ==
  ASSUME Inv, NEW n \in Name, Cmd(n)
  PROVE  Inv' /\ hub'.log = {}
<1> DEFINE d == Heard(Now, n)
           f == Touch(Did(d, <<"cmd", n>>))
<1>1. Proper(d) /\ Serves(Now, d, n) /\ d.log = {}
  BY NowProper, HeardServes
<1>2. Becomes(f)
  BY DEF Cmd
<1> HIDE DEF d
<1>3. <<"cmd", n>> \in Event /\ Activity(<<"cmd", n>>)
  BY DEF Event, Activity
<1>4. /\ Proper(f) /\ Votes(d, f) /\ f.reg = d.reg /\ f.cried = d.cried
      /\ f.log = d.log \cup {<<"cmd", n>>}
  BY <1>1, <1>3, TouchDid DEF Proper
<1> HIDE DEF f
<1>5. Serves(d, f, n)
  BY <1>4 DEF Serves, Own
<1>6. Serves(Now, f, n)
  BY <1>1, <1>5, ServesTransitive
<1>7. QED
  BY <1>2, <1>4, <1>6, ServesInv

LEMMA FailsInv ==
  ASSUME Inv, NEW n \in Name, Fails(n)
  PROVE  Inv' /\ hub'.log = {}
<1> DEFINE r == hub.reg[n]
           p == [r EXCEPT !.connected = FALSE]
           g == [Now EXCEPT !.reg[n] = p]
<1>1. Proper(Now) /\ Now.log = {} /\ Now.reg = hub.reg
  BY NowProper
<1>2. Becomes(g)
  BY <1>1 DEF Fails, Proper, Steady, HubState
<1>3. r \in Entry /\ Sane(n, r)
  BY DEF Inv, HubState
<1>4. /\ p \in Entry /\ p.say = r.say /\ p.where = r.where /\ p.state = r.state
      /\ p.blocked = r.blocked /\ p.detail = r.detail /\ p.connected = FALSE
  BY <1>3 DEF Entry
<1> HIDE DEF p
<1>5. Sane(n, p)
  BY <1>3, <1>4 DEF Sane
<1>6. /\ Steady(g) /\ Calm(g) /\ Votes(Now, g)
      /\ g.log = Now.log /\ g.cried = Now.cried
  <2>1. Steady(Now) /\ Calm(Now) /\ Now.reg[n] = r
    BY <1>1 DEF Proper
  <2> HIDE DEF r
  <2>2. QED
    BY <1>4, <1>5, <2>1, OneReg
<1>7. \A x \in Name \ {n} : g.reg[x] = Now.reg[x]
  BY <1>1 DEF Proper, Steady, HubState
<1> HIDE DEF g
<1>8. Proper(g) /\ Serves(Now, g, n)
  BY <1>6, <1>7 DEF Proper, Serves, Own
<1>9. QED
  BY <1>2, <1>8, ServesInv

LEMMA LeavesInv ==
  ASSUME Inv, NEW n \in Name, Leaves(n)
  PROVE  Inv' /\ hub'.log = {}
<1>1. Proper(Disconnect(Now, n)) /\ Serves(Now, Disconnect(Now, n), n)
  BY NowProper, DisconnectServes
<1>2. QED
  BY <1>1, ServesInv DEF Leaves

\* An accepted say is recalled as the hub stamps it: an observer's asks the
\* agents that are there, an agent's answers if it is later than what was asked.
LEMMA SayInv ==
  ASSUME Inv, NEW s \in Says, Say(s)
  PROVE  Inv' /\ hub'.log = {}
<1> DEFINE n == s.from
           to == s.to
           h == Heard(Now, n)
           a == IF s.accepted THEN Accept(h, n, to) ELSE h
           f == HandleSay(h, n, to, s.accepted)
<1>1. n \in Name /\ to \in Name \cup {Everyone} /\ s.accepted \in BOOLEAN
  BY WatchdogAssumption
<1>2. /\ Proper(Now) /\ Now.log = {} /\ Now.reg = hub.reg
      /\ Now.asked = hub.asked /\ Now.expected = hub.expected /\ Now.quorum = hub.quorum
  BY NowProper
<1>3. Proper(h) /\ Serves(Now, h, n) /\ Seated(Now, h) /\ h.log = {}
  BY <1>1, <1>2, HeardServes
<1>4. Becomes(f)
  BY DEF Say
<1> HIDE DEF h
<1>5. CASE ~s.accepted
  <2>1. a = h
    BY <1>5
  <2>2. Proper(f) /\ Serves(h, f, n)
    BY <1>1, <1>3, <2>1, HandleSayServes
  <2> HIDE DEF f
  <2>3. Serves(Now, f, n)
    BY <1>3, <2>2, ServesTransitive
  <2>4. QED
    BY <1>1, <1>4, <2>2, <2>3, ServesInv
<1>6. CASE s.accepted
  <2> DEFINE asks == n \in Observer /\ Asked(h, to) # {}
             told == <<"say", n, to>>
  <2>1. a = Accept(h, n, to)
    BY <1>6
  <2>2. /\ Proper(a) /\ Seated(h, a) /\ told \in a.log
        /\ \A e \in a.log : e = told \/ e[1] = "deliver"
        /\ a.reg[n].say = now
        /\ \A q \in Name \ {n} : a.reg[q].say = h.reg[q].say
        /\ IF asks THEN a.asked = now /\ a.expected = Asked(h, to) /\ a.quorum = FALSE
           ELSE a.asked = h.asked /\ a.expected = h.expected /\ a.quorum = h.quorum
    <3> HIDE DEF a, n, to
    <3>1. AcceptedAs(h, n, to, Accept(h, n, to))
      BY <1>1, <1>3, AcceptDoes
    <3>2. QED
      BY <2>1, <3>1 DEF AcceptedAs
  <2>3. Proper(f) /\ Serves(a, f, n) /\ Seated(a, f)
    <3>1. <<"blocked", n>> \notin a.log
      BY <2>2
    <3> HIDE DEF a
    <3>2. a = IF s.accepted THEN Accept(h, n, to) ELSE h
      BY DEF a
    <3>3. QED
      BY <1>1, <1>3, <2>2, <3>1, <3>2, HandleSayServes
  <2> HIDE DEF a, f
  <2>4. \A e \in f.log : e[1] \notin {"expired", "quorum", "stall", "tick"}
                         /\ (e[1] = "say" => e = told)
    <3> TAKE e \in f.log
    <3>1. CASE e \in a.log
      BY <2>2, <3>1
    <3>2. CASE e \notin a.log
      BY <2>3, <3>2 DEF Serves, Own
    <3>3. QED
      BY <3>1, <3>2
  <2>5. told \in f.log /\ told[1] = "say" /\ told[2] = n /\ told[3] = to
    BY <2>2, <2>3 DEF Serves, Own
  <2>6. /\ <<"stall">> \notin f.log /\ <<"tick">> \notin f.log
    BY <2>4
  <2>7. Settled(f)
    BY <2>3, <2>6 DEF Settled, Proper, Calm
  <2>8. Asked(f, to) = Asked(h, to) /\ Asked(h, to) \subseteq Agent
    <3>1. \A q \in Name : /\ f.reg[q].where = h.reg[q].where
                          /\ f.reg[q].connected = h.reg[q].connected
      BY <2>2, <2>3 DEF Seated
    <3>2. Agents(f) = Agents(h) /\ Agents(h) \subseteq Name /\ Agents(h) \subseteq Agent
      BY <3>1 DEF Agents, Live
    <3>3. {q \in Agents(f) : f.reg[q].connected} = {q \in Agents(h) : h.reg[q].connected}
      BY <3>1, <3>2
    <3>4. QED
      BY <3>2, <3>3 DEF Asked
  <2>9. /\ f.reg[n].say = now
        /\ \A q \in Name \ {n} : f.reg[q].say = hub.reg[q].say
        /\ f.asked = a.asked /\ f.expected = a.expected /\ f.quorum = a.quorum
        /\ h.asked = hub.asked /\ h.expected = hub.expected /\ h.quorum = hub.quorum
    BY <1>1, <1>2, <1>3, <2>2, <2>3 DEF Serves, Votes
  <2>10. Polled(Recall(f), f)
    <3> DEFINE does(t)  == {e \in f.log : e[1] = t}
               asking   == {e \in does("say") : e[2] \in Observer /\ Asked(f, e[3]) # {}}
               answers  == {e[2] : e \in does("say")} \cap Agent
               gone     == {e[2] : e \in does("expired")}
               r == Recall(f)
    <3>1. does("say") = {told} /\ does("expired") = {} /\ does("quorum") = {} /\ gone = {}
      BY <2>4, <2>5
    <3>2. asking = IF asks THEN {told} ELSE {}
      BY <2>5, <2>8, <3>1
    <3>3. answers = {n} \cap Agent
      BY <2>5, <3>1
    <3>4. /\ r.asked = (IF asking = {} THEN past.asked
                        ELSE UNION {Asked(f, e[3]) : e \in asking})
          /\ r.when = (IF asking = {} THEN past.when ELSE now)
          /\ r.answered = (IF asking # {} THEN {}
                           ELSE (past.answered \cup (IF now > past.when THEN answers ELSE {}))
                                \ gone)
          /\ r.reached = ((IF asking = {} THEN past.reached ELSE FALSE) \/ does("quorum") # {})
      BY DEF Recall
    <3> HIDE DEF does, gone, answers, r
    <3>5. CASE asks
      <4>1. asking = {told} /\ UNION {Asked(f, e[3]) : e \in asking} = Asked(h, to)
        BY <2>5, <2>8, <3>2, <3>5
      <4>2. r.asked = Asked(h, to) /\ r.when = now /\ r.answered = {} /\ r.reached = FALSE
        BY <3>1, <3>4, <4>1
      <4>3. f.asked = now /\ f.expected = Asked(h, to) /\ f.quorum = FALSE
        BY <2>2, <2>9, <3>5
      <4>4. \A q \in Agent : ~(f.reg[q].say > now)
        <5>1. f \in HubState /\ now \in Nat
          BY <2>3 DEF Proper, Steady
        <5>2. QED
          BY <5>1 DEF HubState, Entry, Time, Name
      <4>5. QED
        BY <4>2, <4>3, <4>4 DEF Polled, r
    <3>6. CASE ~asks
      <4>1. asking = {}
        BY <3>2, <3>6
      <4>2. /\ r.asked = past.asked /\ r.when = past.when /\ r.reached = past.reached
            /\ r.answered = past.answered \cup (IF now > past.when THEN {n} \cap Agent ELSE {})
        <5>1. past.reached \in BOOLEAN
          BY DEF Inv, Memory
        <5>2. QED
          BY <3>1, <3>3, <3>4, <4>1, <5>1
      <4>3. f.asked = hub.asked /\ f.expected = hub.expected /\ f.quorum = hub.quorum
        BY <2>2, <2>9, <3>6
      <4>4. \A q \in Agent : q \in r.answered <=> f.reg[q].say > f.asked
        <5> TAKE q \in Agent
        <5>1. /\ q \in past.answered <=> hub.reg[q].say > hub.asked
              /\ past.when = hub.asked /\ q \in Name
          BY DEF Inv, Polled, Name
        <5>2. CASE q = n
          <6>1. hub.reg[q].say \in Nat /\ hub.reg[q].say <= now /\ now \in Nat /\ hub.asked \in Nat
            BY <5>1, WatchdogAssumption DEF Inv, HubState, Entry, Time
          <6>2. QED
            BY <2>9, <4>2, <4>3, <5>1, <5>2, <6>1
        <5>3. CASE q # n
          BY <2>9, <4>2, <4>3, <5>1, <5>3
        <5>4. QED
          BY <5>2, <5>3
      <4>5. r.answered \subseteq Agent
        BY <4>2 DEF Inv, Memory
      <4>6. r.answered = {q \in Agent : f.reg[q].say > f.asked}
        BY <4>4, <4>5
      <4>7. QED
        BY <4>2, <4>3, <4>6 DEF Polled, Inv, r
    <3>7. QED
      BY <3>5, <3>6
  <2>11. Inv'
    BY <1>4, <2>7, <2>10, BecomesInv
  <2>12. hub'.log = {}
    <3>1. f \in HubState
      BY <2>3 DEF Proper, Steady
    <3>2. QED
      BY <1>4, <2>6, <3>1 DEF Becomes, HubState
  <2>13. QED
    BY <2>11, <2>12
<1>7. QED
  BY <1>1, <1>5, <1>6

-----------------------------------------------------------------------------
(* The tick.                                                               *)

\* An agent that is blocked is so since it was recalled to be.
Aged(h, n) ==
  LET p == h.reg[n]
  IN  Blocked(p) => /\ p.blocked = past.on[n] /\ p.detail = past.what[n]
                    /\ n \in h.cried <=> n \in past.cried

\* Who is being pinged has been silent for longer than dead_after.
LEMMA PingServes ==
  ASSUME NEW h, Proper(h), NEW n \in Name, h.reg[n].connected
  PROVE  LET g == Ping(h, n)
         IN  /\ Proper(g) /\ Serves(h, g, n) /\ g.cried = h.cried
             /\ g.log \in {h.log, h.log \cup {<<"ping", n>>}}
             /\ g.reg[n].where = h.reg[n].where /\ g.reg[n].state = h.reg[n].state
             /\ g.reg[n].blocked = h.reg[n].blocked /\ g.reg[n].detail = h.reg[n].detail
<1> DEFINE r == h.reg[n]
           d == now + PongTimeout
           p == [r EXCEPT !.awaiting = TRUE, !.deadline = d]
           i == [h EXCEPT !.reg[n] = p]
           g == Did(i, <<"ping", n>>)
<1>1. CASE ~(Lapsed(r.rx, DeadAfter) /\ ~r.awaiting)
  <2>1. Ping(h, n) = h
    BY <1>1 DEF Ping
  <2>2. QED
    BY <2>1 DEF Serves, Votes, Own
<1>2. CASE Lapsed(r.rx, DeadAfter) /\ ~r.awaiting
  <2>1. Ping(h, n) = g
    <3>1. [h EXCEPT !.reg[n].awaiting = TRUE, !.reg[n].deadline = now + PongTimeout] = i
      BY DEF Proper, Steady, HubState
    <3> HIDE DEF i
    <3>2. QED
      BY <1>2, <3>1 DEF Ping
  <2>2. /\ r \in Entry /\ Sane(n, r) /\ r.rx \in Nat /\ now \in Nat
        /\ DeadAfter \in Nat /\ PongTimeout \in Nat /\ d \in Nat
    BY WatchdogAssumption DEF Proper, Steady, HubState, Entry, Time
  <2>3. /\ p \in Entry /\ p.say = r.say /\ p.state = r.state
        /\ p.where = r.where /\ p.connected = r.connected
        /\ p.blocked = r.blocked /\ p.detail = r.detail
        /\ p.rx = r.rx /\ p.awaiting = TRUE /\ p.deadline = d
    <3> HIDE DEF d
    <3>1. QED
      BY <2>2 DEF Entry
  <2> HIDE DEF p
  <2>4. Sane(n, p)
    BY <1>2, <2>2, <2>3 DEF Sane, Lapsed
  <2>5. /\ Steady(i) /\ Calm(i) /\ Votes(h, i)
        /\ i.reg[n] = p /\ i.log = h.log /\ i.cried = h.cried
    <3>1. Steady(h) /\ Calm(h)
      BY DEF Proper
    <3> HIDE DEF d
    <3>2. QED
      BY <2>3, <2>4, <3>1, OneReg
  <2>6. \A x \in Name \ {n} : i.reg[x] = h.reg[x]
    BY DEF Proper, Steady, HubState
  <2> HIDE DEF i
  <2>7. /\ <<"ping", n>> \in Event /\ ~Activity(<<"ping", n>>)
        /\ <<"ping", n>>[1] = "ping" /\ <<"ping", n>>[2] = n
    BY DEF Event, Activity
  <2>8. /\ Steady(g) /\ Calm(g) /\ Votes(i, g)
        /\ g.reg = i.reg /\ g.cried = i.cried /\ g.log = i.log \cup {<<"ping", n>>}
    BY <2>5, <2>7, Noted
  <2> HIDE DEF g
  <2>9. Serves(h, g, n)
    BY <2>5, <2>6, <2>7, <2>8, VotesTransitive DEF Serves, Own
  <2>10. QED
    BY <2>1, <2>3, <2>5, <2>8, <2>9 DEF Proper
<1>3. QED
  BY <1>1, <1>2

\* Idle is inferred of an agent, or it stays as it is.
LEMMA InferIdleServes ==
  ASSUME NEW h, Proper(h), NEW n \in Name, <<"blocked", n>> \notin h.log, Aged(h, n)
  PROVE  LET g == InferIdle(h, n)
         IN  /\ Proper(g) /\ Serves(h, g, n) /\ g.cried = h.cried
             /\ <<"blocked", n>> \notin g.log
             /\ <<"left", n>> \in g.log => <<"left", n>> \in h.log
             /\ g.reg[n].where = h.reg[n].where /\ Aged(g, n)
<1> DEFINE i == SetIdle(h, n)
           j == Did(i, <<"assumed", n>>)
           g == FlushQueue(j, n)
<1>1. InferIdle(h, n) \in {h, g}
  BY DEF InferIdle
<1>2. /\ Proper(i) /\ Serves(h, i, n) /\ i.log = h.log /\ i.cried = h.cried
      /\ i.reg[n].state = "idle" /\ i.reg[n].where = h.reg[n].where
  BY SetIdleServes DEF Seated
<1> HIDE DEF i
<1>3. /\ <<"assumed", n>> \in Event /\ ~Activity(<<"assumed", n>>)
      /\ <<"assumed", n>>[1] = "assumed" /\ <<"assumed", n>>[2] = n
  BY DEF Event, Activity
<1>4. /\ Steady(j) /\ Calm(j) /\ Votes(i, j)
      /\ j.reg = i.reg /\ j.cried = i.cried /\ j.log = i.log \cup {<<"assumed", n>>}
  BY <1>2, <1>3, Noted DEF Proper
<1> HIDE DEF j
<1>5. Serves(i, j, n)
  BY <1>3, <1>4 DEF Serves, Own
<1>6. <<"blocked", n>> \notin j.log
  BY <1>2, <1>4
<1>7. /\ Proper(g) /\ Serves(j, g, n) /\ ~Blocked(g.reg[n])
      /\ g.log \in {j.log, j.log \cup {<<"deliver", n>>}} /\ g.cried = j.cried
      /\ g.reg[n].where = j.reg[n].where
  BY <1>2, <1>4, <1>6, FlushQueueServes DEF Proper, Seated
<1> HIDE DEF g
<1>8. Serves(h, g, n)
  BY <1>2, <1>5, <1>7, ServesTransitive
<1>9. Serves(h, h, n)
  BY DEF Serves, Votes, Own
<1>10. /\ <<"blocked", n>> \notin g.log
       /\ <<"left", n>> \in g.log => <<"left", n>> \in h.log
  BY <1>2, <1>4, <1>6, <1>7
<1>11. Aged(g, n)
  BY <1>7 DEF Aged
<1>12. QED
  BY <1>1, <1>2, <1>4, <1>7, <1>8, <1>9, <1>10, <1>11

\* The cry of an episode, when it is due and has not been.
CryDue(h, n) == Blocked(h.reg[n]) /\ now > past.on[n] + BlockedAfter /\ n \notin past.cried

LEMMA CryBlockedServes ==
  ASSUME NEW h, Proper(h), NEW n \in Agent, <<"blocked", n>> \notin h.log, Aged(h, n),
         h.reg[n].where = "live"
  PROVE  LET g == CryBlocked(h, n)
         IN  /\ Proper(g) /\ Serves(h, g, n)
             /\ <<"blocked", n>> \in g.log <=> CryDue(g, n)
             /\ g.log \in {h.log, h.log \cup {<<"blocked", n>>}}
<1> DEFINE p == h.reg[n]
           e == <<"blocked", n>>
           i == [h EXCEPT !.cried = h.cried \cup {n}]
           g == Did(i, e)
           due == /\ p.state = "blocked" /\ p.blocked # Never
                  /\ Lapsed(p.blocked, BlockedAfter) /\ n \notin h.cried
<1>1. n \in Name /\ Sane(n, p) /\ Lasting(h, n)
  BY DEF Proper, Steady, Name
<1>2. due <=> CryDue(h, n)
  BY <1>1 DEF CryDue, Aged, Blocked, Sane, Lapsed
<1>3. CASE ~due
  <2>1. CryBlocked(h, n) = h
    BY <1>3 DEF CryBlocked
  <2>2. QED
    BY <1>2, <1>3, <2>1 DEF Serves, Votes, Own
<1>4. CASE due
  <2>1. CryBlocked(h, n) = g
    BY <1>4 DEF CryBlocked
  <2>2. e \in Event /\ ~Activity(e) /\ e[1] = "blocked" /\ e[2] = n
    BY <1>1 DEF Event, Activity
  <2>3. /\ g \in HubState /\ g.reg = h.reg /\ g.log = h.log \cup {e}
        /\ g.cried = h.cried \cup {n}
        /\ g.asked = h.asked /\ g.expected = h.expected /\ g.quorum = h.quorum
        /\ g.activity = h.activity /\ g.stalled = h.stalled
    BY <2>2 DEF Did, Proper, Steady, HubState
  <2> HIDE DEF g
  <2>4. \A q \in Agent : Lasting(g, q)
    <3> TAKE q \in Agent
    <3>1. Lasting(h, q)
      BY DEF Proper, Steady
    <3>2. CASE q = n
      <4>1. Blocked(p) /\ now > past.on[n] + BlockedAfter
        BY <1>2, <1>4 DEF CryDue
      <4>2. p.blocked = past.on[n] /\ p.detail = past.what[n]
        BY <4>1 DEF Aged
      <4>3. QED
        BY <2>3, <3>2, <4>1, <4>2 DEF Lasting
    <3>3. CASE q # n
      <4>1. <<"blocked", q>> # e
        BY <3>3
      <4>2. QED
        BY <2>3, <3>1, <3>3, <4>1 DEF Lasting
    <3>4. QED
      BY <3>2, <3>3
  <2>5. Stirred(g) <=> Stirred(h)
    BY <2>2, <2>3 DEF Stirred
  <2>6. Proper(g)
    BY <2>3, <2>4, <2>5 DEF Proper, Steady, Calm
  <2>7. Serves(h, g, n)
    BY <2>2, <2>3 DEF Serves, Votes, Own
  <2>8. CryDue(g, n)
    BY <1>2, <1>4, <2>3 DEF CryDue
  <2>9. QED
    BY <2>1, <2>3, <2>6, <2>7, <2>8
<1>5. QED
  BY <1>3, <1>4

\* One visit: it serves its own name, cries if and only if the cry is due, and
\* gives up a connection that is down or whose ping has not been answered.
VisitDoes(h, n, g) ==
  /\ Proper(g) /\ Serves(h, g, n)
  /\ n \in Agent => (<<"blocked", n>> \in g.log <=> CryDue(g, n))
  /\ <<"left", n>> \in g.log /\ h.reg[n].connected =>
       h.reg[n].awaiting /\ now > h.reg[n].deadline

LEMMA VisitedDoes ==
  ASSUME NEW h, Proper(h), NEW n \in Name, h.reg[n].where = "live",
         n \in Agent => Aged(h, n), \A e \in h.log : e[1] = "expired"
  PROVE  VisitDoes(h, n, Visited(h, n))
<1> DEFINE p == h.reg[n]
           lost == ~p.connected \/ (p.awaiting /\ now > p.deadline)
           i == Ping(h, n)
           j == InferIdle(i, n)
<1>1. <<"blocked", n>> \notin h.log /\ <<"left", n>> \notin h.log
  OBVIOUS
<1>2. CASE lost
  <2> DEFINE g == Disconnect(h, n)
  <2>1. Visited(h, n) = g
    BY <1>2 DEF Visited
  <2>2. /\ Proper(g) /\ Serves(h, g, n) /\ ~Blocked(g.reg[n])
        /\ g.log = h.log \cup {<<"left", n>>}
    BY <1>1, DisconnectServes
  <2> HIDE DEF g
  <2>3. <<"blocked", n>> \notin g.log
    BY <1>1, <2>2
  <2>4. QED
    BY <1>2, <2>1, <2>2, <2>3 DEF VisitDoes, CryDue
<1>3. CASE ~lost
  <2>1. /\ Proper(i) /\ Serves(h, i, n) /\ i.cried = h.cried
        /\ i.log \in {h.log, h.log \cup {<<"ping", n>>}}
        /\ i.reg[n].where = p.where /\ i.reg[n].state = p.state
        /\ i.reg[n].blocked = p.blocked /\ i.reg[n].detail = p.detail
    BY <1>3, PingServes
  <2>2. <<"blocked", n>> \notin i.log /\ <<"left", n>> \notin i.log
    BY <1>1, <2>1
  <2>3. CASE n \in Observer
    <3>1. Visited(h, n) = i
      BY <1>3, <2>3 DEF Visited
    <3>2. n \notin Agent
      BY <2>3, WatchdogAssumption
    <3> HIDE DEF i
    <3>3. QED
      BY <2>1, <2>2, <3>1, <3>2 DEF VisitDoes
  <2>4. CASE n \notin Observer
    <3> DEFINE g == CryBlocked(j, n)
    <3>1. Visited(h, n) = g
      BY <1>3, <2>4 DEF Visited
    <3>2. n \in Agent
      BY <2>4 DEF Name
    <3> HIDE DEF i
    <3>3. Aged(i, n)
      BY <2>1, <3>2 DEF Aged, Blocked
    <3>4. /\ Proper(j) /\ Serves(i, j, n) /\ Aged(j, n)
          /\ <<"blocked", n>> \notin j.log /\ <<"left", n>> \notin j.log
          /\ j.reg[n].where = i.reg[n].where
      BY <2>1, <2>2, <3>3, InferIdleServes
    <3>5. j.reg[n].where = "live"
      BY <2>1, <3>4
    <3> HIDE DEF j
    <3>6. /\ Proper(g) /\ Serves(j, g, n)
          /\ <<"blocked", n>> \in g.log <=> CryDue(g, n)
          /\ g.log \in {j.log, j.log \cup {<<"blocked", n>>}}
      BY <3>2, <3>4, <3>5, CryBlockedServes
    <3> HIDE DEF g
    <3>7. Serves(h, g, n)
      BY <2>1, <3>4, <3>6, ServesTransitive
    <3>8. <<"left", n>> \notin g.log
      BY <3>4, <3>6
    <3>9. QED
      BY <3>1, <3>6, <3>7, <3>8 DEF VisitDoes
  <2>5. QED
    BY <2>3, <2>4
<1>4. QED
  BY <1>2, <1>3

\* What has expired was dead, and is forgotten.
LEMMA ExpiredDoes ==
  ASSUME Inv
  PROVE  LET h == Expired(Now)
         IN  /\ Proper(h) /\ \A n \in Agent : Aged(h, n)
             /\ \A e \in h.log : e[1] = "expired"
             /\ h.asked = hub.asked /\ h.expected = hub.expected /\ h.quorum = hub.quorum
             /\ \A n \in Name :
                  /\ h.reg[n] = IF <<"expired", n>> \in h.log THEN NoReg ELSE hub.reg[n]
                  /\ <<"expired", n>> \in h.log => hub.reg[n].where = "dead"
<1> DEFINE gone == {n \in Name : Now.reg[n].where = "dead" /\ Lapsed(Now.reg[n].rx, DeadTtl)}
           reg  == [n \in Name |-> IF n \in gone THEN NoReg ELSE Now.reg[n]]
           log  == Now.log \cup {<<"expired", n>> : n \in gone}
           h    == [Now EXCEPT !.reg = reg, !.log = log]
<1>1. Expired(Now) = h
  BY DEF Expired
<1>2. /\ Proper(Now) /\ Now.log = {} /\ Now.reg = hub.reg /\ Now.cried = hub.cried
      /\ Now.asked = hub.asked /\ Now.expected = hub.expected /\ Now.quorum = hub.quorum
  BY NowProper
<1>3. gone \subseteq Name /\ \A n \in gone : hub.reg[n].where = "dead"
  BY <1>2
<1> HIDE DEF gone
<1>4. log = {<<"expired", n>> : n \in gone} /\ log \in SUBSET Event
  BY <1>2, <1>3 DEF Event
<1>5. NoReg \in Entry
  BY WatchdogAssumption DEF Inv, NoReg, Entry, Time, Never
<1>6. reg \in [Name -> Entry]
  BY <1>2, <1>5 DEF Proper, Steady, HubState
<1>7. \A n \in Name : reg[n] = IF n \in gone THEN NoReg ELSE hub.reg[n]
  BY <1>2
<1>8. \A n : n \in gone <=> <<"expired", n>> \in log
  BY <1>4
<1> HIDE DEF log, reg
<1>9. /\ h \in HubState /\ h.reg = reg /\ h.log = log /\ h.cried = Now.cried
      /\ h.asked = Now.asked /\ h.expected = Now.expected /\ h.quorum = Now.quorum
      /\ h.activity = Now.activity /\ h.stalled = Now.stalled
  BY <1>2, <1>4, <1>6 DEF Proper, Steady, HubState
<1> HIDE DEF h
<1>10. \A n \in Name : Sane(n, h.reg[n])
  <2> TAKE n \in Name
  <2>1. CASE n \in gone
    BY <1>7, <1>9, <2>1 DEF NoReg, Sane
  <2>2. CASE n \notin gone
    BY <1>7, <1>9, <2>2 DEF Inv
  <2>3. QED
    BY <2>1, <2>2
<1>11. \A e \in h.log : e[1] = "expired"
  BY <1>4, <1>9
<1>12. \A n \in Agent : Aged(h, n) /\ Lasting(h, n)
  <2> TAKE n \in Agent
  <2>1. n \in Name /\ <<"blocked", n>> \notin h.log
    BY <1>11 DEF Name
  <2>2. CASE n \in gone
    <3>1. ~Blocked(h.reg[n])
      BY <1>7, <1>9, <2>1, <2>2 DEF NoReg, Blocked
    <3>2. QED
      BY <2>1, <3>1 DEF Aged, Lasting
  <2>3. CASE n \notin gone
    <3>1. h.reg[n] = hub.reg[n] /\ h.cried = hub.cried
      BY <1>2, <1>7, <1>9, <2>1, <2>3
    <3>2. QED
      BY <2>1, <3>1 DEF Inv, Followed, Aged, Lasting
  <2>4. QED
    BY <2>2, <2>3
<1>13. Stirred(h) <=> Stirred(Now)
  BY <1>2, <1>11 DEF Stirred, Activity
<1>14. Proper(h)
  BY <1>2, <1>9, <1>10, <1>12, <1>13 DEF Proper, Steady, Calm
<1>15. QED
  BY <1>1, <1>2, <1>3, <1>7, <1>8, <1>9, <1>11, <1>12, <1>14

\* The visits of a tick, side by side.
LEMMA VisitAllDoes ==
  ASSUME Inv, NEW h, Proper(h), \A n \in Agent : Aged(h, n),
         \A e \in h.log : e[1] = "expired"
  PROVE  LET v == VisitAll(h)
         IN  /\ Proper(v) /\ Votes(h, v)
             /\ \A e \in v.log : e[1] \notin {"say", "quorum", "stall", "tick"}
             /\ \A n \in Agent : <<"blocked", n>> \in v.log <=> CryDue(v, n)
             /\ \A n \in Name : <<"left", n>> \in v.log /\ h.reg[n].connected =>
                                  h.reg[n].awaiting /\ now > h.reg[n].deadline
<1> DEFINE live == Live(h)
           visit(n) == Visited(h, n)
           visits == {visit(n) : n \in live}
           reg == [n \in Name |-> IF n \in live THEN visit(n).reg[n] ELSE h.reg[n]]
           activity == IF \E g \in visits : g.activity = now THEN now ELSE h.activity
           stalled == \A g \in visits \cup {h} : g.stalled
           cried == {n \in Agent : n \in (IF n \in live THEN visit(n) ELSE h).cried}
           log == h.log \cup UNION {g.log : g \in visits}
           v == [h EXCEPT !.reg = reg, !.activity = activity, !.stalled = stalled,
                          !.cried = cried, !.log = log]
<1>1. VisitAll(h) = v
  BY DEF VisitAll
<1>2. live \subseteq Name /\ \A n \in Name : n \in live <=> h.reg[n].where = "live"
  BY DEF Live
<1>3. \A n \in live : VisitDoes(h, n, visit(n))
  BY <1>2, VisitedDoes
<1>4. \A n \in Name : reg[n] = IF n \in live THEN visit(n).reg[n] ELSE h.reg[n]
  OBVIOUS
<1>5. \A e : e \in log <=> e \in h.log \/ \E n \in live : e \in visit(n).log
  OBVIOUS
<1>6. \A n \in Agent : n \in cried <=> IF n \in live THEN n \in visit(n).cried ELSE n \in h.cried
  OBVIOUS
<1>7. /\ \A n \in live : visit(n).activity \in {now, h.activity}
      /\ \A n \in live : visit(n).stalled = (past.rung /\ ~Stirred(visit(n)))
      /\ \A n \in live : visit(n).activity = (IF Stirred(visit(n)) THEN now ELSE past.calm)
      /\ h.activity = past.calm /\ h.stalled = past.rung /\ ~Stirred(h)
  <2>1. ~Stirred(h)
    BY DEF Stirred, Activity
  <2>2. h.activity = past.calm /\ h.stalled = past.rung
    <3>1. past.rung \in BOOLEAN
      BY DEF Inv, Memory
    <3>2. QED
      BY <2>1, <3>1 DEF Proper, Calm, Steady, HubState
  <2>3. \A n \in live : Calm(visit(n))
    BY <1>3 DEF VisitDoes, Proper
  <2>4. QED
    BY <2>1, <2>2, <2>3 DEF Calm
<1>8. Stirred([log |-> log]) <=> \E n \in live : Stirred(visit(n))
  BY <1>5, <1>7 DEF Stirred
<1>9. activity = (IF \E n \in live : Stirred(visit(n)) THEN now ELSE past.calm)
  BY <1>7
<1>10. stalled = (past.rung /\ ~\E n \in live : Stirred(visit(n)))
  BY <1>7
<1>11. reg \in [Name -> Entry] /\ cried \in SUBSET Agent /\ log \in SUBSET Event
  <2>1. h \in HubState /\ \A n \in live : visit(n) \in HubState
    BY <1>3 DEF VisitDoes, Proper, Steady
  <2> HIDE DEF visit, live
  <2>2. reg \in [Name -> Entry]
    BY <1>2, <2>1 DEF HubState
  <2>3. log \in SUBSET Event
    <3> HIDE DEF log
    <3>1. \A e \in log : e \in Event
      BY <1>5, <2>1 DEF HubState
    <3>2. QED
      BY <3>1
  <2>4. QED
    BY <2>2, <2>3
<1>12. activity \in Time /\ stalled \in BOOLEAN
  BY <1>7 DEF Proper, Steady, HubState, Time
<1> HIDE DEF visit, live, visits, reg, activity, stalled, cried, log
<1>13. /\ v \in HubState /\ v.reg = reg /\ v.activity = activity /\ v.stalled = stalled
       /\ v.cried = cried /\ v.log = log
       /\ v.asked = h.asked /\ v.expected = h.expected /\ v.quorum = h.quorum
  BY <1>11, <1>12 DEF Proper, Steady, HubState
<1> HIDE DEF v
<1>14. \A n \in live : Own(h, visit(n), n) /\ Votes(h, visit(n)) /\ Steady(visit(n))
  BY <1>3 DEF VisitDoes, Serves, Proper
<1>15. \A n \in Name : \A e : e \notin h.log /\ e[2] = n =>
          (e \in log <=> n \in live /\ e \in visit(n).log)
  BY <1>5, <1>14 DEF Own
<1>16. \A e \in log : e \in h.log \/ e[1] \notin {"say", "expired", "quorum", "stall", "tick"}
  BY <1>5, <1>14 DEF Own
<1>17. \A n \in Name : Sane(n, v.reg[n])
  BY <1>4, <1>13, <1>14 DEF Proper, Steady
<1>18. \A n \in Name :
         /\ <<"blocked", n>> \in log <=> n \in live /\ <<"blocked", n>> \in visit(n).log
         /\ <<"left", n>> \in log <=> n \in live /\ <<"left", n>> \in visit(n).log
  <2> TAKE n \in Name
  <2>1. <<"blocked", n>>[2] = n /\ <<"left", n>>[2] = n
    OBVIOUS
  <2>2. <<"blocked", n>> \notin h.log /\ <<"left", n>> \notin h.log
    OBVIOUS
  <2>3. QED
    BY <1>15, <2>1, <2>2
<1>19. \A n \in Agent : Lasting(v, n)
  <2> TAKE n \in Agent
  <2>1. n \in Name
    BY DEF Name
  <2>2. CASE n \in live
    <3>1. Lasting(visit(n), n)
      BY <1>14, <2>2 DEF Steady
    <3>2. /\ v.reg[n] = visit(n).reg[n]
          /\ n \in v.cried <=> n \in visit(n).cried
          /\ <<"blocked", n>> \in v.log <=> <<"blocked", n>> \in visit(n).log
      BY <1>4, <1>6, <1>13, <1>18, <2>1, <2>2
    <3>3. QED
      BY <3>1, <3>2 DEF Lasting
  <2>3. CASE n \notin live
    <3>1. ~Blocked(v.reg[n])
      BY <1>2, <1>4, <1>13, <2>1, <2>3 DEF Blocked
    <3>2. <<"blocked", n>> \notin v.log
      BY <1>13, <1>18, <2>1, <2>3
    <3>3. QED
      BY <3>1, <3>2 DEF Lasting
  <2>4. QED
    BY <2>2, <2>3
<1>20. Calm(v)
  <2>1. Stirred(v) <=> \E n \in live : Stirred(visit(n))
    BY <1>8, <1>13 DEF Stirred
  <2>2. QED
    BY <1>9, <1>10, <1>13, <2>1 DEF Calm
<1>21. Votes(h, v)
  <2>1. \A n \in Name : v.reg[n].say = h.reg[n].say
    BY <1>4, <1>13, <1>14 DEF Votes
  <2>2. \A e : e[1] \in {"say", "expired", "quorum"} => (e \in v.log <=> e \in h.log)
    BY <1>5, <1>13, <1>16
  <2>3. QED
    BY <1>13, <2>1, <2>2 DEF Votes
<1>22. \A e \in v.log : e[1] \notin {"say", "quorum", "stall", "tick"}
  BY <1>13, <1>16
<1>23. ASSUME NEW n \in Agent
       PROVE  <<"blocked", n>> \in v.log <=> CryDue(v, n)
  <2>1. n \in Name
    BY DEF Name
  <2>2. CASE n \in live
    <3>1. <<"blocked", n>> \in visit(n).log <=> CryDue(visit(n), n)
      BY <1>3, <2>2 DEF VisitDoes
    <3>2. QED
      BY <1>4, <1>13, <1>18, <2>1, <2>2, <3>1 DEF CryDue
  <2>3. CASE n \notin live
    BY <1>2, <1>4, <1>13, <1>18, <2>1, <2>3 DEF CryDue, Blocked
  <2>4. QED
    BY <2>2, <2>3
<1>24. \A n \in Name : <<"left", n>> \in v.log /\ h.reg[n].connected =>
                         h.reg[n].awaiting /\ now > h.reg[n].deadline
  BY <1>3, <1>13, <1>18 DEF VisitDoes
<1>25. Proper(v)
  BY <1>13, <1>17, <1>19, <1>20 DEF Proper, Steady
<1>26. QED
  BY <1>1, <1>21, <1>22, <1>23, <1>24, <1>25

\* When quorum and stall are due at the end of the visits.
QuorumDue(v) ==
  LET waited == Agents(v) \cap v.expected
  IN  /\ ~v.quorum /\ v.asked # Never /\ Quiet(v)
      /\ waited # {} /\ \A n \in waited : v.reg[n].say > v.asked

StallDue(v) ==
  Agents(v) # {} /\ Quiet(v) /\ Lapsed(v.activity, StallAfter) /\ ~v.stalled

LEMMA SignalsDo ==
  ASSUME NEW v, Steady(v), \A e \in v.log : e[1] \notin {"quorum", "stall", "tick"}
  PROVE  LET f == Did(Stall(Quorum(v)), <<"tick">>)
         IN  /\ f \in HubState /\ f.reg = v.reg /\ f.cried = v.cried
             /\ f.asked = v.asked /\ f.expected = v.expected /\ f.activity = v.activity
             /\ f.quorum = (v.quorum \/ QuorumDue(v))
             /\ f.stalled = (v.stalled \/ StallDue(v))
             /\ <<"tick">> \in f.log
             /\ <<"quorum">> \in f.log <=> QuorumDue(v)
             /\ <<"stall">> \in f.log <=> StallDue(v)
             /\ \A e : e \in f.log <=> \/ e \in v.log \/ e = <<"tick">>
                                       \/ e = <<"quorum">> /\ QuorumDue(v)
                                       \/ e = <<"stall">> /\ StallDue(v)
<1> DEFINE q == Quorum(v)
           s == Stall(q)
           f == Did(s, <<"tick">>)
<1>1. {<<"tick">>, <<"quorum">>, <<"stall">>} \subseteq Event
  BY DEF Event
<1>2. /\ q \in HubState /\ q.reg = v.reg /\ q.cried = v.cried
      /\ q.asked = v.asked /\ q.expected = v.expected /\ q.activity = v.activity
      /\ q.stalled = v.stalled /\ q.quorum = (v.quorum \/ QuorumDue(v))
      /\ q.log = v.log \cup (IF QuorumDue(v) THEN {<<"quorum">>} ELSE {})
  <2>1. CASE QuorumDue(v)
    <3> DEFINE w == [v EXCEPT !.quorum = TRUE]
    <3>1. q = Did(w, <<"quorum">>)
      BY <2>1 DEF QuorumDue, Quorum
    <3>2. /\ w \in HubState /\ w.reg = v.reg /\ w.cried = v.cried /\ w.log = v.log
          /\ w.asked = v.asked /\ w.expected = v.expected /\ w.activity = v.activity
          /\ w.stalled = v.stalled /\ w.quorum = TRUE
      BY DEF Steady, HubState
    <3> HIDE DEF w, q
    <3>3. QED
      BY <1>1, <2>1, <3>1, <3>2 DEF Did, HubState
  <2>2. CASE ~QuorumDue(v)
    <3>1. q = v
      BY <2>2 DEF QuorumDue, Quorum
    <3>2. QED
      BY <2>2, <3>1 DEF Steady, HubState
  <2>3. QED
    BY <2>1, <2>2
<1> HIDE DEF q
<1>3. StallDue(q) = StallDue(v)
  BY <1>2 DEF StallDue, Agents, Live, Quiet
<1>4. /\ s \in HubState /\ s.reg = q.reg /\ s.cried = q.cried
      /\ s.asked = q.asked /\ s.expected = q.expected /\ s.activity = q.activity
      /\ s.quorum = q.quorum /\ s.stalled = (q.stalled \/ StallDue(q))
      /\ s.log = q.log \cup (IF StallDue(q) THEN {<<"stall">>} ELSE {})
  <2>1. CASE StallDue(q)
    <3> DEFINE w == [q EXCEPT !.stalled = TRUE]
    <3>1. s = Did(w, <<"stall">>)
      BY <2>1 DEF StallDue, Stall
    <3>2. /\ w \in HubState /\ w.reg = q.reg /\ w.cried = q.cried /\ w.log = q.log
          /\ w.asked = q.asked /\ w.expected = q.expected /\ w.activity = q.activity
          /\ w.quorum = q.quorum /\ w.stalled = TRUE
      BY <1>2 DEF HubState
    <3> HIDE DEF w, s
    <3>3. QED
      BY <1>1, <2>1, <3>1, <3>2 DEF Did, HubState
  <2>2. CASE ~StallDue(q)
    <3>1. s = q
      BY <2>2 DEF StallDue, Stall
    <3>2. QED
      BY <1>2, <2>2, <3>1 DEF HubState
  <2>3. QED
    BY <2>1, <2>2
<1> HIDE DEF s
<1>5. /\ f \in HubState /\ f.reg = s.reg /\ f.cried = s.cried
      /\ f.asked = s.asked /\ f.expected = s.expected /\ f.activity = s.activity
      /\ f.quorum = s.quorum /\ f.stalled = s.stalled
      /\ f.log = s.log \cup {<<"tick">>}
  BY <1>1, <1>4 DEF Did, HubState
<1>6. f = Did(Stall(Quorum(v)), <<"tick">>)
  BY DEF q, s
<1> HIDE DEF f
<1>7. /\ f.quorum = (v.quorum \/ QuorumDue(v))
      /\ f.stalled = (v.stalled \/ StallDue(v))
  BY <1>2, <1>3, <1>4, <1>5
<1>8. \A e : e \in f.log <=> \/ e \in v.log \/ e = <<"tick">>
                             \/ e = <<"quorum">> /\ QuorumDue(v)
                             \/ e = <<"stall">> /\ StallDue(v)
  BY <1>2, <1>3, <1>4, <1>5
<1>9. <<"quorum">> \notin v.log /\ <<"stall">> \notin v.log
  OBVIOUS
<1>10. QED
  BY <1>2, <1>4, <1>5, <1>6, <1>7, <1>8, <1>9

\* What the properties say of a step.
QuorumStep ==
  LET waited == past.asked \cap Agents(hub')
  IN  (<<"quorum">> \in hub'.log) <=>
        /\ Ticked /\ ~past.reached /\ past.when # Never
        /\ waited # {} /\ waited \subseteq past'.answered
        /\ Quiet(hub')

StallStep ==
  (<<"stall">> \in hub'.log) <=>
    /\ Ticked /\ Agents(hub') # {} /\ Quiet(hub')
    /\ now > past'.calm + StallAfter /\ ~past.rung

BlockedStep ==
  \A n \in Agent :
    Cried(n) <=>
      /\ Ticked /\ hub'.reg[n].where = "live" /\ hub'.reg[n].state = "blocked"
      /\ now > past.on[n] + BlockedAfter /\ n \notin past.cried

LeftStep ==
  \A n \in Name :
    Ticked /\ <<"left", n>> \in hub'.log /\ hub.reg[n].connected =>
      now > hub.reg[n].rx + DeadAfter + PongTimeout

Step == QuorumStep /\ StallStep /\ BlockedStep /\ LeftStep

LEMMA SilentStep ==
  ASSUME hub'.log = {}
  PROVE  Step
BY DEF Step, QuorumStep, StallStep, BlockedStep, LeftStep, Ticked, Cried

LEMMA TickStep ==
  ASSUME Inv, Tick
  PROVE  Inv' /\ Step
<1> DEFINE h == Expired(Now)
           v == VisitAll(h)
           f == Did(Stall(Quorum(v)), <<"tick">>)
<1>1. /\ Proper(h) /\ \A n \in Agent : Aged(h, n)
      /\ \A e \in h.log : e[1] = "expired"
      /\ h.asked = hub.asked /\ h.expected = hub.expected /\ h.quorum = hub.quorum
      /\ \A n \in Name :
           /\ h.reg[n] = IF <<"expired", n>> \in h.log THEN NoReg ELSE hub.reg[n]
           /\ <<"expired", n>> \in h.log => hub.reg[n].where = "dead"
  BY ExpiredDoes
<1>2. Becomes(f)
  BY DEF Tick, WatchdogTick
<1> HIDE DEF h
<1>3. /\ Proper(v) /\ Votes(h, v)
      /\ \A e \in v.log : e[1] \notin {"say", "quorum", "stall", "tick"}
      /\ \A n \in Agent : <<"blocked", n>> \in v.log <=> CryDue(v, n)
      /\ \A n \in Name : <<"left", n>> \in v.log /\ h.reg[n].connected =>
                           h.reg[n].awaiting /\ now > h.reg[n].deadline
  BY <1>1, VisitAllDoes
<1> HIDE DEF v
<1>4. /\ f \in HubState /\ f.reg = v.reg /\ f.cried = v.cried
      /\ f.asked = v.asked /\ f.expected = v.expected /\ f.activity = v.activity
      /\ f.quorum = (v.quorum \/ QuorumDue(v))
      /\ f.stalled = (v.stalled \/ StallDue(v))
      /\ <<"tick">> \in f.log
      /\ <<"quorum">> \in f.log <=> QuorumDue(v)
      /\ <<"stall">> \in f.log <=> StallDue(v)
      /\ \A e : e \in f.log <=> \/ e \in v.log \/ e = <<"tick">>
                                \/ e = <<"quorum">> /\ QuorumDue(v)
                                \/ e = <<"stall">> /\ StallDue(v)
  <2>1. \A e \in v.log : e[1] \notin {"quorum", "stall", "tick"}
    BY <1>3
  <2>2. QED
    BY <1>3, <2>1, SignalsDo DEF Proper
<1> HIDE DEF f
<1>5. \A e : e[1] \notin {"quorum", "stall", "tick"} => (e \in f.log <=> e \in v.log)
  BY <1>4
<1>6. Stirred(f) <=> Stirred(v)
  BY <1>4 DEF Stirred, Activity
<1>7. Settled(f)
  <2>1. \A n \in Agent : Lasting(f, n)
    <3> TAKE n \in Agent
    <3>1. Lasting(v, n)
      BY <1>3 DEF Proper, Steady
    <3>2. <<"blocked", n>> \in f.log <=> <<"blocked", n>> \in v.log
      BY <1>5
    <3>3. QED
      BY <1>4, <3>1, <3>2 DEF Lasting
  <2>2. Steady(f)
    BY <1>3, <1>4, <2>1 DEF Proper, Steady
  <2>3. QED
    BY <1>3, <1>4, <1>6, <2>2 DEF Settled, Proper, Calm
<1>8. Polled(Recall(f), f)
  <2>1. f.asked = hub.asked /\ f.expected = hub.expected
    BY <1>1, <1>3, <1>4 DEF Votes
  <2>2. f.quorum = (hub.quorum \/ <<"quorum">> \in f.log)
    BY <1>1, <1>3, <1>4 DEF Votes
  <2>3. \A e \in f.log : e[1] # "say"
    BY <1>3, <1>4
  <2>4. \A n \in Name : f.reg[n].say = (IF <<"expired", n>> \in f.log THEN Never
                                        ELSE hub.reg[n].say)
    <3> TAKE n \in Name
    <3>1. <<"expired", n>> \in f.log <=> <<"expired", n>> \in h.log
      BY <1>3, <1>5 DEF Votes
    <3>2. f.reg[n].say = h.reg[n].say
      BY <1>3, <1>4 DEF Votes
    <3>3. NoReg.say = Never
      BY DEF NoReg
    <3>4. QED
      BY <1>1, <3>1, <3>2, <3>3
  <2>5. QED
    BY <1>4, <2>1, <2>2, <2>3, <2>4, PolledUnasked
<1>9. Inv'
  BY <1>2, <1>7, <1>8, BecomesInv
<1>10. /\ hub'.reg = f.reg /\ past' = Recall(f) /\ now' = now
       /\ hub'.log = {e \in f.log : <<"tick">> \in f.log /\ Kept(e)}
  BY <1>2, <1>4 DEF Becomes, HubState
<1>11. /\ Ticked
       /\ <<"quorum">> \in hub'.log <=> QuorumDue(v)
       /\ <<"stall">> \in hub'.log <=> StallDue(v)
       /\ \A n : <<"blocked", n>> \in hub'.log <=> <<"blocked", n>> \in v.log
       /\ \A n : <<"left", n>> \in hub'.log <=> <<"left", n>> \in v.log
  BY <1>4, <1>5, <1>10 DEF Ticked, Kept
<1>12. Agents(hub') = Agents(v) /\ Quiet(hub') = Quiet(v) /\ Agents(v) \subseteq Agent
  BY <1>4, <1>10 DEF Agents, Live, Quiet
<1>13. QuorumStep
  <2>1. /\ past.asked = v.expected /\ past.when = v.asked /\ past.reached = v.quorum
    BY <1>1, <1>3 DEF Inv, Polled, Votes
  <2>2. past'.answered = {n \in Agent : v.reg[n].say > v.asked}
    BY <1>4, <1>8, <1>10 DEF Polled
  <2>3. QED
    BY <1>11, <1>12, <2>1, <2>2 DEF QuorumStep, QuorumDue
<1>14. StallStep
  <2>1. Hushed(Recall(f), f)
    BY <1>7, RecallHushed
  <2>2. past'.calm = v.activity
    BY <1>4, <1>10, <2>1 DEF Hushed
  <2>3. past.rung \in BOOLEAN /\ now \in Nat /\ StallAfter \in Nat
    BY WatchdogAssumption DEF Inv, Memory
  <2>4. v.stalled = (past.rung /\ ~Stirred(v)) /\ (Stirred(v) => v.activity = now)
    BY <1>3 DEF Proper, Calm
  <2>5. Lapsed(v.activity, StallAfter) => ~Stirred(v)
    BY <2>3, <2>4 DEF Lapsed
  <2>6. QED
    BY <1>11, <1>12, <2>2, <2>3, <2>4, <2>5 DEF StallStep, StallDue, Lapsed
<1>15. BlockedStep
  <2> SUFFICES ASSUME NEW n \in Agent
               PROVE  Cried(n) <=>
                        /\ Ticked /\ hub'.reg[n].where = "live" /\ hub'.reg[n].state = "blocked"
                        /\ now > past.on[n] + BlockedAfter /\ n \notin past.cried
    BY DEF BlockedStep
  <2>1. <<"blocked", n>> \in hub'.log <=> CryDue(v, n)
    BY <1>3, <1>11
  <2>2. QED
    BY <1>4, <1>10, <1>11, <2>1 DEF Cried, CryDue, Blocked
<1>16. LeftStep
  <2> SUFFICES ASSUME NEW n \in Name, <<"left", n>> \in hub'.log, hub.reg[n].connected
               PROVE  now > hub.reg[n].rx + DeadAfter + PongTimeout
    BY DEF LeftStep
  <2>1. hub.reg[n] \in Entry /\ Sane(n, hub.reg[n])
    BY DEF Inv, HubState
  <2>2. hub.reg[n].where = "live"
    BY <2>1 DEF Sane
  <2>3. h.reg[n] = hub.reg[n]
    BY <1>1, <2>2
  <2>4. hub.reg[n].awaiting /\ now > hub.reg[n].deadline
    BY <1>3, <1>11, <2>3
  <2>5. /\ hub.reg[n].deadline \in Nat /\ hub.reg[n].rx \in Nat /\ now \in Nat
        /\ DeadAfter \in Nat /\ PongTimeout \in Nat
    BY <2>1, WatchdogAssumption DEF Inv, Entry, Time
  <2>6. QED
    BY <2>1, <2>4, <2>5 DEF Sane
<1>17. QED
  BY <1>9, <1>13, <1>14, <1>15, <1>16 DEF Step

\* An instant passes; those who are never silent are heard in it.
LEMMA PassInv ==
  ASSUME Inv, Pass
  PROVE  Inv' /\ hub'.log = {}
<1> DEFINE reg == [n \in Name |->
                     IF Known(n) /\ n \notin Silent THEN [hub.reg[n] EXCEPT !.rx = now + 1]
                     ELSE hub.reg[n]]
<1>1. /\ hub' = [Now EXCEPT !.reg = reg] /\ past' = past /\ now' = now + 1
      /\ now' \in 1 .. MaxNow /\ now \in Nat \ {0}
  BY WatchdogAssumption DEF Pass, Inv
<1>2. Now \in HubState /\ Now = [hub EXCEPT !.log = {}] /\ hub \in HubState
  BY NowProper DEF Now, Inv, Proper, Steady
<1>3. /\ hub'.reg = reg /\ hub'.log = {} /\ hub'.cried = hub.cried
      /\ hub'.asked = hub.asked /\ hub'.expected = hub.expected /\ hub'.quorum = hub.quorum
      /\ hub'.activity = hub.activity /\ hub'.stalled = hub.stalled
      /\ hub' = [reg |-> reg, asked |-> hub.asked, expected |-> hub.expected,
                 quorum |-> hub.quorum, activity |-> hub.activity,
                 stalled |-> hub.stalled, cried |-> hub.cried, log |-> {}]
  BY <1>1, <1>2 DEF HubState
<1>4. Time \subseteq Time' /\ now + 1 \in Time' /\ now' > now
  BY <1>1 DEF Time
<1>5. \A n \in Name :
        LET p == reg[n]
            r == hub.reg[n]
        IN  /\ p \in Entry' /\ p.say = r.say /\ p.where = r.where /\ p.state = r.state
            /\ p.blocked = r.blocked /\ p.detail = r.detail /\ p.connected = r.connected
            /\ p.awaiting = r.awaiting /\ p.deadline = r.deadline
            /\ p.connected /\ n \notin Silent => p.rx = now' /\ ~p.awaiting
            /\ p.connected /\ n \in Silent => p.rx = r.rx
  <2> TAKE n \in Name
  <2> DEFINE r == hub.reg[n]
             x == [r EXCEPT !.rx = now + 1]
  <2>1. r \in Entry /\ Sane(n, r)
    BY DEF Inv, HubState
  <2>2. r \in Entry'
    BY <1>4, <2>1 DEF Entry
  <2>3. CASE Known(n) /\ n \notin Silent
    <3>1. reg[n] = x
      BY <2>3
    <3>2. /\ x \in Entry' /\ x.rx = now + 1 /\ x.say = r.say /\ x.where = r.where
          /\ x.state = r.state /\ x.blocked = r.blocked /\ x.detail = r.detail
          /\ x.connected = r.connected /\ x.awaiting = r.awaiting
          /\ x.deadline = r.deadline
      BY <1>4, <2>2 DEF Entry
    <3> HIDE DEF x
    <3>3. ~r.awaiting
      BY <2>1, <2>3 DEF Known, Sane
    <3>4. QED
      BY <1>1, <2>3, <3>1, <3>2, <3>3
  <2>4. CASE ~(Known(n) /\ n \notin Silent)
    <3>1. reg[n] = r
      BY <2>4
    <3>2. ~(r.connected /\ n \notin Silent)
      BY <2>1, <2>4 DEF Known, Sane
    <3>3. QED
      BY <2>2, <3>1, <3>2
  <2>5. QED
    BY <2>3, <2>4
<1> HIDE DEF reg
<1>6. reg \in [Name -> Entry']
  BY <1>5 DEF reg
<1>7. hub' \in HubState'
  BY <1>2, <1>3, <1>4, <1>6 DEF HubState
<1>8. past' \in Memory'
  BY <1>1, <1>4 DEF Inv, Memory
<1>9. (\A n \in Name : Sane(n, hub.reg[n]))'
  <2>1. \A n \in Name : Sane(n, hub.reg[n])
    BY DEF Inv
  <2>2. QED
    BY <1>3, <1>5, <2>1 DEF Sane
<1>10. Polled(past, hub)' /\ Hushed(past, hub)'
  BY <1>1, <1>3, <1>5 DEF Inv, Polled, Hushed, Name
<1>11. Followed(past, hub)'
  <2> SUFFICES ASSUME NEW n \in Agent
               PROVE  LET p == hub'.reg[n]
                      IN  /\ past'.on[n] = (IF Blocked(p) THEN p.blocked ELSE Never)
                          /\ past'.what[n] = p.detail
                          /\ n \in past'.cried <=> Blocked(p) /\ n \in hub'.cried
                          /\ n \in past'.cried => now' > past'.on[n] + BlockedAfter
    BY DEF Followed
  <2>1. n \in Name /\ past.on[n] \in Nat /\ BlockedAfter \in Nat
    BY WatchdogAssumption DEF Inv, Memory, Time, Name
  <2>2. hub'.reg[n].blocked = hub.reg[n].blocked /\ hub'.reg[n].detail = hub.reg[n].detail
        /\ Blocked(hub'.reg[n]) = Blocked(hub.reg[n])
    BY <1>3, <1>5, <2>1 DEF Blocked
  <2>3. QED
    BY <1>1, <1>3, <2>1, <2>2 DEF Inv, Followed
<1>12. QED
  BY <1>1, <1>3, <1>7, <1>8, <1>9, <1>10, <1>11 DEF Inv

LEMMA InitInv ==
  ASSUME Init
  PROVE  Inv
<1>1. now = 1 /\ 1 \in 1 .. MaxNow /\ Time = {0, 1}
  BY WatchdogAssumption DEF Init, Time
<1>2. NoReg \in Entry /\ ~Blocked(NoReg)
  BY <1>1, WatchdogAssumption DEF NoReg, Entry, Blocked, Never
<1>3. hub \in HubState /\ hub.reg = [n \in Name |-> NoReg]
  BY <1>1, <1>2 DEF Init, HubState, Never
<1>4. past \in Memory
  BY <1>1 DEF Init, Memory, Never
<1>5. \A n \in Name : Sane(n, hub.reg[n])
  BY <1>3 DEF NoReg, Sane
<1>6. Hushed(past, hub)
  BY DEF Init, Hushed
<1>7. Polled(past, hub)
  <2>1. hub.asked = Never /\ NoReg.say = Never /\ ~(Never > Never)
    BY DEF Init, NoReg, Never
  <2>2. \A n \in Agent : hub.reg[n] = NoReg
    BY <1>3 DEF Name
  <2>3. \A n \in Agent : hub.reg[n].say = Never
    BY <2>1, <2>2
  <2> DEFINE answered == {n \in Agent : hub.reg[n].say > hub.asked}
  <2>4. answered = {}
    BY <2>1, <2>3
  <2> HIDE DEF answered
  <2>5. past.answered = answered
    BY <2>4 DEF Init
  <2>6. /\ past.asked = hub.expected /\ past.when = hub.asked
        /\ past.reached = hub.quorum
    BY DEF Init
  <2>7. QED
    BY <2>5, <2>6 DEF Polled, answered
<1>8. Followed(past, hub)
  <2>1. \A n \in Agent : hub.reg[n] = NoReg
    BY <1>3 DEF Name
  <2>2. NoReg.detail = NoDetail
    BY DEF NoReg
  <2>3. QED
    BY <1>2, <2>1, <2>2 DEF Init, Followed
<1>9. QED
  BY <1>1, <1>3, <1>4, <1>5, <1>6, <1>7, <1>8 DEF Inv

LEMMA NextStep ==
  ASSUME Inv, [Next]_vars
  PROVE  Inv' /\ [Step]_vars
<1>1. ASSUME NEW n \in Name, Hello(n) \/ Pong(n) \/ Cmd(n) \/ Fails(n) \/ Leaves(n)
      PROVE  Inv' /\ Step
  BY <1>1, HelloInv, PongInv, CmdInv, FailsInv, LeavesInv, SilentStep
<1>2. ASSUME NEW s \in Says, Say(s) PROVE Inv' /\ Step
  BY <1>2, SayInv, SilentStep
<1>3. ASSUME NEW r \in Reports, Report(r) PROVE Inv' /\ Step
  BY <1>3, ReportInv, SilentStep
<1>4. CASE Tick
  BY <1>4, TickStep
<1>5. CASE Pass
  BY <1>5, PassInv, SilentStep
<1>6. CASE UNCHANGED vars
  <2>1. Inv'
    BY <1>6 DEF vars, Inv, HubState, Memory, Entry, Time, Event, Sane, Polled, Hushed,
                Followed, Blocked
  <2>2. QED
    BY <1>6, <2>1
<1>7. QED
  BY <1>1, <1>2, <1>3, <1>4, <1>5, <1>6 DEF Next

\* The invariant holds, and says what the type invariant says.
LEMMA InvTypes ==
  ASSUME Inv
  PROVE  WatchdogTypeOK
<1>1. now \in Stamp /\ Time \subseteq Stamp
  BY WatchdogAssumption DEF Inv, Stamp, Time
<1>2. Entry \subseteq Reg
  BY <1>1 DEF Entry, Reg
<1>3. hub \in HubState
  BY DEF Inv
<1>4. /\ hub.reg \in [Name -> Reg] /\ hub.asked \in Stamp /\ hub.expected \subseteq Agent
      /\ hub.cried \subseteq Agent /\ hub.activity \in Stamp
      /\ hub.quorum \in BOOLEAN /\ hub.stalled \in BOOLEAN
  BY <1>1, <1>2, <1>3 DEF HubState
<1>5. \A n \in Live(hub) :
        LET p == hub.reg[n]
        IN  /\ (p.state = "blocked") <=> (p.blocked # Never)
            /\ (p.state = "blocked") <=> (p.detail # NoDetail)
  BY DEF Inv, Sane, Live
<1>6. QED
  BY <1>1, <1>4, <1>5 DEF WatchdogTypeOK

\* The stamps and latches of the hub are what a listener recalls
\* (Hub.watchdog_tick and every handler that writes what it reads).
THEOREM WatchdogInvariance == Spec => []Inv
<1>1. Init => Inv
  BY InitInv
<1>2. Inv /\ [Next]_vars => Inv'
  BY NextStep
<1>3. QED
  BY <1>1, <1>2, PTL DEF Spec

\* The three signals to observers, for any peers and timeouts: quorum, stall
\* and blocked fire at a tick that finds them due, at no other moment, and once
\* (Hub.watchdog_tick).
THEOREM SignalsWhenDueAlways == Spec => SignalsWhenDue
<1>1. Inv /\ [Next]_vars => [QuorumStep]_vars /\ [StallStep]_vars /\ [BlockedStep]_vars
  BY NextStep DEF Step
<1>2. Inv => WatchdogTypeOK
  BY InvTypes
<1>3. QED
  BY <1>1, <1>2, WatchdogInvariance, PTL
     DEF Spec, SignalsWhenDue, QuorumWhenAnswered, StallOncePerCalm, BlockedOncePerEpisode,
         QuorumStep, StallStep, BlockedStep

\* A peer whose connection is up is given up only after it has been silent for
\* longer than dead_after and pong_timeout together (Hub.watchdog_tick).
THEOREM OnlyTheSilentAreDroppedAlways == Spec => OnlyTheSilentAreDropped
<1>1. Inv /\ [Next]_vars => [LeftStep]_vars
  BY NextStep DEF Step
<1>2. QED
  BY <1>1, WatchdogInvariance, PTL DEF Spec, OnlyTheSilentAreDropped, LeftStep

=============================================================================
