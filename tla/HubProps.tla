------------------------------ MODULE HubProps ------------------------------
(***************************************************************************)
(* What the hub promises, over the model of module Hub.  Predicates of a   *)
(* state take the state h, so that the proofs can apply them to the        *)
(* intermediate states of a handler.                                       *)
(***************************************************************************)
EXTENDS Hub

Reg   == [where : {"none", "live", "dead"}, kind : Kinds, capable : BOOLEAN,
          client : Conn \cup {NoConn}, state : States, queue : Seq(Msg),
          dropped : Nat, context : Seq(Msg), evicted : Nat,
          finished : BOOLEAN, awaiting : BOOLEAN]
Link  == [phase : {"free", "reading", "ending"}, connected : BOOLEAN,
          name : Name \cup {NoName}, out : Nat]
Sinks == Conn \cup {Transcript}
Events == {"rejected", "peer_joined", "peer_left", "round_limit", "session_done",
           "frozen", "resumed", "reset", "muted", "unmuted", "goal_set", "stall"}
Delivery == [sink : Sinks, t : {"deliver"}, name : Name, round : Nat, msgs : SUBSET Msg]
Event    == [sink : Sinks, t : {"event"}, event : Events, name : Name \cup {NoName}]
Answer   == [sink : Conn, t : {"ok", "err"}, re : Conn]
Signal   == [sink : Conn, t : {"welcome", "roster", "ping"}]
Routed   == [sink : {Transcript}, t : {"msg"}, id : Nat, from : Name, done : BOOLEAN]
Frame    == Delivery \cup Event \cup Answer \cup Signal \cup Routed
HubState == [reg : [Name -> Reg], conn : [Conn -> Link], round : Nat,
             frozen : BOOLEAN, muted : BOOLEAN, limit : Nat \ {0}, counter : Nat,
             recent : Seq(Record), sent : SUBSET Frame]

\* The state of the hub is well typed and no bounded container is over its
\* cap (queue_cap, context_cap, recent_window, outbound_queue_max).
TypeOK ==
  /\ hub \in HubState
  /\ \A n \in Name : /\ Len(hub.reg[n].queue) <= QueueCap
                     /\ Len(hub.reg[n].context) <= ContextCap
  /\ \A c \in Conn : hub.conn[c].out <= OutboundMax
  /\ Len(hub.recent) <= RecentWindow

-----------------------------------------------------------------------------
(* The registry.                                                           *)

\* docs/ARCHITECTURE.md, "One name, one connection": a connection that is up
\* and has been given a name holds the live registration of that name, through
\* reclaims, reaps by a later hello or by the watchdog, and the late finally of
\* a read loop whose name has gone to somebody else (Hub.disconnect).
Exclusive(h) ==
  \A c \in Conn : h.conn[c].connected /\ h.conn[c].name # NoName
    => /\ h.conn[c].name \in Live(h)
       /\ h.reg[h.conn[c].name].client = c
OneNameOneConnection == Exclusive(hub)

-----------------------------------------------------------------------------
(* Floor control.                                                          *)

\* An idle agent that can be reached never has a wake waiting: every way to
\* become idle (state report, inferred idle, reclaim) flushes the queue, and
\* routing queues only for agents that are not idle.
IdleDrained(h) ==
  \A n \in Agents(h) :
    h.reg[n].state = "idle" /\ Reachable(h, n) => h.reg[n].queue = << >>
IdleMeansDrained == IdleDrained(hub)

Ascending(seq) == \A i, j \in DOMAIN seq : i < j => seq[i].id < seq[j].id
Waiting(box)   == Items(box.queue, Len(box.queue)) \cup Items(box.context, Len(box.context))
Cited(box)     == {m \in Waiting(box) : m.id > 0}

\* Messages wait in the order of their ids, wakes and context apart, none is
\* in both, and whatever an agent is given is older than all it is not given
\* yet (the two buffers are drained to one bound, Hub._flush_queue).
Orderly(h) ==
  /\ \A n \in Name :
       LET box == h.reg[n]
       IN  /\ Ascending(box.queue)
           /\ \A i, j \in DOMAIN box.context :
                i < j /\ box.context[j].id > 0 => box.context[i].id < box.context[j].id
           /\ \A i \in DOMAIN box.queue, j \in DOMAIN box.context :
                box.queue[i].id # box.context[j].id
           /\ \A m \in Waiting(box) : m.id <= h.counter
  /\ \A f \in h.sent : f.t = "deliver" /\ f.name \in Agents(h) =>
       \A m \in f.msgs, w \in Cited(h.reg[f.name]) : m.id < w.id

\* docs/PROTOCOL.md, private says: a private message is held for and handed to
\* its addressee and the observers only, also as late-join backlog, from a
\* queue that outlived its connection, and after a restart from the transcript.
Discreet(h) ==
  /\ \A n \in Name : \A m \in Waiting(h.reg[n]) : m.private => m.to = n
  /\ \A f \in h.sent : f.t = "deliver" /\ f.name \in Agents(h)
       => \A m \in f.msgs : m.private => m.to = f.name
PrivateStaysPrivate == Discreet(hub)

\* Ids in the transcript ascend, across restarts (Hub.__init__ reseeds the
\* counter), and the counter is never behind them.
Chronicled(h) ==
  /\ Ascending(h.recent)
  /\ \A i \in DOMAIN h.recent : h.recent[i].id <= h.counter

\* Nobody is given a message before an older one that waits for him, also after
\* a restart, since the ids go on from where the transcript ends.
OldestFirst == Orderly(hub) /\ Chronicled(hub)

-----------------------------------------------------------------------------
(* Rounds, the freeze and the end of a session.                            *)

\* The round counter never stays at its limit with the floor open: every
\* increment is followed by _check_round_limit, and resume raises the limit
\* above the counter before it thaws.
LimitFrozen(h) == h.round >= h.limit => h.frozen
LimitFreezes == LimitFrozen(hub)

\* The end of a session is never missed: no reachable state has every live
\* agent finished and every queue drained, since each step that can bring
\* this about (a done say, a flush, a disconnect) checks for it.
SessionDoneNotMissed == ~SessionOver(hub)

\* docs/PROTOCOL.md, "Rounds": a say that wakes agents costs one round, however
\* many it wakes; a flush with a wake of a participant costs one; deliveries to
\* observers and system notes cost none.  The counter moves in no other way,
\* but for the return to 0 (a
\* hello that reaps the dead holder may end a session and then flush).
RoundStep ==
  LET woke(n, new) == \E f \in hub'.sent :
        /\ f.t = "deliver" /\ f.sink = Transcript /\ f.name = n
        /\ \E m \in f.msgs : /\ m.from # System /\ m.adr # "overheard"
                             /\ new <=> m.id > hub.counter
      flushed == {n \in Agents(hub') : woke(n, FALSE)}
      said    == IF \E n \in Agents(hub') : woke(n, TRUE) THEN 1 ELSE 0
      ended   == \E f \in hub'.sent : f.t = "event" /\ f.event = "session_done"
      cost    == said + Cardinality(flushed)
  IN  hub'.round \in {0, hub.round + cost} \cup (IF ended THEN {cost} ELSE {})
RoundsCountWakes == [][RoundStep]_vars

-----------------------------------------------------------------------------
(* Nothing is lost in silence.                                             *)

Ids(seq) == {seq[i].id : i \in DOMAIN seq} \ {0}

Kept(n) == hub'.reg[n].where # "none" /\ hub' # Boot(hub.recent)

Handed(n) == {f \in hub'.sent : f.t = "deliver" /\ f.sink = Transcript /\ f.name = n}

GivenIds(n) == UNION {{m.id : m \in f.msgs} : f \in Handed(n)}

Announced(n, count, adr) ==
  \E f \in Handed(n) : \E m \in f.msgs : m.id = 0 /\ m.count = count /\ m.adr = adr

\* A wake or a context line that leaves the mailbox of an agent, alive or
\* dead, is handed over or counted as evicted, and the count is handed over
\* before it is cleared (Hub._enqueue, ContextBuffer.append and .drain).
NothingLostInSilence ==
  [][\A n \in Name : Kept(n) =>
       LET was == hub.reg[n]
           is  == hub'.reg[n]
           lost(field) == Cardinality((Ids(was[field]) \ Ids(is[field])) \ GivenIds(n))
       IN  /\ \/ was.dropped + lost("queue") <= is.dropped
              \/ lost("queue") = 0 /\ Announced(n, was.dropped, "direct")
           /\ \/ was.evicted + lost("context") <= is.evicted
              \/ lost("context") = 0 /\ Announced(n, was.evicted, "overheard")]_vars

\* Every observer that can be reached is given every accepted say but its own.
ObserversSeeAll ==
  [][\A r \in hub'.sent, n \in Observers(hub) :
       r.t = "msg" /\ r.from # n /\ Reachable(hub, n) =>
         \E f \in Handed(n) : \E m \in f.msgs : m.id = r.id]_vars

-----------------------------------------------------------------------------
(* What must happen.                                                       *)

\* A registration whose connection is gone does not linger: the watchdog gives
\* it up even if the read loop never gets to (hub.py, watchdog_tick).
GoneIsReaped ==
  \A n \in Name :
    (n \in Live(hub) /\ ~Reachable(hub, n)) ~> (n \notin Live(hub) \/ Reachable(hub, n))

\* A wake queued for an agent that cannot report idle is handed over, or the
\* agent is gone: no wait on the agent, on the freeze or on another message.
QueuedIsHandedOver ==
  \A n \in Name :
    (n \in Agents(hub) /\ ~hub.reg[n].capable /\ hub.reg[n].queue # << >>)
      ~> (n \notin Agents(hub) \/ hub.reg[n].capable \/ hub.reg[n].queue = << >>)

=============================================================================
