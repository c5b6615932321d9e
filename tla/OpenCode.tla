------------------------------ MODULE OpenCode ------------------------------
(***************************************************************************)
(* The OpenCode spoke (opencode/lib.ts, the Connection, and                *)
(* opencode/moot.ts, the plugin): one event loop, so a handler is one      *)
(* action with the promise callbacks that run behind it, up to the next    *)
(* await on something outside of the loop (moot brief, session.prompt).    *)
(*                                                                         *)
(* External are the hub at the other end of the socket and OpenCode: its   *)
(* sessions, their turns and the events it tells the plugin of, in the     *)
(* order docs/MANUAL-TEST.md states (created, status busy, idle; a prompt  *)
(* is picked up at the next turn boundary and returns with the reply).     *)
(*                                                                         *)
(* What is read to the model (a deliver, however many messages it has, or  *)
(* a notice of the plugin's own) is a text, numbered as it arrives.        *)
(* Pings and their pongs, which change nothing here, are left out.         *)
(*                                                                         *)
(* A definition whose name starts with Slip is a mistake one could make in *)
(* the definition that follows it; nothing uses it.                        *)
(***************************************************************************)
EXTENDS Naturals, Sequences, FiniteSets, SequencesExt

CONSTANTS
  TopLevel, Child,   \* sessions that a person leads; those of subagent tasks
  NoSession,
  HeldCap,           \* HELD_CAP
  Fails,             \* whether OpenCode may refuse a prompt
  Chokes             \* whether the hub may send a frame that cannot be read
CONSTANTS MaxMsg, MaxOutage, MaxSay, MaxTurn   \* bounds of the model

Session == TopLevel \cup Child

ASSUME PluginAssumption ==
  /\ TopLevel \cap Child = {} /\ NoSession \notin Session
  /\ Fails \in BOOLEAN /\ Chokes \in BOOLEAN
  /\ HeldCap \in Nat \ {0} /\ {MaxMsg, MaxOutage, MaxSay, MaxTurn} \subseteq Nat

VARIABLES
  conn,    \* Connection: sock, stopped, retry (the timer is set), seq, pending
  seat,    \* the plugin: active, reported, briefed, children, held, dropped,
           \* notified, chain (texts behind the one under way), and of that
           \* one run: pc, text, id, brief
  hub,     \* of the name: up, known, holder, state, heard (last state report
           \* read), queue, said; outages counts what ended a connection
  wire,    \* the current socket: open (the hub's side), toHub, toSpoke
  host,    \* OpenCode: turn of each session, turns a person has begun
  past     \* history: got (texts arrived), read (prompts posted), held (texts
           \* that once waited for a session), told (drops announced), failed,
           \* moved (the seat went from one session to another)

vars == <<conn, seat, hub, wire, host, past>>

NoSocket == [open |-> FALSE, toHub |-> << >>, toSpoke |-> << >>]
Free     == [pc |-> "free", text |-> 0, id |-> NoSession, brief |-> FALSE]

Outage == hub.outages < MaxOutage     \* bound of the model

-----------------------------------------------------------------------------
(* Texts on their way to a session.  s is the seat together with its past. *)

Now == [seat |-> seat, past |-> past]
Becomes(s) == seat' = s.seat /\ past' = s.past

Post(s) ==       \* client.session.prompt
  [s EXCEPT !.seat.run.pc = "posted",
            !.past.read = Append(@, [text |-> s.seat.run.text, id |-> s.seat.run.id,
                                     brief |-> s.seat.run.brief])]

SlipHold(s, texts) ==
  LET all == s.seat.held \o texts
  IN  [s EXCEPT !.seat.held = IF Len(all) > HeldCap THEN SubSeq(all, 1, HeldCap) ELSE all,
                !.past.held = @ \cup ToSet(texts)]

Hold(s, texts) ==
  LET all  == s.seat.held \o texts
      over == IF Len(all) > HeldCap THEN Len(all) - HeldCap ELSE 0
  IN  [s EXCEPT !.seat.held = SubSeq(all, over + 1, Len(all)),
                !.seat.dropped = @ + over, !.past.held = @ \cup ToSet(texts)]

SlipFresh(s) == s.seat.briefed = {}
Fresh(s) == s.seat.active \notin s.seat.briefed

\* inject: the chain moves when no text is under way.
Advance(s) ==
  IF s.seat.run.pc # "free" \/ s.seat.chain = << >> THEN s
  ELSE IF s.seat.active = NoSession
  THEN Hold([s EXCEPT !.seat.chain = << >>], s.seat.chain)
  ELSE LET r == [s EXCEPT !.seat.chain = Tail(@),
                          !.seat.briefed = @ \cup {s.seat.active},
                          !.seat.run = [pc |-> "briefing", text |-> Head(s.seat.chain),
                                        id |-> s.seat.active, brief |-> Fresh(s)]]
       IN  IF Fresh(s) THEN r ELSE Post(r)

SlipInjectSoon(s, texts) == Advance([s EXCEPT !.seat.chain = texts \o @])
InjectSoon(s, texts) == Advance([s EXCEPT !.seat.chain = @ \o texts])

Arrives(s) ==    \* a text of its own
  InjectSoon([s EXCEPT !.past.got = @ + 1], <<s.past.got + 1>>)

BriefReturns ==  \* or fails: the built-in notice takes its place
  /\ seat.run.pc = "briefing"
  /\ Becomes(Post(Now))
  /\ UNCHANGED <<conn, hub, wire, host>>

Returned(s) == Advance([s EXCEPT !.seat.run = Free])

PromptReturns ==
  /\ seat.run.pc = "answered"
  /\ Becomes(Returned(Now))
  /\ UNCHANGED <<conn, hub, wire, host>>

PromptFails ==
  /\ Fails /\ seat.run.pc = "posted"
  /\ Becomes(Returned([Now EXCEPT !.past.failed = TRUE]))
  /\ UNCHANGED <<conn, hub, wire, host>>

-----------------------------------------------------------------------------
(* The Connection.                                                         *)

Live == conn.sock \in {"hello", "welcomed"}

\* send: dropped before the welcome; what is written to a closed socket is lost.
Sent(w, f) ==
  IF conn.sock = "welcomed" /\ w.open THEN [w EXCEPT !.toHub = Append(@, f)] ELSE w
Stated(w, st) == Sent(w, [t |-> "state", is |-> st])

Open ==          \* the retry timer, or start
  /\ conn.retry /\ ~conn.stopped
  /\ conn' = [conn EXCEPT !.retry = FALSE, !.sock = "opening"]
  /\ UNCHANGED <<seat, hub, wire, host, past>>

\* failPending answers what waits; the hub does not know yet of a socket that
\* is destroyed here.
SlipFailPending(c) == c
FailPending(c) == [c EXCEPT !.pending = {}]

Lost == /\ wire' = NoSocket
        /\ hub' = IF wire.open /\ hub.holder = "ours" THEN [hub EXCEPT !.holder = "ghost"]
                  ELSE hub

SlipSchedule == Live
Schedule == ~conn.stopped

Down ==
  /\ conn' = [FailPending(conn) EXCEPT !.sock = "none", !.retry = Schedule]
  /\ Becomes(IF Live /\ ~seat.notified
             THEN Arrives([Now EXCEPT !.seat.notified = TRUE]) ELSE Now)
  /\ Lost

Stop == /\ conn' = [FailPending(conn) EXCEPT !.sock = "none", !.retry = FALSE,
                                                 !.stopped = TRUE]
        /\ Lost
        /\ UNCHANGED <<seat, past>>

Connect ==       \* the hello goes out, or nobody listens
  /\ conn.sock = "opening"
  /\ IF hub.up
     THEN /\ conn' = [conn EXCEPT !.sock = "hello"]
          /\ wire' = [open |-> TRUE, toHub |-> <<[t |-> "hello"]>>, toSpoke |-> << >>]
          /\ UNCHANGED <<seat, hub, past>>
     ELSE Down
  /\ UNCHANGED host

SocketEnds ==    \* error or close: what was not read is lost with an error
  /\ Live /\ ~wire.open
  /\ Down /\ UNCHANGED host

Rest(w) == [w EXCEPT !.toSpoke = Tail(@)]

SlipRestated(w) == w
Restated(w) ==
  IF seat.reported = "none" \/ ~w.open THEN w
  ELSE [w EXCEPT !.toHub = Append(@, [t |-> "state", is |-> seat.reported])]

OnWelcome ==
  /\ conn' = [conn EXCEPT !.sock = "welcomed"]
  /\ Becomes(IF seat.notified THEN Arrives([Now EXCEPT !.seat.notified = FALSE]) ELSE Now)
  /\ wire' = Restated(Rest(wire))
  /\ UNCHANGED hub

OnReply(f) ==    \* an ok that nobody waits for renders to nothing
  /\ conn' = [conn EXCEPT !.pending = @ \ {f.seq}]
  /\ wire' = Rest(wire)
  /\ UNCHANGED <<seat, hub, past>>

OnFrame == Becomes(Arrives(Now)) /\ wire' = Rest(wire) /\ UNCHANGED <<conn, hub>>

Dispatch ==
  /\ Live /\ wire.toSpoke # << >>
  /\ LET f == Head(wire.toSpoke)
     IN  \/ f.t = "welcome" /\ OnWelcome
         \/ f.t = "err" /\ Stop
         \/ f.t = "ok" /\ OnReply(f)
         \/ f.t = "deliver" /\ OnFrame
         \/ f.t = "odd" /\ Down
  /\ UNCHANGED host

Say ==           \* an answer of its own when it cannot be sent
  /\ conn.seq < MaxSay
  /\ conn' = [conn EXCEPT !.seq = @ + 1,
                          !.pending = IF conn.sock = "welcomed" THEN @ \cup {conn.seq + 1}
                                      ELSE @]
  /\ wire' = Sent(wire, [t |-> "say", seq |-> conn.seq + 1])
  /\ UNCHANGED <<seat, hub, host, past>>

SayTimesOut(seq) ==
  /\ seq \in conn.pending
  /\ conn' = [conn EXCEPT !.pending = @ \ {seq}]
  /\ UNCHANGED <<seat, hub, wire, host, past>>

Dispose ==
  /\ ~conn.stopped /\ Outage
  /\ Stop /\ UNCHANGED host

-----------------------------------------------------------------------------
(* The events of OpenCode.  A handler is handed the event when it happens. *)

SlipStale(is) == seat.reported # is /\ seat.run.pc = "free"
Stale(is) == seat.reported # is

\* session.idle: whoever finished a turn has the seat; what is held goes on,
\* behind a notice of what was dropped.
OnIdle(id) ==
  LET active == IF id \in seat.children THEN seat.active ELSE id
      moved  == seat.active \notin {NoSession, active}
      told   == IF seat.held # << >> THEN seat.dropped ELSE 0
      s      == [Now EXCEPT !.seat.active = active, !.seat.reported = "idle",
                            !.seat.held = << >>, !.seat.dropped = @ - told,
                            !.past.told = @ + told, !.past.moved = @ \/ moved]
  IN  IF id # active THEN UNCHANGED <<seat, past, wire>>
      ELSE /\ Becomes(InjectSoon(s, seat.held))
           /\ wire' = IF Stale("idle") THEN Stated(wire, "idle") ELSE wire

Heard(id) == id \notin seat.children /\ seat.active \in {NoSession, id}

\* session.status busy: the first session that is heard of has the seat.  (The
\* status idle, told right before session.idle, adds nothing to it.)
OnBusy(id) ==
  IF Heard(id)
  THEN /\ seat' = [seat EXCEPT !.active = id, !.reported = "busy"]
       /\ wire' = IF Stale("busy") THEN Stated(wire, "busy") ELSE wire
       /\ UNCHANGED past
  ELSE UNCHANGED <<seat, past, wire>>

OnCreated(id) ==
  /\ seat' = IF id \in Child THEN [seat EXCEPT !.children = @ \cup {id}]
             ELSE IF seat.active = NoSession THEN [seat EXCEPT !.active = id]
             ELSE seat
  /\ UNCHANGED <<past, wire>>

Turn(id, is) == host' = [host EXCEPT !.turn[id] = is]

Created(id) ==
  /\ host.turn[id] = "absent"
  /\ Turn(id, "rest") /\ OnCreated(id)
  /\ UNCHANGED <<conn, hub>>

UserTurn(id) ==  \* or the turn of a subagent's task
  /\ host.turn[id] = "rest" /\ host.begun < MaxTurn
  /\ host' = [host EXCEPT !.turn[id] = "busy", !.begun = @ + 1]
  /\ OnBusy(id)
  /\ UNCHANGED <<conn, hub>>

PromptTurn(id) ==
  /\ host.turn[id] = "rest" /\ seat.run.pc = "posted" /\ seat.run.id = id
  /\ Turn(id, "busy")
  /\ LET taken == [seat EXCEPT !.run.pc = "taken"]
     IN  IF Heard(id)
         THEN /\ seat' = [taken EXCEPT !.active = id, !.reported = "busy"]
              /\ wire' = IF Stale("busy") THEN Stated(wire, "busy") ELSE wire
         ELSE seat' = taken /\ UNCHANGED wire
  /\ UNCHANGED <<conn, hub, past>>

StatusRepeats(id) ==
  /\ host.turn[id] = "busy" /\ OnBusy(id)
  /\ UNCHANGED <<conn, hub, host>>

Replies(id) ==   \* from here on the prompt may return, before the event or after
  /\ host.turn[id] = "busy"
  /\ Turn(id, "replied")
  /\ seat' = IF seat.run.pc = "taken" /\ seat.run.id = id
             THEN [seat EXCEPT !.run.pc = "answered"] ELSE seat
  /\ UNCHANGED <<conn, hub, wire, past>>

TurnEnds(id) ==
  /\ host.turn[id] = "replied"
  /\ Turn(id, "rest") /\ OnIdle(id)
  /\ UNCHANGED <<conn, hub>>

-----------------------------------------------------------------------------
(* The hub, as the spoke meets it: module Hub has the rest.                *)

ToSpoke(w, f) == [w EXCEPT !.toSpoke = Append(@, f)]

\* What waits is handed over in one frame, and the name is busy.
Flushes(h, w) ==
  /\ hub'  = IF h.queue > 0 THEN [h EXCEPT !.queue = 0, !.state = "busy"] ELSE h
  /\ wire' = IF h.queue > 0 THEN ToSpoke(w, [t |-> "deliver"]) ELSE w

Said ==          \* a message for the name; to a dead socket it is lost
  /\ hub.said < MaxMsg /\ hub.up /\ hub.known
  /\ LET h == [hub EXCEPT !.said = @ + 1]
     IN  IF hub.state = "busy" \/ hub.holder = "none"
         THEN hub' = [h EXCEPT !.queue = @ + 1] /\ UNCHANGED wire
         ELSE IF hub.holder = "ours" THEN Flushes([h EXCEPT !.queue = 1], wire)
         ELSE hub' = [h EXCEPT !.state = "busy"] /\ UNCHANGED wire
  /\ UNCHANGED <<conn, seat, host, past>>

HubReads ==
  /\ wire.open /\ wire.toHub # << >>
  /\ LET f == Head(wire.toHub)
         w == [wire EXCEPT !.toHub = Tail(@)]
     IN  \/ /\ f.t = "hello" /\ hub.holder = "none"
            /\ Flushes([hub EXCEPT !.known = TRUE, !.holder = "ours", !.state = "idle",
                                !.heard = "none"],
                       ToSpoke(w, [t |-> "welcome"]))
         \/ /\ f.t = "hello" /\ hub.holder # "none"        \* name_taken
            /\ wire' = [ToSpoke(w, [t |-> "err"]) EXCEPT !.open = FALSE]
            /\ UNCHANGED hub
         \/ /\ f.t = "state" /\ f.is = "idle"
            /\ Flushes([hub EXCEPT !.state = "idle", !.heard = "idle"], w)
         \/ /\ f.t = "state" /\ f.is = "busy"
            /\ hub' = [hub EXCEPT !.state = "busy", !.heard = "busy"] /\ wire' = w
         \/ /\ f.t = "say"
            /\ wire' = ToSpoke(w, [t |-> "ok", seq |-> f.seq]) /\ UNCHANGED hub
  /\ UNCHANGED <<conn, seat, host, past>>

HubCloses ==     \* the connection only, or the hub and what it holds
  /\ Outage /\ wire.open
  /\ \E up \in BOOLEAN :
       hub' = [hub EXCEPT !.up = up, !.outages = @ + 1, !.holder = "none",
                          !.known = up, !.queue = IF up THEN @ ELSE 0]
  /\ wire' = [wire EXCEPT !.open = FALSE, !.toHub = << >>]
  /\ UNCHANGED <<conn, seat, host, past>>

HubStarts ==
  /\ ~hub.up
  /\ hub' = [hub EXCEPT !.up = TRUE]
  /\ UNCHANGED <<conn, seat, wire, host, past>>

HubNotices ==
  /\ hub.holder = "ghost"
  /\ hub' = [hub EXCEPT !.holder = "none"]
  /\ UNCHANGED <<conn, seat, wire, host, past>>

HubSendsOdd ==
  /\ Chokes /\ Outage /\ wire.open /\ hub.holder = "ours"
  /\ hub' = [hub EXCEPT !.outages = @ + 1]
  /\ wire' = ToSpoke(wire, [t |-> "odd"])
  /\ UNCHANGED <<conn, seat, host, past>>

-----------------------------------------------------------------------------
Init ==
  /\ conn = [sock |-> "opening", stopped |-> FALSE, retry |-> FALSE, seq |-> 0,
             pending |-> {}]
  /\ seat = [active |-> NoSession, reported |-> "none", briefed |-> {}, children |-> {},
             held |-> << >>, dropped |-> 0, notified |-> FALSE, chain |-> << >>,
             run |-> Free]
  /\ hub = [up |-> TRUE, known |-> FALSE, holder |-> "none", state |-> "idle",
            heard |-> "none", queue |-> 0, said |-> 0, outages |-> 0]
  /\ wire = NoSocket
  /\ host \in [turn : {t \in [Session -> {"absent", "rest"}] :
                         \A c \in Child : t[c] = "absent"},
               begun : {0}]
  /\ past = [got |-> 0, read |-> << >>, held |-> {}, told |-> 0, failed |-> FALSE,
             moved |-> FALSE]

Spoke == Open \/ Connect \/ SocketEnds \/ Dispatch
Host(id) == PromptTurn(id) \/ Replies(id) \/ TurnEnds(id)

Next ==
  \/ Spoke \/ Say \/ (\E q \in conn.pending : SayTimesOut(q)) \/ Dispose
  \/ BriefReturns \/ PromptReturns \/ PromptFails
  \/ \E id \in Session : Host(id) \/ Created(id) \/ UserTurn(id) \/ StatusRepeats(id)
  \/ HubReads \/ HubStarts \/ Said \/ HubCloses \/ HubNotices \/ HubSendsOdd

Spec == Init /\ [][Next]_vars

-----------------------------------------------------------------------------
(* Properties.                                                             *)

Quiet ==
  /\ conn.sock = "welcomed" /\ wire.open /\ wire.toHub = << >> /\ wire.toSpoke = << >>
  /\ seat.active # NoSession /\ seat.run = Free /\ seat.held = << >>
  /\ \A id \in Session : host.turn[id] \in {"absent", "rest"}

\* Of two texts that once waited, or two that did not, the older is read first.
SameLot(x, y) == x \in past.held <=> y \in past.held

\* The parts of the spoke are typed; a say waits on a connection that was
\* welcomed, and a stopped connection has no socket and no timer.
PluginTypeOK ==
  /\ conn.sock \in {"none", "opening", "hello", "welcomed"}
  /\ conn.pending # {} => conn.sock = "welcomed"
  /\ conn.pending \subseteq 1 .. conn.seq
  /\ conn.stopped => conn.sock = "none" /\ ~conn.retry
  /\ conn.sock # "none" => ~conn.retry
  /\ seat.active \in Session \cup {NoSession} /\ seat.reported \in {"none", "idle", "busy"}
  /\ Len(seat.held) <= HeldCap

\* moot.ts, reportedState: what the plugin thinks it has reported is the last
\* state the hub has read or will read on this connection, over outages, drops
\* before the welcome and reclaims.
StateRestated ==
  LET states == {i \in DOMAIN wire.toHub : wire.toHub[i].t = "state"}
  IN  conn.sock = "welcomed" /\ wire.open =>
        IF states = {} THEN seat.reported = hub.heard
        ELSE \E i \in states : /\ \A j \in states : j <= i
                               /\ wire.toHub[i].is = seat.reported

\* ARCHITECTURE.md, "Why the turn boundary is reported": when everything has
\* come to rest the hub takes the spoke for idle and keeps nothing back, unless
\* a prompt was refused or the seat went to another session.
NotStuck ==
  Quiet /\ ~past.failed /\ ~past.moved => hub.state = "idle" /\ hub.queue = 0

\* moot.ts, injectSoon: arrival order is the reading order, among the texts
\* that waited for a first session and among the others.
ReadInOrder ==
  \A i, j \in DOMAIN past.read :
    i < j /\ SameLot(past.read[i].text, past.read[j].text) =>
      past.read[i].text < past.read[j].text

\* A text that has arrived is waiting, on its way to a session or was posted
\* to one, and what was dropped is counted and announced.
DropsAreTold ==
  LET kept == ToSet(seat.held) \cup ToSet(seat.chain) \cup {seat.run.text}
                \cup {past.read[i].text : i \in DOMAIN past.read}
  IN  Cardinality((1 .. past.got) \ kept) = seat.dropped + past.told

\* moot.ts, briefed: the first prompt of every session, and no other, carries
\* the operating rules, and no session of a subagent is ever prompted.
BriefedFirst ==
  \A i \in DOMAIN past.read :
    /\ past.read[i].id \in TopLevel
    /\ past.read[i].brief <=> \A j \in 1 .. i - 1 : past.read[j].id # past.read[i].id

\* lib.ts, "rather than left hanging": a say that waits is on its way or its
\* answer is, unless the end of the connection has still to be noticed.
SayHasAnswer ==
  \A q \in conn.pending : wire.open =>
    \E f \in ToSet(wire.toHub) \cup ToSet(wire.toSpoke) :
      f.t \in {"say", "ok"} /\ f.seq = q

\* docs/SPOKE-GUIDE.md, "every 5 s for as long as the OpenCode process lives":
\* a spoke without a socket has a timer that opens one, or is inert for good.
NeverStranded == conn.sock = "none" => conn.retry \/ conn.stopped

\* moot.ts: the hub holds back just what comes during a turn, because the
\* boundaries of the turns reach it.
HubKnowsTheTurn == StateRestated /\ NotStuck

\* moot.ts: whatever arrives gets to a model that knows the rules, in order, or
\* is announced as dropped.
TextsReachTheModel == ReadInOrder /\ DropsAreTold /\ BriefedFirst

\* lib.ts: nothing is left waiting for an answer or a connection that will
\* never come.
NothingHangs == PluginTypeOK /\ SayHasAnswer /\ NeverStranded

=============================================================================
