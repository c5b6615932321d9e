---------------------------- MODULE ObserverSeat ----------------------------
(***************************************************************************)
(* The human seat (spoke/observer.py): what moot observe knows of the      *)
(* floor and what becomes of a typed line, in its two modes.  "tui" is the *)
(* terminal, "classic" the line mode on pipes.                             *)
(*                                                                         *)
(* Two threads share it.  The reader takes frames off the connection and   *)
(* fills the ring of messages, the peers, the goal; the input thread       *)
(* answers local commands from them, registers the echo its lines are owed *)
(* and sends.  A message is its id, which is its position in the day's     *)
(* transcript; texts, privacy and drawing are left out.                    *)
(*                                                                         *)
(* A definition whose name starts with Slip is a mistake one could make in *)
(* the definition that follows it; nothing uses it.                        *)
(***************************************************************************)
EXTENDS Integers, FiniteSets, FiniteSetsExt, Sequences, SequencesExt

CONSTANTS
  Peer,        \* the names a peer can have, none of them the seat's own
  RingCap,     \* messages the seat keeps
  BacklogCap   \* messages a joining seat is sent
CONSTANTS MaxDay, MaxLine, MaxPoll, MaxEvent   \* bounds of the model, in guards

ASSUME SeatAssumption ==
  /\ "me" \notin Peer
  /\ {RingCap, BacklogCap} \subseteq Nat \ {0}
  /\ {MaxDay, MaxLine, MaxPoll, MaxEvent} \subseteq Nat

VARIABLES
  hub,     \* day (who said each message), peers, goal, open, events so far
  toHub,   \* frames on the way to the hub
  toSeat,  \* frames on the way to the seat
  seat,    \* mode, since (last id before it joined), ring, peers, goal,
           \* pending (seqs of says whose echo is owed), seq, poll, closed
  input,   \* the input thread: pc, out (frames to send), echo
  reader,  \* the reader thread: "reads", "ended" (has yet to wake), "gone"
  wake,    \* the closing tag is in the wake pipe
  rosters  \* seqs of the roster lines shown

vars == <<hub, toHub, toSeat, seat, input, reader, wake, rosters>>

Tui      == seat.mode = "tui"
Idle     == [pc |-> "idle", out |-> <<>>, echo |-> {}]
Capped(ring) == SubSeq(ring, Max({1, Len(ring) - RingCap + 1}), Len(ring))
\* The model follows the hub as long as there is a seat to hear of it.
HubRuns  == hub.open /\ input.pc # "over"
\* The seat ends, and its connection with what it carried.
Ends     == input' = [Idle EXCEPT !.pc = "over"] /\ toHub' = <<>> /\ toSeat' = <<>>
ToSeat(frame) == toSeat' = Append(toSeat, frame)

-----------------------------------------------------------------------------
(* The hub, as one observer meets it: module Hub has the rest.             *)

\* A message by a peer, delivered to the observer at once.
PeerSays ==
  /\ HubRuns /\ Len(hub.day) < MaxDay
  /\ hub' = [hub EXCEPT !.day = Append(@, "peer")]
  /\ ToSeat([t |-> "deliver", ids |-> <<Len(hub.day) + 1>>])
  /\ UNCHANGED <<toHub, seat, input, reader, wake, rosters>>

PeerMoves(p) ==
  /\ HubRuns /\ hub.events < MaxEvent
  /\ LET joins == p \notin hub.peers
     IN  /\ hub' = [hub EXCEPT !.events = @ + 1,
                               !.peers = IF joins THEN @ \cup {p} ELSE @ \ {p}]
         /\ ToSeat([t |-> "event", event |-> IF joins THEN "joined" ELSE "left", name |-> p])
  /\ UNCHANGED <<toHub, seat, input, reader, wake, rosters>>

Pings ==
  /\ HubRuns /\ hub.events < MaxEvent
  /\ hub' = [hub EXCEPT !.events = @ + 1]
  /\ ToSeat([t |-> "ping"])
  /\ UNCHANGED <<toHub, seat, input, reader, wake, rosters>>

\* The hub takes the next frame; a say may be refused for its length.
HubSay(f) ==
  \/ /\ Len(hub.day) < MaxDay
     /\ hub' = [hub EXCEPT !.day = Append(@, "me")]
     /\ ToSeat([t |-> "ok", seq |-> f.seq, id |-> Len(hub.day) + 1])
  \/ ToSeat([t |-> "err", seq |-> f.seq]) /\ UNCHANGED hub

\* /goal is announced to every observer, then answered.
HubCmd(f) ==
  LET goal == hub.goal + 1
  IN  IF f.cmd = "goal"
      THEN /\ hub' = [hub EXCEPT !.goal = goal]
           /\ toSeat' = toSeat \o <<[t |-> "event", event |-> "goal", goal |-> goal],
                                    [t |-> "ok", seq |-> f.seq, id |-> 0]>>
      ELSE ToSeat([t |-> "ok", seq |-> f.seq, id |-> 0]) /\ UNCHANGED hub

HubTakes ==
  /\ HubRuns /\ toHub # <<>>
  /\ toHub' = Tail(toHub)
  /\ LET f == Head(toHub)
     IN  CASE f.t = "say"    -> HubSay(f)
           [] f.t = "cmd"    -> HubCmd(f)
           [] f.t = "roster" -> ToSeat([t |-> "roster", seq |-> f.seq, goal |-> hub.goal,
                                        names |-> hub.peers \cup {"me"}]) /\ UNCHANGED hub
  /\ UNCHANGED <<seat, input, reader, wake, rosters>>

\* The hub ends.  What it has written is still there to be read (frames that
\* never left it are, to the seat, frames not sent).
Hangup ==
  /\ HubRuns
  /\ hub' = [hub EXCEPT !.open = FALSE]
  /\ toHub' = <<>>
  /\ UNCHANGED <<toSeat, seat, input, reader, wake, rosters>>

-----------------------------------------------------------------------------
(* The reader thread.                                                      *)

\* The terminal answers an ok by its echo and keeps the message; the line mode
\* shows neither.  An ok that is owed no echo is dropped.
ReadOk(f) ==
  /\ seat' = IF Tui /\ f.seq \in seat.pending
             THEN [seat EXCEPT !.pending = @ \ {f.seq}, !.ring = Capped(Append(@, f.id))]
             ELSE seat
  /\ UNCHANGED rosters

SlipReadErr(f) == UNCHANGED <<seat, rosters>>

ReadErr(f) ==
  /\ seat' = [seat EXCEPT !.pending = @ \ {f.seq}]
  /\ UNCHANGED rosters

ReadDeliver(f) ==
  /\ seat' = [seat EXCEPT !.ring = Capped(@ \o f.ids)]
  /\ UNCHANGED rosters

ReadEvent(f) ==
  /\ seat' = CASE f.event = "joined" -> [seat EXCEPT !.peers = @ \cup {f.name}]
               [] f.event = "left"   -> [seat EXCEPT !.peers = @ \ {f.name}]
               [] f.event = "goal"   -> [seat EXCEPT !.goal = f.goal]
  /\ UNCHANGED rosters

SlipReadRoster(f) ==
  /\ seat' = [seat EXCEPT !.peers = f.names, !.goal = f.goal]
  /\ UNCHANGED rosters

\* A roster lists the seat as well; the answer to a poll is no line.
ReadRoster(f) ==
  /\ seat' = [seat EXCEPT !.peers = f.names \ {"me"}, !.goal = f.goal]
  /\ rosters' = IF Tui /\ f.seq < 0 THEN rosters ELSE rosters \cup {f.seq}

Read ==
  /\ reader = "reads" /\ toSeat # <<>> /\ input.pc # "over"
  /\ toSeat' = Tail(toSeat)
  /\ LET f == Head(toSeat)
     IN  CASE f.t = "ok"      -> ReadOk(f)
           [] f.t = "err"     -> ReadErr(f)
           [] f.t = "deliver" -> ReadDeliver(f)
           [] f.t = "event"   -> ReadEvent(f)
           [] f.t = "roster"  -> ReadRoster(f)
           [] f.t = "ping"    -> hub.open /\ UNCHANGED <<seat, rosters>>
  /\ UNCHANGED <<hub, toHub, input, reader, wake>>

\* The pong fails on a connection that has ended.  The terminal's reader says
\* so and wakes the loop; the thread of the line mode just dies.
ReadFails ==
  /\ reader = "reads" /\ toSeat # <<>> /\ Head(toSeat).t = "ping" /\ ~hub.open
  /\ input.pc # "over"
  /\ reader' = IF Tui THEN "ended" ELSE "gone"
  /\ seat' = [seat EXCEPT !.closed = Tui]
  /\ UNCHANGED <<hub, toHub, toSeat, input, wake, rosters>>

ReadEnd ==
  /\ reader = "reads" /\ toSeat = <<>> /\ ~hub.open /\ input.pc # "over"
  /\ reader' = "ended"
  /\ seat' = [seat EXCEPT !.closed = TRUE]
  /\ UNCHANGED <<hub, toHub, toSeat, input, wake, rosters>>

SlipWake ==
  /\ reader = "ended"
  /\ reader' = "gone"
  /\ UNCHANGED <<hub, toHub, toSeat, seat, input, wake, rosters>>

Wake ==
  /\ reader = "ended"
  /\ reader' = "gone" /\ wake' = Tui
  /\ UNCHANGED <<hub, toHub, toSeat, seat, input, rosters>>

-----------------------------------------------------------------------------
(* The input thread.                                                       *)

Say(seq) == [t |-> "say", seq |-> seq]
Cmd(seq, cmd) == [t |-> "cmd", cmd |-> cmd, seq |-> seq]

\* build_outgoing.  A name the seat does not know is refused, and takes no seq;
\* whom a say is for matters to nothing else here.  /close is a broadcast done, then the reset.
Lines ==
  LET seq == seat.seq + 1
  IN  {[out |-> <<Say(seq)>>, echo |-> {seq}],
       [out |-> <<Say(seq), Cmd(seq + 1, "reset")>>, echo |-> {seq}],
       [out |-> <<Cmd(seq, "goal")>>, echo |-> {}],
       [out |-> <<[t |-> "roster", seq |-> seq]>>, echo |-> {}]}

\* The terminal asks whether the hub is gone after the seqs are taken and keeps
\* going; the line mode asks first, and ends.
Enter ==
  /\ input.pc = "idle" /\ ~wake /\ seat.seq < MaxLine
  /\ \E line \in Lines :
       \/ /\ ~seat.closed
          /\ seat' = [seat EXCEPT !.seq = @ + Len(line.out)]
          /\ input' = [pc |-> "typed", out |-> line.out, echo |-> line.echo]
          /\ UNCHANGED <<toHub, toSeat>>
       \/ /\ seat.closed /\ Tui
          /\ seat' = [seat EXCEPT !.seq = @ + Len(line.out)]
          /\ UNCHANGED <<input, toHub, toSeat>>
       \/ /\ seat.closed /\ ~Tui
          /\ Ends /\ UNCHANGED seat
  /\ UNCHANGED <<hub, reader, wake, rosters>>

\* A send to a hub that is gone raises and ends the seat.
SendsNext ==
  IF hub.open
  THEN /\ toHub' = Append(toHub, Head(input.out))
       /\ input' = [input EXCEPT !.out = Tail(@)]
       /\ UNCHANGED toSeat
  ELSE Ends

SlipRegister ==
  /\ input.pc = "typed"
  /\ \/ input.out # <<>> /\ SendsNext /\ UNCHANGED seat
     \/ /\ input.out = <<>>
        /\ seat' = [seat EXCEPT !.pending = @ \cup IF Tui THEN input.echo ELSE {}]
        /\ input' = Idle /\ UNCHANGED <<toHub, toSeat>>
  /\ UNCHANGED <<hub, reader, wake, rosters>>

\* Before the send: the ok can reach the reader before the send returns.
Register ==
  /\ input.pc = "typed"
  /\ seat' = [seat EXCEPT !.pending = @ \cup IF Tui THEN input.echo ELSE {}]
  /\ input' = [input EXCEPT !.pc = "sending"]
  /\ UNCHANGED <<hub, toHub, toSeat, reader, wake, rosters>>

Send ==
  /\ input.pc = "sending"
  /\ IF input.out = <<>> THEN input' = Idle /\ UNCHANGED <<toHub, toSeat>> ELSE SendsNext
  /\ UNCHANGED <<hub, seat, reader, wake, rosters>>

SlipPollSeq == seat.seq + 1
PollSeq == seat.poll - 1

\* The roster poll of the status band; here a failed send is passed over.
Poll ==
  /\ Tui /\ input.pc = "idle" /\ ~wake /\ ~seat.closed /\ seat.poll > -MaxPoll
  /\ seat' = [seat EXCEPT !.poll = @ - 1]
  /\ toHub' = IF hub.open THEN Append(toHub, [t |-> "roster", seq |-> PollSeq]) ELSE toHub
  /\ UNCHANGED <<hub, toSeat, input, reader, wake, rosters>>

SeesHangup ==
  /\ input.pc = "idle" /\ wake
  /\ Ends
  /\ UNCHANGED <<hub, seat, reader, wake, rosters>>

\* The end of the input, or ctrl-d.  The bye the seat says first, and the wait
\* for the hub to close on it, are left out.
Quit ==
  /\ input.pc = "idle"
  /\ Ends
  /\ UNCHANGED <<hub, seat, reader, wake, rosters>>

-----------------------------------------------------------------------------
\* A seat that has been welcomed, on a day with one more message than a
\* backlog holds, the last of them perhaps its own.  The backlog leaves out
\* what it said itself when it last held the name: the last one at most.
Backlog(day) ==
  LET others == IF day[Len(day)] = "me" THEN BacklogCap - 1 ELSE BacklogCap
  IN  [i \in 1 .. others |-> Len(day) - BacklogCap + i]

Init ==
  \E mode \in {"tui", "classic"}, peers \in SUBSET Peer,
     last \in {"me", "peer"} :
    LET day == Append([i \in 1 .. BacklogCap |-> "peer"], last) IN
    /\ hub = [day |-> day, peers |-> peers, goal |-> 0, open |-> TRUE, events |-> 0]
    /\ seat = [mode |-> mode, since |-> Len(day), ring |-> <<>>, peers |-> peers, goal |-> 0,
               pending |-> {}, seq |-> 0, poll |-> 0, closed |-> FALSE]
    /\ toSeat = IF Backlog(day) = <<>> THEN <<>> ELSE <<[t |-> "deliver", ids |-> Backlog(day)]>>
    /\ toHub = <<>> /\ input = Idle /\ reader = "reads" /\ wake = FALSE /\ rosters = {}

ReaderStep == Read \/ ReadFails \/ ReadEnd \/ Wake

Next ==
  \/ PeerSays \/ (\E p \in Peer : PeerMoves(p)) \/ Pings \/ HubTakes \/ Hangup
  \/ ReaderStep
  \/ Enter \/ Register \/ Send \/ Poll \/ SeesHangup \/ Quit

Spec == Init /\ [][Next]_vars

\* Both threads run; nobody has to type.
LiveSpec == /\ Spec
            /\ WF_vars(ReaderStep)
            /\ WF_vars(Register \/ Send \/ SeesHangup)

-----------------------------------------------------------------------------
(* What the seat answers from its ring.                                    *)

Largest(ids, n) == {i \in ids : Cardinality({j \in ids : j > i}) < n}
Transcript == 1 .. Len(hub.day)

SlipRecent(n) == Largest(ToSet(seat.ring), n) \cup Largest(Transcript, n - Len(seat.ring))

\* recent: the ring, and what it does not have of today's transcript.
Recent(n) ==
  IF Len(seat.ring) >= n THEN ToSet(SubSeq(seat.ring, Len(seat.ring) - n + 1, Len(seat.ring)))
  ELSE ToSet(seat.ring) \cup Largest(Transcript \ ToSet(seat.ring), n - Len(seat.ring))

-----------------------------------------------------------------------------
(* Properties.                                                             *)

Ids(f) == IF f.t = "deliver" THEN ToSet(f.ids) ELSE IF f.t = "ok" THEN {f.id} \ {0} ELSE {}
OnTheWay == UNION {Ids(toSeat[i]) : i \in 1 .. Len(toSeat)}
InTouch == hub.open /\ reader = "reads" /\ input.pc # "over"

\* The parts of the seat are typed, and what it sends is numbered for one
\* purpose each: typed lines upwards, polls downwards.
SeatTypeOK ==
  /\ Len(seat.ring) <= RingCap /\ seat.peers \subseteq Peer
  /\ seat.pending \subseteq 1 .. seat.seq
  /\ input.pc \in {"idle", "typed", "sending", "over"}
  /\ seat.closed => ~hub.open

\* observer.py, record_own: the hub never routes a say back to its seat, so the
\* ring is completed from the oks.  In the terminal it then holds, in order,
\* every message since the seat joined, down to the oldest it has room for.
RingMissesNothing ==
  Tui /\ InTouch =>
    /\ \A i, j \in 1 .. Len(seat.ring) : i < j => seat.ring[i] < seat.ring[j]
    /\ \A id \in seat.since + 1 .. Len(hub.day) :
         \/ id \in ToSet(seat.ring) \cup OnTheWay
         \/ Len(seat.ring) = RingCap /\ id < seat.ring[1]

\* An echo is owed exactly for the says that are on their way or whose answer
\* is: none is forgotten when an answer overtakes the thread that sent the say,
\* and none stays owed after a refusal.
EchoIsOwed ==
  LET Says(frames) == {frames[i].seq : i \in {j \in 1 .. Len(frames) : frames[j].t = "say"}}
  IN  Tui /\ InTouch =>
        seat.pending =
          Says(toHub) \cup (IF input.pc = "sending" THEN Says(input.out) ELSE {})
            \cup {toSeat[i].seq : i \in {j \in 1 .. Len(toSeat) :
                    toSeat[j].t = "err" \/ (toSeat[j].t = "ok" /\ Ids(toSeat[j]) # {})}}

\* When nothing is on its way the seat refuses and accepts names, and states
\* the goal, as the hub would: its events and its rosters agree.
KnowsTheFloor ==
  InTouch /\ toSeat = <<>> => seat.peers = hub.peers /\ seat.goal = hub.goal

\* The band's polls print nothing, and a roster that was typed is always shown.
PollsStayQuiet ==
  LET Asked(frames) == {frames[i].seq : i \in {j \in 1 .. Len(frames) : frames[j].t = "roster"}}
  IN  /\ rosters \subseteq 1 .. seat.seq
      /\ \A i \in 1 .. Len(toHub) : toHub[i].t = "roster" =>
           (toHub[i].seq > 0 => toHub[i].seq \notin rosters \cup Asked(toSeat))

\* observer.py, recent, "the last n messages": /last skips nothing between what
\* it shows, if at most one message is on its way and the seat's own earlier
\* says (which its backlog leaves out) are not among today's.
LastLeavesNoGap ==
  Tui /\ InTouch /\ Cardinality(OnTheWay) <= 1
      /\ (\A i \in 1 .. seat.since : hub.day[i] # "me") =>
    \A n \in 1 .. MaxDay :
      /\ Cardinality(Recent(n)) = Min({n, Len(hub.day)})
      /\ \A i, j \in Recent(n) : i .. j \subseteq Recent(n)

\* A terminal whose hub is gone ends, whatever it was doing.
SeatEnds == [](Tui /\ ~hub.open => <>(input.pc = "over"))
\* observer.py, Seat.recent: what /last shows is complete, from the ring alone
\* and from the ring merged with the transcript.
RingIsComplete == RingMissesNothing /\ LastLeavesNoGap

\* observer.py, the reader of _run_tui: each answer of the hub meets the line,
\* the echo or the poll it is about.
AnswersFindTheirAsker == SeatTypeOK /\ EchoIsOwed /\ PollsStayQuiet

=============================================================================
