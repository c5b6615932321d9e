# A TLA+ model of moot

moot is a small hub that lets several coding agents and the humans who watch
them talk over one Unix socket.  This directory holds TLA+ modules translated
from its source, TLC configurations that check them on small instances, and
proofs checked by TLAPS.  Paths below are relative to the repository; line
numbers refer to the commit the modules were written from.

## 1. The system

| part | source | state | operations |
|---|---|---|---|
| hub | `src/moot/core/hub.py` | `participants`, `dead`, `round`, `frozen`, `muted`, `max_rounds`, `_msg_counter`, `_recent`, the watchdog latches | `handle` (hello, say, state, cmd, roster, pong, bye), `disconnect`, `watchdog_tick` |
| mailbox of a participant | `hub.py` (`_enqueue`, `_flush_queue`), `core/buffer.py` | wake queue, count of dropped wakes, context buffer, count of evicted lines | enqueue, overhear, drain, take a slice |
| say gate | `core/bucket.py`, `core/dedup.py` | tokens, time of the last refill, recently seen keys | `take`, `retry_after`, `seen` |
| hub connections | `core/server.py` | outbound queue, `connected`, read loop, write loop | send, abort, close, read, reap |
| transcript | `core/transcript.py` | one append-only file a day | append, `recent_msgs` |
| hub process | `core/server.py` (`serve`), `spoke/home.py` | lock file, socket file, rendezvous file, goal file | start, stop, crash |
| stream spoke | `cli/stream.py`, `spoke/conn.py` | the connection, `live`, `closed`, `stopping`, `_last_state`, `_pending` | read, rejoin, forward a say, relay a state, stop |
| control socket | `spoke/ctl.py` | socket file, `_closing`, one thread a request | serve, shutdown |
| file inbox | `cli/inbox.py` | inbox file, cursor file | wait, peek |
| observer seat | `spoke/observer.py` | ring of messages, peers, goal, pending echoes | read frames, type lines, poll the roster, `/last`, end |
| OpenCode plugin | `opencode/lib.ts`, `opencode/moot.ts` | socket, timer, pending says, reported state, held texts, the chain of prompts | connect, say, report, inject, hold, dispose |
| validation, rendering, terminal, brief, log, doctor, config | the other files | none that outlives a call | pure functions and output |

How they interact.  Spokes (stream, plugin, observer seat) each hold one
connection to the hub and send frames; the hub answers a frame on its
connection, delivers messages, emits events to observers, and pings.  Every
handler of the hub runs under one asyncio lock (`server.py:151`, `165`, `173`),
so handlers do not interleave with each other; connections do: frames in
flight, closes, write failures, overflows, late `finally` blocks, the watchdog.
The stream spoke is a process of several threads (a reader, the accept loop,
one thread a request) around one connection.  Short-lived processes (`moot
say`, hooks) talk to it through the control socket; `moot wait` and `moot peek`
share files with it.  The observer seat is two threads around one connection.
The plugin is one event loop between the hub and the sessions of OpenCode.
Hubs of one home meet at its lock, and those of all homes at the rendezvous
file.  The transcript is what a hub leaves to its successor.

What is hard, part by part, and what makes each part correct:

* **Registry.**  A name is given up by `bye`, by EOF, by a failed write, by an
  overflow, by a later `hello` for the same name, by the watchdog, and by the
  late `finally` of a read loop; any of these may come after another connection
  has taken the name.  Correct: a live, named connection holds its name
  (`OneNameOneConnection`); a lost one is given up in the end (`GoneIsReaped`).
* **Floor control.**  A wake goes to an idle agent at once and waits for a busy
  one; the wait ends by a state report, a say, an inference or a reclaim.
  Correct: each step is one of the abstract floor (`KeepsTheFloor`), no
  reachable idle agent has a wake waiting (`IdleMeansDrained`), a queued wake is
  handed over in the end (`QueuedIsHandedOver`), what is handed over is older
  than what is not, also after a restart (`OldestFirst`), nothing disappears
  uncounted (`NothingLostInSilence`).
* **Privacy.**  Private messages sit in queues, in the recent window, and in
  the transcript, and outlive connections and hubs.  Correct: no third agent
  ever has one (`PrivateStaysPrivate`); observers see all (`ObserversSeeAll`).
* **Rounds and sessions.**  Counter, limit, freeze and end of session are
  changed by nearly every handler.  Correct: `RoundsCountWakes`, `LimitFreezes`,
  `SessionDoneNotMissed`, and `KeepsTheFloor`: a closed floor opens only on
  command.
* **Watchdog.**  Stamps and latches are written by most handlers and read at
  ticks.  Correct: blocked, quorum and stall each fire when they are due, only
  then, and once (`SignalsWhenDue`); a connection that is up is dropped only
  after the whole silence it is allowed (`OnlyTheSilentAreDropped`).
* **Hub process.**  Starts and stops of several hubs overlap, and any may be
  killed.  Correct: a hub has its home to itself (`HomeIsItsOwn`), its pointer is
  touched by those who may (`RendezvousKept`), and what was accepted can be read
  back in order (`HistoryKept`).
* **Say gate.**  Over any span, no more says pass than the burst and the refill
  of the span (`RateBound`); identical says that pass are apart (`NoTwins`); no
  refusal without a cause, and it ends when the sender is told it will
  (`RefusalsAreFair`).
* **Stream spoke.**  Every say that is parked gets an answer, its own
  (`NoSayParkedInGap`, `AnswersMatch`, `SayAnswered`); an outage ends in a rejoin
  or in the end of the process (`RejoinFindsNameFree`, `OutageEnds`); the last
  state reported is the one the hub knows (`StateReachesHub`), but for the window
  of section 4.
* **File inbox and control socket.**  Streams and readers come and go around
  one path, one file and one cursor.  Correct: a stream that serves has its
  socket (`SocketServes`), each line is shown once (`LinesShownOnce`) and in the
  end (`ReadInTheEnd`), and the hub knows of the turn (`BusyAtHandOver`).
* **Observer seat.**  Answers overtake the thread that asked; the seat's picture
  is put together from five kinds of frame.  Correct: `RingIsComplete`,
  `AnswersFindTheirAsker`, `KnowsTheFloor`, `SeatEnds`.
* **OpenCode plugin.**  Sessions, prompts, outages and reports overlap in one
  event loop.  Correct: the hub knows the turn (`HubKnowsTheTurn`), texts arrive
  in order or are announced as dropped (`TextsReachTheModel`), nothing waits for
  ever (`NothingHangs`).

`PROJECT.json` lists the hazards at their lines.

## 2. Modules

| module | what it is |
|---|---|
| `Mailbox` | pure operators: the bounded queue and context buffer, and the slice of a flush |
| `Hub` | the hub process: one record `hub`, one action per frame, per connection event, per visit of the watchdog, per expiry, and the restart |
| `HubProps` | the types, invariants, action and liveness properties of `Hub` |
| `Floor` | the abstract specification: seats, what waits at them, turns |
| `HubFloor` | the refinement mapping from `Hub` to `Floor` |
| `MCHub` | the frames and names of the small instances |
| `HubProofs` | lemmas about the operators of `Mailbox`, the inductive invariant of `Hub`, the theorems about names, the floor and the limit, and those about what the mailboxes hold and hand over and about the end of a session |
| `HubFloorProofs` | the theorems that `Hub` implements `Floor`, that its observers see every say, that what leaves a mailbox is handed over or counted, and that rounds count who was woken |
| `Watchdog`, `MCWatchdog` | the timers, stamps and latches of the hub, over a clock |
| `WatchdogProofs` | the inductive invariant of `Watchdog` and the theorems |
| `SayGate`, `MCSayGate` | the token bucket and the dedup window of one agent, over a clock |
| `HubProcess`, `MCProcess` | hub processes and the files they share, with the transcript |
| `HubProcessProofs` | the inductive invariants of `HubProcess` (files, transcript) and of `SayGate`, and the theorems about each; the two share no state |
| `StreamSpoke`, `MCStream` | the process `moot stream`: reader, main and request threads around one connection |
| `StreamSpokeProofs` | the inductive invariant of `StreamSpoke` and the theorems |
| `Session`, `MCSession` | streams and readers of one session around its socket, inbox and cursor |
| `SessionProofs` | the inductive invariant of `Session` and the theorems |
| `ObserverSeat`, `MCSeat` | the two threads of `moot observe` |
| `ObserverSeatProofs` | the inductive invariant of `ObserverSeat` and the theorems |
| `OpenCode`, `MCPlugin` | the plugin's connection and event handlers |
| `OpenCodeProofs` | the inductive invariant of `OpenCode` and the theorems |

Each module that models one side of a connection has the other side as an
environment: `Hub` has peers that send anything, the spokes have a hub reduced
to what they can observe of it.  The parts are not composed into one state; where
one relies on another, the reliance is a property: the stream that says hello
again finds its name free (`RejoinFindsNameFree`), the restarted hub of `Hub`
numbers from a transcript that `HubProcess` shows readable and ascending, the
outcome of a say's checks is a choice in `Hub` and is decided in `SayGate`, the
timers of `Hub` fire at any visit and have their clock in `Watchdog`, and a
`Session` has its streams' inner life in `StreamSpoke`.

### Floor and HubFloor

`Floor` says what the hub is for in terms of a floor with seats: it has no
connections, buffers, caps, slices, rounds or timers.  A seat is empty, kept for
one who is away, waiting or engaged; what waits at it are sets of message
numbers.  Its steps are a turn of one participant, a say, a note of the hub, a
remark, an opening, and a crash.  `SeatOf` in `HubFloor` maps a registration to a
seat.  `KeepsTheFloor` is `TheFloor!Spec`: checked as a property of the runs
`MCHubFloor` and `MCHubMail`, and proved in `HubFloorProofs`, it says that each
handler, however many methods it calls, is one step of the floor, or leaves it
alone.  An action of the hub in which an engaged agent is handed something by
somebody else's say, in which an aside overtakes a wake, in which something leaves
a seat uncounted, or in which a closed floor opens, is not.

### Hub and Mailbox against the code

The state of the process is one record, and every method of `Hub` that changes
state is an operator from the state before to the state after the call, named
after the method (`FlushQueue` is `_flush_queue`).  A handler that calls three
methods is the composition of three operators, in the order of the code, and an
action is one whole handler under the lock, including the read loop's decision
to leave after it (`Handled`).

* `hub.reg[n]` is the `Participant` of a name together with its place:
  `"live"` (in `participants`), `"dead"` (in `dead`), `"none"`.
* `hub.conn[c]` is a connection: whether its read loop runs (`"reading"`) or is
  in its `finally` (`"ending"`), `Client.connected`, `Client.name`, and for the
  slow ones the length of `StreamClient._queue`.  Connections that are not slow
  drain at once.
* `hub.sent` is what the last step emitted, cleared by each step.  It has the
  frames that entered an outbound queue, and the transcript records as frames
  to `Transcript`.  No guard reads it; the properties do.
* Messages carry id, sender, addressee, addressing and the private mark.  Text,
  kind and times are left out; the kind `done` is a flag of the say.
* A frame the rate or duplicate check refuses is a choice of the environment
  (`Screens`); the checks themselves are in `SayGate`.
* Timers.  What a timer would do, it may do at any visit (`Lapses`): a pong is
  late, a peer was silent, an agent was busy for too long.  The model checker
  thus covers every setting of the timeouts.
* A tick of the watchdog visits the participants in one lock; the model lets
  other handlers run in between, which gives more behaviours than the code.
* The order of participants in the registry decides the ids of mute notes:
  `SystemMessage` takes any order.
* `Restart` is a kill at any moment between handlers, followed by a start.  The
  transcript's tail is `hub.recent`.

External to the code: the peers.  They send any frame of the sets `Hellos`,
`Says`, `Reports`, `Cmds`, `Others` at any time, and a `Fragile` connection
ends or fails at any time.

### Watchdog against the code

`now` is `Clock.monotonic` in ticks; a time `limit` has passed when `now - stamp >
limit`, as the code compares.  A tick is one action (`WatchdogTick`): expiry of the
dead, a visit of each participant, quorum, stall, in the order of `watchdog_tick`.
The loop over the participants is written as visits side by side (`VisitAll`): a
visit reads and changes the registration of its own name, and of what is shared it
only touches the activity, so their order does not matter, and the results are put
together without recursion.  A tick may come at any moment, or not for long.  Of the
mail, the number of queued wakes is left, which decides whether the floor is quiet.
The handlers are there with all they do to the stamps (`rx`, `busy`, `say`,
`blocked`) and latches; `past` recalls, from the log of what came in and went out
alone, who was asked and has answered, how long it has been calm, and since when an
agent is blocked on what, so that the properties do not repeat the code's own
bookkeeping.  Those who are not `Silent` send a frame of some kind at every instant
(`Pass`).  The desktop notification is left out.

### HubProcess against the code

`serve()` step by step: take the lock, read the transcript's tail, write the
session record, unlink the old socket and bind, truncate and write the
rendezvous, serve, and the teardown in the order of its `finally` blocks.  Each system call on a file that another process may touch is a
step of its own, and a kill is possible at each.  The lock goes with the process
that held it, the files stay.  `current` is the file all homes share; what a
stopping hub has read of it (`saw`) may be old when it unlinks.  The transcript
is one file a day with the line structure that decides what can be read: a torn
tail, and a record glued to it.  Midnight may come between any two steps.

### SayGate against the code

The order of `_route_say`: a say first takes a token, and only a say that got
one is looked up in the dedup window, so a duplicate costs a token.  `_expire`
runs at each lookup and compares with `>=`.  The clock moves in whole seconds; a
token is divided into `Window` parts, of which `Messages` come back a second, so
the arithmetic is exact where the code has floating point.  `takes`, `sent` and
`told` are history: only properties read them.

### StreamSpoke against the code

* A section under `Stream._lock` never waits, so it is one action (`Adopt`,
  `SayRegisters`, `StateCached`, `SayLeaves`).  Everything outside of it that
  another thread can observe is an action of its own: each set and clear of the
  events `live`, `closed` and `stopping`, each send, each put into a slot.
  `_fail_pending` puts after it has left the lock; only the reader thread puts,
  so `FailPending` joins the two.
* `links[g]` is a connection: whether each end is open, what is in flight in
  each direction, and the last state frame the hub has read.  A send on a
  connection with a closed end raises `OSError`; a connection that the hub
  closed with frames of the spoke unread may end in `ECONNRESET` and not in EOF
  (`ReadEnd`), as a Unix socket does.
* `reader.pc` follows `read_hub`, `_pump`, `_reconnect` and `_adopt`; `req[r].pc`
  follows `_forward_say` and `_relay_state`; `main.pc` follows `run_stream` after
  the reader has been started.  `reader.why` records what ended the supervision.
* A state request that has cached its state while `live` was clear stays in
  `"cached"`, with the connection that was current: that is how `StateReachesHub`
  knows the reports of the window between `_adopt` and `live.set`.
* Waits (`SAY_TIMEOUT`, the backoff, `RECONNECT_BUDGET`, the join of two seconds)
  may pass at any moment; `MaxTries` bounds the attempts of one outage.
* The hub answers a say with the number it carries and remembers whose it was
  (`by`), which the code cannot see; only properties read it.
* A hello is welcomed only when the hub has let go of the old connection, as the
  hub's registry has it; `RejoinFindsNameFree` shows that this is always so when
  the stream asks.
* Left out: rendering, `whoami`, malformed requests.

### Session against the code

A stream says hello, binds its control socket, appends what comes, rejoins with
its last state, and on the way out stops serving, unlinks the path, whoever has
bound it last, and gives up the name.  A reader is `run_wait` or `run_peek`: read the cursor, report, poll,
report again, read on, write the cursor (which truncates first), print.  Each
access to a shared file is a step.  `upset` records mishaps: a connection lost, a
stream or a reader killed, two readers that overlap, two that write the cursor at
once.  `Harms` says which may happen; one mishap a behaviour.  Each property
states which mishaps it does not survive, and holds under all others.

### ObserverSeat against the code

The reader's handling of a frame and the input thread's handling of a key are
actions.  A typed line takes three: it is built, its echo is registered, and it
is sent, a frame at a time, because the answer may arrive in between.  The ring,
peers and goal are what the reader has put together; `Recent(n)` is what
`/last n` shows.  Polls of the roster have negative numbers.  `mode` is the
terminal or line mode.  Texts, privacy and queries that only read are left out.

### OpenCode against the code

JavaScript runs to completion, so a handler with the callbacks that follow it is
one action, up to the next `await` on `moot brief` or on `session.prompt`.  The
chain of injections is a sequence behind the text under way (`seat.run`).  The
host is external: it creates sessions, runs turns, and tells the plugin of them
in the order that `docs/MANUAL-TEST.md:433` records; it may refuse a prompt.  The
hub is external: it welcomes, delivers when it holds the spoke for idle, answers,
closes, sends a frame that cannot be read, and refuses a hello.  `past` is
history.

### Bounds

`MaxId` bounds the message counter of `Hub` (in `ReadSay`, and for the notes of
mute and unmute in `ReadCmd`), `MaxLimit` the limit a resume may grant,
`MaxEvicted` the evicted lines when goals are set.  Everything else is bounded by
the code's own caps, which the instances choose as 1 or 2, so that queues,
buffers, windows and outbound queues fill and overflow within three messages,
and the limit is reached within two rounds.  Three participants (two agents and
an observer, or one agent and two connections for its name) are enough for each
kind of interaction the hub has: sender, addressee, third party; old and new
holder.

`MaxNow` of `Watchdog` is 3 with timeouts of 0 and 1: every limit passes, after
less than half of the behaviour, and an episode can follow an episode.  `MaxDay`
of `HubProcess` is two midnights, so that a start finds its ids in today's file,
in yesterday's, or in none; `MaxId` 2 and `MaxFaults` 1 give each order of a
say, a failed or cut append, and a restart.  `MaxConn` bounds the connections of a
stream: with two there is an outage, a rejoin, and requests of the first
connection that meet the second.  Two says meet each other's numbers, a say and a
state meet the reader and the main thread.  `MaxNow` and `MaxSays` bound the gate:
seven seconds are two rate windows and three dedup windows, and six takes are
three times the burst.  `MaxMsg` of `Session` is two lines, one before and one
after a hand-over.  `MaxDay` of `ObserverSeat` is five messages, three of them from
before the seat joined, for a ring and a backlog of two; `MaxLine`, `MaxPoll`, `MaxEvent` are two typed lines, one poll
and one event among them.  In `OpenCode`, `MaxMsg` is two messages for a hold of
one, with one outage, one say and one turn of a person's own.

### Runs

| run | instance | checks |
|---|---|---|
| `MCHubFloor` | agents `a` and `b` (which cannot report idle), observer `o`, who stay; freeze, resume by n, reset, mute, goal; limit 2 | `LimitFreezes`, `KeepsTheFloor`, `RoundsCountWakes` |
| `MCHubMail` | private and open says, late joiners, expiry, restarts; caps of 2 and 1, window of 2 | `TypeOK`, `OldestFirst`, `PrivateStaysPrivate`, `NothingLostInSilence`, `ObserversSeeAll`, `KeepsTheFloor` |
| `MCHubChurn` | agents `a` and `b` that finish and leave, an observer that wants the name `a` and what waits for it, outbound queue of 1 on the first; failures, bye, pings, silence | `OneNameOneConnection`, `IdleMeansDrained`, `SessionDoneNotMissed` |
| `MCHubLive` | a fair watchdog, one agent that comes and goes, one that cannot report idle | `GoneIsReaped`, `QueuedIsHandedOver` |
| `MCWatchdog` | agents `a` and `b` (silent at times, its connection may end), observer `o`; says, refusals, blocked on two things | `SignalsWhenDue`, `OnlyTheSilentAreDropped` |
| `MCProcess` | two processes, two homes, kills, a failing append, two midnights | `HomeIsItsOwn`, `HistoryKept`, `RendezvousKept` |
| `MCSayGate` | two messages, burst 2, 2 tokens in 3 s, dedup window of 2 s | `RateBound`, `NoTwins`, `RefusalsAreFair` |
| `MCStreamSays` | two says; timeouts, frames the renderer fails on, one rejoin, two attempts in an outage | `StreamTypeOK`, `NoSayParkedInGap`, `AnswersMatch`, `RejoinFindsNameFree` |
| `MCStreamLive` | a say that never times out, a state report, a signal, one rejoin | `StateReachesHub`, `SayAnswered`, `OutageEnds` |
| `MCSession` | two streams, two readers, two deliveries, each kind of mishap | `SocketServes`, `LinesShownOnce`, `BusyAtHandOver`, `ReadInTheEnd` |
| `MCSeat` | one seat in either mode, one peer, five messages | `RingIsComplete`, `AnswersFindTheirAsker`, `KnowsTheFloor`, `SeatEnds` |
| `MCPlugin` | two sessions of a person, one of a subagent; refused prompts, unreadable frames, an outage | `HubKnowsTheTurn`, `TextsReachTheModel`, `NothingHangs` |

Where a property is a conjunction, its parts are named definitions with a comment
each, and each part has a slip of its own; the type invariants of `SayGate`,
`Watchdog`, `HubProcess`, `Session`, `ObserverSeat` and `OpenCode` are among these
parts.

Deadlock is not checked where a behaviour may end: the stream's process, the
seat and the plugin come to an end, and the gate and the watchdog stop at the
last instant of their clock.

### Fairness

* `Hub`: `LiveSpec` assumes only that every live registration is visited again
  and again by the watchdog, and that a visit finds `assume_idle_after` passed:
  `_watchdog_loop` runs for ever, survives a failing tick (`server.py:169-176`),
  and nothing but a say, a busy report or a new delivery restarts that timer;
  `MCHubLive` has no busy reports (see section 4).  Nothing is assumed of the
  peers, of their read loops or of their writers.  Messages are bounded by
  `MaxId`, so a queue that other says keep filling is not examined beyond that
  bound.
* `StreamSpoke`: the threads are scheduled, and a hub which has not closed a
  connection reads what was sent on it.  `SAY_TIMEOUT` is switched off
  (`Impatient`), so `SayAnswered` shows that no say depends on it to end.  A hub
  that stays away is covered: the attempts of an outage are bounded by the
  code's own budget.
* `Session`: the session keeps reading, a stream that has been started runs, and
  the hub hands over.  The last is strong fairness, because idle reports and busy
  reports alternate: the hub drains the queue while it handles the idle report
  (`hub.py`, `handle_state`), so the busy report behind it on the same connection
  cannot overtake the delivery.
* `ObserverSeat`: both threads are scheduled; the input thread finishes what it
  has begun and sees the wake pipe.  Nobody has to type.

The other modules have no liveness property and assume no fairness.

### Slips

Each `Slip...` operator in a module is a mistake that could be made in the
definition below it; `PROJECT.json` ("mutants") pairs it with the property that
notices it.  Nothing in the specification uses them.

| slip | mistake | noticed by |
|---|---|---|
| `SlipEnqueueUnbounded` | a full queue grows | `TypeOK` |
| `SlipOverhearUncounted` | an evicted line is not counted | `NothingLostInSilence` |
| `SlipSliceContextAll` | a partial slice drains the whole context | `OldestFirst`, `KeepsTheFloor` |
| `SlipWokenBusy` | a say wakes an agent that is busy | `KeepsTheFloor` |
| `SlipRoundLimitDecidesAlone` | a manual freeze is undone by the limit check | `KeepsTheFloor` |
| `SlipAsideOfPrivate` | a private say is overheard | `PrivateStaysPrivate` |
| `SlipMayReadAll` | the backlog is not filtered | `PrivateStaysPrivate` |
| `SlipSeatsNotPrivate` | observers do not get private says | `ObserversSeeAll` |
| `SlipStateUnflushed`, `SlipJoinUnflushed` | an agent becomes idle without a flush | `IdleMeansDrained` |
| `SlipResumeFromLimit` | resume by n adds to the limit although the round is past it | `LimitFreezes` |
| `SlipRoundPerRecipient`, `SlipAskedByNotes` | rounds counted per recipient; notes counted | `RoundsCountWakes` |
| `SlipFlushUnchecked`, `SlipDisconnectUnchecked` | a flush or a disconnect does not look for the end of the session | `SessionDoneNotMissed` |
| `SlipHoldsByName` | any connection that once had the name gives it up | `OneNameOneConnection` |
| `SlipBootFromZero` | a restarted hub numbers from 1 | `OldestFirst` |
| `SlipOverdueOnlyByPong` | the watchdog does not look at the transport | `GoneIsReaped` |
| `SlipInfersTheCapable` | idle is inferred for the wrong agents | `QueuedIsHandedOver` |
| `SlipReclaimed` | a newcomer inherits the stamps of the dead | `SignalsWhenDue` |
| `SlipQuorum` | a say at the instant of the question counts as an answer, and so does nobody's | `SignalsWhenDue` |
| `SlipTouch` | activity does not lift the stall latch | `SignalsWhenDue` |
| `SlipHandleBlocked` | a repeated report starts a new episode | `SignalsWhenDue` |
| `SlipHeard` | a frame does not end the wait for a pong | `OnlyTheSilentAreDropped` |
| `SlipMayLock` | nobody looks at the lock | `HomeIsItsOwn` |
| `SlipPointsHere` | a stopping hub removes the pointer whatever it says | `RendezvousKept` |
| `SlipGone` | the lock outlives a process that was killed | `HistoryKept` (types) |
| `SlipRecentMsgs` | a start reads today's file only | `HistoryKept` (`IdsAscend`) |
| `SlipRecordStart` | no session record is written first | `HistoryKept` (`LossFollowsFault`) |
| `SlipNextSeq` | a say takes the number of an entry that has gone | `AnswersMatch` |
| `SlipAfterPump` | any failure of the reader is retried like an EOF | `RejoinFindsNameFree` |
| `SlipRefuses` | a say is refused only when the stream is closed | `NoSayParkedInGap` |
| `SlipUnregistered` | a say leaves its entry behind | `StreamTypeOK` |
| `SlipFailNobody` | the end of a connection fails no say | `SayAnswered` |
| `SlipCtlEnded` | the reader ends without the accept loop | `OutageEnds` |
| `SlipAdopt` | the swap does not take the state to replay | `StateReachesHub` |
| `SlipRefill` | the bucket has no cap | `RateBound`, `RefusalsAreFair` (types) |
| `SlipOnRecord` | the dedup window is open at its end | `NoTwins` |
| `SlipRecorded` | a refused repeat renews the record | `RefusalsAreFair` (`NoGrudge`) |
| `SlipMissing` | the wait is rounded down | `RefusalsAreFair` (`RetryAfterSuffices`) |
| `SlipUnlink` | the name is given up before the socket | `SocketServes` |
| `SlipRejoin` | a rejoin takes the name whoever holds it | `LinesShownOnce` (types) |
| `SlipMark` | the cursor goes to the end of the file, not of what was read | `LinesShownOnce` (`NothingSkipped`) |
| `SlipMarkStart` | the cursor stays | `LinesShownOnce` (`OnceEach`) |
| `SlipReportBusy`, `SlipReportIdle` | a reader does not report | `BusyAtHandOver`, `ReadInTheEnd` |
| `SlipRegister` | the echo is registered after the send | `RingIsComplete` (`RingMissesNothing`) |
| `SlipRecent` | ring and transcript are put together by count | `RingIsComplete` (`LastLeavesNoGap`) |
| `SlipReadErr` | a refused say is still owed its echo | `AnswersFindTheirAsker` (`EchoIsOwed`) |
| `SlipPollSeq` | polls take the numbers of lines | `AnswersFindTheirAsker` (`PollsStayQuiet`) |
| `SlipReadRoster` | a roster is taken over with the seat itself among the peers, and its line is never shown | `KnowsTheFloor`, `AnswersFindTheirAsker` (types) |
| `SlipWake` | the reader ends without waking the input thread | `SeatEnds` |
| `SlipRestated` | the state is not reported again after a welcome | `HubKnowsTheTurn` (`StateRestated`) |
| `SlipStale` | no report while a prompt is under way | `HubKnowsTheTurn` (`NotStuck`) |
| `SlipInjectSoon` | a text overtakes the chain | `TextsReachTheModel` (`ReadInOrder`) |
| `SlipHold` | a full hold drops the newest, and does not count them | `TextsReachTheModel` (`DropsAreTold`) |
| `SlipFresh` | one session is briefed, not each | `TextsReachTheModel` (`BriefedFirst`) |
| `SlipFailPending` | the end of a connection fails no say | `NothingHangs` (`SayHasAnswer`, types) |
| `SlipSchedule` | an attempt that found nobody is the last | `NothingHangs` (`NeverStranded`) |

## 3. Proofs

Every safety property that a run checks is a theorem, two of them under a condition
(`RoundsCountWakes`: names keep their kind; `StateReachesHub`: hooks do not overlap),
and so is the refinement of `Floor` by `Hub`.
The theorems are about every value of the constants: numbers of participants,
connections, processes, homes and requests, caps, windows, timeouts, rates, and the
bounds themselves.  The bounds stay in the guards, and since any value of
them is allowed, every finite behaviour of the unbounded system is one of the
system with some bound.

### The hub

`HubProofs` proves, for every value of the constants that the assumptions of
`Mailbox` and `Hub` allow (finite set of names, caps and limits positive):

* `HubIsTyped`: `Spec => []TypeOK`
* `OneConnectionPerName`: `Spec => []OneNameOneConnection`
* `IdleAgentsAreDrained`: `Spec => []IdleMeansDrained`
* `LimitMeansFrozen`: `Spec => []LimitFreezes`

All four follow from `Invariance`: `Spec => []Inv(hub)`, where

    Inv(h) == Typed(h) /\ Linked(h) /\ IdleDrained(h) /\ LimitFrozen(h)

`Linked` is the strengthening that `OneNameOneConnection` needs to be inductive:

* `Exclusive`: a connected, named connection holds the live registration of its
  name (the property itself);
* `Owned`: the client of a live registration is a connection that carries that
  name, so that a `disconnect` of a connection can only be the one of its
  holder, and a hello that reaps reaps the right one;
* `Blank`: a free connection has no name, so that `Connect` starts from nothing.

Without `Owned` the step of `ReadHello` fails: a reap through
`h.reg[n].client` might cut the connection of somebody else.

`IdleDrained` needs the caps in `Typed` (a slice of a queue is a queue) and
nothing else; a flush that hands over makes the agent busy, a flush that does
not was not needed.  `LimitFrozen` is kept because each increment is followed by
`CheckRoundLimit` and `ResumedLimit` is above the round.

The argument follows the code.  For each operator that stands for a method there
are lemmas that say what it keeps: that it keeps `Typed`, that it keeps the
registration links, that it leaves every other participant's state and queue
alone, what it does to the round.  A handler's lemma composes those of the
methods it calls, an action's lemma those of its handler, and the step theorem
has one case for each action of `Next`.  The first section of the module
holds the facts about sequences and the buffers.

The second half of `HubProofs` proves, with one more assumption on the inputs:

* `OldestFirstAlways`: `Spec => []OldestFirst`
* `PrivateStaysPrivateAlways`: `Spec => []PrivateStaysPrivate`
* `SessionDoneNotMissedAlways`: `Spec => []SessionDoneNotMissed`

from `MailInvariance`: `Spec => [](Inv(hub) /\ Upheld(hub))`, where

    Upheld(h) == Mail(h) /\ ~SessionOver(h)

`OldestFirst` and `PrivateStaysPrivate` speak of what was handed over in the last
step.  The next flush takes from a mailbox about which they say nothing, so `Mail`
describes the mailboxes:

* `Sound`: in a queue and in a context buffer ids ascend (placeholder lines, which
  have id 0, apart), none is over the counter, no message is in both, and a
  private one is in the mailbox of its addressee only;
* what was handed over in this step is not over the counter, so that what a later
  call of the same handler puts into a mailbox is newer;
* `Apt`: what was handed over is private to its receiver, and older than every
  wake that still waits for him;
* `Chronicled`: the recent window ascends and is not over the counter, which is
  what a late joiner is given, and what a restart numbers from.

The heart is `FlushQueueUpheld`: a flush hands over the oldest slice, so what is
left is newer than what went.  That is arithmetic on the merge of queue and
context by id, which the lemmas about `SubSeq`, `Suffix` and `SliceContext`
carry.  `~SessionOver` is inductive on top, because each method that finishes an
agent, empties a queue or removes a registration ends in `CheckSessionDone`; the
lemmas say of all others that they do none of these (`Quiet`, `Calm`).

The assumption is `PrivacyAssumption` in `Hub`: a private say names its reader.
`validate_say` rejects any other before it reaches the hub (`core/proto.py:133-137`),
and without it `PrivateStaysPrivate` is false, since a private say to everyone
would be one.

`HubFloorProofs` proves the refinement:

* `FloorIsKept`: `Spec => KeepsTheFloor`, that is `Spec => TheFloor!Spec`

by induction over the two invariants and one more, `Evened`: a mailbox without
queued wakes has no count of dropped ones.  `Evened` is needed where an agent that
waits is handed a message: it gets what is new and all it has overheard, and the
floor asks that its losses are told and settled with that; the hub announces
dropped wakes only with queued ones, so there must be none without.

The proof sorts the operators of `Hub` by what they do to the seats.

* `Level`: nobody but those named changes place, nothing is put into a mailbox or
  taken out, no id is given, the floor is not opened.  Replies, events, pings,
  marks, the round limit, the end of a session, and the loss of a connection are
  level for the participant they are about.  This is where `Owned` comes in: an
  overflow cuts a connection, and that of another agent is not among those a
  handler writes to.
* `Tends` and `Turns`: but for one participant all is as it was, and its mailbox
  stays, gives a slice, or goes from nobody to somebody or back.  The flush, the
  state report, the hello, the visit and the expiry are such, and `TurnTaken` shows
  that this is a `TakeTurn`.  `SliceHands` is the arithmetic of it: what a
  slice leaves is newer than what it hands over.
* `Reached` and `Woke`: what a message does to others.  `AcceptReaches` follows a
  say through context, wakes and queue and finds each other seat left alone,
  given one more number, or emptied because its agent was waiting; `SaySeats`
  joins that with the flush of the sender, and `SayOnFloor` makes it a `Say`.
* `Noted`: a note of the hub's own reaches all agents, one number each, which is
  an `Announce`; the goal is a line without a number, a `Remark`.
* A connection that belongs to nobody moves nobody (`LevelOnFloor`), a restart is a
  `Crash` because the tail of the transcript is not over the counter
  (`Chronicled`), and only `resume` and `reset` open the floor (`CmdOnFloor`).

The module also proves three action properties of `HubProps`:

* `NothingLostAlways`: `Spec => NothingLostInSilence`
* `ObserversSeeAllAlways`: `Spec => ObserversSeeAll`
* `RoundsCountWakesAlways`: `Spec => RoundsCountWakes`, if no name is claimed by peers of
  both kinds (`KindsKept`)

The floor keeps sets of numbers and one count for each seat; `NothingLostInSilence`
speaks of the two counts apart, of what was told in which of the two notices, and of
observers too, so it does not follow from the refinement.  It is proved along it: the
lemmas that say what a step does to a seat say of the same step that each box `Fares`
well (`Spared`).  A box that stays, loses nothing; one that takes a message loses at
most its oldest, which is on the count (`FilledFares`, where the order of `Sound` makes
the one pushed out a single number); one that gives a slice hands over, with the count,
what is gone from it (`SliceTakes`, `SlicedFares`); one that is emptied for an agent
that waits hands over all it overheard (`WholeFares`).  `Evened` is needed once more:
an emptied box has no wakes, and must have no count of dropped ones either, which
would be cleared untold.

The floor has no observers, so `ObserversSeeAll` is a theorem of its own, from the
type alone.
`Adds` says of every operator that what it reports is never taken back and that it
records no say; `AcceptAdds` that an accepted say records itself once and is handed
to all `Seats`.  So only the step of a say records one (`OnlySaysRoute`), and what
follows the routing in it, the flush of the sender or the end of the session, leaves
that record and those deliveries in place (`SaysAreSeen`).

`RoundsCountWakes` compares the counter with what the transcript says was handed over:
one for a say that woke agents, however many, and one for each agent that was flushed a
wake it had waiting.  The two are kept by different code, the counter by `_route_say` and
`_flush_queue`, the hand-overs by `_deliver_to` and the slices, so the invariant has to say
that the labels are right (`Tidy`): only wakes are in a queue, context is all
"overheard", an observer has no queue, and a registration has the kind its name is
claimed with.  A step is then followed through its operators with what it has handed
over so far on account (`Bill`): an operator that wakes nobody leaves the account
as it is (`StillBill`), a say adds one line (`AcceptBill`), a flush another
(`FlushQueueBill`), a restart or the end of the session may clear the counter but not
what is charged after it (`CheckSessionDoneAlike`, `JoinSettled`), and a handler ends with
the account settled (`NextSettled`, `SettledCounts`).  `KindsKept` is needed because
`handle_hello` gives a dead agent's queue to whoever claims the name: an observer that
does is flushed wakes, and charged for them, which section 4 sets against the protocol.

### The watchdog

`WatchdogProofs` proves, for every set of agents and observers, all timeouts, caps,
says and reports:

* `SignalsWhenDueAlways`: `Spec => SignalsWhenDue`
* `OnlyTheSilentAreDroppedAlways`: `Spec => OnlyTheSilentAreDropped`

from `WatchdogInvariance`: `Spec => []Inv`.  The properties compare what a tick does
with what a listener recalls (`past`), so `Inv` says that the two keep the same books:

* `Polled`: the agents asked, when, and whether the quorum has fired are the hub's
  `expected`, `asked` and latch, and those who have answered are the agents whose last
  say is later than the question.  An expiry forgets both sides of it, since the
  registration goes with its stamp; a say at the instant of the question counts on
  neither side;
* `Hushed`: the calm began at the last activity, and the stall has rung since then just
  when the latch is set;
* `Followed`: an agent is blocked since the stamp of its episode, on its detail, and was
  cried just when it is in `_blocked_notified`.  That set may keep the names of agents
  that are no longer blocked, which `Followed` leaves open; and who was cried had been
  blocked for longer than `blocked_after`, without which an agent blocked anew at the
  instant of its last cry could be mistaken for one that was cried;
* `Sane`: only the live are connected, and a ping is out only after the silence of
  `dead_after`, with a deadline `pong_timeout` later.  `OnlyTheSilentAreDropped` is that
  sum; every frame and every reclaim takes the ping back, or it would be false.

Within a step the books are a step apart, so the proof follows a handler by what it has
logged so far: `Calm` (the activity is stamped if and only if something stirred),
`Lasting` (an episode goes on, is cried, ends, or begins), `Votes` (nothing that decides
a quorum has changed).  Each operator of the model has a lemma that it keeps these
and touches one name (`Own`), the lemmas about `Recall` close the step,
and an accepted say, which moves the votes, and the tick are taken apart on their own.

### The say gate

The last part of `HubProcessProofs` proves, for every burst, rate, window and set
of messages, of the specification `GateSpec` of `SayGate`:

* `RateIsBounded`: `GateSpec => []RateBound`
* `TwinsAreApart`: `GateSpec => []NoTwins`
* `RefusalsAreFairAlways`: `GateSpec => []RefusalsAreFair`

from `GateInvariance`: `GateSpec => []GateInv`.  `RateBound` speaks of pairs of takes
and does not mention the tokens, so it says nothing of the next take.  `Budget`
does: from any take to now, the tokens taken and the tokens left are covered by
the burst and the refill since.  A refill keeps it because the cap only lowers
the tokens, a take moves one token from one side to the other, and what is left
is not negative: that is `RateBound` for the new pair.  `NoTwins` needs
`Remembered`: a say that passed within the window is still on record, so a say
that passes now has none like it in the window.

`RefusalsAreFair` needs the two converses.  `Founded`: what is on record was sent,
at the time on record, so nobody is refused for a say that was itself refused.
`ToldTrue`: as long as no take came after a refusal for the rate, it was the last
refill, and what it said was missing makes a whole token with what is there; so
the wait that was announced, rounded up, is enough.

### Hub processes

`HubProcessProofs` proves, for every set of processes and homes:

* `HomeIsItsOwnAlways`: `Spec => []HomeIsItsOwn`
* `RendezvousIsKept`: `Spec => RendezvousKept`, an action property
* `HistoryIsKept`: `Spec => []HistoryKept`

from `ProcessInvariance`: `Spec => [](Floor /\ History)`.  `Floor` is about the
files: who works on a home has its lock (`Locked`), the socket file is what the
owner's step has made of it (`Listens`), and a process that clears the pointer has
found its own home in it and leaves it behind elsewhere (`Parted`).  `Locked` is
what makes the rest hold under interleaving: a step of one process cannot change
what another has made of the same home, because the two would be one (`Alone`).

`History` is about the transcript: ids ascend within a file and from one day to
the next (`InOrder`), the owner that has read the tail counts from above what is
in it, whatever midnights fall between (`Ahead`), and what was accepted and cannot
be read back is paid for by faults (`Accounted`).  The last needs its second half: a
torn tail in the file of an open hub is a fault that has not yet cost a say, which
is how one fault can take the say glued to it but not two.

### The stream

`StreamSpokeProofs` proves, for every number of says, hooks and connections:

* `StreamTypeOKAlways`: `Spec => []StreamTypeOK`
* `NoSayParkedInGapAlways`: `Spec => []NoSayParkedInGap`
* `AnswersMatchAlways`: `Spec => []AnswersMatch`
* `RejoinFindsNameFreeAlways`: `Spec => []RejoinFindsNameFree`

from `StreamInvariance`: `Spec => []Inv`, where

    Inv == Typed /\ Linked /\ Supervised /\ Registered /\ Heeded

* `Typed`: what is in flight on a link is well formed, and an answer names the say
  whose number it carries;
* `Linked`: the stream owns the newest link or is about to adopt it, and the hub
  has let go of all before it, which is what frees the name;
* `Supervised`: the reader tries again only after an end that may be retried, and
  a stream that is live has a reader on its link;
* `Registered`: the entries of `pending` are exactly the says under way, each under
  its number, and no two says have one number;
* `Heeded`: a say that waits without an answer waits on the link of a reader that
  will answer or fail it.

Of what the hub knows of the session's state it proves

* `StateReachesHubApart`: `Spec /\ []Apart => []StateReachesHub`

where `Apart` says that no two hooks are between caching their state and sending it.
`Apart` is a condition on the hooks, not on the stream: hooks of one session follow
each other in practice, nothing in the code makes them, and without it two reports
overtake each other (section 4).  The instance of `MCStreamSays` has one hook, which is a
case of it; the theorem has any number, that come and go on any connection.  The
invariant is `Relayed`: wherever the reader is between a welcome and the end of its
connection, the newest connection carries or has delivered the state cached last, or
the hook that cached it is about to send it there, or cached it in the window the
property leaves out; and while the reader rejoins, nobody is about to send.

### The session

`SessionProofs` proves, for every number of streams, readers and messages:

* `SocketServesAlways`: `Spec => []SocketServes`
* `LinesShownOnceAlways`: `Spec => []LinesShownOnce`
* `BusyAtHandOverAlways`: `Spec => []BusyAtHandOver`

from `SessionInvariance`: `Spec => []Inv`.  The three relate things that different
processes write, so `Inv` has a part for each pair that must agree:

* `Seated` and `Unharmed`: hub and streams agree on who holds the name, a stream that
  runs holds it, and one that serves has the path.  The name is given up after the
  socket, so two streams that serve would both hold the name;
* `Counted`: a message is in the hub's queue, on its way, or in the inbox, never in
  two of them; only one dropped stream can still have something on its way;
* `Found` and `InBounds`: what a reader knows of the inbox is no more than there is;
* `Covered`: a line behind the cursor, *or behind where some reader began*, was printed
  or is about to be.  The second half is what makes it inductive: a reader that marks
  moves the cursor over what it read since its own start, not since the cursor;
* `Alone` and `Fresh`: a reader by itself began at the cursor, and what lies beyond
  was shown to nobody;
* `Busy`: a reader with lines in hand has reported busy, and before a stream serves
  the first delivery has made the session busy.

Each holds as long as certain mishaps have not happened, as the properties do, and
mishaps are never forgotten.

### The observer seat

`ObserverSeatProofs` proves, for every set of peers, ring and backlog:

* `AnswersFindTheirAskerAlways`: `Spec => []AnswersFindTheirAsker`
* `KnowsTheFloorAlways`: `Spec => []KnowsTheFloor`
* `RingIsCompleteAlways`: `Spec => []RingIsComplete`

from `SeatInvariance`: `Spec => []Inv`, where

    Inv == Typed /\ Numbered /\ Owed /\ Ended /\ Told /\ Kept

The properties speak of the two queues between seat and hub only where those are
empty, or of what the seat will make of them; the invariant speaks of every frame.

* `Numbered`: a sequence number is in one place, with the seat, on the way to the
  hub or on the way back; so an answer that settles a number settles no other.
* `Owed`: the echoes owed are those of the says under way, in the order register,
  send, answer, settle; a say the input thread has yet to register is not there.
* `Told`: the *last* frame on the way about a peer, or the goal, says what holds at
  the hub, and without one the seat knows.  A roster speaks of all peers, an event
  of one, so the last about one peer may be before the last about another.
* `Kept`: the ring, then the frames, ascend and have every message from the welcome
  on (`From`), but for those the ring had no room for.

`LastLeavesNoGap` follows from `Kept` without further steps of the system: the last n
of an ascending sequence without gaps is an interval (`RisingInterval`, by counting,
since induction over sequences is out of reach), the ring is such a sequence, and
the transcript is ahead of it by what is on its way (`RingRuns`, `RecentRuns`).

The assumption is `SeatAssumption` in `ObserverSeat`: the name `"me"` of the seat is
not that of a peer, since a name is registered once.

### The OpenCode spoke

`OpenCodeProofs` proves, for every set of sessions, every cap and all bounds:

* `HubKnowsTheTurnAlways`: `Spec => []HubKnowsTheTurn`
* `TextsReachTheModelAlways`: `Spec => []TextsReachTheModel`
* `NothingHangsAlways`: `Spec => []NothingHangs`

from `SpokeInvariance`: `Spec => []Inv`, where

    Inv == Typed /\ Sound(Now) /\ Settled(Now) /\ Followed /\ Linked

Its two halves, the texts and the connection, meet in few steps, so each handler is
taken apart into what it does to either.

* `Sound` places every text that arrived: posted, under way, in the chain, held, or
  dropped (`Counted`: as many as the two counters say).  Order within what was
  posted is not inductive; `Ordered` has it from there through the text under way to
  the end of the chain.  `Apart` is why there may be two lots: texts are held before
  the first session only, and while some are, no text that was ever held is in the
  line.  `Instructed` ties the sessions that are marked as briefed to the prompts
  that carried the rules, with the one that is being prepared in between.
* `Settled`: when no text is under way the chain is empty.  Without it a text could
  wait for an arrival that never comes.
* `Followed`: the plugin thinks it has reported busy just when the session with the
  seat is in a turn, and the text under way is that session's as long as the seat has
  not changed hands.
* `Agreed` is about one connection: before the welcome is read either the hello is
  all there is, or the hub has the name and the welcome is the next frame down; after
  it the hub has the name for as long as its side is open.
* `Awaited` is what `NotStuck` needs.  A hub that takes the agent for busy is owed the
  report idle: the report is on the way up, or a deliver is on the way down, a text
  has still to be read, or a turn is on.  Each of these hands over to the next in one
  step, a prompt that is picked up, for instance, to the turn it begins.

The handlers share their operators (`Advance`, `Post`, `Hold`, `Arrives`), and so do
the proofs: one lemma says what a move of the chain does (`AdvanceMoves`), and every
frame, note and end of a turn cites it.  The assumption is `PluginAssumption` in
`OpenCode`: sessions of persons and of subagents are told apart, and something can be
held (`HELD_CAP` is 100, `opencode/lib.ts:43`).

### What is not proved

Model-checked only:

* liveness, which is out of reach of the installed provers: `GoneIsReaped`,
  `QueuedIsHandedOver`, `SayAnswered`, `OutageEnds`, `SeatEnds`, `ReadInTheEnd`;
* `RoundsCountWakes` when a name is claimed by peers of both kinds, where it is false
  (section 4);
* `StateReachesHub` when two hooks send at once, where it is false (section 4).

`SubSeq`, `Append` and the other operators on sequences are those of the standard
modules, with the facts of `SequenceTheorems`.  That two connections receive the
frames of one step in some order is not modelled, and not proved about.

## 4. Where code and documents differ, and what the properties leave out

These were met in the code while it was modelled.  Where a property would fail on
one of them, it names the case as an exemption, and TLC finds the failure when
the exemption is taken out.

Hub.

* PROTOCOL.md:113, "A non-`done` say lifts the sender's mark": `handle_say`
  flushes before it lifts, and the flush may end the session on the strength of
  the old mark (`hub.py:452-459`).
* PROTOCOL.md:101, "exactly one `ok` or `err` per accepted/rejected `say`": a
  frame that arrives on a connection whose name was reclaimed is attributed and
  answered to the new holder (`hub.py:934`).
* An observer that reclaims the name of a dead agent gets the agent's queue
  flushed, and that costs a round (`hub.py:338-342`, `418-419`, `261-264`), against
  PROTOCOL.md:285 "Observer deliveries and system messages never count".
  `RoundsCountWakes` is checked on an instance (`MCHubFloor`) and proved under an
  assumption (`KindsKept`) in which a name keeps its kind; in `MCHubChurn` an observer
  claims the name of an agent.
* Messages leave the mailbox before `send`, which drops them if the outbound queue
  is full (`hub.py:253-263`, `server.py:54-62`), so a reclaim after an overflow does
  not resume "without loss" (ARCHITECTURE.md:160).
* A busy report restarts the timer of the idle inference (`hub.py:703-704`); an
  agent that cannot report idle and reports busy often enough is never taken for
  idle, against the reading of PROTOCOL.md:309-312.  `MCHubLive` has no such
  reports.

Hub process.

* OPERATIONS.md:37-40 has the pointer of a second hub "never deleted by the first
  one's exit"; `clear_current` reads, compares and unlinks in three steps, and a
  hub that starts in between loses its pointer (`home.py:46`).  `RendezvousKept`
  allows it to a hub that has found its own home in the file.
* If the file has gone when `clear_current` reads or unlinks it, the error skips
  the removal of the goal and the record of the end.
* A hub that was killed leaves its goal file, and `moot brief` states it.
* Two hubs that write the pointer at once can leave a mixture of two paths
  (`Blank`).
* The ids of system notes are reused after a restart (`hub.py:108-109`), and those
  of two idle days ago are too: the tail is that of yesterday and today.
  OPERATIONS.md:159 speaks of a day.
* `recent_msgs` reads the clock twice; across midnight it reads the day before
  yesterday and tomorrow.
* Each append that fails part-way may take one accepted say with it
  (`LossFollowsFault` counts one per fault).

Stream and inbox.

* ARCHITECTURE.md:174, "`moot stream` outlives the hub it joined", and the exits
  listed at `stream.py:97-100`: an `OSError` in `recv` (`stream.py:109`), in the
  pong (`131`) or in the replay of the state (`181`) ends the process without a
  retry.
* `stream.py:230`, "A state a hook reports is never lost": a report between the
  snapshot of `_adopt` and `live.set` is neither sent nor replayed
  (`stream.py:176-182`).  `StateReachesHub` leaves out exactly the reports cached in
  that window.  Two reports of two hooks may be cached in one order and sent in
  the other (`stream.py:232-237`); the instance has one hook, and the theorem assumes
  that no two are between the two lines (`Apart`).
* `ctl.py:134-141` speaks of a shutdown from a signal handler at any point; one
  signal that interrupts another's shutdown may write to a wake socket that is
  closed.
* A second stream of a session that says hello during an outage wins the name; the
  first is refused and, as it ends, unlinks the control socket of the second.
  `SocketServes` leaves out what follows a lost connection.
* A reader that is cut off between the cursor and its output loses those lines
  (`inbox.py:71`), and two that write the cursor at once may garble it
  (`NothingSkipped`, `OnceEach`).

Observer seat.

* `/last n` in line mode omits the seat's own says once the ring holds n others;
  in the terminal it may skip with two messages on the way and a short ring, and
  it leaves out what the seat said before it rejoined (`hub.py:405`).
  `LastLeavesNoGap` states these as its conditions.  `/last 0` returns the ring.
* The terminal's sends and its bye are not guarded: a hub that closes between the
  check of `closed` and the send ends the seat with a traceback.
* In line mode a reader that fails on a pong leaves `closed` unset, and the seat
  goes on without a reader; `SeatEnds` is about the terminal.
* A peer that left is refused by the seat although the hub would queue for it.

Plugin.

* After a refused prompt the hub holds the spoke for busy: `reported` stays idle,
  so no later transition is seen, and a spoke with idle events is not inferred
  idle.  The same follows when the seat goes to another session while a delivery
  is on its way to the first.  `NotStuck` leaves out these two (`past.failed`,
  `past.moved`).
* `moot.ts:110`, "arrival order is the reading order": texts held for a first
  session are flushed only at its first idle, behind texts that came after it was
  heard of.  `ReadInOrder` orders each of the two kinds.

## 5. Not modelled

* Wire validation (`core/proto.py`): pure functions on frame contents; `Hub` has
  their outcome.
* Rendering, the terminal's editor and drawing, `moot brief`, `moot log`,
  `moot doctor`: output, without state that outlives a call.
* Configuration, argument parsing; the desktop notifier, which is external.
* The wall-clock budgets of a closing connection (`_finalize`, the drain after an
  oversized frame) change nothing in the hub; "Hub connections" stays partly
  modelled for them.
* Of the hub process: permissions, `--transcripts`, the warning about a pointer.
* Of the control socket: the wake socket pair, path length and permissions.
* Of the observer seat: the texts and the queries that only read.
* Of the plugin: `resolveHome`, pings, the log.

## 6. Plan

Done: `Mailbox`, `Hub`, `HubProps`, `HubProofs`, `Floor`, `HubFloor`,
`HubFloorProofs`, `SayGate`, `StreamSpoke`, `StreamSpokeProofs`, `Watchdog`,
`WatchdogProofs`, `HubProcess`, `HubProcessProofs`, `Session`,
`SessionProofs`, `ObserverSeat`, `ObserverSeatProofs`, `OpenCode`, `OpenCodeProofs`.
What is left of the code is in section 5, and what is not proved in section 3.
