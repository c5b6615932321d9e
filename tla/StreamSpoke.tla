---------------------------- MODULE StreamSpoke ----------------------------
(***************************************************************************)
(* The process moot stream (cli/stream.py, spoke/conn.py): one connection  *)
(* to the hub, owned by a reader thread that rejoins when the hub goes     *)
(* away; the main thread, which runs the accept loop of the control socket *)
(* until a signal or the reader stops it; and a thread for each request,   *)
(* a say that waits for the hub's answer or a state that a hook reports.   *)
(*                                                                         *)
(* Stream._lock is held for short sections that do not wait, so a section  *)
(* is one action.  The events closed, live and stopping are set and read   *)
(* outside of it, one action each.  The hub is external: it reads frames   *)
(* in order, answers a say, pings, and may close the connection any time.  *)
(* The waits (SAY_TIMEOUT, the backoff, the budget of ten minutes, the two *)
(* seconds for the reader at the end) may pass at any moment.              *)
(*                                                                         *)
(* A definition whose name starts with Slip is a mistake one could make in *)
(* the definition that follows it; nothing uses it.                        *)
(***************************************************************************)
EXTENDS Naturals, Sequences, FiniteSets, Functions

CONSTANTS Sayer,       \* requests that say, one thread each
          Hook,        \* requests that report a state; each stands for its frame
          NoFrame,
          Chokes,      \* whether the hub may send a frame the renderer fails on
          Impatient,   \* whether SAY_TIMEOUT may pass
          Signals,     \* whether SIGTERM or SIGINT may come
          MaxConn,     \* bound of the model: connections, the first included
          MaxTries     \* attempts that fit into RECONNECT_BUDGET

ASSUME StreamAssumption ==
  /\ NoFrame \notin Hook /\ Sayer \cap Hook = {}
  /\ Chokes \in BOOLEAN /\ Impatient \in BOOLEAN /\ Signals \in BOOLEAN
  /\ MaxConn \in Nat \ {0} /\ MaxTries \in Nat \ {0}

Request == Sayer \cup Hook

VARIABLES
  links,    \* the connections so far: both ends, what is in flight on each
            \* way, and the last state frame the hub has read
  st,       \* the Stream object: conn (an index of links), live, closed,
            \* stopping, last (_last_state), pending (seq -> say), seq
  reader,   \* the reader thread: pc, held (the state it replays), tries, why
            \* (what ended the supervision)
  req,      \* the request threads: pc, seq, conn, slot (the SimpleQueue), result
  main      \* the main thread: pc, conn, stop (stop_requested), closing
            \* (CtlServer._closing)

vars == <<links, st, reader, req, main>>

Link  == [hub |-> TRUE, own |-> TRUE, out |-> << >>, in |-> << >>,
          heard |-> NoFrame, pinged |-> FALSE]
Gone  == [t |-> "gone", by |-> NoFrame]

\* run_stream up to the start of the reader: connected and welcomed.
Init ==
  /\ links = <<Link>>
  /\ st = [conn |-> 1, live |-> TRUE, closed |-> FALSE, stopping |-> FALSE,
           last |-> NoFrame, pending |-> [s \in {} |-> NoFrame], seq |-> 0]
  /\ reader = [pc |-> "pump", held |-> NoFrame, tries |-> 0, why |-> "none"]
  /\ req = [r \in Request |-> [pc |-> "new", seq |-> 0, conn |-> 0,
                               slot |-> << >>, result |-> Gone]]
  /\ main = [pc |-> "serving", conn |-> 1, stop |-> FALSE, closing |-> FALSE]

Running == main.pc # "exited"

\* sendall raises OSError once either end of the connection is closed.
CanSend(g) == links[g].hub /\ links[g].own
Sent(g, f) == [links EXCEPT ![g].out = Append(@, f)]

-----------------------------------------------------------------------------
(* The hub, external.                                                      *)

HubReads(g) ==
  /\ links[g].hub /\ links[g].out # << >>
  /\ LET f    == Head(links[g].out)
         rest == [links EXCEPT ![g].out = Tail(@)]
     IN  links' = CASE f.t = "say"   -> [rest EXCEPT ![g].in =
                                          Append(@, [t |-> "ok", seq |-> f.seq, by |-> f.by])]
                    [] f.t = "state" -> [rest EXCEPT ![g].heard = f.by]
                    [] f.t = "pong"  -> rest
                    [] f.t = "bye"   -> [rest EXCEPT ![g].hub = FALSE]
  /\ UNCHANGED <<st, reader, req, main>>

HubPings(g) ==
  /\ links[g].hub /\ ~links[g].pinged
  /\ links' = [links EXCEPT ![g].pinged = TRUE, ![g].in = Append(@, [t |-> "ping"])]
  /\ UNCHANGED <<st, reader, req, main>>

HubSendsOdd(g) ==
  /\ Chokes /\ links[g].hub
  /\ \A i \in DOMAIN links[g].in : links[g].in[i].t # "odd"
  /\ links' = [links EXCEPT ![g].in = Append(@, [t |-> "odd"])]
  /\ UNCHANGED <<st, reader, req, main>>

HubCloses(g) ==
  /\ links[g].hub
  /\ links' = [links EXCEPT ![g].hub = FALSE]
  /\ UNCHANGED <<st, reader, req, main>>

-----------------------------------------------------------------------------
(* The reader thread.                                                      *)

SlipFailNobody(p, rq) == rq

\* _fail_pending: only the reader and _fail_pending put into a slot, and both
\* run on the reader thread, so the puts after the lock belong to the section.
FailPending(p, rq) ==
  [r \in Request |-> IF r \in Range(p.pending)
                     THEN [rq[r] EXCEPT !.slot = Append(@, Gone)] ELSE rq[r]]

Reads(t) ==
  /\ reader.pc = "pump" /\ links[st.conn].own
  /\ links[st.conn].in # << >> /\ Head(links[st.conn].in).t = t

Taken == [links EXCEPT ![st.conn].in = Tail(@)]

ReadPing ==
  /\ Reads("ping")
  /\ IF CanSend(st.conn)
     THEN links' = [Taken EXCEPT ![st.conn].out = Append(@, [t |-> "pong"])] /\ UNCHANGED reader
     ELSE links' = Taken /\ reader' = [reader EXCEPT !.pc = "ended", !.why = "oserror"]
  /\ UNCHANGED <<st, req, main>>

\* _hand_to_waiter; an answer nobody waits for is rendered for the model.
ReadAnswer ==
  /\ Reads("ok")
  /\ links' = Taken
  /\ LET f == Head(links[st.conn].in)
     IN  req' = IF f.seq \in DOMAIN st.pending
                THEN [req EXCEPT ![st.pending[f.seq]].slot =
                        Append(@, [t |-> "ok", by |-> f.by])]
                ELSE req
  /\ UNCHANGED <<st, reader, main>>

ReadOdd ==
  /\ Reads("odd")
  /\ links' = Taken
  /\ reader' = [reader EXCEPT !.pc = "ended", !.why = "choke"]
  /\ UNCHANGED <<st, req, main>>

\* The connection has ended: EOF, or ECONNRESET if the hub left frames unread.
ReadEnd ==
  /\ reader.pc = "pump"
  /\ \/ ~links[st.conn].own
     \/ ~links[st.conn].hub /\ links[st.conn].in = << >>
  /\ \E why \in {"none"} \cup
                (IF links[st.conn].out # << >> THEN {"oserror"} ELSE {}) :
       reader' = [reader EXCEPT !.pc = "ended", !.why = why]
  /\ UNCHANGED <<links, st, req, main>>

\* The finally of _pump ...
PumpUnlive ==
  /\ reader.pc = "ended"
  /\ st' = [st EXCEPT !.live = FALSE]
  /\ reader' = [reader EXCEPT !.pc = "failing"]
  /\ UNCHANGED <<links, req, main>>

SlipAfterPump(why) == "check"
AfterPump(why) == IF why = "none" THEN "check" ELSE "leaving"

PumpFails ==
  /\ reader.pc = "failing"
  /\ req' = FailPending(st, req)
  /\ reader' = [reader EXCEPT !.pc = AfterPump(reader.why)]
  /\ UNCHANGED <<links, st, main>>

\* ... and the loop of read_hub.
CheckStop ==
  /\ reader.pc = "check"
  /\ reader' = IF st.stopping THEN [reader EXCEPT !.pc = "leaving", !.why = "stop"]
               ELSE [reader EXCEPT !.pc = "backoff", !.tries = 0]
  /\ UNCHANGED <<links, st, req, main>>

\* stopping.wait(delay) in _reconnect.
Backoff ==
  /\ reader.pc = "backoff"
  /\ reader' = IF st.stopping THEN [reader EXCEPT !.pc = "leaving", !.why = "stop"]
               ELSE [reader EXCEPT !.pc = "connect"]
  /\ UNCHANGED <<links, st, req, main>>

Welcomed ==
  /\ reader.pc = "connect" /\ Len(links) < MaxConn
  /\ \A g \in DOMAIN links : ~links[g].hub
  /\ links' = Append(links, Link)
  /\ reader' = [reader EXCEPT !.pc = "adopt"]
  /\ UNCHANGED <<st, req, main>>

\* A hello refused for good (FATAL_HELLO), or the budget is spent.
GivesUp(why) ==
  /\ reader.pc = "connect"
  /\ reader' = [reader EXCEPT !.pc = "leaving", !.why = why]
  /\ UNCHANGED <<links, st, req, main>>

AttemptFails ==
  /\ reader.pc = "connect" /\ reader.tries + 1 < MaxTries
  /\ reader' = [reader EXCEPT !.pc = "backoff", !.tries = @ + 1]
  /\ UNCHANGED <<links, st, req, main>>

SlipAdopt ==
  /\ reader.pc = "adopt"
  /\ st' = [st EXCEPT !.conn = Len(links)]
  /\ reader' = [reader EXCEPT !.pc = "discard"]
  /\ UNCHANGED <<links, req, main>>

\* _adopt: the swap under the lock; the old connection is closed; the state
\* is replayed, if there is one; then live is set.
Adopt ==
  /\ reader.pc = "adopt"
  /\ st' = [st EXCEPT !.conn = Len(links)]
  /\ reader' = [reader EXCEPT !.pc = "discard", !.held = st.last]
  /\ UNCHANGED <<links, req, main>>

Discard ==
  /\ reader.pc = "discard"
  /\ links' = [links EXCEPT ![st.conn - 1].own = FALSE]
  /\ reader' = [reader EXCEPT !.pc = "replay"]
  /\ UNCHANGED <<st, req, main>>

Replay ==
  /\ reader.pc = "replay"
  /\ IF reader.held = NoFrame
     THEN reader' = [reader EXCEPT !.pc = "golive"] /\ UNCHANGED links
     ELSE IF CanSend(st.conn)
     THEN /\ links' = Sent(st.conn, [t |-> "state", by |-> reader.held])
          /\ reader' = [reader EXCEPT !.pc = "golive"]
     ELSE reader' = [reader EXCEPT !.pc = "leaving", !.why = "oserror"] /\ UNCHANGED links
  /\ UNCHANGED <<st, req, main>>

GoLive ==
  /\ reader.pc = "golive"
  /\ st' = [st EXCEPT !.live = TRUE]
  /\ reader' = [reader EXCEPT !.pc = "pump"]
  /\ UNCHANGED <<links, req, main>>

\* The finally of read_hub.
Leave ==
  /\ reader.pc = "leaving"
  /\ st' = [st EXCEPT !.closed = TRUE]
  /\ reader' = [reader EXCEPT !.pc = "unlive"]
  /\ UNCHANGED <<links, req, main>>

LeaveUnlive ==
  /\ reader.pc = "unlive"
  /\ st' = [st EXCEPT !.live = FALSE]
  /\ reader' = [reader EXCEPT !.pc = "failall"]
  /\ UNCHANGED <<links, req, main>>

LeaveFails ==
  /\ reader.pc = "failall"
  /\ req' = FailPending(st, req)
  /\ reader' = [reader EXCEPT !.pc = "eof"]
  /\ UNCHANGED <<links, st, main>>

SlipCtlEnded(m) == m
CtlEnded(m) == [m EXCEPT !.closing = TRUE]     \* CtlServer.shutdown

LeaveEof ==
  /\ reader.pc = "eof"
  /\ main' = CtlEnded(main)
  /\ reader' = [reader EXCEPT !.pc = "dead"]
  /\ UNCHANGED <<links, st, req>>

Reader ==
  /\ Running
  /\ \/ ReadPing \/ ReadAnswer \/ ReadOdd \/ ReadEnd \/ PumpUnlive \/ PumpFails
     \/ CheckStop \/ Backoff \/ Welcomed \/ AttemptFails
     \/ \E why \in {"refused", "budget"} : GivesUp(why)
     \/ Adopt \/ Discard \/ Replay \/ GoLive
     \/ Leave \/ LeaveUnlive \/ LeaveFails \/ LeaveEof

-----------------------------------------------------------------------------
(* The request threads.                                                    *)

Accepting == main.pc = "serving" /\ ~main.closing

SlipRefuses(p) == p.closed
Refuses(p) == p.closed \/ ~p.live

SlipNextSeq(p) == Cardinality(DOMAIN p.pending) + 1
NextSeq(p) == p.seq + 1

SayRegisters(r) ==
  /\ req[r].pc = "new" /\ Accepting
  /\ IF Refuses(st)
     THEN req' = [req EXCEPT ![r].pc = "done", ![r].result = Gone] /\ UNCHANGED st
     ELSE LET seq == NextSeq(st)
          IN  /\ st' = [st EXCEPT !.seq = seq,
                                  !.pending = [s \in DOMAIN @ \cup {seq} |->
                                                 IF s = seq THEN r ELSE @[s]]]
              /\ req' = [req EXCEPT ![r].pc = "sending", ![r].seq = seq,
                                    ![r].conn = st.conn]
  /\ UNCHANGED <<links, reader, main>>

SaySends(r) ==
  /\ req[r].pc = "sending"
  /\ IF CanSend(req[r].conn)
     THEN /\ links' = Sent(req[r].conn, [t |-> "say", seq |-> req[r].seq, by |-> r])
          /\ req' = [req EXCEPT ![r].pc = "waiting"]
     ELSE /\ req' = [req EXCEPT ![r].pc = "leaving", ![r].result = Gone]
          /\ UNCHANGED links
  /\ UNCHANGED <<st, reader, main>>

SayGets(r) ==
  /\ req[r].pc = "waiting" /\ req[r].slot # << >>
  /\ req' = [req EXCEPT ![r].pc = "leaving", ![r].result = Head(req[r].slot)]
  /\ UNCHANGED <<links, st, reader, main>>

SayTimesOut(r) ==
  /\ Impatient /\ req[r].pc = "waiting" /\ req[r].slot = << >>
  /\ req' = [req EXCEPT ![r].pc = "leaving", ![r].result = [t |-> "timeout", by |-> NoFrame]]
  /\ UNCHANGED <<links, st, reader, main>>

SlipUnregistered(p, seq) == p
Unregistered(p, seq) == [p EXCEPT !.pending = Restrict(@, DOMAIN @ \ {seq})]

SayLeaves(r) ==
  /\ req[r].pc = "leaving"
  /\ st' = Unregistered(st, req[r].seq)
  /\ req' = [req EXCEPT ![r].pc = "done"]
  /\ UNCHANGED <<links, reader, main>>

StateCached(r) ==
  /\ req[r].pc = "new" /\ Accepting
  /\ st' = [st EXCEPT !.last = r]
  /\ req' = [req EXCEPT ![r].pc = IF st.live THEN "sending" ELSE "cached",
                           ![r].conn = st.conn]
  /\ UNCHANGED <<links, reader, main>>

StateSends(r) ==
  /\ req[r].pc = "sending"
  /\ links' = IF CanSend(req[r].conn) THEN Sent(req[r].conn, [t |-> "state", by |-> r])
              ELSE links
  /\ req' = [req EXCEPT ![r].pc = "done"]
  /\ UNCHANGED <<st, reader, main>>

Say(r)   == SayRegisters(r) \/ SaySends(r) \/ SayGets(r) \/ SayTimesOut(r) \/ SayLeaves(r)
State(r) == StateCached(r) \/ StateSends(r)

-----------------------------------------------------------------------------
(* The main thread.                                                        *)

Signal ==
  /\ Signals /\ Running /\ ~main.stop
  /\ main' = [CtlEnded(main) EXCEPT !.stop = TRUE]
  /\ UNCHANGED <<links, st, reader, req>>

\* The process ends: its descriptors are closed, its threads are gone.
Exits ==
  /\ main' = [main EXCEPT !.pc = "exited"]
  /\ links' = [g \in DOMAIN links |-> [links[g] EXCEPT !.own = FALSE]]

MainLeaves ==
  /\ main.pc = "serving" /\ main.closing
  /\ IF main.stop
     THEN /\ st' = [st EXCEPT !.stopping = TRUE]
          /\ main' = [main EXCEPT !.pc = "stopping"]
          /\ UNCHANGED links
     ELSE Exits /\ UNCHANGED st
  /\ UNCHANGED <<reader, req>>

MainSnaps ==
  /\ main.pc = "stopping"
  /\ main' = [main EXCEPT !.pc = "bye", !.conn = st.conn]
  /\ UNCHANGED <<links, st, reader, req>>

\* A bye on a connection that has just ended raises out of run_stream.
MainByes ==
  /\ main.pc = "bye"
  /\ IF st.live /\ ~CanSend(main.conn) THEN Exits
     ELSE /\ main' = [main EXCEPT !.pc = "joining"]
          /\ links' = IF st.live THEN Sent(main.conn, [t |-> "bye"]) ELSE links
  /\ UNCHANGED <<st, reader, req>>

\* The reader is done, or two seconds have passed.
MainJoins ==
  /\ main.pc = "joining"
  /\ Exits
  /\ UNCHANGED <<st, reader, req>>

Main == MainLeaves \/ MainSnaps \/ MainByes \/ MainJoins

-----------------------------------------------------------------------------
Hub(g) == HubReads(g) \/ HubPings(g) \/ HubSendsOdd(g) \/ HubCloses(g)

Next ==
  \/ Reader
  \/ \E r \in Sayer : Running /\ Say(r)
  \/ \E r \in Hook : Running /\ State(r)
  \/ Main \/ Signal
  \/ \E g \in DOMAIN links : Running /\ Hub(g)

Spec == Init /\ [][Next]_vars

\* Threads are scheduled; a hub that has not closed a connection reads it.
Fairness ==
  /\ WF_vars(Reader) /\ WF_vars(Main)
  /\ \A r \in Sayer : WF_vars(Running /\ Say(r))
  /\ \A g \in 1 .. MaxConn : WF_vars(g \in DOMAIN links /\ Running /\ HubReads(g))
LiveSpec == Spec /\ Fairness

-----------------------------------------------------------------------------
(* Properties.                                                             *)

\* The parts of the state that matter are typed, and _pending has just the
\* says that are under way: an entry that stayed behind would swallow an answer.
StreamTypeOK ==
  /\ \A g \in DOMAIN links : links[g].heard \in Hook \cup {NoFrame}
  /\ st.conn \in DOMAIN links /\ Len(links) <= MaxConn
  /\ st.last \in Hook \cup {NoFrame}
  /\ DOMAIN st.pending \subseteq 1 .. st.seq
  /\ Range(st.pending) = {r \in Sayer : req[r].pc \in {"sending", "waiting", "leaving"}}

\* docs/ARCHITECTURE.md, "Registry, reconnect, restart": a say attempted during
\* an outage is answered hub_unreachable instead of parking the model.  A say
\* that still waits is registered, and waits on the connection that is being
\* read or whose end is being handled (the lock of _forward_say against
\* live.clear, _fail_pending and the swap of _adopt).
NoSayParkedInGap ==
  \A r \in Sayer : Running /\ req[r].pc = "waiting" /\ req[r].slot = << >> =>
    /\ req[r].seq \in DOMAIN st.pending /\ st.pending[req[r].seq] = r
    /\ req[r].conn = st.conn
    /\ reader.pc \in {"pump", "ended", "failing"}

\* A say is answered ok only by the hub's answer to that say, also when an
\* earlier one has timed out and its late answer is still on the way.
AnswersMatch ==
  \A r \in Sayer : req[r].result.t = "ok" => req[r].result.by = r

\* When the stream says hello again the hub has already let go of its old
\* connection, so it is never refused its own name.
RejoinFindsNameFree ==
  reader.pc = "connect" => \A g \in DOMAIN links : ~links[g].hub

\* Without its timeout a say still gets its answer, or the process ends.
SayAnswered ==
  \A r \in Sayer : req[r].pc = "waiting" ~> (req[r].pc = "done" \/ ~Running)

\* An outage ends: the stream is on the floor again, or the process is over
\* (whatever ends the supervision takes the control socket with it).
OutageEnds == ~st.live ~> (st.live \/ ~Running)

\* _relay_state, "it is the state this spoke is in, so it is cached and replayed
\* after every rejoin": once nothing is under way on a live connection, the hub
\* has last heard the state last reported, unless it was cached between the
\* snapshot of _adopt and live.set.
StateReachesHub ==
  (/\ Running /\ st.live /\ reader.pc = "pump"
   /\ links[st.conn].hub /\ links[st.conn].out = << >>
   /\ \A r \in Hook : req[r].pc # "sending")
    => \/ links[st.conn].heard = st.last
       \/ req[st.last].pc = "cached" /\ req[st.last].conn = st.conn
=============================================================================
