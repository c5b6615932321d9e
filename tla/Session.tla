------------------------------- MODULE Session -------------------------------
(***************************************************************************)
(* The file bridge of a runtime that cannot be pushed to (cli/inbox.py):   *)
(* moot stream --inbox appends what the hub delivers to a file, and the    *)
(* model reads it with moot wait and moot peek, which tell the hub through *)
(* the stream's control socket (spoke/ctl.py) that the session is idle or  *)
(* busy.                                                                   *)
(*                                                                         *)
(* Several short-lived readers and more than one stream process of the     *)
(* session can be alive at a time.  They share the socket file, the inbox, *)
(* its cursor file, and the name at the hub.  A length of the inbox is a   *)
(* number of deliveries; its bytes and a delivery that is half written are *)
(* left out.  What goes on inside a stream is module StreamSpoke.          *)
(*                                                                         *)
(* A definition whose name starts with Slip is a mistake one could make in *)
(* the definition that follows it; nothing uses it.                        *)
(***************************************************************************)
EXTENDS Integers

CONSTANTS
  Stream,          \* processes of moot stream for this session
  Reader,          \* processes of moot wait and moot peek
  NoStream,
  Stale,           \* a socket file that nobody listens on
  Harms            \* subset of {"drop", "kill stream", "kill reader"}
CONSTANT MaxMsg    \* bound of the model, in the guard of Said

ASSUME SessionAssumption ==
  /\ NoStream \notin Stream /\ Stale \notin Stream
  /\ Harms \subseteq {"drop", "kill stream", "kill reader"}
  /\ MaxMsg \in Nat

VARIABLES
  hub,     \* of the name: holder, state, queue (deliveries waiting), said
  path,    \* the control socket file: whose it is
  stream,  \* per stream: pc, linked, last (state relayed), coming (in flight)
  inbox,   \* len, cursor
  reader,  \* per reader: pc, cmd, start, end
  shown,   \* per delivery, how often it was printed (0, 1, 2 for more)
  upset    \* what has happened so far: "stream" (one harmed), "stopped" (one
           \* shut down), "killed" (a reader), "cursor", "overlap" (of readers)

vars == <<hub, path, stream, inbox, reader, shown, upset>>

Lines    == 1 .. MaxMsg
Garbled  == MaxMsg + 1       \* a cursor behind the end of any inbox
NotThere == [pc |-> "off", linked |-> FALSE, last |-> "none", coming |-> 0]
Over     == [NotThere EXCEPT !.pc = "over"]
AtRest   == [pc |-> "rest", cmd |-> "wait", start |-> 0, end |-> 0]

Goto(s, pc) == stream' = [stream EXCEPT ![s].pc = pc]
Serving(s)  == stream[s].pc = "serving"
\* Bounds of the model: one mishap in a behaviour, and none among readers that
\* overlap.
Harm(what)  == what \in Harms /\ upset \subseteq {"stopped"}
Upset(what) == upset' = upset \cup what

-----------------------------------------------------------------------------
(* The hub, as the session meets it: module Hub has the rest.              *)

Said ==
  /\ hub.said < MaxMsg
  /\ hub' = [hub EXCEPT !.said = @ + 1, !.queue = @ + 1]
  /\ UNCHANGED <<path, stream, inbox, reader, shown, upset>>

Deliver(s) ==
  /\ hub.holder = s /\ hub.state = "idle" /\ hub.queue > 0
  /\ hub' = [hub EXCEPT !.state = "busy", !.queue = 0]
  /\ stream' = [stream EXCEPT ![s].coming = @ + hub.queue]
  /\ UNCHANGED <<path, inbox, reader, shown, upset>>

Vacated(s) == IF hub.holder = s THEN [hub EXCEPT !.holder = NoStream] ELSE hub

\* The hub ends, or ends the connection; frames on the way arrive or do not.
Drop(s) ==
  /\ Harm("drop") /\ stream[s].linked
  /\ hub' = Vacated(s)
  /\ \E left \in {0, stream[s].coming} :
       stream' = [stream EXCEPT ![s].linked = FALSE, ![s].coming = left]
  /\ Upset({"stream"})
  /\ UNCHANGED <<path, inbox, reader, shown>>

-----------------------------------------------------------------------------
(* moot stream.                                                            *)

\* connect: a name that somebody holds is refused, and the process ends.
Join(s) ==
  /\ stream[s].pc = "off" /\ hub.holder = NoStream
  /\ hub' = [hub EXCEPT !.holder = s, !.state = "idle"]
  /\ stream' = [stream EXCEPT ![s] = [NotThere EXCEPT !.pc = "joined", !.linked = TRUE]]
  /\ UNCHANGED <<path, inbox, reader, shown, upset>>

\* CtlServer.__init__ unlinks whatever socket is there and binds its own.
Bind(s) ==
  /\ stream[s].pc = "joined"
  /\ path' = s /\ Goto(s, "serving")
  /\ UNCHANGED <<hub, inbox, reader, shown, upset>>

Append(s) ==
  /\ stream[s].pc \notin {"off", "over"} /\ stream[s].coming > 0
  /\ inbox' = [inbox EXCEPT !.len = @ + stream[s].coming]
  /\ stream' = [stream EXCEPT ![s].coming = 0]
  /\ UNCHANGED <<hub, path, reader, shown, upset>>

SlipRejoin(s) ==
  /\ Serving(s) /\ ~stream[s].linked
  /\ hub' = [hub EXCEPT !.holder = s, !.state = "idle"]
  /\ stream' = [stream EXCEPT ![s].linked = TRUE]
  /\ UNCHANGED <<path, inbox, reader, shown, upset>>

\* The retry loop: the name is free again and the last state is restated, or
\* the hello is refused.
Rejoin(s) ==
  /\ Serving(s) /\ ~stream[s].linked
  /\ IF hub.holder = NoStream
     THEN /\ hub' = [hub EXCEPT !.holder = s, !.state =
                       IF stream[s].last = "none" THEN "idle" ELSE stream[s].last]
          /\ stream' = [stream EXCEPT ![s].linked = TRUE]
     ELSE Goto(s, "closing") /\ UNCHANGED hub
  /\ UNCHANGED <<path, inbox, reader, shown, upset>>

\* shutdown: by a signal, or by the reader thread when it gives up.
Shutdown(s) ==
  /\ Serving(s)
  /\ Goto(s, "closing") /\ Upset({"stopped"})
  /\ UNCHANGED <<hub, path, inbox, reader, shown>>

\* The accept loop ends and unlinks the path, whoever has bound it last; only
\* then is the name given up.
SlipUnlink(s) ==
  /\ stream[s].pc = "closing"
  /\ hub' = Vacated(s)
  /\ \/ hub.holder = s /\ UNCHANGED <<path, stream>>
     \/ hub.holder # s /\ path' = NoStream /\ Goto(s, "leaving")
  /\ UNCHANGED <<inbox, reader, shown, upset>>

Unlink(s) ==
  /\ stream[s].pc = "closing"
  /\ path' = NoStream /\ Goto(s, "leaving")
  /\ UNCHANGED <<hub, inbox, reader, shown, upset>>

Leave(s) ==
  /\ stream[s].pc = "leaving"
  /\ hub' = Vacated(s)
  /\ stream' = [stream EXCEPT ![s] = Over]
  /\ UNCHANGED <<path, inbox, reader, shown, upset>>

KillStream(s) ==
  /\ Harm("kill stream") /\ stream[s].pc \notin {"off", "over"}
  /\ hub' = Vacated(s)
  /\ path' = IF path = s THEN Stale ELSE path
  /\ stream' = [stream EXCEPT ![s] = Over]
  /\ Upset({"stream"})
  /\ UNCHANGED <<inbox, reader, shown>>

-----------------------------------------------------------------------------
(* moot wait and moot peek.                                                *)

At(r, pc) == reader[r].pc = pc
Active(r) == ~At(r, "rest")
Move(r, pc) == reader' = [reader EXCEPT ![r].pc = pc]
Done(r) == reader' = [reader EXCEPT ![r] = AtRest]

Begin(r) ==
  /\ At(r, "rest")
  /\ \E cmd \in {"wait", "peek"} :
       reader' = [reader EXCEPT ![r] =
         [pc |-> "idling", cmd |-> cmd, start |-> inbox.cursor, end |-> 0]]
  /\ \/ (\A q \in Reader \ {r} : ~Active(q)) /\ UNCHANGED upset
     \/ (\E q \in Reader \ {r} : Active(q)) /\ upset \subseteq {"overlap"} /\ Upset({"overlap"})
  /\ UNCHANGED <<hub, path, stream, inbox, shown>>

\* ctl_call with a state frame.  A stream that serves relays it, or caches it
\* while it has no hub; without a listener the report fails and is noted.
Relay(state) ==
  IF path \in Stream /\ Serving(path)
  THEN /\ stream' = [stream EXCEPT ![path].last = state]
       /\ hub' = IF stream[path].linked THEN [hub EXCEPT !.state = state] ELSE hub
  ELSE UNCHANGED <<hub, stream>>

\* A stream that closes meanwhile drops the call without an answer; the error
\* ends the reader, which has consumed nothing.
Report(r, from, state, to) ==
  /\ At(r, from)
  /\ IF path \in Stream /\ ~Serving(path)
     THEN Done(r) /\ UNCHANGED <<hub, stream>>
     ELSE Relay(state) /\ IF to = "rest" THEN Done(r) ELSE Move(r, to)
  /\ UNCHANGED <<path, inbox, shown, upset>>

SlipReportIdle(r) == At(r, "idling") /\ Move(r, "polling")
                     /\ UNCHANGED <<hub, path, stream, inbox, shown, upset>>
ReportIdle(r) == Report(r, "idling", "idle", "polling")

Grown(r) == inbox.len > reader[r].start

\* wait goes on once the inbox has grown, or times out and stays idle.
PollWait(r) ==
  /\ At(r, "polling") /\ reader[r].cmd = "wait"
  /\ IF Grown(r) THEN Move(r, "busying") ELSE Done(r)
  /\ UNCHANGED <<hub, path, stream, inbox, shown, upset>>

\* peek goes on then, or when it has settled; end holds what it found.
PollPeek(r) ==
  /\ At(r, "polling") /\ reader[r].cmd = "peek"
  /\ reader' = [reader EXCEPT ![r].pc = "busying", ![r].end = inbox.len]
  /\ UNCHANGED <<hub, path, stream, inbox, shown, upset>>

Emptyhanded(r) == reader[r].cmd = "peek" /\ reader[r].end <= reader[r].start

SlipReportBusy(r) == At(r, "busying") /\ Move(r, "reading")
                     /\ UNCHANGED <<hub, path, stream, inbox, shown, upset>>
ReportBusy(r) ==
  Report(r, "busying", "busy", IF Emptyhanded(r) THEN "rest" ELSE "reading")

\* _consume_unread: read to the end and open the cursor file, which truncates
\* it (an empty one reads as 0); write it; and only then print.
Read(r) ==
  /\ At(r, "reading")
  /\ reader' = [reader EXCEPT ![r] =
       [pc |-> "marking", cmd |-> "wait", start |-> reader[r].start,
        end |-> IF Grown(r) THEN inbox.len ELSE reader[r].start]]
  /\ inbox' = [inbox EXCEPT !.cursor = 0]
  /\ UNCHANGED <<hub, path, stream, shown, upset>>

\* Digits that another reader wrote since show behind the shorter number.
SlipMark(r) ==
  /\ At(r, "marking")
  /\ inbox' = [inbox EXCEPT !.cursor = inbox.len] /\ Move(r, "printing")
  /\ UNCHANGED <<hub, path, stream, shown, upset>>

SlipMarkStart(r) ==
  /\ At(r, "marking")
  /\ inbox' = [inbox EXCEPT !.cursor = reader[r].start] /\ Move(r, "printing")
  /\ UNCHANGED <<hub, path, stream, shown, upset>>

Mark(r) ==
  /\ At(r, "marking")
  /\ \E cursor \in {reader[r].end} \cup IF inbox.cursor > 0 THEN {Garbled} ELSE {} :
       inbox' = [inbox EXCEPT !.cursor = cursor]
  /\ Move(r, "printing")
  /\ Upset(IF inbox.cursor > 0 THEN {"cursor"} ELSE {})
  /\ UNCHANGED <<hub, path, stream, shown>>

Output(r) ==
  /\ At(r, "printing")
  /\ shown' = [l \in Lines |->
       IF reader[r].start < l /\ l <= reader[r].end /\ shown[l] < 2
       THEN shown[l] + 1 ELSE shown[l]]
  /\ Done(r)
  /\ UNCHANGED <<hub, path, stream, inbox, upset>>

\* A tool call that is cut off.
KillReader(r) ==
  /\ Harm("kill reader") /\ Active(r)
  /\ Done(r)
  /\ Upset(IF reader[r].pc \in {"marking", "printing"} THEN {"cursor"} ELSE {"killed"})
  /\ UNCHANGED <<hub, path, stream, inbox, shown>>

-----------------------------------------------------------------------------
Init ==
  /\ hub = [holder |-> NoStream, state |-> "idle", queue |-> 0, said |-> 0]
  /\ path = NoStream
  /\ stream = [s \in Stream |-> NotThere]
  /\ inbox = [len |-> 0, cursor |-> 0]
  /\ reader = [r \in Reader |-> AtRest]
  /\ shown = [l \in Lines |-> 0]
  /\ upset = {}

ReaderStep(r) ==
  \/ Begin(r) \/ ReportIdle(r) \/ PollWait(r) \/ PollPeek(r) \/ ReportBusy(r)
  \/ Read(r) \/ Mark(r) \/ Output(r)

StreamStep(s) == Join(s) \/ Bind(s) \/ Append(s) \/ Deliver(s)

Next ==
  \/ Said
  \/ \E s \in Stream : \/ StreamStep(s) \/ Rejoin(s) \/ Shutdown(s) \/ Unlink(s)
                       \/ Leave(s) \/ Drop(s) \/ KillStream(s)
  \/ \E r \in Reader : ReaderStep(r) \/ KillReader(r)

Spec == Init /\ [][Next]_vars

\* A session that keeps reading, a stream that runs, and a hub that hands over
\* the queue while it handles an idle report (strong fairness: the busy report
\* behind it on the same connection cannot overtake it).
LiveSpec == /\ Spec
            /\ \A r \in Reader : WF_vars(ReaderStep(r))
            /\ \A s \in Stream : WF_vars(StreamStep(s)) /\ SF_vars(Deliver(s))

-----------------------------------------------------------------------------
(* Properties.                                                             *)

\* The parts of the state are typed, and a cursor behind the end of the inbox
\* comes from two readers that wrote it at once.
SessionTypeOK ==
  /\ hub.holder \in Stream \cup {NoStream} /\ path \in Stream \cup {NoStream, Stale}
  /\ hub.queue + hub.said \in 0 .. 2 * MaxMsg
  /\ \A s \in Stream : stream[s].linked => hub.holder = s
  /\ inbox.len <= hub.said
  /\ inbox.cursor > inbox.len => "cursor" \in upset

\* docs/OPERATIONS.md, "Control sockets": while a stream serves, the path is its
\* own, if no stream of the session lost its connection or was killed before
\* (the name is given up after the socket, so a successor binds after it).
SocketServes ==
  \A s \in Stream : Serving(s) => path = s \/ "stream" \in upset

\* What lies before the cursor has been printed, or is about to be, if no
\* reader was cut off between its cursor and its output and no two wrote the
\* cursor at once; readers that merely overlap skip nothing.
NothingSkipped ==
  "cursor" \in upset \/
    \A l \in Lines : l <= inbox.cursor =>
      \/ shown[l] > 0
      \/ \E r \in Reader : At(r, "printing") /\ reader[r].start < l /\ l <= reader[r].end

\* Readers one after the other show nothing twice.
OnceEach == upset \cap {"cursor", "overlap"} = {} => \A l \in Lines : shown[l] < 2

\* cli/inbox.py, _consume_unread: the cursor passes a line as it is shown, so that
\* readers and streams that come and go show each line once.
LinesShownOnce == SessionTypeOK /\ NothingSkipped /\ OnceEach

\* docs/ARCHITECTURE.md, "the file bridge": wait and peek report busy before
\* they hand lines back, so the hub holds what comes during the turn, if no
\* reader overlaps with another (which reports idle) and no stream is disturbed.
BusyAtHandOver ==
  \A r \in Reader :
    reader[r].pc \in {"reading", "marking", "printing"} =>
      hub.state = "busy" \/ upset \cap {"stream", "stopped", "overlap"} # {}

\* What is said to a session that keeps reading is read, if its stream is not
\* disturbed and no reader is cut off.
ReadInTheEnd == \A l \in Lines : (hub.said >= l) ~> (shown[l] > 0 \/ ~(upset \subseteq {"overlap"}))
=============================================================================
