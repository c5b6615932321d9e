---------------------------- MODULE SessionProofs ----------------------------
(***************************************************************************)
(* The file bridge, for any number of streams, readers and messages: a     *)
(* stream that serves has the socket, no line is skipped or shown twice,   *)
(* and the hub takes the session for busy while lines are handed over.     *)
(*                                                                         *)
(* Inv has a part for each pair of things that must agree: the name and    *)
(* the connections (Seated), the connections and the socket (Unharmed),    *)
(* what was said and where it is (Counted), the cursor and what was        *)
(* printed (Covered, Fresh), and the state at the hub and the readers      *)
(* (Busy).  As the properties, most of them hold as long as certain        *)
(* mishaps have not happened, and the mishaps are never forgotten.         *)
(***************************************************************************)
EXTENDS Session, TLAPS

Streams == [pc : {"off", "joined", "serving", "closing", "leaving", "over"},
            linked : BOOLEAN, last : {"none", "idle", "busy"}, coming : Nat]
Readers == [pc : {"rest", "idling", "polling", "busying", "reading", "marking", "printing"},
            cmd : {"wait", "peek"}, start : Nat, end : Nat]
Handing == {"reading", "marking", "printing"}

Typed ==
  /\ hub \in [holder : Stream \cup {NoStream}, state : {"idle", "busy"}, queue : Nat,
              said : 0 .. MaxMsg]
  /\ path \in Stream \cup {NoStream, Stale}
  /\ stream \in [Stream -> Streams]
  /\ inbox \in [len : Nat, cursor : Nat]
  /\ reader \in [Reader -> Readers]
  /\ shown \in [Lines -> 0 .. 2]
  /\ upset \subseteq {"stream", "stopped", "killed", "cursor", "overlap"}

\* The hub and a stream agree on who holds the name, and one that is not there
\* has nothing on its way.
Seated ==
  \A s \in Stream :
    /\ stream[s].linked <=> hub.holder = s
    /\ stream[s].pc \in {"off", "over"} => ~stream[s].linked /\ stream[s].coming = 0

\* As long as no stream has been harmed, one that runs has its connection, and
\* one that serves has the path.
Unharmed ==
  "stream" \notin upset =>
    \A s \in Stream :
      /\ stream[s].pc \notin {"off", "over"} => stream[s].linked
      /\ Serving(s) => path = s

\* What is in the queue, on its way and in the inbox has been said.  Only the
\* holder and one stream that was dropped can have something on its way.
Counted ==
  /\ \A s, t \in Stream :
       ~stream[s].linked /\ ~stream[t].linked /\ stream[s].coming > 0 /\ stream[t].coming > 0
         => s = t
  /\ hub.queue + inbox.len <= hub.said
  /\ \A s \in Stream : hub.queue + stream[s].coming + inbox.len <= hub.said
  /\ \A s, t \in Stream : s # t =>
       hub.queue + stream[s].coming + stream[t].coming + inbox.len <= hub.said

\* Readers found what they know in the inbox.
Found ==
  \A r \in Reader :
    /\ At(r, "busying") /\ reader[r].cmd = "wait" => reader[r].start < inbox.len
    /\ At(r, "busying") /\ reader[r].cmd = "peek" => reader[r].end <= inbox.len
    /\ reader[r].pc \in Handing => inbox.len > 0
    /\ reader[r].pc \in {"marking", "printing"} => reader[r].start <= reader[r].end

\* Numbers of lines that were read off the cursor or the inbox, as long as no
\* two readers wrote the cursor at once.
InBounds ==
  "cursor" \notin upset =>
    /\ inbox.cursor <= inbox.len
    /\ \A r \in Reader : reader[r].start <= inbox.len /\ reader[r].end <= inbox.len

Accounted(l) ==
  \/ shown[l] > 0
  \/ \E r \in Reader : At(r, "printing") /\ reader[r].start < l /\ l <= reader[r].end

\* NothingSkipped, also for the lines that a reader has taken for read.
Covered ==
  "cursor" \notin upset =>
    \A l \in Lines :
      /\ l <= inbox.cursor => Accounted(l)
      /\ \A r \in Reader : l <= reader[r].start => Accounted(l)

Alone == "overlap" \notin upset => \A r, q \in Reader : Active(r) /\ Active(q) => r = q

\* What lies behind the cursor, or behind the start of the one reader, is new.
Fresh ==
  upset \cap {"cursor", "overlap"} = {} =>
    /\ \A l \in Lines : shown[l] < 2
    /\ (\A r \in Reader : ~Active(r)) => \A l \in Lines : l > inbox.cursor => shown[l] = 0
    /\ \A r \in Reader :
         /\ Active(r) => \A l \in Lines : l > reader[r].start => shown[l] = 0
         /\ reader[r].pc \in {"idling", "polling", "busying", "reading"} =>
              reader[r].start = inbox.cursor
         /\ At(r, "printing") => reader[r].end = inbox.cursor

\* In peace the hub takes the session for busy while lines are handed over, and,
\* before a stream serves, since something was delivered.
Busy ==
  upset \cap {"stream", "stopped", "overlap"} = {} =>
    /\ \A s \in Stream : stream[s].pc \in {"off", "joined", "serving"}
    /\ hub.holder = NoStream => inbox.len = 0
    /\ \A r \in Reader : reader[r].pc \in Handing => hub.state = "busy"
    /\ (\A s \in Stream : ~Serving(s)) /\ (inbox.len > 0 \/ \E s \in Stream : stream[s].coming > 0)
         => hub.state = "busy"

Inv == Typed /\ Seated /\ Unharmed /\ Counted /\ Found /\ InBounds /\ Covered /\ Alone /\ Fresh /\ Busy

-----------------------------------------------------------------------------
(* The parts of the state.                                                 *)

LEMMA LinesAreNumbers == MaxMsg \in Nat /\ \A l \in Lines : l \in Nat /\ l > 0
<1>1. MaxMsg \in Nat
  BY SessionAssumption
<1> QED
  BY <1>1 DEF Lines

LEMMA StateParts ==
  ASSUME Typed
  PROVE  /\ hub.queue \in Nat /\ hub.said \in Nat /\ hub.said <= MaxMsg
         /\ hub.state \in {"idle", "busy"} /\ hub.holder \in Stream \cup {NoStream}
         /\ inbox.len \in Nat /\ inbox.cursor \in Nat
         /\ \A s \in Stream : stream[s] \in Streams /\ stream[s].coming \in Nat
         /\ \A r \in Reader : reader[r] \in Readers /\ reader[r].start \in Nat /\ reader[r].end \in Nat
<1>1. /\ hub.queue \in Nat /\ hub.said \in 0 .. MaxMsg
      /\ hub.state \in {"idle", "busy"} /\ hub.holder \in Stream \cup {NoStream}
      /\ inbox.len \in Nat /\ inbox.cursor \in Nat
  BY DEF Typed
<1>2. \A s \in Stream : stream[s] \in Streams
  BY DEF Typed
<1>3. \A r \in Reader : reader[r] \in Readers
  BY DEF Typed
<1>4. \A s \in Stream : stream[s].coming \in Nat
  BY <1>2 DEF Streams
<1>5. \A r \in Reader : reader[r].start \in Nat /\ reader[r].end \in Nat
  BY <1>3 DEF Readers
<1>6. MaxMsg \in Nat
  BY LinesAreNumbers
<1>7. \A n \in 0 .. MaxMsg : n \in Nat /\ n <= MaxMsg
  BY <1>6
<1>8. hub.said \in Nat /\ hub.said <= MaxMsg
  BY <1>1, <1>7
<1> QED
  BY <1>1, <1>2, <1>3, <1>4, <1>5, <1>8

\* A registration of the name, an inbox, with the given fields.
LEMMA HubType ==
  ASSUME Typed, NEW h, h \in Stream \cup {NoStream}, NEW st \in {"idle", "busy"}, NEW q \in Nat,
         NEW n \in 0 .. MaxMsg, hub' = [holder |-> h, state |-> st, queue |-> q, said |-> n]
  PROVE  hub' \in [holder : Stream \cup {NoStream}, state : {"idle", "busy"}, queue : Nat,
                   said : 0 .. MaxMsg]
OBVIOUS

LEMMA HubSplit ==
  ASSUME Typed
  PROVE  hub = [holder |-> hub.holder, state |-> hub.state, queue |-> hub.queue, said |-> hub.said]
BY DEF Typed

\* One stream changes.
LEMMA StreamSet ==
  ASSUME Typed, NEW s \in Stream, NEW v \in Streams, stream' = [stream EXCEPT ![s] = v]
  PROVE  /\ stream' \in [Stream -> Streams] /\ stream'[s] = v
         /\ \A t \in Stream : t # s => stream'[t] = stream[t]
BY DEF Typed

\* One reader changes.
LEMMA ReaderSet ==
  ASSUME Typed, NEW r \in Reader, NEW v \in Readers, reader' = [reader EXCEPT ![r] = v]
  PROVE  /\ reader' \in [Reader -> Readers] /\ reader'[r] = v
         /\ \A q \in Reader : q # r => reader'[q] = reader[q]
BY DEF Typed

-----------------------------------------------------------------------------
(* What the steps of one side leave alone on the other.                    *)

LEMMA ReadersKept ==
  ASSUME Inv, UNCHANGED <<reader, shown>>, inbox'.cursor = inbox.cursor, inbox'.len \in Nat,
         inbox'.len >= inbox.len, upset \subseteq upset'
  PROVE  Found' /\ InBounds' /\ Covered' /\ Alone' /\ Fresh'
<1>0. Typed /\ Found /\ InBounds /\ Covered /\ Alone /\ Fresh
  BY DEF Inv
<1>1. /\ inbox.len \in Nat /\ inbox.cursor \in Nat
      /\ \A r \in Reader : reader[r].start \in Nat /\ reader[r].end \in Nat
  BY <1>0, StateParts
<1>2. Found'
  BY <1>0, <1>1 DEF Found, At
<1>3. InBounds'
  BY <1>0, <1>1 DEF InBounds
<1>4. Covered'
  BY <1>0 DEF Covered, Accounted, At
<1>5. Alone'
  BY <1>0 DEF Alone, Active, At
<1>6. Fresh'
  BY <1>0 DEF Fresh, Active, At
<1> QED
  BY <1>2, <1>3, <1>4, <1>5, <1>6

LEMMA StreamsKept ==
  ASSUME Inv, UNCHANGED <<hub, path, stream>>, inbox'.len = inbox.len, upset \subseteq upset'
  PROVE  Seated' /\ Unharmed' /\ Counted'
<1>0. Seated /\ Unharmed /\ Counted
  BY DEF Inv
<1>1. Seated'
  BY <1>0 DEF Seated
<1>2. Unharmed'
  BY <1>0 DEF Unharmed, Serving
<1>3. Counted'
  BY <1>0 DEF Counted
<1> QED
  BY <1>1, <1>2, <1>3

\* What Busy says of the readers and of the streams, each with the other.
Peace == upset \cap {"stream", "stopped", "overlap"} = {}
BusyHub ==
  Peace =>
    /\ \A s \in Stream : stream[s].pc \in {"off", "joined", "serving"}
    /\ hub.holder = NoStream => inbox.len = 0
    /\ (\A s \in Stream : ~Serving(s)) /\ (inbox.len > 0 \/ \E s \in Stream : stream[s].coming > 0)
         => hub.state = "busy"
BusyReaders == Peace => \A r \in Reader : reader[r].pc \in Handing => hub.state = "busy"

LEMMA BusyParts == Busy <=> BusyHub /\ BusyReaders
BY DEF Busy, BusyHub, BusyReaders, Peace

LEMMA BusyPartsPrimed == Busy' <=> BusyHub' /\ BusyReaders'
BY DEF Busy, BusyHub, BusyReaders, Peace

-----------------------------------------------------------------------------
(* The hub and the streams.                                                *)

LEMMA SaidInv == ASSUME Inv, Said PROVE Inv'
<1>0. Typed /\ Seated /\ Unharmed /\ Counted /\ Busy
  BY DEF Inv
<1>1. UNCHANGED <<path, stream, inbox, reader, shown, upset>> /\ hub.said < MaxMsg
  BY DEF Said
<1>2. hub' = [holder |-> hub.holder, state |-> hub.state, queue |-> hub.queue + 1, said |-> hub.said + 1]
  BY <1>0, HubSplit DEF Said, Typed
<1>3. Typed'
  <2>1. hub.said + 1 \in 0 .. MaxMsg /\ hub.queue + 1 \in Nat
    BY <1>0, <1>1, LinesAreNumbers, StateParts
  <2>2. hub' \in [holder : Stream \cup {NoStream}, state : {"idle", "busy"}, queue : Nat,
                  said : 0 .. MaxMsg]
    BY <1>0, <1>2, <2>1, StateParts
  <2> QED
    BY <1>0, <1>1, <2>2 DEF Typed
<1>4. Seated' /\ Unharmed'
  BY <1>0, <1>1, <1>2 DEF Seated, Unharmed, Serving
<1>5. Counted'
  BY <1>0, <1>1, <1>2, StateParts DEF Counted
<1>6. Busy'
  BY <1>0, <1>1, <1>2 DEF Busy, Serving
<1> QED
  BY <1>0, <1>1, <1>3, <1>4, <1>5, <1>6, ReadersKept, StateParts DEF Inv

LEMMA DeliverInv == ASSUME Inv, NEW s \in Stream, Deliver(s) PROVE Inv'
<1>0. Typed /\ Seated /\ Unharmed /\ Counted /\ Busy
  BY DEF Inv
<1> DEFINE v == [stream[s] EXCEPT !.coming = @ + hub.queue]
<1>1. UNCHANGED <<path, inbox, reader, shown, upset>> /\ hub.holder = s /\ hub.queue > 0
  BY DEF Deliver
<1>2. hub' = [holder |-> s, state |-> "busy", queue |-> 0, said |-> hub.said]
  BY <1>0, HubSplit DEF Deliver, Typed
<1>3. stream' = [stream EXCEPT ![s] = v]
  BY DEF Deliver
<1>4. /\ v \in Streams /\ v.pc = stream[s].pc /\ v.linked = stream[s].linked
      /\ v.coming = stream[s].coming + hub.queue
  BY <1>0, StateParts DEF Streams
<1> HIDE DEF v
<1>5. /\ stream' \in [Stream -> Streams] /\ stream'[s] = v
      /\ \A t \in Stream : t # s => stream'[t] = stream[t]
  BY <1>0, <1>3, <1>4, StreamSet
<1>6. Typed'
  BY <1>0, <1>1, <1>2, <1>5, StateParts DEF Typed
<1>7. Seated'
  BY <1>0, <1>1, <1>2, <1>4, <1>5 DEF Seated
<1>8. Unharmed'
  BY <1>0, <1>1, <1>4, <1>5 DEF Unharmed, Serving
<1>9. Counted'
  <2>1. stream[s].linked /\ \A t \in Stream : t # s => ~stream[t].linked
    BY <1>0, <1>1 DEF Seated
  <2>2. \A t, u \in Stream : ~stream'[t].linked /\ ~stream'[u].linked /\ stream'[t].coming > 0
           /\ stream'[u].coming > 0 => t = u
    BY <1>0, <1>4, <1>5, <2>1 DEF Counted
  <2>3. /\ hub'.queue = 0 /\ hub'.said = hub.said /\ inbox' = inbox
    BY <1>1, <1>2
  <2>4. hub'.queue + inbox'.len <= hub'.said
    BY <1>0, <2>3, StateParts DEF Counted
  <2>5. \A t \in Stream : hub'.queue + stream'[t].coming + inbox'.len <= hub'.said
    BY <1>0, <1>4, <1>5, <2>3, StateParts DEF Counted
  <2>6. ASSUME NEW t \in Stream, NEW u \in Stream, t # u
        PROVE  hub'.queue + stream'[t].coming + stream'[u].coming + inbox'.len <= hub'.said
    <3>1. t # s /\ u # s => stream[t].coming = 0 \/ stream[u].coming = 0
      BY <1>0, <2>1, <2>6, StateParts DEF Counted
    <3>2. CASE t # s /\ u # s
      BY <1>0, <1>5, <2>3, <2>6, <3>1, <3>2, StateParts DEF Counted
    <3>3. CASE t = s \/ u = s
      BY <1>0, <1>4, <1>5, <2>3, <2>6, <3>3, StateParts DEF Counted
    <3> QED
      BY <3>2, <3>3
  <2> QED
    BY <2>2, <2>4, <2>5, <2>6 DEF Counted
<1>10. Busy'
  BY <1>0, <1>1, <1>2, <1>4, <1>5 DEF Busy, Serving
<1> QED
  BY <1>0, <1>1, <1>6, <1>7, <1>8, <1>9, <1>10, ReadersKept, StateParts DEF Inv

\* A stream that takes the free name, for the first time or again.
LEMMA HolderChanges ==
  ASSUME Typed, NEW h \in Stream \cup {NoStream}, hub' = [hub EXCEPT !.holder = h]
  PROVE  hub' = [holder |-> h, state |-> hub.state, queue |-> hub.queue, said |-> hub.said]
BY HubSplit DEF Typed

LEMMA VacatedParts ==
  ASSUME Typed, Seated, NEW s \in Stream, hub' = Vacated(s)
  PROVE  /\ hub' \in [holder : Stream \cup {NoStream}, state : {"idle", "busy"}, queue : Nat,
                      said : 0 .. MaxMsg]
         /\ hub'.queue = hub.queue /\ hub'.said = hub.said /\ hub'.state = hub.state
         /\ hub'.holder # s
         /\ \A t \in Stream : t # s => (hub'.holder = t <=> hub.holder = t)
BY SessionAssumption DEF Vacated, Typed

\* The step of a stream that has, or has had, the name: what is on its way does
\* not grow, and nothing else moves towards the inbox.
LEMMA CountedKept ==
  ASSUME Inv, NEW s \in Stream, Typed',
         \A t \in Stream : t # s => stream'[t] = stream[t],
         stream'[s].coming <= stream[s].coming,
         stream'[s].coming > 0 /\ ~stream'[s].linked => ~stream[s].linked,
         hub'.queue = hub.queue, hub'.said = hub.said, inbox'.len = inbox.len
  PROVE  Counted'
<1>0. Typed /\ Counted
  BY DEF Inv
<1>1. /\ hub.queue \in Nat /\ hub.said \in Nat /\ inbox.len \in Nat
      /\ \A t \in Stream : stream[t].coming \in Nat /\ stream'[t].coming \in Nat
  <2>1. \A t \in Stream : stream'[t] \in Streams
    BY DEF Typed
  <2>2. \A t \in Stream : stream'[t].coming \in Nat
    BY <2>1 DEF Streams
  <2> QED
    BY <1>0, <2>2, StateParts
<1>2. \A t, u \in Stream : ~stream'[t].linked /\ ~stream'[u].linked /\ stream'[t].coming > 0
         /\ stream'[u].coming > 0 => t = u
  BY <1>0, <1>1 DEF Counted
<1>3. hub'.queue + inbox'.len <= hub'.said
  BY <1>0 DEF Counted
<1>4. \A t \in Stream : stream'[t].coming <= stream[t].coming
  BY <1>1
<1>5. \A t \in Stream : hub'.queue + stream'[t].coming + inbox'.len <= hub'.said
  BY <1>0, <1>1, <1>4 DEF Counted
<1>6. \A t, u \in Stream : t # u =>
         hub'.queue + stream'[t].coming + stream'[u].coming + inbox'.len <= hub'.said
  BY <1>0, <1>1, <1>4 DEF Counted
<1> QED
  BY <1>2, <1>3, <1>5, <1>6 DEF Counted

\* The steps of a stream that neither deliver nor append: each changes the
\* stream, and at most the holder, the path and what has happened.
LEMMA StreamStepKeeps ==
  ASSUME Inv, NEW s \in Stream, Typed', Seated', Unharmed', BusyHub', BusyReaders',
         UNCHANGED <<inbox, reader, shown>>, upset \subseteq upset',
         \A t \in Stream : t # s => stream'[t] = stream[t],
         stream'[s].coming <= stream[s].coming,
         stream'[s].coming > 0 /\ ~stream'[s].linked => ~stream[s].linked,
         hub'.queue = hub.queue, hub'.said = hub.said
  PROVE  Inv'
BY CountedKept, ReadersKept, StateParts, BusyPartsPrimed DEF Inv

LEMMA DropInv == ASSUME Inv, NEW s \in Stream, Drop(s) PROVE Inv'
<1>0. Typed /\ Seated /\ Unharmed /\ Counted /\ Busy
  BY DEF Inv
<1>1. PICK left \in {0, stream[s].coming} :
        stream' = [stream EXCEPT ![s].linked = FALSE, ![s].coming = left]
  BY DEF Drop
<1> DEFINE v == [stream[s] EXCEPT !.linked = FALSE, !.coming = left]
<1>2. UNCHANGED <<path, inbox, reader, shown>> /\ stream[s].linked /\ hub' = Vacated(s)
  BY DEF Drop
<1>3. upset' = upset \cup {"stream"} /\ "stream" \notin upset
  BY DEF Drop, Harm, Upset
<1>4. left \in Nat /\ left <= stream[s].coming
  BY <1>0, <1>1, StateParts
<1>5. /\ v \in Streams /\ v.pc = stream[s].pc /\ v.linked = FALSE /\ v.coming = left
      /\ stream' = [stream EXCEPT ![s] = v]
  <2>1. stream[s] \in Streams
    BY <1>0, StateParts
  <2> QED
    BY <1>0, <1>1, <1>4, <2>1 DEF Streams, Typed
<1> HIDE DEF v
<1>6. /\ stream' \in [Stream -> Streams] /\ stream'[s] = v
      /\ \A t \in Stream : t # s => stream'[t] = stream[t]
  BY <1>0, <1>5, StreamSet
<1>7. /\ hub' \in [holder : Stream \cup {NoStream}, state : {"idle", "busy"}, queue : Nat,
                   said : 0 .. MaxMsg]
      /\ hub'.queue = hub.queue /\ hub'.said = hub.said /\ hub'.state = hub.state
      /\ hub'.holder # s
      /\ \A t \in Stream : t # s => (hub'.holder = t <=> hub.holder = t)
  BY <1>0, <1>2, VacatedParts
<1>8. Typed'
  BY <1>0, <1>2, <1>3, <1>6, <1>7 DEF Typed
<1>9. Seated'
  BY <1>0, <1>2, <1>4, <1>5, <1>6, <1>7 DEF Seated
<1>10. Unharmed' /\ Busy'
  BY <1>3 DEF Unharmed, Busy
<1>11. Counted'
  <2>1. \A t \in Stream : t # s /\ ~stream[t].linked => stream[t].coming = 0
    <3> SUFFICES ASSUME NEW t \in Stream, t # s, ~stream[t].linked PROVE stream[t].coming = 0
      OBVIOUS
    <3> QED
      BY <1>0, <1>3 DEF Seated, Unharmed
  <2>2. \A t, u \in Stream : ~stream'[t].linked /\ ~stream'[u].linked /\ stream'[t].coming > 0
           /\ stream'[u].coming > 0 => t = u
    BY <1>6, <2>1
  <2>3. \A t \in Stream : stream'[t].coming \in Nat /\ stream'[t].coming <= stream[t].coming
    BY <1>0, <1>4, <1>5, <1>6, StateParts
  <2>4. hub'.queue = hub.queue /\ hub'.said = hub.said /\ inbox' = inbox
    BY <1>2, <1>7
  <2>5. /\ hub'.queue + inbox'.len <= hub'.said
        /\ \A t \in Stream : hub'.queue + stream'[t].coming + inbox'.len <= hub'.said
    BY <1>0, <2>3, <2>4, StateParts DEF Counted
  <2>6. \A t, u \in Stream : t # u =>
           hub'.queue + stream'[t].coming + stream'[u].coming + inbox'.len <= hub'.said
    BY <1>0, <2>3, <2>4, StateParts DEF Counted
  <2> QED
    BY <2>2, <2>5, <2>6 DEF Counted
<1> QED
  BY <1>2, <1>3, <1>8, <1>9, <1>10, <1>11, ReadersKept, StateParts, <1>0 DEF Inv

LEMMA JoinInv == ASSUME Inv, NEW s \in Stream, Join(s) PROVE Inv'
<1>0. Typed /\ Seated /\ Unharmed /\ Counted /\ BusyHub /\ BusyReaders
  BY BusyParts DEF Inv
<1> DEFINE v == [NotThere EXCEPT !.pc = "joined", !.linked = TRUE]
<1>1. /\ UNCHANGED <<path, inbox, reader, shown, upset>> /\ hub.holder = NoStream
      /\ stream[s].pc = "off" /\ stream' = [stream EXCEPT ![s] = v]
  BY DEF Join
<1>2. hub' = [holder |-> s, state |-> "idle", queue |-> hub.queue, said |-> hub.said]
  BY <1>0, HubSplit DEF Join, Typed
<1>3. v \in Streams /\ v.pc = "joined" /\ v.linked = TRUE /\ v.coming = 0
  BY DEF Streams, NotThere
<1> HIDE DEF v
<1>4. /\ stream' \in [Stream -> Streams] /\ stream'[s] = v
      /\ \A t \in Stream : t # s => stream'[t] = stream[t]
  BY <1>0, <1>1, <1>3, StreamSet
<1>5. Typed'
  BY <1>0, <1>1, <1>2, <1>4 DEF Typed
<1>6. NoStream \notin Stream
  BY SessionAssumption
<1>7. Seated'
  BY <1>0, <1>1, <1>2, <1>3, <1>4, <1>6 DEF Seated
<1>8. Unharmed'
  BY <1>0, <1>1, <1>3, <1>4 DEF Unharmed, Serving
<1>9. Peace => /\ inbox.len = 0 /\ \A t \in Stream : stream[t].coming = 0
  BY <1>0, <1>1, <1>6 DEF BusyHub, Peace, Seated, Unharmed
<1>10. BusyHub'
  BY <1>0, <1>1, <1>2, <1>3, <1>4, <1>6, <1>9 DEF BusyHub, Peace
<1>11. BusyReaders'
  BY <1>1, <1>9 DEF BusyReaders, Peace, Inv, Found
<1> QED
  BY <1>0, <1>1, <1>2, <1>3, <1>4, <1>5, <1>7, <1>8, <1>10, <1>11, StreamStepKeeps, StateParts

\* A stream that goes on to another place.
LEMMA GotoParts ==
  ASSUME Typed, NEW s \in Stream, NEW pc \in {"serving", "closing", "leaving"}, Goto(s, pc)
  PROVE  /\ stream' \in [Stream -> Streams] /\ stream'[s].pc = pc
         /\ stream'[s].linked = stream[s].linked /\ stream'[s].coming = stream[s].coming
         /\ \A t \in Stream : t # s => stream'[t] = stream[t]
<1> DEFINE v == [stream[s] EXCEPT !.pc = pc]
<1>1. stream[s] \in Streams
  BY StateParts
<1>2. /\ v \in Streams /\ v.pc = pc /\ v.linked = stream[s].linked /\ v.coming = stream[s].coming
      /\ stream' = [stream EXCEPT ![s] = v]
  BY <1>1 DEF Streams, Goto
<1> HIDE DEF v
<1> QED
  BY <1>2, StreamSet

LEMMA BindInv == ASSUME Inv, NEW s \in Stream, Bind(s) PROVE Inv'
<1>0. Typed /\ Seated /\ Unharmed /\ BusyHub /\ BusyReaders
  BY BusyParts DEF Inv
<1>1. /\ UNCHANGED <<hub, inbox, reader, shown, upset>> /\ path' = s
      /\ stream[s].pc = "joined" /\ Goto(s, "serving")
  BY DEF Bind
<1>2. /\ stream' \in [Stream -> Streams] /\ stream'[s].pc = "serving"
      /\ stream'[s].linked = stream[s].linked /\ stream'[s].coming = stream[s].coming
      /\ \A t \in Stream : t # s => stream'[t] = stream[t]
  BY <1>0, <1>1, GotoParts
<1>3. Typed'
  BY <1>0, <1>1, <1>2 DEF Typed
<1>4. Seated'
  BY <1>0, <1>1, <1>2 DEF Seated
<1>5. Unharmed'
  BY <1>0, <1>1, <1>2 DEF Unharmed, Seated, Serving
<1>6. BusyHub' /\ BusyReaders'
  BY <1>0, <1>1, <1>2 DEF BusyHub, BusyReaders, Peace, Serving
<1> QED
  BY <1>0, <1>1, <1>2, <1>3, <1>4, <1>5, <1>6, StreamStepKeeps, StateParts

LEMMA ShutdownInv == ASSUME Inv, NEW s \in Stream, Shutdown(s) PROVE Inv'
<1>0. Typed /\ Seated /\ Unharmed
  BY DEF Inv
<1>1. /\ UNCHANGED <<hub, path, inbox, reader, shown>> /\ upset' = upset \cup {"stopped"}
      /\ stream[s].pc = "serving" /\ Goto(s, "closing")
  BY DEF Shutdown, Upset, Serving
<1>2. /\ stream' \in [Stream -> Streams] /\ stream'[s].pc = "closing"
      /\ stream'[s].linked = stream[s].linked /\ stream'[s].coming = stream[s].coming
      /\ \A t \in Stream : t # s => stream'[t] = stream[t]
  BY <1>0, <1>1, GotoParts
<1>3. Typed'
  BY <1>0, <1>1, <1>2 DEF Typed
<1>4. Seated'
  BY <1>0, <1>1, <1>2 DEF Seated
<1>5. Unharmed'
  BY <1>0, <1>1, <1>2 DEF Unharmed, Serving
<1>6. BusyHub' /\ BusyReaders'
  BY <1>1 DEF BusyHub, BusyReaders, Peace
<1> QED
  BY <1>0, <1>1, <1>2, <1>3, <1>4, <1>5, <1>6, StreamStepKeeps, StateParts

LEMMA UnlinkInv == ASSUME Inv, NEW s \in Stream, Unlink(s) PROVE Inv'
<1>0. Typed /\ Seated /\ Unharmed /\ BusyHub /\ BusyReaders
  BY BusyParts DEF Inv
<1>1. /\ UNCHANGED <<hub, inbox, reader, shown, upset>> /\ path' = NoStream
      /\ stream[s].pc = "closing" /\ Goto(s, "leaving")
  BY DEF Unlink
<1>2. /\ stream' \in [Stream -> Streams] /\ stream'[s].pc = "leaving"
      /\ stream'[s].linked = stream[s].linked /\ stream'[s].coming = stream[s].coming
      /\ \A t \in Stream : t # s => stream'[t] = stream[t]
  BY <1>0, <1>1, GotoParts
<1>3. Typed'
  BY <1>0, <1>1, <1>2 DEF Typed
<1>4. Seated'
  BY <1>0, <1>1, <1>2 DEF Seated
<1>5. Unharmed'
  BY <1>0, <1>1, <1>2 DEF Unharmed, Seated, Serving
<1>6. BusyHub' /\ BusyReaders'
  BY <1>0, <1>1, <1>2 DEF BusyHub, BusyReaders, Peace, Serving
<1> QED
  BY <1>0, <1>1, <1>2, <1>3, <1>4, <1>5, <1>6, StreamStepKeeps, StateParts

\* A stream that is over, by itself or by a signal it cannot catch.
LEMMA OverKeeps ==
  ASSUME Inv, NEW s \in Stream, stream[s].pc \notin {"off", "over"},
         "stream" \in upset' \/ stream[s].pc = "leaving",
         "stream" \in upset' \/ UNCHANGED path,
         path' \in Stream \cup {NoStream, Stale}, UNCHANGED <<inbox, reader, shown>>,
         upset \subseteq upset', upset' \subseteq upset \cup {"stream"}, hub' = Vacated(s),
         stream' = [stream EXCEPT ![s] = Over]
  PROVE  Inv'
<1>0. Typed /\ Seated /\ Unharmed /\ BusyHub /\ BusyReaders
  BY BusyParts DEF Inv
<1>1. Over \in Streams /\ Over.pc = "over" /\ Over.linked = FALSE /\ Over.coming = 0
  BY DEF Over, NotThere, Streams
<1>2. /\ stream' \in [Stream -> Streams] /\ stream'[s] = Over
      /\ \A t \in Stream : t # s => stream'[t] = stream[t]
  BY <1>0, <1>1, StreamSet
<1>3. /\ hub' \in [holder : Stream \cup {NoStream}, state : {"idle", "busy"}, queue : Nat,
                   said : 0 .. MaxMsg]
      /\ hub'.queue = hub.queue /\ hub'.said = hub.said /\ hub'.state = hub.state
      /\ hub'.holder # s
      /\ \A t \in Stream : t # s => (hub'.holder = t <=> hub.holder = t)
  BY <1>0, VacatedParts
<1>4. Typed'
  BY <1>0, <1>2, <1>3 DEF Typed
<1>5. Seated'
  BY <1>0, <1>1, <1>2, <1>3 DEF Seated
<1>6. Unharmed'
  BY <1>0, <1>1, <1>2 DEF Unharmed, Serving
<1>7. BusyHub' /\ BusyReaders'
  BY <1>0 DEF BusyHub, BusyReaders, Peace
<1>8. stream'[s].coming <= stream[s].coming
  BY <1>0, <1>1, <1>2, StateParts
<1> QED
  BY <1>0, <1>1, <1>2, <1>3, <1>4, <1>5, <1>6, <1>7, <1>8, StreamStepKeeps

LEMMA LeaveInv == ASSUME Inv, NEW s \in Stream, Leave(s) PROVE Inv'
<1>1. path \in Stream \cup {NoStream, Stale}
  BY DEF Inv, Typed
<1> QED
  BY <1>1, OverKeeps DEF Leave

LEMMA KillStreamInv == ASSUME Inv, NEW s \in Stream, KillStream(s) PROVE Inv'
<1>1. path \in Stream \cup {NoStream, Stale}
  BY DEF Inv, Typed
<1> QED
  BY <1>1, OverKeeps DEF KillStream, Upset

LEMMA RejoinInv == ASSUME Inv, NEW s \in Stream, Rejoin(s) PROVE Inv'
<1>0. Typed /\ Seated /\ Unharmed /\ BusyHub /\ BusyReaders
  BY BusyParts DEF Inv
<1>1. /\ UNCHANGED <<path, inbox, reader, shown, upset>> /\ stream[s].pc = "serving"
      /\ ~stream[s].linked
  BY DEF Rejoin, Serving
<1>2. "stream" \in upset
  BY <1>0, <1>1 DEF Unharmed
<1>3. Unharmed' /\ BusyHub' /\ BusyReaders'
  BY <1>1, <1>2 DEF Unharmed, BusyHub, BusyReaders, Peace
<1>4. CASE hub.holder = NoStream
  <2> DEFINE v == [stream[s] EXCEPT !.linked = TRUE]
             st == IF stream[s].last = "none" THEN "idle" ELSE stream[s].last
  <2>1. stream[s] \in Streams
    BY <1>0, StateParts
  <2>2. /\ v \in Streams /\ v.pc = "serving" /\ v.linked = TRUE /\ v.coming = stream[s].coming
        /\ st \in {"idle", "busy"}
    BY <1>1, <2>1 DEF Streams
  <2>3. stream' = [stream EXCEPT ![s] = v]
    BY <1>4 DEF Rejoin
  <2>4. hub' = [holder |-> s, state |-> st, queue |-> hub.queue, said |-> hub.said]
    BY <1>0, <1>4, HubSplit DEF Rejoin, Typed
  <2> HIDE DEF v, st
  <2>5. /\ stream' \in [Stream -> Streams] /\ stream'[s] = v
        /\ \A t \in Stream : t # s => stream'[t] = stream[t]
    BY <1>0, <2>2, <2>3, StreamSet
  <2>6. Typed'
    BY <1>0, <1>1, <2>2, <2>4, <2>5 DEF Typed
  <2>7. NoStream \notin Stream
    BY SessionAssumption
  <2>8. Seated'
    BY <1>0, <1>4, <2>2, <2>4, <2>5, <2>7 DEF Seated
  <2> QED
    BY <1>0, <1>1, <1>3, <2>2, <2>4, <2>5, <2>6, <2>8, StreamStepKeeps, StateParts
<1>5. CASE hub.holder # NoStream
  <2>1. Goto(s, "closing") /\ UNCHANGED hub
    BY <1>5 DEF Rejoin
  <2>2. /\ stream' \in [Stream -> Streams] /\ stream'[s].pc = "closing"
        /\ stream'[s].linked = stream[s].linked /\ stream'[s].coming = stream[s].coming
        /\ \A t \in Stream : t # s => stream'[t] = stream[t]
    BY <1>0, <2>1, GotoParts
  <2>3. Typed'
    BY <1>0, <1>1, <2>1, <2>2 DEF Typed
  <2>4. Seated'
    BY <1>0, <1>1, <2>1, <2>2 DEF Seated
  <2> QED
    BY <1>0, <1>1, <1>3, <2>1, <2>2, <2>3, <2>4, StreamStepKeeps, StateParts
<1> QED
  BY <1>4, <1>5

LEMMA AppendInv == ASSUME Inv, NEW s \in Stream, Append(s) PROVE Inv'
<1>0. Typed /\ Seated /\ Unharmed /\ Counted /\ BusyHub /\ BusyReaders
  BY BusyParts DEF Inv
<1> DEFINE v == [stream[s] EXCEPT !.coming = 0]
           n == stream[s].coming
<1>1. /\ UNCHANGED <<hub, path, reader, shown, upset>> /\ n > 0
      /\ stream[s].pc \notin {"off", "over"} /\ stream' = [stream EXCEPT ![s] = v]
  BY DEF Append
<1>2. n \in Nat /\ stream[s] \in Streams
  BY <1>0, StateParts
<1>3. /\ v \in Streams /\ v.pc = stream[s].pc /\ v.linked = stream[s].linked /\ v.coming = 0
  BY <1>2 DEF Streams
<1>4. inbox' = [len |-> inbox.len + n, cursor |-> inbox.cursor]
  BY <1>0 DEF Append, Typed
<1> HIDE DEF v
<1>5. /\ stream' \in [Stream -> Streams] /\ stream'[s] = v
      /\ \A t \in Stream : t # s => stream'[t] = stream[t]
  BY <1>0, <1>1, <1>3, StreamSet
<1>6. Typed'
  <2>1. inbox' \in [len : Nat, cursor : Nat]
    BY <1>0, <1>2, <1>4, StateParts
  <2> QED
    BY <1>0, <1>1, <1>5, <2>1 DEF Typed
<1>7. Seated'
  BY <1>0, <1>1, <1>3, <1>5 DEF Seated
<1>8. Unharmed'
  BY <1>0, <1>1, <1>3, <1>5 DEF Unharmed, Serving
<1>9. Counted'
  <2>1. \A t, u \in Stream : ~stream'[t].linked /\ ~stream'[u].linked /\ stream'[t].coming > 0
           /\ stream'[u].coming > 0 => t = u
    BY <1>0, <1>3, <1>5 DEF Counted
  <2>2. hub' = hub /\ inbox'.len = inbox.len + n
    BY <1>1, <1>4
  <2>3. hub'.queue + inbox'.len <= hub'.said
    BY <1>0, <1>2, <2>2, StateParts DEF Counted
  <2>4. \A t \in Stream : hub'.queue + stream'[t].coming + inbox'.len <= hub'.said
    <3> SUFFICES ASSUME NEW t \in Stream
                 PROVE  hub'.queue + stream'[t].coming + inbox'.len <= hub'.said
      OBVIOUS
    <3>1. CASE t = s
      BY <1>0, <1>2, <1>3, <1>5, <2>2, <3>1, StateParts DEF Counted
    <3>2. CASE t # s
      BY <1>0, <1>2, <1>5, <2>2, <3>2, StateParts DEF Counted
    <3> QED
      BY <3>1, <3>2
  <2>5. ASSUME NEW t \in Stream, NEW u \in Stream, t # u
        PROVE  hub'.queue + stream'[t].coming + stream'[u].coming + inbox'.len <= hub'.said
    \* Of three streams two are not linked, and one of those has nothing coming.
    <3>1. \A x, y \in Stream : x # y => ~stream[x].linked \/ ~stream[y].linked
      BY <1>0 DEF Seated
    <3>2. CASE t # s /\ u # s
      <4>1. stream[t].coming = 0 \/ stream[u].coming = 0
        BY <1>0, <1>1, <1>2, <2>5, <3>1, <3>2, StateParts DEF Counted
      <4>2. stream'[t].coming = stream[t].coming /\ stream'[u].coming = stream[u].coming
        BY <1>5, <3>2
      <4>3. CASE stream[t].coming = 0
        <5>1. hub.queue + stream[s].coming + stream[u].coming + inbox.len <= hub.said
          BY <1>0, <3>2 DEF Counted
        <5> QED
          BY <1>0, <1>2, <2>2, <4>2, <4>3, <5>1, StateParts
      <4>4. CASE stream[u].coming = 0
        <5>1. hub.queue + stream[s].coming + stream[t].coming + inbox.len <= hub.said
          BY <1>0, <3>2 DEF Counted
        <5> QED
          BY <1>0, <1>2, <2>2, <4>2, <4>4, <5>1, StateParts
      <4> QED
        BY <4>1, <4>3, <4>4
    <3>3. CASE t = s \/ u = s
      BY <1>0, <1>2, <1>3, <1>5, <2>2, <2>5, <3>3, StateParts DEF Counted
    <3> QED
      BY <3>2, <3>3
  <2> QED
    BY <2>1, <2>3, <2>4, <2>5 DEF Counted
<1>10. BusyReaders'
  BY <1>0, <1>1 DEF BusyReaders, Peace
<1>11. BusyHub'
  <2>1. ASSUME Peace PROVE hub.holder # NoStream
    <3>1. stream[s].linked
      BY <1>0, <1>1, <2>1 DEF Unharmed, Peace
    <3> QED
      BY <1>0, <3>1, SessionAssumption DEF Seated
  <2> QED
    BY <1>0, <1>1, <1>3, <1>5, <2>1 DEF BusyHub, Peace, Serving
<1>12. inbox'.len \in Nat /\ inbox'.len >= inbox.len /\ inbox'.cursor = inbox.cursor
  BY <1>0, <1>2, <1>4, StateParts
<1> QED
  BY <1>1, <1>6, <1>7, <1>8, <1>9, <1>10, <1>11, <1>12, ReadersKept, BusyPartsPrimed DEF Inv

-----------------------------------------------------------------------------
(* The readers.                                                            *)

Before == {"idling", "polling", "busying", "reading"}

\* A reader that has not yet taken what it found goes on.
LEMMA BeforeKept ==
  ASSUME Inv, NEW r \in Reader, NEW v \in Readers, reader' = [reader EXCEPT ![r] = v],
         reader[r].pc \in Before, v.pc \in Before, v.start = reader[r].start,
         v.end = reader[r].end \/ v.end = inbox.len, UNCHANGED <<inbox, shown, upset>>
  PROVE  InBounds' /\ Covered' /\ Alone' /\ Fresh'
<1>0. Typed /\ InBounds /\ Covered /\ Alone /\ Fresh
  BY DEF Inv
<1>1. /\ reader'[r] = v /\ \A q \in Reader : q # r => reader'[q] = reader[q]
  BY <1>0, ReaderSet
<1>2. inbox.len \in Nat
  BY <1>0, StateParts
<1>3. InBounds'
  BY <1>0, <1>1, <1>2 DEF InBounds
<1>4. \A l \in Lines : Accounted(l) => Accounted(l)'
  BY <1>1 DEF Accounted, At, Before
<1>5. Covered'
  BY <1>0, <1>1, <1>4 DEF Covered
<1>6. \A q \in Reader : Active(q)' <=> Active(q)
  BY <1>1 DEF Active, At, Before
<1>7. Alone'
  BY <1>0, <1>6 DEF Alone
<1>8. Fresh'
  <2> SUFFICES ASSUME upset \cap {"cursor", "overlap"} = {} PROVE Fresh'
    BY DEF Fresh
  <2>1. (\A q \in Reader : ~Active(q)') => FALSE
    BY <1>6 DEF Active, At, Before
  <2>2. \A q \in Reader :
          /\ Active(q)' => \A l \in Lines : l > reader'[q].start => shown'[l] = 0
          /\ reader'[q].pc \in Before => reader'[q].start = inbox'.cursor
          /\ At(q, "printing")' => reader'[q].end = inbox'.cursor
    BY <1>0, <1>1, <1>6 DEF Fresh, Before, At
  <2>3. \A l \in Lines : shown'[l] < 2
    BY <1>0 DEF Fresh
  <2> QED
    BY <2>1, <2>2, <2>3 DEF Fresh, Before
<1> QED
  BY <1>3, <1>5, <1>7, <1>8

\* A reader that ends before it has taken anything.
LEMMA DoneKept ==
  ASSUME Inv, NEW r \in Reader, Done(r), reader[r].pc \in Before, UNCHANGED <<inbox, shown>>,
         upset \subseteq upset'
  PROVE  /\ reader' \in [Reader -> Readers]
         /\ reader'[r] = AtRest /\ \A q \in Reader : q # r => reader'[q] = reader[q]
         /\ Found' /\ InBounds' /\ Covered' /\ Alone' /\ Fresh'
<1>0. Typed /\ Found /\ InBounds /\ Covered /\ Alone /\ Fresh
  BY DEF Inv
<1>1. AtRest \in Readers /\ AtRest.pc = "rest" /\ AtRest.start = 0 /\ AtRest.end = 0
  BY DEF AtRest, Readers
<1>2. /\ reader' \in [Reader -> Readers]
      /\ reader'[r] = AtRest /\ \A q \in Reader : q # r => reader'[q] = reader[q]
  BY <1>0, <1>1, ReaderSet DEF Done
<1>3. inbox.len \in Nat /\ \A l \in Lines : l \in Nat /\ l > 0
  BY <1>0, StateParts, LinesAreNumbers
<1>4. Found'
  BY <1>0, <1>1, <1>2 DEF Found, At, Handing
<1>5. InBounds'
  BY <1>0, <1>1, <1>2, <1>3 DEF InBounds
<1>6. \A l \in Lines : Accounted(l) => Accounted(l)'
  BY <1>1, <1>2 DEF Accounted, At, Before
<1>7. Covered'
  <2> SUFFICES ASSUME "cursor" \notin upset PROVE Covered'
    BY DEF Covered
  <2>1. \A l \in Lines : l <= inbox'.cursor => Accounted(l)'
    BY <1>0, <1>6 DEF Covered
  <2>2. \A l \in Lines : \A q \in Reader : l <= reader'[q].start => Accounted(l)'
    <3> SUFFICES ASSUME NEW l \in Lines, NEW q \in Reader, l <= reader'[q].start
                 PROVE  Accounted(l)'
      OBVIOUS
    <3>1. CASE q = r
      BY <1>1, <1>2, <1>3, <3>1
    <3>2. CASE q # r
      BY <1>0, <1>2, <1>6, <3>2 DEF Covered
    <3> QED
      BY <3>1, <3>2
  <2> QED
    BY <2>1, <2>2 DEF Covered
<1>8. \A q \in Reader : Active(q)' <=> Active(q) /\ q # r
  BY <1>1, <1>2 DEF Active, At
<1>9. Alone'
  BY <1>0, <1>8 DEF Alone
<1>10. Fresh'
  <2> SUFFICES ASSUME upset' \cap {"cursor", "overlap"} = {} PROVE Fresh'
    BY DEF Fresh
  <2>1. upset \cap {"cursor", "overlap"} = {}
    OBVIOUS
  <2>2. \A q \in Reader : Active(q) => q = r
    BY <1>0, <2>1 DEF Alone, Active, At, Before
  <2>3. \A q \in Reader : ~Active(q)'
    BY <1>8, <2>2
  <2>4. \A l \in Lines : l > inbox.cursor => shown[l] = 0
    BY <1>0, <2>1 DEF Fresh, Active, At, Before
  <2>5. \A l \in Lines : shown[l] < 2
    BY <1>0, <2>1 DEF Fresh
  <2>6. \A q \in Reader : reader'[q].pc = "rest"
    BY <2>3 DEF Active, At
  <2> QED
    BY <2>3, <2>4, <2>5, <2>6 DEF Fresh, At
<1> QED
  BY <1>2, <1>4, <1>5, <1>7, <1>9, <1>10

\* A report: the streams and the hub stay as they are but for the state, which
\* in peace is the one reported if a stream serves.
LEMMA RelayParts ==
  ASSUME Inv, NEW state \in {"idle", "busy"}, Relay(state), UNCHANGED <<path, inbox, upset>>
  PROVE  /\ hub' \in [holder : Stream \cup {NoStream}, state : {"idle", "busy"}, queue : Nat,
                      said : 0 .. MaxMsg]
         /\ stream' \in [Stream -> Streams] /\ hub'.holder = hub.holder
         /\ Seated' /\ Unharmed' /\ Counted' /\ BusyHub'
         /\ Peace => hub'.state = IF \E s \in Stream : Serving(s) THEN state ELSE hub.state
<1>0. Typed /\ Seated /\ Unharmed /\ Counted /\ BusyHub
  BY BusyParts DEF Inv
<1>1. CASE path \in Stream /\ Serving(path)
  <2> DEFINE v == [stream[path] EXCEPT !.last = state]
             st == IF stream[path].linked THEN state ELSE hub.state
  <2>1. stream' = [stream EXCEPT ![path] = v]
    BY <1>1 DEF Relay
  <2>2. stream[path] \in Streams
    BY <1>0, <1>1, StateParts
  <2>3. /\ v \in Streams /\ v.pc = stream[path].pc /\ v.linked = stream[path].linked
        /\ v.coming = stream[path].coming
    BY <2>2 DEF Streams
  <2>4. hub' = [holder |-> hub.holder, state |-> st, queue |-> hub.queue, said |-> hub.said]
    BY <1>0, <1>1, HubSplit DEF Relay, Typed
  <2>5. st \in {"idle", "busy"}
    BY <1>0, StateParts
  <2> HIDE DEF v, st
  <2>6. /\ stream' \in [Stream -> Streams] /\ stream'[path] = v
        /\ \A t \in Stream : t # path => stream'[t] = stream[t]
    BY <1>0, <1>1, <2>1, <2>3, StreamSet
  <2>7. hub' \in [holder : Stream \cup {NoStream}, state : {"idle", "busy"}, queue : Nat,
                  said : 0 .. MaxMsg]
    BY <1>0, <2>4, <2>5 DEF Typed
  <2>8. \A t \in Stream : /\ stream'[t].pc = stream[t].pc /\ stream'[t].linked = stream[t].linked
                          /\ stream'[t].coming = stream[t].coming
    BY <2>3, <2>6
  <2>9. Seated' /\ Unharmed'
    BY <1>0, <2>4, <2>8 DEF Seated, Unharmed, Serving
  <2>10. Counted'
    BY <1>0, <2>4, <2>8 DEF Counted
  <2>11. Peace => hub'.state = state
    BY <1>0, <1>1, <2>4 DEF Peace, Unharmed, Serving, st
  <2>12. BusyHub'
    BY <1>0, <1>1, <2>4, <2>8 DEF BusyHub, Peace, Serving
  <2> QED
    BY <1>1, <2>4, <2>6, <2>7, <2>9, <2>10, <2>11, <2>12
<1>2. CASE ~(path \in Stream /\ Serving(path))
  <2>1. UNCHANGED <<hub, stream>>
    BY <1>2 DEF Relay
  <2>2. Peace => \A s \in Stream : ~Serving(s)
    BY <1>0, <1>2 DEF Peace, Unharmed
  <2>3. Seated' /\ Unharmed' /\ Counted' /\ BusyHub'
    BY <1>0, <2>1 DEF Seated, Unharmed, Serving, Counted, BusyHub, Peace
  <2> QED
    BY <1>0, <2>1, <2>2, <2>3 DEF Typed
<1> QED
  BY <1>1, <1>2

\* A reader that goes on to another place.
LEMMA MoveParts ==
  ASSUME Typed, NEW r \in Reader, NEW pc \in Before \cup Handing \cup {"printing"}, Move(r, pc)
  PROVE  \E v \in Readers :
           /\ reader' = [reader EXCEPT ![r] = v] /\ v.pc = pc /\ v.start = reader[r].start
           /\ v.end = reader[r].end /\ v.cmd = reader[r].cmd
<1> DEFINE v == [reader[r] EXCEPT !.pc = pc]
<1>1. reader[r] \in Readers
  BY StateParts
<1>2. v \in Readers
  BY <1>1 DEF Readers, Before, Handing
<1>3. /\ v.pc = pc /\ v.start = reader[r].start /\ v.end = reader[r].end /\ v.cmd = reader[r].cmd
      /\ reader' = [reader EXCEPT ![r] = v]
  BY <1>1 DEF Readers, Move
<1> QED
  BY <1>2, <1>3

LEMMA ReportIdleInv == ASSUME Inv, NEW r \in Reader, ReportIdle(r) PROVE Inv'
<1>0. Typed /\ Found /\ Alone /\ BusyHub /\ BusyReaders
  BY BusyParts DEF Inv
<1>1. /\ UNCHANGED <<path, inbox, shown, upset>> /\ reader[r].pc = "idling"
  BY DEF ReportIdle, Report, At
<1>2. CASE path \in Stream /\ ~Serving(path)
  <2>1. Done(r) /\ UNCHANGED <<hub, stream>>
    BY <1>2 DEF ReportIdle, Report
  <2>2. /\ reader' \in [Reader -> Readers]
        /\ reader'[r] = AtRest /\ \A q \in Reader : q # r => reader'[q] = reader[q]
        /\ Found' /\ InBounds' /\ Covered' /\ Alone' /\ Fresh'
    BY <1>1, <2>1, DoneKept DEF Before
  <2>3. Typed'
    BY <1>0, <1>1, <2>1, <2>2 DEF Typed
  <2>4. BusyHub'
    BY <1>0, <1>1, <2>1 DEF BusyHub, Peace, Serving
  <2>5. BusyReaders'
    BY <1>0, <1>1, <2>1, <2>2 DEF BusyReaders, Peace, AtRest, Handing
  <2> QED
    BY <1>1, <2>1, <2>2, <2>3, <2>4, <2>5, StreamsKept, BusyPartsPrimed DEF Inv
<1>3. CASE ~(path \in Stream /\ ~Serving(path))
  <2>1. Relay("idle") /\ Move(r, "polling")
    BY <1>3 DEF ReportIdle, Report
  <2>2. PICK v \in Readers :
           /\ reader' = [reader EXCEPT ![r] = v] /\ v.pc = "polling" /\ v.start = reader[r].start
           /\ v.end = reader[r].end /\ v.cmd = reader[r].cmd
    BY <1>0, <2>1, MoveParts DEF Before
  <2>3. /\ reader' \in [Reader -> Readers] /\ reader'[r] = v
        /\ \A q \in Reader : q # r => reader'[q] = reader[q]
    BY <1>0, <2>2, ReaderSet
  <2>4. InBounds' /\ Covered' /\ Alone' /\ Fresh'
    BY <1>1, <2>2, BeforeKept DEF Before
  <2>5. Found'
    BY <1>0, <1>1, <2>2, <2>3 DEF Found, At, Handing
  <2>6. /\ hub' \in [holder : Stream \cup {NoStream}, state : {"idle", "busy"}, queue : Nat,
                     said : 0 .. MaxMsg]
        /\ stream' \in [Stream -> Streams]
        /\ Seated' /\ Unharmed' /\ Counted' /\ BusyHub'
    BY <1>1, <2>1, RelayParts
  <2>7. Typed'
    BY <1>0, <1>1, <2>3, <2>6 DEF Typed
  <2>8. BusyReaders'
    <3>1. ASSUME Peace PROVE \A q \in Reader : reader'[q].pc \notin Handing
      <4>1. \A q \in Reader : q # r => ~Active(q)
        BY <1>0, <1>1, <3>1 DEF Alone, Active, At, Peace
      <4> QED
        BY <2>2, <2>3, <4>1 DEF Active, At, Handing
    <3> QED
      BY <1>1, <3>1 DEF BusyReaders, Peace
  <2> QED
    BY <2>4, <2>5, <2>6, <2>7, <2>8, BusyPartsPrimed DEF Inv
<1> QED
  BY <1>2, <1>3

LEMMA ReportBusyInv == ASSUME Inv, NEW r \in Reader, ReportBusy(r) PROVE Inv'
<1>0. Typed /\ Found /\ Alone /\ BusyHub /\ BusyReaders
  BY BusyParts DEF Inv
<1>1. /\ UNCHANGED <<path, inbox, shown, upset>> /\ reader[r].pc = "busying"
  BY DEF ReportBusy, Report, At
<1>2. CASE Done(r)
  <2>1. /\ reader' \in [Reader -> Readers]
        /\ reader'[r] = AtRest /\ \A q \in Reader : q # r => reader'[q] = reader[q]
        /\ Found' /\ InBounds' /\ Covered' /\ Alone' /\ Fresh'
    BY <1>1, <1>2, DoneKept DEF Before
  <2>2. UNCHANGED <<hub, stream>> \/ Relay("busy")
    BY DEF ReportBusy, Report
  <2>3. CASE UNCHANGED <<hub, stream>>
    <3>1. Typed'
      BY <1>0, <1>1, <2>1, <2>3 DEF Typed
    <3>2. BusyHub'
      BY <1>0, <1>1, <2>3 DEF BusyHub, Peace, Serving
    <3>3. BusyReaders'
      BY <1>0, <1>1, <2>1, <2>3 DEF BusyReaders, Peace, AtRest, Handing
    <3> QED
      BY <1>1, <2>1, <2>3, <3>1, <3>2, <3>3, StreamsKept, BusyPartsPrimed DEF Inv
  <2>4. CASE Relay("busy")
    <3>1. /\ hub' \in [holder : Stream \cup {NoStream}, state : {"idle", "busy"}, queue : Nat,
                       said : 0 .. MaxMsg]
          /\ stream' \in [Stream -> Streams]
          /\ Seated' /\ Unharmed' /\ Counted' /\ BusyHub'
          /\ Peace => hub'.state = IF \E s \in Stream : Serving(s) THEN "busy" ELSE hub.state
      BY <1>1, <2>4, RelayParts
    <3>2. Typed'
      BY <1>0, <1>1, <2>1, <3>1 DEF Typed
    <3>3. BusyReaders'
      BY <1>0, <1>1, <2>1, <3>1 DEF BusyReaders, Peace, AtRest, Handing
    <3> QED
      BY <2>1, <3>1, <3>2, <3>3, BusyPartsPrimed DEF Inv
  <2> QED
    BY <2>2, <2>3, <2>4
<1>3. CASE ~Done(r)
  <2>1. Relay("busy") /\ Move(r, "reading") /\ ~Emptyhanded(r)
    BY <1>3 DEF ReportBusy, Report
  <2>2. PICK v \in Readers :
           /\ reader' = [reader EXCEPT ![r] = v] /\ v.pc = "reading" /\ v.start = reader[r].start
           /\ v.end = reader[r].end /\ v.cmd = reader[r].cmd
    BY <1>0, <2>1, MoveParts DEF Before
  <2>3. /\ reader' \in [Reader -> Readers] /\ reader'[r] = v
        /\ \A q \in Reader : q # r => reader'[q] = reader[q]
    BY <1>0, <2>2, ReaderSet
  <2>4. InBounds' /\ Covered' /\ Alone' /\ Fresh'
    BY <1>1, <2>2, BeforeKept DEF Before
  <2>5. inbox.len > 0
    <3>1. reader[r].cmd \in {"wait", "peek"}
      BY <1>0, StateParts DEF Readers
    <3> QED
      BY <1>0, <1>1, <2>1, <3>1, StateParts DEF Found, At, Emptyhanded
  <2>6. Found'
    BY <1>0, <1>1, <2>2, <2>3, <2>5 DEF Found, At, Handing
  <2>7. /\ hub' \in [holder : Stream \cup {NoStream}, state : {"idle", "busy"}, queue : Nat,
                     said : 0 .. MaxMsg]
        /\ stream' \in [Stream -> Streams]
        /\ Seated' /\ Unharmed' /\ Counted' /\ BusyHub'
        /\ Peace => hub'.state = IF \E s \in Stream : Serving(s) THEN "busy" ELSE hub.state
    BY <1>1, <2>1, RelayParts
  <2>8. Typed'
    BY <1>0, <1>1, <2>3, <2>7 DEF Typed
  <2>9. BusyReaders'
    <3>1. Peace => hub'.state = "busy"
      BY <1>0, <2>5, <2>7 DEF BusyHub
    <3> QED
      BY <1>1, <3>1 DEF BusyReaders, Peace
  <2> QED
    BY <2>4, <2>6, <2>7, <2>8, <2>9, BusyPartsPrimed DEF Inv
<1> QED
  BY <1>2, <1>3

\* What a reader does by itself, once its effect on the readers is known.
LEMMA ReaderStepKeeps ==
  ASSUME Inv, NEW r \in Reader, UNCHANGED <<hub, path, stream>>, inbox'.len = inbox.len,
         upset \subseteq upset', reader'[r].pc \in Handing => reader[r].pc \in Handing,
         \A q \in Reader : q # r => reader'[q] = reader[q],
         Typed', Found', InBounds', Covered', Alone', Fresh'
  PROVE  Inv'
<1>0. BusyHub /\ BusyReaders
  BY BusyParts DEF Inv
<1>1. BusyHub'
  BY <1>0 DEF BusyHub, Peace, Serving
<1>2. BusyReaders'
  BY <1>0 DEF BusyReaders, Peace
<1> QED
  BY <1>1, <1>2, StreamsKept, BusyPartsPrimed DEF Inv

LEMMA BeginInv == ASSUME Inv, NEW r \in Reader, Begin(r) PROVE Inv'
<1>0. Typed /\ Found /\ InBounds /\ Covered /\ Alone /\ Fresh
  BY DEF Inv
<1>1. /\ UNCHANGED <<hub, path, stream, inbox, shown>> /\ reader[r].pc = "rest"
      /\ upset \subseteq upset' /\ upset' \subseteq upset \cup {"overlap"}
  BY DEF Begin, At, Upset
<1>2. PICK cmd \in {"wait", "peek"} :
        reader' = [reader EXCEPT ![r] =
          [pc |-> "idling", cmd |-> cmd, start |-> inbox.cursor, end |-> 0]]
  BY DEF Begin
<1> DEFINE v == [pc |-> "idling", cmd |-> cmd, start |-> inbox.cursor, end |-> 0]
<1>3. v \in Readers /\ v.pc = "idling" /\ v.start = inbox.cursor /\ v.end = 0
  BY <1>0, StateParts DEF Readers
<1>4. reader' = [reader EXCEPT ![r] = v]
  BY <1>2
<1> HIDE DEF v
<1>5. /\ reader' \in [Reader -> Readers] /\ reader'[r] = v
      /\ \A q \in Reader : q # r => reader'[q] = reader[q]
  BY <1>0, <1>3, <1>4, ReaderSet
<1>6. Typed'
  BY <1>0, <1>1, <1>5 DEF Typed
<1>7. Found'
  BY <1>0, <1>1, <1>3, <1>5 DEF Found, At, Handing
<1>8. InBounds'
  BY <1>0, <1>1, <1>3, <1>5, StateParts DEF InBounds
<1>9. \A l \in Lines : Accounted(l) => Accounted(l)'
  BY <1>1, <1>3, <1>5 DEF Accounted, At
<1>10. Covered'
  BY <1>0, <1>1, <1>3, <1>5, <1>9 DEF Covered
<1>11. "overlap" \notin upset' => \A q \in Reader : q # r => ~Active(q)
  BY DEF Begin, Upset
<1>12. Alone'
  BY <1>5, <1>11 DEF Alone, Active, At
<1>13. Fresh'
  <2> SUFFICES ASSUME upset' \cap {"cursor", "overlap"} = {} PROVE Fresh'
    BY DEF Fresh
  <2>1. upset \cap {"cursor", "overlap"} = {}
    BY <1>1
  <2>2. \A q \in Reader : ~Active(q)
    BY <1>1, <1>11 DEF Active, At
  <2>3. \A l \in Lines : shown[l] < 2 /\ (l > inbox.cursor => shown[l] = 0)
    BY <1>0, <2>1, <2>2 DEF Fresh
  <2>4. \A q \in Reader : q # r => reader'[q].pc = "rest"
    BY <1>5, <2>2 DEF Active, At
  <2> QED
    BY <1>1, <1>3, <1>5, <2>3, <2>4 DEF Fresh, Active, At
<1> QED
  BY <1>1, <1>3, <1>5, <1>6, <1>7, <1>8, <1>10, <1>12, <1>13, ReaderStepKeeps DEF Handing

LEMMA PollWaitInv == ASSUME Inv, NEW r \in Reader, PollWait(r) PROVE Inv'
<1>0. Typed /\ Found
  BY DEF Inv
<1>1. /\ UNCHANGED <<hub, path, stream, inbox, shown, upset>> /\ reader[r].pc = "polling"
      /\ reader[r].cmd = "wait"
  BY DEF PollWait, At
<1>2. CASE Grown(r)
  <2>1. Move(r, "busying")
    BY <1>2 DEF PollWait
  <2>2. PICK v \in Readers :
           /\ reader' = [reader EXCEPT ![r] = v] /\ v.pc = "busying" /\ v.start = reader[r].start
           /\ v.end = reader[r].end /\ v.cmd = reader[r].cmd
    BY <1>0, <2>1, MoveParts DEF Before
  <2>3. /\ reader' \in [Reader -> Readers] /\ reader'[r] = v
        /\ \A q \in Reader : q # r => reader'[q] = reader[q]
    BY <1>0, <2>2, ReaderSet
  <2>4. InBounds' /\ Covered' /\ Alone' /\ Fresh'
    BY <1>1, <2>2, BeforeKept DEF Before
  <2>5. Found'
    BY <1>0, <1>1, <1>2, <2>2, <2>3, StateParts DEF Found, At, Handing, Grown
  <2>6. Typed'
    BY <1>0, <1>1, <2>3 DEF Typed
  <2> QED
    BY <1>1, <2>2, <2>3, <2>4, <2>5, <2>6, ReaderStepKeeps DEF Handing
<1>3. CASE ~Grown(r)
  <2>1. Done(r)
    BY <1>3 DEF PollWait
  <2>2. /\ reader' \in [Reader -> Readers]
        /\ reader'[r] = AtRest /\ \A q \in Reader : q # r => reader'[q] = reader[q]
        /\ Found' /\ InBounds' /\ Covered' /\ Alone' /\ Fresh'
    BY <1>1, <2>1, DoneKept DEF Before
  <2>3. Typed'
    BY <1>0, <1>1, <2>2 DEF Typed
  <2> QED
    BY <1>1, <2>2, <2>3, ReaderStepKeeps DEF Handing, AtRest
<1> QED
  BY <1>2, <1>3

LEMMA PollPeekInv == ASSUME Inv, NEW r \in Reader, PollPeek(r) PROVE Inv'
<1>0. Typed /\ Found
  BY DEF Inv
<1>1. /\ UNCHANGED <<hub, path, stream, inbox, shown, upset>> /\ reader[r].pc = "polling"
      /\ reader[r].cmd = "peek"
      /\ reader' = [reader EXCEPT ![r].pc = "busying", ![r].end = inbox.len]
  BY DEF PollPeek, At
<1> DEFINE v == [reader[r] EXCEPT !.pc = "busying", !.end = inbox.len]
<1>2. reader[r] \in Readers /\ inbox.len \in Nat
  BY <1>0, StateParts
<1>3. /\ v \in Readers /\ v.pc = "busying" /\ v.start = reader[r].start /\ v.end = inbox.len
      /\ v.cmd = "peek" /\ reader' = [reader EXCEPT ![r] = v]
  BY <1>0, <1>1, <1>2 DEF Readers, Typed
<1> HIDE DEF v
<1>4. /\ reader' \in [Reader -> Readers] /\ reader'[r] = v
      /\ \A q \in Reader : q # r => reader'[q] = reader[q]
  BY <1>0, <1>3, ReaderSet
<1>5. InBounds' /\ Covered' /\ Alone' /\ Fresh'
  BY <1>1, <1>3, BeforeKept DEF Before
<1>6. Found'
  BY <1>0, <1>1, <1>2, <1>3, <1>4 DEF Found, At, Handing
<1>7. Typed'
  BY <1>0, <1>1, <1>4 DEF Typed
<1> QED
  BY <1>1, <1>3, <1>4, <1>5, <1>6, <1>7, ReaderStepKeeps DEF Handing

LEMMA ReadInv == ASSUME Inv, NEW r \in Reader, Read(r) PROVE Inv'
<1>0. Typed /\ Found /\ InBounds /\ Covered /\ Alone /\ Fresh
  BY DEF Inv
<1> DEFINE e == IF Grown(r) THEN inbox.len ELSE reader[r].start
           v == [pc |-> "marking", cmd |-> "wait", start |-> reader[r].start, end |-> e]
<1>1. /\ UNCHANGED <<hub, path, stream, shown, upset>> /\ reader[r].pc = "reading"
      /\ reader' = [reader EXCEPT ![r] = v]
  BY DEF Read, At
<1>2. inbox' = [len |-> inbox.len, cursor |-> 0]
  BY <1>0 DEF Read, Typed
<1>3. inbox.len \in Nat /\ inbox.cursor \in Nat /\ reader[r].start \in Nat
  BY <1>0, StateParts
<1>4. e \in Nat /\ e >= reader[r].start /\ (e = inbox.len \/ e = reader[r].start)
  BY <1>3 DEF Grown
<1> HIDE DEF e
<1>5. v \in Readers /\ v.pc = "marking" /\ v.start = reader[r].start /\ v.end = e
  BY <1>3, <1>4 DEF Readers
<1> HIDE DEF v
<1>6. /\ reader' \in [Reader -> Readers] /\ reader'[r] = v
      /\ \A q \in Reader : q # r => reader'[q] = reader[q]
  BY <1>0, <1>1, <1>5, ReaderSet
<1>7. Typed'
  <2>1. inbox' \in [len : Nat, cursor : Nat]
    BY <1>2, <1>3
  <2> QED
    BY <1>0, <1>1, <1>6, <2>1 DEF Typed
<1>8. Found'
  <2>1. inbox.len > 0
    BY <1>0, <1>1 DEF Found, Handing
  <2> QED
    BY <1>0, <1>2, <1>4, <1>5, <1>6, <2>1 DEF Found, At, Handing
<1>9. InBounds'
  BY <1>0, <1>1, <1>2, <1>3, <1>4, <1>5, <1>6 DEF InBounds
<1>10. \A l \in Lines : Accounted(l) => Accounted(l)'
  BY <1>1, <1>6 DEF Accounted, At
<1>11. Covered'
  <2>1. \A l \in Lines : ~(l <= inbox'.cursor)
    BY <1>2, LinesAreNumbers
  <2> QED
    BY <1>0, <1>1, <1>5, <1>6, <1>10, <2>1 DEF Covered
<1>12. \A q \in Reader : Active(q)' <=> Active(q)
  BY <1>1, <1>5, <1>6 DEF Active, At
<1>13. Alone'
  BY <1>0, <1>1, <1>12 DEF Alone
<1>14. Fresh'
  <2> SUFFICES ASSUME upset \cap {"cursor", "overlap"} = {} PROVE Fresh'
    BY <1>1 DEF Fresh
  <2>1. Active(r)
    BY <1>1 DEF Active, At
  <2>2. \A q \in Reader : q # r => reader'[q].pc = "rest"
    BY <1>0, <1>6, <2>1 DEF Alone, Active, At
  <2>3. \A l \in Lines : shown[l] < 2 /\ (l > reader[r].start => shown[l] = 0)
    BY <1>0, <2>1 DEF Fresh
  <2> QED
    BY <1>1, <1>5, <1>6, <1>12, <2>1, <2>2, <2>3 DEF Fresh, Active, At
<1> QED
  BY <1>1, <1>2, <1>5, <1>6, <1>7, <1>8, <1>9, <1>11, <1>13, <1>14, ReaderStepKeeps DEF Handing

LEMMA MarkInv == ASSUME Inv, NEW r \in Reader, Mark(r) PROVE Inv'
<1>0. Typed /\ Found /\ InBounds /\ Covered /\ Alone /\ Fresh
  BY DEF Inv
<1>1. /\ UNCHANGED <<hub, path, stream, shown>> /\ reader[r].pc = "marking"
      /\ upset' = upset \cup IF inbox.cursor > 0 THEN {"cursor"} ELSE {}
      /\ Move(r, "printing")
  BY DEF Mark, At, Upset
<1>2. PICK c \in {reader[r].end} \cup IF inbox.cursor > 0 THEN {Garbled} ELSE {} :
        inbox' = [inbox EXCEPT !.cursor = c]
  BY DEF Mark
<1>3. PICK v \in Readers :
        /\ reader' = [reader EXCEPT ![r] = v] /\ v.pc = "printing" /\ v.start = reader[r].start
        /\ v.end = reader[r].end /\ v.cmd = reader[r].cmd
  BY <1>0, <1>1, MoveParts
<1>4. /\ reader' \in [Reader -> Readers] /\ reader'[r] = v
      /\ \A q \in Reader : q # r => reader'[q] = reader[q]
  BY <1>0, <1>3, ReaderSet
<1>5. /\ inbox.len \in Nat /\ inbox.cursor \in Nat /\ reader[r].end \in Nat
      /\ reader[r].start \in Nat
  BY <1>0, StateParts
<1>6. c \in Nat
  BY <1>2, <1>5, LinesAreNumbers DEF Garbled
<1>7. inbox' = [len |-> inbox.len, cursor |-> c]
  BY <1>0, <1>2 DEF Typed
<1>8. Typed'
  <2>1. inbox' \in [len : Nat, cursor : Nat]
    BY <1>5, <1>6, <1>7
  <2> QED
    BY <1>0, <1>1, <1>4, <2>1 DEF Typed
<1>9. Found'
  BY <1>0, <1>1, <1>3, <1>4, <1>7 DEF Found, At, Handing
<1>10. "cursor" \notin upset' => "cursor" \notin upset /\ c = reader[r].end
  BY <1>1, <1>2
<1>11. InBounds'
  BY <1>0, <1>3, <1>4, <1>7, <1>10 DEF InBounds
<1>12. \A l \in Lines : Accounted(l) => Accounted(l)'
  BY <1>1, <1>3, <1>4 DEF Accounted, At
<1>13. Covered'
  <2> SUFFICES ASSUME "cursor" \notin upset' PROVE Covered'
    BY DEF Covered
  <2>1. \A l \in Lines : l <= inbox'.cursor => Accounted(l)'
    <3> SUFFICES ASSUME NEW l \in Lines, l <= reader[r].end PROVE Accounted(l)'
      BY <1>7, <1>10
    <3>1. CASE l <= reader[r].start
      BY <1>0, <1>10, <1>12, <3>1 DEF Covered
    <3>2. CASE reader[r].start < l
      BY <1>3, <1>4, <3>2 DEF Accounted, At
    <3> QED
      BY <1>5, <3>1, <3>2, LinesAreNumbers
  <2> QED
    BY <1>0, <1>3, <1>4, <1>10, <1>12, <2>1 DEF Covered
<1>14. \A q \in Reader : Active(q)' <=> Active(q)
  BY <1>1, <1>3, <1>4 DEF Active, At
<1>15. Alone'
  BY <1>0, <1>1, <1>14 DEF Alone
<1>16. Fresh'
  <2> SUFFICES ASSUME upset' \cap {"cursor", "overlap"} = {} PROVE Fresh'
    BY DEF Fresh
  <2>1. upset \cap {"cursor", "overlap"} = {} /\ Active(r)
    BY <1>1 DEF Active, At
  <2>2. \A q \in Reader : q # r => reader'[q].pc = "rest"
    BY <1>0, <1>4, <2>1 DEF Alone, Active, At
  <2>3. \A l \in Lines : shown[l] < 2 /\ (l > reader[r].start => shown[l] = 0)
    BY <1>0, <2>1 DEF Fresh
  <2>4. c = reader[r].end
    BY <1>10
  <2> QED
    BY <1>1, <1>3, <1>4, <1>7, <1>14, <2>1, <2>2, <2>3, <2>4 DEF Fresh, Active, At
<1>17. inbox'.len = inbox.len
  BY <1>7
<1> QED
  BY <1>1, <1>4, <1>8, <1>9, <1>11, <1>13, <1>15, <1>16, <1>17, ReaderStepKeeps DEF Handing

LEMMA OutputInv == ASSUME Inv, NEW r \in Reader, Output(r) PROVE Inv'
<1>0. Typed /\ Found /\ InBounds /\ Covered /\ Alone /\ Fresh
  BY DEF Inv
<1>1. UNCHANGED <<hub, path, stream, inbox, upset>> /\ reader[r].pc = "printing" /\ Done(r)
  BY DEF Output, At
<1>2. \A l \in Lines : shown'[l] =
        IF reader[r].start < l /\ l <= reader[r].end /\ shown[l] < 2
        THEN shown[l] + 1 ELSE shown[l]
  BY DEF Output
<1>3. AtRest \in Readers /\ AtRest.pc = "rest" /\ AtRest.start = 0 /\ AtRest.end = 0
  BY DEF AtRest, Readers
<1>4. /\ reader' \in [Reader -> Readers] /\ reader'[r] = AtRest
      /\ \A q \in Reader : q # r => reader'[q] = reader[q]
  BY <1>0, <1>1, <1>3, ReaderSet DEF Done
<1>5. /\ inbox.len \in Nat /\ inbox.cursor \in Nat /\ reader[r].end \in Nat
      /\ reader[r].start \in Nat
  BY <1>0, StateParts
<1>6. \A l \in Lines : shown[l] \in 0 .. 2
  BY <1>0 DEF Typed
<1>7. Typed'
  <2>1. \A l \in Lines : shown'[l] \in 0 .. 2
    BY <1>2, <1>6
  <2>2. shown' \in [Lines -> 0 .. 2]
    BY <2>1 DEF Output
  <2> QED
    BY <1>0, <1>1, <1>4, <2>2 DEF Typed
<1>8. Found'
  BY <1>0, <1>1, <1>3, <1>4 DEF Found, At, Handing
<1>9. InBounds'
  BY <1>0, <1>1, <1>3, <1>4, <1>5 DEF InBounds
<1>10. \A l \in Lines : Accounted(l) => Accounted(l)'
  <2> SUFFICES ASSUME NEW l \in Lines, Accounted(l) PROVE Accounted(l)'
    OBVIOUS
  <2>1. shown[l] > 0 => shown'[l] > 0
    BY <1>2, <1>6
  <2>2. reader[r].start < l /\ l <= reader[r].end => shown'[l] > 0
    BY <1>2, <1>6
  <2> QED
    BY <1>4, <2>1, <2>2 DEF Accounted, At
<1>11. Covered'
  <2> SUFFICES ASSUME "cursor" \notin upset PROVE Covered'
    BY <1>1 DEF Covered
  <2>1. \A l \in Lines : l <= inbox'.cursor => Accounted(l)'
    BY <1>0, <1>1, <1>10 DEF Covered
  <2>2. \A l \in Lines : ~(l <= AtRest.start)
    BY <1>3, LinesAreNumbers
  <2>3. \A l \in Lines : \A q \in Reader : l <= reader'[q].start => Accounted(l)'
    BY <1>0, <1>4, <1>10, <2>2 DEF Covered
  <2> QED
    BY <2>1, <2>3 DEF Covered
<1>12. \A q \in Reader : Active(q)' <=> Active(q) /\ q # r
  BY <1>3, <1>4 DEF Active, At
<1>13. Alone'
  BY <1>0, <1>1, <1>12 DEF Alone
<1>14. Fresh'
  <2> SUFFICES ASSUME upset \cap {"cursor", "overlap"} = {} PROVE Fresh'
    BY <1>1 DEF Fresh
  <2>1. Active(r)
    BY <1>1 DEF Active, At
  <2>2. \A q \in Reader : reader'[q].pc = "rest"
    BY <1>0, <1>3, <1>4, <2>1 DEF Alone, Active, At
  <2>3. /\ \A l \in Lines : shown[l] < 2 /\ (l > reader[r].start => shown[l] = 0)
        /\ reader[r].end = inbox.cursor
    BY <1>0, <1>1, <2>1 DEF Fresh, At
  <2>4. reader[r].start <= reader[r].end
    BY <1>0, <1>1 DEF Found, At
  <2>5. \A l \in Lines : shown'[l] < 2
    BY <1>2, <1>6, <2>3, LinesAreNumbers
  <2>6. \A l \in Lines : l > inbox.cursor => shown'[l] = 0
    BY <1>2, <1>5, <2>3, <2>4, LinesAreNumbers
  <2> QED
    BY <1>1, <2>2, <2>5, <2>6 DEF Fresh, Active, At
<1> QED
  BY <1>1, <1>3, <1>4, <1>7, <1>8, <1>9, <1>11, <1>13, <1>14, ReaderStepKeeps DEF Handing

LEMMA KillReaderInv == ASSUME Inv, NEW r \in Reader, KillReader(r) PROVE Inv'
<1>0. Typed /\ Found /\ Alone
  BY DEF Inv
<1>1. /\ UNCHANGED <<hub, path, stream, inbox, shown>> /\ Done(r) /\ reader[r].pc # "rest"
      /\ upset' = upset \cup IF reader[r].pc \in {"marking", "printing"} THEN {"cursor"} ELSE {"killed"}
  BY DEF KillReader, Active, At, Upset
<1>2. upset' \subseteq {"stream", "stopped", "killed", "cursor", "overlap"}
  BY <1>0, <1>1 DEF Typed
<1>3. CASE reader[r].pc \in Before
  <2>1. /\ reader' \in [Reader -> Readers]
        /\ reader'[r] = AtRest /\ \A q \in Reader : q # r => reader'[q] = reader[q]
        /\ Found' /\ InBounds' /\ Covered' /\ Alone' /\ Fresh'
    BY <1>1, <1>3, DoneKept
  <2>2. Typed'
    BY <1>0, <1>1, <1>2, <2>1 DEF Typed
  <2> QED
    BY <1>1, <2>1, <2>2, ReaderStepKeeps DEF Handing, AtRest
<1>4. CASE reader[r].pc \notin Before
  <2>1. reader[r].pc \in {"marking", "printing"}
    <3>1. reader[r] \in Readers
      BY <1>0, StateParts
    <3> QED
      BY <1>1, <1>4, <3>1 DEF Readers, Before
  <2>2. "cursor" \in upset'
    BY <1>1, <2>1
  <2>3. AtRest \in Readers /\ AtRest.pc = "rest"
    BY DEF AtRest, Readers
  <2>4. /\ reader' \in [Reader -> Readers] /\ reader'[r] = AtRest
        /\ \A q \in Reader : q # r => reader'[q] = reader[q]
    BY <1>0, <1>1, <2>3, ReaderSet DEF Done
  <2>5. Typed'
    BY <1>0, <1>1, <1>2, <2>4 DEF Typed
  <2>6. Found'
    BY <1>0, <1>1, <2>3, <2>4 DEF Found, At, Handing
  <2>7. InBounds' /\ Covered' /\ Fresh'
    BY <2>2 DEF InBounds, Covered, Fresh
  <2>8. Alone'
    BY <1>0, <1>1, <2>3, <2>4 DEF Alone, Active, At
  <2> QED
    BY <1>1, <2>3, <2>4, <2>5, <2>6, <2>7, <2>8, ReaderStepKeeps DEF Handing
<1> QED
  BY <1>3, <1>4

-----------------------------------------------------------------------------
(* The whole session.                                                      *)

LEMMA InitInv == Init => Inv
<1> SUFFICES ASSUME Init PROVE Inv
  OBVIOUS
<1>1. NotThere \in Streams /\ AtRest \in Readers
  BY DEF NotThere, AtRest, Streams, Readers
<1>2. 0 \in 0 .. MaxMsg
  BY LinesAreNumbers
<1>3. Typed
  BY <1>1, <1>2 DEF Init, Typed
<1>4. Seated /\ Unharmed
  BY SessionAssumption DEF Init, Seated, Unharmed, Serving, NotThere
<1>5. Counted
  BY DEF Init, Counted, NotThere
<1>6. Found /\ InBounds /\ Alone
  BY DEF Init, Found, InBounds, Alone, At, Active, AtRest, Handing
<1>7. Covered
  BY LinesAreNumbers DEF Init, Covered, AtRest
<1>8. Fresh
  BY DEF Init, Fresh, At, Active, AtRest
<1>9. Busy
  BY DEF Init, Busy, Handing, AtRest, NotThere
<1> QED
  BY <1>3, <1>4, <1>5, <1>6, <1>7, <1>8, <1>9 DEF Inv

LEMMA NextInv ==
  ASSUME Inv, [Next]_vars
  PROVE  Inv'
<1>1. ASSUME NEW s \in Stream, StreamStep(s) PROVE Inv'
  BY <1>1, JoinInv, BindInv, AppendInv, DeliverInv DEF StreamStep
<1>2. ASSUME NEW s \in Stream,
             Rejoin(s) \/ Shutdown(s) \/ Unlink(s) \/ Leave(s) \/ Drop(s) \/ KillStream(s)
      PROVE  Inv'
  BY <1>2, RejoinInv, ShutdownInv, UnlinkInv, LeaveInv, DropInv, KillStreamInv
<1>3. ASSUME NEW r \in Reader, ReaderStep(r) \/ KillReader(r) PROVE Inv'
  BY <1>3, BeginInv, ReportIdleInv, PollWaitInv, PollPeekInv, ReportBusyInv, ReadInv, MarkInv,
     OutputInv, KillReaderInv DEF ReaderStep
<1>4. CASE UNCHANGED vars
  <2>1. UNCHANGED <<hub, path, stream, inbox, reader, shown, upset>>
    BY <1>4 DEF vars
  <2>2. Typed' /\ Busy'
    BY <2>1 DEF Inv, Typed, Busy, Serving
  <2>3. inbox'.len \in Nat /\ inbox'.len >= inbox.len
    BY <2>1, StateParts DEF Inv
  <2> QED
    BY <2>1, <2>2, <2>3, ReadersKept, StreamsKept DEF Inv
<1> QED
  BY <1>1, <1>2, <1>3, <1>4, SaidInv DEF Next

\* The invariant holds in every state of a session, for any number of streams,
\* readers and messages: the name, the socket, the inbox, its cursor and what
\* was printed fit together.
THEOREM SessionInvariance == Spec => []Inv
<1>1. Inv /\ [Next]_vars => Inv'
  BY NextInv
<1> QED
  BY InitInv, <1>1, PTL DEF Spec

\* A stream that serves has the socket path, as long as no stream of the
\* session was dropped or killed (CtlServer unlinks the path before the name is
\* given up, docs/OPERATIONS.md, "Control sockets").
THEOREM SocketServesAlways == Spec => []SocketServes
<1>1. Inv => SocketServes
  BY DEF Inv, Unharmed, SocketServes
<1> QED
  BY SessionInvariance, <1>1, PTL

\* Readers skip no line, and show none twice when they come one after the other
\* (cli/inbox.py, _consume_unread writes the cursor before it prints).
THEOREM LinesShownOnceAlways == Spec => []LinesShownOnce
<1>1. Inv => SessionTypeOK
  <2> SUFFICES ASSUME Inv PROVE SessionTypeOK
    OBVIOUS
  <2>1. /\ hub.queue \in Nat /\ hub.said \in Nat /\ hub.said <= MaxMsg /\ MaxMsg \in Nat
        /\ inbox.len \in Nat /\ inbox.cursor \in Nat
        /\ hub.holder \in Stream \cup {NoStream} /\ path \in Stream \cup {NoStream, Stale}
    BY StateParts, LinesAreNumbers DEF Inv, Typed
  <2>2. hub.queue + inbox.len <= hub.said
    BY DEF Inv, Counted
  <2>3. hub.queue + hub.said \in 0 .. 2 * MaxMsg /\ inbox.len <= hub.said
    BY <2>1, <2>2
  <2>4. inbox.cursor > inbox.len => "cursor" \in upset
    BY <2>1 DEF Inv, InBounds
  <2>5. \A s \in Stream : stream[s].linked => hub.holder = s
    BY DEF Inv, Seated
  <2> QED
    BY <2>1, <2>3, <2>4, <2>5 DEF SessionTypeOK
<1>2. Inv => NothingSkipped
  BY DEF Inv, Covered, Accounted, NothingSkipped
<1>3. Inv => OnceEach
  BY DEF Inv, Fresh, OnceEach
<1>4. Inv => LinesShownOnce
  BY <1>1, <1>2, <1>3 DEF LinesShownOnce
<1> QED
  BY SessionInvariance, <1>4, PTL

\* The hub takes the session for busy while lines are handed to the model, if
\* its stream is not disturbed and no reader overlaps with another
\* (docs/ARCHITECTURE.md, "the file bridge").
THEOREM BusyAtHandOverAlways == Spec => []BusyAtHandOver
<1>1. Inv => BusyAtHandOver
  BY DEF Inv, Busy, BusyAtHandOver, Handing
<1> QED
  BY SessionInvariance, <1>1, PTL
=============================================================================
