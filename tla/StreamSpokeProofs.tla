------------------------- MODULE StreamSpokeProofs -------------------------
(***************************************************************************)
(* The process moot stream, for any number of requests, connections and    *)
(* attempts: its table of the says under way is exact, an answer reaches   *)
(* the say it answers, no say is parked over an outage, the name is free   *)
(* when the stream says hello again, and the hub ends up knowing the state *)
(* last reported.                                                          *)
(*                                                                         *)
(* The invariant ties the two ends of a connection to the place of the     *)
(* reader (Linked, Supervised), and the number of a say to its entry and   *)
(* to every frame that carries it (Registered, and the types of the frames *)
(* in Typed): a frame on its way names the say that has its number.        *)
(* Heeded is NoSayParkedInGap for a say that has yet to be sent, too.      *)
(***************************************************************************)
EXTENDS StreamSpoke, SequenceTheorems, TLAPS

Frame    == Hook \cup {NoFrame}
Under    == {"sending", "waiting", "leaving"}

\* What may travel: a say, and its answer, carries the number of the say.
Numbered(t, rq) == {f \in [t : {t}, seq : Nat \ {0}, by : Sayer] : rq[f.by].seq = f.seq}
Outgoing(rq) == Numbered("say", rq) \cup [t : {"state"}, by : Frame] \cup [t : {"pong", "bye"}]
Incoming(rq) == Numbered("ok", rq) \cup [t : {"ping", "odd"}]
Links(rq) == [hub : BOOLEAN, own : BOOLEAN, out : Seq(Outgoing(rq)), in : Seq(Incoming(rq)),
              heard : Frame, pinged : BOOLEAN]

\* What may be put into the slot of a say.
Answer(r) == [t : {"ok"}, by : {r}] \cup {Gone}
Result(r) == Answer(r) \cup [t : {"timeout"}, by : {NoFrame}]

Streams == [conn : Nat, live : BOOLEAN, closed : BOOLEAN, stopping : BOOLEAN, last : Frame,
            pending : UNION {[S -> Sayer] : S \in SUBSET Nat}, seq : Nat]
Places  == {"pump", "ended", "failing", "check", "backoff", "connect", "adopt", "discard",
            "replay", "golive", "leaving", "unlive", "failall", "eof", "dead"}
Reasons == {"none", "oserror", "choke", "stop", "refused", "budget"}
Readers == [pc : Places, held : Frame, tries : Nat, why : Reasons]
Stages  == {"new", "sending", "waiting", "leaving", "done", "cached"}
Requests(r) == [pc : Stages, seq : Nat,
                conn : Nat, slot : Seq(Answer(r)), result : Result(r)]
Mains == [pc : {"serving", "stopping", "bye", "joining", "exited"}, conn : Nat,
          stop : BOOLEAN, closing : BOOLEAN]

Typed ==
  /\ links \in Seq(Links(req))
  /\ st \in Streams
  /\ reader \in Readers
  /\ DOMAIN req = Request
  /\ \A r \in Request : req[r] \in Requests(r)
  /\ main \in Mains

\* The connections: the stream owns the last one, or is about to adopt it; the
\* hub has let go of the ones before.
Linked ==
  /\ Len(links) \in 1 .. MaxConn
  /\ st.conn \in 1 .. Len(links)
  /\ reader.pc = "adopt" => st.conn = Len(links) - 1
  /\ reader.pc # "adopt" => st.conn = Len(links)
  /\ main.conn \in 1 .. Len(links)
  /\ \A r \in Request : req[r].pc = "sending" => req[r].conn \in 1 .. Len(links)
  /\ \A g \in 1 .. Len(links) : g < Len(links) => ~links[g].hub
  /\ Running => links[Len(links)].own

Supervised ==
  /\ reader.pc \in {"check", "backoff", "connect"} => reader.why = "none"
  /\ reader.pc \in {"ended", "failing", "check", "backoff", "connect"} /\ reader.why = "none"
       => ~links[Len(links)].hub
  /\ st.live => reader.pc \in {"pump", "ended"}

Registered ==
  /\ DOMAIN st.pending \subseteq 1 .. st.seq
  /\ \A s \in DOMAIN st.pending : /\ req[st.pending[s]].pc \in Under
                                  /\ req[st.pending[s]].seq = s
  /\ \A r \in Sayer : req[r].pc \in Under =>
       req[r].seq \in DOMAIN st.pending /\ st.pending[req[r].seq] = r
  /\ \A r \in Sayer : req[r].seq <= st.seq /\ (req[r].pc = "new" => req[r].seq = 0)
  /\ \A r, q \in Sayer : req[r].seq = req[q].seq /\ req[r].seq # 0 => r = q

Heeded ==
  \A r \in Sayer : req[r].pc \in {"sending", "waiting"} /\ req[r].slot = << >> =>
    req[r].conn = st.conn /\ reader.pc \in {"pump", "ended", "failing"}

Inv == Typed /\ Linked /\ Supervised /\ Registered /\ Heeded

-----------------------------------------------------------------------------
(* The connections and what travels on them.                               *)

\* Sequences over a set are sequences over every larger one.
LEMMA SeqGrows ==
  ASSUME NEW S, NEW T, S \subseteq T
  PROVE  Seq(S) \subseteq Seq(T)
OBVIOUS

\* A say that has its number keeps it: what is on its way stays well numbered.
LEMMA LinksStay ==
  ASSUME NEW q, NEW p,
         \A r \in Sayer : q[r].seq # 0 => p[r].seq = q[r].seq
  PROVE  Seq(Links(q)) \subseteq Seq(Links(p))
<1>1. Outgoing(q) \subseteq Outgoing(p) /\ Incoming(q) \subseteq Incoming(p)
  <2>1. \A t : Numbered(t, q) \subseteq Numbered(t, p)
    BY DEF Numbered
  <2> QED
    BY <2>1 DEF Outgoing, Incoming
<1>2. Seq(Outgoing(q)) \subseteq Seq(Outgoing(p)) /\ Seq(Incoming(q)) \subseteq Seq(Incoming(p))
  BY <1>1, SeqGrows
<1>3. Links(q) \subseteq Links(p)
  BY <1>2 DEF Links
<1> QED
  BY <1>3, SeqGrows

\* The parts of a connection.
LEMMA LinkParts ==
  ASSUME NEW q, NEW l \in Seq(Links(q)), NEW g \in 1 .. Len(l)
  PROVE  /\ l[g] \in Links(q)
         /\ l[g].hub \in BOOLEAN /\ l[g].own \in BOOLEAN /\ l[g].heard \in Frame
         /\ l[g].out \in Seq(Outgoing(q)) /\ l[g].in \in Seq(Incoming(q))
<1>1. l[g] \in Links(q)
  OBVIOUS
<1> QED
  BY <1>1 DEF Links

\* A connection in the place of another.
LEMMA Relinked ==
  ASSUME NEW q, NEW l \in Seq(Links(q)), NEW g \in 1 .. Len(l), NEW k \in Links(q)
  PROVE  /\ [l EXCEPT ![g] = k] \in Seq(Links(q))
         /\ Len([l EXCEPT ![g] = k]) = Len(l)
         /\ \A i \in 1 .. Len(l) : [l EXCEPT ![g] = k][i] = IF i = g THEN k ELSE l[i]
OBVIOUS

\* How the ends of the connections may change: their number is the same and
\* none is opened again.
Ends(l, m) == Len(m) = Len(l) /\ \A i \in 1 .. Len(l) : m[i].hub => l[i].hub
Kept(l, m) == Ends(l, m) /\ \A i \in 1 .. Len(l) : m[i].own = l[i].own

LEMMA OutSet ==
  ASSUME NEW q, NEW l \in Seq(Links(q)), NEW g \in 1 .. Len(l), NEW o \in Seq(Outgoing(q))
  PROVE  [l EXCEPT ![g].out = o] \in Seq(Links(q)) /\ Kept(l, [l EXCEPT ![g].out = o])
<1> DEFINE k == [l[g] EXCEPT !.out = o]
<1>1. k \in Links(q) /\ k.hub = l[g].hub /\ k.own = l[g].own
  BY LinkParts DEF Links
<1>2. [l EXCEPT ![g].out = o] = [l EXCEPT ![g] = k]
  OBVIOUS
<1> HIDE DEF k
<1> DEFINE m == [l EXCEPT ![g] = k]
<1>3. m \in Seq(Links(q)) /\ Len(m) = Len(l)
      /\ \A i \in 1 .. Len(l) : m[i] = IF i = g THEN k ELSE l[i]
  BY <1>1, Relinked
<1> HIDE DEF m
<1>4. Kept(l, m)
  BY <1>1, <1>3 DEF Kept, Ends
<1> QED
  BY <1>2, <1>3, <1>4 DEF m

LEMMA InSet ==
  ASSUME NEW q, NEW l \in Seq(Links(q)), NEW g \in 1 .. Len(l), NEW o \in Seq(Incoming(q))
  PROVE  [l EXCEPT ![g].in = o] \in Seq(Links(q)) /\ Kept(l, [l EXCEPT ![g].in = o])
<1> DEFINE k == [l[g] EXCEPT !.in = o]
<1>1. k \in Links(q) /\ k.hub = l[g].hub /\ k.own = l[g].own
  BY LinkParts DEF Links
<1>2. [l EXCEPT ![g].in = o] = [l EXCEPT ![g] = k]
  OBVIOUS
<1> HIDE DEF k
<1> DEFINE m == [l EXCEPT ![g] = k]
<1>3. m \in Seq(Links(q)) /\ Len(m) = Len(l)
      /\ \A i \in 1 .. Len(l) : m[i] = IF i = g THEN k ELSE l[i]
  BY <1>1, Relinked
<1> HIDE DEF m
<1>4. Kept(l, m)
  BY <1>1, <1>3 DEF Kept, Ends
<1> QED
  BY <1>2, <1>3, <1>4 DEF m

LEMMA HeardSet ==
  ASSUME NEW q, NEW l \in Seq(Links(q)), NEW g \in 1 .. Len(l), NEW f \in Frame
  PROVE  [l EXCEPT ![g].heard = f] \in Seq(Links(q)) /\ Kept(l, [l EXCEPT ![g].heard = f])
<1> DEFINE k == [l[g] EXCEPT !.heard = f]
<1>1. k \in Links(q) /\ k.hub = l[g].hub /\ k.own = l[g].own
  <2>1. l[g] \in Links(q)
    BY LinkParts
  <2> QED
    BY <2>1 DEF Links
<1>2. [l EXCEPT ![g].heard = f] = [l EXCEPT ![g] = k]
  OBVIOUS
<1> HIDE DEF k
<1> DEFINE m == [l EXCEPT ![g] = k]
<1>3. m \in Seq(Links(q)) /\ Len(m) = Len(l)
      /\ \A i \in 1 .. Len(l) : m[i] = IF i = g THEN k ELSE l[i]
  BY <1>1, Relinked
<1> HIDE DEF m
<1>4. Kept(l, m)
  BY <1>1, <1>3 DEF Kept, Ends
<1> QED
  BY <1>2, <1>3, <1>4 DEF m

LEMMA HubLets ==
  ASSUME NEW q, NEW l \in Seq(Links(q)), NEW g \in 1 .. Len(l)
  PROVE  [l EXCEPT ![g].hub = FALSE] \in Seq(Links(q)) /\ Kept(l, [l EXCEPT ![g].hub = FALSE])
<1> DEFINE k == [l[g] EXCEPT !.hub = FALSE]
<1>1. k \in Links(q) /\ k.hub = FALSE /\ k.own = l[g].own
  BY LinkParts DEF Links
<1>2. [l EXCEPT ![g].hub = FALSE] = [l EXCEPT ![g] = k]
  OBVIOUS
<1> HIDE DEF k
<1> DEFINE m == [l EXCEPT ![g] = k]
<1>3. m \in Seq(Links(q)) /\ Len(m) = Len(l)
      /\ \A i \in 1 .. Len(l) : m[i] = IF i = g THEN k ELSE l[i]
  BY <1>1, Relinked
<1> HIDE DEF m
<1>4. Kept(l, m)
  BY <1>1, <1>3 DEF Kept, Ends
<1> QED
  BY <1>2, <1>3, <1>4 DEF m

LEMMA PingSet ==
  ASSUME NEW q, NEW l \in Seq(Links(q)), NEW g \in 1 .. Len(l)
  PROVE  [l EXCEPT ![g].pinged = TRUE] \in Seq(Links(q)) /\ Kept(l, [l EXCEPT ![g].pinged = TRUE])
<1> DEFINE k == [l[g] EXCEPT !.pinged = TRUE]
<1>1. k \in Links(q) /\ k.hub = l[g].hub /\ k.own = l[g].own
  BY LinkParts DEF Links
<1>2. [l EXCEPT ![g].pinged = TRUE] = [l EXCEPT ![g] = k]
  OBVIOUS
<1> HIDE DEF k
<1> DEFINE m == [l EXCEPT ![g] = k]
<1>3. m \in Seq(Links(q)) /\ Len(m) = Len(l)
      /\ \A i \in 1 .. Len(l) : m[i] = IF i = g THEN k ELSE l[i]
  BY <1>1, Relinked
<1> HIDE DEF m
<1>4. Kept(l, m)
  BY <1>1, <1>3 DEF Kept, Ends
<1> QED
  BY <1>2, <1>3, <1>4 DEF m

\* The number and the type of the frames a section takes from a connection.
LEMMA Taking ==
  ASSUME NEW S, NEW s \in Seq(S), s # << >>
  PROVE  Head(s) \in S /\ Tail(s) \in Seq(S)
OBVIOUS

-----------------------------------------------------------------------------
(* The parts of the invariant under the changes most steps make.           *)

\* How the requests may change under the reader: it only puts into slots.
Filed(q, p) ==
  /\ DOMAIN p = Request
  /\ \A r \in Request :
       /\ p[r] \in Requests(r)
       /\ p[r].pc = q[r].pc /\ p[r].seq = q[r].seq /\ p[r].conn = q[r].conn
       /\ p[r].slot = << >> => q[r].slot = << >>

\* The records of the reader, of a request and of the main thread.
LEMMA ReaderMoves ==
  ASSUME NEW d \in Readers, NEW p \in Places
  PROVE  [d EXCEPT !.pc = p] \in Readers /\ [d EXCEPT !.pc = p].pc = p
         /\ [d EXCEPT !.pc = p].why = d.why
BY DEF Readers

\* What the reader does at the place where it is keeps the invariant, if it
\* keeps the ends of the connections and the say table, only puts into slots,
\* and goes on to a place that fits.
LEMMA ReaderKeeps ==
  ASSUME Inv, Kept(links, links'), links' \in Seq(Links(req)), reader' \in Readers,
         main' \in Mains, main'.conn = main.conn, main'.pc = main.pc,
         st' \in Streams, st'.pending = st.pending, st'.seq = st.seq, st'.conn = st.conn,
         Filed(req, req'),
         reader'.pc = "adopt" <=> reader.pc = "adopt",
         st'.live => reader'.pc \in {"pump", "ended"},
         Heeded',
         reader'.pc \in {"check", "backoff", "connect"} => reader'.why = "none",
         reader'.pc \in {"ended", "failing", "check", "backoff", "connect"} /\ reader'.why = "none"
           => ~links'[Len(links)].hub
  PROVE  Inv'
<1>1. Typed'
  <2>1. Seq(Links(req)) \subseteq Seq(Links(req'))
    <3>1. \A r \in Sayer : req'[r].seq = req[r].seq
      BY DEF Filed, Request
    <3> QED
      BY <3>1, LinksStay
  <2> QED
    BY <2>1 DEF Inv, Typed, Filed
<1>2. Linked'
  BY DEF Inv, Linked, Kept, Ends, Running, Filed
<1>3. Supervised'
  BY DEF Inv, Supervised, Kept, Ends, Linked
<1>4. Registered'
  <2>1. \A r \in Sayer : req'[r].pc = req[r].pc /\ req'[r].seq = req[r].seq
    BY DEF Filed, Request
  <2>2. \A s \in DOMAIN st.pending : st.pending[s] \in Sayer
    <3>1. st \in Streams
      BY DEF Inv, Typed
    <3>2. st.pending \in UNION {[S -> Sayer] : S \in SUBSET Nat}
      BY <3>1 DEF Streams
    <3> QED
      BY <3>2
  <2> QED
    BY <2>1, <2>2 DEF Inv, Registered
<1> QED
  BY <1>1, <1>2, <1>3, <1>4 DEF Inv

\* Requests that nobody touched are filed as they were.
LEMMA NothingFiled ==
  ASSUME Typed
  PROVE  Filed(req, req)
BY DEF Typed, Filed

-----------------------------------------------------------------------------
(* The hub's steps.                                                        *)

\* The hub's end changes, and nothing on the stream's side.
LEMMA HubKeeps ==
  ASSUME Inv, Kept(links, links'), links' \in Seq(Links(req)), UNCHANGED <<st, reader, req, main>>
  PROVE  Inv'
<1>1. Heeded'
  BY DEF Inv, Heeded
<1>2. Filed(req, req')
  BY NothingFiled DEF Inv
<1>3. /\ reader' \in Readers /\ main' \in Mains /\ st' \in Streams
      /\ st'.live => reader'.pc \in {"pump", "ended"}
      /\ reader'.pc \in {"check", "backoff", "connect"} => reader'.why = "none"
  BY DEF Inv, Typed, Supervised
<1>4. reader'.pc \in {"ended", "failing", "check", "backoff", "connect"} /\ reader'.why = "none"
        => ~links'[Len(links)].hub
  BY DEF Inv, Supervised, Kept, Ends, Linked
<1> QED
  BY <1>1, <1>2, <1>3, <1>4, ReaderKeeps

LEMMA HubReadsInv ==
  ASSUME Inv, NEW g \in DOMAIN links, HubReads(g)
  PROVE  Inv'
<1>1. links \in Seq(Links(req)) /\ g \in 1 .. Len(links)
  BY DEF Inv, Typed
<1> DEFINE f    == Head(links[g].out)
           rest == [links EXCEPT ![g].out = Tail(links[g].out)]
<1>2. links[g].out \in Seq(Outgoing(req)) /\ links[g].out # << >>
  BY <1>1, LinkParts DEF HubReads
<1>3. f \in Outgoing(req) /\ Tail(links[g].out) \in Seq(Outgoing(req))
  BY <1>2, Taking
<1>4. rest \in Seq(Links(req)) /\ Kept(links, rest)
  BY <1>1, <1>3, OutSet
<1>5. links' = CASE f.t = "say"   -> [rest EXCEPT ![g].in =
                                       Append(@, [t |-> "ok", seq |-> f.seq, by |-> f.by])]
                 [] f.t = "state" -> [rest EXCEPT ![g].heard = f.by]
                 [] f.t = "pong"  -> rest
                 [] f.t = "bye"   -> [rest EXCEPT ![g].hub = FALSE]
  BY DEF HubReads
<1> HIDE DEF f, rest
<1>6. g \in 1 .. Len(rest) /\ rest[g].in \in Seq(Incoming(req))
  <2>1. g \in 1 .. Len(rest)
    BY <1>1, <1>4 DEF Kept, Ends
  <2> QED
    BY <2>1, <1>4, LinkParts
<1>7. links' \in Seq(Links(req)) /\ Kept(rest, links')
  <2>1. CASE f \in Numbered("say", req)
    <3> DEFINE a == [t |-> "ok", seq |-> f.seq, by |-> f.by]
    <3>1. a \in Incoming(req)
      BY <2>1 DEF Incoming, Numbered
    <3>2. links' = [rest EXCEPT ![g].in = Append(rest[g].in, a)]
      BY <1>5, <2>1 DEF Numbered
    <3> HIDE DEF a
    <3>3. Append(rest[g].in, a) \in Seq(Incoming(req))
      BY <1>6, <3>1
    <3> QED
      BY <1>4, <1>6, <3>2, <3>3, InSet
  <2>2. CASE f \in [t : {"state"}, by : Frame]
    <3>1. links' = [rest EXCEPT ![g].heard = f.by] /\ f.by \in Frame
      BY <1>5, <2>2
    <3> QED
      BY <1>4, <1>6, <3>1, HeardSet
  <2>3. CASE f \in [t : {"pong", "bye"}]
    <3>1. links' = rest \/ links' = [rest EXCEPT ![g].hub = FALSE]
      BY <1>5, <2>3
    <3>2. Kept(rest, rest)
      BY DEF Kept, Ends
    <3> QED
      BY <1>4, <1>6, <3>1, <3>2, HubLets
  <2> QED
    BY <1>3, <2>1, <2>2, <2>3 DEF Outgoing
<1>8. Kept(links, links')
  BY <1>4, <1>7 DEF Kept, Ends
<1> QED
  BY <1>7, <1>8, HubKeeps DEF HubReads

LEMMA HubPingsInv ==
  ASSUME Inv, NEW g \in DOMAIN links, HubPings(g)
  PROVE  Inv'
<1>1. links \in Seq(Links(req)) /\ g \in 1 .. Len(links)
  BY DEF Inv, Typed
<1> DEFINE f    == [t |-> "ping"]
           rest == [links EXCEPT ![g].in = Append(links[g].in, f)]
<1>2. links[g].in \in Seq(Incoming(req)) /\ f \in Incoming(req)
  BY <1>1, LinkParts DEF Incoming
<1> HIDE DEF f
<1>3. rest \in Seq(Links(req)) /\ Kept(links, rest)
  <2>1. Append(links[g].in, f) \in Seq(Incoming(req))
    BY <1>2
  <2> QED
    BY <1>1, <2>1, InSet
<1>4. links' = [rest EXCEPT ![g].pinged = TRUE]
  BY <1>1 DEF HubPings, f
<1> HIDE DEF rest
<1>5. g \in 1 .. Len(rest)
  BY <1>1, <1>3 DEF Kept, Ends
<1>6. links' \in Seq(Links(req)) /\ Kept(rest, links')
  BY <1>3, <1>4, <1>5, PingSet
<1>7. Kept(links, links')
  BY <1>3, <1>6 DEF Kept, Ends
<1> QED
  BY <1>6, <1>7, HubKeeps DEF HubPings

LEMMA HubSendsOddInv ==
  ASSUME Inv, NEW g \in DOMAIN links, HubSendsOdd(g)
  PROVE  Inv'
<1>1. links \in Seq(Links(req)) /\ g \in 1 .. Len(links)
  BY DEF Inv, Typed
<1> DEFINE f == [t |-> "odd"]
<1>2. links[g].in \in Seq(Incoming(req)) /\ f \in Incoming(req)
  BY <1>1, LinkParts DEF Incoming
<1>3. links' = [links EXCEPT ![g].in = Append(links[g].in, f)]
  BY DEF HubSendsOdd
<1> HIDE DEF f
<1>4. links' \in Seq(Links(req)) /\ Kept(links, links')
  <2>1. Append(links[g].in, f) \in Seq(Incoming(req))
    BY <1>2
  <2> QED
    BY <1>1, <1>3, <2>1, InSet
<1> QED
  BY <1>4, HubKeeps DEF HubSendsOdd

LEMMA HubClosesInv ==
  ASSUME Inv, NEW g \in DOMAIN links, HubCloses(g)
  PROVE  Inv'
<1>1. links \in Seq(Links(req)) /\ g \in 1 .. Len(links)
  BY DEF Inv, Typed
<1>2. links' \in Seq(Links(req)) /\ Kept(links, links')
  BY <1>1, HubLets DEF HubCloses
<1> QED
  BY <1>2, HubKeeps DEF HubCloses

-----------------------------------------------------------------------------
(* The reader's steps.                                                     *)

\* What the reader has when it takes the next frame of its connection.
LEMMA TakingKeeps ==
  ASSUME Inv, NEW t, Reads(t)
  PROVE  /\ Head(links[st.conn].in) \in Incoming(req) /\ Head(links[st.conn].in).t = t
         /\ Taken \in Seq(Links(req)) /\ Kept(links, Taken)
         /\ st.conn \in 1 .. Len(links) /\ st.conn \in 1 .. Len(Taken)
         /\ st.conn = Len(links) /\ reader.pc = "pump"
<1>1. links \in Seq(Links(req)) /\ st.conn \in 1 .. Len(links) /\ st.conn = Len(links)
  BY DEF Inv, Typed, Linked, Reads
<1>2. links[st.conn].in \in Seq(Incoming(req)) /\ links[st.conn].in # << >>
  BY <1>1, LinkParts DEF Reads
<1>3. Head(links[st.conn].in) \in Incoming(req) /\ Tail(links[st.conn].in) \in Seq(Incoming(req))
  BY <1>2, Taking
<1>4. Taken \in Seq(Links(req)) /\ Kept(links, Taken)
  BY <1>1, <1>3, InSet DEF Taken
<1> QED
  BY <1>1, <1>3, <1>4 DEF Reads, Kept, Ends

\* The reader goes to its next place; nothing else but the connections changes.
LEMMA OnlyReaderMoves ==
  ASSUME Inv, Kept(links, links'), links' \in Seq(Links(req)), UNCHANGED <<st, req, main>>,
         reader' \in Readers,
         reader'.pc = "adopt" <=> reader.pc = "adopt",
         reader'.pc \in {"pump", "ended", "failing"} <=> reader.pc \in {"pump", "ended", "failing"},
         st.live => reader'.pc \in {"pump", "ended"},
         reader'.pc \in {"check", "backoff", "connect"} => reader'.why = "none",
         reader'.pc \in {"ended", "failing", "check", "backoff", "connect"} /\ reader'.why = "none"
           => ~links'[Len(links)].hub
  PROVE  Inv'
<1>1. Heeded'
  BY DEF Inv, Heeded
<1>2. Filed(req, req')
  BY NothingFiled DEF Inv
<1>3. main' \in Mains /\ st' \in Streams
  BY DEF Inv, Typed
<1> QED
  BY <1>1, <1>2, <1>3, ReaderKeeps

LEMMA SameEnds ==
  ASSUME Inv
  PROVE  links \in Seq(Links(req)) /\ Kept(links, links)
BY DEF Inv, Typed, Kept, Ends

LEMMA ReadPingInv ==
  ASSUME Inv, ReadPing
  PROVE  Inv'
<1>1. Taken \in Seq(Links(req)) /\ Kept(links, Taken) /\ st.conn \in 1 .. Len(Taken)
      /\ reader.pc = "pump"
  BY TakingKeeps DEF ReadPing
<1>2. reader \in Readers /\ "pump" \in Places /\ "ended" \in Places /\ "oserror" \in Reasons
  BY DEF Inv, Typed, Places, Reasons
<1>3. CASE CanSend(st.conn)
  <2> DEFINE f == [t |-> "pong"]
  <2>1. f \in Outgoing(req) /\ Taken[st.conn].out \in Seq(Outgoing(req))
    BY <1>1, LinkParts DEF Outgoing
  <2>2. links' = [Taken EXCEPT ![st.conn].out = Append(Taken[st.conn].out, f)]
        /\ UNCHANGED <<reader, st, req, main>>
    BY <1>3 DEF ReadPing
  <2> HIDE DEF f
  <2>3. Append(Taken[st.conn].out, f) \in Seq(Outgoing(req))
    BY <2>1
  <2>4. links' \in Seq(Links(req)) /\ Kept(Taken, links')
    BY <1>1, <2>2, <2>3, OutSet
  <2>5. Kept(links, links')
    BY <1>1, <2>4 DEF Kept, Ends
  <2> QED
    BY <1>1, <1>2, <2>2, <2>4, <2>5, OnlyReaderMoves
<1>4. CASE ~CanSend(st.conn)
  <2>1. links' = Taken /\ UNCHANGED <<st, req, main>>
        /\ reader' = [pc |-> "ended", held |-> reader.held, tries |-> reader.tries, why |-> "oserror"]
    BY <1>2, <1>4 DEF ReadPing, Readers
  <2>2. reader' \in Readers /\ reader'.pc = "ended" /\ reader'.why = "oserror"
    BY <1>2, <2>1 DEF Readers
  <2> QED
    BY <1>1, <1>2, <2>1, <2>2, OnlyReaderMoves
<1> QED
  BY <1>3, <1>4

LEMMA ReadOddInv ==
  ASSUME Inv, ReadOdd
  PROVE  Inv'
<1>1. Taken \in Seq(Links(req)) /\ Kept(links, Taken) /\ reader.pc = "pump"
  BY TakingKeeps DEF ReadOdd
<1>2. reader \in Readers /\ "ended" \in Places /\ "choke" \in Reasons
  BY DEF Inv, Typed, Places, Reasons
<1>3. links' = Taken /\ UNCHANGED <<st, req, main>>
      /\ reader' = [pc |-> "ended", held |-> reader.held, tries |-> reader.tries, why |-> "choke"]
  BY <1>2 DEF ReadOdd, Readers
<1>4. reader' \in Readers /\ reader'.pc = "ended" /\ reader'.why = "choke"
  BY <1>2, <1>3 DEF Readers
<1> QED
  BY <1>1, <1>3, <1>4, OnlyReaderMoves

\* The stream's own end is open as long as it runs, so the end that is read is
\* the hub's.
LEMMA ReadEndInv ==
  ASSUME Inv, Running, ReadEnd
  PROVE  Inv'
<1>1. reader \in Readers /\ "ended" \in Places
  BY DEF Inv, Typed, Places
<1>2. PICK why \in {"none", "oserror"} :
        reader' = [pc |-> "ended", held |-> reader.held, tries |-> reader.tries, why |-> why]
  BY <1>1 DEF ReadEnd, Readers
<1>3. why \in Reasons
  BY <1>2 DEF Reasons
<1>4. reader' \in Readers /\ reader'.pc = "ended"
  BY <1>1, <1>2, <1>3 DEF Readers
<1>5. reader.pc = "pump" /\ ~links[Len(links)].hub
  BY DEF ReadEnd, Inv, Linked
<1>6. UNCHANGED <<links, st, req, main>>
  BY DEF ReadEnd
<1> QED
  BY <1>1, <1>4, <1>5, <1>6, SameEnds, OnlyReaderMoves

\* Where the reader only goes on to the next place.
LEMMA CheckStopInv ==
  ASSUME Inv, CheckStop
  PROVE  Inv'
<1>1. reader \in Readers /\ "leaving" \in Places /\ "backoff" \in Places /\ "stop" \in Reasons
  BY DEF Inv, Typed, Places, Reasons
<1>2. \/ reader' = [pc |-> "leaving", held |-> reader.held, tries |-> reader.tries, why |-> "stop"]
      \/ reader' = [pc |-> "backoff", held |-> reader.held, tries |-> 0, why |-> reader.why]
  BY <1>1 DEF CheckStop, Readers
<1>3. reader' \in Readers /\ \/ reader'.pc = "leaving"
                             \/ reader'.pc = "backoff" /\ reader'.why = reader.why
  BY <1>1, <1>2 DEF Readers
<1>4. reader.pc = "check" /\ reader.why = "none" /\ ~links[Len(links)].hub /\ ~st.live
  BY DEF CheckStop, Inv, Supervised
<1>5. UNCHANGED <<links, st, req, main>>
  BY DEF CheckStop
<1> QED
  BY <1>1, <1>3, <1>4, <1>5, SameEnds, OnlyReaderMoves

LEMMA BackoffInv ==
  ASSUME Inv, Backoff
  PROVE  Inv'
<1>1. reader \in Readers /\ "leaving" \in Places /\ "connect" \in Places /\ "stop" \in Reasons
  BY DEF Inv, Typed, Places, Reasons
<1>2. \/ reader' = [pc |-> "leaving", held |-> reader.held, tries |-> reader.tries, why |-> "stop"]
      \/ reader' = [pc |-> "connect", held |-> reader.held, tries |-> reader.tries, why |-> reader.why]
  BY <1>1 DEF Backoff, Readers
<1>3. reader' \in Readers /\ \/ reader'.pc = "leaving"
                             \/ reader'.pc = "connect" /\ reader'.why = reader.why
  BY <1>1, <1>2 DEF Readers
<1>4. reader.pc = "backoff" /\ reader.why = "none" /\ ~links[Len(links)].hub /\ ~st.live
  BY DEF Backoff, Inv, Supervised
<1>5. UNCHANGED <<links, st, req, main>>
  BY DEF Backoff
<1> QED
  BY <1>1, <1>3, <1>4, <1>5, SameEnds, OnlyReaderMoves

LEMMA GivesUpInv ==
  ASSUME Inv, NEW why \in {"refused", "budget"}, GivesUp(why)
  PROVE  Inv'
<1>1. reader \in Readers /\ "leaving" \in Places /\ why \in Reasons
  BY DEF Inv, Typed, Places, Reasons
<1>2. reader' \in Readers /\ reader'.pc = "leaving"
  <2>1. reader' = [pc |-> "leaving", held |-> reader.held, tries |-> reader.tries, why |-> why]
    BY <1>1 DEF GivesUp, Readers
  <2> QED
    BY <1>1, <2>1 DEF Readers
<1>3. reader.pc = "connect" /\ ~st.live
  BY DEF GivesUp, Inv, Supervised
<1>4. UNCHANGED <<links, st, req, main>>
  BY DEF GivesUp
<1> QED
  BY <1>1, <1>2, <1>3, <1>4, SameEnds, OnlyReaderMoves

LEMMA AttemptFailsInv ==
  ASSUME Inv, AttemptFails
  PROVE  Inv'
<1>1. reader \in Readers /\ "backoff" \in Places /\ reader.tries + 1 \in Nat
  BY DEF Inv, Typed, Places, Readers
<1>2. reader' = [pc |-> "backoff", held |-> reader.held, tries |-> reader.tries + 1, why |-> reader.why]
  BY <1>1 DEF AttemptFails, Readers
<1>3. reader' \in Readers /\ reader'.pc = "backoff" /\ reader'.why = reader.why
  BY <1>1, <1>2 DEF Readers
<1>4. reader.pc = "connect" /\ reader.why = "none" /\ ~links[Len(links)].hub /\ ~st.live
  BY DEF AttemptFails, Inv, Supervised
<1>5. UNCHANGED <<links, st, req, main>>
  BY DEF AttemptFails
<1> QED
  BY <1>1, <1>3, <1>4, <1>5, SameEnds, OnlyReaderMoves

\* A slot takes one more outcome of its say.
LEMMA SlotPut ==
  ASSUME NEW r \in Request, NEW a \in Answer(r), NEW d \in Requests(r), NEW e,
         e = [d EXCEPT !.slot = Append(d.slot, a)]
  PROVE  /\ e \in Requests(r) /\ e.slot # << >>
         /\ e.pc = d.pc /\ e.seq = d.seq /\ e.conn = d.conn
<1>1. Append(d.slot, a) \in Seq(Answer(r)) /\ Append(d.slot, a) # << >>
  BY DEF Requests
<1> QED
  BY <1>1 DEF Requests

\* Whoever is registered is told, and nobody else.
LEMMA PendingFails ==
  ASSUME Inv
  PROVE  /\ Filed(req, FailPending(st, req))
         /\ \A r \in Sayer : req[r].pc \in {"sending", "waiting"} =>
              FailPending(st, req)[r].slot # << >>
<1> DEFINE p == FailPending(st, req)
<1>1. \A r \in Request : req[r] \in Requests(r) /\ Gone \in Answer(r)
  BY DEF Inv, Typed, Answer
<1>2. DOMAIN p = Request
  BY DEF FailPending
<1>3. \A r \in Request : p[r] = IF r \in Range(st.pending)
                                THEN [req[r] EXCEPT !.slot = Append(req[r].slot, Gone)] ELSE req[r]
  BY DEF FailPending
<1> HIDE DEF p
<1>4. \A r \in Request :
        /\ p[r] \in Requests(r)
        /\ p[r].pc = req[r].pc /\ p[r].seq = req[r].seq /\ p[r].conn = req[r].conn
        /\ p[r].slot = << >> => req[r].slot = << >> /\ r \notin Range(st.pending)
  <2> TAKE r \in Request
  <2>1. CASE r \in Range(st.pending)
    <3> DEFINE d == req[r]
               e == p[r]
    <3>1. e = [d EXCEPT !.slot = Append(d.slot, Gone)]
      BY <1>3, <2>1
    <3>2. d \in Requests(r) /\ Gone \in Answer(r)
      BY <1>1
    <3>3. Append(d.slot, Gone) \in Seq(Answer(r)) /\ Append(d.slot, Gone) # << >>
      BY <3>2 DEF Requests
    <3> HIDE DEF d, e
    <3>4. /\ e \in Requests(r) /\ e.slot # << >>
          /\ e.pc = d.pc /\ e.seq = d.seq /\ e.conn = d.conn
      BY <3>1, <3>2, <3>3 DEF Requests
    <3> QED
      BY <3>4 DEF d, e
  <2>2. CASE r \notin Range(st.pending)
    BY <1>1, <1>3, <2>2
  <2> QED
    BY <2>1, <2>2
<1>5. \A r \in Sayer : req[r].pc \in {"sending", "waiting"} => r \in Range(st.pending)
  BY DEF Inv, Registered, Range, Under
<1>6. Filed(req, p)
  BY <1>2, <1>4 DEF Filed
<1>7. \A r \in Sayer : req[r].pc \in {"sending", "waiting"} => p[r].slot # << >>
  BY <1>4, <1>5 DEF Request
<1> QED
  BY <1>6, <1>7 DEF p

LEMMA ReadAnswerInv ==
  ASSUME Inv, ReadAnswer
  PROVE  Inv'
<1> DEFINE f == Head(links[st.conn].in)
<1>1. /\ f \in Incoming(req) /\ f.t = "ok"
      /\ Taken \in Seq(Links(req)) /\ Kept(links, Taken) /\ reader.pc = "pump"
  BY TakingKeeps DEF ReadAnswer
<1>2. links' = Taken /\ UNCHANGED <<st, reader, main>>
      /\ req' = IF f.seq \in DOMAIN st.pending
                THEN [req EXCEPT ![st.pending[f.seq]].slot = Append(@, [t |-> "ok", by |-> f.by])]
                ELSE req
  BY DEF ReadAnswer
<1> HIDE DEF f
<1>3. f \in Numbered("ok", req)
  BY <1>1 DEF Incoming
<1>4. Filed(req, req')
  <2>1. CASE f.seq \in DOMAIN st.pending
    <3> DEFINE r == st.pending[f.seq]
               a == [t |-> "ok", by |-> f.by]
    <3>1. r \in Sayer
      BY <2>1 DEF Inv, Typed, Streams
    <3>2. req[r].seq = f.seq
      BY <2>1 DEF Inv, Registered
    <3>3. f.by \in Sayer /\ req[f.by].seq = f.seq /\ f.seq # 0
      BY <1>3 DEF Numbered
    <3>4. f.by = r
      BY <3>1, <3>2, <3>3 DEF Inv, Registered
    <3>5. a \in Answer(r)
      BY <3>4 DEF Answer
    <3>6. DOMAIN req = Request /\ (\A q \in Request : req[q] \in Requests(q)) /\ r \in Request
      BY <3>1 DEF Inv, Typed, Request
    <3>7. req' = [req EXCEPT ![r].slot = Append(req[r].slot, a)]
      BY <1>2, <2>1, <3>6
    <3> HIDE DEF r, a
    <3>8. /\ DOMAIN req' = Request /\ \A q \in Request : q # r => req'[q] = req[q]
          /\ req'[r] = [req[r] EXCEPT !.slot = Append(req[r].slot, a)]
      BY <3>6, <3>7
    <3>9. /\ req'[r] \in Requests(r) /\ req'[r].slot # << >>
          /\ req'[r].pc = req[r].pc /\ req'[r].seq = req[r].seq /\ req'[r].conn = req[r].conn
      BY SMTT(30), <3>5, <3>6, <3>8, SlotPut
    <3> QED
      BY <3>6, <3>8, <3>9 DEF Filed
  <2>2. CASE f.seq \notin DOMAIN st.pending
    BY <1>2, <2>2, NothingFiled DEF Inv
  <2> QED
    BY <2>1, <2>2
<1>5. Heeded'
  BY <1>2, <1>4 DEF Inv, Heeded, Filed, Request
<1>6. reader' \in Readers /\ main' \in Mains /\ st' \in Streams
  BY <1>2 DEF Inv, Typed
<1> QED
  BY <1>1, <1>2, <1>4, <1>5, <1>6, ReaderKeeps

LEMMA PumpUnliveInv ==
  ASSUME Inv, PumpUnlive
  PROVE  Inv'
<1>1. st \in Streams /\ reader \in Readers /\ "failing" \in Places /\ main \in Mains
  BY DEF Inv, Typed, Places
<1>2. /\ st' \in Streams /\ ~st'.live
      /\ st'.pending = st.pending /\ st'.seq = st.seq /\ st'.conn = st.conn
  BY <1>1 DEF PumpUnlive, Streams
<1>3. reader' \in Readers /\ reader'.pc = "failing" /\ reader'.why = reader.why
  BY <1>1, ReaderMoves DEF PumpUnlive
<1>4. reader.pc = "ended" /\ UNCHANGED <<links, req, main>>
  BY DEF PumpUnlive
<1>5. Heeded'
  BY <1>2, <1>3, <1>4 DEF Inv, Heeded
<1>6. Filed(req, req')
  BY <1>4, NothingFiled DEF Inv
<1>7. reader'.why = "none" => ~links'[Len(links)].hub
  BY <1>3, <1>4 DEF Inv, Supervised
<1> QED
  BY <1>1, <1>2, <1>3, <1>4, <1>5, <1>6, <1>7, SameEnds, ReaderKeeps

LEMMA PumpFailsInv ==
  ASSUME Inv, PumpFails
  PROVE  Inv'
<1>1. /\ st \in Streams /\ main \in Mains /\ reader \in Readers
      /\ "check" \in Places /\ "leaving" \in Places
  BY DEF Inv, Typed, Places
<1>2. /\ reader.pc = "failing" /\ UNCHANGED <<links, st, main>> /\ ~st.live
      /\ req' = FailPending(st, req)
  BY DEF PumpFails, Inv, Supervised
<1>3. Filed(req, req') /\ \A r \in Sayer : req[r].pc \in {"sending", "waiting"} => req'[r].slot # << >>
  BY <1>2, PendingFails
<1>4. Heeded'
  BY <1>3 DEF Heeded, Filed, Request
<1>5. /\ reader' \in Readers /\ reader'.why = reader.why
      /\ reader'.pc = IF reader.why = "none" THEN "check" ELSE "leaving"
  BY <1>1, ReaderMoves DEF PumpFails, AfterPump
<1>6. reader.why = "none" => ~links[Len(links)].hub
  BY <1>2 DEF Inv, Supervised
<1> QED
  BY <1>1, <1>2, <1>3, <1>4, <1>5, <1>6, SameEnds, ReaderKeeps

\* The finally of read_hub: nobody waits with an empty slot any more.
LEMMA LeaveInv ==
  ASSUME Inv, Leave \/ LeaveUnlive \/ LeaveEof
  PROVE  Inv'
<1>1. st \in Streams /\ main \in Mains /\ reader \in Readers /\ {"unlive", "failall", "dead"} \subseteq Places
  BY DEF Inv, Typed, Places
<1>2. /\ reader.pc \in {"leaving", "unlive", "eof"} /\ UNCHANGED <<links, req>> /\ ~st.live
      /\ \E p \in {"unlive", "failall", "dead"} : reader' = [reader EXCEPT !.pc = p]
  BY DEF Leave, LeaveUnlive, LeaveEof, Inv, Supervised
<1>3. reader' \in Readers /\ reader'.pc \in {"unlive", "failall", "dead"}
  BY <1>1, <1>2, ReaderMoves
<1>4. /\ st' \in Streams /\ ~st'.live
      /\ st'.pending = st.pending /\ st'.seq = st.seq /\ st'.conn = st.conn
  BY <1>1, <1>2 DEF Leave, LeaveUnlive, LeaveEof, Streams
<1>5. main' \in Mains /\ main'.conn = main.conn /\ main'.pc = main.pc
  BY <1>1 DEF Leave, LeaveUnlive, LeaveEof, CtlEnded, Mains
<1>6. Heeded'
  BY <1>2 DEF Inv, Heeded
<1>7. Filed(req, req')
  BY <1>2, NothingFiled DEF Inv
<1> QED
  BY <1>2, <1>3, <1>4, <1>5, <1>6, <1>7, SameEnds, ReaderKeeps

LEMMA LeaveFailsInv ==
  ASSUME Inv, LeaveFails
  PROVE  Inv'
<1>1. st \in Streams /\ main \in Mains /\ reader \in Readers /\ "eof" \in Places
  BY DEF Inv, Typed, Places
<1>2. /\ reader.pc = "failall" /\ UNCHANGED <<links, st, main>> /\ ~st.live
      /\ req' = FailPending(st, req)
  BY DEF LeaveFails, Inv, Supervised
<1>3. Filed(req, req') /\ \A r \in Sayer : req[r].pc \in {"sending", "waiting"} => req'[r].slot # << >>
  BY <1>2, PendingFails
<1>4. Heeded'
  BY <1>3 DEF Heeded, Filed, Request
<1>5. reader' \in Readers /\ reader'.pc = "eof"
  BY <1>1, ReaderMoves DEF LeaveFails
<1> QED
  BY <1>1, <1>2, <1>3, <1>4, <1>5, SameEnds, ReaderKeeps

LEMMA GoLiveInv ==
  ASSUME Inv, GoLive
  PROVE  Inv'
<1>1. st \in Streams /\ main \in Mains /\ reader \in Readers /\ "pump" \in Places
  BY DEF Inv, Typed, Places
<1>2. reader.pc = "golive" /\ UNCHANGED <<links, req, main>>
  BY DEF GoLive
<1>3. /\ st' \in Streams
      /\ st'.pending = st.pending /\ st'.seq = st.seq /\ st'.conn = st.conn
  BY <1>1 DEF GoLive, Streams
<1>4. reader' \in Readers /\ reader'.pc = "pump"
  BY <1>1, ReaderMoves DEF GoLive
<1>5. Heeded'
  BY <1>2 DEF Inv, Heeded
<1>6. Filed(req, req')
  BY <1>2, NothingFiled DEF Inv
<1> QED
  BY <1>1, <1>2, <1>3, <1>4, <1>5, <1>6, SameEnds, ReaderKeeps

LEMMA ReplayInv ==
  ASSUME Inv, Replay
  PROVE  Inv'
<1>1. reader \in Readers /\ {"golive", "leaving"} \subseteq Places /\ "oserror" \in Reasons
      /\ reader.held \in Frame
  BY DEF Inv, Typed, Places, Reasons, Readers
<1>2. reader.pc = "replay" /\ ~st.live /\ UNCHANGED <<st, req, main>>
  BY DEF Replay, Inv, Supervised
<1>3. links \in Seq(Links(req)) /\ st.conn \in 1 .. Len(links)
  BY DEF Inv, Typed, Linked
<1>4. \/ reader' = [reader EXCEPT !.pc = "golive"]
      \/ reader' = [pc |-> "leaving", held |-> reader.held, tries |-> reader.tries, why |-> "oserror"]
  BY <1>1 DEF Replay, Readers
<1>5. reader' \in Readers /\ reader'.pc \in {"golive", "leaving"}
  BY <1>1, <1>4 DEF Readers
<1> DEFINE f == [t |-> "state", by |-> reader.held]
<1>6. f \in Outgoing(req) /\ links[st.conn].out \in Seq(Outgoing(req))
  BY <1>1, <1>3, LinkParts DEF Outgoing
<1>7. links' = links \/ links' = [links EXCEPT ![st.conn].out = Append(links[st.conn].out, f)]
  BY DEF Replay, Sent
<1> HIDE DEF f
<1>8. links' \in Seq(Links(req)) /\ Kept(links, links')
  <2> DEFINE o == Append(links[st.conn].out, f)
  <2>1. o \in Seq(Outgoing(req))
    BY <1>6
  <2>2. links' = links \/ links' = [links EXCEPT ![st.conn].out = o]
    BY <1>7
  <2> HIDE DEF o
  <2>3. CASE links' = links
    BY <2>3, SameEnds
  <2>4. CASE links' = [links EXCEPT ![st.conn].out = o]
    BY <1>3, <2>1, <2>4, OutSet
  <2> QED
    BY <2>2, <2>3, <2>4
<1> QED
  BY <1>2, <1>5, <1>8, OnlyReaderMoves

\* A new connection: the hub has let go of the ones before.
LEMMA WelcomedInv ==
  ASSUME Inv, Welcomed
  PROVE  Inv'
<1>1. /\ links \in Seq(Links(req)) /\ reader \in Readers /\ main \in Mains /\ st \in Streams
      /\ "adopt" \in Places /\ Len(links) \in Nat /\ NoFrame \in Frame
  BY DEF Inv, Typed, Places, Frame
<1>2. /\ reader.pc = "connect" /\ Len(links) < MaxConn /\ links' = Append(links, Link)
      /\ \A g \in 1 .. Len(links) : ~links[g].hub
      /\ UNCHANGED <<st, req, main>> /\ ~st.live
  BY <1>1 DEF Welcomed, Inv, Supervised
<1>3. Link \in Links(req) /\ Link.own
  BY <1>1 DEF Link, Links
<1>4. /\ links' \in Seq(Links(req)) /\ Len(links') = Len(links) + 1
      /\ links'[Len(links')] = Link /\ \A g \in 1 .. Len(links) : links'[g] = links[g]
  BY <1>1, <1>2, <1>3
<1>5. reader' \in Readers /\ reader'.pc = "adopt"
  BY <1>1, ReaderMoves DEF Welcomed
<1>6. Typed'
  BY <1>1, <1>2, <1>4, <1>5 DEF Inv, Typed
<1>7. Linked'
  <2>1. MaxConn \in Nat
    BY StreamAssumption
  <2>2. Len(links') \in 1 .. MaxConn /\ \A n \in 1 .. Len(links) : n \in 1 .. Len(links')
    BY <1>1, <1>2, <1>4, <2>1
  <2>3. st.conn = Len(links) /\ st.conn \in 1 .. Len(links) /\ main.conn \in 1 .. Len(links)
        /\ \A r \in Request : req[r].pc = "sending" => req[r].conn \in 1 .. Len(links)
    BY <1>2 DEF Inv, Linked
  <2>4. \A g \in 1 .. Len(links') : g < Len(links') => ~links'[g].hub
    BY <1>1, <1>2, <1>4
  <2> QED
    BY <1>1, <1>2, <1>3, <1>4, <1>5, <2>2, <2>3, <2>4 DEF Linked
<1>8. Supervised'
  BY <1>2, <1>5 DEF Supervised
<1>9. Registered'
  BY <1>2 DEF Inv, Registered
<1>10. Heeded'
  BY <1>2 DEF Inv, Heeded
<1> QED
  BY <1>6, <1>7, <1>8, <1>9, <1>10 DEF Inv

\* The swap of the connections: no say waits for an answer on the old one.
LEMMA AdoptInv ==
  ASSUME Inv, Adopt
  PROVE  Inv'
<1>1. /\ links \in Seq(Links(req)) /\ reader \in Readers /\ main \in Mains /\ st \in Streams
      /\ "discard" \in Places /\ Len(links) \in Nat /\ st.last \in Frame
  BY DEF Inv, Typed, Places, Streams
<1>2. /\ reader.pc = "adopt" /\ ~st.live /\ UNCHANGED <<links, req, main>>
      /\ st' = [st EXCEPT !.conn = Len(links)]
      /\ reader' = [pc |-> "discard", held |-> st.last, tries |-> reader.tries, why |-> reader.why]
  BY <1>1 DEF Adopt, Inv, Supervised, Readers
<1>3. reader' \in Readers /\ reader'.pc = "discard"
  BY <1>1, <1>2 DEF Readers
<1>4. st' \in Streams /\ st'.conn = Len(links) /\ st'.live = st.live /\ st'.pending = st.pending
      /\ st'.seq = st.seq
  BY <1>1, <1>2 DEF Streams
<1>5. Typed'
  BY <1>2, <1>3, <1>4 DEF Inv, Typed
<1>6. Linked'
  BY <1>1, <1>2, <1>3, <1>4 DEF Inv, Linked, Running
<1>7. Supervised'
  BY <1>2, <1>3, <1>4 DEF Supervised
<1>8. Registered'
  BY <1>2, <1>4 DEF Inv, Registered
<1>9. Heeded'
  BY <1>2 DEF Inv, Heeded
<1> QED
  BY <1>5, <1>6, <1>7, <1>8, <1>9 DEF Inv

\* Closing the old connection leaves the one in use open.
LEMMA DiscardInv ==
  ASSUME Inv, Discard
  PROVE  Inv'
<1>1. /\ links \in Seq(Links(req)) /\ reader \in Readers /\ "replay" \in Places
      /\ Len(links) \in Nat \ {0}
  BY DEF Inv, Typed, Linked, Places
<1>2. /\ reader.pc = "discard" /\ ~st.live /\ UNCHANGED <<st, req, main>>
      /\ st.conn = Len(links)
      /\ links' = [links EXCEPT ![st.conn - 1].own = FALSE]
  BY DEF Discard, Inv, Supervised, Linked
<1>3. reader' \in Readers /\ reader'.pc = "replay"
  BY <1>1, ReaderMoves DEF Discard
<1>4. /\ Len(links') = Len(links) /\ links' \in Seq(Links(req))
      /\ links'[Len(links)] = links[Len(links)]
      /\ \A g \in 1 .. Len(links) : links'[g].hub = links[g].hub
  <2>1. CASE Len(links) = 1
    <3>1. DOMAIN links = 1 .. 1 /\ st.conn - 1 = 0
      BY <1>1, <1>2, <2>1
    <3>2. links' = links
      BY <1>1, <1>2, <3>1
    <3> QED
      BY <1>1, <3>2
  <2>2. CASE Len(links) # 1
    <3> DEFINE g == Len(links) - 1
               k == [links[g] EXCEPT !.own = FALSE]
    <3>1. g \in 1 .. Len(links) /\ g # Len(links) /\ Len(links) \in 1 .. Len(links)
      <4>1. \A n \in Nat \ {0} : n # 1 => n - 1 \in 1 .. n /\ n - 1 # n /\ n \in 1 .. n
        OBVIOUS
      <4> QED
        BY <1>1, <2>2, <4>1
    <3>2. links' = [links EXCEPT ![g] = k]
      BY <1>2
    <3> HIDE DEF g
    <3>3. k \in Links(req) /\ k.hub = links[g].hub
      <4>1. links[g] \in Links(req)
        BY <1>1, <3>1, LinkParts
      <4> QED
        BY <4>1 DEF Links
    <3> HIDE DEF k
    <3>4. /\ links' \in Seq(Links(req)) /\ Len(links') = Len(links)
          /\ \A i \in 1 .. Len(links) : links'[i] = IF i = g THEN k ELSE links[i]
      BY <1>1, <3>1, <3>2, <3>3, Relinked
    <3> QED
      BY <3>1, <3>3, <3>4
  <2> QED
    BY <2>1, <2>2
<1>5. Typed'
  BY <1>2, <1>3, <1>4 DEF Inv, Typed
<1>6. Linked'
  BY <1>1, <1>2, <1>3, <1>4 DEF Inv, Linked, Running
<1>7. Supervised'
  BY <1>2, <1>3 DEF Supervised
<1>8. Registered'
  BY <1>2 DEF Inv, Registered
<1>9. Heeded'
  BY <1>2 DEF Inv, Heeded
<1> QED
  BY <1>5, <1>6, <1>7, <1>8, <1>9 DEF Inv

\* Every step the reader takes.
LEMMA ReaderInv ==
  ASSUME Inv, Reader
  PROVE  Inv'
BY ReadPingInv, ReadAnswerInv, ReadOddInv, ReadEndInv, PumpUnliveInv, PumpFailsInv, CheckStopInv,
   BackoffInv, WelcomedInv, AttemptFailsInv, GivesUpInv, AdoptInv, DiscardInv, ReplayInv, GoLiveInv,
   LeaveInv, LeaveFailsInv DEF Reader

-----------------------------------------------------------------------------
(* The steps of the request threads.                                       *)

\* No request but r moves.
Only(r) == DOMAIN req' = Request /\ \A q \in Request : q # r => req'[q] = req[q]

\* One request goes on, with the number it has if it has one.
LEMMA RequestMoves ==
  ASSUME Inv, NEW r \in Request, Only(r), req'[r] \in Requests(r),
         req[r].seq # 0 => req'[r].seq = req[r].seq,
         req'[r].pc = "sending" => req'[r].conn \in 1 .. Len(links),
         links' \in Seq(Links(req)), Kept(links, links'),
         st' \in Streams, st'.conn = st.conn, st'.live = st.live,
         UNCHANGED <<reader, main>>
  PROVE  Typed' /\ Linked' /\ Supervised'
<1>1. Seq(Links(req)) \subseteq Seq(Links(req'))
  <2>1. \A q \in Sayer : req[q].seq # 0 => req'[q].seq = req[q].seq
    BY DEF Only, Request
  <2> QED
    BY <2>1, LinksStay
<1>2. Typed'
  <2>1. DOMAIN req' = Request /\ links' \in Seq(Links(req')) /\ reader' \in Readers /\ main' \in Mains
    BY <1>1 DEF Inv, Typed, Only
  <2>2. \A q \in Request : req'[q] \in Requests(q)
    BY DEF Inv, Typed, Only
  <2> QED
    BY <2>1, <2>2 DEF Typed
<1>3. Linked'
  <2>1. \A q \in Request : req'[q].pc = "sending" => req'[q].conn \in 1 .. Len(links)
    BY DEF Inv, Linked, Only
  <2>2. Len(links') = Len(links)
        /\ \A g \in 1 .. Len(links) : (links'[g].hub => links[g].hub) /\ links'[g].own = links[g].own
    BY DEF Kept, Ends
  <2> QED
    BY <2>1, <2>2 DEF Inv, Linked, Running
<1>4. Supervised'
  BY DEF Inv, Linked, Supervised, Kept, Ends
<1> QED
  BY <1>2, <1>3, <1>4

\* A say under way goes on, or one that was not is over: the table stays right.
LEMMA SayMoves ==
  ASSUME Inv, NEW r \in Sayer, Only(r),
         req'[r].seq = req[r].seq, req'[r].pc # "new",
         req'[r].pc \in Under <=> req[r].pc \in Under,
         st'.pending = st.pending, st'.seq = st.seq
  PROVE  Registered'
<1>1. \A s \in DOMAIN st.pending : st.pending[s] \in Sayer
  BY DEF Inv, Typed, Streams
<1> QED
  BY <1>1 DEF Inv, Registered, Only, Request

\* What the code reads of its own request.
LEMMA RequestParts ==
  ASSUME Typed, NEW r \in Request
  PROVE  /\ DOMAIN req = Request /\ req[r] \in Requests(r)
         /\ req[r].seq \in Nat /\ req[r].conn \in Nat /\ req[r].slot \in Seq(Answer(r))
         /\ req[r].result \in Result(r) /\ req[r].pc \in Stages
BY DEF Typed, Requests

LEMMA SayRefusedInv ==
  ASSUME Inv, NEW r \in Sayer, SayRegisters(r), Refuses(st)
  PROVE  Inv'
<1> DEFINE d == [pc |-> "done", seq |-> req[r].seq, conn |-> req[r].conn, slot |-> req[r].slot,
                 result |-> Gone]
<1>1. r \in Request /\ st \in Streams /\ Typed
  BY DEF Request, Inv, Typed
<1>2. DOMAIN req = Request /\ req[r] \in Requests(r)
  BY <1>1, RequestParts
<1>3. req' = [req EXCEPT ![r].pc = "done", ![r].result = Gone] /\ UNCHANGED <<links, st, reader, main>>
      /\ req[r].pc = "new"
  BY DEF SayRegisters
<1>4. Only(r) /\ req'[r] = d
  BY <1>1, <1>2, <1>3 DEF Only, Requests
<1>5. d \in Requests(r)
  BY <1>1, RequestParts DEF Requests, Stages, Result, Answer
<1>6. d.seq = req[r].seq /\ d.pc = "done"
  OBVIOUS
<1> HIDE DEF d
<1>7. Typed' /\ Linked' /\ Supervised'
  BY <1>1, <1>3, <1>4, <1>5, <1>6, SameEnds, RequestMoves
<1>8. Registered'
  BY <1>3, <1>4, <1>6, SayMoves DEF Under
<1>9. Heeded'
  BY <1>1, <1>2, <1>3, <1>4, <1>6 DEF Inv, Heeded, Only, Request
<1> QED
  BY <1>7, <1>8, <1>9 DEF Inv

\* A say that registers takes the next number, and waits on the connection in
\* use, which is live.
LEMMA SayRegisteredInv ==
  ASSUME Inv, NEW r \in Sayer, SayRegisters(r), ~Refuses(st)
  PROVE  Inv'
<1> DEFINE n == st.seq + 1
           t == [s \in DOMAIN st.pending \cup {n} |-> IF s = n THEN r ELSE st.pending[s]]
           d == [pc |-> "sending", seq |-> n, conn |-> st.conn, slot |-> req[r].slot,
                 result |-> req[r].result]
<1>1. r \in Request /\ st \in Streams /\ Typed
  BY DEF Request, Inv, Typed
<1>2. DOMAIN req = Request /\ req[r] \in Requests(r)
  BY <1>1, RequestParts
<1>3. /\ st' = [st EXCEPT !.seq = n, !.pending = t]
      /\ req' = [req EXCEPT ![r].pc = "sending", ![r].seq = n, ![r].conn = st.conn]
      /\ UNCHANGED <<links, reader, main>> /\ req[r].pc = "new" /\ st.live
  BY DEF SayRegisters, NextSeq, Refuses
<1>4. n \in Nat /\ n # 0 /\ n > st.seq /\ st.conn \in Nat /\ st.seq \in Nat
  BY <1>1 DEF Streams
<1>5. Only(r) /\ req'[r] = d
  BY <1>1, <1>2, <1>3 DEF Only, Requests
<1>6. d \in Requests(r)
  BY <1>1, <1>4, RequestParts DEF Requests, Stages
<1>7. d.seq = n /\ d.pc = "sending" /\ d.conn = st.conn
  OBVIOUS
<1>8. /\ DOMAIN st.pending \subseteq 1 .. st.seq
      /\ \A s \in DOMAIN st.pending : st.pending[s] \in Sayer
      /\ st.pending = [s \in DOMAIN st.pending |-> st.pending[s]]
  BY <1>1 DEF Inv, Registered, Streams
<1>9. t \in UNION {[S -> Sayer] : S \in SUBSET Nat}
  <2>1. DOMAIN st.pending \cup {n} \in SUBSET Nat
    BY <1>4, <1>8
  <2>2. t \in [DOMAIN st.pending \cup {n} -> Sayer]
    BY <1>8
  <2> QED
    BY <2>1, <2>2
<1>10. /\ DOMAIN t = DOMAIN st.pending \cup {n} /\ t[n] = r
       /\ \A s \in DOMAIN st.pending : s # n => t[s] = st.pending[s]
       /\ n \notin DOMAIN st.pending
  BY <1>4, <1>8
<1> HIDE DEF d, n, t
<1>11. st' = [conn |-> st.conn, live |-> st.live, closed |-> st.closed, stopping |-> st.stopping,
              last |-> st.last, pending |-> t, seq |-> n]
  BY <1>1, <1>3 DEF Streams
<1>12. /\ st' \in Streams /\ st'.conn = st.conn /\ st'.live = st.live
       /\ st'.pending = t /\ st'.seq = n
  BY <1>1, <1>4, <1>9, <1>11 DEF Streams
<1>13. req[r].seq = 0 /\ st.conn \in 1 .. Len(links)
  BY <1>3 DEF Inv, Registered, Linked
<1>14. Typed' /\ Linked' /\ Supervised'
  BY <1>1, <1>3, <1>5, <1>6, <1>7, <1>12, <1>13, SameEnds, RequestMoves
<1>15. req'[r] = d /\ \A q \in Sayer : q # r => req'[q] = req[q]
  BY <1>5 DEF Only, Request
<1>16. Registered'
  <2>1. DOMAIN st'.pending \subseteq 1 .. st'.seq
    BY <1>4, <1>8, <1>10, <1>12
  <2>2. \A s \in DOMAIN st'.pending : /\ req'[st'.pending[s]].pc \in Under
                                      /\ req'[st'.pending[s]].seq = s
    <3>1. \A s \in DOMAIN st.pending : /\ st.pending[s] # r
                                       /\ req[st.pending[s]].pc \in Under
                                       /\ req[st.pending[s]].seq = s
      BY <1>3 DEF Inv, Registered, Under
    <3> QED
      BY <1>7, <1>8, <1>10, <1>12, <1>15, <3>1 DEF Under
  <2>3. \A q \in Sayer : req'[q].pc \in Under =>
          req'[q].seq \in DOMAIN st'.pending /\ st'.pending[req'[q].seq] = q
    BY <1>7, <1>10, <1>12, <1>15 DEF Inv, Registered
  <2>4. \A q \in Sayer : req'[q].seq <= st'.seq /\ (req'[q].pc = "new" => req'[q].seq = 0)
    <3>1. \A q \in Sayer : req[q].seq \in Nat /\ req[q].seq <= st.seq
      BY <1>1, RequestParts DEF Inv, Registered, Request
    <3> QED
      BY <1>4, <1>7, <1>12, <1>15, <3>1 DEF Inv, Registered
  <2>5. \A q, p \in Sayer : req'[q].seq = req'[p].seq /\ req'[q].seq # 0 => q = p
    <3>1. \A q \in Sayer : req[q].seq \in Nat /\ req[q].seq <= st.seq
      BY <1>1, RequestParts DEF Inv, Registered, Request
    <3>2. \A q \in Sayer : req[q].seq # n
      BY <1>4, <3>1
    <3> QED
      BY <1>7, <1>15, <3>2 DEF Inv, Registered
  <2> QED
    BY <2>1, <2>2, <2>3, <2>4, <2>5 DEF Registered
<1>17. Heeded'
  <2>1. reader.pc \in {"pump", "ended"}
    BY <1>3 DEF Inv, Supervised
  <2>2. SUFFICES ASSUME NEW q \in Sayer, req'[q].pc \in {"sending", "waiting"},
                        req'[q].slot = << >>
                 PROVE  req'[q].conn = st'.conn /\ reader'.pc \in {"pump", "ended", "failing"}
    BY DEF Heeded
  <2>3. CASE q = r
    BY <1>3, <1>7, <1>12, <1>15, <2>1, <2>3
  <2>4. CASE q # r
    BY <1>3, <1>12, <1>15, <2>1, <2>2, <2>4 DEF Inv, Heeded
  <2> QED
    BY <2>3, <2>4
<1> QED
  BY <1>14, <1>16, <1>17 DEF Inv

LEMMA SaySendsInv ==
  ASSUME Inv, NEW r \in Sayer, SaySends(r)
  PROVE  Inv'
<1>1. r \in Request /\ st \in Streams /\ Typed /\ links \in Seq(Links(req))
  BY DEF Request, Inv, Typed
<1>2. DOMAIN req = Request /\ req[r] \in Requests(r) /\ req[r].pc = "sending"
  BY <1>1, RequestParts DEF SaySends
<1>3. CASE CanSend(req[r].conn)
  <2> DEFINE d == [req[r] EXCEPT !.pc = "waiting"]
             f == [t |-> "say", seq |-> req[r].seq, by |-> r]
             g == req[r].conn
             o == Append(links[g].out, f)
  <2>1. Only(r) /\ req'[r] = d
    BY <1>1, <1>2, <1>3 DEF SaySends, Only
  <2>2. d \in Requests(r) /\ d.seq = req[r].seq /\ d.pc = "waiting" /\ d.conn = req[r].conn
        /\ d.slot = req[r].slot
    BY <1>2 DEF Requests, Stages
  <2> HIDE DEF d
  <2>3. g \in 1 .. Len(links)
    BY <1>1, <1>2 DEF Inv, Linked
  <2>4. links' = [links EXCEPT ![g].out = o] /\ UNCHANGED <<st, reader, main>>
    BY <1>3 DEF SaySends, Sent
  <2> HIDE DEF g
  <2>5. req[r].seq \in Nat \ {0}
    <3>1. DOMAIN st.pending \subseteq 1 .. st.seq /\ req[r].seq \in DOMAIN st.pending
      BY <1>2 DEF Inv, Registered, Under
    <3> QED
      BY <1>1, <3>1 DEF Streams
  <2>6. f \in Outgoing(req)
    BY <2>5 DEF Outgoing, Numbered
  <2> HIDE DEF f
  <2>7. o \in Seq(Outgoing(req))
    BY <1>1, <2>3, <2>6, LinkParts
  <2> HIDE DEF o
  <2>8. links' \in Seq(Links(req)) /\ Kept(links, links')
    BY <1>1, <2>3, <2>4, <2>7, OutSet
  <2>9. Typed' /\ Linked' /\ Supervised'
    BY <1>1, <2>1, <2>2, <2>4, <2>8, RequestMoves
  <2>10. Registered'
    BY <1>2, <2>1, <2>2, <2>4, SayMoves DEF Under
  <2>11. Heeded'
    BY <1>2, <2>1, <2>2, <2>4 DEF Inv, Heeded, Only, Request
  <2> QED
    BY <2>9, <2>10, <2>11 DEF Inv
<1>4. CASE ~CanSend(req[r].conn)
  <2> DEFINE d == [pc |-> "leaving", seq |-> req[r].seq, conn |-> req[r].conn,
                   slot |-> req[r].slot, result |-> Gone]
  <2>1. Only(r) /\ req'[r] = d
    BY <1>1, <1>2, <1>4 DEF SaySends, Only, Requests
  <2>2. d \in Requests(r) /\ d.seq = req[r].seq /\ d.pc = "leaving"
    BY <1>1, RequestParts DEF Requests, Stages, Result, Answer
  <2> HIDE DEF d
  <2>3. UNCHANGED <<links, st, reader, main>>
    BY <1>4 DEF SaySends
  <2>4. Typed' /\ Linked' /\ Supervised'
    BY <1>1, <2>1, <2>2, <2>3, SameEnds, RequestMoves
  <2>5. Registered'
    BY <1>2, <2>1, <2>2, <2>3, SayMoves DEF Under
  <2>6. Heeded'
    BY <1>2, <2>1, <2>2, <2>3 DEF Inv, Heeded, Only, Request
  <2> QED
    BY <2>4, <2>5, <2>6 DEF Inv
<1> QED
  BY <1>3, <1>4

\* A say stops to wait, with the first outcome in its slot or without one.
LEMMA SayEndsInv ==
  ASSUME Inv, NEW r \in Sayer, SayGets(r) \/ SayTimesOut(r)
  PROVE  Inv'
<1> DEFINE d == [pc |-> "leaving", seq |-> req[r].seq, conn |-> req[r].conn,
                 slot |-> req[r].slot, result |-> req'[r].result]
<1>1. r \in Request /\ st \in Streams /\ Typed
  BY DEF Request, Inv, Typed
<1>2. DOMAIN req = Request /\ req[r] \in Requests(r) /\ req[r].pc = "waiting"
  BY <1>1, RequestParts DEF SayGets, SayTimesOut
<1>3. Only(r) /\ req'[r] = d
  BY <1>1, <1>2 DEF SayGets, SayTimesOut, Only, Requests
<1>4. req'[r].result \in Result(r)
  <2>1. CASE SayGets(r)
    <3>1. req'[r].result = Head(req[r].slot) /\ req[r].slot # << >>
      BY <1>1, <1>2, <2>1 DEF SayGets, Requests
    <3>2. req'[r].result \in Answer(r)
      BY <1>1, <3>1, RequestParts, Taking
    <3> QED
      BY <3>2 DEF Result
  <2>2. CASE SayTimesOut(r)
    <3>1. req'[r].result = [t |-> "timeout", by |-> NoFrame]
      BY <1>1, <1>2, <2>2 DEF SayTimesOut, Requests
    <3> QED
      BY <3>1 DEF Result
  <2> QED
    BY <2>1, <2>2
<1>5. d \in Requests(r) /\ d.seq = req[r].seq /\ d.pc = "leaving"
  BY <1>1, <1>4, RequestParts DEF Requests, Stages
<1> HIDE DEF d
<1>6. UNCHANGED <<links, st, reader, main>>
  BY DEF SayGets, SayTimesOut
<1>7. Typed' /\ Linked' /\ Supervised'
  BY <1>1, <1>3, <1>5, <1>6, SameEnds, RequestMoves
<1>8. Registered'
  BY <1>2, <1>3, <1>5, <1>6, SayMoves DEF Under
<1>9. Heeded'
  BY <1>2, <1>3, <1>5, <1>6 DEF Inv, Heeded, Only, Request
<1> QED
  BY <1>7, <1>8, <1>9 DEF Inv

\* A say that is over takes its own entry with it, and only that.
LEMMA SayLeavesInv ==
  ASSUME Inv, NEW r \in Sayer, SayLeaves(r)
  PROVE  Inv'
<1> DEFINE n == req[r].seq
           t == Restrict(st.pending, DOMAIN st.pending \ {n})
<1>1. r \in Request /\ st \in Streams /\ Typed
  BY DEF Request, Inv, Typed
<1>2. DOMAIN req = Request /\ req[r] \in Requests(r) /\ req[r].pc = "leaving"
  BY <1>1, RequestParts DEF SayLeaves
<1>3. /\ st' = [st EXCEPT !.pending = t] /\ req' = [req EXCEPT ![r].pc = "done"]
      /\ UNCHANGED <<links, reader, main>>
  BY DEF SayLeaves, Unregistered
<1>4. /\ Only(r) /\ req'[r] \in Requests(r)
      /\ req'[r].pc = "done" /\ req'[r].seq = n
  BY <1>1, <1>2, <1>3 DEF Only, Requests, Stages
<1>5. /\ DOMAIN t = DOMAIN st.pending \ {n} /\ \A s \in DOMAIN t : t[s] = st.pending[s]
      /\ t = [s \in DOMAIN t |-> t[s]]
  BY DEF Restrict
<1>6. /\ DOMAIN st.pending \subseteq Nat
      /\ \A s \in DOMAIN st.pending : st.pending[s] \in Sayer
  BY <1>1 DEF Streams
<1> HIDE DEF n, t
<1>7. t \in UNION {[S -> Sayer] : S \in SUBSET Nat}
  <2>1. DOMAIN t \in SUBSET Nat /\ t \in [DOMAIN t -> Sayer]
    BY <1>5, <1>6
  <2> QED
    BY <2>1
<1>8. /\ st' \in Streams /\ st'.conn = st.conn /\ st'.live = st.live
      /\ st'.pending = t /\ st'.seq = st.seq
  BY <1>1, <1>3, <1>7 DEF Streams
<1>9. Typed' /\ Linked' /\ Supervised'
  BY <1>1, <1>3, <1>4, <1>8, SameEnds, RequestMoves DEF n
<1>10. n \in DOMAIN st.pending /\ st.pending[n] = r
  BY <1>2 DEF Inv, Registered, Under, n
<1>11. Registered'
  <2>1. DOMAIN st'.pending \subseteq 1 .. st'.seq
    BY <1>5, <1>8 DEF Inv, Registered
  <2>2. \A s \in DOMAIN t : /\ st.pending[s] # r
                            /\ req[st.pending[s]].pc \in Under
                            /\ req[st.pending[s]].seq = s
    BY <1>5 DEF Inv, Registered, n
  <2>3. \A s \in DOMAIN st'.pending : /\ req'[st'.pending[s]].pc \in Under
                                      /\ req'[st'.pending[s]].seq = s
    BY <1>4, <1>5, <1>6, <1>8, <2>2 DEF Only, Request
  <2>4. \A q \in Sayer : q # r /\ req[q].pc \in Under =>
          req[q].seq \in DOMAIN t /\ t[req[q].seq] = q
    BY <1>5, <1>10 DEF Inv, Registered
  <2>5. \A q \in Sayer : req'[q].pc \in Under =>
          req'[q].seq \in DOMAIN st'.pending /\ st'.pending[req'[q].seq] = q
    BY <1>4, <1>8, <2>4 DEF Only, Request, Under
  <2>6. \A q \in Sayer : /\ req'[q].seq = req[q].seq
                         /\ req'[q].pc = "new" => req[q].pc = "new"
    BY <1>4 DEF Only, Request, n
  <2>7. /\ \A q \in Sayer : req'[q].seq <= st'.seq /\ (req'[q].pc = "new" => req'[q].seq = 0)
        /\ \A q, p \in Sayer : req'[q].seq = req'[p].seq /\ req'[q].seq # 0 => q = p
    BY <1>8, <2>6 DEF Inv, Registered
  <2> QED
    BY <2>1, <2>3, <2>5, <2>7 DEF Registered
<1>12. Heeded'
  BY <1>3, <1>4, <1>8 DEF Inv, Heeded, Only, Request
<1> QED
  BY <1>9, <1>11, <1>12 DEF Inv

\* A state that is reported leaves the says alone.
LEMMA HookMoves ==
  ASSUME Inv, NEW r \in Hook, Only(r),
         st'.pending = st.pending, st'.seq = st.seq, st'.conn = st.conn, UNCHANGED reader
  PROVE  Registered' /\ Heeded'
<1>1. \A q \in Sayer : req'[q] = req[q]
  BY StreamAssumption DEF Only, Request
<1>2. \A s \in DOMAIN st.pending : st.pending[s] \in Sayer
  BY DEF Inv, Typed, Streams
<1> QED
  BY <1>1, <1>2 DEF Inv, Registered, Heeded

LEMMA StateCachedInv ==
  ASSUME Inv, NEW r \in Hook, StateCached(r)
  PROVE  Inv'
<1> DEFINE p == IF st.live THEN "sending" ELSE "cached"
           d == [pc |-> p, seq |-> req[r].seq, conn |-> st.conn, slot |-> req[r].slot,
                 result |-> req[r].result]
<1>1. r \in Request /\ st \in Streams /\ Typed /\ r \in Frame
  BY DEF Request, Inv, Typed, Frame
<1>2. DOMAIN req = Request /\ req[r] \in Requests(r)
  BY <1>1, RequestParts
<1>3. /\ st' = [st EXCEPT !.last = r] /\ UNCHANGED <<links, reader, main>>
      /\ req' = [req EXCEPT ![r].pc = p, ![r].conn = st.conn]
  BY DEF StateCached
<1>4. p \in Stages
  BY DEF Stages
<1> HIDE DEF p
<1>5. Only(r) /\ req'[r] = d
  BY <1>1, <1>2, <1>3 DEF Only, Requests
<1>6. st.conn \in Nat /\ st.conn \in 1 .. Len(links)
  BY <1>1 DEF Inv, Linked, Streams
<1>7. req'[r] \in Requests(r) /\ req'[r].seq = req[r].seq /\ req'[r].conn = st.conn
  BY <1>1, <1>4, <1>5, <1>6, RequestParts DEF Requests
<1>8. /\ st' \in Streams /\ st'.conn = st.conn /\ st'.live = st.live
      /\ st'.pending = st.pending /\ st'.seq = st.seq
  BY <1>1, <1>3 DEF Streams
<1>9. Typed' /\ Linked' /\ Supervised'
  BY <1>1, <1>3, <1>5, <1>6, <1>7, <1>8, SameEnds, RequestMoves
<1>10. Registered' /\ Heeded'
  BY <1>3, <1>5, <1>8, HookMoves
<1> QED
  BY <1>9, <1>10 DEF Inv

LEMMA StateSendsInv ==
  ASSUME Inv, NEW r \in Hook, StateSends(r)
  PROVE  Inv'
<1>1. r \in Request /\ st \in Streams /\ Typed /\ r \in Frame /\ links \in Seq(Links(req))
  BY DEF Request, Inv, Typed, Frame
<1>2. DOMAIN req = Request /\ req[r] \in Requests(r) /\ req[r].pc = "sending"
  BY <1>1, RequestParts DEF StateSends
<1>3. req' = [req EXCEPT ![r].pc = "done"] /\ UNCHANGED <<st, reader, main>>
  BY DEF StateSends
<1>4. Only(r) /\ req'[r] \in Requests(r) /\ req'[r].seq = req[r].seq /\ req'[r].pc = "done"
  BY <1>1, <1>2, <1>3 DEF Only, Requests, Stages
<1> DEFINE g == req[r].conn
           f == [t |-> "state", by |-> r]
           o == Append(links[g].out, f)
<1>5. links' = links \/ links' = [links EXCEPT ![g].out = o]
  BY DEF StateSends, Sent
<1>6. g \in 1 .. Len(links)
  BY <1>1, <1>2 DEF Inv, Linked
<1> HIDE DEF g
<1>7. f \in Outgoing(req)
  BY <1>1 DEF Outgoing
<1> HIDE DEF f
<1>8. o \in Seq(Outgoing(req))
  BY <1>1, <1>6, <1>7, LinkParts
<1> HIDE DEF o
<1>9. links' \in Seq(Links(req)) /\ Kept(links, links')
  <2>1. CASE links' = links
    BY <2>1, SameEnds
  <2>2. CASE links' = [links EXCEPT ![g].out = o]
    BY <1>1, <1>6, <1>8, <2>2, OutSet
  <2> QED
    BY <1>5, <2>1, <2>2
<1>10. Typed' /\ Linked' /\ Supervised'
  BY <1>1, <1>3, <1>4, <1>9, RequestMoves
<1>11. Registered' /\ Heeded'
  BY <1>3, <1>4, HookMoves
<1> QED
  BY <1>10, <1>11 DEF Inv

-----------------------------------------------------------------------------
(* The main thread's steps.                                                *)

\* The main thread touches neither the table, the requests nor the connection
\* in use; when it closes the connections, it is over.
LEMMA MainKeeps ==
  ASSUME Inv, links' \in Seq(Links(req)), Ends(links, links'), UNCHANGED <<reader, req>>,
         Kept(links, links') \/ main'.pc = "exited",
         main.pc # "exited",
         main' \in Mains, main'.conn \in 1 .. Len(links),
         st' \in Streams, st'.conn = st.conn, st'.live = st.live,
         st'.pending = st.pending, st'.seq = st.seq
  PROVE  Inv'
<1>1. Typed'
  BY DEF Inv, Typed
<1>2. Linked'
  BY DEF Inv, Linked, Kept, Ends, Running
<1>3. Supervised'
  BY DEF Inv, Supervised, Ends, Linked
<1>4. Registered' /\ Heeded'
  BY DEF Inv, Registered, Heeded
<1> QED
  BY <1>1, <1>2, <1>3, <1>4 DEF Inv

\* The process ends and its descriptors are closed.
LEMMA ExitsEnds ==
  ASSUME Inv, Exits
  PROVE  /\ links' \in Seq(Links(req)) /\ Ends(links, links')
         /\ main' \in Mains /\ main'.pc = "exited" /\ main'.conn = main.conn
<1>1. links \in Seq(Links(req)) /\ main \in Mains /\ DOMAIN links = 1 .. Len(links)
      /\ Len(links) \in Nat
  BY DEF Inv, Typed
<1>2. main' \in Mains /\ main'.pc = "exited" /\ main'.conn = main.conn
  BY <1>1 DEF Exits, Mains
<1>3. /\ DOMAIN links' = 1 .. Len(links)
      /\ links' = [g \in DOMAIN links' |-> links'[g]]
      /\ \A g \in 1 .. Len(links) : links'[g] = [links[g] EXCEPT !.own = FALSE]
  BY <1>1 DEF Exits
<1>4. \A g \in 1 .. Len(links) : links'[g] \in Links(req) /\ links'[g].hub = links[g].hub
  <2> TAKE g \in 1 .. Len(links)
  <2> DEFINE d == links[g]
             e == links'[g]
  <2>1. d \in Links(req) /\ e = [d EXCEPT !.own = FALSE]
    BY <1>1, <1>3
  <2> HIDE DEF d, e
  <2>2. e \in Links(req) /\ e.hub = d.hub
    BY <2>1 DEF Links
  <2> QED
    BY <2>2 DEF d, e
<1>5. links' \in [1 .. Len(links) -> Links(req)]
  BY <1>3, <1>4
<1>6. links' \in Seq(Links(req)) /\ Len(links') = Len(links)
  BY <1>1, <1>5
<1> QED
  BY <1>2, <1>4, <1>6 DEF Ends

LEMMA SignalInv ==
  ASSUME Inv, Signal
  PROVE  Inv'
<1>1. main \in Mains /\ st \in Streams /\ main.conn \in 1 .. Len(links)
  BY DEF Inv, Typed, Linked
<1>2. main' = [pc |-> main.pc, conn |-> main.conn, stop |-> TRUE, closing |-> TRUE]
  BY <1>1 DEF Signal, CtlEnded, Mains
<1>3. main' \in Mains /\ main'.conn = main.conn /\ main.pc # "exited"
  <2>1. main.pc # "exited"
    BY DEF Signal, Running
  <2> QED
    BY <1>1, <1>2, <2>1 DEF Mains
<1>4. UNCHANGED <<links, st, reader, req>>
  BY DEF Signal
<1>5. Ends(links, links)
  BY DEF Ends
<1> QED
  BY <1>1, <1>3, <1>4, <1>5, SameEnds, MainKeeps

LEMMA MainInv ==
  ASSUME Inv, Main
  PROVE  Inv'
<1>1. main \in Mains /\ st \in Streams /\ main.conn \in 1 .. Len(links) /\ links \in Seq(Links(req))
      /\ st.conn \in 1 .. Len(links) /\ st.conn \in Nat
  BY DEF Inv, Typed, Linked, Streams
<1>2. main.pc # "exited" /\ UNCHANGED <<reader, req>>
  BY DEF Main, MainLeaves, MainSnaps, MainByes, MainJoins
<1>3. Ends(links, links)
  BY DEF Ends
<1>4. CASE Exits /\ UNCHANGED st
  BY <1>1, <1>2, <1>4, ExitsEnds, MainKeeps
<1>5. CASE MainLeaves /\ main.stop
  <2>1. /\ st' = [st EXCEPT !.stopping = TRUE] /\ main' = [main EXCEPT !.pc = "stopping"]
        /\ UNCHANGED links
    BY <1>5 DEF MainLeaves
  <2>2. /\ st' \in Streams /\ st'.conn = st.conn /\ st'.live = st.live
        /\ st'.pending = st.pending /\ st'.seq = st.seq
    BY <1>1, <2>1 DEF Streams
  <2>3. main' \in Mains /\ main'.conn = main.conn
    BY <1>1, <2>1 DEF Mains
  <2> QED
    BY <1>1, <1>2, <1>3, <2>1, <2>2, <2>3, SameEnds, MainKeeps
<1>6. CASE MainSnaps
  <2>1. /\ main' = [pc |-> "bye", conn |-> st.conn, stop |-> main.stop, closing |-> main.closing]
        /\ UNCHANGED <<links, st>>
    BY <1>1, <1>6 DEF MainSnaps, Mains
  <2>2. main' \in Mains /\ main'.conn = st.conn
    BY <1>1, <2>1 DEF Mains
  <2> QED
    BY <1>1, <1>2, <1>3, <2>1, <2>2, SameEnds, MainKeeps
<1>7. CASE MainByes /\ ~(st.live /\ ~CanSend(main.conn))
  <2> DEFINE f == [t |-> "bye"]
             g == main.conn
             o == Append(links[g].out, f)
  <2>1. /\ main' = [main EXCEPT !.pc = "joining"] /\ UNCHANGED st
        /\ links' = links \/ links' = [links EXCEPT ![g].out = o]
    BY <1>7 DEF MainByes, Sent
  <2>2. main' \in Mains /\ main'.conn = main.conn
    BY <1>1, <2>1 DEF Mains
  <2>3. f \in Outgoing(req) /\ g \in 1 .. Len(links)
    BY <1>1 DEF Outgoing
  <2> HIDE DEF f, g
  <2>4. o \in Seq(Outgoing(req))
    BY <1>1, <2>3, LinkParts
  <2> HIDE DEF o
  <2>5. links' \in Seq(Links(req)) /\ Kept(links, links')
    <3>1. CASE links' = links
      BY <3>1, SameEnds
    <3>2. CASE links' = [links EXCEPT ![g].out = o]
      BY <1>1, <2>3, <2>4, <3>2, OutSet
    <3> QED
      BY <2>1, <3>1, <3>2
  <2>6. Ends(links, links')
    BY <2>5 DEF Kept
  <2> QED
    BY <1>1, <1>2, <2>1, <2>2, <2>5, <2>6, MainKeeps
<1> QED
  BY <1>4, <1>5, <1>6, <1>7 DEF Main, MainLeaves, MainByes, MainJoins

-----------------------------------------------------------------------------
(* The whole process.                                                      *)

LEMMA InitInv == Init => Inv
<1> SUFFICES ASSUME Init PROVE Inv
  OBVIOUS
<1>1. NoFrame \in Frame /\ Len(links) = 1 /\ links[1] = Link
  BY DEF Init, Frame
<1>2. Typed
  <2>1. Link \in Links(req)
    BY <1>1 DEF Link, Links
  <2>2. links \in Seq(Links(req))
    BY <2>1 DEF Init
  <2>3. st \in Streams
    <3>1. [s \in {} |-> NoFrame] \in [{} -> Sayer] /\ {} \in SUBSET Nat
      OBVIOUS
    <3>2. [s \in {} |-> NoFrame] \in UNION {[S -> Sayer] : S \in SUBSET Nat}
      BY <3>1
    <3> QED
      BY <1>1, <3>2 DEF Init, Streams
  <2>4. reader \in Readers /\ main \in Mains
    BY <1>1 DEF Init, Readers, Mains, Places, Reasons
  <2>5. DOMAIN req = Request /\ \A r \in Request : req[r] \in Requests(r)
    BY DEF Init, Requests, Stages, Result, Answer
  <2> QED
    BY <2>2, <2>3, <2>4, <2>5 DEF Typed
<1>3. Linked
  BY <1>1, StreamAssumption DEF Init, Linked, Link, Running
<1>4. Supervised
  BY DEF Init, Supervised
<1>5. Registered
  BY DEF Init, Registered, Request, Under
<1>6. Heeded
  BY DEF Init, Heeded, Request
<1> QED
  BY <1>2, <1>3, <1>4, <1>5, <1>6 DEF Inv

LEMMA NextInv ==
  ASSUME Inv, [Next]_vars
  PROVE  Inv'
<1>1. CASE Reader
  BY <1>1, ReaderInv
<1>2. ASSUME NEW r \in Sayer, Say(r) PROVE Inv'
  <2>1. SayRegisters(r) => Inv'
    BY SayRefusedInv, SayRegisteredInv
  <2> QED
    BY <1>2, <2>1, SaySendsInv, SayEndsInv, SayLeavesInv DEF Say
<1>3. ASSUME NEW r \in Hook, State(r) PROVE Inv'
  BY <1>3, StateCachedInv, StateSendsInv DEF State
<1>4. CASE Main \/ Signal
  BY <1>4, MainInv, SignalInv
<1>5. ASSUME NEW g \in DOMAIN links, Hub(g) PROVE Inv'
  BY <1>5, HubReadsInv, HubPingsInv, HubSendsOddInv, HubClosesInv DEF Hub
<1>6. CASE UNCHANGED vars
  <2>1. UNCHANGED <<links, st, reader, req, main>>
    BY <1>6 DEF vars
  <2> QED
    BY <2>1, SameEnds, HubKeeps
<1> QED
  BY <1>1, <1>2, <1>3, <1>4, <1>5, <1>6 DEF Next

\* The invariant holds in every state of the stream spoke, whatever the hub
\* does and whenever the waits pass: the reader's place, the table of the says
\* under way and the connections fit together.
THEOREM StreamInvariance == Spec => []Inv
<1>1. Inv /\ [Next]_vars => Inv'
  BY NextInv
<1> QED
  BY InitInv, <1>1, PTL DEF Spec

\* _pending holds just the says that are under way (Stream._forward_say enters
\* and removes its own entry), in every state.
THEOREM StreamTypeOKAlways == Spec => []StreamTypeOK
<1>1. Inv => StreamTypeOK
  <2> SUFFICES ASSUME Inv PROVE StreamTypeOK
    OBVIOUS
  <2>1. \A g \in DOMAIN links : links[g].heard \in Hook \cup {NoFrame}
    BY LinkParts DEF Inv, Typed, Frame
  <2>2. st.conn \in DOMAIN links /\ Len(links) <= MaxConn /\ st.last \in Hook \cup {NoFrame}
    BY StreamAssumption DEF Inv, Typed, Linked, Streams, Frame
  <2>3. \A s \in DOMAIN st.pending : st.pending[s] \in Sayer
    BY DEF Inv, Typed, Streams
  <2>4. DOMAIN st.pending \subseteq 1 .. st.seq
    BY DEF Inv, Registered
  <2>5. Range(st.pending) = {r \in Sayer : req[r].pc \in {"sending", "waiting", "leaving"}}
    BY <2>3 DEF Inv, Registered, Under, Range
  <2> QED
    BY <2>1, <2>2, <2>4, <2>5 DEF StreamTypeOK
<1> QED
  BY StreamInvariance, <1>1, PTL

\* A say that still waits with an empty slot is registered, on the connection
\* that is being read or whose end is being handled: none is parked over an
\* outage (docs/ARCHITECTURE.md, "Registry, reconnect, restart").
THEOREM NoSayParkedInGapAlways == Spec => []NoSayParkedInGap
<1>1. Inv => NoSayParkedInGap
  BY DEF Inv, Registered, Heeded, Under, NoSayParkedInGap
<1> QED
  BY StreamInvariance, <1>1, PTL

\* A say that was answered ok was answered by the hub's answer to it, a late
\* answer to one that timed out notwithstanding (_hand_to_waiter).
THEOREM AnswersMatchAlways == Spec => []AnswersMatch
<1>1. Inv => AnswersMatch
  <2> SUFFICES ASSUME Inv, NEW r \in Sayer, req[r].result.t = "ok" PROVE req[r].result.by = r
    BY DEF AnswersMatch
  <2>1. req[r].result \in Result(r)
    BY RequestParts DEF Inv, Request
  <2> DEFINE v == req[r].result
  <2> HIDE DEF v
  <2>2. v \in Result(r) /\ v.t = "ok"
    BY <2>1 DEF v
  <2>3. v.by = r
    BY <2>2 DEF Result, Answer, Gone
  <2> QED
    BY <2>3 DEF v
<1> QED
  BY StreamInvariance, <1>1, PTL

\* The stream says hello again only after the hub has let go of every earlier
\* connection (_reconnect follows the end of the old connection's read).
THEOREM RejoinFindsNameFreeAlways == Spec => []RejoinFindsNameFree
<1>1. Inv => RejoinFindsNameFree
  <2> SUFFICES ASSUME Inv, reader.pc = "connect" PROVE \A g \in DOMAIN links : ~links[g].hub
    BY DEF RejoinFindsNameFree
  <2>1. links \in Seq(Links(req)) /\ DOMAIN links = 1 .. Len(links) /\ Len(links) \in Nat
    BY DEF Inv, Typed
  <2>2. ~links[Len(links)].hub /\ \A g \in 1 .. Len(links) : g < Len(links) => ~links[g].hub
    BY DEF Inv, Supervised, Linked
  <2> QED
    BY <2>1, <2>2
<1> QED
  BY StreamInvariance, <1>1, PTL
-----------------------------------------------------------------------------
(* The state that the hub knows.  Two hooks that send at a time may send in *)
(* the order in which they did not cache, so what follows is about the      *)
(* behaviours in which no two do: Apart.                                    *)

States(o) == {i \in 1 .. Len(o) : o[i].t = "state"}

\* The last state frame on its way out of a connection is f's, or none is and
\* the hub has last heard f.
Known(link, f) ==
  IF States(link.out) = {} THEN link.heard = f
  ELSE \E i \in States(link.out) : link.out[i].by = f /\ \A j \in States(link.out) : j <= i

Newest == links[Len(links)]

\* A report is on its way to the newest connection, or was cached between the
\* snapshot of _adopt and live.set.
Going(r)    == r \in Hook /\ req[r].pc = "sending" /\ req[r].conn = Len(links)
InWindow(r) == r \in Hook /\ req[r].pc = "cached" /\ req[r].conn = Len(links)

\* No two hooks send at a time.
Apart == \A r, q \in Hook : req[r].pc = "sending" /\ req[q].pc = "sending" => r = q

\* What the hub knows, or is about to be told, at each place of the reader
\* from the welcome to the end of a connection.
Rejoining == {"adopt", "discard", "replay", "golive"}
Relayed ==
  Running /\ Newest.hub =>
    /\ reader.pc \in {"adopt", "discard", "replay"} => Known(Newest, NoFrame)
    /\ reader.pc \in {"discard", "replay"} => reader.held = st.last \/ InWindow(st.last)
    /\ reader.pc = "golive" => Known(Newest, st.last) \/ InWindow(st.last)
    /\ reader.pc = "pump" => Known(Newest, st.last) \/ InWindow(st.last) \/ Going(st.last)
    /\ reader.pc \in Rejoining => \A r \in Hook : ~Going(r)
    /\ reader.pc = "pump" => \A r \in Hook : Going(r) => r = st.last

\* What the hub knows of a connection stays known when a frame is sent on it
\* that reports no state ...
LEMMA KnownOverOthers ==
  ASSUME NEW S, NEW a, NEW b, NEW f, a.out \in Seq(S), f.t # "state",
         b.out = Append(a.out, f), b.heard = a.heard
  PROVE  \A r \in Frame : Known(a, r) => Known(b, r)
<1> DEFINE o == a.out
           p == b.out
<1>1. o \in Seq(S) /\ p = Append(o, f)
  OBVIOUS
<1> HIDE DEF o, p
<1>2. Len(p) = Len(o) + 1 /\ p[Len(p)] = f /\ \A i \in 1 .. Len(o) : p[i] = o[i]
  BY <1>1
<1>3. Len(o) \in Nat /\ 1 .. Len(p) = (1 .. Len(o)) \cup {Len(p)}
  BY <1>1, <1>2
<1>4. States(p) = States(o)
  BY <1>2, <1>3 DEF States
<1>5. \A i \in States(o) : p[i].by = o[i].by
  BY <1>2 DEF States
<1> QED
  BY <1>4, <1>5 DEF Known, o, p

\* ... a frame that reports one makes it known ...
LEMMA KnownWhenSent ==
  ASSUME NEW S, NEW a, NEW b, NEW r, a.out \in Seq(S),
         b.out = Append(a.out, [t |-> "state", by |-> r])
  PROVE  Known(b, r)
<1> DEFINE o == a.out
           p == b.out
           f == [t |-> "state", by |-> r]
<1>1. o \in Seq(S) /\ p = Append(o, f) /\ f.t = "state" /\ f.by = r
  OBVIOUS
<1> HIDE DEF o, p, f
<1>2. Len(p) \in Nat /\ Len(p) = Len(o) + 1 /\ p[Len(p)] = f
  BY <1>1
<1>3. Len(p) \in States(p) /\ \A j \in States(p) : j <= Len(p)
  BY <1>1, <1>2 DEF States
<1>4. p[Len(p)].by = r
  BY <1>1, <1>2
<1> QED
  BY <1>3, <1>4 DEF Known, p

\* ... and it stays known when the hub reads the first frame.
LEMMA KnownWhenRead ==
  ASSUME NEW S, NEW a, NEW b, a.out \in Seq(S), a.out # << >>, b.out = Tail(a.out),
         b.heard = IF Head(a.out).t = "state" THEN Head(a.out).by ELSE a.heard
  PROVE  \A r \in Frame : Known(a, r) => Known(b, r)
<1> TAKE r \in Frame
<1> HAVE Known(a, r)
<1> DEFINE o == a.out
           p == b.out
<1>1. o \in Seq(S) /\ o # << >> /\ p = Tail(o)
  OBVIOUS
<1>2. b.heard = IF o[1].t = "state" THEN o[1].by ELSE a.heard
  OBVIOUS
<1>3. IF States(o) = {} THEN a.heard = r
      ELSE \E i \in States(o) : o[i].by = r /\ \A j \in States(o) : j <= i
  BY DEF Known
<1>4. SUFFICES IF States(p) = {} THEN b.heard = r
               ELSE \E i \in States(p) : p[i].by = r /\ \A j \in States(p) : j <= i
  BY DEF Known
<1> HIDE DEF o, p
<1>5. Len(o) \in Nat \ {0} /\ Len(p) = Len(o) - 1 /\ \A i \in 1 .. Len(p) : p[i] = o[i + 1]
  BY <1>1
<1>6. \A i \in 1 .. Len(o) : i # 1 => i - 1 \in 1 .. Len(p) /\ p[i - 1] = o[i]
  BY <1>5
<1>7. \A i \in 1 .. Len(p) : i + 1 \in 1 .. Len(o) /\ i + 1 # 1
  BY <1>5
<1>8. 1 \in 1 .. Len(o)
  BY <1>5
<1>9. \A i \in States(p) : i \in 1 .. Len(p) /\ i + 1 \in States(o)
  BY <1>5, <1>7 DEF States
<1>10. \A i \in States(o) : i # 1 => i \in 1 .. Len(o) /\ i - 1 \in States(p)
  BY <1>6 DEF States
<1>11. CASE States(p) = {}
  <2>1. \A i \in States(o) : i = 1
    BY <1>10, <1>11
  <2>2. 1 \in States(o) <=> o[1].t = "state"
    BY <1>8 DEF States
  <2> QED
    BY <1>2, <1>3, <1>11, <2>1, <2>2
<1>12. CASE States(p) # {}
  <2>1. PICK k \in States(p) : TRUE
    BY <1>12
  <2>2. k + 1 \in States(o) /\ k \in 1 .. Len(p)
    BY <1>9, <2>1
  <2>3. PICK i \in States(o) : o[i].by = r /\ \A j \in States(o) : j <= i
    BY <1>3, <2>2
  <2>4. i \in 1 .. Len(o) /\ k + 1 <= i
    BY <2>2, <2>3 DEF States
  <2>5. i # 1
    BY <1>5, <2>2, <2>4
  <2>6. i - 1 \in States(p) /\ p[i - 1].by = r
    BY <1>6, <1>10, <2>3, <2>4, <2>5
  <2>7. \A j \in States(p) : j <= i - 1
    <3> TAKE j \in States(p)
    <3>1. j \in 1 .. Len(p) /\ j + 1 <= i
      BY <1>9, <2>3
    <3> QED
      BY <1>5, <2>4, <3>1
  <2> QED
    BY <1>12, <2>6, <2>7
<1> QED
  BY <1>11, <1>12

\* What a step does to the newest connection, as far as this is about it.
Onward ==
  /\ Len(links') = Len(links)
  /\ Newest'.hub => Newest.hub
  /\ \A f \in Frame : Known(Newest, f) => Known(Newest', f)

LEMMA LinkOnward ==
  ASSUME Inv, NEW g \in 1 .. Len(links), NEW k \in Links(req), links' = [links EXCEPT ![g] = k],
         k.hub => links[g].hub, \A f \in Frame : Known(links[g], f) => Known(k, f)
  PROVE  Onward
<1>1. links \in Seq(Links(req)) /\ Len(links) \in 1 .. Len(links)
  BY DEF Inv, Typed, Linked
<1>2. /\ Len(links') = Len(links)
      /\ \A i \in 1 .. Len(links) : links'[i] = IF i = g THEN k ELSE links[i]
  BY <1>1, Relinked
<1> QED
  BY <1>1, <1>2 DEF Onward, Newest

LEMMA SameOnward ==
  ASSUME UNCHANGED links
  PROVE  Onward
BY DEF Onward, Newest

\* A change that leaves alone what the stream has sent.
LEMMA EdgeOnward ==
  ASSUME Inv, NEW g \in 1 .. Len(links), NEW k \in Links(req), links' = [links EXCEPT ![g] = k],
         k.hub => links[g].hub, k.out = links[g].out, k.heard = links[g].heard
  PROVE  Onward
<1>1. \A f \in Frame : Known(links[g], f) => Known(k, f)
  BY DEF Known
<1> QED
  BY <1>1, LinkOnward

\* A frame of the stream that reports no state.
LEMMA SentOnward ==
  ASSUME Inv, NEW g \in 1 .. Len(links), NEW f \in Outgoing(req), f.t # "state",
         links' = Sent(g, f)
  PROVE  Onward
<1> DEFINE a == links[g]
           k == [a EXCEPT !.out = Append(a.out, f)]
<1>1. a \in Links(req) /\ links' = [links EXCEPT ![g] = k]
  BY LinkParts DEF Inv, Typed, Sent
<1> HIDE DEF a
<1>2. a.out \in Seq(Outgoing(req)) /\ Append(a.out, f) \in Seq(Outgoing(req))
  <2>1. a.out \in Seq(Outgoing(req))
    BY <1>1 DEF Links
  <2> QED
    BY <2>1
<1> DEFINE o == Append(a.out, f)
<1>3. o \in Seq(Outgoing(req)) /\ k = [a EXCEPT !.out = o]
  BY <1>2
<1> HIDE DEF o, k
<1>4. k \in Links(req) /\ k.hub = a.hub /\ k.heard = a.heard /\ k.out = o
  BY <1>1, <1>3 DEF Links
<1>5. \A r \in Frame : Known(a, r) => Known(k, r)
  BY <1>2, <1>4, KnownOverOthers DEF o
<1>6. links' = [links EXCEPT ![g] = k]
  BY <1>1 DEF k
<1> QED
  BY <1>1, <1>4, <1>5, <1>6, LinkOnward DEF a

\* What the hub does keeps what it knows.
LEMMA HubOnward ==
  ASSUME Inv, NEW g \in DOMAIN links, Hub(g)
  PROVE  Onward
<1>1. links \in Seq(Links(req)) /\ g \in 1 .. Len(links)
  BY DEF Inv, Typed
<1> DEFINE a == links[g]
<1>2. a \in Links(req)
  BY <1>1, LinkParts
<1>3. CASE HubReads(g)
  <2> DEFINE f == Head(a.out)
             k == CASE f.t = "say"   -> [a EXCEPT !.out = Tail(@), !.in =
                                           Append(@, [t |-> "ok", seq |-> f.seq, by |-> f.by])]
                    [] f.t = "state" -> [a EXCEPT !.out = Tail(@), !.heard = f.by]
                    [] f.t = "pong"  -> [a EXCEPT !.out = Tail(@)]
                    [] f.t = "bye"   -> [a EXCEPT !.out = Tail(@), !.hub = FALSE]
  <2>1. a.out # << >>
    BY <1>3 DEF HubReads
  <2> DEFINE rest == [links EXCEPT ![g].out = Tail(links[g].out)]
  <2>2. f.t \in {"say", "state", "pong", "bye"} /\ a.out \in Seq(Outgoing(req))
        /\ (f.t = "say" => f \in Numbered("say", req)) /\ (f.t = "state" => f.by \in Frame)
    <3>1. a.out \in Seq(Outgoing(req))
      BY <1>1, LinkParts
    <3>2. f \in Outgoing(req)
      BY <2>1, <3>1, Taking
    <3> HIDE DEF f
    <3> QED
      BY <3>1, <3>2 DEF Outgoing, Numbered
  <2>3. links' = CASE f.t = "say"   -> [rest EXCEPT ![g].in =
                                         Append(@, [t |-> "ok", seq |-> f.seq, by |-> f.by])]
                   [] f.t = "state" -> [rest EXCEPT ![g].heard = f.by]
                   [] f.t = "pong"  -> rest
                   [] f.t = "bye"   -> [rest EXCEPT ![g].hub = FALSE]
    BY <1>3 DEF HubReads
  <2>4. links' = [links EXCEPT ![g] = k]
    <3>1. rest = [links EXCEPT ![g] = [a EXCEPT !.out = Tail(@)]]
      OBVIOUS
    <3>2. f.t = "say" => links' = [links EXCEPT ![g] = k]
      BY <1>1, <2>3
    <3>3. f.t = "state" => links' = [links EXCEPT ![g] = k]
      BY <1>1, <2>3
    <3>4. f.t = "pong" => links' = [links EXCEPT ![g] = k]
      BY <1>1, <2>3
    <3>5. f.t = "bye" => links' = [links EXCEPT ![g] = k]
      BY <1>1, <2>3
    <3> QED
      BY <2>2, <3>2, <3>3, <3>4, <3>5
  <2> DEFINE y == [t |-> "ok", seq |-> f.seq, by |-> f.by]
  <2>5. f.t = "say" => y \in Incoming(req)
    BY <2>2 DEF Incoming, Numbered
  <2>6. Tail(a.out) \in Seq(Outgoing(req)) /\ a.in \in Seq(Incoming(req))
    BY <1>1, <2>1, <2>2, LinkParts, Taking
  <2> DEFINE o == Tail(a.out)
             i == Append(a.in, y)
  <2>7. f.t = "say" => i \in Seq(Incoming(req))
    BY <2>5, <2>6
  <2>8. k = CASE f.t = "say"   -> [a EXCEPT !.out = o, !.in = i]
               [] f.t = "state" -> [a EXCEPT !.out = o, !.heard = f.by]
               [] f.t = "pong"  -> [a EXCEPT !.out = o]
               [] f.t = "bye"   -> [a EXCEPT !.out = o, !.hub = FALSE]
    OBVIOUS
  <2> HIDE DEF i, y, k
  <2>9. o = Tail(a.out) /\ o \in Seq(Outgoing(req)) /\ f = Head(a.out)
    BY <2>6
  <2> HIDE DEF o, f, a
  <2>10. /\ k \in Links(req) /\ (k.hub => a.hub) /\ k.out = o
         /\ k.heard = IF f.t = "state" THEN f.by ELSE a.heard
    <3>1. CASE f.t = "say"
      BY <1>2, <2>7, <2>8, <2>9, <3>1 DEF Links
    <3>2. CASE f.t = "state"
      BY <1>2, <2>2, <2>8, <2>9, <3>2 DEF Links
    <3>3. CASE f.t = "pong"
      BY <1>2, <2>8, <2>9, <3>3 DEF Links
    <3>4. CASE f.t = "bye"
      BY <1>2, <2>8, <2>9, <3>4 DEF Links
    <3> QED
      BY <2>2, <3>1, <3>2, <3>3, <3>4
  <2>11. \A r \in Frame : Known(a, r) => Known(k, r)
    BY <2>1, <2>2, <2>9, <2>10, KnownWhenRead
  <2> QED
    BY <1>1, <2>4, <2>10, <2>11, LinkOnward DEF a
<1>4. CASE HubPings(g)
  <2> DEFINE k == [a EXCEPT !.pinged = TRUE, !.in = Append(@, [t |-> "ping"])]
  <2>1. links' = [links EXCEPT ![g] = k]
    BY <1>1, <1>4 DEF HubPings
  <2>2. [t |-> "ping"] \in Incoming(req)
    BY DEF Incoming
  <2>3. Append(a.in, [t |-> "ping"]) \in Seq(Incoming(req))
    BY <1>1, <2>2, LinkParts
  <2> HIDE DEF a
  <2>4. k \in Links(req) /\ k.hub = a.hub /\ k.out = a.out /\ k.heard = a.heard
    BY <1>2, <2>3 DEF Links
  <2> QED
    BY <1>1, <2>1, <2>4, EdgeOnward DEF a
<1>5. CASE HubSendsOdd(g)
  <2> DEFINE k == [a EXCEPT !.in = Append(@, [t |-> "odd"])]
  <2>1. links' = [links EXCEPT ![g] = k]
    BY <1>1, <1>5 DEF HubSendsOdd
  <2>2. [t |-> "odd"] \in Incoming(req)
    BY DEF Incoming
  <2>3. Append(a.in, [t |-> "odd"]) \in Seq(Incoming(req))
    BY <1>1, <2>2, LinkParts
  <2> HIDE DEF a
  <2>4. k \in Links(req) /\ k.hub = a.hub /\ k.out = a.out /\ k.heard = a.heard
    BY <1>2, <2>3 DEF Links
  <2> QED
    BY <1>1, <2>1, <2>4, EdgeOnward DEF a
<1>6. CASE HubCloses(g)
  <2> DEFINE k == [a EXCEPT !.hub = FALSE]
  <2>1. links' = [links EXCEPT ![g] = k] /\ a.hub
    BY <1>1, <1>6 DEF HubCloses
  <2> HIDE DEF a
  <2>2. k \in Links(req) /\ k.out = a.out /\ k.heard = a.heard
    BY <1>2 DEF Links
  <2> QED
    BY <1>1, <2>1, <2>2, EdgeOnward DEF a
<1> QED
  BY <1>3, <1>4, <1>5, <1>6 DEF Hub

\* The reader takes a frame from the connection it owns.
LEMMA TakenOnward ==
  ASSUME Inv, NEW t, Reads(t), links' = Taken
  PROVE  Onward
<1> DEFINE a == links[st.conn]
           k == [a EXCEPT !.in = Tail(@)]
<1>1. links \in Seq(Links(req)) /\ st.conn \in 1 .. Len(links) /\ a.in # << >>
  BY DEF Inv, Typed, Linked, Reads
<1>2. a \in Links(req) /\ Tail(a.in) \in Seq(Incoming(req)) /\ links' = [links EXCEPT ![st.conn] = k]
  BY <1>1, LinkParts, Taking DEF Taken
<1> HIDE DEF a
<1>3. k \in Links(req) /\ k.hub = a.hub /\ k.out = a.out /\ k.heard = a.heard
  BY <1>2 DEF Links
<1> QED
  BY <1>1, <1>2, <1>3, EdgeOnward DEF a

LEMMA ReadPingOnward ==
  ASSUME Inv, ReadPing
  PROVE  Onward
<1> DEFINE a == links[st.conn]
           f == [t |-> "pong"]
           k == [a EXCEPT !.in = Tail(@), !.out = Append(@, f)]
<1>1. links \in Seq(Links(req)) /\ st.conn \in 1 .. Len(links) /\ a.in # << >> /\ Reads("ping")
  BY DEF Inv, Typed, Linked, Reads, ReadPing
<1>2. CASE links' = Taken
  BY <1>1, <1>2, TakenOnward
<1>3. CASE links' = [Taken EXCEPT ![st.conn].out = Append(@, f)]
  <2>1. links' = [links EXCEPT ![st.conn] = k]
    BY <1>1, <1>3 DEF Taken
  <2>2. f \in Outgoing(req) /\ f.t # "state"
    BY DEF Outgoing
  <2> HIDE DEF f
  <2>3. a \in Links(req) /\ Tail(a.in) \in Seq(Incoming(req)) /\ a.out \in Seq(Outgoing(req))
    BY <1>1, LinkParts, Taking
  <2>4. Append(a.out, f) \in Seq(Outgoing(req))
    BY <2>2, <2>3
  <2> HIDE DEF a
  <2>5. k \in Links(req) /\ k.hub = a.hub /\ k.out = Append(a.out, f) /\ k.heard = a.heard
    BY <2>3, <2>4 DEF Links
  <2> HIDE DEF k
  <2>6. \A r \in Frame : Known(a, r) => Known(k, r)
    BY <2>2, <2>3, <2>5, KnownOverOthers
  <2> QED
    BY <1>1, <2>1, <2>5, <2>6, LinkOnward DEF a
<1> QED
  BY <1>2, <1>3 DEF ReadPing

\* What a step keeps that touches no report, no state that was reported and
\* goes on at the same place.
LEMMA RelayedKept ==
  ASSUME Inv, Relayed, Onward, Running' => Running,
         reader'.pc = reader.pc, reader'.held = reader.held, st'.last = st.last,
         \A r \in Hook : req'[r].pc = req[r].pc /\ req'[r].conn = req[r].conn
  PROVE  Relayed'
<1>1. SUFFICES ASSUME Running', Newest'.hub PROVE Relayed'
  BY DEF Relayed
<1>2. Running /\ Newest.hub /\ Len(links') = Len(links) /\ st.last \in Frame /\ NoFrame \in Frame
  BY <1>1 DEF Onward, Inv, Typed, Streams, Frame
<1>3. \A r : (Going(r)' <=> Going(r)) /\ (InWindow(r)' <=> InWindow(r))
  BY <1>2 DEF Going, InWindow
<1>4. \A f \in Frame : Known(Newest, f) => Known(Newest', f)
  BY DEF Onward
<1>5. Known(Newest, NoFrame) => Known(Newest', NoFrame)
  BY <1>2, <1>4
<1>6. Known(Newest, st.last) => Known(Newest', st.last')
  BY <1>2, <1>4
<1> QED
  BY <1>2, <1>3, <1>5, <1>6 DEF Relayed

\* Nothing is promised of a connection that is no longer read.
LEMMA RelayedElsewhere ==
  ASSUME reader'.pc \notin Rejoining \cup {"pump"}
  PROVE  Relayed'
BY DEF Relayed, Rejoining

LEMMA ReadOn ==
  ASSUME Inv, Relayed, ReadPing \/ ReadAnswer \/ ReadOdd
  PROVE  Relayed'
<1>1. CASE reader'.pc = "ended"
  BY <1>1, RelayedElsewhere DEF Rejoining
<1>2. CASE reader'.pc # "ended"
  <2>1. UNCHANGED <<st, reader, main>>
    BY <1>2 DEF ReadPing, ReadAnswer, ReadOdd, Inv, Typed, Readers
  <2>2. Onward
    BY ReadPingOnward, TakenOnward DEF ReadAnswer, ReadOdd
  <2>3. \A r \in Hook : req'[r].pc = req[r].pc /\ req'[r].conn = req[r].conn
    <3>1. CASE ReadAnswer
      <4>1. \A s \in DOMAIN st.pending : st.pending[s] \in Sayer
        BY DEF Inv, Typed, Streams
      <4>2. DOMAIN req = Request
        BY DEF Inv, Typed
      <4> QED
        BY <3>1, <4>1, <4>2, StreamAssumption DEF ReadAnswer, Request
    <3>2. CASE ReadPing \/ ReadOdd
      BY <3>2 DEF ReadPing, ReadOdd
    <3> QED
      BY <3>1, <3>2
  <2> QED
    BY <2>1, <2>2, <2>3, RelayedKept DEF Running
<1> QED
  BY <1>1, <1>2

\* The hub welcomes the stream: it knows of no state yet.
LEMMA WelcomedRelays ==
  ASSUME Inv, Welcomed
  PROVE  Relayed'
<1>1. links \in Seq(Links(req)) /\ Len(links) \in Nat /\ reader \in Readers
  BY DEF Inv, Typed
<1>2. Link \in Links(req)
  <2>1. NoFrame \in Frame
    BY DEF Frame
  <2> QED
    BY <2>1 DEF Link, Links
<1>3. links' = Append(links, Link) /\ reader'.pc = "adopt" /\ UNCHANGED req
  BY <1>1, ReaderMoves DEF Welcomed, Places
<1>4. Len(links') = Len(links) + 1 /\ links'[Len(links')] = Link
  BY <1>1, <1>2, <1>3
<1>5. Known(Link, NoFrame)
  BY DEF Known, Link, States
<1>6. \A r \in Hook : ~Going(r)'
  <2>1. \A r \in Hook : req[r].pc = "sending" => req[r].conn \in 1 .. Len(links)
    BY DEF Inv, Linked, Request
  <2> QED
    BY <1>1, <1>3, <1>4, <2>1 DEF Going
<1> QED
  BY <1>3, <1>4, <1>5, <1>6 DEF Relayed, Newest, Rejoining

LEMMA AdoptRelays ==
  ASSUME Inv, Relayed, Adopt
  PROVE  Relayed'
<1>1. st \in Streams /\ reader \in Readers /\ UNCHANGED <<links, req, main>> /\ reader.pc = "adopt"
  BY DEF Inv, Typed, Adopt
<1>2. st'.last = st.last /\ reader'.pc = "discard" /\ reader'.held = st.last
  BY <1>1 DEF Adopt, Streams, Readers
<1> QED
  BY <1>1, <1>2 DEF Relayed, Newest, Rejoining, Going, Running

LEMMA DiscardRelays ==
  ASSUME Inv, Relayed, Discard
  PROVE  Relayed'
<1>1. /\ links \in Seq(Links(req)) /\ reader \in Readers /\ Len(links) \in Nat \ {0}
      /\ st.conn = Len(links)
  BY DEF Inv, Typed, Linked, Discard
<1>2. /\ UNCHANGED <<st, req, main>> /\ reader.pc = "discard" /\ reader'.pc = "replay"
      /\ reader'.held = reader.held
  BY <1>1 DEF Discard, Readers
<1>3. Len(links') = Len(links) /\ links'[Len(links)] = links[Len(links)]
  <2> DEFINE g == st.conn - 1
  <2>1. links' = [links EXCEPT ![g].own = FALSE] /\ g # Len(links)
    BY <1>1 DEF Discard
  <2>2. CASE g \in 1 .. Len(links)
    <3> DEFINE k == [links[g] EXCEPT !.own = FALSE]
    <3>1. links' = [links EXCEPT ![g] = k]
      BY <2>1
    <3>2. links[g] \in Links(req)
      BY <1>1, <2>2, LinkParts
    <3>3. k \in Links(req)
      BY <3>2 DEF Links
    <3>4. Len(links) \in 1 .. Len(links) /\ g # Len(links)
      BY <1>1, <2>1
    <3> HIDE DEF k, g
    <3> QED
      BY <1>1, <2>2, <3>1, <3>3, <3>4, Relinked
  <2>3. CASE g \notin 1 .. Len(links)
    <3>1. DOMAIN links = 1 .. Len(links)
      BY <1>1
    <3>2. g \notin DOMAIN links /\ links = [i \in DOMAIN links |-> links[i]]
      BY <1>1, <2>3, <3>1
    <3>3. links' = [links EXCEPT ![g].own = FALSE]
      BY <2>1
    <3> HIDE DEF g
    <3>4. links' = links
      BY <3>2, <3>3
    <3> QED
      BY <3>4
  <2> QED
    BY <2>2, <2>3
<1> QED
  BY <1>2, <1>3 DEF Relayed, Newest, Rejoining, Going, InWindow, Running

\* The replay tells the hub the state that was cached when the connection was
\* adopted; one reported since is in the window.
LEMMA ReplayRelays ==
  ASSUME Inv, Relayed, Replay
  PROVE  Relayed'
<1>1. /\ links \in Seq(Links(req)) /\ reader \in Readers /\ st.conn = Len(links)
      /\ Len(links) \in 1 .. Len(links) /\ reader.held \in Frame
  BY DEF Inv, Typed, Linked, Replay, Readers
<1>2. UNCHANGED <<st, req, main>> /\ reader.pc = "replay"
  BY DEF Replay
<1>3. CASE ~Running \/ ~Newest.hub
  <2>1. CASE links' = links
    BY <1>2, <1>3, <2>1 DEF Relayed, Newest, Running
  <2>2. CASE links' # links
    BY <1>1, <1>2, <1>3, <2>2 DEF Replay, CanSend, Newest, Relayed, Running
  <2> QED
    BY <2>1, <2>2
<1>4. CASE Running /\ Newest.hub
  <2>1. CanSend(st.conn)
    BY <1>1, <1>4 DEF CanSend, Newest, Inv, Linked
  <2>2. reader'.pc = "golive"
    BY <1>1, <2>1 DEF Replay, Readers
  <2>3. /\ Known(Newest, NoFrame) /\ (reader.held = st.last \/ InWindow(st.last))
        /\ \A r \in Hook : ~Going(r)
    BY <1>2, <1>4 DEF Relayed, Rejoining
  <2>4. Len(links') = Len(links) /\ Known(Newest', reader.held)
    <3>1. CASE reader.held = NoFrame
      BY <2>3, <3>1, <1>4, <1>2 DEF Replay, Newest, Relayed
    <3>2. CASE reader.held # NoFrame
      <4> DEFINE a == links[st.conn]
                 f == [t |-> "state", by |-> reader.held]
                 k == [a EXCEPT !.out = Append(@, f)]
      <4>1. links' = [links EXCEPT ![st.conn] = k] /\ a \in Links(req)
        BY <1>1, <2>1, <3>2, LinkParts DEF Replay, Sent
      <4>2. f \in Outgoing(req)
        BY <1>1 DEF Outgoing
      <4> HIDE DEF a
      <4>3. a.out \in Seq(Outgoing(req)) /\ k.out = Append(a.out, f) /\ k \in Links(req)
        BY <4>1, <4>2 DEF Links
      <4> HIDE DEF k
      <4>4. Known(k, reader.held)
        BY <4>3, KnownWhenSent
      <4>5. Len(links') = Len(links) /\ links'[st.conn] = k
        BY <1>1, <4>1, <4>3, Relinked
      <4> QED
        BY <1>1, <4>4, <4>5 DEF Newest
    <3> QED
      BY <3>1, <3>2
  <2>5. Known(Newest', st.last') \/ InWindow(st.last)'
    BY <1>2, <2>3, <2>4 DEF InWindow
  <2>6. \A r \in Hook : ~Going(r)'
    BY <1>2, <2>3, <2>4 DEF Going
  <2> QED
    BY <2>2, <2>5, <2>6 DEF Relayed, Rejoining
<1> QED
  BY <1>3, <1>4

LEMMA GoLiveRelays ==
  ASSUME Inv, Relayed, GoLive
  PROVE  Relayed'
<1>1. st \in Streams /\ reader \in Readers /\ UNCHANGED <<links, req, main>> /\ reader.pc = "golive"
  BY DEF Inv, Typed, GoLive
<1>2. st'.last = st.last /\ reader'.pc = "pump"
  BY <1>1 DEF GoLive, Streams, Readers
<1> QED
  BY <1>1, <1>2 DEF Relayed, Newest, Rejoining, Going, InWindow, Running

LEMMA ReaderRelays ==
  ASSUME Inv, Relayed, Reader
  PROVE  Relayed'
<1>1. reader \in Readers
  BY DEF Inv, Typed
<1>2. CASE ReadEnd \/ PumpUnlive \/ PumpFails \/ CheckStop \/ Backoff \/ AttemptFails
           \/ (\E why \in {"refused", "budget"} : GivesUp(why))
           \/ Leave \/ LeaveUnlive \/ LeaveFails \/ LeaveEof
  <2>1. reader'.pc \in {"ended", "failing", "check", "leaving", "backoff", "connect", "unlive",
                        "failall", "eof", "dead"}
    BY <1>1, <1>2 DEF ReadEnd, PumpUnlive, PumpFails, AfterPump, CheckStop, Backoff, AttemptFails,
       GivesUp, Leave, LeaveUnlive, LeaveFails, LeaveEof, Readers
  <2> QED
    BY <2>1, RelayedElsewhere DEF Rejoining
<1> QED
  BY <1>2, ReadOn, WelcomedRelays, AdoptRelays, DiscardRelays, ReplayRelays, GoLiveRelays DEF Reader

LEMMA SayRelays ==
  ASSUME Inv, Relayed, NEW r \in Sayer, Say(r)
  PROVE  Relayed'
<1>1. links \in Seq(Links(req)) /\ st \in Streams /\ r \in Request
  BY DEF Inv, Typed, Request
<1>2. UNCHANGED <<reader, main>>
  BY DEF Say, SayRegisters, SaySends, SayGets, SayTimesOut, SayLeaves
<1>3. st'.last = st.last
  BY <1>1 DEF Say, SayRegisters, SaySends, SayGets, SayTimesOut, SayLeaves, Unregistered, Streams
<1>4. \A q \in Hook : req'[q] = req[q]
  <2>1. DOMAIN req = Request /\ r \notin Hook
    BY StreamAssumption DEF Inv, Typed
  <2> QED
    BY <2>1 DEF Say, SayRegisters, SaySends, SayGets, SayTimesOut, SayLeaves, Request
<1>5. Onward
  <2>1. CASE UNCHANGED links
    BY <2>1, SameOnward
  <2>2. CASE SaySends(r) /\ links' # links
    <3> DEFINE g == req[r].conn
               f == [t |-> "say", seq |-> req[r].seq, by |-> r]
    <3>1. req[r].pc = "sending" /\ links' = Sent(g, f)
      BY <2>2 DEF SaySends
    <3>2. g \in 1 .. Len(links)
      BY <1>1, <3>1 DEF Inv, Linked
    <3>3. req[r].seq \in DOMAIN st.pending /\ st.seq \in Nat /\ DOMAIN st.pending \subseteq 1 .. st.seq
      BY <1>1, <3>1 DEF Inv, Registered, Under, Streams
    <3>4. f \in Outgoing(req)
      <4>1. req[r].seq \in Nat \ {0}
        BY <3>3
      <4> QED
        BY <4>1 DEF Outgoing, Numbered
    <3> QED
      BY <3>1, <3>2, <3>4, SentOnward
  <2> QED
    BY <2>1, <2>2 DEF Say, SayRegisters, SayGets, SayTimesOut, SayLeaves
<1> QED
  BY <1>2, <1>3, <1>4, <1>5, RelayedKept DEF Running

\* The connection that is read is live.
Aired == reader.pc = "pump" => st.live

LEMMA AiredKept ==
  ASSUME Inv, Aired, [Next]_vars
  PROVE  Aired'
<1>1. st \in Streams /\ reader \in Readers
  BY DEF Inv, Typed
<1>2. CASE Reader
  <2>1. CASE GoLive
    BY <1>1, <2>1 DEF GoLive, Streams, Aired
  <2>2. CASE reader'.pc # "pump"
    BY <2>2 DEF Aired
  <2>3. CASE UNCHANGED <<st, reader>>
    BY <2>3 DEF Aired
  <2> QED
    BY <1>1, <1>2, <2>1, <2>2, <2>3
    DEF Reader, ReadPing, ReadAnswer, ReadOdd, ReadEnd, PumpUnlive, PumpFails, AfterPump, CheckStop,
        Backoff, Welcomed, AttemptFails, GivesUp, Adopt, Discard, Replay, Leave, LeaveUnlive,
        LeaveFails, LeaveEof, Readers
<1>3. CASE reader' = reader /\ st'.live = st.live
  BY <1>3 DEF Aired
<1>4. ASSUME NEW r \in Sayer, Say(r) PROVE reader' = reader /\ st'.live = st.live
  BY <1>1, <1>4 DEF Say, SayRegisters, SaySends, SayGets, SayTimesOut, SayLeaves, Unregistered, Streams
<1>5. ASSUME NEW r \in Hook, State(r) PROVE reader' = reader /\ st'.live = st.live
  BY <1>1, <1>5 DEF State, StateCached, StateSends, Streams
<1>6. CASE Main \/ Signal \/ UNCHANGED vars
  <2>1. reader' = reader /\ st'.live = st.live
    BY <1>1, <1>6 DEF Main, MainLeaves, MainSnaps, MainByes, MainJoins, Signal, vars, Streams
  <2> QED
    BY <1>3, <2>1
<1>7. ASSUME NEW g \in DOMAIN links, Hub(g) PROVE reader' = reader /\ st'.live = st.live
  BY <1>7 DEF Hub, HubReads, HubPings, HubSendsOdd, HubCloses
<1> QED
  BY <1>2, <1>3, <1>4, <1>5, <1>6, <1>7 DEF Next

\* A hook caches its state: it sends it on the connection in use if that is
\* live, and no other hook sends then; else it is in the window, or the state
\* is cached early enough for the replay.
LEMMA StateCachedRelays ==
  ASSUME Inv, Relayed, Aired, NEW r \in Hook, StateCached(r), Apart'
  PROVE  Relayed'
<1>1. st \in Streams /\ DOMAIN req = Request /\ req[r] \in Requests(r) /\ r \in Request
  BY RequestParts DEF Inv, Typed, Request
<1> DEFINE p == IF st.live THEN "sending" ELSE "cached"
<1>2. req' = [req EXCEPT ![r].pc = p, ![r].conn = st.conn] /\ UNCHANGED <<links, reader, main>>
  BY DEF StateCached
<1>3. st'.last = r
  BY <1>1 DEF StateCached, Streams
<1>4. req'[r].pc = p /\ req'[r].conn = st.conn /\ \A q \in Hook : q # r => req'[q] = req[q]
  BY <1>1, <1>2 DEF Requests, Request
<1>5. SUFFICES ASSUME Running', Newest'.hub PROVE Relayed'
  BY DEF Relayed
<1>6. Running /\ Newest.hub /\ Newest' = Newest
  BY <1>2, <1>5 DEF Running, Newest
<1>7. CASE st.live
  <2>1. reader.pc \in {"pump", "ended"}
    BY <1>7 DEF Inv, Supervised
  <2>2. CASE reader.pc = "pump"
    <3>1. st.conn = Len(links)
      BY <2>2 DEF Inv, Linked
    <3>2. Going(r)'
      BY <1>2, <1>4, <1>7, <3>1 DEF Going
    <3>3. \A q \in Hook : Going(q)' => q = r
      BY <3>2 DEF Going, Apart
    <3> QED
      BY <1>2, <1>3, <2>2, <3>2, <3>3 DEF Relayed, Rejoining
  <2>3. CASE reader.pc = "ended"
    BY <1>2, <2>3, RelayedElsewhere DEF Rejoining
  <2> QED
    BY <2>1, <2>2, <2>3
<1>8. CASE ~st.live
  <2>1. req'[r].pc = "cached"
    BY <1>4, <1>8
  <2>2. \A q \in Hook : Going(q)' => Going(q)
    <3> TAKE q \in Hook
    <3>1. CASE q = r
      BY <2>1, <3>1 DEF Going
    <3>2. CASE q # r
      BY <1>2, <1>4, <3>2 DEF Going
    <3> QED
      BY <3>1, <3>2
  <2>3. reader.pc # "pump"
    BY <1>8 DEF Aired
  <2>4. reader.pc \in {"discard", "replay", "golive"} => InWindow(st.last)'
    <3>1. reader.pc # "adopt" => st.conn = Len(links)
      BY DEF Inv, Linked
    <3> QED
      BY <1>2, <1>3, <1>4, <2>1, <3>1 DEF InWindow
  <2>5. reader.pc \in Rejoining => \A q \in Hook : ~Going(q)'
    BY <1>6, <2>2 DEF Relayed
  <2>6. reader.pc \in {"adopt", "discard", "replay"} => Known(Newest', NoFrame)
    BY <1>6 DEF Relayed
  <2> QED
    BY <1>2, <2>3, <2>4, <2>5, <2>6 DEF Relayed, InWindow
<1> QED
  BY <1>7, <1>8

\* The frame of a hook is the last one on its connection once it is sent.
LEMMA StateSendsRelays ==
  ASSUME Inv, Relayed, NEW r \in Hook, StateSends(r)
  PROVE  Relayed'
<1>1. /\ links \in Seq(Links(req)) /\ DOMAIN req = Request /\ r \in Request /\ r \in Frame
      /\ Len(links) \in 1 .. Len(links)
  BY DEF Inv, Typed, Request, Frame, Linked
<1> DEFINE g == req[r].conn
           f == [t |-> "state", by |-> r]
           a == links[g]
           k == [a EXCEPT !.out = Append(@, f)]
<1>2. /\ req[r].pc = "sending" /\ UNCHANGED <<st, reader, main>>
      /\ links' = IF CanSend(g) THEN [links EXCEPT ![g] = k] ELSE links
      /\ req' = [req EXCEPT ![r].pc = "done"]
  BY DEF StateSends, Sent
<1>3. g \in 1 .. Len(links)
  BY <1>1, <1>2 DEF Inv, Linked
<1>4. k \in Links(req) /\ a \in Links(req) /\ k.out = Append(a.out, f) /\ k.hub = a.hub
      /\ a.out \in Seq(Outgoing(req))
  <2>1. f \in Outgoing(req)
    BY <1>1 DEF Outgoing
  <2>2. a \in Links(req)
    BY <1>1, <1>3, LinkParts
  <2> DEFINE o == Append(a.out, f)
  <2>3. a.out \in Seq(Outgoing(req)) /\ o \in Seq(Outgoing(req))
    BY <1>1, <1>3, <2>1, LinkParts
  <2>4. k = [a EXCEPT !.out = o]
    OBVIOUS
  <2> HIDE DEF a, o, k
  <2>5. k \in Links(req) /\ k.out = o /\ k.hub = a.hub
    BY <2>2, <2>3, <2>4 DEF Links
  <2> QED
    BY <2>2, <2>3, <2>5 DEF o
<1>5. Known(k, r)
  BY <1>4, KnownWhenSent
<1>6. /\ Len(links') = Len(links)
      /\ links'[Len(links)] = IF CanSend(g) /\ g = Len(links) THEN k ELSE links[Len(links)]
  <2> HIDE DEF k
  <2>1. /\ Len([links EXCEPT ![g] = k]) = Len(links)
        /\ [links EXCEPT ![g] = k][Len(links)] = IF g = Len(links) THEN k ELSE links[Len(links)]
    BY <1>1, <1>3, <1>4, Relinked
  <2> QED
    BY <1>2, <2>1
<1>7. SUFFICES ASSUME Running', Newest'.hub PROVE Relayed'
  BY DEF Relayed
<1>8. Running /\ Newest.hub /\ Newest.own
  BY <1>2, <1>4, <1>6, <1>7 DEF Running, Newest, Inv, Linked
<1>9. req'[r].pc = "done" /\ \A q \in Hook : q # r => req'[q] = req[q]
  <2>1. req[r] \in Requests(r)
    BY <1>1 DEF Inv, Typed
  <2> QED
    BY <1>1, <1>2, <2>1 DEF Requests, Request
<1>10. \A q \in Hook : (Going(q)' => Going(q) /\ q # r) /\ (InWindow(q) => InWindow(q)')
  BY <1>2, <1>6, <1>9 DEF Going, InWindow
<1>11. CASE g # Len(links)
  <2>1. Newest' = Newest /\ ~Going(r)
    BY <1>6, <1>11 DEF Newest, Going
  <2>2. \A q \in Hook : Going(q) => Going(q)'
    BY <1>6, <1>9, <2>1 DEF Going
  <2>3. InWindow(st.last) => InWindow(st.last)'
    BY <1>2, <1>10 DEF InWindow
  <2>4. Going(st.last) => Going(st.last)'
    BY <1>2, <2>2 DEF Going
  <2> QED
    BY <1>2, <1>8, <1>10, <2>1, <2>3, <2>4 DEF Relayed, InWindow, Going
<1>12. CASE g = Len(links)
  <2>1. Newest' = k /\ Going(r)
    BY <1>2, <1>6, <1>8, <1>12 DEF Newest, CanSend, Going
  <2>2. reader.pc \notin Rejoining
    BY <1>8, <2>1 DEF Relayed
  <2>3. CASE reader.pc = "pump"
    <3>1. r = st.last
      BY <1>8, <2>1, <2>3 DEF Relayed
    <3> QED
      BY <1>2, <1>5, <1>8, <1>10, <2>1, <2>3, <3>1 DEF Relayed, Rejoining
  <2>4. CASE reader.pc # "pump"
    BY <1>2, <2>2, <2>4, RelayedElsewhere
  <2> QED
    BY <2>3, <2>4
<1> QED
  BY <1>11, <1>12

LEMMA MainRelays ==
  ASSUME Inv, Relayed, Main \/ Signal
  PROVE  Relayed'
<1>1. main \in Mains /\ st \in Streams /\ main.conn \in 1 .. Len(links)
  BY DEF Inv, Typed, Linked
<1>2. CASE ~Running'
  BY <1>2 DEF Relayed
<1>3. CASE Running'
  <2>1. UNCHANGED <<reader, req>> /\ st'.last = st.last
    BY <1>1 DEF Main, MainLeaves, MainSnaps, MainByes, MainJoins, Signal, Streams
  <2>2. Running
    BY DEF Main, MainLeaves, MainSnaps, MainByes, MainJoins, Signal, Running
  <2>3. ~Exits
    BY <1>1, <1>3 DEF Exits, Running, Mains
  <2>4. Onward
    <3> DEFINE f == [t |-> "bye"]
    <3>1. f \in Outgoing(req)
      BY DEF Outgoing
    <3>2. UNCHANGED links \/ links' = Sent(main.conn, f)
      BY <2>3 DEF Main, MainLeaves, MainSnaps, MainByes, MainJoins, Signal
    <3> QED
      BY <1>1, <3>1, <3>2, SameOnward, SentOnward
  <2> QED
    BY <2>1, <2>2, <2>4, RelayedKept
<1> QED
  BY <1>2, <1>3

LEMMA RelayedNext ==
  ASSUME Inv, Relayed, Aired, Apart', [Next]_vars
  PROVE  Relayed'
<1>1. ASSUME NEW r \in Hook, State(r) PROVE Relayed'
  BY <1>1, StateCachedRelays, StateSendsRelays DEF State
<1>2. ASSUME NEW g \in DOMAIN links, Hub(g) PROVE Relayed'
  <2>1. UNCHANGED <<st, reader, req, main>>
    BY <1>2 DEF Hub, HubReads, HubPings, HubSendsOdd, HubCloses
  <2>2. Onward
    BY <1>2, HubOnward
  <2> QED
    BY <2>1, <2>2, RelayedKept DEF Running
<1>3. CASE UNCHANGED vars
  <2>1. UNCHANGED <<links, st, reader, req, main>>
    BY <1>3 DEF vars
  <2> QED
    BY <2>1, SameOnward, RelayedKept DEF Running
<1> QED
  BY <1>1, <1>2, <1>3, ReaderRelays, SayRelays, MainRelays DEF Next

\* Once nothing is under way on a live connection the hub has last heard the
\* state last reported, or that was cached in the window of _adopt, for any
\* number of reports and of connections, as long as no two hooks send at a
\* time (_relay_state caches under the lock and sends outside of it).
THEOREM StateReachesHubApart == Spec /\ []Apart => []StateReachesHub
<1>1. Init => Relayed /\ Aired
  <2> SUFFICES ASSUME Init PROVE Relayed /\ Aired
    OBVIOUS
  <2>1. reader.pc = "pump" /\ st.live /\ st.last = NoFrame
    BY DEF Init
  <2>2. Newest = Link /\ Known(Link, NoFrame)
    BY DEF Init, Newest, Known, Link, States
  <2>3. \A r \in Hook : ~Going(r)
    BY DEF Init, Going, Request
  <2> QED
    BY <2>1, <2>2, <2>3 DEF Relayed, Rejoining, Aired
<1>2. Inv /\ Relayed /\ Aired /\ Apart' /\ [Next]_vars => Relayed' /\ Aired'
  BY RelayedNext, AiredKept
<1>3. Inv /\ Relayed => StateReachesHub
  <2> SUFFICES ASSUME Inv, Relayed, Running, st.live, reader.pc = "pump",
                      links[st.conn].hub, links[st.conn].out = << >>,
                      \A r \in Hook : req[r].pc # "sending"
               PROVE  \/ links[st.conn].heard = st.last
                      \/ req[st.last].pc = "cached" /\ req[st.last].conn = st.conn
    BY DEF StateReachesHub
  <2>1. st.conn = Len(links)
    BY DEF Inv, Linked
  <2>2. Known(Newest, st.last) \/ InWindow(st.last)
    BY <2>1 DEF Relayed, Newest, Going
  <2>3. States(Newest.out) = {}
    BY <2>1 DEF States, Newest
  <2> QED
    BY <2>1, <2>2, <2>3 DEF Known, InWindow, Newest
<1> QED
  BY StreamInvariance, <1>1, <1>2, <1>3, PTL DEF Spec
=============================================================================
