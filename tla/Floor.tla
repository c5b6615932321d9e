-------------------------------- MODULE Floor --------------------------------
(***************************************************************************)
(* What the hub is for, without connections, buffers, slices, timers or    *)
(* rounds: a floor on which agents take turns.                             *)
(*                                                                         *)
(* An agent has a seat.  Messages are numbered as they are said; those     *)
(* that concern an agent wait at its seat, as wakes (it is asked) or       *)
(* asides (it overhears), until they are handed to it, oldest first and    *)
(* only when it is its turn: nothing another participant does reaches an   *)
(* agent that is engaged.  What a seat cannot hold is counted, and the     *)
(* count is settled by the next handing over.  A closed floor hears no     *)
(* agent until it is opened again.  A crash clears the seats.              *)
(*                                                                         *)
(* Module HubFloor states that the hub implements this specification.      *)
(***************************************************************************)
EXTENDS Naturals, FiniteSets

CONSTANT Name      \* who may take a seat

VARIABLES last,    \* the number of the last message
          closed,  \* whether agents are refused
          seat     \* per name: mode, wakes, asides, lost

vars == <<last, closed, seat>>

Mode == {"empty",      \* nobody's
         "away",       \* kept for an agent that cannot be reached
         "waiting",    \* its agent is idle
         "engaged"}    \* its agent is at work

Empty == [mode |-> "empty", wakes |-> {}, asides |-> {}, lost |-> 0]

Seat == [mode : Mode, wakes : SUBSET Nat, asides : SUBSET Nat, lost : Nat]

Held(s)     == s.wakes \cup s.asides
Older(A, B) == \A i \in A, j \in B : i < j

\* No agent that waits has been asked something.
Rested(s) == s.mode = "waiting" => s.wakes = {}

FloorTypeOK ==
  /\ last \in Nat /\ closed \in BOOLEAN /\ seat \in [Name -> Seat]
  /\ \A n \in Name : Rested(seat[n]) /\ \A i \in Held(seat[n]) : i <= last

-----------------------------------------------------------------------------
(* How one seat may change, from s to t.                                   *)

\* The agent comes, goes, rests or begins; nothing moves.
Moves(s, t) ==
  /\ s.mode # "empty" /\ t.mode # "empty" /\ Rested(t)
  /\ t = [s EXCEPT !.mode = t.mode]

\* Of what waits and what is new, the oldest part is handed over, perhaps to
\* somebody whose connection gives way, and what was lost is told.
Hands(s, t, new) ==
  /\ s.mode # "empty" /\ t.mode \in {"engaged", "away"}
  /\ t.wakes \subseteq s.wakes \cup new /\ t.asides \subseteq s.asides \cup new
  /\ Older((Held(s) \cup new) \ Held(t), Held(t))
  /\ t.lost = 0

\* A newcomer, who may be briefed on what was said before.
Arrives(s, t) ==
  /\ s.mode = "empty" /\ t.mode # "empty" /\ Rested(t)
  /\ \A i \in Held(t) : i <= last

Forgotten(s, t) == s.mode # "empty" /\ t = Empty

\* Something is put down at the seat; a full seat loses its oldest and says so.
Keeps(s, t, new) ==
  /\ t.mode = s.mode /\ t.mode # "empty" /\ Rested(t)
  /\ t.wakes \subseteq s.wakes \cup new /\ t.asides \subseteq s.asides \cup new
  /\ new \subseteq Held(t)
  /\ Older(s.wakes \ t.wakes, t.wakes) /\ Older(s.asides \ t.asides, t.asides)
  /\ t.lost >= s.lost + Cardinality(Held(s) \ Held(t))

\* A message of somebody else reaches an agent that waits, is kept for it, or
\* does not concern it.
Hears(s, t, id) ==
  \/ t = s
  \/ s.mode = "waiting" /\ Hands(s, t, {id})
  \/ Keeps(s, t, {id})

Turn(s, t) ==
  \/ t = s
  \/ Moves(s, t)
  \/ Hands(s, t, {})
  \/ Arrives(s, t)
  \/ Forgotten(s, t)

-----------------------------------------------------------------------------
(* The steps of the floor.  It may close at any of them.                   *)

StaysClosed == closed => closed'

\* One participant comes, goes, reports, or is taken to be idle.
TakeTurn(n) ==
  /\ Turn(seat[n], seat'[n])
  /\ \A q \in Name \ {n} : seat'[q] = seat[q]
  /\ last' = last /\ StaysClosed

\* An agent says something, or somebody who has no seat does.
Say(n) ==
  /\ closed => seat[n].mode = "empty"
  /\ last' = last + 1
  /\ Turn(seat[n], seat'[n])
  /\ \A q \in Name \ {n} : Hears(seat[q], seat'[q], last')
  /\ StaysClosed

\* The hub has a note for every agent, numbered one by one.
Announce ==
  LET there == {n \in Name : seat[n].mode # "empty"}
  IN  /\ last' \in last .. last + Cardinality(there)
      /\ \A n \in Name :
           \E id \in last + 1 .. last' \cup {0} :
              IF id = 0 THEN seat'[n] = seat[n]
              ELSE Hears(seat[n], seat'[n], id)
      /\ StaysClosed

\* A line without a number is put down at every seat.
Remark ==
  /\ \A n \in Name : seat'[n] = seat[n] \/ Keeps(seat[n], seat'[n], {})
  /\ last' = last /\ StaysClosed

Open ==
  /\ closed' = FALSE
  /\ UNCHANGED <<last, seat>>

Crash ==
  /\ last' <= last
  /\ closed' = FALSE
  /\ seat' = [n \in Name |-> Empty]

Init == last = 0 /\ closed = FALSE /\ seat = [n \in Name |-> Empty]

Next ==
  \/ \E n \in Name : TakeTurn(n) \/ Say(n)
  \/ Announce \/ Remark \/ Open \/ Crash

Spec == Init /\ [][Next]_vars
=============================================================================
