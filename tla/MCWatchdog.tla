----------------------------- MODULE MCWatchdog -----------------------------
(***************************************************************************)
(* A small instance of the watchdog: an agent a that reports its state, an *)
(* agent b that cannot report idle, and an observer o.                     *)
(***************************************************************************)
EXTENDS Watchdog

CONSTANTS a, b, o, d1, d2

Tell(n, to)    == [from |-> n, to |-> to, accepted |-> TRUE]
Refused(n, to) == [from |-> n, to |-> to, accepted |-> FALSE]
Is(n, state)   == [from |-> n, state |-> state, detail |-> NoDetail]
On(n, detail)  == [from |-> n, state |-> "blocked", detail |-> detail]

Talk  == {Tell(o, Everyone), Tell(o, a), Tell(a, b), Tell(a, o), Tell(b, o), Refused(b, o)}
Moods == {Is(a, "idle"), Is(b, "busy"), On(b, d1), On(b, d2)}
=============================================================================
