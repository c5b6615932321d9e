------------------------------ MODULE HubFloor ------------------------------
(***************************************************************************)
(* The hub implements the floor of module Floor.  The seat of a name is    *)
(* its registration: empty for an observer, waiting for an idle agent that *)
(* can be reached, away for one that is dead or cannot be reached.  The    *)
(* queue holds the wakes, the context buffer the asides, and what either   *)
(* has evicted is lost.                                                    *)
(***************************************************************************)
EXTENDS HubProps

SeatOf(h, n) ==
  LET p == h.reg[n]
  IN  IF p.where = "none" \/ p.kind = "observer"
      THEN [mode |-> "empty", wakes |-> {}, asides |-> {}, lost |-> 0]
      ELSE [mode   |-> IF p.where = "dead" \/ ~Reachable(h, n) THEN "away"
                       ELSE IF p.state = "idle" THEN "waiting" ELSE "engaged",
            wakes  |-> Ids(p.queue),
            asides |-> Ids(p.context),
            lost   |-> p.dropped + p.evicted]

TheFloor == INSTANCE Floor WITH last   <- hub.counter,
                                closed <- hub.frozen,
                                seat   <- [n \in Name |-> SeatOf(hub, n)]

\* docs/PROTOCOL.md, "Floor control": whatever frames, failures and timers do,
\* each step of the hub is one step of the floor, or none: an agent is handed
\* what waits for it oldest first, in its turn, with the losses told; others
\* cannot reach it while it works; a closed floor opens only on command.
KeepsTheFloor == TheFloor!Spec
=============================================================================
