------------------------------- MODULE MCHub -------------------------------
(***************************************************************************)
(* Small instances of the hub.  Two agents a and b and an observer o; each *)
(* has a connection of its own, and a and o a second one (a restarted      *)
(* spoke, or somebody else who wants the name).                            *)
(***************************************************************************)
EXTENDS HubFloor

CONSTANTS a, b, o, ca, ca2, cb, co, co2

Agent(c, n)    == [conn |-> c, name |-> n, kind |-> "agent", capable |-> TRUE]
Incapable(c, n) == [conn |-> c, name |-> n, kind |-> "agent", capable |-> FALSE]
Seat(c, n)     == [conn |-> c, name |-> n, kind |-> "observer", capable |-> FALSE]
Tell(to)       == [to |-> to, done |-> FALSE, private |-> FALSE]
Whisper(to)    == [to |-> to, done |-> FALSE, private |-> TRUE]
Done(to)       == [to |-> to, done |-> TRUE, private |-> FALSE]
Cmd(cmd)       == [cmd |-> cmd, n |-> 0]

None == {}

\* Floor control: nobody comes or goes, an observer commands.
FloorHellos == {Agent(ca, a), Incapable(cb, b), Seat(co, o)}
FloorSays   == {Tell(Everyone), Done(a)}
FloorCmds   == {Cmd("freeze"), [cmd |-> "resume", n |-> 1], Cmd("reset"),
                Cmd("mute"), Cmd("goal")}

\* Open and private says, a crash, and late joiners.
MailHellos == {Agent(ca2, a), Agent(ca, b), Seat(co, o)}
MailSays   == {Tell(a), Whisper(a), Tell(Everyone)}

\* Two agents that finish, leave and come back, and an observer that wants the
\* name of one of them, with what waits for it.
ChurnHellos == {Agent(ca, a), Seat(ca2, a), Agent(cb, b)}
ChurnSays   == {Done(b), Done(a)}

\* Agents that cannot report idle, one of which comes and goes.
LiveHellos == {Agent(ca, a), Incapable(cb, b)}
LiveSays   == {Tell(b)}
=============================================================================
