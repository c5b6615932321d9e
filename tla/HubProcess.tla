----------------------------- MODULE HubProcess -----------------------------
(***************************************************************************)
(* The process of a hub and what it leaves on disk: serve() of             *)
(* core/server.py with spoke/home.py and core/transcript.py.               *)
(*                                                                         *)
(* Several processes may be started, on one home or on different ones,     *)
(* told to stop, or killed at any step.  They meet at the files of a home  *)
(* (lock, socket, goal, transcript) and at ~/.moot/current, which all      *)
(* homes share.  Every system call on a shared file is a step of its own;  *)
(* what the process does between two of them nobody else can see.          *)
(*                                                                         *)
(* Of the hub only its id counter is here.  Module Hub starts from the     *)
(* tail of the transcript that this module shows a new hub will read.      *)
(*                                                                         *)
(* A definition whose name starts with Slip is a mistake one could make in *)
(* the definition that follows it; nothing uses it.                        *)
(***************************************************************************)
EXTENDS Integers, FiniteSets, SequencesExt

CONSTANTS
  Proc,            \* processes that can run at one time
  Home,            \* state directories
  Talk,            \* the homes on which something is said, or fails
  NoProc, NoHome,
  Stale,           \* a socket file that nobody listens on
  Blank            \* a rendezvous file that holds no path, or not one path
CONSTANTS MaxDay, MaxId, MaxFaults   \* bounds of the model, in the guards

ASSUME NameAssumption ==
  NoProc \notin Proc /\ Stale \notin Proc /\ NoHome \notin Home /\ Blank \notin Home
ASSUME BoundAssumption == MaxDay \in Nat /\ MaxId \in Nat /\ MaxFaults \in Nat

VARIABLES
  disk,     \* per home: lock (who holds the flock), socket (whose), goal, log
  current,  \* ~/.moot/current
  day,      \* the wall clock
  proc,     \* per process: pc, home, counter (of its hub), saw (of current)
  past      \* per home: what was accepted (day and id), and appends that failed

vars == <<disk, current, day, proc, past>>

(***************************************************************************)
(* One file of the transcript per day.  msgs are the ids of its msg        *)
(* records that can be parsed; other records matter only by the line they  *)
(* take.  tail is what follows the last newline: nothing, the first part   *)
(* of a record (0), or a whole msg record (its id) without its newline.    *)
(***************************************************************************)
File == [msgs |-> << >>, tail |-> << >>]

\* A record written after such a tail shares its line, and neither is read.
Appended(file, ids) ==
  IF file.tail = << >> THEN [file EXCEPT !.msgs = @ \o ids]
  ELSE [file EXCEPT !.tail = << >>]

\* A write that stops part-way, or does not begin.
Torn(file, ids) ==
  {file} \cup IF file.tail # << >> THEN {}
              ELSE {[file EXCEPT !.tail = <<t>>] : t \in {0} \cup ToSet(ids)}

Readable(file) == file.msgs \o IF file.tail = <<0>> THEN << >> ELSE file.tail

\* recent_msgs: yesterday's file, then today's.
SlipRecentMsgs(log, d) == Readable(log[d])
RecentMsgs(log, d) ==
  (IF d = 0 THEN << >> ELSE Readable(log[d - 1])) \o Readable(log[d])

Largest(ids) == IF ids = << >> THEN 0 ELSE Max(ToSet(ids))

-----------------------------------------------------------------------------
Off == [pc |-> "off", home |-> NoHome, counter |-> 0, saw |-> NoHome]

At(p, pc)   == proc[p].pc = pc
Goto(p, pc) == proc' = [proc EXCEPT ![p].pc = pc]
HomeOf(p)   == proc[p].home
Mine(p)     == disk[HomeOf(p)]

Write(h, ids)  == [disk EXCEPT ![h].log[day] = Appended(@, ids)]
Unlocked(d, p) == [h \in Home |-> IF d[h].lock = p THEN [d[h] EXCEPT !.lock = NoProc]
                                  ELSE d[h]]
\* A lock that is a file, and not held by the process.
SlipGone(d, p) == [h \in Home |->
  IF d[h].socket = p THEN [d[h] EXCEPT !.socket = Stale] ELSE d[h]]
\* A process that is gone holds no lock and listens nowhere.
Gone(d, p) == [h \in Home |->
  IF d[h].socket = p THEN [Unlocked(d, p)[h] EXCEPT !.socket = Stale]
  ELSE Unlocked(d, p)[h]]

Exit(p, d) ==
  /\ disk' = Gone(d, p)
  /\ proc' = [proc EXCEPT ![p] = Off]

Faulty(h) == h \in Talk /\ past[h].faults < MaxFaults
Fault(h)  == past' = [past EXCEPT ![h].faults = @ + 1]

\* An append that raises, with or without a part of the record in the file.
AppendFails(h, ids) ==
  /\ Faulty(h) /\ Fault(h)
  /\ \E file \in Torn(disk[h].log[day], ids) : disk' = [disk EXCEPT ![h].log[day] = file]

-----------------------------------------------------------------------------
(* Starting.                                                               *)

Start(p, h) ==
  /\ At(p, "off")
  /\ proc' = [proc EXCEPT ![p] = [Off EXCEPT !.pc = "locking", !.home = h]]
  /\ UNCHANGED <<disk, current, day, past>>

SlipMayLock(p) == TRUE
MayLock(p) == Mine(p).lock = NoProc

AcquireLock(p) ==
  /\ At(p, "locking")
  /\ IF MayLock(p)
     THEN Goto(p, "loading") /\ disk' = [disk EXCEPT ![HomeOf(p)].lock = p]
     ELSE Exit(p, disk)
  /\ UNCHANGED <<current, day, past>>

\* new_hub: the id counter goes on from the records of two days.
Load(p) ==
  /\ At(p, "loading")
  /\ proc' = [proc EXCEPT ![p].pc = "recording",
                          ![p].counter = Largest(RecentMsgs(Mine(p).log, day))]
  /\ UNCHANGED <<disk, current, day, past>>

\* An error here leaves serve() and with it the process.
SlipRecordStart(p) ==
  /\ At(p, "recording") /\ Goto(p, "unbinding")
  /\ UNCHANGED <<disk, current, day, past>>

RecordStart(p) ==
  /\ At(p, "recording")
  /\ \/ /\ disk' = Write(HomeOf(p), << >>) /\ Goto(p, "unbinding")
        /\ UNCHANGED past
     \/ /\ Faulty(HomeOf(p)) /\ Fault(HomeOf(p))
        /\ \E file \in Torn(Mine(p).log[day], << >>) :
             Exit(p, [disk EXCEPT ![HomeOf(p)].log[day] = file])
  /\ UNCHANGED <<current, day>>

\* listen: whatever socket is left there is unlinked, and a new one bound.
Unbind(p) ==
  /\ At(p, "unbinding")
  /\ Goto(p, "binding")
  /\ disk' = [disk EXCEPT ![HomeOf(p)].socket = NoProc]
  /\ UNCHANGED <<current, day, past>>

Bind(p) ==
  /\ At(p, "binding")
  /\ \/ Goto(p, "pointing") /\ disk' = [disk EXCEPT ![HomeOf(p)].socket = p]
     \/ Exit(p, disk)                               \* an OSError
  /\ UNCHANGED <<current, day, past>>

\* write_current truncates the file and then writes its home into it.
Truncate(p) ==
  /\ At(p, "pointing")
  /\ Goto(p, "writing") /\ current' = Blank
  /\ UNCHANGED <<disk, day, past>>

\* The longer of two paths written at once shows behind the shorter.
WriteCurrent(p) ==
  /\ At(p, "writing")
  /\ Goto(p, "serving")
  /\ current' \in {HomeOf(p)} \cup IF current \in Home THEN {Blank} ELSE {}
  /\ UNCHANGED <<disk, day, past>>

-----------------------------------------------------------------------------
(* Serving.                                                                *)

\* A say takes an id and is accepted once its record is written.  If it is
\* not, the id is gone and the connection with it; the hub goes on.
Say(p) ==
  LET h == HomeOf(p)
      n == proc[p].counter + 1
  IN  /\ At(p, "serving") /\ h \in Talk /\ n <= MaxId
      /\ proc' = [proc EXCEPT ![p].counter = n]
      /\ \/ /\ disk' = Write(h, <<n>>)
            /\ past' = [past EXCEPT ![h].said = @ \cup {<<day, n>>}]
         \/ AppendFails(h, <<n>>)
      /\ UNCHANGED <<current, day>>

\* A deliver record, for which a note of the hub's own takes an id first.
Deliver(p) ==
  /\ At(p, "serving") /\ HomeOf(p) \in Talk
  /\ \E n \in {proc[p].counter, proc[p].counter + 1} :
       /\ n <= MaxId
       /\ proc' = [proc EXCEPT ![p].counter = n]
  /\ \/ disk' = Write(HomeOf(p), << >>) /\ UNCHANGED past
     \/ AppendFails(HomeOf(p), << >>)
  /\ UNCHANGED <<current, day>>

\* write_goal: the copy that moot brief reads.
SetGoal(p) ==
  /\ At(p, "serving") /\ HomeOf(p) \in Talk
  /\ disk' = [disk EXCEPT ![HomeOf(p)].goal = TRUE]
  /\ UNCHANGED <<current, day, proc, past>>

-----------------------------------------------------------------------------
(* Stopping: SIGTERM and Ctrl-C run the same teardown.                     *)

\* The listener is closed, which on some versions removes its file.
Stop(p) ==
  /\ At(p, "serving")
  /\ Goto(p, "unlinking")
  /\ \E left \in {Stale, NoProc} : disk' = [disk EXCEPT ![HomeOf(p)].socket = left]
  /\ UNCHANGED <<current, day, past>>

UnlinkSocket(p) ==
  /\ At(p, "unlinking")
  /\ Goto(p, "looking") /\ disk' = [disk EXCEPT ![HomeOf(p)].socket = NoProc]
  /\ UNCHANGED <<current, day, past>>

\* clear_current: is there one, ...
LookCurrent(p) ==
  /\ At(p, "looking")
  /\ Goto(p, IF current = NoHome THEN "forgetting" ELSE "reading")
  /\ UNCHANGED <<disk, current, day, past>>

\* ... what does it say (if it has gone meanwhile, the error ends the
\* process with the rest of the teardown undone), ...
SlipPointsHere(p) == TRUE
PointsHere(p) == current = HomeOf(p)

ReadCurrent(p) ==
  /\ At(p, "reading")
  /\ IF current = NoHome THEN Exit(p, disk)
     ELSE /\ proc' = [proc EXCEPT ![p].saw = current,
                        ![p].pc = IF PointsHere(p) THEN "clearing" ELSE "forgetting"]
          /\ UNCHANGED disk
  /\ UNCHANGED <<current, day, past>>

\* ... and away with it, whatever it says by now.
ClearCurrent(p) ==
  /\ At(p, "clearing")
  /\ IF current = NoHome THEN Exit(p, disk) ELSE Goto(p, "forgetting") /\ UNCHANGED disk
  /\ current' = NoHome
  /\ UNCHANGED <<day, past>>

ClearGoal(p) ==
  /\ At(p, "forgetting")
  /\ proc' = [proc EXCEPT ![p].pc = "ending", ![p].saw = NoHome]
  /\ disk' = [disk EXCEPT ![HomeOf(p)].goal = FALSE]
  /\ UNCHANGED <<current, day, past>>

\* session_end is recorded last but one, and the lock is given up.
RecordEnd(p) ==
  /\ At(p, "ending")
  /\ \/ Exit(p, Write(HomeOf(p), << >>)) /\ UNCHANGED past
     \/ /\ Faulty(HomeOf(p)) /\ Fault(HomeOf(p))
        /\ \E file \in Torn(Mine(p).log[day], << >>) :
             Exit(p, [disk EXCEPT ![HomeOf(p)].log[day] = file])
  /\ UNCHANGED <<current, day>>

-----------------------------------------------------------------------------
\* SIGKILL, at any step; a record that is just being written may be torn.
Kill(p) ==
  LET h == HomeOf(p)
      n == proc[p].counter + 1
      under == IF At(p, "serving") /\ h \in Talk /\ n <= MaxId THEN <<n>> ELSE << >>
  IN  /\ ~At(p, "off")
      /\ \/ Exit(p, disk)
         \/ /\ proc[p].pc \in {"recording", "serving", "ending"} /\ h \in Talk
            /\ \E file \in Torn(Mine(p).log[day], under) :
                 Exit(p, [disk EXCEPT ![h].log[day] = file])
      /\ UNCHANGED <<current, day, past>>

Midnight ==
  /\ day < MaxDay
  /\ day' = day + 1
  /\ UNCHANGED <<disk, current, proc, past>>

Init ==
  /\ disk = [h \in Home |-> [lock |-> NoProc, socket |-> NoProc, goal |-> FALSE,
                             log |-> [d \in 0 .. MaxDay |-> File]]]
  /\ current = NoHome
  /\ day = 0
  /\ proc = [p \in Proc |-> Off]
  /\ past = [h \in Home |-> [said |-> {}, faults |-> 0]]

Startup(p)  == \/ AcquireLock(p) \/ Load(p) \/ RecordStart(p) \/ Unbind(p) \/ Bind(p)
               \/ Truncate(p) \/ WriteCurrent(p)
Serve(p)    == Say(p) \/ Deliver(p) \/ SetGoal(p)
Teardown(p) == \/ UnlinkSocket(p) \/ LookCurrent(p) \/ ReadCurrent(p)
               \/ ClearCurrent(p) \/ ClearGoal(p) \/ RecordEnd(p)

Next ==
  \/ \E p \in Proc : \/ \E h \in Home : Start(p, h)
                     \/ Startup(p) \/ Serve(p) \/ Stop(p) \/ Teardown(p) \/ Kill(p)
  \/ Midnight

Spec == Init /\ [][Next]_vars

-----------------------------------------------------------------------------
(* Properties.                                                             *)

Steps == {"off", "locking", "loading", "recording", "unbinding", "binding",
          "pointing", "writing", "serving", "unlinking", "looking", "reading",
          "clearing", "forgetting", "ending"}

\* The files and the processes are typed, and only a process at work holds a
\* lock or a socket.
ProcessTypeOK ==
  /\ day \in 0 .. MaxDay /\ current \in Home \cup {NoHome, Blank}
  /\ \A p \in Proc : /\ proc[p].pc \in Steps /\ proc[p].counter \in 0 .. MaxId
                     /\ proc[p] = Off \/ HomeOf(p) \in Home
  /\ \A h \in Home :
       /\ disk[h].lock \in {NoProc} \cup {p \in Proc : HomeOf(p) = h}
       /\ disk[h].socket \in {NoProc, Stale} \cup {p \in Proc : HomeOf(p) = h}
       /\ disk[h].goal \in BOOLEAN
       /\ \A d \in 0 .. MaxDay : ToSet(Readable(disk[h].log[d])) \subseteq 1 .. MaxId

\* docs/OPERATIONS.md, "Stop" and "hub.lock": from its bind to its stop a hub
\* listens on the socket of its home, and a hub that has cleaned up leaves no
\* socket, no pointer and no goal behind: neither the teardown of an earlier
\* hub nor the start of a later one gets in between (the lock goes last).
HomeIsItsOwn ==
  \A p \in Proc :
    /\ proc[p].pc \in {"pointing", "writing", "serving"} => Mine(p).socket = p
    /\ proc[p].pc \in {"forgetting", "ending"} =>
         Mine(p).socket = NoProc /\ current # HomeOf(p)
    /\ At(p, "ending") => ~Mine(p).goal

\* docs/OPERATIONS.md, "The rendezvous file": the pointer to a hub that serves
\* is touched by a hub of another home only, one that starts and takes it over
\* or one that stops and has found its own home in the file.
RendezvousKept ==
  [][\A p \in Proc : (At(p, "serving") /\ current = HomeOf(p)) =>
       \/ current' = current \/ ~At(p, "serving")'
       \/ \E q \in Proc : /\ HomeOf(q) # HomeOf(p)
                          /\ \/ proc[q].pc \in {"pointing", "writing"}
                             \/ (At(q, "clearing") /\ proc[q].saw = HomeOf(q))]_vars

\* docs/OPERATIONS.md, "Transcripts": ids are unique within a day across
\* restarts.  The records a reader finds ascend within a day and from one day
\* to the next, whatever was killed, torn or glued.
IdsAscend ==
  \A h \in Home, d \in 0 .. day :
    LET today     == Readable(disk[h].log[d])
        yesterday == IF d = 0 THEN << >> ELSE Readable(disk[h].log[d - 1])
        both      == yesterday \o today
    IN  \A i, j \in DOMAIN both : i < j => both[i] < both[j]

\* docs/ARCHITECTURE.md, "Transcript": the transcript is the only reliable
\* history.  An accepted say can be read back, but for one at most per append
\* that failed: what a kill leaves torn takes no say with it, because the next
\* process writes its session record first.
LossFollowsFault ==
  \A h \in Home :
    Cardinality({x \in past[h].said : x[2] \notin ToSet(Readable(disk[h].log[x[1]]))})
      <= past[h].faults
\* What an append leaves in the transcript (core/transcript.py) can be read
\* back, in order, over days, faults and restarts.
HistoryKept == ProcessTypeOK /\ IdsAscend /\ LossFollowsFault

=============================================================================
