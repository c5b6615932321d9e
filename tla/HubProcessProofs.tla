-------------------------- MODULE HubProcessProofs --------------------------
(***************************************************************************)
(* The files of a home and the process that owns them, for any number of   *)
(* processes, homes, days, ids and faults.                                 *)
(*                                                                         *)
(* Everything rests on the lock: a process that has it is alone at the     *)
(* files of its home (Alone).  Floor says what the owner has done to the   *)
(* socket, the pointer and the goal by the step it is at.  History adds    *)
(* what it has done to the transcript: its counter is ahead of all that a  *)
(* reader finds of two days, and from its session record on, a tail it     *)
(* left itself is accounted for by a fault.                                *)
(*                                                                         *)
(* The gate of an agent's says (module SayGate), which shares no state     *)
(* with the process, has its theorems in the last part.                    *)
(***************************************************************************)
EXTENDS HubProcess, SayGate, FiniteSetTheorems, SequenceTheorems, WellFoundedInduction, TLAPS

Ids   == 1 .. MaxId
Days  == 0 .. MaxDay
Files == [msgs : Seq(Ids), tail : {<< >>} \cup {<<t>> : t \in 0 .. MaxId}]
Logs  == [Days -> Files]
States == [pc : Steps, home : Home \cup {NoHome}, counter : 0 .. MaxId,
           saw : Home \cup {NoHome, Blank}]
Pasts  == [said : SUBSET (Days \X Ids), faults : Nat]
HomeFiles == [lock : Proc \cup {NoProc}, socket : Proc \cup {NoProc, Stale},
              goal : BOOLEAN, log : Logs]

Typed ==
  /\ day \in Days /\ current \in Home \cup {NoHome, Blank}
  /\ disk \in [Home -> HomeFiles]
  /\ proc \in [Proc -> States]
  /\ past \in [Home -> Pasts]

\* The steps at which a process has the lock, those at which it has read the
\* transcript, and those between its session record and its stop.
Working  == Steps \ {"off", "locking"}
Counting == Working \ {"loading"}
Open     == {"unbinding", "binding", "pointing", "writing", "serving"}

\* A process that is off is nowhere, and what it holds is its home's.
Placed ==
  /\ \A p \in Proc : IF At(p, "off") THEN proc[p] = Off ELSE HomeOf(p) \in Home
  /\ \A h \in Home :
       /\ disk[h].lock \in Proc => HomeOf(disk[h].lock) = h
       /\ disk[h].socket \in Proc => HomeOf(disk[h].socket) = h

Locked == \A p \in Proc : proc[p].pc \in Working => Mine(p).lock = p

\* What the owner of a home has made of its socket, by its step.
Listens == \A p \in Proc :
  /\ proc[p].pc \in {"pointing", "writing", "serving"} => Mine(p).socket = p
  /\ proc[p].pc \in {"looking", "reading", "clearing", "forgetting", "ending"} =>
       Mine(p).socket = NoProc

\* ... and of the pointer and the goal.
Parted == \A p \in Proc :
  /\ At(p, "clearing") => proc[p].saw = HomeOf(p)
  /\ proc[p].pc \in {"forgetting", "ending"} => current # HomeOf(p)
  /\ At(p, "ending") => ~Mine(p).goal

Floor == Typed /\ Placed /\ Locked /\ Listens /\ Parted

\* What a reader finds in a file, and the order it finds it in.
Known(f)   == ToSet(Readable(f))
Rising(s)  == \A i, j \in DOMAIN s : i < j => s[i] < s[j]
Ascends(f) == Rising(Readable(f))

\* A log in which ids ascend, from one day to the next too; d is its last day.
InOrder(log, d) ==
  /\ \A e \in Days : Ascends(log[e])
  /\ \A e \in Days : e > 0 => \A x \in Known(log[e - 1]), y \in Known(log[e]) : x < y
  /\ \A e \in Days : e > d => log[e] = File

\* Nothing that a reader finds from the day before d on is above n.
UpTo(log, d, n) == \A e \in Days : e >= d - 1 => \A x \in Known(log[e]) : x <= n

\* The owner of a home that has read its log is ahead of what is in it.
Ahead == \A p \in Proc :
  proc[p].pc \in Counting => UpTo(Mine(p).log, day, proc[p].counter)

\* The says that were accepted and are not in the file of their day (a tail is
\* no say: it may be overwritten).
Lost(said, log) == {x \in said : x[2] \notin ToSet(log[x[1]].msgs)}

\* From its session record on, a tail in the owner's file is its own, and the
\* fault that left it there has not cost a say yet.
Accounted ==
  /\ \A h \in Home : Cardinality(Lost(past[h].said, disk[h].log)) <= past[h].faults
  /\ \A p \in Proc : proc[p].pc \in Open /\ Mine(p).log[day].tail # << >> =>
       Cardinality(Lost(past[HomeOf(p)].said, Mine(p).log)) < past[HomeOf(p)].faults

History == (\A h \in Home : InOrder(disk[h].log, day)) /\ Ahead /\ Accounted

-----------------------------------------------------------------------------

\* Two processes that have the lock of one home are one.
LEMMA Alone ==
  ASSUME Locked, NEW p \in Proc, NEW q \in Proc, HomeOf(p) = HomeOf(q),
         proc[p].pc \in Working, proc[q].pc \in Working
  PROVE  p = q
BY DEF Locked, Mine

LEMMA OffState == Off \in States
<1>1. 0 \in 0 .. MaxId /\ "off" \in Steps
  BY BoundAssumption DEF Steps
<1> QED
  BY <1>1 DEF Off, States

LEMMA InitFloor == Init => Floor
<1> SUFFICES ASSUME Init PROVE Floor
  OBVIOUS
<1> USE DEF Init
<1>1. File \in Files
  BY DEF File, Files
<1>2. Typed
  <2>1. 0 \in Days
    BY BoundAssumption DEF Days
  <2>2. [d \in Days |-> File] \in Logs
    BY <1>1 DEF Logs
  <2>3. disk \in [Home -> HomeFiles] /\ past \in [Home -> Pasts]
    BY <2>2 DEF HomeFiles, Pasts, Days
  <2> QED
    BY <2>1, <2>3, OffState DEF Typed
<1>3. \A p \in Proc : proc[p] = Off /\ Off.pc = "off"
  BY DEF Off
<1>4. Placed
  BY <1>3, NameAssumption DEF Placed, At, HomeOf
<1>5. Locked /\ Listens /\ Parted
  BY <1>3 DEF Locked, Listens, Parted, At, Working, Steps
<1> QED
  BY <1>2, <1>4, <1>5 DEF Floor

\* What a process that is gone leaves of a home.
LEMMA GoneFields ==
  ASSUME NEW p \in Proc, NEW h \in Home, NEW d,
         d[h] \in HomeFiles
  PROVE  Gone(d, p)[h] =
           [lock |-> IF d[h].lock = p THEN NoProc ELSE d[h].lock,
            socket |-> IF d[h].socket = p THEN Stale ELSE d[h].socket,
            goal |-> d[h].goal, log |-> d[h].log]
BY DEF Gone, Unlocked, HomeFiles

\* A process that ends, having at most written to a file of its home.
LEMMA ExitFloor ==
  ASSUME Floor, NEW p \in Proc, NEW d,
         d \in [Home -> HomeFiles],
         \A h \in Home : /\ d[h].lock = disk[h].lock /\ d[h].socket = disk[h].socket
                         /\ d[h].goal = disk[h].goal,
         Exit(p, d), UNCHANGED day, current' \in {current, NoHome},
         past' \in [Home -> Pasts]
  PROVE  Floor'
<1>1. \A h \in Home : /\ disk'[h] \in HomeFiles
                      /\ disk'[h].lock = IF disk[h].lock = p THEN NoProc ELSE disk[h].lock
                      /\ disk'[h].socket = IF disk[h].socket = p THEN Stale ELSE disk[h].socket
                      /\ disk'[h].goal = disk[h].goal
  <2> SUFFICES ASSUME NEW h \in Home
               PROVE  /\ Gone(d, p)[h] \in HomeFiles
                      /\ Gone(d, p)[h].lock = IF d[h].lock = p THEN NoProc ELSE d[h].lock
                      /\ Gone(d, p)[h].socket = IF d[h].socket = p THEN Stale ELSE d[h].socket
                      /\ Gone(d, p)[h].goal = d[h].goal
    BY DEF Exit
  <2>1. d[h] \in HomeFiles
    OBVIOUS
  <2>2. Gone(d, p)[h] =
           [lock |-> IF d[h].lock = p THEN NoProc ELSE d[h].lock,
            socket |-> IF d[h].socket = p THEN Stale ELSE d[h].socket,
            goal |-> d[h].goal, log |-> d[h].log]
    BY <2>1, GoneFields
  <2> QED
    BY <2>1, <2>2 DEF HomeFiles
<1>2. disk' \in [Home -> HomeFiles]
  BY <1>1 DEF Exit, Gone
<1>3. /\ proc'[p] = Off /\ Off.pc = "off"
      /\ \A q \in Proc : q # p => proc'[q] = proc[q]
  BY DEF Exit, Floor, Typed, Off
<1>4. Typed'
  <2>1. proc' \in [Proc -> States]
    BY OffState DEF Exit, Floor, Typed
  <2> QED
    BY <1>2, <2>1 DEF Floor, Typed
<1>5. Placed'
  BY <1>1, <1>3, NameAssumption DEF Floor, Placed, At, HomeOf, Off
<1>6. Locked'
  BY <1>1, <1>3 DEF Floor, Placed, Locked, At, HomeOf, Mine, Working
<1>7. Listens'
  BY <1>1, <1>3, NameAssumption DEF Floor, Placed, Listens, At, HomeOf, Mine
<1>8. Parted'
  BY <1>1, <1>3, NameAssumption DEF Floor, Placed, Parted, At, HomeOf, Mine
<1> QED
  BY <1>4, <1>5, <1>6, <1>7, <1>8 DEF Floor

-----------------------------------------------------------------------------
(* A process at work, on the files that are its own.                       *)

\* A step of the owner of a home that leaves it on the floor.
LEMMA OwnFloor ==
  ASSUME Floor, NEW p \in Proc, proc[p].pc \in Working,
         NEW m \in HomeFiles, disk' = [disk EXCEPT ![HomeOf(p)] = m],
         m.lock = Mine(p).lock, m.socket \in {p, Stale, NoProc, Mine(p).socket},
         NEW r \in States, proc' = [proc EXCEPT ![p] = r],
         r.home = HomeOf(p), r.pc \in Working,
         UNCHANGED day, past' \in [Home -> Pasts],
         current' \in {current, HomeOf(p), NoHome, Blank},
         r.pc \in {"pointing", "writing", "serving"} => m.socket = p,
         r.pc \in {"looking", "reading", "clearing", "forgetting", "ending"} =>
           m.socket = NoProc,
         r.pc = "clearing" => r.saw = HomeOf(p),
         r.pc \in {"forgetting", "ending"} => current' # HomeOf(p),
         r.pc = "ending" => ~m.goal
  PROVE  Floor'
<1> DEFINE o == HomeOf(p)
<1>1. o \in Home /\ r.pc # "off"
  BY DEF Floor, Placed, At, Working
<1>2. disk'[o] = m /\ \A h \in Home : h # o => disk'[h] = disk[h]
  BY <1>1 DEF Floor, Typed
<1>3. proc'[p] = r /\ \A q \in Proc : q # p => proc'[q] = proc[q]
  BY DEF Floor, Typed
<1>4. Typed'
  BY <1>1, <1>2, <1>3 DEF Floor, Typed
<1>5. Placed'
  <2>1. m.lock = disk[o].lock /\ m.socket \in {p, Stale, NoProc, disk[o].socket}
    BY DEF Mine
  <2>2. \A q \in Proc : IF At(q, "off")' THEN proc'[q] = Off ELSE HomeOf(q)' \in Home
    BY <1>1, <1>3 DEF Floor, Placed, At, HomeOf
  <2>3. \A h \in Home, q \in Proc :
          /\ disk'[h].lock = q => disk[h].lock = q
          /\ disk'[h].socket = q => disk[h].socket = q \/ (q = p /\ h = o)
    BY <1>1, <1>2, <2>1, NameAssumption
  <2>4. \A q \in Proc : proc'[q].home = HomeOf(q)
    BY <1>3 DEF HomeOf
  <2>5. \A h \in Home, q \in Proc :
          /\ disk'[h].lock = q => proc'[q].home = h
          /\ disk'[h].socket = q => proc'[q].home = h
    BY <2>3, <2>4 DEF Floor, Placed
  <2> QED
    BY <2>2, <2>5 DEF Placed, HomeOf
<1>6. \A q \in Proc : q # p /\ proc[q].pc \in Working => HomeOf(q) # o
  BY Alone DEF Floor
<1>7. \A q \in Proc : proc'[q].home = HomeOf(q)
  BY <1>3 DEF HomeOf
<1>8. Locked'
  BY <1>1, <1>2, <1>3, <1>6, <1>7 DEF Floor, Placed, At, Locked, Mine, HomeOf, Working
<1>9. Listens'
  BY <1>1, <1>2, <1>3, <1>6, <1>7 DEF Floor, Placed, At, Listens, Mine, HomeOf, Working, Steps
<1>10. Parted'
  <2> SUFFICES ASSUME NEW q \in Proc
               PROVE  /\ proc'[q].pc = "clearing" => proc'[q].saw = proc'[q].home
                      /\ proc'[q].pc \in {"forgetting", "ending"} => current' # proc'[q].home
                      /\ proc'[q].pc = "ending" => ~disk'[proc'[q].home].goal
    BY DEF Parted, At, HomeOf, Mine
  <2>1. CASE q = p
    BY <1>2, <1>3, <2>1
  <2>2. CASE q # p
    <3>1. proc'[q] = proc[q] /\ (proc[q].pc # "off" => HomeOf(q) \in Home)
      BY <1>3, <2>2 DEF Floor, Placed, At
    <3>2. proc[q].pc \in {"forgetting", "ending"} => HomeOf(q) # o
      BY <1>6, <2>2 DEF Working, Steps
    <3> QED
      BY <1>2, <3>1, <3>2, NameAssumption DEF Floor, Parted, At, HomeOf, Mine
  <2> QED
    BY <2>1, <2>2
<1> QED
  BY <1>4, <1>5, <1>8, <1>9, <1>10 DEF Floor

LEMMA StartFloor ==
  ASSUME Floor, NEW p \in Proc, NEW h \in Home, Start(p, h)
  PROVE  Floor'
<1> DEFINE r == [Off EXCEPT !.pc = "locking", !.home = h]
<1>1. proc' = [proc EXCEPT ![p] = r]
      /\ At(p, "off") /\ UNCHANGED <<disk, current, day, past>>
  BY DEF Start
<1>2. proc'[p] = r /\ \A q \in Proc : q # p => proc'[q] = proc[q]
  BY <1>1 DEF Floor, Typed
<1>3. r.pc = "locking" /\ r.home = h /\ r \in States
  <2>1. Off \in States /\ "locking" \in Steps
    BY OffState DEF Steps
  <2> QED
    BY <2>1 DEF States
<1> HIDE DEF r
<1>4. Typed'
  BY <1>1, <1>3 DEF Floor, Typed
<1>5. HomeOf(p) = NoHome
  BY <1>1 DEF Floor, Placed, HomeOf, Off
<1>6. Placed'
  BY <1>1, <1>2, <1>3, <1>5, NameAssumption DEF Floor, Placed, At, HomeOf
<1>7. Locked' /\ Listens' /\ Parted'
  BY <1>1, <1>2, <1>3 DEF Floor, Locked, Listens, Parted, At, Working, HomeOf, Mine
<1> QED
  BY <1>4, <1>6, <1>7 DEF Floor

LEMMA AcquireFloor ==
  ASSUME Floor, NEW p \in Proc, AcquireLock(p), MayLock(p)
  PROVE  Floor'
<1>1. /\ At(p, "locking") /\ HomeOf(p) \in Home /\ Mine(p).lock = NoProc
      /\ proc' = [proc EXCEPT ![p].pc = "loading"]
      /\ disk' = [disk EXCEPT ![HomeOf(p)].lock = p] /\ UNCHANGED <<current, day, past>>
  BY DEF Floor, Placed, AcquireLock, MayLock, Goto, At
<1>2. /\ proc'[p] = [proc[p] EXCEPT !.pc = "loading"]
      /\ \A q \in Proc : q # p => proc'[q] = proc[q]
      /\ \A q \in Proc : proc'[q].home = proc[q].home /\ proc'[q].saw = proc[q].saw
  BY <1>1 DEF Floor, Typed, States
<1>3. \A h \in Home :
        /\ disk'[h].lock = IF h = HomeOf(p) THEN p ELSE disk[h].lock
        /\ disk'[h].socket = disk[h].socket /\ disk'[h].goal = disk[h].goal
  BY <1>1 DEF Floor, Typed, HomeFiles
<1>4. Typed'
  BY <1>1, SMTT(30) DEF Floor, Typed, States, HomeFiles, Steps
<1>5. Placed'
  BY <1>1, <1>2, <1>3 DEF Floor, Placed, At, HomeOf, Typed, States
<1>6. Locked'
  <2>1. \A q \in Proc : q # p /\ proc[q].pc \in Working => HomeOf(q) # HomeOf(p)
    BY <1>1, NameAssumption DEF Floor, Locked, Mine
  <2> QED
    BY <1>1, <1>2, <1>3, <2>1 DEF Floor, Placed, Locked, At, HomeOf, Mine, Working
<1>7. Listens' /\ Parted'
  BY <1>1, <1>2, <1>3 DEF Floor, Placed, Listens, Parted, At, HomeOf, Mine, Typed, States
<1> QED
  BY <1>4, <1>5, <1>6, <1>7 DEF Floor

\* What the owner's step has to say for OwnFloor, with what is at hand there.
LEMMA OwnerTyped ==
  ASSUME Floor, NEW p \in Proc, proc[p].pc \in Working
  PROVE  /\ HomeOf(p) \in Home /\ Mine(p) \in HomeFiles /\ Mine(p).lock = p
         /\ proc[p] \in States /\ proc[p].home = HomeOf(p)
         /\ disk = [disk EXCEPT ![HomeOf(p)] = Mine(p)]
         /\ past \in [Home -> Pasts]
<1>1. HomeOf(p) \in Home
  BY DEF Floor, Placed, At, Working
<1> QED
  BY <1>1 DEF Floor, Typed, Locked, Mine, HomeOf

LEMMA UnbindFloor == ASSUME Floor, NEW p \in Proc, Unbind(p) PROVE Floor'
<1> DEFINE m == [Mine(p) EXCEPT !.socket = NoProc]
           r == [proc[p] EXCEPT !.pc = "binding"]
<1>1. /\ proc[p].pc \in Working /\ proc[p].pc = "unbinding"
      /\ "binding" \in Working /\ "binding" \in Steps
  BY DEF Unbind, At, Working, Steps
<1>2. m \in HomeFiles /\ m.lock = Mine(p).lock /\ m.socket = NoProc
  BY <1>1, OwnerTyped DEF HomeFiles
<1>3. r \in States /\ r.home = HomeOf(p) /\ r.pc = "binding"
  BY <1>1, OwnerTyped DEF States
<1>4. /\ disk' = [disk EXCEPT ![HomeOf(p)] = m] /\ proc' = [proc EXCEPT ![p] = r]
      /\ UNCHANGED <<day, past>> /\ past \in [Home -> Pasts]
  BY <1>1, OwnerTyped DEF Unbind, Goto, Mine
<1>5. UNCHANGED current
  BY DEF Unbind
<1> HIDE DEF m, r
<1> QED
  BY <1>1, <1>2, <1>3, <1>4, <1>5, OwnFloor

LEMMA BindFloor == ASSUME Floor, NEW p \in Proc, Bind(p), ~Exit(p, disk) PROVE Floor'
<1> DEFINE m == [Mine(p) EXCEPT !.socket = p]
           r == [proc[p] EXCEPT !.pc = "pointing"]
<1>1. /\ proc[p].pc \in Working /\ proc[p].pc = "binding"
      /\ "pointing" \in Working /\ "pointing" \in Steps
  BY DEF Bind, At, Working, Steps
<1>2. m \in HomeFiles /\ m.lock = Mine(p).lock /\ m.socket = p
  BY <1>1, OwnerTyped DEF HomeFiles
<1>3. r \in States /\ r.home = HomeOf(p) /\ r.pc = "pointing"
  BY <1>1, OwnerTyped DEF States
<1>4. /\ disk' = [disk EXCEPT ![HomeOf(p)] = m] /\ proc' = [proc EXCEPT ![p] = r]
      /\ UNCHANGED <<day, past>> /\ past \in [Home -> Pasts]
  BY <1>1, OwnerTyped DEF Bind, Goto, Mine
<1>5. UNCHANGED current
  BY DEF Bind
<1> HIDE DEF m, r
<1> QED
  BY <1>1, <1>2, <1>3, <1>4, <1>5, OwnFloor

LEMMA TruncateFloor == ASSUME Floor, NEW p \in Proc, Truncate(p) PROVE Floor'
<1> DEFINE m == Mine(p)
           r == [proc[p] EXCEPT !.pc = "writing"]
<1>1. /\ proc[p].pc \in Working /\ proc[p].pc = "pointing"
      /\ "writing" \in Working /\ "writing" \in Steps
  BY DEF Truncate, At, Working, Steps
<1>2. m \in HomeFiles /\ m.lock = Mine(p).lock /\ m.socket = p
  BY <1>1, OwnerTyped DEF Floor, Listens
<1>3. r \in States /\ r.home = HomeOf(p) /\ r.pc = "writing"
  BY <1>1, OwnerTyped DEF States
<1>4. /\ disk' = [disk EXCEPT ![HomeOf(p)] = m] /\ proc' = [proc EXCEPT ![p] = r]
      /\ UNCHANGED <<day, past>> /\ past \in [Home -> Pasts]
  BY <1>1, OwnerTyped DEF Truncate, Goto, Mine
<1>5. current' = Blank
  BY DEF Truncate
<1> HIDE DEF m, r
<1> QED
  BY <1>1, <1>2, <1>3, <1>4, <1>5, OwnFloor

LEMMA WriteCurrentFloor == ASSUME Floor, NEW p \in Proc, WriteCurrent(p) PROVE Floor'
<1> DEFINE m == Mine(p)
           r == [proc[p] EXCEPT !.pc = "serving"]
<1>1. /\ proc[p].pc \in Working /\ proc[p].pc = "writing"
      /\ "serving" \in Working /\ "serving" \in Steps
  BY DEF WriteCurrent, At, Working, Steps
<1>2. m \in HomeFiles /\ m.lock = Mine(p).lock /\ m.socket = p
  BY <1>1, OwnerTyped DEF Floor, Listens
<1>3. r \in States /\ r.home = HomeOf(p) /\ r.pc = "serving"
  BY <1>1, OwnerTyped DEF States
<1>4. /\ disk' = [disk EXCEPT ![HomeOf(p)] = m] /\ proc' = [proc EXCEPT ![p] = r]
      /\ UNCHANGED <<day, past>> /\ past \in [Home -> Pasts]
  BY <1>1, OwnerTyped DEF WriteCurrent, Goto, Mine
<1>5. current' \in {HomeOf(p), Blank}
  BY DEF WriteCurrent
<1> HIDE DEF m, r
<1> QED
  BY <1>1, <1>2, <1>3, <1>4, <1>5, OwnFloor

LEMMA StopFloor == ASSUME Floor, NEW p \in Proc, Stop(p) PROVE Floor'
<1>0. PICK left \in {Stale, NoProc} : disk' = [disk EXCEPT ![HomeOf(p)].socket = left]
  BY DEF Stop
<1> DEFINE m == [Mine(p) EXCEPT !.socket = left]
           r == [proc[p] EXCEPT !.pc = "unlinking"]
<1>1. /\ proc[p].pc \in Working /\ proc[p].pc = "serving"
      /\ "unlinking" \in Working /\ "unlinking" \in Steps
  BY DEF Stop, At, Working, Steps
<1>2. m \in HomeFiles /\ m.lock = Mine(p).lock /\ m.socket = left
  BY <1>1, OwnerTyped DEF HomeFiles
<1>3. r \in States /\ r.home = HomeOf(p) /\ r.pc = "unlinking"
  BY <1>1, OwnerTyped DEF States
<1>4. /\ disk' = [disk EXCEPT ![HomeOf(p)] = m] /\ proc' = [proc EXCEPT ![p] = r]
      /\ UNCHANGED <<day, past>> /\ past \in [Home -> Pasts]
  BY <1>0, <1>1, OwnerTyped DEF Stop, Goto, Mine
<1>5. UNCHANGED current
  BY DEF Stop
<1> HIDE DEF m, r
<1> QED
  BY <1>1, <1>2, <1>3, <1>4, <1>5, OwnFloor

LEMMA UnlinkFloor == ASSUME Floor, NEW p \in Proc, UnlinkSocket(p) PROVE Floor'
<1> DEFINE m == [Mine(p) EXCEPT !.socket = NoProc]
           r == [proc[p] EXCEPT !.pc = "looking"]
<1>1. /\ proc[p].pc \in Working /\ proc[p].pc = "unlinking"
      /\ "looking" \in Working /\ "looking" \in Steps
  BY DEF UnlinkSocket, At, Working, Steps
<1>2. m \in HomeFiles /\ m.lock = Mine(p).lock /\ m.socket = NoProc
  BY <1>1, OwnerTyped DEF HomeFiles
<1>3. r \in States /\ r.home = HomeOf(p) /\ r.pc = "looking"
  BY <1>1, OwnerTyped DEF States
<1>4. /\ disk' = [disk EXCEPT ![HomeOf(p)] = m] /\ proc' = [proc EXCEPT ![p] = r]
      /\ UNCHANGED <<day, past>> /\ past \in [Home -> Pasts]
  BY <1>1, OwnerTyped DEF UnlinkSocket, Goto, Mine
<1>5. UNCHANGED current
  BY DEF UnlinkSocket
<1> HIDE DEF m, r
<1> QED
  BY <1>1, <1>2, <1>3, <1>4, <1>5, OwnFloor

LEMMA SetGoalFloor == ASSUME Floor, NEW p \in Proc, SetGoal(p) PROVE Floor'
<1> DEFINE m == [Mine(p) EXCEPT !.goal = TRUE]
           r == proc[p]
<1>1. /\ proc[p].pc \in Working /\ proc[p].pc = "serving"
      /\ "serving" \in Working /\ "serving" \in Steps
  BY DEF SetGoal, At, Working, Steps
<1>2. m \in HomeFiles /\ m.lock = Mine(p).lock /\ m.socket = p
  <2>1. Mine(p) \in HomeFiles /\ Mine(p).socket = p
    BY <1>1, OwnerTyped DEF Floor, Listens
  <2> QED
    BY <2>1 DEF HomeFiles
<1>3. r \in States /\ r.home = HomeOf(p) /\ r.pc = "serving"
  BY <1>1, OwnerTyped DEF States
<1>4. /\ disk' = [disk EXCEPT ![HomeOf(p)] = m] /\ proc' = [proc EXCEPT ![p] = r]
      /\ UNCHANGED <<day, past>> /\ past \in [Home -> Pasts]
  <2>1. UNCHANGED proc /\ proc = [proc EXCEPT ![p] = proc[p]]
    BY DEF SetGoal, Floor, Typed
  <2>2. disk' = [disk EXCEPT ![HomeOf(p)] = m]
    BY DEF SetGoal, Mine
  <2> QED
    BY <1>1, <2>1, <2>2, OwnerTyped DEF SetGoal
<1>5. UNCHANGED current
  BY DEF SetGoal
<1> HIDE DEF m, r
<1> QED
  BY <1>1, <1>2, <1>3, <1>4, <1>5, OwnFloor

LEMMA LookFloor == ASSUME Floor, NEW p \in Proc, LookCurrent(p) PROVE Floor'
<1> DEFINE r == [proc[p] EXCEPT !.pc = IF current = NoHome THEN "forgetting" ELSE "reading"]
<1>1. /\ proc[p].pc \in Working /\ proc[p].pc = "looking"
      /\ {"forgetting", "reading"} \subseteq Working /\ {"forgetting", "reading"} \subseteq Steps
  BY DEF LookCurrent, At, Working, Steps
<1>2. Mine(p) \in HomeFiles /\ Mine(p).socket = NoProc
  BY <1>1, OwnerTyped DEF Floor, Listens
<1>3. r \in States /\ r.home = HomeOf(p) /\ r.pc \in {"forgetting", "reading"}
  BY <1>1, OwnerTyped DEF States, Floor, Typed
<1>4. /\ UNCHANGED current
      /\ r.pc = "forgetting" => current # HomeOf(p)
  BY <1>1, OwnerTyped, NameAssumption DEF LookCurrent, States
<1>5. /\ disk' = [disk EXCEPT ![HomeOf(p)] = Mine(p)] /\ proc' = [proc EXCEPT ![p] = r]
      /\ UNCHANGED <<day, past>> /\ past \in [Home -> Pasts]
  BY <1>1, OwnerTyped DEF LookCurrent, Goto
<1> HIDE DEF r
<1> QED
  BY <1>1, <1>2, <1>3, <1>4, <1>5, OwnFloor

LEMMA ReadFloor == ASSUME Floor, NEW p \in Proc, ReadCurrent(p), current # NoHome PROVE Floor'
<1> DEFINE r0 == [proc[p] EXCEPT !.saw = current]
           r == [r0 EXCEPT !.pc = IF PointsHere(p) THEN "clearing" ELSE "forgetting"]
<1>1. /\ proc[p].pc \in Working /\ proc[p].pc = "reading"
      /\ {"clearing", "forgetting"} \subseteq Working /\ {"clearing", "forgetting"} \subseteq Steps
  BY DEF ReadCurrent, At, Working, Steps
<1>2. Mine(p) \in HomeFiles /\ Mine(p).socket = NoProc
  BY <1>1, OwnerTyped DEF Floor, Listens
<1>3. r \in States /\ r.home = HomeOf(p) /\ r.pc \in {"clearing", "forgetting"}
  <2>1. r0 \in States /\ r0.home = HomeOf(p)
    BY <1>1, OwnerTyped DEF States, Floor, Typed
  <2> HIDE DEF r0
  <2> QED
    BY <1>1, <2>1 DEF States
<1>4. /\ UNCHANGED current
      /\ r.pc = "clearing" => r.saw = HomeOf(p)
      /\ r.pc = "forgetting" => current # HomeOf(p)
  BY <1>1, OwnerTyped DEF ReadCurrent, States, PointsHere
<1>5. /\ disk' = [disk EXCEPT ![HomeOf(p)] = Mine(p)] /\ proc' = [proc EXCEPT ![p] = r]
      /\ UNCHANGED <<day, past>> /\ past \in [Home -> Pasts]
  BY <1>1, OwnerTyped DEF ReadCurrent
<1> HIDE DEF r
<1> QED
  BY <1>1, <1>2, <1>3, <1>4, <1>5, OwnFloor

LEMMA ClearFloor == ASSUME Floor, NEW p \in Proc, ClearCurrent(p), current # NoHome PROVE Floor'
<1> DEFINE r == [proc[p] EXCEPT !.pc = "forgetting"]
<1>1. /\ proc[p].pc \in Working /\ proc[p].pc = "clearing"
      /\ {"forgetting"} \subseteq Working /\ {"forgetting"} \subseteq Steps
  BY DEF ClearCurrent, At, Working, Steps
<1>2. Mine(p) \in HomeFiles /\ Mine(p).socket = NoProc
  BY <1>1, OwnerTyped DEF Floor, Listens
<1>3. r \in States /\ r.home = HomeOf(p) /\ r.pc \in {"forgetting"}
  BY <1>1, OwnerTyped DEF States, Floor, Typed
<1>4. current' = NoHome /\ NoHome # HomeOf(p)
  BY <1>1, OwnerTyped, NameAssumption DEF ClearCurrent
<1>5. /\ disk' = [disk EXCEPT ![HomeOf(p)] = Mine(p)] /\ proc' = [proc EXCEPT ![p] = r]
      /\ UNCHANGED <<day, past>> /\ past \in [Home -> Pasts]
  BY <1>1, OwnerTyped DEF ClearCurrent, Goto
<1> HIDE DEF r
<1> QED
  BY <1>1, <1>2, <1>3, <1>4, <1>5, OwnFloor

LEMMA ClearGoalFloor == ASSUME Floor, NEW p \in Proc, ClearGoal(p) PROVE Floor'
<1> DEFINE m == [Mine(p) EXCEPT !.goal = FALSE]
           r0 == [proc[p] EXCEPT !.pc = "ending"]
           r == [r0 EXCEPT !.saw = NoHome]
<1>1. /\ proc[p].pc \in Working /\ proc[p].pc = "forgetting"
      /\ "ending" \in Working /\ "ending" \in Steps
  BY DEF ClearGoal, At, Working, Steps
<1>2. m \in HomeFiles /\ m.lock = Mine(p).lock /\ m.socket = NoProc /\ ~m.goal
  <2>1. Mine(p) \in HomeFiles /\ Mine(p).socket = NoProc
    BY <1>1, OwnerTyped DEF Floor, Listens
  <2> QED
    BY <2>1 DEF HomeFiles
<1>3. r \in States /\ r.home = HomeOf(p) /\ r.pc = "ending"
  <2>1. r0 \in States /\ r0.home = HomeOf(p) /\ r0.pc = "ending"
    BY <1>1, OwnerTyped DEF States
  <2> HIDE DEF r0
  <2> QED
    BY <2>1 DEF States
<1>4. /\ disk' = [disk EXCEPT ![HomeOf(p)] = m] /\ proc' = [proc EXCEPT ![p] = r]
      /\ UNCHANGED <<day, past>> /\ past \in [Home -> Pasts]
  BY <1>1, OwnerTyped DEF ClearGoal, Goto, Mine
<1>5. UNCHANGED current /\ current # HomeOf(p)
  BY <1>1 DEF ClearGoal, Floor, Parted
<1> HIDE DEF m, r
<1> QED
  BY <1>1, <1>2, <1>3, <1>4, <1>5, OwnFloor

LEMMA LoadFloor == ASSUME Floor, NEW p \in Proc, Load(p),
         Largest(RecentMsgs(Mine(p).log, day)) \in 0 .. MaxId PROVE Floor'
<1> DEFINE m == Mine(p)
           r0 == [proc[p] EXCEPT !.pc = "recording"]
           r == [r0 EXCEPT !.counter = Largest(RecentMsgs(Mine(p).log, day))]
<1>1. /\ proc[p].pc \in Working /\ proc[p].pc = "loading"
      /\ "recording" \in Working /\ "recording" \in Steps
  BY DEF Load, At, Working, Steps
<1>2. m \in HomeFiles /\ m.lock = Mine(p).lock /\ m = Mine(p)
  BY <1>1, OwnerTyped
<1>3. r \in States /\ r.home = HomeOf(p) /\ r.pc = "recording"
  <2>1. r0 \in States /\ r0.home = HomeOf(p) /\ r0.pc = "recording"
    BY <1>1, OwnerTyped DEF States
  <2> HIDE DEF r0
  <2> QED
    BY <2>1 DEF States
<1>4. /\ disk' = [disk EXCEPT ![HomeOf(p)] = m] /\ proc' = [proc EXCEPT ![p] = r]
      /\ UNCHANGED <<day, past>> /\ past \in [Home -> Pasts]
  BY <1>1, OwnerTyped DEF Load, Goto, Mine
<1>5. UNCHANGED current
  BY DEF Load
<1> HIDE DEF m, r
<1> QED
  BY <1>1, <1>2, <1>3, <1>4, <1>5, OwnFloor

-----------------------------------------------------------------------------
(* The transcript of a home.                                               *)

\* A larger id behind ids that rise.
LEMMA RisingOn ==
  ASSUME NEW s \in Seq(Ids), Rising(s), NEW n \in Ids, \A x \in ToSet(s) : x < n
  PROVE  /\ s \o <<n>> \in Seq(Ids) /\ Rising(s \o <<n>>)
         /\ ToSet(s \o <<n>>) = ToSet(s) \cup {n}
<1> DEFINE t == s \o <<n>>
<1>1. /\ t \in Seq(Ids) /\ Len(t) = Len(s) + 1 /\ t[Len(s) + 1] = n
      /\ DOMAIN t = 1 .. Len(s) + 1 /\ DOMAIN s = 1 .. Len(s)
      /\ \A i \in DOMAIN s : t[i] = s[i]
  OBVIOUS
<1>2. \A i \in DOMAIN s : s[i] < n
  BY DEF ToSet
<1> HIDE DEF t
<1>3. Rising(t)
  BY <1>1, <1>2 DEF Rising
<1>4. ToSet(t) = ToSet(s) \cup {n}
  BY <1>1 DEF ToSet
<1> QED
  BY <1>1, <1>3, <1>4 DEF t

\* What is read of a file: its records, and the tail if it is a whole one.
LEMMA ReadableFile ==
  ASSUME NEW f \in Files
  PROVE  /\ f.msgs \in Seq(Ids) /\ Readable(f) \in Seq(Ids)
         /\ Known(f) \subseteq Ids /\ ToSet(f.msgs) \subseteq Known(f)
         /\ Ascends(f) => Rising(f.msgs)
         /\ f.tail = << >> \/ f.tail = <<0>> => Readable(f) = f.msgs
         /\ \A t \in Ids : f.tail = <<t>> => Readable(f) = f.msgs \o <<t>>
<1> DEFINE last == IF f.tail = <<0>> THEN << >> ELSE f.tail
<1>1. f.msgs \in Seq(Ids)
  BY DEF Files
<1>2. last = << >> \/ \E t \in Ids : last = <<t>>
  BY BoundAssumption DEF Files, Ids
<1>3. last \in Seq(Ids)
  <2> HIDE DEF last
  <2>1. \A t \in Ids : <<t>> \in Seq(Ids)
    OBVIOUS
  <2>2. << >> \in Seq(Ids)
    OBVIOUS
  <2> QED
    BY <1>2, <2>1, <2>2
<1>4. Readable(f) = f.msgs \o last
  BY DEF Readable
<1>5. f.msgs \o << >> = f.msgs
  BY <1>1
<1>6. \A t \in Ids : <<t>> # <<0>> /\ <<t>> # << >>
  BY DEF Ids
<1>7. /\ f.tail = << >> \/ f.tail = <<0>> => last = << >>
      /\ \A t \in Ids : f.tail = <<t>> => last = <<t>>
  BY <1>6
<1> HIDE DEF last
<1>8. /\ Readable(f) \in Seq(Ids) /\ DOMAIN f.msgs \subseteq DOMAIN Readable(f)
      /\ \A i \in DOMAIN f.msgs : Readable(f)[i] = f.msgs[i]
  BY <1>1, <1>3, <1>4
<1>9. Known(f) \subseteq Ids /\ ToSet(f.msgs) \subseteq Known(f)
  BY <1>8 DEF Known, ToSet
<1>10. Ascends(f) => Rising(f.msgs)
  BY <1>8 DEF Ascends, Rising
<1> QED
  BY <1>1, <1>4, <1>5, <1>7, <1>8, <1>9, <1>10

\* A new file holds nothing.
LEMMA FileUnread == File \in Files /\ Known(File) = {}
<1>1. File \in Files /\ File.tail = << >> /\ File.msgs = << >>
  BY DEF File, Files
<1>2. Readable(File) = << >>
  BY <1>1, ReadableFile
<1> QED
  BY <1>1, <1>2 DEF Known, ToSet

\* Max is the maximum: of a set of numbers that is not empty and has a bound.
LEMMA MaxOf ==
  ASSUME NEW S, S \subseteq Nat, S # {}, NEW b \in Nat, \A x \in S : x <= b
  PROVE  Max(S) \in S /\ \A x \in S : x <= Max(S)
<1> DEFINE T == {n \in Nat : \A x \in S : x <= n}
<1>1. PICK n \in T : \A m \in T : n <= m
  <2>1. b \in T /\ T \subseteq Nat
    OBVIOUS
  <2> HIDE DEF T
  <2>2. PICK n \in T : \A m \in T : ~(<<m, n>> \in OpToRel(<, Nat))
    BY <2>1, NatLessThanWellFounded, WFMin
  <2>3. \A m \in T : ~(m < n)
    BY <2>1, <2>2 DEF OpToRel
  <2>4. n \in Nat /\ \A m \in T : m \in Nat
    BY <2>1
  <2> QED
    BY <2>3, <2>4
<1>2. n \in S
  <2> SUFFICES ASSUME n \notin S PROVE FALSE
    OBVIOUS
  <2>1. PICK x \in S : TRUE
    OBVIOUS
  <2>2. \A y \in S : y <= n - 1
    BY <1>1
  <2>3. n - 1 \in T
    BY <2>1, <2>2
  <2> QED
    BY <1>1, <2>3
<1>3. n \in S /\ \A x \in S : n >= x
  BY <1>1, <1>2
<1> HIDE DEF T
<1> QED
  BY <1>3 DEF Max

\* The ids of one record, which is the message n or no message.
Record(ids, f) ==
  ids = << >> \/ \E n \in Ids : ids = <<n>> /\ \A x \in Known(f) : x < n

\* A record that is written whole.
LEMMA AppendedFile ==
  ASSUME NEW f \in Files, Ascends(f), NEW ids, Record(ids, f)
  PROVE  LET g == Appended(f, ids)
         IN  /\ g \in Files /\ Ascends(g) /\ g.tail = << >>
             /\ Known(g) \subseteq Known(f) \cup ToSet(ids)
             /\ ToSet(f.msgs) \subseteq ToSet(g.msgs)
             /\ f.tail = << >> => ToSet(ids) \subseteq ToSet(g.msgs)
<1> DEFINE g == Appended(f, ids)
           msgs == IF f.tail = << >> THEN f.msgs \o ids ELSE f.msgs
<1>1. f.msgs \in Seq(Ids) /\ Rising(f.msgs) /\ ToSet(f.msgs) \subseteq Known(f)
  BY ReadableFile
<1>2. /\ msgs \in Seq(Ids) /\ Rising(msgs)
      /\ ToSet(msgs) \subseteq Known(f) \cup ToSet(ids) /\ ToSet(f.msgs) \subseteq ToSet(msgs)
      /\ f.tail = << >> => ToSet(ids) \subseteq ToSet(msgs)
  <2>1. CASE f.tail # << >>
    BY <1>1, <2>1
  <2>2. CASE ids = << >>
    <3>1. msgs = f.msgs /\ ToSet(ids) = {}
      BY <1>1, <2>2 DEF ToSet
    <3> QED
      BY <1>1, <3>1
  <2>3. ASSUME f.tail = << >>, NEW n \in Ids, ids = <<n>>, \A x \in Known(f) : x < n
        PROVE  /\ msgs \in Seq(Ids) /\ Rising(msgs)
               /\ ToSet(msgs) \subseteq Known(f) \cup ToSet(ids)
               /\ ToSet(f.msgs) \subseteq ToSet(msgs) /\ ToSet(ids) \subseteq ToSet(msgs)
    <3>1. msgs = f.msgs \o <<n>> /\ ToSet(ids) = {n}
      BY <2>3 DEF ToSet
    <3> HIDE DEF msgs
    <3> QED
      BY <1>1, <2>3, <3>1, RisingOn
  <2> QED
    BY <2>1, <2>2, <2>3 DEF Record
<1>3. g = [msgs |-> msgs, tail |-> << >>]
  BY DEF Appended, Files
<1> HIDE DEF msgs
<1>4. g \in Files /\ g.msgs = msgs /\ g.tail = << >>
  BY <1>2, <1>3 DEF Files
<1> HIDE DEF g
<1>5. Readable(g) = msgs
  BY <1>4, ReadableFile
<1> QED
  BY <1>2, <1>4, <1>5 DEF Ascends, Known, g

\* A write that stops part-way.
LEMMA TornFile ==
  ASSUME NEW f \in Files, Ascends(f), NEW ids, Record(ids, f), NEW g \in Torn(f, ids)
  PROVE  /\ g \in Files /\ Ascends(g) /\ g.msgs = f.msgs
         /\ Known(g) \subseteq Known(f) \cup ToSet(ids)
<1>1. CASE g = f
  BY <1>1
<1>2. ASSUME NEW t \in {0} \cup ToSet(ids), f.tail = << >>, g = [f EXCEPT !.tail = <<t>>]
      PROVE  /\ g \in Files /\ Ascends(g) /\ g.msgs = f.msgs
             /\ Known(g) \subseteq Known(f) \cup ToSet(ids)
  <2>1. f.msgs \in Seq(Ids) /\ Readable(f) = f.msgs /\ Rising(f.msgs)
    BY <1>2, ReadableFile
  <2>2. t = 0 \/ (t \in Ids /\ ids = <<t>> /\ \A x \in Known(f) : x < t)
    <3>1. CASE ids = << >>
      BY <1>2, <3>1 DEF ToSet
    <3>2. ASSUME NEW n \in Ids, ids = <<n>>, \A x \in Known(f) : x < n
          PROVE  t = 0 \/ (t \in Ids /\ ids = <<t>> /\ \A x \in Known(f) : x < t)
      <4>1. ToSet(ids) = {n}
        BY <3>2 DEF ToSet
      <4> QED
        BY <1>2, <3>2, <4>1
    <3> QED
      BY <3>1, <3>2 DEF Record
  <2>3. t \in 0 .. MaxId
    BY <2>2, BoundAssumption DEF Ids
  <2>4. g \in Files /\ g.msgs = f.msgs /\ g.tail = <<t>>
    BY <1>2, <2>3 DEF Files
  <2>5. CASE t = 0
    <3>1. Readable(g) = f.msgs
      BY <2>4, <2>5, ReadableFile
    <3> QED
      BY <2>1, <2>4, <3>1 DEF Ascends, Known
  <2>6. CASE t \in Ids /\ ids = <<t>> /\ \A x \in Known(f) : x < t
    <3>1. Readable(g) = f.msgs \o <<t>>
      BY <2>4, <2>6, ReadableFile
    <3>2. Rising(f.msgs \o <<t>>) /\ ToSet(f.msgs \o <<t>>) = ToSet(f.msgs) \cup {t}
      BY <2>1, <2>6, RisingOn DEF Known
    <3>3. t \in ToSet(ids)
      BY <2>6 DEF ToSet
    <3> QED
      BY <2>1, <2>4, <3>1, <3>2, <3>3 DEF Ascends, Known
  <2> QED
    BY <2>2, <2>5, <2>6
<1> QED
  BY <1>1, <1>2 DEF Torn

\* The last day's file of a log changes: what is new in it is above all that a
\* reader finds from the day before on.
LEMMA LogGrows ==
  ASSUME NEW log \in Logs, NEW d \in Days, InOrder(log, d),
         NEW g \in Files, Ascends(g), NEW new, Known(g) \subseteq Known(log[d]) \cup new,
         \A e \in Days : e >= d - 1 => \A x \in Known(log[e]), y \in new : x < y
  PROVE  /\ InOrder([log EXCEPT ![d] = g], d)
         /\ \A n \in Nat, m \in Nat :
              UpTo(log, d, n) /\ n <= m /\ (\A y \in new : y <= m)
                => UpTo([log EXCEPT ![d] = g], d, m)
<1> DEFINE log2 == [log EXCEPT ![d] = g]
<1>1. /\ log2[d] = g /\ \A e \in Days : e # d => log2[e] = log[e]
      /\ d \in Nat /\ \A e \in Days : e \in Nat
  BY DEF Logs, Days
<1>2. \A e \in Days : Known(log[e]) \subseteq Nat
  <2> SUFFICES ASSUME NEW e \in Days PROVE Known(log[e]) \subseteq Nat
    OBVIOUS
  <2>1. log[e] \in Files
    BY DEF Logs
  <2> QED
    BY <2>1, ReadableFile DEF Ids
<1>3. Known(File) = {}
  BY FileUnread
<1> HIDE DEF log2
<1>4. \A e \in Days : Ascends(log2[e])
  BY <1>1 DEF InOrder
<1>5. ASSUME NEW e \in Days, e > 0, NEW x \in Known(log2[e - 1]), NEW y \in Known(log2[e])
      PROVE  x < y
  <2>0. e - 1 \in Days
    BY <1>5, <1>1, BoundAssumption DEF Days
  <2>1. CASE e = d
    <3>1. x \in Known(log[d - 1]) /\ d - 1 \in Days
      BY <1>1, <1>5, <2>0, <2>1
    <3>2. CASE y \in Known(log[d])
      BY <1>5, <2>1, <3>1, <3>2 DEF InOrder
    <3>3. CASE y \in new
      BY <1>1, <3>1, <3>3
    <3> QED
      BY <1>1, <1>5, <2>1, <3>2, <3>3
  <2>2. CASE e = d + 1
    <3>1. log2[e] = File
      BY <1>1, <2>2 DEF InOrder
    <3> QED
      BY <1>3, <1>5, <3>1
  <2>3. CASE e # d /\ e # d + 1
    <3>1. log2[e] = log[e] /\ log2[e - 1] = log[e - 1]
      BY <1>1, <2>0, <2>3
    <3> QED
      BY <1>5, <3>1 DEF InOrder
  <2> QED
    BY <2>1, <2>2, <2>3
<1>6. \A e \in Days : e > d => log2[e] = File
  <2>1. \A e \in Days : e > d => log[e] = File
    BY DEF InOrder
  <2>2. \A e \in Days : e > d => e # d
    BY <1>1
  <2> QED
    BY <1>1, <2>1, <2>2
<1>7. InOrder(log2, d)
  BY <1>4, <1>5, <1>6 DEF InOrder
<1>8. ASSUME NEW n \in Nat, NEW m \in Nat, UpTo(log, d, n), n <= m, \A y \in new : y <= m
      PROVE  UpTo(log2, d, m)
  <2> SUFFICES ASSUME NEW e \in Days, e >= d - 1, NEW x \in Known(log2[e]) PROVE x <= m
    BY DEF UpTo
  <2>1. CASE x \in Known(log[e])
    BY <1>2, <1>8, <2>1 DEF UpTo
  <2>2. CASE x \notin Known(log[e])
    <3>1. x \in new
      BY <1>1, <2>2
    <3> QED
      BY <1>8, <3>1
  <2> QED
    BY <2>1, <2>2
<1> QED
  BY <1>7, <1>8 DEF log2

\* The lost says can be counted, and no more of them are counted when the
\* files keep their records.
LEMMA LostFinite ==
  ASSUME NEW said \in SUBSET (Days \X Ids), NEW log
  PROVE  IsFiniteSet(Lost(said, log)) /\ Cardinality(Lost(said, log)) \in Nat
<1>1. IsFiniteSet(Days) /\ IsFiniteSet(Ids)
  BY BoundAssumption, FS_Interval DEF Days, Ids
<1>2. IsFiniteSet(Days \X Ids)
  BY <1>1, FS_Product
<1>3. Lost(said, log) \in SUBSET (Days \X Ids)
  BY DEF Lost
<1>4. IsFiniteSet(Lost(said, log))
  BY <1>2, <1>3, FS_Subset
<1> QED
  BY <1>4, FS_CardinalityType

LEMMA FewerLost ==
  ASSUME NEW S, NEW T, IsFiniteSet(S), T \subseteq S
  PROVE  Cardinality(T) <= Cardinality(S) /\ Cardinality(T) \in Nat /\ Cardinality(S) \in Nat
<1>1. IsFiniteSet(T) /\ Cardinality(T) <= Cardinality(S)
  BY FS_Subset
<1> QED
  BY <1>1, FS_CardinalityType

LEMMA OneMoreLost ==
  ASSUME NEW S, NEW T, NEW x, IsFiniteSet(S), T \subseteq S \cup {x}
  PROVE  Cardinality(T) <= Cardinality(S) + 1
<1>1. IsFiniteSet(S \cup {x}) /\ Cardinality(S \cup {x}) <= Cardinality(S) + 1
  <2>1. Cardinality(S) \in Nat
    BY FS_CardinalityType
  <2>2. /\ IsFiniteSet(S \cup {x})
        /\ Cardinality(S \cup {x}) = IF x \in S THEN Cardinality(S) ELSE Cardinality(S) + 1
    BY FS_AddElement
  <2> QED
    BY <2>1, <2>2
<1>2. Cardinality(T) <= Cardinality(S \cup {x})
      /\ Cardinality(T) \in Nat /\ Cardinality(S \cup {x}) \in Nat
  BY <1>1, FewerLost
<1>3. Cardinality(S) \in Nat
  BY FS_CardinalityType
<1> QED
  BY <1>1, <1>2, <1>3

-----------------------------------------------------------------------------
(* The history under the steps.                                            *)

\* The owner writes to today's file: order, and the counter ahead of it.
LEMMA WrittenInOrder ==
  ASSUME Floor, History, NEW p \in Proc, proc[p].pc \in Counting,
         NEW g \in Files, NEW new \in SUBSET Ids,
         Ascends(g), Known(g) \subseteq Known(Mine(p).log[day]) \cup new,
         \A y \in new : proc[p].counter < y,
         \A h \in Home : disk'[h].log = IF h = HomeOf(p) THEN [disk[h].log EXCEPT ![day] = g]
                                        ELSE disk[h].log,
         UNCHANGED day, Floor',
         \A q \in Proc : q # p => proc'[q] = proc[q],
         proc'[p].pc \in Counting =>
           /\ proc'[p].home = HomeOf(p) /\ proc[p].counter <= proc'[p].counter
           /\ \A y \in new : y <= proc'[p].counter
  PROVE  (\A h \in Home : InOrder(disk[h].log, day))' /\ Ahead'
<1> DEFINE o == HomeOf(p)
           log == disk[o].log
<1>1. /\ o \in Home /\ proc[p].pc \in Working /\ log \in Logs /\ day \in Days
      /\ proc[p].counter \in Nat /\ \A q \in Proc : proc'[q].counter \in Nat
  <2>1. proc[p].pc \in Working
    BY DEF Counting
  <2>2. o \in Home
    BY <2>1, OwnerTyped
  <2> QED
    BY <2>1, <2>2, BoundAssumption DEF Floor, Typed, HomeFiles, States
<1>2. InOrder(log, day) /\ UpTo(log, day, proc[p].counter)
  BY <1>1 DEF History, Ahead, Mine
<1>3. \A e \in Days : e >= day - 1 => \A x \in Known(log[e]), y \in new : x < y
  <2> SUFFICES ASSUME NEW e \in Days, e >= day - 1, NEW x \in Known(log[e]), NEW y \in new
               PROVE  x < y
    OBVIOUS
  <2>1. log[e] \in Files
    BY <1>1 DEF Logs
  <2>2. x \in Ids /\ x <= proc[p].counter /\ proc[p].counter < y /\ y \in Ids
    BY <1>2, <2>1, ReadableFile DEF UpTo
  <2> QED
    BY <1>1, <2>2 DEF Ids
<1>4. InOrder(disk'[o].log, day)
      /\ \A n \in Nat, m \in Nat :
           UpTo(log, day, n) /\ n <= m /\ (\A y \in new : y <= m) => UpTo(disk'[o].log, day, m)
  <2>1. disk'[o].log = [log EXCEPT ![day] = g] /\ Known(g) \subseteq Known(log[day]) \cup new
    BY <1>1 DEF Mine
  <2>2. log \in Logs /\ day \in Days
    BY <1>1
  <2> HIDE DEF log, o
  <2>3. /\ InOrder([log EXCEPT ![day] = g], day)
        /\ \A n \in Nat, m \in Nat :
             UpTo(log, day, n) /\ n <= m /\ (\A y \in new : y <= m)
               => UpTo([log EXCEPT ![day] = g], day, m)
    BY <1>2, <1>3, <2>1, <2>2, LogGrows
  <2> QED
    BY <2>1, <2>3
<1>5. (\A h \in Home : InOrder(disk[h].log, day))'
  BY <1>4 DEF History
<1>6. Ahead'
  <2> SUFFICES ASSUME NEW q \in Proc, proc'[q].pc \in Counting
               PROVE  UpTo(disk'[proc'[q].home].log, day, proc'[q].counter)
    BY DEF Ahead, Mine, HomeOf
  <2>1. CASE q = p
    BY <1>1, <1>2, <1>4, <2>1
  <2>2. CASE q # p
    <3>1. proc[q] = proc'[q] /\ proc[q].pc \in Working
      BY <2>2 DEF Counting
    <3>2. HomeOf(q) # o /\ HomeOf(q) \in Home
      BY <1>1, <2>2, <3>1, Alone, OwnerTyped DEF Floor
    <3> QED
      BY <3>1, <3>2 DEF History, Ahead, Mine, HomeOf
  <2> QED
    BY <2>1, <2>2
<1> QED
  BY <1>5, <1>6

\* The same writes: what is missing, and the fault for it.
LEMMA WrittenAccounted ==
  ASSUME Floor, History, NEW p \in Proc, proc[p].pc \in Counting, NEW g \in Files,
         ToSet(Mine(p).log[day].msgs) \subseteq ToSet(g.msgs),
         \A h \in Home : disk'[h].log = IF h = HomeOf(p) THEN [disk[h].log EXCEPT ![day] = g]
                                        ELSE disk[h].log,
         UNCHANGED day, Floor',
         \A q \in Proc : q # p => proc'[q] = proc[q],
         proc'[p].pc \in Open => proc'[p].home = HomeOf(p),
         \A h \in Home : h # HomeOf(p) => past'[h] = past[h],
         \/ /\ past' = past
            /\ proc'[p].pc \in Open => g.tail = << >>
         \/ /\ past'[HomeOf(p)].said = past[HomeOf(p)].said
            /\ past'[HomeOf(p)].faults = past[HomeOf(p)].faults + 1
         \/ \E n \in Ids :
              /\ past'[HomeOf(p)].said = past[HomeOf(p)].said \cup {<<day, n>>}
              /\ past'[HomeOf(p)].faults = past[HomeOf(p)].faults
              /\ proc[p].pc \in Open /\ g.tail = << >>
              /\ Mine(p).log[day].tail = << >> => n \in ToSet(g.msgs)
  PROVE  Accounted'
<1> DEFINE o == HomeOf(p)
           log == disk[o].log
           log2 == disk'[o].log
           was == Lost(past[o].said, log)
           new == Lost(past'[o].said, log2)
<1>1. /\ o \in Home /\ proc[p].pc \in Working /\ log \in Logs /\ day \in Days
      /\ past[o] \in Pasts /\ past'[o] \in Pasts
  <2>1. proc[p].pc \in Working
    BY DEF Counting
  <2>2. o \in Home
    BY <2>1, OwnerTyped
  <2> QED
    BY <2>1, <2>2 DEF Floor, Typed, HomeFiles
<1>2. log2[day] = g /\ \A d \in Days : ToSet(log[d].msgs) \subseteq ToSet(log2[d].msgs)
  BY <1>1 DEF Mine, Logs
<1>3. /\ IsFiniteSet(was) /\ Cardinality(was) \in Nat /\ Cardinality(was) <= past[o].faults
      /\ past[o].faults \in Nat /\ past'[o].faults \in Nat
      /\ past[o].said \in SUBSET (Days \X Ids)
  BY <1>1, LostFinite DEF History, Accounted, Pasts
<1>4. past'[o].said = past[o].said => new \subseteq was
  <2>1. \A x \in past[o].said : x[1] \in Days
    BY <1>3
  <2> HIDE DEF log, log2
  <2> QED
    BY <1>2, <2>1 DEF Lost
<1>5. Cardinality(new) <= past'[o].faults
      /\ (proc'[p].pc \in Open /\ g.tail # << >> => Cardinality(new) < past'[o].faults)
  <2>1. CASE past' = past /\ (proc'[p].pc \in Open => g.tail = << >>)
    <3> HIDE DEF new, was
    <3> QED
      BY <1>3, <1>4, <2>1, FewerLost
  <2>2. CASE past'[o].said = past[o].said /\ past'[o].faults = past[o].faults + 1
    <3> HIDE DEF new, was
    <3>1. Cardinality(new) <= Cardinality(was) /\ Cardinality(new) \in Nat
      BY <1>3, <1>4, <2>2, FewerLost
    <3> QED
      BY <1>3, <2>2, <3>1
  <2>3. ASSUME NEW n \in Ids,
               past'[o].said = past[o].said \cup {<<day, n>>},
               past'[o].faults = past[o].faults,
               proc[p].pc \in Open, g.tail = << >>,
               log[day].tail = << >> => n \in ToSet(g.msgs)
        PROVE  Cardinality(new) <= past'[o].faults
    <3>1. new \subseteq was \cup {<<day, n>>}
          /\ (log[day].tail = << >> => new \subseteq was)
      <4>1. \A x \in past[o].said : x[1] \in Days
        BY <1>3
      <4>2. <<day, n>>[1] = day /\ <<day, n>>[2] = n
        OBVIOUS
      <4> HIDE DEF log, log2
      <4>3. new \subseteq was \cup {<<day, n>>}
        BY <1>2, <2>3, <4>1 DEF Lost
      <4>4. log[day].tail = << >> => <<day, n>> \notin new
        BY <1>2, <2>3, <4>2 DEF Lost
      <4> QED
        BY <4>3, <4>4
    <3>2. log[day].tail # << >> => Cardinality(was) < past[o].faults
      BY <2>3 DEF History, Accounted, Mine
    <3> HIDE DEF new, was
    <3>3. CASE log[day].tail = << >>
      BY <1>3, <2>3, <3>1, <3>3, FewerLost
    <3>4. CASE log[day].tail # << >>
      <4>1. Cardinality(new) <= Cardinality(was) + 1
        BY <1>3, <3>1, OneMoreLost
      <4>2. Cardinality(new) \in Nat
        <5>1. IsFiniteSet(was \cup {<<day, n>>})
          BY <1>3, FS_AddElement
        <5> QED
          BY <3>1, <5>1, FewerLost
      <4> QED
        BY <1>3, <2>3, <3>2, <3>4, <4>1, <4>2
    <3> QED
      BY <3>3, <3>4
  <2> QED
    BY <2>1, <2>2, <2>3 DEF Mine
<1>6. \A h \in Home : h # o => disk'[h].log = disk[h].log /\ past'[h] = past[h]
  OBVIOUS
<1>7. \A h \in Home : Cardinality(Lost(past'[h].said, disk'[h].log)) <= past'[h].faults
  BY <1>5, <1>6 DEF History, Accounted
<1>8. ASSUME NEW q \in Proc, proc'[q].pc \in Open, disk'[proc'[q].home].log[day].tail # << >>
      PROVE  Cardinality(Lost(past'[proc'[q].home].said, disk'[proc'[q].home].log))
               < past'[proc'[q].home].faults
  <2>1. CASE q = p
    <3>1. proc'[q].home = o
      BY <1>8, <2>1
    <3>2. g.tail # << >>
      BY <1>2, <1>8, <3>1
    <3> QED
      BY <1>5, <1>8, <2>1, <3>1, <3>2
  <2>2. CASE q # p
    <3>1. proc[q] = proc'[q] /\ proc[q].pc \in Working
      BY <1>8, <2>2 DEF Open, Working, Steps
    <3>2. HomeOf(q) # o /\ HomeOf(q) \in Home
      BY <1>1, <2>2, <3>1, Alone, OwnerTyped DEF Floor
    <3>3. /\ proc'[q].home = HomeOf(q) /\ past'[HomeOf(q)] = past[HomeOf(q)]
          /\ disk'[HomeOf(q)].log = disk[HomeOf(q)].log
      BY <1>6, <3>1, <3>2 DEF HomeOf
    <3>4. proc[q].pc \in Open /\ Mine(q).log[day].tail # << >>
      BY <1>8, <3>1, <3>3 DEF Mine
    <3>5. Cardinality(Lost(past[HomeOf(q)].said, Mine(q).log)) < past[HomeOf(q)].faults
      BY <3>4 DEF History, Accounted
    <3> QED
      BY <3>3, <3>5 DEF Mine
  <2> QED
    BY <2>1, <2>2
<1> QED
  BY <1>7, <1>8 DEF Accounted, Mine, HomeOf

\* A step that leaves the transcripts alone and opens no file.
LEMMA QuietHistory ==
  ASSUME Floor, History, Floor',
         \A h \in Home : disk'[h].log = disk[h].log,
         UNCHANGED <<day, past>>,
         \A q \in Proc :
           /\ proc'[q].pc \in Counting =>
                /\ proc'[q].home = HomeOf(q) /\ HomeOf(q) \in Home
                /\ UpTo(Mine(q).log, day, proc'[q].counter)
           /\ proc'[q].pc \in Open => proc[q].pc \in Open /\ proc'[q].home = HomeOf(q)
                                     /\ HomeOf(q) \in Home
  PROVE  History'
<1>1. (\A h \in Home : InOrder(disk[h].log, day))'
  BY DEF History
<1>2. Ahead'
  BY DEF Ahead, Mine, HomeOf
<1>3. Accounted'
  BY DEF History, Accounted, Mine, HomeOf
<1> QED
  BY <1>1, <1>2, <1>3 DEF History

\* What new_hub reads: the counter starts at the largest id of two days.
LEMMA LargestLoaded ==
  ASSUME NEW log \in Logs, NEW d \in Days, InOrder(log, d)
  PROVE  /\ Largest(RecentMsgs(log, d)) \in 0 .. MaxId
         /\ UpTo(log, d, Largest(RecentMsgs(log, d)))
<1> DEFINE ids == RecentMsgs(log, d)
           S == ToSet(ids)
<1>1. d \in Nat /\ MaxId \in Nat /\ \A e \in Days : e \in Nat /\ log[e] \in Files
  BY BoundAssumption DEF Days, Logs
<1>2. \A e \in Days : Readable(log[e]) \in Seq(Ids)
  BY <1>1, ReadableFile
<1>3. d > 0 => d - 1 \in Days
  BY <1>1, BoundAssumption DEF Days
<1>4. /\ ids \in Seq(Ids)
      /\ Known(log[d]) \subseteq S /\ (d > 0 => Known(log[d - 1]) \subseteq S)
  <2>1. CASE d = 0
    <3>1. ids = << >> \o Readable(log[d]) /\ Readable(log[d]) \in Seq(Ids)
      BY <1>2, <2>1 DEF RecentMsgs
    <3>2. ids = Readable(log[d])
      BY <3>1
    <3> QED
      BY <2>1, <3>1, <3>2 DEF Known
  <2>2. CASE d > 0
    <3> DEFINE r == Readable(log[d])
               y == Readable(log[d - 1])
    <3>1. ids = y \o r /\ r \in Seq(Ids) /\ y \in Seq(Ids)
      <4>1. r \in Seq(Ids) /\ y \in Seq(Ids)
        BY <1>2, <1>3, <2>2
      <4>2. d # 0
        BY <1>1, <2>2
      <4> QED
        BY <4>1, <4>2 DEF RecentMsgs
    <3> HIDE DEF r, y, ids
    <3>2. /\ ids \in Seq(Ids) /\ DOMAIN ids = 1 .. Len(y) + Len(r)
          /\ DOMAIN y = 1 .. Len(y) /\ DOMAIN r = 1 .. Len(r)
          /\ Len(y) \in Nat /\ Len(r) \in Nat
          /\ \A i \in 1 .. Len(y) : ids[i] = y[i]
          /\ \A i \in 1 .. Len(r) : ids[i + Len(y)] = r[i]
      BY <3>1
    <3>3. ToSet(y) \subseteq S
      BY <3>2 DEF ToSet
    <3>4. ToSet(r) \subseteq S
      <4> SUFFICES ASSUME NEW i \in DOMAIN r PROVE r[i] \in S
        BY DEF ToSet
      <4>1. i + Len(y) \in DOMAIN ids /\ ids[i + Len(y)] = r[i]
        BY <3>2
      <4> QED
        BY <4>1 DEF ToSet
    <3> QED
      BY <3>2, <3>3, <3>4 DEF Known, r, y
  <2> QED
    BY <1>1, <2>1, <2>2
<1>5. S \subseteq Ids
  BY <1>4 DEF ToSet
<1>6. /\ Largest(ids) \in 0 .. MaxId
      /\ \A x \in S : x <= Largest(ids)
  <2> HIDE DEF ids
  <2>1. CASE ids = << >>
    BY <1>1, <2>1 DEF Largest, ToSet
  <2>2. CASE ids # << >>
    <3>1. S # {}
      <4>1. 1 \in DOMAIN ids
        BY <1>4, <2>2
      <4> QED
        BY <4>1 DEF ToSet
    <3>2. S \subseteq Nat /\ \A x \in S : x <= MaxId
      BY <1>1, <1>5 DEF Ids
    <3>3. Largest(ids) = Max(S)
      BY <2>2 DEF Largest
    <3> HIDE DEF S
    <3> DEFINE m == Max(S)
    <3>4. m \in S /\ \A x \in S : x <= m
      BY <1>1, <3>1, <3>2, MaxOf
    <3>5. Largest(ids) = m
      BY <3>3
    <3> HIDE DEF m
    <3>6. m \in Nat /\ m <= MaxId
      BY <3>2, <3>4
    <3> QED
      BY <1>1, <3>4, <3>5, <3>6
  <2> QED
    BY <2>1, <2>2
<1>7. UpTo(log, d, Largest(ids))
  <2> SUFFICES ASSUME NEW e \in Days, e >= d - 1, NEW x \in Known(log[e])
               PROVE  x \in S
    BY <1>6 DEF UpTo
  <2>1. CASE e > d
    <3>1. log[e] = File
      BY <2>1 DEF InOrder
    <3> QED
      BY <3>1, FileUnread
  <2>2. CASE e = d
    BY <1>4, <2>2
  <2>3. CASE e = d - 1
    BY <1>1, <1>4, <2>3
  <2> QED
    BY <1>1, <2>1, <2>2, <2>3
<1> QED
  BY <1>6, <1>7

LEMMA ExitLogs ==
  ASSUME NEW p \in Proc, NEW d \in [Home -> HomeFiles], Exit(p, d)
  PROVE  \A h \in Home : disk'[h].log = d[h].log
<1> SUFFICES ASSUME NEW h \in Home PROVE Gone(d, p)[h].log = d[h].log
  BY DEF Exit
<1>1. Gone(d, p)[h] = [lock |-> IF d[h].lock = p THEN NoProc ELSE d[h].lock,
                       socket |-> IF d[h].socket = p THEN Stale ELSE d[h].socket,
                       goal |-> d[h].goal, log |-> d[h].log]
  BY GoneFields
<1> QED
  BY <1>1

\* The ids of a record that the owner writes next.
Fresh(p, ids) ==
  ids = << >> \/ \E n \in Ids : ids = <<n>> /\ proc[p].counter < n

\* They are above all that a reader finds in today's file.
LEMMA FreshRecord ==
  ASSUME Floor, History, NEW p \in Proc, proc[p].pc \in Counting, NEW ids, Fresh(p, ids)
  PROVE  Record(ids, Mine(p).log[day])
<1> DEFINE f == Mine(p).log[day]
<1>1. /\ HomeOf(p) \in Home /\ Mine(p).log \in Logs /\ day \in Days
      /\ proc[p].counter \in Nat
  <2>1. proc[p].pc \in Working
    BY DEF Counting
  <2>2. HomeOf(p) \in Home /\ Mine(p) \in HomeFiles /\ proc[p] \in States
    BY <2>1, OwnerTyped
  <2> QED
    BY <2>2, BoundAssumption DEF Floor, Typed, HomeFiles, States
<1>2. \A x \in Known(f) : x <= proc[p].counter /\ x \in Ids
  <2>1. f \in Files
    BY <1>1 DEF Logs
  <2>2. UpTo(Mine(p).log, day, proc[p].counter)
    BY DEF History, Ahead
  <2>3. day \in Nat
    BY <1>1 DEF Days
  <2> QED
    BY <1>1, <2>1, <2>2, <2>3, ReadableFile DEF UpTo
<1>3. ASSUME NEW n \in Ids, proc[p].counter < n PROVE \A x \in Known(f) : x < n
  BY <1>1, <1>2, <1>3 DEF Ids
<1> HIDE DEF f
<1> QED
  BY <1>3 DEF Fresh, Record, f

\* What a record of the owner, whole or torn, makes of today's file.
LEMMA FileWritten ==
  ASSUME Floor, History, NEW p \in Proc, proc[p].pc \in Counting, NEW ids, Fresh(p, ids),
         NEW g, g = Appended(Mine(p).log[day], ids) \/ g \in Torn(Mine(p).log[day], ids)
  PROVE  /\ g \in Files /\ Ascends(g)
         /\ Known(g) \subseteq Known(Mine(p).log[day]) \cup ToSet(ids)
         /\ ToSet(Mine(p).log[day].msgs) \subseteq ToSet(g.msgs)
         /\ ToSet(ids) \in SUBSET Ids /\ \A y \in ToSet(ids) : proc[p].counter < y
<1> DEFINE f == Mine(p).log[day]
<1>1. /\ HomeOf(p) \in Home /\ Mine(p).log \in Logs /\ day \in Days
      /\ proc[p].counter \in Nat
  <2>1. proc[p].pc \in Working
    BY DEF Counting
  <2>2. HomeOf(p) \in Home /\ Mine(p) \in HomeFiles /\ proc[p] \in States
    BY <2>1, OwnerTyped
  <2> QED
    BY <2>2, BoundAssumption DEF Floor, Typed, HomeFiles, States
<1>2. f \in Files /\ Ascends(f) /\ \A x \in Known(f) : x <= proc[p].counter /\ x \in Ids
  <2>1. f \in Files
    BY <1>1 DEF Logs
  <2>2. InOrder(Mine(p).log, day) /\ UpTo(Mine(p).log, day, proc[p].counter)
    BY <1>1 DEF History, Ahead, Mine
  <2>3. day \in Nat
    BY <1>1 DEF Days
  <2> QED
    BY <1>1, <2>1, <2>2, <2>3, ReadableFile DEF InOrder, UpTo
<1>3. Record(ids, f)
  BY FreshRecord
<1>4. ToSet(ids) \in SUBSET Ids /\ \A y \in ToSet(ids) : proc[p].counter < y
  BY DEF Fresh, ToSet
<1> HIDE DEF f
<1>5. CASE g = Appended(f, ids)
  BY <1>2, <1>3, <1>4, <1>5, AppendedFile DEF f
<1>6. CASE g \in Torn(f, ids)
  <2>1. g \in Files /\ Ascends(g) /\ g.msgs = f.msgs /\ Known(g) \subseteq Known(f) \cup ToSet(ids)
    BY <1>2, <1>3, <1>6, TornFile
  <2> QED
    BY <1>4, <2>1 DEF f
<1> QED
  BY <1>5, <1>6 DEF f

\* A record of a process that goes on.
LEMMA OwnWrites ==
  ASSUME Floor, History, NEW p \in Proc, proc[p].pc \in Counting, NEW ids, Fresh(p, ids),
         NEW g, g = Appended(Mine(p).log[day], ids) \/ g \in Torn(Mine(p).log[day], ids),
         disk' = [disk EXCEPT ![HomeOf(p)].log[day] = g],
         NEW r \in States, proc' = [proc EXCEPT ![p] = r],
         r.home = HomeOf(p), r.saw = proc[p].saw,
         r.pc = proc[p].pc \/ (proc[p].pc = "recording" /\ r.pc = "unbinding"),
         proc[p].counter <= r.counter, \A y \in ToSet(ids) : y <= r.counter,
         UNCHANGED <<day, current>>, past' \in [Home -> Pasts],
         \A h \in Home : h # HomeOf(p) => past'[h] = past[h],
         \/ past' = past /\ g.tail = << >>
         \/ /\ past'[HomeOf(p)].said = past[HomeOf(p)].said
            /\ past'[HomeOf(p)].faults = past[HomeOf(p)].faults + 1
         \/ \E n \in Ids :
              /\ past'[HomeOf(p)].said = past[HomeOf(p)].said \cup {<<day, n>>}
              /\ past'[HomeOf(p)].faults = past[HomeOf(p)].faults
              /\ proc[p].pc \in Open /\ g.tail = << >>
              /\ Mine(p).log[day].tail = << >> => n \in ToSet(g.msgs)
  PROVE  Floor' /\ History'
<1> DEFINE m == [Mine(p) EXCEPT !.log[day] = g]
<1>1. /\ g \in Files /\ Ascends(g)
      /\ Known(g) \subseteq Known(Mine(p).log[day]) \cup ToSet(ids)
      /\ ToSet(Mine(p).log[day].msgs) \subseteq ToSet(g.msgs)
      /\ ToSet(ids) \in SUBSET Ids /\ \A y \in ToSet(ids) : proc[p].counter < y
  BY FileWritten
<1>2. proc[p].pc \in Working /\ r.pc \in Working
  BY DEF Counting, Working, Steps
<1>3. HomeOf(p) \in Home /\ Mine(p) \in HomeFiles /\ proc[p].home = HomeOf(p)
  BY <1>2, OwnerTyped
<1>4. /\ m \in HomeFiles /\ m.lock = Mine(p).lock /\ m.socket = Mine(p).socket
      /\ m.goal = Mine(p).goal
  BY <1>1, <1>3 DEF HomeFiles, Logs
<1>5. disk' = [disk EXCEPT ![HomeOf(p)] = m]
  BY DEF Mine
<1>6. Floor'
  <2>1. /\ r.pc \in {"pointing", "writing", "serving"} => m.socket = p
        /\ r.pc \in {"looking", "reading", "clearing", "forgetting", "ending"} => m.socket = NoProc
        /\ r.pc = "clearing" => r.saw = HomeOf(p)
        /\ r.pc \in {"forgetting", "ending"} => current' # HomeOf(p)
        /\ r.pc = "ending" => ~m.goal
    BY <1>4 DEF Floor, Listens, Parted, At
  <2> HIDE DEF m
  <2> QED
    BY <1>2, <1>4, <1>5, <2>1, OwnFloor
<1>7. /\ proc'[p] = r /\ \A q \in Proc : q # p => proc'[q] = proc[q]
  BY DEF Floor, Typed
<1>8. \A h \in Home : disk'[h].log = IF h = HomeOf(p) THEN [disk[h].log EXCEPT ![day] = g]
                                     ELSE disk[h].log
  BY <1>3 DEF Floor, Typed, HomeFiles
<1> HIDE DEF m
<1>9. (\A h \in Home : InOrder(disk[h].log, day))' /\ Ahead'
  BY <1>1, <1>6, <1>7, <1>8, WrittenInOrder
<1>10. Accounted'
  BY <1>1, <1>6, <1>7, <1>8, WrittenAccounted
<1> QED
  BY <1>6, <1>9, <1>10 DEF History

\* A record of a process that ends with it, or is killed in it.
LEMMA ExitWrites ==
  ASSUME Floor, History, NEW p \in Proc, proc[p].pc \in Counting, NEW ids, Fresh(p, ids),
         NEW g, g = Appended(Mine(p).log[day], ids) \/ g \in Torn(Mine(p).log[day], ids),
         Exit(p, [disk EXCEPT ![HomeOf(p)].log[day] = g]),
         UNCHANGED <<day, current>>, past' \in [Home -> Pasts],
         \A h \in Home : h # HomeOf(p) => past'[h] = past[h],
         \/ past' = past
         \/ /\ past'[HomeOf(p)].said = past[HomeOf(p)].said
            /\ past'[HomeOf(p)].faults = past[HomeOf(p)].faults + 1
  PROVE  Floor' /\ History'
<1> DEFINE d == [disk EXCEPT ![HomeOf(p)].log[day] = g]
<1>1. /\ g \in Files /\ Ascends(g)
      /\ Known(g) \subseteq Known(Mine(p).log[day]) \cup ToSet(ids)
      /\ ToSet(Mine(p).log[day].msgs) \subseteq ToSet(g.msgs)
      /\ ToSet(ids) \in SUBSET Ids /\ \A y \in ToSet(ids) : proc[p].counter < y
  BY FileWritten
<1>2. HomeOf(p) \in Home
  <2>1. proc[p].pc \in Working
    BY DEF Counting
  <2> QED
    BY <2>1, OwnerTyped
<1>3. /\ d \in [Home -> HomeFiles]
      /\ \A h \in Home : /\ d[h].lock = disk[h].lock /\ d[h].socket = disk[h].socket
                         /\ d[h].goal = disk[h].goal
                         /\ d[h].log = IF h = HomeOf(p) THEN [disk[h].log EXCEPT ![day] = g]
                                       ELSE disk[h].log
  BY <1>1, <1>2 DEF Floor, Typed, HomeFiles, Logs
<1> HIDE DEF d
<1>4. Exit(p, d)
  BY DEF d
<1>5. Floor'
  BY <1>3, <1>4, ExitFloor
<1>6. \A h \in Home : disk'[h].log = IF h = HomeOf(p) THEN [disk[h].log EXCEPT ![day] = g]
                                     ELSE disk[h].log
  BY <1>3, <1>4, ExitLogs
<1>7. proc'[p] = Off /\ \A q \in Proc : q # p => proc'[q] = proc[q]
  BY <1>4 DEF Exit, Floor, Typed
<1>8. proc'[p].pc \notin Counting /\ proc'[p].pc \notin Open
  BY <1>7 DEF Off, Counting, Working, Open
<1>9. (\A h \in Home : InOrder(disk[h].log, day))' /\ Ahead'
  BY <1>1, <1>5, <1>6, <1>7, <1>8, WrittenInOrder
<1>10. Accounted'
  BY <1>1, <1>5, <1>6, <1>7, <1>8, WrittenAccounted
<1> QED
  BY <1>5, <1>9, <1>10 DEF History

\* A process that ends and writes nothing.
LEMMA ExitQuietly ==
  ASSUME Floor, History, NEW p \in Proc, Exit(p, disk),
         UNCHANGED <<day, past>>, current' \in {current, NoHome}
  PROVE  Floor' /\ History'
<1>1. disk \in [Home -> HomeFiles] /\ past \in [Home -> Pasts]
  BY DEF Floor, Typed
<1>2. Floor'
  BY <1>1, ExitFloor
<1>3. \A h \in Home : disk'[h].log = disk[h].log
  BY <1>1, ExitLogs
<1>4. proc'[p] = Off /\ \A q \in Proc : q # p => proc'[q] = proc[q]
  BY DEF Exit, Floor, Typed
<1>5. \A q \in Proc : proc'[q].pc \in Counting \cup Open => proc'[q] = proc[q]
  BY <1>4 DEF Off, Counting, Working, Open
<1>6. \A q \in Proc : proc[q].pc \in Counting \cup Open => HomeOf(q) \in Home
  BY DEF Floor, Placed, At, Counting, Working, Open
<1>7. \A q \in Proc : proc'[q].pc \in Counting =>
        /\ proc'[q].home = HomeOf(q) /\ HomeOf(q) \in Home
        /\ UpTo(Mine(q).log, day, proc'[q].counter)
  BY <1>5, <1>6 DEF History, Ahead, HomeOf
<1>8. \A q \in Proc : proc'[q].pc \in Open =>
        proc[q].pc \in Open /\ proc'[q].home = HomeOf(q) /\ HomeOf(q) \in Home
  BY <1>5, <1>6 DEF HomeOf
<1> QED
  BY <1>2, <1>3, <1>7, <1>8, QuietHistory

-----------------------------------------------------------------------------
(* One lemma per step that writes, or may end the process.                 *)

LEMMA Nothing ==
  ASSUME NEW p \in Proc
  PROVE  /\ Fresh(p, << >>) /\ ToSet(<< >>) = {}
         /\ \A f \in Files : Appended(f, << >>).tail = << >>
BY DEF Fresh, ToSet, Appended, Files

FaultTold(h) ==
  /\ past' \in [Home -> Pasts] /\ \A k \in Home : k # h => past'[k] = past[k]
  /\ past'[h].said = past[h].said /\ past'[h].faults = past[h].faults + 1

LEMMA FaultCounts ==
  ASSUME past \in [Home -> Pasts], NEW h \in Home, Fault(h)
  PROVE  FaultTold(h)
BY DEF Fault, FaultTold, Pasts

LEMMA RecordStartHolds == ASSUME Floor, History, NEW p \in Proc, RecordStart(p)
                          PROVE  Floor' /\ History'
<1> DEFINE h == HomeOf(p)
           f == Mine(p).log[day]
           r == [proc[p] EXCEPT !.pc = "unbinding"]
<1>1. /\ proc[p].pc = "recording" /\ proc[p].pc \in Counting /\ proc[p].pc \in Working
      /\ "unbinding" \in Steps /\ UNCHANGED <<current, day>>
  BY DEF RecordStart, At, Counting, Working, Steps
<1>2. h \in Home /\ proc[p] \in States /\ past \in [Home -> Pasts] /\ f \in Files
  BY <1>1, OwnerTyped DEF Floor, Typed, HomeFiles, Logs
<1>3. CASE disk' = Write(h, << >>) /\ Goto(p, "unbinding") /\ UNCHANGED past
  <2> DEFINE g == Appended(f, << >>)
  <2>1. disk' = [disk EXCEPT ![h].log[day] = g]
    BY <1>3 DEF Write, Mine
  <2>2. r \in States /\ r.home = h /\ r.saw = proc[p].saw /\ r.pc = "unbinding"
        /\ r.counter = proc[p].counter /\ proc[p].counter <= r.counter
    BY <1>1, <1>2, BoundAssumption DEF States, HomeOf
  <2>3. proc' = [proc EXCEPT ![p] = r]
    BY <1>3 DEF Goto
  <2>4. g.tail = << >>
    BY <1>2, Nothing
  <2> HIDE DEF g, r
  <2> QED
    BY <1>1, <1>2, <1>3, <2>1, <2>2, <2>3, <2>4, Nothing, OwnWrites DEF g
<1>4. ASSUME Fault(h), NEW g \in Torn(f, << >>), Exit(p, [disk EXCEPT ![h].log[day] = g])
      PROVE  Floor' /\ History'
  <2>1. FaultTold(h)
    BY <1>2, <1>4, FaultCounts
  <2> QED
    BY <1>1, <1>4, <2>1, Nothing, ExitWrites DEF FaultTold
<1> QED
  BY <1>3, <1>4 DEF RecordStart

LEMMA RecordEndHolds == ASSUME Floor, History, NEW p \in Proc, RecordEnd(p)
                        PROVE  Floor' /\ History'
<1> DEFINE h == HomeOf(p)
           f == Mine(p).log[day]
<1>1. /\ proc[p].pc \in Counting /\ proc[p].pc \in Working /\ UNCHANGED <<current, day>>
  BY DEF RecordEnd, At, Counting, Working, Steps
<1>2. h \in Home /\ past \in [Home -> Pasts]
  BY <1>1, OwnerTyped
<1>3. CASE Exit(p, Write(h, << >>)) /\ UNCHANGED past
  <2>1. Exit(p, [disk EXCEPT ![h].log[day] = Appended(f, << >>)])
    BY <1>3 DEF Write, Mine
  <2> QED
    BY <1>1, <1>2, <1>3, <2>1, Nothing, ExitWrites
<1>4. ASSUME Fault(h), NEW g \in Torn(f, << >>), Exit(p, [disk EXCEPT ![h].log[day] = g])
      PROVE  Floor' /\ History'
  <2>1. FaultTold(h)
    BY <1>2, <1>4, FaultCounts
  <2> QED
    BY <1>1, <1>4, <2>1, Nothing, ExitWrites DEF FaultTold
<1> QED
  BY <1>3, <1>4 DEF RecordEnd

\* A record without an id, or one that fails, while the hub serves.
LEMMA ServeWrites ==
  ASSUME Floor, History, NEW p \in Proc, At(p, "serving"), NEW n \in 0 .. MaxId,
         proc[p].counter <= n, proc' = [proc EXCEPT ![p].counter = n],
         NEW ids, ids = << >> \/ (ids = <<n>> /\ n = proc[p].counter + 1),
         UNCHANGED <<current, day>>,
         \/ disk' = Write(HomeOf(p), ids) /\ ids = << >> /\ UNCHANGED past
         \/ /\ disk' = Write(HomeOf(p), ids) /\ ids = <<n>>
            /\ past' = [past EXCEPT ![HomeOf(p)].said = @ \cup {<<day, n>>}]
         \/ AppendFails(HomeOf(p), ids)
  PROVE  Floor' /\ History'
<1> DEFINE h == HomeOf(p)
           f == Mine(p).log[day]
           r == [proc[p] EXCEPT !.counter = n]
<1>1. proc[p].pc \in Counting /\ proc[p].pc \in Working /\ proc[p].pc \in Open
  BY DEF At, Counting, Working, Steps, Open
<1>2. h \in Home /\ proc[p] \in States /\ past \in [Home -> Pasts] /\ f \in Files /\ day \in Days
      /\ InOrder(Mine(p).log, day)
  BY <1>1, OwnerTyped DEF Floor, Typed, HomeFiles, Logs, History, Mine
<1>3. /\ r \in States /\ r.home = h /\ r.saw = proc[p].saw /\ r.pc = proc[p].pc
      /\ r.counter = n /\ proc' = [proc EXCEPT ![p] = r]
  BY <1>2 DEF States, HomeOf
<1>4. Fresh(p, ids) /\ \A y \in ToSet(ids) : y <= n
  <2>1. proc[p].counter \in Nat /\ n \in Nat
    BY <1>2, BoundAssumption DEF States
  <2>2. CASE ids = << >>
    BY <2>2, Nothing
  <2>3. CASE ids = <<n>> /\ n = proc[p].counter + 1
    <3>1. n \in Ids /\ proc[p].counter < n /\ ToSet(ids) = {n}
      BY <2>1, <2>3 DEF Ids, ToSet
    <3> QED
      BY <2>1, <2>3, <3>1 DEF Fresh
  <2> QED
    BY <2>2, <2>3
<1> HIDE DEF r
<1>5. CASE disk' = Write(h, ids) /\ ids = << >> /\ UNCHANGED past
  <2> DEFINE g == Appended(f, ids)
  <2>1. disk' = [disk EXCEPT ![h].log[day] = g]
    BY <1>5 DEF Write, Mine
  <2>2. g.tail = << >>
    BY <1>2, <1>5, Nothing
  <2> HIDE DEF g
  <2> QED
    BY <1>1, <1>2, <1>3, <1>4, <1>5, <2>1, <2>2, OwnWrites DEF g
<1>6. CASE /\ disk' = Write(h, ids) /\ ids = <<n>>
           /\ past' = [past EXCEPT ![h].said = @ \cup {<<day, n>>}]
  <2> DEFINE g == Appended(f, ids)
  <2>1. disk' = [disk EXCEPT ![h].log[day] = g]
    BY <1>6 DEF Write, Mine
  <2>2. n \in Ids /\ n \in ToSet(ids)
    <3>1. proc[p].counter \in Nat /\ <<n>> # << >>
      BY <1>2, BoundAssumption DEF States
    <3> QED
      BY <1>6, <3>1, BoundAssumption DEF Ids, ToSet
  <2>3. g.tail = << >> /\ (f.tail = << >> => n \in ToSet(g.msgs))
    <3>1. Ascends(f) /\ Record(ids, f)
      BY <1>1, <1>2, <1>4, FreshRecord DEF InOrder
    <3> HIDE DEF f
    <3> QED
      BY <1>2, <2>2, <3>1, AppendedFile
  <2>4. /\ past' \in [Home -> Pasts] /\ past'[h].said = past[h].said \cup {<<day, n>>}
        /\ past'[h].faults = past[h].faults
        /\ \A k \in Home : k # h => past'[k] = past[k]
    BY <1>2, <1>6, <2>2 DEF Pasts
  <2>5. g = Appended(Mine(p).log[day], ids)
    OBVIOUS
  <2> HIDE DEF g
  <2>6. \E k \in Ids :
          /\ past'[HomeOf(p)].said = past[HomeOf(p)].said \cup {<<day, k>>}
          /\ past'[HomeOf(p)].faults = past[HomeOf(p)].faults
          /\ proc[p].pc \in Open /\ g.tail = << >>
          /\ Mine(p).log[day].tail = << >> => k \in ToSet(g.msgs)
    BY <1>1, <2>2, <2>3, <2>4
  <2>7. proc[p].counter <= r.counter /\ \A y \in ToSet(ids) : y <= r.counter
    BY <1>3, <1>4
  <2> QED
    BY ZenonT(30), <1>1, <1>3, <1>4, <2>1, <2>4, <2>5, <2>6, <2>7, OwnWrites
<1>7. CASE AppendFails(h, ids)
  <2>1. PICK g \in Torn(f, ids) : disk' = [disk EXCEPT ![h].log[day] = g]
    BY <1>7 DEF AppendFails, Mine
  <2>2. FaultTold(h)
    BY <1>2, <1>7, FaultCounts DEF AppendFails
  <2> QED
    BY <1>1, <1>3, <1>4, <2>1, <2>2, OwnWrites DEF FaultTold
<1> QED
  BY <1>5, <1>6, <1>7

LEMMA SayHolds == ASSUME Floor, History, NEW p \in Proc, Say(p) PROVE Floor' /\ History'
<1> DEFINE n == proc[p].counter + 1
<1>1. At(p, "serving") /\ n <= MaxId /\ UNCHANGED <<current, day>>
      /\ proc' = [proc EXCEPT ![p].counter = n]
  BY DEF Say
<1>2. proc[p].counter \in Nat
  BY BoundAssumption DEF Floor, Typed, States
<1>3. n \in 0 .. MaxId /\ proc[p].counter <= n
  BY <1>1, <1>2, BoundAssumption
<1>4. \/ /\ disk' = Write(HomeOf(p), <<n>>)
         /\ past' = [past EXCEPT ![HomeOf(p)].said = @ \cup {<<day, n>>}]
      \/ AppendFails(HomeOf(p), <<n>>)
  BY DEF Say
<1> QED
  BY <1>1, <1>3, <1>4, ServeWrites

LEMMA DeliverHolds == ASSUME Floor, History, NEW p \in Proc, Deliver(p) PROVE Floor' /\ History'
<1>1. PICK n \in {proc[p].counter, proc[p].counter + 1} :
        n <= MaxId /\ proc' = [proc EXCEPT ![p].counter = n]
  BY DEF Deliver
<1>2. proc[p].counter \in Nat
  BY BoundAssumption DEF Floor, Typed, States
<1>3. n \in 0 .. MaxId /\ proc[p].counter <= n
  BY <1>1, <1>2, BoundAssumption
<1>4. /\ At(p, "serving") /\ UNCHANGED <<current, day>>
      /\ \/ disk' = Write(HomeOf(p), << >>) /\ UNCHANGED past
         \/ AppendFails(HomeOf(p), << >>)
  BY DEF Deliver
<1> QED
  BY <1>1, <1>3, <1>4, ServeWrites

LEMMA KillHolds == ASSUME Floor, History, NEW p \in Proc, Kill(p) PROVE Floor' /\ History'
<1> DEFINE n == proc[p].counter + 1
           under == IF At(p, "serving") /\ HomeOf(p) \in Talk /\ n <= MaxId THEN <<n>> ELSE << >>
<1>1. UNCHANGED <<current, day, past>>
  BY DEF Kill
<1>2. CASE Exit(p, disk)
  BY <1>1, <1>2, ExitQuietly
<1>3. ASSUME proc[p].pc \in {"recording", "serving", "ending"},
             NEW g \in Torn(Mine(p).log[day], under),
             Exit(p, [disk EXCEPT ![HomeOf(p)].log[day] = g])
      PROVE  Floor' /\ History'
  <2>1. proc[p].pc \in Counting
    BY <1>3 DEF Counting, Working, Steps
  <2>2. proc[p].counter \in Nat /\ past \in [Home -> Pasts]
    BY BoundAssumption DEF Floor, Typed, States
  <2>3. n <= MaxId => n \in Ids /\ proc[p].counter < n
    BY <2>2, BoundAssumption DEF Ids
  <2>4. Fresh(p, under)
    BY <2>3 DEF Fresh
  <2> HIDE DEF under
  <2> QED
    BY <1>1, <1>3, <2>1, <2>2, <2>4, ExitWrites
<1> QED
  BY <1>2, <1>3 DEF Kill

\* A step of one process that leaves the transcripts alone and goes on.
QuietStep(p) ==
  \/ \E h \in Home : Start(p, h)
  \/ AcquireLock(p) /\ MayLock(p)
  \/ Load(p) \/ Unbind(p)
  \/ Bind(p) /\ ~Exit(p, disk)
  \/ Truncate(p) \/ WriteCurrent(p) \/ SetGoal(p) \/ Stop(p) \/ UnlinkSocket(p)
  \/ LookCurrent(p)
  \/ ReadCurrent(p) /\ current # NoHome
  \/ ClearCurrent(p) /\ current # NoHome
  \/ ClearGoal(p)

LEMMA QuietEffect ==
  ASSUME Floor, NEW p \in Proc, QuietStep(p)
  PROVE  /\ \A h \in Home : disk'[h].log = disk[h].log
         /\ UNCHANGED <<day, past>> /\ \A q \in Proc : q # p => proc'[q] = proc[q]
         /\ proc'[p].pc \in Counting =>
              /\ proc'[p].home = HomeOf(p)
              /\ \/ proc[p].pc \in Counting /\ proc'[p].counter = proc[p].counter
                 \/ /\ proc[p].pc = "loading"
                    /\ proc'[p].counter = Largest(RecentMsgs(Mine(p).log, day))
         /\ proc'[p].pc \in Open => proc[p].pc \in Open
<1> USE DEF Floor, Typed, At, Goto, Counting, Working, Open, Steps, HomeOf
<1>1. CASE \E h \in Home : Start(p, h)
  BY <1>1 DEF Start, Off
<1>2. CASE AcquireLock(p) /\ MayLock(p)
  BY <1>2, SMTT(30) DEF AcquireLock, HomeFiles, States
<1>3. CASE Load(p)
  BY <1>3 DEF Load, States
<1>4. CASE Unbind(p) \/ UnlinkSocket(p)
  BY <1>4 DEF Unbind, UnlinkSocket, HomeFiles, States
<1>5. CASE Bind(p) /\ ~Exit(p, disk)
  BY <1>5, SMTT(30) DEF Bind, HomeFiles, States
<1>6. CASE Truncate(p) \/ WriteCurrent(p) \/ LookCurrent(p)
  BY <1>6 DEF Truncate, WriteCurrent, LookCurrent, States
<1>7. CASE SetGoal(p) \/ ClearGoal(p)
  BY <1>7 DEF SetGoal, ClearGoal, HomeFiles, States
<1>8. CASE Stop(p)
  BY <1>8 DEF Stop, HomeFiles, States
<1>9. CASE ReadCurrent(p) /\ current # NoHome
  BY <1>9 DEF ReadCurrent, States
<1>10. CASE ClearCurrent(p) /\ current # NoHome
  BY <1>10 DEF ClearCurrent, States
<1> QED
  BY <1>1, <1>2, <1>3, <1>4, <1>5, <1>6, <1>7, <1>8, <1>9, <1>10 DEF QuietStep

LEMMA QuietHolds == ASSUME Floor, History, NEW p \in Proc, QuietStep(p)
                    PROVE  Floor' /\ History'
<1>1. proc[p].pc = "loading" =>
        /\ Largest(RecentMsgs(Mine(p).log, day)) \in 0 .. MaxId
        /\ UpTo(Mine(p).log, day, Largest(RecentMsgs(Mine(p).log, day)))
  <2> SUFFICES ASSUME proc[p].pc = "loading"
               PROVE  /\ Largest(RecentMsgs(Mine(p).log, day)) \in 0 .. MaxId
                      /\ UpTo(Mine(p).log, day, Largest(RecentMsgs(Mine(p).log, day)))
    OBVIOUS
  <2>1. proc[p].pc \in Working
    BY DEF Working, Steps
  <2>2. HomeOf(p) \in Home /\ Mine(p).log \in Logs /\ day \in Days
    BY <2>1, OwnerTyped DEF HomeFiles, Floor, Typed
  <2>3. InOrder(Mine(p).log, day)
    BY <2>2 DEF History, Mine
  <2> QED
    BY <2>2, <2>3, LargestLoaded
<1>2. Floor'
  BY <1>1, StartFloor, AcquireFloor, LoadFloor, UnbindFloor, BindFloor, TruncateFloor,
     WriteCurrentFloor, SetGoalFloor, StopFloor, UnlinkFloor, LookFloor, ReadFloor,
     ClearFloor, ClearGoalFloor DEF QuietStep, Load, At
<1>3. \A q \in Proc : proc[q].pc \in Counting \cup Open \cup {"loading"} => HomeOf(q) \in Home
  BY DEF Floor, Placed, At, Counting, Working, Open
<1>4. \A q \in Proc :
        /\ proc'[q].pc \in Counting =>
             /\ proc'[q].home = HomeOf(q) /\ HomeOf(q) \in Home
             /\ UpTo(Mine(q).log, day, proc'[q].counter)
        /\ proc'[q].pc \in Open => proc[q].pc \in Open /\ proc'[q].home = HomeOf(q)
                                  /\ HomeOf(q) \in Home
  <2> SUFFICES ASSUME NEW q \in Proc
               PROVE  /\ proc'[q].pc \in Counting =>
                           /\ proc'[q].home = HomeOf(q) /\ HomeOf(q) \in Home
                           /\ UpTo(Mine(q).log, day, proc'[q].counter)
                      /\ proc'[q].pc \in Open =>
                           /\ proc[q].pc \in Open /\ proc'[q].home = HomeOf(q)
                           /\ HomeOf(q) \in Home
    OBVIOUS
  <2>1. proc'[q].pc \in Open => proc'[q].pc \in Counting
    BY DEF Open, Counting, Working, Steps
  <2>2. CASE q = p
    BY <1>1, <1>3, <2>1, <2>2, QuietEffect DEF History, Ahead
  <2>3. CASE q # p
    BY <1>3, <2>1, <2>3, QuietEffect DEF History, Ahead, HomeOf
  <2> QED
    BY <2>2, <2>3
<1> QED
  BY <1>2, <1>4, QuietEffect, QuietHistory

LEMMA MidnightHolds == ASSUME Floor, History, Midnight PROVE Floor' /\ History'
<1>1. /\ day < MaxDay /\ day' = day + 1 /\ UNCHANGED <<disk, current, proc, past>>
      /\ day \in Days /\ day' \in Days /\ day \in Nat
  BY BoundAssumption DEF Midnight, Floor, Typed, Days
<1>2. Floor'
  BY <1>1 DEF Floor, Typed, Placed, Locked, Listens, Parted, At, HomeOf, Mine
<1>3. \A e \in Days : e \in Nat
  BY DEF Days
<1>4. \A h \in Home : InOrder(disk[h].log, day + 1)
  <2> SUFFICES ASSUME NEW h \in Home, NEW e \in Days, e > day + 1
               PROVE  disk[h].log[e] = File
    BY DEF History, InOrder
  <2>1. e > day
    BY <1>1, <1>3
  <2> QED
    BY <2>1 DEF History, InOrder
<1>5. \A p \in Proc : proc[p].pc \in Counting => UpTo(Mine(p).log, day + 1, proc[p].counter)
  BY <1>1, <1>3 DEF History, Ahead, UpTo
<1>6. \A p \in Proc : proc[p].pc \in Open => Mine(p).log[day + 1].tail = << >>
  <2> SUFFICES ASSUME NEW p \in Proc, proc[p].pc \in Open
               PROVE  Mine(p).log[day + 1].tail = << >>
    OBVIOUS
  <2>1. HomeOf(p) \in Home
    BY DEF Open, Floor, Placed, At
  <2>2. Mine(p).log[day + 1] = File
    BY <1>1, <2>1 DEF History, InOrder, Mine
  <2> QED
    BY <2>2 DEF File
<1>7. (\A h \in Home : InOrder(disk[h].log, day))' /\ Ahead'
  BY <1>1, <1>4, <1>5 DEF Ahead, Mine, HomeOf
<1>8. Accounted'
  BY <1>1, <1>6 DEF History, Accounted, Mine, HomeOf
<1> QED
  BY <1>2, <1>7, <1>8 DEF History

LEMMA InitHistory == Init => History
<1> SUFFICES ASSUME Init PROVE History
  OBVIOUS
<1>1. \A h \in Home, e \in Days : disk[h].log[e] = File
  BY DEF Init, Days
<1>2. Ascends(File)
  <2>1. File \in Files /\ File.tail = << >> /\ File.msgs = << >>
    BY FileUnread DEF File
  <2>2. Readable(File) = << >>
    BY <2>1, ReadableFile
  <2> QED
    BY <2>2 DEF Ascends, Rising
<1>3. \A h \in Home : InOrder(disk[h].log, day)
  <2>1. \A e \in Days : e > 0 => e - 1 \in Days
    BY BoundAssumption DEF Days
  <2> QED
    BY <1>1, <1>2, <2>1, FileUnread DEF InOrder
<1>4. \A p \in Proc : proc[p].pc = "off"
  BY DEF Init, Off
<1>5. Ahead
  BY <1>4 DEF Ahead, Counting, Working
<1>6. Accounted
  <2>1. \A h \in Home : past[h].said = {} /\ past[h].faults = 0
    BY DEF Init
  <2>2. \A h \in Home : Lost(past[h].said, disk[h].log) = {}
    BY <2>1 DEF Lost
  <2>3. Cardinality({}) = 0
    BY FS_EmptySet
  <2>4. \A h \in Home : Cardinality(Lost(past[h].said, disk[h].log)) <= past[h].faults
    BY <2>1, <2>2, <2>3
  <2>5. "off" \notin Open
    BY DEF Open
  <2> QED
    BY <1>4, <2>4, <2>5 DEF Accounted
<1> QED
  BY <1>3, <1>5, <1>6 DEF History

LEMMA StepHolds == Floor /\ History /\ [Next]_vars => Floor' /\ History'
<1> SUFFICES ASSUME Floor, History, [Next]_vars PROVE Floor' /\ History'
  OBVIOUS
<1>1. CASE Midnight
  BY <1>1, MidnightHolds
<1>2. ASSUME NEW p \in Proc, QuietStep(p) PROVE Floor' /\ History'
  BY <1>2, QuietHolds
<1>3. ASSUME NEW p \in Proc, AcquireLock(p) \/ Bind(p) \/ ReadCurrent(p) \/ ClearCurrent(p)
      PROVE  Floor' /\ History'
  <2>1. QuietStep(p) \/ (Exit(p, disk) /\ UNCHANGED <<day, past>> /\ current' \in {current, NoHome})
    BY <1>3 DEF QuietStep, AcquireLock, Bind, ReadCurrent, ClearCurrent
  <2> QED
    BY <1>2, <2>1, ExitQuietly
<1>4. ASSUME NEW p \in Proc,
             RecordStart(p) \/ RecordEnd(p) \/ Say(p) \/ Deliver(p) \/ Kill(p)
      PROVE  Floor' /\ History'
  BY <1>4, RecordStartHolds, RecordEndHolds, SayHolds, DeliverHolds, KillHolds
<1>5. CASE UNCHANGED vars
  <2>1. UNCHANGED <<disk, current, day, proc, past>>
    BY <1>5 DEF vars
  <2>2. Floor'
    BY <2>1 DEF Floor, Typed, Placed, Locked, Listens, Parted, At, HomeOf, Mine
  <2>3. History'
    BY <2>1 DEF History, Ahead, Accounted, HomeOf, Mine
  <2> QED
    BY <2>2, <2>3
<1> QED
  BY <1>1, <1>2, <1>3, <1>4, <1>5 DEF Next, Startup, Serve, Teardown, QuietStep

\* The inductive invariant of the process of a hub and its files
\* (core/server.py, serve and new_hub).
THEOREM ProcessInvariance == Spec => [](Floor /\ History)
<1>1. Init => Floor /\ History
  BY InitFloor, InitHistory
<1> QED
  BY <1>1, StepHolds, PTL DEF Spec

\* From its bind to its stop a hub listens on the socket of its home, and one
\* that has cleaned up has left no socket, no pointer and no goal, whatever
\* other processes were started, stopped or killed (serve's teardown).
THEOREM HomeIsItsOwnAlways == Spec => []HomeIsItsOwn
<1>1. Floor /\ History => HomeIsItsOwn
  BY DEF Floor, Listens, Parted, At, HomeIsItsOwn
<1> QED
  BY <1>1, ProcessInvariance, PTL

\* The pointer to a hub that serves changes by hubs of other homes only: one
\* that starts, or one that stops and has read its own home there
\* (write_current, clear_current).
THEOREM RendezvousIsKept == Spec => RendezvousKept
<1>1. Floor /\ History /\ [Next]_vars =>
        [\A p \in Proc : (At(p, "serving") /\ current = HomeOf(p)) =>
           \/ current' = current \/ ~At(p, "serving")'
           \/ \E q \in Proc : /\ HomeOf(q) # HomeOf(p)
                              /\ \/ proc[q].pc \in {"pointing", "writing"}
                                 \/ (At(q, "clearing") /\ proc[q].saw = HomeOf(q))]_vars
  <2> SUFFICES ASSUME Floor, Next, NEW p \in Proc, At(p, "serving"), current' # current
               PROVE  \E q \in Proc :
                        /\ HomeOf(q) # HomeOf(p)
                        /\ \/ proc[q].pc \in {"pointing", "writing"}
                           \/ (At(q, "clearing") /\ proc[q].saw = HomeOf(q))
    BY DEF vars
  <2>1. PICK q \in Proc : Truncate(q) \/ WriteCurrent(q) \/ ClearCurrent(q)
    BY DEF Next, Start, Startup, AcquireLock, Load, RecordStart, Unbind, Bind, Serve, Say,
           Deliver, SetGoal, Stop, Teardown, UnlinkSocket, LookCurrent, ReadCurrent,
           ClearGoal, RecordEnd, Kill, Midnight
  <2>2. proc[q].pc \in {"pointing", "writing", "clearing"}
    BY <2>1 DEF Truncate, WriteCurrent, ClearCurrent, At
  <2>3. q # p /\ proc[q].pc \in Working /\ proc[p].pc \in Working
    BY <2>2 DEF At, Working, Steps
  <2>4. HomeOf(q) # HomeOf(p)
    BY <2>3, Alone DEF Floor
  <2> QED
    BY <2>2, <2>4 DEF Floor, Parted, At
<1> QED
  BY <1>1, ProcessInvariance, PTL DEF Spec, RendezvousKept

\* What is written to the transcript can be read back: ids ascend within a day
\* and over midnight, and no more says are lost than appends failed, whatever
\* was killed, torn or started again (core/transcript.py).
THEOREM HistoryIsKept == Spec => []HistoryKept
<1>1. Floor => ProcessTypeOK
  <2> SUFFICES ASSUME Floor PROVE ProcessTypeOK
    OBVIOUS
  <2>1. /\ day \in 0 .. MaxDay /\ current \in Home \cup {NoHome, Blank}
        /\ \A p \in Proc : proc[p].pc \in Steps /\ proc[p].counter \in 0 .. MaxId
        /\ \A p \in Proc : proc[p] = Off \/ HomeOf(p) \in Home
    BY DEF Floor, Typed, Days, States, Placed
  <2>2. ASSUME NEW h \in Home
        PROVE  /\ disk[h].lock \in {NoProc} \cup {p \in Proc : HomeOf(p) = h}
               /\ disk[h].socket \in {NoProc, Stale} \cup {p \in Proc : HomeOf(p) = h}
               /\ disk[h].goal \in BOOLEAN
    BY DEF Floor, Typed, HomeFiles, Placed
  <2>3. ASSUME NEW h \in Home, NEW d \in 0 .. MaxDay
        PROVE  ToSet(Readable(disk[h].log[d])) \subseteq 1 .. MaxId
    <3>1. disk[h].log[d] \in Files
      BY DEF Floor, Typed, HomeFiles, Logs, Days
    <3> QED
      BY <3>1, ReadableFile DEF Known, Ids
  <2> QED
    BY <2>1, <2>2, <2>3 DEF ProcessTypeOK
<1>2. Floor /\ History => IdsAscend
  <2> SUFFICES ASSUME Floor, History, NEW h \in Home, NEW d \in 0 .. day
               PROVE  Rising((IF d = 0 THEN << >> ELSE Readable(disk[h].log[d - 1]))
                               \o Readable(disk[h].log[d]))
    BY DEF IdsAscend, Rising
  <2> DEFINE log == disk[h].log
             y == IF d = 0 THEN << >> ELSE Readable(log[d - 1])
             t == Readable(log[d])
  <2>1. d \in Days /\ (d # 0 => d - 1 \in Days /\ d > 0)
        /\ log \in Logs /\ InOrder(log, day)
    BY BoundAssumption DEF Floor, Typed, HomeFiles, History, Days
  <2>2. \A e \in Days : Readable(log[e]) \in Seq(Ids) /\ Rising(Readable(log[e]))
    <3>1. \A e \in Days : log[e] \in Files /\ Ascends(log[e])
      BY <2>1 DEF Logs, InOrder
    <3> QED
      BY <3>1, ReadableFile DEF Ascends
  <2>3. /\ t \in Seq(Ids) /\ Rising(t) /\ y \in Seq(Ids) /\ Rising(y)
        /\ \A a \in ToSet(y), b \in ToSet(t) : a < b
    <3>1. CASE d = 0
      BY <2>1, <2>2, <3>1 DEF Rising, ToSet
    <3>2. CASE d # 0
      <4>1. /\ y = Readable(log[d - 1]) /\ d > 0
            /\ \A a \in Known(log[d - 1]), b \in Known(log[d]) : a < b
        BY <2>1, <3>2 DEF InOrder
      <4> QED
        BY <2>1, <2>2, <3>2, <4>1 DEF Known
    <3> QED
      BY <3>1, <3>2
  <2> HIDE DEF y, t
  <2>4. Rising(y \o t)
    <3>1. \A i \in DOMAIN y, j \in DOMAIN t : y[i] < t[j]
      BY <2>3 DEF ToSet
    <3>2. /\ DOMAIN (y \o t) = 1 .. Len(y) + Len(t) /\ Len(y) \in Nat /\ Len(t) \in Nat
          /\ DOMAIN y = 1 .. Len(y) /\ DOMAIN t = 1 .. Len(t)
          /\ \A i \in DOMAIN (y \o t) : (y \o t)[i] = IF i <= Len(y) THEN y[i] ELSE t[i - Len(y)]
      BY <2>3
    <3> DEFINE both == y \o t
    <3> HIDE DEF both
    <3> SUFFICES ASSUME NEW i \in DOMAIN both, NEW j \in DOMAIN both, i < j
                 PROVE  both[i] < both[j]
      BY DEF Rising, both
    <3>3. CASE j <= Len(y)
      BY <2>3, <3>2, <3>3 DEF Rising, both
    <3>4. CASE i <= Len(y) /\ j > Len(y)
      <4>1. i \in DOMAIN y /\ j - Len(y) \in DOMAIN t
        BY <3>2, <3>4 DEF both
      <4> QED
        BY <3>1, <3>2, <3>4, <4>1 DEF both
    <3>5. CASE i > Len(y)
      <4>1. /\ i - Len(y) \in DOMAIN t /\ j - Len(y) \in DOMAIN t /\ i - Len(y) < j - Len(y)
            /\ j > Len(y)
        BY <3>2, <3>5 DEF both
      <4>2. both[i] = t[i - Len(y)] /\ both[j] = t[j - Len(y)]
        BY <3>2, <3>5, <4>1 DEF both
      <4> QED
        BY <2>3, <4>1, <4>2 DEF Rising
    <3> QED
      BY <3>2, <3>3, <3>4, <3>5 DEF both
  <2> QED
    BY <2>4 DEF y, t
<1>3. Floor /\ History => LossFollowsFault
  <2> SUFFICES ASSUME Floor, History, NEW h \in Home
               PROVE  Cardinality({x \in past[h].said :
                                     x[2] \notin ToSet(Readable(disk[h].log[x[1]]))})
                        <= past[h].faults
    BY DEF LossFollowsFault
  <2> DEFINE S == {x \in past[h].said : x[2] \notin ToSet(Readable(disk[h].log[x[1]]))}
             L == Lost(past[h].said, disk[h].log)
  <2>1. past[h].said \in SUBSET (Days \X Ids) /\ disk[h].log \in Logs /\ past[h].faults \in Nat
    BY DEF Floor, Typed, Pasts, HomeFiles
  <2>2. \A e \in Days : ToSet(disk[h].log[e].msgs) \subseteq ToSet(Readable(disk[h].log[e]))
    <3>1. \A e \in Days : disk[h].log[e] \in Files
      BY <2>1 DEF Logs
    <3> QED
      BY <3>1, ReadableFile DEF Known
  <2>3. \A x \in past[h].said : x[1] \in Days
    BY <2>1
  <2>4. S \subseteq L
    BY <2>2, <2>3 DEF Lost
  <2>5. Cardinality(L) <= past[h].faults /\ IsFiniteSet(L)
    BY <2>1, LostFinite DEF History, Accounted
  <2> HIDE DEF S, L
  <2>6. Cardinality(S) <= Cardinality(L) /\ Cardinality(S) \in Nat /\ Cardinality(L) \in Nat
    BY <2>4, <2>5, FewerLost
  <2>7. Cardinality(S) <= past[h].faults
    BY <2>1, <2>5, <2>6
  <2> QED
    BY <2>7 DEF S
<1>4. Floor /\ History => HistoryKept
  BY <1>1, <1>2, <1>3 DEF HistoryKept
<1> QED
  BY <1>4, ProcessInvariance, PTL

-----------------------------------------------------------------------------
(* The gate of an agent's says, for any rate, burst, windows and messages: *)
(* the rate bound over every span, and the spacing of identical says.      *)
(*                                                                         *)
(* RateBound speaks of pairs of takes.  What makes it inductive is Budget: *)
(* counted from any take to this moment, the tokens taken and the tokens   *)
(* left are covered by the burst and the refill since.                     *)

Budget ==
  \A i \in DOMAIN takes :
    tokens + (Len(takes) - i + 1) * Window <= Full + (refilled - takes[i]) * Messages

TakesPast == \A i \in DOMAIN takes : takes[i] <= refilled

\* A say that passed within the window is still on record.
Remembered ==
  /\ \A k \in DOMAIN seen : seen[k] <= now
  /\ \A i \in DOMAIN sent :
       /\ sent[i].at <= now
       /\ now - sent[i].at <= Dedup =>
            /\ sent[i].key \in DOMAIN seen
            /\ seen[sent[i].key] >= sent[i].at

\* What is on record stands for a say that passed at that time.
Founded ==
  \A k \in DOMAIN seen : \E i \in DOMAIN sent : sent[i].key = k /\ sent[i].at = seen[k]

\* As long as no take came after it, the last refusal was the last refill, and
\* what it said was missing makes a whole token with what is there.
ToldTrue == told.missing > 0 => told.at = refilled /\ tokens + told.missing = Window

GateInv ==
  /\ GateTypeOK /\ Budget /\ TakesPast /\ RateBound /\ Remembered /\ NoTwins
  /\ Founded /\ ToldTrue

-----------------------------------------------------------------------------

\* The capacity in parts of a token is a positive number, at least one token.
LEMMA FullIsANumber == Full \in Nat /\ Full >= Window
<1>1. \A b \in Nat \ {0}, w \in Nat \ {0} : b * w \in Nat /\ b * w >= w
  OBVIOUS
<1> QED
  BY <1>1, GateAssumption DEF Full

\* A product over a span is the sum of the products over its parts.
LEMMA Spans ==
  ASSUME NEW a \in Int, NEW b \in Int, NEW m \in Int
  PROVE  (a + b) * m = a * m + b * m /\ a * m \in Int
OBVIOUS

\* The refill is a number, no more than what time brought back.
LEMMA RefillBounds ==
  ASSUME GateTypeOK
  PROVE  /\ Refill \in 0 .. Full
         /\ Refill <= tokens + (now - refilled) * Messages
<1>1. \A d \in Nat, m \in Nat : d * m \in Nat
  OBVIOUS
<1>2. now - refilled \in Nat /\ tokens \in Nat
  BY FullIsANumber DEF GateTypeOK
<1>3. (now - refilled) * Messages \in Nat
  BY <1>1, <1>2, GateAssumption
<1> QED
  BY <1>2, <1>3, FullIsANumber DEF Refill

\* _refill alone keeps the budget of every take.
LEMMA RefillKeepsBudget ==
  ASSUME GateTypeOK, Budget, NEW i \in DOMAIN takes
  PROVE  Refill + (Len(takes) - i + 1) * Window <= Full + (now - takes[i]) * Messages
<1>1. takes[i] \in Nat /\ now \in Nat /\ refilled \in Nat /\ tokens \in Nat
  BY FullIsANumber DEF GateTypeOK
<1>2. (now - takes[i]) * Messages
        = (now - refilled) * Messages + (refilled - takes[i]) * Messages
  <2>1. ((now - refilled) + (refilled - takes[i])) * Messages
          = (now - refilled) * Messages + (refilled - takes[i]) * Messages
    BY <1>1, Spans, GateAssumption
  <2>2. (now - refilled) + (refilled - takes[i]) = now - takes[i]
    BY <1>1
  <2> QED
    BY <2>1, <2>2
<1>3. (now - refilled) * Messages \in Int /\ (refilled - takes[i]) * Messages \in Int
  BY <1>1, Spans, GateAssumption
<1>4. (Len(takes) - i + 1) * Window \in Int
  <2>1. Len(takes) - i + 1 \in Int
    BY DEF GateTypeOK
  <2> QED
    BY <2>1, Spans, GateAssumption
<1> QED
  <2> DEFINE N == (Len(takes) - i + 1) * Window
             A == (now - refilled) * Messages
             B == (refilled - takes[i]) * Messages
  <2>1. tokens + N <= Full + B
    BY DEF Budget
  <2>2. Refill <= tokens + A /\ Refill \in Int
    BY RefillBounds
  <2>3. N \in Int /\ A \in Int /\ B \in Int /\ tokens \in Int /\ Full \in Int
    BY <1>1, <1>3, <1>4, FullIsANumber
  <2> HIDE DEF N, A, B
  <2>4. Refill + N <= Full + (A + B)
    BY <2>1, <2>2, <2>3
  <2> QED
    BY <2>4, <1>2 DEF N, A, B

-----------------------------------------------------------------------------

\* A say that passed has a time.
LEMMA SentTimes ==
  ASSUME GateTypeOK
  PROVE  \A i \in DOMAIN sent : sent[i].at \in Nat /\ sent[i].key \in Key
<1> DEFINE S == [key : Key, at : Nat]
<1>1. \A i \in DOMAIN sent : sent[i] \in S
  <2>1. sent \in Seq(S) /\ DOMAIN sent = 1 .. Len(sent)
    BY DEF GateTypeOK
  <2> HIDE DEF S
  <2> QED
    BY <2>1, ElementOfSeq
<1> QED
  BY <1>1

LEMMA InitGate == GateInit => GateInv
<1> SUFFICES ASSUME GateInit PROVE GateInv
  OBVIOUS
<1>1. GateTypeOK
  <2>1. DOMAIN seen = {}
    BY DEF GateInit
  <2> QED
    BY <2>1, FullIsANumber DEF GateInit, GateTypeOK, Times, NoRefusal
<1>2. DOMAIN takes = {} /\ DOMAIN sent = {} /\ DOMAIN seen = {}
  BY DEF GateInit
<1> QED
  BY <1>1, <1>2 DEF GateInv, Budget, TakesPast, RateBound, Remembered, NoTwins,
                    Founded, ToldTrue, GateInit, NoRefusal

\* Time that passes wears nothing out.
LEMMA PassKeeps == GateInv /\ Pass => GateInv'
<1> SUFFICES ASSUME GateInv, Pass PROVE GateInv'
  OBVIOUS
<1>1. GateTypeOK'
  BY DEF Pass, GateInv, GateTypeOK
<1>2. Budget' /\ TakesPast' /\ RateBound' /\ NoTwins'
  BY DEF Pass, GateInv, Budget, TakesPast, RateBound, NoTwins, Full
<1>3. Remembered'
  <2>1. now \in Nat /\ Dedup \in Nat /\ sent \in Seq([key : Key, at : Nat])
        /\ \A k \in DOMAIN seen : seen[k] \in Nat
    BY GateAssumption DEF GateInv, GateTypeOK, Times
  <2>2. \A i \in DOMAIN sent : sent[i].at \in Nat
    BY SentTimes DEF GateInv
  <2>3. \A k \in DOMAIN seen' : seen'[k] <= now'
    BY <2>1 DEF Pass, GateInv, Remembered
  <2>4. \A i \in DOMAIN sent' :
          /\ sent'[i].at <= now'
          /\ now' - sent'[i].at <= Dedup =>
               sent'[i].key \in DOMAIN seen' /\ seen'[sent'[i].key] >= sent'[i].at
    BY <2>1, <2>2 DEF Pass, GateInv, Remembered
  <2> QED
    BY <2>3, <2>4 DEF Remembered
<1>4. Founded' /\ ToldTrue'
  BY DEF Pass, GateInv, Founded, ToldTrue
<1> QED
  BY <1>1, <1>2, <1>3, <1>4 DEF GateInv

LEMMA RefusedKeeps ==
  ASSUME NEW k \in Key, GateInv, GateSay(k), Refused
  PROVE  GateInv'
<1>1. Refill \in 0 .. Full /\ Refill < Window
  BY RefillBounds DEF GateInv, Refused
<1>2. tokens' = Refill /\ refilled' = now /\ now' = now
  <2>1. ~(Refill >= Window)
    BY <1>1, GateAssumption, FullIsANumber
  <2> QED
    BY <2>1 DEF GateSay
<1>3. GateTypeOK'
  <2>1. told' \in [at : Nat, missing : Nat]
    BY <1>1, GateAssumption, FullIsANumber DEF Refused, Missing, GateInv, GateTypeOK
  <2> QED
    BY <1>1, <1>2, <2>1 DEF Refused, GateInv, GateTypeOK
<1>4. Budget'
  <2>1. takes' = takes
    BY DEF Refused
  <2>2. \A i \in DOMAIN takes :
          Refill + (Len(takes) - i + 1) * Window <= Full + (now - takes[i]) * Messages
    BY RefillKeepsBudget DEF GateInv
  <2> QED
    BY <1>2, <2>1, <2>2 DEF Budget, Full
<1>5. TakesPast'
  BY <1>2, GateAssumption DEF Refused, GateInv, GateTypeOK, TakesPast
<1>6. RateBound' /\ NoTwins' /\ Remembered'
  BY <1>2 DEF Refused, GateInv, RateBound, NoTwins, Remembered, Full
<1>7. Founded' /\ ToldTrue'
  <2>1. Founded'
    BY DEF Refused, GateInv, Founded
  <2>2. told'.at = now /\ told'.missing = Window - Refill
    BY DEF Refused, Missing
  <2>3. Refill \in Int /\ Window \in Int
    BY <1>1, FullIsANumber, GateAssumption
  <2> QED
    BY <1>2, <2>1, <2>2, <2>3 DEF ToldTrue
<1> QED
  BY <1>3, <1>4, <1>5, <1>6, <1>7 DEF GateInv

\* The bucket's half of a say that gets its token.
LEMMA TakeKeepsRate ==
  ASSUME NEW k \in Key, GateInv, GateSay(k), Checked(k)
  PROVE  Budget' /\ TakesPast' /\ RateBound'
<1>1. /\ Refill \in 0 .. Full /\ Refill >= Window
      /\ tokens' = Refill - Window /\ refilled' = now /\ takes' = Append(takes, now)
      /\ takes \in Seq(Nat) /\ now \in Nat
  BY RefillBounds DEF GateInv, GateTypeOK, Checked, GateSay
<1>2. /\ DOMAIN takes' = DOMAIN takes \cup {Len(takes) + 1}
      /\ Len(takes') = Len(takes) + 1 /\ takes'[Len(takes) + 1] = now
      /\ \A i \in DOMAIN takes : takes'[i] = takes[i] /\ i \in 1 .. Len(takes)
  BY <1>1
<1>3. \A i \in DOMAIN takes' :
        tokens' + (Len(takes') - i + 1) * Window <= Full + (now - takes'[i]) * Messages
  <2> SUFFICES ASSUME NEW i \in DOMAIN takes'
               PROVE  tokens' + (Len(takes') - i + 1) * Window
                        <= Full + (now - takes'[i]) * Messages
    OBVIOUS
  <2>1. CASE i \in DOMAIN takes
    <3>1. Refill + (Len(takes) - i + 1) * Window <= Full + (now - takes[i]) * Messages
      BY <2>1, RefillKeepsBudget DEF GateInv
    <3>2. ((Len(takes) - i + 1) + 1) * Window = (Len(takes) - i + 1) * Window + Window
          /\ (Len(takes) - i + 1) * Window \in Int
      <4>1. Len(takes) - i + 1 \in Int /\ Window \in Int
        BY <1>1, <1>2, <2>1, GateAssumption
      <4> QED
        BY <4>1, Spans
    <3>3. (Len(takes') - i + 1) = (Len(takes) - i + 1) + 1
      BY <1>1, <1>2, <2>1
    <3>4. (now - takes[i]) * Messages \in Int
      <4>1. now - takes[i] \in Int
        BY <1>1, <2>1
      <4> QED
        BY <4>1, Spans, GateAssumption
    <3> DEFINE N == (Len(takes) - i + 1) * Window
               A == (now - takes[i]) * Messages
    <3>5. N \in Int /\ A \in Int /\ Refill + N <= Full + A
      BY <3>1, <3>2, <3>4
    <3> HIDE DEF N, A
    <3>6. (Refill - Window) + (N + Window) <= Full + A
      BY <3>5, <1>1, FullIsANumber, GateAssumption
    <3> QED
      BY <3>2, <3>3, <3>6, <1>1, <1>2, <2>1 DEF N, A
  <2>2. CASE i = Len(takes) + 1
    <3>1. Len(takes') - i + 1 = 1 /\ now - takes'[i] = 0
      BY <1>1, <1>2, <2>2
    <3>2. 1 * Window = Window /\ 0 * Messages = 0
      BY GateAssumption
    <3>3. tokens' + Window <= Full + 0
      BY <1>1, FullIsANumber, GateAssumption
    <3> QED
      BY <3>1, <3>2, <3>3
  <2> QED
    BY <2>1, <2>2, <1>2
<1>4. Budget'
  BY <1>1, <1>3 DEF Budget, Full
<1>5. TakesPast'
  BY <1>1, <1>2 DEF GateInv, GateTypeOK, TakesPast
<1>6. RateBound'
  <2> SUFFICES ASSUME NEW i \in DOMAIN takes', NEW j \in DOMAIN takes', i <= j
               PROVE  (j - i + 1) * Window <= Full + (takes'[j] - takes'[i]) * Messages
    BY DEF RateBound, Full
  <2>1. CASE j \in DOMAIN takes
    <3>1. i \in DOMAIN takes
      BY <1>1, <1>2, <2>1
    <3> QED
      BY <1>2, <2>1, <3>1 DEF GateInv, RateBound
  <2>2. CASE j = Len(takes) + 1
    <3>1. tokens' + (j - i + 1) * Window <= Full + (takes'[j] - takes'[i]) * Messages
      BY <1>2, <1>3, <2>2
    <3>2. (j - i + 1) * Window \in Int
      <4>1. j - i + 1 \in Int
        BY <1>1, <1>2
      <4> QED
        BY <4>1, Spans, GateAssumption
    <3>3. (takes'[j] - takes'[i]) * Messages \in Int
      <4>1. takes'[j] - takes'[i] \in Int
        BY <1>1, <1>2
      <4> QED
        BY <4>1, Spans, GateAssumption
    <3>4. tokens' >= 0 /\ tokens' \in Int /\ Full \in Int
      BY <1>1, FullIsANumber, GateAssumption
    <3> QED
      BY <3>1, <3>2, <3>3, <3>4
  <2> QED
    BY <2>1, <2>2, <1>2
<1> QED
  BY <1>4, <1>5, <1>6

\* The window's half of it: what passed is on record, once.
LEMMA CheckKeepsSpacing ==
  ASSUME NEW k \in Key, GateInv, GateSay(k), Checked(k)
  PROVE  Remembered' /\ NoTwins'
<1>1. /\ now \in Nat /\ Dedup \in Nat /\ now' = now
      /\ sent \in Seq([key : Key, at : Nat])
      /\ \A j \in DOMAIN seen : seen[j] \in Nat /\ seen[j] <= now
  BY GateAssumption DEF GateInv, GateTypeOK, Times, GateSay, Remembered
<1>2. /\ DOMAIN seen' = OnRecord \cup {k}
      /\ \A j \in OnRecord : seen'[j] = seen[j] /\ j \in DOMAIN seen
      /\ k \notin OnRecord => seen'[k] = now
  BY DEF Checked, Recorded, OnRecord
<1>3. \A i \in DOMAIN sent : now - sent[i].at <= Dedup =>
        sent[i].key \in OnRecord /\ seen[sent[i].key] >= sent[i].at
  <2>1. \A i \in DOMAIN sent : sent[i].at \in Nat
    BY SentTimes DEF GateInv
  <2> QED
    BY <1>1, <2>1 DEF GateInv, Remembered, OnRecord
<1>4. CASE k \in OnRecord
  <2>1. sent' = sent
    BY <1>4 DEF Checked
  <2>2. Remembered'
    BY <1>1, <1>2, <1>3, <1>4, <2>1 DEF GateInv, Remembered
  <2> QED
    BY <2>1, <2>2 DEF GateInv, NoTwins
<1>5. CASE k \notin OnRecord
  <2>1. /\ sent' = Append(sent, [key |-> k, at |-> now])
        /\ DOMAIN sent' = DOMAIN sent \cup {Len(sent) + 1}
        /\ \A i \in DOMAIN sent : sent'[i] = sent[i] /\ i \in 1 .. Len(sent)
        /\ sent'[Len(sent) + 1] = [key |-> k, at |-> now]
    BY <1>1, <1>5 DEF Checked
  <2>2. Remembered'
    <3>1. \A j \in DOMAIN seen' : seen'[j] <= now'
      BY <1>1, <1>2, <1>5
    <3>2. \A i \in DOMAIN sent' :
            /\ sent'[i].at <= now'
            /\ now' - sent'[i].at <= Dedup =>
                 sent'[i].key \in DOMAIN seen' /\ seen'[sent'[i].key] >= sent'[i].at
      <4> SUFFICES ASSUME NEW i \in DOMAIN sent'
                   PROVE  /\ sent'[i].at <= now'
                          /\ now' - sent'[i].at <= Dedup =>
                               /\ sent'[i].key \in DOMAIN seen'
                               /\ seen'[sent'[i].key] >= sent'[i].at
        OBVIOUS
      <4>1. CASE i \in DOMAIN sent
        BY <4>1, <1>1, <1>2, <1>3, <2>1 DEF GateInv, Remembered
      <4>2. CASE i = Len(sent) + 1
        BY <4>2, <1>1, <1>2, <1>5, <2>1
      <4> QED
        BY <4>1, <4>2, <2>1
    <3> QED
      BY <3>1, <3>2 DEF Remembered
  <2>3. NoTwins'
    <3> SUFFICES ASSUME NEW i \in DOMAIN sent', NEW j \in DOMAIN sent',
                        i < j, sent'[i].key = sent'[j].key
                 PROVE  sent'[j].at - sent'[i].at > Dedup
      BY DEF NoTwins
    <3>1. i \in DOMAIN sent
      BY <1>1, <2>1
    <3>2. CASE j \in DOMAIN sent
      BY <2>1, <3>1, <3>2 DEF GateInv, NoTwins
    <3>3. CASE j = Len(sent) + 1
      <4>1. sent[i].key = k /\ sent[i].at \in Nat
        BY <2>1, <3>1, <3>3, SentTimes DEF GateInv
      <4>2. ~(now - sent[i].at <= Dedup)
        BY <1>3, <1>5, <3>1, <4>1
      <4> QED
        BY <1>1, <2>1, <3>1, <3>3, <4>1, <4>2
    <3> QED
      BY <2>1, <3>2, <3>3
  <2> QED
    BY <2>2, <2>3
<1> QED
  BY <1>4, <1>5

\* Only a say that passes starts a record.
LEMMA CheckKeepsFounded ==
  ASSUME NEW k \in Key, GateInv, GateSay(k), Checked(k)
  PROVE  Founded'
<1>1. /\ DOMAIN seen' = OnRecord \cup {k}
      /\ \A j \in OnRecord : seen'[j] = seen[j] /\ j \in DOMAIN seen
      /\ k \notin OnRecord => seen'[k] = now
  BY DEF Checked, Recorded, OnRecord
<1>2. \A i \in DOMAIN sent : i \in DOMAIN sent' /\ sent'[i] = sent[i]
  BY DEF Checked, GateInv, GateTypeOK
<1>3. k \notin OnRecord =>
        \E i \in DOMAIN sent' : sent'[i].key = k /\ sent'[i].at = now
  <2> SUFFICES ASSUME k \notin OnRecord
               PROVE  \E i \in DOMAIN sent' : sent'[i].key = k /\ sent'[i].at = now
    OBVIOUS
  <2>1. /\ sent' = Append(sent, [key |-> k, at |-> now])
        /\ Len(sent) + 1 \in DOMAIN sent'
        /\ sent'[Len(sent) + 1] = [key |-> k, at |-> now]
    BY DEF Checked, GateInv, GateTypeOK
  <2> QED
    BY <2>1
<1> QED
  BY <1>1, <1>2, <1>3 DEF Founded, GateInv

LEMMA CheckedKeeps ==
  ASSUME NEW k \in Key, GateInv, GateSay(k), Checked(k)
  PROVE  GateInv'
<1>1. GateTypeOK'
  <2>1. /\ now' = now /\ now \in Nat /\ refilled' = now
        /\ takes' \in Seq(Nat) /\ told' \in [at : Nat, missing : Nat]
    BY DEF GateInv, GateTypeOK, Checked, GateSay, NoRefusal
  <2>2. tokens' \in 0 .. Full
    BY RefillBounds, FullIsANumber, GateAssumption DEF GateInv, Checked, GateSay
  <2>3. sent' \in Seq([key : Key, at : Nat])
    <3>1. [key |-> k, at |-> now] \in [key : Key, at : Nat]
      BY <2>1
    <3> DEFINE S == [key : Key, at : Nat]
    <3>2. sent \in Seq(S) /\ [key |-> k, at |-> now] \in S
      BY <3>1 DEF GateInv, GateTypeOK
    <3> HIDE DEF S
    <3>3. Append(sent, [key |-> k, at |-> now]) \in Seq(S)
      BY <3>2, AppendProperties
    <3> QED
      BY <3>2, <3>3 DEF Checked, S
  <2>4. DOMAIN seen' \subseteq Key /\ Times(seen')
    BY DEF GateInv, GateTypeOK, Times, Checked, Recorded, OnRecord
  <2> QED
    BY <2>1, <2>2, <2>3, <2>4 DEF GateTypeOK, Full
<1>2. ToldTrue'
  BY DEF Checked, NoRefusal, ToldTrue
<1> QED
  BY <1>1, <1>2, TakeKeepsRate, CheckKeepsSpacing, CheckKeepsFounded DEF GateInv

-----------------------------------------------------------------------------

\* The inductive invariant of the gate (TokenBucket.take, DedupWindow.seen).
THEOREM GateInvariance == GateSpec => []GateInv
<1>1. GateInit => GateInv
  BY InitGate
<1>2. GateInv /\ [GateNext]_gateVars => GateInv'
  <2> SUFFICES ASSUME GateInv, [GateNext]_gateVars PROVE GateInv'
    OBVIOUS
  <2>1. CASE Pass
    BY <2>1, PassKeeps
  <2>2. ASSUME NEW k \in Key, GateSay(k) PROVE GateInv'
    <3>1. CASE Refused
      BY <2>2, <3>1, RefusedKeeps
    <3>2. CASE Checked(k)
      BY <2>2, <3>2, CheckedKeeps
    <3> QED
      BY <2>2, <3>1, <3>2 DEF GateSay
  <2>3. CASE UNCHANGED gateVars
    BY <2>3 DEF gateVars, GateInv, GateTypeOK, Times, Budget, TakesPast, RateBound, Remembered,
                NoTwins, Full, Founded, ToldTrue
  <2> QED
    BY <2>1, <2>2, <2>3 DEF GateNext
<1> QED
  BY <1>1, <1>2, PTL DEF GateSpec

\* Over any span an agent passes the bucket no more often than the burst and
\* the refill of that span allow (TokenBucket.take).
THEOREM RateIsBounded == GateSpec => []RateBound
<1>1. GateInv => RateBound
  BY DEF GateInv
<1> QED
  BY <1>1, GateInvariance, PTL

\* Two identical says that pass are more than the dedup window apart
\* (DedupWindow.seen).
THEOREM TwinsAreApart == GateSpec => []NoTwins
<1>1. GateInv => NoTwins
  BY DEF GateInv
<1> QED
  BY <1>1, GateInvariance, PTL

\* What a refused sender may count on: a duplicate was refused on account of a
\* say that did pass within the window, and one that waits as long as
\* retry_after told it is not refused by the bucket again
\* (TokenBucket.retry_after, DedupWindow.seen).
THEOREM RefusalsAreFairAlways == GateSpec => []RefusalsAreFair
<1>1. GateInv => NoGrudge
  <2> SUFFICES ASSUME GateInv, NEW k \in OnRecord
               PROVE  \E i \in DOMAIN sent : sent[i].key = k /\ now - sent[i].at <= Dedup
    BY DEF NoGrudge
  <2>1. PICK i \in DOMAIN sent : sent[i].key = k /\ sent[i].at = seen[k]
    BY DEF GateInv, Founded, OnRecord
  <2>2. seen[k] \in Nat /\ seen[k] >= now - Dedup /\ now \in Nat
    BY DEF GateInv, GateTypeOK, Times, OnRecord
  <2> QED
    BY <2>1, <2>2, GateAssumption
<1>2. GateInv => RetryAfterSuffices
  <2> SUFFICES ASSUME GateInv, told.missing > 0,
                      (now - told.at) * Messages >= told.missing
               PROVE  Refill >= Window
    BY DEF RetryAfterSuffices
  <2>1. told.at = refilled /\ tokens + told.missing = Window
    BY DEF GateInv, ToldTrue
  <2>2. /\ now \in Nat /\ refilled \in Nat /\ tokens \in Int
        /\ told.missing \in Nat /\ Window \in Int /\ Full \in Int /\ Full >= Window
    BY FullIsANumber, GateAssumption DEF GateInv, GateTypeOK
  <2>3. (now - refilled) * Messages \in Int
    BY <2>2, Spans, GateAssumption
  <2>4. tokens + (now - refilled) * Messages >= Window
    BY <2>1, <2>2, <2>3
  <2> QED
    BY <2>2, <2>4 DEF Refill
<1>3. GateInv => RefusalsAreFair
  BY <1>1, <1>2 DEF GateInv, RefusalsAreFair
<1> QED
  BY <1>3, GateInvariance, PTL
=============================================================================
