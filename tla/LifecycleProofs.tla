-------------------------- MODULE LifecycleProofs --------------------------
(***************************************************************************)
(* Proofs about Lifecycle, for every set of invocations, every script of   *)
(* commands, every set of directories and folders, and every bound on      *)
(* failures and acts.  Three inductive invariants, each on the one before: *)
(*                                                                         *)
(*   IInv  the lock, the tasks and what each command has seen;             *)
(*   TInv  the tables and what each start has read of them;                *)
(*   EInv  the emblem that is shown, and what is on its way to it.         *)
(***************************************************************************)
EXTENDS Lifecycle, TLAPS

-----------------------------------------------------------------------------
(* The lock.  It is held exactly between taking it and dropping it, the    *)
(* tasks run only in between, and the pid is in the file once it is        *)
(* written: lock.rs:36-72, daemon/mod.rs:70-329.                           *)

StartPlaces == {"lock", "stamp", "write", "peek", "load", "runtime"} \cup Holding

Places == {"idle", "done", "dead", "release", "clear", "probe", "unprobe", "kill", "about",
           "unblock", "dir", "record", "connect", "wait"} \cup StartPlaces

\* Every command is at one of its own places.
AtPlace(p) ==
    \/ pc[p] \in {"idle", "done", "dead"}
    \/ command[p] = "start" /\ pc[p] \in StartPlaces
    \/ command[p] = "status" /\ pc[p] \in {"lock", "stamp", "write", "release", "peek"}
    \/ command[p] = "unlink" /\ pc[p] \in {"lock", "stamp", "write", "release", "peek", "clear"}
    \/ command[p] = "stop" /\ pc[p] \in {"probe", "unprobe", "peek", "kill"}
    \/ command[p] = "link" /\ pc[p] \in {"about", "unblock"}
    \/ command[p] = "map" /\ pc[p] \in {"dir", "resolve", "create", "record"}
    \/ command[p] \in {"pause", "resume"} /\ pc[p] \in {"connect", "wait"}

Typed ==
    /\ command \in [Procs -> Commands \cup {"none"}]
    /\ pc \in [Procs -> Places]
    /\ holder \in Procs \cup {0} /\ pidFile \in Procs \cup {0}
    /\ found \in [Procs -> Procs \cup {0}]
    /\ task \in [Procs -> Tasks] /\ path \in Procs \cup {0}
    /\ seen \in [Procs -> Procs \cup {0}]
InPlace == \A p \in Procs : AtPlace(p)

\* Between taking the lock and dropping it.
Inside(p) == pc[p] \in {"stamp", "write", "release", "unprobe", "load"} \/ p \in Started

LockHeld ==
    /\ \A p \in Procs : Inside(p) => holder = p
    /\ holder # 0 => Inside(holder)
PidWritten ==
    /\ \A p \in Procs : pc[p] = "load" \/ p \in Started => pidFile = p
    /\ pidFile # 0 => pc[pidFile] # "idle"
TasksInPlace ==
    \A p \in Procs :
        /\ task[p] # Off => pc[p] \in Loop \cup {"runtime"}
        /\ pc[p] \in {"drain", "control", "drop", "runtime"} => task[p].poll = "ended"
        /\ pc[p] \in {"control", "drop", "runtime"} => task[p].disp \in {"ended", "late"}
        /\ pc[p] \in {"drop", "runtime"} => task[p].ctl = "gone"
FoundNamed == \A p \in Procs : pc[p] \in {"kill", "wait"} => found[p] # 0
\* A command given while a daemon served: that daemon has armed its handler and bound
\* its socket; stop and status look for its pid, pause and resume for its socket.
SeenServed ==
    \A p \in Procs : seen[p] # 0 =>
        /\ pc[p] # "idle"
        /\ pc[seen[p]] \in Loop \cup {"runtime", "done", "dead"}
        /\ pc[seen[p]] \in Loop => task[seen[p]].armed /\ task[seen[p]].ctl \notin {"unbind", "bind"}
SeenHolds ==
    \A p \in Procs : seen[p] # 0 /\ command[p] \in {"stop", "status"} /\ pc[seen[p]] \in Loop =>
        pc[p] \in {"lock", "probe", "peek", "dead"} \/ found[p] = seen[p]
SeenAnswers ==
    \A p \in Procs : seen[p] # 0 /\ command[p] \in {"pause", "resume"} /\ Serving(seen[p]) =>
        pc[p] \in {"connect", "dead"} \/ found[p] = seen[p]

IInv == Typed /\ InPlace /\ LockHeld /\ PidWritten /\ TasksInPlace /\ FoundNamed
        /\ SeenServed /\ SeenHolds /\ SeenAnswers /\ SocketIsTheDaemons

(* Nothing runs yet. *)
LEMMA LifecycleInit == Init => IInv
<1> SUFFICES ASSUME Init PROVE IInv
  OBVIOUS
<1> USE ProcsAssumption
<1>1. /\ pc = [p \in Procs |-> "idle"] /\ found = [p \in Procs |-> 0]
      /\ holder = 0 /\ pidFile = 0 /\ path = 0
      /\ task = [p \in Procs |-> Off] /\ seen = [p \in Procs |-> 0]
  BY DEF Init
<1>2. command \in [Procs -> Commands \cup {"none"}]
  <2>1. PICK s \in Scripts : command = [p \in Procs |-> IF p > Len(s.commands) THEN "none" ELSE s.commands[p]]
    BY DEF Init
  <2>2. \A p \in Procs : p <= Len(s.commands) => s.commands[p] \in Commands
    BY LifecycleAssumption
  <2> QED BY <2>1, <2>2, LifecycleAssumption
<1>3. Typed
  BY <1>1, <1>2 DEF Typed, Tasks, Off, Places
<1>4. InPlace
  BY <1>1 DEF InPlace, AtPlace
<1>5. LockHeld /\ PidWritten
  BY <1>1 DEF LockHeld, PidWritten, Inside, Started, Holding
<1>6. TasksInPlace /\ FoundNamed /\ SeenServed /\ SeenHolds /\ SeenAnswers /\ SocketIsTheDaemons
  BY <1>1 DEF TasksInPlace, FoundNamed, SeenServed, SeenHolds, SeenAnswers, SocketIsTheDaemons,
     Off
<1> QED BY <1>3, <1>4, <1>5, <1>6 DEF IInv

(* Steps of the overlay and of users on files leave the processes alone. *)
LEMMA NothingMoves == IInv /\ UNCHANGED <<lockVars, daemonVars>> => IInv'
BY DEF IInv, Typed, InPlace, AtPlace, LockHeld, PidWritten, TasksInPlace, FoundNamed,
   SeenServed, SeenHolds, SeenAnswers, SocketIsTheDaemons, Inside, Started, Serving, lockVars,
   daemonVars

(* A daemon in its loop has the lock, and its pid is in the file: start drops the
   guard after run has returned (start.rs:46-54). *)
LEMMA LoopHolds ==
    ASSUME IInv, NEW q \in Procs, pc[q] \in Loop
    PROVE  q \in Started /\ holder = q /\ pidFile = q /\ command[q] = "start"
<1>1. command[q] = "start"
  BY DEF IInv, InPlace, AtPlace, Loop
<1>2. q \in Started
  BY <1>1 DEF Started, Holding, Loop
<1> QED BY <1>1, <1>2 DEF IInv, LockHeld, PidWritten, Inside

(* Taking, writing, probing, reading and dropping (lock.rs:36-101) keep the invariant:
   the flock goes to a process only when nobody has it, and who fails to get it finds
   the pid of the daemon that has. *)
LEMMA LockSteps ==
    ASSUME IInv, NEW p \in Procs, LockStep(p), UNCHANGED daemonVars
    PROVE  IInv'
<1> USE ProcsAssumption DEF IInv, daemonVars
<1>1. CASE Take(p)
  <2>1. Typed' BY <1>1 DEF Typed, Places, StartPlaces, Take, Go
  <2>2. InPlace' BY <1>1 DEF Typed, InPlace, AtPlace, StartPlaces, Take, Go
  <2>3. LockHeld' BY <1>1 DEF Typed, LockHeld, Inside, Started, Holding, Take, Free, Go
  <2>4. PidWritten' BY <1>1 DEF Typed, PidWritten, Started, Holding, Take, Go
  <2>5. TasksInPlace' BY <1>1 DEF Typed, TasksInPlace, Loop, Take, Free, Go
  <2>6. FoundNamed' BY <1>1 DEF Typed, FoundNamed, Take, Free, Go
  <2>7. SeenServed'
    <3>1. \A q \in Procs : q # p => pc'[q] = pc[q] BY <1>1 DEF Typed, Take, Go
    <3>2. pc[p] \notin Loop \cup {"idle", "runtime", "done", "dead"} /\ pc'[p] # "idle"
      BY <1>1 DEF Typed, Loop, Take, Free, Go
    <3>3. \A q \in Procs : seen[q] # p BY <3>2 DEF SeenServed
    <3> QED BY <1>1, <3>1, <3>2, <3>3 DEF Typed, SeenServed, Take
  <2>8. SeenHolds'
    <3>1. \A q \in Procs : pc'[q] \in Loop => pc[q] \in Loop
      BY <1>1 DEF Typed, Loop, Take, Free, Go
    <3>2. pc'[p] = "peek" \/ \A q \in Procs : pc[q] \notin Loop
      BY <1>1, LoopHolds DEF Typed, Take, Free, Go
    <3> QED BY <1>1, <3>1, <3>2 DEF Typed, SeenHolds, Take, Go
  <2>9. SeenAnswers'
    <3>1. \A q \in Procs : Serving(q)' => Serving(q) BY <1>1 DEF Typed, Serving, Take, Free, Go
    <3> QED BY <1>1, <3>1 DEF Typed, SeenAnswers, Take, Go
  <2>10. SocketIsTheDaemons' BY <1>1 DEF SocketIsTheDaemons, Take
  <2> QED BY <2>1, <2>2, <2>3, <2>4, <2>5, <2>6, <2>7, <2>8, <2>9, <2>10
<1>2. CASE Truncate(p)
  <2>1. Typed' BY <1>2 DEF Typed, Places, StartPlaces, Holding, Truncate, Go
  <2>2. InPlace' BY <1>2 DEF InPlace, AtPlace, StartPlaces, Truncate, Go
  <2>3. LockHeld' BY <1>2 DEF LockHeld, Inside, Started, Truncate, Go
  <2>4. PidWritten' BY <1>2 DEF LockHeld, Inside, PidWritten, Started, Holding, Truncate, Go
  <2>5. TasksInPlace' BY <1>2 DEF Typed, TasksInPlace, Loop, Truncate, Go
  <2>6. FoundNamed' BY <1>2 DEF Typed, FoundNamed, Truncate, Go
  <2>7. SeenServed' BY <1>2 DEF Typed, SeenServed, Loop, Truncate, Go
  <2>8. SeenHolds' BY <1>2 DEF SeenHolds, SeenServed, Truncate, Go
  <2>9. SeenAnswers' BY <1>2 DEF SeenAnswers, Serving, Truncate, Go
  <2>10. SocketIsTheDaemons' BY <1>2 DEF SocketIsTheDaemons, Truncate
  <2> QED BY <2>1, <2>2, <2>3, <2>4, <2>5, <2>6, <2>7, <2>8, <2>9, <2>10
<1>3. CASE Write(p)
  <2>1. Typed' BY <1>3 DEF Typed, Places, StartPlaces, Holding, Write, Go
  <2>2. InPlace' BY <1>3 DEF InPlace, AtPlace, StartPlaces, Write, Go
  <2>3. LockHeld' BY <1>3 DEF LockHeld, Inside, Started, Write, Go
  <2>4. PidWritten' BY <1>3 DEF LockHeld, Inside, PidWritten, Started, Write, Go
  <2>5. TasksInPlace' BY <1>3 DEF Typed, TasksInPlace, Loop, Write, Go
  <2>6. FoundNamed' BY <1>3 DEF Typed, FoundNamed, Write, Go
  <2>7. SeenServed' BY <1>3 DEF Typed, SeenServed, Loop, Write, Go
  <2>8. SeenHolds' BY <1>3 DEF SeenHolds, SeenServed, Write, Go
  <2>9. SeenAnswers' BY <1>3 DEF SeenAnswers, Serving, Write, Go
  <2>10. SocketIsTheDaemons' BY <1>3 DEF SocketIsTheDaemons, Write
  <2> QED BY <2>1, <2>2, <2>3, <2>4, <2>5, <2>6, <2>7, <2>8, <2>9, <2>10
<1>4. CASE Release(p)
  <2>1. Typed' BY <1>4 DEF Typed, Places, StartPlaces, Holding, Release, Go
  <2>2. InPlace' BY <1>4 DEF InPlace, AtPlace, Release, Go
  <2>3. LockHeld' BY <1>4 DEF Typed, LockHeld, Inside, Started, Holding, Release, Go
  <2>4. PidWritten' BY <1>4 DEF InPlace, AtPlace, PidWritten, Started, StartPlaces, Release, Go
  <2>5. TasksInPlace' BY <1>4 DEF Typed, TasksInPlace, Loop, Release, Go
  <2>6. FoundNamed' BY <1>4 DEF Typed, FoundNamed, Release, Go
  <2>7. SeenServed' BY <1>4 DEF Typed, SeenServed, Loop, Release, Go
  <2>8. SeenHolds' BY <1>4 DEF SeenHolds, SeenServed, Release, Go
  <2>9. SeenAnswers' BY <1>4 DEF SeenAnswers, Serving, Release, Go
  <2>10. SocketIsTheDaemons' BY <1>4 DEF SocketIsTheDaemons, Release
  <2> QED BY <2>1, <2>2, <2>3, <2>4, <2>5, <2>6, <2>7, <2>8, <2>9, <2>10
<1>5. CASE Probe(p)
  <2>1. Typed' BY <1>5 DEF Typed, Places, StartPlaces, Probe, Go
  <2>2. InPlace' BY <1>5 DEF Typed, InPlace, AtPlace, StartPlaces, Holding, Probe, Go
  <2>3. LockHeld' BY <1>5 DEF Typed, LockHeld, Inside, Started, Holding, Probe, Free, Go
  <2>4. PidWritten'
    BY <1>5 DEF Typed, InPlace, AtPlace, PidWritten, Started, StartPlaces, Probe, Go
  <2>5. TasksInPlace' BY <1>5 DEF Typed, TasksInPlace, Loop, Probe, Free, Go
  <2>6. FoundNamed' BY <1>5 DEF Typed, FoundNamed, Probe, Free, Go
  <2>7. SeenServed'
    <3>1. \A q \in Procs : q # p => pc'[q] = pc[q] BY <1>5 DEF Typed, Probe, Go
    <3>2. pc[p] \notin Loop \cup {"idle", "runtime", "done", "dead"} /\ pc'[p] # "idle"
      BY <1>5 DEF Typed, Loop, Probe, Free, Go
    <3>3. \A q \in Procs : seen[q] # p BY <3>2 DEF SeenServed
    <3> QED BY <1>5, <3>1, <3>2, <3>3 DEF Typed, SeenServed, Probe
  <2>8. SeenHolds'
    <3>1. \A q \in Procs : pc'[q] \in Loop => pc[q] \in Loop
      BY <1>5 DEF Typed, Loop, Probe, Free, Go
    <3>2. pc'[p] = "peek" \/ \A q \in Procs : pc[q] \notin Loop
      BY <1>5, LoopHolds DEF Typed, Probe, Free, Go
    <3> QED BY <1>5, <3>1, <3>2 DEF Typed, SeenHolds, Probe, Go
  <2>9. SeenAnswers'
    <3>1. \A q \in Procs : Serving(q)' => Serving(q) BY <1>5 DEF Typed, Serving, Probe, Free, Go
    <3> QED BY <1>5, <3>1 DEF Typed, SeenAnswers, Probe, Go
  <2>10. SocketIsTheDaemons' BY <1>5 DEF SocketIsTheDaemons, Probe
  <2> QED BY <2>1, <2>2, <2>3, <2>4, <2>5, <2>6, <2>7, <2>8, <2>9, <2>10
<1>6. CASE Unprobe(p)
  <2>1. Typed' BY <1>6 DEF Typed, Places, Unprobe, Exit, Go
  <2>2. InPlace' BY <1>6 DEF InPlace, AtPlace, Unprobe, Exit, Go
  <2>3. LockHeld' BY <1>6 DEF Typed, LockHeld, Inside, Started, Holding, Unprobe, Exit, Go
  <2>4. PidWritten'
    BY <1>6 DEF InPlace, AtPlace, PidWritten, Started, StartPlaces, Unprobe, Exit, Go
  <2>5. TasksInPlace' BY <1>6 DEF Typed, TasksInPlace, Loop, Unprobe, Exit, Go
  <2>6. FoundNamed' BY <1>6 DEF Typed, FoundNamed, Unprobe, Exit, Go
  <2>7. SeenServed' BY <1>6 DEF Typed, SeenServed, Loop, Unprobe, Exit, Go
  <2>8. SeenHolds' BY <1>6 DEF SeenHolds, SeenServed, Unprobe, Exit, Go
  <2>9. SeenAnswers' BY <1>6 DEF SeenAnswers, Serving, Unprobe, Exit, Go
  <2>10. SocketIsTheDaemons' BY <1>6 DEF SocketIsTheDaemons, Unprobe
  <2> QED BY <2>1, <2>2, <2>3, <2>4, <2>5, <2>6, <2>7, <2>8, <2>9, <2>10
<1>7. CASE Peek(p)
  <2>1. Typed' BY <1>7 DEF Typed, Places, Peek, Find, Go
  <2>2. InPlace' BY <1>7 DEF InPlace, AtPlace, Peek, Go
  <2>3. LockHeld' BY <1>7 DEF LockHeld, Inside, Started, Holding, Peek, Go
  <2>4. PidWritten' BY <1>7 DEF PidWritten, Started, Holding, Peek, Go
  <2>5. TasksInPlace' BY <1>7 DEF Typed, TasksInPlace, Loop, Peek, Find, Go
  <2>6. FoundNamed' BY <1>7 DEF Typed, FoundNamed, Peek, Find, Go
  <2>7. SeenServed' BY <1>7 DEF Typed, SeenServed, Loop, Peek, Find, Go
  <2>8. SeenHolds'
    <3>1. \A q \in Procs : pc'[q] \in Loop => pc[q] \in Loop
      BY <1>7 DEF Typed, Loop, Peek, Find, Go
    <3>2. \A q \in Procs : pc[q] \in Loop => found'[p] = q
      BY <1>7, LoopHolds DEF Typed, Peek, Find, Go
    <3>3. \A q \in Procs : q # p => pc'[q] = pc[q] /\ found'[q] = found[q]
      BY <1>7 DEF Typed, Peek, Find, Go
    <3>4. command' = command /\ seen' = seen BY <1>7 DEF Peek
    <3> SUFFICES ASSUME NEW r \in Procs, seen[r] # 0, command[r] \in {"stop", "status"}, pc'[seen[r]] \in Loop
                 PROVE  pc'[r] \in {"lock", "probe", "peek", "dead"} \/ found'[r] = seen[r]
      BY <3>4 DEF SeenHolds
    <3>5. seen[r] \in Procs BY DEF Typed
    <3>6. CASE r = p BY <3>1, <3>2, <3>5, <3>6
    <3>7. CASE r # p BY <3>1, <3>3, <3>5, <3>7 DEF SeenHolds
    <3> QED BY <3>6, <3>7
  <2>9. SeenAnswers' BY <1>7 DEF SeenAnswers, Serving, InPlace, AtPlace, Peek, Find, Go
  <2>10. SocketIsTheDaemons' BY <1>7 DEF SocketIsTheDaemons, Peek
  <2> QED BY <2>1, <2>2, <2>3, <2>4, <2>5, <2>6, <2>7, <2>8, <2>9, <2>10
<1> QED BY <1>1, <1>2, <1>3, <1>4, <1>5, <1>6, <1>7 DEF LockStep

\* The places of a start before the daemon's loop, and those of the other commands
\* that write tables.
Preparing == {"load", "gate", "local", "remote", "resolve", "create", "save", "engine", "initial",
              "baseline", "check", "watch"}
Mapping   == {"dir", "resolve", "create", "record"}
Linking   == {"about", "unblock"}

\* What a step of the commands does to the process and its lock.
Moves(p, l) ==
    /\ Go(p, l) /\ Keep
    /\ \/ /\ l = "done" /\ holder' = IF holder = p THEN 0 ELSE holder
          /\ pc[p] \in Preparing \cup Mapping \cup Linking \cup {"clear"}
       \/ command[p] = "start" /\ {pc[p], l} \subseteq Preparing /\ holder' = holder
       \/ command[p] = "map" /\ {pc[p], l} \subseteq Mapping /\ holder' = holder
       \/ command[p] = "link" /\ {pc[p], l} \subseteq Linking /\ holder' = holder

(* Every step of link, map, unlink and the first half of start is a move of that process
   along its own places, with the lock kept, or its exit, with the lock given back. *)
LEMMA ProvisionMoves ==
    ASSUME IInv, NEW p \in Procs, ProvisionStep(p)
    PROVE  \E l : Moves(p, l)
<1> USE DEF IInv, Moves, Preparing, Mapping, Linking, Step, Fails, Exit, Go
<1>1. CASE LinkAccount(p) BY <1>1 DEF LinkAccount, InPlace, AtPlace, StartPlaces, Holding
<1>2. CASE LinkUnblocks(p) BY <1>2 DEF LinkUnblocks, InPlace, AtPlace, StartPlaces, Holding
<1>3. CASE Clear(p) BY <1>3 DEF Clear, InPlace, AtPlace, StartPlaces, Holding
<1>4. CASE LocalDir(p) BY <1>4 DEF LocalDir, EnsureDir, InPlace, AtPlace, StartPlaces, Holding
<1>5. CASE Resolve(p) BY <1>5 DEF Resolve, Resolved, InPlace, AtPlace, StartPlaces, Holding
<1>6. CASE Create(p)
  <2>1. /\ pc[p] = "create"
        /\ Step(p, Resolved(p)) \/ Fails(p)
        /\ Keep
    BY <1>6 DEF Create
  <2>2. command[p] \in {"start", "map"} BY <2>1 DEF InPlace, AtPlace
  <2>3. CASE Step(p, Resolved(p)) BY <2>1, <2>2, <2>3 DEF Resolved
  <2>4. CASE Fails(p) BY <2>1, <2>4
  <2> QED BY <2>1, <2>3, <2>4
<1>7. CASE Record(p) BY <1>7 DEF Record, InPlace, AtPlace, StartPlaces, Holding
<1>8. CASE Load(p) BY <1>8 DEF Load, InPlace, AtPlace, StartPlaces, Holding
<1>9. CASE Gate(p) BY <1>9 DEF Gate, InPlace, AtPlace, StartPlaces, Holding
<1>10. CASE ProbeRoot(p) BY <1>10 DEF ProbeRoot, InPlace, AtPlace, StartPlaces, Holding
<1>11. CASE Save(p) BY <1>11 DEF Save, InPlace, AtPlace, StartPlaces, Holding
<1>12. CASE BuildEngine(p) BY <1>12 DEF BuildEngine, InPlace, AtPlace, StartPlaces, Holding
<1>13. CASE Initial(p) BY <1>13 DEF Initial, InPlace, AtPlace, StartPlaces, Holding
<1>14. CASE Baseline(p) BY <1>14 DEF Baseline, InPlace, AtPlace, StartPlaces, Holding
<1>15. CASE Check(p) BY <1>15 DEF Check, InPlace, AtPlace, StartPlaces, Holding
<1> QED
  BY <1>1, <1>2, <1>3, <1>4, <1>5, <1>6, <1>7, <1>8, <1>9, <1>10, <1>11, <1>12, <1>13, <1>14,
     <1>15 DEF ProvisionStep

(* So these steps keep the invariant, whatever they do to the tables. *)
LEMMA ProvisionSteps ==
    ASSUME IInv, NEW p \in Procs, ProvisionStep(p), UNCHANGED daemonVars
    PROVE  IInv'
<1>1. PICK l : Moves(p, l)
  BY ProvisionMoves
<1> USE ProcsAssumption DEF IInv, daemonVars, Moves, Go, Keep, Preparing, Mapping, Linking
<1>2. Typed' BY <1>1 DEF Typed, Places, StartPlaces, Holding
<1>3. InPlace' BY <1>1 DEF Typed, InPlace, AtPlace, StartPlaces, Holding
<1>4. LockHeld' BY <1>1 DEF Typed, LockHeld, Inside, Started, Holding
<1>5. PidWritten' BY <1>1 DEF Typed, PidWritten, Started, Holding
<1>6. TasksInPlace' BY <1>1 DEF Typed, TasksInPlace, Loop
<1>7. FoundNamed' BY <1>1 DEF Typed, FoundNamed
<1>8. \A q \in Procs : pc'[q] \in Loop <=> pc[q] \in Loop BY <1>1 DEF Typed, Loop
<1>9. command[p] \notin {"stop", "status", "pause", "resume"} BY <1>1 DEF InPlace, AtPlace
<1>10. SeenServed' BY <1>1, <1>8 DEF Typed, SeenServed, Loop
<1>11. SeenHolds' BY <1>1, <1>8, <1>9 DEF Typed, SeenHolds
<1>12. \A q \in Procs : Serving(q)' => Serving(q) BY <1>1 DEF Typed, Serving
<1>13. SeenAnswers' BY <1>1, <1>9, <1>12 DEF Typed, SeenAnswers
<1>14. SocketIsTheDaemons' BY DEF SocketIsTheDaemons
<1> QED BY <1>2, <1>3, <1>4, <1>5, <1>6, <1>7, <1>10, <1>11, <1>13, <1>14

(* The tasks of a daemon move by themselves (daemon/mod.rs, pause.rs:105-150): only the
   daemon that has the lock removes, binds or unlinks the socket. *)
LEMMA TaskSteps ==
    ASSUME IInv, NEW p \in Procs, UNCHANGED <<lockVars, seen>>,
           \/ Arm(p) \/ Unbind(p) \/ Bind(p) \/ StopsAccepting(p) \/ Unlinks(p)
           \/ PollStarts(p) \/ PollEnds(p) \/ PollReturns(p)
           \/ DrainStarts(p) \/ DrainEnds(p) \/ DispReturns(p)
    PROVE  IInv'
<1> USE ProcsAssumption DEF IInv, lockVars
<1>1. InPlace' /\ LockHeld' /\ PidWritten' /\ FoundNamed' /\ SeenHolds'
  BY DEF InPlace, AtPlace, LockHeld, PidWritten, Inside, Started, FoundNamed, SeenHolds
<1>2. pc[p] \in Loop \cup {"runtime"}
  <2>1. CASE Arm(p) BY <2>1 DEF Arm, Loop
  <2>2. CASE task[p] # Off BY <2>2 DEF TasksInPlace
  <2> QED
    BY <2>1, <2>2 DEF Off, Unbind, Bind, StopsAccepting, Unlinks, PollStarts, PollEnds,
       PollReturns, DrainStarts, DrainEnds, DispReturns
<1>3. pc[p] = "runtime" => task[p].ctl = "gone" /\ task[p].poll = "ended"
                         /\ task[p].disp \in {"ended", "late"}
  BY DEF TasksInPlace
<1>4. CASE Arm(p)
  <2>1. \/ task' = [task EXCEPT ![p].armed = TRUE]
        \/ task' = [task EXCEPT ![p].cancel = TRUE]
    BY <1>4 DEF Arm, Put
  <2>2. /\ task' \in [Procs -> Tasks]
        /\ \A q \in Procs : q # p => task'[q] = task[q]
        /\ task'[p].poll = task[p].poll /\ task'[p].disp = task[p].disp
        /\ task'[p].ctl = task[p].ctl /\ (task[p].armed => task'[p].armed)
    <3>1. CASE task' = [task EXCEPT ![p].armed = TRUE]
      <4>1. task \in [Procs -> Tasks] BY DEF Typed
      <4>2. task' \in [Procs -> Tasks] BY <3>1, <4>1 DEF Tasks
      <4>3. \A q \in Procs : q # p => task'[q] = task[q] BY <3>1, <4>1
      <4>4. task'[p] = [task[p] EXCEPT !.armed = TRUE] BY <3>1, <4>1
      <4>5. task'[p].poll = task[p].poll /\ task'[p].disp = task[p].disp /\ task'[p].ctl = task[p].ctl
        BY <4>1, <4>4 DEF Tasks
      <4>6. task[p].armed => task'[p].armed BY <4>1, <4>4 DEF Tasks
      <4> QED BY <4>2, <4>3, <4>5, <4>6
    <3>2. CASE task' = [task EXCEPT ![p].cancel = TRUE]
      <4>1. task \in [Procs -> Tasks] BY DEF Typed
      <4>2. task' \in [Procs -> Tasks] BY <3>2, <4>1 DEF Tasks
      <4>3. \A q \in Procs : q # p => task'[q] = task[q] BY <3>2, <4>1
      <4>4. task'[p] = [task[p] EXCEPT !.cancel = TRUE] BY <3>2, <4>1
      <4>5. task'[p].poll = task[p].poll /\ task'[p].disp = task[p].disp /\ task'[p].ctl = task[p].ctl
        BY <4>1, <4>4 DEF Tasks
      <4>6. task[p].armed => task'[p].armed BY <4>1, <4>4 DEF Tasks
      <4> QED BY <4>2, <4>3, <4>5, <4>6
    <3> QED BY <2>1, <3>1, <3>2
  <2>3. Typed' BY <1>4, <2>2 DEF Typed, Arm, Still
  <2>4. TasksInPlace' BY <1>2, <2>2 DEF TasksInPlace
  <2>5. \A r \in Procs : seen[r] # p BY <1>4, ProcsAssumption DEF Arm, SeenServed, Loop
  <2>6. SeenServed'
    <3>1. \A r \in Procs : seen[r] # 0 => task'[seen[r]] = task[seen[r]] BY <2>2, <2>5 DEF Typed
    <3> QED BY <3>1 DEF SeenServed
  <2>7. \A q \in Procs : q # p => Serving(q)' = Serving(q) BY <2>2 DEF Serving
  <2>8. SeenAnswers' BY <2>5, <2>7 DEF Typed, SeenAnswers
  <2>9. SocketIsTheDaemons' BY <1>4, <2>2 DEF SocketIsTheDaemons, Arm, Still
  <2> QED BY <1>1, <2>3, <2>4, <2>6, <2>8, <2>9
<1>6. CASE Bind(p)
  <2>1. pc[p] \in Loop BY <1>2, <1>3, <1>6 DEF Bind
  <2>2. \A r \in Procs : seen[r] # p BY <1>6, <2>1, ProcsAssumption DEF Bind, SeenServed
  <2>3. PICK v : task' = [task EXCEPT ![p].ctl = v] /\ v \in {"up", "gone"} /\ (v = "up" => path' = p)
    BY <1>6 DEF Bind, Put
  <2>4. path' \in {path, p} BY <1>6 DEF Bind
  <2>5. Typed' BY <2>3, <2>4 DEF Typed, Tasks
  <2>6. TasksInPlace' BY <1>6, <2>1, <2>3 DEF TasksInPlace, Bind
  <2>7. \A q \in Procs : q # p => task'[q] = task[q] BY <2>3 DEF Typed
  <2>8. SeenServed' BY <2>2, <2>7 DEF Typed, SeenServed
  <2>9. \A q \in Procs : q # p => Serving(q)' = Serving(q) BY <2>7 DEF Serving
  <2>10. SeenAnswers' BY <2>2, <2>9 DEF Typed, SeenAnswers
  <2>11. \A q \in Procs : task[q].ctl = "up" => q = p BY <2>1, LoopHolds DEF TasksInPlace, Off
  <2>12. SocketIsTheDaemons'
    BY <2>3, <2>11 DEF Typed, SocketIsTheDaemons
  <2> QED BY <1>1, <2>5, <2>6, <2>8, <2>10, <2>12
<1>5. CASE Unbind(p)
  <2>1. Typed' BY <1>5 DEF Typed, Tasks, Unbind, Put, Still
  <2>2. TasksInPlace' BY <1>2, <1>5 DEF TasksInPlace, Unbind, Put
  <2>3. SeenServed' BY <1>5 DEF SeenServed, Unbind, Put
  <2>4. SeenAnswers' BY <1>5 DEF SeenAnswers, Serving, Unbind, Put
  <2>5. SocketIsTheDaemons'
    <3>1. pc[p] \in Loop BY <1>2, <1>3, <1>5 DEF Unbind
    <3>2. \A q \in Procs : task[q].ctl = "up" => q = p BY <3>1, LoopHolds DEF TasksInPlace, Off
    <3> QED BY <3>2, <1>5 DEF Typed, Tasks, SocketIsTheDaemons, Unbind, Put
  <2> QED BY <1>1, <2>1, <2>2, <2>3, <2>4, <2>5
<1>7. CASE StopsAccepting(p)
  <2>1. Typed'
    <3>1. task \in [Procs -> Tasks] /\ task' = [task EXCEPT ![p].ctl = "close"]
      BY <1>7 DEF Typed, StopsAccepting, Put
    <3>2. task' \in [Procs -> Tasks] BY <3>1 DEF Tasks
    <3> QED BY <1>7, <3>2 DEF Typed, StopsAccepting, Still
  <2>2. TasksInPlace' BY <1>2, <1>7 DEF TasksInPlace, StopsAccepting, Put
  <2>3. SeenServed' BY <1>7 DEF SeenServed, StopsAccepting, Put
  <2>4. SeenAnswers' BY <1>7 DEF SeenAnswers, Serving, StopsAccepting, Put
  <2>5. SocketIsTheDaemons'
    BY <1>7 DEF Typed, Tasks, SocketIsTheDaemons, StopsAccepting, Put, Still
  <2> QED BY <1>1, <2>1, <2>2, <2>3, <2>4, <2>5
<1>8. CASE Unlinks(p)
  <2>1. Typed' BY <1>8 DEF Typed, Tasks, Unlinks, Put, Still
  <2>2. TasksInPlace' BY <1>2, <1>8 DEF TasksInPlace, Unlinks, Put
  <2>3. SeenServed' BY <1>8 DEF SeenServed, Unlinks, Put
  <2>4. SeenAnswers' BY <1>8 DEF SeenAnswers, Serving, Unlinks, Put
  <2>5. SocketIsTheDaemons'
    <3>1. pc[p] \in Loop BY <1>2, <1>3, <1>8 DEF Unlinks
    <3>2. \A q \in Procs : task[q].ctl = "up" => q = p BY <3>1, LoopHolds DEF TasksInPlace, Off
    <3> QED BY <3>2, <1>8 DEF Typed, Tasks, SocketIsTheDaemons, Unlinks, Put
  <2> QED BY <1>1, <2>1, <2>2, <2>3, <2>4, <2>5
<1>9. CASE PollStarts(p)
  <2>1. Typed' BY <1>9 DEF Typed, Tasks, PollStarts, Put, Still
  <2>2. TasksInPlace' BY <1>2, <1>9 DEF TasksInPlace, PollStarts, Put
  <2>3. SeenServed' BY <1>9 DEF SeenServed, PollStarts, Put
  <2>4. SeenAnswers' BY <1>9 DEF SeenAnswers, Serving, PollStarts, Put
  <2>5. SocketIsTheDaemons' BY <1>9 DEF Typed, Tasks, SocketIsTheDaemons, PollStarts, Put, Still
  <2> QED BY <1>1, <2>1, <2>2, <2>3, <2>4, <2>5
<1>10. CASE PollEnds(p)
  <2>1. Typed'
    <3>1. task \in [Procs -> Tasks] /\ task' = [task EXCEPT ![p].poll = "idle"]
      BY <1>10 DEF Typed, PollEnds, Put
    <3>2. [task[p] EXCEPT !.poll = "idle"] \in Tasks BY <3>1 DEF Tasks
    <3>3. task' \in [Procs -> Tasks] BY <3>1, <3>2
    <3> QED BY <1>10, <3>3 DEF Typed, PollEnds, Still
  <2>2. TasksInPlace' BY <1>2, <1>10 DEF TasksInPlace, PollEnds, Put
  <2>3. SeenServed' BY <1>10 DEF SeenServed, PollEnds, Put
  <2>4. SeenAnswers' BY <1>10 DEF SeenAnswers, Serving, PollEnds, Put
  <2>5. SocketIsTheDaemons' BY <1>10 DEF Typed, Tasks, SocketIsTheDaemons, PollEnds, Put, Still
  <2> QED BY <1>1, <2>1, <2>2, <2>3, <2>4, <2>5
<1>11. CASE PollReturns(p)
  <2>1. Typed' BY <1>11 DEF Typed, Tasks, PollReturns, Put, Still
  <2>2. TasksInPlace' BY <1>2, <1>11 DEF TasksInPlace, PollReturns, Put
  <2>3. SeenServed' BY <1>11 DEF SeenServed, PollReturns, Put
  <2>4. SeenAnswers' BY <1>11 DEF SeenAnswers, Serving, PollReturns, Put
  <2>5. SocketIsTheDaemons'
    BY <1>11 DEF Typed, Tasks, SocketIsTheDaemons, PollReturns, Put, Still
  <2> QED BY <1>1, <2>1, <2>2, <2>3, <2>4, <2>5
<1>12. CASE DrainStarts(p)
  <2>1. Typed' BY <1>12 DEF Typed, Tasks, DrainStarts, Put, Still
  <2>2. TasksInPlace' BY <1>2, <1>12 DEF TasksInPlace, DrainStarts, Put
  <2>3. SeenServed' BY <1>12 DEF SeenServed, DrainStarts, Put
  <2>4. SeenAnswers' BY <1>12 DEF SeenAnswers, Serving, DrainStarts, Put
  <2>5. SocketIsTheDaemons'
    BY <1>12 DEF Typed, Tasks, SocketIsTheDaemons, DrainStarts, Put, Still
  <2> QED BY <1>1, <2>1, <2>2, <2>3, <2>4, <2>5
<1>13. CASE DrainEnds(p)
  <2>1. Typed' BY <1>13 DEF Typed, Tasks, DrainEnds, Put, Still
  <2>2. TasksInPlace' BY <1>2, <1>13 DEF TasksInPlace, DrainEnds, Put
  <2>3. SeenServed' BY <1>13 DEF SeenServed, DrainEnds, Put
  <2>4. SeenAnswers' BY <1>13 DEF SeenAnswers, Serving, DrainEnds, Put
  <2>5. SocketIsTheDaemons' BY <1>13 DEF Typed, Tasks, SocketIsTheDaemons, DrainEnds, Put, Still
  <2> QED BY <1>1, <2>1, <2>2, <2>3, <2>4, <2>5
<1>14. CASE DispReturns(p)
  <2>1. Typed' BY <1>14 DEF Typed, Tasks, DispReturns, Put, Still
  <2>2. TasksInPlace' BY <1>2, <1>14 DEF TasksInPlace, DispReturns, Put
  <2>3. SeenServed' BY <1>14 DEF SeenServed, DispReturns, Put
  <2>4. SeenAnswers' BY <1>14 DEF SeenAnswers, Serving, DispReturns, Put
  <2>5. SocketIsTheDaemons'
    BY <1>14 DEF Typed, Tasks, SocketIsTheDaemons, DispReturns, Put, Still
  <2> QED BY <1>1, <2>1, <2>2, <2>3, <2>4, <2>5
<1> QED BY <1>4, <1>5, <1>6, <1>7, <1>8, <1>9, <1>10, <1>11, <1>12, <1>13, <1>14

(* run comes to its spawns with the lock: nobody else's tasks are there
   (daemon/mod.rs:70-290). *)
LEMMA SpawnSteps ==
    ASSUME IInv, NEW p \in Procs, Watch(p) \/ Scan(p)
    PROVE  IInv'
<1> USE ProcsAssumption DEF IInv
<1>1. /\ pc[p] \in {"watch", "scan"} /\ Keep /\ Still
      /\ \/ Go(p, "signal") /\ holder' = holder /\ task' = [task EXCEPT ![p] = Fresh]
         \/ Go(p, "scan") /\ holder' = holder /\ task' = task
         \/ Go(p, "done") /\ holder' = (IF holder = p THEN 0 ELSE holder) /\ task' = task
  BY DEF Watch, Scan, Spawn, Step, Fails, Exit
<1>2. command[p] = "start" /\ p \in Started /\ holder = p /\ pidFile = p
  BY <1>1 DEF InPlace, AtPlace, Started, Holding, LockHeld, PidWritten, Inside
<1>3. Fresh \in Tasks /\ Fresh.ctl = "unbind"
  BY DEF Fresh, Off, Tasks
<1>4. \A r \in Procs : seen[r] # p /\ (pc[r] \notin Loop)
  BY <1>1, <1>2, LoopHolds DEF SeenServed, Loop
<1> USE <1>1 DEF Go, Keep, Still
<1>5. Typed' BY <1>3 DEF Typed, Places, StartPlaces, Holding
<1>6. InPlace' BY <1>2 DEF Typed, InPlace, AtPlace, StartPlaces, Holding
<1>7. LockHeld' BY <1>2 DEF Typed, LockHeld, Inside, Started, Holding
<1>8. PidWritten' BY <1>2 DEF Typed, PidWritten, Started, Holding
<1>9. TasksInPlace'
  <2>1. \A q \in Procs : q # p => pc'[q] = pc[q] /\ task'[q] = task[q] BY DEF Typed
  <2>2. pc'[p] = "signal" \/ (task'[p] = Off /\ pc'[p] \in {"scan", "done"})
    BY DEF Typed, TasksInPlace, Loop
  <2> QED BY <2>1, <2>2 DEF TasksInPlace, Loop
<1>10. FoundNamed' BY DEF Typed, FoundNamed
<1>11. \A q \in Procs : q # p => pc'[q] = pc[q] /\ task'[q] = task[q]
  BY DEF Typed
<1>12. SeenServed'
  <2>1. pc'[p] # "idle" BY DEF Typed
  <2> SUFFICES ASSUME NEW r \in Procs, seen[r] # 0
               PROVE  /\ pc'[r] # "idle" /\ pc'[seen[r]] = pc[seen[r]]
                      /\ task'[seen[r]] = task[seen[r]]
    BY DEF SeenServed
  <2>2. seen[r] \in Procs \ {p} BY <1>4 DEF Typed
  <2> QED BY <1>11, <2>1, <2>2 DEF SeenServed
<1>13. SeenHolds' BY <1>4, <1>11 DEF Typed, SeenHolds
<1>14. SeenAnswers'
  <2>1. \A q \in Procs : q # p => ~Serving(q)' BY <1>4, <1>11 DEF Serving, Loop
  <2> QED BY <1>4, <2>1 DEF Typed, SeenAnswers
<1>15. SocketIsTheDaemons' BY <1>3 DEF Typed, SocketIsTheDaemons
<1> QED BY <1>5, <1>6, <1>7, <1>8, <1>9, <1>10, <1>12, <1>13, <1>14, <1>15

(* The joins at the end of run (daemon/mod.rs:295-328): by the time the lock is dropped
   the socket is unlinked and no task but an aborted dispatcher is left. *)
LEMMA EndSteps ==
    ASSUME IInv, NEW p \in Procs,
           Join(p) \/ Timeout(p) \/ ControlJoined(p) \/ Drop(p) \/ RuntimeEnds(p)
    PROVE  IInv'
<1> USE ProcsAssumption DEF IInv
<1>1. PICK l \in {"join", "drain", "control", "drop", "runtime", "done"} :
        /\ Go(p, l) /\ Keep /\ Still
        /\ holder' = IF l = "runtime" THEN 0 ELSE holder
        /\ pc[p] \in Loop \cup {"runtime"} /\ (pc[p] = "runtime" <=> l = "done")
  BY DEF Join, Timeout, ControlJoined, Drop, RuntimeEnds, Step, Loop
<1>2. command[p] = "start" /\ (l # "done" => holder = p /\ pidFile = p)
  BY <1>1, LoopHolds DEF InPlace, AtPlace, Loop
<1>3. task' \in [Procs -> Tasks] /\ \A q \in Procs : q # p => task'[q] = task[q]
  <2>1. CASE task' = task BY <2>1 DEF Typed
  <2>2. CASE Timeout(p)
    <3>1. task' = [task EXCEPT ![p].disp = "late"] BY <2>2 DEF Timeout, Put
    <3> QED BY <3>1 DEF Typed, Tasks
  <2>3. CASE task' = [task EXCEPT ![p] = Off] BY <2>3 DEF Typed, Tasks, Off
  <2> QED BY <2>1, <2>2, <2>3 DEF Join, ControlJoined, Drop, RuntimeEnds
<1>4. /\ l = "done" => task'[p] = Off
      /\ l \in {"drain", "control", "drop", "runtime"} => task'[p].poll = "ended"
      /\ l \in {"control", "drop", "runtime"} => task'[p].disp \in {"ended", "late"}
      /\ l \in {"drop", "runtime"} => task'[p].ctl = "gone"
  BY <1>1 DEF Typed, Tasks, TasksInPlace, Join, Timeout, ControlJoined, Drop, RuntimeEnds, Put,
     Step, Go
<1>5. /\ l # "done" => task'[p].ctl = task[p].ctl /\ task'[p].armed = task[p].armed
  BY <1>1 DEF Typed, Tasks, Join, Timeout, ControlJoined, Drop, RuntimeEnds, Put
<1> USE <1>1 DEF Go, Keep, Still
<1>6. Typed' BY <1>3 DEF Typed, Places, StartPlaces, Holding
<1>7. InPlace' BY <1>2 DEF Typed, InPlace, AtPlace, StartPlaces, Holding
<1>8. LockHeld' BY <1>2 DEF Typed, LockHeld, Inside, Started, Holding, Loop
<1>9. PidWritten' BY <1>2 DEF Typed, PidWritten, Started, Holding
<1>10. \A q \in Procs : q # p => pc'[q] = pc[q]
  BY DEF Typed
<1>11. pc'[p] = l
  BY DEF Typed
<1>12. TasksInPlace' BY <1>3, <1>4, <1>10, <1>11 DEF TasksInPlace, Loop
<1>13. FoundNamed' BY DEF Typed, FoundNamed
<1>14. \A q \in Procs : pc'[q] \in Loop => pc[q] \in Loop
  BY <1>10, <1>11 DEF Loop
<1>15. SeenServed'
  <2> SUFFICES ASSUME NEW r \in Procs, seen[r] # 0
               PROVE  /\ pc'[r] # "idle" /\ pc'[seen[r]] \in Loop \cup {"runtime", "done", "dead"}
                      /\ pc'[seen[r]] \in Loop =>
                           task'[seen[r]].armed /\ task'[seen[r]].ctl \notin {"unbind", "bind"}
    BY DEF SeenServed
  <2>1. seen[r] \in Procs BY DEF Typed
  <2>2. pc'[r] # "idle" BY <1>10, <1>11 DEF SeenServed
  <2>3. CASE seen[r] = p BY <1>1, <1>5, <1>11, <1>14, <2>3 DEF SeenServed, Loop
  <2>4. CASE seen[r] # p BY <1>3, <1>10, <2>1, <2>4 DEF SeenServed
  <2> QED BY <2>2, <2>3, <2>4
<1>16. SeenHolds' BY <1>2, <1>10, <1>11, <1>14 DEF Typed, SeenHolds
<1>17. \A q \in Procs : Serving(q)' => Serving(q)
  BY <1>3, <1>10, <1>11 DEF Serving
<1>18. SeenAnswers' BY <1>2, <1>10, <1>17 DEF Typed, SeenAnswers
<1>19. SocketIsTheDaemons' BY <1>3, <1>4, <1>5 DEF SocketIsTheDaemons, Off
<1> QED BY <1>6, <1>7, <1>8, <1>9, <1>12, <1>13, <1>15, <1>16, <1>18, <1>19

\* Processes end, by themselves (after a kill) or struck by a signal, and the kernel
\* takes back what they hold; armed daemons are told to end.
LEMMA Endings ==
    ASSUME IInv, UNCHANGED <<command, pidFile, found, path, seen>>,
           pc' \in [Procs -> Places],
           \A r \in Procs : \/ pc'[r] = pc[r]
                            \/ pc[r] \notin {"idle", "done", "dead"} /\ pc'[r] = "dead"
                            \/ pc[r] = "kill" /\ pc'[r] = "done",
           holder' = IF holder # 0 /\ pc'[holder] # pc[holder] THEN 0 ELSE holder,
           task' \in [Procs -> Tasks],
           \A r \in Procs : pc'[r] # pc[r] => task'[r] = Off,
           \A r \in Procs : pc'[r] = pc[r] =>
               \/ task'[r] = task[r]
               \/ task[r].armed /\ task'[r] = [task[r] EXCEPT !.cancel = TRUE]
    PROVE  IInv'
<1> USE ProcsAssumption DEF IInv
<1>1. Typed' BY DEF Typed
<1>2. InPlace' BY DEF InPlace, AtPlace
<1>3. LockHeld'
  <2>1. \A r \in Procs : Inside(r)' => Inside(r) /\ pc'[r] = pc[r]
    BY DEF Inside, Started, Holding
  <2>2. \A r \in Procs : Inside(r) /\ pc'[r] = pc[r] => Inside(r)'
    BY DEF Inside, Started, Holding
  <2> QED BY <2>1, <2>2 DEF Typed, LockHeld
<1>4. PidWritten' BY DEF Typed, PidWritten, Started, Holding
<1>5. \A r \in Procs : pc'[r] = pc[r] =>
        /\ task'[r].poll = task[r].poll /\ task'[r].disp = task[r].disp
        /\ task'[r].ctl = task[r].ctl /\ (task[r].armed => task'[r].armed)
        /\ (task'[r].cancel = FALSE => task'[r] = task[r]) /\ (task'[r] # Off => task[r] # Off)
  <2> SUFFICES ASSUME NEW r \in Procs, task[r].armed,
                      task'[r] = [task[r] EXCEPT !.cancel = TRUE]
               PROVE  /\ task'[r].poll = task[r].poll /\ task'[r].disp = task[r].disp
                      /\ task'[r].ctl = task[r].ctl /\ (task[r].armed => task'[r].armed)
                      /\ (task'[r].cancel = FALSE => task'[r] = task[r]) /\ task[r] # Off
    OBVIOUS
  <2>1. task[r] \in Tasks BY DEF Typed
  <2>2. /\ task'[r].poll = task[r].poll /\ task'[r].disp = task[r].disp
        /\ task'[r].ctl = task[r].ctl /\ task'[r].armed = task[r].armed
        /\ task'[r].cancel = TRUE
    BY <2>1 DEF Tasks
  <2> QED BY <2>2 DEF Off
<1>6. TasksInPlace' BY <1>5 DEF TasksInPlace, Loop
<1>7. FoundNamed' BY DEF FoundNamed
<1>8. \A r \in Procs : pc'[r] \in Loop => pc'[r] = pc[r]
  BY DEF Loop
<1>9. SeenServed'
  <2> SUFFICES ASSUME NEW r \in Procs, seen[r] # 0
               PROVE  /\ pc'[r] # "idle" /\ pc'[seen[r]] \in Loop \cup {"runtime", "done", "dead"}
                      /\ pc'[seen[r]] \in Loop =>
                           task'[seen[r]].armed /\ task'[seen[r]].ctl \notin {"unbind", "bind"}
    BY DEF SeenServed
  <2>1. seen[r] \in Procs BY DEF Typed
  <2>2. pc'[r] # "idle" BY DEF SeenServed
  <2>3. pc'[seen[r]] \in Loop \cup {"runtime", "done", "dead"} BY <2>1 DEF SeenServed
  <2> QED BY <1>5, <1>8, <2>1, <2>2, <2>3 DEF SeenServed
<1>10. SeenHolds' BY <1>8 DEF Typed, SeenHolds
<1>11. \A r \in Procs : Serving(r)' => Serving(r)
  <2> SUFFICES ASSUME NEW r \in Procs, Serving(r)' PROVE Serving(r)
    OBVIOUS
  <2>1. pc'[r] = "signal" /\ ~task'[r].cancel BY DEF Serving
  <2>2. pc[r] = "signal" BY <2>1
  <2>3. task'[r] = task[r] BY <1>5, <2>1, <2>2 DEF Typed, Tasks
  <2> QED BY <2>2, <2>3 DEF Serving
<1>12. SeenAnswers'
  <2>1. \A r \in Procs : command[r] \in {"pause", "resume"} => pc'[r] \in {pc[r], "dead"}
    BY DEF InPlace, AtPlace
  <2> QED BY <1>11, <2>1 DEF Typed, SeenAnswers
<1>13. SocketIsTheDaemons'
  <2>1. \A r \in Procs : task'[r].ctl = "up" => task[r].ctl = "up" BY <1>5 DEF Off
  <2> QED BY <2>1 DEF SocketIsTheDaemons
<1> QED BY <1>1, <1>2, <1>3, <1>4, <1>6, <1>7, <1>9, <1>10, <1>12, <1>13

(* stop signals the pid it has read, users and the kernel signal whom they like
   (stop.rs:21-34): an armed daemon is told to end, any other process dies. *)
LEMMA SignalSteps ==
    ASSUME IInv, NEW p \in Procs, StopKills(p) \/ Interrupt(p) \/ Killed(p)
    PROVE  IInv'
<1> USE ProcsAssumption
<1>1. Off \in Tasks
  BY DEF Off, Tasks
<1>2. ASSUME NEW q \in Procs, NEW pcs \in [Procs -> Places],
             Strike(q, pcs), UNCHANGED <<command, pidFile, found, path, seen>>,
             \/ pcs = pc
             \/ pc[p] = "kill" /\ pcs = [pc EXCEPT ![p] = "done"]
      PROVE  IInv'
  <2>1. pc' \in [Procs -> Places]
    BY <1>2 DEF Strike, Places
  <2>2. \A r \in Procs : \/ pc'[r] = pc[r]
                         \/ pc[r] \notin {"idle", "done", "dead"} /\ pc'[r] = "dead"
                         \/ pc[r] = "kill" /\ pc'[r] = "done"
    BY <1>2 DEF IInv, Typed, Strike, Dies, Alive, Over
  <2>3. pc[p] = "kill" => holder # p
    BY DEF IInv, LockHeld, Inside, Started, Holding
  <2>4. holder' = IF holder # 0 /\ pc'[holder] # pc[holder] THEN 0 ELSE holder
    BY <1>2, <2>3 DEF IInv, Typed, Strike, Dies, Alive, Over
  <2>5. /\ task' \in [Procs -> Tasks] /\ \A r \in Procs : r # q => task'[r] = task[r]
        /\ IF task[q].armed THEN task'[q] = [task[q] EXCEPT !.cancel = TRUE] ELSE task'[q] = Off
    <3>1. CASE task[q].armed
      <4>1. task' = [task EXCEPT ![q].cancel = TRUE] BY <1>2, <3>1 DEF Strike
      <4>2. task \in [Procs -> Tasks] BY DEF IInv, Typed
      <4>3. task' \in [Procs -> Tasks] BY <4>1, <4>2 DEF Tasks
      <4>4. \A r \in Procs : r # q => task'[r] = task[r] BY <4>1, <4>2
      <4>5. task'[q] = [task[q] EXCEPT !.cancel = TRUE] BY <4>1, <4>2
      <4> QED BY <3>1, <4>3, <4>4, <4>5
    <3>2. CASE ~task[q].armed
      BY <1>1, <1>2, <3>2 DEF IInv, Typed, Strike
    <3> QED BY <3>1, <3>2
  <2>6. task[p] = Off \/ pc[p] # "kill"
    BY DEF IInv, TasksInPlace, Loop
  <2>7. \A r \in Procs : pc'[r] # pc[r] => task'[r] = Off
    <3> SUFFICES ASSUME NEW r \in Procs, pc'[r] # pc[r] PROVE task'[r] = Off
      OBVIOUS
    <3>1. CASE r = q
      <4>1. ~task[q].armed
        BY <1>2, <2>6, <3>1 DEF Strike, Dies, Off
      <4> QED BY <2>5, <3>1, <4>1
    <3>2. CASE r # q
      <4>1. pcs[r] # pc[r] BY <1>2, <3>2 DEF IInv, Typed, Strike
      <4>2. r = p /\ pc[p] = "kill" BY <1>2, <4>1 DEF IInv, Typed
      <4> QED BY <2>5, <2>6, <3>2, <4>2
    <3> QED BY <3>1, <3>2
  <2>8. \A r \in Procs : pc'[r] = pc[r] =>
               \/ task'[r] = task[r]
               \/ task[r].armed /\ task'[r] = [task[r] EXCEPT !.cancel = TRUE]
    <3> SUFFICES ASSUME pc'[q] = pc[q], ~task[q].armed PROVE task[q] = Off
      BY <2>5
    <3>1. ~Alive(q) \/ pc[q] = "dead" BY <1>2 DEF IInv, Typed, Strike, Dies
    <3> QED BY <3>1 DEF IInv, TasksInPlace, Alive, Over, Loop
  <2> QED BY <1>2, <2>1, <2>2, <2>4, <2>5, <2>7, <2>8, Endings
<1>3. CASE StopKills(p)
  <2>1. found[p] \in Procs BY <1>3 DEF IInv, Typed, FoundNamed, StopKills
  <2>2. [pc EXCEPT ![p] = "done"] \in [Procs -> Places] BY DEF IInv, Typed, Places
  <2> QED BY <1>2, <1>3, <2>1, <2>2 DEF StopKills, Keep, Still
<1>4. CASE Interrupt(p)
  BY <1>2, <1>4 DEF IInv, Typed, Interrupt, Keep, Still
<1>5. CASE Killed(p)
  <2>1. /\ pc' = [pc EXCEPT ![p] = "dead"] /\ holder' = (IF holder = p THEN 0 ELSE holder)
        /\ task' = [task EXCEPT ![p] = Off] /\ UNCHANGED <<command, pidFile, found, path, seen>>
        /\ pc[p] \notin {"idle", "done", "dead"}
    BY <1>5 DEF Killed, Go, Keep, Still, Alive, Over
  <2>2. pc' \in [Procs -> Places] /\ task' \in [Procs -> Tasks]
    BY <1>1, <2>1 DEF IInv, Typed, Places
  <2>3. holder' = IF holder # 0 /\ pc'[holder] # pc[holder] THEN 0 ELSE holder
    BY <2>1 DEF IInv, Typed
  <2>4. \A r \in Procs : r # p => pc'[r] = pc[r] /\ task'[r] = task[r]
    BY <2>1 DEF IInv, Typed
  <2>5. pc'[p] = "dead" /\ task'[p] = Off
    BY <2>1 DEF IInv, Typed
  <2> QED BY <2>1, <2>2, <2>3, <2>4, <2>5, Endings
<1> QED BY <1>3, <1>4, <1>5

(* pause and resume (cli/pause.rs:19-38): while a daemon serves, the path leads to it and
   its listener is alive. *)
LEMMA ClientSteps ==
    ASSUME IInv, NEW p \in Procs, Connect(p) \/ Answered(p) \/ HungUp(p)
    PROVE  IInv'
<1> USE ProcsAssumption DEF IInv
<1>1. /\ command[p] \in {"pause", "resume"} /\ pc[p] \in {"connect", "wait"}
      /\ UNCHANGED <<command, holder, pidFile, path, seen>>
  BY DEF InPlace, AtPlace, StartPlaces, Holding, Connect, Answered, HungUp, Step, Keep, Still
<1>2. PICK l \in {"wait", "done"}, f \in Procs \cup {0} :
        /\ pc' = [pc EXCEPT ![p] = l] /\ found' = [found EXCEPT ![p] = f]
        /\ l = "wait" => f # 0
        /\ seen[p] # 0 /\ Serving(seen[p]) => f = seen[p]
  <2>1. CASE Connect(p)
    <3>1. \A q \in Procs : Serving(q) => path = q /\ Listening(path)
      BY DEF Serving, SocketIsTheDaemons, Listening
    <3>2. CASE path # 0 /\ Listening(path)
      BY <2>1, <3>1, <3>2 DEF Typed, Connect, Find, Go
    <3>3. CASE ~(path # 0 /\ Listening(path))
      <4>1. \A q \in Procs : ~Serving(q) BY <3>1, <3>3
      <4>2. found' = [found EXCEPT ![p] = found[p]] BY <2>1, <3>3 DEF Typed, Connect
      <4>3. pc' = [pc EXCEPT ![p] = "done"] BY <2>1, <3>3 DEF Connect, Go
      <4>4. found[p] \in Procs \cup {0} /\ seen[p] \in Procs \cup {0} BY DEF Typed
      <4> QED BY <4>1, <4>2, <4>3, <4>4
    <3> QED BY <3>2, <3>3
  <2>2. CASE Answered(p)
    <3>1. found[p] \in Procs BY <2>2 DEF Typed, FoundNamed, Answered
    <3>2. \A q \in Procs : Serving(q) => found[p] = q
      BY <2>2, <3>1 DEF Serving, Answered, Answering, SocketIsTheDaemons
    <3>3. found' = [found EXCEPT ![p] = found[p]] BY <2>2 DEF Typed, Answered, Keep
    <3>4. pc' = [pc EXCEPT ![p] = "done"] BY <2>2 DEF Answered, Step, Go
    <3>5. seen[p] \in Procs \cup {0} BY DEF Typed
    <3>6. seen[p] # 0 /\ Serving(seen[p]) => found[p] = seen[p] BY <3>2, <3>5
    <3>7. "done" \in {"wait", "done"} /\ found[p] \in Procs \cup {0} /\ "done" # "wait"
      BY <3>1
    <3> QED BY <3>3, <3>4, <3>6, <3>7
  <2>3. CASE HungUp(p)
    <3>1. /\ pc[p] = "wait" /\ pc' = [pc EXCEPT ![p] = "done"]
          /\ found' = [found EXCEPT ![p] = 0] /\ ~Listening(found[p])
      BY <2>3 DEF HungUp, Find, Go
    <3>2. ~(seen[p] # 0 /\ Serving(seen[p]))
      BY <1>1, <3>1 DEF SeenAnswers, Serving, Listening
    <3> QED BY <3>1, <3>2
  <2> QED BY <2>1, <2>2, <2>3
<1>3. /\ task' \in [Procs -> Tasks]
      /\ \A q \in Procs : /\ task'[q].armed = task[q].armed /\ task'[q].cancel = task[q].cancel
                          /\ task'[q].ctl = task[q].ctl /\ task'[q].poll = task[q].poll
                          /\ task'[q].disp = task[q].disp /\ (task[q] = Off => task'[q] = Off)
  <2>1. CASE task' = task BY <2>1 DEF Typed
  <2>2. CASE Answered(p)
    <3>1. /\ task' = [task EXCEPT ![found[p]].paused = (command[p] = "pause")]
          /\ task[found[p]].ctl = "up"
      BY <2>2 DEF Answered, Put, Answering
    <3>2. task \in [Procs -> Tasks] /\ found[p] \in Procs
      BY <2>2 DEF Typed, FoundNamed, Answered
    <3>3. task' \in [Procs -> Tasks]
      <4>1. CASE command[p] = "pause"
        <5>1. task' = [task EXCEPT ![found[p]].paused = TRUE] BY <3>1, <4>1
        <5>2. task[found[p]] \in Tasks BY <3>2
        <5>3. [task[found[p]] EXCEPT !.paused = TRUE] \in Tasks BY <5>2 DEF Tasks
        <5> QED BY <3>2, <5>1, <5>3
      <4>2. CASE command[p] # "pause"
        <5>1. task' = [task EXCEPT ![found[p]].paused = FALSE] BY <3>1, <4>2
        <5>2. task[found[p]] \in Tasks BY <3>2
        <5>3. [task[found[p]] EXCEPT !.paused = FALSE] \in Tasks BY <5>2 DEF Tasks
        <5> QED BY <3>2, <5>1, <5>3
      <4> QED BY <4>1, <4>2
    <3>4. \A q \in Procs : q # found[p] => task'[q] = task[q] BY <3>1, <3>2
    <3>5. task'[found[p]] = [task[found[p]] EXCEPT !.paused = (command[p] = "pause")]
      BY <3>1, <3>2
    <3>6. task[found[p]] \in Tasks BY <3>2
    <3>7. LET t == task[found[p]]
              u == task'[found[p]]
          IN  u.armed = t.armed /\ u.cancel = t.cancel /\ u.ctl = t.ctl /\ u.poll = t.poll /\ u.disp = t.disp
      BY <3>5, <3>6 DEF Tasks
    <3>8. task[found[p]] # Off BY <3>1 DEF Off
    <3> QED BY <3>3, <3>4, <3>7, <3>8
  <2> QED BY <2>1, <2>2 DEF Connect, HungUp
<1> USE <1>1, <1>2
<1>4. Typed' BY <1>3 DEF Typed, Places
<1>5. InPlace' BY DEF Typed, InPlace, AtPlace
<1>6. LockHeld' /\ PidWritten' BY DEF Typed, LockHeld, PidWritten, Inside, Started, Holding
<1>7. \A q \in Procs : /\ q # p => pc'[q] = pc[q] /\ found'[q] = found[q]
                       /\ pc'[q] \in Loop \cup {"runtime"} <=> pc[q] \in Loop \cup {"runtime"}
                       /\ pc'[q] \in Loop <=> pc[q] \in Loop
  BY DEF Typed, Loop
<1>8. pc'[p] = l /\ found'[p] = f
  BY DEF Typed
<1>9. TasksInPlace' BY <1>3, <1>7, <1>8 DEF TasksInPlace
<1>10. FoundNamed' BY <1>7, <1>8 DEF FoundNamed
<1>11. SeenServed'
  <2> SUFFICES ASSUME NEW r \in Procs, seen[r] # 0
               PROVE  /\ pc'[r] # "idle" /\ pc'[seen[r]] \in Loop \cup {"runtime", "done", "dead"}
                      /\ pc'[seen[r]] \in Loop =>
                           task'[seen[r]].armed /\ task'[seen[r]].ctl \notin {"unbind", "bind"}
    BY DEF SeenServed
  <2>1. seen[r] \in Procs BY DEF Typed
  <2>2. seen[r] # p BY DEF SeenServed, Loop
  <2> QED BY <1>3, <1>7, <1>8, <2>1, <2>2 DEF SeenServed
<1>12. SeenHolds' BY <1>7, <1>8 DEF Typed, SeenHolds
<1>13. \A q \in Procs : Serving(q)' => Serving(q)
  BY <1>3, <1>7, <1>8 DEF Serving
<1>14. SeenAnswers'
  <2> SUFFICES ASSUME NEW r \in Procs, seen[r] # 0, command[r] \in {"pause", "resume"}, Serving(seen[r])'
               PROVE  pc'[r] \in {"connect", "dead"} \/ found'[r] = seen[r]
    BY DEF SeenAnswers
  <2>1. Serving(seen[r]) BY <1>13 DEF Typed
  <2>2. CASE r = p BY <1>8, <2>1, <2>2
  <2>3. CASE r # p BY <1>7, <2>1, <2>3 DEF SeenAnswers
  <2> QED BY <2>2, <2>3
<1>15. SocketIsTheDaemons' BY <1>3 DEF SocketIsTheDaemons
<1> QED BY <1>4, <1>5, <1>6, <1>9, <1>10, <1>11, <1>12, <1>14, <1>15

(* A command starts at its first place, and has found nothing yet. *)
LEMMA LaunchSteps ==
    ASSUME IInv, NEW p \in Procs, Launch(p)
    PROVE  IInv'
<1> USE ProcsAssumption DEF IInv
<1>1. PICK q \in Procs \cup {0} :
        /\ q # 0 => Serving(q)
        /\ seen' = [seen EXCEPT ![p] = q]
  BY DEF Launch
<1>2. /\ pc[p] = "idle" /\ pc' = [pc EXCEPT ![p] = First(command[p])]
      /\ UNCHANGED <<command, holder, pidFile, found, task, path>>
  BY DEF Launch, Go
<1>3. /\ command[p] \in {"start", "status", "unlink"} => First(command[p]) = "lock"
      /\ command[p] = "stop" => First(command[p]) = "probe"
      /\ command[p] = "link" => First(command[p]) = "about"
      /\ command[p] = "map" => First(command[p]) = "dir"
      /\ command[p] \in {"pause", "resume"} => First(command[p]) = "connect"
      /\ command[p] \in Commands
  BY DEF First, Launch, Typed, Commands
<1>4. First(command[p]) \in {"lock", "probe", "about", "dir", "connect"}
  BY <1>3 DEF Commands
<1>5. \A r \in Procs : r # p => pc'[r] = pc[r] /\ seen'[r] = seen[r]
  BY <1>1, <1>2 DEF Typed
<1>6. pc'[p] = First(command[p]) /\ seen'[p] = q
  BY <1>1, <1>2 DEF Typed
<1>7. Typed' BY <1>1, <1>2, <1>4 DEF Typed, Places, StartPlaces
<1>8. InPlace' BY <1>2, <1>3 DEF InPlace, AtPlace, StartPlaces, Commands
<1>9. \A r \in Procs : (Inside(r)' <=> Inside(r)) /\ (r \in Started' <=> r \in Started)
  BY <1>2, <1>4, <1>5, <1>6 DEF Inside, Started, Holding
<1>10. LockHeld' /\ PidWritten'
  BY <1>2, <1>4, <1>9 DEF Typed, LockHeld, PidWritten
<1>11. TasksInPlace' BY <1>2, <1>4, <1>5, <1>6 DEF TasksInPlace, Loop
<1>12. FoundNamed' BY <1>2, <1>4, <1>5, <1>6 DEF FoundNamed
<1>13. \A r \in Procs : (pc'[r] \in Loop <=> pc[r] \in Loop) /\ (Serving(r)' <=> Serving(r))
  BY <1>2, <1>4, <1>5, <1>6 DEF Loop, Serving
<1>14. q # 0 => q \in Procs /\ pc[q] = "signal" /\ task[q].armed /\ task[q].ctl = "up"
  BY <1>1 DEF Serving
<1>15. SeenServed'
  <2> SUFFICES ASSUME NEW r \in Procs, seen'[r] # 0
               PROVE  /\ pc'[r] # "idle" /\ pc'[seen'[r]] \in Loop \cup {"runtime", "done", "dead"}
                      /\ pc'[seen'[r]] \in Loop =>
                           task[seen'[r]].armed /\ task[seen'[r]].ctl \notin {"unbind", "bind"}
    BY <1>2 DEF SeenServed
  <2>1. CASE r = p
    <3>1. q \in Procs /\ q # p /\ pc[q] = "signal" /\ task[q].armed /\ task[q].ctl = "up"
      BY <1>2, <1>6, <1>14, <2>1
    <3>2. pc'[q] = "signal" /\ "signal" \in Loop BY <1>5, <3>1 DEF Loop
    <3>3. pc'[p] # "idle" BY <1>4, <1>6
    <3> QED BY <1>6, <2>1, <3>1, <3>2, <3>3
  <2>2. CASE r # p
    <3>1. seen'[r] = seen[r] /\ seen[r] \in Procs BY <1>5, <2>2 DEF Typed
    <3>2. seen[r] # p BY <1>2, <3>1 DEF SeenServed, Loop
    <3>3. /\ pc[r] # "idle" /\ pc[seen[r]] \in Loop \cup {"runtime", "done", "dead"}
          /\ pc[seen[r]] \in Loop => task[seen[r]].armed /\ task[seen[r]].ctl \notin {"unbind", "bind"}
      BY <3>1 DEF SeenServed
    <3>4. pc'[r] = pc[r] /\ pc'[seen[r]] = pc[seen[r]] BY <1>5, <2>2, <3>1, <3>2
    <3> QED BY <3>1, <3>3, <3>4
  <2> QED BY <2>1, <2>2
<1>16. SeenHolds'
  BY <1>2, <1>3, <1>5, <1>6, <1>13 DEF SeenHolds
<1>17. SeenAnswers'
  BY <1>2, <1>3, <1>5, <1>13 DEF Typed, SeenAnswers
<1>18. SocketIsTheDaemons' BY <1>2 DEF SocketIsTheDaemons
<1> QED BY <1>7, <1>8, <1>10, <1>11, <1>12, <1>15, <1>16, <1>17, <1>18

(* The overlay reads what the daemon writes, and writes nothing of it. *)
LEMMA OverlayLeavesTheRest == OverlayStep => UNCHANGED <<lockVars, daemonVars>>
BY DEF OverlayStep, Apply, Execute, Applied, Rest, Attach, Subscribe, Detach, Receive, Deliver,
   Refresh, UpdateFileInfo, Expire

(* Every step of the system keeps the invariant of the lock. *)
LEMMA LifecycleSteps == IInv /\ [Next]_vars => IInv'
<1> SUFFICES ASSUME IInv, [Next]_vars PROVE IInv'
  OBVIOUS
<1>1. CASE UNCHANGED vars
  BY <1>1, NothingMoves DEF vars
<1>2. ASSUME NEW p \in Procs, Work(p) PROVE IInv'
  <2>1. CASE LockStep(p) /\ UNCHANGED <<provVars, daemonVars, overlayVars>>
    BY <2>1, LockSteps
  <2>2. CASE ProvisionStep(p) /\ BlockMissed /\ UNCHANGED daemonVars
    BY <2>2, ProvisionSteps
  <2>3. CASE DaemonStep(p)
    <3>1. CASE Watch(p) \/ Scan(p) BY <3>1, SpawnSteps
    <3>2. CASE Join(p) \/ Timeout(p) \/ ControlJoined(p) \/ Drop(p) \/ RuntimeEnds(p)
      BY <3>2, EndSteps
    <3>3. CASE \/ Arm(p) \/ Unbind(p) \/ Bind(p) \/ StopsAccepting(p) \/ Unlinks(p)
               \/ PollEnds(p) \/ PollReturns(p) \/ DispReturns(p)
      <4>1. UNCHANGED <<lockVars, seen>>
        BY <3>3 DEF Arm, Unbind, Bind, StopsAccepting, Unlinks, PollEnds, PollReturns,
           DispReturns, Calm, Still
      <4> QED BY <3>3, <4>1, TaskSteps
    <3> QED BY <2>3, <3>1, <3>2, <3>3 DEF DaemonStep
  <2>4. CASE ClientStep(p)
    BY <2>4, SignalSteps, ClientSteps DEF ClientStep
  <2> QED BY <1>2, <2>1, <2>2, <2>3, <2>4 DEF Work, DaemonWork
<1>3. ASSUME NEW p \in Procs, Busy(p) PROVE IInv'
  <2>1. CASE Advances(p)
    <3>1. UNCHANGED <<lockVars, daemonVars>> BY <2>1 DEF Advances, Still, daemonVars
    <3> QED BY <3>1, NothingMoves
  <2>2. CASE PollStarts(p) \/ DrainStarts(p) \/ DrainEnds(p)
    <3>1. UNCHANGED <<lockVars, seen>>
      BY <2>2 DEF PollStarts, DrainStarts, DrainEnds, Calm, Still
    <3> QED BY <2>2, <3>1, TaskSteps
  <2> QED BY <1>3, <2>1, <2>2 DEF Busy, Drained
<1>4. CASE OverlayStep
  BY <1>4, OverlayLeavesTheRest, NothingMoves
<1>5. CASE World
  <2>1. CASE ThrowAway /\ UNCHANGED <<daemonVars, overlayVars>>
    BY <2>1, NothingMoves DEF ThrowAway
  <2> QED BY <1>5, <2>1, LaunchSteps, SignalSteps DEF World
<1> QED BY <1>1, <1>2, <1>3, <1>4, <1>5 DEF Next

(* So it holds in every reachable state. *)
LEMMA LifecycleInvariant == Spec => []IInv
BY LifecycleInit, LifecycleSteps, PTL DEF Spec

(* What it says of the properties: the holder of the lock is one process. *)
LEMMA AloneImplies == IInv => OneDaemon /\ SocketIsTheDaemons /\ FindsTheDaemon
<1> SUFFICES ASSUME IInv PROVE OneDaemon /\ FindsTheDaemon
  BY DEF IInv
<1> USE ProcsAssumption
<1>1. OneDaemon
  <2>1. \A p \in Procs : Working(p) => pc[p] \in Loop
    BY DEF IInv, TasksInPlace, Working, Off
  <2>2. \A p \in Procs : Working(p) => holder = p
    BY <2>1, LoopHolds
  <2>3. \A p \in Procs : p \in Started => holder = p
    BY DEF IInv, LockHeld, Inside
  <2> QED BY <2>2, <2>3 DEF OneDaemon
<1>2. FindsTheDaemon
  BY DEF IInv, FindsTheDaemon, SeenHolds, SeenAnswers
<1> QED BY <1>1, <1>2

(* At most one daemon has tasks that read or write, through every kind of end and
   however many starts race for the lock (lock.rs:36-72, daemon/mod.rs:305-328). *)
THEOREM DaemonIsAlone == Spec => []OneDaemon
BY LifecycleInvariant, AloneImplies, PTL

(* The socket path leads to the daemon that listens: no predecessor unlinks the socket
   of its successor (pause.rs:105-150). *)
THEOREM SocketLeadsToIt == Spec => []SocketIsTheDaemons
BY LifecycleInvariant, AloneImplies, PTL

(* stop, status, pause and resume find the daemon that serves when they are given, if it
   is there until they are over (lock.rs:84-101, stop.rs:21-34, cli/pause.rs:19-38). *)
THEOREM CommandsFindIt == Spec => []FindsTheDaemon
BY LifecycleInvariant, AloneImplies, PTL

-----------------------------------------------------------------------------
(* The tables.  What a start has read of the mapping is still there, or    *)
(* the start is marked; a cursor means that the rows are those of the      *)
(* mapping, or the tables are marked: mapping.rs:59-64, start.rs:69-155,   *)
(* unlink.rs:33-43.                                                        *)
Mappings == [local : Locals, root : Ids, spec : Specs]
Hands    == [local : Locals, root : Ids \cup {0}, spec : Specs, first : BOOLEAN]
TablesTyped ==
    /\ hand \in [Procs -> Hands]
    /\ \A p \in Procs :
         pc[p] \in {"save", "record"} \/ (p \in Started /\ pc[p] \notin {"resolve", "create"})
            => hand[p].root \in Ids
    /\ folder \in [Ids -> [spec : Specs \cup {Unmapped}, state : {"none", "live", "trashed"}]]
    /\ db \in [account : BOOLEAN, mapping : Mappings \cup {Unmapped}, cursor : BOOLEAN,
               blocked : {"none", "transient", "auth"}, rows : SUBSET Pairs]
    /\ db.mapping # Unmapped => db.account
    /\ db.cursor => db.mapping # Unmapped
    /\ outdated \in BOOLEAN /\ disturbed \subseteq Procs

Follows ==
    \A d \in Started : ~outdated \/ d \notin disturbed =>
        /\ db.mapping # Unmapped /\ db.mapping.local = hand[d].local
        /\ pc[d] \notin {"resolve", "create", "save"} => db.mapping.root = hand[d].root

Described == ~outdated /\ db.cursor => Pair(db.mapping) \in db.rows

FirstPlaces == {"local", "remote", "resolve", "create", "save", "engine", "initial", "baseline"}
NoCursorYet ==
    \A d \in Started : hand[d].first /\ pc[d] \in FirstPlaces => ~db.cursor

Reconciled ==
    \A d \in Started : ~outdated =>
        /\ pc[d] \in {"watch", "scan"} \cup Loop => db.cursor
        /\ pc[d] = "baseline" => Pair(hand[d]) \in db.rows

TInv == TablesTyped /\ Follows /\ Described /\ NoCursorYet /\ Reconciled

(* The tables of a directory that is new, mapped or synced. *)
LEMMA TablesInit == Init => TInv
<1> SUFFICES ASSUME Init PROVE TInv
  OBVIOUS
<1> USE ProvisionAssumption, LifecycleAssumption DEF Ids, Specs
<1>1. PICK s \in Scripts, t \in Targets :
        /\ db = Tables(s.state, t)
        /\ folder = [i \in Ids |-> IF i = 1 /\ (s.state # "new" \/ t.spec \in Urls)
                                   THEN FolderOf(t.spec) ELSE NoFolder]
        /\ hand \in [Procs -> {InHand(u) : u \in {v \in Targets : v.spec \in Paths \cup {t.spec}}}]
        /\ outdated = FALSE /\ disturbed = {} /\ pc = [p \in Procs |-> "idle"]
  BY DEF Init
<1>2. t.local \in Locals /\ t.spec \in Specs /\ 1 \in Ids
  OBVIOUS
<1>3. Started = {}
  BY <1>1 DEF Started, Holding
<1>4. db \in [account : BOOLEAN, mapping : Mappings \cup {Unmapped}, cursor : BOOLEAN,
              blocked : {"none", "transient", "auth"}, rows : SUBSET Pairs]
  <2>1. CASE s.state = "new" BY <1>1, <2>1 DEF Tables, Empty
  <2>2. CASE s.state # "new" BY <1>1, <1>2, <2>2 DEF Tables, Mappings, Pairs
  <2> QED BY <2>1, <2>2
<1>5. /\ db.mapping # Unmapped => db.account
      /\ db.cursor => db.mapping # Unmapped /\ Pair(db.mapping) \in db.rows
  <2>1. CASE s.state = "new" BY <1>1, <2>1 DEF Tables, Empty
  <2>2. CASE s.state # "new"
    <3>1. db.account /\ db.mapping = [local |-> t.local, root |-> 1, spec |-> t.spec]
      BY <1>1, <2>2 DEF Tables
    <3>2. db.mapping \in Mappings BY <1>2, <3>1 DEF Mappings
    <3>3. db.cursor => [local |-> t.local, root |-> 1] \in db.rows BY <1>1, <2>2 DEF Tables
    <3> QED BY <3>1, <3>2, <3>3 DEF Mappings, Pair
  <2> QED BY <2>1, <2>2
<1>6. hand \in [Procs -> Hands]
  <2>1. \A u \in Targets : InHand(u) \in Hands BY DEF Hands, InHand
  <2> QED BY <1>1, <2>1
<1>7. folder \in [Ids -> [spec : Specs \cup {Unmapped}, state : {"none", "live", "trashed"}]]
  BY <1>1, <1>2 DEF FolderOf, NoFolder
<1> QED
  BY <1>1, <1>3, <1>4, <1>5, <1>6, <1>7 DEF TInv, TablesTyped, Follows, Described, NoCursorYet,
     Reconciled

\* The tables stay, but for the blocked flag, and no process comes to a new place
\* before the loop.
LEMMA TablesKept ==
    ASSUME TInv, UNCHANGED <<command, hand, outdated, disturbed>>,
           folder' \in [Ids -> [spec : Specs \cup {Unmapped}, state : {"none", "live", "trashed"}]],
           \/ db' = db
           \/ \E b \in {"none", "transient", "auth"} : db' = [db EXCEPT !.blocked = b],
           \A p \in Procs :
               /\ pc'[p] \in {"save", "record"} => pc'[p] = pc[p]
               /\ p \in Started' => /\ p \in Started
                                    /\ \/ pc'[p] = pc[p]
                                       \/ {pc[p], pc'[p]} \subseteq {"watch", "scan"} \cup Loop
    PROVE  TInv'
<1> USE DEF TInv
<1>0. Started \subseteq Procs /\ Started' \subseteq Procs
  BY DEF Started
<1>1. /\ db' \in [account : BOOLEAN, mapping : Mappings \cup {Unmapped}, cursor : BOOLEAN,
                  blocked : {"none", "transient", "auth"}, rows : SUBSET Pairs]
      /\ db'.account = db.account /\ db'.mapping = db.mapping /\ db'.cursor = db.cursor
      /\ db'.rows = db.rows
  <2>1. CASE db' = db BY <2>1 DEF TablesTyped
  <2>2. CASE \E b \in {"none", "transient", "auth"} : db' = [db EXCEPT !.blocked = b]
    BY <2>2 DEF TablesTyped
  <2> QED BY <2>1, <2>2
<1>2. TablesTyped' BY <1>1 DEF TablesTyped, Loop
<1>3. Follows' BY <1>0, <1>1 DEF Follows, Loop
<1>4. Described' BY <1>1 DEF Described, Pair
<1>5. NoCursorYet' BY <1>0, <1>1 DEF NoCursorYet, FirstPlaces, Loop
<1>6. Reconciled' BY <1>0, <1>1 DEF Reconciled, Pair, Loop
<1> QED BY <1>2, <1>3, <1>4, <1>5, <1>6

(* The commands write the tables (mapping.rs:59, link.rs, unlink.rs:33-43, start.rs:69-155):
   those that run beside a start mark it disturbed, those that change the pair under a
   cursor mark the tables outdated, and all others keep to the row the start has read. *)
LEMMA ProvisionTables ==
    ASSUME IInv, TInv, NEW p \in Procs, ProvisionStep(p)
    PROVE  TInv'
<1> USE ProvisionAssumption
<1>1. PICK l : Moves(p, l)
  BY ProvisionMoves
<1>2. /\ command' = command /\ pc \in [Procs -> Places] /\ pc' = [pc EXCEPT ![p] = l] /\ pc'[p] = l
      /\ \A q \in Procs : q # p => pc'[q] = pc[q]
  BY <1>1 DEF Moves, Go, Keep, IInv, Typed
<1>3. Started \subseteq Procs /\ Started' \subseteq Procs
  BY DEF Started
<1>4. \A q \in Procs : q # p => (q \in Started' <=> q \in Started)
  BY <1>2 DEF Started
<1>5. p \in Started \/ pc[p] = "load" => \A q \in Started : q = p
  BY <1>3 DEF IInv, LockHeld, Inside
<1>6. TablesTyped
  BY DEF TInv
<1>7. p \in Started <=> command[p] = "start" /\ pc[p] \in Holding
  BY DEF Started
<1>8. p \in Started' <=> command[p] = "start" /\ l \in Holding
  BY <1>2 DEF Started
<1>9. CASE LinkAccount(p)
  <2>1. hand' \in [Procs -> Hands] /\ \A q \in Procs : q # p => hand'[q] = hand[q]
    BY <1>6, <1>9 DEF TablesTyped, LinkAccount
  <2>2. pc'[p] \in {"save", "record"} \/ (p \in Started' /\ pc'[p] \notin {"resolve", "create"})
          => hand'[p].root \in Ids
    BY <1>2, <1>8, <1>9 DEF Holding, LinkAccount, Step, Fails, Exit, Go
  <2>3. folder' \in [Ids -> [spec : Specs \cup {Unmapped}, state : {"none", "live", "trashed"}]]
    BY <1>6, <1>9 DEF TablesTyped, LinkAccount
  <2>4. db' \in [account : BOOLEAN, mapping : Mappings \cup {Unmapped}, cursor : BOOLEAN,
                 blocked : {"none", "transient", "auth"}, rows : SUBSET Pairs]
    BY <1>6, <1>9 DEF TablesTyped, LinkAccount
  <2>5. /\ db'.mapping # Unmapped => db'.account
        /\ db'.cursor => db'.mapping # Unmapped
    BY <1>6, <1>9 DEF TablesTyped, LinkAccount
  <2>6. outdated' \in BOOLEAN /\ disturbed' \subseteq Procs
    BY <1>6, <1>9 DEF TablesTyped, LinkAccount
  <2>7. TablesTyped' BY <1>2, <1>4, <1>6, <2>1, <2>2, <2>3, <2>4, <2>5, <2>6 DEF TablesTyped
  <2>8. Follows'
    BY <1>2, <1>3, <1>4, <1>8, <1>9 DEF TInv, TablesTyped, Follows, Holding, LinkAccount, Step,
       Fails, Exit, Go
  <2>9. Described'
    BY <1>9 DEF TInv, TablesTyped, Described, LinkAccount
  <2>10. NoCursorYet'
    BY <1>2, <1>3, <1>4, <1>9 DEF TInv, TablesTyped, NoCursorYet, FirstPlaces, LinkAccount,
       Step, Fails, Exit, Go
  <2>11. Reconciled'
    BY <1>2, <1>3, <1>4, <1>9 DEF TInv, TablesTyped, Reconciled, Loop, LinkAccount, Step,
       Fails, Exit, Go
  <2> QED BY <2>7, <2>8, <2>9, <2>10, <2>11 DEF TInv
<1>10. CASE LinkUnblocks(p)
  <2>1. hand' \in [Procs -> Hands] /\ \A q \in Procs : q # p => hand'[q] = hand[q]
    BY <1>6, <1>10 DEF TablesTyped, LinkUnblocks
  <2>2. pc'[p] \in {"save", "record"} \/ (p \in Started' /\ pc'[p] \notin {"resolve", "create"})
          => hand'[p].root \in Ids
    BY <1>2, <1>8, <1>10 DEF Holding, LinkUnblocks, Exit, Go
  <2>3. folder' \in [Ids -> [spec : Specs \cup {Unmapped}, state : {"none", "live", "trashed"}]]
    BY <1>6, <1>10 DEF TablesTyped, LinkUnblocks
  <2>4. db' \in [account : BOOLEAN, mapping : Mappings \cup {Unmapped}, cursor : BOOLEAN,
                 blocked : {"none", "transient", "auth"}, rows : SUBSET Pairs]
    BY <1>6, <1>10 DEF TablesTyped, LinkUnblocks
  <2>5. /\ db'.mapping # Unmapped => db'.account
        /\ db'.cursor => db'.mapping # Unmapped
    BY <1>6, <1>10 DEF TablesTyped, LinkUnblocks
  <2>6. outdated' \in BOOLEAN /\ disturbed' \subseteq Procs
    BY <1>6, <1>10 DEF TablesTyped, LinkUnblocks
  <2>7. TablesTyped' BY <1>2, <1>4, <1>6, <2>1, <2>2, <2>3, <2>4, <2>5, <2>6 DEF TablesTyped
  <2>8. Follows'
    BY <1>2, <1>3, <1>4, <1>8, <1>10 DEF TInv, Follows, Holding, LinkUnblocks, Exit, Go
  <2>9. Described'
    BY <1>10 DEF TInv, Described, LinkUnblocks
  <2>10. NoCursorYet'
    BY <1>3, <1>4, <1>10 DEF TInv, NoCursorYet, FirstPlaces, LinkUnblocks, Exit, Go
  <2>11. Reconciled'
    BY <1>3, <1>4, <1>10 DEF TInv, Reconciled, Loop, LinkUnblocks, Exit, Go
  <2> QED BY <2>7, <2>8, <2>9, <2>10, <2>11 DEF TInv
<1>11. CASE Clear(p)
  <2>1. hand' \in [Procs -> Hands] /\ \A q \in Procs : q # p => hand'[q] = hand[q]
    BY <1>6, <1>11 DEF TablesTyped, Clear
  <2>2. pc'[p] \in {"save", "record"} \/ (p \in Started' /\ pc'[p] \notin {"resolve", "create"})
          => hand'[p].root \in Ids
    BY <1>2, <1>8, <1>11 DEF Holding, Clear, Exit, Go
  <2>3. folder' \in [Ids -> [spec : Specs \cup {Unmapped}, state : {"none", "live", "trashed"}]]
    BY <1>6, <1>11 DEF TablesTyped, Clear
  <2>4. db' \in [account : BOOLEAN, mapping : Mappings \cup {Unmapped}, cursor : BOOLEAN,
                 blocked : {"none", "transient", "auth"}, rows : SUBSET Pairs]
    BY <1>6, <1>11 DEF TablesTyped, Clear, Empty
  <2>5. /\ db'.mapping # Unmapped => db'.account
        /\ db'.cursor => db'.mapping # Unmapped
    BY <1>11 DEF Clear, Empty
  <2>6. outdated' \in BOOLEAN /\ disturbed' \subseteq Procs
    BY <1>3, <1>6, <1>11 DEF TablesTyped, Clear
  <2>7. TablesTyped' BY <1>2, <1>4, <1>6, <2>1, <2>2, <2>3, <2>4, <2>5, <2>6 DEF TablesTyped
  <2>8. Follows'
    BY <1>2, <1>3, <1>4, <1>8, <1>11 DEF Follows, Holding, Clear, Exit, Go
  <2>9. Described'
    BY <1>11 DEF Described, Clear, Empty
  <2>10. NoCursorYet'
    BY <1>11 DEF NoCursorYet, Clear, Empty
  <2>11. Reconciled'
    <3>1. outdated' \/ Started = {} BY <1>11 DEF Clear
    <3>2. Started = {} => Started' = {}
      BY <1>3, <1>4, <1>8, <1>1, <1>11 DEF Clear, Moves, Preparing, Holding
    <3> QED BY <3>1, <3>2 DEF Reconciled
  <2> QED BY <2>7, <2>8, <2>9, <2>10, <2>11 DEF TInv
<1>12. CASE LocalDir(p)
  <2>1. hand' \in [Procs -> Hands] /\ \A q \in Procs : q # p => hand'[q] = hand[q]
    BY <1>6, <1>12 DEF TablesTyped, LocalDir
  <2>2. pc'[p] \in {"save", "record"} \/ (p \in Started' /\ pc'[p] \notin {"resolve", "create"})
          => hand'[p].root \in Ids
    BY <1>2, <1>6, <1>7, <1>8, <1>12 DEF TablesTyped, Holding, LocalDir, EnsureDir, Step, Exit,
       Go
  <2>3. folder' \in [Ids -> [spec : Specs \cup {Unmapped}, state : {"none", "live", "trashed"}]]
    BY <1>6, <1>12 DEF TablesTyped, LocalDir
  <2>4. db' \in [account : BOOLEAN, mapping : Mappings \cup {Unmapped}, cursor : BOOLEAN,
                 blocked : {"none", "transient", "auth"}, rows : SUBSET Pairs]
    BY <1>6, <1>12 DEF TablesTyped, LocalDir
  <2>5. /\ db'.mapping # Unmapped => db'.account
        /\ db'.cursor => db'.mapping # Unmapped
    BY <1>6, <1>12 DEF TablesTyped, LocalDir
  <2>6. outdated' \in BOOLEAN /\ disturbed' \subseteq Procs
    BY <1>6, <1>12 DEF TablesTyped, LocalDir
  <2>7. TablesTyped' BY <1>2, <1>4, <1>6, <2>1, <2>2, <2>3, <2>4, <2>5, <2>6 DEF TablesTyped
  <2>8. Follows'
    <3>1. /\ \/ pc[p] = "dir" /\ l \in {"resolve", "done"}
             \/ pc[p] = "local" /\ l \in {"remote", "done"}
          /\ pc[p] = "dir" => command[p] = "map"
      <4>1. pc[p] = "dir" => command[p] = "map"
        BY DEF IInv, InPlace, AtPlace, StartPlaces, Holding
      <4>2. CASE pc[p] = "dir" /\ EnsureDir(p, "resolve")
        BY <1>2, <4>1, <4>2 DEF EnsureDir, Step, Exit, Go
      <4>3. CASE pc[p] = "local" /\ EnsureDir(p, "remote")
        BY <1>2, <4>1, <4>3 DEF EnsureDir, Step, Exit, Go
      <4> QED BY <1>12, <4>2, <4>3 DEF LocalDir
    <3>2. UNCHANGED <<db, hand, outdated, disturbed>> BY <1>12 DEF LocalDir
    <3>3. p \in Started' => p \in Started BY <1>7, <1>8, <3>1 DEF Holding
    <3> QED BY <1>2, <1>3, <1>4, <3>1, <3>2, <3>3 DEF TInv, Follows
  <2>9. Described'
    BY <1>12 DEF TInv, Described, LocalDir
  <2>10. NoCursorYet'
    <3>1. UNCHANGED <<db, hand>> BY <1>12 DEF LocalDir
    <3>2. p \in Started' => p \in Started /\ pc[p] = "local"
      <4>1. pc[p] = "dir" => command[p] = "map"
        BY DEF IInv, InPlace, AtPlace, StartPlaces, Holding
      <4>2. pc[p] \in {"dir", "local"} BY <1>12 DEF LocalDir
      <4> QED BY <1>7, <1>8, <4>1, <4>2 DEF Holding
    <3> QED BY <1>2, <1>3, <1>4, <3>1, <3>2 DEF TInv, NoCursorYet, FirstPlaces
  <2>11. Reconciled'
    BY <1>2, <1>3, <1>4, <1>12 DEF TInv, Reconciled, Loop, LocalDir, EnsureDir, Step, Exit, Go
  <2> QED BY <2>7, <2>8, <2>9, <2>10, <2>11 DEF TInv
<1>13. CASE Resolve(p)
  <2>1. hand' \in [Procs -> Hands] /\ \A q \in Procs : q # p => hand'[q] = hand[q]
    <3>1. CASE \E i \in Ids : hand' = [hand EXCEPT ![p].root = i]
      BY <1>6, <3>1 DEF TablesTyped, Hands
    <3>2. CASE hand' = hand BY <1>6, <3>2 DEF TablesTyped
    <3>3. Live(hand[p].spec) \subseteq Ids BY DEF Live
    <3> QED BY <1>13, <3>1, <3>2, <3>3 DEF Resolve
  <2>2. pc'[p] \in {"save", "record"} \/ (p \in Started' /\ pc'[p] \notin {"resolve", "create"})
          => hand'[p].root \in Ids
    <3>1. CASE \E i \in Ids : hand' = [hand EXCEPT ![p].root = i]
      BY <1>6, <3>1 DEF TablesTyped, Hands
    <3>2. CASE l \in {"create", "done"} BY <1>2, <1>8, <3>2 DEF Holding
    <3>3. Live(hand[p].spec) \subseteq Ids BY DEF Live
    <3> QED BY <1>2, <1>13, <3>1, <3>2, <3>3 DEF Resolve, Step, Fails, Exit, Go
  <2>3. folder' \in [Ids -> [spec : Specs \cup {Unmapped}, state : {"none", "live", "trashed"}]]
    BY <1>6, <1>13 DEF TablesTyped, Resolve
  <2>4. db' \in [account : BOOLEAN, mapping : Mappings \cup {Unmapped}, cursor : BOOLEAN,
                 blocked : {"none", "transient", "auth"}, rows : SUBSET Pairs]
    BY <1>6, <1>13 DEF TablesTyped, Resolve
  <2>5. /\ db'.mapping # Unmapped => db'.account
        /\ db'.cursor => db'.mapping # Unmapped
    BY <1>6, <1>13 DEF TablesTyped, Resolve
  <2>6. outdated' \in BOOLEAN /\ disturbed' \subseteq Procs
    BY <1>6, <1>13 DEF TablesTyped, Resolve
  <2>7. TablesTyped' BY <1>2, <1>4, <1>6, <2>1, <2>2, <2>3, <2>4, <2>5, <2>6 DEF TablesTyped
  <2>8. Follows'
    BY <1>2, <1>3, <1>4, <1>7, <1>8, <1>13 DEF TInv, TablesTyped, Hands, Follows, Holding,
       Resolve, Resolved, Step, Fails, Exit, Go
  <2>9. Described'
    BY <1>13 DEF TInv, Described, Resolve
  <2>10. NoCursorYet'
    BY <1>2, <1>3, <1>4, <1>7, <1>8, <1>13 DEF TInv, TablesTyped, Hands, NoCursorYet,
       FirstPlaces, Holding, Resolve
  <2>11. Reconciled'
    BY <1>2, <1>3, <1>4, <1>13 DEF TInv, TablesTyped, Reconciled, Loop, Resolve, Resolved,
       Step, Fails, Exit, Go
  <2> QED BY <2>7, <2>8, <2>9, <2>10, <2>11 DEF TInv
<1>14. CASE Create(p)
  <2>1. hand' \in [Procs -> Hands] /\ \A q \in Procs : q # p => hand'[q] = hand[q]
    <3>1. CASE \E i \in Ids : hand' = [hand EXCEPT ![p].root = i]
      BY <1>6, <3>1 DEF TablesTyped, Hands
    <3>2. CASE hand' = hand BY <1>6, <3>2 DEF TablesTyped
    <3> QED BY <1>14, <3>1, <3>2 DEF Create
  <2>2. pc'[p] \in {"save", "record"} \/ (p \in Started' /\ pc'[p] \notin {"resolve", "create"})
          => hand'[p].root \in Ids
    <3>1. CASE \E i \in Ids : hand' = [hand EXCEPT ![p].root = i]
      BY <1>6, <3>1 DEF TablesTyped, Hands
    <3>2. CASE l = "done" BY <1>2, <1>8, <3>2 DEF Holding
    <3> QED BY <1>2, <1>14, <3>1, <3>2 DEF Create, Step, Fails, Exit, Go
  <2>3. folder' \in [Ids -> [spec : Specs \cup {Unmapped}, state : {"none", "live", "trashed"}]]
    BY <1>6, <1>14 DEF TablesTyped, Hands, Create
  <2>4. db' \in [account : BOOLEAN, mapping : Mappings \cup {Unmapped}, cursor : BOOLEAN,
                 blocked : {"none", "transient", "auth"}, rows : SUBSET Pairs]
    BY <1>6, <1>14 DEF TablesTyped, Create
  <2>5. /\ db'.mapping # Unmapped => db'.account
        /\ db'.cursor => db'.mapping # Unmapped
    BY <1>6, <1>14 DEF TablesTyped, Create
  <2>6. outdated' \in BOOLEAN /\ disturbed' \subseteq Procs
    BY <1>6, <1>14 DEF TablesTyped, Create
  <2>7. TablesTyped' BY <1>2, <1>4, <1>6, <2>1, <2>2, <2>3, <2>4, <2>5, <2>6 DEF TablesTyped
  <2>8. Follows'
    BY <1>2, <1>3, <1>4, <1>7, <1>8, <1>14 DEF TInv, TablesTyped, Hands, Follows, Holding,
       Create, Resolved, Step, Fails, Exit, Go
  <2>9. Described'
    BY <1>14 DEF TInv, Described, Create
  <2>10. NoCursorYet'
    BY <1>2, <1>3, <1>4, <1>7, <1>8, <1>14 DEF TInv, TablesTyped, Hands, NoCursorYet,
       FirstPlaces, Holding, Create
  <2>11. Reconciled'
    BY <1>2, <1>3, <1>4, <1>14 DEF TInv, TablesTyped, Reconciled, Loop, Create, Resolved,
       Step, Fails, Exit, Go
  <2> QED BY <2>7, <2>8, <2>9, <2>10, <2>11 DEF TInv
<1>15. CASE Record(p)
  <2>1. hand' \in [Procs -> Hands] /\ \A q \in Procs : q # p => hand'[q] = hand[q]
    BY <1>6, <1>15 DEF TablesTyped, Record
  <2>2. pc'[p] \in {"save", "record"} \/ (p \in Started' /\ pc'[p] \notin {"resolve", "create"})
          => hand'[p].root \in Ids
    BY <1>6, <1>15 DEF TablesTyped, Record
  <2>3. folder' \in [Ids -> [spec : Specs \cup {Unmapped}, state : {"none", "live", "trashed"}]]
    BY <1>6, <1>15 DEF TablesTyped, Record
  <2>4. db' \in [account : BOOLEAN, mapping : Mappings \cup {Unmapped}, cursor : BOOLEAN,
                 blocked : {"none", "transient", "auth"}, rows : SUBSET Pairs]
    BY <1>6, <1>15 DEF TablesTyped, Hands, Mappings, Record
  <2>5. /\ db'.mapping # Unmapped => db'.account
        /\ db'.cursor => db'.mapping # Unmapped
    <3>1. CASE db' = db BY <1>6, <3>1 DEF TablesTyped
    <3>2. CASE db' # db
      <4>1. /\ db.account
            /\ db' = [db EXCEPT !.mapping = [local |-> hand[p].local, root |-> hand[p].root,
                                             spec |-> hand[p].spec]]
            /\ pc[p] = "record"
        BY <1>15, <3>2 DEF Record
      <4>2. [local |-> hand[p].local, root |-> hand[p].root, spec |-> hand[p].spec] \in Mappings
        BY <1>6, <4>1 DEF TablesTyped, Hands, Mappings
      <4>3. Unmapped \notin Mappings BY DEF Mappings, Specs
      <4> QED BY <1>6, <4>1, <4>2, <4>3 DEF TablesTyped
    <3> QED BY <3>1, <3>2
  <2>6. outdated' \in BOOLEAN /\ disturbed' \subseteq Procs
    BY <1>3, <1>6, <1>15 DEF TablesTyped, Record
  <2>7. TablesTyped' BY <1>2, <1>4, <1>6, <2>1, <2>2, <2>3, <2>4, <2>5, <2>6 DEF TablesTyped
  <2>8. Follows'
    <3>1. l = "done" /\ pc[p] = "record" /\ hand' = hand
      BY <1>2, <1>15 DEF Record, Exit, Go
    <3>2. p \notin Started /\ p \notin Started' BY <1>7, <1>8, <3>1 DEF Holding
    <3>3. CASE UNCHANGED <<db, outdated, disturbed>>
      BY <1>2, <1>3, <1>4, <3>1, <3>2, <3>3 DEF TInv, Follows
    <3>4. CASE /\ db' = [db EXCEPT !.mapping = [local |-> hand[p].local, root |-> hand[p].root,
                                             spec |-> hand[p].spec]]
               /\ outdated' = (outdated \/ (db.mapping # Unmapped
                                              /\ Pair(db.mapping) # Pair(hand[p])))
               /\ disturbed' = disturbed \cup Started
      <4> SUFFICES ASSUME NEW d \in Started', ~outdated' \/ d \notin disturbed'
                   PROVE  /\ db'.mapping # Unmapped /\ db'.mapping.local = hand[d].local
                          /\ pc'[d] \notin {"resolve", "create", "save"} => db'.mapping.root = hand[d].root
        BY <3>1 DEF Follows
      <4>1. d \in Started /\ d # p BY <1>3, <1>4, <3>2
      <4>2. ~outdated' /\ ~outdated BY <3>4, <4>1
      <4>3. /\ db.mapping # Unmapped /\ db.mapping.local = hand[d].local
            /\ pc[d] \notin {"resolve", "create", "save"} => db.mapping.root = hand[d].root
        BY <4>1, <4>2 DEF TInv, Follows
      <4>4. Pair(db.mapping) = Pair(hand[p]) BY <3>4, <4>2, <4>3
      <4>5. db.mapping.local = hand[p].local /\ db.mapping.root = hand[p].root
        BY <4>4 DEF Pair
      <4>6. db'.mapping = [local |-> hand[p].local, root |-> hand[p].root, spec |-> hand[p].spec]
        BY <1>6, <3>4 DEF TablesTyped
      <4>7. db'.mapping \in Mappings BY <1>6, <3>1, <4>6 DEF TablesTyped, Hands, Mappings
      <4>8. Unmapped \notin Mappings BY DEF Mappings, Specs
      <4>9. pc'[d] = pc[d] BY <1>2, <1>3, <4>1
      <4> QED BY <4>3, <4>5, <4>6, <4>7, <4>8, <4>9
    <3> QED BY <1>15, <3>3, <3>4 DEF Record, Pair
  <2>9. Described'
    BY <1>15 DEF TInv, TablesTyped, Described, Record, Exit
  <2>10. NoCursorYet'
    BY <1>3, <1>4, <1>15 DEF TInv, TablesTyped, NoCursorYet, FirstPlaces, Record, Exit, Go
  <2>11. Reconciled'
    <3>1. \A d \in Started' : d \in Started /\ d # p
      BY <1>3, <1>4, <1>8, <1>15 DEF Record, IInv, InPlace, AtPlace, StartPlaces, Holding
    <3>2. db'.cursor = db.cursor /\ db'.rows = db.rows /\ hand' = hand
      BY <1>6, <1>15 DEF TablesTyped, Record
    <3>3. ~outdated' => ~outdated BY <1>15 DEF Record
    <3> QED BY <1>2, <3>1, <3>2, <3>3 DEF TInv, Reconciled
  <2> QED BY <2>7, <2>8, <2>9, <2>10, <2>11 DEF TInv
<1>16. CASE Load(p)
  <2>1. hand' \in [Procs -> Hands] /\ \A q \in Procs : q # p => hand'[q] = hand[q]
    <3>1. CASE hand' = hand BY <1>6, <3>1 DEF TablesTyped
    <3>2. CASE hand' # hand
      <4>1. /\ db.mapping # Unmapped
            /\ hand' = [hand EXCEPT ![p] = [local |-> db.mapping.local, root |-> db.mapping.root,
                                            spec |-> db.mapping.spec, first |-> FALSE]]
        BY <1>16, <3>2 DEF Load
      <4>2. db.mapping \in Mappings BY <1>6, <4>1 DEF TablesTyped
      <4>3. [local |-> db.mapping.local, root |-> db.mapping.root,
             spec |-> db.mapping.spec, first |-> FALSE] \in Hands
        BY <4>2 DEF Mappings, Hands
      <4> QED BY <1>6, <4>1, <4>3 DEF TablesTyped
    <3> QED BY <3>1, <3>2
  <2>2. pc'[p] \in {"save", "record"} \/ (p \in Started' /\ pc'[p] \notin {"resolve", "create"})
          => hand'[p].root \in Ids
    <3>1. CASE l = "done" BY <1>2, <1>8, <3>1 DEF Holding
    <3>2. CASE l # "done"
      <4>1. /\ db.mapping # Unmapped
            /\ hand' = [hand EXCEPT ![p] = [local |-> db.mapping.local, root |-> db.mapping.root,
                                            spec |-> db.mapping.spec, first |-> FALSE]]
        BY <1>2, <1>16, <3>2 DEF Load, Exit, Go
      <4>2. db.mapping \in Mappings BY <1>6, <4>1 DEF TablesTyped
      <4>3. hand'[p].root = db.mapping.root BY <1>6, <4>1 DEF TablesTyped
      <4> QED BY <4>2, <4>3 DEF Mappings
    <3> QED BY <3>1, <3>2
  <2>3. folder' \in [Ids -> [spec : Specs \cup {Unmapped}, state : {"none", "live", "trashed"}]]
    BY <1>6, <1>16 DEF TablesTyped, Load
  <2>4. db' \in [account : BOOLEAN, mapping : Mappings \cup {Unmapped}, cursor : BOOLEAN,
                 blocked : {"none", "transient", "auth"}, rows : SUBSET Pairs]
    BY <1>6, <1>16 DEF TablesTyped, Load
  <2>5. /\ db'.mapping # Unmapped => db'.account
        /\ db'.cursor => db'.mapping # Unmapped
    BY <1>6, <1>16 DEF TablesTyped, Load
  <2>6. outdated' \in BOOLEAN /\ disturbed' \subseteq Procs
    BY <1>6, <1>16 DEF TablesTyped, Load
  <2>7. TablesTyped' BY <1>2, <1>4, <1>6, <2>1, <2>2, <2>3, <2>4, <2>5, <2>6 DEF TablesTyped
  <2>8. Follows'
    BY <1>2, <1>3, <1>4, <1>8, <1>16 DEF TInv, TablesTyped, Follows, Holding, Load, Exit, Go
  <2>9. Described'
    BY <1>16 DEF TInv, Described, Load
  <2>10. NoCursorYet'
    BY <1>2, <1>3, <1>4, <1>16 DEF TInv, TablesTyped, NoCursorYet, Load
  <2>11. Reconciled'
    BY <1>2, <1>3, <1>4, <1>5, <1>16 DEF Reconciled, Loop, Load, Step, Exit, Go
  <2> QED BY <2>7, <2>8, <2>9, <2>10, <2>11 DEF TInv
<1>17. CASE Gate(p)
  <2>1. hand' \in [Procs -> Hands] /\ \A q \in Procs : q # p => hand'[q] = hand[q]
    <3>1. db.cursor \in BOOLEAN /\ hand \in [Procs -> Hands] BY <1>6 DEF TablesTyped
    <3>2. CASE db.cursor
      <4>1. hand' = [hand EXCEPT ![p].first = FALSE] BY <1>17, <3>2 DEF Gate
      <4> QED BY <3>1, <4>1 DEF Hands
    <3>3. CASE ~db.cursor
      <4>1. hand' = [hand EXCEPT ![p].first = TRUE] BY <1>17, <3>3 DEF Gate
      <4> QED BY <3>1, <4>1 DEF Hands
    <3> QED BY <3>2, <3>3
  <2>2. pc'[p] \in {"save", "record"} \/ (p \in Started' /\ pc'[p] \notin {"resolve", "create"})
          => hand'[p].root \in Ids
    BY <1>2, <1>6, <1>7, <1>8, <1>17 DEF TablesTyped, Holding, Gate, Step, Exit, Go
  <2>3. folder' \in [Ids -> [spec : Specs \cup {Unmapped}, state : {"none", "live", "trashed"}]]
    BY <1>6, <1>17 DEF TablesTyped, Gate
  <2>4. db' \in [account : BOOLEAN, mapping : Mappings \cup {Unmapped}, cursor : BOOLEAN,
                 blocked : {"none", "transient", "auth"}, rows : SUBSET Pairs]
    BY <1>6, <1>17 DEF TablesTyped, Gate
  <2>5. /\ db'.mapping # Unmapped => db'.account
        /\ db'.cursor => db'.mapping # Unmapped
    BY <1>6, <1>17 DEF TablesTyped, Gate
  <2>6. outdated' \in BOOLEAN /\ disturbed' \subseteq Procs
    BY <1>6, <1>17 DEF TablesTyped, Gate
  <2>7. TablesTyped' BY <1>2, <1>4, <1>6, <2>1, <2>2, <2>3, <2>4, <2>5, <2>6 DEF TablesTyped
  <2>8. Follows'
    BY <1>2, <1>3, <1>4, <1>7, <1>8, <1>17 DEF TInv, Follows, Holding, Gate
  <2>9. Described'
    BY <1>17 DEF TInv, Described, Gate
  <2>10. NoCursorYet'
    <3>1. db' = db /\ pc[p] = "gate" BY <1>17 DEF Gate
    <3>2. \A q \in Started' : q = p
      BY <1>3, <1>4, <1>5, <1>7, <3>1 DEF IInv, InPlace, AtPlace, Holding
    <3>3. CASE db.cursor
      <4>1. hand' = [hand EXCEPT ![p].first = FALSE] BY <1>17, <3>3 DEF Gate
      <4>2. hand'[p].first = FALSE BY <1>6, <4>1 DEF TablesTyped, Hands
      <4> QED BY <3>2, <4>2 DEF NoCursorYet
    <3>4. CASE ~db.cursor BY <3>1, <3>4 DEF NoCursorYet
    <3> QED BY <3>3, <3>4
  <2>11. Reconciled'
    BY <1>2, <1>3, <1>4, <1>17 DEF TInv, Reconciled, Loop, Gate, Step, Exit, Go
  <2> QED BY <2>7, <2>8, <2>9, <2>10, <2>11 DEF TInv
<1>18. CASE ProbeRoot(p)
  <2>1. hand' \in [Procs -> Hands] /\ \A q \in Procs : q # p => hand'[q] = hand[q]
    BY <1>6, <1>18 DEF TablesTyped, ProbeRoot
  <2>2. pc'[p] \in {"save", "record"} \/ (p \in Started' /\ pc'[p] \notin {"resolve", "create"})
          => hand'[p].root \in Ids
    BY <1>2, <1>6, <1>7, <1>8, <1>18 DEF TablesTyped, Holding, ProbeRoot, Step, Exit, Go
  <2>3. folder' \in [Ids -> [spec : Specs \cup {Unmapped}, state : {"none", "live", "trashed"}]]
    BY <1>6, <1>18 DEF TablesTyped, ProbeRoot
  <2>4. db' \in [account : BOOLEAN, mapping : Mappings \cup {Unmapped}, cursor : BOOLEAN,
                 blocked : {"none", "transient", "auth"}, rows : SUBSET Pairs]
    BY <1>6, <1>18 DEF TablesTyped, ProbeRoot
  <2>5. /\ db'.mapping # Unmapped => db'.account
        /\ db'.cursor => db'.mapping # Unmapped
    BY <1>6, <1>18 DEF TablesTyped, ProbeRoot
  <2>6. outdated' \in BOOLEAN /\ disturbed' \subseteq Procs
    BY <1>6, <1>18 DEF TablesTyped, ProbeRoot
  <2>7. TablesTyped' BY <1>2, <1>4, <1>6, <2>1, <2>2, <2>3, <2>4, <2>5, <2>6 DEF TablesTyped
  <2>8. Follows'
    BY <1>2, <1>3, <1>4, <1>7, <1>8, <1>18 DEF TInv, Follows, Holding, ProbeRoot
  <2>9. Described'
    BY <1>18 DEF TInv, Described, ProbeRoot
  <2>10. NoCursorYet'
    BY <1>2, <1>3, <1>4, <1>7, <1>8, <1>18 DEF TInv, NoCursorYet, FirstPlaces, Holding,
       ProbeRoot
  <2>11. Reconciled'
    BY <1>2, <1>3, <1>4, <1>18 DEF TInv, Reconciled, Loop, ProbeRoot, Step, Exit, Go
  <2> QED BY <2>7, <2>8, <2>9, <2>10, <2>11 DEF TInv
<1>19. CASE Save(p)
  <2>1. hand' \in [Procs -> Hands] /\ \A q \in Procs : q # p => hand'[q] = hand[q]
    BY <1>6, <1>19 DEF TablesTyped, Save
  <2>2. pc'[p] \in {"save", "record"} \/ (p \in Started' /\ pc'[p] \notin {"resolve", "create"})
          => hand'[p].root \in Ids
    BY <1>6, <1>19 DEF TablesTyped, Save
  <2>3. folder' \in [Ids -> [spec : Specs \cup {Unmapped}, state : {"none", "live", "trashed"}]]
    BY <1>6, <1>19 DEF TablesTyped, Save
  <2>4. db' \in [account : BOOLEAN, mapping : Mappings \cup {Unmapped}, cursor : BOOLEAN,
                 blocked : {"none", "transient", "auth"}, rows : SUBSET Pairs]
    BY <1>6, <1>19 DEF TablesTyped, Mappings, Save
  <2>5. /\ db'.mapping # Unmapped => db'.account
        /\ db'.cursor => db'.mapping # Unmapped
    <3>1. CASE db.mapping = Unmapped BY <1>6, <1>19, <3>1 DEF TablesTyped, Save
    <3>2. CASE db.mapping # Unmapped
      <4>1. db' = [db EXCEPT !.mapping.root = hand[p].root] /\ hand[p].root \in Ids
        BY <1>6, <1>19, <3>2 DEF Save, TablesTyped
      <4>2. db.mapping \in Mappings BY <1>6, <3>2 DEF TablesTyped
      <4>3. db'.mapping = [db.mapping EXCEPT !.root = hand[p].root]
        BY <1>6, <4>1 DEF TablesTyped
      <4>4. db'.mapping \in Mappings BY <4>1, <4>2, <4>3 DEF Mappings
      <4>5. Unmapped \notin Mappings BY DEF Mappings, Specs
      <4>6. db'.account = db.account /\ db'.cursor = db.cursor BY <1>6, <4>1 DEF TablesTyped
      <4> QED BY <1>6, <3>2, <4>4, <4>5, <4>6 DEF TablesTyped
    <3> QED BY <3>1, <3>2
  <2>6. outdated' \in BOOLEAN /\ disturbed' \subseteq Procs
    BY <1>6, <1>19 DEF TablesTyped, Save
  <2>7. TablesTyped' BY <1>2, <1>4, <1>6, <2>1, <2>2, <2>3, <2>4, <2>5, <2>6 DEF TablesTyped
  <2>8. Follows'
    <3>1. pc[p] = "save" /\ l = "engine" /\ hand' = hand /\ disturbed' = disturbed
      BY <1>2, <1>19 DEF Save, Step, Go
    <3>2. p \in Started /\ \A q \in Started' : q = p
      BY <1>3, <1>4, <1>5, <1>7, <3>1 DEF IInv, InPlace, AtPlace, Holding
    <3>3. ~outdated' \/ p \notin disturbed'
            => db.mapping # Unmapped /\ db.mapping.local = hand[p].local
      BY <1>19, <3>1, <3>2 DEF TInv, Follows, Save
    <3> SUFFICES ASSUME db.mapping # Unmapped, db.mapping.local = hand[p].local
                 PROVE  /\ db'.mapping # Unmapped
                        /\ db'.mapping.local = hand[p].local /\ db'.mapping.root = hand[p].root
      BY <3>1, <3>2, <3>3 DEF Follows
    <3>4. db' = [db EXCEPT !.mapping.root = hand[p].root] /\ hand[p].root \in Ids
      BY <1>6, <1>19 DEF Save, TablesTyped
    <3>5. db.mapping \in Mappings BY <1>6 DEF TablesTyped
    <3>6. db'.mapping = [db.mapping EXCEPT !.root = hand[p].root]
      BY <1>6, <3>4 DEF TablesTyped
    <3>7. db'.mapping \in Mappings /\ db'.mapping.local = db.mapping.local
          /\ db'.mapping.root = hand[p].root
      BY <3>4, <3>5, <3>6 DEF Mappings
    <3>8. Unmapped \notin Mappings BY DEF Mappings, Specs
    <3> QED BY <3>7, <3>8
  <2>9. Described'
    BY <1>7, <1>19 DEF TInv, TablesTyped, Described, NoCursorYet, FirstPlaces, Holding,
       InPlace, IInv, AtPlace, Save
  <2>10. NoCursorYet'
    BY <1>2, <1>3, <1>4, <1>7, <1>8, <1>19 DEF TInv, NoCursorYet, FirstPlaces, Holding, Save
  <2>11. Reconciled'
    BY <1>3, <1>4, <1>19 DEF TInv, TablesTyped, Reconciled, Loop, Save, Step, Go
  <2> QED BY <2>7, <2>8, <2>9, <2>10, <2>11 DEF TInv
<1>20. CASE BuildEngine(p)
  <2>1. hand' \in [Procs -> Hands] /\ \A q \in Procs : q # p => hand'[q] = hand[q]
    BY <1>6, <1>20 DEF TablesTyped, BuildEngine
  <2>2. pc'[p] \in {"save", "record"} \/ (p \in Started' /\ pc'[p] \notin {"resolve", "create"})
          => hand'[p].root \in Ids
    BY <1>2, <1>6, <1>7, <1>8, <1>20 DEF TablesTyped, Holding, BuildEngine, Step, Fails, Exit,
       Go
  <2>3. folder' \in [Ids -> [spec : Specs \cup {Unmapped}, state : {"none", "live", "trashed"}]]
    BY <1>6, <1>20 DEF TablesTyped, BuildEngine
  <2>4. db' \in [account : BOOLEAN, mapping : Mappings \cup {Unmapped}, cursor : BOOLEAN,
                 blocked : {"none", "transient", "auth"}, rows : SUBSET Pairs]
    BY <1>6, <1>20 DEF TablesTyped, BuildEngine
  <2>5. /\ db'.mapping # Unmapped => db'.account
        /\ db'.cursor => db'.mapping # Unmapped
    BY <1>6, <1>20 DEF TablesTyped, BuildEngine
  <2>6. outdated' \in BOOLEAN /\ disturbed' \subseteq Procs
    BY <1>6, <1>20 DEF TablesTyped, BuildEngine
  <2>7. TablesTyped' BY <1>2, <1>4, <1>6, <2>1, <2>2, <2>3, <2>4, <2>5, <2>6 DEF TablesTyped
  <2>8. Follows'
    BY <1>2, <1>3, <1>4, <1>7, <1>8, <1>20 DEF TInv, Follows, Holding, BuildEngine
  <2>9. Described'
    BY <1>20 DEF TInv, Described, BuildEngine
  <2>10. NoCursorYet'
    BY <1>2, <1>3, <1>4, <1>7, <1>8, <1>20 DEF TInv, NoCursorYet, FirstPlaces, Holding,
       BuildEngine
  <2>11. Reconciled'
    BY <1>2, <1>3, <1>4, <1>20 DEF TInv, Reconciled, Loop, BuildEngine, Step, Fails, Exit, Go
  <2> QED BY <2>7, <2>8, <2>9, <2>10, <2>11 DEF TInv
<1>21. CASE Initial(p)
  <2>1. hand' \in [Procs -> Hands] /\ \A q \in Procs : q # p => hand'[q] = hand[q]
    BY <1>6, <1>21 DEF TablesTyped, Initial
  <2>2. pc'[p] \in {"save", "record"} \/ (p \in Started' /\ pc'[p] \notin {"resolve", "create"})
          => hand'[p].root \in Ids
    BY <1>2, <1>6, <1>7, <1>8, <1>21 DEF TablesTyped, Holding, Initial, Step, Fails, Exit, Go
  <2>3. folder' \in [Ids -> [spec : Specs \cup {Unmapped}, state : {"none", "live", "trashed"}]]
    BY <1>6, <1>21 DEF TablesTyped, Initial
  <2>4. db' \in [account : BOOLEAN, mapping : Mappings \cup {Unmapped}, cursor : BOOLEAN,
                 blocked : {"none", "transient", "auth"}, rows : SUBSET Pairs]
    <3>1. CASE db' = db BY <1>6, <3>1 DEF TablesTyped
    <3>2. CASE db' = [db EXCEPT !.rows = @ \cup {Pair(hand[p])}]
      <4>1. p \in Started /\ hand[p].root \in Ids /\ hand[p] \in Hands
        BY <1>6, <1>7, <1>21 DEF Initial, TablesTyped, IInv, InPlace, AtPlace, Holding
      <4>2. Pair(hand[p]) \in Pairs BY <4>1 DEF Pair, Pairs, Hands
      <4> QED BY <1>6, <3>2, <4>2 DEF TablesTyped
    <3> QED BY <1>21, <3>1, <3>2 DEF Initial
  <2>5. /\ db'.mapping # Unmapped => db'.account
        /\ db'.cursor => db'.mapping # Unmapped
    BY <1>6, <1>21 DEF TablesTyped, Initial
  <2>6. outdated' \in BOOLEAN /\ disturbed' \subseteq Procs
    BY <1>6, <1>21 DEF TablesTyped, Initial
  <2>7. TablesTyped' BY <1>2, <1>4, <1>6, <2>1, <2>2, <2>3, <2>4, <2>5, <2>6 DEF TablesTyped
  <2>8. Follows'
    <3>1. /\ pc[p] = "initial" /\ p \in Started /\ l \in {"baseline", "done"}
          /\ UNCHANGED <<hand, outdated, disturbed>>
      BY <1>2, <1>7, <1>21 DEF Initial, Step, Fails, Exit, Go, IInv, InPlace, AtPlace, Holding
    <3>2. db'.mapping = db.mapping BY <1>6, <1>21 DEF Initial, TablesTyped
    <3>3. \A q \in Started' : q = p BY <1>3, <1>4, <1>5, <3>1
    <3> QED BY <1>2, <3>1, <3>2, <3>3 DEF TInv, Follows
  <2>9. Described'
    BY <1>21 DEF TInv, TablesTyped, Described, Follows, InPlace, IInv, Initial
  <2>10. NoCursorYet'
    BY <1>2, <1>3, <1>4, <1>7, <1>8, <1>21 DEF TInv, TablesTyped, NoCursorYet, FirstPlaces,
       Holding, Initial
  <2>11. Reconciled'
    BY <1>2, <1>3, <1>4, <1>21 DEF TInv, TablesTyped, Reconciled, Loop, Initial, Step, Fails,
       Exit, Go
  <2> QED BY <2>7, <2>8, <2>9, <2>10, <2>11 DEF TInv
<1>22. CASE Baseline(p)
  <2>1. hand' \in [Procs -> Hands] /\ \A q \in Procs : q # p => hand'[q] = hand[q]
    BY <1>6, <1>22 DEF TablesTyped, Baseline
  <2>2. pc'[p] \in {"save", "record"} \/ (p \in Started' /\ pc'[p] \notin {"resolve", "create"})
          => hand'[p].root \in Ids
    BY <1>2, <1>6, <1>7, <1>8, <1>22 DEF TablesTyped, Holding, Baseline, Step, Fails, Exit, Go
  <2>3. folder' \in [Ids -> [spec : Specs \cup {Unmapped}, state : {"none", "live", "trashed"}]]
    BY <1>6, <1>22 DEF TablesTyped, Baseline
  <2>4. db' \in [account : BOOLEAN, mapping : Mappings \cup {Unmapped}, cursor : BOOLEAN,
                 blocked : {"none", "transient", "auth"}, rows : SUBSET Pairs]
    BY <1>6, <1>22 DEF TablesTyped, Baseline
  <2>5. /\ db'.mapping # Unmapped => db'.account
        /\ db'.cursor => db'.mapping # Unmapped
    BY <1>6, <1>22 DEF TablesTyped, Baseline
  <2>6. outdated' \in BOOLEAN /\ disturbed' \subseteq Procs
    BY <1>6, <1>22 DEF TablesTyped, Baseline
  <2>7. TablesTyped' BY <1>2, <1>4, <1>6, <2>1, <2>2, <2>3, <2>4, <2>5, <2>6 DEF TablesTyped
  <2>8. Follows'
    BY <1>2, <1>3, <1>4, <1>7, <1>8, <1>22 DEF TInv, TablesTyped, Follows, Holding, Baseline
  <2>9. Described'
    <3>1. p \in Started /\ pc[p] = "baseline"
      BY <1>7, <1>22 DEF Baseline, IInv, InPlace, AtPlace, Holding
    <3>2. outdated' = outdated BY <1>22 DEF Baseline
    <3>3. CASE db' = db BY <3>2, <3>3 DEF TInv, Described, Pair
    <3>4. CASE db' = [db EXCEPT !.cursor = TRUE]
      <4>1. db'.mapping = db.mapping /\ db'.rows = db.rows BY <1>6, <3>4 DEF TablesTyped
      <4>2. ~outdated => /\ Pair(hand[p]) \in db.rows
                         /\ db.mapping.local = hand[p].local /\ db.mapping.root = hand[p].root
        BY <3>1 DEF TInv, Follows, Reconciled
      <4> QED BY <3>2, <4>1, <4>2 DEF Described, Pair
    <3> QED BY <1>22, <3>3, <3>4 DEF Baseline
  <2>10. NoCursorYet'
    <3>1. \A q \in Started' : q = p
      BY <1>3, <1>4, <1>5, <1>7, <1>22 DEF Baseline, IInv, InPlace, AtPlace, Holding
    <3>2. l \in {"check", "done"} BY <1>2, <1>22 DEF Baseline, Step, Fails, Exit, Go
    <3> QED BY <1>2, <3>1, <3>2 DEF NoCursorYet, FirstPlaces
  <2>11. Reconciled'
    BY <1>2, <1>3, <1>4, <1>7, <1>8, <1>22 DEF TInv, TablesTyped, Reconciled, Loop, Baseline,
       Fails, Exit, Go
  <2> QED BY <2>7, <2>8, <2>9, <2>10, <2>11 DEF TInv
<1>23. CASE Check(p)
  <2>1. hand' \in [Procs -> Hands] /\ \A q \in Procs : q # p => hand'[q] = hand[q]
    BY <1>6, <1>23 DEF TablesTyped, Check, provVars
  <2>2. pc'[p] \in {"save", "record"} \/ (p \in Started' /\ pc'[p] \notin {"resolve", "create"})
          => hand'[p].root \in Ids
    BY <1>2, <1>6, <1>7, <1>8, <1>23 DEF TablesTyped, Holding, Check, provVars, Step, Exit, Go
  <2>3. folder' \in [Ids -> [spec : Specs \cup {Unmapped}, state : {"none", "live", "trashed"}]]
    BY <1>6, <1>23 DEF TablesTyped, Check, provVars
  <2>4. db' \in [account : BOOLEAN, mapping : Mappings \cup {Unmapped}, cursor : BOOLEAN,
                 blocked : {"none", "transient", "auth"}, rows : SUBSET Pairs]
    BY <1>6, <1>23 DEF TablesTyped, Check, provVars
  <2>5. /\ db'.mapping # Unmapped => db'.account
        /\ db'.cursor => db'.mapping # Unmapped
    BY <1>6, <1>23 DEF TablesTyped, Check, provVars
  <2>6. outdated' \in BOOLEAN /\ disturbed' \subseteq Procs
    BY <1>6, <1>23 DEF TablesTyped, Check, provVars
  <2>7. TablesTyped' BY <1>2, <1>4, <1>6, <2>1, <2>2, <2>3, <2>4, <2>5, <2>6 DEF TablesTyped
  <2>8. Follows'
    BY <1>2, <1>3, <1>4, <1>7, <1>8, <1>23 DEF TInv, Follows, Holding, Check, provVars
  <2>9. Described'
    BY <1>23 DEF TInv, Described, Check, provVars
  <2>10. NoCursorYet'
    BY <1>2, <1>3, <1>4, <1>23 DEF TInv, NoCursorYet, FirstPlaces, Check, provVars, Step, Go
  <2>11. Reconciled'
    BY <1>2, <1>3, <1>4, <1>23 DEF TInv, Reconciled, Loop, Check, provVars, Step, Exit, Go
  <2> QED BY <2>7, <2>8, <2>9, <2>10, <2>11 DEF TInv
<1> QED
  BY <1>9, <1>10, <1>11, <1>12, <1>13, <1>14, <1>15, <1>16, <1>17, <1>18, <1>19, <1>20, <1>21,
     <1>22, <1>23 DEF ProvisionStep

\* No process comes to a new place that the tables are about, but from the watcher to
\* the loop and on.
Onwards ==
    \A p \in Procs :
        /\ pc'[p] \in {"save", "record"} => pc'[p] = pc[p]
        /\ p \in Started' => /\ p \in Started
                             /\ \/ pc'[p] = pc[p]
                                \/ {pc[p], pc'[p]} \subseteq {"watch", "scan"} \cup Loop

(* Neither the lock, the daemon, the clients nor signals lead to such a place. *)
LEMMA OthersGoOnwards ==
    ASSUME IInv, NEW p \in Procs,
           \/ LockStep(p) \/ DaemonStep(p) \/ ClientStep(p) \/ Launch(p) \/ Interrupt(p) \/ Killed(p)
    PROVE  Onwards
<1>1. SUFFICES command' = command /\
               \A q \in Procs : \/ pc'[q] = pc[q]
                                \/ pc'[q] \notin Holding \cup {"record"}
                                \/ {pc[q], pc'[q]} \subseteq {"watch", "scan"} \cup Loop
  BY DEF Onwards, Started, Holding, Loop
<1> USE DEF IInv, Typed
<1>2. CASE LockStep(p)
  BY <1>2 DEF LockStep, Take, Truncate, Write, Release, Probe, Unprobe, Peek, Exit, Go, Holding
<1>3. CASE DaemonStep(p)
  <2>1. CASE \/ Arm(p) \/ Unbind(p) \/ Bind(p) \/ StopsAccepting(p) \/ Unlinks(p)
             \/ PollEnds(p) \/ PollReturns(p) \/ DispReturns(p)
    BY <2>1 DEF Arm, Unbind, Bind, StopsAccepting, Unlinks, PollEnds, PollReturns, DispReturns,
       Calm, lockVars
  <2>2. CASE Watch(p) \/ Scan(p)
    BY <2>2 DEF Watch, Scan, Spawn, Fails, Exit, Step, Go, Keep, Holding, Loop
  <2>3. CASE Join(p) \/ Timeout(p) \/ ControlJoined(p) \/ Drop(p) \/ RuntimeEnds(p)
    BY <2>3 DEF Join, Timeout, ControlJoined, Drop, RuntimeEnds, Step, Go, Keep, Holding, Loop
  <2> QED BY <1>3, <2>1, <2>2, <2>3 DEF DaemonStep
<1>4. CASE StopKills(p) \/ Interrupt(p) \/ Killed(p)
  BY <1>4 DEF StopKills, Interrupt, Killed, Strike, Go, Keep, Holding
<1>5. CASE Connect(p) \/ Answered(p) \/ HungUp(p)
  BY <1>5 DEF Connect, Answered, HungUp, Step, Go, Keep, Holding
<1>6. CASE Launch(p)
  <2>1. First(command[p]) \in {"lock", "probe", "about", "dir", "connect"}
    BY <1>6 DEF Launch, First, Commands
  <2> QED BY <1>6, <2>1 DEF Launch, Go, Holding
<1> QED BY <1>2, <1>3, <1>4, <1>5, <1>6 DEF ClientStep

(* Nor does a step in which no process moves. *)
LEMMA NowhereNew == UNCHANGED <<command, pc>> => Onwards
BY DEF Onwards, Started

\* No table is written but the blocked flag.
Quiet ==
    /\ UNCHANGED <<command, hand, outdated, disturbed, folder>>
    /\ \/ db' = db
       \/ \E b \in {"none", "transient", "auth"} : db' = [db EXCEPT !.blocked = b]

(* And they write no table but the blocked flag, which the poller sets. *)
LEMMA OthersLeaveTables ==
    ASSUME IInv, TInv, NEW p \in Procs,
           \/ LockStep(p) /\ UNCHANGED provVars
           \/ DaemonStep(p) \/ ClientStep(p) \/ Launch(p) \/ Interrupt(p) \/ Killed(p)
    PROVE  Quiet
<1> USE DEF IInv, Typed, Quiet, provVars
<1>1. CASE LockStep(p) /\ UNCHANGED provVars
  BY <1>1 DEF LockStep, Take, Truncate, Write, Release, Probe, Unprobe, Peek
<1>2. CASE DaemonStep(p)
  <2>1. CASE Arm(p) \/ Unbind(p) \/ Bind(p) \/ StopsAccepting(p) \/ Unlinks(p)
             \/ PollReturns(p) \/ DispReturns(p)
    BY <2>1 DEF Arm, Unbind, Bind, StopsAccepting, Unlinks, PollReturns, DispReturns, Calm,
       lockVars
  <2>2. CASE PollEnds(p)
    <3>1. db' = db \/ \E b \in {"none", "transient", "auth"} : db' = [db EXCEPT !.blocked = b]
      <4>1. CASE \E b \in {"transient", "auth"} : db' = [db EXCEPT !.blocked = b] BY <4>1
      <4>2. CASE db' = [db EXCEPT !.blocked = IF @ = "transient" THEN "none" ELSE @]
        <5>1. CASE db.blocked = "transient" BY <4>2, <5>1
        <5>2. CASE db.blocked # "transient"
          BY <4>2, <5>2 DEF TInv, TablesTyped
        <5> QED BY <5>1, <5>2
      <4> QED BY <2>2, <4>1, <4>2 DEF PollEnds
    <3> QED BY <2>2, <3>1 DEF PollEnds, lockVars
  <2>3. CASE Watch(p) \/ Scan(p)
    BY <2>3 DEF Watch, Scan, Keep
  <2>4. CASE Join(p) \/ Timeout(p) \/ ControlJoined(p) \/ Drop(p) \/ RuntimeEnds(p)
    BY <2>4 DEF Join, Timeout, ControlJoined, Drop, RuntimeEnds, Keep
  <2> QED BY <1>2, <2>1, <2>2, <2>3, <2>4 DEF DaemonStep
<1>3. CASE ClientStep(p)
  BY <1>3 DEF ClientStep, StopKills, Connect, Answered, HungUp, Keep
<1>4. CASE Launch(p) \/ Interrupt(p) \/ Killed(p)
  BY <1>4 DEF Launch, Interrupt, Killed, Keep
<1> QED BY <1>1, <1>2, <1>3, <1>4

(* So they keep the invariant of the tables. *)
LEMMA QuietSteps == ASSUME TInv, Quiet, Onwards PROVE TInv'
<1>1. folder' \in [Ids -> [spec : Specs \cup {Unmapped}, state : {"none", "live", "trashed"}]]
  BY DEF TInv, TablesTyped, Quiet
<1> QED BY <1>1, TablesKept DEF Quiet, Onwards

(* The consumer sets a cursor only where one is missing: in the loop, that is under a
   daemon whose tables were written over (daemon/mod.rs:190-290). *)
LEMMA AdvancesTables ==
    ASSUME IInv, TInv, NEW p \in Procs, Advances(p)
    PROVE  TInv'
<1> USE DEF TInv
<1>1. /\ pc[p] = "signal" /\ db.mapping # Unmapped /\ ~db.cursor
      /\ db' = [db EXCEPT !.cursor = TRUE]
      /\ UNCHANGED <<command, pc, hand, outdated, disturbed, folder>>
  BY DEF Advances, lockVars
<1>2. p \in Started /\ \A q \in Started : q = p
  <2>1. p \in Started BY <1>1, LoopHolds DEF Loop
  <2>2. Started \subseteq Procs BY DEF Started
  <2> QED BY <2>1, <2>2 DEF IInv, LockHeld, Inside
<1>3. outdated
  BY <1>1, <1>2 DEF Reconciled, Loop
<1>4. /\ db' \in [account : BOOLEAN, mapping : Mappings \cup {Unmapped}, cursor : BOOLEAN,
                  blocked : {"none", "transient", "auth"}, rows : SUBSET Pairs]
      /\ db'.account = db.account /\ db'.mapping = db.mapping
  BY <1>1 DEF TablesTyped
<1>5. Started' = Started
  BY <1>1 DEF Started
<1>6. TablesTyped' BY <1>1, <1>4, <1>5 DEF TablesTyped
<1>7. Follows' BY <1>1, <1>4, <1>5 DEF Follows
<1>8. Described' /\ Reconciled' BY <1>1, <1>3 DEF Described, Reconciled
<1>9. NoCursorYet' BY <1>1, <1>2, <1>5 DEF NoCursorYet, FirstPlaces
<1> QED BY <1>6, <1>7, <1>8, <1>9

(* The overlay writes the blocked flag at most, when an operation succeeds. *)
LEMMA OverlayLeavesTables == ASSUME TInv, OverlayStep PROVE Quiet
<1> USE DEF Quiet, provVars, lockVars
<1>1. CASE \E q \in Procs : Execute(q)
  <2>1. db' = [db EXCEPT !.blocked = IF @ = "transient" THEN "none" ELSE @]
    BY <1>1 DEF Execute
  <2>2. db' = db \/ db' = [db EXCEPT !.blocked = "none"]
    BY <2>1 DEF TInv, TablesTyped
  <2> QED BY <1>1, <2>2 DEF Execute
<1>2. CASE \E q \in Procs : Apply(q)
  BY <1>2 DEF Apply
<1>3. CASE Rest
  BY <1>3 DEF Rest
<1> QED
  BY <1>1, <1>2, <1>3 DEF OverlayStep, Applied, Attach, Subscribe, Detach, Receive, Deliver,
     Refresh, UpdateFileInfo, Expire

(* Every step of the system keeps the invariant of the tables. *)
LEMMA TablesSteps == IInv /\ TInv /\ [Next]_vars => TInv'
<1> SUFFICES ASSUME IInv, TInv, [Next]_vars PROVE TInv'
  OBVIOUS
<1>1. CASE UNCHANGED vars
  <2>1. Quiet /\ UNCHANGED <<command, pc>> BY <1>1 DEF vars, lockVars, provVars, Quiet
  <2> QED BY <2>1, NowhereNew, QuietSteps
<1>2. ASSUME NEW p \in Procs, Work(p) PROVE TInv'
  <2>1. CASE ProvisionStep(p) BY <2>1, ProvisionTables
  <2>2. CASE \/ LockStep(p) /\ UNCHANGED provVars
             \/ DaemonStep(p) \/ ClientStep(p)
    BY <2>2, OthersGoOnwards, OthersLeaveTables, QuietSteps
  <2> QED BY <1>2, <2>1, <2>2 DEF Work, DaemonWork
<1>3. ASSUME NEW p \in Procs, Busy(p) PROVE TInv'
  <2>1. CASE Advances(p) BY <2>1, AdvancesTables
  <2>2. CASE PollStarts(p) \/ DrainStarts(p) \/ DrainEnds(p)
    <3>1. Quiet /\ UNCHANGED <<command, pc>>
      BY <2>2 DEF PollStarts, DrainStarts, DrainEnds, Calm, lockVars, provVars, Quiet
    <3> QED BY <3>1, NowhereNew, QuietSteps
  <2> QED BY <1>3, <2>1, <2>2 DEF Busy, Drained
<1>4. CASE OverlayStep
  <2>1. UNCHANGED <<command, pc>> BY <1>4, OverlayLeavesTheRest DEF lockVars
  <2> QED BY <1>4, <2>1, NowhereNew, OverlayLeavesTables, QuietSteps
<1>5. CASE World
  <2>1. CASE \E p \in Procs : Launch(p) \/ Interrupt(p) \/ Killed(p)
    BY <2>1, OthersGoOnwards, OthersLeaveTables, QuietSteps
  <2>2. CASE ThrowAway
    <3>1. folder' \in [Ids -> [spec : Specs \cup {Unmapped}, state : {"none", "live", "trashed"}]]
      <4>1. folder \in [Ids -> [spec : Specs \cup {Unmapped}, state : {"none", "live", "trashed"}]]
        BY DEF TInv, TablesTyped
      <4> QED BY <2>2, <4>1 DEF ThrowAway
    <3>2. UNCHANGED <<command, pc, hand, outdated, disturbed, db>>
      BY <2>2 DEF ThrowAway, lockVars
    <3>3. Onwards BY <3>2, NowhereNew
    <3> QED BY <3>1, <3>2, <3>3, TablesKept DEF Onwards
  <2> QED BY <1>5, <2>1, <2>2 DEF World
<1> QED BY <1>1, <1>2, <1>3, <1>4, <1>5 DEF Next

(* So both invariants hold in every reachable state. *)
LEMMA TablesInvariant == Spec => [](IInv /\ TInv)
<1>1. Init => IInv /\ TInv
  BY LifecycleInit, TablesInit
<1>2. IInv /\ TInv /\ [Next]_vars => (IInv /\ TInv)'
  BY LifecycleSteps, TablesSteps
<1> QED BY <1>1, <1>2, PTL DEF Spec

(* What they say of the properties: in the loop there is a cursor, under the cursor the
   rows of the mapping, and the mapping is the pair in the hands of the daemon. *)
LEMMA TablesImply == IInv /\ TInv => LoopIsReconciled /\ ServesTheMapping
<1> SUFFICES ASSUME IInv, TInv, NEW d \in Procs, pc[d] \in Loop
             PROVE  /\ ~outdated => Pair(hand[d]) \in db.rows
                    /\ d \notin disturbed => db.mapping # Unmapped /\ Pair(db.mapping) = Pair(hand[d])
  BY DEF LoopIsReconciled, ServesTheMapping
<1>1. d \in Started
  BY LoopHolds
<1>2. ~outdated \/ d \notin disturbed => db.mapping # Unmapped /\ Pair(db.mapping) = Pair(hand[d])
  BY <1>1 DEF TInv, Follows, Loop, Pair
<1>3. ~outdated => db.cursor
  BY <1>1 DEF TInv, Reconciled
<1> QED BY <1>2, <1>3 DEF TInv, Described

(* Every variable of the composition has its type (lock.rs:36-72, mapping.rs:59-64). *)
THEOREM TypeCorrect == Spec => []TypeOK
<1>1. ASSUME IInv, TInv PROVE TypeOK
  <2>1. holder # 0 => Alive(holder)
    BY <1>1 DEF IInv, LockHeld, Inside, Started, Holding, Alive, Over
  <2>2. /\ db.account \in BOOLEAN /\ db.cursor \in BOOLEAN /\ db.rows \subseteq Pairs
        /\ db.blocked \in {"none", "transient", "auth"}
        /\ db.cursor => db.mapping # Unmapped
    BY <1>1 DEF TInv, TablesTyped
  <2>3. db.mapping # Unmapped => db.account /\ Pair(db.mapping) \in Pairs
    <3>1. db.mapping # Unmapped => db.account /\ db.mapping \in Mappings
      BY <1>1 DEF TInv, TablesTyped
    <3> QED BY <3>1 DEF Mappings, Pair, Pairs
  <2>4. \A i \in Ids : folder[i].state \in {"none", "live", "trashed"}
    BY <1>1 DEF TInv, TablesTyped
  <2> QED BY <1>1, <2>1, <2>2, <2>3, <2>4 DEF TypeOK, IInv, Typed, PidWritten, TasksInPlace
<1> QED BY <1>1, TablesInvariant, PTL

(* A daemon in its loop has behind it an initial pass of the pair it serves, unless the
   mapping was written over under a cursor (start.rs:69-77, 145-155, unlink.rs:33-43). *)
THEOREM LoopWasReconciled == Spec => []LoopIsReconciled
BY TablesInvariant, TablesImply, PTL

(* The daemon serves what the mapping row says, also when it has made the remote folder
   again, unless map or unlink ran beside it (start.rs:108, 382-390). *)
THEOREM DaemonServesIt == Spec => []ServesTheMapping
BY TablesInvariant, TablesImply, PTL

-----------------------------------------------------------------------------
(* The emblem.  What is shown is what the tables say, or a change is on    *)
(* its way, or it was missed; the cache hides a change no longer than the  *)
(* line takes: pause.rs:177-197, air-drive-overlay.py:291-331.             *)
Emblems == {Blank, "synced", "pending", "conflict"}
Views == [link : {"down", "sent", "open"}, peer : Procs \cup {0}, pulse : BOOLEAN,
          writing : BOOLEAN, line : BOOLEAN, due : BOOLEAN, cache : Emblems, shown : Emblems]
Untold == missed \/ owed # {} \/ view.pulse \/ view.writing \/ view.line

ViewTyped == view \in Views /\ item \in {"synced", "pending"} /\ missed \in BOOLEAN
ShownLags == view.shown \notin {Blank, Token} => Untold \/ view.due
CacheLags == view.cache \notin {Blank, Token} => Untold

EInv == ViewTyped /\ ShownLags /\ CacheLags

(* The tables always say some emblem (file_status.rs). *)
LEMMA TokenTyped == ViewTyped => Token \in Emblems \ {Blank}
BY DEF ViewTyped, Token, RootToken, Emblems, Blank

(* Nothing is shown. *)
LEMMA EmblemsInit == Init => EInv
<1> SUFFICES ASSUME Init PROVE EInv
  OBVIOUS
<1>1. view = Idle /\ item = "synced" /\ missed = FALSE
  BY DEF Init
<1> QED BY <1>1 DEF EInv, ViewTyped, ShownLags, CacheLags, Views, Idle, Emblems

(* A step that changes the tables and nothing of the extension keeps the invariant if it
   is remembered: as owed activity, or as one that no stream was told of. *)
LEMMA TablesMove ==
    ASSUME EInv, view' = view, item' \in {"synced", "pending"}, missed' \in BOOLEAN,
           Token' = Token \/ missed' \/ owed' # {},
           missed \/ owed # {} => missed' \/ owed' # {}
    PROVE  EInv'
BY DEF EInv, ViewTyped, ShownLags, CacheLags, Untold, Blank

(* The blocked flag changes without a pulse, which counts as missed. *)
LEMMA BlockSteps == ASSUME EInv, BlockMissed PROVE EInv'
<1>1. view' = view /\ item' = item /\ owed' = owed /\ conflict' = conflict /\ queued' = queued
      /\ what' = what
  BY DEF BlockMissed, tableVars
<1>2. CASE what = "root" /\ db'.blocked # db.blocked
  <2>1. missed' = TRUE BY <1>2 DEF BlockMissed
  <2> QED BY <1>1, <2>1, TablesMove DEF EInv, ViewTyped
<1>3. CASE ~(what = "root" /\ db'.blocked # db.blocked)
  <2>1. missed' = missed BY <1>3 DEF BlockMissed, EInv, ViewTyped
  <2>2. Token' = Token BY <1>1, <1>3 DEF Token, RootToken
  <2> QED BY <1>1, <2>1, <2>2, TablesMove DEF EInv, ViewTyped
<1> QED BY <1>2, <1>3

(* Steps that change neither the extension nor the blocked flag. *)
LEMMA NothingToSee ==
    ASSUME EInv, UNCHANGED overlayVars, db'.blocked = db.blocked
    PROVE  EInv'
<1>1. Token' = Token
  BY DEF Token, RootToken, overlayVars
<1> QED BY <1>1, TablesMove DEF EInv, ViewTyped, overlayVars

(* activity.send turns what is owed into a pulse, or into a miss (pause.rs:177-197). *)
LEMMA PulseSteps ==
    ASSUME EInv, NEW q, NEW kind, Pulse(q, kind), db' = db
    PROVE  EInv'
<1> USE DEF EInv, ViewTyped
<1>1. UNCHANGED <<item, queued, conflict, what>> /\ owed' = owed \ {<<q, kind>>}
  BY DEF Pulse, tableVars
<1>2. Token' = Token
  BY <1>1 DEF Token, RootToken
<1>3. CASE <<q, kind>> \notin owed
  <2>1. owed' = owed /\ view' = view /\ missed' = missed BY <1>1, <1>3 DEF Pulse
  <2> QED BY <1>1, <1>2, <2>1, TablesMove
<1>4. CASE <<q, kind>> \in owed /\ Told(q)
  <2>1. view' = [view EXCEPT !.pulse = TRUE] /\ missed' = missed BY <1>4 DEF Pulse, View
  <2>2. view' \in Views /\ view'.pulse BY <2>1 DEF Views
  <2> QED BY <1>1, <2>1, <2>2 DEF ShownLags, CacheLags, Untold
<1>5. CASE <<q, kind>> \in owed /\ ~Told(q)
  <2>1. view' = view /\ missed' = TRUE BY <1>5 DEF Pulse
  <2> QED BY <1>1, <2>1, TablesMove
<1> QED BY <1>3, <1>4, <1>5

(* The stream hands what is under way from the pulse to the line, from there to the
   refresh that drops the cache; a stream that breaks counts as a miss
   (air-drive-overlay.py:291-331). *)
LEMMA StreamSteps ==
    ASSUME IInv, EInv, Attach \/ Subscribe \/ Detach \/ Receive \/ Deliver \/ Refresh \/ Expire
    PROVE  EInv'
<1> USE DEF EInv, ViewTyped
<1>1. UNCHANGED <<item, queued, conflict, what, owed, db, path>> /\ path \in Procs \cup {0}
  BY DEF Attach, Subscribe, Detach, Receive, Deliver, Refresh, Expire, tableVars, Rest,
     provVars, daemonVars, IInv, Typed
<1>2. Token' = Token
  BY <1>1 DEF Token, RootToken
<1>3. CASE Attach
  <2>1. view' = [view EXCEPT !.link = "sent", !.peer = path] /\ missed' = missed
    BY <1>3 DEF Attach
  <2>2. /\ view' \in Views /\ view'.shown = view.shown /\ view'.cache = view.cache
        /\ view'.pulse = view.pulse /\ view'.writing = view.writing
        /\ view'.line = view.line /\ view'.due = view.due
    BY <1>1, <2>1 DEF Views
  <2> QED BY <1>1, <1>2, <2>1, <2>2 DEF ShownLags, CacheLags, Untold
<1>4. CASE Subscribe
  <2>1. view' = [view EXCEPT !.link = "open"] /\ missed' = missed
    BY <1>4 DEF Subscribe, View
  <2>2. /\ view' \in Views /\ view'.shown = view.shown /\ view'.cache = view.cache
        /\ view'.pulse = view.pulse /\ view'.writing = view.writing
        /\ view'.line = view.line /\ view'.due = view.due
    BY <2>1 DEF Views
  <2> QED BY <1>1, <1>2, <2>1, <2>2 DEF ShownLags, CacheLags, Untold
<1>5. CASE Detach
  <2>1. view' = [view EXCEPT !.link = "down", !.peer = 0, !.pulse = FALSE, !.writing = FALSE]
    BY <1>5 DEF Detach
  <2>2. /\ view' \in Views /\ view'.shown = view.shown /\ view'.cache = view.cache
        /\ view'.line = view.line /\ view'.due = view.due
    BY <2>1 DEF Views
  <2>3. missed' \in BOOLEAN /\ (missed \/ view.pulse \/ view.writing => missed')
    BY <1>5 DEF Detach
  <2> QED BY <1>1, <1>2, <2>2, <2>3 DEF ShownLags, CacheLags, Untold
<1>6. CASE Receive \/ Deliver
  <2>1. /\ \/ view' = [view EXCEPT !.pulse = FALSE, !.writing = TRUE]
           \/ view' = [view EXCEPT !.writing = FALSE, !.line = TRUE]
        /\ missed' = missed
    BY <1>6 DEF Receive, Deliver
  <2>2. view' \in Views /\ (view'.writing \/ view'.line)
    BY <2>1 DEF Views
  <2> QED BY <1>1, <2>1, <2>2 DEF ShownLags, CacheLags, Untold
<1>7. CASE Refresh
  <2>1. view' = [view EXCEPT !.line = FALSE, !.due = TRUE, !.cache = Blank] /\ missed' = missed
    BY <1>7 DEF Refresh
  <2>2. view' \in Views /\ view'.due /\ view'.cache = Blank
    BY <2>1 DEF Views, Emblems
  <2> QED BY <1>1, <2>1, <2>2 DEF ShownLags, CacheLags
<1>8. CASE Expire
  <2>1. view' = [view EXCEPT !.cache = Blank] /\ missed' = missed
    BY <1>8 DEF Expire, View
  <2>2. /\ view' \in Views /\ view'.shown = view.shown /\ view'.cache = Blank
        /\ view'.pulse = view.pulse /\ view'.writing = view.writing
        /\ view'.line = view.line /\ view'.due = view.due
    BY <2>1 DEF Views, Emblems
  <2> QED BY <1>1, <1>2, <2>1, <2>2 DEF ShownLags, CacheLags, Untold
<1> QED BY <1>3, <1>4, <1>5, <1>6, <1>7, <1>8

(* update_file_info shows the answer of the daemon, or the cache, which lags only while
   something is under way. *)
LEMMA QuerySteps == ASSUME EInv, UpdateFileInfo PROVE EInv'
<1> USE DEF EInv, ViewTyped
<1>1. UNCHANGED <<item, queued, conflict, what, db>>
  BY DEF UpdateFileInfo, tableVars, Rest, provVars
<1>2. Token' = Token /\ Token \in Emblems
  BY <1>1, TokenTyped DEF Token, RootToken
<1>3. CASE view' = [view EXCEPT !.shown = view.cache, !.due = FALSE] /\ UNCHANGED <<missed, owed>>
  <2>1. /\ view' \in Views /\ view'.shown = view.cache /\ view'.cache = view.cache
        /\ view'.pulse = view.pulse /\ view'.writing = view.writing /\ view'.line = view.line
    BY <1>3 DEF Views
  <2> QED BY <1>1, <1>2, <1>3, <2>1 DEF ShownLags, CacheLags, Untold
<1>4. ASSUME NEW kept \in {Token, Blank}, missed' = FALSE,
             view' = [view EXCEPT !.shown = Token, !.cache = kept, !.due = FALSE]
      PROVE  EInv'
  <2>1. view' \in Views /\ view'.shown = Token /\ view'.cache \in {Token, Blank}
    BY <1>2, <1>4 DEF Views, Emblems
  <2> QED BY <1>1, <1>2, <1>4, <2>1 DEF ShownLags, CacheLags
<1>5. CASE view' = [view EXCEPT !.shown = Blank, !.due = FALSE] /\ UNCHANGED <<missed, owed>>
  <2>1. /\ view' \in Views /\ view'.shown = Blank /\ view'.cache = view.cache
        /\ view'.pulse = view.pulse /\ view'.writing = view.writing /\ view'.line = view.line
    BY <1>5 DEF Views, Emblems
  <2> QED BY <1>1, <1>2, <1>5, <2>1 DEF ShownLags, CacheLags, Untold
<1> QED BY <1>3, <1>4, <1>5 DEF UpdateFileInfo

(* Every step of the system keeps the invariant of the emblem. *)
LEMMA EmblemSteps == IInv /\ EInv /\ [Next]_vars => EInv'
<1> SUFFICES ASSUME IInv, EInv, [Next]_vars PROVE EInv'
  OBVIOUS
<1> USE DEF provVars, lockVars
<1>1. CASE UNCHANGED vars
  BY <1>1, NothingToSee DEF vars
<1>2. ASSUME NEW p \in Procs, Work(p) PROVE EInv'
  <2>1. CASE BlockMissed BY <2>1, BlockSteps
  <2>2. CASE LockStep(p) /\ UNCHANGED <<provVars, daemonVars, overlayVars>>
    BY <2>2, NothingToSee
  <2>3. CASE ClientStep(p) /\ UNCHANGED overlayVars
    BY <2>3, NothingToSee DEF ClientStep, StopKills, Connect, Answered, HungUp
  <2> QED BY <1>2, <2>1, <2>2, <2>3 DEF Work, DaemonWork
<1>3. ASSUME NEW p \in Procs, Busy(p) PROVE EInv'
  <2>1. CASE (PollStarts(p) \/ DrainStarts(p)) /\ UNCHANGED overlayVars
    BY <2>1, NothingToSee DEF PollStarts, DrainStarts, Calm
  <2>2. CASE Advances(p) /\ UNCHANGED overlayVars
    <3>1. db' = [db EXCEPT !.cursor = TRUE] BY <2>2 DEF Advances
    <3>2. db'.blocked = db.blocked BY <3>1
    <3> QED BY <2>2, <3>2, NothingToSee
  <2>3. CASE Drained(p)
    BY <2>3, PulseSteps DEF Drained, DrainEnds, Calm
  <2> QED BY <1>3, <2>1, <2>2, <2>3 DEF Busy
<1>4. CASE OverlayStep
  <2>1. ASSUME NEW q \in Procs, Apply(q) PROVE EInv'
    <3>1. view' = view /\ item' = "pending" BY <2>1 DEF Apply
    <3>2. \/ owed' = owed \cup {<<q, "apply">>} /\ missed' = missed
          \/ missed' = TRUE
      BY <2>1 DEF Apply
    <3> QED BY <3>1, <3>2, TablesMove DEF EInv, ViewTyped
  <2>2. ASSUME NEW q \in Procs, Execute(q) PROVE EInv'
    BY <2>2, TablesMove DEF Execute, EInv, ViewTyped
  <2>3. ASSUME NEW q \in Procs, Applied(q) PROVE EInv'
    BY <2>3, PulseSteps DEF Applied, Rest
  <2> QED BY <1>4, <2>1, <2>2, <2>3, StreamSteps, QuerySteps DEF OverlayStep
<1>5. CASE World
  BY <1>5, NothingToSee DEF World, Launch, Interrupt, Killed, ThrowAway
<1> QED BY <1>1, <1>2, <1>3, <1>4, <1>5 DEF Next

(* So it holds in every reachable state. *)
LEMMA EmblemsInvariant == Spec => [](IInv /\ EInv)
<1>1. Init => IInv /\ EInv
  BY LifecycleInit, EmblemsInit
<1>2. IInv /\ EInv /\ [Next]_vars => (IInv /\ EInv)'
  BY LifecycleSteps, EmblemSteps
<1> QED BY <1>1, <1>2, PTL DEF Spec

(* An emblem that is wrong is about to be asked for again, unless a change found no
   stream to tell or was not announced (pause.rs:177-197, air-drive-overlay.py:291-331). *)
THEOREM NoEmblemIsForgotten == Spec => []EmblemsCatchUp
<1>1. IInv /\ EInv => EmblemsCatchUp
  BY DEF EInv, ShownLags, Untold, EmblemsCatchUp
<1> QED BY <1>1, EmblemsInvariant, PTL
=============================================================================
