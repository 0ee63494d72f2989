------------------------------ MODULE LockFile ------------------------------
(***************************************************************************)
(* The single-instance lock (daemon/lock.rs) and the commands that probe   *)
(* it: start, status and unlink acquire it, stop asks who holds it.        *)
(*                                                                         *)
(* Two things are called the lock: the flock, which the kernel gives to    *)
(* one process and takes back when the process ends, and the pid written   *)
(* in the file, which nobody takes back.  An invocation of the program is  *)
(* a number, which stands for its pid; pids are not reused.                *)
(***************************************************************************)
EXTENDS Naturals, FiniteSets, Sequences

CONSTANT Procs      \* the invocations, in the order in which they are made
ASSUME ProcsAssumption == Procs \subseteq Nat \ {0}

VARIABLES
    command,    \* what each invocation was asked for
    pc,         \* where it is
    holder,     \* who has the flock, 0 if nobody
    pidFile,    \* the pid in the lock file, 0 if there is none to be read
    found       \* the daemon an invocation has found, 0 if none

lockVars == <<command, pc, holder, pidFile, found>>

Over    == {"done", "dead"}
Alive(p) == pc[p] \notin Over \cup {"idle"}

Go(p, l)   == pc' = [pc EXCEPT ![p] = l]
Find(p, q) == found' = [found EXCEPT ![p] = q]
\* The process returns or fails: whatever it holds is dropped.
Exit(p)    == Go(p, "done") /\ holder' = IF holder = p THEN 0 ELSE holder

-----------------------------------------------------------------------------
\* Mutant: the lock is taken for free when the process named in the file is gone.
FreeByPid == pidFile # 0 => ~Alive(pidFile)

\* The non-blocking flock succeeds.
Free == holder = 0

\* Mutant: the file is truncated when it is opened.
TakeTruncated(p) ==
    /\ pc[p] = "lock"
    /\ \/ Free /\ holder' = p /\ Go(p, "stamp")
       \/ ~Free /\ Go(p, "peek") /\ UNCHANGED holder
    /\ pidFile' = 0
    /\ UNCHANGED <<command, found>>

\* Lock::acquire up to the flock: contention goes on with the pid in the file.
Take(p) ==
    /\ pc[p] = "lock"
    /\ \/ Free /\ holder' = p /\ Go(p, "stamp")
       \/ ~Free /\ Go(p, "peek") /\ UNCHANGED holder
    /\ UNCHANGED <<command, pidFile, found>>

\* write_current_pid empties the file, then writes.
Truncate(p) ==
    /\ pc[p] = "stamp"
    /\ pidFile' = 0 /\ Go(p, "write")
    /\ UNCHANGED <<command, holder, found>>

Write(p) ==
    /\ pc[p] = "write"
    /\ pidFile' = p /\ Go(p, IF command[p] = "start" THEN "load" ELSE "release")
    /\ UNCHANGED <<command, holder, found>>

\* status and unlink drop the guard at the end of the arm of their match: status
\* has seen that nobody runs and prints the tables, unlink goes on without the lock.
Release(p) ==
    /\ pc[p] = "release"
    /\ holder' = 0 /\ Go(p, IF command[p] = "unlink" THEN "clear" ELSE "done")
    /\ UNCHANGED <<command, pidFile, found>>

\* Lock::holder_pid, which leaves the file alone.
Probe(p) ==
    /\ pc[p] = "probe"
    /\ \/ Free /\ holder' = p /\ Go(p, "unprobe")
       \/ ~Free /\ Go(p, "peek") /\ UNCHANGED holder
    /\ UNCHANGED <<command, pidFile, found>>

Unprobe(p) ==
    /\ pc[p] = "unprobe"
    /\ Exit(p)
    /\ UNCHANGED <<command, pidFile, found>>

\* read_pid_from, after the contention and not together with it.
Peek(p) ==
    /\ pc[p] = "peek"
    /\ Find(p, pidFile)
    /\ Go(p, IF command[p] = "stop" /\ pidFile # 0 THEN "kill" ELSE "done")
    /\ UNCHANGED <<command, holder, pidFile>>

LockStep(p) ==
    \/ Take(p) \/ Truncate(p) \/ Write(p) \/ Release(p)
    \/ Probe(p) \/ Unprobe(p) \/ Peek(p)
=============================================================================
