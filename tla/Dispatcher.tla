----------------------------- MODULE Dispatcher -----------------------------
(***************************************************************************)
(* The dispatcher task (daemon/runtime.rs) and the state it shares with    *)
(* the rest of the program: the pending_operation table (state/ops.rs),    *)
(* the blocked_* columns of state_meta (state/meta.rs), which the poller,  *)
(* the dispatcher and `air-drive link` all write, and the pause flag and   *)
(* the cancellation token of the process.                                  *)
(*                                                                         *)
(* The operations belong to distinct sync_items; what execute does to the  *)
(* files is reduced to its outcomes, except for the first upload of a      *)
(* file, whose two halves (create the Drive file, record its id) matter.   *)
(* Times are seconds relative to now.  The wake-up permit and the 500 ms   *)
(* poll are one step, Wake: both lead to the top of the loop.              *)
(***************************************************************************)
EXTENDS Naturals, Sequences, FiniteSets

CONSTANTS MaxOps,       \* bound: rows ever enqueued
          FirstUploads, \* ids of the operations that upload a new file
          MaxAttempts,  \* MAX_ATTEMPTS
          AuthDelay,    \* how far an auth failure pushes its operation
          MaxFaults     \* bound: failed SQLite calls, aborts and crashes

ASSUME DispatcherAssumption ==
    /\ MaxOps \in Nat /\ MaxFaults \in Nat
    /\ FirstUploads \subseteq 1..MaxOps
    /\ MaxAttempts \in Nat \ {0}
    /\ AuthDelay \in Nat \ {0}

VARIABLES
    born,                     \* rowid of the last row inserted
    due, wait, parked,        \* rows due now, in order; rows waiting; rows parked
    attempts,                 \* pending_operation.attempts
    blocked,                  \* state_meta.blocked_kind
    linked,                   \* uploads whose remote id is recorded
    pc,                       \* where the dispatcher task stands
    paused, cancelled,        \* the pause flag and the cancellation token
    tries, performed, held,   \* ghosts
    faults                    \* ghost: failures so far

rows   == <<due, wait, parked, attempts>>
ghosts == <<tries, performed>>
flags  == <<paused, cancelled>>
vars   == <<born, rows, blocked, linked, pc, flags, ghosts, held, faults>>

OpId     == 1..MaxOps
Terminal == {"auth", "remote"}
Busy     == {"executing", "linking", "recording", "deleting"}

RangeOf(s) == {s[i] : i \in DOMAIN s}
Waiting == {o \in OpId : wait[o] > 0}
Pending == RangeOf(due) \cup Waiting
Cur     == Head(due)

TypeOK ==
    /\ born \in 0..MaxOps /\ faults \in 0..MaxFaults
    /\ due \in Seq(1..born) /\ wait \in [OpId -> Nat] /\ parked \subseteq 1..born
    /\ attempts \in [OpId -> 0..MaxAttempts + 1]
    /\ blocked \in {"none", "transient"} \cup Terminal
    /\ linked \subseteq FirstUploads
    /\ tries \in [OpId -> Nat]
    /\ pc \in Busy \cup {"top", "paused", "check", "nap", "drain", "idle", "dead", "stopped"}
    /\ paused \in BOOLEAN /\ cancelled \in BOOLEAN /\ held \in BOOLEAN
    /\ performed \subseteq 1..born
    /\ pc \in Busy => due # <<>>

Init ==
    /\ born = 0
    /\ due = <<>> /\ wait = [o \in OpId |-> 0] /\ parked = {}
    /\ attempts = [o \in OpId |-> 0]
    /\ blocked = "none"
    /\ linked = {}
    /\ pc = "top" /\ paused = FALSE /\ cancelled = FALSE
    /\ tries = [o \in OpId |-> 0] /\ performed = {} /\ held = FALSE
    /\ faults = 0

Fault == faults < MaxFaults /\ faults' = faults + 1

(* Writing blocked_kind.  held remembers that a terminal block has stood   *)
(* without interruption since the last auth failure of an operation.       *)
SetBlocked(kind) == blocked' = kind /\ held' = (held /\ kind \in Terminal)

ClearIfTransient == SetBlocked(IF blocked = "transient" THEN "none" ELSE blocked)

(* 1, 2, 4, ... capped at 60, give or take a fifth and at least a second.  *)
Backoff(n) ==
    LET exponent == IF n > 7 THEN 6 ELSE n - 1
        capped   == IF exponent = 6 THEN 60 ELSE 2^exponent
        jitter   == IF capped < 5 THEN 1 ELSE capped \div 5
    IN  {d \in 1..72 : capped - jitter <= d /\ d <= capped + jitter}

-----------------------------------------------------------------------------
(* The rest of the program and the passage of time.                        *)

(* Mutant: rows of equal due time served from the last to the first.       *)
EnqueueInFront ==
    /\ pc # "stopped" /\ born < MaxOps
    /\ born' = born + 1
    /\ due' = <<born + 1>> \o due
    /\ UNCHANGED <<wait, parked, attempts, blocked, linked, pc, flags, ghosts, held, faults>>

Enqueue ==
    /\ pc # "stopped" /\ born < MaxOps
    /\ born' = born + 1
    /\ due' = Append(due, born + 1)
    /\ UNCHANGED <<wait, parked, attempts, blocked, linked, pc, flags, ghosts, held, faults>>

(* A second passes; the rows that come due queue up behind those that      *)
(* already are, by id.                                                     *)
Expiring == {o \in OpId : wait[o] = 1}

Ascending(s) == \A i, j \in DOMAIN s : i < j => s[i] < s[j]

Tick ==
    /\ Waiting # {}
    /\ wait' = [o \in OpId |-> IF wait[o] = 0 THEN 0 ELSE wait[o] - 1]
    /\ \E n \in 0..MaxOps : \E s \in [1..n -> Expiring] :
          /\ Ascending(s) /\ RangeOf(s) = Expiring
          /\ due' = due \o s
    /\ UNCHANGED <<born, parked, attempts, blocked, linked, pc, flags, ghosts, held, faults>>

(* One poll of Drive: it succeeds, fails, fails to authenticate, or finds  *)
(* the watched folder gone.                                                *)
Poll ==
    /\ pc # "stopped"
    /\ \/ ClearIfTransient
       \/ \E kind \in {"transient", "auth", "remote"} : SetBlocked(kind)
    /\ UNCHANGED <<born, rows, linked, pc, flags, ghosts, faults>>

(* `air-drive link`, from another process: clear_blocked.                  *)
Link ==
    /\ SetBlocked("none")
    /\ UNCHANGED <<born, rows, linked, pc, flags, ghosts, faults>>

(* Requests on the control socket.                                         *)
PauseResume ==
    /\ pc # "stopped" /\ ~cancelled
    /\ paused' = ~paused
    /\ UNCHANGED <<born, rows, blocked, linked, pc, cancelled, ghosts, held, faults>>

Signal ==
    /\ pc # "stopped" /\ ~cancelled
    /\ cancelled' = TRUE
    /\ UNCHANGED <<born, rows, blocked, linked, pc, paused, ghosts, held, faults>>

-----------------------------------------------------------------------------
(* The loop of runtime::run.                                               *)

Goto(place) ==
    /\ pc' = place
    /\ UNCHANGED <<born, rows, blocked, linked, flags, ghosts, held, faults>>

ReadPause == pc = "top" /\ Goto(IF paused THEN "paused" ELSE "check")

(* The selects are biased: cancellation wins.                              *)
LeavePause == pc = "paused" /\ (cancelled \/ ~paused) /\ Goto(IF cancelled THEN "stopped" ELSE "check")

(* Mutant: a transient block stops the dispatcher too.                     *)
ReadAnyBlock == pc = "check" /\ Goto(IF blocked # "none" THEN "nap" ELSE "drain")

ReadBlock == pc = "check" /\ Goto(IF blocked \in Terminal THEN "nap" ELSE "drain")

EndNap == pc = "nap" /\ Goto(IF cancelled THEN "stopped" ELSE "top")

NothingDue == pc = "drain" /\ due = <<>> /\ Goto("idle")

Wake == pc = "idle" /\ Goto(IF cancelled THEN "stopped" ELSE "top")

(* mark_attempt with a delay, or with PARKED_FOREVER.                      *)
Reschedule(delay) ==
    /\ attempts' = [attempts EXCEPT ![Cur] = @ + 1]
    /\ wait' = [wait EXCEPT ![Cur] = delay]
    /\ due' = Tail(due)
    /\ UNCHANGED parked

(* Mutant: an exhausted operation is only put off (the former +3600).      *)
PutOff ==
    /\ pc = "drain" /\ due # <<>> /\ attempts[Cur] >= MaxAttempts
    /\ Reschedule(AuthDelay)
    /\ UNCHANGED <<born, blocked, linked, pc, flags, ghosts, held, faults>>

(* Out of attempts: out of the dispatcher's sight, still in the table.     *)
Park ==
    /\ pc = "drain" /\ due # <<>> /\ attempts[Cur] >= MaxAttempts
    /\ attempts' = [attempts EXCEPT ![Cur] = @ + 1]
    /\ parked' = parked \cup {Cur}
    /\ due' = Tail(due)
    /\ UNCHANGED <<born, wait, blocked, linked, pc, flags, ghosts, held, faults>>

ParkFails ==
    /\ pc = "drain" /\ due # <<>> /\ attempts[Cur] >= MaxAttempts
    /\ Fault
    /\ UNCHANGED <<born, rows, blocked, linked, pc, flags, ghosts, held>>

(* Mutant: the limit is off by one.                                        *)
SelectOnceMore ==
    /\ pc = "drain" /\ due # <<>> /\ attempts[Cur] <= MaxAttempts
    /\ pc' = "executing"
    /\ tries' = [tries EXCEPT ![Cur] = @ + 1]
    /\ UNCHANGED <<born, rows, blocked, linked, flags, performed, held, faults>>

Select ==
    /\ pc = "drain" /\ due # <<>> /\ attempts[Cur] < MaxAttempts
    /\ pc' = "executing"
    /\ tries' = [tries EXCEPT ![Cur] = @ + 1]
    /\ UNCHANGED <<born, rows, blocked, linked, flags, performed, held, faults>>

(* execute returns Ok: the work is done, or there is nothing left to do.   *)
ExecuteOk ==
    /\ pc = "executing"
    /\ pc' = "recording"
    /\ performed' = performed \cup {Cur}
    /\ UNCHANGED <<born, rows, blocked, linked, flags, tries, held, faults>>

(* Upload of an item without a remote id: engine.upload creates a file, in *)
(* HttpEngine always, in RcloneEngine when Drive has none of that name yet *)
(* (see Transfers, which models both engines).                             *)
CreatesFile == Cur \in FirstUploads \ linked

UploadNew ==
    /\ pc = "executing" /\ CreatesFile
    /\ pc' = "linking"
    /\ UNCHANGED <<born, rows, blocked, linked, flags, ghosts, held, faults>>

RecordId ==
    /\ pc = "linking"
    /\ pc' = "recording"
    /\ linked' = linked \cup {Cur}
    /\ performed' = performed \cup {Cur}
    /\ UNCHANGED <<born, rows, blocked, flags, tries, held, faults>>

(* set_remote_id failed: an error of execute like any other, which may not *)
(* be recorded either.                                                     *)
RecordIdFails ==
    /\ pc = "linking" /\ Fault
    /\ pc' = "drain"
    /\ \/ \E d \in Backoff(attempts[Cur] + 1) : Reschedule(d)
       \/ UNCHANGED rows
    /\ UNCHANGED <<born, blocked, linked, flags, ghosts, held>>

(* Mutant: the error is logged, then the row is deleted all the same.      *)
FailureIgnored ==
    /\ pc = "executing"
    /\ pc' = "deleting"
    /\ UNCHANGED <<born, rows, blocked, linked, flags, ghosts, held, faults>>

(* execute failed, before or after it had some effect.                     *)
ExecuteFails ==
    /\ pc = "executing"
    /\ pc' = "drain"
    /\ \E d \in Backoff(attempts[Cur] + 1) : Reschedule(d)
    /\ UNCHANGED <<born, blocked, linked, flags, ghosts, held, faults>>

(* The failure is not recorded: the row stays first among those due.       *)
MarkFails ==
    /\ pc = "executing" /\ Fault
    /\ pc' = "drain"
    /\ UNCHANGED <<born, rows, blocked, linked, flags, ghosts, held>>

(* Mutant: an auth failure does not leave the drain loop.                  *)
AuthFailsAndGoesOn ==
    /\ pc = "executing"
    /\ pc' = "drain"
    /\ blocked' = "auth" /\ held' = TRUE
    /\ Reschedule(AuthDelay)
    /\ UNCHANGED <<born, linked, flags, ghosts, faults>>

(* A 401, or no access token: block the daemon and leave the drain loop.   *)
AuthFails ==
    /\ pc = "executing"
    /\ pc' = "idle"
    /\ blocked' = "auth" /\ held' = TRUE
    /\ Reschedule(AuthDelay)
    /\ UNCHANGED <<born, linked, flags, ghosts, faults>>

(* The same when set_blocked, mark_attempt or both fail.                   *)
AuthUnrecorded ==
    /\ pc = "executing" /\ Fault
    /\ pc' = "idle"
    /\ \/ UNCHANGED <<blocked, held>> /\ Reschedule(AuthDelay)
       \/ UNCHANGED <<blocked, held, rows>>
       \/ blocked' = "auth" /\ held' = TRUE /\ UNCHANGED rows
    /\ UNCHANGED <<born, linked, flags, ghosts>>

(* An operation succeeded: Drive can be reached.                           *)
RecordSuccess ==
    /\ pc = "recording"
    /\ pc' = "deleting"
    /\ ClearIfTransient
    /\ UNCHANGED <<born, rows, linked, flags, ghosts, faults>>

(* clear_if_transient failed: ignored.                                     *)
SuccessUnrecorded ==
    /\ pc = "recording" /\ Fault
    /\ pc' = "deleting"
    /\ UNCHANGED <<born, rows, blocked, linked, flags, ghosts, held>>

DeleteRow ==
    /\ pc = "deleting"
    /\ pc' = "drain"
    /\ due' = Tail(due)
    /\ UNCHANGED <<born, wait, parked, attempts, blocked, linked, flags, ghosts, held, faults>>

(* ops::delete failed: logged; the row is still the first one due.         *)
DeleteFails ==
    /\ pc = "deleting" /\ Fault
    /\ pc' = "drain"
    /\ UNCHANGED <<born, rows, blocked, linked, flags, ghosts, held>>

(* get_blocked or next_due failed: `?` ends the task, not the daemon.      *)
Dies ==
    /\ pc \in {"check", "drain"} /\ Fault
    /\ pc' = "dead"
    /\ UNCHANGED <<born, rows, blocked, linked, flags, ghosts, held>>

-----------------------------------------------------------------------------
(* The process.                                                            *)

(* daemon::run gives the dispatcher 20 s after a signal, then aborts it.   *)
Abort ==
    /\ cancelled /\ pc \in Busy \cup {"drain"} /\ Fault
    /\ pc' = "stopped"
    /\ UNCHANGED <<born, rows, blocked, linked, flags, ghosts, held>>

ExitDead == pc = "dead" /\ cancelled /\ Goto("stopped")

Crash ==
    /\ pc # "stopped" /\ Fault
    /\ pc' = "stopped"
    /\ UNCHANGED <<born, rows, blocked, linked, flags, ghosts, held>>

(* A new process, by systemd or by hand; the pause flag is not persisted.  *)
Start ==
    /\ pc = "stopped"
    /\ pc' = "top" /\ paused' = FALSE /\ cancelled' = FALSE
    /\ UNCHANGED <<born, rows, blocked, linked, ghosts, held, faults>>

LoopStep ==
    \/ ReadPause \/ LeavePause \/ ReadBlock \/ EndNap \/ NothingDue \/ Wake
    \/ Park \/ Select \/ ExecuteOk \/ UploadNew \/ RecordId
    \/ ExecuteFails \/ AuthFails \/ RecordSuccess \/ DeleteRow

OtherStep == Enqueue \/ Poll \/ Link \/ PauseResume \/ Signal

ProcessStep == ExitDead \/ Start

FaultStep ==
    \/ ParkFails \/ RecordIdFails \/ MarkFails \/ AuthUnrecorded
    \/ SuccessUnrecorded \/ DeleteFails \/ Dies \/ Abort \/ Crash

Next == LoopStep \/ Tick \/ OtherStep \/ ProcessStep \/ FaultStep

Spec == Init /\ [][Next]_vars

(* The runtime keeps polling the task, and time passes.                    *)
FairSpec == Spec /\ WF_vars(LoopStep) /\ WF_vars(Tick)

-----------------------------------------------------------------------------
(* MAX_ATTEMPTS bounds the executions of an operation, but for those a     *)
(* failed write or an interruption of the process made unaccountable, and  *)
(* only an operation that used them all is parked (runtime.rs:105-127).    *)
RetryBudget ==
    \A o \in OpId : /\ tries[o] <= MaxAttempts + faults
                    /\ o \in parked => tries[o] >= MaxAttempts

(* After an auth failure of an operation nothing is executed for as long   *)
(* as a terminal block stands (runtime.rs:177-205: "no point burning       *)
(* retries on auth"), whatever the poller writes meanwhile.                *)
AuthStopsTheQueue == held => pc \notin Busy

(* Operations that never failed run in the order they were enqueued: a     *)
(* rename before the upload that follows it (ops.rs:198-218).              *)
FreshInOrder ==
    /\ \A i, j \in DOMAIN due :
          i < j /\ attempts[due[i]] = 0 /\ attempts[due[j]] = 0 => due[i] < due[j]
    /\ \A o \in Waiting : attempts[o] > 0

(* Every operation ends, done or parked, if in the end the daemon runs     *)
(* undisturbed: up, not paused, not under a terminal block.  A transient   *)
(* block is no obstacle, even if every poll fails (runtime.rs:83-98).      *)
Undisturbed == /\ pc \notin {"stopped", "dead"} /\ ~cancelled
               /\ ~paused /\ blocked \notin Terminal

EveryOpEnds ==
    <>[]Undisturbed => \A o \in OpId : (o \in Pending) ~> (o \notin Pending)

(* The promise kept by all this. *)
Queue == INSTANCE OpQueue WITH Op <- OpId, Limit <- MaxAttempts,
                               pending <- Pending, shelved <- parked, tried <- tries
QueueSpec == Queue!Spec
=============================================================================
