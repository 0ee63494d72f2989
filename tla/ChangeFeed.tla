----------------------------- MODULE ChangeFeed -----------------------------
(***************************************************************************)
(* The remote half of the daemon, from Drive's change feed to the persisted *)
(* cursor: the poller (drive/changes.rs), the channel of batches, the      *)
(* consumer task (daemon/mod.rs, step 5) and the in-flight registry the    *)
(* dispatcher uses to hide its own writes (daemon/in_flight.rs).           *)
(*                                                                         *)
(* Positions of the feed stand for page tokens, and the position of a      *)
(* file's latest change stands for its snapshot.  What apply_remote does   *)
(* with a change is the subject of another module; here it succeeds,       *)
(* fails, or is skipped by the in-flight gate.                             *)
(***************************************************************************)
EXTENDS Naturals, Sequences

CONSTANTS Files,       \* Drive file ids
          Root,        \* the watched remote folder
          Scoped,      \* ids whose parent chain leads to Root
          QueueCap,    \* capacity of the batch channel
          MaxHead,     \* bound: how many changes Drive records
          MaxFaults,   \* bound: failed calls, poller deaths and crashes
          NoFile       \* "the dispatcher executes nothing"

ASSUME FeedAssumption ==
    /\ Root \in Files
    /\ Scoped \subseteq Files \ {Root}
    /\ NoFile \notin Files
    /\ QueueCap \in Nat \ {0}
    /\ MaxHead \in Nat
    /\ MaxFaults \in Nat

VARIABLES
    head, last, status, author,      \* Drive
    cursor,                          \* SQLite: drive_change_cursor
    phase, from, pos, acc, batch,    \* the poller task
    queue,                           \* mpsc channel of batches
    applying, bound, todo, allApplied, \* the consumer task
    opFile, updating, marked, wrote, \* the dispatcher and the registry
    applied, gated, filtered,        \* ghosts: what became of each change
    faults                           \* ghost: failures so far

drive    == <<head, last, status, author>>
poller   == <<phase, from, pos, acc, batch>>
consumer == <<applying, bound, todo, allApplied>>
engine   == <<opFile, updating, marked, wrote>>
fates    == <<applied, gated, filtered>>
vars == <<drive, cursor, poller, queue, consumer, engine, fates, faults>>

Entry == [file : Files, ver : Nat, removed : BOOLEAN]
Batch == [from : Nat, to : Nat, changes : Seq(Entry)]

DriveOK == /\ head \in Nat
           /\ last \in [Files -> Nat]
           /\ status \in [Files -> {"absent", "live", "gone"}]
           /\ author \in [Files -> {"none", "user", "daemon"}]

PollerOK == /\ phase \in {"idle", "draining", "resolving", "sending", "dead"}
            /\ from \in Nat /\ pos \in Nat
            /\ acc \in Seq(Entry) /\ batch \in Seq(Entry)

QueueOK == queue \in Seq(Batch) /\ Len(queue) <= QueueCap

ConsumerOK == /\ applying \in BOOLEAN /\ allApplied \in BOOLEAN
              /\ bound \in Nat /\ todo \in Seq(Entry)

EngineOK == /\ opFile \in Files \cup {NoFile}
            /\ updating \in BOOLEAN /\ marked \in BOOLEAN /\ wrote \in BOOLEAN

FatesOK == /\ applied \in [Files -> Nat]
           /\ gated \in [Files -> Nat]
           /\ filtered \in [Files -> Nat]

TypeOK == /\ cursor \in Nat /\ faults \in 0..MaxFaults
          /\ DriveOK /\ PollerOK /\ QueueOK /\ ConsumerOK /\ EngineOK /\ FatesOK

Init ==
    /\ head = 0 /\ cursor = 0 /\ last = [f \in Files |-> 0]
    /\ status \in {s \in [Files -> {"absent", "live"}] : s[Root] = "live"}
    /\ author = [f \in Files |-> "none"]
    /\ phase = "idle" /\ from = 0 /\ pos = 0 /\ acc = <<>> /\ batch = <<>>
    /\ queue = <<>>
    /\ applying = FALSE /\ bound = 0 /\ todo = <<>> /\ allApplied = TRUE
    /\ opFile = NoFile /\ updating = FALSE /\ marked = FALSE /\ wrote = FALSE
    /\ applied = [f \in Files |-> 0]
    /\ gated = [f \in Files |-> 0]
    /\ filtered = [f \in Files |-> 0]
    /\ faults = 0

Fault == faults < MaxFaults /\ faults' = faults + 1

-----------------------------------------------------------------------------
(* Drive.  changes.list reports a file once, at its latest change.         *)

Record(f, who, st) ==
    /\ head < MaxHead
    /\ head' = head + 1
    /\ last' = [last EXCEPT ![f] = head + 1]
    /\ author' = [author EXCEPT ![f] = who]
    /\ status' = [status EXCEPT ![f] = st]

(* Someone creates, edits, renames or trashes a file on Drive.  An id that *)
(* does not exist yet cannot be the one an upload is being given.          *)
RemoteEdit(f) ==
    /\ status[f] # "gone"
    /\ status[f] = "absent" => f # opFile
    /\ Record(f, "user", "live")
    /\ UNCHANGED <<cursor, poller, queue, consumer, engine, fates, faults>>

(* A file is deleted for good, or access to it is lost: removed = true.    *)
RemoteRemove(f) ==
    /\ status[f] = "live"
    /\ Record(f, "user", "gone")
    /\ UNCHANGED <<cursor, poller, queue, consumer, engine, fates, faults>>

-----------------------------------------------------------------------------
(* The dispatcher: one operation at a time, its Drive id marked in the     *)
(* registry from before the engine call (after it for a first upload,      *)
(* whose id is not known before) until the fingerprint is persisted.       *)

(* Mutant: the id of an updated file is marked only after the write.       *)
OpBeginUnmarked(f) ==
    /\ opFile = NoFile /\ f \in Scoped
    /\ opFile' = f /\ wrote' = FALSE
    /\ updating' = (status[f] # "absent") /\ marked' = FALSE
    /\ UNCHANGED <<drive, cursor, poller, queue, consumer, fates, faults>>

OpBegin(f) ==
    /\ opFile = NoFile /\ f \in Scoped
    /\ opFile' = f /\ wrote' = FALSE
    /\ updating' = (status[f] # "absent") /\ marked' = updating'
    /\ UNCHANGED <<drive, cursor, poller, queue, consumer, fates, faults>>

OpWrite ==
    /\ opFile # NoFile /\ ~wrote /\ status[opFile] # "gone"
    /\ Record(opFile, "daemon", "live")
    /\ wrote' = TRUE
    /\ UNCHANGED <<cursor, poller, queue, consumer, opFile, updating, marked, fates, faults>>

OpMarkNew ==
    /\ opFile # NoFile /\ wrote /\ ~marked
    /\ marked' = TRUE
    /\ UNCHANGED <<drive, cursor, poller, queue, consumer, opFile, updating, wrote, fates, faults>>

(* The guard is dropped when execute returns, on success and on error.     *)
OpEnd ==
    /\ opFile # NoFile
    /\ opFile' = NoFile /\ updating' = FALSE /\ marked' = FALSE /\ wrote' = FALSE
    /\ UNCHANGED <<drive, cursor, poller, queue, consumer, fates, faults>>

-----------------------------------------------------------------------------
(* The poller.                                                             *)

PollStart ==
    /\ phase = "idle"
    /\ phase' = "draining" /\ from' = cursor /\ pos' = cursor
    /\ UNCHANGED <<drive, cursor, acc, batch, queue, consumer, engine, fates, faults>>

(* cursor::get failed: `?` ends the poller task, the daemon goes on.       *)
PollerDies ==
    /\ phase = "idle" /\ Fault
    /\ phase' = "dead"
    /\ UNCHANGED <<drive, cursor, from, pos, acc, batch, queue, consumer, engine, fates>>

NextInFeed(f) ==
    /\ last[f] > pos
    /\ \A g \in Files : last[g] > pos => last[f] <= last[g]

(* One page of the delta.  A page of n entries is n of these steps in a    *)
(* row; other actors may run between the requests for two pages.           *)
FetchPage(f) ==
    /\ phase = "draining" /\ NextInFeed(f)
    /\ acc' = Append(acc, [file |-> f, ver |-> last[f], removed |-> status[f] = "gone"])
    /\ pos' = last[f]
    /\ UNCHANGED <<drive, cursor, phase, from, batch, queue, consumer, engine, fates, faults>>

(* Mutant: a delta without newStartPageToken keeps the token it began with.*)
FetchLastKeepsToken ==
    /\ phase = "draining" /\ \A f \in Files : last[f] <= pos
    /\ phase' = "resolving" /\ pos' = from
    /\ UNCHANGED <<drive, cursor, from, acc, batch, queue, consumer, engine, fates, faults>>

(* The last page carries newStartPageToken.                                *)
FetchLast ==
    /\ phase = "draining" /\ \A f \in Files : last[f] <= pos
    /\ phase' = "resolving" /\ pos' = head
    /\ UNCHANGED <<drive, cursor, from, acc, batch, queue, consumer, engine, fates, faults>>

(* An error on any page drops what was fetched; the cursor does not move.  *)
FetchFails ==
    /\ phase = "draining" /\ Fault
    /\ phase' = "idle" /\ acc' = <<>> /\ from' = 0 /\ pos' = 0
    /\ UNCHANGED <<drive, cursor, batch, queue, consumer, engine, fates>>

(* The removal of the root (which blocks the daemon) and files outside the *)
(* watched tree are left out of the batch; removals need no path.          *)
InBatch(e) == IF e.removed THEN e.file # Root ELSE e.file \in Scoped

(* Mutant: the batch is built from its end.                                *)
KeepInFront ==
    /\ batch' = <<Head(acc)>> \o batch
    /\ UNCHANGED filtered

Keep ==
    /\ batch' = Append(batch, Head(acc))
    /\ UNCHANGED filtered

Skip ==
    /\ filtered' = [filtered EXCEPT ![Head(acc).file] = Head(acc).ver]
    /\ UNCHANGED batch

Resolve ==
    /\ phase = "resolving" /\ acc # <<>>
    /\ IF InBatch(Head(acc)) THEN Keep ELSE Skip
    /\ acc' = Tail(acc)
    /\ UNCHANGED <<drive, cursor, phase, from, pos, queue, consumer, engine, applied, gated, faults>>

(* descendant_path turns a failed files.get into None, "out of scope".     *)
LookupFails ==
    /\ phase = "resolving" /\ acc # <<>> /\ ~Head(acc).removed
    /\ Fault
    /\ Skip
    /\ acc' = Tail(acc)
    /\ UNCHANGED <<drive, cursor, phase, from, pos, queue, consumer, engine, applied, gated>>

(* Mutant: the start token is asked for again once the paths are resolved. *)
ResolvedLateToken ==
    /\ phase = "resolving" /\ acc = <<>>
    /\ phase' = "sending" /\ pos' = head
    /\ UNCHANGED <<drive, cursor, from, acc, batch, queue, consumer, engine, fates, faults>>

Resolved ==
    /\ phase = "resolving" /\ acc = <<>>
    /\ phase' = "sending"
    /\ UNCHANGED <<drive, cursor, from, pos, acc, batch, queue, consumer, engine, fates, faults>>

(* Mutant: a channel without a bound.                                      *)
PollSendUnbounded ==
    /\ phase = "sending"
    /\ queue' = Append(queue, [from |-> from, to |-> pos, changes |-> batch])
    /\ phase' = "idle" /\ batch' = <<>> /\ from' = 0 /\ pos' = 0
    /\ UNCHANGED <<drive, cursor, acc, consumer, engine, fates, faults>>

(* An empty delta is sent too: its token advances the cursor.              *)
PollSend ==
    /\ phase = "sending" /\ Len(queue) < QueueCap
    /\ queue' = Append(queue, [from |-> from, to |-> pos, changes |-> batch])
    /\ phase' = "idle" /\ batch' = <<>> /\ from' = 0 /\ pos' = 0
    /\ UNCHANGED <<drive, cursor, acc, consumer, engine, fates, faults>>

-----------------------------------------------------------------------------
(* The consumer.                                                           *)

Take ==
    /\ ~applying /\ queue # <<>>
    /\ applying' = TRUE /\ allApplied' = TRUE
    /\ bound' = Head(queue).to /\ todo' = Head(queue).changes
    /\ queue' = Tail(queue)
    /\ UNCHANGED <<drive, cursor, poller, engine, fates, faults>>

InFlight(f) == marked /\ opFile = f

(* apply_remote: a change of a marked id returns Ok before anything else.  *)
Apply ==
    /\ applying /\ todo # <<>>
    /\ LET e == Head(todo) IN
         IF InFlight(e.file)
         THEN gated' = [gated EXCEPT ![e.file] = e.ver] /\ UNCHANGED applied
         ELSE applied' = [applied EXCEPT ![e.file] = e.ver] /\ UNCHANGED gated
    /\ todo' = Tail(todo)
    /\ UNCHANGED <<drive, cursor, poller, queue, applying, bound, allApplied, engine,
                   filtered, faults>>

ApplyFails ==
    /\ applying /\ todo # <<>> /\ ~InFlight(Head(todo).file)
    /\ Fault
    /\ allApplied' = FALSE /\ todo' = Tail(todo)
    /\ UNCHANGED <<drive, cursor, poller, queue, applying, bound, engine, fates>>

(* Mutant: the cursor advances whether or not the whole batch applied.     *)
FinishAlways ==
    /\ applying /\ todo = <<>>
    /\ cursor' = bound
    /\ applying' = FALSE /\ bound' = 0 /\ allApplied' = TRUE
    /\ UNCHANGED <<drive, poller, queue, todo, engine, fates, faults>>

Finish ==
    /\ applying /\ todo = <<>>
    /\ cursor' = IF allApplied THEN bound ELSE cursor
    /\ applying' = FALSE /\ bound' = 0 /\ allApplied' = TRUE
    /\ UNCHANGED <<drive, poller, queue, todo, engine, fates, faults>>

(* cursor::set failed: logged, the batch is forgotten.                     *)
FinishFails ==
    /\ applying /\ todo = <<>> /\ allApplied /\ Fault
    /\ applying' = FALSE /\ bound' = 0 /\ allApplied' = TRUE
    /\ UNCHANGED <<drive, cursor, poller, queue, todo, engine, fates>>

-----------------------------------------------------------------------------
(* The process dies and systemd starts it again: only SQLite and Drive     *)
(* survive, and what apply_remote wrote is in SQLite.                      *)
Crash ==
    /\ Fault
    /\ phase' = "idle" /\ acc' = <<>> /\ batch' = <<>> /\ queue' = <<>>
    /\ from' = 0 /\ pos' = 0
    /\ applying' = FALSE /\ todo' = <<>> /\ bound' = 0 /\ allApplied' = TRUE
    /\ opFile' = NoFile /\ updating' = FALSE /\ marked' = FALSE /\ wrote' = FALSE
    /\ UNCHANGED <<drive, cursor, fates>>

PollerStep ==
    \/ PollStart \/ FetchLast \/ Resolve \/ Resolved \/ PollSend
    \/ \E f \in Files : FetchPage(f)

ConsumerStep == Take \/ Apply \/ Finish

EnvStep == \E f \in Files : RemoteEdit(f) \/ RemoteRemove(f)

EngineStep == (\E f \in Files : OpBegin(f)) \/ OpWrite \/ OpMarkNew \/ OpEnd

FaultStep == \/ PollerDies \/ FetchFails \/ LookupFails
             \/ ApplyFails \/ FinishFails \/ Crash

Next == PollerStep \/ ConsumerStep \/ EnvStep \/ EngineStep \/ FaultStep

Spec == Init /\ [][Next]_vars

(* Both tasks are loops that always come back to their next step; failures *)
(* are bounded by MaxFaults, so none of them is owed anything.             *)
FairSpec == Spec /\ WF_vars(PollerStep) /\ WF_vars(ConsumerStep)

-----------------------------------------------------------------------------
(* The daemon has dealt with the latest change of f: apply_remote ran it,  *)
(* the in-flight gate skipped it, or the poller left it out of its batch.  *)
Settled(f) == last[f] \in {0, applied[f], gated[f], filtered[f]}

(* The cursor never passes a change the daemon has not dealt with, across  *)
(* overlapping re-fetched batches, failed applies, failed cursor writes    *)
(* and crashes (daemon/mod.rs:222-230).                                    *)
CursorPassesOnlySettled ==
    \A f \in Files : last[f] <= cursor => Settled(f)

(* Re-delivery never makes apply_remote see an older snapshot of a file    *)
(* after a newer one, and the cursor never goes back: batches overlap, but *)
(* the single poller fetches them in order (drive/changes.rs:118-250).     *)
NoStepBack ==
    [][cursor' >= cursor /\ \A f \in Files : applied'[f] >= applied[f]]_vars

(* The race in_flight.rs:5-20 closes: apply_remote does not see the change *)
(* that an update of a known id produced until that operation has ended,   *)
(* with its fingerprint persisted.                                         *)
EchoWaitsForFingerprint ==
    [][\A f \in Files :
         (applied'[f] # applied[f] /\ applied'[f] = last[f] /\ author[f] = "daemon")
            => ~(opFile = f /\ updating /\ wrote)]_vars

(* The doc of RemoteBatch (drive/changes.rs:57-58): the cursor is never    *)
(* advanced past unapplied work.  Fails: a failed parent lookup drops the  *)
(* change from the batch and the token still covers it.                    *)
NothingInScopeFiltered ==
    \A f \in Scoped : 0 < last[f] /\ last[f] <= cursor
                         => filtered[f] # last[f] \/ applied[f] = last[f]

(* As long as the poller task survives, the daemon catches up with the     *)
(* feed: the cursor reaches its end, whatever failed on the way.           *)
CatchesUp == <>[](phase # "dead") => <>[](cursor = head)

(* The promise kept by all this. *)
Feed == INSTANCE RemoteFeed WITH settled <- {f \in Files : Settled(f)}
FeedSpec == Feed!Spec
=============================================================================
