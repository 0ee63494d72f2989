------------------------------ MODULE FileSync ------------------------------
(***************************************************************************)
(* Two-way synchronisation of files: the local tree and Drive, both edited *)
(* by users at any time, the sync_item rows (state/items.rs), the local    *)
(* reconciler behind the debouncer (apply_local), the remote reconciler    *)
(* behind the poller (apply_remote) and the dispatcher (execute), whose    *)
(* operations are split where they touch the world and where they record   *)
(* what they did (reconcile/continuous.rs, daemon/runtime.rs).             *)
(*                                                                         *)
(* A content is a number, its fingerprint; 0 is no content, and no remote  *)
(* id.  The queue is in order but for failed operations, which come due    *)
(* again later (see Dispatcher).  Every change of Drive arrives, its       *)
(* latest snapshot at least (see ChangeFeed).  A first upload creates a    *)
(* file, as in HttpEngine (see Transfers for both engines).  Folders are   *)
(* in FolderSync; Google Docs and files of other owners are left out.      *)
(***************************************************************************)
EXTENDS Naturals, FiniteSets, Sequences, SequencesExt, Queues

CONSTANTS Paths,       \* relative paths the users use
          Copies,      \* names of conflict copies
          NoPath,      \* "no path"
          MaxIds,      \* bound: Drive files ever created
          UserOps,     \* what the users do
          MaxUser,     \* bound: how often they do it
          MaxTries,    \* MAX_ATTEMPTS
          MaxTrouble   \* bound: failed calls, and actions that find the daemon busy

UserKinds == {"write", "remove", "move", "replace", "reuse",
              "rcreate", "rwrite", "rtrash", "rrestore", "rmove", "rdelete"}

ASSUME FileSyncAssumption ==
    /\ IsFiniteSet(Paths) /\ IsFiniteSet(Copies)
    /\ Paths \cap Copies = {} /\ NoPath \notin Paths \cup Copies
    /\ MaxIds \in Nat \ {0} /\ MaxUser \in Nat /\ MaxTrouble \in Nat
    /\ MaxTries \in Nat \ {0}
    /\ UserOps \subseteq UserKinds

VARIABLES
    local,       \* the content of each path on disk
    drive, feed, \* Drive's files; ids with a change not fetched yet, in order
    items,       \* the sync_item table
    ops, later,  \* operations due, in order; failed operations
    events,      \* the debouncer: the last event of each path
    change,      \* the snapshot apply_remote is about to see
    exec,        \* the operation being executed
    marked,      \* the id in the in-flight registry
    edits,       \* ghost: user actions so far
    overlaps,    \* ghost: those that found the daemon busy
    kept,        \* ghost: contents no user has replaced or thrown away
    faults       \* ghost: failures so far

world  == <<local, drive, feed>>
tables == <<items, ops, later>>
ghosts == <<edits, overlaps, kept>>
vars   == <<world, tables, events, change, exec, marked, ghosts, faults>>

Ids      == 1..MaxIds
Contents == 0..MaxUser + 1
Names    == Paths \cup Copies
Keys     == 1..Cardinality(Names) + 1

File  == [path : Names \cup {NoPath}, md5 : Contents,
          st : {"none", "live", "trashed", "gone"}]
Row   == [key : Keys, path : Names, rid : Ids \cup {0}, md5 : Contents, trashed : BOOLEAN]
Op    == [kind : {"Upload", "Download", "DeleteRemote", "DeleteLocal", "RenameRemote", "RenameLocal"},
          key : Keys, rid : Ids \cup {0}, path : Names \cup {NoPath}, keep : BOOLEAN,
          tries : 0..MaxTries]
Event == [kind : {"none", "changed", "deleted", "renamed"}, from : Names \cup {NoPath}]

NoFile   == [path |-> NoPath, md5 |-> 0, st |-> "none"]
NoEvent  == [kind |-> "none", from |-> NoPath]
NoChange == [id |-> 0, file |-> NoFile]
Idle     == [pc |-> "idle"]

(* Types; the unique index on paths, the foreign key of operations, and no *)
(* operation on a remote file without its id (items.rs, ops.rs).           *)
TypeOK ==
    /\ local \in [Names -> Contents] /\ drive \in [Ids -> File] /\ feed \in Seq(Ids)
    /\ items \subseteq Row
    /\ \A r, s \in items : r.key = s.key \/ r.path = s.path => r = s
    /\ ops \in Seq(Op) /\ later \in Seq(Op)
    /\ \A o \in ToSet(ops) \cup ToSet(later) : \E r \in items :
          r.key = o.key /\ (o.kind \in {"DeleteRemote", "RenameRemote"} => r.rid # 0)
    /\ events \in [Names -> Event]
    /\ change \in {NoChange} \cup [id : Ids, file : File]
    /\ exec \in {Idle} \cup [pc : {"write", "mark", "record"}, op : Op, row : Row, md5 : Contents]
    /\ marked \in Ids \cup {0}
    /\ edits \in 0..MaxUser /\ overlaps \in 0..MaxTrouble /\ kept \subseteq Contents \ {0}
    /\ faults \in 0..MaxTrouble

(* Nothing yet, or one file in sync.                                       *)
Init ==
    /\ \/ /\ local = [p \in Names |-> 0]
          /\ drive = [i \in Ids |-> NoFile]
          /\ items = {} /\ kept = {}
       \/ \E p \in Paths :
             /\ local = [q \in Names |-> IF q = p THEN 1 ELSE 0]
             /\ drive = [i \in Ids |-> IF i = 1 THEN [path |-> p, md5 |-> 1, st |-> "live"]
                                       ELSE NoFile]
             /\ items = {[key |-> 1, path |-> p, rid |-> 1, md5 |-> 1, trashed |-> FALSE]}
             /\ kept = {1}
    /\ feed = <<>> /\ ops = <<>> /\ later = <<>>
    /\ events = [p \in Names |-> NoEvent]
    /\ change = NoChange /\ exec = Idle /\ marked = 0
    /\ edits = 0 /\ overlaps = 0 /\ faults = 0

-----------------------------------------------------------------------------
(* The world.                                                              *)

Notify(p, kind) == events' = [events EXCEPT ![p] = [kind |-> kind, from |-> NoPath]]

NotifyMove(p, q) == events' = [events EXCEPT ![q] = [kind |-> "renamed", from |-> p]]

SetDrive(i, file) ==
    /\ drive' = [drive EXCEPT ![i] = file]
    /\ feed' = Append(Only(feed, Ids \ {i}), i)

IsNew(i) == drive[i].st = "none" /\ \A j \in Ids : j < i => drive[j].st # "none"
Live(i) == drive[i].st = "live"
Exists(i) == drive[i].st \in {"live", "trashed"}
Vacant(p) == \A i \in Ids : Live(i) => drive[i].path # p

Quiet == /\ feed = <<>> /\ change = NoChange /\ exec = Idle
         /\ ops = <<>> /\ later = <<>> /\ \A p \in Names : events[p] = NoEvent

MoreTrouble == overlaps + faults < MaxTrouble

(* Users and re-deliveries may find the daemon busy.                       *)
Interfere == IF Quiet THEN UNCHANGED overlaps
             ELSE MoreTrouble /\ overlaps' = overlaps + 1

User(kind) ==
    /\ kind \in UserOps /\ edits < MaxUser
    /\ edits' = edits + 1
    /\ Interfere
    /\ UNCHANGED <<tables, change, exec, marked, faults>>

Fresh == edits + 2

(* A user may put a file where another one was trashed.                    *)
Usable(p, i) == "reuse" \in UserOps \/ \A r \in items : r.path = p => ~r.trashed \/ r.rid = i

(* The user gives up one content, and makes or takes back another.         *)
Trade(old, new) == kept' = ((kept \ {old}) \cup {new}) \ {0}

Write(p) == /\ User("write") /\ Usable(p, 0)
            /\ local' = [local EXCEPT ![p] = Fresh] /\ Notify(p, "changed")
            /\ Trade(local[p], Fresh)
            /\ UNCHANGED <<drive, feed>>

RemoveFile(p) == /\ User("remove") /\ local[p] # 0
                 /\ local' = [local EXCEPT ![p] = 0] /\ Notify(p, "deleted")
                 /\ Trade(local[p], 0)
                 /\ UNCHANGED <<drive, feed>>

Move(p, q) == /\ User("move") /\ p # q /\ local[p] # 0 /\ Usable(q, 0)
              /\ local[q] # 0 => "replace" \in UserOps
              /\ local' = [local EXCEPT ![p] = 0, ![q] = local[p]] /\ NotifyMove(p, q)
              /\ Trade(local[q], local[p])
              /\ UNCHANGED <<drive, feed>>

Remote(kind, i, file, old, new) ==
    /\ User(kind)
    /\ SetDrive(i, file) /\ Trade(old, new)
    /\ UNCHANGED <<local, events>>

RemoteStep(i) ==
    LET f == drive[i] IN
    \/ \E p \in Paths : /\ IsNew(i) /\ Vacant(p) /\ Usable(p, i)
                        /\ Remote("rcreate", i, [path |-> p, md5 |-> Fresh, st |-> "live"], 0, Fresh)
    \/ Live(i) /\ Remote("rwrite", i, [f EXCEPT !.md5 = Fresh], f.md5, Fresh)
    \/ Live(i) /\ Remote("rtrash", i, [f EXCEPT !.st = "trashed"], f.md5, 0)
    \/ /\ f.st = "trashed" /\ Vacant(f.path) /\ Usable(f.path, i)
       /\ Remote("rrestore", i, [f EXCEPT !.st = "live"], 0, f.md5)
    \/ \E p \in Paths : /\ Live(i) /\ Vacant(p) /\ Usable(p, i)
                        /\ Remote("rmove", i, [f EXCEPT !.path = p], 0, 0)
    \/ Exists(i) /\ Remote("rdelete", i, [f EXCEPT !.st = "gone"], f.md5, 0)

-----------------------------------------------------------------------------
(* The tables.                                                             *)

AtPath(p) == {r \in items : r.path = p}
WithId(i) == {r \in items : r.rid = i}
WithKey(k) == {r \in items : r.key = k}
KeysOf(R) == {r.key : r \in R}

Job(kind, r, i, p, keep) ==
    [kind |-> kind, key |-> r.key, rid |-> i, path |-> p, keep |-> keep, tries |-> 0]

Upload(r)          == Job("Upload", r, 0, NoPath, FALSE)
Download(r, i, p)  == Job("Download", r, i, p, FALSE)
DeleteRemote(r)    == Job("DeleteRemote", r, 0, NoPath, FALSE)
DeleteLocal(r, t)  == Job("DeleteLocal", r, 0, NoPath, t)
RenameRemote(r, p) == Job("RenameRemote", r, 0, p, FALSE)
RenameLocal(r, p)  == Job("RenameLocal", r, 0, p, FALSE)

Without(s, K) == Only(s, {o \in ToSet(s) : o.key \notin K})

(* The rows become rows; deleting one deletes its operations (ON DELETE    *)
(* CASCADE); then jobs are enqueued.                                       *)
Store(rows, jobs) ==
    LET dropped == KeysOf(items) \ KeysOf(rows)
    IN  /\ items' = rows
        /\ ops' = Without(ops, dropped) \o jobs
        /\ later' = Without(later, dropped)

Enqueue(job) == Store(items, <<job>>)
Change(r, s, jobs) == Store((items \ {r}) \cup {s}, jobs)
Delete(R) == Store(items \ R, <<>>)

NewKey == CHOOSE k \in Keys : k \notin KeysOf(items) /\ (exec # Idle => k # exec.op.key)

NewRow(p, i, c) == [key |-> NewKey, path |-> p, rid |-> i, md5 |-> c, trashed |-> FALSE]

(* Mutant: a row already at the new path is not dropped.                   *)
RepathBeside(r, p, jobs) == Change(r, [r EXCEPT !.path = p], jobs)

(* set_relative_path: the row that moves wins over one already there.      *)
Repath(r, p, jobs) ==
    Store((items \ ({r} \cup AtPath(p))) \cup {[r EXCEPT !.path = p]}, jobs)

-----------------------------------------------------------------------------
(* The local reconciler.                                                   *)

Track(p) ==
    \/ local[p] = 0 /\ UNCHANGED tables
    \/ /\ local[p] # 0 /\ AtPath(p) = {}
       /\ LET r == NewRow(p, 0, 0) IN Store(items \cup {r}, <<Upload(r)>>)
    \/ local[p] # 0 /\ \E r \in AtPath(p) : Enqueue(Upload(r))

OnChanged(p) == events[p].kind = "changed" /\ Track(p)

(* A tombstone takes the event for the echo of its own local removal.      *)
OnDeleted(p) ==
    /\ events[p].kind = "deleted"
    /\ \/ (\A r \in AtPath(p) : r.trashed) /\ UNCHANGED tables
       \/ \E r \in AtPath(p) : ~r.trashed /\ r.rid # 0 /\ Enqueue(DeleteRemote(r))
       \/ \E r \in AtPath(p) : ~r.trashed /\ r.rid = 0 /\ Delete({r})

OnRenamed(p) ==
    /\ events[p].kind = "renamed"
    /\ LET source == AtPath(events[p].from) IN
         \/ source = {} /\ Track(p)
         \/ \E r \in source : r.rid = 0 /\ Repath(r, p, <<Upload(r)>>)
         \/ \E r \in source : r.rid # 0 /\ Enqueue(RenameRemote(r, p))

ApplyLocal(p) ==
    /\ OnChanged(p) \/ OnDeleted(p) \/ OnRenamed(p)
    /\ events' = [events EXCEPT ![p] = NoEvent]
    /\ UNCHANGED <<world, change, exec, marked, ghosts, faults>>

-----------------------------------------------------------------------------
(* The poller and the remote reconciler.                                   *)

Fetch ==
    /\ change = NoChange /\ feed # <<>>
    /\ change' = [id |-> Head(feed), file |-> drive[Head(feed)]]
    /\ feed' = Tail(feed)
    /\ UNCHANGED <<local, drive, tables, events, exec, marked, ghosts, faults>>

(* The batch is fetched again after a failed apply or a crash.             *)
Redeliver(i) ==
    /\ Interfere
    /\ drive[i].st # "none" /\ i \notin ToSet(feed)
    /\ feed' = <<i>> \o feed
    /\ UNCHANGED <<local, drive, tables, events, change, exec, marked, edits, kept, faults>>

OnDisk == UNCHANGED <<local, events>>

(* A change of a file an operation is writing is taken for its echo.       *)
Gate == change.id = marked /\ OnDisk /\ UNCHANGED tables

Removed(r) == change.file.st = "gone" /\ OnDisk /\ Enqueue(DeleteLocal(r, FALSE))

Trashed(r) ==
    /\ change.file.st = "trashed" /\ OnDisk
    /\ IF r.trashed THEN UNCHANGED tables ELSE Enqueue(DeleteLocal(r, TRUE))

Restored(r) ==
    /\ change.file.st = "live" /\ r.trashed /\ OnDisk
    /\ Change(r, [r EXCEPT !.trashed = FALSE], <<Download(r, change.id, r.path)>>)

(* Mutant: the echo test comes before the test for a rename.               *)
MovedIfEdited(r) ==
    LET f == change.file IN
    /\ f.st = "live" /\ ~r.trashed /\ f.path # r.path /\ OnDisk
    /\ Store(items, IF f.md5 = r.md5 THEN <<>>
                    ELSE <<RenameLocal(r, f.path), Download(r, change.id, f.path)>>)

(* A change of path is tested before the echo.                             *)
Moved(r) ==
    LET f == change.file IN
    /\ f.st = "live" /\ ~r.trashed /\ f.path # r.path /\ OnDisk
    /\ Store(items, IF f.md5 = r.md5 THEN <<RenameLocal(r, f.path)>>
                    ELSE <<RenameLocal(r, f.path), Download(r, change.id, f.path)>>)

SamePlace(r) == change.file.st = "live" /\ ~r.trashed /\ change.file.path = r.path

(* The echo of an upload, or bytes that are on disk already.               *)
NothingToPull(r) ==
    /\ SamePlace(r)
    /\ change.file.md5 = r.md5 \/ (r.md5 # 0 /\ local[r.path] = change.file.md5)
    /\ OnDisk /\ UNCHANGED tables

BothChanged(r) == r.md5 # 0 /\ local[r.path] \notin {0, r.md5, change.file.md5}

Pulled(r) ==
    /\ SamePlace(r) /\ change.file.md5 # r.md5
    /\ r.md5 # 0 => local[r.path] # change.file.md5
    /\ ~BothChanged(r)
    /\ OnDisk /\ Enqueue(Download(r, change.id, r.path))

(* open_conflict: the local file is renamed to a free name.                *)
Conflict(r) ==
    /\ SamePlace(r) /\ change.file.md5 # r.md5 /\ BothChanged(r)
    /\ \E copy \in Copies :
          /\ local[copy] = 0 /\ AtPath(copy) = {} /\ events[copy] = NoEvent
          /\ local' = [local EXCEPT ![r.path] = 0, ![copy] = local[r.path]]
          /\ NotifyMove(r.path, copy)
    /\ Enqueue(Download(r, change.id, r.path))

(* No row has the id.  Where the path has a row, the change is taken for   *)
(* the echo of an upload whose id is not linked yet.                       *)
Unknown ==
    LET f == change.file IN
    /\ WithId(change.id) = {} /\ OnDisk
    /\ \/ f.st # "live" /\ UNCHANGED tables
       \/ f.st = "live" /\ AtPath(f.path) # {} /\ UNCHANGED tables
       \/ /\ f.st = "live" /\ AtPath(f.path) = {}
          /\ LET r == NewRow(f.path, change.id, f.md5)
             IN  Store(items \cup {r}, <<Download(r, change.id, f.path)>>)

Known(r) == \/ Removed(r) \/ Trashed(r) \/ Restored(r) \/ Moved(r)
            \/ NothingToPull(r) \/ Pulled(r) \/ Conflict(r)

ApplyRemote ==
    /\ change # NoChange
    /\ change' = NoChange
    /\ \/ Gate
       \/ change.id # marked /\ Unknown
       \/ change.id # marked /\ \E r \in WithId(change.id) : Known(r)
    /\ UNCHANGED <<drive, feed, exec, marked, ghosts, faults>>

-----------------------------------------------------------------------------
(* The dispatcher.                                                         *)

Enter(o, r, hash, id) ==
    /\ exec' = [pc |-> "write", op |-> o, row |-> r, md5 |-> hash]
    /\ marked' = id
    /\ UNCHANGED <<items, later>>

Drop == UNCHANGED <<items, later, exec, marked>>

BeginUpload(o, r) ==
    /\ o.kind = "Upload"
    /\ IF local[r.path] \in {0, r.md5} THEN Drop ELSE Enter(o, r, local[r.path], r.rid)

(* These have a remote id (TypeOK): the branch without one is never taken. *)
BeginRemote(o, r) ==
    /\ o.kind \in {"DeleteRemote", "RenameRemote"}
    /\ Enter(o, r, 0, r.rid)

BeginLocal(o, r) ==
    /\ o.kind \in {"Download", "DeleteLocal", "RenameLocal"}
    /\ Enter(o, r, 0, 0)

Begin ==
    /\ exec = Idle /\ ops # <<>>
    /\ LET o == Head(ops) IN
         \E r \in WithKey(o.key) : BeginUpload(o, r) \/ BeginRemote(o, r) \/ BeginLocal(o, r)
    /\ ops' = Tail(ops)
    /\ UNCHANGED <<world, events, change, ghosts, faults>>

At(pc, kind) == exec.pc = pc /\ exec.op.kind = kind

ToRecord == exec' = [exec EXCEPT !.pc = "record"]

(* The engine reads the file again: it may have changed since it was hashed. *)
Update ==
    LET r == exec.row IN
    /\ At("write", "Upload") /\ r.rid # 0
    /\ local[r.path] # 0 /\ Exists(r.rid)
    /\ SetDrive(r.rid, [drive[r.rid] EXCEPT !.md5 = local[r.path]])
    /\ OnDisk /\ ToRecord

Create(i) ==
    LET r == exec.row IN
    /\ At("write", "Upload") /\ r.rid = 0
    /\ local[r.path] # 0 /\ IsNew(i)
    /\ SetDrive(i, [path |-> r.path, md5 |-> local[r.path], st |-> "live"])
    /\ OnDisk /\ exec' = [exec EXCEPT !.pc = "mark", !.row.rid = i]

Get ==
    LET o == exec.op IN
    /\ At("write", "Download") /\ Exists(o.rid)
    /\ local' = [local EXCEPT ![o.path] = drive[o.rid].md5]
    /\ Notify(o.path, "changed")
    /\ UNCHANGED <<drive, feed>> /\ ToRecord

Trash ==
    LET i == exec.row.rid IN
    /\ At("write", "DeleteRemote") /\ Exists(i)
    /\ IF Live(i) THEN SetDrive(i, [drive[i] EXCEPT !.st = "trashed"])
       ELSE UNCHANGED <<drive, feed>>
    /\ OnDisk /\ ToRecord

Unlink ==
    LET p == exec.row.path IN
    /\ At("write", "DeleteLocal")
    /\ IF local[p] = 0 THEN OnDisk
       ELSE local' = [local EXCEPT ![p] = 0] /\ Notify(p, "deleted")
    /\ UNCHANGED <<drive, feed>> /\ ToRecord

MoveRemote ==
    LET i == exec.row.rid IN
    /\ At("write", "RenameRemote") /\ Exists(i)
    /\ SetDrive(i, [drive[i] EXCEPT !.path = exec.op.path])
    /\ OnDisk /\ ToRecord

MoveLocal ==
    LET p == exec.row.path
        q == exec.op.path IN
    /\ At("write", "RenameLocal")
    /\ IF p = q \/ local[p] = 0 THEN OnDisk
       ELSE local' = [local EXCEPT ![p] = 0, ![q] = local[p]] /\ NotifyMove(p, q)
    /\ UNCHANGED <<drive, feed>> /\ ToRecord

Act ==
    /\ exec # Idle
    /\ \/ Update \/ Get \/ Trash \/ Unlink \/ MoveRemote \/ MoveLocal
       \/ \E i \in Ids : Create(i)
    /\ UNCHANGED <<tables, change, marked, ghosts, faults>>

Mark ==
    /\ exec # Idle /\ exec.pc = "mark"
    /\ marked' = exec.row.rid
    /\ ToRecord
    /\ UNCHANGED <<world, tables, events, change, ghosts, faults>>

(* Updates of a row deleted meanwhile do nothing.                          *)
Save(r) ==
    LET o == exec.op IN
    \/ At("record", "Upload")
       /\ Change(r, [r EXCEPT !.rid = exec.row.rid, !.md5 = exec.md5], <<>>)
    \/ At("record", "Download") /\ local[o.path] # 0
       /\ Change(r, [r EXCEPT !.rid = o.rid, !.md5 = local[o.path]], <<>>)
    \/ At("record", "DeleteRemote") /\ Delete({r})
    \/ At("record", "DeleteLocal") /\ o.keep /\ Change(r, [r EXCEPT !.trashed = TRUE], <<>>)
    \/ At("record", "DeleteLocal") /\ ~o.keep /\ Delete({r})
    \/ At("record", "RenameRemote") /\ Repath(r, o.path, <<>>)

(* rename_subtree goes by path: the row already at the new one wins.       *)
SavePath ==
    LET p == exec.row.path
        q == exec.op.path IN
    /\ At("record", "RenameLocal")
    /\ IF p = q \/ AtPath(p) = {} THEN UNCHANGED tables
       ELSE IF AtPath(q) # {} THEN Delete(AtPath(p))
       ELSE \E r \in AtPath(p) : Change(r, [r EXCEPT !.path = q], <<>>)

Leave == exec' = Idle /\ marked' = 0

Record ==
    /\ exec # Idle /\ exec.pc = "record"
    /\ \/ SavePath
       \/ \E r \in WithKey(exec.op.key) : Save(r)
       \/ WithKey(exec.op.key) = {} /\ exec.op.kind # "RenameLocal" /\ UNCHANGED tables
    /\ Leave
    /\ UNCHANGED <<world, events, change, ghosts, faults>>

(* mark_attempt of an operation whose row is gone does nothing.            *)
Retry ==
    LET again == [exec.op EXCEPT !.tries = @ + 1] IN
    /\ later' = IF WithKey(again.key) = {} \/ again.tries = MaxTries THEN later
                ELSE Append(later, again)
    /\ Leave
    /\ UNCHANGED <<world, items, ops, events, change, ghosts>>

(* The file to upload or to hash is gone, or Drive answers 404.            *)
Impossible ==
    LET r == exec.row IN
    \/ At("write", "Upload") /\ (local[r.path] = 0 \/ (r.rid # 0 /\ ~Exists(r.rid)))
    \/ At("write", "Download") /\ ~Exists(exec.op.rid)
    \/ exec.pc = "write" /\ exec.op.kind \in {"DeleteRemote", "RenameRemote"} /\ ~Exists(r.rid)
    \/ At("record", "Download") /\ local[exec.op.path] = 0

Fails == exec # Idle /\ Impossible /\ Retry /\ UNCHANGED faults

(* The engine failed, or it did its work and a SQLite call failed.         *)
Breaks == /\ exec # Idle /\ exec.pc # "mark" /\ Retry
          /\ MoreTrouble /\ faults' = faults + 1

(* Mutant: only operations that never failed are selected.                 *)
ComesDueUntried ==
    /\ \E i \in DOMAIN later : /\ later[i].tries = 0
                               /\ ops' = Append(ops, later[i]) /\ later' = RemoveAt(later, i)
    /\ UNCHANGED <<world, items, events, change, exec, marked, ghosts, faults>>

ComesDue ==
    /\ \E i \in DOMAIN later : ops' = Append(ops, later[i]) /\ later' = RemoveAt(later, i)
    /\ UNCHANGED <<world, items, events, change, exec, marked, ghosts, faults>>

UserStep == \/ \E p \in Paths : Write(p) \/ RemoveFile(p)
            \/ \E p, q \in Paths : Move(p, q)
            \/ \E i \in Ids : RemoteStep(i)

ExecStep == Begin \/ Act \/ Mark \/ Record \/ Fails

FaultStep == Breaks \/ \E i \in Ids : Redeliver(i)

Next == \/ UserStep \/ FaultStep \/ ExecStep \/ ComesDue \/ Fetch \/ ApplyRemote
        \/ \E p \in Names : ApplyLocal(p)

Spec == Init /\ [][Next]_vars

FairSpec ==
    /\ Spec
    /\ WF_vars(ExecStep) /\ WF_vars(ComesDue) /\ WF_vars(Fetch) /\ WF_vars(ApplyRemote)
    /\ \A p \in Names : WF_vars(ApplyLocal(p))

-----------------------------------------------------------------------------
(* Properties.                                                             *)

InSync(r) ==
    /\ r.rid # 0 /\ Live(r.rid)
    /\ drive[r.rid].path = r.path
    /\ drive[r.rid].md5 = r.md5 /\ local[r.path] = r.md5

(* Where every edit found the daemon at rest and no call failed, the       *)
(* daemon comes to rest again only when both sides hold the same files at  *)
(* the same paths, each with a row that says so; rows of trashed files     *)
(* aside.  Whatever the order in which the watcher, the poller and the     *)
(* dispatcher see the edit, its echoes and the echoes of its echoes.       *)
RestMeansAgreed ==
    Quiet /\ overlaps + faults = 0 =>
        /\ \A r \in items : r.trashed \/ InSync(r)
        /\ \A p \in Names : local[p] # 0 => \E r \in AtPath(p) : InSync(r)
        /\ \A i \in Ids : Live(i) => \E r \in WithId(i) : InSync(r)

(* Echoes die out (sync-model.md: unchecked, they would ping-pong forever):*)
(* after edits that found it at rest, and whatever calls fail, the daemon  *)
(* comes to rest.                                                          *)
Settles == []<>Quiet \/ <>(overlaps > 0)

(* "so neither edit is lost" (sync-model.md, Conflicts): a content that no *)
(* user has replaced or thrown away is on disk or on Drive.                *)
NeitherEditLost ==
    kept \subseteq {local[p] : p \in Names} \cup {drive[i].md5 : i \in {j \in Ids : Exists(j)}}
=============================================================================
