----------------------------- MODULE FolderSync -----------------------------
(***************************************************************************)
(* Changes of a folder tree on Drive and the local tree that follows       *)
(* (drive/changes.rs, reconcile/continuous.rs, daemon/runtime.rs): users   *)
(* create, edit, rename and move folders and files on Drive; the poller    *)
(* resolves each change to a path with its cache of folder paths; the      *)
(* reconciler turns it into operations on rows; the dispatcher moves       *)
(* directories, merging where the destination is there already.            *)
(*                                                                         *)
(* Nobody edits locally, nothing is trashed and nothing leaves the watched *)
(* folder.  A name is a number and is used once.  Drive may report a       *)
(* rename of a folder with its own entry, with those of what is in it, or  *)
(* both, and in any order (issue #19 in the sources).                      *)
(***************************************************************************)
EXTENDS Naturals, FiniteSets, Sequences, SequencesExt, Queues

CONSTANTS
    Folders, Files, Root,   \* Drive ids
    Nothing,                \* "no entry"
    MaxChanges,             \* bound on the users' changes
    MaxFaults               \* bound on failed calls and restarts

Ids == Folders \cup Files

ASSUME FolderSyncAssumption ==
    /\ Folders \cap Files = {} /\ Root \notin Ids /\ Nothing \notin Ids
    /\ Nothing \notin Seq(1..MaxChanges)
    /\ Nothing \notin [path : Seq(1..MaxChanges), rev : Nat]
    /\ Nothing \notin [parent : Folders \cup {Root}, name : Nat, rev : Nat]
    /\ MaxChanges \in Nat /\ MaxFaults \in Nat

VARIABLES
    drive,      \* id -> [parent, name, rev] or Nothing
    named,      \* users' changes so far, and the last name given
    changed,    \* ids whose change Drive has still to deliver
    delta,      \* snapshots fetched and not yet resolved
    cache,      \* path_cache: folder -> path or Nothing
    rows,       \* sync_item by remote id: [path, rev] or Nothing
    ops,        \* pending operations that are due, in order
    waiting,    \* failed operations, until they are due again
    disk,       \* local path -> "dir" or [id, rev]; its domain is what exists
    behind,     \* ghost: did a user's move outrun the daemon, or a retry lose its place?
    stale,      \* ghost: is or was a path in the cache outdated? (Misleads, Outdates)
    lost,       \* ghost: ids whose change a failed look-up dropped
    masked,     \* ghost: files whose own change was dropped for the rename of their folder
    faults

remote == <<drive, named>>
feed   == <<changed, delta, cache, lost, masked, stale>>
local  == <<rows, ops, disk>>
vars   == <<remote, feed, local, waiting, behind, faults>>

Top == <<>>
Init ==
    /\ drive = [x \in Ids |-> Nothing] /\ named = 0 /\ behind = FALSE /\ stale = FALSE
    /\ changed = {} /\ delta = {} /\ lost = {} /\ masked = {}
    /\ cache = [x \in Folders \cup {Root} |-> IF x = Root THEN Top ELSE Nothing]
    /\ rows = [x \in Ids |-> Nothing] /\ ops = <<>> /\ waiting = {}
    /\ disk = [path \in {Top} |-> "dir"]
    /\ faults = 0

-----------------------------------------------------------------------------
\* Drive.

Exists(x) == drive[x] # Nothing
There     == {Root} \cup {x \in Ids : Exists(x)}
Place(x)  == x = Root \/ (x \in Folders /\ Exists(x))
Places    == {f \in Folders \cup {Root} : Place(f)}

\* The folders an object is in, the watched one excepted.
Above[x \in There] ==
    IF x = Root \/ drive[x].parent = Root THEN {} ELSE {drive[x].parent} \cup Above[drive[x].parent]
Below(x) == {y \in Ids : Exists(y) /\ x \in Above[y]}

PathOf[x \in There] ==
    IF x = Root THEN Top ELSE Append(PathOf[drive[x].parent], drive[x].name)

AtRest == changed = {} /\ delta = {} /\ ops = <<>> /\ waiting = {}

Change(x, entry, reported) ==
    /\ named < MaxChanges /\ named' = named + 1
    /\ drive' = [drive EXCEPT ![x] = entry]
    /\ changed' = changed \cup reported
    /\ UNCHANGED <<delta, cache, lost, masked, local, waiting, faults>>

Create(x, in) ==
    /\ ~Exists(x) /\ Place(in)
    /\ Change(x, [parent |-> in, name |-> named + 1, rev |-> 1], {x})
    /\ UNCHANGED <<behind, stale>>

Touch(x) ==
    /\ x \in Files /\ Exists(x)
    /\ Change(x, [drive[x] EXCEPT !.rev = @ + 1], {x})
    /\ UNCHANGED <<behind, stale>>

\* Does moving x into another folder outrun the daemon?  It is behind while folders are
\* nested; an earlier change or move of x, or of what is above or below it, is on its way;
\* something has a row that is not inside the row of a folder it is in; or x leaves a folder whose new
\* name the daemon cannot know but from the entries of what is in it.
Under(x)   == {x} \cup Above[x] \cup Below(x)
UnderWay   == {s.id : s \in delta}
              \cup {job.id : job \in {j \in ToSet(ops) \cup waiting : j.kind = "rename"}}
RowInside(y, f) == rows[f] # Nothing /\ IsPrefix(rows[f].path, rows[y].path)
Outruns(x, in) ==
    \/ x \in Folders /\ in \in Folders \ {drive[x].parent} /\ ~AtRest
    \/ Under(x) \cap UnderWay # {}
    \/ \E f, y \in Under(x) : f \in Above[y] /\ rows[y] # Nothing /\ ~RowInside(y, f)
    \/ \E f \in Above[x] \ changed : rows[f] # Nothing /\ rows[f].path # PathOf[f]

\* Does a rename of x that is reported by these entries leave a path that none of them tells?
Misleads(x, reported) ==
    \/ x \notin reported /\ cache[x] # Nothing
    \/ x \notin reported /\ ~\E y \in reported \cap Files :
         /\ drive[y].parent = x /\ rows[x] # Nothing /\ rows[y] # Nothing
         /\ Front(rows[y].path) = rows[x].path

\* A rename in place, or a move; the entry of a renamed folder may not come at all if a file
\* in it has one.
Relocate(x, in) ==
    /\ Exists(x) /\ Place(in) /\ in # x
    /\ in # Root => x \notin Above[in]
    /\ \E reported \in SUBSET ({x} \cup Below(x)) :
         /\ x \in reported \/ (in = drive[x].parent /\ \E y \in reported \cap Files : drive[y].parent = x)
         /\ Change(x, [drive[x] EXCEPT !.parent = in,
                                       !.name = IF in = drive[x].parent THEN named + 1 ELSE @], reported)
         /\ stale' = (stale \/ Misleads(x, reported))
    /\ behind' = (behind \/ Outruns(x, in))

-----------------------------------------------------------------------------
\* The poller.

Fetch(ids) ==
    /\ delta = {} /\ ids # {} /\ ids \subseteq changed
    /\ delta' = {[id |-> x, parent |-> drive[x].parent, name |-> drive[x].name, rev |-> drive[x].rev] :
                   x \in ids}
    /\ changed' = changed \ ids
    /\ UNCHANGED <<remote, cache, lost, masked, stale, local, waiting, behind, faults>>

\* descendant_path walks up to the first folder in the cache, asking Drive for each name.
Prefix[f \in Places] ==
    IF cache[f] # Nothing THEN cache[f] ELSE Append(Prefix[drive[f].parent], drive[f].name)
Walked[f \in Places] ==
    IF cache[f] # Nothing THEN {} ELSE {f} \cup Walked[drive[f].parent]

Resolved(s) == Append(Prefix[s.parent], s.name)

\* assemble_path caches the folders it walked, run a folder that has a change.
Remember(s) ==
    cache' = [f \in Folders \cup {Root} |->
        IF f = s.id THEN Resolved(s) ELSE IF f \in Walked[s.parent] THEN Prefix[f] ELSE cache[f]]

\* The new path of a folder does not reach the folders below it that are in the cache.
Outdates(s) ==
    /\ s.id \in Folders /\ cache[s.id] \notin {Nothing, Resolved(s)}
    /\ \E f \in Folders \ {s.id} : cache[f] # Nothing /\ IsPrefix(cache[s.id], cache[f])

\* A failed look-up is taken for "out of scope".
LookUpFails(s) ==
    /\ s \in delta /\ Walked[s.parent] # {}
    /\ faults < MaxFaults /\ faults' = faults + 1
    /\ delta' = delta \ {s}
    /\ lost' = lost \cup {s.id}
    /\ UNCHANGED <<remote, changed, cache, masked, stale, local, waiting, behind>>

\* A restart: the cache is empty again, what was not applied is fetched again.
Restart ==
    /\ faults < MaxFaults /\ faults' = faults + 1
    /\ cache' = [f \in Folders \cup {Root} |-> IF f = Root THEN Top ELSE Nothing]
    /\ changed' = changed \cup {s.id : s \in delta} /\ delta' = {}
    /\ UNCHANGED <<remote, lost, masked, stale, local, waiting, behind>>

-----------------------------------------------------------------------------
\* The reconciler.

Job(kind, x, path) == [kind |-> kind, id |-> x, path |-> path]
Enqueue(jobs) == ops' = ops \o jobs

RowAt(path)  == {x \in Ids : rows[x] # Nothing /\ rows[x].path = path}
ParentOf(path) == Front(path)

\* A change at a path that has a row is taken for the echo of a local creation.
NewObject(s, path) ==
    /\ rows[s.id] = Nothing
    /\ IF RowAt(path) # {}
         THEN UNCHANGED <<rows, ops>>
         ELSE /\ rows' = [rows EXCEPT ![s.id] = [path |-> path, rev |-> s.rev]]
              /\ Enqueue(<<Job(IF s.id \in Folders THEN "mkdir" ELSE "download", s.id, path)>>)

FolderMoved(s, path) ==
    /\ s.id \in Folders /\ rows[s.id] # Nothing
    /\ Enqueue(IF rows[s.id].path = path THEN <<>> ELSE <<Job("rename", s.id, path)>>)
    /\ UNCHANGED rows

\* Mutant: a file whose path changed was moved, never its folder.
RenamerNone(s, old, path) == {}

\* Still in the folder that has its old directory: it is the folder that was renamed.
Renamer(s, old, path) ==
    IF ParentOf(old) # ParentOf(path) /\ ParentOf(old) # Top
      THEN {d \in Folders : d = s.parent /\ d \in RowAt(ParentOf(old))} ELSE {}

\* What the rename of the folder does not bring: a new revision or a new name.
Masks(s, path) ==
    /\ s.id \in Files /\ rows[s.id] # Nothing
    /\ Renamer(s, rows[s.id].path, path) # {}
    /\ rows[s.id].rev # s.rev \/ Last(rows[s.id].path) # s.name

FileMoved(s, path) ==
    LET old == rows[s.id].path
        dirs == Renamer(s, old, path)
        pull == IF rows[s.id].rev = s.rev THEN <<>> ELSE <<Job("download", s.id, path)>> IN
    /\ s.id \in Files /\ rows[s.id] # Nothing /\ rows[s.id].path # path
    /\ Enqueue(IF dirs # {} THEN <<Job("rename", s.parent, ParentOf(path))>>
               ELSE <<Job("rename", s.id, path)>> \o pull)
    /\ UNCHANGED rows

OnDisk(path)    == path \in DOMAIN disk
Holds(path, x, rev) == OnDisk(path) /\ disk[path] = [id |-> x, rev |-> rev]

FileEdited(s, path) ==
    /\ s.id \in Files /\ rows[s.id] # Nothing /\ rows[s.id].path = path
    /\ Enqueue(IF rows[s.id].rev = s.rev \/ Holds(path, s.id, s.rev)
                 THEN <<>> ELSE <<Job("download", s.id, path)>>)
    /\ UNCHANGED rows

Apply(s) ==
    /\ s \in delta
    /\ LET path == Resolved(s) IN
         NewObject(s, path) \/ FolderMoved(s, path) \/ FileMoved(s, path) \/ FileEdited(s, path)
    /\ masked' = IF Masks(s, Resolved(s)) THEN masked \cup {s.id} ELSE masked
    /\ stale' = (stale \/ Outdates(s))
    /\ Remember(s)
    /\ delta' = delta \ {s}
    /\ UNCHANGED <<remote, changed, lost, disk, waiting, behind, faults>>

-----------------------------------------------------------------------------
\* The dispatcher.

Dirs(path)  == {SubSeq(path, 1, n) : n \in 0..Len(path)}
WithDirs(paths) == [p \in DOMAIN disk \cup paths |-> IF OnDisk(p) THEN disk[p] ELSE "dir"]
Within(dir, path) == IsPrefix(dir, path)
Shifted(path, from, to) == to \o SubSeq(path, Len(from) + 1, Len(path))

MakeDir(job) ==
    /\ disk' = WithDirs(Dirs(rows[job.id].path))
    /\ UNCHANGED rows

\* Mutant: the parents of the file are not made first.
DownloadBare(job) ==
    /\ disk' = [p \in DOMAIN disk \cup {job.path} |->
                  IF p = job.path THEN [id |-> job.id, rev |-> drive[job.id].rev] ELSE disk[p]]
    /\ rows' = [rows EXCEPT ![job.id].rev = drive[job.id].rev]

\* The file comes as it is now, to the path of the payload.
Download(job) ==
    LET entry == [id |-> job.id, rev |-> drive[job.id].rev]
        dirs == WithDirs(Dirs(ParentOf(job.path))) IN
    /\ disk' = [p \in DOMAIN dirs \cup {job.path} |-> IF p = job.path THEN entry ELSE dirs[p]]
    /\ rows' = [rows EXCEPT ![job.id].rev = entry.rev]

\* rename(2), or the merge of two directories: the files of the source win.
MoveTree(from, to) ==
    LET there == WithDirs(Dirs(ParentOf(to)))
        moved == {p \in DOMAIN there : Within(from, p)}
        stay  == DOMAIN there \ moved
        targets == {Shifted(p, from, to) : p \in moved} IN
    IF from = to \/ ~OnDisk(from) THEN disk' = there
    ELSE disk' = [p \in stay \cup targets |->
                    IF p \in targets THEN there[Shifted(p, to, from)] ELSE there[p]]

\* Mutant: the rows below the directory keep their paths.
RewriteAlone(from, to) ==
    rows' = [x \in Ids |-> IF x \in RowAt(from) THEN [rows[x] EXCEPT !.path = to] ELSE rows[x]]

\* rename_subtree: a row already at the destination wins over the one that comes.
Rewrite(from, to) ==
    LET hit(x) == rows[x] # Nothing /\ Within(from, rows[x].path)
        new(x) == Shifted(rows[x].path, from, to) IN
    rows' = [x \in Ids |->
        IF ~hit(x) THEN rows[x]
        ELSE IF RowAt(new(x)) \ {x} # {} THEN Nothing
        ELSE [rows[x] EXCEPT !.path = new(x)]]

\* A directory cannot be moved into itself: the operation fails until it is parked.
Rename(job) ==
    LET from == rows[job.id].path IN
    IF from # job.path /\ Within(from, job.path) /\ OnDisk(from)
      THEN disk' = WithDirs(Dirs(ParentOf(job.path))) /\ UNCHANGED rows
      ELSE MoveTree(from, job.path) /\ Rewrite(from, job.path)

\* Does a retry lose its place to others, and does one of the two rename?
Crossed(job, others) == \E other \in others : "rename" \in {job.kind, other.kind}

\* The operations of a row that goes go with it.
Execute ==
    /\ ops # <<>>
    /\ LET job == Head(ops) IN
         /\ \/ job.kind = "mkdir" /\ MakeDir(job)
            \/ job.kind = "download" /\ Download(job)
            \/ job.kind = "rename" /\ Rename(job)
         /\ behind' = (behind \/ Crossed(job, waiting))
    /\ ops' = Only(Tail(ops), {other \in ToSet(ops) : rows'[other.id] # Nothing})
    /\ waiting' = {other \in waiting : rows'[other.id] # Nothing}
    /\ UNCHANGED <<remote, feed, faults>>

\* A failed operation is due again some seconds later, behind what is due by then.
ExecuteFails ==
    /\ ops # <<>> /\ faults < MaxFaults /\ faults' = faults + 1
    /\ ops' = Tail(ops) /\ waiting' = waiting \cup {Head(ops)}
    /\ UNCHANGED <<remote, feed, rows, disk, behind>>

DueAgain(job) ==
    /\ job \in waiting
    /\ ops' = Append(ops, job) /\ waiting' = waiting \ {job}
    /\ behind' = (behind \/ Crossed(job, ToSet(ops)))
    /\ UNCHANGED <<remote, feed, rows, disk, faults>>

-----------------------------------------------------------------------------
UserStep ==
    \/ \E x \in Ids, in \in Folders \cup {Root} : Create(x, in) \/ Relocate(x, in)
    \/ \E x \in Files : Touch(x)

DaemonStep ==
    \/ \E ids \in SUBSET changed : Fetch(ids)
    \/ \E s \in delta : Apply(s) \/ LookUpFails(s)
    \/ \E job \in waiting : DueAgain(job)
    \/ Execute \/ ExecuteFails \/ Restart

Next == UserStep \/ DaemonStep

Spec == Init /\ [][Next]_vars

-----------------------------------------------------------------------------
TypeOK ==
    /\ \A x \in Ids : Exists(x) => drive[x].parent \in Folders \cup {Root}
    /\ \A f \in Folders : cache[f] # Nothing => cache[f] \in Seq(1..MaxChanges)
    /\ \A x \in Ids : rows[x] # Nothing => rows[x].path \in Seq(1..MaxChanges)
    /\ \A x, y \in Ids : rows[x] # Nothing /\ rows[y] # Nothing /\ rows[x].path = rows[y].path => x = y
    /\ \A path \in DOMAIN disk \ {Top} : ParentOf(path) \in DOMAIN disk /\ disk[ParentOf(path)] = "dir"
    /\ changed \subseteq Ids /\ lost \subseteq Ids /\ faults \in 0..MaxFaults

Mirrored ==
    /\ DOMAIN disk = {Top} \cup {PathOf[x] : x \in {y \in Ids : Exists(y)}}
    /\ \A x \in Files : Exists(x) => disk[PathOf[x]] = [id |-> x, rev |-> drive[x].rev]
    /\ \A x \in Ids : Exists(x) => rows[x] # Nothing /\ rows[x].path = PathOf[x]

\* However Drive orders and splits the changes, whatever operation fails and whenever the
\* daemon restarts: at rest the local tree and the rows mirror Drive, and no emptied
\* directory is left; unless a change was dropped (lost, masked), a user's move outran the
\* daemon or a retry its turn (behind), or a path in the cache is outdated (stale).
RestMeansMirrored ==
    AtRest /\ lost = {} /\ masked = {} /\ ~behind /\ ~stale => Mirrored

\* Also when changes were dropped: where a row says that a file is, it is.
RowsMatchDisk ==
    AtRest /\ ~behind /\ ~stale =>
        \A x \in Files : rows[x] # Nothing => Holds(rows[x].path, x, rows[x].rev)

\* sync-model.md: remote folder renames converge however Drive orders or splits the
\* underlying change events.  They do not when a file in the folder was edited or renamed
\* too before the next poll.
RenamesConverge == AtRest /\ lost = {} /\ ~behind /\ ~stale => Mirrored
=============================================================================
