----------------------------- MODULE Transfers -----------------------------
(***************************************************************************)
(* What one operation does to Drive and to the disk (daemon/runtime.rs,    *)
(* engine/*.rs, drive/metadata.rs): a chain of Drive requests, runs of     *)
(* rclone and local steps, between any two of which the users act on Drive *)
(* and on the disk, and at any of which the process may die.               *)
(*                                                                         *)
(* The dispatcher runs one operation at a time; which are due, and when    *)
(* they are tried again, is Dispatcher's subject, and how changes become   *)
(* operations that of FileSync and FolderSync.  Here an operation is begun *)
(* whenever row, disk and Drive call for it.  There is one folder, Sub,    *)
(* below the root.  A content is [of, v]: the file it belongs to and its   *)
(* version, numbered in the order in which they are made.                  *)
(***************************************************************************)
EXTENDS DriveClient, FiniteSets, FiniteSetsExt

CONSTANTS
    Names,      \* names of files
    FirstName,  \* the one both files have here at first
    Setups,     \* engine, way to delete (remote_deletes), is file 1 the user's own?,
                \* what Drive calls it at first
    MaxIds,     \* bound: Drive ids
    MaxActs     \* bound: what the users do

ASSUME TransfersAssumption ==
    /\ Setups \subseteq {"rclone", "http"} \X {"trash", "permanent"} \X BOOLEAN \X Names
    /\ FirstName \in Names
    /\ MaxIds \in Nat \ {0} /\ MaxActs \in Nat

VARIABLES
    engine, mode, owned,
    obj,        \* Drive: id -> [kind, name, parents, body, live]
    rows,       \* sync_item of each file: [state, id, path, body]
    dirRow,     \* remote_id of the row of the folder Sub; 0: none
    disk,       \* local path -> content
    staging,    \* what is in .air-drive-partial
    op,         \* the operation in progress and how far it is
    up,         \* is the daemon running?
    acts,       \* what the users did so far
    disturbed,  \* ghost: did the names on Drive change under an operation, or collide?
    overtaken,  \* ghost: files somebody touched locally during an operation on them
    unheard,    \* ghost: was the answer to a creation ever lost?
    strayed     \* ghost: did users hide from rclone a file the daemon put on Drive?

choice == <<engine, mode, owned>>
local  == <<rows, dirRow, disk, staging>>
vars   == <<client, choice, obj, local, op, up, acts, disturbed, overtaken, unheard, strayed>>

-----------------------------------------------------------------------------
\* Two files: 1 synced, perhaps owned by somebody else, 2 new, in Sub.
Files == 1..2
Guest == 3              \* the file a user may add on Drive

Root    == 0
Ids     == 1..MaxIds
Path    == [dir : {"", "sub"}, name : Names]
At(d, n) == [dir |-> d, name |-> n]

Nothing == [of |-> 0, v |-> 0]
Torn    == [of |-> 0, v |-> 1]
Content == [of : Files \cup {Guest}, v : 0..MaxActs + 1]

NoObject == [kind |-> "none", name |-> "", parents |-> {}, body |-> Nothing, live |-> FALSE]
File(n, p, b) == [kind |-> "file", name |-> n, parents |-> {p}, body |-> b, live |-> TRUE]
Deleted  == [NoObject EXCEPT !.kind = "deleted"]    \* an id is not used again
SubFolder == [kind |-> "folder", name |-> "sub", parents |-> {Root}, body |-> Nothing, live |-> TRUE]

Idle == [kind |-> "none", f |-> 0, at |-> "none", path |-> At("", ""), hash |-> Nothing,
         folder |-> Root, last |-> 0, found |-> 0, in |-> {}, name |-> "", bytes |-> Nothing]

Http   == {"list", "post", "meta", "parents", "move", "patch", "create", "bytes",
           "remove", "memberships", "unlink"}
Rclone == {"copy", "probe", "fetch"}
Local  == {"read", "persist", "fill", "promote", "hash", "link", "record", "settle", "drop"}

TypeOK ==
    /\ ClientTypeOK
    /\ \E s \in Setups : choice = <<s[1], s[2], s[3]>>
    /\ up \in BOOLEAN
    /\ obj \in [Ids -> [kind : {"none", "file", "folder", "deleted"}, name : Names \cup {"", "sub"},
                        parents : SUBSET (Ids \cup {Root}), body : Content \cup {Nothing},
                        live : BOOLEAN]]
    /\ rows \in [Files -> [state : {"new", "synced", "skipped", "gone"}, id : Ids \cup {0},
                           path : Path, body : Content \cup {Nothing}]]
    /\ \A f \in Files : rows[f].state = "synced" => rows[f].id # 0
    /\ dirRow \in Ids \cup {0}
    /\ disk \in [Path -> Content \cup {Nothing, Torn}]
    /\ staging \in Content \cup {Nothing, Torn}
    /\ op.at \in Http \cup Rclone \cup Local \cup {"none"}
    /\ op.at \in Http <=> stage # "none"
    /\ op.kind # "none" => up

IsSub(i) == obj[i].kind = "folder" /\ obj[i].name = "sub"
PlaceOf(p) == IF p.dir = "" THEN {Root} ELSE {i \in Ids : IsSub(i)}
LiveFile(i) == obj[i].kind = "file" /\ obj[i].live

(* Where a name does not tell files apart: two files of one name in one    *)
(* folder, or another's file where a new one is about to go.               *)
SamePlace(i, j) ==
    /\ i # j /\ obj[i].kind = "file" /\ LiveFile(j)
    /\ obj[i].name = obj[j].name /\ obj[i].parents \cap obj[j].parents # {}

Taken ==
    \E f \in Files, i \in Ids :
        /\ rows[f].state = "new" /\ LiveFile(i) /\ obj[i].body.of # f
        /\ obj[i].name = rows[f].path.name /\ obj[i].parents \cap PlaceOf(rows[f].path) # {}

Ambiguous == Taken \/ \E i, j \in Ids : SamePlace(i, j)
(* The same, when both are not copies of one file.                         *)
Mixed == Taken \/ \E i, j \in Ids : SamePlace(i, j) /\ obj[i].body.of # obj[j].body.of

(* While the daemon was not looking file 1 was edited here and perhaps     *)
(* renamed there.                                                          *)
Init ==
    /\ ClientInit
    /\ \E s \in Setups : LET n == FirstName IN
          /\ engine = s[1] /\ mode = s[2] /\ owned = s[3]
          /\ obj = [i \in Ids |-> IF i = 1 THEN File(s[4], Root, [of |-> 1, v |-> 0]) ELSE NoObject]
          /\ rows = <<[state |-> "synced", id |-> 1, path |-> At("", n), body |-> [of |-> 1, v |-> 0]],
                      [state |-> "new", id |-> 0, path |-> At("sub", n), body |-> Nothing]>>
          /\ disk = [p \in Path |-> IF p = At("", n) THEN [of |-> 1, v |-> 1]
                                     ELSE IF p = At("sub", n) THEN [of |-> 2, v |-> 0] ELSE Nothing]
    /\ dirRow = 0 /\ staging = Nothing /\ op = Idle /\ up = TRUE /\ acts = 0
    /\ disturbed = Ambiguous /\ overtaken = {} /\ unheard = FALSE /\ strayed = FALSE

-----------------------------------------------------------------------------
\* Steps of an operation.

Continue(o) == op' = o /\ IF o.at \in Http THEN Open ELSE Close
Go(place)   == Continue([op EXCEPT !.at = place])
(* The same, when nothing but the file and its path still matters.         *)
GoOn(place) == Continue([Idle EXCEPT !.kind = op.kind, !.f = op.f, !.path = op.path,
                                     !.hash = op.hash, !.at = place])

Exists(o) == o.kind \in {"file", "folder"}

Row    == rows[op.f]
Target == obj[Row.id]
SetRow(r) == rows' = [rows EXCEPT ![op.f] = r]

OnlyDrive == UNCHANGED local
OnlyRow   == UNCHANGED <<obj, dirRow, disk, staging>>

Fresh == CHOOSE i \in Ids : obj[i] = NoObject /\ \A j \in 1..i - 1 : obj[j] # NoObject
HasFresh == \E i \in Ids : obj[i] = NoObject

(* rclone's only way to a file: a name below a folder.                     *)
Named(folder, n) ==
    {i \in Ids : obj[i].kind = "file" /\ obj[i].live /\ obj[i].name = n /\ folder \in obj[i].parents}

(* execute returns an error, and the operation is left for another time.   *)
(* A failed download is discarded, unless it was the write to the staging  *)
(* file (http) or the renaming of it that failed.  A deletion the user may *)
(* not make ends here, whatever the error: the file is skipped from now on.*)
KeepsStaging == op.kind # "download" \/ op.at = "promote" \/ (engine = "http" /\ op.at = "fill")

Fails ==
    /\ Continue(Idle)
    /\ IF op.at \in {"memberships", "unlink"} THEN SetRow([Row EXCEPT !.state = "skipped"])
                                              ELSE UNCHANGED rows
    /\ staging' = IF KeepsStaging THEN staging ELSE Nothing
    /\ UNCHANGED <<dirRow, disk>>

(* The attempt ended with this failure.                                    *)
FailsWith(failure) ==
    IF WorthRetrying(failure) THEN Retry /\ UNCHANGED <<op, local>> ELSE Fails

Ready(place) == op.at = place /\ stage = "ready"

(* The request was not carried out.                                        *)
Unserved ==
    /\ stage = "ready"
    /\ \E failure \in Failures \ {"not found"} : FailsWith(failure)
    /\ UNCHANGED <<obj, unheard>>

(* The request was carried out and its answer got lost on the way.         *)
AnswerLost == FailsWith("network")

Done == Continue(Idle)

-----------------------------------------------------------------------------
\* execute: which chain of steps an operation is.

Free == up /\ op.kind = "none"

Begin(o) == Continue(o) /\ UNCHANGED <<obj, rows, dirRow, disk, unheard>>

(* A file without id needs its folder first; the others are addressed by   *)
(* id, which rclone has to turn into a name.  A content whose fingerprint  *)
(* is the recorded one is not sent.                                        *)
BeginUpload(f) ==
    LET content == disk[rows[f].path] IN
    /\ Free /\ rows[f].state \in {"new", "synced"}
    /\ content \notin {Nothing, rows[f].body}
    /\ UNCHANGED staging
    /\ Begin([Idle EXCEPT !.kind = IF rows[f].id = 0 THEN "upload" ELSE "update",
                          !.f = f, !.path = rows[f].path, !.hash = content,
                          !.at = IF rows[f].id = 0 /\ rows[f].path.dir # "" THEN "list"
                                 ELSE IF engine = "http" THEN "read"
                                 ELSE IF rows[f].id # 0 THEN "meta" ELSE "copy"])

(* The poller found another content on Drive; stage_path.                  *)
BeginDownload(f) ==
    /\ Free /\ rows[f].state = "synced" /\ obj[rows[f].id].live
    /\ obj[rows[f].id].body # rows[f].body /\ disk[rows[f].path] = rows[f].body
    /\ UNCHANGED staging
    /\ Begin([Idle EXCEPT !.kind = "download", !.f = f, !.path = rows[f].path,
                          !.at = IF engine = "rclone" THEN "meta" ELSE "bytes"])

BeginRename(f) ==
    /\ Free /\ rows[f].state = "synced" /\ disk[rows[f].path] = Nothing
    /\ UNCHANGED staging
    /\ \E p \in Path :
          /\ disk[p].of = f /\ \A g \in Files : rows[g].state # "gone" => rows[g].path # p
          /\ Begin([Idle EXCEPT !.kind = "rename", !.f = f, !.path = p,
                                !.at = IF p.dir = "" THEN "parents" ELSE "list"])

(* A file that has no row, or loses it, is for the next walk to find.      *)
RenameUnsynced(f) ==
    /\ Free /\ rows[f].state = "new" /\ disk[rows[f].path] = Nothing
    /\ rows' = [rows EXCEPT ![f].state = "gone"]
    /\ UNCHANGED <<client, obj, dirRow, disk, staging, op, unheard>>

BeginDelete(f) ==
    /\ Free /\ rows[f].state = "synced" /\ \A p \in Path : disk[p].of # f
    /\ UNCHANGED staging
    /\ Begin([Idle EXCEPT !.kind = "delete", !.f = f, !.path = rows[f].path, !.at = "remove"])

(* CreateDirRemote, for the folder of the new file.                        *)
BeginMkdir ==
    /\ Free /\ dirRow = 0 /\ UNCHANGED staging
    /\ Begin([Idle EXCEPT !.kind = "mkdir", !.f = 2, !.path = rows[2].path, !.at = "list"])

-----------------------------------------------------------------------------
\* ensure_remote_folder.

Children == {i \in Ids : obj[i].live /\ Root \in obj[i].parents}
Unlisted == {i \in Children : i > op.last}

(* Mutant: the first page is taken for the whole list.                     *)
FirstPageOnly == TRUE

LastPage == Cardinality(Unlisted) <= 1

(* One page of list_children; a page holds one entry.                      *)
ServeList ==
    /\ Ready("list")
    /\ LET first == IF Unlisted = {} THEN 0 ELSE Min(Unlisted)
           found == IF op.found = 0 /\ first # 0 /\ IsSub(first) THEN first ELSE op.found
       IN  Continue([op EXCEPT !.last = IF LastPage THEN 0 ELSE first,
                               !.found = found,
                               !.folder = IF LastPage THEN found ELSE Root,
                               !.at = IF ~LastPage THEN "list"
                                      ELSE IF found # 0 THEN "persist" ELSE "post"])
    /\ UNCHANGED <<obj, unheard>> /\ OnlyDrive

(* create_folder.                                                          *)
ServePost ==
    /\ Ready("post") /\ HasFresh
    /\ obj' = [obj EXCEPT ![Fresh] = SubFolder]
    /\ \/ Continue([op EXCEPT !.folder = Fresh, !.at = "persist"]) /\ OnlyDrive /\ UNCHANGED unheard
       \/ AnswerLost /\ unheard' = TRUE

Persist ==
    /\ op.at = "persist"
    /\ dirRow' = op.folder
    /\ Continue(CASE op.kind = "mkdir"  -> Idle
                  [] op.kind = "rename" -> [op EXCEPT !.at = "parents", !.found = 0]
                  [] OTHER -> [op EXCEPT !.at = IF engine = "rclone" THEN "copy" ELSE "read", !.found = 0])
    /\ UNCHANGED <<obj, rows, disk, staging, unheard>>

-----------------------------------------------------------------------------
\* Upload and update.

(* Mutant: the file is addressed by the name its row gives it.             *)
SpotByRow(i) == [op EXCEPT !.folder = IF Root \in obj[i].parents THEN Root ELSE dirRow,
                           !.name = Row.path.name]

Spot(i) == [op EXCEPT !.folder = Min(obj[i].parents), !.name = obj[i].name]

(* get_file_raw: where the file is on Drive, for rclone to address it.     *)
ServeMeta ==
    /\ Ready("meta")
    /\ IF ~Exists(Target) THEN FailsWith("not found")
       ELSE IF Target.parents = {} THEN Fails
       ELSE Continue([Spot(Row.id) EXCEPT !.at = IF op.kind = "download" THEN "fetch" ELSE "copy"])
            /\ OnlyDrive
    /\ UNCHANGED <<obj, unheard>>

DestName == IF op.kind = "upload" THEN op.path.name ELSE op.name

(* Mutant: the file is created, as the http engine does it.                *)
CopiesAnew ==
    /\ disk[op.path] # Nothing /\ HasFresh
    /\ obj' = [obj EXCEPT ![Fresh] = File(DestName, op.folder, disk[op.path])]

(* rclone copyto, reading the file as it is now.  It may fail before or    *)
(* after the copy.                                                         *)
Copies ==
    /\ disk[op.path] # Nothing
    /\ LET there == Named(op.folder, DestName) IN
       \/ \E i \in there : obj' = [obj EXCEPT ![i].body = disk[op.path]]
       \/ there = {} /\ HasFresh /\ obj' = [obj EXCEPT ![Fresh] = File(DestName, op.folder, disk[op.path])]

RunCopy ==
    /\ op.at = "copy" /\ Copies
    /\ Go("probe") /\ OnlyDrive /\ UNCHANGED unheard

(* Mutant: rclone's exit status is not looked at.                          *)
CopyFailsUnseen ==
    /\ op.at = "copy"
    /\ Copies \/ UNCHANGED obj
    /\ Go("probe") /\ OnlyDrive /\ UNCHANGED unheard

CopyFails ==
    /\ op.at = "copy"
    /\ Copies \/ UNCHANGED obj
    /\ Fails /\ UNCHANGED unheard

(* rclone lsjson: what is there under that name?  An update only needs the *)
(* answer to parse.                                                        *)
RunProbe ==
    /\ op.at = "probe"
    /\ \/ \E i \in Named(op.folder, DestName) :
             /\ Continue(IF op.kind = "upload" THEN [op EXCEPT !.found = i, !.at = "link"]
                                               ELSE [Idle EXCEPT !.kind = op.kind, !.f = op.f,
                                                    !.path = op.path, !.hash = op.hash, !.at = "record"])
             /\ OnlyDrive
       \/ Fails
    /\ UNCHANGED <<obj, unheard>>

(* The http engine reads the whole file first.                             *)
Read ==
    /\ op.at = "read"
    /\ IF disk[op.path] = Nothing THEN Fails
       ELSE /\ Continue([op EXCEPT !.bytes = disk[op.path],
                                   !.at = IF op.kind = "upload" THEN "create" ELSE "patch"])
            /\ OnlyDrive
    /\ UNCHANGED <<obj, unheard>>

ServeCreate ==
    /\ Ready("create") /\ HasFresh
    /\ obj' = [obj EXCEPT ![Fresh] = File(op.path.name, op.folder, op.bytes)]
    /\ \/ Continue([op EXCEPT !.found = Fresh, !.at = "link"]) /\ OnlyDrive /\ UNCHANGED unheard
       \/ AnswerLost /\ unheard' = TRUE

ServePatch ==
    /\ Ready("patch") /\ UNCHANGED unheard
    /\ IF ~Exists(Target) THEN FailsWith("not found") /\ UNCHANGED obj
       ELSE /\ obj' = [obj EXCEPT ![Row.id].body = op.bytes]
            /\ \/ GoOn("record") /\ OnlyDrive
               \/ AnswerLost

(* set_remote_id, then update_fingerprint with what was hashed at first.   *)
Link ==
    /\ op.at = "link" /\ GoOn("record")
    /\ SetRow([Row EXCEPT !.id = op.found, !.state = "synced"])
    /\ UNCHANGED unheard /\ OnlyRow

Record ==
    /\ op.at = "record" /\ Done
    /\ SetRow([Row EXCEPT !.body = op.hash])
    /\ UNCHANGED unheard /\ OnlyRow

-----------------------------------------------------------------------------
\* Download: stage the bytes, then rename the staged file into place.

BeginFill(i) ==
    /\ staging' = Torn
    /\ Continue([op EXCEPT !.bytes = obj[i].body, !.at = "fill"])
    /\ UNCHANGED <<rows, dirRow, disk>>

RunFetch ==
    /\ op.at = "fetch"
    /\ \/ \E i \in Named(op.folder, op.name) : BeginFill(i)
       \/ Fails
    /\ UNCHANGED <<obj, unheard>>

ServeBytes ==
    /\ Ready("bytes")
    /\ IF ~Exists(Target) THEN FailsWith("not found") ELSE BeginFill(Row.id)
    /\ UNCHANGED <<obj, unheard>>

Fill ==
    /\ op.at = "fill"
    /\ staging' = op.bytes
    /\ GoOn("promote")
    /\ UNCHANGED <<obj, rows, dirRow, disk, unheard>>

(* Mutant: what rclone's exit status or the write said is not looked at.   *)
FillFailsUnseen == op.at = "fill" /\ Go("promote") /\ UNCHANGED <<obj, local, unheard>>

FillFails == op.at = "fill" /\ Fails /\ UNCHANGED <<obj, unheard>>

Promote ==
    /\ op.at = "promote"
    /\ disk' = [disk EXCEPT ![op.path] = staging] /\ staging' = Nothing
    /\ GoOn("hash")
    /\ UNCHANGED <<obj, rows, dirRow, unheard>>

PromoteFails == op.at = "promote" /\ Fails /\ UNCHANGED <<obj, unheard>>

(* compute_local, update_fingerprint: of the file as it is now.            *)
Hash ==
    /\ op.at = "hash"
    /\ IF disk[op.path] = Nothing THEN Fails
       ELSE Done /\ SetRow([Row EXCEPT !.body = disk[op.path]]) /\ UNCHANGED <<dirRow, disk, staging>>
    /\ UNCHANGED <<obj, unheard>>

-----------------------------------------------------------------------------
\* Rename and delete, by id.

ServeParents ==
    /\ Ready("parents")
    /\ IF ~Exists(Target) THEN FailsWith("not found")
       ELSE Continue([op EXCEPT !.in = Target.parents, !.at = "move"]) /\ OnlyDrive
    /\ UNCHANGED <<obj, unheard>>

(* Mutant: addParents without removeParents.                               *)
AlsoIn(parents) == parents \cup {op.folder}

Moved(parents) == IF op.folder \in op.in THEN parents ELSE (parents \ op.in) \cup {op.folder}

ServeMove ==
    /\ Ready("move") /\ UNCHANGED unheard
    /\ IF ~Exists(Target) THEN FailsWith("not found") /\ UNCHANGED obj
       ELSE /\ obj' = [obj EXCEPT ![Row.id].parents = Moved(@), ![Row.id].name = op.path.name]
            /\ \/ GoOn("settle") /\ OnlyDrive
               \/ AnswerLost

(* set_relative_path.                                                      *)
Settle ==
    /\ op.at = "settle" /\ Done
    /\ SetRow([Row EXCEPT !.path = op.path])
    /\ UNCHANGED unheard /\ OnlyRow

(* delete_remote; Drive refuses it for a file somebody else owns.          *)
ServeRemove ==
    /\ Ready("remove") /\ UNCHANGED unheard
    /\ CASE ~Exists(Target) -> FailsWith("not found") /\ UNCHANGED obj
         [] Exists(Target) /\ ~owned /\ Row.id = 1 -> Go("memberships") /\ OnlyDrive /\ UNCHANGED obj
         [] OTHER ->
            /\ obj' = [obj EXCEPT ![Row.id] = IF mode = "trash" THEN [@ EXCEPT !.live = FALSE] ELSE Deleted]
            /\ (GoOn("drop") /\ OnlyDrive) \/ AnswerLost

(* remove_from_my_drive: every parent there is, or nothing to do.          *)
ServeMemberships ==
    /\ Ready("memberships")
    /\ CASE ~Exists(Target) -> FailsWith("not found")
         [] Exists(Target) /\ Target.parents = {} -> Go("drop") /\ OnlyDrive
         [] OTHER -> Continue([op EXCEPT !.in = Target.parents, !.at = "unlink"]) /\ OnlyDrive
    /\ UNCHANGED <<obj, unheard>>

ServeUnlink ==
    /\ Ready("unlink") /\ UNCHANGED unheard
    /\ IF ~Exists(Target) THEN FailsWith("not found") /\ UNCHANGED obj
       ELSE /\ obj' = [obj EXCEPT ![Row.id].parents = @ \ op.in]
            /\ (GoOn("drop") /\ OnlyDrive) \/ AnswerLost

Drop ==
    /\ op.at = "drop" /\ Done
    /\ SetRow([Row EXCEPT !.state = "gone"])
    /\ UNCHANGED unheard /\ OnlyRow

-----------------------------------------------------------------------------
\* The users.

Act == acts < MaxActs /\ acts' = acts + 1

OnDrive ==
    /\ Act
    /\ UNCHANGED <<client, choice, local, op, up, overtaken, unheard>>

DriveEdits == \E i \in Ids :
    /\ obj[i].kind = "file" /\ obj[i].live /\ OnDrive
    /\ obj' = [obj EXCEPT ![i].body.v = acts + 2]

DriveRenames == \E i \in Ids : \E n \in Names \ {obj[i].name} :
    /\ obj[i].kind = "file" /\ obj[i].live /\ OnDrive
    /\ obj' = [obj EXCEPT ![i].name = n]

DriveMoves == \E i \in Ids : \E p \in {Root} \cup {j \in Ids : obj[j].kind = "folder"} :
    /\ obj[i].kind = "file" /\ obj[i].live /\ p \notin obj[i].parents /\ OnDrive
    /\ obj' = [obj EXCEPT ![i].parents = {p}]

DriveTrashes == \E i \in Ids :
    /\ obj[i].kind = "file" /\ obj[i].live /\ OnDrive
    /\ obj' = [obj EXCEPT ![i].live = FALSE]

DriveDeletes == \E i \in Ids :
    /\ obj[i].kind = "file" /\ ~obj[i].live /\ OnDrive
    /\ obj' = [obj EXCEPT ![i] = Deleted]

DriveAdds ==
    /\ HasFresh /\ OnDrive
    /\ \/ \E n \in Names :
            /\ \A i \in Ids : obj[i].body.of # Guest
            /\ obj' = [obj EXCEPT ![Fresh] = File(n, Root, [of |-> Guest, v |-> acts + 2])]
       \/ /\ ~ \E i \in Ids : IsSub(i)
          /\ obj' = [obj EXCEPT ![Fresh] = SubFolder]

Locally ==
    /\ Act
    /\ overtaken' = overtaken \cup IF op.kind = "none" THEN {} ELSE {op.f}
    /\ UNCHANGED <<client, choice, obj, rows, dirRow, staging, op, up, unheard>>

EditsLocally == \E p \in Path :
    /\ disk[p] \notin {Nothing, Torn} /\ Locally
    /\ disk' = [disk EXCEPT ![p].v = acts + 2]

(* Not to where a row says, or is about to say, that another file is.      *)
MovesLocally == \E p, q \in Path :
    /\ disk[p] \notin {Nothing, Torn} /\ disk[q] = Nothing
    /\ \A f \in Files : rows[f].path # q
    /\ q # op.path
    /\ Locally
    /\ disk' = [disk EXCEPT ![p] = Nothing, ![q] = disk[p]]

DeletesLocally == \E p \in Path :
    /\ disk[p] # Nothing /\ Locally
    /\ disk' = [disk EXCEPT ![p] = Nothing]

-----------------------------------------------------------------------------
\* The process: killed at any moment, and started again.

Crash ==
    /\ up /\ up' = FALSE
    /\ op' = Idle /\ Close
    /\ UNCHANGED <<choice, obj, local, acts, overtaken, unheard>>

(* cleanup_orphans; a new bucket is full.                                  *)
Start ==
    /\ ~up /\ up' = TRUE
    /\ tokens' = Burst /\ staging' = Nothing
    /\ UNCHANGED <<stage, attempt, choice, obj, rows, dirRow, disk, op, acts, overtaken, unheard>>

Pace(step) == step /\ UNCHANGED <<choice, obj, local, op, up, acts, overtaken, unheard>>

BeginStep ==
    \/ \E f \in Files : \/ BeginUpload(f) \/ BeginDownload(f) \/ BeginRename(f)
                        \/ RenameUnsynced(f) \/ BeginDelete(f)
    \/ BeginMkdir

OpStep ==
    \/ Unserved
    \/ ServeList \/ ServePost \/ Persist
    \/ ServeMeta \/ RunCopy \/ CopyFails \/ RunProbe \/ Read \/ ServeCreate \/ ServePatch
    \/ Link \/ Record
    \/ RunFetch \/ ServeBytes \/ Fill \/ FillFails \/ Promote \/ PromoteFails \/ Hash
    \/ ServeParents \/ ServeMove \/ Settle
    \/ ServeRemove \/ ServeMemberships \/ ServeUnlink \/ Drop

(* What was put on Drive and is not in its row yet, or no longer.          *)
Loose == \E i \in Ids : LiveFile(i) /\ \E f \in Files : obj[i].body.of = f /\ rows[f].id # i

Notice(meddled, hidden) ==
    /\ disturbed' = (disturbed \/ meddled \/ Ambiguous')
    /\ strayed' = (strayed \/ (engine = "rclone" /\ (meddled \/ hidden \/ Mixed')))

ByDaemon ==
    \/ (BeginStep \/ OpStep) /\ UNCHANGED <<choice, up, acts, overtaken>>
    \/ Pace(Acquire) \/ Pace(OtherRequest)
    \/ Crash \/ Start

Next ==
    \/ ByDaemon /\ Notice(FALSE, FALSE)
    \/ (EditsLocally \/ DeletesLocally \/ DriveEdits) /\ Notice(FALSE, FALSE)
    \/ MovesLocally /\ Notice(FALSE, Loose)
    \/ (DriveRenames \/ DriveMoves \/ DriveTrashes \/ DriveDeletes \/ DriveAdds) /\ Notice(op.kind # "none", Loose)

Spec == Init /\ [][Next]_vars

(* The runtime polls the dispatcher, a run of rclone and a request end     *)
(* (the client gives a request 60 s), and tokens drop in.                  *)
FairSpec ==
    /\ Spec
    /\ WF_<<client, op>>(OpStep /\ UNCHANGED up)
    /\ WF_client(Acquire)

-----------------------------------------------------------------------------
(* No file of the tree is ever half a download, whatever failed and        *)
(* whenever the process died (engine/staging.rs:3-8).                      *)
WholeFiles == \A p \in Path : disk[p] # Torn

(* Names tell files apart, and nobody changes them on Drive under an       *)
(* operation; with the http engine, which goes by id, that does not matter. *)
Calm == engine = "http" \/ ~disturbed

(* No file's content ends in another file, here or on Drive: with the http *)
(* engine whatever happens, with rclone, which addresses files by name, as *)
(* long as names tell files apart and nobody renames, moves or trashes     *)
(* files on Drive under an operation (engine/rclone.rs:340-437).           *)
NoCrossing ==
    Calm => \A f \in Files : rows[f].state \in {"new", "synced"} =>
        /\ (rows[f].id # 0 /\ Exists(obj[rows[f].id])) => obj[rows[f].id].body.of = f
        /\ disk[rows[f].path] # Nothing => disk[rows[f].path].of = f

(* When a content is recorded as synced it has reached Drive: what is      *)
(* there is that version or a later one, unless the file was touched       *)
(* locally during an operation on it (runtime.rs:285-360).                 *)
Reached(f) == LiveFile(rows[f].id) => obj[rows[f].id].body.v >= rows[f].body.v

RecordedReachedDrive ==
    [][\A f \in Files \ overtaken : Calm /\ rows'[f].body # rows[f].body => Reached(f)']_vars

(* However often folders are asked for, by whatever operations, in         *)
(* whatever pages Drive lists them and wherever the process dies, there is *)
(* one folder of a name (runtime.rs:560-606), provided no answer to a      *)
(* creation got lost and no user made one meanwhile.                       *)
OneFolderPerName == unheard \/ disturbed \/ Cardinality({i \in Ids : IsSub(i)}) <= 1

(* However often an upload or an update is run again, after the process    *)
(* died or a step failed when the file was on Drive and its id not yet in  *)
(* its row (runtime.rs:296-317; "re-runs (idempotently) next start" says   *)
(* daemon/mod.rs:320), the file is on Drive once.  So it is with rclone,   *)
(* which finds by its name the file it made, unless users take that file   *)
(* from its place before its row knows it, or put another's there; the     *)
(* http engine creates a second one.                                       *)
UploadedOnce ==
    engine = "rclone" /\ ~strayed /\ ~unheard =>
        \A f \in Files : Cardinality({i \in Ids : LiveFile(i) /\ obj[i].body.of = f}) <= 1

(* A file is never left in two folders, and one of the user's own never    *)
(* in none (engine/rclone.rs:439-476), unless somebody else moves it while *)
(* the daemon does.                                                        *)
InOneFolder ==
    ~disturbed => \A i \in Ids : LiveFile(i) =>
        /\ Cardinality(obj[i].parents) <= 1
        /\ obj[i].parents = {} => ~owned /\ i = 1

(* Every operation ends, done or failed, however long Drive is out of      *)
(* reach (drive/http.rs:337-365).                                          *)
EveryOpEnds == op.kind # "none" ~> op.kind = "none"
=============================================================================
