-------------------------- MODULE TransfersProofs --------------------------
(***************************************************************************)
(* Proofs about Transfers, for every set of names, every setup and every   *)
(* bound on ids and acts.  First TInv, the typed invariant: what is where, *)
(* that the rows are sound and their paths apart, at which steps each      *)
(* operation may be, with which engine, for what row, and what it has      *)
(* found out by then.  A content is known if it was made by now, so that   *)
(* nothing torn is.  Then whose content is where, what has reached Drive,  *)
(* and in which folders things are.  Five invariants, beside TInv:         *)
(*                                                                         *)
(*   Sighted    a collision of names is noticed, and rclone finds a file   *)
(*              where the operation believes it;                           *)
(*   Uncrossed  every content, on Drive, here and on its way, is that of   *)
(*              the file it is with;                                       *)
(*   Delivers   how far the content of an operation has come;              *)
(*   Single     the one folder has been seen or is still to be listed;     *)
(*   Housed     every file is in one folder, and the move knows the old.   *)
(***************************************************************************)
EXTENDS Transfers, WellFoundedInduction, FiniteSetTheorems, TLAPS

-----------------------------------------------------------------------------
(* What is where.  A content that exists anywhere was made by now.         *)
Known    == [of : Files \cup {Guest}, v : 0..acts + 1]
Texts    == Names \cup {"", "sub"}
Parents  == SUBSET (Ids \cup {Root})
AFile    == [kind : {"file"}, name : Texts, parents : Parents, body : Known, live : BOOLEAN]
Objects  == {NoObject, Deleted, SubFolder} \cup AFile
RowTable == [state : {"new", "synced", "skipped", "gone"}, id : Ids \cup {0}, path : Path,
             body : Known \cup {Nothing}]
Kinds    == {"none", "mkdir", "upload", "update", "download", "rename", "delete"}
Places   == Http \cup Rclone \cup Local \cup {"none"}
Ops      == [kind : Kinds, f : Files \cup {0}, at : Places, path : Path \cup {At("", "")},
             hash : Known \cup {Nothing}, folder : Ids \cup {Root}, last : Ids \cup {0},
             found : Ids \cup {0}, in : Parents, name : Texts, bytes : Known \cup {Nothing}]

Typed ==
    /\ \E s \in Setups : choice = <<s[1], s[2], s[3]>>
    /\ obj \in [Ids -> Objects]
    /\ rows \in [Files -> RowTable]
    /\ dirRow \in Ids \cup {0}
    /\ disk \in [Path -> Known \cup {Nothing}]
    /\ staging \in Known \cup {Nothing, Torn}
    /\ op \in Ops
    /\ up \in BOOLEAN
    /\ acts \in 0..MaxActs

Requests == ClientTypeOK /\ (op.at \in Http <=> stage # "none")

FileOrGone(i) == obj[i].kind \in {"file", "deleted"}

RowsSound ==
    \A f \in Files :
        /\ rows[f].state = "new" => rows[f].id = 0
        /\ rows[f].state = "synced" => rows[f].id # 0
        /\ rows[f].id # 0 => FileOrGone(rows[f].id)

PathsApart ==
    \A f, g \in Files :
        f # g /\ rows[f].state # "gone" /\ rows[g].state # "gone" => rows[f].path # rows[g].path

(* The chains of steps that execute takes.                                 *)
InChain ==
    \/ op.kind = "none" /\ op.at = "none"
    \/ op.kind \in {"mkdir", "upload", "rename"} /\ op.at \in {"list", "post", "persist"}
    \/ op.kind \in {"upload", "update"} /\ op.at \in {"copy", "probe", "read", "record"}
    \/ op.kind = "upload" /\ op.at \in {"create", "link"}
    \/ op.kind = "update" /\ op.at = "patch"
    \/ op.kind \in {"update", "download"} /\ op.at = "meta"
    \/ op.kind = "download" /\ op.at \in {"fetch", "bytes", "fill", "promote", "hash"}
    \/ op.kind = "rename" /\ op.at \in {"parents", "move", "settle"}
    \/ op.kind = "delete" /\ op.at \in {"remove", "memberships", "unlink", "drop"}

ByEngine ==
    /\ op.at \in {"meta", "copy", "probe", "fetch"} => engine = "rclone"
    /\ op.at \in {"read", "create", "patch", "bytes"} => engine = "http"

(* The operation and the row it is about.                                  *)
OfRow ==
    op.kind # "none" =>
        /\ up /\ op.f \in Files /\ op.path \in Path
        /\ op.kind \in {"update", "download", "rename", "delete"} => rows[op.f].state = "synced"
        /\ op.kind = "upload" => rows[op.f].state = IF op.at = "record" THEN "synced" ELSE "new"
        /\ op.kind \in {"upload", "update", "download", "delete"} => op.path = rows[op.f].path
        /\ op.kind = "rename" => \A g \in Files : rows[g].state # "gone" => rows[g].path # op.path
        /\ op.at \in {"memberships", "unlink"} => ~owned /\ rows[op.f].id = 1

(* What it has found out on its way.                                       *)
OnItsWay ==
    /\ op.at \in {"list", "persist"} /\ op.found # 0 => IsSub(op.found)
    /\ op.at = "post" => op.found = 0
    /\ op.at = "persist" => op.folder # 0 /\ IsSub(op.folder)
    /\ op.kind = "upload" /\ op.at \in {"list", "post", "persist"} => op.path.dir = "sub"
    /\ op.kind = "upload" /\ op.at \in {"copy", "probe"} => op.folder \in PlaceOf(op.path)
    /\ op.at = "link" => op.found # 0 /\ FileOrGone(op.found)
    /\ op.at \in {"create", "patch", "fill"} => op.bytes \in Known
    /\ op.at = "promote" => staging \in Known

TInv == Typed /\ Requests /\ RowsSound /\ PathsApart /\ InChain /\ ByEngine /\ OfRow /\ OnItsWay

-----------------------------------------------------------------------------
\* Every set of numbers that is not empty has a smallest.
LEMMA Smallest ==
    ASSUME NEW S \in SUBSET Nat, S # {}
    PROVE  \E x \in S : \A y \in S : x <= y
<1> DEFINE Less == {pair \in Nat \X Nat : pair[1] < pair[2]}
<1>1. IsWellFoundedOn(Less, Nat)
  BY NatLessThanWellFounded DEF OpToRel
<1> HIDE DEF Less
<1>2. PICK x \in S : \A y \in S : <<y, x>> \notin Less
  BY <1>1, WFMin
<1>3. ASSUME NEW y \in S
      PROVE  x <= y
  <2>1. x \in Nat /\ y \in Nat /\ <<y, x>> \in Nat \X Nat
    OBVIOUS
  <2>2. <<y, x>> \notin Less
    BY <1>2
  <2>3. ~(y < x)
    BY <2>1, <2>2 DEF Less
  <2> QED BY <2>1, <2>3
<1> QED BY <1>3

(* Min, which finds the next entry of a listing and the folder that rclone *)
(* is to look in (engine/rclone.rs:340-437), is in the set and below the   *)
(* rest of it.                                                             *)
LEMMA MinIsSmallest ==
    ASSUME NEW S \in SUBSET Nat, S # {}
    PROVE  Min(S) \in S /\ \A y \in S : Min(S) <= y
BY Smallest DEF Min

\* The id of a new object on Drive is one that was never used.
LEMMA FreshIsFresh ==
    ASSUME HasFresh, MaxIds \in Nat
    PROVE  Fresh \in Ids /\ obj[Fresh] = NoObject
<1> DEFINE None == {i \in Ids : obj[i] = NoObject}
<1>1. None \in SUBSET Nat /\ None # {}
  BY DEF HasFresh, Ids
<1>2. PICK i \in None : \A j \in None : i <= j
  BY <1>1, Smallest
<1>3. \A j \in 1..i - 1 : obj[j] # NoObject
  BY <1>2 DEF Ids
<1>4. i \in Ids /\ obj[i] = NoObject
  OBVIOUS
<1> HIDE DEF None
<1>5. \E k \in Ids : obj[k] = NoObject /\ \A j \in 1..k - 1 : obj[j] # NoObject
  BY <1>3, <1>4
<1> QED BY <1>5 DEF Fresh

-----------------------------------------------------------------------------
\* Unless the users act, nothing is added to what may be where.
LEMMA SameSets ==
    ASSUME acts' = acts
    PROVE  /\ Known' = Known /\ Objects' = Objects /\ RowTable' = RowTable
           /\ Ops' = Ops
BY DEF Known, Objects, RowTable, Ops, AFile

\* What was made by now is a content in the sense of TypeOK.
LEMMA KnownContent ==
    ASSUME acts \in 0..MaxActs
    PROVE  Known \subseteq Content
BY TransfersAssumption DEF Known, Content

\* What no step does to Drive: an id keeps its kind until the file is deleted.
KindsKept ==
    \A i \in Ids :
        /\ obj[i].kind = "file" => obj'[i].kind \in {"file", "deleted"}
        /\ obj[i].kind \in {"folder", "deleted"} => obj'[i] = obj[i]

ObjMoves == obj' \in [Ids -> Objects'] /\ KindsKept
Aside == UNCHANGED <<choice, up, acts, overtaken>>

\* An object's kind tells which of the four sorts of objects it is.
LEMMA KindsOf ==
    ASSUME NEW o \in Objects
    PROVE  /\ o.kind \in {"none", "file", "folder", "deleted"}
           /\ o.kind = "none" => o = NoObject
           /\ o.kind = "deleted" => o = Deleted
           /\ o.kind = "folder" => o = SubFolder
           /\ o.kind = "file" => o \in AFile
           /\ NoObject.kind = "none" /\ Deleted.kind = "deleted" /\ SubFolder.kind = "folder"
<1>1. NoObject.kind = "none" /\ Deleted.kind = "deleted" /\ SubFolder.kind = "folder"
  BY DEF NoObject, Deleted, SubFolder
<1>2. o \in {NoObject, Deleted, SubFolder} \/ (o \in AFile /\ o.kind = "file")
  BY DEF Objects, AFile
<1> QED BY <1>1, <1>2

\* There is one sort of folder: what ensure_remote_folder made or a user.
LEMMA FolderIsSub ==
    ASSUME Typed, NEW i \in Ids
    PROVE  IsSub(i) <=> obj[i] = SubFolder
BY KindsOf DEF Typed, IsSub, SubFolder

\* A folder stays that folder, and an id that was a file's stays a file's.
LEMMA SubsStay ==
    ASSUME Typed, ObjMoves, NEW i \in Ids
    PROVE  /\ IsSub(i) => IsSub(i)'
           /\ FileOrGone(i) => FileOrGone(i)'
BY KindsOf DEF Typed, IsSub, ObjMoves, KindsKept, FileOrGone

(* A step that begins the next one opens a request exactly if that one     *)
(* needs it.                                                               *)
LEMMA Continues ==
    ASSUME NEW o, Continue(o), tokens \in 0..Burst
    PROVE  Requests'
BY DriveClientAssumption DEF Continue, Requests, Open, Close, ClientTypeOK, Stages

\* A request that is tried again leaves the client as it must be.
LEMMA Retries ==
    ASSUME Requests, stage = "ready", Retry, op' = op
    PROVE  Requests'
BY DriveClientAssumption DEF Retry, Requests, ClientTypeOK, Stages

\* What happens on Drive leaves the rows sound.
LEMMA RowsOnward ==
    ASSUME Typed, RowsSound, PathsApart, ObjMoves, rows' = rows
    PROVE  RowsSound' /\ PathsApart'
<1>1. ASSUME NEW f \in Files, rows[f].id # 0
      PROVE  FileOrGone(rows[f].id)'
  <2>1. rows[f].id \in Ids
    BY <1>1 DEF Typed, RowTable
  <2> QED BY <1>1, <2>1, SubsStay DEF RowsSound
<1>2. RowsSound'
  BY <1>1 DEF RowsSound
<1> QED BY <1>2 DEF PathsApart

\* The fields of the idle operation.
LEMMA IdleFields ==
    /\ Idle.kind = "none" /\ Idle.at = "none" /\ Idle.found = 0 /\ Idle.last = 0 /\ Idle.folder = Root
    /\ Idle \in Ops
BY DEF Idle, Ops, Kinds, Places, Parents, Texts, Root

\* Of an operation that has ended nothing more is to be said.
LEMMA IdleAgain ==
    ASSUME TInv, op' = Idle
    PROVE  InChain' /\ ByEngine' /\ OfRow' /\ OnItsWay'
BY IdleFields DEF InChain, ByEngine, OfRow, OnItsWay

\* A failed operation keeps the invariant: its row as it is, or skipped.
LEMMA FailsKeeps ==
    ASSUME TInv, Fails, op.kind # "none", ObjMoves, Aside
    PROVE  TInv'
<1>1. op' = Idle /\ dirRow' = dirRow /\ disk' = disk /\ Continue(Idle)
  BY DEF Fails, Continue
<1>2. op.f \in Files
  BY DEF TInv, OfRow
<1>3. staging' \in {staging, Nothing}
  BY DEF Fails
<1>4. \/ rows' = rows
      \/ /\ op.at \in {"memberships", "unlink"}
         /\ rows' = [rows EXCEPT ![op.f] = [rows[op.f] EXCEPT !.state = "skipped"]]
  BY DEF Fails, SetRow, Row
<1>5. /\ rows' \in [Files -> RowTable]
      /\ \A g \in Files : /\ rows'[g].id = rows[g].id /\ rows'[g].path = rows[g].path
                          /\ rows'[g].state # rows[g].state => /\ rows'[g].state = "skipped"
                                                               /\ rows[g].state # "gone"
                                                               /\ rows[g].state # "new"
  <2>1. CASE rows' = rows
    BY <2>1 DEF TInv, Typed
  <2>2. CASE /\ op.at \in {"memberships", "unlink"}
             /\ rows' = [rows EXCEPT ![op.f] = [rows[op.f] EXCEPT !.state = "skipped"]]
    <3>1. rows[op.f] \in RowTable
      BY <1>2 DEF TInv, Typed
    <3>2. rows[op.f].state = "synced"
      BY <2>2 DEF TInv, InChain, OfRow
    <3> DEFINE r == [rows[op.f] EXCEPT !.state = "skipped"]
    <3>3. r \in RowTable /\ r.id = rows[op.f].id /\ r.path = rows[op.f].path /\ r.state = "skipped"
      BY <3>1 DEF RowTable
    <3> HIDE DEF r
    <3>4. rows' = [rows EXCEPT ![op.f] = r]
      BY <2>2 DEF r
    <3> QED BY <1>2, <3>2, <3>3, <3>4 DEF TInv, Typed
  <2> QED BY <1>4, <2>1, <2>2
<1>6. Typed'
  BY <1>1, <1>3, <1>5, SameSets, IdleFields DEF TInv, Typed, ObjMoves, Aside, choice
<1>7. Requests'
  BY <1>1, Continues DEF TInv, Requests, ClientTypeOK
<1>8. RowsSound' /\ PathsApart'
  <2>1. ASSUME NEW f \in Files, rows'[f].id # 0
        PROVE  FileOrGone(rows[f].id)'
    <3>1. rows[f].id = rows'[f].id /\ rows[f].id \in Ids
      BY <1>5, <2>1 DEF TInv, Typed, RowTable
    <3>2. FileOrGone(rows[f].id)
      BY <2>1, <3>1 DEF TInv, RowsSound
    <3> QED BY <3>1, <3>2, SubsStay DEF TInv
  <2>2. RowsSound'
    BY <1>5, <2>1 DEF TInv, RowsSound
  <2>3. PathsApart'
    BY <1>5 DEF TInv, PathsApart
  <2> QED BY <2>2, <2>3
<1> QED BY <1>1, <1>6, <1>7, <1>8, IdleAgain DEF TInv

\* What the operation has found out stays true while Drive moves on.
LEMMA StillOnItsWay ==
    ASSUME TInv, ObjMoves, op' = op, staging' = staging, Known \subseteq Known'
    PROVE  OnItsWay'
<1> USE DEF TInv
<1>1. \A i \in Ids : /\ IsSub(i) => IsSub(i)'
                     /\ FileOrGone(i) => FileOrGone(i)'
  BY SubsStay
<1>2. \A p \in Path, i \in Ids \cup {Root} : i \in PlaceOf(p) => i \in PlaceOf(p)'
  BY <1>1 DEF PlaceOf
<1>3. op.found \in Ids \cup {0} /\ op.folder \in Ids \cup {Root}
  BY DEF Typed, Ops
<1>4. op.kind = "upload" => op.path \in Path
  BY DEF OfRow
<1> QED BY <1>1, <1>2, <1>3, <1>4 DEF OnItsWay, Root

\* A request tried again keeps the invariant.
LEMMA RetryKeeps ==
    ASSUME TInv, stage = "ready", Retry, UNCHANGED <<op, local>>, ObjMoves, Aside
    PROVE  TInv'
<1>1. Typed'
  BY SameSets DEF TInv, Typed, local, ObjMoves, Aside, choice
<1>2. Requests'
  BY Retries DEF TInv
<1>3. RowsSound' /\ PathsApart'
  BY RowsOnward DEF TInv, local
<1>4. InChain' /\ ByEngine' /\ OfRow'
  BY DEF TInv, InChain, ByEngine, OfRow, Aside, choice, local
<1>5. OnItsWay'
  BY SameSets, StillOnItsWay DEF local, Aside
<1> QED BY <1>1, <1>2, <1>3, <1>4, <1>5 DEF TInv

\* A failed request does, whether it is tried again or not.
LEMMA FailsWithKeeps ==
    ASSUME TInv, NEW failure, FailsWith(failure), stage = "ready", op.kind # "none", ObjMoves, Aside
    PROVE  TInv'
BY FailsKeeps, RetryKeeps DEF FailsWith

(* A step that changes neither row nor disk keeps the invariant, if the    *)
(* place it goes to is one of the chain.                                   *)
LEMMA StepKeeps ==
    ASSUME TInv, NEW o \in Ops, Continue(o), ObjMoves, Aside, UNCHANGED <<rows, disk>>,
           op.kind # "none", op.at # "record", o.kind = op.kind, o.f = op.f, o.path = op.path,
           o.at = "record" => op.kind = "update",
           o.at \in {"memberships", "unlink"} => ~owned /\ rows[op.f].id = 1,
           dirRow' \in Ids \cup {0}, staging' \in Known \cup {Nothing, Torn},
           InChain', ByEngine', OnItsWay'
    PROVE  TInv'
<1>1. op' = o /\ op.at # "none"
  BY DEF Continue, TInv, InChain
<1>2. Typed'
  BY <1>1, SameSets DEF TInv, Typed, ObjMoves, Aside, choice
<1>3. Requests'
  BY Continues DEF TInv, Requests, ClientTypeOK
<1>4. RowsSound' /\ PathsApart'
  BY RowsOnward DEF TInv
<1>5. OfRow'
  <2>1. op.kind = "upload" => rows[op.f].state = "new"
    BY DEF TInv, OfRow
  <2> QED BY <1>1, <2>1 DEF TInv, OfRow, Aside, choice
<1> QED BY <1>2, <1>3, <1>4, <1>5 DEF TInv

\* Going to a place changes nothing else of the operation.
LEMMA PlaceFields ==
    ASSUME NEW o \in Ops, NEW place \in Places
    PROVE  LET n == [o EXCEPT !.at = place] IN
           /\ n \in Ops /\ n.at = place
           /\ n.kind = o.kind /\ n.f = o.f /\ n.path = o.path /\ n.hash = o.hash
           /\ n.folder = o.folder /\ n.last = o.last /\ n.found = o.found /\ n.in = o.in
           /\ n.name = o.name /\ n.bytes = o.bytes
BY DEF Ops

\* Nor does going on with only the file and its path.
LEMMA GoOnFields ==
    ASSUME TInv, NEW place \in Places
    PROVE  LET n == [Idle EXCEPT !.kind = op.kind, !.f = op.f, !.path = op.path,
                                 !.hash = op.hash, !.at = place] IN
           /\ n \in Ops /\ n.at = place
           /\ n.kind = op.kind /\ n.f = op.f /\ n.path = op.path /\ n.hash = op.hash
           /\ n.found = 0 /\ n.folder = Root /\ n.bytes = Nothing
<1>1. op \in Ops
  BY DEF TInv, Typed
<1>2. Idle \in Ops
  BY IdleFields
<1> QED BY ZenonT(30), <1>1, <1>2 DEF Ops, Idle, Root

-----------------------------------------------------------------------------
(* An operation that is somewhere has a file, a path and a row, and the    *)
(* daemon is up.                                                           *)
LEMMA AtWork ==
    ASSUME TInv, op.at # "none"
    PROVE  /\ op.kind # "none" /\ op \in Ops /\ op.f \in Files /\ op.path \in Path
           /\ rows[op.f] \in RowTable /\ up
BY DEF TInv, InChain, OfRow, Typed

(* An operation that goes by id finds at that id a file, or that it is     *)
(* gone.                                                                   *)
LEMMA TargetKnown ==
    ASSUME TInv, op.kind \in {"update", "download", "rename", "delete"}
    PROVE  /\ Row.state = "synced" /\ Row.id \in Ids /\ Target \in Objects /\ FileOrGone(Row.id)
           /\ Exists(Target) => Target \in AFile /\ Target.kind = "file"
<1>1. op.f \in Files /\ Row.state = "synced" /\ Row \in RowTable
  BY DEF TInv, OfRow, Row, Typed
<1>2. Row.id \in Ids /\ FileOrGone(Row.id)
  BY <1>1 DEF TInv, RowsSound, Row, RowTable
<1>3. Target \in Objects
  BY <1>2 DEF TInv, Typed, Target
<1>4. Exists(Target) => Target.kind = "file"
  BY <1>2 DEF Exists, FileOrGone, Target, Row
<1>5. Exists(Target) => Target \in AFile
  BY <1>3, <1>4, KindsOf
<1> QED BY <1>1, <1>2, <1>3, <1>4, <1>5

\* A step that does not touch Drive moves nothing there.
LEMMA SameDrive ==
    ASSUME Typed, obj' = obj, acts' = acts
    PROVE  ObjMoves
BY KindsOf, SameSets DEF Typed, ObjMoves, KindsKept

\* A request that is not carried out keeps the invariant.
LEMMA UnservedKeeps ==
    ASSUME TInv, Unserved, Aside
    PROVE  TInv'
<1>1. op.kind # "none" /\ stage = "ready"
  BY DEF Unserved, TInv, Requests, InChain, Http
<1>2. ObjMoves
  BY SameDrive DEF Unserved, TInv, Aside
<1>3. PICK failure \in Failures \ {"not found"} : FailsWith(failure)
  BY DEF Unserved
<1> QED BY <1>1, <1>2, <1>3, FailsWithKeeps

(* list_children: the folder that was found is a folder                    *)
(* (runtime.rs:560-606).                                                   *)
LEMMA ListKeeps ==
    ASSUME TInv, ServeList, Aside
    PROVE  TInv'
<1> DEFINE first == IF Unlisted = {} THEN 0 ELSE Min(Unlisted)
           found == IF op.found = 0 /\ first # 0 /\ IsSub(first) THEN first ELSE op.found
           o == [op EXCEPT !.last = IF LastPage THEN 0 ELSE first,
                           !.found = found,
                           !.folder = IF LastPage THEN found ELSE Root,
                           !.at = IF ~LastPage THEN "list" ELSE IF found # 0 THEN "persist" ELSE "post"]
<1>1. op.at = "list" /\ Continue(o) /\ UNCHANGED <<obj, rows, dirRow, disk, staging>>
  BY DEF ServeList, Ready, OnlyDrive, local
<1>2. ObjMoves
  BY <1>1, SameDrive DEF TInv, Aside
<1>3. op \in Ops /\ op.kind \in {"mkdir", "upload", "rename"}
  BY <1>1, AtWork DEF TInv, InChain
<1>4. first \in Ids \cup {0}
  <2>1. Unlisted \in SUBSET Nat /\ Unlisted \subseteq Ids
    BY DEF Unlisted, Children, Ids
  <2>2. Unlisted # {} => Min(Unlisted) \in Unlisted
    BY <2>1, MinIsSmallest
  <2> QED BY <2>1, <2>2
<1>5. found \in Ids \cup {0} /\ (found # 0 => IsSub(found))
  <2>1. op.found \in Ids \cup {0} /\ (op.found # 0 => IsSub(op.found))
    BY <1>1, <1>3 DEF TInv, OnItsWay, Ops
  <2> QED BY <1>4, <2>1
<1> HIDE DEF first, found
<1>6. /\ o \in Ops /\ o.kind = op.kind /\ o.f = op.f /\ o.path = op.path /\ o.found = found
      /\ o.at \in {"list", "post", "persist"}
      /\ o.at = "persist" => found # 0 /\ o.folder = found
      /\ o.at = "post" => found = 0
  <2> DEFINE place == IF ~LastPage THEN "list" ELSE IF found # 0 THEN "persist" ELSE "post"
             folder == IF LastPage THEN found ELSE Root
             last == IF LastPage THEN 0 ELSE first
  <2>1. /\ place \in {"list", "post", "persist"}
        /\ place = "persist" => found # 0 /\ folder = found
        /\ place = "post" => found = 0
    OBVIOUS
  <2>2. place \in Places /\ folder \in Ids \cup {Root} /\ last \in Ids \cup {0}
    BY <2>1, <1>4, <1>5 DEF Places, Http, Local, Root
  <2>3. o = [op EXCEPT !.last = last, !.found = found, !.folder = folder, !.at = place]
    OBVIOUS
  <2> HIDE DEF place, folder, last, o
  <2> QED BY <1>3, <1>5, <2>1, <2>2, <2>3 DEF Ops
<1> HIDE DEF o
<1>7. op' = o
  BY <1>1 DEF Continue
<1>8. InChain' /\ ByEngine'
  BY <1>3, <1>6, <1>7 DEF InChain, ByEngine
<1>9. OnItsWay'
  <2>1. op.kind = "upload" => op.path.dir = "sub"
    BY <1>1 DEF TInv, OnItsWay
  <2> QED BY <1>1, <1>5, <1>6, <1>7, <2>1 DEF OnItsWay, IsSub
<1>10. staging' \in Known \cup {Nothing, Torn} /\ dirRow' \in Ids \cup {0}
  BY <1>1 DEF TInv, Typed
<1> QED BY <1>1, <1>2, <1>3, <1>6, <1>8, <1>9, <1>10, StepKeeps

\* One object changes: an unused id, or a file that stays one or goes.
LEMMA ObjSet ==
    ASSUME Typed, acts' = acts, NEW i \in Ids, NEW o \in Objects, obj' = [obj EXCEPT ![i] = o],
           obj[i].kind = "none" \/ (obj[i].kind = "file" /\ o.kind \in {"file", "deleted"})
    PROVE  ObjMoves
<1>1. obj' \in [Ids -> Objects']
  BY SameSets DEF Typed
<1>2. \A j \in Ids : obj'[j] = IF j = i THEN o ELSE obj[j]
  BY DEF Typed
<1> QED BY <1>1, <1>2, KindsOf DEF Typed, ObjMoves, KindsKept

\* A new file on Drive is a file.
LEMMA FileIs ==
    ASSUME NEW n \in Texts, NEW p \in Ids \cup {Root}, NEW b \in Known
    PROVE  /\ File(n, p, b) \in AFile /\ File(n, p, b) \in Objects
           /\ File(n, p, b).kind = "file" /\ File(n, p, b).name = n /\ File(n, p, b).parents = {p}
           /\ File(n, p, b).body = b /\ File(n, p, b).live = TRUE
BY DEF File, AFile, Objects, Parents

(* A file with another content, name or parents, or in the trash, is a     *)
(* file.                                                                   *)
LEMMA FileSet ==
    ASSUME NEW o \in AFile
    PROVE  /\ \A b \in Known : [o EXCEPT !.body = b] \in AFile
           /\ \A n \in Texts : [o EXCEPT !.name = n] \in AFile
           /\ \A p \in Parents : [o EXCEPT !.parents = p] \in AFile
           /\ [o EXCEPT !.live = FALSE] \in AFile
           /\ AFile \subseteq Objects
           /\ o.kind = "file" /\ o.body \in Known /\ o.parents \in Parents /\ o.name \in Texts
BY DEF AFile, Objects

\* A new object is at an unused id.
LEMMA FreshFile ==
    ASSUME Typed, acts' = acts, HasFresh, NEW o \in Objects, obj' = [obj EXCEPT ![Fresh] = o]
    PROVE  ObjMoves /\ Fresh \in Ids /\ obj[Fresh] = NoObject /\ obj'[Fresh] = o
<1>1. Fresh \in Ids /\ obj[Fresh] = NoObject
  BY FreshIsFresh, TransfersAssumption
<1>2. obj[Fresh].kind = "none"
  BY <1>1, KindsOf DEF Typed
<1>3. ObjMoves
  BY <1>1, <1>2, ObjSet
<1> QED BY <1>1, <1>3 DEF Typed

\* What rclone finds under a name are files that are there.
LEMMA NamedAre ==
    ASSUME Typed, NEW folder, NEW n, NEW i \in Named(folder, n)
    PROVE  i \in Ids /\ obj[i] \in AFile /\ obj[i].kind = "file" /\ obj[i].live /\ obj[i].name = n
           /\ folder \in obj[i].parents
BY KindsOf DEF Typed, Named

\* create_folder keeps the invariant.
LEMMA PostKeeps ==
    ASSUME TInv, ServePost, Aside
    PROVE  TInv'
<1>1. op.at = "post" /\ stage = "ready" /\ HasFresh /\ obj' = [obj EXCEPT ![Fresh] = SubFolder]
  BY DEF ServePost, Ready
<1>2. op \in Ops /\ op.kind \in {"mkdir", "upload", "rename"}
  BY <1>1, AtWork DEF TInv, InChain
<1>3. SubFolder \in Objects
  BY DEF Objects
<1>4. ObjMoves /\ Fresh \in Ids /\ obj'[Fresh] = SubFolder
  BY <1>1, <1>3, FreshFile DEF TInv, Aside
<1>5. CASE AnswerLost
  BY <1>1, <1>2, <1>4, <1>5, FailsWithKeeps DEF AnswerLost
<1>6. CASE Continue([op EXCEPT !.folder = Fresh, !.at = "persist"]) /\ OnlyDrive
  <2> DEFINE o == [op EXCEPT !.folder = Fresh, !.at = "persist"]
  <2>1. /\ o \in Ops /\ o.kind = op.kind /\ o.f = op.f /\ o.path = op.path /\ o.found = op.found
        /\ o.at = "persist" /\ o.folder = Fresh
    BY ZenonT(30), <1>2, <1>4 DEF Ops, Places, Local
  <2> HIDE DEF o
  <2>2. op' = o /\ Continue(o) /\ UNCHANGED <<rows, dirRow, disk, staging>>
    BY <1>6 DEF Continue, o, OnlyDrive, local
  <2>3. InChain' /\ ByEngine'
    BY <1>2, <2>1, <2>2 DEF InChain, ByEngine
  <2>4. OnItsWay'
    <3>1. op.kind = "upload" => op.path.dir = "sub"
      BY <1>1 DEF TInv, OnItsWay
    <3>2. Fresh # 0
      BY <1>4 DEF Ids
    <3>3. op.found = 0
      BY <1>1 DEF TInv, OnItsWay
    <3> QED BY <1>4, <2>1, <2>2, <3>1, <3>2, <3>3 DEF OnItsWay, IsSub, SubFolder
  <2>5. staging' \in Known \cup {Nothing, Torn} /\ dirRow' \in Ids \cup {0}
    BY <2>2 DEF TInv, Typed
  <2> QED BY <1>1, <1>2, <1>4, <2>1, <2>2, <2>3, <2>4, <2>5, StepKeeps
<1> QED BY <1>5, <1>6 DEF ServePost

\* So does recording the folder's id.
LEMMA PersistKeeps ==
    ASSUME TInv, Persist, Aside
    PROVE  TInv'
<1>1. op.at = "persist" /\ dirRow' = op.folder /\ UNCHANGED <<obj, rows, disk, staging>>
  BY DEF Persist
<1>2. op \in Ops /\ op.kind \in {"mkdir", "upload", "rename"}
  BY <1>1, AtWork DEF TInv, InChain
<1>3. ObjMoves
  BY <1>1, SameDrive DEF TInv, Aside
<1>4. op.folder \in Ids /\ IsSub(op.folder) /\ (op.kind = "upload" => op.path.dir = "sub")
  BY <1>1, <1>2 DEF TInv, OnItsWay, Ops, Root
<1>5. CASE op.kind = "mkdir"
  <2>1. op' = Idle /\ Continue(Idle)
    BY <1>1, <1>5 DEF Persist, Continue
  <2>2. Typed'
    BY <1>1, <1>4, <1>3, <2>1, SameSets, IdleFields DEF TInv, Typed, ObjMoves, Aside, choice
  <2>3. Requests'
    BY <2>1, Continues DEF TInv, Requests, ClientTypeOK
  <2>4. RowsSound' /\ PathsApart'
    BY <1>1, <1>3, RowsOnward DEF TInv
  <2> QED BY <2>1, <2>2, <2>3, <2>4, IdleAgain DEF TInv
<1>6. ASSUME op.kind # "mkdir",
             NEW a \in {"parents", "copy", "read"}, Continue([op EXCEPT !.at = a, !.found = 0]),
             a = "parents" <=> op.kind = "rename", a = "copy" => engine = "rclone",
             a = "read" => engine = "http"
      PROVE  TInv'
  <2> DEFINE o == [op EXCEPT !.at = a, !.found = 0]
  <2>1. /\ o \in Ops /\ o.kind = op.kind /\ o.f = op.f /\ o.path = op.path /\ o.found = 0
        /\ o.at = a /\ o.folder = op.folder
    <3>1. a \in Places
      BY DEF Places, Local, Http, Rclone
    <3> QED BY <1>2, <3>1 DEF Ops
  <2> HIDE DEF o
  <2>2. op' = o /\ Continue(o)
    BY <1>6 DEF Continue, o
  <2>3. InChain' /\ ByEngine'
    BY <1>2, <1>6, <2>1, <2>2 DEF InChain, ByEngine, Aside, choice
  <2>4. OnItsWay'
    <3>1. op.kind = "upload" => op.folder \in PlaceOf(op.path)
      BY <1>4 DEF PlaceOf
    <3>2. op.kind = "upload" => (op.folder \in PlaceOf(op.path))'
      BY <1>1, <2>1, <2>2, <3>1 DEF PlaceOf, IsSub
    <3> QED BY <1>6, <2>1, <2>2, <3>2 DEF OnItsWay
  <2>5. staging' \in Known \cup {Nothing, Torn} /\ dirRow' \in Ids \cup {0}
    BY <1>1, <1>4 DEF TInv, Typed
  <2> QED BY <1>1, <1>2, <1>3, <1>6, <2>1, <2>2, <2>3, <2>4, <2>5, StepKeeps
<1>7. engine \in {"rclone", "http"}
  BY TransfersAssumption DEF TInv, Typed, choice
<1> QED BY <1>1, <1>2, <1>5, <1>6, <1>7 DEF Persist

\* What is at a path is a content that was made by now, or nothing.
LEMMA PathKnown ==
    ASSUME Typed, NEW p \in Path
    PROVE  /\ p.dir \in {"", "sub"} /\ p.name \in Names /\ p.name \in Texts
           /\ disk[p] \in Known \cup {Nothing} /\ (disk[p] # Nothing => disk[p] \in Known)
BY DEF Typed, Path, Texts

\* get_file_raw keeps the invariant.
LEMMA MetaKeeps ==
    ASSUME TInv, ServeMeta, Aside
    PROVE  TInv'
<1>1. op.at = "meta" /\ stage = "ready" /\ obj' = obj
  BY DEF ServeMeta, Ready
<1>2. op \in Ops /\ op.kind \in {"update", "download"}
  BY <1>1, AtWork DEF TInv, InChain
<1>3. ObjMoves
  BY <1>1, SameDrive DEF TInv, Aside
<1>4. CASE ~Exists(Target)
  BY <1>1, <1>2, <1>3, <1>4, FailsWithKeeps DEF ServeMeta
<1>5. CASE Exists(Target) /\ Target.parents = {}
  BY <1>1, <1>2, <1>3, <1>5, FailsKeeps DEF ServeMeta
<1>6. CASE Exists(Target) /\ Target.parents # {}
  <2> DEFINE place == IF op.kind = "download" THEN "fetch" ELSE "copy"
             o == [Spot(Row.id) EXCEPT !.at = place]
  <2>1. Continue(o) /\ UNCHANGED <<rows, dirRow, disk, staging>>
    BY <1>6 DEF ServeMeta, OnlyDrive, local
  <2>2. Row.id \in Ids /\ Target \in AFile /\ Target = obj[Row.id]
    BY <1>2, <1>6, TargetKnown DEF Target
  <2>3. Min(Target.parents) \in Ids \cup {Root} /\ Target.name \in Texts
    <3>1. Target.parents \in SUBSET Nat /\ Target.parents \subseteq Ids \cup {Root}
      BY <2>2 DEF AFile, Parents, Ids, Root
    <3> QED BY <1>6, <2>2, <3>1, MinIsSmallest, FileSet
  <2>4. place \in Places /\ place \in {"fetch", "copy"} /\ (place = "fetch" <=> op.kind = "download")
    BY DEF Places, Rclone
  <2>5. /\ o \in Ops /\ o.kind = op.kind /\ o.f = op.f /\ o.path = op.path /\ o.at = place
    <3>1. Spot(Row.id) = [op EXCEPT !.folder = Min(Target.parents), !.name = Target.name]
      BY <2>2 DEF Spot
    <3> HIDE DEF place
    <3> QED BY <1>2, <2>3, <2>4, <3>1 DEF Ops
  <2> HIDE DEF o
  <2>6. op' = o
    BY <2>1 DEF Continue
  <2>7. InChain' /\ ByEngine'
    BY <1>1, <1>2, <2>4, <2>5, <2>6 DEF TInv, InChain, ByEngine, Aside, choice
  <2>8. OnItsWay'
    BY <1>2, <2>4, <2>5, <2>6 DEF OnItsWay
  <2>9. staging' \in Known \cup {Nothing, Torn} /\ dirRow' \in Ids \cup {0}
    BY <2>1 DEF TInv, Typed
  <2> QED BY <1>1, <1>2, <1>3, <2>1, <2>4, <2>5, <2>7, <2>8, <2>9, StepKeeps
<1> QED BY <1>4, <1>5, <1>6

\* The folder and the name that rclone is given are known ones.
LEMMA DestKnown ==
    ASSUME TInv, op.at \in {"copy", "probe"}
    PROVE  DestName \in Texts /\ op.folder \in Ids \cup {Root}
<1>1. op.path \in Path /\ op \in Ops
  BY AtWork
<1> QED BY <1>1, PathKnown DEF TInv, DestName, Ops

\* rclone copyto changes a file's content or makes a file, if anything.
LEMMA CopiesMove ==
    ASSUME TInv, op.at = "copy", Copies \/ UNCHANGED obj, Aside
    PROVE  ObjMoves
<1>1. op.path \in Path /\ op \in Ops /\ Typed /\ acts' = acts
  BY AtWork DEF TInv, Aside
<1>2. CASE UNCHANGED obj
  BY <1>1, <1>2, SameDrive
<1>3. CASE Copies
  <2>1. disk[op.path] \in Known
    BY <1>1, <1>3, PathKnown DEF Copies
  <2>2. CASE \E i \in Named(op.folder, DestName) : obj' = [obj EXCEPT ![i].body = disk[op.path]]
    <3>1. PICK i \in Named(op.folder, DestName) : obj' = [obj EXCEPT ![i].body = disk[op.path]]
      BY <2>2
    <3>2. i \in Ids /\ obj[i] \in AFile /\ obj[i].kind = "file"
      BY <1>1, NamedAre
    <3> DEFINE o == [obj[i] EXCEPT !.body = disk[op.path]]
    <3>3. o \in AFile /\ o \in Objects /\ o.kind = "file"
      BY <2>1, <3>2, FileSet DEF AFile
    <3>4. obj' = [obj EXCEPT ![i] = o]
      BY <3>1
    <3> HIDE DEF o
    <3> QED BY <1>1, <3>2, <3>3, <3>4, ObjSet
  <2>3. CASE HasFresh /\ obj' = [obj EXCEPT ![Fresh] = File(DestName, op.folder, disk[op.path])]
    <3>1. File(DestName, op.folder, disk[op.path]) \in Objects
      BY ZenonT(30), <2>1, DestKnown, FileIs
    <3> QED BY <1>1, <2>3, <3>1, FreshFile
  <2> QED BY <1>3, <2>2, <2>3 DEF Copies
<1> QED BY <1>2, <1>3

\* A successful copy keeps the invariant.
LEMMA RunCopyKeeps ==
    ASSUME TInv, RunCopy, Aside
    PROVE  TInv'
<1> DEFINE o == [op EXCEPT !.at = "probe"]
<1>1. op.at = "copy" /\ Copies /\ Continue(o) /\ UNCHANGED <<rows, dirRow, disk, staging>>
  BY DEF RunCopy, Go, OnlyDrive, local
<1>2. op \in Ops /\ op.kind \in {"upload", "update"}
  BY <1>1, AtWork DEF TInv, InChain
<1>3. ObjMoves
  BY <1>1, CopiesMove
<1>4. o \in Ops /\ o.kind = op.kind /\ o.f = op.f /\ o.path = op.path /\ o.at = "probe" /\ o.folder = op.folder
  BY <1>2, PlaceFields DEF Places, Rclone
<1> HIDE DEF o
<1>5. op' = o
  BY <1>1 DEF Continue
<1>6. InChain' /\ ByEngine'
  BY <1>1, <1>2, <1>4, <1>5 DEF TInv, InChain, ByEngine, Aside, choice
<1>7. OnItsWay'
  <2>1. op.kind = "upload" => op.folder \in PlaceOf(op.path)
    BY <1>1 DEF TInv, OnItsWay
  <2>2. \A i \in Ids : IsSub(i) => IsSub(i)'
    BY <1>3, SubsStay DEF TInv
  <2>3. op.kind = "upload" => (op.folder \in PlaceOf(op.path))'
    BY <1>4, <1>5, <2>1, <2>2 DEF PlaceOf
  <2> QED BY <1>4, <1>5, <2>3 DEF OnItsWay
<1>8. staging' \in Known \cup {Nothing, Torn} /\ dirRow' \in Ids \cup {0}
  BY <1>1 DEF TInv, Typed
<1> QED BY <1>1, <1>2, <1>3, <1>4, <1>6, <1>7, <1>8, StepKeeps

\* So does one that fails, before or after it was done.
LEMMA CopyFailsKeeps ==
    ASSUME TInv, CopyFails, Aside
    PROVE  TInv'
<1>1. op.at = "copy" /\ Fails /\ (Copies \/ UNCHANGED obj)
  BY DEF CopyFails
<1>2. ObjMoves
  BY <1>1, CopiesMove
<1>3. op.kind # "none"
  BY <1>1, AtWork
<1> QED BY <1>1, <1>2, <1>3, FailsKeeps

\* rclone lsjson finds a file, which is what the row is linked with.
LEMMA ProbeKeeps ==
    ASSUME TInv, RunProbe, Aside
    PROVE  TInv'
<1>1. op.at = "probe" /\ obj' = obj
  BY DEF RunProbe
<1>2. op \in Ops /\ op.kind \in {"upload", "update"}
  BY <1>1, AtWork DEF TInv, InChain
<1>3. ObjMoves
  BY <1>1, SameDrive DEF TInv, Aside
<1>4. CASE Fails
  BY <1>2, <1>3, <1>4, FailsKeeps
<1>5. ASSUME NEW i \in Named(op.folder, DestName), NEW o, op' = o, Continue(o), OnlyDrive,
             op.kind = "upload" => o = [op EXCEPT !.found = i, !.at = "link"],
             op.kind # "upload" => o = [Idle EXCEPT !.kind = op.kind, !.f = op.f,
                                                    !.path = op.path, !.hash = op.hash, !.at = "record"]
      PROVE  TInv'
  <2>1. i \in Ids /\ obj[i].kind = "file" /\ i # 0
    BY NamedAre DEF TInv, Ids
  <2>2. /\ o \in Ops /\ o.kind = op.kind /\ o.f = op.f /\ o.path = op.path
        /\ o.at = IF op.kind = "upload" THEN "link" ELSE "record"
        /\ op.kind = "upload" => o.found = i
    <3>1. CASE op.kind = "upload"
      BY ZenonT(30), <1>2, <1>5, <2>1, <3>1 DEF Ops, Places, Local
    <3>2. CASE op.kind # "upload"
      <4>1. "record" \in Places
        BY DEF Places, Local
      <4> QED BY <1>5, <3>2, <4>1, GoOnFields
    <3> QED BY <3>1, <3>2
  <2>3. InChain' /\ ByEngine'
    BY <1>2, <1>5, <2>2 DEF InChain, ByEngine
  <2>4. OnItsWay'
    BY <1>1, <1>2, <1>5, <2>1, <2>2 DEF OnItsWay, FileOrGone
  <2>5. staging' \in Known \cup {Nothing, Torn} /\ dirRow' \in Ids \cup {0}
    BY <1>5 DEF TInv, Typed, OnlyDrive, local
  <2>6. UNCHANGED <<rows, disk>>
    BY <1>5 DEF OnlyDrive, local
  <2> QED BY <1>1, <1>2, <1>3, <1>5, <2>2, <2>3, <2>4, <2>5, <2>6, StepKeeps
<1> QED BY <1>4, <1>5 DEF RunProbe, Continue

\* Reading the whole file keeps the invariant: it is no torn one.
LEMMA ReadKeeps ==
    ASSUME TInv, Read, Aside
    PROVE  TInv'
<1>1. op.at = "read" /\ obj' = obj
  BY DEF Read
<1>2. op \in Ops /\ op.kind \in {"upload", "update"} /\ op.path \in Path
  BY <1>1, AtWork DEF TInv, InChain
<1>3. ObjMoves
  BY <1>1, SameDrive DEF TInv, Aside
<1>4. CASE disk[op.path] = Nothing
  BY <1>1, <1>2, <1>3, <1>4, FailsKeeps DEF Read
<1>5. CASE disk[op.path] # Nothing
  <2> DEFINE place == IF op.kind = "upload" THEN "create" ELSE "patch"
             o == [op EXCEPT !.bytes = disk[op.path], !.at = place]
  <2>1. Continue(o) /\ UNCHANGED <<rows, dirRow, disk, staging>>
    BY <1>5 DEF Read, OnlyDrive, local
  <2>2. place \in Places /\ place = IF op.kind = "upload" THEN "create" ELSE "patch"
    BY DEF Places, Http
  <2>3. disk[op.path] \in Known
    BY <1>2, <1>5, PathKnown DEF TInv
  <2> HIDE DEF place
  <2>4. /\ o \in Ops /\ o.kind = op.kind /\ o.f = op.f /\ o.path = op.path /\ o.at = place
        /\ o.bytes = disk[op.path]
    BY ZenonT(30), <1>2, <2>2, <2>3 DEF Ops
  <2> HIDE DEF o
  <2>5. op' = o
    BY <2>1 DEF Continue
  <2>6. InChain' /\ ByEngine'
    BY <1>1, <1>2, <2>2, <2>4, <2>5 DEF TInv, InChain, ByEngine, Aside, choice
  <2>7. OnItsWay'
    BY <2>2, <2>3, <2>4, <2>5, SameSets DEF OnItsWay, Aside
  <2>8. staging' \in Known \cup {Nothing, Torn} /\ dirRow' \in Ids \cup {0}
    BY <2>1 DEF TInv, Typed
  <2> QED BY <1>1, <1>2, <1>3, <2>1, <2>2, <2>4, <2>6, <2>7, <2>8, StepKeeps
<1> QED BY <1>4, <1>5

\* So does the creation of the file with the http engine.
LEMMA CreateKeeps ==
    ASSUME TInv, ServeCreate, Aside
    PROVE  TInv'
<1>1. /\ op.at = "create" /\ stage = "ready" /\ HasFresh
      /\ obj' = [obj EXCEPT ![Fresh] = File(op.path.name, op.folder, op.bytes)]
  BY DEF ServeCreate, Ready
<1>2. op \in Ops /\ op.kind = "upload" /\ op.path \in Path
  BY <1>1, AtWork DEF TInv, InChain
<1>3. File(op.path.name, op.folder, op.bytes) \in Objects
      /\ File(op.path.name, op.folder, op.bytes).kind = "file"
  <2>1. op.path.name \in Texts
    BY <1>2, PathKnown DEF TInv
  <2>2. op.bytes \in Known /\ op.folder \in Ids \cup {Root}
    BY <1>1, <1>2 DEF TInv, OnItsWay, Ops
  <2> QED BY <2>1, <2>2 DEF File, AFile, Objects, Parents
<1>4. ObjMoves /\ Fresh \in Ids /\ obj'[Fresh].kind = "file"
  BY <1>1, <1>3, FreshFile DEF TInv, Aside
<1>5. CASE AnswerLost
  BY <1>1, <1>2, <1>4, <1>5, FailsWithKeeps DEF AnswerLost
<1>6. CASE Continue([op EXCEPT !.found = Fresh, !.at = "link"]) /\ OnlyDrive
  <2> DEFINE o == [op EXCEPT !.found = Fresh, !.at = "link"]
  <2>1. /\ o \in Ops /\ o.kind = op.kind /\ o.f = op.f /\ o.path = op.path /\ o.found = Fresh
        /\ o.at = "link"
    BY <1>2, <1>4 DEF Ops, Places, Local
  <2> HIDE DEF o
  <2>2. op' = o /\ Continue(o) /\ UNCHANGED <<rows, dirRow, disk, staging>>
    BY <1>6 DEF Continue, o, OnlyDrive, local
  <2>3. InChain' /\ ByEngine'
    BY <1>2, <2>1, <2>2 DEF InChain, ByEngine
  <2>4. OnItsWay'
    BY <1>4, <2>1, <2>2 DEF OnItsWay, FileOrGone, Ids
  <2>5. staging' \in Known \cup {Nothing, Torn} /\ dirRow' \in Ids \cup {0}
    BY <2>2 DEF TInv, Typed
  <2> QED BY <1>1, <1>2, <1>4, <2>1, <2>2, <2>3, <2>4, <2>5, StepKeeps
<1> QED BY <1>5, <1>6 DEF ServeCreate

(* The rest of the chain needs only the file, its path and what was hashed. *)
LEMMA GoesOn ==
    ASSUME TInv, NEW place \in {"record", "settle", "drop"}, GoOn(place), op.at \notin {"none", "record"},
           place = "record" => op.kind = "update", place = "settle" => op.kind = "rename",
           place = "drop" => op.kind = "delete", ObjMoves, Aside, UNCHANGED local
    PROVE  TInv'
<1> DEFINE o == [Idle EXCEPT !.kind = op.kind, !.f = op.f, !.path = op.path, !.hash = op.hash, !.at = place]
<1>1. place \in Places
  BY DEF Places, Local
<1>2. o \in Ops /\ o.kind = op.kind /\ o.f = op.f /\ o.path = op.path /\ o.at = place
  BY <1>1, GoOnFields
<1>3. Continue(o) /\ op' = o
  BY DEF GoOn, Continue
<1> HIDE DEF o
<1>4. op.kind # "none"
  BY AtWork
<1>5. InChain' /\ ByEngine' /\ OnItsWay'
  BY <1>2, <1>3 DEF InChain, ByEngine, OnItsWay
<1>6. staging' \in Known \cup {Nothing, Torn} /\ dirRow' \in Ids \cup {0} /\ UNCHANGED <<rows, disk>>
  BY DEF TInv, Typed, local
<1> QED BY <1>2, <1>3, <1>4, <1>5, <1>6, StepKeeps

\* The object at the row's id changes, and stays a file or goes.
LEMMA TargetSet ==
    ASSUME TInv, op.kind \in {"update", "download", "rename", "delete"}, Exists(Target), Aside,
           NEW o \in Objects, o.kind \in {"file", "deleted"}, obj' = [obj EXCEPT ![Row.id] = o]
    PROVE  ObjMoves
BY TargetKnown, ObjSet DEF TInv, Aside, Target

\* The new content of a known file keeps the invariant.
LEMMA PatchKeeps ==
    ASSUME TInv, ServePatch, Aside
    PROVE  TInv'
<1>1. op.at = "patch" /\ stage = "ready"
  BY DEF ServePatch, Ready
<1>2. op \in Ops /\ op.kind = "update"
  BY <1>1, AtWork DEF TInv, InChain
<1>3. CASE ~Exists(Target)
  <2>1. ObjMoves
    BY <1>3, SameDrive DEF ServePatch, TInv, Aside
  <2> QED BY <1>1, <1>2, <1>3, <2>1, FailsWithKeeps DEF ServePatch
<1>4. CASE Exists(Target)
  <2> DEFINE o == [Target EXCEPT !.body = op.bytes]
  <2>1. o \in Objects /\ o.kind = "file"
    BY <1>1, <1>2, <1>4, TargetKnown, FileSet DEF TInv, OnItsWay, AFile
  <2>2. obj' = [obj EXCEPT ![Row.id] = o]
    BY <1>4 DEF ServePatch, Target
  <2> HIDE DEF o
  <2>3. ObjMoves
    BY <1>2, <1>4, <2>1, <2>2, TargetSet
  <2>4. CASE AnswerLost
    BY <1>1, <1>2, <2>3, <2>4, FailsWithKeeps DEF AnswerLost
  <2>5. CASE GoOn("record") /\ OnlyDrive
    BY <1>1, <1>2, <2>3, <2>5, GoesOn DEF OnlyDrive
  <2> QED BY <1>4, <2>4, <2>5 DEF ServePatch
<1> QED BY <1>3, <1>4

\* A row is written and the operation goes on: typed, and paths apart.
LEMMA RowSet ==
    ASSUME TInv, op.at # "none", NEW r \in RowTable, rows' = [rows EXCEPT ![op.f] = r],
           r.state = "new" => r.id = 0, r.state = "synced" => r.id # 0,
           r.id # 0 => FileOrGone(r.id),
           r.state # "gone" =>
              \A g \in Files \ {op.f} : rows[g].state # "gone" => rows[g].path # r.path,
           NEW o \in Ops, Continue(o), UNCHANGED <<obj, dirRow, disk, staging>>, Aside
    PROVE  Typed' /\ Requests' /\ RowsSound' /\ PathsApart'
<1>1. op.f \in Files /\ rows \in [Files -> RowTable]
  BY AtWork DEF TInv, Typed
<1>2. \A g \in Files : rows'[g] = IF g = op.f THEN r ELSE rows[g]
  BY <1>1
<1>3. rows' \in [Files -> RowTable]
  BY <1>1
<1>4. Typed'
  <2>1. op' = o
    BY DEF Continue
  <2> QED BY <1>3, <2>1, SameSets DEF TInv, Typed, Aside, choice
<1>5. Requests'
  BY Continues DEF TInv, Requests, ClientTypeOK
<1>6. RowsSound'
  BY <1>2 DEF TInv, RowsSound, FileOrGone
<1>7. PathsApart'
  BY <1>2 DEF TInv, PathsApart
<1> QED BY <1>4, <1>5, <1>6, <1>7

\* A row is written and the operation is done.
LEMMA RowDone ==
    ASSUME TInv, op.at # "none", NEW r \in RowTable, SetRow(r),
           r.state = "new" => r.id = 0, r.state = "synced" => r.id # 0,
           r.id # 0 => FileOrGone(r.id),
           r.state # "gone" =>
              \A g \in Files \ {op.f} : rows[g].state # "gone" => rows[g].path # r.path,
           Done, UNCHANGED <<obj, dirRow, disk, staging>>, Aside
    PROVE  TInv'
<1>1. op' = Idle /\ Continue(Idle) /\ Idle \in Ops
  BY IdleFields DEF Done, Continue
<1>2. rows' = [rows EXCEPT ![op.f] = r]
  BY DEF SetRow
<1>3. Typed' /\ Requests' /\ RowsSound' /\ PathsApart'
  BY <1>1, <1>2, RowSet
<1> QED BY <1>1, <1>3, IdleAgain DEF TInv

\* The fields of the operation's row, and what may be written into it.
LEMMA RowFields ==
    ASSUME TInv, op.at # "none"
    PROVE  /\ Row \in RowTable /\ Row.path \in Path
           /\ \A b \in Known \cup {Nothing} : [Row EXCEPT !.body = b] \in RowTable
           /\ \A p \in Path : [Row EXCEPT !.path = p] \in RowTable
           /\ \A g \in Files \ {op.f} : rows[g].state # "gone" /\ Row.state # "gone" => rows[g].path # Row.path
           /\ Row.state = "new" => Row.id = 0
           /\ Row.state = "synced" => Row.id # 0
           /\ Row.id # 0 => FileOrGone(Row.id)
<1>1. Row \in RowTable /\ op.f \in Files
  BY AtWork DEF Row
<1>2. /\ \A b \in Known \cup {Nothing} : [Row EXCEPT !.body = b] \in RowTable
      /\ \A p \in Path : [Row EXCEPT !.path = p] \in RowTable
      /\ Row.path \in Path
  BY <1>1 DEF RowTable
<1>3. \A g \in Files \ {op.f} : rows[g].state # "gone" /\ Row.state # "gone" => rows[g].path # Row.path
  BY <1>1 DEF TInv, PathsApart, Row
<1>4. /\ Row.state = "new" => Row.id = 0
      /\ Row.state = "synced" => Row.id # 0
      /\ Row.id # 0 => FileOrGone(Row.id)
  BY <1>1 DEF TInv, RowsSound, Row
<1> QED BY <1>1, <1>2, <1>3, <1>4

\* Recording the fingerprint keeps the invariant.
LEMMA RecordKeeps ==
    ASSUME TInv, Record, Aside
    PROVE  TInv'
<1> DEFINE r == [Row EXCEPT !.body = op.hash]
<1>1. op.at = "record" /\ Done /\ SetRow(r) /\ UNCHANGED <<obj, dirRow, disk, staging>>
  BY DEF Record, OnlyRow
<1>2. op.hash \in Known \cup {Nothing} /\ Row \in RowTable
  BY <1>1, AtWork, RowFields DEF Ops
<1>3. r \in RowTable /\ r.state = Row.state /\ r.id = Row.id /\ r.path = Row.path
  BY <1>2 DEF RowTable
<1> HIDE DEF r
<1>4. \A g \in Files \ {op.f} : rows[g].state # "gone" /\ r.state # "gone" => rows[g].path # r.path
  BY <1>1, <1>3, RowFields
<1>5. /\ r.state = "new" => r.id = 0
      /\ r.state = "synced" => r.id # 0
      /\ r.id # 0 => FileOrGone(r.id)
  BY <1>1, <1>3, RowFields
<1> QED BY <1>1, <1>3, <1>4, <1>5, RowDone

\* Recording the new path does: no other row has it.
LEMMA SettleKeeps ==
    ASSUME TInv, Settle, Aside
    PROVE  TInv'
<1> DEFINE r == [Row EXCEPT !.path = op.path]
<1>1. op.at = "settle" /\ Done /\ SetRow(r) /\ UNCHANGED <<obj, dirRow, disk, staging>>
  BY DEF Settle, OnlyRow
<1>2. op.path \in Path /\ Row \in RowTable
  BY <1>1, AtWork, RowFields
<1>3. r \in RowTable /\ r.state = Row.state /\ r.id = Row.id /\ r.path = op.path
  BY <1>2 DEF RowTable
<1> HIDE DEF r
<1>4. op.kind = "rename"
  BY <1>1 DEF TInv, InChain
<1>5. \A g \in Files : rows[g].state # "gone" => rows[g].path # op.path
  BY <1>4 DEF TInv, OfRow
<1>6. /\ r.state = "new" => r.id = 0
      /\ r.state = "synced" => r.id # 0
      /\ r.id # 0 => FileOrGone(r.id)
  BY <1>1, <1>3, RowFields
<1> QED BY <1>1, <1>3, <1>5, <1>6, RowDone

\* Dropping the row of a deleted file does.
LEMMA DropKeeps ==
    ASSUME TInv, Drop, Aside
    PROVE  TInv'
<1> DEFINE r == [Row EXCEPT !.state = "gone"]
<1>1. op.at = "drop" /\ Done /\ SetRow(r) /\ UNCHANGED <<obj, dirRow, disk, staging>>
  BY DEF Drop, OnlyRow
<1>2. Row \in RowTable
  BY <1>1, RowFields
<1>3. r \in RowTable /\ r.state = "gone" /\ r.id = Row.id
  BY <1>2 DEF RowTable
<1> HIDE DEF r
<1>4. r.id # 0 => FileOrGone(r.id)
  BY <1>1, <1>3, RowFields
<1> QED BY <1>1, <1>3, <1>4, RowDone

\* Recording what is on disk after a download does: it is no torn file.
LEMMA HashKeeps ==
    ASSUME TInv, Hash, Aside
    PROVE  TInv'
<1>1. op.at = "hash" /\ obj' = obj
  BY DEF Hash
<1>2. op.path \in Path /\ Row \in RowTable /\ op.kind # "none"
  BY <1>1, AtWork, RowFields
<1>3. CASE disk[op.path] = Nothing
  <2>1. ObjMoves
    BY <1>1, SameDrive DEF TInv, Aside
  <2> QED BY <1>2, <1>3, <2>1, FailsKeeps DEF Hash
<1>4. CASE disk[op.path] # Nothing
  <2> DEFINE r == [Row EXCEPT !.body = disk[op.path]]
  <2>1. Done /\ SetRow(r) /\ UNCHANGED <<obj, dirRow, disk, staging>>
    BY <1>1, <1>4 DEF Hash
  <2>2. disk[op.path] \in Known
    BY <1>2, <1>4, PathKnown DEF TInv
  <2>3. r \in RowTable /\ r.state = Row.state /\ r.id = Row.id /\ r.path = Row.path
    BY <1>2, <2>2 DEF RowTable
  <2> HIDE DEF r
  <2>4. \A g \in Files \ {op.f} : rows[g].state # "gone" /\ r.state # "gone" => rows[g].path # r.path
    BY <1>1, <2>3, RowFields
  <2>5. /\ r.state = "new" => r.id = 0
        /\ r.state = "synced" => r.id # 0
        /\ r.id # 0 => FileOrGone(r.id)
    BY <1>1, <2>3, RowFields
  <2> QED BY <1>1, <2>1, <2>3, <2>4, <2>5, RowDone
<1> QED BY <1>3, <1>4

\* Linking the row of a new file with the id that was found does.
LEMMA LinkKeeps ==
    ASSUME TInv, Link, Aside
    PROVE  TInv'
<1> DEFINE r == [Row EXCEPT !.id = op.found, !.state = "synced"]
           o == [Idle EXCEPT !.kind = op.kind, !.f = op.f, !.path = op.path, !.hash = op.hash, !.at = "record"]
<1>1. op.at = "link" /\ Continue(o) /\ SetRow(r) /\ UNCHANGED <<obj, dirRow, disk, staging>>
  BY DEF Link, OnlyRow, GoOn
<1>2. op.kind = "upload" /\ op \in Ops /\ op.f \in Files /\ Row \in RowTable /\ op.path \in Path
  BY <1>1, AtWork, RowFields DEF TInv, InChain
<1>3. op.found \in Ids /\ FileOrGone(op.found)
  BY <1>1, <1>2 DEF TInv, OnItsWay, Ops
<1>4. r \in RowTable /\ r.state = "synced" /\ r.id = op.found /\ r.path = Row.path
  BY <1>2, <1>3 DEF RowTable
<1>5. "record" \in Places
  BY DEF Places, Local
<1>6. o \in Ops /\ o.kind = "upload" /\ o.f = op.f /\ o.path = op.path /\ o.at = "record"
  BY <1>2, <1>5, GoOnFields
<1> HIDE DEF r, o
<1>7. op' = o
  BY <1>1 DEF Continue
<1>8. rows' = [rows EXCEPT ![op.f] = r]
  BY <1>1 DEF SetRow
<1>9. Row.state = "new" /\ op.path = Row.path
  BY <1>1, <1>2 DEF TInv, OfRow, Row
<1>10. \A g \in Files \ {op.f} : rows[g].state # "gone" => rows[g].path # r.path
  BY <1>1, <1>4, <1>9, RowFields
<1>11. Typed' /\ Requests' /\ RowsSound' /\ PathsApart'
  BY <1>1, <1>3, <1>4, <1>6, <1>8, <1>10, RowSet, 0 \notin Ids DEF Ids
<1>12. InChain' /\ ByEngine' /\ OnItsWay'
  BY <1>6, <1>7 DEF InChain, ByEngine, OnItsWay
<1>13. OfRow'
  <2>1. rows'[op.f] = r
    BY <1>2, <1>8 DEF TInv, Typed
  <2>2. up'
    BY <1>1, AtWork DEF Aside
  <2> QED BY <1>2, <1>4, <1>6, <1>7, <1>9, <2>1, <2>2 DEF OfRow
<1> QED BY <1>11, <1>12, <1>13 DEF TInv

\* The download of a file that is there begins to fill the staging file.
LEMMA FillBegins ==
    ASSUME TInv, op.kind = "download", op.at \in {"fetch", "bytes"}, NEW i \in Ids,
           obj[i] \in AFile, BeginFill(i), obj' = obj, Aside
    PROVE  TInv'
<1> DEFINE o == [op EXCEPT !.bytes = obj[i].body, !.at = "fill"]
<1>1. Continue(o) /\ UNCHANGED <<rows, dirRow, disk>> /\ staging' = Torn
  BY DEF BeginFill
<1>2. op \in Ops
  BY AtWork
<1>3. ObjMoves
  BY SameDrive DEF TInv, Aside
<1>4. obj[i].body \in Known
  BY FileSet
<1>5. "fill" \in Places
  BY DEF Places, Local
<1>6. /\ o \in Ops /\ o.kind = op.kind /\ o.f = op.f /\ o.path = op.path /\ o.at = "fill"
      /\ o.bytes = obj[i].body
  BY <1>2, <1>4, <1>5 DEF Ops
<1> HIDE DEF o
<1>7. op' = o
  BY <1>1 DEF Continue
<1>8. InChain' /\ ByEngine'
  BY <1>6, <1>7 DEF InChain, ByEngine
<1>9. OnItsWay'
  BY <1>4, <1>6, <1>7, SameSets DEF OnItsWay, Aside
<1>10. staging' \in Known \cup {Nothing, Torn} /\ dirRow' \in Ids \cup {0}
  BY <1>1 DEF TInv, Typed
<1> QED BY <1>1, <1>2, <1>3, <1>6, <1>8, <1>9, <1>10, StepKeeps

\* A download by name (rclone) keeps the invariant.
LEMMA FetchKeeps ==
    ASSUME TInv, RunFetch, Aside
    PROVE  TInv'
<1>1. op.at = "fetch" /\ obj' = obj
  BY DEF RunFetch
<1>2. op.kind = "download"
  BY <1>1 DEF TInv, InChain
<1>3. CASE Fails
  <2>1. ObjMoves
    BY <1>1, SameDrive DEF TInv, Aside
  <2> QED BY <1>2, <1>3, <2>1, FailsKeeps
<1>4. ASSUME NEW i \in Named(op.folder, op.name), BeginFill(i)
      PROVE  TInv'
  <2>1. i \in Ids /\ obj[i] \in AFile
    BY NamedAre DEF TInv
  <2> QED BY <1>1, <1>2, <1>4, <2>1, FillBegins
<1> QED BY <1>3, <1>4 DEF RunFetch

\* A download by id (http) does.
LEMMA BytesKeeps ==
    ASSUME TInv, ServeBytes, Aside
    PROVE  TInv'
<1>1. op.at = "bytes" /\ stage = "ready" /\ obj' = obj
  BY DEF ServeBytes, Ready
<1>2. op.kind = "download"
  BY <1>1 DEF TInv, InChain
<1>3. CASE ~Exists(Target)
  <2>1. ObjMoves
    BY <1>1, SameDrive DEF TInv, Aside
  <2> QED BY <1>1, <1>2, <1>3, <2>1, FailsWithKeeps DEF ServeBytes
<1>4. CASE Exists(Target)
  <2>1. Row.id \in Ids /\ obj[Row.id] \in AFile /\ BeginFill(Row.id)
    BY <1>2, <1>4, TargetKnown DEF ServeBytes, Target
  <2> QED BY <1>1, <1>2, <2>1, FillBegins
<1> QED BY <1>3, <1>4

(* Only a filled staging file goes on to be renamed                        *)
(* (engine/staging.rs:3-8).                                                *)
LEMMA FillKeeps ==
    ASSUME TInv, Fill, Aside
    PROVE  TInv'
<1> DEFINE o == [Idle EXCEPT !.kind = op.kind, !.f = op.f, !.path = op.path,
                             !.hash = op.hash, !.at = "promote"]
<1>1. op.at = "fill" /\ Continue(o) /\ staging' = op.bytes /\ UNCHANGED <<obj, rows, dirRow, disk>>
  BY DEF Fill, GoOn
<1>2. op.kind = "download" /\ op.bytes \in Known
  BY <1>1 DEF TInv, InChain, OnItsWay
<1>3. "promote" \in Places
  BY DEF Places, Local
<1>4. o \in Ops /\ o.kind = op.kind /\ o.f = op.f /\ o.path = op.path /\ o.at = "promote"
  BY <1>3, GoOnFields
<1> HIDE DEF o
<1>5. op' = o
  BY <1>1 DEF Continue
<1>6. InChain' /\ ByEngine'
  BY <1>2, <1>4, <1>5 DEF InChain, ByEngine
<1>7. OnItsWay'
  BY <1>1, <1>2, <1>4, <1>5, SameSets DEF OnItsWay, Aside
<1>8. staging' \in Known \cup {Nothing, Torn} /\ dirRow' \in Ids \cup {0}
  BY <1>1, <1>2 DEF TInv, Typed
<1>9. ObjMoves
  BY <1>1, SameDrive DEF TInv, Aside
<1> QED BY <1>1, <1>2, <1>4, <1>6, <1>7, <1>8, <1>9, StepKeeps

\* A failed write or rename leaves disk and rows alone.
LEMMA StagingFailsKeeps ==
    ASSUME TInv, FillFails \/ PromoteFails, Aside
    PROVE  TInv'
<1>1. op.at # "none" /\ Fails /\ obj' = obj
  BY DEF FillFails, PromoteFails
<1>2. ObjMoves
  BY <1>1, SameDrive DEF TInv, Aside
<1> QED BY <1>1, <1>2, AtWork, FailsKeeps

(* What is put in place is the whole file that was staged. *)
LEMMA PromoteKeeps ==
    ASSUME TInv, Promote, Aside
    PROVE  TInv'
<1> DEFINE o == [Idle EXCEPT !.kind = op.kind, !.f = op.f, !.path = op.path,
                             !.hash = op.hash, !.at = "hash"]
<1>1. /\ op.at = "promote" /\ Continue(o) /\ staging' = Nothing /\ UNCHANGED <<obj, rows, dirRow>>
      /\ disk' = [disk EXCEPT ![op.path] = staging]
  BY DEF Promote, GoOn
<1>2. op.kind = "download" /\ staging \in Known /\ op.path \in Path
  BY <1>1, AtWork DEF TInv, InChain, OnItsWay
<1>3. "hash" \in Places
  BY DEF Places, Local
<1>4. o \in Ops /\ o.kind = op.kind /\ o.f = op.f /\ o.path = op.path /\ o.at = "hash"
  BY <1>3, GoOnFields
<1> HIDE DEF o
<1>5. op' = o
  BY <1>1 DEF Continue
<1>6. Typed'
  BY <1>1, <1>2, <1>4, <1>5, SameSets DEF TInv, Typed, Aside, choice
<1>7. Requests'
  BY <1>1, Continues DEF TInv, Requests, ClientTypeOK
<1>8. RowsSound' /\ PathsApart'
  BY <1>1 DEF TInv, RowsSound, FileOrGone, PathsApart
<1>9. InChain' /\ ByEngine' /\ OnItsWay'
  BY <1>2, <1>4, <1>5 DEF InChain, ByEngine, OnItsWay
<1>10. OfRow'
  BY <1>1, <1>2, <1>4, <1>5 DEF TInv, OfRow, Aside
<1> QED BY <1>6, <1>7, <1>8, <1>9, <1>10 DEF TInv

-----------------------------------------------------------------------------
\* Asking for a file's parents keeps the invariant.
LEMMA ParentsKeeps ==
    ASSUME TInv, ServeParents, Aside
    PROVE  TInv'
<1>1. op.at = "parents" /\ stage = "ready" /\ obj' = obj
  BY DEF ServeParents, Ready
<1>2. op.kind = "rename" /\ op \in Ops
  BY <1>1, AtWork DEF TInv, InChain
<1>3. ObjMoves
  BY <1>1, SameDrive DEF TInv, Aside
<1>4. CASE ~Exists(Target)
  BY <1>1, <1>2, <1>3, <1>4, FailsWithKeeps DEF ServeParents
<1>5. CASE Exists(Target)
  <2> DEFINE o == [op EXCEPT !.in = Target.parents, !.at = "move"]
  <2>1. Continue(o) /\ UNCHANGED <<rows, dirRow, disk, staging>>
    BY <1>5 DEF ServeParents, OnlyDrive, local
  <2>2. Target.parents \in Parents
    BY <1>2, <1>5, TargetKnown, FileSet
  <2>3. o \in Ops /\ o.kind = op.kind /\ o.f = op.f /\ o.path = op.path /\ o.at = "move"
    BY ZenonT(30), <1>2, <2>2 DEF Ops, Places, Http
  <2> HIDE DEF o
  <2>4. op' = o
    BY <2>1 DEF Continue
  <2>5. InChain' /\ ByEngine' /\ OnItsWay'
    BY <1>2, <2>3, <2>4 DEF InChain, ByEngine, OnItsWay
  <2>6. staging' \in Known \cup {Nothing, Torn} /\ dirRow' \in Ids \cup {0}
    BY <2>1 DEF TInv, Typed
  <2> QED BY <1>1, <1>2, <1>3, <2>1, <2>3, <2>5, <2>6, StepKeeps
<1> QED BY <1>4, <1>5

\* Moving and renaming by id does.
LEMMA MoveKeeps ==
    ASSUME TInv, ServeMove, Aside
    PROVE  TInv'
<1>1. op.at = "move" /\ stage = "ready"
  BY DEF ServeMove, Ready
<1>2. op \in Ops /\ op.kind = "rename" /\ op.path \in Path
  BY <1>1, AtWork DEF TInv, InChain
<1>3. CASE ~Exists(Target)
  <2>1. ObjMoves
    BY <1>3, SameDrive DEF ServeMove, TInv, Aside
  <2> QED BY <1>1, <1>2, <1>3, <2>1, FailsWithKeeps DEF ServeMove
<1>4. CASE Exists(Target)
  <2> DEFINE o == [Target EXCEPT !.parents = Moved(Target.parents), !.name = op.path.name]
  <2>1. Target \in AFile /\ Row.id \in Ids /\ Target = obj[Row.id] /\ obj \in [Ids -> Objects]
    BY <1>2, <1>4, TargetKnown DEF Target, TInv, Typed
  <2>2. Moved(Target.parents) \in Parents /\ op.path.name \in Texts
    BY <1>2, <2>1, PathKnown DEF Moved, AFile, Ops, Parents, TInv
  <2>3. o \in AFile /\ o.kind = "file"
    BY <2>1, <2>2 DEF AFile
  <2>4. o \in Objects
    BY <2>3, FileSet
  <2>5. obj' = [obj EXCEPT ![Row.id].parents = Moved(@), ![Row.id].name = op.path.name]
    BY <1>4 DEF ServeMove
  <2>6. obj' = [obj EXCEPT ![Row.id] = o]
    BY <2>1, <2>5
  <2> HIDE DEF o
  <2>7. ObjMoves
    BY <1>2, <1>4, <2>3, <2>4, <2>6, TargetSet
  <2>8. CASE AnswerLost
    BY <1>1, <1>2, <2>7, <2>8, FailsWithKeeps DEF AnswerLost
  <2>9. CASE GoOn("settle") /\ OnlyDrive
    BY <1>1, <1>2, <2>7, <2>9, GoesOn DEF OnlyDrive
  <2> QED BY <1>4, <2>8, <2>9 DEF ServeMove
<1> QED BY <1>3, <1>4

(* Trashing or deleting does; a refused deletion is one of file 1, owned   *)
(* by somebody else.                                                       *)
LEMMA RemoveKeeps ==
    ASSUME TInv, ServeRemove, Aside
    PROVE  TInv'
<1>1. op.at = "remove" /\ stage = "ready"
  BY DEF ServeRemove, Ready
<1>2. op \in Ops /\ op.kind = "delete" /\ op.path \in Path
  BY <1>1, AtWork DEF TInv, InChain
<1>3. CASE ~Exists(Target)
  <2>1. FailsWith("not found") /\ obj' = obj
    BY <1>3 DEF ServeRemove
  <2>2. ObjMoves
    BY <2>1, SameDrive DEF TInv, Aside
  <2> QED BY <1>1, <1>2, <2>1, <2>2, FailsWithKeeps
<1>4. CASE Exists(Target) /\ ~owned /\ Row.id = 1
  <2> DEFINE o == [op EXCEPT !.at = "memberships"]
  <2>1. Continue(o) /\ UNCHANGED <<obj, rows, dirRow, disk, staging>>
    BY <1>4 DEF ServeRemove, Go, OnlyDrive, local
  <2>2. o \in Ops /\ o.kind = op.kind /\ o.f = op.f /\ o.path = op.path /\ o.at = "memberships"
    BY <1>2, PlaceFields DEF Places, Http
  <2> HIDE DEF o
  <2>3. op' = o
    BY <2>1 DEF Continue
  <2>4. InChain' /\ ByEngine' /\ OnItsWay'
    BY <1>2, <2>2, <2>3 DEF InChain, ByEngine, OnItsWay
  <2>5. staging' \in Known \cup {Nothing, Torn} /\ dirRow' \in Ids \cup {0} /\ ObjMoves
    BY <2>1, SameDrive DEF TInv, Typed, Aside
  <2> QED BY <1>1, <1>2, <1>4, <2>1, <2>2, <2>4, <2>5, StepKeeps DEF Row
<1>5. CASE Exists(Target) /\ ~(~owned /\ Row.id = 1)
  <2> DEFINE o == IF mode = "trash" THEN [Target EXCEPT !.live = FALSE] ELSE Deleted
  <2>1. /\ obj' = [obj EXCEPT ![Row.id] = o]
        /\ (GoOn("drop") /\ OnlyDrive) \/ AnswerLost
    <3>1. Row.id \in Ids /\ obj \in [Ids -> Objects]
      BY <1>2, TargetKnown DEF TInv, Typed
    <3> QED BY <1>5, <3>1 DEF ServeRemove, Target
  <2>2. Target \in AFile
    BY <1>2, <1>5, TargetKnown
  <2>3. o \in Objects /\ o.kind \in {"file", "deleted"}
    BY <2>2, FileSet DEF AFile, Objects, Deleted, NoObject
  <2> HIDE DEF o
  <2>4. ObjMoves
    BY <1>2, <1>5, <2>1, <2>3, TargetSet
  <2>5. CASE AnswerLost
    BY <1>1, <1>2, <2>4, <2>5, FailsWithKeeps DEF AnswerLost
  <2>6. CASE GoOn("drop") /\ OnlyDrive
    BY <1>1, <1>2, <2>4, <2>6, GoesOn DEF OnlyDrive
  <2> QED BY <2>1, <2>5, <2>6
<1> QED BY <1>3, <1>4, <1>5

\* Asking for the memberships of a file one may not delete does.
LEMMA MembershipsKeeps ==
    ASSUME TInv, ServeMemberships, Aside
    PROVE  TInv'
<1> DEFINE o == IF Target.parents = {} THEN [op EXCEPT !.at = "drop"]
                ELSE [op EXCEPT !.in = Target.parents, !.at = "unlink"]
<1>0. op.at = "memberships" /\ stage = "ready" /\ obj' = obj
  BY DEF ServeMemberships, Ready
<1>a. CASE FailsWith("not found")
  <2>1. op.kind # "none" /\ ObjMoves
    BY <1>0, SameDrive DEF TInv, InChain, Aside
  <2> QED BY <1>0, <1>a, <2>1, FailsWithKeeps
<1> SUFFICES ASSUME ~FailsWith("not found") PROVE TInv'
  BY <1>a
<1>1. op.at = "memberships" /\ Continue(o) /\ UNCHANGED <<obj, rows, dirRow, disk, staging>>
  BY DEF ServeMemberships, Ready, OnlyDrive, local, Go
<1>2. op \in Ops /\ op.kind = "delete"
  BY <1>1, AtWork DEF TInv, InChain
<1>3. Target.parents \in Parents
  <2>1. Target \in Objects
    BY <1>2, TargetKnown
  <2>2. NoObject.parents = {} /\ Deleted.parents = {} /\ SubFolder.parents = {Root}
    BY DEF NoObject, Deleted, SubFolder
  <2> QED BY <2>1, <2>2, KindsOf, FileSet DEF Parents
<1>4. ~owned /\ rows[op.f].id = 1
  BY <1>1, <1>2 DEF TInv, OfRow
<1>5. o \in Ops /\ o.kind = op.kind /\ o.f = op.f /\ o.path = op.path /\ o.at \in {"drop", "unlink"}
  BY <1>2, <1>3 DEF Ops, Places, Http, Local
<1> HIDE DEF o
<1>6. op' = o
  BY <1>1 DEF Continue
<1>7. InChain' /\ ByEngine' /\ OnItsWay'
  BY <1>2, <1>5, <1>6 DEF InChain, ByEngine, OnItsWay
<1>8. staging' \in Known \cup {Nothing, Torn} /\ dirRow' \in Ids \cup {0} /\ ObjMoves
  BY <1>1, SameDrive DEF TInv, Typed, Aside
<1> QED BY <1>1, <1>2, <1>4, <1>5, <1>7, <1>8, StepKeeps

\* Taking it out of the own folders does.
LEMMA UnlinkKeeps ==
    ASSUME TInv, ServeUnlink, Aside
    PROVE  TInv'
<1>1. op.at = "unlink" /\ stage = "ready"
  BY DEF ServeUnlink, Ready
<1>2. op \in Ops /\ op.kind = "delete" /\ op.path \in Path
  BY <1>1, AtWork DEF TInv, InChain
<1>3. Row.id \in Ids /\ Target \in Objects /\ Target = obj[Row.id] /\ FileOrGone(Row.id)
  BY <1>2, TargetKnown DEF Target
<1>4. ObjMoves
  <2> DEFINE o == [Target EXCEPT !.parents = Target.parents \ op.in]
  <2>1. CASE Exists(Target) /\ obj' = [obj EXCEPT ![Row.id].parents = @ \ op.in]
    <3>1. obj' = [obj EXCEPT ![Row.id] = o]
      BY <1>3, <2>1 DEF TInv, Typed
    <3>2. Target.kind = "file"
      BY <1>3, <2>1 DEF FileOrGone, Exists
    <3>3. o \in AFile /\ o.kind = "file" /\ o \in Objects
      BY <1>3, <3>2, KindsOf DEF AFile, Parents, Objects
    <3> HIDE DEF o
    <3> QED BY <1>2, <3>1, <3>2, <3>3, TargetSet DEF Exists
  <2>2. CASE obj' = obj
    BY <2>2, SameDrive DEF TInv, Aside
  <2> QED BY <2>1, <2>2 DEF ServeUnlink
<1>5. CASE AnswerLost
  BY <1>1, <1>2, <1>4, <1>5, FailsWithKeeps DEF AnswerLost
<1>6. CASE GoOn("drop") /\ OnlyDrive
  BY <1>1, <1>2, <1>4, <1>6, GoesOn DEF OnlyDrive
<1>7. CASE FailsWith("not found")
  BY <1>1, <1>2, <1>4, <1>7, FailsWithKeeps
<1> QED BY <1>5, <1>6, <1>7 DEF ServeUnlink

-----------------------------------------------------------------------------
\* An operation that begins at the head of its chain keeps the invariant.
LEMMA BeginKeeps ==
    ASSUME TInv, NEW o \in Ops, Begin(o), staging' = staging, Aside,
           InChain', ByEngine', OfRow', OnItsWay'
    PROVE  TInv'
<1>1. op' = o /\ Continue(o) /\ UNCHANGED <<obj, rows, dirRow, disk>>
  BY DEF Begin, Continue
<1>2. ObjMoves
  BY <1>1, SameDrive DEF TInv, Aside
<1>3. Typed'
  BY <1>1, <1>2, SameSets DEF TInv, Typed, ObjMoves, Aside, choice
<1>4. Requests'
  BY <1>1, Continues DEF TInv, Requests, ClientTypeOK
<1>5. RowsSound' /\ PathsApart'
  BY <1>1, <1>2, RowsOnward DEF TInv
<1> QED BY <1>3, <1>4, <1>5 DEF TInv

\* What the configuration may be.
LEMMA EnginesAre ==
    ASSUME Typed
    PROVE  engine \in {"rclone", "http"} /\ mode \in {"trash", "permanent"} /\ owned \in BOOLEAN
BY TransfersAssumption DEF Typed, choice

\* The fields of any row.
LEMMA RowOf ==
    ASSUME TInv, NEW f \in Files
    PROVE  /\ rows[f] \in RowTable /\ rows[f].path \in Path
           /\ rows[f].state = "synced" => rows[f].id \in Ids
BY DEF TInv, RowsSound, Typed, RowTable

\* An upload or an update begins.
LEMMA BeginUploadKeeps ==
    ASSUME TInv, NEW f \in Files, BeginUpload(f), Aside
    PROVE  TInv'
<1> DEFINE kind == IF rows[f].id = 0 THEN "upload" ELSE "update"
           at == IF rows[f].id = 0 /\ rows[f].path.dir # "" THEN "list"
                 ELSE IF engine = "http" THEN "read"
                 ELSE IF rows[f].id # 0 THEN "meta" ELSE "copy"
           hash == disk[rows[f].path]
           path == rows[f].path
           o == [Idle EXCEPT !.kind = kind, !.f = f, !.path = path, !.hash = hash, !.at = at]
<1>1. /\ up /\ rows[f].state \in {"new", "synced"} /\ hash # Nothing /\ staging' = staging
      /\ Begin(o)
  BY DEF BeginUpload, Free
<1>2. path \in Path /\ hash \in Known
  BY <1>1, RowOf, PathKnown DEF TInv
<1>3. /\ rows[f].id = 0 => rows[f].state = "new" /\ kind = "upload"
      /\ rows[f].id # 0 => rows[f].state = "synced" /\ kind = "update"
  BY <1>1 DEF TInv, RowsSound
<1>4. kind \in Kinds /\ at \in Places
  BY DEF Kinds, Places, Http, Rclone, Local
<1>5. /\ at \in {"list", "read", "meta", "copy"}
      /\ at = "list" => kind = "upload" /\ path.dir = "sub"
      /\ at = "copy" => kind = "upload" /\ path.dir = ""
      /\ at = "meta" => kind = "update"
      /\ at = "read" => engine = "http"
      /\ at \in {"meta", "copy"} => engine = "rclone"
  BY <1>2, PathKnown, EnginesAre DEF TInv
<1> HIDE DEF kind, at, hash, path
<1>6. /\ o \in Ops /\ o.kind = kind /\ o.f = f /\ o.path = path /\ o.at = at
      /\ o.found = 0 /\ o.folder = Root
  BY <1>2, <1>4, IdleFields DEF Ops, Idle
<1> HIDE DEF o
<1>7. op' = o /\ rows' = rows
  BY <1>1 DEF Begin, Continue
<1>8. InChain' /\ ByEngine'
  BY <1>3, <1>5, <1>6, <1>7 DEF InChain, ByEngine, Aside, choice
<1>9. OfRow'
  BY <1>1, <1>2, <1>3, <1>5, <1>6, <1>7 DEF OfRow, Aside, path
<1>10. OnItsWay'
  BY <1>3, <1>5, <1>6, <1>7 DEF OnItsWay, PlaceOf
<1> QED BY <1>1, <1>6, <1>8, <1>9, <1>10, BeginKeeps

(* An operation on a synced row that is not an upload. *)
LEMMA BeginOther ==
    ASSUME TInv, NEW f \in Files, up, rows[f].state = "synced",
           NEW kind \in {"download", "rename", "delete"}, NEW at \in {"meta", "bytes", "parents", "list", "remove"},
           kind = "download" <=> at \in {"meta", "bytes"},
           kind = "delete" <=> at = "remove", at = "meta" => engine = "rclone",
           at = "bytes" => engine = "http", NEW path \in Path,
           kind # "rename" => path = rows[f].path,
           kind = "rename" => \A g \in Files : rows[g].state # "gone" => rows[g].path # path,
           Begin([Idle EXCEPT !.kind = kind, !.f = f, !.path = path, !.at = at]),
           staging' = staging, Aside
    PROVE  TInv'
<1> DEFINE o == [Idle EXCEPT !.kind = kind, !.f = f, !.path = path, !.at = at]
<1>1. kind \in Kinds /\ at \in Places
  BY DEF Kinds, Places, Http, Rclone
<1>2. /\ o \in Ops /\ o.kind = kind /\ o.f = f /\ o.path = path /\ o.at = at
      /\ o.found = 0 /\ o.folder = Root
  BY <1>1, IdleFields DEF Ops, Idle
<1> HIDE DEF o
<1>3. op' = o /\ rows' = rows /\ Begin(o)
  BY DEF Begin, Continue, o
<1>4. InChain' /\ ByEngine'
  BY <1>2, <1>3 DEF InChain, ByEngine, Aside, choice
<1>5. OfRow'
  BY <1>2, <1>3 DEF OfRow, Aside
<1>6. OnItsWay'
  BY <1>2, <1>3 DEF OnItsWay
<1> QED BY <1>2, <1>3, <1>4, <1>5, <1>6, BeginKeeps

\* A download begins.
LEMMA BeginDownloadKeeps ==
    ASSUME TInv, NEW f \in Files, BeginDownload(f), Aside
    PROVE  TInv'
<1> DEFINE at == IF engine = "rclone" THEN "meta" ELSE "bytes"
<1>1. /\ up /\ rows[f].state = "synced" /\ staging' = staging
      /\ Begin([Idle EXCEPT !.kind = "download", !.f = f, !.path = rows[f].path, !.at = at])
  BY DEF BeginDownload, Free
<1>2. at \in {"meta", "bytes"} /\ (at = "meta" => engine = "rclone") /\ (at = "bytes" => engine = "http")
  BY EnginesAre DEF TInv
<1>3. rows[f].path \in Path
  BY RowOf
<1> HIDE DEF at
<1> QED BY <1>1, <1>2, <1>3, BeginOther

\* A rename begins: no other row has the new path.
LEMMA BeginRenameKeeps ==
    ASSUME TInv, NEW f \in Files, BeginRename(f), Aside
    PROVE  TInv'
<1>1. PICK p \in Path :
        /\ \A g \in Files : rows[g].state # "gone" => rows[g].path # p
        /\ Begin([Idle EXCEPT !.kind = "rename", !.f = f, !.path = p,
                              !.at = IF p.dir = "" THEN "parents" ELSE "list"])
  BY DEF BeginRename
<1> DEFINE at == IF p.dir = "" THEN "parents" ELSE "list"
<1>2. Begin([Idle EXCEPT !.kind = "rename", !.f = f, !.path = p, !.at = at])
  BY <1>1
<1>3. at \in {"parents", "list"}
  OBVIOUS
<1> HIDE DEF at
<1>4. up /\ rows[f].state = "synced" /\ staging' = staging
  BY DEF BeginRename, Free
<1> QED BY <1>1, <1>2, <1>3, <1>4, BeginOther

\* A deletion begins.
LEMMA BeginDeleteKeeps ==
    ASSUME TInv, NEW f \in Files, BeginDelete(f), Aside
    PROVE  TInv'
<1>1. /\ up /\ rows[f].state = "synced" /\ staging' = staging
      /\ Begin([Idle EXCEPT !.kind = "delete", !.f = f, !.path = rows[f].path, !.at = "remove"])
  BY DEF BeginDelete, Free
<1> QED BY <1>1, RowOf, BeginOther

\* The creation of the folder begins.
LEMMA BeginMkdirKeeps ==
    ASSUME TInv, BeginMkdir, Aside
    PROVE  TInv'
<1> DEFINE o == [Idle EXCEPT !.kind = "mkdir", !.f = 2, !.path = rows[2].path, !.at = "list"]
<1>1. up /\ staging' = staging /\ Begin(o)
  BY DEF BeginMkdir, Free
<1>2. 2 \in Files /\ rows[2].path \in Path
  BY RowOf DEF Files
<1>3. "mkdir" \in Kinds /\ "list" \in Places
  BY DEF Kinds, Places, Http
<1>4. o \in Ops /\ o.kind = "mkdir" /\ o.f = 2 /\ o.path = rows[2].path /\ o.at = "list" /\ o.found = 0
  BY <1>2, <1>3, IdleFields DEF Ops, Idle
<1> HIDE DEF o
<1>5. op' = o
  BY <1>1 DEF Begin, Continue
<1>6. InChain' /\ ByEngine' /\ OfRow' /\ OnItsWay'
  BY <1>1, <1>2, <1>4, <1>5 DEF InChain, ByEngine, OfRow, OnItsWay, Aside
<1> QED BY <1>1, <1>4, <1>6, BeginKeeps

\* The row of a file that was never synced goes with the file.
LEMMA RenameUnsyncedKeeps ==
    ASSUME TInv, NEW f \in Files, RenameUnsynced(f), Aside
    PROVE  TInv'
<1> DEFINE r == [rows[f] EXCEPT !.state = "gone"]
<1>1. /\ op.kind = "none" /\ rows' = [rows EXCEPT ![f] = r]
      /\ UNCHANGED <<client, obj, dirRow, disk, staging, op>>
  BY DEF RenameUnsynced, Free, TInv, Typed
<1>2. rows[f] \in RowTable /\ rows \in [Files -> RowTable]
  BY RowOf DEF TInv, Typed
<1>3. r \in RowTable /\ r.state = "gone" /\ r.id = rows[f].id
  BY <1>2 DEF RowTable
<1> HIDE DEF r
<1>4. \A g \in Files : rows'[g] = IF g = f THEN r ELSE rows[g]
  BY <1>1, <1>2
<1>5. Typed'
  <2>1. rows' \in [Files -> RowTable]
    BY <1>1, <1>2, <1>3
  <2> QED BY <1>1, <2>1, SameSets DEF TInv, Typed, Aside, choice
<1>6. Requests'
  BY <1>1 DEF TInv, Requests, ClientTypeOK, client
<1>7. RowsSound'
  BY <1>1, <1>3, <1>4 DEF TInv, RowsSound, FileOrGone
<1>8. PathsApart'
  BY <1>3, <1>4 DEF TInv, PathsApart
<1>9. op.at = "none"
  BY <1>1 DEF TInv, InChain
<1>10. InChain' /\ ByEngine' /\ OfRow' /\ OnItsWay'
  BY <1>1, <1>9 DEF TInv, InChain, ByEngine, OfRow, OnItsWay
<1> QED BY <1>5, <1>6, <1>7, <1>8, <1>10 DEF TInv

-----------------------------------------------------------------------------
\* When a user acts there is one version more.
LEMMA MoreIsKnown ==
    ASSUME Typed, acts' = acts + 1
    PROVE  /\ Known \subseteq Known' /\ Objects \subseteq Objects' /\ RowTable \subseteq RowTable'
           /\ Ops \subseteq Ops' /\ AFile \subseteq AFile'
           /\ \A c \in Known : [c EXCEPT !.v = acts + 2] \in Known'
<1>1. acts \in Nat
  BY TransfersAssumption DEF Typed
<1>2. Known \subseteq Known' /\ \A c \in Known : [c EXCEPT !.v = acts + 2] \in Known'
  BY <1>1 DEF Known
<1> QED BY <1>2 DEF Objects, RowTable, Ops, AFile

\* A user's act on Drive keeps the invariant if ids keep their kinds.
LEMMA OnDriveKeeps ==
    ASSUME TInv, OnDrive, ObjMoves
    PROVE  TInv'
<1>1. /\ acts' = acts + 1 /\ acts < MaxActs
      /\ UNCHANGED <<client, engine, mode, owned, rows, dirRow, disk, staging, op, up>>
  BY DEF OnDrive, Act, choice, local
<1>2. /\ Known \subseteq Known' /\ RowTable \subseteq RowTable' /\ Ops \subseteq Ops'
  BY <1>1, MoreIsKnown DEF TInv
<1>3. Typed'
  <2>1. acts' \in 0..MaxActs
    BY <1>1, TransfersAssumption DEF TInv, Typed
  <2>2. rows' \in [Files -> RowTable'] /\ op' \in Ops' /\ staging' \in Known' \cup {Nothing, Torn}
        /\ disk' \in [Path -> Known' \cup {Nothing}]
    BY <1>1, <1>2 DEF TInv, Typed
  <2> QED BY <1>1, <2>1, <2>2 DEF TInv, Typed, ObjMoves, choice
<1>4. Requests'
  BY <1>1 DEF TInv, Requests, ClientTypeOK, client
<1>5. RowsSound' /\ PathsApart'
  BY <1>1, RowsOnward DEF TInv
<1>6. InChain' /\ ByEngine' /\ OfRow'
  BY <1>1 DEF TInv, InChain, ByEngine, OfRow
<1>7. OnItsWay'
  BY <1>1, <1>2, StillOnItsWay
<1> QED BY <1>3, <1>4, <1>5, <1>6, <1>7 DEF TInv

(* A user touches one object: an unused id, or a file that stays one or    *)
(* goes.                                                                   *)
LEMMA ObjTouched ==
    ASSUME Typed, acts' = acts + 1, NEW i \in Ids, NEW o \in Objects', obj' = [obj EXCEPT ![i] = o],
           obj[i].kind = "none" \/ (obj[i].kind = "file" /\ o.kind \in {"file", "deleted"})
    PROVE  ObjMoves
<1>1. obj' \in [Ids -> Objects']
  BY MoreIsKnown DEF Typed
<1>2. \A j \in Ids : obj'[j] = IF j = i THEN o ELSE obj[j]
  BY DEF Typed
<1> QED BY <1>1, <1>2, KindsOf DEF Typed, ObjMoves, KindsKept

(* Edits, renames, moves, trashing and deletion on Drive keep the          *)
(* invariant.                                                              *)
LEMMA DriveChangesKeep ==
    ASSUME TInv, DriveEdits \/ DriveRenames \/ DriveMoves \/ DriveTrashes \/ DriveDeletes
    PROVE  TInv'
<1> USE DEF TInv
<1>1. ASSUME NEW i \in Ids, obj[i].kind = "file", OnDrive, NEW o \in Objects', o.kind \in {"file", "deleted"},
             obj' = [obj EXCEPT ![i] = o]
      PROVE  TInv'
  <2>1. acts' = acts + 1
    BY <1>1 DEF OnDrive, Act
  <2>2. ObjMoves
    BY <1>1, <2>1, ObjTouched
  <2> QED BY <1>1, <2>2, OnDriveKeeps
<1>2. ASSUME NEW i \in Ids, obj[i].kind = "file", OnDrive
      PROVE  /\ obj[i] \in AFile /\ AFile \subseteq AFile' /\ AFile' \subseteq Objects'
             /\ Known \subseteq Known' /\ Deleted \in Objects' /\ Deleted.kind = "deleted"
             /\ \A c \in Known : [c EXCEPT !.v = acts + 2] \in Known'
             /\ obj \in [Ids -> Objects]
  <2>1. acts' = acts + 1
    BY <1>2 DEF OnDrive, Act
  <2>2. obj[i] \in AFile
    BY <1>2, KindsOf DEF Typed
  <2>3. AFile' \subseteq Objects' /\ Deleted \in Objects' /\ Deleted.kind = "deleted"
    BY DEF Objects, Deleted, NoObject
  <2> QED BY <2>1, <2>2, <2>3, MoreIsKnown DEF Typed
<1>3. CASE DriveEdits
  <2>1. PICK i \in Ids : /\ obj[i].kind = "file" /\ OnDrive
                         /\ obj' = [obj EXCEPT ![i].body.v = acts + 2]
    BY <1>3 DEF DriveEdits
  <2> DEFINE b == [obj[i].body EXCEPT !.v = acts + 2]
             o == [obj[i] EXCEPT !.body = b]
  <2>2. b \in Known'
    BY <1>2, <2>1, FileSet
  <2>3. obj' = [obj EXCEPT ![i] = o]
    BY <1>2, <2>1
  <2> HIDE DEF b
  <2>4. o \in AFile' /\ o.kind = "file"
    BY <1>2, <2>1, <2>2 DEF AFile
  <2> HIDE DEF o
  <2> QED BY <1>1, <1>2, <2>1, <2>3, <2>4
<1>4. CASE DriveRenames
  <2>1. PICK i \in Ids, n \in Names : /\ obj[i].kind = "file" /\ OnDrive
                                      /\ obj' = [obj EXCEPT ![i].name = n]
    BY <1>4 DEF DriveRenames
  <2> DEFINE o == [obj[i] EXCEPT !.name = n]
  <2>2. obj' = [obj EXCEPT ![i] = o]
    BY <1>2, <2>1
  <2>3. n \in Texts
    BY DEF Texts
  <2>4. o \in AFile /\ o.kind = "file"
    BY <1>2, <2>1, <2>3, FileSet DEF AFile
  <2> HIDE DEF o
  <2> QED BY <1>1, <1>2, <2>1, <2>2, <2>4
<1>5. CASE DriveMoves
  <2>1. PICK i \in Ids, p \in {Root} \cup Ids : /\ obj[i].kind = "file" /\ OnDrive
                                                /\ obj' = [obj EXCEPT ![i].parents = {p}]
    BY <1>5 DEF DriveMoves
  <2> DEFINE o == [obj[i] EXCEPT !.parents = {p}]
  <2>2. obj' = [obj EXCEPT ![i] = o]
    BY <1>2, <2>1
  <2>3. {p} \in Parents
    BY DEF Parents
  <2>4. o \in AFile /\ o.kind = "file"
    BY <1>2, <2>1, <2>3, FileSet DEF AFile
  <2> HIDE DEF o
  <2> QED BY <1>1, <1>2, <2>1, <2>2, <2>4
<1>6. CASE DriveTrashes
  <2>1. PICK i \in Ids : /\ obj[i].kind = "file" /\ OnDrive
                         /\ obj' = [obj EXCEPT ![i].live = FALSE]
    BY <1>6 DEF DriveTrashes
  <2> DEFINE o == [obj[i] EXCEPT !.live = FALSE]
  <2>2. obj' = [obj EXCEPT ![i] = o]
    BY <1>2, <2>1
  <2>3. o \in AFile /\ o.kind = "file"
    BY <1>2, <2>1, FileSet DEF AFile
  <2> HIDE DEF o
  <2> QED BY <1>1, <1>2, <2>1, <2>2, <2>3
<1>7. CASE DriveDeletes
  <2>1. PICK i \in Ids : /\ obj[i].kind = "file" /\ OnDrive
                         /\ obj' = [obj EXCEPT ![i] = Deleted]
    BY <1>7 DEF DriveDeletes
  <2> QED BY <1>1, <1>2, <2>1
<1> QED BY <1>3, <1>4, <1>5, <1>6, <1>7

\* So does what the user adds there.
LEMMA DriveAddsKeeps ==
    ASSUME TInv, DriveAdds
    PROVE  TInv'
<1>1. HasFresh /\ OnDrive /\ acts' = acts + 1
  BY DEF DriveAdds, OnDrive, Act
<1>2. Fresh \in Ids /\ obj[Fresh] = NoObject /\ obj[Fresh].kind = "none"
  <2>1. Fresh \in Ids /\ obj[Fresh] = NoObject
    BY <1>1, FreshIsFresh, TransfersAssumption
  <2> QED BY <2>1, KindsOf DEF TInv, Typed
<1>3. ASSUME NEW o \in Objects', obj' = [obj EXCEPT ![Fresh] = o]
      PROVE  TInv'
  BY <1>1, <1>2, <1>3, ObjTouched, OnDriveKeeps DEF TInv
<1>4. \A n \in Names : File(n, Root, [of |-> Guest, v |-> acts + 2]) \in Objects'
  <2>1. acts \in Nat /\ acts' = acts + 1
    BY <1>1, TransfersAssumption DEF TInv, Typed
  <2>2. [of |-> Guest, v |-> acts + 2] \in Known'
    BY <2>1 DEF Known
  <2> QED BY <2>2 DEF File, Objects, AFile, Texts, Parents
<1>5. SubFolder \in Objects'
  BY DEF Objects
<1> QED BY <1>3, <1>4, <1>5 DEF DriveAdds

\* And what the user does locally: no edit is torn.
LEMMA LocalChangesKeep ==
    ASSUME TInv, EditsLocally \/ MovesLocally \/ DeletesLocally
    PROVE  TInv'
<1>1. Locally
  BY DEF EditsLocally, MovesLocally, DeletesLocally
<1>2. /\ acts' = acts + 1 /\ acts < MaxActs
      /\ UNCHANGED <<client, engine, mode, owned, obj, rows, dirRow, staging, op, up>>
  BY <1>1 DEF Locally, Act, choice
<1>3. /\ Known \subseteq Known' /\ RowTable \subseteq RowTable' /\ Ops \subseteq Ops'
      /\ Objects \subseteq Objects' /\ \A c \in Known : [c EXCEPT !.v = acts + 2] \in Known'
  BY <1>2, MoreIsKnown DEF TInv
<1>4. disk \in [Path -> Known' \cup {Nothing}]
  BY <1>3 DEF TInv, Typed
<1>5. disk' \in [Path -> Known' \cup {Nothing}]
  <2>1. CASE EditsLocally
    <3>1. PICK p \in Path : disk[p] # Nothing /\ disk' = [disk EXCEPT ![p].v = acts + 2]
      BY <2>1 DEF EditsLocally
    <3>2. disk[p] \in Known
      BY <3>1, PathKnown DEF TInv
    <3> DEFINE c == [disk[p] EXCEPT !.v = acts + 2]
    <3>3. c \in Known' /\ disk' = [disk EXCEPT ![p] = c]
      BY <1>3, <1>4, <3>1, <3>2
    <3> HIDE DEF c
    <3> QED BY <1>4, <3>3
  <2>2. CASE MovesLocally
    <3>1. PICK p \in Path, q \in Path : disk' = [disk EXCEPT ![p] = Nothing, ![q] = disk[p]]
      BY <2>2 DEF MovesLocally
    <3> QED BY <1>4, <3>1
  <2>3. CASE DeletesLocally
    BY <1>4, <2>3 DEF DeletesLocally
  <2> QED BY <2>1, <2>2, <2>3
<1>6. Typed'
  <2>1. acts' \in 0..MaxActs
    BY <1>2, TransfersAssumption DEF TInv, Typed
  <2>2. rows' \in [Files -> RowTable'] /\ op' \in Ops' /\ staging' \in Known' \cup {Nothing, Torn}
        /\ obj' \in [Ids -> Objects']
    BY <1>2, <1>3 DEF TInv, Typed
  <2> QED BY <1>2, <1>5, <2>1, <2>2 DEF TInv, Typed, choice
<1>7. ObjMoves
  BY <1>2, <1>6, KindsOf DEF TInv, Typed, ObjMoves, KindsKept
<1>8. Requests'
  BY <1>2 DEF TInv, Requests, ClientTypeOK, client
<1>9. RowsSound' /\ PathsApart'
  BY <1>2, <1>7, RowsOnward DEF TInv
<1>10. InChain' /\ ByEngine' /\ OfRow'
  BY <1>2 DEF TInv, InChain, ByEngine, OfRow
<1>11. OnItsWay'
  BY <1>2, <1>3, <1>7, StillOnItsWay
<1> QED BY <1>6, <1>8, <1>9, <1>10, <1>11 DEF TInv

-----------------------------------------------------------------------------
\* A killed daemon leaves rows and disk as they are.
LEMMA CrashKeeps ==
    ASSUME TInv, Crash
    PROVE  TInv'
<1>1. /\ op' = Idle /\ stage' = "none" /\ attempt' = 0 /\ tokens' = tokens /\ up' = FALSE
      /\ UNCHANGED <<engine, mode, owned, obj, rows, dirRow, disk, staging, acts>>
  BY DEF Crash, Close, choice, local
<1>2. Typed'
  BY <1>1, SameSets, IdleFields DEF TInv, Typed, choice
<1>3. Requests'
  <2>1. "none" \notin Http
    BY DEF Http
  <2> QED
    BY <1>1, <2>1, IdleFields, DriveClientAssumption DEF TInv, Requests, ClientTypeOK, Stages
<1>4. RowsSound' /\ PathsApart'
  BY <1>1 DEF TInv, RowsSound, FileOrGone, PathsApart
<1> QED BY <1>1, <1>2, <1>3, <1>4, IdleAgain DEF TInv

\* The next one discards the staging file (cleanup_orphans).
LEMMA StartKeeps ==
    ASSUME TInv, Start
    PROVE  TInv'
<1>1. /\ ~up /\ up' = TRUE /\ tokens' = Burst /\ staging' = Nothing
      /\ UNCHANGED <<stage, attempt, engine, mode, owned, obj, rows, dirRow, disk, op, acts>>
  BY DEF Start, choice
<1>2. op.kind = "none" /\ op.at = "none"
  BY <1>1 DEF TInv, OfRow, InChain
<1>3. Typed'
  BY <1>1, SameSets DEF TInv, Typed, choice
<1>4. Requests'
  BY <1>1, DriveClientAssumption DEF TInv, Requests, ClientTypeOK
<1>5. RowsSound' /\ PathsApart'
  BY <1>1 DEF TInv, RowsSound, FileOrGone, PathsApart
<1>6. InChain' /\ ByEngine' /\ OfRow' /\ OnItsWay'
  BY <1>1, <1>2 DEF TInv, InChain, ByEngine, OfRow, OnItsWay
<1> QED BY <1>3, <1>4, <1>5, <1>6 DEF TInv

\* Tokens and other requests touch only the client.
LEMMA PaceKeeps ==
    ASSUME TInv, Pace(Acquire) \/ Pace(OtherRequest)
    PROVE  TInv'
<1>1. UNCHANGED <<engine, mode, owned, obj, rows, dirRow, disk, staging, op, up, acts>>
  BY DEF Pace, choice, local
<1>2. Typed'
  BY <1>1, SameSets DEF TInv, Typed, choice
<1>3. Requests'
  <2>1. tokens' \in 0..Burst
    BY DriveClientAssumption DEF Pace, Acquire, OtherRequest, Refilled, TInv, Requests,
       ClientTypeOK
  <2> QED BY <1>1, <2>1 DEF Pace, Acquire, OtherRequest, TInv, Requests, ClientTypeOK, Stages
<1>4. RowsSound' /\ PathsApart'
  BY <1>1 DEF TInv, RowsSound, FileOrGone, PathsApart
<1>5. InChain' /\ ByEngine' /\ OfRow'
  BY <1>1 DEF TInv, InChain, ByEngine, OfRow
<1>6. OnItsWay'
  <2>1. ObjMoves
    BY <1>1, SameDrive DEF TInv
  <2> QED BY <1>1, <2>1, SameSets, StillOnItsWay
<1> QED BY <1>2, <1>3, <1>4, <1>5, <1>6 DEF TInv

\* Every step of an operation keeps the invariant.
LEMMA OpStepKeeps ==
    ASSUME TInv, OpStep, Aside
    PROVE  TInv'
BY UnservedKeeps, ListKeeps, PostKeeps, PersistKeeps, MetaKeeps, RunCopyKeeps, CopyFailsKeeps,
   ProbeKeeps, ReadKeeps, CreateKeeps, PatchKeeps, LinkKeeps, RecordKeeps, FetchKeeps, BytesKeeps,
   FillKeeps, StagingFailsKeeps, PromoteKeeps, HashKeeps, ParentsKeeps, MoveKeeps, SettleKeeps,
   RemoveKeeps, MembershipsKeeps, UnlinkKeeps, DropKeeps DEF OpStep

\* So does every beginning of one.
LEMMA BeginStepKeeps ==
    ASSUME TInv, BeginStep, Aside
    PROVE  TInv'
BY BeginUploadKeeps, BeginDownloadKeeps, BeginRenameKeeps, RenameUnsyncedKeeps,
   BeginDeleteKeeps,
   BeginMkdirKeeps DEF BeginStep

\* Every step of the system keeps the invariant.
LEMMA TypedKept ==
    ASSUME TInv, [Next]_vars
    PROVE  TInv'
<1>1. CASE ByDaemon
  BY <1>1, OpStepKeeps, BeginStepKeeps, PaceKeeps, CrashKeeps, StartKeeps DEF ByDaemon, Aside
<1>2. CASE EditsLocally \/ MovesLocally \/ DeletesLocally
  BY <1>2, LocalChangesKeep
<1>3. CASE DriveEdits \/ DriveRenames \/ DriveMoves \/ DriveTrashes \/ DriveDeletes \/ DriveAdds
  BY <1>3, DriveChangesKeep, DriveAddsKeeps
<1>4. CASE UNCHANGED vars
  <2>1. UNCHANGED <<tokens, stage, attempt, engine, mode, owned, obj, rows, dirRow, disk, staging, op, up, acts>>
    BY <1>4 DEF vars, client, choice, local
  <2>2. Typed'
    BY <2>1, SameSets DEF TInv, Typed, choice
  <2>3. Requests' /\ RowsSound' /\ PathsApart' /\ InChain' /\ ByEngine' /\ OfRow'
    BY <2>1 DEF TInv, Requests, ClientTypeOK, RowsSound, FileOrGone, PathsApart, InChain,
       ByEngine, OfRow
  <2>4. ObjMoves
    BY <2>1, SameDrive DEF TInv
  <2>5. OnItsWay'
    BY <2>1, <2>4, SameSets, StillOnItsWay
  <2> QED BY <2>2, <2>3, <2>5 DEF TInv
<1> QED BY <1>1, <1>2, <1>3, <1>4 DEF Next

\* It holds at first.
LEMMA TypedAtFirst ==
    ASSUME Init
    PROVE  TInv
<1>1. PICK s \in Setups :
         /\ engine = s[1] /\ mode = s[2] /\ owned = s[3]
         /\ obj = [i \in Ids |-> IF i = 1 THEN File(s[4], Root, [of |-> 1, v |-> 0]) ELSE NoObject]
         /\ rows = <<[state |-> "synced", id |-> 1, path |-> At("", FirstName), body |-> [of |-> 1, v |-> 0]],
                     [state |-> "new", id |-> 0, path |-> At("sub", FirstName), body |-> Nothing]>>
         /\ disk = [p \in Path |-> IF p = At("", FirstName) THEN [of |-> 1, v |-> 1]
                                   ELSE IF p = At("sub", FirstName) THEN [of |-> 2, v |-> 0] ELSE Nothing]
  BY DEF Init
<1>2. dirRow = 0 /\ staging = Nothing /\ op = Idle /\ up = TRUE /\ acts = 0 /\ ClientInit
  BY DEF Init
<1>3. [of |-> 1, v |-> 0] \in Known /\ [of |-> 1, v |-> 1] \in Known /\ [of |-> 2, v |-> 0] \in Known
  BY <1>2 DEF Known, Files, Guest
<1>4. At("", FirstName) \in Path /\ At("sub", FirstName) \in Path /\ At("", FirstName) # At("sub", FirstName)
  BY TransfersAssumption DEF At, Path
<1>5. s[4] \in Texts /\ 1 \in Ids
  <2>1. s \in {"rclone", "http"} \X {"trash", "permanent"} \X BOOLEAN \X Names
    BY TransfersAssumption
  <2>2. 1 \in Ids
    BY TransfersAssumption DEF Ids
  <2> QED BY <2>1, <2>2 DEF Texts
<1>6. File(s[4], Root, [of |-> 1, v |-> 0]) \in Objects /\ File(s[4], Root, [of |-> 1, v |-> 0]).kind = "file"
  BY <1>3, <1>5 DEF File, Objects, AFile, Parents
<1>7. obj \in [Ids -> Objects] /\ obj[1].kind = "file"
  BY <1>1, <1>5, <1>6 DEF Objects
<1>8. /\ rows \in [Files -> RowTable]
      /\ rows[1].state = "synced" /\ rows[1].id = 1 /\ rows[1].path = At("", FirstName)
      /\ rows[2].state = "new" /\ rows[2].id = 0 /\ rows[2].path = At("sub", FirstName)
  <2> DEFINE r1 == [state |-> "synced", id |-> 1, path |-> At("", FirstName), body |-> [of |-> 1, v |-> 0]]
             r2 == [state |-> "new", id |-> 0, path |-> At("sub", FirstName), body |-> Nothing]
  <2>1. r1 \in RowTable /\ r2 \in RowTable
    BY <1>3, <1>4, <1>5 DEF RowTable
  <2>2. rows = <<r1, r2>>
    BY <1>1
  <2>3. rows \in [Files -> RowTable] /\ rows[1] = r1 /\ rows[2] = r2
    <3> HIDE DEF r1, r2
    <3> QED BY <2>1, <2>2 DEF Files
  <2>4. /\ r1.state = "synced" /\ r1.id = 1 /\ r1.path = At("", FirstName)
        /\ r2.state = "new" /\ r2.id = 0 /\ r2.path = At("sub", FirstName)
    OBVIOUS
  <2> HIDE DEF r1, r2
  <2> QED BY <2>3, <2>4
<1>9. disk \in [Path -> Known \cup {Nothing}]
  BY <1>1, <1>3
<1>10. Typed
  <2>1. choice = <<s[1], s[2], s[3]>>
    BY <1>1 DEF choice
  <2>2. acts \in 0..MaxActs /\ up \in BOOLEAN /\ dirRow \in Ids \cup {0}
    BY <1>2, TransfersAssumption
  <2>3. op \in Ops /\ staging \in Known \cup {Nothing, Torn}
    BY <1>2, IdleFields
  <2> QED BY <1>7, <1>8, <1>9, <2>1, <2>2, <2>3 DEF Typed
<1>11. Requests
  BY <1>2, IdleFields, DriveClientAssumption DEF Requests, ClientTypeOK, ClientInit, Stages,
     Http
<1>12. RowsSound /\ PathsApart
  <2>1. \A f \in Files : f = 1 \/ f = 2
    BY DEF Files
  <2> QED BY <1>4, <1>7, <1>8, <2>1 DEF RowsSound, PathsApart, FileOrGone
<1>13. InChain /\ ByEngine /\ OfRow /\ OnItsWay
  BY <1>2, IdleFields DEF InChain, ByEngine, OfRow, OnItsWay
<1> QED BY <1>10, <1>11, <1>12, <1>13 DEF TInv

(* The typed invariant: contents, rows and the operation under way fit     *)
(* together in every reachable state, through all failures and crashes.    *)
THEOREM Kept == Spec => []TInv
BY TypedAtFirst, TypedKept, PTL DEF Spec

(* Every reachable state is well typed; a request is open exactly when the *)
(* operation waits for Drive, and a synced row has an id.                  *)
THEOREM TypeCorrect == Spec => []TypeOK
<1>1. TInv => TypeOK
  <2> SUFFICES ASSUME TInv PROVE TypeOK
    OBVIOUS
  <2> USE DEF TInv
  <2>1. Known \subseteq Content
    BY KnownContent DEF Typed
  <2>2. obj \in [Ids -> [kind : {"none", "file", "folder", "deleted"}, name : Names \cup {"", "sub"},
                         parents : SUBSET (Ids \cup {Root}), body : Content \cup {Nothing},
                         live : BOOLEAN]]
    <3> SUFFICES ASSUME NEW o \in Objects
                 PROVE  o \in [kind : {"none", "file", "folder", "deleted"}, name : Names \cup {"", "sub"},
                               parents : SUBSET (Ids \cup {Root}), body : Content \cup {Nothing},
                               live : BOOLEAN]
      BY DEF Typed
    <3>1. CASE o \in AFile
      BY <2>1, <3>1 DEF AFile, Texts, Parents
    <3>2. CASE o \in {NoObject, Deleted, SubFolder}
      <4>1. NoObject \in [kind : {"none"}, name : {""}, parents : {{}}, body : {Nothing}, live : {FALSE}]
        BY DEF NoObject
      <4>2. Deleted \in [kind : {"deleted"}, name : {""}, parents : {{}}, body : {Nothing}, live : {FALSE}]
        BY DEF NoObject, Deleted
      <4>3. SubFolder \in [kind : {"folder"}, name : {"sub"}, parents : {{Root}}, body : {Nothing}, live : {TRUE}]
        BY DEF SubFolder
      <4> QED BY <3>2, <4>1, <4>2, <4>3
    <3> QED BY <3>1, <3>2 DEF Objects
  <2>3. rows \in [Files -> [state : {"new", "synced", "skipped", "gone"}, id : Ids \cup {0},
                            path : Path, body : Content \cup {Nothing}]]
    <3>1. RowTable \subseteq [state : {"new", "synced", "skipped", "gone"}, id : Ids \cup {0},
                              path : Path, body : Content \cup {Nothing}]
      BY <2>1 DEF RowTable
    <3> QED BY <3>1 DEF Typed
  <2>4. disk \in [Path -> Content \cup {Nothing, Torn}] /\ staging \in Content \cup {Nothing, Torn}
    BY <2>1 DEF Typed
  <2>5. op.at \in Http \cup Rclone \cup Local \cup {"none"}
    BY DEF Typed, Ops, Places
  <2> QED BY <2>2, <2>3, <2>4, <2>5 DEF TypeOK, Typed, Requests, RowsSound, OfRow
<1> QED BY <1>1, Kept, PTL

(* No half download is ever in the tree: only a filled staging file is     *)
(* renamed, and a discarded or orphaned one never is                       *)
(* (engine/staging.rs:3-8).                                                *)
THEOREM FilesAreWhole == Spec => []WholeFiles
<1>1. TInv => WholeFiles
  BY DEF TInv, Typed, WholeFiles, Known, Torn, Nothing, Files, Guest
<1> QED BY <1>1, Kept, PTL

-----------------------------------------------------------------------------
\* The operation is the same, however far it has come.
Keeping == op'.kind = op.kind /\ op'.f = op.f /\ op'.path = op.path /\ op'.hash = op.hash

\* It has failed, or its request is tried again.
Ends == op' = Idle \/ (op' = op /\ op.at \in Http /\ UNCHANGED local)

(* A failed request ends the operation or is tried again; folder and disk  *)
(* stay.                                                                   *)
LEMMA FailsAre ==
    ASSUME TInv, NEW failure, FailsWith(failure), stage = "ready"
    PROVE  Ends /\ UNCHANGED <<dirRow, disk>>
BY DEF FailsWith, Fails, Continue, Ends, TInv, Requests, local

\* The operation goes on as itself, and has forgotten what it found.
LEMMA GoOnIs ==
    ASSUME TInv, NEW place \in Places, GoOn(place)
    PROVE  Keeping /\ op'.at = place /\ op'.found = 0 /\ op'.bytes = Nothing
BY GoOnFields DEF GoOn, Continue, Keeping

(* What the steps of an operation make of it.                              *)
LEMMA AfterList ==
    ASSUME TInv
    PROVE  /\ ServeList => Keeping /\ op'.at \in {"list", "post", "persist"}
                           /\ UNCHANGED <<obj, rows, disk, staging>>
           /\ ServePost => \/ Ends /\ unheard'
                           \/ Keeping /\ op'.at = "persist" /\ UNCHANGED <<rows, disk, staging, unheard>>
           /\ Persist   => /\ op' = Idle \/ (Keeping /\ op'.at \in {"parents", "copy", "read"}
                                             /\ (op'.at \in {"copy", "read"} => op.kind = "upload"))
                           /\ UNCHANGED <<obj, rows, disk, staging>>
<1>1. ASSUME ServeList
      PROVE  Keeping /\ op'.at \in {"list", "post", "persist"} /\ UNCHANGED <<obj, rows, disk, staging>>
  <2>1. op.at = "list" /\ UNCHANGED <<obj, rows, disk, staging>>
    BY <1>1 DEF ServeList, Ready, OnlyDrive, local
  <2>2. op \in Ops
    BY <2>1, AtWork
  <2> QED BY <1>1, <2>1, <2>2 DEF ServeList, Continue, Keeping, Ops
<1>2. ASSUME ServePost
      PROVE  \/ Ends /\ unheard'
             \/ Keeping /\ op'.at = "persist" /\ UNCHANGED <<rows, disk, staging, unheard>>
  <2>1. op.at = "post" /\ stage = "ready"
    BY <1>2 DEF ServePost, Ready
  <2>2. op \in Ops
    BY <2>1, AtWork
  <2>3. CASE AnswerLost /\ unheard' = TRUE
    BY <2>1, <2>3, FailsAre DEF AnswerLost
  <2>4. CASE Continue([op EXCEPT !.folder = Fresh, !.at = "persist"]) /\ OnlyDrive /\ UNCHANGED unheard
    BY <2>2, <2>4 DEF Continue, Keeping, OnlyDrive, local, Ops
  <2> QED BY <1>2, <2>3, <2>4 DEF ServePost
<1>3. ASSUME Persist
      PROVE  /\ op' = Idle \/ (Keeping /\ op'.at \in {"parents", "copy", "read"}
                               /\ (op'.at \in {"copy", "read"} => op.kind = "upload"))
             /\ UNCHANGED <<obj, rows, disk, staging>>
  <2>1. op.at = "persist"
    BY <1>3 DEF Persist
  <2>2. op \in Ops /\ op.kind \in {"mkdir", "upload", "rename"}
    BY <2>1, AtWork DEF TInv, InChain
  <2> QED BY <1>3, <2>2 DEF Persist, Continue, Keeping, Ops
<1> QED BY <1>1, <1>2, <1>3

\* What the steps of an upload or an update make of it.
LEMMA AfterUpload ==
    ASSUME TInv
    PROVE  /\ RunCopy     => Keeping /\ op'.at = "probe" /\ op'.folder = op.folder /\ op'.name = op.name
                             /\ UNCHANGED <<rows, disk, staging>>
           /\ CopyFails   => op' = Idle /\ UNCHANGED disk
           /\ RunProbe    => /\ op' = Idle \/ (Keeping /\ op'.at \in {"link", "record"}
                                               /\ UNCHANGED <<rows, staging>>)
                             /\ UNCHANGED <<obj, disk>>
           /\ Read        => /\ op' = Idle \/ (Keeping /\ op'.at \in {"create", "patch"}
                                               /\ op'.bytes = disk[op.path] /\ UNCHANGED <<rows, staging>>)
                             /\ UNCHANGED <<obj, disk>>
           /\ ServeCreate => /\ Ends \/ (Keeping /\ op'.at = "link" /\ op'.found = Fresh
                                         /\ UNCHANGED <<rows, staging>>)
                             /\ UNCHANGED disk
           /\ ServePatch  => /\ Ends \/ (Keeping /\ op'.at = "record" /\ UNCHANGED <<rows, staging>>)
                             /\ UNCHANGED disk
           /\ Link        => Keeping /\ op'.at = "record" /\ UNCHANGED <<obj, disk, staging>>
           /\ Record      => op' = Idle /\ UNCHANGED <<obj, disk, staging>>
<1> USE DEF OnlyDrive, local, OnlyRow, Ready
<1>1. ASSUME RunCopy
      PROVE  Keeping /\ op'.at = "probe" /\ op'.folder = op.folder /\ op'.name = op.name
             /\ UNCHANGED <<rows, disk, staging>>
  <2>1. op \in Ops
    BY <1>1, AtWork DEF RunCopy
  <2> QED BY <1>1, <2>1 DEF RunCopy, Go, Continue, Keeping, Ops
<1>2. ASSUME CopyFails
      PROVE  op' = Idle /\ UNCHANGED disk
  BY <1>2 DEF CopyFails, Fails, Continue
<1>3. ASSUME RunProbe
      PROVE  /\ op' = Idle \/ (Keeping /\ op'.at \in {"link", "record"} /\ UNCHANGED <<rows, staging>>)
             /\ UNCHANGED <<obj, disk>>
  <2>1. op \in Ops
    BY <1>3, AtWork DEF RunProbe
  <2>2. CASE Fails
    BY <1>3, <2>2 DEF RunProbe, Fails, Continue
  <2>3. ASSUME NEW i \in Ids, op' = [op EXCEPT !.found = i, !.at = "link"]
        PROVE  Keeping /\ op'.at = "link"
    BY <2>1, <2>3 DEF Keeping, Ops
  <2>4. "record" \in Places
    BY DEF Places, Local
  <2>5. ASSUME op' = [Idle EXCEPT !.kind = op.kind, !.f = op.f, !.path = op.path, !.hash = op.hash, !.at = "record"]
        PROVE  Keeping /\ op'.at = "record"
    BY <2>4, <2>5, GoOnFields DEF Keeping
  <2>6. CASE \E i \in Named(op.folder, DestName) :
             /\ Continue(IF op.kind = "upload" THEN [op EXCEPT !.found = i, !.at = "link"]
                                               ELSE [Idle EXCEPT !.kind = op.kind, !.f = op.f,
                                                    !.path = op.path, !.hash = op.hash, !.at = "record"])
             /\ OnlyDrive
    BY <1>3, <2>3, <2>5, <2>6 DEF RunProbe, Continue, Named
  <2> QED BY <1>3, <2>2, <2>6 DEF RunProbe
<1>4. ASSUME Read
      PROVE  /\ op' = Idle \/ (Keeping /\ op'.at \in {"create", "patch"} /\ op'.bytes = disk[op.path]
                               /\ UNCHANGED <<rows, staging>>)
             /\ UNCHANGED <<obj, disk>>
  <2>1. op \in Ops
    BY <1>4, AtWork DEF Read
  <2> QED BY <1>4, <2>1 DEF Read, Fails, Continue, Keeping, Ops
<1>5. ASSUME ServeCreate
      PROVE  /\ Ends \/ (Keeping /\ op'.at = "link" /\ op'.found = Fresh /\ UNCHANGED <<rows, staging>>)
             /\ UNCHANGED disk
  <2>1. op \in Ops /\ stage = "ready"
    BY <1>5, AtWork DEF ServeCreate
  <2>2. CASE AnswerLost
    BY <2>1, <2>2, FailsAre DEF AnswerLost
  <2>3. CASE Continue([op EXCEPT !.found = Fresh, !.at = "link"]) /\ OnlyDrive
    BY <2>1, <2>3 DEF Continue, Keeping, Ops
  <2> QED BY <1>5, <2>2, <2>3 DEF ServeCreate
<1>6. ASSUME ServePatch
      PROVE  /\ Ends \/ (Keeping /\ op'.at = "record" /\ UNCHANGED <<rows, staging>>)
             /\ UNCHANGED disk
  <2>1. stage = "ready" /\ "record" \in Places
    BY <1>6 DEF ServePatch, Places, Local
  <2> QED BY <1>6, <2>1, FailsAre, GoOnIs DEF ServePatch, AnswerLost
<1>7. ASSUME Link
      PROVE  Keeping /\ op'.at = "record" /\ UNCHANGED <<obj, disk, staging>>
  <2>1. "record" \in Places
    BY DEF Places, Local
  <2> QED BY <1>7, <2>1, GoOnIs DEF Link
<1>8. ASSUME Record
      PROVE  op' = Idle /\ UNCHANGED <<obj, disk, staging>>
  BY <1>8 DEF Record, Done, Continue
<1> QED BY <1>1, <1>2, <1>3, <1>4, <1>5, <1>6, <1>7, <1>8

\* What the steps of a download make of it.
LEMMA AfterDownload ==
    ASSUME TInv
    PROVE  /\ RunFetch   => /\ op' = Idle \/ \E i \in Named(op.folder, op.name) :
                                  Keeping /\ op'.at = "fill" /\ op'.bytes = obj[i].body /\ UNCHANGED rows
                            /\ UNCHANGED <<obj, disk>>
           /\ ServeBytes => /\ Ends \/ (Keeping /\ op'.at = "fill" /\ Exists(Target) /\ op'.bytes = Target.body
                                        /\ UNCHANGED rows)
                            /\ UNCHANGED <<obj, disk>>
           /\ Fill       => Keeping /\ op'.at = "promote" /\ staging' = op.bytes /\ UNCHANGED <<obj, rows, disk>>
           /\ Promote    => Keeping /\ op'.at = "hash" /\ UNCHANGED <<obj, rows>>
           /\ FillFails \/ PromoteFails \/ Hash => op' = Idle /\ UNCHANGED <<obj, disk>>
<1>0. "promote" \in Places /\ "hash" \in Places
  BY DEF Places, Local
<1>1. ASSUME NEW i \in Ids, BeginFill(i), op.at # "none"
      PROVE  Keeping /\ op'.at = "fill" /\ op'.bytes = obj[i].body /\ UNCHANGED <<rows, disk>>
  <2>1. op \in Ops
    BY <1>1, AtWork
  <2> QED BY <1>1, <2>1 DEF BeginFill, Continue, Keeping, Ops
<1>2. ASSUME RunFetch
      PROVE  /\ op' = Idle \/ \E i \in Named(op.folder, op.name) :
                    Keeping /\ op'.at = "fill" /\ op'.bytes = obj[i].body /\ UNCHANGED rows
             /\ UNCHANGED <<obj, disk>>
  <2>1. op.at # "none" /\ Named(op.folder, op.name) \subseteq Ids /\ obj' = obj
    BY <1>2 DEF RunFetch, Named
  <2>2. CASE Fails
    BY <2>1, <2>2 DEF Fails, Continue
  <2>3. CASE \E i \in Named(op.folder, op.name) : BeginFill(i)
    BY <1>1, <2>1, <2>3
  <2> QED BY <1>2, <2>2, <2>3 DEF RunFetch
<1>3. ASSUME ServeBytes
      PROVE  /\ Ends \/ (Keeping /\ op'.at = "fill" /\ Exists(Target) /\ op'.bytes = Target.body /\ UNCHANGED rows)
             /\ UNCHANGED <<obj, disk>>
  <2>1. op.at = "bytes" /\ stage = "ready" /\ obj' = obj
    BY <1>3 DEF ServeBytes, Ready
  <2>2. op.kind = "download"
    BY <2>1 DEF TInv, InChain
  <2>3. CASE ~Exists(Target)
    BY <1>3, <2>1, <2>3, FailsAre DEF ServeBytes
  <2>4. CASE Exists(Target)
    <3>1. Row.id \in Ids /\ BeginFill(Row.id)
      BY <1>3, <2>2, <2>4, TargetKnown DEF ServeBytes
    <3>2. Keeping /\ op'.at = "fill" /\ op'.bytes = obj[Row.id].body /\ UNCHANGED <<rows, disk>>
      BY <1>1, <2>1, <3>1
    <3> QED BY <2>1, <2>4, <3>2 DEF Target
  <2> QED BY <2>3, <2>4
<1>4. ASSUME Fill
      PROVE  Keeping /\ op'.at = "promote" /\ staging' = op.bytes /\ UNCHANGED <<obj, rows, disk>>
  BY <1>0, <1>4, GoOnIs DEF Fill
<1>5. ASSUME Promote
      PROVE  Keeping /\ op'.at = "hash" /\ UNCHANGED <<obj, rows>>
  BY <1>0, <1>5, GoOnIs DEF Promote
<1>6. ASSUME FillFails \/ PromoteFails \/ Hash
      PROVE  op' = Idle /\ UNCHANGED <<obj, disk>>
  BY <1>6 DEF FillFails, PromoteFails, Hash, Fails, Done, Continue
<1> QED BY <1>2, <1>3, <1>4, <1>5, <1>6

\* What the steps of a rename or a deletion make of it.
LEMMA AfterRename ==
    ASSUME TInv
    PROVE  /\ ServeParents => /\ Ends \/ (Keeping /\ op'.at = "move" /\ op'.in = Target.parents
                                          /\ op'.folder = op.folder /\ UNCHANGED rows)
                              /\ UNCHANGED <<obj, disk>>
           /\ ServeMove    => Ends \/ (Keeping /\ op'.at = "settle" /\ UNCHANGED rows)
           /\ ServeMove    => UNCHANGED disk
           /\ Settle       => op' = Idle /\ UNCHANGED <<obj, disk>>
           /\ ServeRemove  => Ends \/ (Keeping /\ op'.at \in {"memberships", "drop"} /\ UNCHANGED rows)
           /\ ServeRemove  => UNCHANGED disk
           /\ ServeMemberships => /\ Ends \/ (Keeping /\ op'.at \in {"unlink", "drop"} /\ UNCHANGED rows)
                                  /\ UNCHANGED <<obj, disk>>
           /\ ServeUnlink  => Ends \/ (Keeping /\ op'.at = "drop" /\ UNCHANGED rows)
           /\ ServeUnlink  => UNCHANGED disk
           /\ Drop         => op' = Idle /\ UNCHANGED <<obj, disk>>
<1> USE DEF OnlyDrive, local, OnlyRow, Ready
<1>0. "settle" \in Places /\ "drop" \in Places
  BY DEF Places, Local
<1>1. ASSUME ServeParents
      PROVE  /\ Ends \/ (Keeping /\ op'.at = "move" /\ op'.in = Target.parents
                         /\ op'.folder = op.folder /\ UNCHANGED rows)
             /\ UNCHANGED <<obj, disk>>
  <2>1. op \in Ops /\ stage = "ready"
    BY <1>1, AtWork DEF ServeParents
  <2>2. CASE ~Exists(Target)
    BY <1>1, <2>1, <2>2, FailsAre DEF ServeParents
  <2>3. CASE Exists(Target)
    BY <1>1, <2>1, <2>3 DEF ServeParents, Continue, Keeping, Ops
  <2> QED BY <2>2, <2>3
<1>2. ASSUME ServeMove
      PROVE  (Ends \/ (Keeping /\ op'.at = "settle" /\ UNCHANGED rows)) /\ UNCHANGED disk
  BY <1>0, <1>2, FailsAre, GoOnIs DEF ServeMove, AnswerLost
<1>3. ASSUME Settle \/ Drop
      PROVE  op' = Idle /\ UNCHANGED <<obj, disk>>
  BY <1>3 DEF Settle, Drop, Done, Continue
<1>4. ASSUME ServeRemove
      PROVE  (Ends \/ (Keeping /\ op'.at \in {"memberships", "drop"} /\ UNCHANGED rows)) /\ UNCHANGED disk
  <2>1. op \in Ops /\ stage = "ready"
    BY <1>4, AtWork DEF ServeRemove
  <2>2. CASE ~Exists(Target)
    <3>1. FailsWith("not found")
      BY <1>4, <2>2 DEF ServeRemove
    <3> QED BY <2>1, <3>1, FailsAre
  <2>3. CASE Exists(Target) /\ ~owned /\ Row.id = 1
    <3>1. Go("memberships") /\ UNCHANGED <<rows, disk>>
      BY <1>4, <2>3 DEF ServeRemove
    <3> QED BY <2>1, <3>1 DEF Go, Continue, Keeping, Ops
  <2>4. CASE Exists(Target) /\ ~(~owned /\ Row.id = 1)
    <3>1. (GoOn("drop") /\ UNCHANGED <<rows, disk>>) \/ AnswerLost
      BY <1>4, <2>4 DEF ServeRemove
    <3> QED BY <1>0, <2>1, <3>1, FailsAre, GoOnIs DEF AnswerLost
  <2> QED BY <2>2, <2>3, <2>4
<1>5. ASSUME ServeMemberships
      PROVE  /\ Ends \/ (Keeping /\ op'.at \in {"unlink", "drop"} /\ UNCHANGED rows)
             /\ UNCHANGED <<obj, disk>>
  <2>1. op \in Ops /\ stage = "ready"
    BY <1>5, AtWork DEF ServeMemberships
  <2>2. CASE ~Exists(Target)
    BY <1>5, <2>1, <2>2, FailsAre DEF ServeMemberships
  <2>3. CASE Exists(Target)
    BY <1>5, <2>1, <2>3 DEF ServeMemberships, Go, Continue, Keeping, Ops
  <2> QED BY <2>2, <2>3
<1>6. ASSUME ServeUnlink
      PROVE  (Ends \/ (Keeping /\ op'.at = "drop" /\ UNCHANGED rows)) /\ UNCHANGED disk
  BY <1>0, <1>6, FailsAre, GoOnIs DEF ServeUnlink, AnswerLost
<1> QED BY <1>1, <1>2, <1>3, <1>4, <1>5, <1>6

\* What a beginning upload or update is.
LEMMA AfterBeginUpload ==
    ASSUME TInv, NEW f \in Files, BeginUpload(f)
    PROVE  /\ op.kind = "none" /\ UNCHANGED <<obj, rows, disk, staging>>
           /\ op'.f = f /\ op'.path = rows[f].path /\ op'.hash = disk[rows[f].path] /\ op'.found = 0
           /\ op'.kind \in {"upload", "update"} /\ op'.at \in {"list", "read", "meta", "copy"}
           /\ op'.at = "copy" => op'.kind = "upload"
           /\ op'.last = 0
<1> DEFINE at == IF rows[f].id = 0 /\ rows[f].path.dir # "" THEN "list"
                 ELSE IF engine = "http" THEN "read"
                 ELSE IF rows[f].id # 0 THEN "meta" ELSE "copy"
           kind == IF rows[f].id = 0 THEN "upload" ELSE "update"
<1>1. /\ op.kind = "none" /\ UNCHANGED <<obj, rows, disk, staging>>
      /\ op' = [Idle EXCEPT !.kind = kind, !.f = f, !.path = rows[f].path,
                            !.hash = disk[rows[f].path], !.at = at]
  BY DEF BeginUpload, Free, Begin, Continue
<1>2. /\ kind \in {"upload", "update"} /\ at \in {"list", "read", "meta", "copy"}
      /\ at = "copy" => kind = "upload"
  OBVIOUS
<1> HIDE DEF kind, at
<1> QED BY IdleFields, <1>1, <1>2 DEF Ops

\* What a beginning download, deletion or creation of the folder is.
LEMMA AfterBeginOther ==
    ASSUME TInv, NEW f \in Files, BeginDownload(f) \/ BeginDelete(f) \/ BeginMkdir
    PROVE  /\ op.kind = "none" /\ UNCHANGED <<obj, rows, disk, staging>>
           /\ op'.kind \in {"download", "delete", "mkdir"} /\ op'.at \in {"meta", "bytes", "remove", "list"}
           /\ op'.at = "list" => op'.found = 0 /\ op'.last = 0
<1> USE IdleFields DEF Free, Begin, Continue, Ops
<1>1. CASE BeginDownload(f)
  BY <1>1 DEF BeginDownload
<1>2. CASE BeginDelete(f)
  BY <1>2 DEF BeginDelete
<1>3. CASE BeginMkdir
  BY <1>3 DEF BeginMkdir
<1> QED BY <1>1, <1>2, <1>3

\* What a beginning rename is.
LEMMA AfterBeginRename ==
    ASSUME TInv, NEW f \in Files, BeginRename(f)
    PROVE  /\ op.kind = "none" /\ UNCHANGED <<obj, rows, disk, staging>>
           /\ op'.f = f /\ op'.kind = "rename" /\ op'.at \in {"parents", "list"}
           /\ disk[op'.path].of = f /\ op'.found = 0 /\ op'.last = 0
<1>1. PICK p \in Path :
        /\ disk[p].of = f
        /\ op' = [Idle EXCEPT !.kind = "rename", !.f = f, !.path = p,
                              !.at = IF p.dir = "" THEN "parents" ELSE "list"]
  BY DEF BeginRename, Begin, Continue
<1>2. op'.f = f /\ op'.kind = "rename" /\ op'.at \in {"parents", "list"}
      /\ op'.path = p /\ op'.found = 0 /\ op'.last = 0
  BY <1>1, IdleFields DEF Ops
<1> QED BY <1>1, <1>2 DEF BeginRename, Free, Begin

\* What the renaming of a file that was never synced does.
LEMMA AfterRenameUnsynced ==
    ASSUME TInv, NEW f \in Files, RenameUnsynced(f)
    PROVE  /\ op.kind = "none" /\ op' = op /\ UNCHANGED <<obj, disk, staging>>
           /\ rows' = [rows EXCEPT ![f].state = "gone"]
BY DEF RenameUnsynced, Free

\* Where the file is on Drive when rclone is about to be run.
LEMMA AfterMeta ==
    ASSUME TInv, ServeMeta
    PROVE  /\ \/ Ends
              \/ /\ Keeping /\ op'.at \in {"fetch", "copy"} /\ UNCHANGED <<rows, staging>>
                 /\ Target.kind = "file" /\ op'.name = Target.name /\ op'.folder \in Target.parents
           /\ UNCHANGED <<obj, disk>>
<1>1. op.at = "meta" /\ stage = "ready" /\ obj' = obj
  BY DEF ServeMeta, Ready
<1>2. op \in Ops /\ op.kind \in {"update", "download"}
  BY <1>1, AtWork DEF TInv, InChain
<1>3. CASE ~Exists(Target)
  BY <1>1, <1>3, FailsAre DEF ServeMeta
<1>4. CASE Exists(Target) /\ Target.parents = {}
  BY <1>1, <1>4 DEF ServeMeta, Fails, Continue, Ends
<1>5. CASE Exists(Target) /\ Target.parents # {}
  <2>1. Target \in AFile /\ Target.kind = "file" /\ Target = obj[Row.id]
    BY <1>2, <1>5, TargetKnown DEF Target
  <2>2. Min(Target.parents) \in Target.parents
    <3>1. Target.parents \in SUBSET Nat
      BY <2>1 DEF AFile, Parents, Ids, Root
    <3> QED BY <1>5, <3>1, MinIsSmallest
  <2> DEFINE place == IF op.kind = "download" THEN "fetch" ELSE "copy"
  <2>3. /\ op' = [[op EXCEPT !.folder = Min(Target.parents), !.name = Target.name] EXCEPT !.at = place]
        /\ UNCHANGED <<rows, disk, staging>>
    BY <1>5, <2>1 DEF ServeMeta, Continue, Spot, OnlyDrive, local
  <2>4. Keeping /\ op'.at = place /\ op'.name = Target.name /\ op'.folder = Min(Target.parents)
    BY <1>2, <2>3 DEF Keeping, Ops
  <2> QED BY <1>1, <2>1, <2>2, <2>3, <2>4
<1> QED BY <1>3, <1>4, <1>5

\* A request that is not carried out changes nothing but the operation.
LEMMA AfterUnserved ==
    ASSUME TInv, Unserved
    PROVE  Ends /\ UNCHANGED <<obj, disk>>
BY FailsAre DEF Unserved

-----------------------------------------------------------------------------
(* A name collision never goes unnoticed.                                  *)
Wary == Ambiguous => disturbed

(* With rclone: where the file of an update or a download still is.        *)
Spotted ==
    op.kind \in {"update", "download"} /\ op.at \in {"copy", "probe", "fetch"} =>
        /\ Target.kind = "file" /\ Target.name = op.name /\ op.folder \in Target.parents

Sighted == Wary /\ (~disturbed => Spotted)

\* While nothing is disturbed names tell files apart, before and after.
LEMMA Noticed ==
    ASSUME Wary, NEW meddled \in BOOLEAN, NEW hidden, Notice(meddled, hidden)
    PROVE  Wary' /\ (~disturbed' => ~disturbed /\ ~meddled /\ ~Ambiguous /\ ~Ambiguous')
BY DEF Wary, Notice

\* Whether they do depends on Drive and the rows only.
LEMMA SameNames ==
    ASSUME UNCHANGED <<obj, rows>>
    PROVE  Ambiguous' <=> Ambiguous
BY DEF Ambiguous, Taken, SamePlace, LiveFile, PlaceOf, IsSub

\* rclone copyto changes at most the content of what has that name.
LEMMA CopyTouches ==
    ASSUME TInv, Copies, NEW i \in Ids, obj[i].kind # "none"
    PROVE  obj'[i] = obj[i] \/ (i \in Named(op.folder, DestName) /\ obj[i] \in AFile
                                /\ obj'[i] = [obj[i] EXCEPT !.body = disk[op.path]])
<1>1. obj \in [Ids -> Objects]
  BY DEF TInv, Typed
<1>2. CASE \E k \in Named(op.folder, DestName) : obj' = [obj EXCEPT ![k].body = disk[op.path]]
  BY <1>1, <1>2, NamedAre DEF TInv
<1>3. CASE HasFresh /\ obj' = [obj EXCEPT ![Fresh] = File(DestName, op.folder, disk[op.path])]
  <2>1. Fresh \in Ids /\ obj[Fresh] = NoObject
    BY <1>3, FreshIsFresh, TransfersAssumption
  <2>2. obj[Fresh].kind = "none"
    BY <1>1, <2>1, KindsOf
  <2> QED BY <1>1, <1>3, <2>2
<1> QED BY <1>2, <1>3 DEF Copies

\* The file is where it was.
LEMMA SpottedSame ==
    ASSUME Spotted, op' = op, UNCHANGED <<obj, rows>>
    PROVE  Spotted'
BY DEF Spotted, Target, Row

\* No step of the operation itself moves the file rclone is looking for.
LEMMA SpottedByOp ==
    ASSUME TInv, OpStep, Spotted
    PROVE  Spotted'
<1>1. CASE op' = Idle \/ (op' = op /\ op.at \in Http)
  BY <1>1, IdleFields DEF Spotted, Http
<1>2. CASE ServeMeta
  BY <1>1, <1>2, AfterMeta DEF Ends, Keeping, Spotted, Target, Row
<1>3. CASE RunCopy
  <2>1. op.at = "copy" /\ Copies
    BY <1>3 DEF RunCopy
  <2>2. /\ op'.kind = op.kind /\ op'.f = op.f /\ op'.at = "probe"
        /\ op'.folder = op.folder /\ op'.name = op.name /\ rows' = rows
    BY <1>3, AfterUpload DEF Keeping
  <2>3. SUFFICES ASSUME op.kind = "update"
                 PROVE  /\ obj'[Row.id].kind = "file" /\ obj'[Row.id].name = op.name
                        /\ op.folder \in obj'[Row.id].parents
    <3>1. op.kind \in {"upload", "update"}
      BY <2>1 DEF TInv, InChain
    <3> QED BY <2>2, <3>1 DEF Spotted, Target, Row
  <2>4. Row.id \in Ids /\ Target = obj[Row.id]
    BY <2>3, TargetKnown DEF Target
  <2>5. Target.kind = "file" /\ Target.name = op.name /\ op.folder \in Target.parents
    BY <2>1, <2>3 DEF Spotted
  <2>6. \/ obj'[Row.id] = obj[Row.id]
        \/ /\ obj[Row.id] \in AFile
           /\ obj'[Row.id] = [obj[Row.id] EXCEPT !.body = disk[op.path]]
    BY <2>1, <2>4, <2>5, CopyTouches
  <2> QED BY <2>4, <2>5, <2>6 DEF AFile
<1>4. CASE ServeList \/ ServePost \/ Persist
  BY <1>1, <1>4, AfterList DEF Ends, Keeping, Spotted
<1>5. CASE CopyFails \/ RunProbe \/ Read \/ ServeCreate \/ ServePatch \/ Link \/ Record
  BY <1>1, <1>5, AfterUpload DEF Ends, Keeping, Spotted
<1>6. CASE RunFetch \/ ServeBytes \/ Fill \/ FillFails \/ Promote \/ PromoteFails \/ Hash
  BY <1>1, <1>6, AfterDownload DEF Ends, Keeping, Spotted
<1>7. CASE ServeParents \/ ServeMove \/ Settle \/ ServeRemove \/ ServeMemberships \/ ServeUnlink \/ Drop
  BY <1>1, <1>7, AfterRename DEF Ends, Keeping, Spotted
<1>8. CASE Unserved
  BY <1>1, <1>8, AfterUnserved DEF Ends
<1> QED BY <1>2, <1>3, <1>4, <1>5, <1>6, <1>7, <1>8 DEF OpStep

\* No operation begins by running rclone on a file with an id.
LEMMA SpottedByBegin ==
    ASSUME TInv, BeginStep
    PROVE  Spotted'
<1>1. ASSUME NEW f \in Files, BeginUpload(f)
      PROVE  Spotted'
  BY <1>1, AfterBeginUpload DEF Spotted
<1>2. ASSUME NEW f \in Files, BeginRename(f)
      PROVE  Spotted'
  BY <1>2, AfterBeginRename DEF Spotted
<1>3. ASSUME NEW f \in Files, BeginDownload(f) \/ BeginDelete(f) \/ BeginMkdir
      PROVE  Spotted'
  BY <1>3, AfterBeginOther DEF Spotted
<1>4. ASSUME NEW f \in Files, RenameUnsynced(f)
      PROVE  Spotted'
  BY <1>4, AfterRenameUnsynced DEF Spotted
<1>5. 2 \in Files
  BY DEF Files
<1> QED BY <1>1, <1>2, <1>3, <1>4, <1>5 DEF BeginStep

\* An edit on Drive moves nothing.
LEMMA SpottedByEdit ==
    ASSUME TInv, DriveEdits, Spotted
    PROVE  Spotted'
<1>1. PICK i \in Ids : obj[i].kind = "file" /\ obj' = [obj EXCEPT ![i].body.v = acts + 2]
  BY DEF DriveEdits
<1>2. op' = op /\ rows' = rows
  BY DEF DriveEdits, OnDrive, local
<1>3. obj \in [Ids -> Objects] /\ obj[i] \in AFile
  BY <1>1, KindsOf DEF TInv, Typed
<1>4. \A j \in Ids : obj'[j].kind = obj[j].kind /\ obj'[j].name = obj[j].name
                     /\ obj'[j].parents = obj[j].parents
  BY <1>1, <1>3 DEF AFile
<1>5. op.kind \in {"update", "download"} => Row.id \in Ids
  BY TargetKnown
<1> QED BY <1>2, <1>4, <1>5 DEF Spotted, Target, Row

\* Until it is disturbed the file stays where rclone was told it is.
LEMMA SightedKept ==
    ASSUME TInv, Sighted, [Next]_vars
    PROVE  Sighted'
<1> USE DEF Sighted
<1>1. CASE ByDaemon /\ Notice(FALSE, FALSE)
  <2>1. Wary' /\ (~disturbed' => ~disturbed)
    BY <1>1, Noticed
  <2>2. ASSUME Spotted
        PROVE  Spotted'
    <3>1. CASE OpStep
      BY <2>2, <3>1, SpottedByOp
    <3>2. CASE BeginStep
      BY <3>2, SpottedByBegin
    <3>3. CASE Pace(Acquire) \/ Pace(OtherRequest) \/ Start
      <4>1. UNCHANGED <<op, obj, rows>>
        BY <3>3 DEF Pace, Start, local
      <4> QED BY <2>2, <4>1, SpottedSame
    <3>4. CASE Crash
      BY <3>4, IdleFields DEF Crash, Spotted
    <3> QED BY <1>1, <3>1, <3>2, <3>3, <3>4 DEF ByDaemon
  <2> QED BY <2>1, <2>2
<1>2. CASE \/ (EditsLocally \/ DeletesLocally \/ DriveEdits) /\ Notice(FALSE, FALSE)
           \/ MovesLocally /\ Notice(FALSE, Loose)
  <2>1. Wary' /\ (~disturbed' => ~disturbed)
    BY <1>2, Noticed
  <2>2. CASE DriveEdits
    BY <2>1, <2>2, SpottedByEdit
  <2>3. CASE EditsLocally \/ MovesLocally \/ DeletesLocally
    <3>1. UNCHANGED <<op, obj, rows>>
      BY <2>3 DEF EditsLocally, MovesLocally, DeletesLocally, Locally
    <3> QED BY <2>1, <3>1, SpottedSame
  <2> QED BY <1>2, <2>2, <2>3
<1>3. CASE (DriveRenames \/ DriveMoves \/ DriveTrashes \/ DriveDeletes \/ DriveAdds) /\ Notice(op.kind # "none", Loose)
  <2>1. Wary' /\ (~disturbed' => op.kind = "none")
    BY <1>3, Noticed
  <2>2. op' = op
    BY <1>3 DEF DriveRenames, DriveMoves, DriveTrashes, DriveDeletes, DriveAdds, OnDrive
  <2> QED BY <2>1, <2>2 DEF Spotted
<1>4. CASE UNCHANGED vars
  <2>1. UNCHANGED <<op, obj, rows, disturbed>>
    BY <1>4 DEF vars, local
  <2> QED BY <2>1, SameNames, SpottedSame DEF Wary
<1> QED BY <1>1, <1>2, <1>3, <1>4 DEF Next

\* It holds at first.
LEMMA SightedAtFirst ==
    ASSUME Init
    PROVE  Sighted
BY IdleFields DEF Init, Sighted, Wary, Spotted

-----------------------------------------------------------------------------
(* On Drive, here, and on the way from one to the other: a file's own content. *)
RemoteOwn == \A f \in Files : rows[f].id # 0 /\ Exists(obj[rows[f].id]) => obj[rows[f].id].body.of = f
LocalOwn  == \A f \in Files : rows[f].state \in {"new", "synced"} /\ disk[rows[f].path] # Nothing =>
                disk[rows[f].path].of = f
CarriesOwn ==
    /\ op.at \in {"create", "patch", "fill"} => op.bytes.of = op.f
    /\ op.at = "promote" => staging.of = op.f
    /\ op.kind = "rename" /\ disk[op.path] # Nothing => disk[op.path].of = op.f
    /\ op.at = "link" /\ Exists(obj[op.found]) => obj[op.found].body.of = op.f

Own == RemoteOwn /\ LocalOwn /\ CarriesOwn
Uncrossed == Calm => Own

\* What a file of Drive holds stays that file's.
OwnersKept ==
    \A i \in Ids : FileOrGone(i) /\ Exists(obj'[i]) => Exists(obj[i]) /\ obj'[i].body.of = obj[i].body.of

RowsKept ==
    \A f \in Files : /\ rows'[f].id = rows[f].id /\ rows'[f].path = rows[f].path
                     /\ rows'[f].state \in {"new", "synced"} => rows[f].state \in {"new", "synced"}

\* So that the name finds the file of the row and no other.
LEMMA OnlyTarget ==
    ASSUME TInv, Sighted, ~disturbed, op.kind \in {"update", "download"}, op.at \in {"copy", "probe", "fetch"},
           NEW i \in Named(op.folder, op.name)
    PROVE  i = Row.id
<1>1. /\ Row.id \in Ids /\ obj[Row.id].kind = "file" /\ obj[Row.id].name = op.name
      /\ op.folder \in obj[Row.id].parents
  BY TargetKnown DEF Sighted, Spotted, Target
<1>2. i \in Ids /\ LiveFile(i) /\ obj[i].name = op.name /\ op.folder \in obj[i].parents
  BY DEF Named, LiveFile
<1>3. ~Ambiguous
  BY DEF Sighted, Wary
<1>4. obj[Row.id].parents \cap obj[i].parents # {}
  BY <1>1, <1>2
<1> QED BY <1>1, <1>2, <1>3, <1>4 DEF Ambiguous, SamePlace

\* A name finds one file at most.
LEMMA OnlyOneThere ==
    ASSUME Sighted, ~disturbed, NEW folder, NEW n, NEW i \in Named(folder, n), NEW j \in Named(folder, n)
    PROVE  i = j
BY DEF Sighted, Wary, Ambiguous, SamePlace, Named, LiveFile

\* And what an upload or update finds under its name is that file's own.
LEMMA OwnAddressed ==
    ASSUME TInv, Sighted, ~disturbed, RemoteOwn, op.at \in {"copy", "probe"},
           NEW i \in Named(op.folder, DestName)
    PROVE  obj[i].body.of = op.f
<1>1. op.f \in Files /\ op.path \in Path /\ op.kind \in {"upload", "update"}
  BY AtWork DEF TInv, InChain
<1>2. CASE op.kind = "upload"
  <2>1. rows[op.f].state = "new" /\ rows[op.f].path = op.path /\ op.folder \in PlaceOf(op.path)
    BY <1>2 DEF TInv, OfRow, OnItsWay
  <2>2. /\ i \in Ids /\ LiveFile(i) /\ obj[i].name = op.path.name /\ op.folder \in obj[i].parents
    BY <1>2 DEF Named, LiveFile, DestName
  <2>3. obj[i].parents \cap PlaceOf(rows[op.f].path) # {}
    BY <2>1, <2>2
  <2> QED BY <1>1, <2>1, <2>2, <2>3 DEF Sighted, Wary, Ambiguous, Taken
<1>3. CASE op.kind = "update"
  <2>1. i = Row.id
    BY <1>3, OnlyTarget DEF DestName
  <2>2. Row.id \in Ids /\ obj[i].kind = "file"
    BY <1>3, TargetKnown DEF Named
  <2> QED BY <1>1, <2>1, <2>2 DEF RemoteOwn, Exists, Row, Ids
<1> QED BY <1>1, <1>2, <1>3

\* What an upload reads is the file's own content.
LEMMA LocalKnown ==
    ASSUME TInv, Own, op.kind \in {"upload", "update"}, disk[op.path] # Nothing
    PROVE  disk[op.path].of = op.f
<1>1. op.f \in Files /\ rows[op.f].state \in {"new", "synced"} /\ op.path = rows[op.f].path
  BY DEF TInv, OfRow
<1> QED BY <1>1 DEF Own, LocalOwn

\* Whoever leaves the files alone leaves them their contents.
LEMMA OwnersSame ==
    ASSUME \A i \in Ids : FileOrGone(i) => obj'[i] = obj[i]
    PROVE  OwnersKept
BY DEF OwnersKept

\* A new object takes nothing from another.
LEMMA FreshOwners ==
    ASSUME TInv, HasFresh, NEW o, obj' = [obj EXCEPT ![Fresh] = o]
    PROVE  OwnersKept
<1>1. Fresh \in Ids /\ obj[Fresh] = NoObject
  BY FreshIsFresh, TransfersAssumption
<1>2. obj[Fresh].kind = "none"
  BY <1>1, KindsOf DEF TInv, Typed
<1> QED BY <1>2 DEF TInv, Typed, OwnersKept, FileOrGone

\* rclone copyto writes a file's content into that file.
LEMMA CopyOwners ==
    ASSUME TInv, Sighted, Calm, Own, op.at = "copy", Copies \/ UNCHANGED obj
    PROVE  OwnersKept
<1>1. CASE UNCHANGED obj
  BY <1>1, OwnersSame
<1>2. CASE Copies
  <2>1. ~disturbed
    BY DEF TInv, ByEngine, Calm
  <2>2. op.kind \in {"upload", "update"} /\ disk[op.path] # Nothing
    BY <1>2 DEF TInv, InChain, Copies
  <2>3. disk[op.path].of = op.f
    BY <2>2, LocalKnown
  <2>4. ASSUME NEW i \in Ids, FileOrGone(i), obj'[i] # obj[i]
        PROVE  Exists(obj[i]) /\ obj'[i].body.of = obj[i].body.of
    <3>1. i \in Named(op.folder, DestName) /\ obj[i] \in AFile
          /\ obj'[i] = [obj[i] EXCEPT !.body = disk[op.path]]
      BY <1>2, <2>4, CopyTouches DEF FileOrGone
    <3>2. obj[i].body.of = op.f
      BY <2>1, <3>1, OwnAddressed DEF Own
    <3> QED BY <2>3, <3>1, <3>2 DEF AFile, Exists
  <2> QED BY <2>4 DEF OwnersKept
<1> QED BY <1>1, <1>2

\* A PATCH changes at most the content of the row's file.
LEMMA PatchTouches ==
    ASSUME TInv, ServePatch, obj' # obj
    PROVE  /\ Row.id \in Ids /\ obj[Row.id] \in AFile /\ op.at = "patch" /\ op.kind = "update" /\ op.f \in Files
           /\ Exists(obj[Row.id])
           /\ obj' = [obj EXCEPT ![Row.id] = [obj[Row.id] EXCEPT !.body = op.bytes]]
<1>1. op.at = "patch"
  BY DEF ServePatch, Ready
<1>2. op.kind = "update" /\ op.f \in Files
  BY <1>1, AtWork DEF TInv, InChain
<1>3. Exists(Target) /\ obj' = [obj EXCEPT ![Row.id].body = op.bytes]
  BY DEF ServePatch
<1>4. Row.id \in Ids /\ obj[Row.id] \in AFile
  BY <1>2, <1>3, TargetKnown DEF Target
<1> QED BY <1>1, <1>2, <1>3, <1>4 DEF Target, TInv, Typed

\* And what it writes is that file's content.
LEMMA PatchOwners ==
    ASSUME TInv, Calm, Own, ServePatch
    PROVE  OwnersKept
<1>1. CASE obj' = obj
  BY <1>1, OwnersSame
<1>2. CASE obj' # obj
  <2>1. obj[Row.id].body.of = op.f
    BY <1>2, PatchTouches DEF Own, RemoteOwn, Row, Ids
  <2>2. op.bytes.of = op.f
    BY <1>2, PatchTouches DEF Own, CarriesOwn
  <2>3. \A i \in Ids : obj'[i] = IF i = Row.id THEN [obj[Row.id] EXCEPT !.body = op.bytes] ELSE obj[i]
    BY <1>2, PatchTouches DEF TInv, Typed
  <2>4. [obj[Row.id] EXCEPT !.body = op.bytes].body = op.bytes
    BY <1>2, PatchTouches DEF AFile
  <2>5. Exists(obj[Row.id])
    BY <1>2, PatchTouches
  <2> QED BY <2>1, <2>2, <2>3, <2>4, <2>5 DEF OwnersKept
<1> QED BY <1>1, <1>2

(* Moving, trashing and unlinking leave a file's content alone.            *)
LEMMA ByIdOwners ==
    ASSUME TInv, ServeMove \/ ServeRemove \/ ServeUnlink
    PROVE  OwnersKept
<1>1. op.kind \in {"rename", "delete"}
  BY DEF ServeMove, ServeRemove, ServeUnlink, Ready, TInv, InChain
<1>2. Row.id \in Ids /\ obj[Row.id] \in Objects /\ FileOrGone(Row.id) /\ obj \in [Ids -> Objects]
      /\ (Exists(obj[Row.id]) => obj[Row.id] \in AFile)
  BY <1>1, TargetKnown DEF Target, TInv, Typed
<1>3. CASE obj' = obj
  BY <1>3, OwnersSame
<1>4. ASSUME NEW o, obj' = [obj EXCEPT ![Row.id] = o],
             Exists(o) => Exists(obj[Row.id]) /\ o.body = obj[Row.id].body
      PROVE  OwnersKept
  BY <1>2, <1>4 DEF OwnersKept
<1>5. CASE ServeMove /\ obj' # obj
  <2>1. Exists(obj[Row.id])
        /\ obj' = [obj EXCEPT ![Row.id].parents = Moved(@), ![Row.id].name = op.path.name]
    BY <1>5 DEF ServeMove, Target
  <2> DEFINE o == [obj[Row.id] EXCEPT !.parents = Moved(obj[Row.id].parents), !.name = op.path.name]
  <2>2. obj' = [obj EXCEPT ![Row.id] = o]
    BY <1>2, <2>1
  <2>3. o.body = obj[Row.id].body
    BY <1>2, <2>1 DEF AFile
  <2> HIDE DEF o
  <2> QED BY <1>4, <2>1, <2>2, <2>3
<1>6. CASE ServeRemove /\ obj' # obj
  <2>1. Exists(obj[Row.id])
        /\ obj' = [obj EXCEPT ![Row.id] = IF mode = "trash" THEN [@ EXCEPT !.live = FALSE] ELSE Deleted]
    BY <1>6 DEF ServeRemove, Target
  <2> DEFINE o == IF mode = "trash" THEN [obj[Row.id] EXCEPT !.live = FALSE] ELSE Deleted
  <2>2. obj' = [obj EXCEPT ![Row.id] = o]
    BY <1>2, <2>1
  <2>3. Exists(o) => o.body = obj[Row.id].body
    <3>1. ~Exists(Deleted)
      BY KindsOf DEF Exists, Objects
    <3>2. [obj[Row.id] EXCEPT !.live = FALSE].body = obj[Row.id].body
      BY <1>2, <2>1 DEF AFile
    <3> QED BY <3>1, <3>2
  <2> HIDE DEF o
  <2> QED BY <1>4, <2>1, <2>2, <2>3
<1>7. CASE ServeUnlink /\ obj' # obj
  <2> DEFINE o == [obj[Row.id] EXCEPT !.parents = @ \ op.in]
  <2>1. obj' = [obj EXCEPT ![Row.id] = o]
    BY <1>2, <1>7 DEF ServeUnlink
  <2>2. o.kind = obj[Row.id].kind /\ o.body = obj[Row.id].body
    <3>1. CASE obj[Row.id].kind = "file"
      <4>1. obj[Row.id] \in AFile
        BY <1>2, <3>1, KindsOf
      <4> QED BY <4>1 DEF AFile
    <3>2. CASE obj[Row.id].kind = "deleted"
      <4>1. obj[Row.id] = Deleted
        BY <1>2, <3>2, KindsOf
      <4>2. Deleted \in [kind : {"deleted"}, name : {""}, parents : {{}}, body : {Nothing}, live : {FALSE}]
        BY DEF Deleted, NoObject
      <4> QED BY <4>1, <4>2
    <3> QED BY <1>2, <3>1, <3>2 DEF FileOrGone
  <2> HIDE DEF o
  <2> QED BY <1>4, <2>1, <2>2 DEF Exists
<1> QED BY <1>3, <1>5, <1>6, <1>7

(* No step of an operation writes one file's content into another on       *)
(* Drive.                                                                  *)
LEMMA OwnersByOp ==
    ASSUME TInv, Sighted, Calm, Own, OpStep
    PROVE  OwnersKept
<1>1. CASE obj' = obj
  BY <1>1, OwnersSame
<1>2. CASE RunCopy \/ CopyFails
  BY <1>2, CopyOwners DEF RunCopy, CopyFails
<1>3. CASE ServePost \/ ServeCreate
  BY <1>3, FreshOwners DEF ServePost, ServeCreate
<1>4. CASE Unserved \/ ServeMeta \/ ServeList \/ Persist
  BY <1>1, <1>4, AfterUnserved, AfterMeta, AfterList
<1>5. CASE RunProbe \/ Read \/ Link \/ Record
  BY <1>1, <1>5, AfterUpload
<1>6. CASE RunFetch \/ ServeBytes \/ Fill \/ FillFails \/ Promote \/ PromoteFails \/ Hash
  BY <1>1, <1>6, AfterDownload
<1>7. CASE ServeParents \/ Settle \/ ServeMemberships \/ Drop
  BY <1>1, <1>7, AfterRename
<1> QED BY <1>2, <1>3, <1>4, <1>5, <1>6, <1>7, PatchOwners, ByIdOwners DEF OpStep

\* Rows that are not written keep their ids and paths.
LEMMA RowsSame ==
    ASSUME rows' = rows
    PROVE  RowsKept
BY DEF RowsKept

\* Nor does a row that keeps them change whose content is whose.
LEMMA RowChanged ==
    ASSUME TInv, op.at # "none", NEW r, rows' = [rows EXCEPT ![op.f] = r],
           r.id = Row.id, r.path = Row.path,
           r.state \in {"new", "synced"} => Row.state \in {"new", "synced"}
    PROVE  RowsKept
<1>1. \A g \in Files : rows'[g] = IF g = op.f THEN r ELSE rows[g]
  BY AtWork DEF TInv, Typed
<1> QED BY <1>1 DEF RowsKept, Row

\* A failed operation does not.
LEMMA FailsRows ==
    ASSUME TInv, op.at # "none", Fails
    PROVE  RowsKept
<1>1. Row \in RowTable
  BY RowFields
<1> DEFINE r == [Row EXCEPT !.state = "skipped"]
<1>2. r.id = Row.id /\ r.path = Row.path /\ r.state = "skipped"
  BY <1>1 DEF RowTable
<1>3. rows' = rows \/ rows' = [rows EXCEPT ![op.f] = r]
  BY DEF Fails, SetRow
<1> HIDE DEF r
<1> QED BY <1>2, <1>3, RowsSame, RowChanged

\* A failed request does not.
LEMMA FailsWithRows ==
    ASSUME TInv, op.at # "none", NEW failure, FailsWith(failure)
    PROVE  RowsKept
BY FailsRows, RowsSame DEF FailsWith, local

\* Only linking writes an id, and only the end of a rename a path.
LEMMA RowsByOp ==
    ASSUME TInv, OpStep, ~Link, ~Settle
    PROVE  RowsKept
<1>1. CASE rows' = rows
  BY <1>1, RowsSame
<1>2. CASE Fails \/ AnswerLost \/ \E failure \in Failures : FailsWith(failure)
  <2>1. op.at # "none" \/ rows' = rows
    BY <1>2 DEF Fails, FailsWith, AnswerLost, SetRow, local
  <2> QED BY <1>1, <1>2, <2>1, FailsRows, FailsWithRows DEF AnswerLost
<1>3. CASE Unserved \/ ServeMeta
  BY <1>1, <1>2, <1>3 DEF Unserved, ServeMeta, OnlyDrive, local, Failures
<1>4. CASE ServeList \/ ServePost \/ Persist
  BY <1>1, <1>2, <1>4 DEF ServeList, ServePost, Persist, OnlyDrive, local
<1>5. CASE RunCopy \/ CopyFails \/ RunProbe \/ Read \/ ServeCreate
  BY <1>1, <1>2, <1>5 DEF RunCopy, CopyFails, RunProbe, Read, ServeCreate, OnlyDrive, local
<1>6. CASE ServePatch
  BY <1>1, <1>2, <1>6 DEF ServePatch, OnlyDrive, local, Failures
<1>7. CASE RunFetch \/ ServeBytes \/ Fill \/ FillFails \/ Promote \/ PromoteFails
  BY <1>1, <1>2, <1>7
     DEF RunFetch, ServeBytes, Fill, FillFails, Promote, PromoteFails, BeginFill, Failures
<1>8. CASE ServeParents \/ ServeMove
  BY <1>1, <1>2, <1>8 DEF ServeParents, ServeMove, OnlyDrive, local, Failures
<1>9. CASE ServeRemove
  <2>1. CASE ~Exists(Target)
    <3>1. FailsWith("not found") /\ "not found" \in Failures
      BY <1>9, <2>1 DEF ServeRemove, Failures
    <3> QED BY <1>2, <3>1
  <2>2. CASE Exists(Target) /\ ~owned /\ Row.id = 1
    <3>1. rows' = rows
      BY <1>9, <2>2 DEF ServeRemove, OnlyDrive, local
    <3> QED BY <1>1, <3>1
  <2>3. CASE Exists(Target) /\ ~(~owned /\ Row.id = 1)
    <3>1. rows' = rows \/ AnswerLost
      BY <1>9, <2>3 DEF ServeRemove, OnlyDrive, local
    <3> QED BY <1>1, <1>2, <3>1
  <2> QED BY <2>1, <2>2, <2>3
<1>10. CASE ServeMemberships \/ ServeUnlink
  <2>1. "not found" \in Failures
    BY DEF Failures
  <2>2. ServeMemberships => rows' = rows \/ FailsWith("not found")
    BY DEF ServeMemberships, OnlyDrive, local
  <2>3. ServeUnlink => rows' = rows \/ FailsWith("not found") \/ AnswerLost
    BY DEF ServeUnlink, OnlyDrive, local
  <2> QED BY <1>1, <1>2, <1>10, <2>1, <2>2, <2>3
<1>11. ASSUME NEW r, SetRow(r), op.at # "none", r.id = Row.id, r.path = Row.path,
              r.state \in {"new", "synced"} => Row.state \in {"new", "synced"}
       PROVE  RowsKept
  BY <1>11, RowChanged DEF SetRow
<1>12. CASE Record
  <2> DEFINE r == [Row EXCEPT !.body = op.hash]
  <2>1. op.at = "record" /\ SetRow(r)
    BY <1>12 DEF Record
  <2>2. r.id = Row.id /\ r.path = Row.path /\ r.state = Row.state
    BY <2>1, RowFields DEF RowTable
  <2> HIDE DEF r
  <2> QED BY <1>11, <2>1, <2>2
<1>13. CASE Hash
  <2> DEFINE r == [Row EXCEPT !.body = disk[op.path]]
  <2>1. op.at = "hash" /\ (Fails \/ SetRow(r))
    BY <1>13 DEF Hash
  <2>2. r.id = Row.id /\ r.path = Row.path /\ r.state = Row.state
    BY <2>1, RowFields DEF RowTable
  <2> HIDE DEF r
  <2> QED BY <1>2, <1>11, <2>1, <2>2
<1>14. CASE Drop
  <2> DEFINE r == [Row EXCEPT !.state = "gone"]
  <2>1. op.at = "drop" /\ SetRow(r)
    BY <1>14 DEF Drop
  <2>2. r.id = Row.id /\ r.path = Row.path /\ r.state = "gone"
    BY <2>1, RowFields DEF RowTable
  <2> HIDE DEF r
  <2> QED BY <1>11, <2>1, <2>2
<1> QED BY <1>3, <1>4, <1>5, <1>6, <1>7, <1>8, <1>9, <1>10, <1>12, <1>13, <1>14 DEF OpStep

-----------------------------------------------------------------------------
\* What is on Drive under a row's id stays that file's.
LEMMA RemoteOnward ==
    ASSUME TInv, Own, OwnersKept, \A f \in Files : rows'[f].id = rows[f].id
    PROVE  RemoteOwn'
<1>1. ASSUME NEW f \in Files, rows[f].id # 0, Exists(obj'[rows[f].id])
      PROVE  obj'[rows[f].id].body.of = f
  <2>1. rows[f].id \in Ids /\ FileOrGone(rows[f].id)
    BY <1>1 DEF TInv, Typed, RowTable, RowsSound
  <2> QED BY <1>1, <2>1 DEF OwnersKept, Own, RemoteOwn
<1> QED BY <1>1 DEF RemoteOwn

\* What is at a row's path stays that file's.
LEMMA LocalOnward ==
    ASSUME Own, RowsKept,
           \A f \in Files : disk'[rows[f].path] # Nothing => /\ disk[rows[f].path] # Nothing
                                                             /\ disk'[rows[f].path].of = disk[rows[f].path].of
    PROVE  LocalOwn'
BY DEF Own, LocalOwn, RowsKept

\* A row is linked with the file its content went to.
LEMMA RemoteByLink ==
    ASSUME TInv, Own, Link
    PROVE  RemoteOwn' /\ LocalOwn'
<1> DEFINE r == [Row EXCEPT !.id = op.found, !.state = "synced"]
<1>1. op.at = "link" /\ rows' = [rows EXCEPT ![op.f] = r] /\ UNCHANGED <<obj, disk>>
  BY DEF Link, OnlyRow, SetRow
<1>2. op.f \in Files /\ Row \in RowTable /\ rows[op.f].state = "new" /\ op.kind = "upload"
  BY <1>1, AtWork, RowFields DEF TInv, OfRow, InChain
<1>3. r.id = op.found /\ r.path = Row.path
  BY <1>2 DEF RowTable
<1> HIDE DEF r
<1>4. \A g \in Files : rows'[g] = IF g = op.f THEN r ELSE rows[g]
  BY <1>1, <1>2 DEF TInv, Typed
<1>5. RemoteOwn'
  BY <1>1, <1>3, <1>4 DEF Own, RemoteOwn, CarriesOwn
<1>6. LocalOwn'
  BY <1>1, <1>2, <1>3, <1>4 DEF Own, LocalOwn, Row
<1> QED BY <1>5, <1>6

\* A row's new path is where its file is.
LEMMA RemoteBySettle ==
    ASSUME TInv, Own, Settle
    PROVE  RemoteOwn' /\ LocalOwn'
<1> DEFINE r == [Row EXCEPT !.path = op.path]
<1>1. op.at = "settle" /\ rows' = [rows EXCEPT ![op.f] = r] /\ UNCHANGED <<obj, disk>>
  BY DEF Settle, OnlyRow, SetRow
<1>2. op.f \in Files /\ Row \in RowTable /\ op.kind = "rename" /\ rows[op.f].state = "synced"
  BY <1>1, AtWork, RowFields DEF TInv, OfRow, InChain
<1>3. r.id = Row.id /\ r.path = op.path
  BY <1>2 DEF RowTable
<1> HIDE DEF r
<1>4. \A g \in Files : rows'[g] = IF g = op.f THEN r ELSE rows[g]
  BY <1>1, <1>2 DEF TInv, Typed
<1>5. RemoteOwn'
  BY <1>1, <1>3, <1>4 DEF Own, RemoteOwn, Row
<1>6. LocalOwn'
  BY <1>1, <1>2, <1>3, <1>4 DEF Own, LocalOwn, CarriesOwn
<1> QED BY <1>5, <1>6

\* What is renamed into place is that file's.
LEMMA LocalByPromote ==
    ASSUME TInv, Own, Promote
    PROVE  LocalOwn'
<1>1. op.at = "promote" /\ disk' = [disk EXCEPT ![op.path] = staging] /\ rows' = rows
  BY DEF Promote
<1>2. op.f \in Files /\ op.path = rows[op.f].path /\ rows[op.f].state = "synced" /\ op.path \in Path
  BY <1>1, AtWork DEF TInv, OfRow, InChain
<1>3. staging.of = op.f
  BY <1>1 DEF Own, CarriesOwn
<1>4. \A p \in Path : disk'[p] = IF p = op.path THEN staging ELSE disk[p]
  BY <1>1 DEF TInv, Typed
<1>5. ASSUME NEW g \in Files, rows[g].state \in {"new", "synced"}, disk'[rows[g].path] # Nothing
      PROVE  disk'[rows[g].path].of = g
  <2>1. rows[g].path \in Path
    BY RowOf
  <2>2. rows[g].path = op.path => g = op.f
    BY <1>2, <1>5 DEF TInv, PathsApart
  <2> QED BY <1>3, <1>4, <1>5, <2>1, <2>2 DEF Own, LocalOwn
<1> QED BY <1>1, <1>5 DEF LocalOwn

\* No operation carries nothing.
LEMMA CarriesIdle ==
    ASSUME op' = Idle
    PROVE  CarriesOwn'
BY IdleFields DEF CarriesOwn

\* A request tried again carries the same.
LEMMA CarriesRetried ==
    ASSUME TInv, Own, op' = op, op.at \in Http, UNCHANGED <<disk>>
    PROVE  CarriesOwn'
BY DEF Own, CarriesOwn, Http

\* Elsewhere in its chain an operation carries nothing.
LEMMA CarriesOnward ==
    ASSUME TInv, Own, Keeping, disk' = disk \/ op.kind # "rename",
           op'.at \notin {"create", "patch", "fill", "promote", "link"}
    PROVE  CarriesOwn'
BY DEF Own, CarriesOwn, Keeping

(* What an upload or update read, and what it found on Drive, is its       *)
(* file's own.                                                             *)
LEMMA CarriesUpload ==
    ASSUME TInv, TInv', Sighted, Calm, Own, RunProbe \/ Read \/ ServeCreate
    PROVE  CarriesOwn'
<1>1. op.f \in Files /\ op \in Ops /\ op.kind \in {"upload", "update"}
  BY AtWork DEF RunProbe, Read, ServeCreate, Ready, TInv, InChain
<1>2. CASE op' = Idle \/ (op' = op /\ op.at \in Http)
  <2>1. op.at \in Http => op.at = "create"
    BY DEF RunProbe, Read, ServeCreate, Ready, Http
  <2> QED BY <1>1, <1>2, <2>1, CarriesIdle DEF Own, CarriesOwn
<1>3. CASE RunProbe
  <2>1. op.at = "probe" /\ obj' = obj /\ ~disturbed
    BY <1>3 DEF RunProbe, TInv, ByEngine, Calm
  <2>2. CASE op'.at = "link" /\ Keeping
    <3>1. PICK i \in Named(op.folder, DestName) :
            \/ op' = [op EXCEPT !.found = i, !.at = "link"]
            \/ op' = [Idle EXCEPT !.kind = op.kind, !.f = op.f, !.path = op.path, !.hash = op.hash, !.at = "record"]
      BY <1>3, <2>2, IdleFields DEF RunProbe, Continue, Fails
    <3>2. "record" \in Places
      BY DEF Places, Local
    <3>3. op' = [op EXCEPT !.found = i, !.at = "link"]
      BY <2>2, <3>1, <3>2, GoOnFields
    <3>4. op'.found = i /\ op'.at = "link" /\ op'.f = op.f /\ op'.kind = op.kind
      BY <1>1, <3>3 DEF Ops
    <3>5. obj[i].body.of = op.f
      BY <2>1, OwnAddressed DEF Own
    <3> QED BY <1>1, <2>1, <3>4, <3>5 DEF CarriesOwn
  <2> QED BY <1>1, <1>2, <1>3, <2>2, AfterUpload, CarriesOnward
<1>4. CASE Read
  <2>1. CASE Keeping /\ op'.at \in {"create", "patch"} /\ op'.bytes = disk[op.path]
    <3>1. disk[op.path] # Nothing
      BY <1>4, <2>1, IdleFields DEF Read, Fails, Continue
    <3> QED BY <1>1, <2>1, <3>1, LocalKnown DEF CarriesOwn, Keeping
  <2> QED BY <1>2, <1>4, <2>1, AfterUpload
<1>5. CASE ServeCreate
  <2>1. CASE Keeping /\ op'.at = "link" /\ op'.found = Fresh
    <3>1. HasFresh /\ op.at = "create" /\ obj' = [obj EXCEPT ![Fresh] = File(op.path.name, op.folder, op.bytes)]
      BY <1>5 DEF ServeCreate, Ready
    <3>2. Fresh \in Ids
      BY <3>1, FreshIsFresh, TransfersAssumption
    <3>3. obj'[Fresh].body = op.bytes
      BY <3>1, <3>2 DEF TInv, Typed, File
    <3>4. op.bytes.of = op.f
      BY <3>1 DEF Own, CarriesOwn
    <3>5. obj'[op'.found].body.of = op'.f
      BY <2>1, <3>3, <3>4 DEF Keeping
    <3> QED BY <1>1, <2>1, <3>5 DEF CarriesOwn, Keeping
  <2>2. op' = Idle \/ (op' = op /\ op.at \in Http) \/ (Keeping /\ op'.at = "link" /\ op'.found = Fresh)
    BY <1>5, AfterUpload DEF Ends
  <2> QED BY <1>2, <2>1, <2>2
<1> QED BY <1>3, <1>4, <1>5

\* What a download fetches is its file's own.
LEMMA CarriesDownload ==
    ASSUME TInv, Sighted, Calm, Own, RunFetch \/ ServeBytes \/ Fill
    PROVE  CarriesOwn'
<1>1. op.f \in Files /\ op.kind = "download"
  BY AtWork DEF RunFetch, ServeBytes, Fill, Ready, TInv, InChain
<1>2. Row.id \in Ids /\ (Exists(Target) => Target.body.of = op.f)
  BY <1>1, TargetKnown DEF Own, RemoteOwn, Target, Row, Ids
<1>3. CASE RunFetch
  <2>1. op.at = "fetch" /\ ~disturbed
    BY <1>3 DEF RunFetch, TInv, ByEngine, Calm
  <2>2. \A i \in Named(op.folder, op.name) : i = Row.id /\ Exists(Target)
    BY <1>1, <2>1, OnlyTarget DEF Exists, Named, Target
  <2> QED BY <1>1, <1>2, <1>3, <2>2, AfterDownload, CarriesIdle DEF CarriesOwn, Keeping, Target
<1>4. CASE ServeBytes
  <2>1. CASE Ends
    BY <1>1, <1>4, <2>1, CarriesIdle DEF Ends, CarriesOwn, ServeBytes, Ready
  <2>2. CASE Keeping /\ op'.at = "fill" /\ Exists(Target) /\ op'.bytes = Target.body
    BY <1>1, <1>2, <2>2 DEF CarriesOwn, Keeping
  <2> QED BY <1>4, <2>1, <2>2, AfterDownload
<1>5. CASE Fill
  <2>1. op.bytes.of = op.f
    BY <1>5 DEF Fill, Own, CarriesOwn
  <2> QED BY <1>1, <1>5, <2>1, AfterDownload DEF CarriesOwn, Keeping
<1> QED BY <1>3, <1>4, <1>5

\* Every step of an operation leaves files their own contents.
LEMMA OwnByOp ==
    ASSUME TInv, TInv', Sighted, Calm, Own, OpStep
    PROVE  Own'
<1>1. OwnersKept
  BY OwnersByOp
<1>2. RemoteOwn'
  <2>1. CASE Link \/ Settle
    BY <2>1, RemoteByLink, RemoteBySettle
  <2>2. CASE ~Link /\ ~Settle
    BY <1>1, <2>2, RowsByOp, RemoteOnward DEF RowsKept
  <2> QED BY <2>1, <2>2
<1>3. ASSUME ~Promote
      PROVE  disk' = disk
  <2>1. CASE Unserved \/ ServeMeta \/ ServeList \/ ServePost \/ Persist
    BY <2>1, AfterUnserved, AfterMeta, AfterList DEF ServePost, AnswerLost, FailsWith, Fails,
       OnlyDrive, local
  <2>2. CASE RunCopy \/ CopyFails \/ RunProbe \/ Read \/ ServeCreate \/ ServePatch \/ Link \/ Record
    BY <2>2, AfterUpload
  <2>3. CASE RunFetch \/ ServeBytes \/ Fill \/ FillFails \/ PromoteFails \/ Hash
    BY <2>3, AfterDownload
  <2>4. CASE ServeParents \/ ServeMove \/ Settle \/ ServeRemove \/ ServeMemberships \/ ServeUnlink \/ Drop
    BY <2>4, AfterRename
  <2> QED BY <1>3, <2>1, <2>2, <2>3, <2>4 DEF OpStep
<1>4. LocalOwn'
  <2>1. CASE Link \/ Settle \/ Promote
    BY <2>1, RemoteByLink, RemoteBySettle, LocalByPromote
  <2>2. CASE ~Link /\ ~Settle /\ ~Promote
    BY <1>3, <2>2, RowsByOp, LocalOnward
  <2> QED BY <2>1, <2>2
<1>5. CarriesOwn'
  <2>1. CASE op' = Idle
    BY <2>1, CarriesIdle
  <2>2. CASE op' = op /\ op.at \in Http
    <3>1. ~Promote
      BY <2>2 DEF Promote, Http
    <3> QED BY <1>3, <2>2, <3>1, CarriesRetried
  <2>3. CASE RunProbe \/ Read \/ ServeCreate
    BY <2>3, CarriesUpload
  <2>4. CASE RunFetch \/ ServeBytes \/ Fill
    BY <2>4, CarriesDownload
  <2>5. CASE Promote
    <3>1. op.kind # "rename"
      BY <2>5 DEF Promote, TInv, InChain
    <3> QED BY <2>5, <3>1, AfterDownload, CarriesOnward
  <2>6. ASSUME Keeping, ~Promote, op'.at \notin {"create", "patch", "fill", "promote", "link"}
        PROVE  CarriesOwn'
    BY <1>3, <2>6, CarriesOnward
  <2>7. CASE Unserved \/ ServeMeta
    BY <2>1, <2>2, <2>6, <2>7, AfterUnserved, AfterMeta DEF Ends, ServeMeta, Unserved, Promote,
       Ready
  <2>8. CASE ServeList \/ ServePost \/ Persist
    BY <2>1, <2>2, <2>6, <2>8, AfterList DEF Ends, ServeList, ServePost, Persist, Promote, Ready
  <2>9. CASE RunCopy \/ CopyFails \/ ServePatch \/ Link \/ Record
    BY <2>1, <2>2, <2>6, <2>9, AfterUpload DEF Ends, RunCopy, ServePatch, Link, Promote, Ready
  <2>10. CASE FillFails \/ PromoteFails \/ Hash
    BY <2>1, <2>10, AfterDownload
  <2>11. CASE ServeParents \/ ServeMove \/ Settle \/ ServeRemove \/ ServeMemberships \/ ServeUnlink \/ Drop
    BY <2>1, <2>2, <2>6, <2>11, AfterRename
       DEF Ends, ServeParents, ServeMove, ServeRemove, ServeMemberships, ServeUnlink, Promote, Ready
  <2> QED BY <2>3, <2>4, <2>5, <2>7, <2>8, <2>9, <2>10, <2>11 DEF OpStep
<1> QED BY <1>2, <1>4, <1>5 DEF Own

\* So does every beginning of one.
LEMMA OwnByBegin ==
    ASSUME TInv, Own, BeginStep
    PROVE  Own'
<1>1. ASSUME NEW f \in Files, BeginUpload(f) \/ BeginDownload(f) \/ BeginRename(f) \/ BeginDelete(f) \/ BeginMkdir
      PROVE  Own'
  <2>1. UNCHANGED <<obj, rows, disk>>
    BY <1>1, AfterBeginUpload, AfterBeginRename, AfterBeginOther
  <2>2. RemoteOwn' /\ LocalOwn'
    BY <2>1 DEF Own, RemoteOwn, LocalOwn
  <2>3. /\ op'.at \in {"list", "read", "meta", "copy", "bytes", "remove", "parents"}
        /\ op'.kind = "rename" => disk[op'.path].of = op'.f
    BY <1>1, AfterBeginUpload, AfterBeginRename, AfterBeginOther
  <2>4. CarriesOwn'
    BY <2>1, <2>3 DEF CarriesOwn
  <2> QED BY <2>2, <2>4 DEF Own
<1>2. ASSUME NEW f \in Files, RenameUnsynced(f)
      PROVE  Own'
  <2>1. /\ op.kind = "none" /\ op' = op /\ UNCHANGED <<obj, disk, staging>>
        /\ rows' = [rows EXCEPT ![f].state = "gone"]
    BY <1>2, AfterRenameUnsynced
  <2>2. rows \in [Files -> RowTable] /\ rows[f] \in RowTable
    BY RowOf DEF TInv, Typed
  <2> DEFINE r == [rows[f] EXCEPT !.state = "gone"]
  <2>3. r.id = rows[f].id /\ r.path = rows[f].path /\ r.state = "gone"
    BY <2>2 DEF RowTable
  <2>4. rows' = [rows EXCEPT ![f] = r]
    BY <2>1, <2>2
  <2> HIDE DEF r
  <2>5. \A g \in Files : rows'[g] = IF g = f THEN r ELSE rows[g]
    BY <2>2, <2>4
  <2>6. RemoteOwn' /\ LocalOwn'
    BY <2>1, <2>3, <2>5 DEF Own, RemoteOwn, LocalOwn
  <2>7. CarriesOwn'
    BY <2>1 DEF Own, CarriesOwn
  <2> QED BY <2>6, <2>7 DEF Own
<1>3. 2 \in Files
  BY DEF Files
<1> QED BY <1>1, <1>2, <1>3 DEF BeginStep

\* And every act that moves or changes a content as that file's.
LEMMA OwnOnward ==
    ASSUME TInv, Own, OwnersKept, UNCHANGED <<op, rows, staging>>,
           \A p \in Path : (p = op.path \/ \E f \in Files : p = rows[f].path) /\ disk'[p] # Nothing =>
                               disk[p] # Nothing /\ disk'[p].of = disk[p].of
    PROVE  Own'
<1>1. RemoteOwn'
  BY RemoteOnward
<1>2. LocalOwn'
  <2>1. \A f \in Files : rows[f].path \in Path
    BY RowOf
  <2> QED BY <2>1, RowsSame, LocalOnward
<1>3. CarriesOwn'
  <2>1. op.kind = "rename" => op.path \in Path
    BY DEF TInv, OfRow
  <2>2. op.at = "link" => op.found \in Ids /\ FileOrGone(op.found)
    BY AtWork DEF TInv, OnItsWay, Ops
  <2> QED BY <2>1, <2>2 DEF Own, CarriesOwn, OwnersKept
<1> QED BY <1>1, <1>2, <1>3 DEF Own

\* The users only ever replace a content on Drive by a later one of the same file.
Aged ==
    \A i \in Ids : FileOrGone(i) /\ Exists(obj'[i]) =>
        /\ obj[i].kind = "file" /\ obj'[i].kind = "file"
        /\ obj'[i].body.of = obj[i].body.of /\ obj'[i].body.v >= obj[i].body.v
        /\ obj'[i].live => obj[i].live

\* What the users do on Drive is of that kind.
LEMMA DriveAges ==
    ASSUME TInv, DriveEdits \/ DriveRenames \/ DriveMoves \/ DriveTrashes \/ DriveDeletes \/ DriveAdds
    PROVE  Aged
<1>1. obj \in [Ids -> Objects]
  BY DEF TInv, Typed
<1>2. acts \in Nat
  BY TransfersAssumption DEF TInv, Typed
<1>3. \A i \in Ids : obj[i].kind = "file" =>
         obj[i] \in AFile /\ obj[i].body \in Known /\ obj[i].body.v \in 0..acts + 1
  <2>1. \A c \in Known : c.v \in 0..acts + 1
    BY DEF Known
  <2> QED BY <1>1, <2>1, KindsOf, FileSet
<1>4. ASSUME NEW i \in Ids, obj[i].kind = "file", NEW o, obj' = [obj EXCEPT ![i] = o],
             Exists(o) => /\ o.kind = "file" /\ o.body.of = obj[i].body.of
                          /\ o.body.v >= obj[i].body.v /\ (o.live => obj[i].live)
      PROVE  Aged
  <2>1. \A j \in Ids : obj'[j] = IF j = i THEN o ELSE obj[j]
    BY <1>1, <1>4
  <2>2. ASSUME NEW j \in Ids, FileOrGone(j), Exists(obj'[j])
        PROVE  /\ obj[j].kind = "file" /\ obj'[j].kind = "file"
               /\ obj'[j].body.of = obj[j].body.of /\ obj'[j].body.v >= obj[j].body.v
               /\ obj'[j].live => obj[j].live
    <3>1. CASE j = i
      BY <1>4, <2>1, <2>2, <3>1
    <3>2. CASE j # i
      <4>1. obj'[j] = obj[j] /\ obj[j].kind = "file"
        BY <2>1, <2>2, <3>2 DEF FileOrGone, Exists
      <4> QED BY <1>2, <1>3, <4>1
    <3> QED BY <3>1, <3>2
  <2> QED BY <2>2 DEF Aged
<1>5. CASE DriveEdits
  <2>1. PICK i \in Ids : obj[i].kind = "file" /\ obj' = [obj EXCEPT ![i].body.v = acts + 2]
    BY <1>5 DEF DriveEdits
  <2> DEFINE b == [obj[i].body EXCEPT !.v = acts + 2]
             o == [obj[i] EXCEPT !.body = b]
  <2>2. b.of = obj[i].body.of /\ b.v = acts + 2 /\ b.v >= obj[i].body.v
    BY <1>2, <1>3, <2>1 DEF Known
  <2>3. obj' = [obj EXCEPT ![i] = o]
    BY <1>1, <2>1
  <2> HIDE DEF b
  <2>4. o.body = b /\ o.kind = "file" /\ (o.live => obj[i].live)
    BY <1>3, <2>1 DEF AFile
  <2> HIDE DEF o
  <2> QED BY <1>4, <2>1, <2>2, <2>3, <2>4
<1>6. CASE DriveRenames
  <2>1. PICK i \in Ids, n \in Names : obj[i].kind = "file" /\ obj' = [obj EXCEPT ![i].name = n]
    BY <1>6 DEF DriveRenames
  <2> DEFINE o == [obj[i] EXCEPT !.name = n]
  <2>2. /\ o.body = obj[i].body /\ o.kind = "file" /\ (o.live => obj[i].live)
        /\ obj' = [obj EXCEPT ![i] = o]
    BY <1>1, <1>3, <2>1 DEF AFile
  <2> HIDE DEF o
  <2>3. o.body.v >= obj[i].body.v
    BY <1>2, <1>3, <2>1, <2>2
  <2> QED BY <1>4, <2>1, <2>2, <2>3
<1>7. CASE DriveMoves
  <2>1. PICK i \in Ids, p \in {Root} \cup Ids : obj[i].kind = "file" /\ obj' = [obj EXCEPT ![i].parents = {p}]
    BY <1>7 DEF DriveMoves
  <2> DEFINE o == [obj[i] EXCEPT !.parents = {p}]
  <2>2. /\ o.body = obj[i].body /\ o.kind = "file" /\ (o.live => obj[i].live)
        /\ obj' = [obj EXCEPT ![i] = o]
    BY <1>1, <1>3, <2>1 DEF AFile
  <2> HIDE DEF o
  <2>3. o.body.v >= obj[i].body.v
    BY <1>2, <1>3, <2>1, <2>2
  <2> QED BY <1>4, <2>1, <2>2, <2>3
<1>8. CASE DriveTrashes
  <2>1. PICK i \in Ids : obj[i].kind = "file" /\ obj' = [obj EXCEPT ![i].live = FALSE]
    BY <1>8 DEF DriveTrashes
  <2> DEFINE o == [obj[i] EXCEPT !.live = FALSE]
  <2>2. /\ o.body = obj[i].body /\ o.kind = "file" /\ (o.live => obj[i].live)
        /\ obj' = [obj EXCEPT ![i] = o]
    BY <1>1, <1>3, <2>1 DEF AFile
  <2> HIDE DEF o
  <2>3. o.body.v >= obj[i].body.v
    BY <1>2, <1>3, <2>1, <2>2
  <2> QED BY <1>4, <2>1, <2>2, <2>3
<1>9. CASE DriveDeletes
  <2>1. PICK i \in Ids : obj[i].kind = "file" /\ obj' = [obj EXCEPT ![i] = Deleted]
    BY <1>9 DEF DriveDeletes
  <2>2. ~Exists(Deleted)
    BY KindsOf DEF Exists, Objects
  <2> QED BY <1>4, <2>1, <2>2
<1>10. CASE DriveAdds
  <2>1. HasFresh /\ \E o : obj' = [obj EXCEPT ![Fresh] = o]
    BY <1>10 DEF DriveAdds
  <2>2. Fresh \in Ids /\ obj[Fresh] = NoObject
    BY <2>1, FreshIsFresh, TransfersAssumption
  <2>3. obj[Fresh].kind = "none"
    BY <1>1, <2>2, KindsOf
  <2>4. \A j \in Ids : FileOrGone(j) => obj'[j] = obj[j]
    BY <1>1, <2>1, <2>3 DEF FileOrGone
  <2>5. ASSUME NEW j \in Ids, FileOrGone(j), Exists(obj'[j])
        PROVE  obj'[j] = obj[j] /\ obj[j].kind = "file" /\ obj[j].body.v \in 0..acts + 1
    BY <1>3, <2>4, <2>5 DEF FileOrGone, Exists
  <2> QED BY <1>2, <2>5 DEF Aged
<1> QED BY <1>5, <1>6, <1>7, <1>8, <1>9, <1>10

\* So files keep their contents there.
LEMMA OwnByDrive ==
    ASSUME TInv, Own, DriveEdits \/ DriveRenames \/ DriveMoves \/ DriveTrashes \/ DriveDeletes \/ DriveAdds
    PROVE  Own'
<1>1. UNCHANGED <<op, rows, disk, staging>>
  BY DEF DriveEdits, DriveRenames, DriveMoves, DriveTrashes, DriveDeletes, DriveAdds, OnDrive,
     local
<1>2. OwnersKept
  BY DriveAges DEF Aged, OwnersKept, Exists
<1> QED BY <1>1, <1>2, OwnOnward

\* Locally too: nothing is moved to where another file is expected.
LEMMA OwnByLocal ==
    ASSUME TInv, Own, EditsLocally \/ MovesLocally \/ DeletesLocally
    PROVE  Own'
<1>1. UNCHANGED <<op, obj, rows, staging>>
  BY DEF EditsLocally, MovesLocally, DeletesLocally, Locally
<1>2. disk \in [Path -> Known \cup {Nothing}]
  BY DEF TInv, Typed
<1>3. ASSUME NEW p \in Path, p = op.path \/ \E f \in Files : p = rows[f].path, disk'[p] # Nothing
      PROVE  disk[p] # Nothing /\ disk'[p].of = disk[p].of
  <2>1. CASE EditsLocally
    <3>1. PICK q \in Path : disk[q] # Nothing /\ disk' = [disk EXCEPT ![q].v = acts + 2]
      BY <2>1 DEF EditsLocally
    <3>2. disk[q] \in Known
      BY <3>1, PathKnown DEF TInv
    <3> DEFINE c == [disk[q] EXCEPT !.v = acts + 2]
    <3>3. c.of = disk[q].of /\ disk' = [disk EXCEPT ![q] = c]
      BY <1>2, <3>1, <3>2 DEF Known
    <3> HIDE DEF c
    <3> QED BY <1>2, <1>3, <3>1, <3>3
  <2>2. CASE MovesLocally
    <3>1. PICK q \in Path, r \in Path :
            /\ (\A f \in Files : rows[f].path # r) /\ r # op.path
            /\ disk' = [disk EXCEPT ![q] = Nothing, ![r] = disk[q]]
      BY <2>2 DEF MovesLocally
    <3>2. p # r
      BY <1>3, <3>1
    <3> QED BY <1>2, <1>3, <3>1, <3>2
  <2>3. CASE DeletesLocally
    <3>1. PICK q \in Path : disk' = [disk EXCEPT ![q] = Nothing]
      BY <2>3 DEF DeletesLocally
    <3> QED BY <1>2, <1>3, <3>1
  <2> QED BY <2>1, <2>2, <2>3
<1>4. OwnersKept
  BY <1>1, OwnersSame
<1> QED BY <1>1, <1>3, <1>4, OwnOnward

\* A step that leaves contents, rows and the operation alone.
LEMMA OwnSame ==
    ASSUME Own, UNCHANGED <<op, obj, rows, disk, staging>>
    PROVE  Own'
BY DEF Own, RemoteOwn, LocalOwn, CarriesOwn

\* A disturbance is never forgotten, and the engine stays.
LEMMA CalmBefore ==
    ASSUME Sighted, [Next]_vars, Calm'
    PROVE  Calm
<1>1. engine' = engine
  BY DEF Next, ByDaemon, Pace, Crash, Start, EditsLocally, MovesLocally, DeletesLocally,
     Locally,
     DriveEdits, DriveRenames, DriveMoves, DriveTrashes, DriveDeletes, DriveAdds, OnDrive, choice, vars
<1>2. ~disturbed' => ~disturbed
  <2>1. CASE \E hidden : Notice(FALSE, hidden) \/ Notice(op.kind # "none", hidden)
    BY <2>1, Noticed DEF Sighted
  <2>2. CASE UNCHANGED vars
    BY <2>2 DEF vars
  <2> QED BY <2>1, <2>2 DEF Next
<1> QED BY <1>1, <1>2 DEF Calm

(* Every step of the system leaves files their own contents, while it is   *)
(* calm.                                                                   *)
LEMMA UncrossedKept ==
    ASSUME TInv, TInv', Sighted, Uncrossed, [Next]_vars
    PROVE  Uncrossed'
<1> SUFFICES ASSUME Calm' PROVE Own'
  BY DEF Uncrossed
<1>1. Calm /\ Own
  BY CalmBefore DEF Uncrossed
<1>2. CASE ByDaemon
  <2>1. CASE OpStep
    BY <1>1, <2>1, OwnByOp
  <2>2. CASE BeginStep
    BY <1>1, <2>2, OwnByBegin
  <2>3. CASE Pace(Acquire) \/ Pace(OtherRequest)
    BY <1>1, <2>3, OwnSame DEF Pace, local
  <2>4. CASE Crash \/ Start
    <3>1. /\ UNCHANGED <<obj, rows, disk>> /\ op'.kind = "none" /\ op'.at = "none"
      BY <2>4, IdleFields DEF Crash, Start, local, TInv, OfRow, InChain
    <3> QED BY <1>1, <3>1 DEF Own, RemoteOwn, LocalOwn, CarriesOwn
  <2> QED BY <1>2, <2>1, <2>2, <2>3, <2>4 DEF ByDaemon
<1>3. CASE EditsLocally \/ MovesLocally \/ DeletesLocally
  BY <1>1, <1>3, OwnByLocal
<1>4. CASE DriveEdits \/ DriveRenames \/ DriveMoves \/ DriveTrashes \/ DriveDeletes \/ DriveAdds
  BY <1>1, <1>4, OwnByDrive
<1>5. CASE UNCHANGED vars
  BY <1>1, <1>5, OwnSame DEF vars, local
<1> QED BY <1>2, <1>3, <1>4, <1>5 DEF Next

\* At first they have them.
LEMMA UncrossedAtFirst ==
    ASSUME Init
    PROVE  Uncrossed
<1>1. PICK s \in Setups :
         /\ obj = [i \in Ids |-> IF i = 1 THEN File(s[4], Root, [of |-> 1, v |-> 0]) ELSE NoObject]
         /\ rows = <<[state |-> "synced", id |-> 1, path |-> At("", FirstName), body |-> [of |-> 1, v |-> 0]],
                     [state |-> "new", id |-> 0, path |-> At("sub", FirstName), body |-> Nothing]>>
         /\ disk = [p \in Path |-> IF p = At("", FirstName) THEN [of |-> 1, v |-> 1]
                                   ELSE IF p = At("sub", FirstName) THEN [of |-> 2, v |-> 0] ELSE Nothing]
  BY DEF Init
<1>2. 1 \in Ids /\ At("", FirstName) # At("sub", FirstName)
  <2>1. 1 \in Ids
    BY TransfersAssumption DEF Ids
  <2>2. At("", FirstName) # At("sub", FirstName)
    BY DEF At
  <2> QED BY <2>1, <2>2
<1>3. At("", FirstName) \in Path /\ At("sub", FirstName) \in Path
  BY TransfersAssumption DEF At, Path
<1>4. obj[1].body.of = 1
  BY <1>1, <1>2 DEF File
<1>5. /\ rows[1].id = 1 /\ rows[1].path = At("", FirstName)
      /\ rows[2].id = 0 /\ rows[2].path = At("sub", FirstName)
  BY <1>1
<1>6. disk[At("", FirstName)].of = 1 /\ disk[At("sub", FirstName)].of = 2
  BY <1>1, <1>2, <1>3
<1>7. \A f \in Files : f = 1 \/ f = 2
  BY DEF Files
<1>8. CarriesOwn
  BY IdleFields DEF Init, CarriesOwn
<1> QED BY <1>4, <1>5, <1>6, <1>7, <1>8 DEF Uncrossed, Own, RemoteOwn, LocalOwn

(* No file's content ends in another file: with the http engine never,     *)
(* with rclone not while names tell files apart and nobody changes them    *)
(* under an operation (engine/rclone.rs:340-437).                          *)
THEOREM ContentsStayApart == Spec => []NoCrossing
<1> DEFINE Inv == TInv /\ Sighted /\ Uncrossed
<1>1. Init => Inv
  BY TypedAtFirst, SightedAtFirst, UncrossedAtFirst
<1>2. Inv /\ [Next]_vars => Inv'
  BY TypedKept, SightedKept, UncrossedKept
<1>3. Inv => NoCrossing
  BY DEF NoCrossing, Uncrossed, Own, RemoteOwn, LocalOwn
<1> QED BY <1>1, <1>2, <1>3, PTL DEF Spec

-----------------------------------------------------------------------------
(* How far the content of an operation nobody interferes with has come.    *)
Got(i, version) == LiveFile(i) => obj[i].body.v >= version

OnTheWay ==
    /\ op.kind \in {"upload", "update"} /\ op.at # "record" => disk[op.path] = op.hash
    /\ op.at \in {"create", "patch"} => op.bytes = op.hash
    /\ op.at = "probe" => \A i \in Named(op.folder, DestName) : obj[i].body.v >= op.hash.v
    /\ op.at = "link" => Got(op.found, op.hash.v)
    /\ op.at = "record" => Got(Row.id, op.hash.v)
    /\ op.at = "fill" => Got(Row.id, op.bytes.v)
    /\ op.at = "promote" => Got(Row.id, staging.v)
    /\ op.at = "hash" /\ disk[op.path] # Nothing => Got(Row.id, disk[op.path].v)

Delivers == Calm /\ op.kind # "none" /\ op.f \notin overtaken => OnTheWay

\* Versions are numbers, the newest that of the users' last act.
LEMMA Versions ==
    ASSUME TInv
    PROVE  /\ acts \in Nat
           /\ \A c \in Known : c.v \in Nat /\ c.v <= acts + 1
           /\ \A i \in Ids : obj[i].kind = "file" => obj[i].body \in Known /\ obj[i].body.v \in Nat
<1>1. acts \in Nat
  BY TransfersAssumption DEF TInv, Typed
<1>2. \A c \in Known : c.v \in Nat /\ c.v <= acts + 1
  BY <1>1 DEF Known
<1>3. \A i \in Ids : obj[i].kind = "file" => obj[i].body \in Known
  BY KindsOf, FileSet DEF TInv, Typed
<1> QED BY <1>1, <1>2, <1>3

\* Nothing more is claimed of an operation that is elsewhere.
LEMMA WayElsewhere ==
    ASSUME OnTheWay, op'.kind = op.kind, op'.path = op.path, op'.hash = op.hash, disk' = disk,
           op.at # "record" \/ op.kind \notin {"upload", "update"},
           op'.at \notin {"create", "patch", "probe", "link", "record", "fill", "promote", "hash"}
    PROVE  OnTheWay'
BY DEF OnTheWay

\* A request tried again has come as far.
LEMMA WayRetried ==
    ASSUME TInv, OnTheWay, op' = op, op.at \in Http, disk' = disk
    PROVE  OnTheWay'
BY DEF OnTheWay, Http

(* After the copy there is, under that name, what was copied.              *)
LEMMA WayByCopy ==
    ASSUME TInv, Sighted, Calm, OnTheWay, RunCopy
    PROVE  OnTheWay'
<1>1. op.at = "copy" /\ Copies /\ ~disturbed
  BY DEF RunCopy, TInv, ByEngine, Calm
<1>2. op.kind \in {"upload", "update"} /\ op.path \in Path
  BY <1>1, AtWork DEF TInv, InChain
<1>3. /\ Keeping /\ op'.at = "probe" /\ op'.folder = op.folder /\ op'.name = op.name
      /\ UNCHANGED <<rows, disk, staging>>
  BY AfterUpload
<1>4. disk[op.path] = op.hash /\ op.hash # Nothing
  BY <1>1, <1>2 DEF OnTheWay, Copies
<1>5. op.hash.v \in Nat
  BY <1>2, <1>4, Versions, PathKnown DEF TInv
<1>6. DestName' = DestName /\ obj \in [Ids -> Objects]
  BY <1>3 DEF DestName, Keeping, TInv, Typed
<1>7. ASSUME NEW i \in Ids, obj'[i].kind = "file", obj'[i].live, obj'[i].name = DestName,
             op.folder \in obj'[i].parents
      PROVE  obj'[i].body.v >= op.hash.v
  <2>1. CASE \E k \in Named(op.folder, DestName) : obj' = [obj EXCEPT ![k].body = disk[op.path]]
    <3>1. PICK k \in Named(op.folder, DestName) : obj' = [obj EXCEPT ![k].body = disk[op.path]]
      BY <2>1
    <3>2. k \in Ids /\ obj[k] \in AFile
      BY <3>1, NamedAre DEF TInv
    <3>3. obj'[k].body = op.hash
      BY <1>4, <1>6, <3>1, <3>2 DEF AFile
    <3>4. i # k => obj'[i] = obj[i]
      BY <1>6, <3>1
    <3>5. i # k => i \in Named(op.folder, DestName)
      BY <1>7, <3>4 DEF Named
    <3>6. i = k
      BY <1>1, <3>1, <3>5, OnlyOneThere
    <3> QED BY <1>5, <3>3, <3>6
  <2>2. CASE Named(op.folder, DestName) = {} /\ HasFresh
             /\ obj' = [obj EXCEPT ![Fresh] = File(DestName, op.folder, disk[op.path])]
    <3>1. Fresh \in Ids
      BY <2>2, FreshIsFresh, TransfersAssumption
    <3>2. obj'[Fresh].body = op.hash
      BY <1>4, <1>6, <2>2, <3>1 DEF File
    <3>3. i # Fresh => obj'[i] = obj[i]
      BY <1>6, <2>2
    <3>4. i # Fresh => i \in Named(op.folder, DestName)
      BY <1>7, <3>3 DEF Named
    <3> QED BY <1>5, <2>2, <3>2, <3>4
  <2> QED BY <1>1, <2>1, <2>2 DEF Copies
<1>8. \A i \in Named(op.folder, DestName)' : obj'[i].body.v >= op'.hash.v
  BY <1>3, <1>6, <1>7 DEF Named, Keeping
<1>9. disk'[op'.path] = op'.hash
  BY <1>3, <1>4 DEF Keeping
<1> QED BY <1>3, <1>8, <1>9 DEF OnTheWay

\* What the probe finds has what was copied, or a later version.
LEMMA WayByProbe ==
    ASSUME TInv, Sighted, Calm, OnTheWay, RunProbe, op'.kind # "none"
    PROVE  OnTheWay'
<1>1. op.at = "probe" /\ obj' = obj /\ ~disturbed
  BY DEF RunProbe, TInv, ByEngine, Calm
<1>2. op.kind \in {"upload", "update"} /\ op \in Ops
  BY <1>1, AtWork DEF TInv, InChain
<1>3. Keeping /\ op'.at \in {"link", "record"} /\ UNCHANGED <<rows, staging, disk>>
  BY AfterUpload, IdleFields
<1>4. \A i \in Named(op.folder, DestName) : obj[i].body.v >= op.hash.v
  BY <1>1 DEF OnTheWay
<1>5. PICK i \in Named(op.folder, DestName) :
        op' = IF op.kind = "upload" THEN [op EXCEPT !.found = i, !.at = "link"]
              ELSE [Idle EXCEPT !.kind = op.kind, !.f = op.f, !.path = op.path, !.hash = op.hash, !.at = "record"]
  BY IdleFields DEF RunProbe, Continue, Fails
<1>6. CASE op.kind = "upload"
  <2>1. op'.found = i /\ op'.at = "link"
    BY <1>2, <1>5, <1>6 DEF Ops
  <2>2. disk[op.path] = op.hash
    BY <1>1, <1>6 DEF OnTheWay
  <2> QED BY <1>1, <1>3, <1>4, <2>1, <2>2 DEF OnTheWay, Keeping, Got
<1>7. CASE op.kind = "update"
  <2>1. op'.at = "record"
    <3>1. "record" \in Places
      BY DEF Places, Local
    <3> QED BY <1>2, <1>5, <1>7, <3>1, GoOnFields
  <2>2. /\ Row.id \in Ids /\ obj[Row.id].kind = "file" /\ obj[Row.id].name = op.name
        /\ op.folder \in obj[Row.id].parents
    BY <1>1, <1>7, TargetKnown DEF Sighted, Spotted, Target
  <2>3. obj[Row.id].live => Row.id \in Named(op.folder, DestName)
    BY <1>7, <2>2 DEF Named, DestName
  <2>4. Got(Row.id, op.hash.v)
    BY <1>4, <2>3 DEF Got, LiveFile
  <2>5. Got(Row.id, op.hash.v)'
    BY <1>1, <1>3, <2>4 DEF Got, LiveFile, Row, Keeping
  <2> QED BY <2>1, <2>5 DEF OnTheWay
<1> QED BY <1>2, <1>6, <1>7

\* What is read is what was hashed, if nobody touched it.
LEMMA WayByRead ==
    ASSUME TInv, OnTheWay, Read, op'.kind # "none"
    PROVE  OnTheWay'
<1>1. op.at = "read" /\ op.kind \in {"upload", "update"}
  BY DEF Read, TInv, InChain
<1>2. Keeping /\ op'.at \in {"create", "patch"} /\ op'.bytes = disk[op.path] /\ disk' = disk
  BY AfterUpload, IdleFields
<1>3. disk[op.path] = op.hash
  BY <1>1 DEF OnTheWay
<1> QED BY <1>2, <1>3 DEF OnTheWay, Keeping

\* The new file has what was read.
LEMMA WayByCreate ==
    ASSUME TInv, OnTheWay, ServeCreate, op'.kind # "none"
    PROVE  OnTheWay'
<1>1. /\ op.at = "create" /\ HasFresh
      /\ obj' = [obj EXCEPT ![Fresh] = File(op.path.name, op.folder, op.bytes)]
  BY DEF ServeCreate, Ready
<1>2. op.kind = "upload" /\ op.bytes \in Known
  BY <1>1 DEF TInv, InChain, OnItsWay
<1>3. disk[op.path] = op.hash /\ op.bytes = op.hash
  BY <1>1, <1>2 DEF OnTheWay
<1>4. CASE op' = op /\ op.at \in Http
  BY <1>4, AfterUpload, WayRetried
<1>5. CASE Keeping /\ op'.at = "link" /\ op'.found = Fresh
  <2>1. Fresh \in Ids
    BY <1>1, FreshIsFresh, TransfersAssumption
  <2>2. obj'[Fresh].body = op.hash
    BY <1>1, <1>3, <2>1 DEF TInv, Typed, File
  <2>3. op.hash.v \in Nat
    BY <1>2, <1>3, Versions
  <2>4. Got(op.found, op.hash.v)'
    BY <1>5, <2>2, <2>3 DEF Got, Keeping
  <2>5. disk'[op'.path] = op'.hash
    BY <1>3, <1>5, AfterUpload DEF Keeping
  <2> QED BY <1>5, <2>4, <2>5 DEF OnTheWay
<1> QED BY <1>4, <1>5, AfterUpload, IdleFields DEF Ends

\* So has the patched one.
LEMMA WayByPatch ==
    ASSUME TInv, OnTheWay, ServePatch, op'.kind # "none"
    PROVE  OnTheWay'
<1>1. op.at = "patch" /\ op.kind = "update" /\ op.bytes \in Known
  BY DEF ServePatch, Ready, TInv, InChain, OnItsWay
<1>2. op.bytes = op.hash
  BY <1>1 DEF OnTheWay
<1>3. CASE op' = op /\ op.at \in Http
  BY <1>3, AfterUpload, WayRetried
<1>4. CASE Keeping /\ op'.at = "record" /\ rows' = rows
  <2>1. Row.id \in Ids /\ FileOrGone(Row.id) /\ obj \in [Ids -> Objects] /\ Target = obj[Row.id]
        /\ (Exists(Target) => Target \in AFile)
    BY <1>1, TargetKnown DEF TInv, Typed, Target
  <2>2. Exists(Target)
    <3>1. SUFFICES ASSUME ~Exists(Target) PROVE FALSE
      OBVIOUS
    <3>2. FailsWith("not found") /\ stage = "ready"
      BY <3>1 DEF ServePatch, Ready
    <3>3. op' = Idle \/ op' = op
      BY <3>2, FailsAre DEF Ends
    <3> QED BY <1>1, <1>4, <3>3, IdleFields
  <2>3. obj' = [obj EXCEPT ![Row.id].body = op.bytes]
    BY <2>2 DEF ServePatch
  <2>4. obj'[Row.id].body = op.hash
    BY <1>2, <2>1, <2>2, <2>3 DEF AFile
  <2>5. op.hash.v \in Nat /\ Row'.id = Row.id
    BY <1>1, <1>2, <1>4, Versions DEF Row, Keeping
  <2>6. Got(Row.id, op.hash.v)'
    BY <1>4, <2>4, <2>5 DEF Got, Keeping
  <2> QED BY <1>4, <2>6 DEF OnTheWay
<1> QED BY <1>3, <1>4, AfterUpload, IdleFields DEF Ends

\* The row is linked with the file that has it.
LEMMA WayByLink ==
    ASSUME TInv, OnTheWay, Link
    PROVE  OnTheWay'
<1> DEFINE r == [Row EXCEPT !.id = op.found, !.state = "synced"]
<1>1. op.at = "link" /\ rows' = [rows EXCEPT ![op.f] = r] /\ obj' = obj
  BY DEF Link, OnlyRow, SetRow
<1>2. op.f \in Files /\ Row \in RowTable /\ rows \in [Files -> RowTable]
  BY <1>1, AtWork, RowFields DEF TInv, Typed
<1>3. r.id = op.found
  BY <1>2 DEF RowTable
<1> HIDE DEF r
<1>4. Keeping /\ op'.at = "record"
  BY AfterUpload
<1>5. Row'.id = op.found
  BY <1>1, <1>2, <1>3, <1>4 DEF Row, Keeping
<1>6. Got(Row.id, op.hash.v)'
  BY <1>1, <1>4, <1>5 DEF OnTheWay, Got, LiveFile, Keeping
<1> QED BY <1>4, <1>6 DEF OnTheWay

\* What is fetched is not later than what Drive has.
LEMMA WayByFetch ==
    ASSUME TInv, Sighted, Calm, OnTheWay, RunFetch \/ ServeBytes, op'.kind # "none"
    PROVE  OnTheWay'
<1>1. op.kind = "download" /\ op.at \in {"fetch", "bytes"}
  BY DEF RunFetch, ServeBytes, Ready, TInv, InChain
<1>2. Row.id \in Ids /\ FileOrGone(Row.id) /\ Target = obj[Row.id]
  BY <1>1, TargetKnown DEF Target
<1>3. obj' = obj /\ disk' = disk
  BY AfterDownload
<1>4. CASE op' = op /\ op.at \in Http
  BY <1>3, <1>4, WayRetried
<1>5. CASE Keeping /\ op'.at = "fill" /\ op'.bytes = obj[Row.id].body /\ rows' = rows
  <2>1. LiveFile(Row.id) => obj[Row.id].body.v \in Nat
    BY <1>2, Versions DEF LiveFile
  <2>2. Row'.id = Row.id
    BY <1>5 DEF Row, Keeping
  <2>3. Got(Row.id, op.bytes.v)'
    BY <1>3, <1>5, <2>1, <2>2 DEF Got, LiveFile
  <2> QED BY <1>1, <1>5, <2>3 DEF OnTheWay, Keeping
<1>6. CASE RunFetch
  <2>1. ~disturbed /\ op.at = "fetch"
    BY <1>6 DEF RunFetch, TInv, ByEngine, Calm
  <2>2. \A i \in Named(op.folder, op.name) : i = Row.id
    BY <1>1, <2>1, OnlyTarget
  <2> QED BY <1>5, <1>6, <2>2, AfterDownload, IdleFields
<1>7. CASE ServeBytes
  BY <1>2, <1>4, <1>5, <1>7, AfterDownload, IdleFields DEF Ends
<1> QED BY <1>6, <1>7

\* Nor is what is staged.
LEMMA WayByFill ==
    ASSUME TInv, OnTheWay, Fill
    PROVE  OnTheWay'
<1>1. op.at = "fill" /\ op.kind = "download"
  BY DEF Fill, TInv, InChain
<1>2. Keeping /\ op'.at = "promote" /\ staging' = op.bytes /\ UNCHANGED <<obj, rows, disk>>
  BY AfterDownload
<1>3. Got(Row.id, staging.v)'
  BY <1>1, <1>2 DEF OnTheWay, Got, LiveFile, Row, Keeping
<1> QED BY <1>1, <1>2, <1>3 DEF OnTheWay, Keeping

\* Nor what is renamed into place.
LEMMA WayByPromote ==
    ASSUME TInv, OnTheWay, Promote
    PROVE  OnTheWay'
<1>1. op.at = "promote" /\ op.kind = "download" /\ op.path \in Path
  BY AtWork DEF Promote, TInv, InChain
<1>2. Keeping /\ op'.at = "hash" /\ UNCHANGED <<obj, rows>> /\ disk' = [disk EXCEPT ![op.path] = staging]
  BY AfterDownload DEF Promote
<1>3. disk'[op'.path] = staging
  BY <1>1, <1>2 DEF TInv, Typed, Keeping
<1>4. Got(Row.id, disk[op.path].v)'
  BY <1>1, <1>2, <1>3 DEF OnTheWay, Got, LiveFile, Row, Keeping
<1> QED BY <1>1, <1>2, <1>4 DEF OnTheWay, Keeping

\* Every step of an operation takes the content on.
LEMMA WayByOp ==
    ASSUME TInv, TInv', Sighted, Calm, OnTheWay, OpStep, op'.kind # "none"
    PROVE  OnTheWay'
<1>1. CASE RunCopy \/ RunProbe \/ Read \/ ServeCreate \/ ServePatch \/ Link
  BY <1>1, WayByCopy, WayByProbe, WayByRead, WayByCreate, WayByPatch, WayByLink
<1>2. CASE RunFetch \/ ServeBytes \/ Fill \/ Promote
  BY <1>2, WayByFetch, WayByFill, WayByPromote
<1>3. ASSUME Keeping, disk' = disk, op.at # "record",
             op'.at \notin {"create", "patch", "probe", "link", "record", "fill", "promote", "hash"}
      PROVE  OnTheWay'
  BY <1>3, WayElsewhere DEF Keeping
<1>4. CASE Unserved \/ ServeMeta
  BY <1>3, <1>4, AfterUnserved, AfterMeta, WayRetried, IdleFields DEF Ends, ServeMeta, Ready
<1>5. CASE ServeList \/ ServePost \/ Persist
  <2>1. disk' = disk
    BY <1>5, AfterList DEF ServePost, AnswerLost, FailsWith, Fails, OnlyDrive, local
  <2> QED
    BY <1>3, <1>5, <2>1, AfterList, WayRetried, IdleFields DEF Ends, ServeList, ServePost,
       Persist, Ready
<1>6. CASE CopyFails \/ Record
  BY <1>6, AfterUpload, IdleFields
<1>7. CASE FillFails \/ PromoteFails \/ Hash
  BY <1>7, AfterDownload, IdleFields
<1>8. CASE ServeParents \/ ServeMove \/ Settle \/ ServeRemove \/ ServeMemberships \/ ServeUnlink \/ Drop
  BY <1>3, <1>8, AfterRename, WayRetried, IdleFields
     DEF Ends, ServeParents, ServeMove, ServeRemove, ServeMemberships, ServeUnlink, Ready
<1> QED BY <1>1, <1>2, <1>4, <1>5, <1>6, <1>7, <1>8 DEF OpStep

\* An operation begins with what is there.
LEMMA WayByBegin ==
    ASSUME TInv, BeginStep, op'.kind # "none"
    PROVE  OnTheWay'
<1>1. ASSUME NEW f \in Files, BeginUpload(f)
      PROVE  OnTheWay'
  BY <1>1, AfterBeginUpload DEF OnTheWay
<1>2. ASSUME NEW f \in Files, BeginRename(f)
      PROVE  OnTheWay'
  BY <1>2, AfterBeginRename DEF OnTheWay
<1>3. ASSUME NEW f \in Files, BeginDownload(f) \/ BeginDelete(f) \/ BeginMkdir
      PROVE  OnTheWay'
  BY <1>3, AfterBeginOther DEF OnTheWay
<1>4. \A f \in Files : ~RenameUnsynced(f)
  BY AfterRenameUnsynced
<1>5. 2 \in Files
  BY DEF Files
<1> QED BY <1>1, <1>2, <1>3, <1>4, <1>5 DEF BeginStep

\* A step that leaves contents, rows and the operation alone.
LEMMA WaySame ==
    ASSUME OnTheWay, UNCHANGED <<op, obj, rows, disk, staging>>
    PROVE  OnTheWay'
BY DEF OnTheWay, Got, LiveFile, Named, DestName, Row

(* What the users do on Drive makes no content older.                      *)
LEMMA GotLater ==
    ASSUME TInv, TInv', Aged, NEW i \in Ids, FileOrGone(i), NEW v \in Nat, Got(i, v)
    PROVE  Got(i, v)'
<1> SUFFICES ASSUME LiveFile(i)' PROVE obj'[i].body.v >= v
  BY DEF Got
<1>1. obj'[i].kind = "file" /\ obj'[i].live
  BY DEF LiveFile
<1>2. /\ obj[i].kind = "file" /\ obj[i].live /\ obj'[i].body.v >= obj[i].body.v
  BY <1>1 DEF Aged, Exists
<1>3. obj[i].body.v >= v
  BY <1>2 DEF Got, LiveFile
<1>4. obj[i].body.v \in Nat
  BY <1>2, Versions
<1>5. obj'[i].body.v \in Nat
  <2>1. obj' \in [Ids -> Objects'] /\ acts' \in Nat
    BY TransfersAssumption DEF TInv, Typed
  <2>2. obj'[i] \in AFile'
    BY <1>1, <2>1, KindsOf DEF Objects, NoObject, Deleted, SubFolder
  <2> QED BY <2>1, <2>2 DEF AFile, Known
<1> QED BY <1>2, <1>3, <1>4, <1>5

\* An edit on Drive leaves names and folders as they are.
LEMMA EditsOnDrive ==
    ASSUME TInv, DriveEdits
    PROVE  /\ \A folder, n : Named(folder, n)' = Named(folder, n)
           /\ \A j \in Ids : obj'[j].kind = obj[j].kind /\ obj'[j].parents = obj[j].parents
<1>1. PICK i \in Ids : obj[i].kind = "file" /\ obj' = [obj EXCEPT ![i].body.v = acts + 2]
  BY DEF DriveEdits
<1>2. obj \in [Ids -> Objects] /\ obj[i] \in AFile
  BY <1>1, KindsOf, FileSet DEF TInv, Typed
<1> DEFINE o == [obj[i] EXCEPT !.body.v = acts + 2]
<1>3. o.kind = obj[i].kind /\ o.live = obj[i].live /\ o.name = obj[i].name /\ o.parents = obj[i].parents
  BY <1>2 DEF AFile
<1>4. obj' = [obj EXCEPT ![i] = o]
  BY <1>1, <1>2
<1> HIDE DEF o
<1>5. \A j \in Ids : /\ obj'[j].kind = obj[j].kind /\ obj'[j].live = obj[j].live
                     /\ obj'[j].name = obj[j].name /\ obj'[j].parents = obj[j].parents
  BY <1>2, <1>3, <1>4
<1> QED BY <1>5 DEF Named

(* What users do on Drive does not take it back: contents there grow older *)
(* only with their files.                                                  *)
LEMMA WayByDrive ==
    ASSUME TInv, TInv', OnTheWay, op.kind # "none", op.at = "probe" => DriveEdits,
           DriveEdits \/ DriveRenames \/ DriveMoves \/ DriveTrashes \/ DriveDeletes \/ DriveAdds
    PROVE  OnTheWay'
<1>1. UNCHANGED <<op, rows, disk, staging>>
  BY DEF DriveEdits, DriveRenames, DriveMoves, DriveTrashes, DriveDeletes, DriveAdds, OnDrive,
     local
<1>2. Aged
  BY DriveAges
<1>3. op \in Ops /\ op.f \in Files /\ op.path \in Path
  BY DEF TInv, Typed, OfRow
<1>4. \A c \in Known \cup {Nothing} : c.v \in Nat
  BY Versions DEF Nothing
<1>5. op.hash.v \in Nat
  BY <1>3, <1>4 DEF Ops
<1>6. op.at \in {"record", "fill", "promote", "hash"} => Row.id \in Ids /\ FileOrGone(Row.id)
  <2>1. op.at \in {"record", "fill", "promote", "hash"} => Row.state = "synced"
    BY <1>3 DEF TInv, InChain, OfRow, Row
  <2>2. Row.id \in Ids \cup {0}
    BY <1>3 DEF TInv, Typed, RowTable, Row
  <2> QED BY <1>3, <2>1, <2>2 DEF TInv, RowsSound, Row
<1>7. \A v \in Nat : op.at \in {"record", "fill", "promote", "hash"} /\ Got(Row.id, v) => Got(Row.id, v)'
  <2>1. Row' = Row
    BY <1>1 DEF Row
  <2> QED BY <1>2, <1>6, <2>1, GotLater
<1>8. (op.at \in {"create", "patch"} => op.bytes = op.hash)'
  BY <1>1 DEF OnTheWay
<1>9. (op.kind \in {"upload", "update"} /\ op.at # "record" => disk[op.path] = op.hash)'
  BY <1>1 DEF OnTheWay
<1>10. (op.at = "probe" => \A i \in Named(op.folder, DestName) : obj[i].body.v >= op.hash.v)'
  <2> SUFFICES ASSUME op.at = "probe", NEW i \in Named(op.folder, DestName)'
               PROVE  obj'[i].body.v >= op.hash.v
    BY <1>1
  <2>1. i \in Named(op.folder, DestName)
    BY <1>1, EditsOnDrive DEF DestName
  <2>2. i \in Ids /\ LiveFile(i) /\ LiveFile(i)'
    BY <2>1 DEF Named, LiveFile
  <2>3. Got(i, op.hash.v)
    BY <2>1 DEF OnTheWay, Got
  <2>4. Got(i, op.hash.v)'
    BY <1>1, <1>2, <1>5, <2>2, <2>3, GotLater DEF FileOrGone, LiveFile, Got
  <2> QED BY <1>1, <2>2, <2>4 DEF Got
<1>11. (op.at = "link" => Got(op.found, op.hash.v))'
  <2> SUFFICES ASSUME op.at = "link" PROVE Got(op.found, op.hash.v)'
    BY <1>1
  <2>1. op.found \in Ids /\ FileOrGone(op.found) /\ Got(op.found, op.hash.v)
    BY <1>3 DEF TInv, OnItsWay, Ops, OnTheWay
  <2> QED BY <1>1, <1>2, <1>5, <2>1, GotLater DEF Got, LiveFile
<1>12. (op.at = "record" => Got(Row.id, op.hash.v))'
  BY <1>1, <1>5, <1>7 DEF OnTheWay, Got, LiveFile, Row
<1>13. (op.at = "fill" => Got(Row.id, op.bytes.v))'
  <2>1. op.at = "fill" => op.bytes.v \in Nat
    BY <1>4 DEF TInv, OnItsWay
  <2> QED BY <1>1, <1>7, <2>1 DEF OnTheWay, Got, LiveFile, Row
<1>14. (op.at = "promote" => Got(Row.id, staging.v))'
  <2>1. op.at = "promote" => staging.v \in Nat
    BY <1>4 DEF TInv, OnItsWay
  <2> QED BY <1>1, <1>7, <2>1 DEF OnTheWay, Got, LiveFile, Row
<1>15. (op.at = "hash" /\ disk[op.path] # Nothing => Got(Row.id, disk[op.path].v))'
  <2>1. disk[op.path].v \in Nat
    BY <1>3, <1>4 DEF TInv, Typed
  <2> QED BY <1>1, <1>7, <2>1 DEF OnTheWay, Got, LiveFile, Row
<1> QED BY <1>8, <1>9, <1>10, <1>11, <1>12, <1>13, <1>14, <1>15 DEF OnTheWay

\* An operation that goes on is the same one.
LEMMA OpStays ==
    ASSUME TInv, OpStep, op'.kind # "none"
    PROVE  op.kind # "none" /\ op'.f = op.f
<1>1. op' = op \/ Keeping
  <2>1. CASE Unserved \/ ServeMeta
    BY <2>1, AfterUnserved, AfterMeta, IdleFields DEF Ends
  <2>2. CASE ServeList \/ ServePost \/ Persist
    BY <2>2, AfterList, IdleFields DEF Ends
  <2>3. CASE RunCopy \/ CopyFails \/ RunProbe \/ Read \/ ServeCreate \/ ServePatch \/ Link \/ Record
    BY <2>3, AfterUpload, IdleFields DEF Ends
  <2>4. CASE RunFetch \/ ServeBytes \/ Fill \/ FillFails \/ Promote \/ PromoteFails \/ Hash
    BY <2>4, AfterDownload, IdleFields DEF Ends
  <2>5. CASE ServeParents \/ ServeMove \/ Settle \/ ServeRemove \/ ServeMemberships \/ ServeUnlink \/ Drop
    BY <2>5, AfterRename, IdleFields DEF Ends
  <2> QED BY <2>1, <2>2, <2>3, <2>4, <2>5 DEF OpStep
<1> QED BY <1>1 DEF Keeping

(* Every step takes the content of an operation nobody touches locally on, *)
(* while it is calm.                                                       *)
LEMMA DeliversKept ==
    ASSUME TInv, TInv', Sighted, Delivers, [Next]_vars
    PROVE  Delivers'
<1> SUFFICES ASSUME Calm', op'.kind # "none", op'.f \notin overtaken' PROVE OnTheWay'
  BY DEF Delivers
<1>1. Calm
  BY CalmBefore
<1>2. op.kind # "none" /\ op.f \notin overtaken => OnTheWay
  BY <1>1 DEF Delivers
<1>3. CASE ByDaemon
  <2>1. CASE OpStep /\ UNCHANGED overtaken
    BY <1>1, <1>2, <2>1, OpStays, WayByOp
  <2>2. CASE BeginStep
    BY <2>2, WayByBegin
  <2>3. CASE Pace(Acquire) \/ Pace(OtherRequest)
    <3>1. UNCHANGED <<op, obj, rows, disk, staging, overtaken>>
      BY <2>3 DEF Pace, local
    <3> QED BY <1>2, <3>1, WaySame
  <2>4. CASE Crash \/ Start
    BY <2>4, IdleFields DEF Crash, Start, TInv, OfRow
  <2> QED BY <1>3, <2>1, <2>2, <2>3, <2>4 DEF ByDaemon
<1>4. CASE EditsLocally \/ MovesLocally \/ DeletesLocally
  BY <1>4 DEF EditsLocally, MovesLocally, DeletesLocally, Locally
<1>5. CASE DriveEdits \/ ((DriveRenames \/ DriveMoves \/ DriveTrashes \/ DriveDeletes \/ DriveAdds)
                          /\ Notice(op.kind # "none", Loose))
  <2>1. UNCHANGED <<op, engine, overtaken>>
    BY <1>5 DEF DriveEdits, DriveRenames, DriveMoves, DriveTrashes, DriveDeletes, DriveAdds,
       OnDrive, choice
  <2>2. op.at = "probe" => DriveEdits
    <3>1. op.at = "probe" => engine = "rclone"
      BY DEF TInv, ByEngine
    <3>2. op.at = "probe" => ~disturbed'
      BY <2>1, <3>1 DEF Calm
    <3> QED BY <1>5, <2>1, <3>2 DEF Notice
  <2> QED BY <1>2, <1>5, <2>1, <2>2, WayByDrive
<1>6. CASE UNCHANGED vars
  <2>1. UNCHANGED <<op, obj, rows, disk, staging, overtaken>>
    BY <1>6 DEF vars, local
  <2> QED BY <1>2, <2>1, WaySame
<1> QED BY <1>3, <1>4, <1>5, <1>6 DEF Next

\* At first there is none.
LEMMA DeliversAtFirst ==
    ASSUME Init
    PROVE  Delivers
BY IdleFields DEF Init, Delivers

-----------------------------------------------------------------------------
BodiesKept == \A f \in Files : rows'[f].body = rows[f].body

\* A row that keeps its fingerprint.
LEMMA BodyKept ==
    ASSUME TInv, op.at # "none", NEW r, rows' = [rows EXCEPT ![op.f] = r], r.body = Row.body
    PROVE  BodiesKept
<1>1. \A g \in Files : rows'[g] = IF g = op.f THEN r ELSE rows[g]
  BY AtWork DEF TInv, Typed
<1> QED BY <1>1 DEF BodiesKept, Row

\* A failure records none.
LEMMA FailsBodies ==
    ASSUME TInv, op.at # "none", Fails \/ AnswerLost \/ \E failure \in Failures : FailsWith(failure)
    PROVE  BodiesKept
<1>1. CASE rows' = rows
  BY <1>1 DEF BodiesKept
<1> DEFINE r == [Row EXCEPT !.state = "skipped"]
<1>2. r.body = Row.body
  BY RowFields DEF RowTable
<1>3. rows' = rows \/ rows' = [rows EXCEPT ![op.f] = r]
  BY DEF Fails, FailsWith, AnswerLost, SetRow, local
<1> HIDE DEF r
<1> QED BY <1>1, <1>2, <1>3, BodyKept

(* Only the end of an upload, an update or a download records a content.   *)
LEMMA BodiesByOp ==
    ASSUME TInv, OpStep, ~Record, ~Hash
    PROVE  BodiesKept
<1>1. CASE rows' = rows
  BY <1>1 DEF BodiesKept
<1>2. CASE Fails \/ AnswerLost \/ \E failure \in Failures : FailsWith(failure)
  <2>1. op.at # "none" \/ rows' = rows
    BY <1>2 DEF Fails, FailsWith, AnswerLost, SetRow, local
  <2> QED BY <1>1, <1>2, <2>1, FailsBodies
<1>3. CASE Unserved \/ ServeMeta
  BY <1>1, <1>2, <1>3 DEF Unserved, ServeMeta, OnlyDrive, local, Failures
<1>4. CASE ServeList \/ ServePost \/ Persist
  BY <1>1, <1>2, <1>4 DEF ServeList, ServePost, Persist, OnlyDrive, local
<1>5. CASE RunCopy \/ CopyFails \/ RunProbe \/ Read \/ ServeCreate
  BY <1>1, <1>2, <1>5 DEF RunCopy, CopyFails, RunProbe, Read, ServeCreate, OnlyDrive, local
<1>6. CASE ServePatch
  BY <1>1, <1>2, <1>6 DEF ServePatch, OnlyDrive, local, Failures
<1>7. CASE RunFetch \/ ServeBytes \/ Fill \/ FillFails \/ Promote \/ PromoteFails
  BY <1>1, <1>2, <1>7
     DEF RunFetch, ServeBytes, Fill, FillFails, Promote, PromoteFails, BeginFill, Failures
<1>8. CASE ServeParents \/ ServeMove
  BY <1>1, <1>2, <1>8 DEF ServeParents, ServeMove, OnlyDrive, local, Failures
<1>9. CASE ServeRemove
  <2>1. CASE ~Exists(Target)
    <3>1. FailsWith("not found") /\ "not found" \in Failures
      BY <1>9, <2>1 DEF ServeRemove, Failures
    <3> QED BY <1>2, <3>1
  <2>2. CASE Exists(Target) /\ ~owned /\ Row.id = 1
    <3>1. rows' = rows
      BY <1>9, <2>2 DEF ServeRemove, OnlyDrive, local
    <3> QED BY <1>1, <3>1
  <2>3. CASE Exists(Target) /\ ~(~owned /\ Row.id = 1)
    <3>1. rows' = rows \/ AnswerLost
      BY <1>9, <2>3 DEF ServeRemove, OnlyDrive, local
    <3> QED BY <1>1, <1>2, <3>1
  <2> QED BY <2>1, <2>2, <2>3
<1>10. CASE ServeMemberships \/ ServeUnlink
  <2>1. "not found" \in Failures
    BY DEF Failures
  <2>2. ServeMemberships => rows' = rows \/ FailsWith("not found")
    BY DEF ServeMemberships, OnlyDrive, local
  <2>3. ServeUnlink => rows' = rows \/ FailsWith("not found") \/ AnswerLost
    BY DEF ServeUnlink, OnlyDrive, local
  <2> QED BY <1>1, <1>2, <1>10, <2>1, <2>2, <2>3
<1>11. ASSUME NEW r, SetRow(r), op.at # "none", r.body = Row.body
       PROVE  BodiesKept
  BY <1>11, BodyKept DEF SetRow
<1>12. CASE Link
  <2> DEFINE r == [Row EXCEPT !.id = op.found, !.state = "synced"]
  <2>1. op.at = "link" /\ SetRow(r)
    BY <1>12 DEF Link
  <2>2. r.body = Row.body
    BY <2>1, RowFields DEF RowTable
  <2> HIDE DEF r
  <2> QED BY <1>11, <2>1, <2>2
<1>13. CASE Settle
  <2> DEFINE r == [Row EXCEPT !.path = op.path]
  <2>1. op.at = "settle" /\ SetRow(r)
    BY <1>13 DEF Settle
  <2>2. r.body = Row.body
    BY <2>1, RowFields DEF RowTable
  <2> HIDE DEF r
  <2> QED BY <1>11, <2>1, <2>2
<1>14. CASE Drop
  <2> DEFINE r == [Row EXCEPT !.state = "gone"]
  <2>1. op.at = "drop" /\ SetRow(r)
    BY <1>14 DEF Drop
  <2>2. r.body = Row.body
    BY <2>1, RowFields DEF RowTable
  <2> HIDE DEF r
  <2> QED BY <1>11, <2>1, <2>2
<1> QED BY <1>3, <1>4, <1>5, <1>6, <1>7, <1>8, <1>9, <1>10, <1>12, <1>13, <1>14 DEF OpStep

(* A fingerprint recorded as synced is one Drive has, or an older one: the *)
(* version of the file there is at least as late, whatever was retried,    *)
(* failed or cut off before, unless the file was touched locally under the *)
(* operation (runtime.rs:285-360).                                         *)
THEOREM RecordedContentReachedDrive == Spec => RecordedReachedDrive
<1> DEFINE Inv == TInv /\ Sighted /\ Delivers
           Told == \A f \in Files \ overtaken : Calm /\ rows'[f].body # rows[f].body => Reached(f)'
<1>1. Init => Inv
  BY TypedAtFirst, SightedAtFirst, DeliversAtFirst
<1>2. Inv /\ [Next]_vars => Inv'
  BY TypedKept, SightedKept, DeliversKept
<1>3. Inv /\ [Next]_vars => [Told]_vars
  <2> SUFFICES ASSUME Inv, Next, NEW f \in Files \ overtaken, Calm, rows'[f].body # rows[f].body
               PROVE  Reached(f)'
    OBVIOUS
  <2>1. ~BodiesKept
    BY DEF BodiesKept
  <2>2. Record \/ Hash
    <3>1. CASE rows' = rows
      BY <3>1, <2>1 DEF BodiesKept
    <3>2. CASE OpStep
      BY <2>1, <3>2, BodiesByOp
    <3>3. CASE BeginStep
      <4>1. ASSUME NEW g \in Files, RenameUnsynced(g)
            PROVE  BodiesKept
        <5> DEFINE r == [rows[g] EXCEPT !.state = "gone"]
        <5>1. rows' = [rows EXCEPT ![g] = r] /\ r.body = rows[g].body
          BY <4>1 DEF RenameUnsynced, TInv, Typed, RowTable
        <5> HIDE DEF r
        <5> QED BY <5>1 DEF TInv, Typed, BodiesKept
      <4> QED BY <2>1, <3>1, <3>3, <4>1
            DEF BeginStep, BeginUpload, BeginDownload, BeginRename, BeginDelete, BeginMkdir, Begin
    <3>4. CASE ~OpStep /\ ~BeginStep
      BY <3>1, <3>4 DEF Next, ByDaemon, Pace, Crash, Start, EditsLocally, MovesLocally,
         DeletesLocally, Locally,
         DriveEdits, DriveRenames, DriveMoves, DriveTrashes, DriveDeletes, DriveAdds, OnDrive, local
    <3> QED BY <3>2, <3>3, <3>4
  <2>3. op.at \in {"record", "hash"} /\ obj' = obj
    BY <2>2 DEF Record, Hash, OnlyRow
  <2>4. op.f \in Files /\ Row \in RowTable /\ rows \in [Files -> RowTable]
    BY <2>3, AtWork DEF TInv, Typed, Row
  <2>5. ASSUME NEW c, rows' = [rows EXCEPT ![op.f] = [Row EXCEPT !.body = c]],
               op.f \notin overtaken => Got(Row.id, c.v)
        PROVE  Reached(f)'
    <3> DEFINE r == [Row EXCEPT !.body = c]
    <3>1. r.id = Row.id /\ r.body = c
      BY <2>4 DEF RowTable
    <3>2. rows' = [rows EXCEPT ![op.f] = r]
      BY <2>5
    <3> HIDE DEF r
    <3>3. f = op.f /\ rows'[f] = r
      BY <2>4, <3>2
    <3>4. Got(rows'[f].id, rows'[f].body.v)
      BY <2>5, <3>1, <3>3
    <3> QED BY <2>3, <3>4 DEF Got, LiveFile, Reached
  <2>6. op.kind # "none" /\ (op.f \notin overtaken => OnTheWay)
    BY <2>3, AtWork DEF Delivers
  <2>7. CASE Record
    BY <2>5, <2>6, <2>7 DEF Record, SetRow, OnTheWay
  <2>8. CASE Hash
    <3>1. disk[op.path] # Nothing
      <4>1. SUFFICES ASSUME disk[op.path] = Nothing PROVE FALSE
        OBVIOUS
      <4>2. Fails /\ op.at = "hash"
        BY <2>8, <4>1 DEF Hash
      <4> QED BY <2>1, <4>2, FailsBodies
    <3> QED BY <2>5, <2>6, <2>8, <3>1 DEF Hash, SetRow, OnTheWay
  <2> QED BY <2>2, <2>7, <2>8
<1> HIDE DEF Inv
<1> QED BY <1>1, <1>2, <1>3, PTL DEF Spec, RecordedReachedDrive

-----------------------------------------------------------------------------
(* The one folder there is has been seen, or is still to be listed.        *)
OneSub == \A i, j \in Ids : IsSub(i) /\ IsSub(j) => i = j
Sought ==
    /\ op.at = "list" /\ op.found = 0 => \A i \in Ids : IsSub(i) => i > op.last
    /\ op.at = "post" => \A i \in Ids : ~IsSub(i)

Single == unheard \/ disturbed \/ (OneSub /\ Sought)

NoNewSub == \A i \in Ids : obj'[i].kind = "folder" => obj[i].kind = "folder"

\* Of a set of one element at most any two elements are the same.
LEMMA AtMostOne ==
    ASSUME NEW S, IsFiniteSet(S), Cardinality(S) <= 1, NEW a \in S, NEW b \in S
    PROVE  a = b
<1> SUFFICES ASSUME a # b PROVE FALSE
  OBVIOUS
<1>1. IsFiniteSet(S \ {a}) /\ Cardinality(S \ {a}) = Cardinality(S) - 1
  BY FS_RemoveElement
<1>2. Cardinality(S) \in Nat
  BY FS_CardinalityType
<1>3. Cardinality(S \ {a}) \in Nat
  BY <1>1, FS_CardinalityType
<1>4. Cardinality(S \ {a}) = 0
  BY <1>1, <1>2, <1>3
<1> QED BY <1>1, <1>4, FS_EmptySet

\* An object that becomes something else than a folder adds no folder.
LEMMA SetNoSub ==
    ASSUME TInv, NEW i \in Ids, NEW o, obj' = [obj EXCEPT ![i] = o], o.kind # "folder"
    PROVE  NoNewSub
BY DEF TInv, Typed, NoNewSub

\* Nor does what leaves Drive alone.
LEMMA SameNoSub ==
    ASSUME obj' = obj
    PROVE  NoNewSub
BY DEF NoNewSub

\* Nor does a new file.
LEMMA FileNoSub ==
    ASSUME TInv, HasFresh, NEW n, NEW p, NEW b, obj' = [obj EXCEPT ![Fresh] = File(n, p, b)]
    PROVE  NoNewSub
<1>1. Fresh \in Ids
  BY FreshIsFresh, TransfersAssumption
<1>2. File(n, p, b).kind = "file"
  BY DEF File
<1> QED BY <1>1, <1>2, SetNoSub

(* Of an operation's requests only create_folder makes a folder.           *)
LEMMA NoSubByOp ==
    ASSUME TInv, OpStep, ~ServePost
    PROVE  NoNewSub
<1>0. obj \in [Ids -> Objects]
  BY DEF TInv, Typed
<1>1. CASE Copies
  <2>1. ASSUME NEW k \in Named(op.folder, DestName), obj' = [obj EXCEPT ![k].body = disk[op.path]]
        PROVE  NoNewSub
    <3> DEFINE o == [obj[k] EXCEPT !.body = disk[op.path]]
    <3>1. k \in Ids /\ obj[k] \in AFile
      BY NamedAre DEF TInv
    <3>2. o.kind = "file" /\ obj' = [obj EXCEPT ![k] = o]
      BY <1>0, <2>1, <3>1 DEF AFile
    <3> HIDE DEF o
    <3> QED BY <3>1, <3>2, SetNoSub
  <2> QED BY <1>1, <2>1, FileNoSub DEF Copies
<1>2. CASE RunCopy \/ CopyFails
  BY <1>1, <1>2, SameNoSub DEF RunCopy, CopyFails
<1>3. CASE ServeCreate
  BY <1>3, FileNoSub DEF ServeCreate
<1>4. CASE ServePatch /\ obj' # obj
  <2> DEFINE o == [obj[Row.id] EXCEPT !.body = op.bytes]
  <2>1. Row.id \in Ids /\ obj[Row.id] \in AFile /\ obj' = [obj EXCEPT ![Row.id] = o]
    BY <1>4, PatchTouches
  <2>2. o.kind = "file"
    BY <2>1 DEF AFile
  <2> HIDE DEF o
  <2> QED BY <2>1, <2>2, SetNoSub
<1>5. CASE ServeMove \/ ServeRemove \/ ServeUnlink
  <2>1. op.kind \in {"rename", "delete"}
    BY <1>5 DEF ServeMove, ServeRemove, ServeUnlink, Ready, TInv, InChain
  <2>2. Row.id \in Ids /\ FileOrGone(Row.id) /\ (Exists(obj[Row.id]) => obj[Row.id] \in AFile)
    BY <2>1, TargetKnown DEF Target
  <2>3. CASE ServeMove /\ obj' # obj
    <3>1. Exists(obj[Row.id])
          /\ obj' = [obj EXCEPT ![Row.id].parents = Moved(@), ![Row.id].name = op.path.name]
      BY <2>3 DEF ServeMove, Target
    <3> DEFINE o == [obj[Row.id] EXCEPT !.parents = Moved(obj[Row.id].parents), !.name = op.path.name]
    <3>2. obj' = [obj EXCEPT ![Row.id] = o]
      BY <1>0, <2>2, <3>1
    <3>3. o.kind = "file"
      BY <2>2, <3>1 DEF AFile
    <3> HIDE DEF o
    <3> QED BY <2>2, <3>2, <3>3, SetNoSub
  <2>4. CASE ServeRemove /\ obj' # obj
    <3>1. Exists(obj[Row.id])
          /\ obj' = [obj EXCEPT ![Row.id] = IF mode = "trash" THEN [@ EXCEPT !.live = FALSE] ELSE Deleted]
      BY <2>4 DEF ServeRemove, Target
    <3> DEFINE o == IF mode = "trash" THEN [obj[Row.id] EXCEPT !.live = FALSE] ELSE Deleted
    <3>2. obj' = [obj EXCEPT ![Row.id] = o]
      BY <1>0, <2>2, <3>1
    <3>3. o.kind # "folder"
      <4>1. Deleted.kind = "deleted"
        BY KindsOf DEF Objects
      <4>2. [obj[Row.id] EXCEPT !.live = FALSE].kind = "file"
        BY <2>2, <3>1 DEF AFile
      <4> QED BY <4>1, <4>2
    <3> HIDE DEF o
    <3> QED BY <2>2, <3>2, <3>3, SetNoSub
  <2>5. CASE ServeUnlink /\ obj' # obj
    <3>1. obj' = [obj EXCEPT ![Row.id].parents = @ \ op.in]
      BY <2>5 DEF ServeUnlink
    <3>2. obj[Row.id].kind # "folder"
      BY <2>2 DEF FileOrGone
    <3>3. obj'[Row.id].kind = obj[Row.id].kind
      <4>1. obj[Row.id] \in AFile \/ obj[Row.id] = Deleted
        BY <1>0, <2>2, KindsOf DEF FileOrGone
      <4>2. Deleted \in [kind : {"deleted"}, name : {""}, parents : {{}}, body : {Nothing}, live : {FALSE}]
        BY DEF Deleted, NoObject
      <4> DEFINE o == [obj[Row.id] EXCEPT !.parents = @ \ op.in]
      <4>3. o.kind = obj[Row.id].kind
        <5>1. CASE obj[Row.id] \in AFile
          BY <5>1 DEF AFile
        <5>2. CASE obj[Row.id] = Deleted
          BY <4>2, <5>2
        <5> QED BY <4>1, <5>1, <5>2
      <4>4. obj'[Row.id] = o
        BY <1>0, <2>2, <3>1
      <4> HIDE DEF o
      <4> QED BY <4>3, <4>4
    <3> QED BY <1>0, <2>2, <3>1, <3>2, <3>3 DEF NoNewSub
  <2> QED BY <1>5, <2>3, <2>4, <2>5, SameNoSub
<1>6. CASE Unserved \/ ServeMeta \/ ServeList \/ Persist
  BY <1>6, SameNoSub, AfterUnserved, AfterMeta, AfterList
<1>7. CASE RunProbe \/ Read \/ Link \/ Record
  BY <1>7, SameNoSub, AfterUpload
<1>8. CASE RunFetch \/ ServeBytes \/ Fill \/ FillFails \/ Promote \/ PromoteFails \/ Hash
  BY <1>8, SameNoSub, AfterDownload
<1>9. CASE ServeParents \/ Settle \/ ServeMemberships \/ Drop
  BY <1>9, SameNoSub, AfterRename
<1> QED BY <1>2, <1>3, <1>4, <1>5, <1>6, <1>7, <1>8, <1>9, SameNoSub DEF OpStep

\* Of the users' acts on Drive only an addition makes a folder.
LEMMA NoSubByDrive ==
    ASSUME TInv, DriveEdits \/ DriveRenames \/ DriveMoves \/ DriveTrashes \/ DriveDeletes
    PROVE  NoNewSub
<1>1. obj \in [Ids -> Objects]
  BY DEF TInv, Typed
<1>2. \A i \in Ids : obj[i].kind = "file" => obj[i] \in AFile
  BY <1>1, KindsOf
<1>3. CASE DriveEdits
  BY <1>3, EditsOnDrive DEF NoNewSub
<1>4. CASE DriveRenames
  <2>1. PICK i \in Ids, n \in Names : obj[i].kind = "file" /\ obj' = [obj EXCEPT ![i].name = n]
    BY <1>4 DEF DriveRenames
  <2> DEFINE o == [obj[i] EXCEPT !.name = n]
  <2>2. obj' = [obj EXCEPT ![i] = o]
    BY <1>1, <2>1
  <2>3. o.kind = "file"
    BY <1>2, <2>1 DEF AFile
  <2> HIDE DEF o
  <2> QED BY <2>2, <2>3, SetNoSub
<1>5. CASE DriveMoves
  <2>1. PICK i \in Ids, p \in {Root} \cup Ids : obj[i].kind = "file" /\ obj' = [obj EXCEPT ![i].parents = {p}]
    BY <1>5 DEF DriveMoves
  <2> DEFINE o == [obj[i] EXCEPT !.parents = {p}]
  <2>2. obj' = [obj EXCEPT ![i] = o]
    BY <1>1, <2>1
  <2>3. o.kind = "file"
    BY <1>2, <2>1 DEF AFile
  <2> HIDE DEF o
  <2> QED BY <2>2, <2>3, SetNoSub
<1>6. CASE DriveTrashes
  <2>1. PICK i \in Ids : obj[i].kind = "file" /\ obj' = [obj EXCEPT ![i].live = FALSE]
    BY <1>6 DEF DriveTrashes
  <2> DEFINE o == [obj[i] EXCEPT !.live = FALSE]
  <2>2. obj' = [obj EXCEPT ![i] = o]
    BY <1>1, <2>1
  <2>3. o.kind = "file"
    BY <1>2, <2>1 DEF AFile
  <2> HIDE DEF o
  <2> QED BY <2>2, <2>3, SetNoSub
<1>7. CASE DriveDeletes
  <2>1. Deleted.kind # "folder"
    BY KindsOf DEF Objects
  <2> QED BY <1>7, <2>1, SetNoSub DEF DriveDeletes
<1> QED BY <1>3, <1>4, <1>5, <1>6, <1>7

\* A folder is below the root and never in the trash.
LEMMA SubIs ==
    ASSUME TInv, NEW i \in Ids
    PROVE  /\ IsSub(i) <=> obj[i].kind = "folder"
           /\ IsSub(i) => obj[i].live /\ Root \in obj[i].parents /\ obj[i].kind # "none"
<1>1. IsSub(i) <=> obj[i] = SubFolder
  BY FolderIsSub DEF TInv
<1>2. obj[i].kind = "folder" <=> obj[i] = SubFolder
  BY KindsOf DEF TInv, Typed
<1> QED BY <1>1, <1>2 DEF SubFolder

(* While no folder is added, and no new listing ends, there is one at most *)
(* and it is still ahead of the listing.                                   *)
LEMMA StillSought ==
    ASSUME TInv, TInv', OneSub, Sought, NoNewSub, op' = op \/ op'.at \notin {"list", "post"}
    PROVE  OneSub' /\ Sought'
<1>1. \A i \in Ids : IsSub(i)' => IsSub(i)
  <2> SUFFICES ASSUME NEW i \in Ids, IsSub(i)' PROVE IsSub(i)
    OBVIOUS
  <2>1. obj'[i].kind = "folder"
    BY DEF IsSub
  <2> QED BY <2>1, SubIs DEF NoNewSub
<1> QED BY <1>1 DEF OneSub, Sought

(* The list of a folder's children comes to an end with its last page, and *)
(* by then the folder has been seen if it is there.                        *)
LEMMA SoughtByList ==
    ASSUME TInv, OneSub, Sought, ServeList
    PROVE  OneSub' /\ Sought'
<1> DEFINE first == IF Unlisted = {} THEN 0 ELSE Min(Unlisted)
           found == IF op.found = 0 /\ first # 0 /\ IsSub(first) THEN first ELSE op.found
<1>1. op.at = "list" /\ obj' = obj
  BY DEF ServeList, Ready
<1>2. op \in Ops
  BY <1>1, AtWork
<1>3. /\ op'.found = found
      /\ op'.last = IF LastPage THEN 0 ELSE first
      /\ op'.at = IF ~LastPage THEN "list" ELSE IF found # 0 THEN "persist" ELSE "post"
  <2>1. op' = [op EXCEPT !.last = IF LastPage THEN 0 ELSE first,
                         !.found = found,
                         !.folder = IF LastPage THEN found ELSE Root,
                         !.at = IF ~LastPage THEN "list" ELSE IF found # 0 THEN "persist" ELSE "post"]
    BY DEF ServeList, Continue
  <2> HIDE DEF first, found
  <2> QED BY <1>2, <2>1 DEF Ops
<1>4. IsFiniteSet(Unlisted) /\ Unlisted \in SUBSET Nat
  <2>1. IsFiniteSet(1..MaxIds)
    BY TransfersAssumption, FS_Interval
  <2>2. Unlisted \subseteq 1..MaxIds
    BY DEF Unlisted, Children, Ids
  <2>3. Unlisted \in SUBSET Nat
    BY <2>2, TransfersAssumption
  <2>4. IsFiniteSet(Unlisted)
    BY <2>1, <2>2, FS_Subset
  <2> QED BY <2>3, <2>4
<1>5. ASSUME NEW i \in Ids, IsSub(i), found = 0
      PROVE  i \in Unlisted /\ i > first /\ ~LastPage
  <2>1. op.found = 0
    BY <1>5
  <2>2. i \in Unlisted
    BY <1>1, <1>5, <2>1, SubIs DEF Sought, Unlisted, Children
  <2>3. first \in Unlisted /\ first <= i
    BY <1>4, <2>2, MinIsSmallest
  <2>4. i # first
    BY <1>5, <2>1, <2>3 DEF Ids
  <2>5. ~LastPage
    BY <1>4, <2>2, <2>3, <2>4, AtMostOne DEF LastPage
  <2>6. i \in Nat /\ first \in Nat
    BY <1>4, <2>2, <2>3
  <2> HIDE DEF first
  <2> QED BY <2>2, <2>3, <2>4, <2>5, <2>6
<1>6. OneSub' /\ \A i \in Ids : IsSub(i)' <=> IsSub(i)
  BY <1>1 DEF OneSub, IsSub
<1> HIDE DEF first, found
<1>7. Sought'
  BY <1>3, <1>5, <1>6 DEF Sought
<1> QED BY <1>6, <1>7

\* create_folder is only asked for when there is none.
LEMMA SoughtByPost ==
    ASSUME TInv, TInv', OneSub, Sought, ServePost, ~unheard'
    PROVE  OneSub' /\ Sought'
<1>1. /\ op.at = "post" /\ HasFresh /\ obj' = [obj EXCEPT ![Fresh] = SubFolder]
      /\ op'.at = "persist"
  BY AfterList DEF ServePost, Ready
<1>2. \A i \in Ids : obj'[i].kind = "folder" => i = Fresh
  BY <1>1, SubIs DEF TInv, Typed, Sought
<1> QED BY <1>1, <1>2 DEF OneSub, Sought, IsSub

(* No step of an operation makes a second folder, unless an answer was     *)
(* lost.                                                                   *)
LEMMA SoughtByOp ==
    ASSUME TInv, TInv', OneSub, Sought, OpStep, ~unheard'
    PROVE  OneSub' /\ Sought'
<1>1. CASE ServeList \/ ServePost
  BY <1>1, SoughtByList, SoughtByPost
<1>2. ASSUME ~ServePost, op' = op \/ op' = Idle \/ op'.at \notin {"list", "post"}
      PROVE  OneSub' /\ Sought'
  BY <1>2, NoSubByOp, StillSought, IdleFields
<1>3. CASE ~ServePost /\ (Unserved \/ ServeMeta \/ Persist)
  BY <1>2, <1>3, AfterUnserved, AfterMeta, AfterList DEF Ends
<1>4. CASE ~ServePost /\ (RunCopy \/ CopyFails \/ RunProbe \/ Read \/ ServeCreate \/ ServePatch \/ Link \/ Record)
  BY <1>2, <1>4, AfterUpload DEF Ends
<1>5. CASE ~ServePost /\ (RunFetch \/ ServeBytes \/ Fill \/ FillFails \/ Promote \/ PromoteFails \/ Hash)
  BY <1>2, <1>5, AfterDownload DEF Ends
<1>6. CASE ~ServePost /\ (ServeParents \/ ServeMove \/ Settle \/ ServeRemove \/ ServeMemberships \/ ServeUnlink \/ Drop)
  BY <1>2, <1>6, AfterRename DEF Ends
<1> QED BY <1>1, <1>3, <1>4, <1>5, <1>6 DEF OpStep

\* A listing begins before the first child.
LEMMA SoughtByBegin ==
    ASSUME TInv, OneSub, Sought, BeginStep
    PROVE  OneSub' /\ Sought'
<1>1. ASSUME obj' = obj, op' = op \/ (op'.at # "post" /\ (op'.at = "list" => op'.last = 0))
      PROVE  OneSub' /\ Sought'
  BY <1>1 DEF OneSub, Sought, IsSub, Ids
<1>2. ASSUME NEW f \in Files, BeginUpload(f) \/ BeginRename(f) \/ RenameUnsynced(f)
      PROVE  OneSub' /\ Sought'
  BY <1>1, <1>2, AfterBeginUpload, AfterBeginRename, AfterRenameUnsynced
<1>3. ASSUME NEW f \in Files, BeginDownload(f) \/ BeginDelete(f) \/ BeginMkdir
      PROVE  OneSub' /\ Sought'
  BY <1>1, <1>3, AfterBeginOther
<1>4. 2 \in Files
  BY DEF Files
<1> QED BY <1>2, <1>3, <1>4 DEF BeginStep

\* A lost answer is not forgotten.
LEMMA UnheardStays ==
    ASSUME [Next]_vars, unheard
    PROVE  unheard'
<1>1. CASE OpStep
  BY <1>1 DEF OpStep, Unserved, ServeList, ServePost, Persist, ServeMeta, RunCopy, CopyFails,
     RunProbe, Read,
     ServeCreate, ServePatch, Link, Record, RunFetch, ServeBytes, Fill, FillFails, Promote, PromoteFails,
     Hash, ServeParents, ServeMove, Settle, ServeRemove, ServeMemberships, ServeUnlink, Drop
<1>2. CASE BeginStep
  BY <1>2 DEF BeginStep, BeginUpload, BeginDownload, BeginRename, RenameUnsynced, BeginDelete,
     BeginMkdir, Begin
<1>3. CASE Pace(Acquire) \/ Pace(OtherRequest) \/ Crash \/ Start
  BY <1>3 DEF Pace, Crash, Start
<1>4. CASE EditsLocally \/ MovesLocally \/ DeletesLocally
  BY <1>4 DEF EditsLocally, MovesLocally, DeletesLocally, Locally
<1>5. CASE DriveEdits \/ DriveRenames \/ DriveMoves \/ DriveTrashes \/ DriveDeletes \/ DriveAdds
  BY <1>5 DEF DriveEdits, DriveRenames, DriveMoves, DriveTrashes, DriveDeletes, DriveAdds,
     OnDrive
<1>6. CASE UNCHANGED vars
  BY <1>6 DEF vars
<1> QED BY <1>1, <1>2, <1>3, <1>4, <1>5, <1>6 DEF Next, ByDaemon

\* No step of the system makes a second folder.
LEMMA SingleKept ==
    ASSUME TInv, TInv', Sighted, Single, [Next]_vars
    PROVE  Single'
<1> SUFFICES ASSUME ~unheard', ~disturbed' PROVE OneSub' /\ Sought'
  BY DEF Single
<1>1. ~unheard
  BY UnheardStays
<1>2. ~disturbed
  <2>1. CASE \E hidden : Notice(FALSE, hidden) \/ Notice(op.kind # "none", hidden)
    BY <2>1, Noticed DEF Sighted
  <2>2. CASE UNCHANGED vars
    BY <2>2 DEF vars
  <2> QED BY <2>1, <2>2 DEF Next
<1>3. OneSub /\ Sought
  BY <1>1, <1>2 DEF Single
<1>4. CASE OpStep \/ BeginStep
  BY <1>3, <1>4, SoughtByOp, SoughtByBegin
<1>5. ASSUME NoNewSub, op' = op \/ op' = Idle
      PROVE  OneSub' /\ Sought'
  BY <1>3, <1>5, StillSought, IdleFields
<1>6. CASE Pace(Acquire) \/ Pace(OtherRequest) \/ Crash \/ Start
  BY <1>5, <1>6, SameNoSub DEF Pace, Crash, Start
<1>7. CASE EditsLocally \/ MovesLocally \/ DeletesLocally
  BY <1>5, <1>7, SameNoSub DEF EditsLocally, MovesLocally, DeletesLocally, Locally
<1>8. CASE DriveEdits \/ DriveRenames \/ DriveMoves \/ DriveTrashes \/ DriveDeletes
  <2>1. op' = op
    BY <1>8 DEF DriveEdits, DriveRenames, DriveMoves, DriveTrashes, DriveDeletes, OnDrive
  <2> QED BY <1>5, <1>8, <2>1, NoSubByDrive
<1>9. CASE DriveAdds /\ Notice(op.kind # "none", Loose)
  <2>1. op.kind = "none" /\ op' = op /\ HasFresh
    BY <1>9 DEF DriveAdds, OnDrive, Notice
  <2>2. CASE ~ \E i \in Ids : IsSub(i)
    <3>1. PICK o : obj' = [obj EXCEPT ![Fresh] = o]
      BY <1>9 DEF DriveAdds
    <3>2. \A i \in Ids : obj'[i].kind = "folder" => i = Fresh
      BY <2>2, <3>1, SubIs DEF TInv, Typed
    <3>3. op'.at = "none"
      BY <2>1 DEF TInv, InChain
    <3> QED BY <3>2, <3>3 DEF OneSub, Sought, IsSub
  <2>3. CASE \E i \in Ids : IsSub(i)
    BY <1>5, <1>9, <2>1, <2>3, FileNoSub DEF DriveAdds
  <2> QED BY <2>2, <2>3
<1>10. CASE UNCHANGED vars
  BY <1>5, <1>10, SameNoSub DEF vars
<1> QED BY <1>4, <1>6, <1>7, <1>8, <1>9, <1>10 DEF Next, ByDaemon

\* At first there is none.
LEMMA SingleAtFirst ==
    ASSUME Init
    PROVE  Single
<1>1. PICK s \in Setups :
         obj = [i \in Ids |-> IF i = 1 THEN File(s[4], Root, [of |-> 1, v |-> 0]) ELSE NoObject]
  BY DEF Init
<1>2. \A i \in Ids : ~IsSub(i)
  BY <1>1 DEF IsSub, File, NoObject
<1> QED BY <1>2, IdleFields DEF Init, Single, OneSub, Sought

(* However often folders are asked for, in whatever pages Drive lists them *)
(* and wherever the process dies, there is one folder of a name, if no     *)
(* answer to a creation got lost and no user made one meanwhile            *)
(* (runtime.rs:560-606).                                                   *)
THEOREM OneFolderOfAName == Spec => []OneFolderPerName
<1> DEFINE Inv == TInv /\ Sighted /\ Single
<1>1. Init => Inv
  BY TypedAtFirst, SightedAtFirst, SingleAtFirst
<1>2. Inv /\ [Next]_vars => Inv'
  BY TypedKept, SightedKept, SingleKept
<1>3. Inv => OneFolderPerName
  <2> SUFFICES ASSUME OneSub PROVE Cardinality({i \in Ids : IsSub(i)}) <= 1
    BY DEF Single, OneFolderPerName
  <2>1. CASE {i \in Ids : IsSub(i)} = {}
    BY <2>1, FS_EmptySet
  <2>2. ASSUME NEW k \in {i \in Ids : IsSub(i)}
        PROVE  Cardinality({i \in Ids : IsSub(i)}) = 1
    <3>1. {i \in Ids : IsSub(i)} = {k}
      BY DEF OneSub
    <3> QED BY <3>1, FS_Singleton
  <2> QED BY <2>1, <2>2
<1> HIDE DEF Inv
<1> QED BY <1>1, <1>2, <1>3, PTL DEF Spec

-----------------------------------------------------------------------------
(* Where the files are, and what a rename under way knows of it.           *)
InPlace(i, o) ==
    o.kind = "file" => /\ \A a, b \in o.parents : a = b
                       /\ o.parents = {} => ~owned /\ i = 1

PlacedAll == \A i \in Ids : InPlace(i, obj[i])
MoveKnown == op.at = "move" /\ Target.kind = "file" => Target.parents \subseteq op.in \cup {op.folder}

Placed == PlacedAll /\ MoveKnown
Housed == ~disturbed => Placed

\* One object changes, and is where it may be.
LEMMA PlaceSet ==
    ASSUME TInv, PlacedAll, owned' = owned, NEW i \in Ids, NEW o, obj' = [obj EXCEPT ![i] = o], InPlace(i, o)
    PROVE  PlacedAll'
<1>1. \A j \in Ids : obj'[j] = IF j = i THEN o ELSE obj[j]
  BY DEF TInv, Typed
<1> QED BY <1>1 DEF PlacedAll, InPlace

\* Nothing on Drive changes.
LEMMA PlaceSame ==
    ASSUME PlacedAll, owned' = owned, obj' = obj
    PROVE  PlacedAll'
BY DEF PlacedAll, InPlace

\* A new file is in one folder.
LEMMA PlaceFile ==
    ASSUME TInv, PlacedAll, owned' = owned, HasFresh, NEW n, NEW p, NEW b,
           obj' = [obj EXCEPT ![Fresh] = File(n, p, b)]
    PROVE  PlacedAll'
<1>1. Fresh \in Ids
  BY FreshIsFresh, TransfersAssumption
<1>2. File(n, p, b).parents = {p}
  BY DEF File
<1>3. InPlace(Fresh, File(n, p, b))
  BY <1>2 DEF InPlace
<1> QED BY <1>1, <1>3, PlaceSet

\* Uploads and updates leave files where they are.
LEMMA PlaceByUpload ==
    ASSUME TInv, PlacedAll, owned' = owned, RunCopy \/ CopyFails \/ ServeCreate \/ ServePatch
    PROVE  PlacedAll'
<1>0. obj \in [Ids -> Objects]
  BY DEF TInv, Typed
<1>1. CASE Copies
  <2>1. ASSUME NEW k \in Named(op.folder, DestName), obj' = [obj EXCEPT ![k].body = disk[op.path]]
        PROVE  PlacedAll'
    <3> DEFINE o == [obj[k] EXCEPT !.body = disk[op.path]]
    <3>1. k \in Ids /\ obj[k] \in AFile
      BY NamedAre DEF TInv
    <3>2. o.parents = obj[k].parents /\ o.kind = obj[k].kind /\ obj' = [obj EXCEPT ![k] = o]
      BY <1>0, <2>1, <3>1 DEF AFile
    <3> HIDE DEF o
    <3>3. InPlace(k, o)
      BY <3>1, <3>2 DEF PlacedAll, InPlace
    <3> QED BY <3>1, <3>2, <3>3, PlaceSet
  <2> QED BY <1>1, <2>1, PlaceFile DEF Copies
<1>2. CASE RunCopy \/ CopyFails
  BY <1>1, <1>2, PlaceSame DEF RunCopy, CopyFails
<1>3. CASE ServeCreate
  BY <1>3, PlaceFile DEF ServeCreate
<1>4. CASE ServePatch /\ obj' # obj
  <2> DEFINE o == [obj[Row.id] EXCEPT !.body = op.bytes]
  <2>1. Row.id \in Ids /\ obj[Row.id] \in AFile /\ obj' = [obj EXCEPT ![Row.id] = o]
    BY <1>4, PatchTouches
  <2>2. o.parents = obj[Row.id].parents /\ o.kind = obj[Row.id].kind
    BY <2>1 DEF AFile
  <2> HIDE DEF o
  <2>3. InPlace(Row.id, o)
    BY <2>1, <2>2 DEF PlacedAll, InPlace
  <2> QED BY <2>1, <2>3, PlaceSet
<1> QED BY <1>2, <1>3, <1>4, PlaceSame

(* move_file: what the file is in is among what was read of it, so that    *)
(* afterwards it is in the new folder only.                                *)
LEMMA PlaceByMove ==
    ASSUME TInv, Placed, owned' = owned, ServeMove
    PROVE  PlacedAll'
<1>1. op.kind = "rename" /\ op.at = "move"
  BY DEF ServeMove, Ready, TInv, InChain
<1>2. Row.id \in Ids /\ obj \in [Ids -> Objects] /\ Target = obj[Row.id]
      /\ (Exists(Target) => Target \in AFile /\ Target.kind = "file")
  BY <1>1, TargetKnown DEF Target, TInv, Typed
<1>3. PlacedAll
  BY DEF Placed
<1>4. CASE ~Exists(Target)
  BY <1>3, <1>4, PlaceSame DEF ServeMove
<1>5. CASE Exists(Target)
  <2> DEFINE o == [obj[Row.id] EXCEPT !.parents = Moved(obj[Row.id].parents), !.name = op.path.name]
  <2>1. obj' = [obj EXCEPT ![Row.id] = o]
    <3>1. obj' = [obj EXCEPT ![Row.id].parents = Moved(@), ![Row.id].name = op.path.name]
      BY <1>5 DEF ServeMove
    <3> QED BY <1>2, <3>1
  <2>2. o.parents = Moved(Target.parents)
    BY <1>2, <1>5 DEF AFile
  <2> HIDE DEF o
  <2>3. Target.parents \subseteq op.in \cup {op.folder} /\ InPlace(Row.id, Target)
    BY <1>1, <1>2, <1>5 DEF Placed, PlacedAll, MoveKnown
  <2>4. InPlace(Row.id, o)
    <3>1. CASE op.folder \in op.in
      BY <1>2, <1>5, <2>2, <2>3, <3>1 DEF Moved, InPlace
    <3>2. CASE op.folder \notin op.in
      <4>1. o.parents = {op.folder}
        BY <2>2, <2>3, <3>2 DEF Moved
      <4> QED BY <4>1 DEF InPlace
    <3> QED BY <3>1, <3>2
  <2> QED BY <1>2, <1>3, <2>1, <2>4, PlaceSet
<1> QED BY <1>4, <1>5

(* Only a file somebody else owns is taken out of its last folder.         *)
LEMMA PlaceByDelete ==
    ASSUME TInv, PlacedAll, owned' = owned, ServeRemove \/ ServeUnlink
    PROVE  PlacedAll'
<1>1. op.kind = "delete"
  BY DEF ServeRemove, ServeUnlink, Ready, TInv, InChain
<1>2. Row.id \in Ids /\ obj \in [Ids -> Objects] /\ FileOrGone(Row.id) /\ Target = obj[Row.id]
      /\ (Exists(Target) => Target \in AFile)
  BY <1>1, TargetKnown DEF Target, TInv, Typed
<1>3. CASE ServeRemove /\ obj' # obj
  <2> DEFINE o == IF mode = "trash" THEN [obj[Row.id] EXCEPT !.live = FALSE] ELSE Deleted
  <2>1. Exists(Target) /\ obj' = [obj EXCEPT ![Row.id] = o]
    <3>1. /\ Exists(Target)
          /\ obj' = [obj EXCEPT ![Row.id] = IF mode = "trash" THEN [@ EXCEPT !.live = FALSE] ELSE Deleted]
      BY <1>3 DEF ServeRemove
    <3> QED BY <1>2, <3>1
  <2>2. o.kind = "file" => o.parents = obj[Row.id].parents /\ obj[Row.id].kind = "file"
    <3>1. Deleted.kind = "deleted"
      BY KindsOf DEF Objects
    <3>2. [obj[Row.id] EXCEPT !.live = FALSE].parents = obj[Row.id].parents /\ obj[Row.id].kind = "file"
      BY <1>2, <2>1 DEF AFile
    <3> QED BY <3>1, <3>2
  <2> HIDE DEF o
  <2>3. InPlace(Row.id, o)
    BY <1>2, <2>2 DEF PlacedAll, InPlace
  <2> QED BY <1>2, <2>1, <2>3, PlaceSet
<1>4. CASE ServeUnlink /\ obj' # obj
  <2> DEFINE o == [obj[Row.id] EXCEPT !.parents = @ \ op.in]
  <2>1. obj' = [obj EXCEPT ![Row.id] = o]
    BY <1>2, <1>4 DEF ServeUnlink
  <2>2. ~owned /\ Row.id = 1
    BY <1>1, <1>4 DEF ServeUnlink, Ready, TInv, OfRow, Row
  <2>3. o.kind = "file" => o.parents \subseteq obj[Row.id].parents /\ obj[Row.id].kind = "file"
    <3>1. CASE obj[Row.id].kind = "file"
      <4>1. obj[Row.id] \in AFile
        BY <1>2, <3>1, KindsOf
      <4> QED BY <3>1, <4>1 DEF AFile
    <3>2. CASE obj[Row.id].kind = "deleted"
      <4>1. obj[Row.id] = Deleted
        BY <1>2, <3>2, KindsOf
      <4>2. Deleted \in [kind : {"deleted"}, name : {""}, parents : {{}}, body : {Nothing}, live : {FALSE}]
        BY DEF Deleted, NoObject
      <4> QED BY <4>1, <4>2
    <3> QED BY <1>2, <3>1, <3>2 DEF FileOrGone
  <2> HIDE DEF o
  <2>4. InPlace(Row.id, o)
    BY <1>2, <2>2, <2>3 DEF PlacedAll, InPlace
  <2> QED BY <1>2, <2>1, <2>4, PlaceSet
<1> QED BY <1>3, <1>4, PlaceSame

(* No step of an operation leaves a file in two folders, or its owner's in *)
(* none.                                                                   *)
LEMMA PlaceByOp ==
    ASSUME TInv, Placed, owned' = owned, OpStep
    PROVE  PlacedAll'
<1>1. PlacedAll
  BY DEF Placed
<1>2. CASE RunCopy \/ CopyFails \/ ServeCreate \/ ServePatch \/ ServeMove \/ ServeRemove \/ ServeUnlink
  BY <1>1, <1>2, PlaceByUpload, PlaceByMove, PlaceByDelete
<1>3. CASE ServePost
  <2>1. HasFresh /\ obj' = [obj EXCEPT ![Fresh] = SubFolder]
    BY <1>3 DEF ServePost
  <2>2. Fresh \in Ids /\ InPlace(Fresh, SubFolder)
    BY <2>1, FreshIsFresh, TransfersAssumption DEF InPlace, SubFolder
  <2> QED BY <1>1, <2>1, <2>2, PlaceSet
<1>4. CASE Unserved \/ ServeMeta \/ ServeList \/ Persist
  BY <1>1, <1>4, PlaceSame, AfterUnserved, AfterMeta, AfterList
<1>5. CASE RunProbe \/ Read \/ Link \/ Record
  BY <1>1, <1>5, PlaceSame, AfterUpload
<1>6. CASE RunFetch \/ ServeBytes \/ Fill \/ FillFails \/ Promote \/ PromoteFails \/ Hash
  BY <1>1, <1>6, PlaceSame, AfterDownload
<1>7. CASE ServeParents \/ Settle \/ ServeMemberships \/ Drop
  BY <1>1, <1>7, PlaceSame, AfterRename
<1> QED BY <1>2, <1>3, <1>4, <1>5, <1>6, <1>7 DEF OpStep

\* A rename under way knows the parents that stay.
LEMMA KnownOnward ==
    ASSUME MoveKnown, UNCHANGED <<op, rows>>,
           \A i \in Ids : obj'[i].kind = obj[i].kind /\ obj'[i].parents = obj[i].parents,
           op.at = "move" => Row.id \in Ids
    PROVE  MoveKnown'
BY DEF MoveKnown, Target, Row

\* And those that it sets itself: moving twice is moving once.
LEMMA KnownByMove ==
    ASSUME TInv, MoveKnown, ServeMove
    PROVE  MoveKnown'
<1>1. op.kind = "rename" /\ op.at = "move" /\ stage = "ready"
  BY DEF ServeMove, Ready, TInv, InChain
<1>2. Row.id \in Ids /\ obj \in [Ids -> Objects] /\ Target = obj[Row.id]
      /\ (Exists(Target) => Target \in AFile /\ Target.kind = "file")
  BY <1>1, TargetKnown DEF Target, TInv, Typed
<1>3. CASE op' = op /\ UNCHANGED local
  <2>1. Row' = Row /\ Target' = obj'[Row.id]
    BY <1>3 DEF Row, Target, local
  <2>2. CASE obj' = obj
    BY <1>3, <2>1, <2>2 DEF MoveKnown, Target
  <2>3. CASE obj' # obj
    <3>1. Exists(Target) /\ obj' = [obj EXCEPT ![Row.id].parents = Moved(@), ![Row.id].name = op.path.name]
      BY <2>3 DEF ServeMove
    <3> DEFINE o == [obj[Row.id] EXCEPT !.parents = Moved(obj[Row.id].parents), !.name = op.path.name]
    <3>2. obj'[Row.id] = o
      BY <1>2, <3>1
    <3>3. o.parents = Moved(Target.parents)
      BY <1>2, <3>1 DEF AFile
    <3> HIDE DEF o
    <3>4. Target.parents \subseteq op.in \cup {op.folder}
      BY <1>1, <1>2, <3>1 DEF MoveKnown
    <3>5. Moved(Target.parents) \subseteq op.in \cup {op.folder}
      BY <3>4 DEF Moved
    <3> QED BY <1>3, <2>1, <3>2, <3>3, <3>5 DEF MoveKnown
  <2> QED BY <2>2, <2>3
<1>4. CASE op'.at # "move"
  BY <1>4 DEF MoveKnown
<1> QED BY <1>3, <1>4, AfterRename, IdleFields DEF Ends

\* When it comes to the move it has just read them.
LEMMA KnownByOp ==
    ASSUME TInv, MoveKnown, OpStep
    PROVE  MoveKnown'
<1>1. CASE op'.at # "move"
  BY <1>1 DEF MoveKnown
<1>2. ASSUME op' = op, op.at = "move", UNCHANGED local, obj' = obj
      PROVE  MoveKnown'
  BY <1>2 DEF MoveKnown, Target, Row, local
<1>3. CASE ServeMove
  BY <1>3, KnownByMove
<1>4. CASE ServeParents
  <2>1. CASE Keeping /\ op'.in = Target.parents /\ UNCHANGED rows
    <3>1. Target' = Target
      BY <1>4, <2>1, AfterRename DEF Target, Row, Keeping
    <3> QED BY <2>1, <3>1 DEF MoveKnown
  <2>2. CASE Ends
    BY <1>1, <1>4, <2>2, IdleFields DEF Ends, ServeParents, Ready
  <2> QED BY <1>4, <2>1, <2>2, AfterRename
<1>5. CASE Unserved
  BY <1>1, <1>2, <1>5, AfterUnserved, IdleFields DEF Ends
<1>6. CASE ServeList \/ ServePost \/ Persist \/ ServeMeta
  BY <1>1, <1>6, AfterList, AfterMeta, IdleFields DEF Ends, ServePost, ServeMeta, Ready
<1>7. CASE RunCopy \/ CopyFails \/ RunProbe \/ Read \/ ServeCreate \/ ServePatch \/ Link \/ Record
  BY <1>1, <1>7, AfterUpload, IdleFields DEF Ends, ServeCreate, ServePatch, Ready
<1>8. CASE RunFetch \/ ServeBytes \/ Fill \/ FillFails \/ Promote \/ PromoteFails \/ Hash
  BY <1>1, <1>8, AfterDownload, IdleFields DEF Ends, ServeBytes, Ready
<1>9. CASE Settle \/ ServeRemove \/ ServeMemberships \/ ServeUnlink \/ Drop
  BY <1>1, <1>9, AfterRename, IdleFields DEF Ends, ServeRemove, ServeMemberships, ServeUnlink, Ready
<1> QED BY <1>3, <1>4, <1>5, <1>6, <1>7, <1>8, <1>9 DEF OpStep

\* The users move files from one folder to another.
LEMMA PlaceByDrive ==
    ASSUME TInv, PlacedAll,
           DriveEdits \/ DriveRenames \/ DriveMoves \/ DriveTrashes \/ DriveDeletes \/ DriveAdds
    PROVE  PlacedAll'
<1>0. obj \in [Ids -> Objects] /\ owned' = owned
  BY DEF TInv, Typed, DriveEdits, DriveRenames, DriveMoves, DriveTrashes, DriveDeletes,
     DriveAdds,
     OnDrive, choice
<1>1. \A i \in Ids : obj[i].kind = "file" => obj[i] \in AFile
  BY <1>0, KindsOf
<1>2. CASE DriveEdits
  BY <1>0, <1>2, EditsOnDrive DEF PlacedAll, InPlace
<1>3. CASE DriveRenames
  <2>1. PICK i \in Ids, n \in Names : obj[i].kind = "file" /\ obj' = [obj EXCEPT ![i].name = n]
    BY <1>3 DEF DriveRenames
  <2> DEFINE o == [obj[i] EXCEPT !.name = n]
  <2>2. o.kind = obj[i].kind /\ o.parents = obj[i].parents /\ obj' = [obj EXCEPT ![i] = o]
    BY <1>0, <1>1, <2>1 DEF AFile
  <2> HIDE DEF o
  <2>3. InPlace(i, o)
    BY <2>2 DEF PlacedAll, InPlace
  <2> QED BY <1>0, <2>2, <2>3, PlaceSet
<1>4. CASE DriveMoves
  <2>1. PICK i \in Ids, p \in {Root} \cup Ids : obj[i].kind = "file" /\ obj' = [obj EXCEPT ![i].parents = {p}]
    BY <1>4 DEF DriveMoves
  <2> DEFINE o == [obj[i] EXCEPT !.parents = {p}]
  <2>2. o.parents = {p} /\ obj' = [obj EXCEPT ![i] = o]
    BY <1>0, <1>1, <2>1 DEF AFile
  <2> HIDE DEF o
  <2>3. InPlace(i, o)
    BY <2>2 DEF InPlace
  <2> QED BY <1>0, <2>2, <2>3, PlaceSet
<1>5. CASE DriveTrashes
  <2>1. PICK i \in Ids : obj[i].kind = "file" /\ obj' = [obj EXCEPT ![i].live = FALSE]
    BY <1>5 DEF DriveTrashes
  <2> DEFINE o == [obj[i] EXCEPT !.live = FALSE]
  <2>2. o.kind = obj[i].kind /\ o.parents = obj[i].parents /\ obj' = [obj EXCEPT ![i] = o]
    BY <1>0, <1>1, <2>1 DEF AFile
  <2> HIDE DEF o
  <2>3. InPlace(i, o)
    BY <2>2 DEF PlacedAll, InPlace
  <2> QED BY <1>0, <2>2, <2>3, PlaceSet
<1>6. CASE DriveDeletes
  <2>1. Deleted.kind = "deleted"
    BY KindsOf DEF Objects
  <2>2. \A i : InPlace(i, Deleted)
    BY <2>1 DEF InPlace
  <2> QED BY <1>0, <1>6, <2>2, PlaceSet DEF DriveDeletes
<1>7. CASE DriveAdds
  <2>1. HasFresh /\ Fresh \in Ids
    BY <1>7, FreshIsFresh, TransfersAssumption DEF DriveAdds
  <2>2. InPlace(Fresh, SubFolder)
    BY DEF InPlace, SubFolder
  <2> QED BY <1>0, <1>7, <2>1, <2>2, PlaceSet, PlaceFile DEF DriveAdds
<1> QED BY <1>2, <1>3, <1>4, <1>5, <1>6, <1>7

(* Every step of the system leaves files in one folder, until somebody     *)
(* interferes.                                                             *)
LEMMA HousedKept ==
    ASSUME TInv, Sighted, Housed, [Next]_vars
    PROVE  Housed'
<1> SUFFICES ASSUME ~disturbed' PROVE PlacedAll' /\ MoveKnown'
  BY DEF Housed, Placed
<1>1. ~disturbed
  <2>1. CASE \E hidden : Notice(FALSE, hidden) \/ Notice(op.kind # "none", hidden)
    BY <2>1, Noticed DEF Sighted
  <2>2. CASE UNCHANGED vars
    BY <2>2 DEF vars
  <2> QED BY <2>1, <2>2 DEF Next
<1>2. Placed /\ PlacedAll /\ MoveKnown
  BY <1>1 DEF Housed, Placed
<1>3. owned' = owned
  BY DEF Next, ByDaemon, Pace, Crash, Start, EditsLocally, MovesLocally, DeletesLocally,
     Locally,
     DriveEdits, DriveRenames, DriveMoves, DriveTrashes, DriveDeletes, DriveAdds, OnDrive, choice, vars
<1>4. CASE OpStep
  BY <1>2, <1>3, <1>4, PlaceByOp, KnownByOp
<1>5. ASSUME obj' = obj, op'.at # "move" \/ UNCHANGED <<op, rows>>
      PROVE  PlacedAll' /\ MoveKnown'
  BY <1>2, <1>3, <1>5, PlaceSame DEF MoveKnown, Target, Row
<1>6. CASE BeginStep
  <2>1. ASSUME NEW f \in Files, BeginUpload(f) \/ BeginRename(f)
        PROVE  obj' = obj /\ op'.at # "move"
    BY <2>1, AfterBeginUpload, AfterBeginRename
  <2>2. ASSUME NEW f \in Files, RenameUnsynced(f)
        PROVE  obj' = obj /\ op'.at # "move"
    BY <2>2, AfterRenameUnsynced DEF TInv, InChain
  <2>3. ASSUME NEW f \in Files, BeginDownload(f) \/ BeginDelete(f) \/ BeginMkdir
        PROVE  obj' = obj /\ op'.at # "move"
    BY <2>3, AfterBeginOther
  <2>4. 2 \in Files
    BY DEF Files
  <2> QED BY <1>5, <1>6, <2>1, <2>2, <2>3, <2>4 DEF BeginStep
<1>7. CASE Pace(Acquire) \/ Pace(OtherRequest) \/ Crash
  BY <1>5, <1>7, IdleFields DEF Pace, Crash, local
<1>8. CASE Start \/ EditsLocally \/ MovesLocally \/ DeletesLocally
  BY <1>5, <1>8 DEF Start, EditsLocally, MovesLocally, DeletesLocally, Locally
<1>9. CASE DriveEdits \/ ((DriveRenames \/ DriveMoves \/ DriveTrashes \/ DriveDeletes \/ DriveAdds)
                          /\ Notice(op.kind # "none", Loose))
  <2>1. UNCHANGED <<op, rows>>
    BY <1>9 DEF DriveEdits, DriveRenames, DriveMoves, DriveTrashes, DriveDeletes, DriveAdds,
       OnDrive, local
  <2>2. PlacedAll'
    BY <1>2, <1>9, PlaceByDrive
  <2>3. CASE op.at = "move"
    <3>1. op.kind = "rename"
      BY <2>3 DEF TInv, InChain
    <3>2. DriveEdits /\ Row.id \in Ids
      BY <1>9, <3>1, TargetKnown DEF Notice
    <3> QED BY <1>2, <2>1, <2>2, <3>2, EditsOnDrive, KnownOnward
  <2>4. CASE op.at # "move"
    BY <2>1, <2>2, <2>4 DEF MoveKnown
  <2> QED BY <2>3, <2>4
<1>10. CASE UNCHANGED vars
  BY <1>5, <1>10 DEF vars, local
<1> QED BY <1>4, <1>6, <1>7, <1>8, <1>9, <1>10 DEF Next, ByDaemon

\* At first file 1 is in the root.
LEMMA HousedAtFirst ==
    ASSUME Init
    PROVE  Housed
<1>1. PICK s \in Setups :
         obj = [i \in Ids |-> IF i = 1 THEN File(s[4], Root, [of |-> 1, v |-> 0]) ELSE NoObject]
  BY DEF Init
<1>2. \A i \in Ids : InPlace(i, obj[i])
  BY <1>1 DEF InPlace, File, NoObject
<1> QED BY <1>2, IdleFields DEF Init, Housed, Placed, PlacedAll, MoveKnown

(* A file is in one folder, and one of the user's own never in none:       *)
(* moving by addParents and removeParents with what was read before,       *)
(* repeated or not, leaves it in the new one (engine/rclone.rs:439-476).   *)
THEOREM FilesInOneFolder == Spec => []InOneFolder
<1> DEFINE Inv == TInv /\ Sighted /\ Housed
<1>1. Init => Inv
  BY TypedAtFirst, SightedAtFirst, HousedAtFirst
<1>2. Inv /\ [Next]_vars => Inv'
  BY TypedKept, SightedKept, HousedKept
<1>3. Inv => InOneFolder
  <2> SUFFICES ASSUME TInv, Placed, NEW i \in Ids, LiveFile(i)
               PROVE  Cardinality(obj[i].parents) <= 1 /\ (obj[i].parents = {} => ~owned /\ i = 1)
    BY DEF Housed, InOneFolder
  <2>1. /\ \A a, b \in obj[i].parents : a = b
        /\ obj[i].parents = {} => ~owned /\ i = 1
    BY DEF Placed, PlacedAll, InPlace, LiveFile
  <2>2. CASE obj[i].parents = {}
    BY <2>1, <2>2, FS_EmptySet
  <2>3. ASSUME NEW p \in obj[i].parents
        PROVE  Cardinality(obj[i].parents) = 1
    <3>1. obj[i].parents = {p}
      BY <2>1
    <3> QED BY <3>1, FS_Singleton
  <2> QED BY <2>1, <2>2, <2>3
<1> HIDE DEF Inv
<1> QED BY <1>1, <1>2, <1>3, PTL DEF Spec
=============================================================================
