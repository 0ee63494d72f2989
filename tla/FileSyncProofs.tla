--------------------------- MODULE FileSyncProofs ---------------------------
(***************************************************************************)
(* The tables of FileSync are sound, for any paths, any number of files,   *)
(* edits, failures and attempts.  The invariant is Sound, in five parts:   *)
(*   - TablesSound: at most one row per key and per path (the unique index *)
(*     of state/items.rs), and every operation has its row (the foreign    *)
(*     key of state/ops.rs), with an id if it goes to Drive by id;         *)
(*   - WorldSound: the disk, Drive and its feed; what was never created is *)
(*     in no feed, and what was has a path;                                *)
(*   - ChangeSound: the change the consumer holds has a path;              *)
(*   - ExecSound: the operation being executed, with the row it was given  *)
(*     when it began; if its row is still there, it is still one it could  *)
(*     be for;                                                             *)
(*   - CountsSound: events, and what is counted.                           *)
(* A row is given a key no row has and the operation in flight has not:    *)
(* there is one left because there is at most one row per path (KeyLeft).  *)
(*                                                                         *)
(* From Calm on: an edit that finds the daemon at rest leaves both sides   *)
(* in agreement (RestAgreed).                                              *)
(***************************************************************************)
EXTENDS FileSync, QueuesProofs, FiniteSetTheorems

-----------------------------------------------------------------------------
ToDrive == {"DeleteRemote", "RenameRemote"}
ToPath  == {"Download", "RenameRemote", "RenameLocal"}

RowsSound(R) ==
    /\ R \subseteq Row
    /\ \A r, s \in R : r.key = s.key \/ r.path = s.path => r = s

OpSound(o) ==
    /\ o \in Op /\ o.tries < MaxTries
    /\ o.kind = "Download" => o.rid # 0
    /\ o.kind \in ToPath => o.path # NoPath

\* The row an operation is for: with an id, if the operation goes by it.
Belongs(o, r) == r.key = o.key /\ (o.kind \in ToDrive => r.rid # 0)

Queued(s, R) ==
    /\ s \in Seq(Op)
    /\ \A o \in ToSet(s) : OpSound(o) /\ \E r \in R : Belongs(o, r)

TablesSound == RowsSound(items) /\ Queued(ops, items) /\ Queued(later, items)

WorldSound ==
    /\ local \in [Names -> Contents] /\ drive \in [Ids -> File] /\ feed \in Seq(Ids)
    /\ \A i \in Ids : drive[i].st # "none" => drive[i].path # NoPath
    /\ \A i \in ToSet(feed) : drive[i].st # "none"

ChangeSound ==
    change = NoChange \/ (change \in [id : Ids, file : File] /\ change.file.path # NoPath)

ExecSound ==
    exec # Idle =>
        /\ exec \in [pc : {"write", "mark", "record"}, op : Op, row : Row, md5 : Contents]
        /\ OpSound(exec.op)
        /\ exec.op.kind \in ToDrive => exec.row.rid # 0
        /\ exec.pc = "mark" => exec.op.kind = "Upload"
        /\ exec.pc # "write" /\ exec.op.kind = "Upload" => exec.row.rid # 0
        /\ \A r \in items : r.key = exec.op.key => Belongs(exec.op, r)

CountsSound ==
    /\ events \in [Names -> Event] /\ marked \in Ids \cup {0}
    /\ edits \in 0..MaxUser /\ overlaps \in 0..MaxTrouble /\ kept \subseteq Contents \ {0}
    /\ faults \in 0..MaxTrouble

Sound == TablesSound /\ WorldSound /\ ChangeSound /\ ExecSound /\ CountsSound

-----------------------------------------------------------------------------
\* The types of what the actions put together.

\* Drive's files, after the writes of users and of the engine.
LEMMA Files ==
    /\ NoFile \in File
    /\ \A p \in Names, c \in Contents, t \in {"live", "trashed", "gone"} :
         [path |-> p, md5 |-> c, st |-> t] \in File
    /\ \A f \in File, c \in Contents : [f EXCEPT !.md5 = c] \in File /\ [f EXCEPT !.md5 = c].path = f.path
                                       /\ [f EXCEPT !.md5 = c].st = f.st
    /\ \A f \in File, t \in {"live", "trashed", "gone"} :
         [f EXCEPT !.st = t] \in File /\ [f EXCEPT !.st = t].path = f.path /\ [f EXCEPT !.st = t].st = t
    /\ \A f \in File, p \in Names :
         [f EXCEPT !.path = p] \in File /\ [f EXCEPT !.path = p].path = p /\ [f EXCEPT !.path = p].st = f.st
    /\ \A f \in File : f.path \in Names \cup {NoPath} /\ f.md5 \in Contents
    /\ 0 \in Contents /\ NoPath \notin Names
BY FileSyncAssumption DEF File, NoFile, Contents, Names

\* Rows, after the writes of the reconcilers and of the dispatcher.
LEMMA Rows ==
    /\ \A r \in Row : r.key \in Keys /\ r.path \in Names /\ r.rid \in Ids \cup {0} /\ r.md5 \in Contents
    /\ \A r \in Row, p \in Names :
         LET s == [r EXCEPT !.path = p] IN s \in Row /\ s.key = r.key /\ s.path = p /\ s.rid = r.rid
    /\ \A r \in Row, b \in BOOLEAN :
         LET s == [r EXCEPT !.trashed = b] IN s \in Row /\ s.key = r.key /\ s.path = r.path /\ s.rid = r.rid
BY DEF Row

\* Operations, as the reconcilers enqueue them.
LEMMA Jobs ==
    ASSUME NEW r \in Row
    PROVE  /\ OpSound(Upload(r)) /\ Upload(r).key = r.key /\ Upload(r).kind = "Upload"
           /\ \A i \in Ids, p \in Names :
                LET o == Download(r, i, p) IN OpSound(o) /\ o.key = r.key /\ o.kind = "Download"
           /\ OpSound(DeleteRemote(r)) /\ DeleteRemote(r).key = r.key
           /\ \A b \in BOOLEAN :
                LET o == DeleteLocal(r, b) IN OpSound(o) /\ o.key = r.key /\ o.kind = "DeleteLocal"
           /\ \A p \in Names : OpSound(RenameRemote(r, p)) /\ RenameRemote(r, p).key = r.key
           /\ \A p \in Names :
                LET o == RenameLocal(r, p) IN OpSound(o) /\ o.key = r.key /\ o.kind = "RenameLocal"
<1>1. NoPath \notin Names /\ MaxTries \in Nat /\ 0 \in 0..MaxTries /\ 0 < MaxTries /\ 0 \notin Ids
  BY FileSyncAssumption DEF Names, Ids
<1>2. r.key \in Keys
  BY DEF Row
<1> QED BY <1>1, <1>2 DEF OpSound, Op, ToPath, ToDrive, Job, Upload, Download, DeleteRemote, DeleteLocal,
                           RenameRemote, RenameLocal

-----------------------------------------------------------------------------
(* The tables.                                                             *)

\* Some rows may be gone; the others keep their ids, and those that are new have a new key.
Follows(R) ==
    \A s \in R : \/ \E r \in items : r.key = s.key /\ (r.rid # 0 => s.rid # 0)
                 \/ s.key \notin KeysOf(items) /\ (exec # Idle => s.key # exec.op.key)

\* The operations that are left after a cascade have their rows.
LEMMA Cascades ==
    ASSUME RowsSound(items), NEW s, Queued(s, items), NEW R, RowsSound(R), Follows(R)
    PROVE  Queued(Without(s, KeysOf(items) \ KeysOf(R)), R)
<1> DEFINE K == KeysOf(items) \ KeysOf(R)
<1>1. /\ Without(s, K) \in Seq(Op)
      /\ ToSet(Without(s, K)) = ToSet(s) \cap {o \in ToSet(s) : o.key \notin K}
  BY OnlyKeeps DEF Without, Queued
<1>2. ASSUME NEW o \in ToSet(s), o.key \notin K
      PROVE  OpSound(o) /\ \E r \in R : Belongs(o, r)
  <2>1. PICK r \in items : Belongs(o, r)
    BY DEF Queued
  <2>2. o.key \in KeysOf(R)
    BY <1>2, <2>1 DEF KeysOf, Belongs
  <2>3. PICK t \in R : t.key = o.key
    BY <2>2 DEF KeysOf
  <2>4. \E q \in items : q.key = t.key /\ (q.rid # 0 => t.rid # 0)
    BY <2>1, <2>3 DEF Follows, KeysOf, Belongs
  <2>5. Belongs(o, t)
    BY <2>1, <2>3, <2>4 DEF Belongs, RowsSound
  <2> QED BY <2>5 DEF Queued
<1> QED BY <1>1, <1>2 DEF Queued

\* Rows stored and jobs enqueued: the tables stay sound.
LEMMA Stored ==
    ASSUME TablesSound, NEW R, RowsSound(R), Follows(R), NEW jobs \in Seq(Op),
           \A o \in ToSet(jobs) : OpSound(o) /\ \E r \in R : Belongs(o, r),
           Store(R, jobs)
    PROVE  TablesSound'
<1> DEFINE K == KeysOf(items) \ KeysOf(R)
<1>1. Queued(Without(ops, K), R) /\ Queued(Without(later, K), R)
  BY Cascades DEF TablesSound, K
<1>2. items' = R /\ ops' = Without(ops, K) \o jobs /\ later' = Without(later, K)
  BY DEF Store, K
<1> HIDE DEF K
<1>3. Queued(Without(ops, K) \o jobs, R)
  <2>1. /\ Without(ops, K) \o jobs \in Seq(Op)
        /\ ToSet(Without(ops, K) \o jobs) = ToSet(Without(ops, K)) \cup ToSet(jobs)
    BY <1>1, ConcatSet DEF Queued
  <2> QED BY <1>1, <2>1 DEF Queued
<1>4. RowsSound(items') /\ Queued(ops', items') /\ Queued(later', items')
  BY <1>1, <1>2, <1>3
<1> QED BY <1>4 DEF TablesSound, RowsSound, Queued, Belongs, OpSound

\* So does what the operation being executed needs of its row.
LEMMA StoredExec ==
    ASSUME TablesSound, ExecSound, NEW R, Follows(R), items' = R, exec' = exec
    PROVE  ExecSound'
<1>1. ASSUME exec # Idle, NEW s \in R, s.key = exec.op.key
      PROVE  Belongs(exec.op, s)
  <2>1. PICK r \in items : r.key = s.key /\ (r.rid # 0 => s.rid # 0)
    BY <1>1 DEF Follows
  <2> QED BY <1>1, <2>1 DEF ExecSound, Belongs
<1> QED BY <1>1 DEF ExecSound, Belongs, OpSound

\* The rows stay: what is being executed still has what it needs.
LEMMA SameRows ==
    ASSUME TablesSound
    PROVE  Follows(items)
BY DEF Follows

\* Rows go.
LEMMA FewerRows ==
    ASSUME TablesSound, NEW R \in SUBSET items
    PROVE  RowsSound(R) /\ Follows(R)
BY DEF Follows, TablesSound, RowsSound

\* A row changes, keeps its key and, if it had one, an id; rows at its new path go.
LEMMA ChangedRow ==
    ASSUME TablesSound, NEW r \in items, NEW s \in Row, s.key = r.key, r.rid # 0 => s.rid # 0,
           NEW gone, gone \subseteq items, \A q \in items : q.path = s.path => q = r \/ q \in gone
    PROVE  /\ RowsSound((items \ ({r} \cup gone)) \cup {s}) /\ Follows((items \ ({r} \cup gone)) \cup {s})
BY DEF Follows, TablesSound, RowsSound

\* A row is added, with a key and a path of its own.
LEMMA OneMoreRow ==
    ASSUME TablesSound, NEW s \in Row, s.key \notin KeysOf(items), exec # Idle => s.key # exec.op.key,
           AtPath(s.path) = {}
    PROVE  RowsSound(items \cup {s}) /\ Follows(items \cup {s})
BY DEF Follows, TablesSound, RowsSound, KeysOf, AtPath

\* A key is left for a new row.
LEMMA KeyLeft ==
    ASSUME TablesSound, ExecSound, NEW p \in Names, AtPath(p) = {}
    PROVE  NewKey \in Keys /\ NewKey \notin KeysOf(items) /\ (exec # Idle => NewKey # exec.op.key)
<1> DEFINE N == Cardinality(Names)
           path == [r \in items |-> r.path]
           key  == [r \in items |-> r.key]
           Used == KeysOf(items) \cup {k \in Keys : exec # Idle /\ k = exec.op.key}
<1>1. IsFiniteSet(Names) /\ N \in Nat /\ IsFiniteSet(Names \ {p}) /\ Cardinality(Names \ {p}) = N - 1
  BY FileSyncAssumption, FS_Union, FS_CardinalityType, FS_RemoveElement DEF Names
<1>2. path \in Injection(items, Names \ {p})
  <2>1. \A r \in items : r.path \in Names \ {p}
    BY DEF TablesSound, RowsSound, Row, AtPath
  <2>2. \A r, s \in items : r.path = s.path => r = s
    BY DEF TablesSound, RowsSound
  <2>3. path \in [items -> Names \ {p}] /\ \A r \in items : path[r] = r.path
    BY <2>1
  <2> HIDE DEF path
  <2>4. \A r, s \in items : path[r] = path[s] => r = s
    BY <2>2, <2>3
  <2> QED BY <2>3, <2>4 DEF Injection, IsInjective
<1>3. IsFiniteSet(items) /\ Cardinality(items) <= N - 1
  <2> HIDE DEF path, N
  <2> QED BY <1>1, <1>2, FS_Injection
<1>4. key \in Surjection(items, KeysOf(items))
  BY DEF Surjection, KeysOf
<1>5. IsFiniteSet(KeysOf(items)) /\ Cardinality(KeysOf(items)) <= Cardinality(items)
  <2> HIDE DEF key
  <2> QED BY <1>3, <1>4, FS_Surjection
<1>6. IsFiniteSet(Used) /\ Cardinality(Used) <= N
  <2>1. Cardinality(KeysOf(items)) \in Nat /\ Cardinality(items) \in Nat
    BY <1>3, <1>5, FS_CardinalityType
  <2>2. CASE exec = Idle
    <3>1. Used = KeysOf(items)
      BY <2>2
    <3> HIDE DEF Used, N
    <3> QED BY <3>1, <2>1, <1>1, <1>3, <1>5
  <2>3. CASE exec # Idle
    <3>1. exec.op.key \in Keys
      BY <2>3 DEF ExecSound, OpSound, Op
    <3>2. Used = KeysOf(items) \cup {exec.op.key}
      BY <2>3, <3>1
    <3>3. /\ IsFiniteSet(KeysOf(items) \cup {exec.op.key})
          /\ Cardinality(KeysOf(items) \cup {exec.op.key}) =
               IF exec.op.key \in KeysOf(items) THEN Cardinality(KeysOf(items))
               ELSE Cardinality(KeysOf(items)) + 1
      BY <1>5, FS_AddElement
    <3> HIDE DEF Used, N
    <3> QED BY <3>2, <3>3, <2>1, <1>1, <1>3, <1>5
  <2> QED BY <2>2, <2>3
<1>7. IsFiniteSet(Keys) /\ Cardinality(Keys) = N + 1
  <2>1. 1 \in Int /\ N + 1 \in Int /\ ~(1 > N + 1) /\ (N + 1) - 1 + 1 = N + 1
    BY <1>1
  <2> HIDE DEF N
  <2> QED BY <2>1, FS_Interval DEF Keys, N
<1>8. Used \subseteq Keys
  BY DEF KeysOf, TablesSound, RowsSound, Row
<1>9. Used # Keys
  <2> HIDE DEF Used, N
  <2> QED BY <1>1, <1>6, <1>7
<1>10. \E k \in Keys : k \notin KeysOf(items) /\ (exec # Idle => k # exec.op.key)
  BY <1>8, <1>9
<1> QED BY <1>10 DEF NewKey

\* A new row, with its key.
LEMMA NewRowSound ==
    ASSUME TablesSound, ExecSound, NEW p \in Names, AtPath(p) = {}, NEW i \in Ids \cup {0}, NEW c \in Contents
    PROVE  LET r == NewRow(p, i, c) IN
           /\ r \in Row /\ r.path = p /\ r.rid = i
           /\ RowsSound(items \cup {r}) /\ Follows(items \cup {r})
<1> DEFINE r == NewRow(p, i, c)
<1>1. r \in Row /\ r.path = p /\ r.rid = i /\ r.key = NewKey
  BY KeyLeft DEF NewRow, Row
<1> HIDE DEF r
<1>2. RowsSound(items \cup {r}) /\ Follows(items \cup {r})
  BY <1>1, KeyLeft, OneMoreRow
<1> QED BY <1>1, <1>2 DEF r

-----------------------------------------------------------------------------
(* The two reconcilers.                                                    *)

\* A reconciler changes rows and operations and leaves the dispatcher alone.
Reconciled == TablesSound' /\ ExecSound'

\* An operation for a row that is there.
LEMMA EnqueueSound ==
    ASSUME TablesSound, ExecSound, NEW r \in items, NEW o, OpSound(o), Belongs(o, r), Enqueue(o), exec' = exec
    PROVE  Reconciled
<1>1. <<o>> \in Seq(Op) /\ ToSet(<<o>>) = {o}
  BY DEF OpSound, ToSet
<1>2. RowsSound(items)
  BY DEF TablesSound
<1>3. TablesSound'
  BY <1>1, <1>2, SameRows, Stored DEF Enqueue
<1>4. items' = items
  BY DEF Enqueue, Store
<1> QED BY <1>3, <1>4, SameRows, StoredExec DEF Reconciled

\* Up to two operations for a row that changes.
LEMMA ChangeSoundly ==
    ASSUME TablesSound, ExecSound, NEW r \in items, NEW s \in Row, s.key = r.key, r.rid # 0 => s.rid # 0,
           NEW gone, gone \subseteq items, \A q \in items : q.path = s.path => q = r \/ q \in gone,
           NEW jobs \in Seq(Op), \A o \in ToSet(jobs) : OpSound(o) /\ Belongs(o, s),
           Store((items \ ({r} \cup gone)) \cup {s}, jobs)
    PROVE  TablesSound' /\ (exec' = exec => ExecSound')
<1> DEFINE R == (items \ ({r} \cup gone)) \cup {s}
<1>1. RowsSound(R) /\ Follows(R)
  BY ChangedRow
<1>2. s \in R /\ items' = R
  BY DEF Store
<1> HIDE DEF R
<1>3. TablesSound'
  BY <1>1, <1>2, Stored DEF R
<1>4. exec' = exec => ExecSound'
  BY <1>1, <1>2, StoredExec
<1> QED BY <1>3, <1>4

\* Rows that go, with their operations.
LEMMA DeleteSound ==
    ASSUME TablesSound, ExecSound, NEW R, Delete(R)
    PROVE  TablesSound' /\ (exec' = exec => ExecSound')
<1>1. RowsSound(items \ R) /\ Follows(items \ R) /\ items' = items \ R
  BY FewerRows DEF Delete, Store
<1>2. <<>> \in Seq(Op) /\ ToSet(<<>>) = {}
  BY DEF ToSet
<1>3. Store(items \ R, <<>>)
  BY DEF Delete
<1>4. TablesSound'
  BY <1>1, <1>2, <1>3, Stored
<1> QED BY <1>1, <1>4, StoredExec

\* A new row with its first operation.
LEMMA InsertSound ==
    ASSUME TablesSound, ExecSound, NEW p \in Names, AtPath(p) = {},
           NEW i \in Ids \cup {0}, NEW c \in Contents,
           NEW o, OpSound(o), Belongs(o, NewRow(p, i, c)),
           Store(items \cup {NewRow(p, i, c)}, <<o>>), exec' = exec
    PROVE  Reconciled
<1> DEFINE r == NewRow(p, i, c)
<1>1. RowsSound(items \cup {r}) /\ Follows(items \cup {r})
  BY NewRowSound
<1> HIDE DEF r
<1>2. <<o>> \in Seq(Op) /\ ToSet(<<o>>) = {o} /\ Belongs(o, r) /\ Store(items \cup {r}, <<o>>)
  BY DEF OpSound, ToSet, r
<1>3. TablesSound'
  BY <1>1, <1>2, Stored
<1>4. items' = items \cup {r}
  BY <1>2 DEF Store
<1> QED BY <1>1, <1>3, <1>4, StoredExec DEF Reconciled

\* The tables are left alone.
LEMMA TablesAlone ==
    ASSUME TablesSound, UNCHANGED tables
    PROVE  TablesSound'
BY DEF TablesSound, RowsSound, Queued, tables, Belongs, OpSound

\* The tables are left alone, and so is the operation being executed.
LEMMA LeftAlone ==
    ASSUME TablesSound, ExecSound, UNCHANGED tables, exec' = exec
    PROVE  Reconciled
BY DEF Reconciled, TablesSound, RowsSound, Queued, ExecSound, tables, Belongs, OpSound

\* A row whose path changes drops the one that is there.
LEMMA RepathSound ==
    ASSUME TablesSound, ExecSound, NEW r \in items, NEW p \in Names,
           NEW jobs \in Seq(Op), \A o \in ToSet(jobs) : OpSound(o) /\ Belongs(o, [r EXCEPT !.path = p]),
           Repath(r, p, jobs)
    PROVE  TablesSound' /\ (exec' = exec => ExecSound')
<1> DEFINE s == [r EXCEPT !.path = p]
<1>0. r \in Row
  BY DEF TablesSound, RowsSound
<1>1. s \in Row /\ s.key = r.key /\ s.rid = r.rid /\ s.path = p
  BY <1>0, Rows
<1>2. AtPath(p) \subseteq items /\ \A q \in items : q.path = p => q \in AtPath(p)
  BY DEF AtPath
<1>3. Store((items \ ({r} \cup AtPath(p))) \cup {s}, jobs)
  BY DEF Repath
<1>4. \A o \in ToSet(jobs) : OpSound(o) /\ Belongs(o, s)
  OBVIOUS
<1> HIDE DEF s
<1> QED BY <1>1, <1>2, <1>3, <1>4, ChangeSoundly

\* What is on disk gets an upload, and a row if it has none.
LEMMA TrackSound ==
    ASSUME TablesSound, ExecSound, NEW p \in Names, Track(p), exec' = exec
    PROVE  Reconciled
<1>1. CASE local[p] = 0 /\ UNCHANGED tables
  BY <1>1, LeftAlone
<1>2. CASE AtPath(p) = {} /\ Store(items \cup {NewRow(p, 0, 0)}, <<Upload(NewRow(p, 0, 0))>>)
  <2> DEFINE r == NewRow(p, 0, 0)
  <2>1. 0 \in Ids \cup {0} /\ 0 \in Contents
    BY Files
  <2>2. r \in Row
    BY <1>2, <2>1, NewRowSound
  <2>3. OpSound(Upload(r)) /\ Belongs(Upload(r), r)
    BY <2>2, Jobs DEF Belongs, ToDrive
  <2> QED BY <1>2, <2>1, <2>3, InsertSound
<1>3. ASSUME NEW r \in AtPath(p), Enqueue(Upload(r))
      PROVE  Reconciled
  <2>1. r \in items /\ r \in Row
    BY DEF AtPath, TablesSound, RowsSound
  <2>2. OpSound(Upload(r)) /\ Belongs(Upload(r), r)
    BY <2>1, Jobs DEF Belongs, ToDrive
  <2> QED BY <1>3, <2>1, <2>2, EnqueueSound
<1> QED BY <1>1, <1>2, <1>3 DEF Track

\* The local reconciler, whatever the watcher tells it.
LEMMA ApplyLocalSound ==
    ASSUME TablesSound, ExecSound, NEW p \in Names, OnChanged(p) \/ OnDeleted(p) \/ OnRenamed(p), exec' = exec
    PROVE  Reconciled
<1>0. \A q : AtPath(q) \subseteq items /\ AtPath(q) \subseteq Row
  BY DEF AtPath, TablesSound, RowsSound
<1>1. CASE OnChanged(p)
  BY <1>1, TrackSound DEF OnChanged
<1>2. CASE OnDeleted(p)
  <2>1. CASE UNCHANGED tables
    BY <2>1, LeftAlone
  <2>2. ASSUME NEW r \in AtPath(p), r.rid # 0, Enqueue(DeleteRemote(r))
        PROVE  Reconciled
    <3>1. OpSound(DeleteRemote(r)) /\ Belongs(DeleteRemote(r), r)
      BY <1>0, <2>2, Jobs DEF Belongs
    <3> QED BY <1>0, <2>2, <3>1, EnqueueSound
  <2>3. ASSUME NEW r \in AtPath(p), Delete({r})
        PROVE  Reconciled
    BY <2>3, DeleteSound DEF Reconciled
  <2> QED BY <1>2, <2>1, <2>2, <2>3 DEF OnDeleted
<1>3. CASE OnRenamed(p)
  <2> DEFINE source == AtPath(events[p].from)
  <2>1. CASE Track(p)
    BY <2>1, TrackSound
  <2>2. ASSUME NEW r \in source, r.rid = 0, Repath(r, p, <<Upload(r)>>)
        PROVE  Reconciled
    <3>1. r \in items /\ r \in Row
      BY <1>0
    <3>2. <<Upload(r)>> \in Seq(Op) /\ ToSet(<<Upload(r)>>) = {Upload(r)}
      BY <3>1, Jobs DEF OpSound, ToSet
    <3>3. OpSound(Upload(r)) /\ Upload(r).key = r.key /\ Upload(r).kind \notin ToDrive
      BY <3>1, Jobs DEF ToDrive
    <3>4. [r EXCEPT !.path = p].key = r.key
      BY <3>1, Rows
    <3>5. \A o \in ToSet(<<Upload(r)>>) : OpSound(o) /\ Belongs(o, [r EXCEPT !.path = p])
      BY <3>2, <3>3, <3>4 DEF Belongs
    <3> QED BY <2>2, <3>1, <3>2, <3>5, RepathSound DEF Reconciled
  <2>3. ASSUME NEW r \in source, r.rid # 0, Enqueue(RenameRemote(r, p))
        PROVE  Reconciled
    <3>1. r \in items /\ r \in Row
      BY <1>0
    <3>2. OpSound(RenameRemote(r, p)) /\ Belongs(RenameRemote(r, p), r)
      BY <3>1, <2>3, Jobs DEF Belongs
    <3> QED BY <2>3, <3>1, <3>2, EnqueueSound
  <2> QED BY <1>3, <2>1, <2>2, <2>3 DEF OnRenamed
<1> QED BY <1>1, <1>2, <1>3

\* The remote reconciler, for a file it has a row of, whatever the change.
LEMMA KnownSound ==
    ASSUME TablesSound, ExecSound, ChangeSound, change # NoChange,
           NEW r \in WithId(change.id), Known(r), exec' = exec
    PROVE  Reconciled
<1>1. r \in items /\ r \in Row /\ r.path \in Names
  BY Rows DEF WithId, TablesSound, RowsSound
<1>2. change.id \in Ids /\ change.file \in File /\ change.file.path \in Names /\ change.file.md5 \in Contents
  BY Files DEF ChangeSound
<1>3. /\ \A b \in BOOLEAN : OpSound(DeleteLocal(r, b)) /\ Belongs(DeleteLocal(r, b), r)
      /\ \A p \in Names : OpSound(Download(r, change.id, p)) /\ Belongs(Download(r, change.id, p), r)
      /\ \A p \in Names : OpSound(RenameLocal(r, p)) /\ Belongs(RenameLocal(r, p), r)
  BY <1>1, <1>2, Jobs DEF Belongs, ToDrive
<1>4. CASE UNCHANGED tables
  BY <1>4, LeftAlone
<1>5. CASE \E b \in BOOLEAN : Enqueue(DeleteLocal(r, b))
  BY <1>1, <1>3, <1>5, EnqueueSound
<1>6. CASE Enqueue(Download(r, change.id, r.path))
  BY <1>1, <1>3, <1>6, EnqueueSound
<1>7. CASE Restored(r)
  <2> DEFINE s == [r EXCEPT !.trashed = FALSE]
             o == Download(r, change.id, r.path)
  <2>1. s \in Row /\ s.key = r.key /\ s.rid = r.rid /\ s.path = r.path
    BY <1>1, Rows
  <2>2. <<o>> \in Seq(Op) /\ ToSet(<<o>>) = {o} /\ OpSound(o) /\ Belongs(o, s)
    BY <1>1, <1>3, <2>1 DEF OpSound, ToSet, Belongs
  <2>3. Store((items \ ({r} \cup {})) \cup {s}, <<o>>)
    BY <1>7 DEF Restored, Change
  <2>4. \A q \in items : q.path = s.path => q = r
    BY <1>1, <2>1 DEF TablesSound, RowsSound
  <2> HIDE DEF s, o
  <2>5. \A e \in ToSet(<<o>>) : OpSound(e) /\ Belongs(e, s)
    BY <2>2
  <2>6. {} \subseteq items
    OBVIOUS
  <2> QED BY <1>1, <2>1, <2>2, <2>3, <2>4, <2>5, <2>6, ChangeSoundly DEF Reconciled
<1>8. CASE Moved(r)
  <2> DEFINE m == RenameLocal(r, change.file.path)
             d == Download(r, change.id, change.file.path)
  <2>1. OpSound(m) /\ Belongs(m, r) /\ OpSound(d) /\ Belongs(d, r)
    BY <1>2, <1>3
  <2>2. Store(items, <<m>>) \/ Store(items, <<m, d>>)
    BY <1>8 DEF Moved
  <2> HIDE DEF m, d
  <2>3. /\ <<m>> \in Seq(Op) /\ ToSet(<<m>>) = {m}
        /\ <<m, d>> \in Seq(Op) /\ ToSet(<<m, d>>) = {m, d}
    BY <2>1 DEF OpSound, ToSet
  <2>4. RowsSound(items) /\ Follows(items)
    BY SameRows DEF TablesSound
  <2>5. TablesSound'
    <3>1. CASE Store(items, <<m>>)
      BY <1>1, <2>1, <2>3, <2>4, <3>1, Stored
    <3>2. CASE Store(items, <<m, d>>)
      BY <1>1, <2>1, <2>3, <2>4, <3>2, Stored
    <3> QED BY <2>2, <3>1, <3>2
  <2>6. items' = items
    BY <2>2 DEF Store
  <2> QED BY <2>4, <2>5, <2>6, StoredExec DEF Reconciled
<1> QED BY <1>4, <1>5, <1>6, <1>7, <1>8
        DEF Known, Removed, Trashed, NothingToPull, Pulled, Conflict

\* The remote reconciler, for a file it has no row of.
LEMMA UnknownSound ==
    ASSUME TablesSound, ExecSound, ChangeSound, change # NoChange, Unknown, exec' = exec
    PROVE  Reconciled
<1> DEFINE f == change.file
           r == NewRow(f.path, change.id, f.md5)
           o == Download(r, change.id, f.path)
<1>1. change.id \in Ids /\ f \in File /\ f.path \in Names /\ f.md5 \in Contents
  BY Files DEF ChangeSound
<1>2. CASE UNCHANGED tables
  BY <1>2, LeftAlone
<1>3. CASE AtPath(f.path) = {} /\ Store(items \cup {r}, <<o>>)
  <2>1. r \in Row
    BY <1>1, <1>3, NewRowSound
  <2>2. OpSound(o) /\ Belongs(o, r)
    BY <1>1, <2>1, Jobs DEF Belongs, ToDrive
  <2> QED BY <1>1, <1>3, <2>2, InsertSound
<1> QED BY <1>2, <1>3 DEF Unknown

-----------------------------------------------------------------------------
(* The world.                                                              *)

\* A file changes on Drive, and its id is in the feed.
LEMMA SetDriveSound ==
    ASSUME WorldSound, NEW i \in Ids, NEW file \in File, file.st # "none", file.path # NoPath,
           SetDrive(i, file), local' \in [Names -> Contents]
    PROVE  WorldSound'
<1>1. drive' = [drive EXCEPT ![i] = file] /\ feed' = Append(Only(feed, Ids \ {i}), i)
  BY DEF SetDrive
<1>2. Only(feed, Ids \ {i}) \in Seq(Ids) /\ ToSet(Only(feed, Ids \ {i})) = ToSet(feed) \cap (Ids \ {i})
  BY OnlyKeeps DEF WorldSound
<1>3. feed' \in Seq(Ids) /\ ToSet(feed') = (ToSet(feed) \cap (Ids \ {i})) \cup {i}
  <2> DEFINE others == Only(feed, Ids \ {i})
  <2>1. others \in Seq(Ids) /\ ToSet(others) = ToSet(feed) \cap (Ids \ {i}) /\ feed' = Append(others, i)
    BY <1>1, <1>2
  <2> HIDE DEF others
  <2>2. Append(others, i) \in Seq(Ids) /\ ToSet(Append(others, i)) = ToSet(others) \cup {i}
    BY <2>1, AppendSet
  <2> QED BY <2>1, <2>2
<1> QED BY <1>1, <1>3 DEF WorldSound

\* The disk changes.
LEMMA DiskSound ==
    ASSUME WorldSound, UNCHANGED <<drive, feed>>, local' \in [Names -> Contents]
    PROVE  WorldSound'
BY DEF WorldSound

\* A file moves on disk.
LEMMA MovedOnDisk ==
    ASSUME WorldSound, NEW p \in Names, NEW q \in Names
    PROVE  /\ [local EXCEPT ![p] = 0] \in [Names -> Contents]
           /\ [local EXCEPT ![p] = 0, ![q] = local[p]] \in [Names -> Contents]
           /\ \A c \in Contents : [local EXCEPT ![p] = c] \in [Names -> Contents]
           /\ local[p] \in Contents
BY Files DEF WorldSound

\* Events are events.
LEMMA EventsSound ==
    ASSUME events \in [Names -> Event], NEW p \in Names, NEW q \in Names,
           \/ \E kind \in {"changed", "deleted"} : Notify(p, kind)
           \/ NotifyMove(q, p) \/ UNCHANGED events
           \/ events' = [events EXCEPT ![p] = NoEvent]
    PROVE  events' \in [Names -> Event]
BY DEF Notify, NotifyMove, Event, NoEvent

\* What users count.
LEMMA UserCounts ==
    ASSUME CountsSound, WorldSound, NEW kind, User(kind), NEW old, NEW new \in Contents, Trade(old, new),
           events' \in [Names -> Event]
    PROVE  CountsSound'
<1>1. edits' \in 0..MaxUser
  BY FileSyncAssumption DEF User, CountsSound
<1>2. overlaps' \in 0..MaxTrouble
  BY FileSyncAssumption DEF User, Interfere, MoreTrouble, CountsSound
<1>3. kept' \subseteq Contents \ {0}
  BY DEF Trade, CountsSound
<1> QED BY <1>1, <1>2, <1>3 DEF CountsSound, User

\* A user's step changes nothing of the daemon's.
LEMMA UserElse ==
    ASSUME Sound, NEW kind, User(kind)
    PROVE  TablesSound' /\ ExecSound' /\ ChangeSound' /\ edits + 2 \in Contents
<1>1. TablesSound' /\ ExecSound'
  BY LeftAlone DEF Sound, User, Reconciled
<1>2. edits + 2 \in Contents
  BY FileSyncAssumption DEF Sound, CountsSound, User, Contents
<1> QED BY <1>1, <1>2 DEF Sound, ChangeSound, User

\* Users keep the world sound, on disk and on Drive.
LEMMA UserSound ==
    ASSUME Sound, UserStep
    PROVE  Sound'
<1>0. \A p \in Names : local[p] \in Contents
  BY MovedOnDisk DEF Sound
<1>1. ASSUME NEW p \in Paths, Write(p) \/ RemoveFile(p)
      PROVE  Sound'
  <2>1. p \in Names /\ \E kind \in UserKinds : User(kind)
    BY <1>1 DEF Names, Write, RemoveFile, UserKinds
  <2>2. PICK c \in Contents : local' = [local EXCEPT ![p] = c] /\ Trade(local[p], c)
    BY <1>1, <2>1, UserElse, Files DEF Write, RemoveFile, Fresh
  <2>3. WorldSound'
    BY <1>1, <2>1, <2>2, MovedOnDisk, DiskSound DEF Sound, Write, RemoveFile
  <2>4. events' \in [Names -> Event]
    BY <1>1, <2>1, EventsSound DEF Sound, CountsSound, Write, RemoveFile
  <2>5. CountsSound'
    BY <2>1, <2>2, <2>4, UserCounts DEF Sound
  <2> QED BY <2>1, <2>3, <2>5, UserElse DEF Sound
<1>2. ASSUME NEW p \in Paths, NEW q \in Paths, Move(p, q)
      PROVE  Sound'
  <2>1. p \in Names /\ q \in Names /\ User("move")
    BY <1>2 DEF Names, Move
  <2>2. Trade(local[q], local[p]) /\ local[p] \in Contents
    BY <1>0, <1>2, <2>1 DEF Move
  <2>3. WorldSound'
    BY <1>2, <2>1, MovedOnDisk, DiskSound DEF Sound, Move
  <2>4. events' \in [Names -> Event]
    BY <1>2, <2>1, EventsSound DEF Sound, CountsSound, Move
  <2>5. CountsSound'
    BY <2>1, <2>2, <2>4, UserCounts DEF Sound
  <2> QED BY <2>1, <2>3, <2>5, UserElse DEF Sound
<1>3. ASSUME NEW i \in Ids, RemoteStep(i)
      PROVE  Sound'
  <2>1. PICK kind, file, old, new : Remote(kind, i, file, old, new)
    BY <1>3 DEF RemoteStep
  <2>2. User(kind) /\ edits + 2 \in Contents /\ drive[i] \in File
    BY <2>1, UserElse DEF Remote, Sound, WorldSound
  <2>3. \E f \in File : f.st # "none" /\ f.path # NoPath /\ SetDrive(i, f)
    <3>1. drive[i].st \in {"live", "trashed"} => drive[i].path # NoPath
      BY DEF Sound, WorldSound
    <3>2. ASSUME NEW p \in Paths, Remote("rcreate", i, [path |-> p, md5 |-> Fresh, st |-> "live"], 0, Fresh)
          PROVE  \E f \in File : f.st # "none" /\ f.path # NoPath /\ SetDrive(i, f)
      <4>1. p \in Names /\ p # NoPath
        BY FileSyncAssumption DEF Names
      <4> DEFINE f == [path |-> p, md5 |-> Fresh, st |-> "live"]
      <4>2. f \in File /\ f.st # "none" /\ f.path # NoPath
        BY <2>2, <4>1, Files DEF Fresh
      <4>3. SetDrive(i, f)
        BY <3>2 DEF Remote
      <4> HIDE DEF f
      <4> QED BY <4>2, <4>3
    <3>3. CASE Live(i) /\ Remote("rwrite", i, [drive[i] EXCEPT !.md5 = Fresh], drive[i].md5, Fresh)
      <4> DEFINE f == [drive[i] EXCEPT !.md5 = Fresh]
      <4>1. f \in File /\ f.path = drive[i].path /\ f.st = drive[i].st
        BY <2>2, Files DEF Fresh
      <4>2. SetDrive(i, f)
        BY <3>3 DEF Remote
      <4> HIDE DEF f
      <4> QED BY <3>1, <3>3, <4>1, <4>2 DEF Live
    <3>4. CASE Live(i) /\ Remote("rtrash", i, [drive[i] EXCEPT !.st = "trashed"], drive[i].md5, 0)
      BY <2>2, <3>1, <3>4, Files DEF Remote, Live
    <3>5. CASE /\ drive[i].st = "trashed"
               /\ Remote("rrestore", i, [drive[i] EXCEPT !.st = "live"], 0, drive[i].md5)
      BY <2>2, <3>1, <3>5, Files DEF Remote
    <3>6. ASSUME NEW p \in Paths, Live(i), Remote("rmove", i, [drive[i] EXCEPT !.path = p], 0, 0)
          PROVE  \E f \in File : f.st # "none" /\ f.path # NoPath /\ SetDrive(i, f)
      <4>1. p \in Names /\ p # NoPath
        BY FileSyncAssumption DEF Names
      <4> DEFINE f == [drive[i] EXCEPT !.path = p]
      <4>2. f \in File /\ f.path = p /\ f.st = drive[i].st
        BY <2>2, <4>1, Files
      <4>3. SetDrive(i, f)
        BY <3>6 DEF Remote
      <4> HIDE DEF f
      <4> QED BY <3>6, <4>1, <4>2, <4>3 DEF Live
    <3>7. CASE Exists(i) /\ Remote("rdelete", i, [drive[i] EXCEPT !.st = "gone"], drive[i].md5, 0)
      BY <2>2, <3>1, <3>7, Files DEF Remote, Exists
    <3> QED BY <1>3, <3>2, <3>3, <3>4, <3>5, <3>6, <3>7 DEF RemoteStep
  <2>4. WorldSound'
    BY <2>1, <2>3, SetDriveSound DEF Sound, WorldSound, Remote
  <2>5. \E o, n : n \in Contents /\ Trade(o, n)
    BY <1>3, <2>2, Files DEF RemoteStep, Remote, Fresh
  <2>6. CountsSound'
    BY <2>1, <2>2, <2>5, UserCounts DEF Sound, CountsSound, Remote
  <2> QED BY <2>2, <2>4, <2>6, UserElse DEF Sound
<1> QED BY <1>1, <1>2, <1>3 DEF UserStep

-----------------------------------------------------------------------------
(* The dispatcher.                                                         *)

\* What an operation that begins takes from its row.
LEMMA BeginSound ==
    ASSUME Sound, Begin
    PROVE  Sound'
<1> DEFINE o == Head(ops)
<1>1. /\ exec = Idle /\ ops # <<>> /\ ops \in Seq(Op) /\ ops' = Tail(ops)
      /\ UNCHANGED <<local, drive, feed, items, later, events, change, edits, overlaps, kept, faults>>
  BY DEF Sound, TablesSound, Queued, Begin, BeginUpload, BeginRemote, BeginLocal, Drop, Enter, world, ghosts
<1>2. Tail(ops) \in Seq(Op) /\ o \in ToSet(ops) /\ ToSet(Tail(ops)) \subseteq ToSet(ops)
  BY <1>1, TailSet
<1>3. OpSound(o)
  BY <1>2 DEF Sound, TablesSound, Queued
<1>4. PICK r \in WithKey(o.key) : BeginUpload(o, r) \/ BeginRemote(o, r) \/ BeginLocal(o, r)
  BY DEF Begin
<1>5. r \in items /\ r \in Row /\ r.key = o.key /\ \A s \in items : s.key = o.key => s = r
  BY <1>4 DEF WithKey, Sound, TablesSound, RowsSound
<1>6. Belongs(o, r)
  BY <1>2, <1>5 DEF Sound, TablesSound, Queued, Belongs
<1> HIDE DEF o
<1>7. TablesSound'
  BY <1>1, <1>2 DEF Sound, TablesSound, RowsSound, Queued, Belongs, OpSound
<1>8. r.rid \in Ids \cup {0} /\ 0 \in Ids \cup {0} /\ local[r.path] \in Contents /\ 0 \in Contents
  BY <1>5, Rows, Files DEF Sound, WorldSound
<1>9. ExecSound' /\ marked' \in Ids \cup {0}
  <2>1. CASE Drop
    BY <1>1, <2>1 DEF Drop, ExecSound, Sound, CountsSound
  <2>2. ASSUME NEW hash \in Contents, NEW i \in Ids \cup {0}, Enter(o, r, hash, i)
        PROVE  ExecSound' /\ marked' \in Ids \cup {0}
    <3> DEFINE e == [pc |-> "write", op |-> o, row |-> r, md5 |-> hash]
    <3>1. e \in [pc : {"write", "mark", "record"}, op : Op, row : Row, md5 : Contents]
      BY <1>3, <1>5 DEF OpSound
    <3>2. e.pc = "write" /\ e.op = o /\ e.row = r /\ exec' = e /\ marked' = i
      BY <2>2 DEF Enter
    <3> HIDE DEF e
    <3>3. o.kind \in ToDrive => r.rid # 0
      BY <1>6 DEF Belongs
    <3> QED BY <1>1, <1>3, <1>5, <1>6, <2>2, <3>1, <3>2, <3>3 DEF ExecSound, Belongs, OpSound
  <2> QED BY <1>4, <1>8, <2>1, <2>2 DEF BeginUpload, BeginRemote, BeginLocal
<1> QED BY <1>1, <1>7, <1>9 DEF Sound, WorldSound, ChangeSound, CountsSound

\* What an operation that is done does to the world.
LEMMA ActSound ==
    ASSUME Sound, Act
    PROVE  Sound'
<1> DEFINE o == exec.op
           r == exec.row
<1>1. /\ exec # Idle /\ UNCHANGED <<items, ops, later, change, marked, edits, overlaps, kept, faults>>
      /\ exec \in [pc : {"write", "mark", "record"}, op : Op, row : Row, md5 : Contents]
      /\ OpSound(o) /\ r \in Row /\ exec.pc = "write"
  BY DEF Act, Sound, ExecSound, tables, ghosts, Update, Get, Trash, Unlink, MoveRemote, MoveLocal, Create, At
<1>2. r.path \in Names /\ r.rid \in Ids \cup {0}
  BY <1>1, Rows
<1>3. o.kind \in ToPath => o.path \in Names
  BY <1>1 DEF OpSound, Op
<1>4. o.kind = "Download" => o.rid \in Ids
  BY <1>1 DEF OpSound, Op
<1>5. o.kind \in ToDrive => r.rid \in Ids
  BY <1>1, <1>2 DEF Sound, ExecSound
<1>6. TablesSound' /\ ChangeSound'
  BY <1>1 DEF Sound, TablesSound, RowsSound, Queued, Belongs, OpSound, ChangeSound
<1>7. WorldSound' /\ events' \in [Names -> Event]
  <2>0. \A i \in Ids : /\ drive[i] \in File /\ drive[i].md5 \in Contents
                       /\ drive[i].st # "none" => drive[i].path # NoPath
    BY Files DEF Sound, WorldSound
  <2>1. CASE Update
    <3> DEFINE f == [drive[r.rid] EXCEPT !.md5 = local[r.path]]
    <3>1. r.rid \in Ids /\ drive[r.rid].st # "none" /\ local[r.path] \in Contents
      BY <1>2, <2>1, MovedOnDisk DEF Update, Exists, Sound
    <3>2. f \in File /\ f.st # "none" /\ f.path # NoPath
      BY <2>0, <3>1, Files
    <3>3. SetDrive(r.rid, f) /\ UNCHANGED <<local, events>>
      BY <2>1 DEF Update, OnDisk
    <3> HIDE DEF f, r
    <3> QED BY <3>1, <3>2, <3>3, SetDriveSound DEF Sound, WorldSound, CountsSound
  <2>2. CASE Get
    <3>1. o.rid \in Ids /\ o.path \in Names /\ drive[o.rid].md5 \in Contents
      BY <1>3, <1>4, <2>0, <2>2 DEF Get, At, ToPath
    <3>2. /\ local' = [local EXCEPT ![o.path] = drive[o.rid].md5] /\ UNCHANGED <<drive, feed>>
          /\ Notify(o.path, "changed")
      BY <2>2 DEF Get
    <3> HIDE DEF o
    <3> QED BY <3>1, <3>2, MovedOnDisk, DiskSound, EventsSound DEF Sound, CountsSound
  <2>3. CASE Trash
    <3> DEFINE f == [drive[r.rid] EXCEPT !.st = "trashed"]
    <3>1. r.rid \in Ids /\ drive[r.rid].st # "none"
      BY <1>5, <2>3 DEF Trash, At, ToDrive, Exists
    <3>2. f \in File /\ f.st # "none" /\ f.path # NoPath
      <4>1. drive[r.rid] \in File /\ drive[r.rid].path # NoPath
        BY <2>0, <3>1
      <4> QED BY <4>1, SMTT(30) DEF File
    <3>3. (SetDrive(r.rid, f) \/ UNCHANGED <<drive, feed>>) /\ UNCHANGED <<local, events>>
      BY <2>3 DEF Trash, OnDisk
    <3> HIDE DEF f, r
    <3> QED BY <3>1, <3>2, <3>3, SetDriveSound, DiskSound DEF Sound, WorldSound, CountsSound
  <2>4. CASE Unlink
    <3>1. UNCHANGED <<drive, feed>> /\ (UNCHANGED <<local, events>>
              \/ (local' = [local EXCEPT ![r.path] = 0] /\ Notify(r.path, "deleted")))
      BY <2>4 DEF Unlink, OnDisk
    <3> HIDE DEF r
    <3>2. local' \in [Names -> Contents] /\ WorldSound
      BY <1>2, <3>1, MovedOnDisk DEF Sound, WorldSound
    <3>3. events' \in [Names -> Event]
      BY <1>2, <3>1, EventsSound DEF Sound, CountsSound
    <3> QED BY <3>1, <3>2, <3>3, DiskSound
  <2>5. CASE MoveRemote
    <3> DEFINE f == [drive[r.rid] EXCEPT !.path = o.path]
    <3>1. r.rid \in Ids /\ drive[r.rid].st # "none" /\ o.path \in Names
      BY <1>3, <1>5, <2>5 DEF MoveRemote, At, ToDrive, ToPath, Exists
    <3>2. f \in File /\ f.st # "none" /\ f.path # NoPath
      BY <2>0, <3>1, Files
    <3>3. SetDrive(r.rid, f) /\ UNCHANGED <<local, events>>
      BY <2>5 DEF MoveRemote, OnDisk
    <3> HIDE DEF f, r
    <3> QED BY <3>1, <3>2, <3>3, SetDriveSound DEF Sound, WorldSound, CountsSound
  <2>6. CASE MoveLocal
    <3>1. o.path \in Names
      BY <1>3, <2>6 DEF MoveLocal, At, ToPath
    <3>2. UNCHANGED <<drive, feed>> /\ (UNCHANGED <<local, events>>
              \/ (local' = [local EXCEPT ![r.path] = 0, ![o.path] = local[r.path]] /\ NotifyMove(r.path, o.path)))
      BY <2>6 DEF MoveLocal, OnDisk
    <3> HIDE DEF r, o
    <3>3. local' \in [Names -> Contents] /\ WorldSound
      BY <1>2, <3>1, <3>2, MovedOnDisk DEF Sound, WorldSound
    <3>4. events' \in [Names -> Event]
      BY <1>2, <3>1, <3>2, EventsSound DEF Sound, CountsSound
    <3> QED BY <3>2, <3>3, <3>4, DiskSound
  <2>7. ASSUME NEW i \in Ids, Create(i)
        PROVE  WorldSound' /\ events' \in [Names -> Event]
    <3> DEFINE f == [path |-> r.path, md5 |-> local[r.path], st |-> "live"]
    <3>1. local[r.path] \in Contents /\ r.path # NoPath
      BY <1>2, MovedOnDisk, Files DEF Sound
    <3>2. f \in File /\ f.st # "none" /\ f.path # NoPath
      BY <1>2, <3>1, Files
    <3>3. SetDrive(i, f) /\ UNCHANGED <<local, events>>
      BY <2>7 DEF Create, OnDisk
    <3> HIDE DEF f, r
    <3> QED BY <3>2, <3>3, SetDriveSound DEF Sound, WorldSound, CountsSound
  <2> QED BY <2>1, <2>2, <2>3, <2>4, <2>5, <2>6, <2>7 DEF Act
<1>8. ExecSound'
  <2>1. CASE ToRecord /\ (o.kind = "Upload" => r.rid # 0)
    <3> DEFINE e == [exec EXCEPT !.pc = "record"]
    <3>1. /\ e \in [pc : {"write", "mark", "record"}, op : Op, row : Row, md5 : Contents]
          /\ e.pc = "record" /\ e.op = o /\ e.row = r
      BY <1>1
    <3>2. exec' = e
      BY <2>1 DEF ToRecord
    <3> HIDE DEF e
    <3> QED BY <1>1, <2>1, <3>1, <3>2 DEF Sound, ExecSound, Belongs, OpSound
  <2>2. ASSUME NEW i \in Ids, Create(i)
        PROVE  ExecSound'
    <3> DEFINE e == [exec EXCEPT !.pc = "mark", !.row.rid = i]
    <3>1. /\ e \in [pc : {"write", "mark", "record"}, op : Op, row : Row, md5 : Contents]
          /\ e.pc = "mark" /\ e.op = o /\ e.row.rid = i
      BY <1>1 DEF Row
    <3>2. exec' = e /\ o.kind = "Upload" /\ i # 0
      BY <2>2 DEF Create, At, Ids
    <3> HIDE DEF e
    <3> QED BY <1>1, <3>1, <3>2 DEF Sound, ExecSound, Belongs, OpSound, ToDrive
  <2> QED BY <2>1, <2>2 DEF Act, Update, Get, Trash, Unlink, MoveRemote, MoveLocal, At
<1> QED BY <1>1, <1>6, <1>7, <1>8 DEF Sound, CountsSound

\* What an operation records when it is done.
LEMMA RecordSound ==
    ASSUME Sound, Record
    PROVE  Sound'
<1> DEFINE o == exec.op
<1>1. /\ exec # Idle /\ exec.pc = "record" /\ exec' = Idle /\ marked' = 0
      /\ UNCHANGED <<local, drive, feed, events, change, edits, overlaps, kept, faults>>
      /\ exec \in [pc : {"write", "mark", "record"}, op : Op, row : Row, md5 : Contents]
      /\ OpSound(o) /\ exec.row \in Row
  BY DEF Record, Leave, Sound, ExecSound, world, ghosts
<1>2. <<>> \in Seq(Op) /\ ToSet(<<>>) = {} /\ {} \subseteq items
  BY DEF ToSet
<1>3. \A r \in items, s \in Row : Change(r, s, <<>>) => Store((items \ ({r} \cup {})) \cup {s}, <<>>)
  BY DEF Change
<1>4. ASSUME NEW r \in items, NEW s \in Row, Change(r, s, <<>>), s.key = r.key, r.rid # 0 => s.rid # 0,
             \A q \in items : q.path = s.path => q = r
      PROVE  TablesSound'
  BY <1>2, <1>3, <1>4, ChangeSoundly DEF Sound
<1>5. ASSUME NEW R, Delete(R)
      PROVE  TablesSound'
  BY <1>5, DeleteSound DEF Sound
<1>6. ASSUME UNCHANGED tables
      PROVE  TablesSound'
  BY <1>6, TablesAlone DEF Sound
<1>7. ASSUME SavePath
      PROVE  TablesSound'
  <2> DEFINE p == exec.row.path
             q == o.path
  <2>1. q \in Names
    BY <1>1, <1>7 DEF SavePath, At, OpSound, Op, ToPath
  <2>2. ASSUME NEW r \in AtPath(p), Change(r, [r EXCEPT !.path = q], <<>>), AtPath(q) = {}
        PROVE  TablesSound'
    <3> DEFINE s == [r EXCEPT !.path = q]
    <3>1. r \in items /\ r \in Row
      BY DEF AtPath, Sound, TablesSound, RowsSound
    <3>2. Change(r, s, <<>>) /\ \A t \in items : t.path # q
      BY <2>2 DEF AtPath
    <3> HIDE DEF q
    <3>3. s \in Row /\ s.key = r.key /\ s.rid = r.rid /\ s.path = q
      BY <2>1, <3>1, Rows
    <3> HIDE DEF s
    <3> QED BY <1>4, <3>1, <3>2, <3>3
  <2>3. ASSUME NEW R, Delete(R)
        PROVE  TablesSound'
    BY <1>5, <2>3
  <2> HIDE DEF p, q
  <2>4. \/ UNCHANGED tables \/ Delete(AtPath(p))
        \/ AtPath(q) = {} /\ \E r \in AtPath(p) : Change(r, [r EXCEPT !.path = q], <<>>)
    BY <1>7 DEF SavePath, p, q
  <2> QED BY <1>6, <2>2, <2>3, <2>4
<1>8. ASSUME NEW r \in WithKey(o.key), Save(r)
      PROVE  TablesSound'
  <2>1. r \in items /\ r \in Row /\ \A t \in items : t.path = r.path => t = r
    BY DEF WithKey, Sound, TablesSound, RowsSound
  <2>2. CASE o.kind = "Upload" /\ Change(r, [r EXCEPT !.rid = exec.row.rid, !.md5 = exec.md5], <<>>)
    <3>1. PICK i \in Ids \cup {0}, c \in Contents : i # 0 /\ i = exec.row.rid /\ c = exec.md5
      BY <1>1, <2>2, Rows DEF Sound, ExecSound
    <3> DEFINE s == [r EXCEPT !.rid = i, !.md5 = c]
    <3>2. s \in Row /\ s.key = r.key /\ s.rid = i /\ s.path = r.path
      BY <2>1, <3>1 DEF Row
    <3>3. Change(r, s, <<>>)
      BY <2>2, <3>1
    <3> HIDE DEF s
    <3> QED BY <1>4, <2>1, <3>1, <3>2, <3>3
  <2>3. CASE o.kind = "Download" /\ Change(r, [r EXCEPT !.rid = o.rid, !.md5 = local[o.path]], <<>>)
    <3>1. o.rid # 0 /\ o.rid \in Ids \cup {0} /\ o.path \in Names
      BY <1>1, <2>3 DEF OpSound, Op, ToPath
    <3>2. PICK i \in Ids \cup {0}, c \in Contents : i # 0 /\ i = o.rid /\ c = local[o.path]
      BY <3>1 DEF Sound, WorldSound
    <3> DEFINE s == [r EXCEPT !.rid = i, !.md5 = c]
    <3>3. s \in Row /\ s.key = r.key /\ s.rid = i /\ s.path = r.path
      BY <2>1, <3>2 DEF Row
    <3>4. Change(r, s, <<>>)
      BY <2>3, <3>2
    <3> HIDE DEF s
    <3> QED BY <1>4, <2>1, <3>2, <3>3, <3>4
  <2>4. CASE Change(r, [r EXCEPT !.trashed = TRUE], <<>>)
    <3> DEFINE s == [r EXCEPT !.trashed = TRUE]
    <3>1. s \in Row /\ s.key = r.key /\ s.rid = r.rid /\ s.path = r.path
      BY <2>1, Rows
    <3>2. Change(r, s, <<>>)
      BY <2>4
    <3> HIDE DEF s
    <3> QED BY <1>4, <2>1, <3>1, <3>2
  <2>5. CASE o.kind = "RenameRemote" /\ Repath(r, o.path, <<>>)
    <3>1. o.path \in Names
      BY <1>1, <2>5 DEF OpSound, Op, ToPath
    <3> QED BY <1>2, <2>1, <2>5, <3>1, RepathSound DEF Sound
  <2> QED BY <1>5, <1>8, <2>2, <2>3, <2>4, <2>5 DEF Save, At
<1>9. TablesSound'
  <2>1. SavePath \/ (\E r \in WithKey(o.key) : Save(r)) \/ UNCHANGED tables
    BY DEF Record
  <2> HIDE DEF o
  <2> QED BY <1>6, <1>7, <1>8, <2>1
<1> HIDE DEF o
<1> QED BY <1>1, <1>9 DEF Sound, WorldSound, ChangeSound, ExecSound, CountsSound

\* A failed operation is put aside, as long as it has its row and attempts left.
LEMMA RetrySound ==
    ASSUME Sound, exec # Idle, Retry, faults' \in 0..MaxTrouble
    PROVE  Sound'
<1> DEFINE again == [exec.op EXCEPT !.tries = @ + 1]
<1>1. /\ exec' = Idle /\ marked' = 0
      /\ UNCHANGED <<local, drive, feed, items, ops, events, change, edits, overlaps, kept>>
      /\ OpSound(exec.op)
  BY DEF Retry, Leave, Sound, ExecSound, world, ghosts
<1>2. /\ again.kind = exec.op.kind /\ again.key = exec.op.key /\ again.rid = exec.op.rid
      /\ again.path = exec.op.path /\ again.tries = exec.op.tries + 1
  BY <1>1 DEF OpSound, Op
<1>3. again \in Op
  BY <1>1, FileSyncAssumption DEF OpSound, Op
<1>4. CASE later' = later
  BY <1>1, <1>4 DEF Sound, TablesSound, RowsSound, Queued, Belongs, OpSound, WorldSound, ChangeSound, ExecSound,
                    CountsSound
<1>5. CASE WithKey(again.key) # {} /\ again.tries # MaxTries /\ later' = Append(later, again)
  <2>1. OpSound(again)
    BY <1>1, <1>2, <1>3, <1>5, FileSyncAssumption DEF OpSound, Op
  <2>2. \E r \in items : Belongs(again, r)
    BY <1>2, <1>5 DEF WithKey, Sound, ExecSound, Belongs
  <2> HIDE DEF again
  <2>3. later' \in Seq(Op) /\ ToSet(later') = ToSet(later) \cup {again}
    BY <1>3, <1>5, AppendSet DEF Sound, TablesSound, Queued
  <2>4. TablesSound'
    BY <1>1, <2>1, <2>2, <2>3 DEF Sound, TablesSound, RowsSound, Queued, Belongs, OpSound
  <2> QED BY <1>1, <2>4 DEF Sound, WorldSound, ChangeSound, ExecSound, CountsSound
<1> QED BY <1>4, <1>5 DEF Retry

-----------------------------------------------------------------------------
\* A failed operation is due again.
LEMMA ComesDueSound ==
    ASSUME Sound, ComesDue
    PROVE  Sound'
<1>1. PICK n \in DOMAIN later : ops' = Append(ops, later[n]) /\ later' = RemoveAt(later, n)
  BY DEF ComesDue
<1>2. later \in Seq(Op) /\ ops \in Seq(Op)
  BY DEF Sound, TablesSound, Queued
<1>3. /\ RemoveAt(later, n) \in Seq(Op) /\ ToSet(RemoveAt(later, n)) \subseteq ToSet(later)
      /\ later[n] \in Op /\ later[n] \in ToSet(later)
  BY <1>2, RemoveAtSet
<1>4. ops' \in Seq(Op) /\ ToSet(ops') = ToSet(ops) \cup {later[n]}
  BY <1>1, <1>2, <1>3, AppendSet
<1>5. UNCHANGED <<world, items, events, change, exec, marked, ghosts, faults>>
  BY DEF ComesDue
<1>6. TablesSound'
  BY <1>1, <1>3, <1>4, <1>5 DEF Sound, TablesSound, RowsSound, Queued, Belongs, OpSound
<1> QED BY <1>5, <1>6 DEF Sound, WorldSound, ChangeSound, ExecSound, CountsSound, Belongs, OpSound, world, ghosts

\* The poller takes the oldest change, as Drive has the file now.
LEMMA FetchSound ==
    ASSUME Sound, Fetch
    PROVE  Sound'
<1> DEFINE i == Head(feed)
<1>1. feed \in Seq(Ids) /\ feed # <<>> /\ feed' = Tail(feed) /\ change' = [id |-> i, file |-> drive[i]]
      /\ UNCHANGED <<local, drive, tables, events, exec, marked, edits, overlaps, kept, faults>>
  BY DEF Fetch, Sound, WorldSound, ghosts
<1>2. i \in Ids /\ feed' \in Seq(Ids) /\ ToSet(feed) = {i} \cup ToSet(feed')
  BY <1>1, TailSet
<1> HIDE DEF i
<1>3. drive[i] \in File /\ drive[i].path # NoPath
  BY <1>2 DEF Sound, WorldSound
<1>4. ChangeSound'
  BY <1>1, <1>2, <1>3 DEF ChangeSound
<1>5. WorldSound'
  BY <1>1, <1>2 DEF Sound, WorldSound
<1>6. TablesSound' /\ ExecSound'
  BY <1>1, LeftAlone DEF Sound, Reconciled
<1> QED BY <1>1, <1>4, <1>5, <1>6 DEF Sound, CountsSound

\* A batch that is fetched again.
LEMMA RedeliverSound ==
    ASSUME Sound, NEW i \in Ids, Redeliver(i)
    PROVE  Sound'
<1>1. /\ feed' = <<i>> \o feed /\ drive[i].st # "none" /\ Interfere /\ feed \in Seq(Ids) /\ <<i>> \in Seq(Ids)
      /\ UNCHANGED <<local, drive, tables, events, change, exec, marked, edits, kept, faults>>
  BY DEF Redeliver, Sound, WorldSound
<1>2. feed' \in Seq(Ids) /\ ToSet(feed') = ToSet(<<i>>) \cup ToSet(feed)
  BY <1>1, ConcatSet
<1>3. ToSet(<<i>>) = {i}
  BY DEF ToSet
<1>4. WorldSound'
  BY <1>1, <1>2, <1>3 DEF Sound, WorldSound
<1>5. overlaps' \in 0..MaxTrouble
  BY <1>1, FileSyncAssumption DEF Interfere, MoreTrouble, Sound, CountsSound
<1>6. TablesSound' /\ ExecSound'
  BY <1>1, LeftAlone DEF Sound, Reconciled
<1> QED BY <1>1, <1>4, <1>5, <1>6 DEF Sound, CountsSound, ChangeSound

\* Every step keeps the tables and the world sound.
LEMMA SoundKept ==
    ASSUME Sound, [Next]_vars
    PROVE  Sound'
<1>1. ASSUME NEW p \in Names, ApplyLocal(p)
      PROVE  Sound'
  <2>1. UNCHANGED <<local, drive, feed, change, exec, marked, edits, overlaps, kept, faults>>
    BY <1>1 DEF ApplyLocal, world, ghosts
  <2>2. TablesSound' /\ ExecSound'
    BY <1>1, <2>1, ApplyLocalSound DEF ApplyLocal, Sound, Reconciled
  <2>3. events' \in [Names -> Event]
    BY <1>1, EventsSound DEF ApplyLocal, Sound, CountsSound
  <2> QED BY <2>1, <2>2, <2>3 DEF Sound, WorldSound, ChangeSound, CountsSound
<1>2. CASE ApplyRemote
  <2>1. /\ change # NoChange /\ change' = NoChange
        /\ UNCHANGED <<drive, feed, exec, marked, edits, overlaps, kept, faults>>
    BY <1>2 DEF ApplyRemote, ghosts
  <2>2. TablesSound' /\ ExecSound'
    BY <1>2, <2>1, LeftAlone, KnownSound, UnknownSound DEF ApplyRemote, Gate, Sound, Reconciled
  <2>3. local' \in [Names -> Contents] /\ events' \in [Names -> Event]
    <3>1. CASE UNCHANGED <<local, events>>
      BY <3>1 DEF Sound, WorldSound, CountsSound
    <3>2. ASSUME NEW r \in items, Conflict(r)
          PROVE  local' \in [Names -> Contents] /\ events' \in [Names -> Event]
      <4>1. PICK copy \in Copies : /\ local' = [local EXCEPT ![r.path] = 0, ![copy] = local[r.path]]
                                   /\ NotifyMove(r.path, copy)
        BY <3>2 DEF Conflict
      <4>2. r.path \in Names /\ copy \in Names
        BY Rows DEF Sound, TablesSound, RowsSound, Names
      <4> QED BY <4>1, <4>2, MovedOnDisk, EventsSound DEF Sound, CountsSound
    <3> QED BY <1>2, <3>1, <3>2 DEF ApplyRemote, Gate, Unknown, Known, Removed, Trashed, Restored, Moved,
                                    NothingToPull, Pulled, OnDisk, WithId
  <2>4. WorldSound'
    BY <2>1, <2>3, DiskSound DEF Sound
  <2> QED BY <2>1, <2>2, <2>3, <2>4 DEF Sound, CountsSound, ChangeSound
<1>3. CASE Mark
  <2>1. /\ exec # Idle /\ exec.pc = "mark" /\ exec' = [exec EXCEPT !.pc = "record"] /\ marked' = exec.row.rid
        /\ UNCHANGED <<world, tables, events, change, ghosts, faults>>
    BY <1>3 DEF Mark, ToRecord
  <2>2. exec.row.rid \in Ids \cup {0}
    BY <2>1, Rows DEF Sound, ExecSound
  <2> DEFINE e == [exec EXCEPT !.pc = "record"]
  <2>3. /\ e \in [pc : {"write", "mark", "record"}, op : Op, row : Row, md5 : Contents]
        /\ e.pc = "record" /\ e.op = exec.op /\ e.row = exec.row /\ exec' = e
    BY <2>1 DEF Sound, ExecSound
  <2> HIDE DEF e
  <2>4. ExecSound'
    BY <2>1, <2>3 DEF Sound, ExecSound, Belongs, OpSound, tables
  <2>5. TablesSound'
    BY <2>1, TablesAlone DEF Sound
  <2> QED BY <2>1, <2>2, <2>4, <2>5 DEF Sound, WorldSound, ChangeSound, CountsSound, world, ghosts
<1>4. CASE Fails \/ Breaks
  <2>1. exec # Idle /\ Retry /\ faults' \in 0..MaxTrouble
    BY <1>4, FileSyncAssumption DEF Fails, Breaks, MoreTrouble, Sound, CountsSound
  <2> QED BY <2>1, RetrySound
<1>5. CASE UNCHANGED vars
  <2>1. TablesSound' /\ ExecSound'
    BY <1>5, LeftAlone DEF vars, tables, Sound, Reconciled
  <2> QED BY <1>5, <2>1 DEF vars, world, ghosts, Sound, WorldSound, ChangeSound, CountsSound
<1> QED BY <1>1, <1>2, <1>3, <1>4, <1>5, BeginSound, ActSound, RecordSound, ComesDueSound, FetchSound,
           RedeliverSound, UserSound DEF Next, ExecStep, FaultStep

-----------------------------------------------------------------------------
\* The start: nothing, or one file in sync.
LEMMA SoundAtFirst == Init => Sound
<1> SUFFICES ASSUME Init PROVE Sound
  OBVIOUS
<1>1. /\ <<>> \in Seq(Op) /\ <<>> \in Seq(Ids) /\ ToSet(<<>>) = {}
      /\ 0 \in Contents /\ 0 \in 0..MaxUser /\ 0 \in 0..MaxTrouble
      /\ 1 \in Contents /\ 1 # 0 /\ 1 \in Ids /\ 1 \in Keys /\ Paths \subseteq Names /\ NoPath \notin Names
  <2>1. Cardinality(Names) \in Nat
    BY FileSyncAssumption, FS_Union, FS_CardinalityType DEF Names
  <2>2. MaxUser \in Nat /\ MaxIds \in Nat \ {0} /\ MaxTrouble \in Nat
    BY FileSyncAssumption
  <2>3. 1 \in Keys
    BY <2>1 DEF Keys
  <2>4. Paths \subseteq Names /\ NoPath \notin Names
    BY FileSyncAssumption DEF Names
  <2> QED BY <2>2, <2>3, <2>4 DEF ToSet, Contents, Ids
<1>2. Queued(<<>>, items)
  BY <1>1 DEF Queued
<1>3. NoEvent \in Event
  BY DEF NoEvent, Event
<1>4. RowsSound(items) /\ WorldSound /\ kept \subseteq Contents \ {0}
  <2>1. CASE /\ local = [p \in Names |-> 0] /\ drive = [i \in Ids |-> NoFile] /\ items = {} /\ kept = {}
    BY <1>1, <2>1, Files DEF Init, RowsSound, WorldSound, NoFile
  <2>2. ASSUME NEW p \in Paths, local = [q \in Names |-> IF q = p THEN 1 ELSE 0],
               drive = [i \in Ids |-> IF i = 1 THEN [path |-> p, md5 |-> 1, st |-> "live"] ELSE NoFile],
               items = {[key |-> 1, path |-> p, rid |-> 1, md5 |-> 1, trashed |-> FALSE]}, kept = {1}
        PROVE  RowsSound(items) /\ WorldSound /\ kept \subseteq Contents \ {0}
    <3> DEFINE f == [path |-> p, md5 |-> 1, st |-> "live"]
               r == [key |-> 1, path |-> p, rid |-> 1, md5 |-> 1, trashed |-> FALSE]
    <3>1. f \in File /\ f.path # NoPath /\ NoFile \in File /\ NoFile.st = "none"
      BY <1>1, Files DEF NoFile
    <3>2. r \in Row
      BY <1>1 DEF Row
    <3>3. items = {r} /\ drive = [i \in Ids |-> IF i = 1 THEN f ELSE NoFile]
      BY <2>2
    <3> HIDE DEF f, r
    <3>4. RowsSound(items)
      BY <3>2, <3>3 DEF RowsSound
    <3>5. WorldSound
      BY <1>1, <2>2, <3>1, <3>3 DEF Init, WorldSound
    <3> QED BY <1>1, <2>2, <3>4, <3>5
  <2> QED BY <2>1, <2>2 DEF Init
<1> QED BY <1>1, <1>2, <1>3, <1>4 DEF Init, Sound, TablesSound, ChangeSound, ExecSound, CountsSound

\* The invariant holds always.
LEMMA SoundAlways == Spec => []Sound
BY SoundAtFirst, SoundKept, PTL DEF Spec

(* The types; no two rows of one key or path, every operation has its row, *)
(* and no operation that goes to Drive by id is queued for a row without   *)
(* one (state/items.rs, state/ops.rs), whatever reconcilers, dispatcher    *)
(* and users do in between.                                                *)
THEOREM TypeCorrect == Spec => []TypeOK
<1>1. Sound => TypeOK
  <2> SUFFICES ASSUME Sound PROVE TypeOK
    OBVIOUS
  <2>1. \A o \in ToSet(ops) \cup ToSet(later) : \E r \in items :
           r.key = o.key /\ (o.kind \in {"DeleteRemote", "RenameRemote"} => r.rid # 0)
    BY DEF Sound, TablesSound, Queued, Belongs, ToDrive
  <2>2. change \in {NoChange} \cup [id : Ids, file : File]
    BY DEF Sound, ChangeSound
  <2>3. exec \in {Idle} \cup [pc : {"write", "mark", "record"}, op : Op, row : Row, md5 : Contents]
    BY DEF Sound, ExecSound
  <2> QED BY <2>1, <2>2, <2>3 DEF TypeOK, Sound, TablesSound, RowsSound, Queued, WorldSound, CountsSound
<1> QED BY <1>1, SoundAlways, PTL

-----------------------------------------------------------------------------
(* Edits that find the daemon at rest leave both sides in agreement when   *)
(* nothing fails.  The invariant (CalmSound) says what an edit leaves at   *)
(* each step of its way: a row, a file of Drive and one or two paths, with *)
(* what is still to come for them (an event, an operation, a change), and  *)
(* everything else in sync.                                                *)

Calm == overlaps + faults = 0

-----------------------------------------------------------------------------
\* The rows, without those of the keys K, are in sync; so are the paths and the files of
\* Drive, without P and I, and none of those belongs to another row.
Settled(r) ==
    /\ r.rid # 0
    /\ IF r.trashed THEN /\ drive[r.rid].st = "trashed" /\ drive[r.rid].path = r.path
                         /\ local[r.path] = 0
                    ELSE InSync(r)

Rest(K, P, I) ==
    /\ \A r \in items : r.key \notin K => Settled(r) /\ r.path \notin P /\ r.rid \notin I
    /\ \A p \in Names \ P : local[p] # 0 => \E r \in AtPath(p) : r.key \notin K
    /\ \A i \in Ids \ I : Live(i) => \E r \in WithId(i) : r.key \notin K
    /\ \A r, s \in items : r.rid = s.rid /\ r.rid # 0 => r = s

InRest == Rest({}, {}, {})

\* The rest is in sync; the row, some paths and a file of Drive may not be.
RestBut(r, P, i) == r \in items /\ Rest({r.key}, {r.path} \cup P, {i})

-----------------------------------------------------------------------------
\* What is still to come: an event, a change, an operation.
Silent == events = [q \in Names |-> NoEvent]
Telling(p, kind, from) ==
    events = [q \in Names |-> IF q = p THEN [kind |-> kind, from |-> from] ELSE NoEvent]

NoEcho  == feed = <<>> /\ change = NoChange
Echo(i) ==
    \/ feed = <<>> /\ change \in {NoChange, [id |-> i, file |-> drive[i]]}
    \/ feed = <<i>> /\ change = NoChange

Idling == ops = <<>> /\ exec = Idle
Due(o) == ops = <<o>> /\ exec = Idle /\ Silent /\ NoEcho
Doing(pc, o, r, c) == exec = [pc |-> pc, op |-> o, row |-> r, md5 |-> c]
Begun(o, r, c, i) == Doing("write", o, r, c) /\ marked = i /\ ops = <<>> /\ Silent /\ NoEcho
Told(p, kind, from) == Telling(p, kind, from) /\ Idling /\ NoEcho

\* A write on disk has told of itself, or the operation that came of it is queued.
Heard(p, kind, from, o) ==
    (ops = <<>> /\ Telling(p, kind, from)) \/ (ops = <<o>> /\ Silent)

-----------------------------------------------------------------------------
\* A row and its file, the operation that is to follow, and what it leaves.

Tracked(r) ==
    /\ ~r.trashed /\ r.rid # 0 /\ Live(r.rid)
    /\ drive[r.rid].path = r.path /\ drive[r.rid].md5 = r.md5
Linked(r) == (~r.trashed /\ r.rid = 0 /\ r.md5 = 0) \/ Tracked(r)

Uploads(r) == local[r.path] # 0 /\ Linked(r) /\ RestBut(r, {}, r.rid)
Uploaded(r, i) ==
    /\ \/ Doing("mark", Upload(r), [r EXCEPT !.rid = i], local[r.path]) /\ marked = 0 /\ r.rid = 0
       \/ Doing("record", Upload(r), [r EXCEPT !.rid = i], local[r.path]) /\ marked = i /\ r.rid \in {0, i}
    /\ drive[i] = [path |-> r.path, md5 |-> local[r.path], st |-> "live"] /\ local[r.path] # 0
    /\ Echo(i) /\ ops = <<>> /\ Silent /\ ~r.trashed /\ RestBut(r, {}, i)

Trashes(r) == r.rid # 0 /\ Exists(r.rid) /\ local[r.path] = 0 /\ RestBut(r, {}, r.rid)
InTrash(r) ==
    /\ Doing("record", DeleteRemote(r), r, 0) /\ marked = r.rid
    /\ ~Live(r.rid) /\ Trashes(r)
    /\ Echo(r.rid) /\ ops = <<>> /\ Silent

Moves(r, q) ==
    /\ ~r.trashed /\ r.rid # 0 /\ Live(r.rid) /\ local[q] = r.md5 /\ drive[r.rid].md5 = r.md5
    /\ r.path # q => local[r.path] = 0
    /\ RestBut(r, {q}, r.rid)
MovedThere(r, q) ==
    /\ Doing("record", RenameRemote(r, q), r, 0) /\ marked = r.rid
    /\ drive[r.rid].path = q /\ Moves(r, q)
    /\ Echo(r.rid) /\ ops = <<>> /\ Silent

Gets(r) ==
    /\ ~r.trashed /\ r.rid # 0 /\ Live(r.rid) /\ drive[r.rid].path = r.path
    /\ RestBut(r, {}, r.rid)
Got(r) ==
    /\ Doing("record", Download(r, r.rid, r.path), r, 0)
    /\ local[r.path] = drive[r.rid].md5 /\ Gets(r)
    /\ Heard(r.path, "changed", NoPath, Upload(r)) /\ NoEcho

Unlinks(r, keep) ==
    /\ r.rid # 0 /\ drive[r.rid].st = (IF keep THEN "trashed" ELSE "gone")
    /\ drive[r.rid].path = r.path
    /\ RestBut(r, {}, r.rid)
Unlinked(r, keep) ==
    /\ Doing("record", DeleteLocal(r, keep), r, 0)
    /\ local[r.path] = 0 /\ Unlinks(r, keep)
    /\ Heard(r.path, "deleted", NoPath, DeleteRemote(r)) \/ (ops = <<>> /\ Silent)
    /\ NoEcho

\* The file is at one of the two paths, Drive has it at q.
Shifts(r, q, at) ==
    /\ ~r.trashed /\ r.rid # 0 /\ Live(r.rid) /\ drive[r.rid].path = q /\ r.path # q
    /\ drive[r.rid].md5 = r.md5
    /\ at \in {r.path, q} /\ \A p \in {r.path, q} : local[p] = IF p = at THEN r.md5 ELSE 0
    /\ RestBut(r, {q}, r.rid)
ShiftedThere(r, q) ==
    /\ Doing("record", RenameLocal(r, q), r, 0)
    /\ Shifts(r, q, q)
    /\ Heard(q, "renamed", r.path, RenameRemote(r, q)) /\ NoEcho

-----------------------------------------------------------------------------
\* Where an edit can be on its way.

AtEase == InRest /\ Silent /\ Idling /\ NoEcho

\* Its event waits for the reconciler.
Written(p)    == Rest({}, {p}, {}) \/ \E r \in AtPath(p) : Tracked(r) /\ RestBut(r, {}, r.rid)
Speaking ==
    \/ \E p \in Names : Told(p, "changed", NoPath) /\ local[p] # 0 /\ Written(p)
    \/ \E r \in items : /\ Told(r.path, "deleted", NoPath) /\ local[r.path] = 0
                        /\ Tracked(r) /\ RestBut(r, {}, r.rid)
    \/ \E r \in items, q \in Names : Told(q, "renamed", r.path) /\ r.path # q /\ Moves(r, q)
    \* The event of the daemon's own write, which has been recorded.
    \/ \E p \in Names : /\ Told(p, "deleted", NoPath) /\ InRest
                        /\ \A r \in AtPath(p) : r.trashed
    \/ \E p, q \in Names : Told(q, "renamed", p) /\ AtPath(p) = {} /\ local[q] # 0 /\ InRest

\* Its change waits for the poller or the reconciler: of a file with a row, or without.
Changed(r) ==
    /\ r.rid # 0 /\ drive[r.rid].st # "none"
    /\ local[r.path] = IF r.trashed THEN 0 ELSE r.md5
    /\ drive[r.rid].path # r.path =>
          ~r.trashed /\ Live(r.rid) /\ local[drive[r.rid].path] = 0 /\ drive[r.rid].md5 = r.md5
    /\ RestBut(r, {drive[r.rid].path}, r.rid)
New(i) ==
    /\ drive[i].st # "none" /\ WithId(i) = {}
    /\ IF Live(i) THEN Rest({}, {drive[i].path}, {i}) /\ local[drive[i].path] = 0 ELSE InRest
Changing ==
    /\ Silent /\ Idling /\ ~NoEcho
    /\ \E i \in Ids : Echo(i) /\ (New(i) \/ \E r \in items : r.rid = i /\ Changed(r))

\* Its operation waits for the dispatcher.
Waiting ==
    \E r \in items :
        \/ Due(Upload(r)) /\ Uploads(r)
        \/ Due(DeleteRemote(r)) /\ Trashes(r)
        \/ \E q \in Names : Due(RenameRemote(r, q)) /\ Moves(r, q)
        \/ Due(Download(r, r.rid, r.path)) /\ Gets(r)
        \/ \E keep \in BOOLEAN : Due(DeleteLocal(r, keep)) /\ Unlinks(r, keep)
        \/ \E q \in Names : Due(RenameLocal(r, q)) /\ Shifts(r, q, r.path)

\* Its operation has begun,
Writing ==
    \E r \in items :
        \/ Begun(Upload(r), r, local[r.path], r.rid) /\ Uploads(r)
        \/ Begun(DeleteRemote(r), r, 0, r.rid) /\ Trashes(r)
        \/ \E q \in Names : Begun(RenameRemote(r, q), r, 0, r.rid) /\ Moves(r, q)
        \/ Begun(Download(r, r.rid, r.path), r, 0, 0) /\ Gets(r)
        \/ \E keep \in BOOLEAN : Begun(DeleteLocal(r, keep), r, 0, 0) /\ Unlinks(r, keep)
        \/ \E q \in Names : Begun(RenameLocal(r, q), r, 0, 0) /\ Shifts(r, q, r.path)

\* or is done on Drive, and the echo can come at any time,
Echoing ==
    \E r \in items : \/ \E i \in Ids : Uploaded(r, i)
                     \/ InTrash(r)
                     \/ \E q \in Names : MovedThere(r, q)

\* or is done on disk, and its event can be applied at any time.
Landed ==
    \E r \in items : \/ Got(r)
                     \/ \E keep \in BOOLEAN : Unlinked(r, keep)
                     \/ \E q \in Names : ShiftedThere(r, q)

OnItsWay == AtEase \/ Speaking \/ Changing \/ Waiting \/ Writing \/ Echoing \/ Landed

CalmSound ==
    /\ \A i \in Ids : drive[i].st # "none" => drive[i].md5 # 0
    /\ exec = Idle => marked = 0
    /\ Calm => later = <<>> /\ OnItsWay

-----------------------------------------------------------------------------
\* What is in sync, after steps that leave it alone.

\* The paths and the file of an edit change, its row does not.
LEMMA RestFrame ==
    ASSUME RowsSound(items), NEW r \in items, NEW P, NEW i \in Ids \cup {0}, RestBut(r, P, i), items' = items,
           \A p \in Names \ ({r.path} \cup P) : local'[p] = local[p],
           \A j \in Ids \ {i} : drive'[j] = drive[j]
    PROVE  RestBut(r, P, i)'
<1>1. \A s \in items : s.key # r.key => Settled(s)'
  BY DEF RestBut, Rest, Settled, InSync, Live, RowsSound, Row
<1>2. \A p \in Names \ ({r.path} \cup P) : AtPath(p)' = AtPath(p)
  BY DEF AtPath
<1>3. \A j \in Ids \ {i} : WithId(j)' = WithId(j) /\ Live(j)' = Live(j)
  BY DEF WithId, Live
<1> QED BY <1>1, <1>2, <1>3 DEF RestBut, Rest

\* The row goes, or comes to agree with its file and its path.
LEMMA RestClosed ==
    ASSUME RowsSound(items), NEW r \in items, NEW P, NEW i \in Ids \cup {0}, RestBut(r, P, i), r.rid \in {0, i},
           NEW S, items' = (items \ {r}) \cup S,
           \A s \in S : s.path \in {r.path} \cup P /\ s.rid = i /\ Settled(s)',
           \A s, t \in S : s = t,
           \A p \in Names \ ({r.path} \cup P) : local'[p] = local[p],
           \A j \in Ids \ {i} : drive'[j] = drive[j],
           \A p \in {r.path} \cup P : local'[p] # 0 => \E s \in S : s.path = p,
           i # 0 /\ Live(i)' => S # {}
    PROVE  InRest'
<1>1. \A s \in items \ {r} : s.key # r.key /\ Settled(s)'
  BY DEF RestBut, Rest, Settled, InSync, Live, RowsSound, Row
<1>2. \A s \in items' : Settled(s)'
  BY <1>1
<1>3. \A p \in Names : local'[p] # 0 => \E s \in items' : s.path = p
  <2> SUFFICES ASSUME NEW p \in Names \ ({r.path} \cup P), local'[p] # 0 PROVE \E s \in items' : s.path = p
    OBVIOUS
  <2> QED BY <1>1 DEF RestBut, Rest, AtPath
<1>4. \A j \in Ids : Live(j)' => \E s \in items' : s.rid = j
  <2> SUFFICES ASSUME NEW j \in Ids \ {i}, Live(j)' PROVE \E s \in items' : s.rid = j
    BY DEF Ids
  <2> QED BY <1>1 DEF RestBut, Rest, WithId, Live
<1>5. \A s, t \in items' : s.rid = t.rid /\ s.rid # 0 => s = t
  BY <1>1 DEF RestBut, Rest
<1> QED BY <1>2, <1>3, <1>4, <1>5 DEF InRest, Rest, AtPath, WithId

\* The row changes, and keeps its place.
LEMMA RestRow ==
    ASSUME RowsSound(items), NEW r \in items, NEW i \in Ids \cup {0}, RestBut(r, {}, i), r.rid \in {0, i},
           NEW s, items' = (items \ {r}) \cup {s}, s.path = r.path, s.key = r.key, s.rid = i,
           \A p \in Names \ {r.path} : local'[p] = local[p],
           \A j \in Ids \ {i} : drive'[j] = drive[j]
    PROVE  RestBut(s, {}, i)'
<1>1. \A t \in items \ {r} : t.key # r.key /\ Settled(t)'
  BY DEF RestBut, Rest, Settled, InSync, Live, RowsSound, Row
<1>2. \A p \in Names \ {r.path} : AtPath(p)' = AtPath(p)
  BY DEF AtPath
<1>3. \A j \in Ids \ {i} : /\ Live(j)' = Live(j)
                           /\ \A t : 0 # j /\ t \in WithId(j) /\ t.key # r.key => t \in WithId(j)'
  BY DEF WithId, Live
<1>4. \A j \in Ids \ {i} : Live(j)' => \E t \in WithId(j)' : t.key # s.key
  BY <1>3 DEF RestBut, Rest, Ids
<1>5. \A t, u \in items' : t.rid = u.rid /\ t.rid # 0 => t = u
  BY <1>1 DEF RestBut, Rest
<1> QED BY <1>1, <1>2, <1>4, <1>5 DEF RestBut, Rest

\* A row is added where there was none.
LEMMA RestAdded ==
    ASSUME RowsSound(items), NEW p \in Names, NEW i \in Ids \cup {0}, NEW I \in SUBSET {i}, Rest({}, {p}, I),
           0 # i => WithId(i) = {},
           NEW s, s \notin items, \A r \in items : r.key # s.key, items' = items \cup {s},
           s.path = p, s.rid = i,
           UNCHANGED <<local, drive>>
    PROVE  RestBut(s, {}, i)'
<1>1. \A t \in items : t.key # s.key /\ Settled(t)' /\ t.path # p /\ t.rid # i
  BY DEF Rest, Settled, InSync, Live, RowsSound, Row, WithId
<1>2. \A q \in Names \ {p} : AtPath(q)' = AtPath(q)
  BY DEF AtPath
<1>3. \A q \in Names \ {p} : local'[q] # 0 => \E t \in AtPath(q)' : t.key # s.key
  BY <1>1, <1>2 DEF Rest, AtPath
<1>4. \A j \in Ids \ {i} : Live(j)' => \E t \in WithId(j)' : t.key # s.key
  BY <1>1 DEF Rest, WithId, Live
<1>5. \A t, u \in items' : t.rid = u.rid /\ t.rid # 0 => t = u
  BY <1>1 DEF Rest
<1> QED BY <1>1, <1>3, <1>4, <1>5 DEF RestBut, Rest

\* When everything is in sync, any row can be looked at on its own, with paths without one.
OneByOne ==
    RowsSound(items) /\ InRest =>
        \A r \in items : \A P \in SUBSET Names :
            (\A s \in items : s.path \in P => s = r) => RestBut(r, P, r.rid)

LEMMA RestFocus == OneByOne
<1> SUFFICES ASSUME RowsSound(items), InRest, NEW r \in items, NEW P \in SUBSET Names,
                    \A s \in items : s.path \in P => s = r
             PROVE  RestBut(r, P, r.rid)
  BY DEF OneByOne
<1>1. \A s \in items : s.key # r.key => Settled(s) /\ s.path \notin {r.path} \cup P /\ s.rid \notin {r.rid}
  BY DEF InRest, Rest, RowsSound, Settled
<1>2. \A p \in Names \ ({r.path} \cup P) : local[p] # 0 => \E s \in AtPath(p) : s.key # r.key
  BY DEF InRest, Rest, RowsSound, AtPath
<1>3. \A j \in Ids \ {r.rid} : Live(j) => \E s \in WithId(j) : s.key # r.key
  BY DEF InRest, Rest, RowsSound, WithId
<1> QED BY <1>1, <1>2, <1>3 DEF RestBut, Rest, InRest

-----------------------------------------------------------------------------
\* Queues of at most one element.

\* Nothing was queued.
LEMMA StoreFirst ==
    ASSUME ops = <<>>, later = <<>>, NEW R, NEW jobs \in Seq(Op), Store(R, jobs)
    PROVE  items' = R /\ ops' = jobs /\ later' = <<>>
<1>1. \A K : Without(<<>>, K) = <<>>
  BY OnlyShort DEF Without
<1>2. <<>> \o jobs = jobs
  OBVIOUS
<1> QED BY <1>1, <1>2 DEF Store

\* One operation was queued, and its row may go.
LEMMA StoreNext ==
    ASSUME NEW o, ops = <<o>>, later = <<>>, NEW R, Store(R, <<>>)
    PROVE  /\ items' = R /\ later' = <<>>
           /\ ops' = IF o.key \in KeysOf(items) \ KeysOf(R) THEN <<>> ELSE <<o>>
<1> DEFINE K == KeysOf(items) \ KeysOf(R)
<1>1. Without(<<>>, K) = <<>>
  BY OnlyShort DEF Without
<1>2. ToSet(<<o>>) = {o}
  BY DEF ToSet
<1>3. Without(<<o>>, K) = IF o.key \in K THEN <<>> ELSE <<o>>
  BY <1>2, OnlyShort DEF Without
<1>4. <<>> \o <<>> = <<>> /\ <<o>> \o <<>> = <<o>>
  OBVIOUS
<1> QED BY <1>1, <1>3, <1>4 DEF Store

\* A file of Drive changes: its echo is all that is in the feed.
LEMMA SetDriveFirst ==
    ASSUME WorldSound, NoEcho, NEW i \in Ids, NEW f, SetDrive(i, f), change' = change
    PROVE  Echo(i)' /\ ~NoEcho' /\ drive'[i] = f /\ \A j \in Ids \ {i} : drive'[j] = drive[j]
<1>1. Append(<<>>, i) = <<i>> /\ <<i>> # <<>>
  OBVIOUS
<1>2. feed' = <<i>>
  BY <1>1, OnlyShort DEF SetDrive, NoEcho
<1>3. drive'[i] = f /\ \A j \in Ids \ {i} : drive'[j] = drive[j]
  BY DEF SetDrive, WorldSound
<1> QED BY <1>1, <1>2, <1>3 DEF Echo, NoEcho

-----------------------------------------------------------------------------
\* Once everything is in sync, what is left is an echo at most.
ComesToEase ==
    Sound /\ InRest /\ Silent /\ Idling =>
        \A i \in Ids : Echo(i) /\ drive[i].st # "none" => AtEase \/ Changing

LEMMA Rested == ComesToEase
<1> SUFFICES ASSUME Sound, InRest, Silent, Idling, NEW i \in Ids, Echo(i), drive[i].st # "none", ~NoEcho
             PROVE  Changing
  BY DEF ComesToEase, AtEase
<1>1. CASE WithId(i) = {}
  <2>1. ~Live(i)
    BY <1>1 DEF InRest, Rest
  <2> QED BY <1>1, <2>1 DEF Changing, New
<1>2. ASSUME NEW r \in WithId(i)
      PROVE  Changing
  <2>1. r \in items /\ r.rid = i /\ i # 0 /\ r.path \in Names
    BY Rows DEF WithId, Sound, TablesSound, RowsSound, Ids
  <2>2. Settled(r)
    BY <2>1 DEF InRest, Rest
  <2>3. \A s \in items : s.path \in {r.path} => s = r
    BY <2>1 DEF Sound, TablesSound, RowsSound
  <2>4. drive[i].path = r.path /\ local[r.path] = IF r.trashed THEN 0 ELSE r.md5
    BY <2>1, <2>2 DEF Settled, InSync
  <2>5. RestBut(r, {drive[r.rid].path}, r.rid)
    BY <2>1, <2>3, <2>4, RestFocus DEF OneByOne, Sound, TablesSound
  <2> QED BY <2>1, <2>4, <2>5 DEF Changing, Changed
<1> QED BY <1>1, <1>2

\* The same, after a step.
LEMMA RestedThen ==
    ASSUME Sound', InRest', Silent', Idling', NEW i \in Ids, Echo(i)', (drive[i].st # "none")'
    PROVE  AtEase' \/ Changing'
<1>1. ComesToEase'
  BY Rested, PTL
<1> QED BY <1>1 DEF ComesToEase

\* Any row can be looked at on its own, after a step.
LEMMA FocusThen ==
    ASSUME Sound', InRest', NEW r \in items', NEW P \in SUBSET Names, \A s \in items' : s.path \in P => s = r
    PROVE  RestBut(r, P, r.rid)'
<1>1. OneByOne'
  BY RestFocus, PTL
<1> QED BY <1>1 DEF OneByOne, Sound, TablesSound

-----------------------------------------------------------------------------
\* What tells the places of an edit apart.
LEMMA Phases ==
    ASSUME Sound
    PROVE  /\ AtEase => Silent /\ ops = <<>> /\ exec = Idle /\ NoEcho
           /\ Speaking => ~Silent /\ ops = <<>> /\ exec = Idle /\ NoEcho
           /\ Changing => Silent /\ ops = <<>> /\ exec = Idle /\ ~NoEcho
           /\ Waiting => Silent /\ ops # <<>> /\ exec = Idle /\ NoEcho
           /\ Writing => Silent /\ ops = <<>> /\ exec # Idle /\ exec.pc = "write" /\ NoEcho
           /\ Echoing => Silent /\ ops = <<>> /\ exec # Idle /\ exec.pc \in {"mark", "record"}
           /\ Landed => exec # Idle /\ exec.pc = "record" /\ NoEcho
<1>1. \A pc, o, r, c : Doing(pc, o, r, c) => exec.pc = pc
  BY DEF Doing
<1>2. \A kind, from : \A p \in Names : Telling(p, kind, from) /\ kind # "none" => ~Silent
  <2> SUFFICES ASSUME NEW p \in Names, NEW kind, NEW from, Telling(p, kind, from), Silent
               PROVE  kind = "none"
    OBVIOUS
  <2>1. events[p] = [kind |-> kind, from |-> from]
    BY DEF Telling
  <2>2. events[p] = NoEvent
    BY DEF Silent
  <2>3. events[p].kind = kind /\ events[p].kind = "none"
    BY <2>1, <2>2 DEF NoEvent
  <2> QED BY <2>3
<1>3. Idle.pc = "idle"
  BY DEF Idle
<1>4. \A o : <<o>> # <<>>
  OBVIOUS
<1>5. Speaking => ~Silent /\ Idling /\ NoEcho
  <2>1. \A r \in items : r.path \in Names
    BY Rows DEF Sound, TablesSound, RowsSound
  <2> QED BY <1>2, <2>1 DEF Speaking, Told
<1>6. Waiting => Silent /\ ops # <<>> /\ exec = Idle /\ NoEcho
  BY <1>4 DEF Waiting, Due
<1>7. Writing => Silent /\ ops = <<>> /\ exec.pc = "write" /\ NoEcho
  BY <1>1 DEF Writing, Begun
<1>8. Echoing => Silent /\ ops = <<>> /\ exec.pc \in {"mark", "record"}
  <2>1. \A r, i : Uploaded(r, i) => Silent /\ ops = <<>> /\ exec.pc \in {"mark", "record"}
    BY <1>1 DEF Uploaded
  <2>2. \A r, q : InTrash(r) \/ MovedThere(r, q) => Silent /\ ops = <<>> /\ exec.pc \in {"mark", "record"}
    BY <1>1 DEF InTrash, MovedThere
  <2> QED BY <2>1, <2>2 DEF Echoing
<1>9. Landed => exec.pc = "record" /\ NoEcho
  BY <1>1 DEF Landed, Got, Unlinked, ShiftedThere
<1> QED BY <1>3, <1>5, <1>6, <1>7, <1>8, <1>9 DEF AtEase, Changing, Idling

\* Rows, files and paths stay: so does what is said of them.
LEMMA Unmoved ==
    ASSUME UNCHANGED <<items, local, drive>>
    PROVE  /\ InRest' = InRest
           /\ \A r, P, i : RestBut(r, P, i)' = RestBut(r, P, i)
           /\ \A p : Written(p)' = Written(p)
           /\ \A r : Uploads(r)' = Uploads(r) /\ Trashes(r)' = Trashes(r) /\ Gets(r)' = Gets(r)
           /\ \A r, q : Moves(r, q)' = Moves(r, q)
           /\ \A r, keep : Unlinks(r, keep)' = Unlinks(r, keep)
           /\ \A r, q, at : Shifts(r, q, at)' = Shifts(r, q, at)
<1>1. \A r : Settled(r)' = Settled(r) /\ Tracked(r)' = Tracked(r) /\ Linked(r)' = Linked(r)
  BY DEF Settled, InSync, Tracked, Linked, Live
<1>2. \A i : Live(i)' = Live(i) /\ Exists(i)' = Exists(i) /\ WithId(i)' = WithId(i) /\ AtPath(i)' = AtPath(i)
  BY DEF Live, Exists, WithId, AtPath
<1>3. \A K, P, I : Rest(K, P, I)' = Rest(K, P, I)
  BY <1>1, <1>2 DEF Rest
<1>4. \A r, P, i : RestBut(r, P, i)' = RestBut(r, P, i)
  BY <1>3 DEF RestBut
<1> QED BY <1>1, <1>2, <1>3, <1>4 DEF InRest, Written, Uploads, Trashes, Gets, Moves, Unlinks, Shifts

\* An operation begins.
LEMMA BeginWay ==
    ASSUME Sound, OnItsWay, Begin
    PROVE  AtEase' \/ Writing'
<1>0. /\ Waiting
      /\ UNCHANGED <<local, drive, items, feed, change, events>>
  BY Phases DEF OnItsWay, Begin, BeginUpload, BeginRemote, BeginLocal, Enter, Drop, world
<1>1. Silent' /\ NoEcho'
  BY <1>0, Phases DEF Silent, NoEcho
<1>2. \A o : ops = <<o>> => Head(ops) = o /\ Tail(ops) = <<>>
  OBVIOUS
<1>3. PICK r \in items :
        \/ Due(Upload(r)) /\ Uploads(r)
        \/ Due(DeleteRemote(r)) /\ Trashes(r)
        \/ \E q \in Names : Due(RenameRemote(r, q)) /\ Moves(r, q)
        \/ Due(Download(r, r.rid, r.path)) /\ Gets(r)
        \/ \E keep \in BOOLEAN : Due(DeleteLocal(r, keep)) /\ Unlinks(r, keep)
        \/ \E q \in Names : Due(RenameLocal(r, q)) /\ Shifts(r, q, r.path)
  BY <1>0 DEF Waiting
<1>4. \A s \in items : s.key = r.key => s = r
  BY DEF Sound, TablesSound, RowsSound
<1>5. ASSUME NEW o, ops = <<o>>, o.key = r.key
      PROVE  /\ ops' = <<>> 
             /\ BeginUpload(o, r) \/ BeginRemote(o, r) \/ BeginLocal(o, r)
  BY <1>2, <1>4, <1>5 DEF Begin, WithKey
<1>6. CASE Due(Upload(r)) /\ Uploads(r)
  <2>1. Upload(r).kind = "Upload" /\ Upload(r).key = r.key
    BY DEF Upload, Job
  <2>2. BeginUpload(Upload(r), r) /\ ops' = <<>>
    BY <1>5, <1>6, <2>1 DEF Due, BeginRemote, BeginLocal
  <2>3. CASE Enter(Upload(r), r, local[r.path], r.rid)
    <3>1. Begun(Upload(r), r, local[r.path], r.rid)' /\ Uploads(r)'
      BY <1>0, <1>1, <1>6, <2>2, <2>3, Unmoved DEF Begun, Doing, Enter
    <3> QED BY <1>0, <3>1 DEF Writing
  <2>4. CASE Drop /\ local[r.path] \in {0, r.md5}
    <3>1. local[r.path] # 0 /\ local[r.path] = r.md5 /\ Tracked(r) /\ RestBut(r, {}, r.rid)
      BY <1>6, <2>4 DEF Uploads, Linked
    <3>2. Settled(r) /\ r.rid \in Ids \cup {0}
      BY <3>1, Rows DEF Settled, Tracked, InSync, Sound, TablesSound, RowsSound
    <3>3. Settled(r)' /\ items' = (items \ {r}) \cup {r}
      BY <1>0, <3>2 DEF Settled, InSync, Live
    <3>4. InRest'
      <4> DEFINE S == {r}
      <4>1. /\ \A s \in S : s.path \in {r.path} \cup {} /\ s.rid = r.rid /\ Settled(s)'
            /\ \A s, t \in S : s = t
            /\ items' = (items \ {r}) \cup S
            /\ \A p \in {r.path} \cup {} : local'[p] # 0 => \E s \in S : s.path = p
            /\ S # {}
        BY <3>3
      <4> HIDE DEF S
      <4> QED BY <1>0, <3>1, <3>2, <4>1, RestClosed DEF Sound, TablesSound
    <3>5. AtEase'
      BY <1>1, <1>6, <2>2, <2>4, <3>4 DEF AtEase, Idling, Drop, Due
    <3> QED BY <3>5
  <2> QED BY <2>2, <2>3, <2>4 DEF BeginUpload
<1>7. CASE Due(DeleteRemote(r)) /\ Trashes(r)
  <2>1. DeleteRemote(r).kind = "DeleteRemote" /\ DeleteRemote(r).key = r.key
    BY DEF DeleteRemote, Job
  <2>2. Begun(DeleteRemote(r), r, 0, r.rid)' /\ Trashes(r)'
    BY <1>0, <1>1, <1>5, <1>7, <2>1, Unmoved
       DEF Due, Begun, Doing, Enter, BeginUpload, BeginRemote, BeginLocal
  <2> QED BY <1>0, <2>2 DEF Writing
<1>8. ASSUME NEW q \in Names, Due(RenameRemote(r, q)), Moves(r, q)
      PROVE  Writing'
  <2>1. RenameRemote(r, q).kind = "RenameRemote" /\ RenameRemote(r, q).key = r.key
    BY DEF RenameRemote, Job
  <2>2. Begun(RenameRemote(r, q), r, 0, r.rid)' /\ Moves(r, q)'
    BY <1>0, <1>1, <1>5, <1>8, <2>1, Unmoved
       DEF Due, Begun, Doing, Enter, BeginUpload, BeginRemote, BeginLocal
  <2> QED BY <1>0, <2>2 DEF Writing
<1>9. CASE Due(Download(r, r.rid, r.path)) /\ Gets(r)
  <2> DEFINE o == Download(r, r.rid, r.path)
  <2>1. o.kind = "Download" /\ o.key = r.key
    BY DEF Download, Job
  <2>2. Begun(o, r, 0, 0)' /\ Gets(r)'
    BY <1>0, <1>1, <1>5, <1>9, <2>1, Unmoved
       DEF Due, Begun, Doing, Enter, BeginUpload, BeginRemote, BeginLocal
  <2> QED BY <1>0, <2>2 DEF Writing
<1>10. ASSUME NEW keep \in BOOLEAN, Due(DeleteLocal(r, keep)), Unlinks(r, keep)
       PROVE  Writing'
  <2>1. DeleteLocal(r, keep).kind = "DeleteLocal" /\ DeleteLocal(r, keep).key = r.key
    BY DEF DeleteLocal, Job
  <2>2. Begun(DeleteLocal(r, keep), r, 0, 0)' /\ Unlinks(r, keep)'
    BY <1>0, <1>1, <1>5, <1>10, <2>1, Unmoved
       DEF Due, Begun, Doing, Enter, BeginUpload, BeginRemote, BeginLocal
  <2> QED BY <1>0, <2>2 DEF Writing
<1>11. ASSUME NEW q \in Names, Due(RenameLocal(r, q)), Shifts(r, q, r.path)
       PROVE  Writing'
  <2>1. RenameLocal(r, q).kind = "RenameLocal" /\ RenameLocal(r, q).key = r.key
    BY DEF RenameLocal, Job
  <2>2. Begun(RenameLocal(r, q), r, 0, 0)' /\ Shifts(r, q, r.path)'
    BY <1>0, <1>1, <1>5, <1>11, <2>1, Unmoved
       DEF Due, Begun, Doing, Enter, BeginUpload, BeginRemote, BeginLocal
  <2> QED BY <1>0, <2>2 DEF Writing
<1> QED BY <1>3, <1>6, <1>7, <1>8, <1>9, <1>10, <1>11

-----------------------------------------------------------------------------
\* A write on disk tells of itself, and is heard.
LEMMA Tells ==
    ASSUME NEW p \in Names
    PROVE  /\ \A kind : Silent /\ Notify(p, kind) => Telling(p, kind, NoPath)'
           /\ \A q : Silent /\ NotifyMove(q, p) => Telling(p, "renamed", q)'
           /\ \A kind, from : Telling(p, kind, from) /\ events' = [events EXCEPT ![p] = NoEvent] => Silent'
           /\ \A kind, from : Telling(p, kind, from) =>
                 /\ events[p].kind = kind /\ events[p].from = from
                 /\ \A q \in Names \ {p} : events[q].kind = "none"
           /\ Silent => events[p].kind = "none"
BY DEF Silent, Telling, Notify, NotifyMove, NoEvent

\* A new file takes the place of none.
LEMMA RestNew ==
    ASSUME NEW r, RestBut(r, {}, 0), NEW i \in Ids, IsNew(i)
    PROVE  RestBut(r, {}, i)
<1>1. \A s \in items : s.key # r.key => s.rid # i
  BY DEF RestBut, Rest, Settled, InSync, Live, IsNew
<1>2. 0 \notin Ids
  BY DEF Ids
<1> QED BY <1>1, <1>2 DEF RestBut, Rest

\* The engine's upload.
LEMMA ActUpload ==
    ASSUME Sound, Act, NEW r \in items, Begun(Upload(r), r, local[r.path], r.rid), Uploads(r)
    PROVE  Echoing'
<1>1. /\ exec.pc = "write" /\ exec.op = Upload(r) /\ exec.op.kind = "Upload" /\ exec.row = r
      /\ exec = [pc |-> "write", op |-> Upload(r), row |-> r, md5 |-> local[r.path]]
  BY DEF Begun, Doing, Upload, Job
<1>2. /\ RowsSound(items) /\ r \in Row /\ r.path \in Names /\ r.rid \in Ids \cup {0}
      /\ 0 \notin Ids
  BY Rows DEF Sound, TablesSound, RowsSound, Ids
<1>3. /\ UNCHANGED <<items, ops, change, marked, local, events>>
      /\ Update \/ \E i \in Ids : Create(i)
  BY <1>1 DEF Act, Update, Create, Get, Trash, Unlink, MoveRemote, MoveLocal, At, OnDisk, tables
<1>4. Silent' /\ ops' = <<>> /\ NoEcho /\ WorldSound
  BY <1>3 DEF Begun, Silent, Sound
<1>5. CASE Update
  <2> DEFINE i == r.rid
             f == [drive[i] EXCEPT !.md5 = local[r.path]]
  <2>1. i \in Ids /\ SetDrive(i, f) /\ exec' = [exec EXCEPT !.pc = "record"]
    BY <1>1, <1>2, <1>5 DEF Update, ToRecord
  <2>2. f = [path |-> r.path, md5 |-> local[r.path], st |-> "live"]
    <3>1. drive[i] \in File /\ drive[i].path = r.path /\ drive[i].st = "live"
      BY <1>2, <2>1 DEF Uploads, Linked, Tracked, Live, WorldSound, Sound
    <3> QED BY <3>1 DEF File
  <2> HIDE DEF f
  <2>3. Echo(i)' /\ drive'[i] = f /\ \A j \in Ids \ {i} : drive'[j] = drive[j]
    BY <1>3, <1>4, <2>1, SetDriveFirst
  <2>4. RestBut(r, {}, i)'
    BY <1>2, <1>3, <2>1, <2>3, RestFrame DEF Uploads
  <2>5. r = [r EXCEPT !.rid = i]
    BY <1>2 DEF Row
  <2>6. Doing("record", Upload(r), [r EXCEPT !.rid = i], local[r.path])' /\ marked' = i
    BY <1>1, <1>3, <2>1, <2>5 DEF Doing, Begun
  <2>7. Uploaded(r, i)'
    BY <1>2, <1>3, <1>4, <2>1, <2>2, <2>3, <2>4, <2>6 DEF Uploaded, Uploads, Linked, Tracked
  <2> QED BY <1>3, <2>1, <2>7 DEF Echoing
<1>6. ASSUME NEW i \in Ids, Create(i)
      PROVE  Echoing'
  <2> DEFINE f == [path |-> r.path, md5 |-> local[r.path], st |-> "live"]
             e == [pc |-> "mark", op |-> Upload(r), row |-> [r EXCEPT !.rid = i], md5 |-> local[r.path]]
  <2>1. r.rid = 0 /\ IsNew(i) /\ SetDrive(i, f) /\ exec' = [exec EXCEPT !.pc = "mark", !.row.rid = i]
    BY <1>1, <1>6 DEF Create
  <2>2. exec' = e
    <3> DEFINE y == [exec EXCEPT !.pc = "mark"]
               s == [r EXCEPT !.rid = i]
    <3>1. y = [pc |-> "mark", op |-> Upload(r), row |-> r, md5 |-> local[r.path]] /\ y.row = r
      BY <1>1
    <3>2. exec' = [y EXCEPT !.row = [y.row EXCEPT !.rid = i]]
      BY <2>1
    <3> HIDE DEF y
    <3>3. exec' = [y EXCEPT !.row = s]
      BY <3>1, <3>2
    <3> HIDE DEF s
    <3>4. exec' = [pc |-> "mark", op |-> Upload(r), row |-> s, md5 |-> local[r.path]]
      BY <3>1, <3>3
    <3> QED BY <3>4 DEF s
  <2> HIDE DEF f
  <2>3. Echo(i)' /\ drive'[i] = f /\ \A j \in Ids \ {i} : drive'[j] = drive[j]
    BY <1>3, <1>4, <2>1, SetDriveFirst
  <2>4. RestBut(r, {}, i)
    BY <2>1, RestNew DEF Uploads
  <2>5. RestBut(r, {}, i)'
    BY <1>2, <1>3, <2>3, <2>4, RestFrame
  <2>6. Doing("mark", Upload(r), [r EXCEPT !.rid = i], local[r.path])' /\ marked' = 0
    BY <1>3, <2>1, <2>2 DEF Doing, Begun
  <2>7. Uploaded(r, i)'
    BY <1>3, <1>4, <2>1, <2>3, <2>5, <2>6 DEF Uploaded, Uploads, Linked, Tracked, f
  <2> QED BY <1>3, <2>7 DEF Echoing
<1> QED BY <1>3, <1>5, <1>6

\* The engine's deletion: the file is in the trash.
LEMMA ActTrash ==
    ASSUME Sound, Act, NEW r \in items, Begun(DeleteRemote(r), r, 0, r.rid), Trashes(r)
    PROVE  Echoing'
<1> DEFINE i == r.rid
           f == [drive[i] EXCEPT !.st = "trashed"]
<1>1. /\ exec.pc = "write" /\ exec.op.kind = "DeleteRemote" /\ exec.row = r
      /\ exec = [pc |-> "write", op |-> DeleteRemote(r), row |-> r, md5 |-> 0]
  BY DEF Begun, Doing, DeleteRemote, Job
<1>2. RowsSound(items) /\ r.path \in Names /\ i \in Ids /\ drive[i] \in File
  BY Rows DEF Sound, TablesSound, RowsSound, Trashes, WorldSound
<1>3. UNCHANGED <<items, ops, change, marked, local, events>> /\ Trash
  BY <1>1 DEF Act, Update, Create, Get, Trash, Unlink, MoveRemote, MoveLocal, At, OnDisk, tables
<1>4. Silent' /\ ops' = <<>> /\ NoEcho /\ WorldSound /\ marked' = i
  BY <1>3 DEF Begun, Silent, Sound
<1>5. Doing("record", DeleteRemote(r), r, 0)'
  BY <1>1, <1>3 DEF Trash, ToRecord, Doing
<1>6. Echo(i)' /\ drive'[i].st = "trashed" /\ \A j \in Ids \ {i} : drive'[j] = drive[j]
  <2>1. CASE Live(i)
    <3>1. f.st = "trashed"
      BY <1>2 DEF File
    <3>2. SetDrive(i, f)
      BY <1>1, <1>3, <2>1 DEF Trash
    <3> HIDE DEF f
    <3> QED BY <1>2, <1>3, <1>4, <3>1, <3>2, SetDriveFirst
  <2>2. CASE ~Live(i)
    <3>1. UNCHANGED <<drive, feed>> /\ drive[i].st = "trashed"
      BY <1>1, <1>3, <2>2 DEF Trash, Trashes, Exists, Live
    <3> QED BY <1>3, <1>4, <3>1 DEF Echo, NoEcho
  <2> QED BY <2>1, <2>2
<1>7. RestBut(r, {}, i)'
  BY <1>2, <1>3, <1>6, RestFrame DEF Trashes
<1>8. InTrash(r)'
  BY <1>2, <1>3, <1>4, <1>5, <1>6, <1>7 DEF InTrash, Trashes, Exists, Live, Ids
<1> QED BY <1>3, <1>8 DEF Echoing

\* The engine's move: the file is at its new path.
LEMMA ActMove ==
    ASSUME Sound, Act, NEW r \in items, NEW q \in Names, Begun(RenameRemote(r, q), r, 0, r.rid), Moves(r, q)
    PROVE  Echoing'
<1> DEFINE i == r.rid
           f == [drive[i] EXCEPT !.path = q]
<1>1. /\ exec.pc = "write" /\ exec.op.kind = "RenameRemote" /\ exec.row = r /\ exec.op.path = q
      /\ exec = [pc |-> "write", op |-> RenameRemote(r, q), row |-> r, md5 |-> 0]
  BY DEF Begun, Doing, RenameRemote, Job
<1>2. RowsSound(items) /\ r.path \in Names /\ i \in Ids /\ drive[i] \in File
  BY Rows DEF Sound, TablesSound, RowsSound, Moves, WorldSound
<1>3. UNCHANGED <<items, ops, change, marked, local, events>> /\ MoveRemote
  BY <1>1 DEF Act, Update, Create, Get, Trash, Unlink, MoveRemote, MoveLocal, At, OnDisk, tables
<1>4. Silent' /\ ops' = <<>> /\ NoEcho /\ WorldSound /\ marked' = i
  BY <1>3 DEF Begun, Silent, Sound
<1>5. Doing("record", RenameRemote(r, q), r, 0)' /\ SetDrive(i, f)
  BY <1>1, <1>3 DEF MoveRemote, ToRecord, Doing
<1>6. f.path = q /\ f.st = drive[i].st /\ f.md5 = drive[i].md5
  BY <1>2 DEF File
<1> HIDE DEF f
<1>7. Echo(i)' /\ drive'[i] = f /\ \A j \in Ids \ {i} : drive'[j] = drive[j]
  BY <1>2, <1>3, <1>4, <1>5, SetDriveFirst
<1>8. RestBut(r, {q}, i)'
  BY <1>2, <1>3, <1>7, RestFrame DEF Moves
<1>9. MovedThere(r, q)'
  BY <1>2, <1>3, <1>4, <1>5, <1>6, <1>7, <1>8 DEF MovedThere, Moves, Live, Ids
<1> QED BY <1>3, <1>9 DEF Echoing

\* A download lands on disk.
LEMMA ActGet ==
    ASSUME Sound, CalmSound, Act, NEW r \in items, Begun(Download(r, r.rid, r.path), r, 0, 0), Gets(r)
    PROVE  Landed'
<1> DEFINE o == Download(r, r.rid, r.path)
<1>1. /\ exec.pc = "write" /\ exec.op = o /\ exec.row = r
      /\ o.kind = "Download" /\ o.path = r.path /\ o.rid = r.rid
      /\ exec = [pc |-> "write", op |-> o, row |-> r, md5 |-> 0]
  BY DEF Begun, Doing, Download, Job
<1>2. RowsSound(items) /\ r.path \in Names /\ r.rid \in Ids \cup {0} /\ WorldSound
  BY Rows DEF Sound, TablesSound, RowsSound
<1>3. UNCHANGED <<items, ops, change, drive, feed>> /\ Get
  BY <1>1 DEF Act, Update, Create, Get, Trash, Unlink, MoveRemote, MoveLocal, At, tables
<1> HIDE DEF o
<1>4. Doing("record", o, r, 0)'
  BY <1>1, <1>3 DEF Get, ToRecord, Doing
<1>5. /\ local' = [local EXCEPT ![r.path] = drive[r.rid].md5]
      /\ Notify(r.path, "changed")
  BY <1>1, <1>3 DEF Get
<1>6. local'[r.path] = drive'[r.rid].md5 /\ \A p \in Names \ {r.path} : local'[p] = local[p]
  BY <1>2, <1>3, <1>5 DEF WorldSound
<1>7. Heard(r.path, "changed", NoPath, Upload(r))' /\ NoEcho'
  BY <1>2, <1>3, <1>5, Tells DEF Heard, Begun, NoEcho
<1>8. RestBut(r, {}, r.rid)'
  BY <1>2, <1>3, <1>6, RestFrame DEF Gets
<1>9. Got(r)'
  BY <1>3, <1>4, <1>6, <1>7, <1>8 DEF Got, Gets, Live, o
<1> QED BY <1>3, <1>9 DEF Landed

\* The file is removed from disk, if it was there.
LEMMA ActUnlink ==
    ASSUME Sound, Act, NEW r \in items,
           NEW keep \in BOOLEAN, Begun(DeleteLocal(r, keep), r, 0, 0), Unlinks(r, keep)
    PROVE  Landed'
<1> DEFINE o == DeleteLocal(r, keep)
<1>1. /\ exec.pc = "write" /\ exec.op = o /\ o.kind = "DeleteLocal" /\ exec.row = r
      /\ exec = [pc |-> "write", op |-> o, row |-> r, md5 |-> 0]
  BY DEF Begun, Doing, DeleteLocal, Job
<1>2. RowsSound(items) /\ r.path \in Names /\ r.rid \in Ids \cup {0} /\ WorldSound
  BY Rows DEF Sound, TablesSound, RowsSound
<1>3. UNCHANGED <<items, ops, change, drive, feed>> /\ Unlink
  BY <1>1 DEF Act, Update, Create, Get, Trash, Unlink, MoveRemote, MoveLocal, At, tables
<1> HIDE DEF o
<1>4. Doing("record", o, r, 0)'
  BY <1>1, <1>3 DEF Unlink, ToRecord, Doing
<1>5. local'[r.path] = 0 /\ \A p \in Names \ {r.path} : local'[p] = local[p]
  BY <1>1, <1>2, <1>3 DEF WorldSound, Unlink, OnDisk
<1>6. Heard(r.path, "deleted", NoPath, DeleteRemote(r))' \/ (ops' = <<>> /\ Silent')
  BY <1>1, <1>2, <1>3, Tells DEF Heard, Begun, Unlink, OnDisk, Silent
<1>7. RestBut(r, {}, r.rid)' /\ NoEcho'
  BY <1>2, <1>3, <1>5, RestFrame DEF Unlinks, Begun, NoEcho
<1>8. Unlinked(r, keep)'
  BY <1>3, <1>4, <1>5, <1>6, <1>7 DEF Unlinked, Unlinks, o
<1> QED BY <1>3, <1>8 DEF Landed

\* The file is renamed on disk.
LEMMA ActShift ==
    ASSUME Sound, CalmSound, Act, NEW r \in items, NEW q \in Names, Begun(RenameLocal(r, q), r, 0, 0),
           Shifts(r, q, r.path)
    PROVE  Landed'
<1> DEFINE o == RenameLocal(r, q)
<1>1. /\ exec.pc = "write" /\ exec.op = o /\ o.kind = "RenameLocal" /\ exec.row = r /\ o.path = q
      /\ exec = [pc |-> "write", op |-> o, row |-> r, md5 |-> 0]
  BY DEF Begun, Doing, RenameLocal, Job
<1>2. /\ RowsSound(items) /\ r.path \in Names /\ r.rid \in Ids /\ WorldSound
      /\ drive[r.rid].st # "none"
  BY Rows DEF Sound, TablesSound, RowsSound, Shifts, Live
<1>3. UNCHANGED <<items, ops, change, drive, feed>> /\ MoveLocal
  BY <1>1 DEF Act, Update, Create, Get, Trash, Unlink, MoveRemote, MoveLocal, At, tables
<1> HIDE DEF o
<1>4. Doing("record", o, r, 0)'
  BY <1>1, <1>3 DEF MoveLocal, ToRecord, Doing
<1>5. r.path # q /\ local[r.path] = r.md5 /\ r.md5 # 0
  BY <1>2 DEF Shifts, CalmSound
<1>6. /\ local' = [local EXCEPT ![r.path] = 0, ![q] = local[r.path]]
      /\ NotifyMove(r.path, q)
  BY <1>1, <1>3, <1>5 DEF MoveLocal
<1>7. local'[r.path] = 0 /\ local'[q] = r.md5 /\ \A p \in Names \ {r.path, q} : local'[p] = local[p]
  BY <1>2, <1>5, <1>6 DEF WorldSound
<1>8. Heard(q, "renamed", r.path, RenameRemote(r, q))' /\ NoEcho'
  BY <1>3, <1>6, Tells DEF Heard, Begun, NoEcho
<1>9. RestBut(r, {q}, r.rid)'
  BY <1>2, <1>3, <1>7, RestFrame DEF Shifts
<1>10. Shifts(r, q, q)'
  BY <1>3, <1>5, <1>7, <1>9 DEF Shifts, Live
<1>11. ShiftedThere(r, q)'
  BY <1>4, <1>8, <1>10 DEF ShiftedThere, o
<1> QED BY <1>3, <1>11 DEF Landed

\* The operation does its work.
LEMMA ActWay ==
    ASSUME Sound, CalmSound, OnItsWay, Act
    PROVE  Echoing' \/ Landed'
<1>1. exec.pc = "write"
  BY DEF Act, Update, Create, Get, Trash, Unlink, MoveRemote, MoveLocal, At
<1>2. Writing
  BY <1>1, Phases DEF OnItsWay, Act
<1> QED BY <1>2, ActUpload, ActTrash, ActMove, ActGet, ActUnlink, ActShift DEF Writing

\* The new file is marked.
LEMMA MarkWay ==
    ASSUME Sound, OnItsWay, Mark
    PROVE  Echoing'
<1>1. Echoing /\ exec.pc = "mark"
  BY Phases DEF OnItsWay, Mark
<1>2. UNCHANGED <<items, local, drive, feed, change, ops, events>>
  BY DEF Mark, world, tables
<1>3. PICK r \in items, i \in Ids :
        Uploaded(r, i) /\ Doing("mark", Upload(r), [r EXCEPT !.rid = i], local[r.path])
  BY <1>1 DEF Echoing, Uploaded, InTrash, MovedThere, Doing
<1>4. r \in Row /\ [r EXCEPT !.rid = i].rid = i
  BY DEF Sound, TablesSound, RowsSound, Row
<1>5. Doing("record", Upload(r), [r EXCEPT !.rid = i], local[r.path])' /\ marked' = i
  <2> DEFINE s == [r EXCEPT !.rid = i]
  <2>1. s.rid = i
    BY <1>4
  <2> HIDE DEF s
  <2>2. Doing("mark", Upload(r), s, local[r.path])
    BY <1>3 DEF s
  <2>3. Doing("record", Upload(r), s, local[r.path])' /\ marked' = i
    BY <1>2, <2>1, <2>2 DEF Mark, ToRecord, Doing
  <2> QED BY <2>3 DEF s
<1>6. RestBut(r, {}, i)' /\ Echo(i)' /\ Silent' /\ ops' = <<>> /\ r.rid = 0
  BY <1>1, <1>2, <1>3, Unmoved DEF Uploaded, Echo, Silent, Doing
<1>7. Uploaded(r, i)'
  BY <1>2, <1>3, <1>5, <1>6 DEF Uploaded
<1> QED BY <1>2, <1>7 DEF Echoing

-----------------------------------------------------------------------------
(* An operation is recorded.                                               *)

\* What recording leaves alone, and whose row it is about.
LEMMA Recording ==
    ASSUME Sound, Record, NEW r \in items, exec.op.key = r.key
    PROVE  /\ UNCHANGED <<local, drive, feed, change, events>> /\ exec' = Idle /\ marked' = 0
           /\ SavePath \/ Save(r)
           /\ WithKey(r.key) = {r} /\ AtPath(r.path) = {r}
           /\ r \in Row /\ r.path \in Names /\ r.rid \in Ids \cup {0} /\ 0 \notin Ids
           /\ RowsSound(items) /\ KeysOf(items) = KeysOf(items \ {r}) \cup {r.key}
<1>1. WithKey(r.key) = {r} /\ AtPath(r.path) = {r} /\ RowsSound(items)
  BY DEF WithKey, AtPath, Sound, TablesSound, RowsSound
<1> QED BY <1>1, Rows DEF Record, Leave, world, RowsSound, Ids, KeysOf

\* A recorded row is in sync.
LEMMA Recorded ==
    ASSUME Sound, Sound', Record, later = <<>>, NEW r \in items, exec.op.key = r.key,
           NEW P, NEW i \in Ids, RestBut(r, P, i), r.rid \in {0, i},
           NEW s, s.key = r.key, s.rid = i, s.path \in {r.path} \cup P,
           Store((items \ {r}) \cup {s}, <<>>), Settled(s)',
           \A p \in ({r.path} \cup P) \ {s.path} : local[p] = 0
    PROVE  InRest' /\ items' = (items \ {r}) \cup {s}
<1>1. items' = (items \ {r}) \cup {s}
  BY DEF Store
<1> DEFINE S == {s}
<1>2. /\ items' = (items \ {r}) \cup S
      /\ \A t \in S : t.path \in {r.path} \cup P /\ t.rid = i /\ Settled(t)'
      /\ \A t, u \in S : t = u
      /\ \A p \in {r.path} \cup P : local'[p] # 0 => \E t \in S : t.path = p
      /\ S # {}
  BY <1>1, Recording
<1> HIDE DEF S
<1>3. /\ i \in Ids \cup {0} /\ RowsSound(items)
      /\ \A p \in Names \ ({r.path} \cup P) : local'[p] = local[p]
      /\ \A j \in Ids \ {i} : drive'[j] = drive[j]
  BY Recording
<1>4. i # 0 /\ Live(i)' => S # {}
  BY <1>1, <1>2
<1> QED BY <1>1, <1>2, <1>3, <1>4, RestClosed

\* A row that goes leaves the rest.
LEMMA Erased ==
    ASSUME Sound, Record, NEW r \in items, exec.op.key = r.key, NEW i \in Ids, RestBut(r, {}, i),
           r.rid \in {0, i}, Store(items \ {r}, <<>>), local[r.path] = 0, ~Live(i)
    PROVE  InRest' /\ items' = items \ {r}
<1>1. items' = items \ {r} /\ ~Live(i)'
  BY Recording DEF Store, Live
<1> DEFINE S == {}
<1>2. /\ items' = (items \ {r}) \cup S
      /\ \A t \in S : t.path \in {r.path} \cup {} /\ t.rid = i /\ Settled(t)'
      /\ \A t, u \in S : t = u
      /\ \A p \in {r.path} \cup {} : local'[p] # 0 => \E t \in S : t.path = p
  BY <1>1, Recording
<1> HIDE DEF S
<1>3. /\ i \in Ids \cup {0} /\ RowsSound(items)
      /\ \A p \in Names \ ({r.path} \cup {}) : local'[p] = local[p]
      /\ \A j \in Ids \ {i} : drive'[j] = drive[j]
  BY Recording
<1>4. i # 0 /\ Live(i)' => S # {}
  BY <1>1, <1>2
<1> QED BY <1>1, <1>2, <1>3, <1>4, RestClosed

\* An upload: the row is linked to the file, with its bytes; the echo may be on its way.
LEMMA RecordUpload ==
    ASSUME Sound, Sound', later = <<>>, Record, NEW r \in items, NEW i \in Ids, Uploaded(r, i)
    PROVE  AtEase' \/ Changing'
<1>0. PICK c : c = local[r.path]
  OBVIOUS
<1> DEFINE s == [r EXCEPT !.rid = i, !.md5 = c]
<1>1. exec.pc = "record"
  BY DEF Record, SavePath, Save, At
<1>2. Doing("record", Upload(r), [r EXCEPT !.rid = i], local[r.path]) /\ r.rid \in {0, i}
  BY <1>1 DEF Uploaded, Doing
<1>3. exec.op = Upload(r) /\ exec.op.key = r.key /\ exec.op.kind = "Upload" /\ exec.md5 = local[r.path]
  BY <1>2 DEF Doing, Upload, Job
<1>4. exec.row.rid = i
  <2> DEFINE t == [r EXCEPT !.rid = i]
  <2>1. t.rid = i
    BY <1>3, Recording DEF Row
  <2> HIDE DEF t
  <2>2. Doing("record", Upload(r), t, local[r.path])
    BY <1>2 DEF t
  <2> QED BY <2>1, <2>2 DEF Doing
<1>5. s.key = r.key /\ s.path = r.path /\ s.rid = i /\ s.md5 = c /\ s.trashed = r.trashed
  BY <1>3, Recording DEF Row
<1>6. Store((items \ {r}) \cup {s}, <<>>)
  BY <1>0, <1>3, <1>4, Recording DEF Save, SavePath, At, Change
<1> HIDE DEF s
<1>7. ops' = <<>>
  <2>1. <<>> \in Seq(Op)
    OBVIOUS
  <2> QED BY <1>6, <2>1, StoreFirst DEF Uploaded
<1>8. drive'[i] = [path |-> r.path, md5 |-> local[r.path], st |-> "live"] /\ local' = local
  BY <1>3, Recording DEF Uploaded
<1>9. Settled(s)'
  <2>1. ~s.trashed /\ i # 0
    BY <1>3, <1>5, Recording DEF Uploaded
  <2> QED BY <1>0, <1>5, <1>8, <2>1 DEF Settled, InSync, Live
<1>10. InRest'
  <2>1. /\ RestBut(r, {}, i) /\ s.path \in {r.path} \cup {}
        /\ \A p \in ({r.path} \cup {}) \ {s.path} : local[p] = 0
    BY <1>5 DEF Uploaded
  <2> QED BY <1>2, <1>3, <1>5, <1>6, <1>9, <2>1, Recorded
<1>11. Silent' /\ Idling' /\ Echo(i)'
  BY <1>3, <1>7, Recording DEF Silent, Idling, Echo, Uploaded
<1> QED BY <1>8, <1>10, <1>11, RestedThen

\* A deletion on Drive: the row goes.
LEMMA RecordTrash ==
    ASSUME Sound, Sound', later = <<>>, Record, NEW r \in items, InTrash(r)
    PROVE  AtEase' \/ Changing'
<1>1. exec.op = DeleteRemote(r) /\ exec.op.key = r.key /\ exec.op.kind = "DeleteRemote"
  BY DEF InTrash, Doing, DeleteRemote, Job
<1>2. Store(items \ {r}, <<>>)
  BY <1>1, Recording DEF Save, SavePath, At, Delete
<1>3. ops' = <<>>
  <2>1. <<>> \in Seq(Op)
    OBVIOUS
  <2> QED BY <1>2, <2>1, StoreFirst DEF InTrash
<1>4. r.rid \in Ids /\ (drive[r.rid].st # "none")'
  BY <1>1, Recording DEF InTrash, Trashes, Exists
<1>5. InRest'
  BY <1>1, <1>2, <1>4, Erased DEF InTrash, Trashes
<1>6. Silent' /\ Idling' /\ Echo(r.rid)'
  BY <1>1, <1>3, Recording DEF Silent, Idling, Echo, InTrash
<1> QED BY <1>4, <1>5, <1>6, RestedThen

\* A move on Drive: the row has the new path.
LEMMA RecordMove ==
    ASSUME Sound, Sound', later = <<>>, Record, NEW r \in items, NEW q \in Names, MovedThere(r, q)
    PROVE  AtEase' \/ Changing'
<1> DEFINE s == [r EXCEPT !.path = q]
<1>1. exec.op = RenameRemote(r, q) /\ exec.op.key = r.key /\ exec.op.kind = "RenameRemote" /\ exec.op.path = q
  BY DEF MovedThere, Doing, RenameRemote, Job
<1>2. s.key = r.key /\ s.path = q /\ s.rid = r.rid /\ s.md5 = r.md5 /\ s.trashed = r.trashed
  BY <1>1, Recording DEF Row
<1>3. AtPath(q) \subseteq {r}
  <2> SUFFICES ASSUME NEW t \in items, t.path = q, t # r PROVE FALSE
    BY DEF AtPath
  <2>1. t.key # r.key
    BY <1>1, Recording DEF RowsSound
  <2>2. RestBut(r, {q}, r.rid)
    BY DEF MovedThere, Moves
  <2> QED BY <2>1, <2>2 DEF RestBut, Rest
<1>4. (items \ ({r} \cup AtPath(q))) \cup {s} = (items \ {r}) \cup {s}
  BY <1>3
<1>5. Store((items \ {r}) \cup {s}, <<>>)
  BY <1>1, <1>4, Recording DEF Save, SavePath, At, Repath
<1> HIDE DEF s
<1>6. ops' = <<>>
  <2>1. <<>> \in Seq(Op)
    OBVIOUS
  <2> QED BY <1>5, <2>1, StoreFirst DEF MovedThere
<1>7. r.rid \in Ids /\ (drive[r.rid].st # "none")'
  BY <1>1, Recording DEF MovedThere, Moves, Live
<1>8. Settled(s)'
  BY <1>1, <1>2, Recording DEF Settled, InSync, Live, MovedThere, Moves
<1>9. InRest'
  BY <1>1, <1>2, <1>5, <1>7, <1>8, Recorded DEF MovedThere, Moves
<1>10. Silent' /\ Idling' /\ Echo(r.rid)'
  BY <1>1, <1>6, Recording DEF Silent, Idling, Echo, MovedThere
<1> QED BY <1>7, <1>9, <1>10, RestedThen

\* A download: the row has the bytes on disk; its event may not have been heard.
LEMMA RecordGet ==
    ASSUME Sound, CalmSound, Sound', later = <<>>, Record, NEW r \in items, Got(r)
    PROVE  Speaking' \/ Waiting'
<1>0. PICK c : c = local[r.path]
  OBVIOUS
<1> DEFINE s == [r EXCEPT !.rid = r.rid, !.md5 = c]
           o == Download(r, r.rid, r.path)
<1>1. /\ exec.op = o /\ o.key = r.key /\ o.kind = "Download" /\ o.path = r.path /\ o.rid = r.rid
      /\ exec.op.key = r.key
  BY DEF Got, Doing, Download, Job
<1>2. s.key = r.key /\ s.path = r.path /\ s.rid = r.rid /\ s.md5 = c /\ s.trashed = r.trashed
  BY <1>1, Recording DEF Row
<1>3. Store((items \ {r}) \cup {s}, <<>>)
  BY <1>0, <1>1, Recording DEF Save, SavePath, At, Change
<1> HIDE DEF s, o
<1>4. /\ r.rid \in Ids /\ ~r.trashed /\ Live(r.rid) /\ drive[r.rid].path = r.path /\ drive[r.rid].md5 = c
      /\ c # 0 /\ RestBut(r, {}, r.rid)
  BY <1>0, <1>1, Recording DEF Got, Gets, CalmSound, Live
<1>5. items' = (items \ {r}) \cup {s} /\ UNCHANGED <<local, drive>>
  BY <1>1, <1>3, Recording DEF Store
<1>6. RestBut(s, {}, r.rid)'
  BY <1>1, <1>2, <1>4, <1>5, Recording, RestRow
<1>7. Tracked(s)' /\ local'[s.path] # 0
  <2>1. r.rid # 0 /\ drive'[r.rid] = drive[r.rid] /\ local'[r.path] = c
    BY <1>0, <1>1, <1>4, <1>5, Recording
  <2> QED BY <1>2, <1>4, <2>1 DEF Tracked, Live
<1>8. NoEcho' /\ exec' = Idle
  BY <1>1, Recording DEF Got, NoEcho
<1>9. KeysOf(items) \ KeysOf((items \ {r}) \cup {s}) = {}
  BY <1>2, Recording DEF KeysOf
<1>10. CASE ops = <<>> /\ Telling(r.path, "changed", NoPath)
  <2>1. ops' = <<>>
    <3>1. <<>> \in Seq(Op)
      OBVIOUS
    <3> QED BY <1>3, <1>10, <3>1, StoreFirst
  <2>2. Told(r.path, "changed", NoPath)'
    BY <1>1, <1>8, <1>10, <2>1, Recording DEF Told, Telling, Idling
  <2>3. Written(r.path)'
    BY <1>2, <1>5, <1>6, <1>7 DEF Written, AtPath
  <2> QED BY <1>1, <1>2, <1>7, <2>2, <2>3, Recording DEF Speaking
<1>11. CASE ops = <<Upload(r)>> /\ Silent
  <2>1. ops' = <<Upload(r)>>
    BY <1>3, <1>9, <1>11, StoreNext
  <2>2. Upload(s) = Upload(r)
    BY <1>2 DEF Upload, Job
  <2>3. Due(Upload(s))'
    BY <1>1, <1>8, <1>11, <2>1, <2>2, Recording DEF Due, Silent
  <2>4. Uploads(s)'
    BY <1>2, <1>6, <1>7 DEF Uploads, Linked
  <2> QED BY <1>5, <2>3, <2>4 DEF Waiting
<1> QED BY <1>10, <1>11 DEF Got, Heard

\* A removal after a trashing: the row is a tombstone.
LEMMA RecordKeptUnlink ==
    ASSUME Sound, Sound', later = <<>>, Record, NEW r \in items, Unlinked(r, TRUE)
    PROVE  AtEase' \/ Speaking' \/ Waiting'
<1> DEFINE s == [r EXCEPT !.trashed = TRUE]
           o == DeleteLocal(r, TRUE)
<1>1. exec.op = o /\ o.key = r.key /\ o.kind = "DeleteLocal" /\ o.keep /\ exec.op.key = r.key
  BY DEF Unlinked, Doing, DeleteLocal, Job
<1>2. s.key = r.key /\ s.path = r.path /\ s.rid = r.rid /\ s.trashed
  BY <1>1, Recording DEF Row
<1>3. Store((items \ {r}) \cup {s}, <<>>)
  BY <1>1, Recording DEF Save, SavePath, At, Change
<1> HIDE DEF s, o
<1>4. /\ r.rid \in Ids /\ drive[r.rid].st = "trashed" /\ drive[r.rid].path = r.path /\ local[r.path] = 0
      /\ RestBut(r, {}, r.rid)
  BY <1>1, Recording DEF Unlinked, Unlinks
<1>5. items' = (items \ {r}) \cup {s} /\ UNCHANGED <<local, drive>>
  BY <1>1, <1>3, Recording DEF Store
<1>6. Settled(s)'
  BY <1>1, <1>2, <1>4, <1>5, Recording DEF Settled
<1>7. InRest'
  <2>1. s.path \in {r.path} \cup {} /\ \A p \in ({r.path} \cup {}) \ {s.path} : local[p] = 0
    BY <1>2
  <2> QED BY <1>1, <1>2, <1>3, <1>4, <1>6, <2>1, Recorded
<1>8. NoEcho' /\ exec' = Idle
  BY <1>1, Recording DEF Unlinked, NoEcho
<1>9. KeysOf(items) \ KeysOf((items \ {r}) \cup {s}) = {}
  BY <1>2, Recording DEF KeysOf
<1>10. ASSUME ops = <<>> PROVE ops' = <<>>
  <2>1. <<>> \in Seq(Op)
    OBVIOUS
  <2> QED BY <1>3, <1>10, <2>1, StoreFirst
<1>11. CASE ops = <<>> /\ Telling(r.path, "deleted", NoPath)
  <2>1. Told(r.path, "deleted", NoPath)'
    BY <1>1, <1>8, <1>10, <1>11, Recording DEF Told, Telling, Idling
  <2>2. \A t \in AtPath(r.path)' : t.trashed
    <3>1. \A t \in items : t.path = r.path => t = r
      BY <1>1, Recording DEF AtPath
    <3> QED BY <1>2, <1>5, <3>1 DEF AtPath
  <2> QED BY <1>1, <1>7, <2>1, <2>2, Recording DEF Speaking
<1>12. CASE ops = <<>> /\ Silent
  BY <1>1, <1>7, <1>8, <1>10, <1>12, Recording DEF AtEase, Idling, Silent
<1>13. CASE ops = <<DeleteRemote(r)>> /\ Silent
  <2>1. ops' = <<DeleteRemote(r)>>
    BY <1>3, <1>9, <1>13, StoreNext
  <2>2. DeleteRemote(s) = DeleteRemote(r)
    BY <1>2 DEF DeleteRemote, Job
  <2>3. Due(DeleteRemote(s))'
    BY <1>1, <1>8, <1>13, <2>1, <2>2, Recording DEF Due, Silent
  <2>4. RestBut(s, {}, r.rid)'
    BY <1>1, <1>2, <1>4, <1>5, Recording, RestRow
  <2>5. Trashes(s)'
    BY <1>1, <1>2, <1>4, <1>5, <2>4, Recording DEF Trashes, Exists
  <2> QED BY <1>5, <2>3, <2>5 DEF Waiting
<1> QED BY <1>11, <1>12, <1>13 DEF Unlinked, Heard

\* A removal after a deletion: the row goes, with the operation its event has queued.
LEMMA RecordUnlink ==
    ASSUME Sound, Sound', later = <<>>, Record, NEW r \in items, Unlinked(r, FALSE)
    PROVE  AtEase' \/ Speaking'
<1> DEFINE o == DeleteLocal(r, FALSE)
<1>1. exec.op = o /\ o.key = r.key /\ o.kind = "DeleteLocal" /\ ~o.keep /\ exec.op.key = r.key
  BY DEF Unlinked, Doing, DeleteLocal, Job
<1>2. Store(items \ {r}, <<>>)
  BY <1>1, Recording DEF Save, SavePath, At, Delete
<1> HIDE DEF o
<1>3. r.rid \in Ids /\ ~Live(r.rid) /\ local[r.path] = 0 /\ RestBut(r, {}, r.rid)
  BY <1>1, Recording DEF Unlinked, Unlinks, Live
<1>4. InRest' /\ items' = items \ {r}
  BY <1>1, <1>2, <1>3, Erased
<1>5. NoEcho' /\ exec' = Idle
  BY <1>1, Recording DEF Unlinked, NoEcho
<1>6. ops' = <<>>
  <2>1. CASE ops = <<>>
    <3>1. <<>> \in Seq(Op)
      OBVIOUS
    <3> QED BY <1>2, <2>1, <3>1, StoreFirst
  <2>2. CASE ops = <<DeleteRemote(r)>>
    <3>1. DeleteRemote(r).key = r.key
      BY DEF DeleteRemote, Job
    <3>2. r.key \in KeysOf(items) \ KeysOf(items \ {r})
      BY <1>1, Recording DEF KeysOf, WithKey
    <3> QED BY <1>2, <2>2, <3>1, <3>2, StoreNext
  <2> QED BY <2>1, <2>2 DEF Unlinked, Heard
<1>7. CASE Telling(r.path, "deleted", NoPath)
  <2>1. Told(r.path, "deleted", NoPath)'
    BY <1>1, <1>5, <1>6, <1>7, Recording DEF Told, Telling, Idling
  <2>2. AtPath(r.path)' = {}
    BY <1>1, <1>4, Recording DEF AtPath
  <2> QED BY <1>1, <1>4, <2>1, <2>2, Recording DEF Speaking
<1>8. CASE Silent
  BY <1>1, <1>4, <1>5, <1>6, <1>8, Recording DEF AtEase, Idling, Silent
<1> QED BY <1>7, <1>8 DEF Unlinked, Heard

\* A rename on disk: the row has the new path; its event may not have been heard.
LEMMA RecordShift ==
    ASSUME Sound, CalmSound, Sound', later = <<>>, Record, NEW r \in items, NEW q \in Names, ShiftedThere(r, q)
    PROVE  Speaking' \/ Waiting'
<1> DEFINE s == [r EXCEPT !.path = q]
           o == RenameLocal(r, q)
<1>1. /\ exec.op = o /\ o.key = r.key /\ o.kind = "RenameLocal" /\ o.path = q /\ exec.op.key = r.key
      /\ exec.row = r
  BY DEF ShiftedThere, Doing, RenameLocal, Job
<1>2. s.key = r.key /\ s.path = q /\ s.rid = r.rid /\ s.md5 = r.md5 /\ s.trashed = r.trashed
  BY <1>1, Recording DEF Row
<1>3. /\ r.rid \in Ids /\ ~r.trashed /\ Live(r.rid) /\ drive[r.rid].path = q /\ r.path # q
      /\ drive[r.rid].md5 = r.md5 /\ local[q] = r.md5 /\ local[r.path] = 0 /\ r.md5 # 0
      /\ RestBut(r, {q}, r.rid)
  BY <1>1, Recording DEF ShiftedThere, Shifts, Live, CalmSound
<1>4. AtPath(q) = {}
  <2> SUFFICES ASSUME NEW t \in items, t.path = q PROVE FALSE
    BY DEF AtPath
  <2>1. t.key # r.key
    BY <1>1, <1>3, Recording DEF RowsSound
  <2> QED BY <1>3, <2>1 DEF RestBut, Rest
<1>5. Store((items \ {r}) \cup {s}, <<>>)
  <2>1. SavePath /\ AtPath(r.path) = {r}
    BY <1>1, Recording DEF Save, At
  <2>2. \E t \in {r} : Change(t, [t EXCEPT !.path = q], <<>>)
    BY <1>1, <1>3, <1>4, <2>1 DEF SavePath
  <2> QED BY <2>2 DEF Change
<1> HIDE DEF s, o
<1>6. items' = (items \ {r}) \cup {s} /\ UNCHANGED <<local, drive>>
  BY <1>1, <1>5, Recording DEF Store
<1>7. Settled(s)'
  BY <1>1, <1>2, <1>3, <1>6, Recording DEF Settled, InSync, Live
<1>8. InRest'
  BY <1>1, <1>2, <1>3, <1>5, <1>7, Recorded
<1>9. NoEcho' /\ exec' = Idle
  BY <1>1, Recording DEF ShiftedThere, NoEcho
<1>10. KeysOf(items) \ KeysOf((items \ {r}) \cup {s}) = {}
  BY <1>2, Recording DEF KeysOf
<1>11. AtPath(r.path)' = {} /\ \A t \in items' : t.path \in {q} => t = s
  BY <1>1, <1>2, <1>3, <1>4, <1>6, Recording DEF AtPath
<1>12. CASE ops = <<>> /\ Telling(q, "renamed", r.path)
  <2>1. ops' = <<>>
    <3>1. <<>> \in Seq(Op)
      OBVIOUS
    <3> QED BY <1>5, <1>12, <3>1, StoreFirst
  <2>2. Told(q, "renamed", r.path)'
    BY <1>1, <1>9, <1>12, <2>1, Recording DEF Told, Telling, Idling
  <2> QED BY <1>1, <1>3, <1>6, <1>8, <1>11, <2>2, Recording DEF Speaking
<1>13. CASE ops = <<RenameRemote(r, q)>> /\ Silent
  <2>1. ops' = <<RenameRemote(r, q)>>
    BY <1>5, <1>10, <1>13, StoreNext
  <2>2. RenameRemote(s, q) = RenameRemote(r, q)
    BY <1>2 DEF RenameRemote, Job
  <2>3. Due(RenameRemote(s, q))'
    BY <1>1, <1>9, <1>13, <2>1, <2>2, Recording DEF Due, Silent
  <2>4. s \in items' /\ {q} \in SUBSET Names
    BY <1>6
  <2>5. RestBut(s, {q}, s.rid)'
    BY <1>8, <1>11, <2>4, FocusThen
  <2>6. Moves(s, q)'
    BY <1>1, <1>2, <1>3, <1>6, <2>5, Recording DEF Moves, Live
  <2> QED BY <2>3, <2>4, <2>6 DEF Waiting
<1> QED BY <1>12, <1>13 DEF ShiftedThere, Heard

\* Any record.
LEMMA RecordWay ==
    ASSUME Sound, CalmSound, Sound', later = <<>>, OnItsWay, Record
    PROVE  OnItsWay'
<1>1. exec # Idle /\ exec.pc = "record"
  BY DEF Record
<1>2. Echoing \/ Landed
  BY <1>1, Phases DEF OnItsWay
<1>3. BOOLEAN = {TRUE, FALSE}
  OBVIOUS
<1>4. CASE Echoing
  BY <1>4, RecordUpload, RecordTrash, RecordMove DEF Echoing, OnItsWay
<1>5. CASE Landed
  BY <1>3, <1>5, RecordGet, RecordKeptUnlink, RecordUnlink, RecordShift DEF Landed, OnItsWay
<1> QED BY <1>2, <1>4, <1>5

\* Nothing is missing that an operation needs.
LEMMA FailsWay ==
    ASSUME Sound, CalmSound, OnItsWay, Fails
    PROVE  FALSE
<1>1. exec # Idle /\ Impossible
  BY DEF Fails
<1>2. \A r \in items : r \in Row /\ r.rid \in Ids \cup {0} /\ 0 \notin Ids
  BY Rows DEF Sound, TablesSound, RowsSound, Ids
<1>3. CASE exec.pc = "write"
  <2>1. Writing
    BY <1>1, <1>3, Phases DEF OnItsWay
  <2>2. PICK r \in items :
          \/ Begun(Upload(r), r, local[r.path], r.rid) /\ Uploads(r)
          \/ Begun(DeleteRemote(r), r, 0, r.rid) /\ Trashes(r)
          \/ \E q \in Names : Begun(RenameRemote(r, q), r, 0, r.rid) /\ Moves(r, q)
          \/ Begun(Download(r, r.rid, r.path), r, 0, 0) /\ Gets(r)
          \/ \E keep \in BOOLEAN : Begun(DeleteLocal(r, keep), r, 0, 0) /\ Unlinks(r, keep)
          \/ \E q \in Names : Begun(RenameLocal(r, q), r, 0, 0) /\ Shifts(r, q, r.path)
    BY <2>1 DEF Writing
  <2>3. ASSUME Begun(Upload(r), r, local[r.path], r.rid), Uploads(r) PROVE FALSE
    <3>1. exec.op.kind = "Upload" /\ exec.row = r
      BY <2>3 DEF Begun, Doing, Upload, Job
    <3> QED BY <1>1, <1>3, <2>3, <3>1 DEF Impossible, At, Uploads, Linked, Tracked, Live, Exists
  <2>4. ASSUME Begun(DeleteRemote(r), r, 0, r.rid), Trashes(r) PROVE FALSE
    <3>1. exec.op.kind = "DeleteRemote" /\ exec.row = r
      BY <2>4 DEF Begun, Doing, DeleteRemote, Job
    <3> QED BY <1>1, <1>3, <2>4, <3>1 DEF Impossible, At, Trashes
  <2>5. ASSUME NEW q \in Names, Begun(RenameRemote(r, q), r, 0, r.rid), Moves(r, q) PROVE FALSE
    <3>1. exec.op.kind = "RenameRemote" /\ exec.row = r
      BY <2>5 DEF Begun, Doing, RenameRemote, Job
    <3> QED BY <1>1, <1>3, <2>5, <3>1 DEF Impossible, At, Moves, Live, Exists
  <2>6. ASSUME Begun(Download(r, r.rid, r.path), r, 0, 0), Gets(r) PROVE FALSE
    <3>1. exec.op.kind = "Download" /\ exec.op.rid = r.rid
      BY <2>6 DEF Begun, Doing, Download, Job
    <3> QED BY <1>1, <1>3, <2>6, <3>1 DEF Impossible, At, Gets, Live, Exists
  <2>7. ASSUME NEW keep \in BOOLEAN, Begun(DeleteLocal(r, keep), r, 0, 0) PROVE FALSE
    <3>1. exec.op.kind = "DeleteLocal"
      BY <2>7 DEF Begun, Doing, DeleteLocal, Job
    <3> QED BY <1>1, <1>3, <3>1 DEF Impossible, At
  <2>8. ASSUME NEW q \in Names, Begun(RenameLocal(r, q), r, 0, 0) PROVE FALSE
    <3>1. exec.op.kind = "RenameLocal"
      BY <2>8 DEF Begun, Doing, RenameLocal, Job
    <3> QED BY <1>1, <1>3, <3>1 DEF Impossible, At
  <2> QED BY <2>2, <2>3, <2>4, <2>5, <2>6, <2>7, <2>8
<1>4. CASE exec.pc # "write"
  <2>1. exec.pc = "record" /\ exec.op.kind = "Download" /\ local[exec.op.path] = 0
    BY <1>1, <1>4 DEF Impossible, At
  <2>2. Echoing \/ Landed
    BY <1>1, <2>1, Phases DEF OnItsWay
  <2>3. \A r, i, q, keep : /\ Upload(r).kind # "Download" /\ DeleteRemote(r).kind # "Download"
                           /\ RenameRemote(r, q).kind # "Download" /\ DeleteLocal(r, keep).kind # "Download"
                           /\ RenameLocal(r, q).kind # "Download" /\ Download(r, i, q).path = q
    BY DEF Upload, DeleteRemote, RenameRemote, DeleteLocal, RenameLocal, Download, Job
  <2>4. \A pc, o, r, c : Doing(pc, o, r, c) => exec.op = o
    BY DEF Doing
  <2>5. ~Echoing
    <3>1. \A r, i : ~Uploaded(r, i)
      BY <2>1, <2>3, <2>4 DEF Uploaded
    <3>2. \A r, q : ~InTrash(r) /\ ~MovedThere(r, q)
      BY <2>1, <2>3, <2>4 DEF InTrash, MovedThere
    <3> QED BY <3>1, <3>2 DEF Echoing
  <2>6. PICK r \in items : Got(r)
    BY <2>1, <2>2, <2>3, <2>4, <2>5 DEF Landed, Unlinked, ShiftedThere
  <2>7. exec.op.path = r.path
    BY <2>3, <2>4, <2>6 DEF Got
  <2> QED BY <1>2, <2>1, <2>6, <2>7 DEF Got, Gets, Live, CalmSound
<1> QED BY <1>3, <1>4

\* The poller fetches the change, as Drive has the file now.
LEMMA FetchWay ==
    ASSUME Sound, OnItsWay, Fetch
    PROVE  Changing' \/ Echoing'
<1>1. UNCHANGED <<items, local, drive, ops, events, exec, marked>>
  BY DEF Fetch, tables
<1>2. Changing \/ Echoing
  BY Phases DEF OnItsWay, Fetch, NoEcho
<1>3. ASSUME NEW i \in Ids, Echo(i)
      PROVE  Echo(i)' /\ ~NoEcho'
  <2>1. feed = <<i>> /\ Head(feed) = i /\ Tail(feed) = <<>>
    <3>1. Head(<<i>>) = i /\ Tail(<<i>>) = <<>>
      OBVIOUS
    <3> QED BY <1>3, <3>1 DEF Fetch, Echo
  <2>2. change' = [id |-> i, file |-> drive'[i]] /\ feed' = <<>>
    BY <1>1, <2>1 DEF Fetch
  <2>3. change' # NoChange
    <3>1. i # 0 /\ NoChange.id = 0
      BY DEF Ids, NoChange
    <3>2. change'.id = i
      BY <2>2
    <3> QED BY <3>1, <3>2
  <2> QED BY <2>2, <2>3 DEF Echo, NoEcho
<1>4. CASE Changing
  <2>1. PICK i \in Ids : Echo(i) /\ (New(i) \/ \E r \in items : r.rid = i /\ Changed(r))
    BY <1>4 DEF Changing
  <2>2. New(i)' = New(i) /\ \A r \in items : Changed(r)' = Changed(r)
    <3>1. InRest' = InRest /\ Live(i)' = Live(i) /\ WithId(i)' = WithId(i)
      BY <1>1, Unmoved DEF Live, WithId
    <3>2. \A r : Live(r.rid)' = Live(r.rid)
      BY <1>1 DEF Live
    <3>3. \A r, P, j : RestBut(r, P, j)' = RestBut(r, P, j)
      BY <1>1, Unmoved
    <3>4. Rest({}, {drive[i].path}, {i})' = Rest({}, {drive[i].path}, {i})
      BY <1>1 DEF Rest, Settled, InSync, Live, AtPath, WithId
    <3> QED BY <1>1, <3>1, <3>2, <3>3, <3>4 DEF New, Changed
  <2>3. Silent' /\ Idling'
    BY <1>1, <1>4 DEF Changing, Silent, Idling
  <2> QED BY <1>1, <1>3, <2>1, <2>2, <2>3 DEF Changing
<1>5. CASE Echoing
  <2>1. PICK r \in items : \/ \E i \in Ids : Uploaded(r, i)
                           \/ InTrash(r)
                           \/ \E q \in Names : MovedThere(r, q)
    BY <1>5 DEF Echoing
  <2>2. r.rid # 0 => r.rid \in Ids
    BY Rows DEF Sound, TablesSound, RowsSound
  <2>3. UNCHANGED <<Live(r.rid), Silent>> /\ \A pc, o, s, c : Doing(pc, o, s, c)' = Doing(pc, o, s, c)
    BY <1>1 DEF Live, Silent, Doing
  <2>4. ASSUME NEW i \in Ids, Uploaded(r, i) PROVE Uploaded(r, i)'
    BY <1>1, <1>3, <2>3, <2>4, Unmoved DEF Uploaded
  <2>5. ASSUME InTrash(r) PROVE InTrash(r)'
    BY <1>1, <1>3, <2>2, <2>3, <2>5, Unmoved DEF InTrash, Trashes
  <2>6. ASSUME NEW q \in Names, MovedThere(r, q) PROVE MovedThere(r, q)'
    BY <1>1, <1>3, <2>2, <2>3, <2>6, Unmoved DEF MovedThere, Moves
  <2> QED BY <1>1, <2>1, <2>4, <2>5, <2>6 DEF Echoing
<1> QED BY <1>2, <1>4, <1>5

-----------------------------------------------------------------------------
(* An event is applied.                                                    *)

\* The first operation in the queue.
LEMMA Queues1 ==
    ASSUME ops = <<>>, later = <<>>, NEW o, OpSound(o), Enqueue(o)
    PROVE  items' = items /\ ops' = <<o>> /\ later' = <<>>
<1>1. <<o>> \in Seq(Op)
  BY DEF OpSound
<1> QED BY <1>1, StoreFirst DEF Enqueue

\* What applying an event leaves alone, and the rows it looks at.
LEMMA Applying ==
    ASSUME Sound, NEW p \in Names, ApplyLocal(p)
    PROVE  /\ UNCHANGED <<local, drive, feed, change, exec, marked>>
           /\ events' = [events EXCEPT ![p] = NoEvent]
           /\ NoEcho' = NoEcho
           /\ \A r \in items : /\ AtPath(r.path) = {r} /\ r \in Row /\ r.path \in Names
                               /\ r.rid \in Ids \cup {0} /\ r.key \in Keys
<1>1. \A r \in items : AtPath(r.path) = {r} /\ r \in Row
  BY DEF AtPath, Sound, TablesSound, RowsSound
<1> QED BY <1>1, Rows DEF ApplyLocal, world, NoEcho

\* It is the event that is told.
LEMMA Hears ==
    ASSUME NEW p \in Names, NEW q \in Names, NEW kind, NEW from, Telling(p, kind, from), ApplyLocal(q)
    PROVE  /\ q = p /\ events[p].kind = kind /\ events[p].from = from /\ Silent'
           /\ kind = "changed" => OnChanged(p)
           /\ kind = "deleted" => OnDeleted(p)
           /\ kind = "renamed" => OnRenamed(p)
<1>1. events[q].kind # "none"
  BY DEF ApplyLocal, OnChanged, OnDeleted, OnRenamed
<1>2. q = p /\ events[p].kind = kind /\ events[p].from = from
  BY <1>1, Tells
<1>3. Silent'
  BY <1>2, Tells DEF ApplyLocal
<1> QED BY <1>2, <1>3 DEF ApplyLocal, OnChanged, OnDeleted, OnRenamed

\* A file that changed is uploaded, if it is there.
LEMMA Tracks ==
    ASSUME Sound, NEW p \in Names, ApplyLocal(p), Track(p), local[p] # 0, Written(p),
           Silent', Idling, NoEcho, later = <<>>
    PROVE  Waiting'
<1>1. ops = <<>> /\ exec = Idle /\ exec' = Idle /\ NoEcho' /\ UNCHANGED <<local, drive>>
  BY Applying DEF Idling
<1>2. CASE AtPath(p) = {}
  <2>0. PICK r : r = NewRow(p, 0, 0)
    OBVIOUS
  <2>1. Store(items \cup {r}, <<Upload(r)>>)
    BY <1>2, <2>0 DEF Track
  <2>2. r \in Row /\ r.path = p /\ r.rid = 0 /\ r.md5 = 0 /\ ~r.trashed /\ r.key = NewKey
    <3>1. 0 \in Ids \cup {0} /\ 0 \in Contents
      BY Files
    <3> QED BY <1>2, <2>0, <3>1, NewRowSound DEF NewRow, Sound
  <2>3. items' = items \cup {r} /\ ops' = <<Upload(r)>>
    <3>1. <<Upload(r)>> \in Seq(Op)
      BY <2>2, Jobs DEF OpSound
    <3> QED BY <1>1, <2>1, <3>1, StoreFirst
  <2>4. RestBut(r, {}, 0)'
    <3> DEFINE I == {}
    <3>1. I \in SUBSET {0} /\ Rest({}, {p}, I)
      BY <1>2 DEF Written
    <3>2. \A s \in items : s.key # r.key
      BY <1>2, <2>2, KeyLeft DEF KeysOf, Sound
    <3>3. r \notin items /\ 0 \in Ids \cup {0} /\ RowsSound(items)
      BY <3>2 DEF Sound, TablesSound
    <3> HIDE DEF I
    <3> QED BY <1>1, <2>2, <2>3, <3>1, <3>2, <3>3, RestAdded
  <2>5. Due(Upload(r))' /\ Uploads(r)'
    BY <1>1, <2>2, <2>3, <2>4 DEF Due, Uploads, Linked
  <2> QED BY <2>3, <2>5 DEF Waiting
<1>3. ASSUME NEW r \in AtPath(p), Enqueue(Upload(r))
      PROVE  Waiting'
  <2>1. r \in items /\ r.path = p /\ AtPath(p) = {r} /\ r \in Row
    BY Applying DEF AtPath
  <2>2. items' = items /\ ops' = <<Upload(r)>>
    BY <1>1, <1>3, <2>1, Queues1, Jobs
  <2>3. Tracked(r) /\ RestBut(r, {}, r.rid)
    BY <2>1 DEF Written, Rest
  <2>4. Uploads(r)
    BY <2>1, <2>3 DEF Uploads, Linked
  <2>5. Due(Upload(r))' /\ Uploads(r)'
    BY <1>1, <2>2, <2>4, Unmoved DEF Due
  <2> QED BY <2>1, <2>2, <2>5 DEF Waiting
<1> QED BY <1>2, <1>3 DEF Track

\* The event of an edit on disk, or of the daemon's own write that has been recorded.
LEMMA SpeakingWay ==
    ASSUME Sound, Speaking, later = <<>>, NEW p \in Names, ApplyLocal(p)
    PROVE  Waiting' \/ AtEase'
<1>0. Idling /\ NoEcho /\ ops = <<>> /\ exec' = Idle /\ NoEcho' /\ UNCHANGED <<local, drive>>
  BY Phases, Applying DEF Idling
<1>1. ASSUME NEW q \in Names, Told(q, "changed", NoPath), local[q] # 0, Written(q)
      PROVE  Waiting'
  <2>1. q = p /\ Silent' /\ OnChanged(p)
    BY <1>1, Hears DEF Told
  <2> QED BY <1>0, <1>1, <2>1, Tracks DEF OnChanged
<1>2. ASSUME NEW r \in items, Told(r.path, "deleted", NoPath), local[r.path] = 0, Tracked(r),
             RestBut(r, {}, r.rid)
      PROVE  Waiting'
  <2>1. r.path = p /\ Silent' /\ OnDeleted(p) /\ AtPath(p) = {r} /\ r \in Row
    <3>1. r.path \in Names /\ Telling(r.path, "deleted", NoPath) /\ AtPath(r.path) = {r} /\ r \in Row
      BY <1>2, Applying DEF Told
    <3> QED BY <3>1, Hears
  <2>2. Enqueue(DeleteRemote(r))
    BY <1>2, <2>1 DEF OnDeleted, Tracked
  <2>3. items' = items /\ ops' = <<DeleteRemote(r)>>
    BY <1>0, <2>1, <2>2, Queues1, Jobs
  <2>4. Trashes(r)
    BY <1>2 DEF Trashes, Tracked, Live, Exists
  <2>5. Due(DeleteRemote(r))' /\ Trashes(r)'
    BY <1>0, <2>1, <2>3, <2>4, Unmoved DEF Due
  <2> QED BY <2>3, <2>5 DEF Waiting
<1>3. ASSUME NEW r \in items, NEW q \in Names, Told(q, "renamed", r.path), Moves(r, q)
      PROVE  Waiting'
  <2>1. /\ q = p /\ Silent' /\ OnRenamed(p) /\ events[p].from = r.path
        /\ AtPath(r.path) = {r} /\ r \in Row
    BY <1>3, Hears, Applying DEF Told
  <2>2. Enqueue(RenameRemote(r, q))
    BY <1>3, <2>1 DEF OnRenamed, Moves
  <2>3. items' = items /\ ops' = <<RenameRemote(r, q)>>
    BY <1>0, <2>1, <2>2, Queues1, Jobs
  <2>4. Due(RenameRemote(r, q))' /\ Moves(r, q)'
    BY <1>0, <1>3, <2>1, <2>3, Unmoved DEF Due
  <2> QED BY <2>3, <2>4 DEF Waiting
<1>4. ASSUME NEW q \in Names, Told(q, "deleted", NoPath), InRest, \A r \in AtPath(q) : r.trashed
      PROVE  AtEase'
  <2>1. q = p /\ Silent' /\ OnDeleted(p)
    BY <1>4, Hears DEF Told
  <2>2. UNCHANGED tables
    BY <1>4, <2>1 DEF OnDeleted
  <2>3. InRest'
    BY <1>0, <1>4, <2>2, Unmoved DEF tables
  <2> QED BY <1>0, <2>1, <2>2, <2>3 DEF AtEase, Idling, tables
<1>5. ASSUME NEW f \in Names, NEW q \in Names, Told(q, "renamed", f), AtPath(f) = {}, local[q] # 0, InRest
      PROVE  Waiting'
  <2>1. q = p /\ Silent' /\ OnRenamed(p) /\ events[p].from = f
    BY <1>5, Hears DEF Told
  <2>2. Track(p)
    BY <1>5, <2>1 DEF OnRenamed
  <2>3. PICK r \in AtPath(q) : r \in items /\ Settled(r) /\ r.path = q
    BY <1>5 DEF InRest, Rest, AtPath
  <2>4. Tracked(r)
    BY <1>5, <2>3 DEF Settled, InSync, Tracked
  <2>5. RestBut(r, {}, r.rid)
    BY <1>5, <2>3, RestFocus DEF OneByOne, Sound, TablesSound
  <2> QED BY <1>0, <1>5, <2>1, <2>2, <2>3, <2>4, <2>5, Tracks DEF Written
<1> QED BY <1>1, <1>2, <1>3, <1>4, <1>5 DEF Speaking

\* The event of the daemon's own write, before it is recorded.
LEMMA LandedWay ==
    ASSUME Sound, CalmSound, Landed, later = <<>>, NEW p \in Names, ApplyLocal(p)
    PROVE  Landed'
<1>0. NoEcho' /\ UNCHANGED <<local, drive, exec>>
  BY Phases, Applying
<1>1. \A pc, o, r, c : Doing(pc, o, r, c)' = Doing(pc, o, r, c)
  BY <1>0 DEF Doing
<1>2. ~Silent
  BY Tells DEF ApplyLocal, OnChanged, OnDeleted, OnRenamed
<1>3. ASSUME NEW r \in items, Got(r)
      PROVE  Landed'
  <2>1. ops = <<>> /\ Telling(r.path, "changed", NoPath) /\ r.path \in Names
    BY <1>2, <1>3, Applying DEF Got, Heard
  <2>2. r.path = p /\ Silent' /\ OnChanged(p) /\ AtPath(p) = {r} /\ r \in Row
    BY <2>1, Hears, Applying
  <2>3. local[p] # 0
    <3>1. r.rid \in Ids /\ drive[r.rid].st # "none"
      BY <1>3, Applying DEF Got, Gets, Live
    <3> QED BY <1>3, <2>2, <3>1 DEF Got, CalmSound
  <2>4. Enqueue(Upload(r))
    BY <2>2, <2>3 DEF OnChanged, Track
  <2>5. items' = items /\ ops' = <<Upload(r)>>
    BY <2>1, <2>2, <2>4, Queues1, Jobs
  <2>6. Got(r)'
    BY <1>0, <1>1, <1>3, <2>2, <2>5, Unmoved DEF Got, Heard
  <2> QED BY <2>5, <2>6 DEF Landed
<1>4. ASSUME NEW r \in items, NEW keep \in BOOLEAN, Unlinked(r, keep)
      PROVE  Landed'
  <2>1. ops = <<>> /\ Telling(r.path, "deleted", NoPath) /\ r.path \in Names
    BY <1>2, <1>4, Applying DEF Unlinked, Heard
  <2>2. r.path = p /\ Silent' /\ OnDeleted(p) /\ AtPath(p) = {r} /\ r \in Row /\ r.rid # 0
    <3>1. AtPath(r.path) = {r} /\ r \in Row /\ r.rid # 0
      BY <1>4, Applying DEF Unlinked, Unlinks
    <3> QED BY <2>1, <3>1, Hears
  <2>3. UNCHANGED tables \/ Enqueue(DeleteRemote(r))
    BY <2>2 DEF OnDeleted
  <2>4. items' = items /\ (ops' = <<>> \/ ops' = <<DeleteRemote(r)>>)
    BY <2>1, <2>2, <2>3, Queues1, Jobs DEF tables
  <2>5. Unlinked(r, keep)'
    BY <1>0, <1>1, <1>4, <2>2, <2>4, Unmoved DEF Unlinked, Heard
  <2> QED BY <2>4, <2>5 DEF Landed
<1>5. ASSUME NEW r \in items, NEW q \in Names, ShiftedThere(r, q)
      PROVE  Landed'
  <2>1. ops = <<>> /\ Telling(q, "renamed", r.path) /\ r.path \in Names
    BY <1>2, <1>5, Applying DEF ShiftedThere, Heard
  <2>2. /\ q = p /\ Silent' /\ OnRenamed(p) /\ events[p].from = r.path
        /\ AtPath(r.path) = {r} /\ r \in Row /\ r.rid # 0
    <3>1. AtPath(r.path) = {r} /\ r \in Row /\ r.rid # 0
      BY <1>5, Applying DEF ShiftedThere, Shifts
    <3> QED BY <2>1, <3>1, Hears
  <2>3. Enqueue(RenameRemote(r, q))
    BY <2>2 DEF OnRenamed
  <2>4. items' = items /\ ops' = <<RenameRemote(r, q)>>
    BY <2>1, <2>2, <2>3, Queues1, Jobs
  <2>5. ShiftedThere(r, q)'
    BY <1>0, <1>1, <1>5, <2>2, <2>4, Unmoved DEF ShiftedThere, Heard
  <2> QED BY <2>4, <2>5 DEF Landed
<1> QED BY <1>3, <1>4, <1>5 DEF Landed

\* Any event.
LEMMA ApplyLocalWay ==
    ASSUME Sound, CalmSound, OnItsWay, later = <<>>, NEW p \in Names, ApplyLocal(p)
    PROVE  OnItsWay'
<1>1. ~Silent
  BY Tells DEF ApplyLocal, OnChanged, OnDeleted, OnRenamed
<1>2. Speaking \/ Landed
  BY <1>1, Phases DEF OnItsWay
<1> QED BY <1>2, SpeakingWay, LandedWay DEF OnItsWay

-----------------------------------------------------------------------------
(* A change is applied.                                                    *)

\* What applying a change leaves alone.
LEMMA Receiving ==
    ASSUME Sound, ApplyRemote, NEW i \in Ids, Echo(i)
    PROVE  /\ UNCHANGED <<drive, feed, exec, marked>>
           /\ change.id = i /\ change.file = drive[i] /\ drive[i] \in File
           /\ NoEcho' /\ Echo(i)'
           /\ \A r \in items : /\ AtPath(r.path) = {r} /\ r \in Row /\ r.path \in Names
                               /\ r.rid \in Ids \cup {0}
           /\ 0 \notin Ids
<1>1. change = [id |-> i, file |-> drive[i]] /\ feed = <<>>
  BY DEF ApplyRemote, Echo
<1>2. feed' = <<>> /\ change' = NoChange
  BY <1>1 DEF ApplyRemote
<1>3. \A r \in items : AtPath(r.path) = {r} /\ r \in Row
  BY DEF AtPath, Sound, TablesSound, RowsSound
<1> QED BY <1>1, <1>2, <1>3, Rows DEF ApplyRemote, NoEcho, Echo, Ids, Sound, WorldSound

\* The row of the change is in sync already.
LEMMA InSyncAlready ==
    ASSUME Sound, NEW r \in items, NEW P \in SUBSET {r.path}, RestBut(r, P, r.rid), Settled(r),
           UNCHANGED <<items, local, drive>>
    PROVE  InRest'
<1> DEFINE S == {r}
<1>1. /\ items' = (items \ {r}) \cup S
      /\ \A t \in S : t.path \in {r.path} \cup P /\ t.rid = r.rid /\ Settled(t)'
      /\ \A t, u \in S : t = u
      /\ \A p \in {r.path} \cup P : local'[p] # 0 => \E t \in S : t.path = p
      /\ S # {}
  BY DEF Settled, InSync, Live
<1> HIDE DEF S
<1>2. RowsSound(items) /\ r.rid \in Ids \cup {0}
  BY Rows DEF Sound, TablesSound, RowsSound
<1> QED BY <1>1, <1>2, RestClosed

\* A new file of Drive is downloaded.
LEMMA NewWay ==
    ASSUME Sound, Idling, Silent, later = <<>>, marked = 0, ApplyRemote, NEW i \in Ids, Echo(i), New(i)
    PROVE  AtEase' \/ Waiting'
<1>1. /\ ops = <<>> /\ exec = Idle /\ exec' = Idle /\ NoEcho' /\ drive' = drive
      /\ change.id = i /\ change.file = drive[i] /\ 0 \notin Ids
  BY Receiving DEF Idling
<1>2. Unknown
  BY <1>1 DEF ApplyRemote, Gate, New
<1>3. Silent' /\ local' = local
  BY <1>2 DEF Unknown, OnDisk, Silent
<1>4. CASE ~Live(i)
  <2>1. UNCHANGED tables
    BY <1>1, <1>2, <1>4 DEF Unknown, Live
  <2>2. InRest'
    BY <1>1, <1>3, <1>4, <2>1, Unmoved DEF tables, New
  <2> QED BY <1>1, <1>3, <2>1, <2>2 DEF AtEase, Idling, tables
<1>5. CASE Live(i)
  <2>0. PICK p, r : p = drive[i].path /\ r = NewRow(p, i, drive[i].md5)
    OBVIOUS
  <2>1. Rest({}, {p}, {i}) /\ WithId(i) = {} /\ p \in Names /\ drive[i].md5 \in Contents
    BY <1>5, <2>0, Files DEF New, Live, Sound, WorldSound
  <2>2. AtPath(p) = {}
    BY <2>1 DEF Rest, AtPath
  <2>3. Store(items \cup {r}, <<Download(r, i, p)>>)
    BY <1>1, <1>2, <1>5, <2>0, <2>2 DEF Unknown, Live
  <2>4. r \in Row /\ r.path = p /\ r.rid = i /\ ~r.trashed /\ r.key = NewKey
    BY <2>0, <2>1, <2>2, NewRowSound DEF NewRow, Sound
  <2>5. items' = items \cup {r} /\ ops' = <<Download(r, i, p)>>
    <3>1. <<Download(r, i, p)>> \in Seq(Op)
      BY <2>1, <2>4, Jobs DEF OpSound
    <3> QED BY <1>1, <2>3, <3>1, StoreFirst
  <2>6. RestBut(r, {}, i)'
    <3> DEFINE I == {i}
    <3>1. I \in SUBSET {i} /\ Rest({}, {p}, I)
      BY <2>1
    <3>2. \A s \in items : s.key # r.key
      BY <2>1, <2>2, <2>4, KeyLeft DEF KeysOf, Sound
    <3>3. r \notin items /\ i \in Ids \cup {0} /\ RowsSound(items)
      BY <3>2 DEF Sound, TablesSound
    <3> HIDE DEF I
    <3> QED BY <1>1, <1>3, <2>1, <2>4, <2>5, <3>1, <3>2, <3>3, RestAdded
  <2>7. Due(Download(r, r.rid, r.path))' /\ Gets(r)'
    BY <1>1, <1>3, <1>5, <2>0, <2>4, <2>5, <2>6 DEF Due, Gets, Live
  <2> QED BY <2>5, <2>7 DEF Waiting
<1> QED BY <1>4, <1>5

\* What changed of a file of Drive with a row is done on disk.
LEMMA ChangedWay ==
    ASSUME Sound, Idling, Silent, later = <<>>, marked = 0, ApplyRemote,
           NEW r \in items, r.rid \in Ids, Echo(r.rid), Changed(r)
    PROVE  AtEase' \/ Waiting'
<1>0. PICK i \in Ids : i = r.rid
  OBVIOUS
<1>1. /\ ops = <<>> /\ exec = Idle /\ exec' = Idle /\ NoEcho' /\ drive' = drive
      /\ change.id = i /\ change.file = drive[i] /\ 0 \notin Ids /\ drive[i] \in File
      /\ r \in Row /\ r.path \in Names /\ RowsSound(items)
  BY <1>0, Receiving DEF Idling, Sound, TablesSound
<1>2. WithId(i) = {r}
  BY <1>0, <1>1 DEF Changed, RestBut, Rest, WithId
<1>3. Known(r)
  BY <1>1, <1>2 DEF ApplyRemote, Gate, Unknown
<1>4. ~Conflict(r)
  BY <1>0, <1>1 DEF Conflict, SamePlace, BothChanged, Changed
<1>5. Silent' /\ local' = local
  BY <1>3, <1>4 DEF Known, Removed, Trashed, Restored, Moved, NothingToPull, Pulled, OnDisk, Silent
<1>6. drive[i].path = r.path => RestBut(r, {}, i)
  <2>1. {r.path} \cup {r.path} = {r.path} \cup {}
    OBVIOUS
  <2> QED BY <1>0, <2>1 DEF Changed, RestBut
<1>7. ASSUME Settled(r), drive[i].path = r.path, UNCHANGED tables
      PROVE  AtEase'
  <2>1. InRest'
    <3> DEFINE P == {}
    <3>1. P \in SUBSET {r.path} /\ RestBut(r, P, r.rid)
      BY <1>0, <1>6, <1>7
    <3> HIDE DEF P
    <3> QED BY <1>1, <1>5, <1>7, <3>1, InSyncAlready DEF tables
  <2> QED BY <1>1, <1>5, <1>7, <2>1 DEF AtEase, Idling, tables
<1>8. CASE Removed(r)
  <2>1. Enqueue(DeleteLocal(r, FALSE)) /\ drive[i].st = "gone"
    BY <1>1, <1>8 DEF Removed
  <2>2. items' = items /\ ops' = <<DeleteLocal(r, FALSE)>>
    BY <1>1, <2>1, Queues1, Jobs
  <2>3. Unlinks(r, FALSE)
    BY <1>0, <1>1, <1>6, <2>1 DEF Unlinks, Changed, Live
  <2>4. Due(DeleteLocal(r, FALSE))' /\ Unlinks(r, FALSE)'
    BY <1>1, <1>5, <2>2, <2>3, Unmoved DEF Due
  <2> QED BY <2>2, <2>4 DEF Waiting
<1>9. CASE Trashed(r)
  <2>1. drive[i].st = "trashed" /\ drive[i].path = r.path
    BY <1>0, <1>1, <1>9 DEF Trashed, Changed, Live
  <2>2. CASE r.trashed
    <3>1. Settled(r) /\ UNCHANGED tables
      BY <1>0, <1>1, <1>9, <2>1, <2>2 DEF Trashed, Settled, Changed
    <3> QED BY <1>7, <2>1, <3>1
  <2>3. CASE ~r.trashed
    <3>1. Enqueue(DeleteLocal(r, TRUE))
      BY <1>9, <2>3 DEF Trashed
    <3>2. items' = items /\ ops' = <<DeleteLocal(r, TRUE)>>
      BY <1>1, <3>1, Queues1, Jobs
    <3>3. Unlinks(r, TRUE)
      BY <1>0, <1>1, <1>6, <2>1 DEF Unlinks
    <3>4. Due(DeleteLocal(r, TRUE))' /\ Unlinks(r, TRUE)'
      BY <1>1, <1>5, <3>2, <3>3, Unmoved DEF Due
    <3> QED BY <3>2, <3>4 DEF Waiting
  <2> QED BY <2>2, <2>3
<1>10. CASE Restored(r)
  <2>0. PICK s : s = [r EXCEPT !.trashed = FALSE]
    OBVIOUS
  <2>1. s.key = r.key /\ s.path = r.path /\ s.rid = r.rid /\ ~s.trashed
    BY <1>1, <2>0 DEF Row
  <2>2. /\ Store((items \ {r}) \cup {s}, <<Download(r, i, r.path)>>)
        /\ drive[i].st = "live" /\ drive[i].path = r.path
    BY <1>0, <1>1, <1>10, <2>0 DEF Restored, Change, Changed
  <2>3. items' = (items \ {r}) \cup {s} /\ ops' = <<Download(r, i, r.path)>>
    <3>1. <<Download(r, i, r.path)>> \in Seq(Op)
      BY <1>1, Jobs DEF OpSound
    <3> QED BY <1>1, <2>2, <3>1, StoreFirst
  <2>4. RestBut(s, {}, i)'
    <3>1. i \in Ids \cup {0} /\ RestBut(r, {}, i) /\ r.rid \in {0, i} /\ s.rid = i
      BY <1>0, <1>6, <2>1, <2>2
    <3> QED BY <1>1, <1>5, <2>1, <2>3, <3>1, RestRow
  <2>5. Download(r, i, r.path) = Download(s, s.rid, s.path)
    BY <1>0, <2>1 DEF Download, Job
  <2>6. Due(Download(s, s.rid, s.path))' /\ Gets(s)'
    BY <1>0, <1>1, <1>5, <2>1, <2>2, <2>3, <2>4, <2>5 DEF Due, Gets, Live
  <2> QED BY <2>3, <2>6 DEF Waiting
<1>11. CASE Moved(r)
  <2>0. PICK q : q = drive[i].path
    OBVIOUS
  <2>1. /\ drive[i].st = "live" /\ ~r.trashed /\ q # r.path /\ drive[i].md5 = r.md5
        /\ local[r.path] = r.md5 /\ local[q] = 0 /\ RestBut(r, {q}, i) /\ q \in Names
    BY <1>0, <1>1, <1>11, <2>0, Files DEF Moved, Changed, Sound, WorldSound
  <2>2. Enqueue(RenameLocal(r, q))
    BY <1>1, <1>11, <2>0, <2>1 DEF Moved, Enqueue
  <2>3. items' = items /\ ops' = <<RenameLocal(r, q)>>
    BY <1>1, <2>1, <2>2, Queues1, Jobs
  <2>4. Shifts(r, q, r.path)
    BY <1>0, <1>1, <2>0, <2>1 DEF Shifts, Live
  <2>5. Due(RenameLocal(r, q))' /\ Shifts(r, q, r.path)'
    BY <1>1, <1>5, <2>3, <2>4, Unmoved DEF Due
  <2> QED BY <2>1, <2>3, <2>5 DEF Waiting
<1>12. CASE NothingToPull(r)
  <2>1. /\ drive[i].st = "live" /\ ~r.trashed /\ drive[i].path = r.path /\ UNCHANGED tables
        /\ drive[i].md5 = r.md5 /\ local[r.path] = r.md5
    BY <1>0, <1>1, <1>12 DEF NothingToPull, SamePlace, Changed
  <2>2. Settled(r)
    BY <1>0, <1>1, <2>1 DEF Settled, InSync, Live
  <2> QED BY <1>7, <2>1, <2>2
<1>13. CASE Pulled(r)
  <2>1. /\ drive[i].st = "live" /\ ~r.trashed /\ drive[i].path = r.path
        /\ Enqueue(Download(r, i, r.path))
    BY <1>1, <1>13 DEF Pulled, SamePlace
  <2>2. items' = items /\ ops' = <<Download(r, i, r.path)>>
    BY <1>1, <2>1, Queues1, Jobs
  <2>3. Gets(r)
    BY <1>0, <1>1, <1>6, <2>1 DEF Gets, Live
  <2>4. Due(Download(r, r.rid, r.path))' /\ Gets(r)'
    BY <1>0, <1>1, <1>5, <2>2, <2>3, Unmoved DEF Due
  <2> QED BY <2>2, <2>4 DEF Waiting
<1> QED BY <1>3, <1>4, <1>8, <1>9, <1>10, <1>11, <1>12, <1>13 DEF Known

\* The echo of an operation that has not been recorded yet is taken for one.
LEMMA EchoWay ==
    ASSUME Sound, Echoing, ApplyRemote
    PROVE  Echoing'
<1>1. PICK r \in items : \/ \E i \in Ids : Uploaded(r, i)
                         \/ InTrash(r)
                         \/ \E q \in Names : MovedThere(r, q)
  BY DEF Echoing
<1>2. r \in Row /\ r.rid \in Ids \cup {0} /\ 0 \notin Ids
  BY Rows DEF Sound, TablesSound, RowsSound, Ids
<1>3. ASSUME Gate
      PROVE  UNCHANGED <<items, local, ops, events, Silent>>
  BY <1>3 DEF Gate, OnDisk, tables, Silent
<1>4. \A pc, o, s, c : Doing(pc, o, s, c)' = Doing(pc, o, s, c)
  BY DEF Doing, ApplyRemote
<1>5. ASSUME NEW i \in Ids, Uploaded(r, i)
      PROVE  Uploaded(r, i)' /\ items' = items
  <2>1. /\ change.id = i /\ change.file = drive[i] /\ Echo(i)' /\ AtPath(r.path) = {r}
        /\ UNCHANGED <<drive, marked>>
    BY <1>5, Receiving DEF Uploaded
  <2>2. UNCHANGED <<items, local, ops, events, Silent>>
    <3>1. CASE marked = i
      BY <1>3, <2>1, <3>1 DEF ApplyRemote, Gate
    <3>2. CASE marked # i
      <4>1. marked = 0 /\ r.rid = 0 /\ RestBut(r, {}, i)
        BY <1>5, <3>2 DEF Uploaded
      <4>2. WithId(i) = {}
        BY <1>2, <4>1 DEF RestBut, Rest, WithId, Sound, TablesSound, RowsSound
      <4>3. Unknown
        BY <1>2, <2>1, <4>1, <4>2 DEF ApplyRemote, Gate
      <4>4. drive[i].st = "live" /\ AtPath(drive[i].path) # {}
        BY <1>5, <2>1 DEF Uploaded
      <4>5. UNCHANGED tables /\ OnDisk
        BY <2>1, <4>3, <4>4 DEF Unknown
      <4> QED BY <4>5 DEF tables, OnDisk, Silent
    <3> QED BY <3>1, <3>2
  <2> QED BY <1>4, <1>5, <2>1, <2>2, Unmoved DEF Uploaded
<1>6. ASSUME r.rid # 0, Echo(r.rid), marked = r.rid
      PROVE  /\ UNCHANGED <<items, local, ops, events, Silent, drive, marked, Live(r.rid)>>
             /\ Echo(r.rid)'
  <2>1. change.id = r.rid /\ Echo(r.rid)' /\ UNCHANGED <<drive, marked>>
    BY <1>2, <1>6, Receiving
  <2>2. Gate
    BY <1>6, <2>1 DEF ApplyRemote
  <2> QED BY <1>3, <2>1, <2>2 DEF Live
<1>7. ASSUME InTrash(r)
      PROVE  InTrash(r)' /\ items' = items
  BY <1>4, <1>6, <1>7, Unmoved DEF InTrash, Trashes
<1>8. ASSUME NEW q \in Names, MovedThere(r, q)
      PROVE  MovedThere(r, q)' /\ items' = items
  BY <1>4, <1>6, <1>8, Unmoved DEF MovedThere, Moves
<1> QED BY <1>1, <1>5, <1>7, <1>8 DEF Echoing

\* Any change.
LEMMA ApplyRemoteWay ==
    ASSUME Sound, CalmSound, OnItsWay, later = <<>>, ApplyRemote
    PROVE  OnItsWay'
<1>1. Changing \/ Echoing
  BY Phases DEF OnItsWay, ApplyRemote, NoEcho
<1>2. CASE Changing
  <2>1. PICK i \in Ids : Echo(i) /\ (New(i) \/ \E r \in items : r.rid = i /\ Changed(r))
    BY <1>2 DEF Changing
  <2>2. Idling /\ Silent /\ marked = 0
    BY <1>2 DEF Changing, Idling, CalmSound
  <2> QED BY <2>1, <2>2, NewWay, ChangedWay DEF OnItsWay
<1>3. CASE Echoing
  BY <1>3, EchoWay DEF OnItsWay
<1> QED BY <1>1, <1>2, <1>3

-----------------------------------------------------------------------------
(* Users.                                                                  *)

\* Whoever finds the daemon quiet finds it at ease.
LEMMA QuietMeansEase ==
    ASSUME Sound, OnItsWay, Quiet
    PROVE  AtEase
<1>1. Silent
  BY DEF Quiet, Silent, NoEvent, Event, Sound, CountsSound
<1>2. NoEcho
  BY DEF Quiet, NoEcho
<1> QED BY <1>1, <1>2, Phases DEF OnItsWay, Quiet

\* A user's step on disk leaves the daemon and Drive alone.
LEMMA EditsDisk ==
    ASSUME AtEase, NEW kind, User(kind), UNCHANGED <<drive, feed>>
    PROVE  UNCHANGED <<items, drive>> /\ Idling' /\ NoEcho'
BY DEF AtEase, User, tables, Idling, NoEcho

\* The row of a file on disk.
LEMMA RowOnDisk ==
    ASSUME Sound, AtEase, NEW p \in Names, local[p] # 0
    PROVE  \E r \in AtPath(p) : /\ r \in items /\ r.path = p /\ InSync(r) /\ Tracked(r)
                                /\ RestBut(r, {}, r.rid) /\ r.rid \in Ids
<1>1. PICK r \in AtPath(p) : r \in items /\ r.path = p /\ Settled(r)
  BY DEF AtEase, InRest, Rest, AtPath
<1>2. InSync(r) /\ Tracked(r)
  BY <1>1 DEF Settled, InSync, Tracked
<1>3. RestBut(r, {}, r.rid)
  BY <1>1, RestFocus DEF OneByOne, AtEase, Sound, TablesSound
<1>4. r.rid \in Ids
  BY <1>1, Rows DEF Settled, Sound, TablesSound, RowsSound
<1> QED BY <1>1, <1>2, <1>3, <1>4

\* A file is written.
LEMMA WriteWay ==
    ASSUME Sound, AtEase, "reuse" \notin UserOps, NEW p \in Paths, Write(p)
    PROVE  Speaking'
<1>1. /\ p \in Names /\ UNCHANGED <<items, drive>> /\ Idling' /\ NoEcho' /\ Telling(p, "changed", NoPath)'
      /\ Usable(p, 0)
  BY EditsDisk, Tells DEF Write, AtEase, Names
<1>2. local'[p] # 0 /\ \A q \in Names \ {p} : local'[q] = local[q]
  <2>1. Fresh # 0 /\ local \in [Names -> Contents]
    BY FileSyncAssumption DEF Fresh, Sound, CountsSound, WorldSound
  <2> QED BY <1>1, <2>1 DEF Write
<1>3. CASE AtPath(p) = {}
  <2>1. \A r \in items : r.path # p /\ r.path \in Names
    BY <1>3, Rows DEF AtPath, Sound, TablesSound, RowsSound
  <2>2. \A r \in items : Settled(r)'
    BY <1>1, <1>2, <2>1 DEF AtEase, InRest, Rest, Settled, InSync, Live
  <2>3. Rest({}, {p}, {})'
    BY <1>1, <1>2, <2>1, <2>2 DEF AtEase, InRest, Rest, AtPath, WithId, Live
  <2> QED BY <1>1, <1>2, <2>3 DEF Speaking, Told, Written
<1>4. ASSUME NEW r \in AtPath(p)
      PROVE  Speaking'
  <2>1. r \in items /\ r.path = p /\ Settled(r) /\ r.rid \in Ids /\ 0 \notin Ids
    BY Rows DEF AtPath, AtEase, InRest, Rest, Settled, Sound, TablesSound, RowsSound, Ids
  <2>2. ~r.trashed
    BY <1>1, <2>1 DEF Usable
  <2>3. Tracked(r)'
    BY <1>1, <2>1, <2>2 DEF Settled, InSync, Tracked, Live
  <2>4. RestBut(r, {}, r.rid)
    BY <2>1, RestFocus DEF OneByOne, AtEase, Sound, TablesSound
  <2>5. RestBut(r, {}, r.rid)'
    BY <1>1, <1>2, <2>1, <2>4, RestFrame DEF Sound, TablesSound
  <2>6. Written(p)'
    BY <1>1, <2>1, <2>3, <2>5 DEF Written, AtPath
  <2> QED BY <1>1, <1>2, <2>6 DEF Speaking, Told
<1> QED BY <1>3, <1>4

\* A file is removed.
LEMMA RemoveWay ==
    ASSUME Sound, AtEase, NEW p \in Paths, RemoveFile(p)
    PROVE  Speaking'
<1>1. p \in Names /\ UNCHANGED <<items, drive>> /\ Idling' /\ NoEcho' /\ Telling(p, "deleted", NoPath)'
  BY EditsDisk, Tells DEF RemoveFile, AtEase, Names
<1>2. local'[p] = 0 /\ \A q \in Names \ {p} : local'[q] = local[q]
  BY <1>1 DEF RemoveFile, Sound, WorldSound
<1>3. PICK r \in items : r.path = p /\ Tracked(r) /\ RestBut(r, {}, r.rid) /\ r.rid \in Ids
  BY <1>1, RowOnDisk DEF RemoveFile
<1>4. Tracked(r)'
  BY <1>1, <1>3 DEF Tracked, Live
<1>5. RestBut(r, {}, r.rid)'
  BY <1>1, <1>2, <1>3, RestFrame DEF Sound, TablesSound
<1> QED BY <1>1, <1>2, <1>3, <1>4, <1>5 DEF Speaking, Told

\* A file is moved to a path that no file and no tombstone has.
LEMMA MoveWay ==
    ASSUME Sound, CalmSound, AtEase, UserOps \cap {"replace", "reuse"} = {}, NEW p \in Paths, NEW q \in Paths,
           Move(p, q)
    PROVE  Speaking'
<1>1. /\ p \in Names /\ q \in Names /\ UNCHANGED <<items, drive>> /\ Idling' /\ NoEcho'
      /\ Telling(q, "renamed", p)' /\ Usable(q, 0) /\ p # q /\ local[p] # 0 /\ local[q] = 0
  BY EditsDisk, Tells DEF Move, AtEase, Names
<1>2. /\ local'[p] = 0 /\ local'[q] = local[p]
      /\ \A x \in Names \ {p, q} : local'[x] = local[x]
  BY <1>1 DEF Move, Sound, WorldSound
<1>3. PICK r \in items : r.path = p /\ InSync(r) /\ r.rid \in Ids /\ Tracked(r)
  BY <1>1, RowOnDisk
<1>4. \A s \in items : s.path # q
  <2> SUFFICES ASSUME NEW s \in items, s.path = q PROVE FALSE
    OBVIOUS
  <2>1. Settled(s) /\ s.rid \in Ids
    BY Rows DEF AtEase, InRest, Rest, Settled, Sound, TablesSound, RowsSound
  <2>2. ~s.trashed
    BY <1>1, <2>1 DEF Usable, Settled
  <2> QED BY <1>1, <2>1, <2>2 DEF Settled, InSync, Live, CalmSound
<1>5. RestBut(r, {q}, r.rid)
  BY <1>1, <1>3, <1>4, RestFocus DEF OneByOne, AtEase, Sound, TablesSound
<1>6. RestBut(r, {q}, r.rid)'
  <2>1. \A x \in Names \ ({r.path} \cup {q}) : local'[x] = local[x]
    BY <1>2, <1>3
  <2> QED BY <1>1, <1>3, <1>5, <2>1, RestFrame DEF Sound, TablesSound
<1>7. Moves(r, q)'
  BY <1>1, <1>2, <1>3, <1>6 DEF Moves, Live, InSync, Tracked, Ids
<1> QED BY <1>1, <1>3, <1>7 DEF Speaking, Told

-----------------------------------------------------------------------------
\* A file of Drive with a row changes.
LEMMA ChangesKnown ==
    ASSUME Sound, AtEase, NEW i \in Ids, NEW f, f.st # "none", f.path \in Names, SetDrive(i, f),
           UNCHANGED <<items, local, ops, exec, events, change>>, NEW r \in items, r.rid = i,
           f.path # r.path =>
              ~r.trashed /\ f.st = "live" /\ local[f.path] = 0 /\ AtPath(f.path) = {} /\ f.md5 = r.md5
    PROVE  Changing'
<1>1. Echo(i)' /\ ~NoEcho' /\ drive'[i] = f /\ \A j \in Ids \ {i} : drive'[j] = drive[j]
  BY SetDriveFirst DEF AtEase, Sound
<1>2. Settled(r) /\ 0 \notin Ids /\ RowsSound(items)
  BY DEF AtEase, InRest, Rest, Ids, Sound, TablesSound
<1>3. RestBut(r, {f.path}, i)
  <2>1. \A s \in items : s.path \in {f.path} => s = r
    BY <1>2 DEF AtPath, RowsSound
  <2> QED BY <1>2, <2>1, RestFocus DEF OneByOne, AtEase
<1>4. RestBut(r, {f.path}, i)'
  BY <1>1, <1>2, <1>3, RestFrame
<1>5. Changed(r)'
  BY <1>1, <1>2, <1>4 DEF Changed, Settled, InSync, Live
<1> QED BY <1>1, <1>5 DEF Changing, AtEase, Silent, Idling

\* So does one without.
LEMMA ChangesNew ==
    ASSUME Sound, AtEase, NEW i \in Ids, NEW f, f.st # "none", f.path \in Names, SetDrive(i, f),
           UNCHANGED <<items, local, ops, exec, events, change>>, WithId(i) = {},
           f.st = "live" => AtPath(f.path) = {}
    PROVE  Changing'
<1>1. Echo(i)' /\ ~NoEcho' /\ drive'[i] = f /\ \A j \in Ids \ {i} : drive'[j] = drive[j]
  BY SetDriveFirst DEF AtEase, Sound
<1>2. \A r \in items : r.rid # i /\ r.rid \in Ids /\ Settled(r)
  BY Rows DEF AtEase, InRest, Rest, WithId, Settled, Sound, TablesSound, RowsSound
<1>3. \A r \in items : Settled(r)'
  BY <1>1, <1>2 DEF Settled, InSync, Live
<1>4. \A j \in Ids \ {i} : Live(j)' = Live(j)
  BY <1>1 DEF Live
<1>5. New(i)'
  <2>1. CASE f.st = "live"
    <3>1. local[f.path] = 0 /\ \A r \in items : r.path # f.path
      BY <2>1 DEF AtEase, InRest, Rest, AtPath
    <3>2. Rest({}, {f.path}, {i})'
      BY <1>2, <1>3, <1>4, <3>1 DEF AtEase, InRest, Rest, AtPath, WithId
    <3> QED BY <1>1, <2>1, <3>1, <3>2 DEF New, Live, WithId
  <2>2. CASE f.st # "live"
    <3>1. ~Live(i)'
      BY <1>1, <2>2 DEF Live
    <3>2. InRest'
      BY <1>3, <1>4, <3>1 DEF AtEase, InRest, Rest, AtPath, WithId
    <3> QED BY <1>1, <3>1, <3>2 DEF New, WithId
  <2> QED BY <2>1, <2>2
<1> QED BY <1>1, <1>5 DEF Changing, AtEase, Silent, Idling

\* Where Drive has no file, there is none on disk, and no row but the file's own.
LEMMA NoneThere ==
    ASSUME Sound, AtEase, "reuse" \notin UserOps, NEW p \in Names, NEW i \in Ids, Vacant(p), Usable(p, i)
    PROVE  /\ \A s \in AtPath(p) : s.rid = i /\ s.trashed
           /\ AtPath(p) = {} => local[p] = 0
<1>1. \A s \in AtPath(p) : s \in items /\ s.path = p /\ Settled(s) /\ s.rid \in Ids
  BY Rows DEF AtPath, AtEase, InRest, Rest, Settled, Sound, TablesSound, RowsSound
<1>2. \A s \in AtPath(p) : s.trashed
  BY <1>1 DEF Settled, InSync, Vacant
<1> QED BY <1>1, <1>2 DEF Usable, AtEase, InRest, Rest

\* A user's step on Drive.
LEMMA RemoteWay ==
    ASSUME Sound, AtEase, "reuse" \notin UserOps, NEW i \in Ids, RemoteStep(i)
    PROVE  Changing'
<1>0. /\ UNCHANGED <<items, local, ops, exec, events, change>>
      /\ drive[i] \in File /\ (drive[i].st # "none" => drive[i].path \in Names) /\ 0 \notin Ids
  <2>1. \E kind, f, old, new : Remote(kind, i, f, old, new)
    BY DEF RemoteStep
  <2>2. UNCHANGED <<items, local, ops, exec, events, change>>
    BY <2>1 DEF Remote, User, tables
  <2> QED BY <2>2, Files DEF Sound, WorldSound, Ids
<1>1. ASSUME NEW p \in Paths, IsNew(i), Vacant(p), Usable(p, i),
             SetDrive(i, [path |-> p, md5 |-> Fresh, st |-> "live"])
      PROVE  Changing'
  <2>0. PICK f : f = [path |-> p, md5 |-> Fresh, st |-> "live"]
    OBVIOUS
  <2>1. f.st = "live" /\ f.path = p /\ p \in Names /\ SetDrive(i, f)
    BY <1>1, <2>0 DEF Names
  <2>2. WithId(i) = {}
    BY <1>0, <1>1 DEF AtEase, InRest, Rest, WithId, Settled, InSync, Live, IsNew
  <2>3. AtPath(p) = {}
    BY <1>1, <2>1, <2>2, NoneThere DEF WithId, AtPath
  <2> QED BY <1>0, <2>1, <2>2, <2>3, ChangesNew
<1>2. ASSUME NEW f, SetDrive(i, f), f.st # "none", f.path = drive[i].path, drive[i].st # "none",
             f.st = "live" /\ ~Live(i) => Vacant(f.path) /\ Usable(f.path, i)
      PROVE  Changing'
  <2>1. CASE WithId(i) = {}
    <3>1. ~Live(i)
      BY <2>1 DEF AtEase, InRest, Rest
    <3>2. f.path \in Names
      BY <1>0, <1>2
    <3>3. f.st = "live" => AtPath(f.path) = {}
      BY <1>2, <2>1, <3>1, <3>2, NoneThere DEF WithId, AtPath
    <3> QED BY <1>0, <1>2, <2>1, <3>2, <3>3, ChangesNew
  <2>2. ASSUME NEW r \in WithId(i)
        PROVE  Changing'
    <3>1. r \in items /\ r.rid = i /\ Settled(r)
      BY DEF WithId, AtEase, InRest, Rest
    <3>2. f.path = r.path /\ f.path \in Names
      BY <1>0, <1>2, <3>1 DEF Settled, InSync
    <3> QED BY <1>0, <1>2, <3>1, <3>2, ChangesKnown
  <2> QED BY <2>1, <2>2
<1>3. ASSUME NEW p \in Paths, Live(i), Vacant(p), Usable(p, i), SetDrive(i, [drive[i] EXCEPT !.path = p])
      PROVE  Changing'
  <2>0. PICK f : f = [drive[i] EXCEPT !.path = p]
    OBVIOUS
  <2>1. f.st = "live" /\ f.path = p /\ p \in Names /\ SetDrive(i, f) /\ f.md5 = drive[i].md5
    BY <1>0, <1>3, <2>0 DEF Names, Live, File
  <2>2. PICK r \in items : r.rid = i /\ Settled(r)
    BY <1>3 DEF AtEase, InRest, Rest, WithId
  <2>3. ~r.trashed /\ f.md5 = r.md5
    BY <1>3, <2>1, <2>2 DEF Settled, InSync, Live
  <2>4. AtPath(p) = {}
    BY <1>0, <1>3, <2>1, <2>2, <2>3, NoneThere DEF AtPath, AtEase, InRest, Rest
  <2>5. local[p] = 0
    BY <1>3, <2>1, <2>4, NoneThere
  <2> QED BY <1>0, <2>1, <2>2, <2>3, <2>4, <2>5, ChangesKnown
<1>4. CASE Live(i) /\ SetDrive(i, [drive[i] EXCEPT !.md5 = Fresh])
  <2>0. PICK f : f = [drive[i] EXCEPT !.md5 = Fresh]
    OBVIOUS
  <2>1. f.st = drive[i].st /\ f.path = drive[i].path
    BY <1>0, <2>0 DEF File
  <2> QED BY <1>2, <1>4, <2>0, <2>1 DEF Live
<1>5. ASSUME NEW st \in {"live", "trashed", "gone"}, SetDrive(i, [drive[i] EXCEPT !.st = st]), Exists(i),
             st = "live" => Vacant(drive[i].path) /\ Usable(drive[i].path, i)
      PROVE  Changing'
  <2>0. PICK f : f = [drive[i] EXCEPT !.st = st]
    OBVIOUS
  <2>1. f.st = st /\ f.path = drive[i].path
    BY <1>0, <2>0 DEF File
  <2> QED BY <1>2, <1>5, <2>0, <2>1 DEF Exists
<1> QED BY <1>1, <1>3, <1>4, <1>5 DEF RemoteStep, Remote, Live, Exists

-----------------------------------------------------------------------------
(* Every step.                                                             *)

\* A user who interferes, or a call that fails, is counted for ever.
LEMMA CalmBefore ==
    ASSUME Sound, [Next]_vars, Calm'
    PROVE  Calm /\ UNCHANGED <<overlaps, faults>>
<1>1. overlaps \in Nat /\ faults \in Nat
  BY FileSyncAssumption DEF Sound, CountsSound
<1>2. overlaps' \in {overlaps, overlaps + 1} /\ faults' \in {faults, faults + 1}
  <2>1. ASSUME UNCHANGED faults, UserStep \/ \E i \in Ids : Redeliver(i)
        PROVE  overlaps' \in {overlaps, overlaps + 1}
    <3>1. ASSUME NEW i \in Ids, RemoteStep(i) PROVE Interfere
      <4>1. \E kind, f, old, new : Remote(kind, i, f, old, new)
        BY <3>1 DEF RemoteStep
      <4> QED BY <4>1 DEF Remote, User
    <3>2. Interfere
      BY <2>1, <3>1 DEF UserStep, Write, RemoveFile, Move, User, Redeliver
    <3> QED BY <3>2 DEF Interfere
  <2>2. UserStep \/ (\E i \in Ids : Redeliver(i)) => UNCHANGED faults
    <3>1. ASSUME NEW i \in Ids, RemoteStep(i) PROVE UNCHANGED faults
      <4>1. \E kind, f, old, new : Remote(kind, i, f, old, new)
        BY <3>1 DEF RemoteStep
      <4> QED BY <4>1 DEF Remote, User
    <3> QED BY <3>1 DEF UserStep, Write, RemoveFile, Move, User, Redeliver
  <2>3. CASE Breaks
    BY <2>3 DEF Breaks, Retry, ghosts
  <2>4. CASE ExecStep \/ ComesDue \/ Fetch \/ ApplyRemote \/ \E p \in Names : ApplyLocal(p)
    BY <2>4 DEF ExecStep, Begin, Act, Mark, Record, Fails, Retry, ComesDue, Fetch, ApplyRemote,
                   ApplyLocal, ghosts
  <2>5. CASE UNCHANGED vars
    BY <2>5 DEF vars, ghosts
  <2> QED BY <2>1, <2>2, <2>3, <2>4, <2>5 DEF Next, FaultStep
<1>3. overlaps' + faults' = 0
  BY DEF Calm
<1>4. overlaps' = overlaps /\ faults' = faults
  <2>1. \A n, m \in Nat : n + m = 0 => n = 0 /\ m = 0
    OBVIOUS
  <2>2. overlaps' \in Nat /\ faults' \in Nat
    BY <1>1, <1>2
  <2>3. overlaps' = 0 /\ faults' = 0
    BY <1>3, <2>1, <2>2
  <2> QED BY <1>1, <1>2, <2>3
<1> QED BY <1>3, <1>4 DEF Calm

\* Only failed operations are put off.
LEMMA LaterStays ==
    ASSUME Sound, [Next]_vars, UNCHANGED faults, later = <<>>, ~Fails
    PROVE  later' = <<>>
<1>1. ASSUME NEW R, NEW jobs, Store(R, jobs) PROVE later' = <<>>
  BY <1>1, OnlyShort DEF Store, Without
<1>2. CASE UserStep
  <2>1. ASSUME NEW i \in Ids, RemoteStep(i) PROVE UNCHANGED later
    <3>1. \E kind, f, old, new : Remote(kind, i, f, old, new)
      BY <2>1 DEF RemoteStep
    <3> QED BY <3>1 DEF Remote, User, tables
  <2> QED BY <1>2, <2>1 DEF UserStep, Write, RemoveFile, Move, User, tables
<1>3. CASE FaultStep
  <2>1. ~Breaks
    BY FileSyncAssumption DEF Breaks, Sound, CountsSound
  <2> QED BY <1>3, <2>1 DEF FaultStep, Redeliver, tables
<1>4. CASE Begin \/ Act \/ Mark \/ Fetch
  BY <1>4 DEF Begin, BeginUpload, BeginRemote, BeginLocal, Enter, Drop, Act, Mark, Fetch, tables
<1>5. CASE Record
  <2>1. ASSUME SavePath PROVE later' = <<>>
    BY <1>1, <2>1 DEF SavePath, Delete, Change, tables
  <2>2. ASSUME NEW r, Save(r) PROVE later' = <<>>
    BY <1>1, <2>2 DEF Save, Delete, Change, Repath
  <2> QED BY <1>5, <2>1, <2>2 DEF Record, tables
<1>6. ~ComesDue
  <2>1. DOMAIN <<>> = {}
    OBVIOUS
  <2> QED BY <2>1 DEF ComesDue
<1>7. CASE ApplyRemote
  <2>1. ASSUME NEW r, Known(r) PROVE later' = <<>>
    BY <1>1, <2>1 DEF Known, Removed, Trashed, Restored, Moved, NothingToPull, Pulled, Conflict, Enqueue,
                      Change, tables
  <2>2. ASSUME Unknown PROVE later' = <<>>
    BY <1>1, <2>2 DEF Unknown, tables
  <2> QED BY <1>7, <2>1, <2>2 DEF ApplyRemote, Gate, tables
<1>8. ASSUME NEW p \in Names, ApplyLocal(p) PROVE later' = <<>>
  <2>1. ASSUME Track(p) PROVE later' = <<>>
    BY <1>1, <2>1 DEF Track, Enqueue, tables
  <2> QED BY <1>1, <1>8, <2>1 DEF ApplyLocal, OnChanged, OnDeleted, OnRenamed, Enqueue, Delete, Repath, tables
<1>9. CASE UNCHANGED vars
  BY <1>9 DEF vars, tables
<1> QED BY <1>2, <1>3, <1>4, <1>5, <1>6, <1>7, <1>8, <1>9 DEF Next, ExecStep

\* A file that is on Drive has bytes.
LEMMA FullStays ==
    ASSUME Sound, CalmSound, [Next]_vars
    PROVE  (\A i \in Ids : drive[i].st # "none" => drive[i].md5 # 0)'
<1>0. \A i \in Ids : drive[i] \in File
  BY DEF Sound, WorldSound
<1>1. ASSUME NEW i \in Ids, NEW f, SetDrive(i, f), f.md5 # 0
      PROVE  \A j \in Ids : drive'[j].st # "none" => drive'[j].md5 # 0
  BY <1>1 DEF SetDrive, Sound, WorldSound, CalmSound
<1>2. ASSUME UNCHANGED drive
      PROVE  \A j \in Ids : drive'[j].st # "none" => drive'[j].md5 # 0
  BY <1>2 DEF CalmSound
<1>3. ASSUME NEW i \in Ids, NEW c, NEW x, drive[i].st # "none" \/ c # 0
      PROVE  /\ c # 0 => [drive[i] EXCEPT !.md5 = c].md5 # 0 /\ [path |-> x, md5 |-> c, st |-> "live"].md5 # 0
             /\ drive[i].st # "none" =>
                  [drive[i] EXCEPT !.st = x].md5 # 0 /\ [drive[i] EXCEPT !.path = x].md5 # 0
  BY <1>0, <1>3 DEF CalmSound, File
<1>4. CASE UserStep
  <2>1. Fresh # 0
    BY FileSyncAssumption DEF Fresh, Sound, CountsSound
  <2>2. ASSUME NEW i \in Ids, RemoteStep(i)
        PROVE  \E f : SetDrive(i, f) /\ f.md5 # 0
    BY <1>3, <2>1, <2>2 DEF RemoteStep, Remote, Live, Exists
  <2> QED BY <1>1, <1>2, <1>4, <2>2 DEF UserStep, Write, RemoveFile, Move
<1>5. CASE Act
  <2>1. ASSUME Update \/ Trash \/ MoveRemote
        PROVE  \E i \in Ids : (\E f : SetDrive(i, f) /\ f.md5 # 0) \/ UNCHANGED drive
    <3>1. exec.row.rid # 0 => exec.row.rid \in Ids
      BY <1>5, Rows DEF Act, Sound, ExecSound
    <3>2. exec.op.kind \in ToDrive => exec.row.rid # 0
      BY <1>5 DEF Act, Sound, ExecSound
    <3> QED BY <1>3, <2>1, <3>1, <3>2 DEF Update, Trash, MoveRemote, Live, Exists, At, ToDrive
  <2>2. ASSUME NEW i \in Ids, Create(i)
        PROVE  \E f : SetDrive(i, f) /\ f.md5 # 0
    BY <1>3, <2>2 DEF Create
  <2>3. Get \/ Unlink \/ MoveLocal => UNCHANGED drive
    BY DEF Get, Unlink, MoveLocal
  <2> QED BY <1>1, <1>2, <1>5, <2>1, <2>2, <2>3 DEF Act
<1>6. ASSUME ~UserStep, ~Act
      PROVE  UNCHANGED drive
  BY <1>6 DEF Next, FaultStep, ExecStep, Breaks, Redeliver, Begin, Mark, Record, Fails, Retry, ComesDue, Fetch,
              ApplyRemote, ApplyLocal, vars, world
<1> QED BY <1>2, <1>4, <1>5, <1>6

\* Between operations nothing is marked.
LEMMA UnmarkedStays ==
    ASSUME CalmSound, Sound, [Next]_vars
    PROVE  (exec = Idle => marked = 0)'
<1>1. \A e, pc : e.pc = pc /\ pc # "idle" => e # Idle
  BY DEF Idle
<1>2. ASSUME UNCHANGED <<exec, marked>> PROVE (exec = Idle => marked = 0)'
  BY <1>2 DEF CalmSound
<1>3. CASE UserStep
  <2>1. ASSUME NEW i \in Ids, RemoteStep(i) PROVE UNCHANGED <<exec, marked>>
    <3>1. \E kind, f, old, new : Remote(kind, i, f, old, new)
      BY <2>1 DEF RemoteStep
    <3> QED BY <3>1 DEF Remote, User
  <2> QED BY <1>2, <1>3, <2>1 DEF UserStep, Write, RemoveFile, Move, User
<1>4. CASE Begin
  <2>1. ASSUME NEW o, NEW r, NEW hash, NEW id, Enter(o, r, hash, id) PROVE exec' # Idle
    <3>1. exec' = [pc |-> "write", op |-> o, row |-> r, md5 |-> hash]
      BY <2>1 DEF Enter
    <3>2. exec'.pc = "write"
      BY <3>1
    <3> QED BY <1>1, <3>2
  <2> QED BY <1>2, <1>4, <2>1 DEF Begin, BeginUpload, BeginRemote, BeginLocal, Drop
<1>5. CASE Act \/ Mark
  <2>1. exec \in [pc : {"write", "mark", "record"}, op : Op, row : Row, md5 : Contents]
    BY <1>5 DEF Act, Mark, Sound, ExecSound
  <2>2. ASSUME ToRecord PROVE exec' # Idle
    <3>1. exec'.pc = "record"
      BY <2>1, <2>2 DEF ToRecord
    <3> QED BY <1>1, <3>1
  <2>3. ASSUME NEW i \in Ids, Create(i) PROVE exec' # Idle
    <3>1. exec'.pc = "mark"
      BY <2>1, <2>3 DEF Create
    <3> QED BY <1>1, <3>1
  <2> QED BY <1>5, <2>2, <2>3 DEF Act, Mark, Update, Get, Trash, Unlink, MoveRemote, MoveLocal
<1>6. CASE Record \/ Fails \/ Breaks
  BY <1>6 DEF Record, Fails, Breaks, Retry, Leave
<1>7. CASE ComesDue \/ Fetch \/ ApplyRemote \/ (\E p \in Names : ApplyLocal(p)) \/ (\E i \in Ids : Redeliver(i))
  BY <1>2, <1>7 DEF ComesDue, Fetch, ApplyRemote, ApplyLocal, Redeliver
<1>8. CASE UNCHANGED vars
  BY <1>2, <1>8 DEF vars
<1> QED BY <1>3, <1>4, <1>5, <1>6, <1>7, <1>8 DEF Next, ExecStep, FaultStep

\* A batch comes again.
LEMMA RedeliverWay ==
    ASSUME Sound, Sound', AtEase, NEW i \in Ids, Redeliver(i)
    PROVE  OnItsWay'
<1>1. /\ UNCHANGED <<local, drive, items, ops, events, change, exec>>
      /\ drive[i].st # "none" /\ feed' = <<i>> \o feed
  BY DEF Redeliver, tables
<1>2. feed' = <<i>>
  <2>1. <<i>> \o <<>> = <<i>>
    OBVIOUS
  <2> QED BY <1>1, <2>1 DEF AtEase, NoEcho
<1>3. InRest' /\ Silent' /\ Idling' /\ Echo(i)' /\ (drive[i].st # "none")'
  BY <1>1, <1>2, Unmoved DEF AtEase, NoEcho, Silent, Idling, Echo
<1> QED BY <1>3, RestedThen DEF OnItsWay

\* Nothing happens.
LEMMA StutterWay ==
    ASSUME OnItsWay, UNCHANGED vars
    PROVE  OnItsWay'
<1>1. UNCHANGED <<local, drive, feed, items, ops, events, change, exec, marked>>
  BY DEF vars, world, tables
<1>2. /\ Silent' = Silent /\ NoEcho' = NoEcho /\ Idling' = Idling
      /\ \A i : Echo(i)' = Echo(i) /\ Live(i)' = Live(i) /\ WithId(i)' = WithId(i) /\ AtPath(i)' = AtPath(i)
      /\ \A p, kind, from : Telling(p, kind, from)' = Telling(p, kind, from)
      /\ \A pc, o, r, c : Doing(pc, o, r, c)' = Doing(pc, o, r, c)
  BY <1>1 DEF Silent, NoEcho, Idling, Echo, Live, WithId, AtPath, Telling, Doing
<1>3. /\ \A o : Due(o)' = Due(o)
      /\ \A o, r, c, i : Begun(o, r, c, i)' = Begun(o, r, c, i)
      /\ \A p, kind, from : Told(p, kind, from)' = Told(p, kind, from)
      /\ \A p, kind, from, o : Heard(p, kind, from, o)' = Heard(p, kind, from, o)
  BY <1>1, <1>2 DEF Due, Begun, Told, Heard
<1>4. \A r : Settled(r)' = Settled(r) /\ Tracked(r)' = Tracked(r)
  BY <1>1 DEF Settled, InSync, Tracked, Live
<1>5. \A K, P, I : Rest(K, P, I)' = Rest(K, P, I)
  BY <1>1, <1>2, <1>4 DEF Rest
<1>6. AtEase' = AtEase /\ Speaking' = Speaking
  BY <1>1, <1>2, <1>3, <1>4, Unmoved DEF AtEase, Speaking
<1>7. Changing' = Changing
  <2>1. \A i : New(i)' = New(i)
    BY <1>1, <1>2, <1>5, Unmoved DEF New
  <2>2. \A r : Changed(r)' = Changed(r)
    BY <1>1, <1>2, Unmoved DEF Changed
  <2> QED BY <1>1, <1>2, <2>1, <2>2 DEF Changing
<1>8. Waiting' = Waiting /\ Writing' = Writing
  BY <1>1, <1>3, Unmoved DEF Waiting, Writing
<1>9. Echoing' = Echoing
  <2>1. \A r, i : Uploaded(r, i)' = Uploaded(r, i)
    BY <1>1, <1>2, Unmoved DEF Uploaded
  <2>2. \A r, q : InTrash(r)' = InTrash(r) /\ MovedThere(r, q)' = MovedThere(r, q)
    BY <1>1, <1>2, Unmoved DEF InTrash, MovedThere
  <2> QED BY <1>1, <2>1, <2>2 DEF Echoing
<1>10. Landed' = Landed
  <2>1. \A r, q, keep : /\ Got(r)' = Got(r) /\ Unlinked(r, keep)' = Unlinked(r, keep)
                        /\ ShiftedThere(r, q)' = ShiftedThere(r, q)
    BY <1>1, <1>2, <1>3, Unmoved DEF Got, Unlinked, ShiftedThere
  <2> QED BY <1>1, <2>1 DEF Landed
<1> QED BY <1>6, <1>7, <1>8, <1>9, <1>10 DEF OnItsWay

\* Every step keeps it.
LEMMA CalmKept ==
    ASSUME UserOps \cap {"replace", "reuse"} = {}, Sound, CalmSound, [Next]_vars
    PROVE  CalmSound'
<1>1. Sound'
  BY SoundKept
<1>2. ASSUME Calm' PROVE later' = <<>> /\ OnItsWay'
  <2>1. Calm /\ UNCHANGED <<overlaps, faults>> /\ later = <<>> /\ OnItsWay
    BY <1>2, CalmBefore DEF CalmSound
  <2>2. ~Fails
    BY <2>1, FailsWay
  <2>3. later' = <<>>
    BY <2>1, <2>2, LaterStays
  <2>4. ~Breaks
    BY <2>1, FileSyncAssumption DEF Breaks, Sound, CountsSound
  <2>5. ASSUME Interfere PROVE AtEase
    <3>1. Quiet
      BY <2>1, <2>5, FileSyncAssumption DEF Interfere, Sound, CountsSound
    <3> QED BY <2>1, <3>1, QuietMeansEase
  <2>6. CASE UserStep
    <3>1. Interfere
      <4>1. ASSUME NEW i \in Ids, RemoteStep(i) PROVE Interfere
        <5>1. \E kind, f, old, new : Remote(kind, i, f, old, new)
          BY <4>1 DEF RemoteStep
        <5> QED BY <5>1 DEF Remote, User
      <4> QED BY <2>6, <4>1 DEF UserStep, Write, RemoveFile, Move, User
    <3>2. AtEase /\ "reuse" \notin UserOps
      BY <2>5, <3>1
    <3> QED BY <2>3, <2>6, <3>2, WriteWay, RemoveWay, MoveWay, RemoteWay DEF UserStep, OnItsWay
  <2>7. ASSUME NEW i \in Ids, Redeliver(i) PROVE OnItsWay'
    BY <1>1, <2>5, <2>7, RedeliverWay DEF Redeliver
  <2>8. ~ComesDue
    <3>1. DOMAIN <<>> = {}
      OBVIOUS
    <3> QED BY <2>1, <3>1 DEF ComesDue
  <2>9. CASE ExecStep
    BY <1>1, <2>1, <2>2, <2>3, <2>9, BeginWay, ActWay, MarkWay, RecordWay DEF ExecStep, OnItsWay
  <2>10. CASE Fetch \/ ApplyRemote
    BY <2>1, <2>3, <2>10, FetchWay, ApplyRemoteWay DEF OnItsWay
  <2>11. ASSUME NEW p \in Names, ApplyLocal(p) PROVE OnItsWay'
    BY <2>1, <2>11, ApplyLocalWay
  <2>12. CASE UNCHANGED vars
    BY <2>1, <2>3, <2>12, StutterWay
  <2> QED BY <2>3, <2>4, <2>6, <2>7, <2>8, <2>9, <2>10, <2>11, <2>12 DEF Next, FaultStep
<1> QED BY <1>2, FullStays, UnmarkedStays DEF CalmSound

\* Nothing yet, or one file in sync.
LEMMA CalmAtFirst == Init => CalmSound
<1> SUFFICES ASSUME Init PROVE CalmSound
  OBVIOUS
<1>1. /\ NoFile.st = "none" /\ later = <<>> /\ marked = 0
      /\ Silent /\ Idling /\ NoEcho
  BY DEF Init, NoFile, Silent, Idling, NoEcho
<1>2. InRest /\ \A i \in Ids : drive[i].st # "none" => drive[i].md5 # 0
  <2>1. CASE /\ local = [p \in Names |-> 0] /\ drive = [i \in Ids |-> NoFile] /\ items = {}
    BY <1>1, <2>1 DEF InRest, Rest, AtPath, WithId, Live
  <2>2. ASSUME NEW p \in Paths, local = [q \in Names |-> IF q = p THEN 1 ELSE 0],
               drive = [i \in Ids |-> IF i = 1 THEN [path |-> p, md5 |-> 1, st |-> "live"] ELSE NoFile],
               items = {[key |-> 1, path |-> p, rid |-> 1, md5 |-> 1, trashed |-> FALSE]}
        PROVE  InRest /\ \A i \in Ids : drive[i].st # "none" => drive[i].md5 # 0
    <3>0. PICK r : r = [key |-> 1, path |-> p, rid |-> 1, md5 |-> 1, trashed |-> FALSE]
      OBVIOUS
    <3>1. r.path = p /\ r.rid = 1 /\ r.md5 = 1 /\ ~r.trashed /\ items = {r} /\ p \in Names /\ 1 \in Ids
      BY <2>2, <3>0, FileSyncAssumption DEF Names, Ids
    <3>2. drive[1] = [path |-> p, md5 |-> 1, st |-> "live"] /\ \A i \in Ids \ {1} : drive[i] = NoFile
      BY <2>2, <3>1
    <3>3. drive[1].path = p /\ drive[1].md5 = 1 /\ drive[1].st = "live"
      BY <3>2
    <3>4. local[p] = 1 /\ \A q \in Names \ {p} : local[q] = 0
      BY <2>2, <3>1
    <3>5. Settled(r)
      BY <3>1, <3>3, <3>4 DEF Settled, InSync, Live
    <3>6. AtPath(p) = {r} /\ WithId(1) = {r} /\ \A i \in Ids : Live(i) => i = 1
      BY <1>1, <3>1, <3>2 DEF AtPath, WithId, Live
    <3>7. InRest
      BY <3>1, <3>4, <3>5, <3>6 DEF InRest, Rest
    <3> QED BY <1>1, <3>2, <3>3, <3>7
  <2> QED BY <2>1, <2>2 DEF Init
<1> QED BY <1>1, <1>2 DEF CalmSound, OnItsWay, AtEase

(* Where every edit found the daemon at rest and no call failed, it comes  *)
(* to rest again only when both sides hold the same files at the same      *)
(* paths, each with a row that says so (reconcile/continuous.rs), when no  *)
(* user moves a file over another one or takes the path of a trashed one   *)
(* again.                                                                  *)
THEOREM RestAgreed ==
    UserOps \cap {"replace", "reuse"} = {} => (Spec => []RestMeansAgreed)
<1> SUFFICES ASSUME UserOps \cap {"replace", "reuse"} = {} PROVE Spec => []RestMeansAgreed
  OBVIOUS
<1>1. Init => CalmSound
  BY CalmAtFirst
<1>2. Sound /\ CalmSound /\ [Next]_vars => CalmSound'
  BY CalmKept
<1>3. Sound /\ CalmSound => RestMeansAgreed
  <2> SUFFICES ASSUME Sound, CalmSound, Quiet, Calm
               PROVE  /\ \A r \in items : r.trashed \/ InSync(r)
                      /\ \A p \in Names : local[p] # 0 => \E r \in AtPath(p) : InSync(r)
                      /\ \A i \in Ids : Live(i) => \E r \in WithId(i) : InSync(r)
    BY DEF RestMeansAgreed, Calm
  <2>1. InRest
    BY QuietMeansEase DEF CalmSound, AtEase
  <2>2. \A r \in items : Settled(r)
    BY <2>1 DEF InRest, Rest
  <2>3. \A p \in Names : local[p] # 0 => \E r \in AtPath(p) : InSync(r)
    BY <2>1, <2>2 DEF InRest, Rest, AtPath, Settled
  <2>4. \A i \in Ids : Live(i) => \E r \in WithId(i) : InSync(r)
    BY <2>1, <2>2 DEF InRest, Rest, WithId, Settled, Live
  <2> QED BY <2>2, <2>3, <2>4 DEF Settled
<1> QED BY <1>1, <1>2, <1>3, SoundAlways, PTL DEF Spec
=============================================================================
