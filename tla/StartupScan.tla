---------------------------- MODULE StartupScan ----------------------------
(***************************************************************************)
(* What `air-drive start` does before the loops run (cli/start.rs,         *)
(* daemon/mod.rs): the first pass while there is no cursor, otherwise the  *)
(* scan that replays local edits made while the daemon was stopped         *)
(* (reconcile/mod.rs, startup_local_scan), and the operations the scan     *)
(* enqueues, which outlive a stop.  Of the loops there is the dispatcher;  *)
(* users edit while it does not run.                                       *)
(***************************************************************************)
EXTENDS InitialPass, Sequences, SequencesExt, Queues

VARIABLES
    ops,     \* pending operations, in order
    half,    \* the path whose row is written but whose operation is not, or Root
    base,    \* ghost: world, tables and operations when the scan began; at first, at the start
    whole    \* ghost: there was a scan, and the last one came to its end

scanVars == <<ops, half, base, whole>>
vars     == <<passVars, scanVars>>

Job(kind, x) == [kind |-> kind, path |-> x]

ScanInit ==
    /\ Init
    /\ ops = <<>> /\ half = Root /\ whole = FALSE
    /\ base = [tree |-> tree, drive |-> drive, rows |-> rows, cursor |-> FALSE, ops |-> {}]

\* The rows: an upload that has not happened has no Drive id (gen 0), no fingerprint.
Pending == [gen |-> 0, sum |-> Absent]

-----------------------------------------------------------------------------
BeginScan ==
    /\ phase = "down" /\ cursor
    /\ phase' = "scan"
    /\ seenTree' = tree
    /\ todo' = {x \in Paths \ Ignored : tree[x] # Absent}
    /\ touched' = {} /\ whole' = FALSE
    /\ base' = [tree |-> tree, drive |-> drive, rows |-> rows, cursor |-> cursor,
                ops |-> {ops[n].path : n \in DOMAIN ops}]
    /\ UNCHANGED <<world, tables, seenDrive, unlisted, attempt, origin, edits, faults, ops, half>>

\* Mutant: a row with an id is enough.
AnswersUnchecked(x) == {rows[x].gen # 0}

\* Is the Drive file still what was last synced?  The request goes by id: it may fail, it
\* does not ask whether the file is in the trash, and of a file that has left its path the
\* answer can be either.
Answers(x) ==
    IF rows[x].gen = 0 THEN {FALSE}
    ELSE IF rows[x].gen # drive[x].gen THEN BOOLEAN
    ELSE {rows[x].sum = drive[x].sum}

\* An unknown entry is a Created event: its row is inserted here, its operation
\* enqueued by the next step.  A new folder brings everything that is in it.
ScanNew(x) ==
    /\ phase = "scan" /\ half = Root
    /\ x \in todo /\ rows[x] = NoRow
    /\ Parent[x] \notin todo
    /\ IF tree[x] = Absent
         THEN todo' = todo \ {x} /\ UNCHANGED <<rows, half>>
         ELSE /\ rows' = [rows EXCEPT ![x] = Pending]
              /\ half' = x
              /\ todo' = (todo \ {x}) \cup {c \in Paths : Parent[c] = x /\ tree[c] # Absent}
    /\ UNCHANGED <<world, cursor, phase, walks, ghosts, ops, base, whole>>

EnqueueNew ==
    /\ half # Root
    /\ ops' = Append(ops, Job(IF half \in Folders THEN "folder" ELSE "upload", half))
    /\ half' = Root
    /\ UNCHANGED <<passVars, base, whole>>

\* A tracked file that changed is a Modified event, if Drive still has the synced content.
ScanKnown(x) ==
    /\ phase = "scan" /\ half = Root
    /\ x \in todo /\ rows[x] # NoRow
    /\ x \in Files => tree[x] # Absent
    /\ \E same \in Answers(x) :
         ops' = IF x \in Files /\ tree[x] # rows[x].sum /\ same
                  THEN Append(ops, Job("upload", x)) ELSE ops
    /\ todo' = todo \ {x}
    /\ UNCHANGED <<world, tables, phase, walks, ghosts, half, base, whole>>

\* A tracked file that vanished is a Deleted event, under the same condition.
ScanGone ==
    /\ phase = "scan" /\ half = Root /\ todo = {}
    /\ phase' = "gone"
    /\ todo' = {x \in Files \ Ignored : rows[x] # NoRow /\ seenTree[x] = Absent}
    /\ UNCHANGED <<world, tables, walks, ghosts, scanVars>>

ReplayDelete(x) ==
    /\ phase = "gone" /\ x \in todo
    /\ \E same \in Answers(x) : ops' = IF same THEN Append(ops, Job("delete", x)) ELSE ops
    /\ todo' = todo \ {x}
    /\ UNCHANGED <<world, tables, phase, walks, ghosts, half, base, whole>>

EndScan ==
    /\ phase = "gone" /\ todo = {}
    /\ Leave("running")
    /\ whole' = TRUE
    /\ UNCHANGED <<world, tables, ghosts, ops, half, base>>

\* A failed call, or a file that cannot be hashed, ends the scan with a warning.
ScanFails ==
    /\ phase \in {"scan", "gone"}
    /\ \/ \E x \in todo \cap Files : phase = "scan" /\ rows[x] # NoRow /\ tree[x] = Absent
          /\ UNCHANGED faults
       \/ faults < MaxFaults /\ faults' = faults + 1
    /\ Leave("running")
    /\ half' = Root
    /\ UNCHANGED <<world, tables, origin, touched, edits, ops, base, whole>>

\* The user stops the daemon, or the process dies in the midst of the scan.
Stop ==
    /\ phase \in {"running", "scan", "gone"}
    /\ faults < MaxFaults /\ faults' = faults + 1
    /\ Leave("down")
    /\ half' = Root
    /\ UNCHANGED <<world, tables, origin, touched, edits, ops, base, whole>>

-----------------------------------------------------------------------------
\* The dispatcher, as far as these operations go.

Above[x \in Paths \cup {Root}] ==
    IF x = Root \/ Parent[x] = Root THEN {} ELSE {Parent[x]} \cup Above[Parent[x]]

\* Folders are looked up by name, made where they are missing, and get their rows.
Ensured(folders, there) ==
    [x \in Paths |-> IF x \in folders /\ ~there[x].live THEN New(there[x], Folder) ELSE there[x]]
Rowed(folders, there) ==
    [x \in Paths |-> IF x \in folders THEN [gen |-> there[x].gen, sum |-> Folder] ELSE rows[x]]

\* rclone writes to the name, whatever file is there: with an id the name is the file's,
\* which is looked up first, also if the file is in the trash.
ExecuteUpload(x) ==
    IF tree[x] = Absent \/ rows[x] = NoRow \/ rows[x].sum = tree[x]
      THEN UNCHANGED <<drive, rows>>
      ELSE LET folders == IF rows[x].gen = 0 THEN Above[x] ELSE {}
               there == Ensured(folders, drive)
               written == IF there[x].live THEN [there[x] EXCEPT !.sum = tree[x]]
                                           ELSE New(there[x], tree[x]) IN
           /\ drive' = [there EXCEPT ![x] = written]
           /\ rows' = [Rowed(folders, there) EXCEPT ![x] =
                 [gen |-> IF rows[x].gen = 0 THEN written.gen ELSE rows[x].gen, sum |-> tree[x]]]

ExecuteFolder(d) ==
    /\ drive' = Ensured(Above[d] \cup {d}, drive)
    /\ rows' = Rowed(Above[d] \cup {d}, drive')

\* The row goes, and with it every operation of the file.
ExecuteDelete(x) ==
    /\ drive' = IF rows[x] # NoRow /\ rows[x].gen = drive[x].gen
                  THEN [drive EXCEPT ![x].live = FALSE] ELSE drive
    /\ rows' = [rows EXCEPT ![x] = NoRow]

Execute ==
    /\ phase = "running" /\ ops # <<>>
    /\ LET job == Head(ops) IN
         /\ \/ job.kind = "upload" /\ ExecuteUpload(job.path)
            \/ job.kind = "folder" /\ ExecuteFolder(job.path)
            \/ job.kind = "delete" /\ ExecuteDelete(job.path)
         /\ ops' = Only(Tail(ops), {other \in ToSet(ops) : rows'[other.path] # NoRow})
    /\ UNCHANGED <<tree, hidden, cursor, phase, todo, walks, ghosts, half, base, whole>>

-----------------------------------------------------------------------------
PassNext == (PassStep \/ Environment \/ Stops) /\ UNCHANGED scanVars

ScanStep ==
    \/ BeginScan \/ EnqueueNew \/ ScanGone \/ EndScan \/ Execute
    \/ \E x \in Paths : ScanNew(x) \/ ScanKnown(x) \/ ReplayDelete(x)

Next == PassNext \/ ScanStep \/ ScanFails \/ Stop

Spec == ScanInit /\ [][Next]_vars
-----------------------------------------------------------------------------
ScanTypeOK ==
    /\ PassTypeOK
    /\ ops \in Seq([kind : {"upload", "folder", "delete"}, path : Paths])
    /\ half \in Paths \cup {Root} /\ whole \in BOOLEAN

\* The properties of the first pass speak of the time before the first scan.
FirstPassMerges == ~base.cursor => PassMerges
FirstRowsTellTheTruth == ~base.cursor => RowsTellTheTruth

CaughtUp == phase = "running" /\ cursor /\ whole /\ ops = <<>>

\* Files whose fate the scan alone decides: nobody edited them while it ran, and no
\* operation from before the stop was left over.
Left == Files \ (touched \cup Ignored \cup base.ops)

Row(x) == base.rows[x]

\* What became of the Drive file of a path.
Stays(x)   == drive[x] = base.drive[x]
Trashed(x) == drive[x] = [base.drive[x] EXCEPT !.live = FALSE]
Uploaded(x) == drive[x] = IF base.drive[x].live THEN [base.drive[x] EXCEPT !.sum = base.tree[x]]
                                                ELSE New(base.drive[x], base.tree[x])

\* What was to become of it, by what was found here, on Drive and in the row.
Caught(x) ==
    LET here  == base.tree[x]
        there == base.drive[x]
        row   == Row(x) IN
    IF row = NoRow THEN IF here = Absent THEN Stays(x) ELSE Uploaded(x)
    ELSE IF row.gen = 0 THEN Stays(x)
    ELSE IF row.gen # there.gen     \* the file has left its path
      THEN Stays(x) \/ (here \notin {Absent, row.sum} /\ Uploaded(x))
    ELSE IF there.sum # row.sum THEN Stays(x)
    ELSE IF here = Absent THEN Trashed(x)
    ELSE IF here = row.sum THEN Stays(x) ELSE Uploaded(x)

\* Once the operations of a complete scan have run, Drive has what was edited here while
\* the daemon was stopped, and a file of Drive that was edited there, as its row tells, is
\* left as it was.  Of two kinds of files the code does something else.  A path that has no
\* row, new here or a mismatch of the first pass, is sent over what Drive holds, also if it
\* was made or edited there: reconcile/mod.rs:375 ("the scan can never overwrite a concurrent
\* remote edit") and its line 252, which defers mismatches, say otherwise.  And a new file
\* whose row a stop or a failure kept from getting its operation, a row without a Drive id,
\* is not sent at all.
CatchesUpOffline ==
    CaughtUp => \A x \in Left : tree[x] = base.tree[x] /\ Caught(x)
=============================================================================
