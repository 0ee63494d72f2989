----------------------------- MODULE InitialPass -----------------------------
(***************************************************************************)
(* The first synchronisation of a mapping (reconcile/mod.rs, initial): two *)
(* walks, folders, pointers of native Google Docs, one bulk transfer per   *)
(* direction, the rows, and the cursor last.  A pass that is interrupted   *)
(* starts anew with the next `air-drive start`.  Users edit either side at *)
(* any time, also while the pass runs.                                     *)
(*                                                                         *)
(* A content stands for its size and md5.  rclone, the production engine,  *)
(* addresses Drive by path, so Drive has one entry per path here; `gen`    *)
(* counts the files a path has had and stands for the Drive id.  Users     *)
(* edit files that are not ignored, and make folders in the watched one.   *)
(***************************************************************************)
EXTENDS Naturals, FiniteSets

CONSTANTS Folders, Files, Docs,   \* paths, by what they hold
          Root, Parent,           \* the watched folder; the folder of a path
          Ignored,                \* files whose name matches an ignore pattern
          Versions,               \* contents of files
          Absent, Folder, Doc,    \* other contents
          NoRow,                  \* "no sync_item"
          Retries,                \* AFTER_WALK_RETRIES
          MaxEdits, MaxFaults     \* bounds: user edits; stops, crashes and failed calls

Paths == Folders \cup Files \cup Docs

ASSUME InitialPassAssumption ==
    /\ Folders \cap Files = {} /\ Docs \cap (Folders \cup Files) = {}
    /\ Parent \in [Paths -> Folders \cup {Root}] /\ Root \notin Paths
    /\ \A S \in SUBSET Paths : S # {} => \E x \in S : Parent[x] \notin S   \* a tree
    /\ Ignored \subseteq Files
    /\ {Absent, Folder, Doc} \cap Versions = {}
    /\ Absent # Folder /\ Folder # Doc /\ Absent # Doc
    /\ NoRow \notin [gen : Nat, sum : Versions \cup {Absent, Folder, Doc}]
    /\ Retries \in Nat /\ MaxEdits \in Nat /\ MaxFaults \in Nat

VARIABLES
    tree, drive,         \* both sides
    hidden,              \* uploads Drive's listings do not show yet
    rows, cursor,        \* the sync_item table; is there a change cursor?
    phase, todo,         \* place in the pass; paths the phase has still to do
    seenTree, seenDrive, \* the two walks
    unlisted,            \* Drive folders still to list
    attempt,             \* rounds of the look-up of missed uploads
    origin,              \* ghost: both sides before the first attempt
    touched, edits,      \* ghost: paths a user edited since; edits so far
    faults               \* ghost: stops, crashes and failed calls so far

world    == <<tree, drive, hidden>>
tables   == <<rows, cursor>>
walks    == <<seenTree, seenDrive, unlisted, attempt>>
ghosts   == <<origin, touched, edits, faults>>
passVars == <<world, tables, phase, todo, walks, ghosts>>

Entry == [gen : Nat, sum : Versions \cup {Absent, Folder, Doc}, live : BOOLEAN]
None  == [gen |-> 0, sum |-> Absent, live |-> FALSE]
New(old, content) == [gen |-> old.gen + 1, sum |-> content, live |-> TRUE]

\* Everything that exists is in the watched folder or in a folder that exists.
Rooted(present) == \A x \in present : Parent[x] \in present \cup {Root}
InTree   == {x \in Paths : tree[x] # Absent}
InDrive  == {x \in Paths : drive[x].live}

Kinds(x) == IF x \in Folders THEN {Folder} ELSE IF x \in Docs THEN {Doc} ELSE Versions

Init ==
    /\ tree \in [Paths -> Versions \cup {Absent, Folder}]
    /\ drive \in [Paths -> {None} \cup {New(None, c) : c \in Versions \cup {Folder, Doc}}]
    /\ Rooted(InTree) /\ Rooted(InDrive)
    /\ \A x \in InTree : x \notin Docs /\ tree[x] \in Kinds(x)
    /\ \A x \in InDrive : drive[x].sum \in Kinds(x)
    /\ hidden = {}
    /\ rows = [x \in Paths |-> NoRow] /\ cursor = FALSE
    /\ phase = "down" /\ todo = {}
    /\ seenTree = [x \in Paths |-> Absent] /\ seenDrive = [x \in Paths |-> None]
    /\ unlisted = {} /\ attempt = 0
    /\ origin = [tree |-> tree, drive |-> drive]
    /\ touched = {} /\ edits = 0 /\ faults = 0

-----------------------------------------------------------------------------
\* Users and Drive.

EditTree(x, content) ==
    /\ phase # "running" /\ edits < MaxEdits
    /\ \/ x \in Files \ Ignored /\ content \in Versions \cup {Absent} /\ content # tree[x]
       \/ x \in Folders /\ content = Folder /\ tree[x] = Absent
    /\ content # Absent => Parent[x] \in InTree \cup {Root}
    /\ tree' = [tree EXCEPT ![x] = content]
    /\ touched' = touched \cup {x} /\ edits' = edits + 1
    /\ UNCHANGED <<drive, hidden, tables, phase, todo, walks, origin, faults>>

Overwrite(x, content) ==
    drive' = [drive EXCEPT ![x] = IF @.live THEN [@ EXCEPT !.sum = content] ELSE New(@, content)]

\* A trashed file keeps its metadata.
EditDrive(x, content) ==
    /\ phase # "running" /\ edits < MaxEdits
    /\ x \in Files \ Ignored /\ Parent[x] \in InDrive \cup {Root}
    /\ \/ content \in Versions /\ drive[x] # [New(None, content) EXCEPT !.gen = drive[x].gen]
          /\ Overwrite(x, content)
       \/ content = Absent /\ drive[x].live
          /\ drive' = [drive EXCEPT ![x].live = FALSE]
    /\ touched' = touched \cup {x} /\ edits' = edits + 1
    /\ UNCHANGED <<tree, hidden, tables, phase, todo, walks, origin, faults>>

\* Drive's index catches up with an upload.
Index(x) ==
    /\ x \in hidden
    /\ hidden' = hidden \ {x}
    /\ UNCHANGED <<tree, drive, tables, phase, todo, walks, ghosts>>

-----------------------------------------------------------------------------
\* The pass.

\* Forget the pass: only the tables outlive the process.
Leave(where) ==
    /\ phase' = where /\ todo' = {}
    /\ seenTree' = [x \in Paths |-> Absent] /\ seenDrive' = [x \in Paths |-> None]
    /\ unlisted' = {} /\ attempt' = 0

InPass == ~cursor /\ phase # "down"

ListTree ==
    /\ phase = "down" /\ ~cursor
    /\ phase' = "listDrive"
    /\ seenTree' = tree
    /\ seenDrive' = [x \in Paths |-> None] /\ unlisted' = {Root}
    /\ UNCHANGED <<world, tables, todo, attempt, ghosts>>

Listed(x) == IF drive[x].live /\ x \notin hidden THEN drive[x] ELSE None

\* One files.list per folder, breadth first; `whenDone` once none is left.
ListFolder(f, whenDone) ==
    /\ f \in unlisted
    /\ seenDrive' = [x \in Paths |-> IF Parent[x] = f THEN Listed(x) ELSE seenDrive[x]]
    /\ unlisted' = (unlisted \ {f}) \cup {d \in Folders : Parent[d] = f /\ Listed(d) # None}
    /\ phase' = IF unlisted' = {} THEN whenDone ELSE phase
    /\ UNCHANGED <<world, tables, seenTree, attempt, ghosts>>

OnDrive(x) == seenDrive[x] # None
OnDisk(x)  == seenTree[x] # Absent

Both  == {x \in Files \ Ignored : OnDrive(x) /\ OnDisk(x)}
\* Mutant: also what is on disk already.
DownsAll == {x \in Files \ Ignored : OnDrive(x)}

Downs == {x \in Files \ Ignored : OnDrive(x) /\ ~OnDisk(x)}

\* The pointer of a Doc has another name than the Doc, so the walk of Drive does
\* not have it; its row keeps it from being uploaded.
Pointer(x) == x \in Docs /\ rows[x] # NoRow
Ups == {x \in (Files \ Ignored) \cup Docs : OnDisk(x) /\ ~Pointer(x) /\ (x \in Files => ~OnDrive(x))}

ListDrive(f) ==
    /\ phase = "listDrive"
    /\ ListFolder(f, "folders")
    /\ todo' = IF unlisted' = {}
                 THEN {d \in Folders : OnDisk(d) \/ seenDrive'[d] # None} ELSE {}

\* An existing row stays as it is.
Recorded(x, entry) == IF rows[x] = NoRow THEN [gen |-> entry.gen, sum |-> entry.sum] ELSE rows[x]
Record(x, entry)   == rows' = [rows EXCEPT ![x] = Recorded(x, entry)]

MakeFolder(d) ==
    /\ phase = "folders" /\ d \in todo /\ Parent[d] \notin todo
    /\ ~OnDrive(d)
    /\ drive' = [drive EXCEPT ![d] = New(@, Folder)]
    /\ seenDrive' = [seenDrive EXCEPT ![d] = drive'[d]]
    /\ UNCHANGED <<tree, hidden, tables, phase, todo, seenTree, unlisted, attempt, ghosts>>

KeepFolder(d) ==
    /\ phase = "folders" /\ d \in todo /\ Parent[d] \notin todo
    /\ OnDrive(d)
    /\ tree' = [tree EXCEPT ![d] = Folder]
    /\ Record(d, seenDrive[d])
    /\ todo' = todo \ {d}
    /\ UNCHANGED <<drive, hidden, cursor, phase, walks, ghosts>>

WritePointer(x) ==
    /\ phase = "docs" /\ x \in todo
    /\ rows[x] = NoRow /\ tree[x] # Doc
    /\ tree' = [tree EXCEPT ![x] = Doc]
    /\ UNCHANGED <<drive, hidden, tables, phase, todo, walks, ghosts>>

RecordPointer(x) ==
    /\ phase = "docs" /\ x \in todo
    /\ rows[x] # NoRow \/ tree[x] = Doc
    /\ Record(x, seenDrive[x])
    /\ todo' = todo \ {x}
    /\ UNCHANGED <<world, cursor, phase, walks, ghosts>>

\* Mutant: a mismatch gets a row.
CompareAny(x) ==
    /\ phase = "compare" /\ x \in todo
    /\ tree[x] # Absent
    /\ Record(x, seenDrive[x])
    /\ todo' = todo \ {x}
    /\ UNCHANGED <<world, cursor, phase, walks, ghosts>>

\* The file is hashed now.  A mismatch is logged and left without a row.
Compare(x) ==
    /\ phase = "compare" /\ x \in todo
    /\ tree[x] # Absent
    /\ IF tree[x] = seenDrive[x].sum THEN Record(x, seenDrive[x]) ELSE UNCHANGED rows
    /\ todo' = todo \ {x}
    /\ UNCHANGED <<world, cursor, phase, walks, ghosts>>

\* A file that vanished since the walk cannot be hashed: the pass fails.
Vanished(x) ==
    /\ phase = "compare" /\ x \in todo
    /\ tree[x] = Absent
    /\ Leave("down")
    /\ UNCHANGED <<world, tables, ghosts>>

\* rclone copies what the path holds now, straight into the watched folder.
Download(x) ==
    /\ phase = "get" /\ x \in todo
    /\ tree' = IF drive[x].live THEN [tree EXCEPT ![x] = drive[x].sum] ELSE tree
    /\ todo' = todo \ {x}
    /\ UNCHANGED <<drive, hidden, tables, phase, walks, ghosts>>

Upload(x) ==
    /\ phase = "put" /\ x \in todo
    /\ IF tree[x] = Absent
         THEN UNCHANGED <<drive, hidden>>
         ELSE /\ Overwrite(x, tree[x])
              /\ hidden' = IF drive[x].live THEN hidden ELSE hidden \cup {x}
    /\ todo' = todo \ {x}
    /\ UNCHANGED <<tree, tables, phase, walks, ghosts>>

\* Downloads get the fingerprint of the walk, not of what came down.
NoteDownloads ==
    /\ phase = "note"
    /\ rows' = [x \in Paths |-> IF x \in Downs THEN Recorded(x, seenDrive[x]) ELSE rows[x]]
    /\ IF Ups = {}
         THEN phase' = "token" /\ UNCHANGED <<todo, seenDrive, unlisted>>
         ELSE /\ phase' = "relist" /\ todo' = Ups
              /\ seenDrive' = [x \in Paths |-> None] /\ unlisted' = {Root}
    /\ UNCHANGED <<world, cursor, seenTree, attempt, ghosts>>

Relist(f) ==
    /\ phase = "relist"
    /\ ListFolder(f, "match")
    /\ UNCHANGED todo

\* Uploads found by the second walk get their rows.
Match ==
    /\ phase = "match"
    /\ rows' = [x \in Paths |-> IF x \in todo /\ OnDrive(x) THEN Recorded(x, seenDrive[x]) ELSE rows[x]]
    /\ todo' = {x \in todo : ~OnDrive(x)}
    /\ phase' = "lookup"
    /\ UNCHANGED <<world, cursor, walks, ghosts>>

\* A round of look-ups: each finds an indexed file, or fails.
LookUp ==
    /\ phase = "lookup" /\ todo # {} /\ attempt < Retries
    /\ \E found \in SUBSET {x \in todo : Listed(x) # None} :
         /\ rows' = [x \in Paths |-> IF x \in found THEN Recorded(x, drive[x]) ELSE rows[x]]
         /\ todo' = todo \ found
    /\ attempt' = attempt + 1
    /\ UNCHANGED <<world, cursor, phase, seenTree, seenDrive, unlisted, ghosts>>

EndLookUp ==
    /\ phase = "lookup" /\ (todo = {} \/ attempt = Retries)
    /\ phase' = "token" /\ todo' = {}
    /\ UNCHANGED <<world, tables, walks, ghosts>>

After == [folders |-> "docs", docs |-> "compare", compare |-> "get", get |-> "put", put |-> "note"]
Work  == [docs |-> {x \in Docs : OnDrive(x)}, compare |-> Both, get |-> Downs, put |-> Ups, note |-> {}]

Advance ==
    /\ phase \in DOMAIN After /\ todo = {}
    /\ phase' = After[phase]
    /\ todo' = Work[phase']
    /\ UNCHANGED <<world, tables, walks, ghosts>>

SaveCursor ==
    /\ phase = "token"
    /\ cursor' = TRUE
    /\ Leave("running")
    /\ UNCHANGED <<world, rows, ghosts>>

\* A crash, or any error: `start` exits.
Stops ==
    /\ InPass /\ faults < MaxFaults
    /\ faults' = faults + 1
    /\ Leave("down")
    /\ UNCHANGED <<world, tables, origin, touched, edits>>

PassStep ==
    \/ ListTree \/ NoteDownloads \/ Match \/ LookUp \/ EndLookUp \/ Advance \/ SaveCursor
    \/ \E f \in Folders \cup {Root} : ListDrive(f) \/ Relist(f)
    \/ \E x \in Paths : \/ MakeFolder(x) \/ KeepFolder(x) \/ WritePointer(x) \/ RecordPointer(x)
                        \/ Compare(x) \/ Vanished(x) \/ Download(x) \/ Upload(x)

Environment ==
    \/ \E x \in Paths : Index(x)
    \/ \E x \in Paths, content \in Versions \cup {Absent, Folder} : EditTree(x, content) \/ EditDrive(x, content)

-----------------------------------------------------------------------------
PassTypeOK ==
    /\ tree \in [Paths -> Versions \cup {Absent, Folder, Doc}]
    /\ \A x \in Paths : drive[x] \in Entry
    /\ hidden \subseteq Paths /\ Rooted(InTree) /\ Rooted(InDrive)
    /\ rows \in [Paths -> {NoRow} \cup [gen : Nat, sum : Versions \cup {Absent, Folder, Doc}]]
    /\ cursor \in BOOLEAN /\ todo \subseteq Paths /\ unlisted \subseteq Folders \cup {Root}
    /\ attempt \in 0..Retries /\ edits \in 0..MaxEdits /\ faults \in 0..MaxFaults

\* What a path should hold once both sides have been brought together: the one side
\* that has it wins, a mismatch stays, an ignored file stays where it is.
Merged(x) ==
    LET here == origin.tree[x]
        there == origin.drive[x].sum IN
    IF x \in Ignored \/ (here # Absent /\ there # Absent /\ x \notin Folders)
      THEN [tree |-> here, drive |-> there]
      ELSE LET one == IF here # Absent THEN here ELSE there IN [tree |-> one, drive |-> one]

\* However often the pass is interrupted and repeated, whatever users do to other paths
\* meanwhile and however late Drive's listings are, a path nobody touched holds at any time
\* what it held before or the merged content, and the latter once the cursor is stored.
PassMerges ==
    \A x \in Paths \ touched :
        LET now == [tree |-> tree[x], drive |-> IF drive[x].live THEN drive[x].sum ELSE Absent] IN
        /\ now.tree \in {origin.tree[x], Merged(x).tree}
        /\ now.drive \in {origin.drive[x].sum, Merged(x).drive}
        /\ cursor => now = Merged(x)

\* When the cursor is stored, the row of a path nobody touched names its Drive file and
\* what both sides hold; only ignored files, mismatches and uploads Drive's listings
\* did not show in time are without a row.
RowsTellTheTruth ==
    cursor => \A x \in Paths \ touched :
        IF rows[x] # NoRow
          THEN /\ x \notin Ignored /\ drive[x].live /\ rows[x].gen = drive[x].gen
               /\ rows[x].sum = drive[x].sum /\ drive[x].sum = tree[x]
          ELSE \/ x \in Ignored \/ tree[x] # drive[x].sum
               \/ origin.tree[x] # Absent /\ origin.drive[x] = None /\ x \in Files
               \/ tree[x] = Absent /\ ~drive[x].live
=============================================================================
