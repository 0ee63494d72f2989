---------------------------- MODULE StartupProofs ----------------------------
(***************************************************************************)
(* The first pass of StartupScan (reconcile/mod.rs, initial), for every    *)
(* tree of paths, every number of interruptions, edits and late listings.  *)
(* Until the first scan begins, FirstPass holds:                           *)
(*   Skeleton   no folder goes, and each is below a folder that is there;  *)
(*   Walk       the first walk misses no folder and no file that was there *)
(*              from the first, late as Drive's listings may be;           *)
(*   Untouched  a path nobody touched is what it was, or what the pass is  *)
(*              to make of it, and its row is true;                        *)
(*   Progress   what each phase has still to do, and what it has achieved. *)
(* From then on Scanned holds: as long as a scan goes on, an entry it is   *)
(* to decide on waits, or has the operation it needs; after a complete     *)
(* scan, the operation is queued or both sides are as they should be.      *)
(***************************************************************************)
EXTENDS StartupScan, QueuesProofs

-----------------------------------------------------------------------------
(* What is where.                                                          *)
Sums   == Versions \cup {Absent, Folder, Doc}
Noted  == [gen : Nat, sum : Sums]
Phases == {"down", "listDrive", "folders", "docs", "compare", "get", "put", "note", "relist",
           "match", "lookup", "token", "running"}

Typed ==
    /\ tree \in [Paths -> Sums] /\ drive \in [Paths -> Entry]
    /\ rows \in [Paths -> Noted \cup {NoRow}]
    /\ seenTree \in [Paths -> Sums] /\ seenDrive \in [Paths -> Entry]
    /\ cursor \in BOOLEAN /\ phase \in Phases
    /\ hidden \subseteq Paths /\ touched \subseteq Files \cup Folders
    /\ unlisted \subseteq Folders \cup {Root}

\* The scan has not begun, so that nothing is enqueued.
Quiet ==
    /\ ops = <<>> /\ half = Root
    /\ cursor => phase \in {"down", "running"}
    /\ phase = "running" => cursor

\* What there was at first.
Here(x)  == origin.tree[x]
There(x) == origin.drive[x]

Began ==
    /\ \A x \in Paths :
         /\ Here(x) # Absent => x \notin Docs /\ Here(x) \in Kinds(x)
         /\ There(x) = None \/ \E c \in Kinds(x) : There(x) = New(None, c)
         /\ There(x).live /\ Parent[x] # Root => There(Parent[x]).live

-----------------------------------------------------------------------------
(* Folders stay, and are where their parents are.                          *)
Reached(f) == f = Root \/ OnDrive(f)

\* The first walk cannot miss x: a folder, or what was there at first.
Sure(x) == drive[x].live /\ (x \in Folders \/ (There(x).live /\ x \notin touched))

Skeleton ==
    /\ \A d \in Folders :
         /\ There(d).live => drive[d].live
         /\ tree[d] # Absent => Parent[d] = Root \/ tree[Parent[d]] # Absent
         /\ drive[d].live => Parent[d] = Root \/ drive[Parent[d]].live
         /\ OnDisk(d) => tree[d] # Absent /\ (Parent[d] = Root \/ OnDisk(Parent[d]))
         /\ OnDrive(d) => drive[d].live /\ Reached(Parent[d])
         /\ d \notin hidden
    /\ \A f \in unlisted : Reached(f)

Walked == {"folders", "docs", "compare", "get", "put", "note"}

Walk ==
    /\ phase = "listDrive" => \A x \in Paths :
         Reached(Parent[x]) /\ Sure(x) => Parent[x] \in unlisted \/ OnDrive(x)
    /\ phase \in Walked => \A x \in Paths : Sure(x) => OnDrive(x)

-----------------------------------------------------------------------------
(* A path nobody touched.                                                  *)
Sent(x) == [gen |-> 1, sum |-> Here(x), live |-> TRUE]

KeptTree(x) ==
    IF x \in Ignored \/ Here(x) # Absent THEN tree[x] = Here(x) ELSE tree[x] \in {Absent, There(x).sum}

KeptDrive(x) ==
    IF There(x).live \/ x \in Ignored \/ Here(x) = Absent
      THEN drive[x] = There(x) ELSE drive[x] \in {None, Sent(x)}

SeenRight(x) ==
    /\ OnDisk(x) => tree[x] # Absent
    /\ phase \notin {"down", "running"} /\ Here(x) # Absent => OnDisk(x)
    /\ seenDrive[x] \in {None, drive[x]}
    /\ OnDrive(x) => drive[x].live
    /\ x \in hidden => ~There(x).live

RowTrue(x) ==
    rows[x] # NoRow =>
        /\ x \notin Ignored /\ drive[x].live
        /\ rows[x].gen = drive[x].gen /\ rows[x].sum = drive[x].sum /\ tree[x] = drive[x].sum

Fine(x) == KeptTree(x) /\ KeptDrive(x) /\ SeenRight(x) /\ RowTrue(x)

Untouched == \A x \in Paths \ touched : Fine(x)

-----------------------------------------------------------------------------
(* How far the pass has come.                                              *)
Mine == (Files \ Ignored) \ touched

FoldersAt ==
    phase = "folders" =>
        /\ todo \subseteq {d \in Folders : OnDisk(d) \/ OnDrive(d)}
        /\ \A d \in Folders : OnDisk(d) \/ OnDrive(d) =>
             d \in todo \/ (OnDrive(d) /\ tree[d] # Absent /\ rows[d] # NoRow)

DocsAt ==
    phase = "docs" =>
        /\ todo \subseteq {x \in Docs : OnDrive(x)}
        /\ \A x \in Docs : OnDrive(x) => x \in todo \/ rows[x] # NoRow

\* A file that was on Drive, whose row is due.
Same(x) == There(x).live /\ tree[x] = There(x).sum

CompareAt ==
    phase = "compare" =>
        /\ todo \subseteq Both
        /\ \A x \in Mine : OnDisk(x) /\ Same(x) => x \in todo \/ rows[x] # NoRow

Compared ==
    phase \in {"get", "put", "note"} =>
        \A x \in Mine : OnDisk(x) /\ Same(x) => rows[x] # NoRow

GetAt ==
    phase = "get" =>
        /\ todo \subseteq Downs
        /\ \A x \in Downs \ touched : x \in todo \/ tree[x] # Absent

Got == phase \in {"put", "note"} => \A x \in Downs \ touched : tree[x] # Absent

PutAt ==
    phase = "put" =>
        /\ todo \subseteq Ups
        /\ \A x \in Ups \ touched : x \in todo \/ drive[x].live

ToFind ==
    phase \in {"relist", "match", "lookup"} =>
        /\ todo \subseteq Paths \ Ignored
        /\ \A x \in todo \ touched : ~There(x).live /\ Here(x) # Absent

AfterNote    == cursor \/ phase \in {"relist", "match", "lookup", "token"}
AfterPut     == AfterNote \/ phase = "note"
AfterDocs    == AfterPut \/ phase \in {"compare", "get", "put"}
AfterFolders == AfterDocs \/ phase = "docs"

Results ==
    /\ AfterFolders => \A d \in Folders \ touched : Here(d) # Absent \/ There(d).live => rows[d] # NoRow
    /\ AfterDocs    => \A x \in Docs : There(x).live => rows[x] # NoRow
    /\ AfterPut     => \A x \in Mine : Here(x) # Absent /\ ~There(x).live => drive[x].live
    /\ AfterNote    => \A x \in Mine : There(x).live => tree[x] # Absent /\ (Same(x) => rows[x] # NoRow)

Progress == FoldersAt /\ DocsAt /\ CompareAt /\ Compared /\ GetAt /\ Got /\ PutAt /\ ToFind /\ Results

FirstPass == Typed /\ Quiet /\ Began /\ Skeleton /\ Walk /\ Untouched /\ Progress

IInv == base.cursor \/ FirstPass

-----------------------------------------------------------------------------
\* What a path had at first, by kind.
LEMMA Origins ==
    ASSUME Began, NEW x \in Paths
    PROVE  /\ There(x).live \in BOOLEAN /\ ~None.live /\ None.sum = Absent /\ None.gen = 0
           /\ ~There(x).live => There(x) = None
           /\ There(x).live => /\ There(x).sum \in Kinds(x) /\ There(x).sum # Absent
                               /\ There(x) = New(None, There(x).sum)
           /\ Here(x) # Absent => Here(x) \in Kinds(x) /\ x \notin Docs
           /\ Absent \notin Kinds(x)
<1>1. \A c : /\ New(None, c).live /\ New(None, c).sum = c
             /\ New(None, c).gen = 1 /\ None.gen + 1 = 1
  BY DEF New, None
<1>2. None.live = FALSE /\ None.sum = Absent /\ None.gen = 0
  BY DEF None
<1>3. Absent \notin Kinds(x)
  BY InitialPassAssumption DEF Kinds
<1>4. There(x) = None \/ \E c \in Kinds(x) : There(x) = New(None, c)
  BY DEF Began
<1>5. CASE There(x) = None
  BY <1>2, <1>3, <1>5 DEF Began
<1>6. ASSUME NEW c \in Kinds(x), There(x) = New(None, c)
      PROVE  There(x).live = TRUE /\ There(x).sum = c
  BY <1>1, <1>6
<1> QED BY <1>1, <1>2, <1>3, <1>4, <1>5, <1>6 DEF Began

\* The process leaves the pass.
Leaves == Leave("down") /\ UNCHANGED <<world, tables, origin, touched>>

\* What can happen before the first scan.
Moves == PassStep \/ Environment \/ Leaves

\* Before the first scan only the pass, the users, Drive and a stop of the pass can act.
LEMMA OnlyThePass ==
    ASSUME FirstPass, Next, ~base'.cursor
    PROVE  Moves /\ UNCHANGED <<base, ops, half>>
<1>1. /\ ops = <<>> /\ half = Root /\ phase \notin {"scan", "gone"}
      /\ (phase = "running" => cursor) /\ Root \notin Paths
  BY InitialPassAssumption DEF FirstPass, Quiet, Typed, Phases
<1>2. CASE PassNext
  BY <1>2 DEF PassNext, Moves, scanVars, Stops, Leaves
<1>3. ~BeginScan
  <2> SUFFICES ASSUME BeginScan PROVE FALSE
    OBVIOUS
  <2>1. base'.cursor = cursor /\ cursor
    BY DEF BeginScan
  <2> QED BY <2>1
<1>4. ~EnqueueNew /\ ~ScanGone /\ ~EndScan /\ ~Execute /\ ~ScanFails
  BY <1>1 DEF EnqueueNew, ScanGone, EndScan, Execute, ScanFails
<1>5. ASSUME NEW x \in Paths
      PROVE  ~ScanNew(x) /\ ~ScanKnown(x) /\ ~ReplayDelete(x)
  BY <1>1 DEF ScanNew, ScanKnown, ReplayDelete
<1>6. CASE Stop
  <2>1. half' = Root /\ UNCHANGED <<base, ops>> /\ Leaves
    BY <1>6 DEF Stop, Leaves
  <2> QED BY <1>1, <2>1 DEF Moves
<1> QED BY <1>2, <1>3, <1>4, <1>5, <1>6 DEF Next, ScanStep
-----------------------------------------------------------------------------
\* The entries Drive can have, and what a new file or a new version makes of them.
LEMMA Entries ==
    /\ None \in Entry
    /\ \A e \in Entry, c \in Sums : New(e, c) \in Entry /\ [e EXCEPT !.sum = c] \in Entry
    /\ \A e \in Entry : [e EXCEPT !.live = FALSE] \in Entry
    /\ \A e \in Entry : e.live \in BOOLEAN /\ e.gen \in Nat /\ e.sum \in Sums
                       /\ [gen |-> e.gen, sum |-> e.sum] \in Noted
    /\ \A e \in Entry : e.live => e # None
<1>1. None \in Entry /\ ~None.live
  BY DEF Entry, None
<1>2. ASSUME NEW e \in Entry, NEW c \in Sums
      PROVE  New(e, c) \in Entry /\ [e EXCEPT !.sum = c] \in Entry
  BY DEF Entry, New, Sums
<1>3. ASSUME NEW e \in Entry
      PROVE  /\ [e EXCEPT !.live = FALSE] \in Entry
             /\ e.live \in BOOLEAN /\ e.gen \in Nat /\ e.sum \in Sums
  BY DEF Entry, Sums
<1>4. ASSUME NEW e \in Entry
      PROVE  [gen |-> e.gen, sum |-> e.sum] \in Noted
  BY <1>3 DEF Noted
<1> QED BY <1>1, <1>2, <1>3, <1>4

\* At the start no scan has begun and the first pass has everything before it.
LEMMA AtFirst == ScanInit => FirstPass /\ ~base.cursor
<1> SUFFICES ASSUME ScanInit PROVE FirstPass /\ ~base.cursor
  OBVIOUS
<1> USE DEF ScanInit, Init
<1>1. Typed
  <2>1. \A x \in Paths, c \in Versions \cup {Folder, Doc} : New(None, c) \in Entry
    BY Entries DEF Sums
  <2>2. drive \in [Paths -> Entry]
    BY <2>1, Entries
  <2> QED BY <2>2, Entries DEF Typed, Sums, Phases, Noted
<1>2. /\ \A x \in Paths : Here(x) = tree[x] /\ There(x) = drive[x]
      /\ base.cursor = FALSE
  BY DEF Here, There
<1>3. \A x \in Paths : /\ seenTree[x] = Absent /\ seenDrive[x] = None /\ rows[x] = NoRow
                       /\ ~OnDisk(x) /\ ~OnDrive(x)
  BY DEF OnDisk, OnDrive
<1>4. Quiet
  BY DEF Quiet
<1>5. \A x \in Paths : /\ tree[x] # Absent => Parent[x] = Root \/ tree[Parent[x]] # Absent
                       /\ drive[x].live => Parent[x] = Root \/ drive[Parent[x]].live
  BY InitialPassAssumption DEF Rooted, InTree, InDrive
<1>6. Began
  <2> SUFFICES ASSUME NEW x \in Paths
               PROVE  /\ tree[x] # Absent => x \notin Docs /\ tree[x] \in Kinds(x)
                      /\ drive[x] = None \/ \E c \in Kinds(x) : drive[x] = New(None, c)
                      /\ drive[x].live /\ Parent[x] # Root => drive[Parent[x]].live
    <3>1. \A x \in Paths : Parent[x] # Root => Parent[x] \in Paths
      BY InitialPassAssumption DEF Paths
    <3> QED BY <1>2, <3>1 DEF Began
  <2>1. tree[x] # Absent => x \notin Docs /\ tree[x] \in Kinds(x)
    BY DEF InTree
  <2>2. drive[x] = None \/ \E c \in Kinds(x) : drive[x] = New(None, c)
    <3>1. CASE drive[x] # None
      <4>1. PICK c \in Versions \cup {Folder, Doc} : drive[x] = New(None, c)
        BY <3>1
      <4>2. drive[x].live /\ drive[x].sum = c
        BY <4>1 DEF New
      <4> QED BY <4>1, <4>2 DEF InDrive
    <3> QED BY <3>1
  <2> QED BY <1>5, <2>1, <2>2
<1>7. Skeleton
  BY <1>2, <1>3, <1>5, InitialPassAssumption DEF Skeleton, Paths
<1>8. Walk
  BY DEF Walk, Walked
<1>9. Untouched
  <2> SUFFICES ASSUME NEW x \in Paths
               PROVE  KeptTree(x) /\ KeptDrive(x) /\ SeenRight(x) /\ RowTrue(x)
    BY DEF Untouched, Fine
  <2>1. KeptTree(x) /\ KeptDrive(x)
    BY <1>2, <1>6, Origins DEF KeptTree, KeptDrive
  <2>2. SeenRight(x) /\ RowTrue(x)
    BY <1>3 DEF SeenRight, RowTrue
  <2> QED BY <2>1, <2>2
<1>10. Progress
  BY DEF Progress, FoldersAt, DocsAt, CompareAt, Compared, GetAt, Got, PutAt, ToFind, Results,
         AfterFolders, AfterDocs, AfterPut, AfterNote
<1> QED BY <1>1, <1>2, <1>4, <1>6, <1>7, <1>8, <1>9, <1>10 DEF FirstPass
-----------------------------------------------------------------------------
\* A row made of an entry is a row.
LEMMA RecordTyped ==
    ASSUME Typed, NEW x \in Paths, NEW e \in Entry
    PROVE  Recorded(x, e) \in Noted \cup {NoRow}
BY Entries DEF Typed, Recorded

\* A pass that is given up leaves well-typed nothing behind.
LEMMA LeaveTyped ==
    ASSUME Typed, NEW where \in {"down", "running"}, Leave(where)
    PROVE  /\ seenTree' \in [Paths -> Sums] /\ seenDrive' \in [Paths -> Entry]
           /\ phase' \in Phases /\ unlisted' \subseteq Folders \cup {Root}
BY Entries DEF Typed, Leave, Sums, Phases

\* Listing one folder keeps the types.
LEMMA ListTyped ==
    ASSUME Typed, NEW f \in Folders \cup {Root}, NEW next \in Phases, ListFolder(f, next)
    PROVE  Typed'
<1>1. \A x \in Paths : Listed(x) \in Entry /\ seenDrive[x] \in Entry
  BY Entries DEF Listed, Typed
<1>2. seenDrive' \in [Paths -> Entry]
  BY <1>1 DEF ListFolder
<1> QED BY <1>2 DEF ListFolder, Typed, world, tables, ghosts

\* Every step of the first pass keeps the types.
LEMMA TypedKept ==
    ASSUME Typed, Moves
    PROVE  Typed'
<1> USE DEF Typed
<1>1. CASE ListTree
  BY <1>1, Entries DEF ListTree, world, tables, ghosts, Phases
<1>2. ASSUME NEW f \in Folders \cup {Root}, ListDrive(f) \/ Relist(f)
      PROVE  Typed'
  BY <1>2, ListTyped DEF ListDrive, Relist, Phases
<1>3. ASSUME NEW d \in Paths, MakeFolder(d)
      PROVE  Typed'
  <2>1. New(drive[d], Folder) \in Entry
    BY Entries DEF Sums
  <2>2. drive' \in [Paths -> Entry]
    BY <1>3, <2>1 DEF MakeFolder
  <2>3. seenDrive' \in [Paths -> Entry]
    BY <1>3, <2>2 DEF MakeFolder
  <2> QED BY <1>3, <2>2, <2>3 DEF MakeFolder, tables, ghosts
<1>4. ASSUME NEW d \in Paths, KeepFolder(d)
      PROVE  Typed'
  <2>1. rows' \in [Paths -> Noted \cup {NoRow}]
    BY <1>4, RecordTyped DEF KeepFolder, Record
  <2> QED BY <1>4, <2>1 DEF KeepFolder, walks, ghosts, Sums
<1>5. ASSUME NEW x \in Paths, WritePointer(x)
      PROVE  Typed'
  BY <1>5 DEF WritePointer, tables, walks, ghosts, Sums
<1>6. ASSUME NEW x \in Paths, RecordPointer(x) \/ Compare(x)
      PROVE  Typed'
  <2>1. rows' \in [Paths -> Noted \cup {NoRow}]
    BY <1>6, RecordTyped DEF RecordPointer, Compare, Record
  <2> QED BY <1>6, <2>1 DEF RecordPointer, Compare, world, walks, ghosts
<1>7. ASSUME NEW x \in Paths, Vanished(x)
      PROVE  Typed'
  BY <1>7, LeaveTyped DEF Vanished, world, tables, ghosts
<1>8. ASSUME NEW x \in Paths, Download(x)
      PROVE  Typed'
  BY <1>8, Entries DEF Download, tables, walks, ghosts
<1>9. ASSUME NEW x \in Paths, Upload(x)
      PROVE  Typed'
  <2>1. drive' \in [Paths -> Entry]
    <3>1. CASE tree[x] = Absent
      BY <1>9, <3>1 DEF Upload
    <3>2. CASE tree[x] # Absent
      <4>1. (IF drive[x].live THEN [drive[x] EXCEPT !.sum = tree[x]] ELSE New(drive[x], tree[x])) \in Entry
        BY Entries
      <4> QED BY <1>9, <3>2, <4>1 DEF Upload, Overwrite
    <3> QED BY <3>1, <3>2
  <2> QED BY <1>9, <2>1 DEF Upload, tables, walks, ghosts
<1>10. CASE NoteDownloads
  <2>1. rows' \in [Paths -> Noted \cup {NoRow}]
    BY <1>10, RecordTyped DEF NoteDownloads
  <2>2. seenDrive' \in [Paths -> Entry] /\ unlisted' \subseteq Folders \cup {Root} /\ phase' \in Phases
    BY <1>10, Entries DEF NoteDownloads, Phases
  <2> QED BY <1>10, <2>1, <2>2 DEF NoteDownloads, world, ghosts
<1>11. CASE Match
  <2>1. rows' \in [Paths -> Noted \cup {NoRow}]
    BY <1>11, RecordTyped DEF Match
  <2> QED BY <1>11, <2>1 DEF Match, world, walks, ghosts, Phases
<1>12. CASE LookUp
  <2>1. rows' \in [Paths -> Noted \cup {NoRow}]
    BY <1>12, RecordTyped DEF LookUp
  <2> QED BY <1>12, <2>1 DEF LookUp, world, ghosts
<1>13. CASE EndLookUp \/ Advance
  BY <1>13 DEF EndLookUp, Advance, After, Phases, world, tables, walks, ghosts
<1>14. CASE SaveCursor
  BY <1>14, LeaveTyped DEF SaveCursor, world, ghosts
<1>15. ASSUME NEW x \in Paths, Index(x)
      PROVE  Typed'
  BY <1>15 DEF Index, tables, walks, ghosts
<1>16. ASSUME NEW x \in Paths, NEW content \in Versions \cup {Absent, Folder}, EditTree(x, content)
      PROVE  Typed'
  BY <1>16 DEF EditTree, tables, walks, Sums
<1>17. ASSUME NEW x \in Paths, NEW content \in Versions \cup {Absent, Folder}, EditDrive(x, content)
      PROVE  Typed'
  <2>1. drive' \in [Paths -> Entry]
    <3>1. CASE content = Absent
      <4>1. [drive[x] EXCEPT !.live = FALSE] \in Entry
        BY Entries
      <4>2. drive' = [drive EXCEPT ![x] = [drive[x] EXCEPT !.live = FALSE]]
        BY <1>17, <3>1, InitialPassAssumption DEF EditDrive
      <4> QED BY <4>1, <4>2
    <3>2. CASE content # Absent
      <4>1. (IF drive[x].live THEN [drive[x] EXCEPT !.sum = content] ELSE New(drive[x], content)) \in Entry
        BY Entries DEF Sums
      <4> QED BY <1>17, <3>2, <4>1 DEF EditDrive, Overwrite
    <3> QED BY <3>1, <3>2
  <2> QED BY <1>17, <2>1 DEF EditDrive, tables, walks
<1>18. CASE Leaves
  BY <1>18, LeaveTyped DEF Leaves, world, tables
<1> QED BY <1>1, <1>2, <1>3, <1>4, <1>5, <1>6, <1>7, <1>8, <1>9, <1>10, <1>11, <1>12, <1>13, <1>14,
           <1>15, <1>16, <1>17, <1>18 DEF Moves, PassStep, Environment

-----------------------------------------------------------------------------
\* What there was at first is remembered, and a touched path stays touched.
LEMMA OriginStays ==
    ASSUME Moves
    PROVE  origin' = origin /\ touched \subseteq touched'
BY DEF Moves, PassStep, Environment, Leaves, ListTree, NoteDownloads, Match, LookUp, EndLookUp, Advance,
       SaveCursor, ListDrive, Relist, ListFolder, MakeFolder, KeepFolder, WritePointer, RecordPointer,
       Compare, Vanished, Download, Upload, Index, EditTree, EditDrive, ghosts, walks

\* Every step keeps what is known of the beginning.
LEMMA BeganKept ==
    ASSUME Began, Moves
    PROVE  Began'
BY OriginStays DEF Began, Here, There

\* The cursor is stored when the loops start, never before.
LEMMA QuietKept ==
    ASSUME Quiet, Moves, UNCHANGED <<ops, half>>
    PROVE  Quiet'
<1> USE DEF Quiet
<1>1. CASE ListTree \/ SaveCursor \/ EndLookUp \/ Match \/ NoteDownloads
  BY <1>1 DEF ListTree, SaveCursor, EndLookUp, Match, NoteDownloads, Leave, tables
<1>2. CASE LookUp
  BY <1>2 DEF LookUp
<1>3. CASE Advance
  BY <1>3 DEF Advance, After, tables
<1>4. ASSUME NEW f \in Folders \cup {Root}, ListDrive(f) \/ Relist(f)
      PROVE  Quiet'
  BY <1>4 DEF ListDrive, Relist, ListFolder, tables
<1>5. ASSUME NEW x \in Paths, MakeFolder(x) \/ KeepFolder(x) \/ WritePointer(x) \/ RecordPointer(x)
      PROVE  Quiet'
  BY <1>5 DEF MakeFolder, KeepFolder, WritePointer, RecordPointer, tables
<1>6. ASSUME NEW x \in Paths, Compare(x) \/ Vanished(x) \/ Download(x) \/ Upload(x)
      PROVE  Quiet'
  BY <1>6 DEF Compare, Vanished, Download, Upload, tables, Leave
<1>7. ASSUME NEW x \in Paths, NEW content, Index(x) \/ EditTree(x, content) \/ EditDrive(x, content)
      PROVE  Quiet'
  BY <1>7 DEF Index, EditTree, EditDrive, tables
<1>8. CASE Leaves
  BY <1>8 DEF Leaves, Leave, tables
<1> QED BY <1>1, <1>2, <1>3, <1>4, <1>5, <1>6, <1>7, <1>8 DEF Moves, PassStep, Environment

-----------------------------------------------------------------------------
(* Folders: what is known of one, and that they stay.                       *)
LEMMA FoldersAre ==
    ASSUME Began, Skeleton, Untouched, Typed, NEW d \in Folders
    PROVE  /\ d \in Paths /\ d \notin Files /\ d \notin Docs /\ d \notin Ignored
           /\ Listed(d) # None <=> drive[d].live
           /\ Parent[d] # Root => Parent[d] \in Folders
BY InitialPassAssumption, Entries DEF Skeleton, Listed, Paths, Typed

\* Listing one folder keeps the folders rooted in what the walk has seen.
LEMMA ListSkeleton ==
    ASSUME Began, Skeleton, Untouched, Typed, NEW f \in Folders \cup {Root}, NEW next, ListFolder(f, next)
    PROVE  Skeleton'
<1>1. UNCHANGED <<tree, drive, hidden, seenTree, origin>> /\ f \in unlisted
  BY DEF ListFolder, world, ghosts
<1>2. \A x \in Paths : seenDrive'[x] = IF Parent[x] = f THEN Listed(x) ELSE seenDrive[x]
  BY DEF ListFolder
<1>3. \A d \in Folders : OnDrive(d) => OnDrive(d)'
  BY <1>2, FoldersAre DEF OnDrive, Skeleton
<1>4. Reached(f)
  BY <1>1 DEF Skeleton
<1>5. \A g \in Folders \cup {Root} : Reached(g) => Reached(g)'
  BY <1>3 DEF Reached
<1>6. ASSUME NEW d \in Folders, OnDrive(d)'
      PROVE  drive[d].live /\ Reached(Parent[d])'
  <2>1. CASE Parent[d] = f
    BY <1>2, <1>4, <1>5, <1>6, <2>1, FoldersAre DEF OnDrive
  <2>2. CASE Parent[d] # f
    <3>1. OnDrive(d) /\ Parent[d] \in Folders \cup {Root}
      BY <1>2, <1>6, <2>2, FoldersAre DEF OnDrive
    <3> QED BY <1>5, <3>1 DEF Skeleton
  <2> QED BY <2>1, <2>2
<1>7. ASSUME NEW g \in unlisted'
      PROVE  Reached(g)'
  <2>1. g \in unlisted \/ (g \in Folders /\ Parent[g] = f /\ Listed(g) # None)
    BY <1>7 DEF ListFolder
  <2>2. CASE g \in unlisted
    BY <1>5, <2>2 DEF Skeleton, Typed
  <2>3. CASE g \in Folders /\ Parent[g] = f /\ Listed(g) # None
    BY <1>2, <2>3, FoldersAre DEF Reached, OnDrive
  <2> QED BY <2>1, <2>2, <2>3
<1> QED BY <1>1, <1>6, <1>7 DEF Skeleton, OnDisk, There

\* A step that leaves every folder alone keeps the skeleton.
LEMMA SkeletonSame ==
    ASSUME Skeleton, Typed, origin' = origin, unlisted' \subseteq unlisted,
           \A d \in Folders : /\ tree'[d] = tree[d] /\ drive'[d] = drive[d]
                              /\ seenTree'[d] = seenTree[d] /\ seenDrive'[d] = seenDrive[d]
                              /\ d \in hidden' => d \in hidden
    PROVE  Skeleton'
<1>1. \A d \in Folders : Parent[d] = Root \/ Parent[d] \in Folders
  BY InitialPassAssumption DEF Paths
<1>2. \A d \in Folders : (OnDisk(d)' <=> OnDisk(d)) /\ (OnDrive(d)' <=> OnDrive(d))
  BY DEF OnDisk, OnDrive
<1>3. \A f \in Folders \cup {Root} : Reached(f)' <=> Reached(f)
  BY <1>2 DEF Reached
<1> QED BY <1>1, <1>2, <1>3 DEF Skeleton, There, Typed

\* What the walks saw is forgotten, or not seen yet.
LEMMA SkeletonBlank ==
    ASSUME Skeleton, Typed, UNCHANGED <<tree, drive, hidden, origin>>,
           \/ seenTree' = [x \in Paths |-> Absent] \/ seenTree' = tree \/ seenTree' = seenTree,
           seenDrive' = [x \in Paths |-> None], unlisted' \subseteq {Root}
    PROVE  Skeleton'
<1>1. \A d \in Folders : d \in Paths /\ (Parent[d] = Root \/ Parent[d] \in Folders)
  BY InitialPassAssumption DEF Paths
<1>2. \A d \in Folders : ~OnDrive(d)'
  BY <1>1 DEF OnDrive
<1>3. \A d \in Folders : OnDisk(d)' => tree[d] # Absent /\ (Parent[d] = Root \/ OnDisk(Parent[d])')
  <2>1. CASE seenTree' = [x \in Paths |-> Absent]
    BY <1>1, <2>1 DEF OnDisk
  <2>2. CASE seenTree' = tree
    BY <1>1, <2>2 DEF OnDisk, Skeleton
  <2>3. CASE seenTree' = seenTree
    BY <1>1, <2>3 DEF OnDisk, Skeleton
  <2> QED BY <2>1, <2>2, <2>3
<1> QED BY <1>1, <1>2, <1>3 DEF Skeleton, There, Reached

\* Giving up the pass keeps the skeleton.
LEMMA LeaveSkeleton ==
    ASSUME Skeleton, Typed, NEW where, Leave(where), UNCHANGED <<world, origin>>
    PROVE  Skeleton'
BY SkeletonBlank DEF Leave, world

\* A folder is made on Drive only where the tree has it, below a folder that is there.
LEMMA MakeSkeleton ==
    ASSUME FirstPass, NEW d \in Paths, MakeFolder(d)
    PROVE  Skeleton' /\ d \in Folders /\ OnDisk(d) /\ ~drive[d].live
<1> USE DEF FirstPass
<1>1. /\ d \in Folders /\ OnDisk(d) /\ ~OnDrive(d) /\ Parent[d] \notin todo
      /\ UNCHANGED <<tree, hidden, seenTree, unlisted, origin>>
  BY DEF MakeFolder, Progress, FoldersAt, ghosts
<1>2. ~drive[d].live
  BY <1>1, FoldersAre DEF MakeFolder, Walk, Walked, Sure
<1>3. /\ \A e \in Paths : drive'[e] = IF e = d THEN New(drive[d], Folder) ELSE drive[e]
      /\ \A e \in Paths : seenDrive'[e] = IF e = d THEN New(drive[d], Folder) ELSE seenDrive[e]
  BY DEF MakeFolder, Typed
<1>4. New(drive[d], Folder).live /\ New(drive[d], Folder) # None
  BY DEF New, None
<1>5. Parent[d] = Root \/ (Parent[d] \in Folders /\ OnDrive(Parent[d]))
  <2>1. CASE Parent[d] # Root
    <3>1. Parent[d] \in Folders /\ OnDisk(Parent[d])
      BY <1>1, <2>1, FoldersAre DEF Skeleton
    <3> QED BY <1>1, <3>1 DEF MakeFolder, Progress, FoldersAt
  <2> QED BY <2>1
<1>6. \A e \in Folders : (OnDrive(e) => OnDrive(e)') /\ (OnDisk(e)' <=> OnDisk(e))
  BY <1>1, <1>3, <1>4, FoldersAre DEF OnDrive, OnDisk
<1>7. \A f \in Folders \cup {Root} : Reached(f) => Reached(f)'
  BY <1>6 DEF Reached
<1>8. ASSUME NEW e \in Folders
      PROVE  /\ drive[e].live => drive'[e].live
             /\ drive'[e].live => Parent[e] = Root \/ drive'[Parent[e]].live
             /\ OnDrive(e)' => drive'[e].live /\ Reached(Parent[e])'
  <2>1. \A g \in Folders : drive[g].live => drive'[g].live
    BY <1>3, <1>4, FoldersAre
  <2>2. CASE e = d
    BY <1>3, <1>4, <1>5, <1>7, <2>1, <2>2 DEF Skeleton, Reached
  <2>3. CASE e # d
    <3>1. e \in Paths /\ Parent[e] \in Folders \cup {Root}
      BY FoldersAre
    <3>2. drive'[e] = drive[e] /\ seenDrive'[e] = seenDrive[e]
      BY <1>3, <2>3, <3>1
    <3> QED BY <1>7, <2>1, <3>1, <3>2 DEF Skeleton, OnDrive
  <2> QED BY <2>1, <2>2, <2>3
<1>9. \A f \in unlisted' : Reached(f)'
  BY <1>1, <1>7 DEF Skeleton, Typed
<1>10. \A e \in Folders : Parent[e] = Root \/ Parent[e] \in Folders
  BY FoldersAre
<1>11. Skeleton'
  BY <1>1, <1>6, <1>8, <1>9, <1>10 DEF Skeleton, There
<1> QED BY <1>1, <1>2, <1>11

\* A folder is made in the tree only where Drive has it, below a folder that is there.
LEMMA KeepSkeleton ==
    ASSUME FirstPass, NEW d \in Paths, KeepFolder(d)
    PROVE  Skeleton' /\ d \in Folders /\ OnDrive(d)
<1> USE DEF FirstPass
<1>1. /\ d \in Folders /\ OnDrive(d) /\ Parent[d] \notin todo
      /\ UNCHANGED <<drive, hidden, seenTree, seenDrive, unlisted, origin>>
  BY DEF KeepFolder, Progress, FoldersAt, ghosts, walks
<1>2. \A e \in Paths : tree'[e] = IF e = d THEN Folder ELSE tree[e]
  BY DEF KeepFolder, Typed
<1>3. Parent[d] = Root \/ (Parent[d] \in Folders /\ tree[Parent[d]] # Absent)
  <2>1. CASE Parent[d] # Root
    <3>1. Parent[d] \in Folders /\ OnDrive(Parent[d])
      BY <1>1, <2>1, FoldersAre DEF Skeleton, Reached
    <3> QED BY <1>1, <3>1 DEF KeepFolder, Progress, FoldersAt
  <2> QED BY <2>1
<1>4. \A e \in Folders : tree[e] # Absent => tree'[e] # Absent
  BY <1>2, FoldersAre, InitialPassAssumption
<1>5. \A e \in Folders : tree'[e] # Absent => Parent[e] = Root \/ tree'[Parent[e]] # Absent
  BY <1>1, <1>2, <1>3, <1>4, FoldersAre DEF Skeleton
<1>6. \A e \in Folders : OnDisk(e)' <=> OnDisk(e)
  BY <1>1 DEF OnDisk
<1>7. \A e \in Folders : Parent[e] = Root \/ Parent[e] \in Folders
  BY FoldersAre
<1>8. \A e \in Folders : (OnDrive(e)' <=> OnDrive(e)) /\ (OnDisk(e)' <=> OnDisk(e))
  BY <1>1 DEF OnDrive, OnDisk
<1>9. \A f \in Folders \cup {Root} : Reached(f)' <=> Reached(f)
  BY <1>8 DEF Reached
<1>10. Skeleton'
  BY <1>1, <1>4, <1>5, <1>7, <1>8, <1>9 DEF Skeleton, There, Typed
<1> QED BY <1>1, <1>10

\* Every step of the first pass keeps the skeleton.
LEMMA SkeletonKept ==
    ASSUME FirstPass, Moves
    PROVE  Skeleton'
<1> USE DEF FirstPass
<1>0. \A d \in Folders : d \in Paths /\ d \notin Files /\ d \notin Docs
  BY FoldersAre
<1>1. CASE ListTree
  BY <1>1, SkeletonBlank DEF ListTree, world, ghosts
<1>2. ASSUME NEW f \in Folders \cup {Root}, ListDrive(f) \/ Relist(f)
      PROVE  Skeleton'
  BY <1>2, ListSkeleton DEF ListDrive, Relist
<1>3. ASSUME NEW d \in Paths, MakeFolder(d) \/ KeepFolder(d)
      PROVE  Skeleton'
  BY <1>3, MakeSkeleton, KeepSkeleton
<1>4. ASSUME NEW x \in Paths, WritePointer(x)
      PROVE  Skeleton'
  <2>1. x \in Docs
    BY <1>4 DEF WritePointer, Progress, DocsAt
  <2>2. \A d \in Folders : tree'[d] = tree[d]
    BY <1>0, <1>4, <2>1 DEF WritePointer, Typed
  <2> QED BY <1>4, <2>2, SkeletonSame DEF WritePointer, walks, ghosts
<1>5. ASSUME NEW x \in Paths, RecordPointer(x) \/ Compare(x)
      PROVE  Skeleton'
  BY <1>5, SkeletonSame DEF RecordPointer, Compare, world, walks, ghosts
<1>6. ASSUME NEW x \in Paths, Vanished(x)
      PROVE  Skeleton'
  BY <1>6, LeaveSkeleton DEF Vanished, ghosts
<1>7. ASSUME NEW x \in Paths, Download(x)
      PROVE  Skeleton'
  <2>1. x \in Files
    BY <1>7 DEF Download, Progress, GetAt, Downs
  <2>2. \A d \in Folders : tree'[d] = tree[d]
    BY <1>0, <1>7, <2>1 DEF Download, Typed
  <2> QED BY <1>7, <2>2, SkeletonSame DEF Download, walks, ghosts
<1>8. ASSUME NEW x \in Paths, Upload(x)
      PROVE  Skeleton'
  <2>1. x \in Files \cup Docs
    BY <1>8 DEF Upload, Progress, PutAt, Ups
  <2>2. \A d \in Folders : drive'[d] = drive[d] /\ (d \in hidden' => d \in hidden)
    BY <1>0, <1>8, <2>1 DEF Upload, Overwrite, Typed
  <2> QED BY <1>8, <2>2, SkeletonSame DEF Upload, walks, ghosts
<1>9. CASE NoteDownloads
  <2>1. CASE UNCHANGED <<seenDrive, unlisted>>
    BY <1>9, <2>1, SkeletonSame DEF NoteDownloads, world, ghosts
  <2>2. CASE seenDrive' = [x \in Paths |-> None] /\ unlisted' = {Root}
    BY <1>9, <2>2, SkeletonBlank DEF NoteDownloads, world, ghosts
  <2> QED BY <1>9, <2>1, <2>2 DEF NoteDownloads
<1>10. CASE Match \/ LookUp \/ EndLookUp \/ Advance
  BY <1>10, SkeletonSame DEF Match, LookUp, EndLookUp, Advance, world, walks, ghosts
<1>11. CASE SaveCursor
  BY <1>11, LeaveSkeleton DEF SaveCursor, ghosts
<1>12. ASSUME NEW x \in Paths, Index(x)
      PROVE  Skeleton'
  BY <1>12, SkeletonSame DEF Index, walks, ghosts
<1>13. ASSUME NEW x \in Paths, NEW content \in Versions \cup {Absent, Folder}, EditTree(x, content)
      PROVE  Skeleton'
  <2>1. UNCHANGED <<drive, hidden, seenTree, seenDrive, unlisted, origin>>
    BY <1>13 DEF EditTree, walks
  <2>2. CASE x \in Files
    <3>1. \A d \in Folders : tree'[d] = tree[d]
      BY <1>0, <1>13, <2>2 DEF EditTree, Typed
    <3> QED BY <2>1, <3>1, SkeletonSame
  <2>3. CASE x \in Folders
    <3>1. /\ \A e \in Paths : tree'[e] = IF e = x THEN Folder ELSE tree[e]
          /\ Parent[x] = Root \/ tree[Parent[x]] # Absent
      BY <1>0, <1>13, <2>3, InitialPassAssumption DEF EditTree, Typed, InTree
    <3>2. \A e \in Folders : Parent[e] = Root \/ Parent[e] \in Folders
      BY FoldersAre
    <3>3. \A e \in Folders : tree[e] # Absent => tree'[e] # Absent
      BY <1>0, <3>1, InitialPassAssumption
    <3>4. \A e \in Folders : tree'[e] # Absent => Parent[e] = Root \/ tree'[Parent[e]] # Absent
      BY <1>0, <3>1, <3>2, <3>3 DEF Skeleton
    <3>5. \A e \in Folders : (OnDrive(e)' <=> OnDrive(e)) /\ (OnDisk(e)' <=> OnDisk(e))
      BY <2>1 DEF OnDrive, OnDisk
    <3>6. \A f \in Folders \cup {Root} : Reached(f)' <=> Reached(f)
      BY <3>5 DEF Reached
    <3> QED BY <2>1, <3>2, <3>3, <3>4, <3>5, <3>6 DEF Skeleton, There, Typed
  <2> QED BY <1>13, <2>2, <2>3 DEF EditTree
<1>14. ASSUME NEW x \in Paths, NEW content \in Versions \cup {Absent, Folder}, EditDrive(x, content)
      PROVE  Skeleton'
  <2>1. x \in Files
    BY <1>14 DEF EditDrive
  <2>2. \A d \in Folders : drive'[d] = drive[d]
    BY <1>0, <1>14, <2>1 DEF EditDrive, Overwrite, Typed
  <2> QED BY <1>14, <2>2, SkeletonSame DEF EditDrive, walks
<1>15. CASE Leaves
  BY <1>15, LeaveSkeleton DEF Leaves
<1> QED BY <1>1, <1>2, <1>3, <1>4, <1>5, <1>6, <1>7, <1>8, <1>9, <1>10, <1>11, <1>12, <1>13, <1>14,
           <1>15 DEF Moves, PassStep, Environment

-----------------------------------------------------------------------------
(* The first walk misses nothing that is sure to be listed.                *)
LEMMA SureSame ==
    ASSUME origin' = origin, touched \subseteq touched', drive' = drive
    PROVE  \A x \in Paths : Sure(x)' => Sure(x)
BY DEF Sure, There

\* A step that neither lists nor adds anything sure leaves the first walk complete.
LEMMA WalkSame ==
    ASSUME Walk, UNCHANGED <<unlisted, seenDrive>>,
           \A x \in Paths : Sure(x)' => Sure(x),
           \/ phase' = phase
           \/ phase \in Walked /\ phase' \in Walked
           \/ phase' \notin Walked \cup {"listDrive"}
    PROVE  Walk'
BY DEF Walk, Walked, Reached, OnDrive

\* What is sure to be listed is in its folder's listing: it is not hidden.
LEMMA ListingIs ==
    ASSUME FirstPass, NEW x \in Paths, Sure(x)
    PROVE  Listed(x) # None
BY Entries DEF FirstPass, Typed, Sure, Listed, Skeleton, Untouched, Fine, SeenRight

\* What is sure to be listed is at the root or below a folder that is.
LEMMA SureBelowSure ==
    ASSUME FirstPass, NEW x \in Paths, Sure(x)
    PROVE  Parent[x] = Root \/ (Parent[x] \in Folders /\ Sure(Parent[x]))
BY InitialPassAssumption DEF FirstPass, Began, Sure, Skeleton

\* A listing takes the first walk on: once no folder is left, by the acyclic tree, all is seen.
LEMMA WalkOn ==
    ASSUME FirstPass, NEW f \in Folders \cup {Root}, ListDrive(f)
    PROVE  Walk'
<1> USE DEF FirstPass
<1>1. /\ UNCHANGED <<drive, origin, touched>> /\ phase = "listDrive" /\ f \in unlisted
      /\ \A x \in Paths : seenDrive'[x] = IF Parent[x] = f THEN Listed(x) ELSE seenDrive[x]
      /\ unlisted' = (unlisted \ {f}) \cup {d \in Folders : Parent[d] = f /\ Listed(d) # None}
      /\ phase' = IF unlisted' = {} THEN "folders" ELSE "listDrive"
  BY DEF ListDrive, ListFolder, world, ghosts
<1>2. \A x \in Paths : Sure(x)' <=> Sure(x)
  BY <1>1 DEF Sure, There
<1>3. ASSUME NEW x \in Paths, Reached(Parent[x])', Sure(x)
      PROVE  Parent[x] \in unlisted' \/ OnDrive(x)'
  <2>1. CASE Parent[x] = f
    BY <1>1, <1>3, <2>1, ListingIs DEF OnDrive
  <2>2. CASE Parent[x] # f /\ Reached(Parent[x])
    BY <1>1, <1>3, <2>2 DEF Walk, OnDrive
  <2>3. CASE Parent[x] # f /\ ~Reached(Parent[x])
    <3>1. Parent[x] \in Folders /\ Parent[x] \in Paths
      BY <2>3, InitialPassAssumption DEF Reached, Paths
    <3>2. seenDrive'[Parent[x]] # None /\ seenDrive[Parent[x]] = None
      BY <1>3, <2>3 DEF Reached, OnDrive
    <3>3. Parent[Parent[x]] = f /\ Listed(Parent[x]) # None
      BY <1>1, <3>1, <3>2
    <3> QED BY <1>1, <3>1, <3>3
  <2> QED BY <2>1, <2>2, <2>3
<1>4. ASSUME unlisted' = {}, NEW y \in Paths, Sure(y), ~OnDrive(y)'
      PROVE  FALSE
  <2> DEFINE S == {x \in Paths : Sure(x) /\ ~OnDrive(x)'}
  <2>1. PICK x \in S : Parent[x] \notin S
    BY <1>4, InitialPassAssumption
  <2>2. Parent[x] = Root \/ OnDrive(Parent[x])'
    BY <2>1, SureBelowSure DEF Paths
  <2>3. Reached(Parent[x])'
    BY <2>2, <1>1 DEF Reached
  <2> QED BY <1>3, <1>4, <2>1, <2>3
<1> QED BY <1>1, <1>2, <1>3, <1>4 DEF Walk, Walked

\* Every step of the first pass keeps what the first walk has seen.
LEMMA WalkKept ==
    ASSUME FirstPass, Moves
    PROVE  Walk'
<1> USE DEF FirstPass
<1>0. /\ origin' = origin /\ touched \subseteq touched'
      /\ drive' = drive => \A x \in Paths : Sure(x)' => Sure(x)
  BY OriginStays, SureSame
<1>1. CASE ListTree
  <2>1. \A x \in Paths : Parent[x] # Root => Parent[x] \in Paths /\ ~OnDrive(Parent[x])'
    BY <1>1, InitialPassAssumption DEF ListTree, OnDrive, Paths
  <2> QED BY <1>1, <2>1 DEF ListTree, Walk, Walked, Reached
<1>2. ASSUME NEW f \in Folders \cup {Root}, ListDrive(f)
      PROVE  Walk'
  BY <1>2, WalkOn
<1>3. ASSUME NEW f \in Folders \cup {Root}, Relist(f)
      PROVE  Walk'
  BY <1>3 DEF Relist, ListFolder, Walk, Walked
<1>4. ASSUME NEW d \in Paths, MakeFolder(d)
      PROVE  Walk'
  <2>1. New(drive[d], Folder) # None
    BY DEF New, None
  <2>2. ASSUME NEW x \in Paths, Sure(x)'
        PROVE  OnDrive(x)'
    <3>1. CASE x = d
      BY <1>4, <2>1, <3>1 DEF MakeFolder, OnDrive, Typed
    <3>2. CASE x # d
      <4>1. drive'[x] = drive[x] /\ seenDrive'[x] = seenDrive[x]
        BY <1>4, <3>2 DEF MakeFolder, Typed
      <4>2. Sure(x)
        BY <1>0, <2>2, <4>1 DEF Sure, There
      <4> QED BY <1>4, <4>1, <4>2 DEF MakeFolder, Walk, Walked, OnDrive
    <3> QED BY <3>1, <3>2
  <2> QED BY <1>4, <2>2 DEF MakeFolder, Walk, Walked
<1>5. ASSUME NEW x \in Paths, KeepFolder(x) \/ WritePointer(x) \/ RecordPointer(x) \/ Compare(x) \/ Download(x)
      PROVE  Walk'
  BY <1>0, <1>5, WalkSame DEF KeepFolder, WritePointer, RecordPointer, Compare, Download, world, walks
<1>6. ASSUME NEW x \in Paths, Vanished(x)
      PROVE  Walk'
  BY <1>6 DEF Vanished, Leave, Walk, Walked
<1>7. ASSUME NEW x \in Paths, Upload(x)
      PROVE  Walk'
  <2>1. x \in Files \cup Docs
    BY <1>7 DEF Upload, Progress, PutAt, Ups
  <2>2. ASSUME NEW y \in Paths, Sure(y)'
        PROVE  Sure(y)
    <3>1. CASE y = x
      <4>1. y \notin Folders
        BY <2>1, <3>1, FoldersAre
      <4>2. There(y).live /\ y \notin touched
        BY <1>0, <2>2, <4>1 DEF Sure, There
      <4> QED BY <4>2 DEF Untouched, Fine, KeptDrive, Sure
    <3>2. CASE y # x
      <4>1. drive'[y] = drive[y]
        BY <1>7, <3>2 DEF Upload, Overwrite, Typed
      <4> QED BY <1>0, <2>2, <4>1 DEF Sure, There
    <3> QED BY <3>1, <3>2
  <2> QED BY <1>7, <2>2, WalkSame DEF Upload, walks
<1>8. CASE NoteDownloads \/ Match \/ LookUp \/ EndLookUp \/ SaveCursor \/ Leaves
  BY <1>8 DEF NoteDownloads, Match, LookUp, EndLookUp, SaveCursor, Leaves, Leave, Walk, Walked
<1>9. CASE Advance
  BY <1>0, <1>9, WalkSame DEF Advance, After, Walked, world, walks
<1>10. ASSUME NEW x \in Paths, NEW content, Index(x) \/ EditTree(x, content)
      PROVE  Walk'
  BY <1>0, <1>10, WalkSame DEF Index, EditTree, walks
<1>11. ASSUME NEW x \in Paths, NEW content, EditDrive(x, content)
      PROVE  Walk'
  <2>1. ASSUME NEW y \in Paths, Sure(y)'
        PROVE  Sure(y)
    <3>1. CASE y = x
      BY <1>11, <2>1, <3>1, FoldersAre DEF EditDrive, Sure
    <3>2. CASE y # x
      <4>1. drive'[y] = drive[y]
        BY <1>11, <3>2 DEF EditDrive, Overwrite, Typed
      <4> QED BY <1>0, <2>1, <4>1 DEF Sure, There
    <3> QED BY <3>1, <3>2
  <2> QED BY <1>11, <2>1, WalkSame DEF EditDrive, walks
<1> QED BY <1>1, <1>2, <1>3, <1>4, <1>5, <1>6, <1>7, <1>8, <1>9, <1>10, <1>11 DEF Moves, PassStep, Environment

-----------------------------------------------------------------------------
(* What is known of a path nobody touched.                                 *)
LEMMA Known ==
    ASSUME FirstPass, NEW x \in Paths, x \notin touched
    PROVE  /\ Fine(x)
           /\ There(x).live => drive[x] = There(x)
           /\ ~There(x).live => There(x) = None
           /\ drive[x].live => /\ There(x).live \/ (Here(x) # Absent /\ x \notin Ignored)
                               /\ drive[x].sum = IF There(x).live THEN There(x).sum ELSE Here(x)
           /\ ~drive[x].live => drive[x] = None
           /\ drive[x] = None => ~There(x).live
           /\ Here(x) # Absent => tree[x] = Here(x)
           /\ tree[x] # Absent => Here(x) # Absent \/ (There(x).live /\ tree[x] = There(x).sum)
           /\ OnDrive(x) => drive[x].live /\ seenDrive[x] = drive[x]
<1>1. Began /\ Fine(x)
  BY DEF FirstPass, Untouched
<1>2. Sent(x).live /\ Sent(x).sum = Here(x) /\ ~None.live /\ None.sum = Absent
  BY DEF Sent, None
<1> QED BY <1>1, <1>2, Origins DEF Fine, KeptTree, KeptDrive, SeenRight, OnDrive

\* A step that leaves a path alone leaves it fine; a walk may start anew.
LEMMA FineSame ==
    ASSUME NEW x \in Paths, Fine(x), origin' = origin,
           tree'[x] = tree[x], drive'[x] = drive[x], rows'[x] = rows[x], seenTree'[x] = seenTree[x],
           seenDrive'[x] \in {seenDrive[x], None}, x \in hidden' => x \in hidden,
           phase' = phase \/ phase \notin {"down", "running"} \/ phase' \in {"down", "running"}
    PROVE  Fine(x)'
<1>1. KeptTree(x)' /\ KeptDrive(x)' /\ RowTrue(x)'
  BY DEF Fine, KeptTree, KeptDrive, RowTrue, Here, There, Sent
<1>2. SeenRight(x)'
  BY DEF Fine, SeenRight, OnDisk, OnDrive, Here, There
<1> QED BY <1>1, <1>2 DEF Fine

\* Giving up the pass leaves a path fine.
LEMMA LeaveFine ==
    ASSUME NEW x \in Paths, Fine(x), NEW where \in {"down", "running"}, Leave(where),
           UNCHANGED <<world, rows, origin>>
    PROVE  Fine(x)'
<1>1. KeptTree(x)' /\ KeptDrive(x)' /\ RowTrue(x)'
  BY DEF Fine, KeptTree, KeptDrive, RowTrue, Here, There, Sent, world
<1>2. SeenRight(x)'
  BY DEF Fine, SeenRight, OnDisk, OnDrive, Here, There, Leave, world
<1> QED BY <1>1, <1>2 DEF Fine

\* A row is made of what Drive has, once the tree has it too.
LEMMA RecordFine ==
    ASSUME FirstPass, NEW x \in Paths, x \notin touched, x \notin Ignored,
           NEW e, rows'[x] = Recorded(x, e), e = drive[x], drive[x].live,
           tree'[x] = drive[x].sum, drive'[x] = drive[x]
    PROVE  RowTrue(x)'
BY Known DEF Fine, RowTrue, Recorded

\* A listing shows an untouched path as it is, or not at all.
LEMMA ListFine ==
    ASSUME FirstPass, NEW f, NEW next, next \notin {"down", "running"}, ListFolder(f, next),
           phase \notin {"down", "running"}, NEW x \in Paths, x \notin touched
    PROVE  Fine(x)'
<1>1. UNCHANGED <<tree, drive, hidden, rows, seenTree, origin>> /\ phase' \notin {"down", "running"}
  BY DEF ListFolder, world, tables, ghosts
<1>2. seenDrive'[x] = Listed(x) \/ seenDrive'[x] = seenDrive[x]
  BY DEF ListFolder
<1>3. Listed(x) = None \/ (Listed(x) = drive[x] /\ drive[x].live)
  BY DEF Listed
<1>4. KeptTree(x)' /\ KeptDrive(x)' /\ RowTrue(x)'
  BY <1>1, Known DEF Fine, KeptTree, KeptDrive, RowTrue, Here, There, Sent
<1>5. SeenRight(x)'
  BY <1>1, <1>2, <1>3, Known DEF Fine, SeenRight, OnDisk, OnDrive, Here, There
<1> QED BY <1>4, <1>5 DEF Fine

\* Making a folder on Drive gives it what the tree has, and leaves other paths alone.
LEMMA MakeFine ==
    ASSUME FirstPass, NEW d \in Paths, MakeFolder(d), NEW x \in Paths, x \notin touched
    PROVE  Fine(x)'
<1> USE DEF FirstPass
<1>1. /\ UNCHANGED <<tree, hidden, rows, phase, seenTree, origin>>
      /\ drive' = [drive EXCEPT ![d] = New(drive[d], Folder)]
      /\ seenDrive' = [seenDrive EXCEPT ![d] = New(drive[d], Folder)]
  BY DEF MakeFolder, tables, ghosts, Typed
<1>2. CASE x # d
  <2>1. drive'[x] = drive[x] /\ seenDrive'[x] = seenDrive[x]
    BY <1>1, <1>2
  <2> QED BY <1>1, <2>1, FineSame, Known
<1>3. CASE x = d
  <2>1. d \in Folders /\ d \notin Docs /\ d \notin Files /\ d \notin Ignored /\ OnDisk(d) /\ ~drive[d].live
    BY MakeSkeleton, FoldersAre
  <2>2. ~There(d).live /\ Here(d) = Folder /\ rows[d] = NoRow /\ drive[d] = None
    <3>1. drive[d] = None /\ ~There(d).live /\ tree[d] # Absent /\ rows[d] = NoRow
      BY <1>3, <2>1, Known DEF Fine, SeenRight, RowTrue
    <3>2. Here(d) # Absent
      BY <1>3, <3>1, Known
    <3> QED BY <1>3, <2>1, <3>1, <3>2, Origins DEF Kinds
  <2>3. drive'[d] = Sent(d) /\ seenDrive'[d] = Sent(d)
    <3>1. New(None, Folder) = Sent(d)
      BY <2>2 DEF New, None, Sent
    <3> QED BY <1>1, <2>2, <3>1 DEF Typed
  <2>4. Sent(d).live
    BY DEF Sent
  <2>5. KeptTree(d)'
    BY <1>1, <1>3, Known DEF Fine, KeptTree, Here, There
  <2>6. KeptDrive(d)'
    BY <1>1, <2>1, <2>2, <2>3, InitialPassAssumption DEF KeptDrive, Here, There, Sent
  <2>7. RowTrue(d)'
    BY <1>1, <2>2 DEF RowTrue
  <2>8. SeenRight(d)'
    BY <1>1, <1>3, <2>2, <2>3, <2>4, Known DEF Fine, SeenRight, OnDisk, OnDrive, Here, There
  <2> QED BY <1>3, <2>5, <2>6, <2>7, <2>8 DEF Fine
<1> QED BY <1>2, <1>3

\* A folder that is on both sides gets a true row.
LEMMA KeepFine ==
    ASSUME FirstPass, NEW d \in Paths, KeepFolder(d), NEW x \in Paths, x \notin touched
    PROVE  Fine(x)'
<1> USE DEF FirstPass
<1>1. /\ UNCHANGED <<drive, hidden, phase, seenTree, seenDrive, origin>>
      /\ tree' = [tree EXCEPT ![d] = Folder]
      /\ rows' = [rows EXCEPT ![d] = Recorded(d, seenDrive[d])]
  BY DEF KeepFolder, Record, walks, ghosts
<1>2. CASE x # d
  <2>1. tree'[x] = tree[x] /\ rows'[x] = rows[x]
    BY <1>1, <1>2
  <2> QED BY <1>1, <2>1, FineSame, Known
<1>3. CASE x = d
  <2>1. d \in Folders /\ d \notin Docs /\ d \notin Files /\ d \notin Ignored /\ OnDrive(d)
    BY KeepSkeleton, FoldersAre
  <2>2. drive[d].live /\ seenDrive[d] = drive[d] /\ (There(d).live \/ Here(d) # Absent)
    BY <1>3, <2>1, Known
  <2>3. /\ Kinds(d) = {Folder}
        /\ Here(d) # Absent => Here(d) = Folder
        /\ There(d).live => There(d).sum = Folder
    BY <2>1, Origins DEF Kinds
  <2>4. drive[d].sum = Folder /\ tree'[d] = Folder /\ rows'[d] = Recorded(d, drive[d])
    BY <1>1, <1>3, <2>2, <2>3, Known DEF Typed
  <2>5. RowTrue(d)'
    BY <1>1, <1>3, <2>1, <2>2, <2>4, RecordFine
  <2>6. KeptTree(d)'
    BY <1>1, <1>3, <2>1, <2>2, <2>3, <2>4 DEF KeptTree, Here, There
  <2>7. KeptDrive(d)'
    BY <1>1, <1>3, Known DEF Fine, KeptDrive, Here, There, Sent
  <2>8. SeenRight(d)'
    BY <1>1, <1>3, <2>4, InitialPassAssumption, Known DEF Fine, SeenRight, OnDisk, OnDrive, Here, There
  <2> QED BY <1>3, <2>5, <2>6, <2>7, <2>8 DEF Fine
<1> QED BY <1>2, <1>3

\* The pointer of a Doc, which was on Drive from the first.
LEMMA DocIs ==
    ASSUME FirstPass, NEW x \in Docs, OnDrive(x)
    PROVE  /\ x \notin touched /\ x \notin Ignored /\ x \in Paths
           /\ Here(x) = Absent /\ There(x).live
           /\ drive[x].live /\ drive[x].sum = Doc /\ seenDrive[x] = drive[x]
<1>1. x \notin touched /\ x \notin Ignored /\ x \in Paths /\ x \notin Files /\ x \notin Folders
  BY InitialPassAssumption DEF FirstPass, Typed, Paths
<1>2. Here(x) = Absent /\ Kinds(x) = {Doc}
  BY <1>1, Origins DEF FirstPass, Kinds
<1> QED BY <1>1, <1>2, Known, Origins DEF FirstPass

\* Writing a pointer gives the tree the Doc that Drive has.
LEMMA PointFine ==
    ASSUME FirstPass, NEW d \in Paths, WritePointer(d), NEW x \in Paths, x \notin touched
    PROVE  Fine(x)'
<1> USE DEF FirstPass
<1>1. /\ UNCHANGED <<drive, hidden, rows, phase, seenTree, seenDrive, origin>>
      /\ tree' = [tree EXCEPT ![d] = Doc] /\ rows[d] = NoRow /\ d \in Docs /\ OnDrive(d)
  BY DEF WritePointer, tables, walks, ghosts, Progress, DocsAt
<1>2. CASE x # d
  <2>1. tree'[x] = tree[x]
    BY <1>1, <1>2
  <2> QED BY <1>1, <2>1, FineSame, Known
<1>3. CASE x = d
  <2>1. tree'[d] = Doc /\ There(d).sum = Doc
    BY <1>1, <1>3, DocIs, Known DEF Typed
  <2>2. KeptTree(d)'
    BY <1>1, <2>1, DocIs DEF KeptTree, Here, There
  <2>3. KeptDrive(d)' /\ RowTrue(d)'
    BY <1>1, <1>3, Known DEF Fine, KeptDrive, RowTrue, Here, There, Sent
  <2>4. SeenRight(d)'
    BY <1>1, <1>3, <2>1, InitialPassAssumption, Known DEF Fine, SeenRight, OnDisk, OnDrive, Here, There
  <2> QED BY <1>3, <2>2, <2>3, <2>4 DEF Fine
<1> QED BY <1>2, <1>3

\* A row is made only for what both sides hold.
LEMMA CompareFine ==
    ASSUME FirstPass, NEW d \in Paths, RecordPointer(d) \/ Compare(d), NEW x \in Paths, x \notin touched
    PROVE  Fine(x)'
<1> USE DEF FirstPass
<1>1. UNCHANGED <<tree, drive, hidden, phase, seenTree, seenDrive, origin>>
  BY DEF RecordPointer, Compare, world, walks, ghosts
<1>2. rows' = rows \/ rows' = [rows EXCEPT ![d] = Recorded(d, seenDrive[d])]
  BY DEF RecordPointer, Compare, Record
<1>3. CASE x # d \/ rows' = rows
  <2>1. rows'[x] = rows[x]
    BY <1>2, <1>3 DEF Typed
  <2> QED BY <1>1, <2>1, FineSame, Known
<1>4. CASE x = d /\ rows' = [rows EXCEPT ![d] = Recorded(d, seenDrive[d])]
  <2>1. KeptTree(d)' /\ KeptDrive(d)'
    BY <1>1, <1>4, Known DEF Fine, KeptTree, KeptDrive, Here, There, Sent
  <2>2. SeenRight(d)'
    BY <1>1, <1>4, Known DEF Fine, SeenRight, OnDisk, OnDrive, Here, There
  <2>3. rows'[d] = Recorded(d, seenDrive[d])
    BY <1>4 DEF Typed
  <2>4. RowTrue(d)'
    <3>1. CASE rows[d] # NoRow
      <4>1. rows'[d] = rows[d]
        BY <2>3, <3>1 DEF Recorded
      <4> QED BY <1>1, <1>4, <4>1, Known DEF Fine, RowTrue
    <3>2. CASE rows[d] = NoRow
      <4>1. d \notin Ignored /\ OnDrive(d) /\ tree[d] = drive[d].sum
        <5>1. CASE RecordPointer(d)
          <6>1. d \in Docs /\ OnDrive(d) /\ tree[d] = Doc
            BY <3>2, <5>1 DEF RecordPointer, Progress, DocsAt
          <6> QED BY <6>1, DocIs
        <5>2. CASE Compare(d)
          <6>1. d \in Both
            BY <5>2 DEF Compare, Progress, CompareAt
          <6>2. rows'[d] # rows[d] => tree[d] = seenDrive[d].sum
            BY <5>2 DEF Compare
          <6>3. rows'[d] # NoRow
            BY <2>3, <3>2, InitialPassAssumption, Entries DEF Recorded, Noted, Sums, Typed
          <6> QED BY <1>4, <3>2, <6>1, <6>2, <6>3, Known DEF Both
        <5> QED BY <5>1, <5>2
      <4>2. seenDrive[d] = drive[d] /\ drive[d].live
        BY <1>4, <4>1, Known
      <4> QED BY <1>1, <1>4, <2>3, <4>1, <4>2, RecordFine
    <3> QED BY <3>1, <3>2
  <2> QED BY <1>4, <2>1, <2>2, <2>4 DEF Fine
<1> QED BY <1>2, <1>3, <1>4

\* A download brings an untouched path what Drive had at first.
LEMMA DownloadFine ==
    ASSUME FirstPass, NEW d \in Paths, Download(d), NEW x \in Paths, x \notin touched
    PROVE  Fine(x)'
<1> USE DEF FirstPass
<1>1. /\ UNCHANGED <<drive, hidden, rows, phase, seenTree, seenDrive, origin>> /\ phase = "get"
      /\ tree' = IF drive[d].live THEN [tree EXCEPT ![d] = drive[d].sum] ELSE tree
      /\ d \in Downs
  BY DEF Download, tables, walks, ghosts, Progress, GetAt
<1>2. CASE x # d \/ ~drive[d].live
  <2>1. tree'[x] = tree[x]
    BY <1>1, <1>2 DEF Typed
  <2> QED BY <1>1, <2>1, FineSame, Known
<1>3. CASE x = d /\ drive[d].live
  <2>1. d \notin Ignored /\ ~OnDisk(d) /\ Here(d) = Absent
    BY <1>1, <1>3, Known DEF Downs, Fine, SeenRight
  <2>2. There(d).live /\ tree'[d] = There(d).sum /\ tree'[d] = drive[d].sum
    BY <1>1, <1>3, <2>1, Known DEF Typed
  <2>3. KeptTree(d)'
    BY <1>1, <2>1, <2>2 DEF KeptTree, Here, There
  <2>4. KeptDrive(d)'
    BY <1>1, <1>3, Known DEF Fine, KeptDrive, Here, There, Sent
  <2>5. RowTrue(d)'
    BY <1>1, <1>3, <2>2, Known DEF Fine, RowTrue
  <2>6. SeenRight(d)'
    BY <1>1, <1>3, <2>1, Known DEF Fine, SeenRight, OnDisk, OnDrive, Here, There
  <2> QED BY <1>3, <2>3, <2>4, <2>5, <2>6 DEF Fine
<1> QED BY <1>2, <1>3

\* What is uploaded was not on Drive at first.
LEMMA UpIs ==
    ASSUME FirstPass, phase \in {"put", "note"}, NEW x \in Ups, x \notin touched, tree[x] # Absent
    PROVE  x \in Paths /\ x \notin Ignored /\ ~There(x).live /\ Here(x) # Absent /\ tree[x] = Here(x)
<1> USE DEF FirstPass
<1>1. /\ x \in Paths /\ ~Pointer(x) /\ (x \in Files => x \notin Ignored /\ ~OnDrive(x)) /\ x \in Files \cup Docs
      /\ x \notin Ignored
  BY InitialPassAssumption DEF Ups, Paths
<1>2. CASE x \in Docs
  <2>1. There(x).live
    BY <1>1, <1>2, Known, Origins
  <2>2. rows[x] # NoRow
    BY <1>2, <2>1 DEF Progress, Results, AfterDocs, AfterPut
  <2> QED BY <1>1, <1>2, <2>2 DEF Pointer
<1>3. CASE x \in Files
  <2>1. ~Sure(x) /\ (There(x).live => drive[x].live)
    BY <1>1, <1>3, Known DEF Walk, Walked
  <2>2. ~There(x).live
    BY <2>1 DEF Sure
  <2> QED BY <1>1, <2>2, Known
<1> QED BY <1>1, <1>2, <1>3

\* An upload brings Drive what the tree had at first, and never over what Drive had.
LEMMA UploadFine ==
    ASSUME FirstPass, NEW d \in Paths, Upload(d), NEW x \in Paths, x \notin touched
    PROVE  Fine(x)'
<1> USE DEF FirstPass
<1>1. /\ UNCHANGED <<tree, rows, phase, seenTree, seenDrive, origin>> /\ phase = "put"
      /\ d \in Ups /\ hidden' \subseteq hidden \cup {d}
      /\ drive' = drive \/ (tree[d] # Absent /\ Overwrite(d, tree[d]))
  BY DEF Upload, tables, walks, ghosts, Progress, PutAt
<1>2. CASE x # d
  <2>1. drive'[x] = drive[x] /\ (x \in hidden' => x \in hidden)
    BY <1>1, <1>2 DEF Typed, Overwrite
  <2> QED BY <1>1, <2>1, FineSame, Known
<1>3. CASE x = d /\ tree[d] = Absent
  <2>1. UNCHANGED <<drive, hidden>>
    BY <1>3 DEF Upload
  <2> QED BY <1>1, <2>1, FineSame, Known
<1>4. CASE x = d /\ tree[d] # Absent
  <2>1. d \notin Ignored /\ ~There(d).live /\ Here(d) # Absent /\ tree[d] = Here(d)
    BY <1>1, <1>4, UpIs
  <2>2. drive'[d] = IF drive[d].live THEN [drive[d] EXCEPT !.sum = Here(d)] ELSE New(drive[d], Here(d))
    BY <1>4, <2>1 DEF Upload, Overwrite, Typed
  <2>3. drive[d] \in {None, Sent(d)} /\ ~None.live
    BY <1>4, <2>1, Known, Origins DEF Fine, KeptDrive
  <2>4. New(None, Here(d)) = Sent(d) /\ [Sent(d) EXCEPT !.sum = Here(d)] = Sent(d) /\ Sent(d).live
    <3>1. New(None, Here(d)) = Sent(d)
      BY DEF New, None, Sent
    <3>2. [Sent(d) EXCEPT !.sum = Here(d)] = Sent(d)
      <4>1. ASSUME NEW c, NEW e \in [gen : {1}, sum : {c}, live : {TRUE}]
            PROVE  [e EXCEPT !.sum = c] = e
        OBVIOUS
      <4>2. Sent(d) \in [gen : {1}, sum : {Here(d)}, live : {TRUE}]
        BY DEF Sent
      <4> QED BY <4>1, <4>2
    <3>3. Sent(d).live
      BY DEF Sent
    <3> QED BY <3>1, <3>2, <3>3
  <2>5. drive'[d] = Sent(d)
    BY <2>2, <2>3, <2>4
  <2>6. KeptTree(d)'
    BY <1>1, <1>4, Known DEF Fine, KeptTree, Here, There
  <2>7. KeptDrive(d)'
    BY <1>1, <2>1, <2>5 DEF KeptDrive, Here, There, Sent
  <2>8. RowTrue(d)'
    <3>1. CASE rows[d] = NoRow
      BY <1>1, <3>1 DEF RowTrue
    <3>2. CASE rows[d] # NoRow
      <4>1. drive[d] = Sent(d)
        BY <1>4, <2>3, <3>2, Known DEF Fine, RowTrue
      <4> QED BY <1>1, <1>4, <2>5, <4>1, Known DEF Fine, RowTrue
    <3> QED BY <3>1, <3>2
  <2>9. seenDrive[d] \in {None, Sent(d)}
    BY <1>4, <2>3, Known DEF Fine, SeenRight
  <2>10. SeenRight(d)'
    BY <1>1, <1>4, <2>1, <2>4, <2>5, <2>9, Known DEF Fine, SeenRight, OnDisk, OnDrive, Here, There
  <2> QED BY <1>4, <2>6, <2>7, <2>8, <2>10 DEF Fine
<1> QED BY <1>2, <1>3, <1>4

\* The rows made after the transfers are true.
LEMMA NoteFine ==
    ASSUME FirstPass, NoteDownloads \/ Match \/ LookUp, NEW x \in Paths, x \notin touched
    PROVE  Fine(x)'
<1> USE DEF FirstPass
<1>1. /\ UNCHANGED <<tree, drive, hidden, seenTree, origin>>
      /\ seenDrive'[x] \in {seenDrive[x], None} /\ phase \notin {"down", "running"}
  BY DEF NoteDownloads, Match, LookUp, world, walks, ghosts
<1>2. CASE rows'[x] = rows[x]
  BY <1>1, <1>2, FineSame, Known
<1>3. CASE rows'[x] # rows[x]
  <2>1. x \notin Ignored /\ drive[x].live /\ tree[x] = drive[x].sum /\ rows'[x] = Recorded(x, drive[x])
    <3>1. CASE NoteDownloads
      <4>1. x \in Downs /\ rows'[x] = Recorded(x, seenDrive[x]) /\ tree[x] # Absent /\ ~OnDisk(x) /\ OnDrive(x)
        BY <1>3, <3>1 DEF NoteDownloads, Progress, Got, Downs
      <4>2. Here(x) = Absent
        BY <3>1, <4>1, Known DEF NoteDownloads, Fine, SeenRight
      <4> QED BY <4>1, <4>2, Known DEF Downs
    <3>2. CASE Match
      <4>1. x \in todo /\ OnDrive(x) /\ rows'[x] = Recorded(x, seenDrive[x])
        BY <1>3, <3>2 DEF Match
      <4>2. x \notin Ignored /\ ~There(x).live /\ Here(x) # Absent
        BY <3>2, <4>1 DEF Match, Progress, ToFind
      <4> QED BY <4>1, <4>2, Known
    <3>3. CASE LookUp
      <4>1. x \in todo /\ Listed(x) # None /\ rows'[x] = Recorded(x, drive[x])
        BY <1>3, <3>3 DEF LookUp
      <4>2. x \notin Ignored /\ ~There(x).live /\ Here(x) # Absent
        BY <3>3, <4>1 DEF LookUp, Progress, ToFind
      <4> QED BY <4>1, <4>2, Known DEF Listed
    <3> QED BY <3>1, <3>2, <3>3
  <2>2. RowTrue(x)'
    BY <1>1, <2>1, RecordFine
  <2>3. KeptTree(x)' /\ KeptDrive(x)'
    BY <1>1, Known DEF Fine, KeptTree, KeptDrive, Here, There, Sent
  <2>4. SeenRight(x)'
    BY <1>1, Known DEF Fine, SeenRight, OnDisk, OnDrive, Here, There
  <2> QED BY <2>2, <2>3, <2>4 DEF Fine
<1> QED BY <1>2, <1>3

\* Every step of the first pass leaves every untouched path fine.
LEMMA UntouchedKept ==
    ASSUME FirstPass, Moves
    PROVE  Untouched'
<1> USE DEF FirstPass
<1>1. SUFFICES ASSUME NEW x \in Paths, x \notin touched, x \notin touched' PROVE Fine(x)'
  BY OriginStays DEF Untouched
<1>2. CASE ListTree
  <2>1. UNCHANGED <<tree, drive, hidden, rows, origin>> /\ seenTree' = tree /\ seenDrive'[x] = None
    BY <1>2 DEF ListTree, world, tables, ghosts
  <2>2. KeptTree(x)' /\ KeptDrive(x)' /\ RowTrue(x)'
    BY <1>1, <2>1, Known DEF Fine, KeptTree, KeptDrive, RowTrue, Here, There, Sent
  <2>3. SeenRight(x)'
    BY <1>1, <2>1, Known DEF Fine, SeenRight, OnDisk, OnDrive, Here, There
  <2> QED BY <2>2, <2>3 DEF Fine
<1>3. ASSUME NEW f \in Folders \cup {Root}, ListDrive(f) \/ Relist(f)
      PROVE  Fine(x)'
  BY <1>1, <1>3, ListFine DEF ListDrive, Relist
<1>4. ASSUME NEW d \in Paths, \/ MakeFolder(d) \/ KeepFolder(d) \/ WritePointer(d) \/ RecordPointer(d)
                              \/ Compare(d) \/ Download(d) \/ Upload(d)
      PROVE  Fine(x)'
  BY <1>1, <1>4, MakeFine, KeepFine, PointFine, CompareFine, DownloadFine, UploadFine
<1>5. CASE NoteDownloads \/ Match \/ LookUp
  BY <1>1, <1>5, NoteFine
<1>6. ASSUME NEW d \in Paths, Vanished(d) \/ SaveCursor \/ Leaves
      PROVE  Fine(x)'
  BY <1>1, <1>6, LeaveFine, Known DEF Vanished, SaveCursor, Leaves, tables, ghosts
<1>7. CASE EndLookUp \/ Advance
  <2>1. phase \notin {"down", "running"} /\ UNCHANGED <<world, tables, walks, ghosts>>
    BY <1>7 DEF EndLookUp, Advance, After
  <2> QED BY <1>1, <2>1, FineSame, Known DEF world, tables, walks, ghosts
<1>8. ASSUME NEW d \in Paths, Index(d)
      PROVE  Fine(x)'
  BY <1>1, <1>8, FineSame, Known DEF Index, tables, walks, ghosts
<1>9. ASSUME NEW d \in Paths, NEW content, EditTree(d, content)
      PROVE  Fine(x)'
  <2>1. x # d
    BY <1>1, <1>9 DEF EditTree
  <2>2. tree'[x] = tree[x]
    BY <1>9, <2>1 DEF EditTree, Typed
  <2> QED BY <1>1, <1>9, <2>2, FineSame, Known DEF EditTree, tables, walks
<1>10. ASSUME NEW d \in Paths, NEW content, EditDrive(d, content)
      PROVE  Fine(x)'
  <2>1. x # d
    BY <1>1, <1>10 DEF EditDrive
  <2>2. drive'[x] = drive[x]
    BY <1>10, <2>1 DEF EditDrive, Overwrite, Typed
  <2> QED BY <1>1, <1>10, <2>2, FineSame, Known DEF EditDrive, tables, walks
<1> QED BY <1>1, <1>2, <1>3, <1>4, <1>5, <1>6, <1>7, <1>8, <1>9, <1>10 DEF Moves, PassStep, Environment

-----------------------------------------------------------------------------
(* The work of each phase, and what it leaves behind.                      *)
\* A step that loses no row and undoes no transfer keeps what past phases achieved.
LEMMA ResultsKept ==
    ASSUME Results, origin' = origin, touched \subseteq touched',
           \A x \in Paths : rows[x] # NoRow => rows'[x] # NoRow,
           AfterPut' => \A x \in Paths \ touched' : tree'[x] = tree[x] /\ drive'[x] = drive[x],
           AfterFolders' => AfterFolders, AfterDocs' => AfterDocs,
           AfterPut' => AfterPut, AfterNote' => AfterNote
    PROVE  Results'
<1>1. /\ \A x \in Paths : Here(x)' = Here(x) /\ There(x)' = There(x)
      /\ Folders \subseteq Paths /\ Docs \subseteq Paths /\ Mine' \subseteq Mine
      /\ Mine' \subseteq Paths \ touched' /\ Mine \subseteq Paths
      /\ (AfterNote' => AfterPut')
  BY DEF Here, There, Paths, Mine, AfterPut
<1>2. AfterFolders' => \A d \in Folders \ touched' : Here(d)' # Absent \/ There(d)'.live => rows'[d] # NoRow
  BY <1>1 DEF Results
<1>3. AfterDocs' => \A x \in Docs : There(x)'.live => rows'[x] # NoRow
  BY <1>1 DEF Results
<1>4. AfterPut' => \A x \in Mine' : Here(x)' # Absent /\ ~There(x)'.live => drive'[x].live
  BY <1>1 DEF Results
<1>5. AfterNote' => \A x \in Mine' : There(x)'.live => tree'[x] # Absent /\ (Same(x)' => rows'[x] # NoRow)
  <2>1. AfterNote' => \A x \in Mine' : Same(x)' => Same(x)
    BY <1>1 DEF Same
  <2> QED BY <1>1, <2>1 DEF Results
<1> QED BY <1>2, <1>3, <1>4, <1>5 DEF Results

\* A row once made is there, and one more may be.
LEMMA RowsGrow ==
    ASSUME Typed, NEW x \in Paths, NEW e \in Entry
    PROVE  Recorded(x, e) # NoRow
BY InitialPassAssumption, Entries DEF Recorded, Noted, Sums, Typed

\* What happens beside the pass.
LEMMA ProgressByUsers ==
    ASSUME FirstPass, NEW d \in Paths, NEW content \in Versions \cup {Absent, Folder},
           Index(d) \/ EditTree(d, content) \/ EditDrive(d, content)
    PROVE  Progress'
<1> USE DEF FirstPass
<1>1. /\ UNCHANGED <<rows, cursor, phase, todo, seenTree, seenDrive, origin>> /\ touched \subseteq touched'
  BY DEF Index, EditTree, EditDrive, tables, walks, ghosts
<1>2. ASSUME NEW x \in Paths, x \notin touched'
      PROVE  tree'[x] = tree[x] /\ drive'[x] = drive[x]
  <2>1. CASE Index(d)
    BY <2>1 DEF Index
  <2>2. CASE EditTree(d, content)
    BY <1>2, <2>2 DEF EditTree, Typed
  <2>3. CASE EditDrive(d, content)
    BY <1>2, <2>3 DEF EditDrive, Overwrite, Typed
  <2> QED BY <2>1, <2>2, <2>3
<1>3. \A x \in Paths : /\ (OnDisk(x)' <=> OnDisk(x)) /\ (OnDrive(x)' <=> OnDrive(x))
                       /\ Here(x)' = Here(x) /\ There(x)' = There(x)
  BY <1>1 DEF OnDisk, OnDrive, Here, There
<1>4. Downs' = Downs /\ Both' = Both /\ Ups' = Ups
  BY <1>1 DEF Downs, Both, Ups, OnDisk, OnDrive, Pointer
<1>5. /\ Mine' \subseteq Mine /\ Mine' \subseteq Paths \ touched' /\ Downs \subseteq Paths
      /\ \A x \in Mine' : Same(x)' => Same(x)
  BY <1>1, <1>2, <1>3 DEF Mine, Same, Paths, Downs
<1>6. \A e \in Folders : tree[e] # Absent => tree'[e] # Absent
  BY InitialPassAssumption DEF Index, EditTree, EditDrive, Typed, Paths
<1>7. FoldersAt'
  BY <1>1, <1>3, <1>6 DEF Progress, FoldersAt, Paths
<1>8. DocsAt' /\ CompareAt' /\ Compared'
  BY <1>1, <1>3, <1>4, <1>5 DEF Progress, DocsAt, CompareAt, Compared, Paths
<1>9. GetAt' /\ Got'
  BY <1>1, <1>2, <1>4, <1>5 DEF Progress, GetAt, Got
<1>10. PutAt'
  <2>1. Ups \subseteq Paths
    BY DEF Ups, Paths
  <2> QED BY <1>1, <1>2, <1>4, <2>1 DEF Progress, PutAt
<1>11. ToFind'
  <2>1. todo \subseteq Paths \/ phase \notin {"relist", "match", "lookup"}
    BY DEF Progress, ToFind
  <2> QED BY <1>1, <1>3, <2>1 DEF Progress, ToFind
<1>12. Results'
  BY <1>1, <1>2, ResultsKept DEF Progress, AfterFolders, AfterDocs, AfterPut, AfterNote
<1> QED BY <1>7, <1>8, <1>9, <1>10, <1>11, <1>12 DEF Progress

\* A pass that is given up has everything before it again.
LEMMA ProgressOnLeave ==
    ASSUME FirstPass, Leave("down"), UNCHANGED <<world, tables, origin>>, touched \subseteq touched'
    PROVE  Progress'
<1> USE DEF FirstPass
<1>1. phase' = "down" /\ UNCHANGED <<tree, drive, rows, cursor>>
  BY DEF Leave, world, tables
<1>2. Results'
  BY <1>1, ResultsKept DEF Progress, AfterFolders, AfterDocs, AfterPut, AfterNote
<1> QED BY <1>1, <1>2 DEF Progress, FoldersAt, DocsAt, CompareAt, Compared, GetAt, Got, PutAt, ToFind

\* A walk keeps the progress: it happens when the other phases are over, or not begun.
LEMMA ProgressOnListing ==
    ASSUME FirstPass, ListTree \/ \E f \in Folders \cup {Root} : ListDrive(f) \/ Relist(f)
    PROVE  Progress'
<1> USE DEF FirstPass
<1>1. CASE ListTree
  BY <1>1 DEF ListTree, tables, Progress, FoldersAt, DocsAt, CompareAt, Compared, GetAt, Got, PutAt, ToFind,
              Results, AfterFolders, AfterDocs, AfterPut, AfterNote
<1>2. ASSUME NEW f \in Folders \cup {Root}, ListDrive(f)
      PROVE  Progress'
  <2>1. /\ phase' \in {"listDrive", "folders"} /\ ~cursor' /\ seenTree' = seenTree
        /\ phase' = "folders" => todo' = {d \in Folders : OnDisk(d) \/ seenDrive'[d] # None}
    BY <1>2 DEF ListDrive, ListFolder, Quiet, tables
  <2>2. FoldersAt'
    BY <2>1 DEF FoldersAt, OnDisk, OnDrive
  <2> QED BY <2>1, <2>2 DEF Progress, DocsAt, CompareAt, Compared, GetAt, Got, PutAt, ToFind,
              Results, AfterFolders, AfterDocs, AfterPut, AfterNote
<1>3. ASSUME NEW f \in Folders \cup {Root}, Relist(f)
      PROVE  Progress'
  <2>1. /\ phase = "relist" /\ phase' \in {"relist", "match"}
        /\ UNCHANGED <<tree, drive, rows, cursor, todo, touched, origin>>
    BY <1>3 DEF Relist, ListFolder, world, tables, ghosts
  <2>2. Results'
    BY <2>1, ResultsKept DEF Progress, AfterFolders, AfterDocs, AfterPut, AfterNote
  <2>3. ToFind'
    BY <2>1 DEF Progress, ToFind, Here, There
  <2> QED BY <2>1, <2>2, <2>3 DEF Progress, FoldersAt, DocsAt, CompareAt, Compared, GetAt, Got, PutAt
<1> QED BY <1>1, <1>2, <1>3

\* A folder leaves the work list with both sides and its row in place.
LEMMA ProgressOnFolders ==
    ASSUME FirstPass, NEW d \in Paths, MakeFolder(d) \/ KeepFolder(d)
    PROVE  Progress'
<1> USE DEF FirstPass
<1>1. phase = "folders" /\ phase' = "folders" /\ ~cursor' /\ seenTree' = seenTree
  BY DEF MakeFolder, KeepFolder, Quiet, tables, walks
<1>2. \A e \in Folders : e \in Paths
  BY FoldersAre
<1>3. CASE MakeFolder(d)
  <2>1. d \in Folders /\ OnDisk(d)
    BY <1>3, MakeSkeleton
  <2>2. New(drive[d], Folder) # None
    BY DEF New, None
  <2>3. \A e \in Folders : /\ OnDrive(e) => OnDrive(e)'
                           /\ e # d => (OnDrive(e)' <=> OnDrive(e))
                           /\ OnDisk(e)' <=> OnDisk(e)
    BY <1>1, <1>2, <1>3, <2>2 DEF MakeFolder, OnDrive, OnDisk, Typed
  <2>4. UNCHANGED <<tree, rows, todo>>
    BY <1>3 DEF MakeFolder, tables
  <2> QED BY <1>1, <1>3, <2>1, <2>3, <2>4 DEF MakeFolder, Progress, FoldersAt, DocsAt, CompareAt, Compared, GetAt, Got,
              PutAt, ToFind, Results, AfterFolders, AfterDocs, AfterPut, AfterNote
<1>4. CASE KeepFolder(d)
  <2>1. d \in Folders /\ OnDrive(d)
    BY <1>4, KeepSkeleton
  <2>2. \A e \in Folders : (OnDrive(e)' <=> OnDrive(e)) /\ (OnDisk(e)' <=> OnDisk(e))
    BY <1>4 DEF KeepFolder, walks, OnDrive, OnDisk
  <2>3. /\ \A e \in Paths : tree'[e] = IF e = d THEN Folder ELSE tree[e]
        /\ \A e \in Paths : rows'[e] = IF e = d THEN Recorded(d, seenDrive[d]) ELSE rows[e]
        /\ todo' = todo \ {d} /\ Recorded(d, seenDrive[d]) # NoRow
    BY <1>4, RowsGrow DEF KeepFolder, Record, Typed
  <2>4. FoldersAt'
    BY <1>1, <1>2, <2>1, <2>2, <2>3, InitialPassAssumption DEF Progress, FoldersAt
  <2> QED BY <1>1, <2>4 DEF Progress, DocsAt, CompareAt, Compared, GetAt, Got, PutAt, ToFind,
              Results, AfterFolders, AfterDocs, AfterPut, AfterNote
<1> QED BY <1>3, <1>4

\* A Doc leaves the work list with its row.
LEMMA ProgressOnDocs ==
    ASSUME FirstPass, NEW d \in Paths, WritePointer(d) \/ RecordPointer(d)
    PROVE  Progress'
<1> USE DEF FirstPass
<1>1. /\ phase = "docs" /\ phase' = "docs" /\ ~cursor'
      /\ UNCHANGED <<drive, cursor, seenDrive, touched, origin>>
  BY DEF WritePointer, RecordPointer, Quiet, world, tables, walks, ghosts
<1>2. /\ todo' \subseteq todo
      /\ \A x \in todo \ todo' : rows'[x] # NoRow
      /\ \A x \in Paths : rows[x] # NoRow => rows'[x] # NoRow
  <2>1. CASE WritePointer(d)
    BY <2>1 DEF WritePointer, tables
  <2>2. CASE RecordPointer(d)
    <3>1. /\ todo' = todo \ {d}
          /\ \A x \in Paths : rows'[x] = IF x = d THEN Recorded(d, seenDrive[d]) ELSE rows[x]
      BY <2>2 DEF RecordPointer, Record, Typed
    <3> QED BY <3>1, RowsGrow DEF Typed
  <2> QED BY <2>1, <2>2
<1>3. \A x \in Docs : x \in Paths /\ (OnDrive(x)' <=> OnDrive(x))
  BY <1>1 DEF OnDrive, Paths
<1>4. DocsAt'
  BY <1>1, <1>2, <1>3 DEF Progress, DocsAt
<1>5. Results'
  BY <1>1, <1>2, ResultsKept DEF Progress, AfterFolders, AfterDocs, AfterPut, AfterNote
<1> QED BY <1>1, <1>4, <1>5 DEF Progress, FoldersAt, CompareAt, Compared, GetAt, Got, PutAt, ToFind

\* A file leaves the comparison with a row if both sides agree.
LEMMA ProgressOnCompare ==
    ASSUME FirstPass, NEW d \in Paths, Compare(d)
    PROVE  Progress'
<1> USE DEF FirstPass
<1>1. /\ phase = "compare" /\ phase' = "compare" /\ ~cursor' /\ todo' = todo \ {d} /\ d \in todo
      /\ UNCHANGED <<tree, drive, cursor, seenTree, seenDrive, touched, origin>>
      /\ rows' = rows \/ rows' = [rows EXCEPT ![d] = Recorded(d, seenDrive[d])]
      /\ tree[d] = seenDrive[d].sum => rows' = [rows EXCEPT ![d] = Recorded(d, seenDrive[d])]
  BY DEF Compare, Record, Quiet, world, tables, walks, ghosts
<1>2. \A x \in Paths : rows[x] # NoRow => rows'[x] # NoRow
  BY <1>1, RowsGrow DEF Typed
<1>3. \A x \in Paths : /\ (OnDisk(x)' <=> OnDisk(x)) /\ Here(x)' = Here(x) /\ There(x)' = There(x)
                       /\ (Same(x)' <=> Same(x))
  BY <1>1 DEF OnDisk, Here, There, Same
<1>4. Both' = Both /\ Mine' = Mine /\ Mine \subseteq Paths
  BY <1>1 DEF Both, Mine, OnDisk, OnDrive, Paths
<1>5. ASSUME d \in Mine, Same(d)
      PROVE  rows'[d] # NoRow
  <2>1. d \notin touched /\ OnDrive(d)
    BY <1>1, <1>5 DEF Mine, Progress, CompareAt, Both
  <2>2. tree[d] = seenDrive[d].sum
    BY <1>5, <2>1, Known DEF Same
  <2> QED BY <1>1, <2>2, RowsGrow DEF Typed
<1>6. CompareAt'
  BY <1>1, <1>2, <1>3, <1>4, <1>5 DEF Progress, CompareAt
<1>7. Results'
  BY <1>1, <1>2, ResultsKept DEF Progress, AfterFolders, AfterDocs, AfterPut, AfterNote
<1> QED BY <1>1, <1>6, <1>7 DEF Progress, FoldersAt, DocsAt, Compared, GetAt, Got, PutAt, ToFind

\* A file leaves the downloads with its content in the tree.
LEMMA ProgressOnDownload ==
    ASSUME FirstPass, NEW d \in Paths, Download(d)
    PROVE  Progress'
<1> USE DEF FirstPass
<1>1. /\ phase = "get" /\ phase' = "get" /\ ~cursor' /\ todo' = todo \ {d} /\ d \in Downs
      /\ UNCHANGED <<drive, rows, cursor, seenTree, seenDrive, touched, origin>>
      /\ tree' = IF drive[d].live THEN [tree EXCEPT ![d] = drive[d].sum] ELSE tree
  BY DEF Download, Quiet, tables, walks, ghosts, Progress, GetAt
<1>2. \A x \in Paths : OnDisk(x) => tree'[x] = tree[x]
  BY <1>1 DEF Downs, Typed
<1>3. \A x \in Paths : (OnDisk(x)' <=> OnDisk(x)) /\ Here(x)' = Here(x) /\ There(x)' = There(x)
  BY <1>1 DEF OnDisk, Here, There
<1>4. Downs' = Downs /\ Mine' = Mine /\ Mine \subseteq Paths /\ Downs \subseteq Paths
  BY <1>1 DEF Downs, Mine, OnDisk, OnDrive, Paths
<1>5. d \notin touched => tree'[d] # Absent
  <2> SUFFICES ASSUME d \notin touched PROVE tree'[d] # Absent
    OBVIOUS
  <2>1. drive[d].live /\ ~OnDisk(d)
    BY <1>1, Known DEF Downs
  <2>2. drive[d].sum # Absent
    BY <2>1, Known, Origins
  <2> QED BY <1>1, <2>1, <2>2 DEF Typed
<1>6. GetAt'
  <2>1. \A x \in Paths : x # d => tree'[x] = tree[x]
    BY <1>1 DEF Typed
  <2> QED BY <1>1, <1>4, <1>5, <2>1 DEF Progress, GetAt
<1>7. Compared'
  BY <1>1, <1>2, <1>3, <1>4 DEF Progress, Compared, Same
<1>8. Results'
  BY <1>1, ResultsKept DEF Progress, AfterFolders, AfterDocs, AfterPut, AfterNote
<1> QED BY <1>1, <1>6, <1>7, <1>8 DEF Progress, FoldersAt, DocsAt, CompareAt, Got, PutAt, ToFind

\* A file leaves the uploads with its content on Drive.
LEMMA ProgressOnUpload ==
    ASSUME FirstPass, NEW d \in Paths, Upload(d)
    PROVE  Progress'
<1> USE DEF FirstPass
<1>1. /\ phase = "put" /\ phase' = "put" /\ ~cursor' /\ todo' = todo \ {d} /\ d \in Ups
      /\ UNCHANGED <<tree, rows, cursor, seenTree, seenDrive, touched, origin>>
  BY DEF Upload, Quiet, tables, walks, ghosts, Progress, PutAt
<1>2. \A x \in Paths : (OnDisk(x)' <=> OnDisk(x)) /\ Here(x)' = Here(x) /\ There(x)' = There(x)
  BY <1>1 DEF OnDisk, Here, There
<1>3. /\ Downs' = Downs /\ Ups' = Ups /\ Mine' = Mine
      /\ Mine \subseteq Paths /\ Downs \subseteq Paths /\ Ups \subseteq Paths
  BY <1>1 DEF Downs, Ups, Mine, OnDisk, OnDrive, Pointer, Paths
<1>4. d \notin touched => drive'[d].live
  <2> SUFFICES ASSUME d \notin touched PROVE drive'[d].live
    OBVIOUS
  <2>1. tree[d] # Absent
    BY <1>1, Known DEF Ups, Fine, SeenRight
  <2>2. (IF drive[d].live THEN [drive[d] EXCEPT !.sum = tree[d]] ELSE New(drive[d], tree[d])).live
    BY Entries DEF New, Entry, Typed
  <2> QED BY <2>1, <2>2 DEF Upload, Overwrite, Typed
<1>5. PutAt'
  <2>1. \A x \in Paths : x # d => drive'[x] = drive[x]
    BY DEF Upload, Overwrite, Typed
  <2> QED BY <1>1, <1>3, <1>4, <2>1 DEF Progress, PutAt
<1>6. Compared' /\ Got'
  BY <1>1, <1>2, <1>3 DEF Progress, Compared, Got, Same
<1>7. Results'
  BY <1>1, ResultsKept DEF Progress, AfterFolders, AfterDocs, AfterPut, AfterNote
<1> QED BY <1>1, <1>5, <1>6, <1>7 DEF Progress, FoldersAt, DocsAt, CompareAt, GetAt, ToFind

\* Every download has its row when the second walk starts.
LEMMA ProgressOnNote ==
    ASSUME FirstPass, NoteDownloads
    PROVE  Progress'
<1> USE DEF FirstPass
<1>1. /\ phase = "note" /\ phase' \in {"token", "relist"} /\ ~cursor'
      /\ phase' = "relist" => todo' = Ups
      /\ \A x \in Paths : rows'[x] = IF x \in Downs THEN Recorded(x, seenDrive[x]) ELSE rows[x]
      /\ UNCHANGED <<tree, drive, cursor, seenTree, touched, origin>>
  BY DEF NoteDownloads, Quiet, world, ghosts
<1>2. \A x \in Paths : /\ rows[x] # NoRow => rows'[x] # NoRow
                       /\ x \in Downs => rows'[x] # NoRow
  BY <1>1, RowsGrow DEF Typed
<1>3. ToFind'
  <2>1. Ups \subseteq Paths \ Ignored
    BY InitialPassAssumption DEF Ups, Paths
  <2>2. \A x \in Ups \ touched : ~There(x).live /\ Here(x) # Absent
    <3>1. \A x \in Ups \ touched : tree[x] # Absent
      BY <2>1, Known DEF Ups, Fine, SeenRight
    <3> QED BY <1>1, <3>1, UpIs
  <2> QED BY <1>1, <2>1, <2>2 DEF ToFind, Here, There
<1>4. ASSUME NEW x \in Mine, There(x).live
      PROVE  tree[x] # Absent /\ (Same(x) => rows'[x] # NoRow)
  <2>1. x \in Paths /\ x \in Files \ Ignored /\ x \notin touched
    BY DEF Mine, Paths
  <2>2. OnDrive(x)
    BY <1>1, <1>4, <2>1, Known DEF Walk, Walked, Sure
  <2>3. CASE OnDisk(x)
    BY <1>1, <1>2, <2>1, <2>3, Known DEF Fine, SeenRight, Progress, Compared
  <2>4. CASE ~OnDisk(x)
    <3>1. x \in Downs
      BY <2>1, <2>2, <2>4 DEF Downs
    <3> QED BY <1>1, <1>2, <2>1, <3>1 DEF Progress, Got
  <2> QED BY <2>3, <2>4
<1>5. Results'
  <2>1. /\ \A x \in Paths : Here(x)' = Here(x) /\ There(x)' = There(x) /\ (Same(x)' <=> Same(x))
        /\ Folders \subseteq Paths /\ Docs \subseteq Paths /\ Mine' = Mine /\ Mine \subseteq Paths
    BY <1>1 DEF Here, There, Same, Mine, Paths
  <2>2. AfterFolders /\ AfterDocs /\ AfterPut
    BY <1>1 DEF AfterFolders, AfterDocs, AfterPut
  <2>3. /\ \A d \in Folders \ touched : Here(d) # Absent \/ There(d).live => rows[d] # NoRow
        /\ \A x \in Docs : There(x).live => rows[x] # NoRow
        /\ \A x \in Mine : Here(x) # Absent /\ ~There(x).live => drive[x].live
    BY <2>2 DEF Progress, Results
  <2> QED BY <1>1, <1>2, <1>4, <2>1, <2>3 DEF Results
<1> QED BY <1>1, <1>3, <1>5 DEF Progress, FoldersAt, DocsAt, CompareAt, Compared, GetAt, Got, PutAt

\* The search for uploads keeps the progress, whatever it finds.
LEMMA ProgressOnLookUp ==
    ASSUME FirstPass, Match \/ LookUp \/ EndLookUp
    PROVE  Progress'
<1> USE DEF FirstPass
<1>1. /\ phase \in {"match", "lookup"} /\ phase' \in {"lookup", "token"} /\ todo' \subseteq todo
      /\ UNCHANGED <<tree, drive, cursor, touched, origin>>
  BY DEF Match, LookUp, EndLookUp, world, tables, ghosts
<1>2. \A x \in Paths : rows'[x] = rows[x] \/ \E e \in Entry : rows'[x] = Recorded(x, e)
  BY DEF Match, LookUp, EndLookUp, tables, Typed
<1>3. \A x \in Paths : rows[x] # NoRow => rows'[x] # NoRow
  BY <1>2, RowsGrow
<1>4. ToFind'
  BY <1>1 DEF Progress, ToFind, Here, There
<1>5. Results'
  BY <1>1, <1>3, ResultsKept DEF Progress, AfterFolders, AfterDocs, AfterPut, AfterNote
<1> QED BY <1>1, <1>4, <1>5 DEF Progress, FoldersAt, DocsAt, CompareAt, Compared, GetAt, Got, PutAt

\* When the cursor is stored, all phases are over.
LEMMA ProgressOnSave ==
    ASSUME FirstPass, SaveCursor
    PROVE  Progress'
<1> USE DEF FirstPass
<1>1. phase = "token" /\ phase' = "running" /\ UNCHANGED <<tree, drive, rows, touched, origin>>
  BY DEF SaveCursor, Leave, world, ghosts
<1>2. Results'
  BY <1>1, ResultsKept DEF Progress, AfterFolders, AfterDocs, AfterPut, AfterNote
<1> QED BY <1>1, <1>2 DEF Progress, FoldersAt, DocsAt, CompareAt, Compared, GetAt, Got, PutAt, ToFind

\* A phase that is over has done what it was for.
LEMMA ProgressOnAdvance ==
    ASSUME FirstPass, Advance
    PROVE  Progress'
<1> USE DEF FirstPass
<1>1. /\ todo = {} /\ phase \in DOMAIN After /\ phase' = After[phase] /\ todo' = Work[phase'] /\ ~cursor /\ ~cursor'
      /\ UNCHANGED <<tree, drive, rows, cursor, seenTree, seenDrive, touched, origin>>
  BY DEF Advance, After, Quiet, world, tables, walks, ghosts
<1>2. \A x \in Paths : /\ (OnDisk(x)' <=> OnDisk(x)) /\ (OnDrive(x)' <=> OnDrive(x))
                       /\ Here(x)' = Here(x) /\ There(x)' = There(x) /\ (Same(x)' <=> Same(x))
  BY <1>1 DEF OnDisk, OnDrive, Here, There, Same
<1>3. /\ Downs' = Downs /\ Ups' = Ups /\ Both' = Both /\ Mine' = Mine
      /\ Mine \subseteq Paths /\ Downs \subseteq Paths /\ Folders \subseteq Paths /\ Docs \subseteq Paths
  BY <1>1 DEF Downs, Ups, Both, Mine, OnDisk, OnDrive, Pointer, Paths
<1>4. \/ phase = "folders" /\ phase' = "docs" /\ todo' = {x \in Docs : OnDrive(x)}
      \/ phase = "docs" /\ phase' = "compare" /\ todo' = Both
      \/ phase = "compare" /\ phase' = "get" /\ todo' = Downs
      \/ phase = "get" /\ phase' = "put" /\ todo' = Ups
      \/ phase = "put" /\ phase' = "note"
  BY <1>1 DEF After, Work
<1>5. \A x \in Paths \ touched : (Here(x) # Absent => OnDisk(x)) /\ (There(x).live => OnDrive(x))
  <2> SUFFICES ASSUME NEW x \in Paths, x \notin touched
               PROVE  (Here(x) # Absent => OnDisk(x)) /\ (There(x).live => OnDrive(x))
    OBVIOUS
  <2>1. phase \in Walked /\ phase \notin {"down", "running"}
    BY <1>4 DEF Walked
  <2> QED BY <2>1, Known DEF Fine, SeenRight, Walk, Sure
<1>6. CASE phase = "folders"
  <2>1. DocsAt'
    BY <1>2, <1>3, <1>4, <1>6 DEF DocsAt
  <2>2. \A d \in Folders \ touched : Here(d) # Absent \/ There(d).live => rows[d] # NoRow
    BY <1>1, <1>3, <1>5, <1>6 DEF Progress, FoldersAt
  <2>3. Results'
    BY <1>1, <1>2, <1>3, <1>4, <1>6, <2>2 DEF Results, AfterFolders, AfterDocs, AfterPut, AfterNote
  <2> QED BY <1>4, <1>6, <2>1, <2>3 DEF Progress, FoldersAt, CompareAt, Compared, GetAt, Got, PutAt, ToFind
<1>7. CASE phase = "docs"
  <2>1. CompareAt'
    <3>1. \A x \in Mine : OnDisk(x) /\ Same(x) => x \in Both
      BY <1>3, <1>5 DEF Mine, Same, Both
    <3> QED BY <1>2, <1>3, <1>4, <1>7, <3>1 DEF CompareAt
  <2>2. \A x \in Docs : There(x).live => rows[x] # NoRow
    <3>1. \A x \in Docs : x \notin touched
      BY InitialPassAssumption DEF Typed
    <3> QED BY <1>1, <1>3, <1>5, <1>7, <3>1 DEF Progress, DocsAt
  <2>3. \A d \in Folders \ touched : Here(d) # Absent \/ There(d).live => rows[d] # NoRow
    BY <1>7 DEF Progress, Results, AfterFolders
  <2>4. Results'
    BY <1>1, <1>2, <1>3, <1>4, <1>7, <2>2, <2>3 DEF Results, AfterFolders, AfterDocs, AfterPut, AfterNote
  <2> QED BY <1>4, <1>7, <2>1, <2>4 DEF Progress, FoldersAt, DocsAt, Compared, GetAt, Got, PutAt, ToFind
<1>8. CASE phase \in {"compare", "get"}
  <2>1. Compared'
    BY <1>1, <1>2, <1>3, <1>8 DEF Progress, CompareAt, Compared
  <2>2. GetAt' /\ Got' /\ PutAt'
    BY <1>1, <1>2, <1>3, <1>4, <1>8 DEF Progress, GetAt, Got, PutAt
  <2>3. Results'
    BY <1>1, <1>4, <1>8, ResultsKept DEF Progress, AfterFolders, AfterDocs, AfterPut, AfterNote
  <2> QED BY <1>4, <1>8, <2>1, <2>2, <2>3 DEF Progress, FoldersAt, DocsAt, CompareAt, ToFind
<1>9. CASE phase = "put"
  <2>1. Compared' /\ Got'
    BY <1>1, <1>2, <1>3, <1>9 DEF Progress, Compared, Got
  <2>2. \A x \in Mine : Here(x) # Absent /\ ~There(x).live => drive[x].live
    <3> SUFFICES ASSUME NEW x \in Mine, Here(x) # Absent, ~There(x).live PROVE drive[x].live
      OBVIOUS
    <3>1. x \in Paths /\ x \in Files \ Ignored /\ x \notin touched /\ OnDisk(x) /\ x \notin Docs
      BY <1>3, <1>5, InitialPassAssumption DEF Mine
    <3>2. CASE OnDrive(x)
      BY <3>1, <3>2, Known
    <3>3. CASE ~OnDrive(x)
      BY <1>1, <1>9, <3>1, <3>3 DEF Ups, Pointer, Progress, PutAt
    <3> QED BY <3>2, <3>3
  <2>3. /\ \A d \in Folders \ touched : Here(d) # Absent \/ There(d).live => rows[d] # NoRow
        /\ \A x \in Docs : There(x).live => rows[x] # NoRow
    BY <1>9 DEF Progress, Results, AfterFolders, AfterDocs, AfterPut
  <2>4. Results'
    BY <1>1, <1>2, <1>3, <1>4, <1>9, <2>2, <2>3 DEF Results, AfterFolders, AfterDocs, AfterPut, AfterNote
  <2> QED BY <1>4, <1>9, <2>1, <2>4 DEF Progress, FoldersAt, DocsAt, CompareAt, GetAt, PutAt, ToFind
<1> QED BY <1>4, <1>6, <1>7, <1>8, <1>9

\* Every step of the first pass keeps its progress.
LEMMA ProgressKept ==
    ASSUME FirstPass, Moves
    PROVE  Progress'
<1>1. ASSUME NEW d \in Paths, Vanished(d)
      PROVE  Progress'
  BY <1>1, ProgressOnLeave DEF Vanished, ghosts
<1>2. CASE Leaves
  BY <1>2, ProgressOnLeave DEF Leaves
<1>3. ASSUME NEW d \in Paths, Index(d)
      PROVE  Progress'
  BY <1>3, ProgressByUsers
<1> QED BY <1>1, <1>2, <1>3, ProgressByUsers, ProgressOnListing, ProgressOnFolders, ProgressOnDocs, ProgressOnCompare,
           ProgressOnDownload, ProgressOnUpload, ProgressOnNote, ProgressOnLookUp, ProgressOnSave,
           ProgressOnAdvance DEF Moves, PassStep, Environment

-----------------------------------------------------------------------------
\* Once a scan has begun, the first pass is over for good.
LEMMA ScanStays ==
    ASSUME Next
    PROVE  base' = base \/ base'.cursor
<1>1. CASE PassNext \/ ScanFails \/ Stop
  BY <1>1 DEF PassNext, scanVars, ScanFails, Stop
<1>2. CASE BeginScan
  BY <1>2 DEF BeginScan
<1>3. CASE EnqueueNew \/ ScanGone \/ EndScan \/ Execute
  BY <1>3 DEF EnqueueNew, ScanGone, EndScan, Execute, scanVars
<1>4. ASSUME NEW x \in Paths, ScanNew(x) \/ ScanKnown(x) \/ ReplayDelete(x)
      PROVE  base' = base
  BY <1>4 DEF ScanNew, ScanKnown, ReplayDelete
<1> QED BY <1>1, <1>2, <1>3, <1>4 DEF Next, ScanStep

\* The invariant is inductive.
LEMMA FirstPassKept ==
    ASSUME IInv, [Next]_vars
    PROVE  IInv'
<1>1. CASE UNCHANGED vars
  <2>1. UNCHANGED <<tree, drive, hidden, rows, cursor, phase, todo, seenTree, seenDrive, unlisted, origin, touched,
                    ops, half, base>>
    BY <1>1 DEF vars, passVars, scanVars, world, tables, walks, ghosts
  <2>2. CASE base.cursor
    BY <2>1, <2>2 DEF IInv
  <2>3. CASE FirstPass
    <3> USE <2>3 DEF FirstPass
    <3>1. Typed' /\ Quiet' /\ Began'
      BY <2>1 DEF Typed, Quiet, Began, Here, There
    <3>2. Skeleton'
      BY <2>1, SkeletonSame
    <3>3. Walk'
      BY <2>1, SureSame, WalkSame
    <3>4. Untouched'
      <4> SUFFICES ASSUME NEW x \in Paths \ touched PROVE Fine(x)'
        BY <2>1 DEF Untouched
      <4> QED BY <2>1, FineSame DEF Untouched
    <3>5. Progress'
      <4>1. Results'
        BY <2>1, ResultsKept DEF Progress, AfterFolders, AfterDocs, AfterPut, AfterNote
      <4>2. FoldersAt' /\ DocsAt'
        BY <2>1 DEF Progress, FoldersAt, DocsAt, OnDisk, OnDrive
      <4>3. CompareAt' /\ Compared'
        BY <2>1 DEF Progress, CompareAt, Compared, Both, Mine, Same, There, OnDisk, OnDrive
      <4>4. GetAt' /\ Got'
        BY <2>1 DEF Progress, GetAt, Got, Downs, OnDisk, OnDrive
      <4>5. PutAt' /\ ToFind'
        BY <2>1 DEF Progress, PutAt, ToFind, Ups, Pointer, OnDisk, OnDrive, Here, There
      <4> QED BY <4>1, <4>2, <4>3, <4>4, <4>5 DEF Progress
    <3> QED BY <3>1, <3>2, <3>3, <3>4, <3>5 DEF IInv
  <2> QED BY <2>2, <2>3 DEF IInv
<1>2. CASE Next
  <2>1. CASE base'.cursor
    BY <2>1 DEF IInv
  <2>2. CASE ~base'.cursor /\ base.cursor
    BY <1>2, <2>2, ScanStays
  <2>3. CASE ~base'.cursor /\ FirstPass
    <3>1. Moves /\ UNCHANGED <<base, ops, half>>
      BY <1>2, <2>3, OnlyThePass
    <3> QED BY <2>3, <3>1, TypedKept, QuietKept, BeganKept, SkeletonKept, WalkKept, UntouchedKept, ProgressKept
            DEF IInv, FirstPass
  <2> QED BY <2>1, <2>2, <2>3 DEF IInv
<1> QED BY <1>1, <1>2

(* Until the first scan begins, the world and the tables are as far as the  *)
(* first pass has brought them (reconcile/mod.rs, initial).                 *)
THEOREM Kept == Spec => []IInv
<1>1. ScanInit => IInv
  BY AtFirst DEF IInv
<1> QED BY <1>1, FirstPassKept, PTL DEF Spec

-----------------------------------------------------------------------------
\* What a path nobody touched has come to when the cursor is stored.
LEMMA Outcome ==
    ASSUME FirstPass, cursor, NEW x \in Paths, x \notin touched
    PROVE  IF x \in Ignored THEN tree[x] = Here(x) /\ drive[x] = There(x) /\ rows[x] = NoRow
           ELSE /\ Here(x) # Absent => tree[x] = Here(x)
                /\ There(x).live => drive[x] = There(x)
                /\ Here(x) = Absent => tree[x] = There(x).sum
                /\ ~There(x).live /\ Here(x) # Absent => drive[x].live /\ drive[x].sum = Here(x)
                /\ ~There(x).live /\ Here(x) = Absent => drive[x] = None
                /\ There(x).live /\ tree[x] = There(x).sum => rows[x] # NoRow
                /\ x \in Folders /\ Here(x) # Absent => rows[x] # NoRow
<1> USE DEF FirstPass
<1>1. CASE x \in Ignored
  BY <1>1, Known DEF Fine, KeptTree, KeptDrive, RowTrue
<1>2. CASE x \notin Ignored
  <2>1. AfterFolders /\ AfterDocs /\ AfterPut /\ AfterNote
    BY DEF AfterFolders, AfterDocs, AfterPut, AfterNote
  <2>2. CASE x \in Files
    <3>1. x \in Mine /\ x \notin Folders
      BY <1>2, <2>2, InitialPassAssumption DEF Mine
    <3>2. /\ Here(x) # Absent /\ ~There(x).live => drive[x].live
          /\ There(x).live => tree[x] # Absent /\ (tree[x] = There(x).sum => rows[x] # NoRow)
      BY <2>1, <3>1 DEF Progress, Results, Same
    <3> QED BY <1>2, <3>1, <3>2, Known, Origins DEF Fine, KeptTree, KeptDrive
  <2>3. CASE x \in Folders
    <3>1. Here(x) # Absent \/ There(x).live => rows[x] # NoRow
      BY <2>1, <2>3 DEF Progress, Results
    <3> QED BY <1>2, <3>1, Known, Origins DEF Fine, KeptTree, KeptDrive, RowTrue
  <2>4. CASE x \in Docs
    <3>1. x \notin Folders /\ Here(x) = Absent
      BY <2>4, Origins, InitialPassAssumption
    <3>2. There(x).live => rows[x] # NoRow
      BY <2>1, <2>4 DEF Progress, Results
    <3> QED BY <1>2, <3>1, <3>2, Known, Origins DEF Fine, KeptTree, KeptDrive, RowTrue
  <2> QED BY <2>2, <2>3, <2>4 DEF Paths
<1> QED BY <1>1, <1>2

\* What Merged looks at.
LEMMA OriginIs ==
    ASSUME FirstPass, NEW x \in Paths
    PROVE  /\ There(x).sum # Absent <=> There(x).live
           /\ There(x).live => There(x).sum # Absent
           /\ ~There(x).live => There(x).sum = Absent /\ There(x) = None
           /\ x \in Folders /\ Here(x) # Absent /\ There(x).live => There(x).sum = Here(x)
           /\ x \notin Folders \/ x \notin Docs
<1>1. Began
  BY DEF FirstPass
<1>2. x \in Folders => Kinds(x) = {Folder}
  BY DEF Kinds
<1> QED BY <1>1, <1>2, Origins, InitialPassAssumption

(* The first pass loses nothing and mixes nothing up: whatever users do to  *)
(* other paths and however often it is interrupted, an untouched path holds *)
(* what it held or the merged content, and the latter once the cursor is    *)
(* stored (reconcile/mod.rs, initial).                                      *)
THEOREM MergesAtFirst == Spec => []FirstPassMerges
<1>1. ASSUME FirstPass, NEW x \in Paths, x \notin touched
      PROVE  LET now == [tree |-> tree[x], drive |-> IF drive[x].live THEN drive[x].sum ELSE Absent] IN
             /\ now.tree \in {origin.tree[x], Merged(x).tree}
             /\ now.drive \in {origin.drive[x].sum, Merged(x).drive}
             /\ cursor => now = Merged(x)
  <2> DEFINE there == IF drive[x].live THEN drive[x].sum ELSE Absent
  <2>1. CASE x \in Ignored \/ (Here(x) # Absent /\ There(x).live /\ x \notin Folders)
    <3>1. Merged(x) = [tree |-> Here(x), drive |-> There(x).sum]
      BY <1>1, <2>1, OriginIs DEF Merged, Here, There
    <3>2. tree[x] = Here(x) /\ drive[x] = There(x)
      BY <1>1, <2>1, Known DEF Fine, KeptTree, KeptDrive
    <3>3. there = There(x).sum
      BY <1>1, <3>2, OriginIs
    <3> QED BY <3>1, <3>2, <3>3 DEF Here, There
  <2>2. CASE x \notin Ignored /\ Here(x) # Absent /\ (~There(x).live \/ x \in Folders)
    <3>1. Merged(x) = [tree |-> Here(x), drive |-> Here(x)]
      BY <1>1, <2>2, OriginIs DEF Merged, Here, There
    <3>2. tree[x] = Here(x)
      BY <1>1, <2>2, Known
    <3>3. there \in {There(x).sum, Here(x)}
      BY <1>1, OriginIs, Known
    <3>4. cursor => there = Here(x)
      BY <1>1, <2>2, OriginIs, Outcome
    <3> QED BY <3>1, <3>2, <3>3, <3>4 DEF Here, There
  <2>3. CASE x \notin Ignored /\ Here(x) = Absent
    <3>1. Merged(x) = [tree |-> There(x).sum, drive |-> There(x).sum]
      BY <1>1, <2>3, OriginIs DEF Merged, Here, There
    <3>2. tree[x] \in {Here(x), There(x).sum}
      BY <1>1, <2>3, Known DEF Fine, KeptTree
    <3>3. there = There(x).sum
      BY <1>1, <2>3, OriginIs, Known
    <3>4. cursor => tree[x] = There(x).sum
      BY <1>1, <2>3, Outcome
    <3> QED BY <3>1, <3>2, <3>3, <3>4 DEF Here, There
  <2> QED BY <2>1, <2>2, <2>3
<1>2. IInv => FirstPassMerges
  BY <1>1 DEF IInv, FirstPassMerges, PassMerges
<1> QED BY <1>2, Kept, PTL

(* When the cursor is stored the rows are true: the row of an untouched     *)
(* path names its Drive file and what both sides hold, and only ignored     *)
(* files, mismatches and late uploads have none (reconcile/mod.rs:300-420). *)
THEOREM RowsAreTrueAtFirst == Spec => []FirstRowsTellTheTruth
<1>1. ASSUME FirstPass, cursor, NEW x \in Paths, x \notin touched
      PROVE  IF rows[x] # NoRow
             THEN /\ x \notin Ignored /\ drive[x].live /\ rows[x].gen = drive[x].gen
                  /\ rows[x].sum = drive[x].sum /\ drive[x].sum = tree[x]
             ELSE \/ x \in Ignored \/ tree[x] # drive[x].sum
                  \/ origin.tree[x] # Absent /\ origin.drive[x] = None /\ x \in Files
                  \/ tree[x] = Absent /\ ~drive[x].live
  <2>1. CASE rows[x] # NoRow
    BY <1>1, <2>1, Known DEF Fine, RowTrue
  <2>2. CASE rows[x] = NoRow
    <3>1. CASE x \notin Ignored /\ There(x).live
      BY <1>1, <2>2, <3>1, Outcome
    <3>2. CASE x \notin Ignored /\ ~There(x).live /\ Here(x) # Absent
      <4>1. x \in Files
        BY <1>1, <2>2, <3>2, Outcome, Origins DEF Paths, FirstPass
      <4> QED BY <2>2, <3>2, <4>1, OriginIs, <1>1 DEF Here, There
    <3>3. CASE x \notin Ignored /\ ~There(x).live /\ Here(x) = Absent
      BY <1>1, <2>2, <3>3, Outcome, OriginIs, Origins DEF FirstPass
    <3> QED BY <2>2, <3>1, <3>2, <3>3
  <2> QED BY <2>1, <2>2
<1>2. IInv => FirstRowsTellTheTruth
  BY <1>1 DEF IInv, FirstRowsTellTheTruth, RowsTellTheTruth
<1> QED BY <1>2, Kept, PTL

-----------------------------------------------------------------------------
(* The scan, from its beginning to that of the next one.                   *)
Scanning == phase \in {"scan", "gone"}

Jobs == {job \in [kind : {"upload", "folder", "delete"}, path : Paths] :
           job.kind = "folder" <=> job.path \in Folders}

ScanTyped ==
    /\ tree \in [Paths -> Sums] /\ drive \in [Paths -> Entry]
    /\ rows \in [Paths -> Noted \cup {NoRow}]
    /\ ops \in Seq(Jobs)
    /\ cursor = TRUE /\ phase \in {"down", "running", "scan", "gone"}
    /\ half \in Paths \cup {Root} /\ (half # Root => phase = "scan")
    /\ whole \in BOOLEAN /\ (Scanning => ~whole /\ seenTree = base.tree)
    /\ phase = "gone" => todo \subseteq Files

JobsOf(x) == {job \in ToSet(ops) : job.path = x}
AllOf(x, kind) == \A job \in JobsOf(x) : job.kind = kind
Owed(x, kind) == AllOf(x, kind) /\ JobsOf(x) # {}

\* Drive has what the row says.
Agrees(x) == base.drive[x].sum = Row(x).sum

\* The row names the Drive file of the path.
Linked(x) == Row(x) # NoRow /\ Row(x).gen # 0 /\ Row(x).gen = base.drive[x].gen

\* Is there something to do for an entry?
Due(x) ==
    IF Row(x) = NoRow THEN base.tree[x] # Absent
    ELSE Linked(x) /\ Agrees(x) /\ (base.tree[x] = Absent \/ base.tree[x] # Row(x).sum)

AsBefore(x) == drive[x] = base.drive[x] /\ (rows[x] = Row(x))

\* To be looked at, or left as it is.
Waits(x) ==
    /\ JobsOf(x) = {} /\ half # x /\ AsBefore(x)
    /\ Due(x) => x \in todo \/ (phase = "scan" /\ Row(x) # NoRow /\ base.tree[x] = Absent)

\* To be uploaded.
Sends(x) ==
    /\ AllOf(x, "upload") /\ (half = x \/ JobsOf(x) # {})
    /\ base.tree[x] # Absent /\ drive[x] = base.drive[x]
    /\ IF Row(x) = NoRow THEN rows[x] = Pending
       ELSE /\ rows[x] = Row(x) /\ Row(x).gen # 0 /\ Row(x).sum # base.tree[x]
            /\ Linked(x) => Agrees(x)

\* To be deleted.
Drops(x) ==
    /\ Owed(x, "delete") /\ half # x
    /\ base.tree[x] = Absent /\ AsBefore(x) /\ Row(x) # NoRow /\ Row(x).gen # 0
    /\ Linked(x) => Agrees(x)

\* Drive is as it should be, and operations that are left find nothing to do.
Brought(x) ==
    /\ Caught(x) /\ AllOf(x, "upload")
    /\ JobsOf(x) # {} => rows[x] # NoRow /\ rows[x].sum = tree[x]

InScan ==
    Scanning => \A x \in Left :
        /\ tree[x] = base.tree[x]
        /\ Waits(x) \/ Sends(x) \/ Drops(x)
        /\ phase = "gone" /\ x \in todo => base.tree[x] = Absent /\ rows[x] # NoRow

AfterScan ==
    whole => \A x \in Left :
        /\ tree[x] = base.tree[x]
        /\ Sends(x) \/ Drops(x) \/ Brought(x)

Scanned == ScanTyped /\ InScan /\ AfterScan

SInv == IF base.cursor THEN Scanned ELSE ~whole

-----------------------------------------------------------------------------
\* The folders an entry is in.
AboveAs(x, above) == IF x = Root \/ Parent[x] = Root THEN {} ELSE {Parent[x]} \cup above[Parent[x]]

\* What is in every set that has the folder of x, and with a folder the one it is in.
Closed(x, S) ==
    /\ x # Root /\ Parent[x] # Root => Parent[x] \in S
    /\ \A y \in S : y # Root /\ Parent[y] # Root => Parent[y] \in S
Over(x) == {d \in Folders : \A S \in SUBSET Folders : Closed(x, S) => d \in S}

\* The recursive function is there: Over, which is not recursive, is one that fits.
LEMMA AboveIs == \A x \in Paths \cup {Root} : Above[x] = AboveAs(x, Above)
<1> DEFINE over == [x \in Paths \cup {Root} |-> Over(x)]
<1>1. ASSUME NEW x \in Paths \cup {Root}
      PROVE  over[x] = AboveAs(x, over)
  <2>1. CASE x = Root \/ Parent[x] = Root
    <3>1. Closed(x, {})
      BY <2>1 DEF Closed
    <3> QED BY <2>1, <3>1 DEF AboveAs, Over
  <2>2. CASE x # Root /\ Parent[x] # Root
    <3> DEFINE p == Parent[x]
    <3>1. p \in Folders /\ p \in Paths /\ p # Root
      BY <2>2, InitialPassAssumption DEF Paths
    <3>2. ASSUME NEW S \in SUBSET Folders, Closed(x, S)
          PROVE  Closed(p, S) /\ p \in S
      BY <2>2, <3>1, <3>2 DEF Closed
    <3>3. Over(p) \subseteq Over(x) /\ p \in Over(x)
      BY <3>1, <3>2 DEF Over
    <3>4. Closed(x, {p} \cup Over(p))
      <4>1. Parent[p] # Root => Parent[p] \in Over(p)
        BY <3>1, InitialPassAssumption DEF Over, Closed, Paths
      <4>2. ASSUME NEW y \in Over(p), Parent[y] # Root
            PROVE  Parent[y] \in Over(p)
        <5>1. y \in Folders /\ y \in Paths /\ y # Root
          BY InitialPassAssumption DEF Over, Paths
        <5>2. Parent[y] \in Folders
          BY <4>2, <5>1, InitialPassAssumption
        <5> QED BY <4>2, <5>1, <5>2 DEF Over, Closed
      <4> QED BY <2>2, <4>1, <4>2 DEF Closed
    <3>5. Over(x) \subseteq {p} \cup Over(p)
      <4>1. {p} \cup Over(p) \in SUBSET Folders
        BY <3>1 DEF Over
      <4> QED BY <3>4, <4>1 DEF Over
    <3> QED BY <2>2, <3>1, <3>3, <3>5 DEF AboveAs
  <2> QED BY <2>1, <2>2
<1>2. over = [x \in Paths \cup {Root} |-> AboveAs(x, over)]
  BY <1>1
<1> HIDE DEF over
<1>3. Above = [x \in Paths \cup {Root} |-> AboveAs(x, Above)]
  BY <1>2 DEF Above, AboveAs
<1> QED BY <1>3

\* What it is above an entry is folders, since the paths are a tree.
LEMMA AboveFolders == \A x \in Paths : Above[x] \subseteq Folders
<1> DEFINE wrong == {x \in Paths : ~(Above[x] \subseteq Folders)}
<1>1. SUFFICES ASSUME wrong # {} PROVE FALSE
  OBVIOUS
<1>2. PICK x \in wrong : Parent[x] \notin wrong
  <2>1. wrong \in SUBSET Paths
    OBVIOUS
  <2> HIDE DEF wrong
  <2> QED BY <1>1, <2>1, InitialPassAssumption
<1>3. x \in Paths /\ Parent[x] \in Folders \cup {Root}
  BY InitialPassAssumption
<1>4. Above[x] = AboveAs(x, Above)
  BY <1>3, AboveIs
<1>5. Parent[x] # Root => Above[Parent[x]] \subseteq Folders
  BY <1>2, <1>3 DEF Paths
<1> QED BY <1>2, <1>3, <1>4, <1>5 DEF AboveAs

-----------------------------------------------------------------------------
\* The queue, and what is left of it.
LEMMA JobSet ==
    ASSUME ops \in Seq(Jobs), ops # <<>>
    PROVE  /\ Head(ops) \in Jobs /\ Head(ops) \in ToSet(ops)
           /\ \A K : Only(Tail(ops), K) \in Seq(Jobs) /\ ToSet(Only(Tail(ops), K)) = ToSet(Tail(ops)) \cap K
           /\ ToSet(Tail(ops)) \subseteq ToSet(ops) /\ ToSet(ops) = {Head(ops)} \cup ToSet(Tail(ops))
<1>1. Tail(ops) \in Seq(Jobs) /\ Head(ops) \in Jobs /\ ToSet(ops) = {Head(ops)} \cup ToSet(Tail(ops))
  BY TailSet
<1> QED BY <1>1, OnlyKeeps

\* Folders are made; files stay.
LEMMA EnsuredTyped ==
    ASSUME drive \in [Paths -> Entry], rows \in [Paths -> Noted \cup {NoRow}], NEW F \in SUBSET Folders
    PROVE  /\ Ensured(F, drive) \in [Paths -> Entry]
           /\ \A x \in Paths \ F : Ensured(F, drive)[x] = drive[x]
           /\ \A there \in [Paths -> Entry] :
                /\ Rowed(F, there) \in [Paths -> Noted \cup {NoRow}]
                /\ \A x \in Paths \ F : Rowed(F, there)[x] = rows[x]
<1>1. \A x \in Paths : New(drive[x], Folder) \in Entry
  BY DEF New, Entry
<1>2. \A there \in [Paths -> Entry], x \in Paths : [gen |-> there[x].gen, sum |-> Folder] \in Noted
  BY DEF Entry, Noted, Sums
<1> QED BY <1>1, <1>2 DEF Ensured, Rowed

\* Entries of Drive that were written to, made or trashed.
LEMMA EntriesAre ==
    ASSUME NEW e \in Entry, NEW c \in Sums
    PROVE  /\ New(e, c) \in Entry /\ New(e, c).live /\ New(e, c).sum = c
           /\ [e EXCEPT !.sum = c] \in Entry /\ [e EXCEPT !.sum = c].sum = c
           /\ [e EXCEPT !.sum = c].live = e.live
           /\ [e EXCEPT !.live = FALSE] \in Entry /\ ~[e EXCEPT !.live = FALSE].live
<1>1. e = [gen |-> e.gen, sum |-> e.sum, live |-> e.live] /\ e.gen \in Nat /\ e.sum \in Sums /\ e.live \in BOOLEAN
  BY DEF Entry, Sums
<1>2. New(e, c) \in Entry /\ New(e, c).live /\ New(e, c).sum = c
  BY <1>1 DEF New, Entry, Sums
<1>3. [e EXCEPT !.sum = c] = [gen |-> e.gen, sum |-> c, live |-> e.live]
  BY <1>1
<1>4. [e EXCEPT !.live = FALSE] \in Entry /\ ~[e EXCEPT !.live = FALSE].live
  BY DEF Entry
<1> QED BY <1>1, <1>2, <1>3, <1>4 DEF Entry, Sums

\* What an upload leaves on Drive.
LEMMA WrittenIs ==
    ASSUME NEW e \in Entry, NEW c \in Sums, NEW w, w = IF e.live THEN [e EXCEPT !.sum = c] ELSE New(e, c)
    PROVE  w \in Entry /\ w.sum = c /\ w.live /\ (e.live => w = [e EXCEPT !.sum = c])
<1>1. CASE e.live
  <2>1. w = [e EXCEPT !.sum = c]
    BY <1>1
  <2>2. w \in Entry
    BY <2>1 DEF Entry, Sums
  <2> QED BY <1>1, <2>1, <2>2 DEF Entry
<1>2. CASE ~e.live
  <2>1. w = New(e, c)
    BY <1>2
  <2>2. w \in Entry
    BY <2>1 DEF Entry, Sums, New
  <2> QED BY <1>2, <2>1, <2>2 DEF New
<1> QED BY <1>1, <1>2

\* What each operation writes: an upload,
LEMMA UploadWrites ==
    ASSUME ScanTyped, NEW x \in Paths \ Folders, ExecuteUpload(x)
    PROVE  /\ drive' \in [Paths -> Entry] /\ rows' \in [Paths -> Noted \cup {NoRow}]
           /\ \A y \in Files \ {x} : drive'[y] = drive[y] /\ rows'[y] = rows[y]
           /\ IF tree[x] = Absent \/ rows[x] = NoRow \/ rows[x].sum = tree[x]
              THEN drive'[x] = drive[x] /\ rows'[x] = rows[x]
              ELSE /\ rows'[x] # NoRow /\ rows'[x].sum = tree[x]
                   /\ drive'[x] = IF drive[x].live THEN [drive[x] EXCEPT !.sum = tree[x]]
                                                   ELSE New(drive[x], tree[x])
<1> USE DEF ScanTyped
<1>0. x \in Paths /\ \A y \in Files : y \in Paths /\ y \notin Folders
  BY InitialPassAssumption DEF Paths
<1>1. CASE tree[x] = Absent \/ rows[x] = NoRow \/ rows[x].sum = tree[x]
  BY <1>0, <1>1 DEF ExecuteUpload
<1>2. CASE ~(tree[x] = Absent \/ rows[x] = NoRow \/ rows[x].sum = tree[x])
  <2> DEFINE folders == IF rows[x].gen = 0 THEN Above[x] ELSE {}
             there == Ensured(folders, drive)
             written == IF there[x].live THEN [there[x] EXCEPT !.sum = tree[x]]
                                         ELSE New(there[x], tree[x])
             row == [gen |-> IF rows[x].gen = 0 THEN written.gen ELSE rows[x].gen, sum |-> tree[x]]
  <2>1. folders \in SUBSET Folders
    BY <1>0, AboveFolders
  <2>2. drive' = [there EXCEPT ![x] = written] /\ rows' = [Rowed(folders, there) EXCEPT ![x] = row]
    BY <1>2 DEF ExecuteUpload
  <2> HIDE DEF folders
  <2>3. /\ there \in [Paths -> Entry] /\ \A y \in Files \cup {x} : there[y] = drive[y]
        /\ Rowed(folders, there) \in [Paths -> Noted \cup {NoRow}]
        /\ \A y \in Files : Rowed(folders, there)[y] = rows[y]
    BY <1>0, <2>1, EnsuredTyped
  <2> HIDE DEF there
  <2>4. /\ written \in Entry
        /\ written = IF drive[x].live THEN [drive[x] EXCEPT !.sum = tree[x]] ELSE New(drive[x], tree[x])
    <3>1. there[x] = drive[x] /\ drive[x] \in Entry /\ tree[x] \in Sums
      BY <1>0, <2>3
    <3>3. written = IF drive[x].live THEN [drive[x] EXCEPT !.sum = tree[x]] ELSE New(drive[x], tree[x])
      BY <3>1
    <3> HIDE DEF written
    <3> QED BY <3>1, <3>3, WrittenIs
  <2>5. row \in Noted /\ row.sum = tree[x]
    BY <1>0, <1>2, <2>4 DEF Noted, Entry, Sums
  <2>6. row # NoRow
    BY <2>5, InitialPassAssumption DEF Noted, Sums
  <2> HIDE DEF written, row
  <2> QED BY <1>0, <1>2, <2>2, <2>3, <2>4, <2>5, <2>6
<1> QED BY <1>1, <1>2

\* a folder,
LEMMA FolderWrites ==
    ASSUME ScanTyped, NEW d \in Folders, ExecuteFolder(d)
    PROVE  /\ drive' \in [Paths -> Entry] /\ rows' \in [Paths -> Noted \cup {NoRow}]
           /\ \A y \in Files : drive'[y] = drive[y] /\ rows'[y] = rows[y]
<1> DEFINE F == Above[d] \cup {d}
<1>1. F \in SUBSET Folders /\ \A y \in Files : y \in Paths \ F
  BY AboveFolders, InitialPassAssumption DEF Paths
<1>2. drive' = Ensured(F, drive) /\ rows' = Rowed(F, drive')
  BY DEF ExecuteFolder
<1> HIDE DEF F
<1>3. drive' \in [Paths -> Entry] /\ \A y \in Files : drive'[y] = drive[y]
  BY <1>1, <1>2, EnsuredTyped DEF ScanTyped
<1> QED BY <1>1, <1>2, <1>3, EnsuredTyped DEF ScanTyped

\* a deletion.
LEMMA DeleteWrites ==
    ASSUME ScanTyped, NEW x \in Paths, ExecuteDelete(x)
    PROVE  /\ drive' \in [Paths -> Entry] /\ rows' \in [Paths -> Noted \cup {NoRow}]
           /\ \A y \in Paths \ {x} : drive'[y] = drive[y] /\ rows'[y] = rows[y]
           /\ rows'[x] = NoRow
           /\ drive'[x] = IF rows[x] # NoRow /\ rows[x].gen = drive[x].gen
                          THEN [drive[x] EXCEPT !.live = FALSE] ELSE drive[x]
<1>1. drive[x] \in Entry
  BY DEF ScanTyped
<1>2. [drive[x] EXCEPT !.live = FALSE] \in Entry /\ ~[drive[x] EXCEPT !.live = FALSE].live
  BY <1>1, EntriesAre DEF Sums
<1> QED BY <1>1, <1>2 DEF ExecuteDelete, ScanTyped

-----------------------------------------------------------------------------
\* An entry that a step leaves alone.
LEMMA EntrySame ==
    ASSUME NEW x, base' = base, tree'[x] = tree[x], drive'[x] = drive[x], rows'[x] = rows[x],
           JobsOf(x)' = JobsOf(x), half' = x <=> half = x
    PROVE  /\ Sends(x) => Sends(x)'
           /\ Drops(x) => Drops(x)'
           /\ Brought(x) => Brought(x)'
           /\ Waits(x) /\ (x \in todo => x \in todo') /\ phase' = phase => Waits(x)'
<1>1. Row(x)' = Row(x) /\ Linked(x)' = Linked(x) /\ Agrees(x)' = Agrees(x) /\ Due(x)' = Due(x)
  BY DEF Row, Linked, Agrees, Due
<1>2. Caught(x) => Caught(x)'
  BY <1>1 DEF Caught, Row, Stays, Trashed, Uploaded, New
<1> QED BY <1>1, <1>2 DEF Sends, Drops, Brought, Waits, AllOf, Owed, AsBefore, Row, Linked, Agrees, Due

\* A step that leaves all entries alone but those of which nothing is said any more.
LEMMA AllSame ==
    ASSUME Scanned, base' = base, ScanTyped', Left' \subseteq Left, ops' = ops,
           \A x \in Left' : tree'[x] = tree[x] /\ drive'[x] = drive[x] /\ rows'[x] = rows[x]
                            /\ (half' = x <=> half = x),
           Scanning' => phase' = phase /\ todo' = todo,
           whole' => whole
    PROVE  Scanned'
<1>1. ASSUME NEW x \in Left'
      PROVE  /\ tree'[x] = tree[x] /\ drive'[x] = drive[x] /\ rows'[x] = rows[x] /\ JobsOf(x)' = JobsOf(x)
             /\ (half' = x <=> half = x) /\ base'.tree[x] = base.tree[x] /\ x \in Left
  BY DEF JobsOf
<1>2. InScan'
  <2> SUFFICES ASSUME Scanning', NEW x \in Left'
               PROVE  /\ tree'[x] = base'.tree[x]
                      /\ (Waits(x) \/ Sends(x) \/ Drops(x))'
                      /\ phase' = "gone" /\ x \in todo' => base'.tree[x] = Absent /\ rows'[x] # NoRow
    BY DEF InScan
  <2>1. Scanning /\ phase' = phase /\ todo' = todo
    BY DEF Scanning
  <2> QED BY <1>1, <2>1, EntrySame DEF Scanned, InScan
<1>3. AfterScan'
  <2> SUFFICES ASSUME whole', NEW x \in Left'
               PROVE  tree'[x] = base'.tree[x] /\ (Sends(x) \/ Drops(x) \/ Brought(x))'
    BY DEF AfterScan
  <2> QED BY <1>1, EntrySame DEF Scanned, AfterScan
<1> QED BY <1>2, <1>3 DEF Scanned

\* Where the entries are of which something is said.
LEMMA LeftIs == \A x \in Left : x \in Files /\ x \in Paths /\ x \notin Folders /\ x # Root
  BY InitialPassAssumption DEF Left, Paths

\* Users and Drive.
LEMMA ScannedByUsers ==
    ASSUME Scanned, base' = base, UNCHANGED scanVars,
           NEW x \in Paths, NEW c \in Versions \cup {Absent, Folder},
           Index(x) \/ EditTree(x, c) \/ EditDrive(x, c)
    PROVE  Scanned'
<1> USE DEF Scanned, ScanTyped
<1>1. UNCHANGED <<base, ops, half, whole>> /\ UNCHANGED <<rows, cursor, phase, todo, seenTree>>
  BY DEF scanVars, Index, EditTree, EditDrive, tables, walks
<1>2. /\ tree' \in [Paths -> Sums] /\ drive' \in [Paths -> Entry]
      /\ touched \subseteq touched'
      /\ \A y \in Paths \ touched' : tree'[y] = tree[y] /\ drive'[y] = drive[y]
  <2>1. CASE Index(x)
    BY <2>1 DEF Index, ghosts
  <2>2. CASE EditTree(x, c)
    BY <2>2 DEF EditTree, Sums
  <2>3. CASE EditDrive(x, c)
    <3>1. drive[x] \in Entry /\ c \in Sums
      BY DEF Sums
    <3>2. /\ [drive[x] EXCEPT !.live = FALSE] \in Entry
          /\ New(drive[x], c) \in Entry /\ [drive[x] EXCEPT !.sum = c] \in Entry
      BY <3>1, EntriesAre
    <3> QED BY <2>3, <3>1, <3>2 DEF EditDrive, Overwrite
  <2> QED BY <2>1, <2>2, <2>3
<1>3. ScanTyped' /\ (Scanning' <=> Scanning)
  BY <1>1, <1>2 DEF Scanning
<1>4. Left' \subseteq Left /\ \A y \in Left' : y \in Paths \ touched'
  BY <1>1, <1>2 DEF Left, Paths
<1> QED BY <1>1, <1>2, <1>3, <1>4, AllSame

\* The scan fails, or the process is stopped.
LEMMA ScannedOnStop ==
    ASSUME Scanned, ScanFails \/ Stop
    PROVE  Scanned'
<1> USE DEF Scanned, ScanTyped
<1>1. /\ phase' \in {"running", "down"} /\ half' = Root
      /\ UNCHANGED <<tree, drive, rows, cursor, touched, ops, base, whole>>
  BY DEF ScanFails, Stop, Leave, world, tables
<1>2. ScanTyped' /\ ~Scanning'
  BY <1>1 DEF Scanning
<1>3. Left' \subseteq Left
  BY <1>1 DEF Left
<1>4. whole => half = Root
  BY DEF Scanning
<1>5. CASE whole
  BY <1>1, <1>2, <1>3, <1>4, <1>5, AllSame
<1>6. CASE ~whole
  BY <1>1, <1>2, <1>6 DEF InScan, AfterScan
<1> QED BY <1>5, <1>6

\* An operation more.
LEMMA AppendJobs ==
    ASSUME ops \in Seq(Jobs), NEW job \in Jobs, ops' = Append(ops, job)
    PROVE  /\ ops' \in Seq(Jobs)
           /\ \A x : job.path = x => JobsOf(x)' = JobsOf(x) \cup {job}
           /\ \A x : job.path # x => JobsOf(x)' = JobsOf(x)
<1>1. ToSet(ops') = ToSet(ops) \cup {job} /\ ops' \in Seq(Jobs)
  BY AppendSet
<1> QED BY <1>1 DEF JobsOf

\* The scan goes on to another entry.
LEMMA ScanOn ==
    ASSUME Scanned, Scanning, base' = base, ScanTyped', Left' = Left, UNCHANGED <<tree, drive, phase>>, ~whole',
           \A x \in Left : \/ /\ rows'[x] = rows[x] /\ JobsOf(x)' = JobsOf(x) /\ (half' = x <=> half = x)
                              /\ x \in todo => x \in todo'
                           \/ (Waits(x) \/ Sends(x) \/ Drops(x))',
           \A x \in Left : phase = "gone" /\ x \in todo' => x \in todo /\ rows'[x] = rows[x]
    PROVE  Scanned'
<1>1. ~whole
  BY DEF Scanned, ScanTyped
<1>2. ASSUME NEW x \in Left
      PROVE  /\ tree'[x] = base'.tree[x]
             /\ (Waits(x) \/ Sends(x) \/ Drops(x))'
             /\ phase' = "gone" /\ x \in todo' => base'.tree[x] = Absent /\ rows'[x] # NoRow
  <2>1. /\ tree[x] = base.tree[x] /\ (Waits(x) \/ Sends(x) \/ Drops(x))
        /\ phase = "gone" /\ x \in todo => base.tree[x] = Absent /\ rows[x] # NoRow
    BY DEF Scanned, InScan
  <2> QED BY <2>1, EntrySame
<1> QED BY <1>1, <1>2 DEF Scanned, InScan, AfterScan

\* An entry without a row,
LEMMA ScannedOnNew ==
    ASSUME Scanned, NEW x \in Paths, ScanNew(x)
    PROVE  Scanned'
<1> USE DEF Scanned, ScanTyped
<1>1. /\ phase = "scan" /\ half = Root /\ rows[x] = NoRow
      /\ UNCHANGED <<tree, drive, cursor, phase, seenTree, touched, ops, base, whole>>
  BY DEF ScanNew, world, walks, ghosts
<1>2. ToSet(ops)' = ToSet(ops) /\ Left' = Left /\ Scanning /\ Scanning' /\ \A y : JobsOf(y)' = JobsOf(y)
  BY <1>1 DEF Left, Scanning, JobsOf
<1>3. Pending \in Noted
  BY DEF Pending, Noted, Sums
<1>4. CASE tree[x] = Absent
  <2>1. todo' = todo \ {x} /\ UNCHANGED <<rows, half>>
    BY <1>4 DEF ScanNew
  <2>2. ASSUME x \in Left
        PROVE  Waits(x)'
    <3>1. tree[x] = base.tree[x] /\ (Waits(x) \/ Sends(x) \/ Drops(x))
      BY <2>2, <1>2 DEF InScan
    <3>2. Waits(x) /\ Row(x) = NoRow /\ ~Due(x)
      BY <1>1, <1>3, <1>4, <3>1, InitialPassAssumption
         DEF Sends, Drops, AsBefore, Waits, Due, Noted, Sums
    <3> QED BY <1>1, <1>2, <2>1, <3>2 DEF Waits, Due, AsBefore, Row, Linked, Agrees
  <2> QED BY <1>1, <1>2, <2>1, <2>2, ScanOn
<1>5. CASE tree[x] # Absent
  <2>1. /\ rows' = [rows EXCEPT ![x] = Pending] /\ half' = x
        /\ todo \ {x} \subseteq todo'
    BY <1>5 DEF ScanNew
  <2>2. ASSUME x \in Left
        PROVE  Sends(x)'
    <3>1. tree[x] = base.tree[x] /\ (Waits(x) \/ Sends(x) \/ Drops(x))
      BY <2>2, <1>2 DEF InScan
    <3>2. Waits(x) /\ Row(x) = NoRow
      BY <1>1, <1>3, <1>5, <3>1, InitialPassAssumption
         DEF Sends, Drops, AsBefore, Waits, Noted, Sums
    <3> QED BY <1>1, <1>2, <1>5, <2>1, <3>1, <3>2 DEF Waits, Sends, AsBefore, AllOf, Row, Linked, Agrees
  <2>3. \A y \in Left \ {x} : rows'[y] = rows[y] /\ (half' = y <=> half = y)
    BY <1>1, <2>1, LeftIs
  <2> QED BY <1>1, <1>2, <1>3, <2>1, <2>2, <2>3, ScanOn
<1> QED BY <1>4, <1>5

\* and the operation that follows.
LEMMA ScannedOnEnqueue ==
    ASSUME Scanned, EnqueueNew
    PROVE  Scanned'
<1> USE DEF Scanned, ScanTyped
<1> DEFINE job == Job(IF half \in Folders THEN "folder" ELSE "upload", half)
<1>1. /\ phase = "scan" /\ half \in Paths /\ half' = Root /\ ops' = Append(ops, job)
      /\ UNCHANGED <<tree, drive, rows, cursor, phase, todo, seenTree, touched, base, whole>>
  BY DEF EnqueueNew, passVars, world, tables, walks, ghosts
<1>2. job \in Jobs /\ job.path = half /\ (half \notin Folders => job.kind = "upload")
  BY <1>1 DEF Job, Jobs
<1> HIDE DEF job
<1>3. /\ ops' \in Seq(Jobs)
      /\ \A x : job.path = x => JobsOf(x)' = JobsOf(x) \cup {job}
      /\ \A x : job.path # x => JobsOf(x)' = JobsOf(x)
  BY <1>1, <1>2, AppendJobs
<1>4. Left' = Left /\ Scanning
  BY <1>1 DEF Left, Scanning
<1>5. ASSUME NEW x \in Left, half = x
      PROVE  Sends(x)'
  <2>1. Sends(x)
    BY <1>4, <1>5 DEF InScan, Waits, Drops
  <2>2. JobsOf(x)' = JobsOf(x) \cup {job} /\ job.kind = "upload"
    BY <1>2, <1>3, <1>5, LeftIs
  <2>3. AllOf(x, "upload")' /\ JobsOf(x)' # {}
    BY <2>1, <2>2 DEF Sends, AllOf
  <2>4. Row(x)' = Row(x) /\ Linked(x)' = Linked(x) /\ Agrees(x)' = Agrees(x)
    BY <1>1 DEF Row, Linked, Agrees
  <2> QED BY <1>1, <2>1, <2>3, <2>4 DEF Sends
<1> QED BY <1>1, <1>2, <1>3, <1>4, <1>5, LeftIs, ScanOn DEF Scanning

\* What the answer of Drive says of an entry the scan has not changed.
LEMMA AnswerSays ==
    ASSUME NEW x, AsBefore(x), TRUE \in Answers(x)
    PROVE  Row(x).gen # 0 /\ (Linked(x) => Agrees(x))
BY DEF AsBefore, Answers, Linked, Agrees

\* Of one that Drive has as it was synced, it is yes.
LEMMA AnswerIs ==
    ASSUME NEW x, AsBefore(x), Linked(x), Agrees(x)
    PROVE  Answers(x) = {TRUE}
BY DEF AsBefore, Answers, Linked, Agrees

\* An entry with a row.
LEMMA ScannedOnKnown ==
    ASSUME Scanned, NEW x \in Paths, ScanKnown(x)
    PROVE  Scanned'
<1> USE DEF Scanned, ScanTyped
<1>1. /\ phase = "scan" /\ half = Root /\ rows[x] # NoRow /\ todo' = todo \ {x}
      /\ x \in Files => tree[x] # Absent
      /\ UNCHANGED <<tree, drive, rows, cursor, phase, seenTree, touched, half, base, whole>>
  BY DEF ScanKnown, world, tables, walks, ghosts
<1>2. PICK same \in Answers(x) :
        ops' = IF x \in Files /\ tree[x] # rows[x].sum /\ same THEN Append(ops, Job("upload", x)) ELSE ops
  BY DEF ScanKnown
<1>3. Left' = Left /\ Scanning
  BY <1>1 DEF Left, Scanning
<1>4. CASE x \in Files /\ tree[x] # rows[x].sum /\ same
  <2> DEFINE job == Job("upload", x)
  <2>1. job \in Jobs /\ job.path = x /\ job.kind = "upload"
    BY <1>4, InitialPassAssumption DEF Job, Jobs
  <2> HIDE DEF job
  <2>2. ops' = Append(ops, job)
    BY <1>2, <1>4 DEF job
  <2>3. /\ ops' \in Seq(Jobs) /\ JobsOf(x)' = JobsOf(x) \cup {job}
        /\ \A y : y # x => JobsOf(y)' = JobsOf(y)
    BY <2>1, <2>2, AppendJobs
  <2>4. ASSUME x \in Left
        PROVE  Sends(x)'
    <3>1. tree[x] = base.tree[x] /\ (Waits(x) \/ Sends(x))
      BY <1>1, <1>3, <1>4, <2>4 DEF InScan, Drops
    <3>2. CASE Waits(x)
      <4>1. Row(x) # NoRow /\ Row(x).gen # 0 /\ (Linked(x) => Agrees(x)) /\ rows[x] = Row(x)
        BY <1>1, <1>4, <3>2, AnswerSays DEF Waits, AsBefore, Answers
      <4> QED BY <1>1, <1>4, <2>1, <2>3, <3>1, <3>2, <4>1
              DEF Waits, AsBefore, Sends, AllOf, Row, Linked, Agrees
    <3>3. CASE Sends(x)
      BY <1>1, <2>1, <2>3, <3>3 DEF Sends, AllOf, Row, Linked, Agrees
    <3> QED BY <3>1, <3>2, <3>3
  <2> QED BY <1>1, <1>3, <2>3, <2>4, ScanOn DEF Scanning
<1>5. CASE ~(x \in Files /\ tree[x] # rows[x].sum /\ same)
  <2>1. ops' = ops /\ \A y : JobsOf(y)' = JobsOf(y)
    BY <1>2, <1>5 DEF JobsOf
  <2>2. ASSUME x \in Left
        PROVE  (Waits(x) \/ Sends(x) \/ Drops(x))'
    <3>1. tree[x] = base.tree[x] /\ (Waits(x) \/ Sends(x)) /\ base.tree[x] # Absent
      BY <1>1, <1>3, <2>2, LeftIs DEF InScan, Drops
    <3>2. CASE Waits(x)
      <4>1. Due(x) => Linked(x) /\ Agrees(x) /\ tree[x] # rows[x].sum
        BY <1>1, <3>1, <3>2 DEF Waits, AsBefore, Due
      <4>2. Due(x) => Answers(x) = {TRUE}
        BY <3>2, <4>1, AnswerIs DEF Waits
      <4>4. Due(x) => same = TRUE
        BY <1>2, <4>2
      <4>3. ~Due(x)
        BY <1>5, <2>2, <4>1, <4>4, LeftIs, Zenon
      <4> QED BY <1>1, <2>1, <3>2, <4>3 DEF Waits, AsBefore, Due, Row, Linked, Agrees
    <3>3. CASE Sends(x)
      BY <1>1, <2>1, <3>3, EntrySame
    <3> QED BY <3>1, <3>2, <3>3
  <2> QED BY <1>1, <1>3, <2>1, <2>2, ScanOn DEF Scanning
<1> QED BY <1>4, <1>5

\* The deletions are next.
LEMMA ScannedOnGone ==
    ASSUME Scanned, ScanGone
    PROVE  Scanned'
<1> USE DEF Scanned, ScanTyped
<1>1. /\ phase = "scan" /\ half = Root /\ todo = {} /\ phase' = "gone"
      /\ todo' = {x \in Files \ Ignored : rows[x] # NoRow /\ seenTree[x] = Absent}
      /\ UNCHANGED <<tree, drive, rows, cursor, seenTree, touched, ops, half, base, whole>>
  BY DEF ScanGone, world, tables, walks, ghosts, scanVars
<1>2. Left' = Left /\ Scanning /\ Scanning' /\ \A y : JobsOf(y)' = JobsOf(y)
  BY <1>1 DEF Left, Scanning, JobsOf
<1>3. ASSUME NEW x \in Left
      PROVE  /\ tree'[x] = base'.tree[x]
             /\ (Waits(x) \/ Sends(x) \/ Drops(x))'
             /\ phase' = "gone" /\ x \in todo' => base'.tree[x] = Absent /\ rows'[x] # NoRow
  <2>1. tree[x] = base.tree[x] /\ (Waits(x) \/ Sends(x) \/ Drops(x))
    BY <1>2 DEF InScan
  <2>2. x \in todo' => base.tree[x] = Absent /\ rows[x] # NoRow
    BY <1>1, <1>2
  <2>3. Waits(x) => Waits(x)'
    <3>1. Waits(x) /\ Due(x) => x \in todo'
      BY <1>1, <1>2, LeftIs DEF Waits, Left, AsBefore
    <3> QED BY <1>1, <1>2, <3>1 DEF Waits, AsBefore, Due, Row, Linked, Agrees
  <2> QED BY <1>1, <1>2, <2>1, <2>2, <2>3, EntrySame
<1> QED BY <1>1, <1>2, <1>3 DEF InScan, AfterScan

\* A file that is gone.
LEMMA ScannedOnReplay ==
    ASSUME Scanned, NEW x \in Paths, ReplayDelete(x)
    PROVE  Scanned'
<1> USE DEF Scanned, ScanTyped
<1>1. /\ phase = "gone" /\ half = Root /\ x \in todo /\ todo' = todo \ {x}
      /\ UNCHANGED <<tree, drive, rows, cursor, phase, seenTree, touched, half, base, whole>>
  BY DEF ReplayDelete, world, tables, walks, ghosts
<1>2. PICK same \in Answers(x) : ops' = IF same THEN Append(ops, Job("delete", x)) ELSE ops
  BY DEF ReplayDelete
<1>3. Left' = Left /\ Scanning
  BY <1>1 DEF Left, Scanning
<1>4. ASSUME x \in Left
      PROVE  /\ tree[x] = base.tree[x] /\ base.tree[x] = Absent /\ rows[x] # NoRow
             /\ Waits(x) \/ Drops(x)
  BY <1>1, <1>3, <1>4 DEF InScan, Sends
<1>5. x \in Files
  BY <1>1
<1>6. CASE same
  <2> DEFINE job == Job("delete", x)
  <2>1. job \in Jobs /\ job.path = x /\ job.kind = "delete"
    BY <1>5, InitialPassAssumption DEF Job, Jobs, Paths
  <2> HIDE DEF job
  <2>2. ops' = Append(ops, job)
    BY <1>2, <1>6 DEF job
  <2>3. /\ ops' \in Seq(Jobs) /\ JobsOf(x)' = JobsOf(x) \cup {job}
        /\ \A y : y # x => JobsOf(y)' = JobsOf(y)
    BY <2>1, <2>2, AppendJobs
  <2>4. ASSUME x \in Left
        PROVE  Drops(x)'
    <3>1. CASE Waits(x)
      <4>1. Row(x) # NoRow /\ Row(x).gen # 0 /\ (Linked(x) => Agrees(x))
        BY <1>2, <1>4, <1>6, <2>4, <3>1, AnswerSays DEF Waits, AsBefore, Answers
      <4> QED BY <1>1, <1>4, <2>1, <2>3, <2>4, <3>1, <4>1
              DEF Waits, AsBefore, Drops, Owed, AllOf, Row, Linked, Agrees
    <3>2. CASE Drops(x)
      BY <1>1, <2>1, <2>3, <3>2 DEF Drops, Owed, AllOf, AsBefore, Row, Linked, Agrees
    <3> QED BY <1>4, <2>4, <3>1, <3>2
  <2> QED BY <1>1, <1>3, <2>3, <2>4, ScanOn DEF Scanning
<1>7. CASE ~same
  <2>1. ops' = ops /\ \A y : JobsOf(y)' = JobsOf(y)
    BY <1>2, <1>7 DEF JobsOf
  <2>2. ASSUME x \in Left
        PROVE  (Waits(x) \/ Drops(x))'
    <3>1. CASE Waits(x)
      <4>0. Due(x) => Linked(x) /\ Agrees(x)
        BY <1>4, <2>2, <3>1 DEF Waits, AsBefore, Due
      <4>2. Due(x) => Answers(x) = {TRUE}
        BY <3>1, <4>0, AnswerIs DEF Waits
      <4>3. Due(x) => same = TRUE
        BY <1>2, <4>2
      <4>1. ~Due(x)
        BY <1>7, <4>3, Zenon
      <4> QED BY <1>1, <2>1, <3>1, <4>1 DEF Waits, AsBefore, Due, Row, Linked, Agrees
    <3>2. CASE Drops(x)
      BY <1>1, <2>1, <3>2, EntrySame
    <3> QED BY <1>4, <2>2, <3>1, <3>2
  <2> QED BY <1>1, <1>3, <2>1, <2>2, ScanOn DEF Scanning
<1> QED BY <1>6, <1>7

\* The scan is complete: what still waits has nothing to wait for.
LEMMA ScannedOnEnd ==
    ASSUME Scanned, EndScan
    PROVE  Scanned'
<1> USE DEF Scanned, ScanTyped
<1>1. /\ phase = "gone" /\ half = Root /\ todo = {} /\ phase' = "running" /\ whole'
      /\ UNCHANGED <<tree, drive, rows, cursor, touched, ops, half, base>>
  BY DEF EndScan, Leave, world, tables, ghosts
<1>2. Left' = Left /\ Scanning /\ ~Scanning' /\ \A y : JobsOf(y)' = JobsOf(y)
  BY <1>1 DEF Left, Scanning, JobsOf
<1>3. ASSUME NEW x \in Left
      PROVE  tree'[x] = base'.tree[x] /\ (Sends(x) \/ Drops(x) \/ Brought(x))'
  <2>1. tree[x] = base.tree[x] /\ (Waits(x) \/ Sends(x) \/ Drops(x))
    BY <1>2 DEF InScan
  <2>2. ASSUME Waits(x)
        PROVE  Brought(x)
    <3>1. ~Due(x) /\ AsBefore(x) /\ JobsOf(x) = {}
      BY <1>1, <2>2 DEF Waits
    <3>2. Caught(x)
      BY <3>1 DEF Due, AsBefore, Linked, Agrees, Caught, Stays
    <3> QED BY <3>1, <3>2 DEF Brought, AllOf
  <2> QED BY <1>1, <1>2, <2>1, <2>2, EntrySame
<1> QED BY <1>1, <1>2, <1>3 DEF InScan, AfterScan

\* A scan begins: nothing is enqueued for the entries it is to decide on.
LEMMA ScannedOnBegin ==
    ASSUME BeginScan,
           tree \in [Paths -> Sums], drive \in [Paths -> Entry], rows \in [Paths -> Noted \cup {NoRow}],
           ops \in Seq(Jobs), half = Root
    PROVE  Scanned'
<1>1. /\ cursor /\ phase' = "scan" /\ seenTree' = tree
      /\ todo' = {x \in Paths \ Ignored : tree[x] # Absent}
      /\ touched' = {} /\ whole' = FALSE
      /\ base' = [tree |-> tree, drive |-> drive, rows |-> rows, cursor |-> cursor,
                  ops |-> {ops[n].path : n \in DOMAIN ops}]
      /\ UNCHANGED <<tree, drive, rows, cursor, ops, half>>
  BY DEF BeginScan, world, tables
<1>2. ScanTyped'
  BY <1>1 DEF ScanTyped, Scanning
<1>3. ASSUME NEW x \in Left'
      PROVE  Waits(x)' /\ tree'[x] = base'.tree[x]
  <2>1. x \in Files \ Ignored /\ x \in Paths /\ x # Root /\ x \notin base'.ops
    BY <1>1, InitialPassAssumption DEF Left, Paths
  <2>2. JobsOf(x)' = {}
    BY <1>1, <2>1 DEF JobsOf, ToSet
  <2>3. base'.tree = tree /\ base'.drive = drive /\ base'.rows = rows
    BY <1>1
  <2>4. AsBefore(x)' /\ half' # x
    BY <1>1, <2>1, <2>3 DEF AsBefore, Row
  <2>5. x \in todo' \/ (Due(x)' => phase' = "scan" /\ Row(x)' # NoRow /\ base'.tree[x] = Absent)
    BY <1>1, <2>1, <2>3 DEF Due
  <2> QED BY <1>1, <2>2, <2>3, <2>4, <2>5 DEF Waits
<1> QED BY <1>1, <1>2, <1>3 DEF Scanned, InScan, AfterScan

\* An operation is executed; those of rows that are gone go.
LEMMA ScannedOnExecute ==
    ASSUME Scanned, Execute
    PROVE  Scanned'
<1> USE DEF Scanned, ScanTyped
<1> DEFINE job == Head(ops)
           K == {other \in ToSet(ops) : rows'[other.path] # NoRow}
<1>1. /\ phase = "running" /\ ops # <<>> /\ ops' = Only(Tail(ops), K)
      /\ \/ job.kind = "upload" /\ ExecuteUpload(job.path)
         \/ job.kind = "folder" /\ ExecuteFolder(job.path)
         \/ job.kind = "delete" /\ ExecuteDelete(job.path)
      /\ UNCHANGED <<tree, cursor, phase, todo, seenTree, touched, half, base, whole>>
  BY DEF Execute, walks, ghosts
<1>2. /\ job \in Jobs /\ job \in ToSet(ops) /\ ops' \in Seq(Jobs)
      /\ ToSet(ops') = ToSet(Tail(ops)) \cap K /\ ToSet(ops) = {job} \cup ToSet(Tail(ops))
  BY <1>1, JobSet
<1> HIDE DEF job
<1>3. job.path \in Paths /\ (job.path \in Folders <=> job.kind = "folder")
  BY <1>2 DEF Jobs
<1>4. /\ drive' \in [Paths -> Entry] /\ rows' \in [Paths -> Noted \cup {NoRow}]
      /\ \A y \in Files \ {job.path} : drive'[y] = drive[y] /\ rows'[y] = rows[y]
  <2>1. CASE job.kind = "upload" /\ ExecuteUpload(job.path)
    BY <1>3, <2>1, UploadWrites
  <2>2. CASE job.kind = "folder" /\ ExecuteFolder(job.path)
    BY <1>3, <2>2, FolderWrites, InitialPassAssumption
  <2>3. CASE job.kind = "delete" /\ ExecuteDelete(job.path)
    <3>1. \A y \in Paths \ {job.path} : drive'[y] = drive[y] /\ rows'[y] = rows[y]
      BY <1>3, <2>3, DeleteWrites
    <3> QED BY <1>3, <2>3, <3>1, DeleteWrites DEF Paths
  <2> QED BY <1>1, <2>1, <2>2, <2>3
<1>5. Left' = Left /\ ~Scanning /\ ~Scanning' /\ half = Root
  BY <1>1 DEF Left, Scanning
<1>6. \A x : JobsOf(x)' \subseteq JobsOf(x)
  BY <1>2 DEF JobsOf
<1>7. \A x : x # job.path /\ rows'[x] # NoRow => JobsOf(x)' = JobsOf(x)
  BY <1>2 DEF JobsOf
<1>8. \A x : rows'[x] = NoRow => JobsOf(x)' = {}
  BY <1>2 DEF JobsOf
<1>9. ASSUME NEW x \in Left, whole
      PROVE  tree'[x] = base'.tree[x] /\ (Sends(x) \/ Drops(x) \/ Brought(x))'
  <2>0. tree[x] = base.tree[x] /\ (Sends(x) \/ Drops(x) \/ Brought(x)) /\ x \in Files /\ x \in Paths
    BY <1>9, LeftIs DEF AfterScan
  <2>1. /\ Row(x)' = Row(x) /\ (Linked(x)' = Linked(x)) /\ (Agrees(x)' = Agrees(x))
        /\ base' = base /\ tree'[x] = tree[x]
    BY <1>1 DEF Row, Linked, Agrees
  <2>2. Sends(x) \/ Drops(x) => rows[x] # NoRow
    BY InitialPassAssumption DEF Sends, Drops, AsBefore, Pending
  <2>3. CASE x # job.path
    <3>1. drive'[x] = drive[x] /\ rows'[x] = rows[x]
      BY <1>4, <2>0, <2>3
    <3>2. Brought(x) => Brought(x)'
      BY <1>6, <2>1, <3>1 DEF Brought, Caught, Stays, Trashed, Uploaded, AllOf
    <3>3. Sends(x) \/ Drops(x) => JobsOf(x)' = JobsOf(x)
      BY <1>7, <2>2, <2>3, <3>1
    <3> QED BY <1>1, <2>0, <2>1, <3>1, <3>2, <3>3, EntrySame
  <2>4. CASE x = job.path
    <3>1. job \in JobsOf(x)
      BY <1>2, <2>4 DEF JobsOf
    <3>2. CASE Sends(x)
      <4>1. job.kind = "upload" /\ ExecuteUpload(x) /\ x \in Paths \ Folders
        BY <1>1, <1>3, <2>0, <2>4, <3>1, <3>2 DEF Sends, AllOf
      <4>2. tree[x] # Absent /\ rows[x] # NoRow /\ rows[x].sum # tree[x] /\ drive[x] = base.drive[x]
        BY <2>0, <2>2, <3>2 DEF Sends, Pending
      <4>3. /\ rows'[x] # NoRow /\ rows'[x].sum = tree[x]
            /\ drive'[x] = IF drive[x].live THEN [drive[x] EXCEPT !.sum = tree[x]]
                                            ELSE New(drive[x], tree[x])
        BY <4>1, <4>2, UploadWrites
      <4>4. Caught(x)'
        <5>1. Uploaded(x)'
          BY <2>0, <2>1, <4>2, <4>3 DEF Uploaded
        <5> QED BY <2>0, <2>1, <3>2, <5>1 DEF Caught, Sends, Linked, Agrees
      <4>5. AllOf(x, "upload")'
        BY <1>6, <3>2 DEF AllOf, Sends
      <4> QED BY <2>0, <2>1, <4>3, <4>4, <4>5 DEF Brought
    <3>3. CASE Drops(x)
      <4>1. ExecuteDelete(x)
        BY <1>1, <2>4, <3>1, <3>3 DEF Drops, Owed, AllOf
      <4>2. rows'[x] = NoRow /\ JobsOf(x)' = {}
        BY <1>8, <2>0, <4>1, DeleteWrites
      <4>3. drive'[x] = IF rows[x] # NoRow /\ rows[x].gen = drive[x].gen
                        THEN [drive[x] EXCEPT !.live = FALSE] ELSE drive[x]
        BY <2>0, <4>1, DeleteWrites
      <4>4. Caught(x)'
        BY <2>0, <2>1, <3>3, <4>3 DEF Caught, Drops, AsBefore, Linked, Agrees, Stays, Trashed
      <4> QED BY <2>0, <2>1, <4>2, <4>4 DEF Brought, AllOf
    <3>4. CASE Brought(x)
      <4>1. job.kind = "upload" /\ ExecuteUpload(x) /\ x \in Paths \ Folders /\ rows[x] # NoRow /\ rows[x].sum = tree[x]
        BY <1>1, <1>3, <2>0, <2>4, <3>1, <3>4 DEF Brought, AllOf
      <4>2. drive'[x] = drive[x] /\ rows'[x] = rows[x]
        BY <4>1, UploadWrites
      <4> QED BY <1>6, <2>0, <2>1, <3>4, <4>1, <4>2 DEF Brought, Caught, Stays, Trashed, Uploaded, AllOf
    <3> QED BY <2>0, <3>2, <3>3, <3>4
  <2> QED BY <2>3, <2>4
<1> QED BY <1>1, <1>2, <1>4, <1>5, <1>9 DEF InScan, AfterScan

\* Every step keeps what the scan has come to.
LEMMA ScannedKept ==
    ASSUME base.cursor, Scanned, Next
    PROVE  Scanned'
<1>1. CASE PassNext
  <2>1. base' = base /\ UNCHANGED scanVars
    BY <1>1 DEF PassNext, scanVars
  <2>2. ~PassStep
    BY DEF Scanned, ScanTyped, PassStep, ListTree, NoteDownloads, Match, LookUp, EndLookUp, Advance, SaveCursor,
           ListDrive, Relist, MakeFolder, KeepFolder, WritePointer, RecordPointer, Compare, Vanished, Download,
           Upload, After
  <2>3. ~Stops
    BY DEF Scanned, ScanTyped, Stops, InPass
  <2> QED BY <1>1, <2>1, <2>2, <2>3, ScannedByUsers DEF PassNext, Environment
<1>2. CASE BeginScan
  BY <1>2, ScannedOnBegin DEF Scanned, ScanTyped, BeginScan
<1>3. CASE EnqueueNew \/ ScanGone \/ EndScan \/ Execute
  BY <1>3, ScannedOnEnqueue, ScannedOnGone, ScannedOnEnd, ScannedOnExecute
<1>4. ASSUME NEW x \in Paths, ScanNew(x) \/ ScanKnown(x) \/ ReplayDelete(x)
      PROVE  Scanned'
  BY <1>4, ScannedOnNew, ScannedOnKnown, ScannedOnReplay
<1> QED BY <1>1, <1>2, <1>3, <1>4, ScannedOnStop DEF Next, ScanStep

\* The first scan finds the tables as the first pass left them.
LEMMA SInvKept ==
    ASSUME IInv, SInv, [Next]_vars
    PROVE  SInv'
<1>1. CASE UNCHANGED vars
  <2>1. UNCHANGED <<tree, drive, rows, cursor, phase, todo, seenTree, touched, ops, half, base, whole>>
    BY <1>1 DEF vars, passVars, scanVars, world, tables, walks, ghosts
  <2>2. Left' = Left /\ (Scanning' <=> Scanning) /\ \A x : JobsOf(x)' = JobsOf(x)
    BY <2>1 DEF Left, Scanning, JobsOf
  <2>3. base.cursor => ScanTyped'
    BY <2>1, <2>2 DEF SInv, Scanned, ScanTyped
  <2> QED BY <2>1, <2>2, <2>3, AllSame DEF SInv
<1>2. CASE Next /\ base.cursor
  <2>1. base'.cursor
    BY <1>2, ScanStays
  <2> QED BY <1>2, <2>1, ScannedKept DEF SInv
<1>3. CASE Next /\ ~base.cursor /\ base'.cursor
  <2>1. BeginScan
    BY <1>3 DEF Next, PassNext, scanVars, ScanFails, Stop, ScanStep, EnqueueNew, ScanGone, EndScan, Execute,
                ScanNew, ScanKnown, ReplayDelete
  <2>2. FirstPass
    BY <1>3 DEF IInv
  <2>3. ops = <<>> /\ half = Root
    BY <2>2 DEF FirstPass, Quiet
  <2>4. tree \in [Paths -> Sums] /\ drive \in [Paths -> Entry] /\ rows \in [Paths -> Noted \cup {NoRow}]
    BY <2>2 DEF FirstPass, Typed
  <2>5. ops \in Seq(Jobs)
    BY <2>3
  <2> QED BY <1>3, <2>1, <2>3, <2>4, <2>5, ScannedOnBegin DEF SInv
<1>4. CASE Next /\ ~base.cursor /\ ~base'.cursor
  <2>1. ~whole /\ FirstPass
    BY <1>4 DEF IInv, SInv
  <2>2. ~EndScan /\ ~ScanFails
    BY <2>1 DEF EndScan, ScanFails, FirstPass, Typed, Phases
  <2>3. ~whole'
    BY <1>4, <2>1, <2>2 DEF Next, PassNext, scanVars, Stop, ScanStep, BeginScan, EnqueueNew, ScanGone, Execute,
                ScanNew, ScanKnown, ReplayDelete
  <2> QED BY <1>4, <2>3 DEF SInv
<1> QED BY <1>1, <1>2, <1>3, <1>4 DEF SInv

(* Once the operations of a complete scan have run, every file that nobody  *)
(* edited amid it and no older operation concerns is on Drive as what was   *)
(* found here, there and in its row asks for: what was edited here while    *)
(* the daemon was stopped is sent or trashed, what was edited there stays,  *)
(* a path without a row is sent over what is there and a row without a      *)
(* Drive id is left alone (reconcile/mod.rs, startup_local_scan).           *)
THEOREM OfflineEditsCaughtUp == Spec => []CatchesUpOffline
<1>1. ScanInit => SInv
  BY DEF ScanInit, SInv
<1>2. IInv /\ SInv /\ [Next]_vars => SInv'
  BY SInvKept
<1>3. SInv /\ IInv => CatchesUpOffline
  <2> SUFFICES ASSUME SInv, IInv, CaughtUp, NEW x \in Left
               PROVE  tree[x] = base.tree[x] /\ Caught(x)
    BY DEF CatchesUpOffline
  <2>1. tree[x] = base.tree[x] /\ (Sends(x) \/ Drops(x) \/ Brought(x))
    BY DEF SInv, Scanned, AfterScan, CaughtUp
  <2>2. JobsOf(x) = {} /\ half # x
    BY LeftIs DEF SInv, Scanned, ScanTyped, CaughtUp, JobsOf, ToSet
  <2> QED BY <2>1, <2>2 DEF Sends, Drops, Owed, Brought
<1> QED BY <1>1, <1>2, <1>3, Kept, PTL DEF Spec
=============================================================================
