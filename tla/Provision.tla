----------------------------- MODULE Provision -----------------------------
(***************************************************************************)
(* What has to be there before the daemon's loop (cli/link.rs, map.rs,     *)
(* unlink.rs, the first half of start.rs): an account, a mapping of a      *)
(* local directory to a folder on Drive, both of these, and a change       *)
(* cursor, which says that the initial pass is over.                       *)
(*                                                                         *)
(* All of it is one row each in the state database, which every command    *)
(* opens for itself; only start and unlink look at the lock, and unlink    *)
(* only looks.  Users remove directories and trash folders at any time.    *)
(***************************************************************************)
EXTENDS LockFile

CONSTANTS
    Locals,     \* local directories
    Paths,      \* folder names one may map to; resolve_path walks and creates them
    Urls,       \* folder URLs one may map to; each names a folder that exists
    MaxIds,     \* bound on the folders ever made on Drive
    Unmapped    \* "no mapping row"

Ids   == 1..MaxIds
Pairs == [local : Locals, root : Ids]

ASSUME ProvisionAssumption ==
    /\ Paths \cap Urls = {} /\ MaxIds \in Nat \ {0}
    /\ Unmapped \notin [local : Locals, root : Ids, spec : Paths \cup Urls]

VARIABLES
    db,         \* state.db: account, mapping, cursor, blocked; rows: the pairs whose files it describes
    dirs,       \* the local directories that exist
    folder,     \* Drive: id -> [spec, state]
    hand,       \* what each invocation has in its hands: [local, spec, root, first]
    outdated,   \* ghost: were the tables written for another pair, or under a running daemon?
    disturbed,  \* ghost: daemons whose mapping was rewritten after they read it
    acts,       \* what users may still do to directories, folders and daemons
    faults      \* failed calls and killed processes that may still happen

provVars == <<db, dirs, folder, hand, outdated, disturbed, acts, faults>>

Specs   == Paths \cup Urls
Empty   == [account |-> FALSE, mapping |-> Unmapped, cursor |-> FALSE,
            blocked |-> "none", rows |-> {}]
Pair(r) == [local |-> r.local, root |-> r.root]
Live(spec) == {i \in Ids : folder[i] = [spec |-> spec, state |-> "live"]}

\* A start between reading the mapping and returning.
Holding == {"gate", "local", "remote", "resolve", "create", "save", "engine", "initial",
            "baseline", "check", "watch", "scan", "signal", "join", "drain", "control", "drop"}
Started == {d \in Procs : command[d] = "start" /\ pc[d] \in Holding}

Fault == faults > 0 /\ faults' = faults - 1
Keep  == UNCHANGED <<command, pidFile, found>>
\* The process goes on to l, and does nothing else.
Step(p, l) == Go(p, l) /\ UNCHANGED holder
\* The step fails, and the command with it.
Fails(p)   == Fault /\ Exit(p)

-----------------------------------------------------------------------------
\* link: the account row, then the blocked flag.
LinkAccount(p) ==
    /\ pc[p] = "about"
    /\ \/ /\ db' = [db EXCEPT !.account = TRUE]
          /\ Step(p, "unblock") /\ UNCHANGED faults
       \/ Fails(p) /\ UNCHANGED db
    /\ UNCHANGED <<dirs, folder, hand, outdated, disturbed, acts>> /\ Keep

LinkUnblocks(p) ==
    /\ pc[p] = "unblock"
    /\ db' = [db EXCEPT !.blocked = "none"]
    /\ Exit(p)
    /\ UNCHANGED <<dirs, folder, hand, outdated, disturbed, acts, faults>> /\ Keep

\* Mutant: the table of the cursor is left out of the cascade.
ClearButCursor(p) ==
    /\ pc[p] = "clear"
    /\ db' = [Empty EXCEPT !.blocked = db.blocked, !.cursor = db.cursor]
    /\ outdated' = (Started # {})
    /\ disturbed' = disturbed \cup Started
    /\ Exit(p)
    /\ UNCHANGED <<dirs, folder, hand, acts, faults>> /\ Keep

\* unlink deletes the account, and by ON DELETE CASCADE everything that depends on it.
\* It dropped the lock before: a daemon may have started in between.
Clear(p) ==
    /\ pc[p] = "clear"
    /\ db' = [Empty EXCEPT !.blocked = db.blocked]
    /\ outdated' = (Started # {})
    /\ disturbed' = disturbed \cup Started
    /\ Exit(p)
    /\ UNCHANGED <<dirs, folder, hand, acts, faults>> /\ Keep

-----------------------------------------------------------------------------
\* canonicalise_local and ensure_local_root: a directory that is missing is made
\* when the configuration or the user says so, and refused otherwise.
EnsureDir(p, l) ==
    \/ hand[p].local \in dirs /\ Step(p, l) /\ UNCHANGED dirs
    \/ hand[p].local \notin dirs /\ dirs' = dirs \cup {hand[p].local} /\ Step(p, l)
    \/ hand[p].local \notin dirs /\ Exit(p) /\ UNCHANGED dirs

LocalDir(p) ==
    /\ \/ pc[p] = "dir" /\ EnsureDir(p, "resolve")
       \/ pc[p] = "local" /\ EnsureDir(p, "remote")
    /\ UNCHANGED <<db, folder, hand, outdated, disturbed, acts, faults>> /\ Keep

Resolved(p) == IF command[p] = "map" THEN "record" ELSE "save"

\* resolve_path: the folder of a URL, whatever became of it, or a folder found by
\* its name.  Listing and creating are two requests, and nothing is remembered of
\* a creation that was not recorded.
Resolve(p) ==
    /\ pc[p] = "resolve"
    /\ \/ \E i \in IF hand[p].spec \in Urls THEN {j \in Ids : folder[j].spec = hand[p].spec}
                   ELSE Live(hand[p].spec) :
              hand' = [hand EXCEPT ![p].root = i] /\ Step(p, Resolved(p)) /\ UNCHANGED faults
       \/ /\ hand[p].spec \in Paths /\ Live(hand[p].spec) = {}
          /\ Step(p, "create") \/ Exit(p)
          /\ UNCHANGED <<hand, faults>>
       \/ Fails(p) /\ UNCHANGED hand
    /\ UNCHANGED <<db, dirs, folder, outdated, disturbed, acts>> /\ Keep

\* The request may fail, also after the folder was made.
Create(p) ==
    /\ pc[p] = "create"
    /\ \/ \E i \in Ids :
             /\ folder[i].state = "none" /\ \A j \in Ids : folder[j].state = "none" => i <= j
             /\ folder' = [folder EXCEPT ![i] = [spec |-> hand[p].spec, state |-> "live"]]
             /\ \/ hand' = [hand EXCEPT ![p].root = i] /\ Step(p, Resolved(p)) /\ UNCHANGED faults
                \/ Fails(p) /\ UNCHANGED hand
       \/ Fails(p) /\ UNCHANGED <<hand, folder>>
    /\ UNCHANGED <<db, dirs, outdated, disturbed, acts>> /\ Keep

\* persist_mapping: the one mapping row is overwritten.  The rows of the files, the
\* operations and the cursor depend on the id of that row, and stay.
Record(p) ==
    /\ pc[p] = "record"
    /\ LET new == [local |-> hand[p].local, root |-> hand[p].root, spec |-> hand[p].spec]
           old == db.mapping
       IN  \/ /\ db.account
              /\ db' = [db EXCEPT !.mapping = new]
              /\ outdated' = (outdated \/ (old # Unmapped /\ Pair(old) # Pair(new)))
              /\ disturbed' = disturbed \cup Started
           \/ ~db.account /\ UNCHANGED <<db, outdated, disturbed>>
    /\ Exit(p)
    /\ UNCHANGED <<dirs, folder, hand, acts, faults>> /\ Keep

-----------------------------------------------------------------------------
\* start, steps 2 and 3: the account and the mapping, then the cursor, which decides
\* whether this is the first start; a user at the terminal may decline it.
Load(p) ==
    /\ pc[p] = "load"
    /\ \/ /\ db.account /\ db.mapping # Unmapped
          /\ hand' = [hand EXCEPT ![p] = [local |-> db.mapping.local, root |-> db.mapping.root,
                                          spec |-> db.mapping.spec, first |-> FALSE]]
          /\ Step(p, "gate")
       \/ (~db.account \/ db.mapping = Unmapped) /\ Exit(p) /\ UNCHANGED hand
    /\ UNCHANGED <<db, dirs, folder, outdated, disturbed, acts, faults>> /\ Keep

Gate(p) ==
    /\ pc[p] = "gate"
    /\ hand' = [hand EXCEPT ![p].first = ~db.cursor]
    /\ Step(p, "local") \/ (~db.cursor /\ Exit(p))
    /\ UNCHANGED <<db, dirs, folder, outdated, disturbed, acts, faults>> /\ Keep

\* ensure_remote_root: a live folder is taken, a trashed one is made again if the
\* mapping names a path and somebody agrees, a probe that fails decides nothing.
ProbeRoot(p) ==
    /\ pc[p] = "remote"
    /\ LET trashed == folder[hand[p].root].state # "live"
       IN  \/ ~trashed /\ Step(p, "engine") /\ UNCHANGED faults
           \/ trashed /\ hand[p].spec \in Paths /\ Step(p, "resolve") /\ UNCHANGED faults
           \/ trashed /\ Exit(p) /\ UNCHANGED faults
           \/ Fault /\ Step(p, "engine")
    /\ UNCHANGED <<db, dirs, folder, hand, outdated, disturbed, acts>> /\ Keep

\* Mutant: the folder that was made again is not written to the mapping.
SaveNothing(p) ==
    /\ pc[p] = "save"
    /\ outdated' = (outdated \/ ~hand[p].first)
    /\ Step(p, "engine")
    /\ UNCHANGED <<db, dirs, folder, hand, disturbed, acts, faults>> /\ Keep

\* update_remote_folder_id, which changes the row that is there now, if any.  The
\* rows of the files keep the ids of the folder that is gone.
Save(p) ==
    /\ pc[p] = "save"
    /\ db' = IF db.mapping = Unmapped THEN db ELSE [db EXCEPT !.mapping.root = hand[p].root]
    /\ outdated' = (outdated \/ ~hand[p].first)
    /\ Step(p, "engine")
    /\ UNCHANGED <<dirs, folder, hand, disturbed, acts, faults>> /\ Keep

\* build_engine looks for rclone, or downloads it.
BuildEngine(p) ==
    /\ pc[p] = "engine"
    /\ \/ Step(p, IF hand[p].first THEN "initial" ELSE "check") /\ UNCHANGED faults
       \/ Fails(p)
    /\ UNCHANGED <<db, dirs, folder, hand, outdated, disturbed, acts>> /\ Keep

\* Mutant: an initial pass that fails is logged, like a startup scan.
InitialLogged(p) ==
    /\ pc[p] = "initial"
    /\ \/ /\ db.mapping # Unmapped /\ UNCHANGED faults
          /\ db' = [db EXCEPT !.rows = @ \cup {Pair(hand[p])}] /\ Step(p, "baseline")
       \/ db.mapping = Unmapped /\ Exit(p) /\ UNCHANGED <<db, faults>>
       \/ Fault /\ Step(p, "baseline") /\ UNCHANGED db
    /\ UNCHANGED <<dirs, folder, hand, outdated, disturbed, acts>> /\ Keep

\* reconcile::initial: the files of both sides become rows of the mapping; without
\* the mapping row the foreign key refuses them.  InitialPass has the details.
Initial(p) ==
    /\ pc[p] = "initial"
    /\ \/ /\ db.mapping # Unmapped /\ UNCHANGED faults
          /\ db' = [db EXCEPT !.rows = @ \cup {Pair(hand[p])}] /\ Step(p, "baseline")
       \/ db.mapping = Unmapped /\ Exit(p) /\ UNCHANGED <<db, faults>>
       \/ Fails(p) /\ UNCHANGED db
    /\ UNCHANGED <<dirs, folder, hand, outdated, disturbed, acts>> /\ Keep

\* Its last step asks for a start token and sets the cursor.
Baseline(p) ==
    /\ pc[p] = "baseline"
    /\ \/ /\ db.mapping # Unmapped /\ UNCHANGED faults
          /\ db' = [db EXCEPT !.cursor = TRUE] /\ Step(p, "check")
       \/ db.mapping = Unmapped /\ Exit(p) /\ UNCHANGED <<db, faults>>
       \/ Fails(p) /\ UNCHANGED db
    /\ UNCHANGED <<dirs, folder, hand, outdated, disturbed, acts>> /\ Keep

\* Step 6: no cursor, no loop.
Check(p) ==
    /\ pc[p] = "check"
    /\ \/ db.cursor /\ Step(p, "watch")
       \/ ~db.cursor /\ Exit(p)
    /\ UNCHANGED provVars /\ Keep

ProvisionStep(p) ==
    \/ LinkAccount(p) \/ LinkUnblocks(p) \/ Clear(p)
    \/ LocalDir(p) \/ Resolve(p) \/ Create(p) \/ Record(p)
    \/ Load(p) \/ Gate(p) \/ ProbeRoot(p) \/ Save(p)
    \/ BuildEngine(p) \/ Initial(p) \/ Baseline(p) \/ Check(p)

-----------------------------------------------------------------------------
\* The user throws a directory or a Drive folder away.
ThrowAway ==
    /\ acts > 0 /\ acts' = acts - 1
    /\ \/ \E l \in dirs : dirs' = dirs \ {l} /\ UNCHANGED folder
       \/ \E i \in Ids : /\ folder[i].state = "live" /\ UNCHANGED dirs
                         /\ folder' = [folder EXCEPT ![i].state = "trashed"]
    /\ UNCHANGED <<db, hand, outdated, disturbed, faults>> /\ UNCHANGED lockVars
=============================================================================
