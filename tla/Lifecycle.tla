------------------------------ MODULE Lifecycle ------------------------------
(***************************************************************************)
(* The commands, the daemon and the overlay together: a sequence of        *)
(* invocations, each made when the one before it has been made and all of  *)
(* them running side by side, on a state directory that is new or that a   *)
(* daemon has used before.                                                 *)
(***************************************************************************)
EXTENDS Overlay

CONSTANTS
    Scripts,    \* [commands, state, what, acts, faults, changes]: the commands in order, on a
                \* directory in one of three states, what is looked at, and the bounds
    Targets     \* what map may be asked for: [local, spec]

Commands == {"link", "map", "unlink", "start", "status", "stop", "pause", "resume"}

ASSUME LifecycleAssumption ==
    /\ \A s \in Scripts : s.commands \in Seq(Commands)
    /\ Targets \subseteq [local : Locals, spec : Specs]

vars == <<lockVars, provVars, daemonVars, overlayVars>>

First(c) == CASE c \in {"start", "status", "unlink"} -> "lock"
              [] c = "stop" -> "probe"
              [] c = "link" -> "about"
              [] c = "map"  -> "dir"
              [] c \in {"pause", "resume"} -> "connect"

InHand(t) == [local |-> t.local, spec |-> t.spec, root |-> 0, first |-> FALSE]

\* The state directory is "new", or some target was "mapped" to Drive's first folder,
\* or "synced" with it as well.  A URL has its folder in any case.
Tables(s, t) ==
    IF s = "new" THEN Empty
    ELSE [account |-> TRUE, mapping |-> [local |-> t.local, root |-> 1, spec |-> t.spec],
          cursor |-> s = "synced", blocked |-> "none",
          rows |-> IF s = "synced" THEN {[local |-> t.local, root |-> 1]} ELSE {}]
FolderOf(spec) == [spec |-> spec, state |-> "live"]
NoFolder == [spec |-> Unmapped, state |-> "none"]

Init ==
    \E s \in Scripts, t \in Targets :
        /\ command = [p \in Procs |-> IF p > Len(s.commands) THEN "none" ELSE s.commands[p]]
        /\ pc = [p \in Procs |-> "idle"] /\ found = [p \in Procs |-> 0]
        /\ holder = 0 /\ pidFile = 0
        /\ db = Tables(s.state, t)
        /\ dirs = IF s.state = "new" THEN {} ELSE {t.local}
        /\ folder = [i \in Ids |-> IF i = 1 /\ (s.state # "new" \/ t.spec \in Urls)
                                   THEN FolderOf(t.spec) ELSE NoFolder]
        /\ hand \in [Procs -> {InHand(u) : u \in {v \in Targets : v.spec \in Paths \cup {t.spec}}}]
        /\ \A p \in Procs : command[p] # "map" => hand[p] = InHand(t)
        /\ outdated = FALSE /\ disturbed = {} /\ acts = s.acts /\ faults = s.faults
        /\ task = [p \in Procs |-> Off] /\ path = 0 /\ seen = [p \in Procs |-> 0]
        /\ what = s.what /\ item = "synced" /\ queued = FALSE /\ conflict = FALSE
        /\ changes = s.changes /\ owed = {} /\ view = Idle /\ missed = FALSE

\* A command is given; what runs is remembered.
Launch(p) ==
    /\ command[p] # "none" /\ pc[p] = "idle" /\ \A q \in Procs : q < p => pc[q] # "idle"
    /\ Go(p, First(command[p]))
    /\ \E q \in Procs \cup {0} :
           /\ IF q = 0 THEN \A r \in Procs : ~Serving(r) ELSE Serving(q)
           /\ seen' = [seen EXCEPT ![p] = q]
    /\ UNCHANGED <<command, holder, pidFile, found, provVars, task, path>>

DaemonWork(p) == DaemonStep(p) /\ BlockMissed

\* Steps a process takes by itself.
Work(p) ==
    \/ LockStep(p) /\ UNCHANGED <<provVars, daemonVars, overlayVars>>
    \/ ProvisionStep(p) /\ BlockMissed /\ UNCHANGED daemonVars
    \/ DaemonWork(p)
    \/ ClientStep(p) /\ UNCHANGED overlayVars

\* Work that comes from outside or lasts as long as it pleases.
Busy(p) ==
    \/ (PollStarts(p) \/ Advances(p) \/ DrainStarts(p)) /\ UNCHANGED overlayVars
    \/ Drained(p)

World ==
    \/ \E p \in Procs : (Launch(p) \/ Interrupt(p) \/ Killed(p)) /\ UNCHANGED overlayVars
    \/ ThrowAway /\ UNCHANGED <<daemonVars, overlayVars>>

Next == (\E p \in Procs : Work(p) \/ Busy(p)) \/ OverlayStep \/ World

Spec     == Init /\ [][Next]_vars
FairSpec == Spec /\ \A p \in Procs : WF_vars(DaemonWork(p))

-----------------------------------------------------------------------------
Tasks == [armed : BOOLEAN, cancel : BOOLEAN, paused : BOOLEAN,
          ctl : {"off", "unbind", "bind", "up", "close", "gone"},
          poll : {"off", "idle", "busy", "ended"},
          disp : {"off", "idle", "busy", "ended", "late"}]

(* Every variable has its type; a process that has the lock runs, a pid in the
   lock file is one that ran, and tasks are those of a daemon that has not ended:
   lock.rs:36-72, daemon/mod.rs:70-329. *)
TypeOK ==
    /\ holder \in Procs \cup {0} /\ pidFile \in Procs \cup {0}
    /\ holder # 0 => Alive(holder)
    /\ pidFile # 0 => pc[pidFile] # "idle"
    /\ task \in [Procs -> Tasks] /\ path \in Procs \cup {0}
    /\ \A p \in Procs : task[p] # Off => pc[p] \in Loop \cup {"runtime"}
    /\ db.account \in BOOLEAN /\ db.cursor \in BOOLEAN /\ db.rows \subseteq Pairs
    /\ db.blocked \in {"none", "transient", "auth"}
    /\ db.mapping # Unmapped => db.account /\ Pair(db.mapping) \in Pairs
    /\ db.cursor => db.mapping # Unmapped
    /\ \A i \in Ids : folder[i].state \in {"none", "live", "trashed"}

Working(p) == task[p].poll \in {"idle", "busy"} \/ task[p].disp \in {"idle", "busy"}

(* At most one daemon has tasks that read or write, except for a dispatcher that
   was aborted at the time limit: the lock outlives them all, through every kind of
   end (lock.rs:36-72, daemon/mod.rs:305-328, start.rs:46-54). *)
OneDaemon ==
    \A p, q \in Procs : p # q /\ Working(p) => ~Working(q) /\ q \notin Started

(* The socket path leads to the daemon that listens: no predecessor takes it away
   from its successor, and what a crash left behind is replaced (pause.rs:105-150:
   "We hold the single-instance flock ... any file we find is stale"). *)
SocketIsTheDaemons == \A p \in Procs : task[p].ctl = "up" => path = p

(* A stop, a status, a pause or a resume given while a daemon serves, and over
   before it ends, has found that daemon: neither the stale pid of another nor the
   moment in which the lock file is empty comes between (lock.rs:84-101,
   stop.rs:21-34, status.rs:33-39, cli/pause.rs:19-38). *)
FindsTheDaemon ==
    \A p \in Procs :
        LET q == seen[p] IN
        pc[p] = "done" /\ q # 0
        => /\ command[p] \in {"stop", "status"} /\ pc[q] \in Loop => found[p] = q
           /\ command[p] \in {"pause", "resume"} /\ Serving(q) => found[p] = q

(* A daemon in its loop has behind it an initial pass of the pair it serves: nothing
   but the cursor says so, and the cursor comes and goes with the mapping, unless map
   or the recreation of the folder wrote over a mapping that had one (start.rs:69-77,
   145-155, unlink.rs:33-43). *)
LoopIsReconciled ==
    \A d \in Procs : pc[d] \in Loop /\ ~outdated => Pair(hand[d]) \in db.rows

(* The daemon serves what the mapping row says, also when it has made the folder
   again, unless map or unlink ran beside it (start.rs:108, 382-390). *)
ServesTheMapping ==
    \A d \in Procs : pc[d] \in Loop /\ d \notin disturbed
        => db.mapping # Unmapped /\ Pair(db.mapping) = Pair(hand[d])

(* An emblem that is wrong is about to be asked for again, unless a change found no
   stream to tell or was not announced: no coalescing, no line and no cache hides the
   last change (pause.rs:177-197, air-drive-overlay.py:291-331). *)
EmblemsCatchUp ==
    view.shown \notin {Blank, Token}
    => \/ missed \/ owed # {}
       \/ view.pulse \/ view.writing \/ view.line \/ view.due

(* A daemon told to end does end, however long its transfer takes and whatever its
   poller is at (daemon/mod.rs:295-328). *)
ShutdownEnds == []<>(\A p \in Procs : task[p].cancel => pc[p] \in Over)

(* "On the first start of a mapping (the Drive change cursor is empty), the daemon
   performs the initial reconciliation pass automatically" (docs/user/cli.md:63):
   violated, since the cursor of another mapping is kept (mapping.rs:59-64). *)
FirstStartReconciles ==
    \A d \in Procs : pc[d] \in Loop => Pair(hand[d]) \in db.rows
=============================================================================
