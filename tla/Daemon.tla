------------------------------- MODULE Daemon -------------------------------
(***************************************************************************)
(* The daemon as a process (daemon/mod.rs, daemon/pause.rs): its tasks,    *)
(* the signal that cancels them, the order in which they are waited for,   *)
(* and the control socket, a path that leads to whichever process bound    *)
(* it last, dead or alive.  pause, resume and stop come from outside.      *)
(*                                                                         *)
(* What the tasks do to files and rows is in the other modules; here they  *)
(* are busy or idle.  A transfer may take as long as it likes.             *)
(***************************************************************************)
EXTENDS Provision

VARIABLES
    task,       \* per process: [armed, cancel, ctl, poll, disp, paused]
    path,       \* whose listener the socket path leads to, 0 if there is no such file
    seen        \* ghost: the daemon that served when a command was given, 0 if none

daemonVars == <<task, path, seen>>

Off   == [armed |-> FALSE, cancel |-> FALSE, ctl |-> "off", poll |-> "off",
          disp |-> "off", paused |-> FALSE]
Fresh == [Off EXCEPT !.ctl = "unbind", !.poll = "idle", !.disp = "idle"]

Loop == {"signal", "join", "drain", "control", "drop"}
Listening(q) == task[q].ctl \in {"up", "close"}
Serving(q)   == pc[q] = "signal" /\ task[q].armed /\ task[q].ctl = "up" /\ ~task[q].cancel
Answering(q) == task[q].ctl = "up" /\ ~task[q].cancel

Put(p, f, v) == task' = [task EXCEPT ![p][f] = v]
Calm == UNCHANGED <<lockVars, provVars>>
Still == UNCHANGED <<path, seen>>

-----------------------------------------------------------------------------
\* run up to the spawns: the watcher may fail to start; the startup scan, which has a
\* module of its own, is left out on the first start, and its errors are logged.
Spawn(p) == Step(p, "signal") /\ task' = [task EXCEPT ![p] = Fresh]

Watch(p) ==
    /\ pc[p] = "watch"
    /\ \/ hand[p].first /\ Spawn(p) /\ UNCHANGED faults
       \/ ~hand[p].first /\ Step(p, "scan") /\ UNCHANGED <<task, faults>>
       \/ Fails(p) /\ UNCHANGED task
    /\ UNCHANGED <<db, dirs, folder, hand, outdated, disturbed, acts>> /\ Keep /\ Still

Scan(p) ==
    /\ pc[p] = "scan"
    /\ Spawn(p)
    /\ UNCHANGED provVars /\ Keep /\ Still

\* wait_for_shutdown_signal: from here on signals no longer kill the process.  If the
\* handler cannot be installed the task returns, which cancels everything.
Arm(p) ==
    /\ pc[p] = "signal" /\ ~task[p].armed /\ ~task[p].cancel
    /\ \/ Put(p, "armed", TRUE) /\ UNCHANGED faults
       \/ Fault /\ Put(p, "cancel", TRUE)
    /\ UNCHANGED <<lockVars, db, dirs, folder, hand, outdated, disturbed, acts>> /\ Still

\* run_control_server: remove what is there, bind, accept until cancelled, remove.  If
\* it cannot bind, the daemon goes on without a socket.
Unbind(p) ==
    /\ task[p].ctl = "unbind"
    /\ path' = 0 /\ Put(p, "ctl", "bind")
    /\ Calm /\ UNCHANGED seen

Bind(p) ==
    /\ task[p].ctl = "bind"
    /\ \/ /\ path = 0
          /\ path' = p /\ Put(p, "ctl", "up") /\ UNCHANGED faults
       \/ /\ path # 0 \/ faults > 0
          /\ faults' = IF path = 0 THEN faults - 1 ELSE faults
          /\ Put(p, "ctl", "gone") /\ UNCHANGED path
    /\ UNCHANGED <<lockVars, db, dirs, folder, hand, outdated, disturbed, acts, seen>>

StopsAccepting(p) ==
    /\ task[p].ctl = "up" /\ task[p].cancel
    /\ Put(p, "ctl", "close")
    /\ Calm /\ Still

Unlinks(p) ==
    /\ task[p].ctl = "close"
    /\ path' = 0 /\ Put(p, "ctl", "gone")
    /\ Calm /\ UNCHANGED seen

\* The poller looks at the token between ticks only; a tick is as long as its
\* requests, which time out.  It sets the blocked flag, and clears a transient one.
PollStarts(p) ==
    /\ task[p].poll = "idle" /\ ~task[p].cancel
    /\ Put(p, "poll", "busy")
    /\ Calm /\ Still

Terminal == {"auth"}
PollEnds(p) ==
    /\ task[p].poll = "busy"
    /\ Put(p, "poll", "idle")
    /\ \/ db' = [db EXCEPT !.blocked = IF @ = "transient" THEN "none" ELSE @] /\ UNCHANGED faults
       \/ Fault /\ \E b \in {"transient", "auth"} : db' = [db EXCEPT !.blocked = b]
    /\ UNCHANGED <<lockVars, dirs, folder, hand, outdated, disturbed, acts>> /\ Still

PollReturns(p) ==
    /\ task[p].poll = "idle" /\ task[p].cancel
    /\ Put(p, "poll", "ended")
    /\ Calm /\ Still

\* The consumer persists a token for the mapping that is there now.
Advances(p) ==
    /\ pc[p] = "signal" /\ ~task[p].cancel /\ db.mapping # Unmapped /\ ~db.cursor
    /\ db' = [db EXCEPT !.cursor = TRUE]
    /\ UNCHANGED <<lockVars, dirs, folder, hand, outdated, disturbed, acts, faults, task>> /\ Still

\* The dispatcher drains the queue unless cancelled, paused or blocked for good, and
\* looks at none of these before it has drained it.
DrainStarts(p) ==
    /\ task[p].disp = "idle" /\ ~task[p].cancel /\ ~task[p].paused /\ db.blocked \notin Terminal
    /\ Put(p, "disp", "busy")
    /\ Calm /\ Still

DrainEnds(p) ==
    /\ task[p].disp = "busy"
    /\ Put(p, "disp", "idle")
    /\ Calm /\ Still

DispReturns(p) ==
    /\ task[p].disp = "idle" /\ task[p].cancel
    /\ Put(p, "disp", "ended")
    /\ Calm /\ Still

-----------------------------------------------------------------------------
\* The end of run: the signal task, the forwarder, the debouncer and the two
\* reconcilers, which end at their next event, the poller; then the dispatcher.
Join(p) ==
    /\ \/ pc[p] = "signal" /\ task[p].cancel /\ Step(p, "join")
       \/ pc[p] = "join" /\ task[p].poll = "ended" /\ Step(p, "drain")
       \/ pc[p] = "drain" /\ task[p].disp = "ended" /\ Step(p, "control")
    /\ UNCHANGED <<provVars, task>> /\ Keep /\ Still

\* Mutant: the dispatcher is waited for as long as it takes.
NoTimeout(p) == FALSE

\* Twenty seconds are over; the task is aborted at its next await.
Timeout(p) ==
    /\ pc[p] = "drain" /\ task[p].disp # "ended"
    /\ Put(p, "disp", "late") /\ Step(p, "control")
    /\ UNCHANGED provVars /\ Keep /\ Still

\* Mutant: the task of the control socket is not waited for.
ControlNotJoined(p) ==
    /\ pc[p] = "control"
    /\ Step(p, "drop")
    /\ UNCHANGED <<provVars, task>> /\ Keep /\ Still

ControlJoined(p) ==
    /\ pc[p] = "control" /\ task[p].ctl = "gone"
    /\ Step(p, "drop")
    /\ UNCHANGED <<provVars, task>> /\ Keep /\ Still

\* start returns and drops the lock; the runtime, with whatever still runs in it, is
\* dropped by main after that.
Drop(p) ==
    /\ pc[p] = "drop"
    /\ holder' = 0 /\ Go(p, "runtime")
    /\ UNCHANGED <<provVars, task>> /\ Keep /\ Still

RuntimeEnds(p) ==
    /\ pc[p] = "runtime"
    /\ Go(p, "done") /\ task' = [task EXCEPT ![p] = Off]
    /\ UNCHANGED <<provVars, holder>> /\ Keep /\ Still

DaemonStep(p) ==
    \/ Watch(p) \/ Scan(p) \/ Arm(p)
    \/ Unbind(p) \/ Bind(p) \/ StopsAccepting(p) \/ Unlinks(p)
    \/ PollEnds(p) \/ PollReturns(p) \/ DispReturns(p)
    \/ Join(p) \/ Timeout(p) \/ ControlJoined(p) \/ Drop(p) \/ RuntimeEnds(p)

-----------------------------------------------------------------------------
\* Signals.  Without a handler the default is to die, and the kernel cleans up.
Dies(q)   == Alive(q) /\ ~task[q].armed
Strike(q, pcs) ==
    /\ pc' = IF Dies(q) THEN [pcs EXCEPT ![q] = "dead"] ELSE pcs
    /\ holder' = IF Dies(q) /\ holder = q THEN 0 ELSE holder
    /\ task' = IF task[q].armed THEN [task EXCEPT ![q].cancel = TRUE]
               ELSE [task EXCEPT ![q] = Off]

\* stop signals the pid it has read, whoever that is by now.
StopKills(p) ==
    /\ pc[p] = "kill"
    /\ Strike(found[p], [pc EXCEPT ![p] = "done"])
    /\ UNCHANGED provVars /\ Keep /\ Still

\* Ctrl-C, or systemctl stop.
Interrupt(q) ==
    /\ command[q] = "start" /\ Alive(q) /\ acts > 0 /\ acts' = acts - 1
    /\ Strike(q, pc)
    /\ UNCHANGED <<db, dirs, folder, hand, outdated, disturbed, faults>> /\ Keep /\ Still

\* kill -9, an abort, a power cut.
Killed(q) ==
    /\ Alive(q) /\ Fault
    /\ Go(q, "dead") /\ holder' = IF holder = q THEN 0 ELSE holder
    /\ task' = [task EXCEPT ![q] = Off]
    /\ UNCHANGED <<db, dirs, folder, hand, outdated, disturbed, acts>> /\ Keep /\ Still

-----------------------------------------------------------------------------
\* pause and resume.  A path that is not there and a listener that is dead mean that
\* no daemon runs; a live listener queues the connection.
Connect(p) ==
    /\ pc[p] = "connect"
    /\ IF path # 0 /\ Listening(path) THEN Find(p, path) /\ Go(p, "wait")
       ELSE Go(p, "done") /\ UNCHANGED found
    /\ UNCHANGED <<provVars, task, command, holder, pidFile>> /\ Still

\* The connection is accepted, the flag is set and the answer is written by a task
\* of its own, which nobody waits for and the token does not stop.
Answered(p) ==
    /\ pc[p] = "wait" /\ Answering(found[p])
    /\ Put(found[p], "paused", command[p] = "pause")
    /\ Step(p, "done")
    /\ UNCHANGED provVars /\ Keep /\ Still

\* The listener is closed, with the connections in its queue: an empty reply.
HungUp(p) ==
    /\ pc[p] = "wait" /\ ~Listening(found[p])
    /\ Find(p, 0) /\ Go(p, "done")
    /\ UNCHANGED <<provVars, task, command, holder, pidFile>> /\ Still

ClientStep(p) == StopKills(p) \/ Connect(p) \/ Answered(p) \/ HungUp(p)
=============================================================================
