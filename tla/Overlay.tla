------------------------------- MODULE Overlay -------------------------------
(***************************************************************************)
(* The emblem a file manager shows: the state of the rows                  *)
(* (daemon/file_status.rs), the activity channel and the subscribe stream  *)
(* (daemon/pause.rs), and the extension that holds the stream, keeps a     *)
(* cache per directory and asks again when told (assets/nautilus).         *)
(*                                                                         *)
(* One thing is looked at: a file, with the state of its row, or the       *)
(* mapped folder, with a summary of the tables.  The channel carries no    *)
(* data and a lagging receiver still writes one line, so that it holds     *)
(* either nothing or something.                                            *)
(***************************************************************************)
EXTENDS Daemon

VARIABLES
    what,       \* "file", "root", or "off": nobody looks
    item,       \* the state of the file's row
    queued,     \* does an operation wait for the file?
    conflict,   \* is a conflict on record?
    changes,    \* events that may still be applied
    owed,       \* <<daemon, task>>: tables changed, activity not yet sent
    view,       \* the extension, its stream and the server's end of it
    missed      \* ghost: a change since the last answer that no stream was told of

overlayVars == <<what, item, queued, conflict, changes, owed, view, missed>>
tableVars   == <<item, queued, conflict, changes, what>>

Blank == "none"     \* no emblem, or nothing cached
Idle  == [link |-> "down", peer |-> 0, pulse |-> FALSE, writing |-> FALSE, line |-> FALSE,
          due |-> FALSE, cache |-> Blank, shown |-> Blank]

\* status_token for a file, aggregate_token for the mapped folder.
RootToken ==
    IF conflict \/ db.blocked = "auth" THEN "conflict"
    ELSE IF db.blocked = "transient" \/ queued THEN "pending" ELSE "synced"
Token == IF what = "root" THEN RootToken ELSE item

Told(q) == view.link = "open" /\ view.peer = q
View(f, v) == view' = [view EXCEPT ![f] = v]
Rest == UNCHANGED <<lockVars, provVars, daemonVars>>

-----------------------------------------------------------------------------
\* apply_local and apply_remote queue an operation, or open a conflict.  One that
\* fails may have written its row, and sends nothing.
Apply(q) ==
    /\ what # "off" /\ pc[q] = "signal" /\ ~task[q].cancel
    /\ changes > 0 /\ changes' = changes - 1
    /\ item' = "pending" /\ queued' = TRUE
    /\ \/ conflict' \in {conflict, TRUE} /\ owed' = owed \cup {<<q, "apply">>}
          /\ UNCHANGED <<missed, faults>>
       \/ Fault /\ missed' = TRUE /\ UNCHANGED <<conflict, owed>>
    /\ UNCHANGED <<lockVars, daemonVars, view, what>>
    /\ UNCHANGED <<db, dirs, folder, hand, outdated, disturbed, acts>>

\* An operation succeeds: row, block and operation, and the drain has done work.
Execute(q) ==
    /\ task[q].disp = "busy" /\ queued
    /\ item' = "synced" /\ queued' = FALSE
    /\ db' = [db EXCEPT !.blocked = IF @ = "transient" THEN "none" ELSE @]
    /\ owed' = owed \cup {<<q, "drain">>}
    /\ UNCHANGED <<lockVars, daemonVars, conflict, changes, what, view, missed>>
    /\ UNCHANGED <<dirs, folder, hand, outdated, disturbed, acts, faults>>

\* activity.send, which reaches the stream that is subscribed, if one is.
Pulse(q, kind) ==
    /\ owed' = owed \ {<<q, kind>>}
    /\ IF <<q, kind>> \notin owed THEN UNCHANGED <<view, missed>>
       ELSE IF Told(q) THEN View("pulse", TRUE) /\ UNCHANGED missed
       ELSE missed' = TRUE /\ UNCHANGED view
    /\ UNCHANGED tableVars

Applied(q) == <<q, "apply">> \in owed /\ Alive(q) /\ Pulse(q, "apply") /\ Rest
Drained(q) == DrainEnds(q) /\ Pulse(q, "drain")

\* The blocked flag changes without a pulse.
BlockMissed ==
    /\ missed' = (missed \/ (what = "root" /\ db'.blocked # db.blocked))
    /\ UNCHANGED <<tableVars, owed, view>>

-----------------------------------------------------------------------------
\* The stream: connect, subscribe, and for each pulse one line.
Attach ==
    /\ what # "off" /\ view.link = "down" /\ path # 0 /\ Listening(path)
    /\ view' = [view EXCEPT !.link = "sent", !.peer = path]
    /\ UNCHANGED <<tableVars, owed, missed>> /\ Rest

Subscribe ==
    /\ view.link = "sent" /\ Answering(view.peer)
    /\ View("link", "open")
    /\ UNCHANGED <<tableVars, owed, missed>> /\ Rest

\* Cancelled, or gone.  What was under way is lost, and the extension starts again
\* without asking for anything.
Detach ==
    /\ \/ view.link = "sent" /\ ~Listening(view.peer)
       \/ view.link = "open" /\ (task[view.peer].cancel \/ ~Alive(view.peer))
    /\ missed' = (missed \/ view.pulse \/ view.writing)
    /\ view' = [view EXCEPT !.link = "down", !.peer = 0, !.pulse = FALSE, !.writing = FALSE]
    /\ UNCHANGED <<tableVars, owed>> /\ Rest

Receive ==
    /\ view.pulse /\ ~view.writing
    /\ view' = [view EXCEPT !.pulse = FALSE, !.writing = TRUE]
    /\ UNCHANGED <<tableVars, owed, missed>> /\ Rest

Deliver ==
    /\ view.writing
    /\ view' = [view EXCEPT !.writing = FALSE, !.line = TRUE]
    /\ UNCHANGED <<tableVars, owed, missed>> /\ Rest

\* Mutant: the cache of the directory is left to expire.
RefreshKeepsCache ==
    /\ view.line
    /\ view' = [view EXCEPT !.line = FALSE, !.due = TRUE]
    /\ UNCHANGED <<tableVars, owed, missed>> /\ Rest

\* The subscriber thread reads the line, and the main one drops the cache and
\* invalidates every emblem.
Refresh ==
    /\ view.line
    /\ view' = [view EXCEPT !.line = FALSE, !.due = TRUE, !.cache = Blank]
    /\ UNCHANGED <<tableVars, owed, missed>> /\ Rest

\* The socket is there, and whoever listens answers.
Reachable == path # 0 /\ Answering(path)

\* update_file_info, for an invalidated file or because its folder is opened: from the
\* cache; or from the daemon, which is asked for the directory and, if it does not
\* answer in time, for the file alone; no answer, no emblem, and nothing is cached.
UpdateFileInfo ==
    /\ what # "off"
    /\ \/ /\ view.cache # Blank
          /\ view' = [view EXCEPT !.shown = view.cache, !.due = FALSE]
          /\ UNCHANGED <<missed, owed>>
       \/ /\ view.cache = Blank /\ Reachable
          /\ \E kept \in {Token, Blank} :
                 view' = [view EXCEPT !.shown = Token, !.cache = kept, !.due = FALSE]
          /\ missed' = FALSE /\ owed' = {o \in owed : Alive(o[1])}
       \/ /\ view.cache = Blank
          /\ view' = [view EXCEPT !.shown = Blank, !.due = FALSE]
          /\ UNCHANGED <<missed, owed>>
    /\ UNCHANGED tableVars /\ Rest

\* Two seconds pass.
Expire ==
    /\ view.cache # Blank /\ View("cache", Blank)
    /\ UNCHANGED <<tableVars, owed, missed>> /\ Rest

OverlayStep ==
    \/ \E q \in Procs : Apply(q) \/ Execute(q) \/ Applied(q)
    \/ Attach \/ Subscribe \/ Detach \/ Receive \/ Deliver
    \/ Refresh \/ UpdateFileInfo \/ Expire
=============================================================================
