----------------------------- MODULE LocalEvents -----------------------------
(***************************************************************************)
(* From a user's edit to an operation (watch/mod.rs, watch/debounce.rs,    *)
(* daemon/mod.rs step 3): inotify's queue, the notify callback that pairs  *)
(* the halves of renames, the reaper of halves that stay alone, a bounded  *)
(* channel that drops what does not fit, the debouncer's map, its flush in *)
(* the map's arbitrary order, and the reconciler.                          *)
(*                                                                         *)
(* What the reconciler makes of an event is reduced to `shown`: what Drive *)
(* will hold at a path, taking the file as it is when the event is applied.*)
(* forward_channel only adds room to the channel.  Folders are created and *)
(* moved in, never renamed or removed, and there is one level of them.     *)
(***************************************************************************)
EXTENDS Naturals, Sequences, SequencesExt, Queues

CONSTANTS
    Files, Folders, Root, Parent,   \* paths; the folder of a path
    Ignored,                        \* files whose name matches watch.ignore_patterns
    Capacity,                       \* of the watcher's channel (1024 in the code)
    MaxEdits,                       \* bound on the number of edits
    Careful                         \* do users leave renamed files alone for a while?

Paths == Files \cup Folders

ASSUME LocalEventsAssumption ==
    /\ Files \cap Folders = {} /\ Parent \in [Paths -> Folders \cup {Root}] /\ Root \notin Paths
    /\ \A f \in Folders : Parent[f] = Root
    /\ Ignored \subseteq Files /\ Capacity \in Nat \ {0} /\ MaxEdits \in Nat /\ Careful \in BOOLEAN

VARIABLES
    tree,       \* path -> 0 (absent) or the number of the edit that made its content
    edits,      \* edits so far
    watched,    \* folders with an inotify watch
    inotify,    \* queue of raw events
    halves,     \* From halves without their To, by cookie
    aged,       \* cookies of halves older than RENAME_CORRELATION_TTL
    reaped,     \* what the reaper has drained and not sent
    channel,    \* the watcher's channel
    dropped,    \* did an event not fit?
    settling,   \* the debouncer's map, oldest deadline first
    flushing,   \* the batch of due events being forwarded
    forwarded,  \* the debounced channel
    shown       \* what Drive will hold, as `tree`

world     == <<tree, edits, inotify>>
watcher   == <<watched, halves, aged, reaped, channel, dropped>>
debounce  == <<settling, flushing, forwarded>>
watchVars == <<world, watcher, debounce, shown>>

Made(x)       == [kind |-> "made", path |-> x, from |-> x]
Gone(x)       == [kind |-> "gone", path |-> x, from |-> x]
Renamed(x, y) == [kind |-> "renamed", path |-> y, from |-> x]
Half(which, x, cookie) == [kind |-> which, path |-> x, cookie |-> cookie]
Event == [kind : {"made", "gone", "renamed"}, path : Paths, from : Paths]

WatchInit ==
    /\ tree = [x \in Paths |-> 0] /\ shown = tree
    /\ edits = 0 /\ dropped = FALSE
    /\ watched = {Root} /\ halves = {} /\ aged = {}
    /\ inotify = <<>> /\ reaped = <<>> /\ channel = <<>>
    /\ settling = <<>> /\ flushing = {} /\ forwarded = <<>>

-----------------------------------------------------------------------------
\* Users and the kernel.  A cookie is the number of the edit.

Queued == ToSet(channel) \cup ToSet(settling) \cup flushing \cup ToSet(forwarded)

\* Is an event of the path under way?  Is it one half of a rename, or its pair?
Awaited(x) ==
    \/ \E e \in ToSet(inotify) \cup halves \cup Queued : e.path = x
    \/ x \in ToSet(reaped)
Moving(x) ==
    \/ \E e \in ToSet(inotify) \cup halves : e.kind \in {"from", "to"} /\ e.path = x
    \/ x \in ToSet(reaped)
    \/ \E e \in Queued : e.kind = "renamed" /\ x \in {e.path, e.from}

Free(x)    == Careful => ~Moving(x)
Resting(x) == Careful => ~Moving(x) /\ ~Awaited(x)

Exists(x)  == tree[x] # 0
Reports(x) == Parent[x] \in watched

Do(newTree, raw) ==
    /\ edits < MaxEdits /\ edits' = edits + 1
    /\ tree' = newTree
    /\ inotify' = inotify \o raw
    /\ UNCHANGED <<watcher, debounce, shown>>

If(reported, e) == IF reported THEN <<e>> ELSE <<>>

Write(x) ==
    /\ Free(x)
    /\ Parent[x] # Root => Exists(Parent[x])
    /\ x \in Folders => ~Exists(x)
    /\ Do([tree EXCEPT ![x] = edits + 1], If(Reports(x), Made(x)))

Unlink(x) ==
    /\ x \in Files /\ Free(x) /\ Exists(x)
    /\ Do([tree EXCEPT ![x] = 0], If(Reports(x), Gone(x)))

\* mv across the border of the watched folder; a folder comes with its files.
MoveIn(x) ==
    /\ Resting(x) /\ Parent[x] = Root /\ ~Exists(x)
    /\ \E with \in SUBSET {y \in Files : Parent[y] = x} :
         Do([y \in Paths |-> IF y \in {x} \cup with THEN edits + 1 ELSE tree[y]],
              <<Half("to", x, edits + 1)>>)

MoveOut(x) ==
    /\ x \in Files /\ Resting(x) /\ Exists(x) /\ Reports(x)
    /\ Do([tree EXCEPT ![x] = 0], <<Half("from", x, edits + 1)>>)

Rename(x, y) ==
    /\ {x, y} \subseteq Files /\ x # y /\ Resting(x) /\ Resting(y)
    /\ Careful => y \notin Ignored \/ x \in Ignored
    /\ Exists(x) /\ Reports(x) /\ Reports(y)
    /\ Do([tree EXCEPT ![x] = 0, ![y] = tree[x]],
            <<Half("from", x, edits + 1), Half("to", y, edits + 1)>>)

-----------------------------------------------------------------------------
\* The notify callback.  The map is locked for each raw event, and what comes of it is
\* sent without waiting.

Accepted(x) == x \notin Ignored

\* Mutant: a channel without a bound.
TrySendAll(events) == channel' = channel \o events /\ UNCHANGED dropped

TrySend(events) ==
    LET room == Capacity - Len(channel) IN
    /\ channel' = channel \o SubSeq(events, 1, IF Len(events) < room THEN Len(events) ELSE room)
    /\ dropped' = (dropped \/ Len(events) > room)

Stale    == {h \in halves : h.cookie \in aged}
Told(hs) == SetToSeq({Gone(h.path) : h \in hs})

Deliver ==
    /\ inotify # <<>>
    /\ LET e == Head(inotify) IN
         /\ \/ e.kind \in {"made", "gone"}
               /\ TrySend(If(Accepted(e.path), e))
               /\ UNCHANGED <<halves, aged>>
            \/ e.kind = "from"
               /\ TrySend(Told(Stale))
               /\ halves' = (halves \ Stale) \cup (IF Accepted(e.path) THEN {e} ELSE {})
               /\ aged' = {}
            \/ e.kind = "to"
               /\ LET fresh == {h \in halves \ Stale : h.cookie = e.cookie}
                      own == IF ~Accepted(e.path) THEN <<>>
                             ELSE IF fresh = {} THEN <<Made(e.path)>>
                             ELSE <<Renamed((CHOOSE h \in fresh : TRUE).path, e.path)>> IN
                    /\ TrySend(Told(Stale) \o own)
                    /\ halves' = (halves \ Stale) \ fresh
                    /\ aged' = {}
         /\ watched' = IF e.path \in Folders THEN watched \cup {e.path} ELSE watched
    /\ inotify' = Tail(inotify)
    /\ UNCHANGED <<tree, edits, reaped, debounce, shown>>

Age(h) ==
    /\ h \in halves
    /\ aged' = aged \cup {h.cookie}
    /\ UNCHANGED <<world, watched, halves, reaped, channel, dropped, debounce, shown>>

\* Mutant: only the next event looks at the halves.
ReapOnEvent ==
    /\ reaped = <<>> /\ Stale # {} /\ inotify # <<>>
    /\ reaped' = SetToSeq({h.path : h \in Stale})
    /\ halves' = halves \ Stale /\ aged' = {}
    /\ UNCHANGED <<world, watched, channel, dropped, debounce, shown>>

Reap ==
    /\ reaped = <<>> /\ Stale # {}
    /\ reaped' = SetToSeq({h.path : h \in Stale})
    /\ halves' = halves \ Stale /\ aged' = {}
    /\ UNCHANGED <<world, watched, channel, dropped, debounce, shown>>

\* The reaper waits for room.
SendReaped ==
    /\ reaped # <<>> /\ Len(channel) < Capacity
    /\ channel' = Append(channel, Gone(Head(reaped)))
    /\ reaped' = Tail(reaped)
    /\ UNCHANGED <<world, watched, halves, aged, dropped, debounce, shown>>

-----------------------------------------------------------------------------
\* The debouncer: an event replaces the one of its key and waits for its window.

Key(e) == e.path

Receive ==
    /\ channel # <<>> /\ flushing = {}
    /\ LET e == Head(channel)
           others == {f \in ToSet(settling) : Key(f) # Key(e)} IN
         settling' = Append(Only(settling, others), e)
    /\ channel' = Tail(channel)
    /\ UNCHANGED <<world, watched, halves, aged, reaped, dropped, flushing, forwarded, shown>>

\* The sleep ends: every entry whose deadline has passed is due.
Flush(n) ==
    /\ flushing = {} /\ n \in DOMAIN settling
    /\ flushing' = {settling[i] : i \in 1..n}
    /\ settling' = SubSeq(settling, n + 1, Len(settling))
    /\ UNCHANGED <<world, watcher, forwarded, shown>>

Forward(e) ==
    /\ e \in flushing
    /\ flushing' = flushing \ {e}
    /\ forwarded' = Append(forwarded, e)
    /\ UNCHANGED <<world, watcher, settling, shown>>

-----------------------------------------------------------------------------
\* The reconciler.

Tracked(x) == shown[x] # 0

\* Mutant: a new folder is not walked.
OnMadeAlone(x) == [y \in Paths |-> IF Exists(y) /\ y = x THEN tree[y] ELSE shown[y]]

\* A folder is walked: what its own watch came too late for is in it.
Walked(x) == {y \in Paths : x \in Folders /\ Exists(x) /\ Parent[y] = x}
OnMade(x) == [y \in Paths |-> IF Exists(y) /\ y \in {x} \cup Walked(x) THEN tree[y] ELSE shown[y]]

Apply ==
    /\ forwarded # <<>>
    /\ LET e == Head(forwarded) IN
         shown' = CASE e.kind = "made" \/ (e.kind = "renamed" /\ ~Tracked(e.from)) -> OnMade(e.path)
                    [] e.kind = "gone" -> [shown EXCEPT ![e.path] = 0]
                    [] OTHER -> [shown EXCEPT ![e.path] = shown[e.from], ![e.from] = 0]
    /\ forwarded' = Tail(forwarded)
    /\ UNCHANGED <<world, watcher, settling, flushing>>

UserStep ==
    \E x \in Paths : Write(x) \/ Unlink(x) \/ MoveIn(x) \/ MoveOut(x) \/ \E y \in Paths : Rename(x, y)

DaemonStep ==
    \/ Deliver \/ Reap \/ SendReaped \/ Receive \/ Apply
    \/ \E h \in halves : Age(h)
    \/ \E n \in DOMAIN settling : Flush(n)
    \/ \E e \in flushing : Forward(e)

WatchNext == UserStep \/ DaemonStep

WatchSpec     == WatchInit /\ [][WatchNext]_watchVars
FairWatchSpec ==
    /\ WatchSpec
    /\ WF_watchVars(Deliver) /\ WF_watchVars(\E h \in halves : Age(h)) /\ WF_watchVars(Reap)
    /\ WF_watchVars(SendReaped) /\ WF_watchVars(Receive) /\ WF_watchVars(Apply)
    /\ WF_watchVars(\E n \in DOMAIN settling : Flush(n))
    /\ WF_watchVars(\E e \in flushing : Forward(e))

-----------------------------------------------------------------------------
\* The types of the variables; the channel within its capacity, one settling event per key.
WatchTypeOK ==
    /\ tree \in [Paths -> 0..MaxEdits] /\ shown \in [Paths -> 0..MaxEdits]
    /\ edits \in 0..MaxEdits /\ dropped \in BOOLEAN
    /\ watched \subseteq Folders \cup {Root} /\ aged \subseteq {h.cookie : h \in halves}
    /\ halves \subseteq [kind : {"from"}, path : Files \ Ignored, cookie : 1..MaxEdits]
    /\ reaped \in Seq(Files) /\ channel \in Seq(Event) /\ Len(channel) <= Capacity
    /\ ToSet(settling) \cup flushing \cup ToSet(forwarded) \subseteq Event
    /\ \A i, j \in DOMAIN settling : Key(settling[i]) = Key(settling[j]) => i = j

AtRest == inotify = <<>> /\ halves = {} /\ reaped = <<>> /\ Queued = {}

\* When everything has run through, Drive mirrors the tree: bursts of edits of a path,
\* late halves of renames, folders filled before their watch, the flush in any order.
\* (Unless an event did not fit into the channel.)
Mirrored == \A x \in Paths : shown[x] = IF x \in Ignored THEN 0 ELSE tree[x]
RestMeansMirrored == AtRest /\ ~dropped => Mirrored

\* An ignored file never reaches Drive: so the documentation of watch.ignore_patterns.  True
\* of files at the root; the walk of a new folder does not ask for the patterns.
IgnoredStayLocal == \A x \in Ignored : shown[x] = 0

\* A half that stays alone is told in the end, and nothing else is left lying.
ComesToRest == <>[]AtRest
=============================================================================
