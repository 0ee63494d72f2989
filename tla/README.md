# A verification project for air-drive

air-drive is a daemon that keeps one local directory and one Google Drive folder
in step. This directory holds TLA+ models of it, TLC configurations that check them
on small instances, and TLAPS proofs of some of the properties that matter most.
Paths such as `daemon/runtime.rs` are relative to `src/src/`.

## 1. Inventory

| Component | State | Operations | What makes it correct |
|---|---|---|---|
| Poller (`drive/changes.rs`) | loop position, pages fetched, path cache | tick, fetch pages, resolve paths, send batch | no change is skipped, the delta is drained to its last page, a change resolves to the path its file has |
| Consumer (`daemon/mod.rs`, step 5) and cursor (`state/cursor.rs`) | batch being applied, persisted token | receive, apply each change, persist token | the token never passes a change that was not dealt with |
| In-flight registry (`daemon/in_flight.rs`) | ids the dispatcher is writing | mark, contains, drop | the daemon's own writes do not come back as foreign changes |
| Operation queue (`state/ops.rs`) and dispatcher (`daemon/runtime.rs`) | `pending_operation` rows, loop position | enqueue, next_due, execute, mark_attempt, delete | nothing is lost, nothing is retried for ever, order of fresh operations |
| Blocked flag (`state/meta.rs`) | `blocked_kind` | set, clear, clear if transient | a terminal block stops the queue, a transient one heals |
| Continuous reconciliation (`reconcile/continuous.rs`, `reconcile/conflict.rs`) | `sync_item` rows, conflict records | apply_local, apply_remote, open_conflict | both sides converge, no edit is lost, no loop of echoes |
| Initial pass and startup scan (`reconcile/mod.rs`) | two walks, rows, baseline token | initial, startup_local_scan | two trees are merged without loss, however often the pass is interrupted; offline edits reach Drive |
| Watcher and debounce (`watch/`) | rename halves, pending events | convert, pair, reap, coalesce, forward | the events delivered describe the tree |
| Engine and staging (`engine/`) | staged partial files | upload, update, download, move, delete, promote, clean up | a file is either the old or the new version, and no content ends in another file |
| HTTP client (`drive/http.rs`, `drive/metadata.rs`) | token bucket, attempt | acquire, retry, list pages, create, trash | bounded retries, complete listings |
| Lock (`daemon/lock.rs`) | flock, pid file | acquire, release, who holds it | one daemon at a time, found by the commands that look for it |
| Life cycle and control socket (`daemon/mod.rs`, `daemon/pause.rs`) | tasks, cancellation token, pause flag, socket file | spawn, serve, pause, resume, signal, bounded shutdown | the socket leads to the daemon, a daemon told to end does |
| Commands (`cli/`) and state store (`state/`) | account, mapping, cursor: one row each | link, map, unlink, start, stop, status | the daemon serves what the mapping says, and an initial pass precedes its loop |
| Overlay (`daemon/file_status.rs`, `assets/nautilus/`) | activity channel, subscribe stream, cache of the extension | tell, coalesce, refresh, query | an emblem that is wrong is about to be asked for again |

They interact through four kinds of things: SQLite rows (written by the consumer, the
local reconciler, the dispatcher, the poller and other processes), bounded channels
(events and batches), shared memory (registry, pause flag, cancellation token, wake-up
permit) and the outside world (the local tree, Drive, the socket and lock files, all of
which others change at any time). Every `await` is a point where any other task, or a
crash, may come in between. The behaviours that are hard to test are listed under
`hazards` in `PROJECT.json`, each at its line with the properties about it.

## 2. Modules

| Module | Models | Role |
|---|---|---|
| `RemoteFeed` | what the remote half promises | abstract specification |
| `ChangeFeed` | poller, channel, consumer, registry, cursor, Drive's feed | component |
| `OpQueue` | what the queue promises | abstract specification |
| `Dispatcher` | dispatcher loop, operation rows, blocked flag, pause, shutdown | component |
| `FileSync` | local files, Drive, `sync_item`, `apply_local`, `apply_remote`, `execute` | reconcilers and dispatcher, for files |
| `FolderSync` | folders on Drive, path cache, `apply_remote`, directory moves | poller, reconciler and dispatcher, for folders |
| `LocalEvents` | inotify, rename pairing, reaper, channel, debouncer, local reconciler | component |
| `DriveClient` | one request: token bucket, attempts, answers | component |
| `Transfers` | what one operation does on Drive and on disk | extends `DriveClient` |
| `InitialPass` | the first pass over two trees | component |
| `StartupScan` | passes, scans and stops in sequence | extends `InitialPass` |
| `StartupProofs` | theorems on the first pass and the scans | extends `StartupScan` and `QueuesProofs` |
| `LockFile` | flock and pid file, the commands that probe them | component |
| `Provision` | account, mapping, cursor; link, map, unlink, the first half of start | extends `LockFile` |
| `Daemon` | tasks, signal, joins, control socket | extends `Provision` |
| `Overlay` | emblems, activity stream, extension | extends `Daemon` |
| `Lifecycle` | sequences of commands side by side | composes the four above |
| `Queues` | what is left of a queue when some rows go (`Only`) | helper, in a form that can be reasoned about |
| `QueuesProofs` | | lemmas on `Only` and other operators on sequences |
| `FileSyncProofs` | theorems on `FileSync` | extends `FileSync` and `QueuesProofs` |
| `FolderSyncProofs` | theorems on `FolderSync` | extends `FolderSync` and `QueuesProofs` |
| `LocalSideProofs` | theorems on `Dispatcher` and on `LocalEvents` | extends both, side by side, and `QueuesProofs` |
| `ChangeFeedProofs`, `LifecycleProofs`, `TransfersProofs` | | theorems |
| `MC...` | | small instances for TLC |

`FileSync`, `FolderSync` and `Transfers` look at the same operations from three sides:
between two trees of files, where what matters is the order of events, changes and
echoes; on a tree of folders, where it is how paths are resolved and rewritten; and
inside one operation, where it is the requests, the staging file and the rows.

### ChangeFeed

A position of Drive's feed stands for a page token, and the position of a file's
latest change for its snapshot (`changes.list` reports a file once, at its latest
change). The poller's position in its loop is `phase`: it reads the cursor
(`PollStart`), fetches page by page (`FetchPage`, `FetchLast`), resolves every
change (`Resolve`, `LookupFails`) and sends the batch (`PollSend`, which waits
while the channel is full). The consumer takes a batch, applies its changes one by
one and persists the token when all succeeded. A change to a page in between two
requests, a page error (which drops what was fetched), a failed cursor write, the
death of the poller task and a crash of the process are actions. The dispatcher
appears with the steps that matter here: it marks an id, writes to Drive, marks
the id of a new file afterwards, and drops the mark.

The path cache is reduced to three outcomes: in scope, out of scope, failed lookup
(`FolderSync` has the cache). The outcome of `apply_remote` is reduced to applied,
failed, or skipped by the gate. `applied`, `gated`, `filtered` are history variables
which remember what became of the latest snapshot of each file.

### Dispatcher

`pc` is the place in the loop of `runtime::run`. The rows of `pending_operation`
are held as `due` (the rows due now in the order of `ORDER BY next_attempt_at, id`),
`wait` (seconds until a row is due) and `parked` (rows with the far-future
`PARKED_FOREVER` time); `attempts` is the column. `Tick` is the passage of a second.
`Poll` is the effect of one tick of the poller on the blocked flag, `Link` is the
command that clears it from another process. Every SQLite call of the loop that can
fail has its own action (`ParkFails`, `MarkFails`, `DeleteFails`, ...), since the
code treats each differently: ignored, logged, or fatal for the task (`Dies`).
A shutdown waits 20 s and then aborts the task (`Abort`), wherever it stands.
`execute` is reduced to its outcomes except for the first upload of a file, whose
two halves, creating the Drive file and recording its id, are separate steps; what a
crash between them does to Drive is in `Transfers`. The operations belong to distinct
items. `tries`, `performed` and `held` are history variables of the properties.

### FileSync

`local` and `drive` are the two sides, `items` the `sync_item` rows, `events` what the
debouncer holds (the last event of each path), `feed` the ids whose change has not been
fetched, `change` the snapshot `apply_remote` is about to see. A content is a number and
stands for its fingerprint (size and md5).

* `ApplyLocal` is `apply_local` for one event. `ApplyRemote` is `apply_remote`, one
  disjunct per branch: gate, removed, trashed, restored, moved, nothing to pull,
  conflict, pulled, unknown file. Each reads and writes rows, and enqueues, in one step.
* `execute` takes three steps, because users and the other tasks act in between: `Begin`
  (row read, file hashed, id marked), `Act` (engine or file system: `Update`, `Create`,
  `Get`, `Trash`, `Unlink`, `MoveRemote`, `MoveLocal`), `Record` (rows written, mark
  dropped). A first upload marks its id in a step of its own (`Mark`).
* `Store` is the one way to write the tables: a row that goes takes its operations with
  it (`ON DELETE CASCADE`). `Repath` and `SavePath` are the two functions that change a
  path, which settle a collision in opposite ways.
* `Fails` is an operation that cannot succeed as things stand, `Breaks` one that fails
  although it could, before or after it took effect. Either goes to `later`, comes due
  again behind what was enqueued since (`ComesDue`), and is dropped from the model when
  its attempts are used up (the parked row is never selected again).

The feed is reduced to what `ChangeFeed` shows: the latest snapshot of each file arrives,
and may arrive twice (`Redeliver`). A first upload creates a file, as `HttpEngine` does;
`RcloneEngine` uploads with `copyto`, which replaces a file that has the name already
(`Transfers` has both). `overlaps` and `faults` count the user actions and re-deliveries
that find the daemon busy, and the failures; `kept` holds the contents no user has
replaced or thrown away.

### FolderSync

Drive is a tree of ids with names; a local path is a sequence of names. After a change of
a folder Drive may report the folder, what is below it, or both (`changed`); `Fetch` takes
snapshots, and `Resolved` is `resolve_path` with `descendant_path`: the cached prefix of a
parent, or a walk up to a known ancestor, and `Remember` is what the poller caches of the
folders it met. `Apply` is `apply_remote`: `NewObject`, `FolderMoved`, `FileMoved`,
`FileEdited`, and `Renamer`, which turns a child's new path into a rename of the folder it
is in. `Execute` makes a directory, downloads, or moves a tree, merging it into one that is
there already (`MoveTree`), and rewrites the rows below (`Rewrite`). Failed operations come
due again behind others (`DueAgain`). The history variables name the cases in which the
code diverges: `lost` (a look-up failed and the change was dropped), `masked` (a file's own
new name was dropped for its folder's), `behind` (a user moved something into a folder
whose own change was still under way, or a retry was overtaken), `stale` (an entry of the
cache was outdated when it was used).

### LocalEvents

`Deliver` is the notify callback: it pairs the halves of a rename by cookie, gives up
stale halves in passing, and tries to send, dropping what does not fit. `Reap` and
`SendReaped` are the reaper, which takes halves under the mutex and sends them afterwards.
`Receive`, `Flush` and `Forward` are the debouncer, which keeps the last event of each key
and flushes those due in any order. `Apply` is the local reconciler, reduced to `shown`,
what Drive will hold. A new folder gets its watch when its own event is delivered, so that
files put in it earlier have no events; `OnMade` walks it. `Careful` says that users leave
a renamed file alone until its events have been told.

### Transfers

An operation is at a place (`op.at`): a Drive request, a run of rclone or a local step.
Requests go through `DriveClient` (pacing, ready, answered or failed, again or given up).
Between any two steps users edit, rename, move, trash, delete or add files on Drive and
edit, move or delete them locally; the process may die (`Crash`) and start again (`Start`,
which clears the staging directory). `Setups` chooses the engine, how remote deletes are
done, and whether a file is the user's own. `ensure_remote_folder` appears with its listing
page by page. A run of rclone reads and writes by name, so that `Target` and `Spot` say
which file a name means at that moment. `UploadedOnce` is about uploads that are run again: the
process may die, or a step fail, between the run of rclone and the recording of the id, and
the file must still be on Drive once. Its ghost `strayed` notes that a user took such a file
from its place before its row knew it, moved its row to another path, acted on Drive amid
an operation, or put another file where rclone would look; with each of these TLC finds a
second copy. `RecordedReachedDrive` is about the step that
records a content: later, a user may have put an older file in its place on Drive, and
with three acts TLC finds how. Users do not move a file locally to a path that the row of
the other file, or the operation under way, gives it (`MovesLocally`): the operation
would take the one file for the other, as TLC shows with three acts. What becomes of a
file that takes the place of another is followed in `FileSync`.

### InitialPass and StartupScan

One path holds one entry on either side; `gen` counts the Drive files a path has had and
stands for the id. The phases follow `initial`: walk both trees, make folders, write
pointers of Google Docs, compare what both have, bulk-download, bulk-upload, walk Drive
again (whose listings may be late: `hidden`, `Index`), look up the rest, store the cursor.
`StartupScan` adds the scan of a later start, one step per entry, its writes of a row and
of an operation as two steps (`ScanNew`, `EnqueueNew`), the dispatcher and stops. Uploads
are those of rclone, which writes to the name. `Caught` says for every combination of what
a scan found in the tree, on Drive and in the row what is to become of the Drive file.

### LockFile, Provision, Daemon, Overlay, Lifecycle

An invocation of the program is a number, its pid; `pc` is where it is. `LockFile` splits
taking the flock, truncating the file and writing the pid. `Provision` splits link, map,
unlink and the first half of start at each request and each database call; `Daemon` has
the tasks of a running daemon as busy or idle, the order in which they are joined, and the
socket file. `Overlay` follows one file, or the mapped folder: the tables change, the
activity channel says so later (`owed`, `pulse`), the stream writes a line, the extension
drops its cache and asks again. `Lifecycle` gives each process a command and lets all of
them run side by side.

## 3. Runs

| Run | Question | Bounds |
|---|---|---|
| `feed` | does the cursor ever pass an unsettled change; order of re-delivery; echoes; refinement of `RemoteFeed`; does the cursor catch up | root and two files, 2 changes, channel of one, 1 failure or crash |
| `feed_lookup` | is nothing in scope dropped (violated) | one file, 3 changes |
| `dispatcher` | budget, auth stop, order, refinement of `OpQueue`, does every operation end | 2 operations, 2 attempts, auth delay 4, 1 failure or crash |
| `sync` | do the echoes die out, do both sides agree at rest | two paths and a conflict name, 4 edits of any kind on either side, 2 attempts, one failure or one edit amid the daemon's work |
| `sync_conflict` | is neither of two edits lost (violated) | two paths, 2 edits |
| `startup` | is the first pass a lossless merge, are its rows true, what does a scan make of Drive | a folder with a file, an ignored file, a Google Doc, 2 contents, 2 edits, 2 faults or stops, one retry |
| `events` | does Drive mirror the tree when all events have run through, do they run through | two files, an ignored file, a folder with a file, channel of 3, 4 edits |
| `folders` | does the local tree mirror Drive's folders, do rows and disk agree | 2 folders, 2 files, 4 changes, 1 failure or restart |
| `folders_masked` | do folder renames converge however Drive reports them (violated) | the same, no failure |
| `transfers` | whole files, no crossing, no fingerprint without its upload, one folder per name, one Drive file per upload, every operation ends | two files, both engines, 2 attempts of a request, 4 Drive ids, one user's action, a crash |
| `control` | one daemon, found by the commands, reconciled with what it serves, emblems, shutdown | 11 scripts of up to four commands, 4 processes, two pairs of folders, a crash or a removed folder |
| `remap` | is the first start of a mapping reconciled (violated) | the script `map`, `start` on a synced directory |

### Why the bounds suffice

*feed.* Two files let a batch hold a change that fails next to one that succeeds, and let
a later batch overlap it. With a channel of one, a batch is being applied, another waits
in the channel, and a third is blocked on the send. Two changes suffice for an old
snapshot of a file and a newer one to be under way at once. The safety properties were
also checked with three changes and with two failures; the theorems of section 4 hold for
every value of the bounds.

*dispatcher.* Two operations suffice for one to overtake another. `AuthDelay` is 4 rather
than 3600: what matters is that it is longer than the back-offs before it.

*sync.* Two paths suffice for a file to move onto the place of another and for a rename
to go back and forth; six Drive files for each of four edits to need a new one. The
snapshot in flight is one, since `apply_remote` takes changes one by one.
`RestMeansAgreed` is about edits that find the daemon at rest, with no failure: it covers
every order in which the watcher, the poller and the dispatcher see an edit, its echoes
and their echoes. It also held with five edits and neither failures nor overlaps. Two
kinds of edit are left out of it, since the code diverges there: `reuse` (a path whose
trashed file still has its tombstone) and `replace` (a file moved over another leaves two
Drive files of one name, and drops the row of the replaced one). `Settles` also holds
with one failure; it says nothing of histories in which an edit finds the daemon busy.

*startup.* The folder and the file in it have the order the pass must keep, the ignored
file and the Google Doc are what it leaves aside or treats differently, and two contents
make a conflict. Two faults let the pass be interrupted, be resumed and be interrupted
again. The properties of the first pass are about the time before the first scan, with
edits amid the pass; `CatchesUpOffline` is about the files nobody edits while the scan runs
and for which no operation was left over from before. It states what the code does, also
where that falls short of the documentation (section "Divergences"): the upload of a path
without a row replaces what Drive holds there, and a row without a Drive id, left by a stop
between its writing and that of its operation, is passed over by every later scan.

*events.* The scratch name is for the editors that write aside and rename; the folder can
be filled before it is watched. A rename has two halves, so four edits make for more
events than a channel of three takes. `Careful` keeps users from touching a renamed file
before its events have been told: section "Divergences" says what happens otherwise.

*folders.* Two folders make a parent and a child, so that the cached path of a subfolder,
a move of a file between folders and the merge of two directories all happen, and four
changes suffice to rename the outer one twice around a change of the inner one.
`RestMeansMirrored` names in its premise what the code gets wrong: `lost`, `masked`,
`behind`, `stale`. The two files have symmetric roles, and so have the two folders.

*transfers.* Two files let content cross. The setups are rclone with deletion to
the trash, a file of somebody else's and two different names, and http with permanent
deletion, the user's own files and two files of one name. A burst of one token makes each
request wait for the bucket to be filled again. Four ids suffice for a new file, a new
folder, a file of a user's and a repetition of a lost creation. `UploadedOnce`
also held where users act twice, as far as TLC got in its first 13 million states.

*control.* The scripts are the pairs and triples of commands that share something: two
starts around a stop, a status or a pause that meets a start, a re-mapping or an unlink
beside a start, a start on a folder that was removed. `EmblemsCatchUp` has one file and
the mapped folder. A pair is a local directory and what it was mapped to, a path or a
URL; three folder ids let a folder be made again twice.

`CHECK_DEADLOCK FALSE` is set where users make at most so many edits, or scripts have an
end, and nothing is left to do afterwards. The dispatcher never stops, and deadlock is
checked there.

### Fairness

Users, failures, crashes and other processes get none in any module.

* `ChangeFeed!FairSpec`: the poller and the consumer, both tokio tasks in a loop whose
  awaits all return (timers, HTTP with a timeout, SQLite, a channel with a live other
  end). `CatchesUp` is conditional on the poller task being alive in the end, because an
  error of `cursor::get` ends it for good.
* `Dispatcher!FairSpec`: the loop, and time. Nothing is assumed of the poller, the user or
  the rest of the program: `EveryOpEnds` is conditional on the daemon being undisturbed
  from some point on (running, not paused, no terminal block), not on any step of theirs.
* `FileSync!FairSpec`: the dispatcher, failed operations coming due, the poller, and each
  of the two reconcilers, all loops of the daemon.
* `LocalEvents!FairWatchSpec`: the notify thread (`Deliver`), the ageing of halves (time), the
  reaper and its sends (a thread with a 250 ms tick), the debouncer's receive, flush and
  forward, and the reconciler.
* `Transfers!FairSpec`: the steps of an operation while the process is up, and the pacing
  of requests: the client gives a request 60 s, a run of rclone ends, tokens drop into the
  bucket with time. `EveryOpEnds` holds with Drive out of reach for ever, since every loop
  of retries has a bound.
* `Lifecycle!FairSpec`: the work of each daemon (`DaemonWork(p)`): its tasks, its joins and
  the abort at the end of the 20 s. Commands get none; a `start` may be stuck in its
  initial pass for as long as that takes.

### What the violated runs show

Each is listed with its quotation under `findings`.

* `feed_lookup`: a failed metadata request for a parent folder makes the poller drop the
  change as out of scope, and the cursor passes it (`changes.rs:332`).
* `sync_conflict`: an upload replaces the Drive content without comparing it with the row.
  An edit made on Drive that the poller has not delivered is overwritten, and its change
  then carries the uploaded fingerprint. Drive's revision history, which the daemon does
  not use, is outside the model.
* `folders_masked`: a file renamed in a folder that is renamed too before the next poll
  arrives with a new path below an unchanged parent; `continuous.rs:508-527` turns that
  into a rename of the folder and returns, so the file's own new name is never applied,
  although `sync-model.md:147` calls the rename convergent however the events are split.
* `remap`: `mapping.rs:59` updates the one row in place, and neither the cursor nor the
  rows of the old folder go. The next start finds a cursor, does no initial pass, and its
  scan takes the old rows for files deleted locally, which become deletions in the old
  Drive folder.

### Divergences seen without a run of their own

These were met while the models were written, and the properties' premises leave them out.

Dispatcher and blocked flag:

* the in-flight gate skips whatever arrives for a marked id, also a user's edit made while
  the dispatcher writes the file (`continuous.rs:293`);
* the inner loop drains everything due before it looks at the pause flag or the token
  again (`runtime.rs:101`, against `pause.rs:6` and `daemon/mod.rs:313`);
* a failed poll overwrites a terminal block with a transient one, which the next success
  clears (`changes.rs:158`, against `meta.rs:142`);
* parking an exhausted operation sets no block (`runtime.rs:117`, against
  `sync-model.md:226`);
* with the http engine, an upload aborted between creating the Drive file and recording its
  id creates a second one at the next start (`runtime.rs:317`, against `daemon/mod.rs:320`,
  "re-runs (idempotently) next start"); rclone finds the first by its name, which
  `UploadedOnce` is about.

Reconciliation:

* any row at the path of an unknown Drive file makes `apply_remote` drop it, also the
  tombstone of a trashed file, which stays for 30 days (`continuous.rs:643`,
  `daemon/mod.rs:66`); a file re-created at such a path and deleted again stays on Drive;
* renames can go back and forth for ever, when a snapshot fetched before a `RenameRemote`
  or `RenameLocal` is applied after it;
* a local edit between the end of a download and its hash (`runtime.rs:355-359`) is
  recorded as synced and never uploaded; an upload records a hash taken before it
  (`runtime.rs:268-301`), so that a later change of Drive looks like a conflict;
* a file re-created while its `DeleteRemote` runs loses its `Upload` with the row;
* two remote edits in quick succession open a conflict without a local one, when the first
  is downloaded but not recorded (`continuous.rs:593`);
* a restore that overtakes the `DeleteLocal` of the trash is dropped as an echo;
* the rename in `open_conflict` reaches `apply_local` as a user's rename, and the Drive
  file follows to the conflict name, although `conflict.rs` says that the remote keeps its
  name; two conflicts of a file within a second share that name (`conflict.rs:42`);
* a new Drive file moved before its id is linked gets a second row.

Folders:

* a failed download overtaken by the rename of its folder lands at the old path; a move of
  a file into a folder is undone while the rename of the folder is pending, or is applied
  before the folder's own first change;
* a folder renamed twice with a change of a child between them, or a cached path of a
  subfolder of a renamed folder (`changes.rs:322`), leaves files at the old path;
* a rename into the own subtree fails until it is parked; with a warm cache, a report of
  the child alone does not tell of the folder's rename.

Watcher and scans:

* an edit within the debounce window of a rename replaces the `Renamed` event, and the
  old name stays on Drive (`debounce.rs:45`); an event that does not fit into the channel
  is dropped with a log line (`watch/mod.rs:161`);
* the patterns of `watch.ignore_patterns` are asked for where the watcher accepts an event
  and in the scans; a folder that is new or moved in is walked without them
  (`continuous.rs:243`), and an ignored file in it is uploaded, against `configuration.md:71`
  and `sync-model.md:189-192` (`IgnoredStayLocal` fails with `Ignored` in the folder);
* the startup scan takes a path that has no row for a new file, and its upload replaces
  what Drive holds there (with http: adds a file of the same name). So it goes with a file
  made on both sides while the daemon was stopped, and with a mismatch of the first pass,
  which the pass leaves without a row, "deferring to continuous-sync conflict handler"
  (`reconcile/mod.rs:252`, `sync-model.md:197`): the next start overwrites it. The
  comparison with Drive is made only for paths with a row, though `reconcile/mod.rs:375`
  says that "the scan can never overwrite a concurrent remote edit" and `sync-model.md:255`
  that it "never overwrites a concurrent edit". `CatchesUpOffline` has it as what happens;
* a new file whose row was written when the process stopped, before its operation was
  (`continuous.rs:215`), is not uploaded by any later scan, against `sync-model.md:247`;
* the first pass can overwrite a file of Drive edited after its comparison
  (`reconcile/mod.rs:375`), and its baseline token, requested at the end, covers what
  changed on Drive meanwhile (`reconcile/mod.rs:347`);
* a local root that is missing and made again by `start` makes the scan replay the
  deletion of everything (`start.rs:256`).

Commands and Drive:

* `map` beside `start` can create the remote folder twice (`metadata.rs:324`), and `map`
  takes no lock at all; `unlink` drops the lock it probed before it deletes the rows
  (`unlink.rs:25`); a `start` fails with `LockHeld` while a `status` or `unlink` holds the
  lock for its probe;
* a transient error of the probe of the root leaves the alias in place of the id
  (`start.rs:335`);
* `auth.rs` maps a refresh that fails because the network is down to the terminal
  `Oauth` error;
* the header of `http.rs` (lines 10-13) names 429 and 503 as what is retried, `is_transient`
  has 500 to 504 and the rate-limit variants of 403;
* `cli/map.rs:4` and `docs/user/configuration.md:47` speak of bare Drive IDs, which
  `resolve_path` takes for the name of a folder;
* `config/paths.rs:13-15` says that `--config-dir` moves the configuration only; `discover`
  (lines 56-60) moves the cache and the runtime directory with it, so two daemons meet in
  one lock only when they have one configuration directory;
* after its connection broke, the overlay reconnects within 3 s and asks for nothing: what
  changed in between keeps its emblem until it changes again.

## 4. Proofs

`ChangeFeedProofs`, `LocalSideProofs`, `LifecycleProofs`, `TransfersProofs`,
`StartupProofs`, `FileSyncProofs` and `FolderSyncProofs` prove, for every value of the
constants allowed by the named assumptions of the modules (`FeedAssumption`,
`DispatcherAssumption`, `ProcsAssumption`, `ProvisionAssumption`, `LifecycleAssumption`,
`DriveClientAssumption`, `TransfersAssumption`, `InitialPassAssumption`,
`FileSyncAssumption`, `FolderSyncAssumption`, `LocalEventsAssumption`), the type
invariants, the safety invariants and action properties of the passing runs `feed`,
`dispatcher`, `control` and `transfers` (but `UploadedOnce`), the refinements of the first two, what the run
`startup` checks of the first pass and of the scans, that the tables are sound in `sync`,
that an edit that finds the daemon at rest ends in agreement there, that rows and
directories are sound in `folders` and, for users who wait, that Drive is mirrored there,
and the invariants of `events`.

*ChangeFeed.* `CursorPassesOnlySettled` is not inductive: it says nothing of the batches
on their way. The inductive invariant adds that what each batch covers, from its first
to its last position, is either in the batch or settled; that consecutive batches
start at or before the token they may find persisted; and that the entries of a batch
are in the order of the feed and never older than what was applied for their file.
The refinement needs the same facts: the only step that moves the cursor is `Finish`,
and it maps to `Advance` because everything in the range of the batch is settled.
`EchoWaitsForFingerprint` needs one fact more, that an update is marked from its first step
to its last.

*Dispatcher.* The inductive invariant adds to the checked properties that the three
places of a row (due, waiting, parked) are disjoint and without repetition, that
`tries` and `attempts` differ by at most the failures counted (plus the operation
being executed), and that a busy dispatcher holds an operation with attempts left.
`QueueSpec` uses them to show that a row leaves the queue only when it was performed
(`DeleteRow`) or has used its attempts (`Park`).

*Lifecycle.* Any number of invocations, any scripts of commands, any directories, folders
and bounds. There are three inductive invariants, each proved on top of the one before:

* `IInv`, of the lock. The flock is held exactly by a process between taking and dropping
  it, the pid is in the file from `Write` on, tasks belong to a process in its loop (or to
  a runtime that is being dropped, and then no poller and no socket is left), and a
  command that was given beside a serving daemon has either not yet looked, or found it.
  `OneDaemon` follows because two processes with busy tasks would both hold the lock,
  `SocketIsTheDaemons` because only the holder touches the socket path, and
  `FindsTheDaemon` because the pid in the file and the path stay while that daemon is in
  its loop. The joins in `Daemon` are what it rests on: without that of the socket task
  (`ControlJoined`) a daemon that ends could unlink its successor's socket.
* `TInv`, of the tables. What a start has read of the mapping is still what the row says,
  or it is marked (`disturbed`); under a cursor there are the rows of the mapping, or the
  tables are marked (`outdated`); a first start sees no cursor until it sets it. Either
  mark is set only by the three writers that the properties name: `map` beside a daemon
  or over a mapped pair, `unlink` beside a daemon, and a root that was made again.
  `LoopIsReconciled` and `ServesTheMapping` follow.
* `EInv`, of the emblem. The cache and the emblem are what the tables say, or the change
  is owed, missed, or on its way through pulse, stream and line; `Refresh` drops the cache
  together with taking the line, without which `EmblemsCatchUp` is not inductive.

*Transfers.* Any names, any setups, any number of ids on Drive and of users' acts, any
burst and number of attempts. Every step of an operation is one that another actor can
come before, so that each property needs to be said of every place an operation can be
at. `TInv` does the common part: which kind of operation can be where and with which
engine (`InChain`, `ByEngine`), what it still has in common with its row (`OfRow`), what
it knows by then (`OnItsWay`), that rows are sound and their paths apart, and that every
content in existence was made by now. A torn file is no content, so that `WholeFiles`
follows. On top of it:

* `Sighted`. Two files of one name, or a file where a row is not, are noticed in the step
  in which they appear (`disturbed`). As long as that has not happened, rclone, which goes
  by name, finds the file of the row and no other.
* `Uncrossed`. With that, or with the http engine, whatever is on Drive under a row's id,
  on disk under its path, in staging or held by the operation is the row's own content.
  `NoCrossing` is the first half of it.
* `Delivers`. From reading the file to recording it, what the operation holds or has
  fingerprinted is no newer than what its file has on Drive: `Record` and `Hash` are the
  only steps that change a fingerprint, and this is what they find. It fails for a file
  touched locally amid its operation, which `overtaken` says.
* `Single`. There is at most one folder of the name, and while the listing of its parent
  is under way that folder has been found already or is on a page still to come. Without
  the second half the step that creates it could add another. `unheard` marks the lost
  answer after which the code does create two.
* `Housed`. Every file of the user's is in one folder, and between its two requests a move
  knows the folders the file is in.

What these rest on was found by proving: that an id exists at all (`TransfersAssumption`),
that a local move leaves alone the path of an operation under way (`MovesLocally`), and
that `RecordedReachedDrive` is a property of a step. The run `transfers` lets users act
once and could not tell: the last two take three acts.

*StartupScan.* Any tree of paths and any number of files, contents, edits, stops and rounds
of look-ups; the run has five paths. `IInv` says that a scan has begun, after which the
first pass is over for good, or that `FirstPass` holds, whose parts lean on each other:

* `Skeleton`. No folder goes, each is below one that is there, on either side and in what
  the walks have seen, and none is hidden. It is what makes the next part true.
* `Walk`. While the first walk lists, whatever is below a listed folder and sure to be on
  Drive is seen or its folder is still to be listed; once nothing is left to list, all of
  it has been seen. That step is where the acyclic tree is needed: of the paths that were
  sure and not seen, one would be below a folder that was. A walk that misses a file would
  have the pass upload over it.
* `Untouched`. A path nobody touched holds, on each side, what it held or what the pass is
  to give it; what a walk shows of it is so; its row, if any, is true.
* `Progress`. For each phase, what is still to do is what its work list says, and for each
  phase that is over, what it was for has been achieved, by this attempt or an earlier one.

`FirstPassMerges` and `FirstRowsTellTheTruth` follow: `Untouched` is what holds at any
time, and `Progress` at the end of the last phase is what holds under the cursor.

`CatchesUpOffline` is proved on top of it, with `SInv`, for any number of scans, stops and
failures. An entry a scan is to decide on (`Left`) is in one of four states: it waits to be
looked at, or needs nothing (`Waits`); its upload is owed, as a row without an operation,
as an operation, or as several (`Sends`); its deletion is owed (`Drops`); both sides are as
they should be, and what is left in the queue for it will find nothing to do (`Brought`). A
scan goes through the first three, a complete one leaves the last three, and the dispatcher
turns the middle two into the last. The statement leaves out only files that were edited
meanwhile or had operations left. Of each other file it says what Drive holds in the end, by
cases on what was found; only where a row names another Drive file than the one at its
path, of which the request by id can say either, it allows two outcomes. That an operation changes no file but its own rests on
`Above`, the folders of a path: it is recursive, and that there is such a function is shown
by giving one that is not (`Over`, what is in every set closed under the folder of). The
proof found the model wrong in one place: a crash of the first pass (`Stops`) could also
happen amid a later scan, and then left the operation of a half-made row to be enqueued by a
process that was gone. It is now confined to the first pass (`InPass`), and the crash of a
scan is `Stop`.

*FileSync.* Any paths and users' acts, any number of files, edits, failures and attempts.
`TypeOK` is more than types: no two rows have one path (the unique index of
`state/items.rs`), every operation has its row (the foreign key of `state/ops.rs`), and
none that goes to Drive by id is queued for a row without one, which the code takes for
granted when it executes it. What has to be said besides is in `Sound`:

* what was ever created on Drive has a path, and only that is in the feed or in the change
  the consumer holds; otherwise a download could be queued for no path;
* the operation being executed came with a row that is right for it. The row may go in the
  meantime, or change; if it is still there it has not lost its id. `RenameRemote` put back
  after a failure relies on it, and `Record` after an upload. A reconciler that wrote a row
  anew with the id missing would break it;
* a key is left for a new row, which no row and no operation in flight has. Rows are
  counted: there is at most one per path, and there are two keys more than paths. Without
  the unique index the count does not hold, so that the two halves of `TypeOK` cannot be
  proved apart.

Each way to write the tables (a row changed, moved over another, added, dropped with its
operations) is a lemma; `ApplyLocal`, `ApplyRemote` and `Record` are put together from these.

`RestMeansAgreed` is proved for any kinds of edit but `reuse` and `replace`, which the run
leaves out too: with either the code does not converge (section 3). Of a state at rest it says
that the two sides agree; what is in between is the invariant `CalmSound`. As long as no edit
overlapped another and nothing failed, one edit is on its way, and `OnItsWay` lists where it
can be: at rest (`AtEase`), its event or its change waiting for the reconciler (`Speaking`,
`Changing`), its operation queued (`Waiting`) or begun (`Writing`), done on Drive with the
echo to come at any time (`Echoing`), or done on disk with the event to come at any time
(`Landed`). Each place names a row, a file of Drive, one or two paths and what is to come
for them; everything else is in sync (`Rest`). Two things the proof had to say are easily
overlooked in the code. The event of the daemon's own write may be applied before the write
is recorded, and queues an operation then: every place of `Landed` but one has to say what may
be queued already (`Heard`), an operation that repeats what both sides hold. And a
change of a file with a row may show the file at a path of which the row knows nothing, but
only if that path is free (`Changed`): it is what `replace` breaks.

*FolderSync.* Any files and folders, any number of users' changes and of failures. `TypeOK`
is proved with no premise on what users do or what is lost. It says besides types that no
two rows have one path, whatever a batch of rewritten prefixes collides with, and that what
is on disk is in a directory that is there, however renames, merges and retries are ordered.
Paths are computed by recursion along the parents on Drive, so that the invariant (`IInv`)
has to say why it ends, and has to hold of paths that are long outdated:

* `Grounded`. Of any set of objects that exist, one has its parent outside of the set. A
  user moves nothing into what is below it, so that every change keeps this. What is
  defined along the parents (`Above`, `Prefix`) exists and is unique by `TreeRecursion` and
  `TreeUnique`: the solution is the union of its parts on sets closed under the parent.
* `Named`. As a name is used once, there is a set of names that are those of folders. A path
  of a folder is made of them; that of a file ends with another. It holds of every path
  there is, in a cache, a row, an operation or on disk, and whatever happened since, so that
  an outdated path of a file does not meet a directory, nor the other way round.
* `JobOK`. An operation has its row, and the path it goes to is one of its kind.
* `Solid`. With a path the disk has its parent, which is a directory. The hard step is the
  merge of two directories (`MoveTreeSolid`): what comes from the source has its new parent
  among what comes too, or among the directories made first.

Two assumptions say that `Nothing` is neither a path, nor a row, nor an entry of Drive.

`RestMeansMirrored` and `RenamesConverge` are proved for users who wait, who change something
on Drive only while the daemon is at rest (`Calm`, the premise of `CalmMirrored`,
`CalmConverges` and `CalmRowsMatch`). One change is under way at a time then. Drive still
reports a move or a rename in as many entries as it likes, of the thing itself and of any of
those below it, in any number of fetches and in any order; an operation fails and is due
again later, or the daemon restarts with an empty cache, amid all of it. There may be any
number of changes, of objects and of failures.

The proofs use neither `masked = {}` nor `~behind`: nobody outruns the daemon, and no rename
of a folder swallows a change of a file. Hence the divergence of section 3, to which
`RenamesConverge` is the other side, takes a user who changes something more before the
daemon has done its work. What is left of the premises is that no look-up dropped a change
(`lost`) and that no path in the cache is outdated (`stale`).

The invariant is `CalmInv`. As long as nothing was dropped, one of three things holds
(`OnItsWay`):

* `AtEase`: every row and everything on disk is in its place, and nothing is to come.
* `Coming`: something new, or a file with a new revision, has its entry to come, or its one
  operation. All else is in its place.
* `Moving`: something was moved or renamed, and what is below it goes along. The old paths
  (`o`) are of no variable, so the invariant says that there are some (`TripIs`). `Halfway`:
  each row has its old path or its new one, the disk has what the rows say, and where a row
  has its new path the rows below it have theirs. This is what lets the renames of a folder
  and of files in it come in any order: a rename of what has moved already finds nothing to
  do. A cache that had the path of the folder has the old paths of what is in it, until the
  entry of the folder itself is applied (`Unaware`); any other cache has current ones only,
  as what it lacks it looks up (`Informed`). As long as the row of what was moved has its
  old path, something is under way that will change it (`Told`): its entry, its rename, or
  the entry of a file in it, from which `apply_remote` infers the rename.

The steps that matter are those of `apply_remote` (`ApplyInformed`, `ApplyUnaware`) and of a
rename (`ExecuteMoves`). The latter rests on what `Rewrite` and `MoveTree` do to a tree that
is halfway (`RenameRows`, `RenameDisk`): a row that is rewritten collides with no other, and a
directory takes along just what has not gone before it.

*LocalEvents.* Any files and folders of one level, any edits, any capacity. `WatchTypeOK` says
besides types that a `try_send` never overfills the channel and that the debouncer's map
holds one event per key. `RestMeansMirrored` needs to know of every place between inotify's
queue and the reconciler what is still to come. `EventsInv` is about the words of a path: the
events under way that speak of it. An event says only whether its path is there; the content
is read when the event is applied, so that a word is right or not whatever was written since.

* `DriveKnows`. The newest word of a path is right: the last of inotify's queue, or else of
  the channel, or else that in the debouncer's map, or in the batch, or the last of the
  debounced channel. A path without a word is on Drive as it is, or waits to be walked. This
  is why the debouncer may replace an event by one of its path, and why it may flush in any
  order: one batch holds one word of a path.
* `MovesAlone`. The word of a rename, half or whole, is the only word of its paths, and
  right; what the reaper has drained has none. It is where `Careful` is used: with a second
  word of either path the debouncer, whose key is the new one, could swap them.
* `HalvesPair`. Halves of one cookie are of files, and what Drive has of the old name is
  nothing or what is under the new one now.
* `FoldersWatched`. A folder that is there is watched, or its own event is still in
  inotify's queue, and then nothing has been told or shown of what is in it.
* `IgnoredApart`. Of an ignored file nothing gets past the callback.

All of it holds until an event is dropped. There are two premises, and the code falls short
without either: `Careful`, and that ignored files are at the root, as in the run. One in a
folder is walked and uploaded with it (section 3). The theorem `IgnoredStay` says that this is
the only way: files ignored at the root never reach Drive, whatever users do and whatever is
dropped.

The cascade that drops the operations of a row is a filter of a sequence, and what a filter
leaves is a fact by induction on its length. The induction theorems of the library take an
operator and are of no use to the provers, but `WFMin`, that a well-founded relation has
least elements in any set, does not: `QueuesProofs` proves what `Only` computes from the
least length at which it would be wrong. `SelectSeq`, whose definition the provers cannot
expand, is the reason for `Only`.

`Transfers.UploadedOnce` is model-checked only.

`FolderSync.RestMeansMirrored` and `RowsMatchDisk` are proved for users who wait. For changes
that overlap each other or the daemon's work they are model-checked only. Both then speak of
the end of a queue of renames whose paths were resolved at different times with a cache that
lags behind Drive, so that an invariant has to say what the rows will be after the queue, for
every way in which entries are split and retries fall. `RowsMatchDisk` is proved only up to
the first look-up that drops a change, even for users who wait.

Liveness is model-checked only, everywhere (`CatchesUp`, `EveryOpEnds`, `Settles`,
`ComesToRest`, `ShutdownEnds`): fairness and `ENABLED` are out of the prover's reach. Of what a
recursive function or a fold computes, `Only`, the two functions called `Above`, `PathOf`,
`Prefix` and `Walked` are proved about; the other modules with theorems use no recursion.

## 5. Not modelled

See `components` in `PROJECT.json` for each part. In short:

* locating and downloading the rclone binary, OAuth, configuration files, errors and
  logging: input and output without states that interleave with the rest;
* the commands `init`, `setup` and `shell`, the rendering of `status`, prompts, and the
  text of the shortcuts written for Google Docs;
* renames and deletions of directories made locally in `FolderSync` (`LocalEvents` has
  the events of folders, but no rename of one), symbolic links, a queue overflow of
  inotify;
* migrations of the database, and several accounts: the tables hold one row each;
* what Drive and the file system do by themselves is modelled from how the code uses them
  and marked external in `map`.

`StartupScan.ScanTypeOK` states the types of that module and is not listed in a run: the
properties there say more. `LocalEvents.IgnoredStayLocal` is proved and in no run either: at the root
`RestMeansMirrored` has it, and elsewhere it fails. `DeleteRemote` and `RenameRemote` on a row without a remote id
are unreachable, which `FileSync.TypeOK` says. The hazards that list no property are those in which the code
loses the change; the notes under `hazards` say where a property covers one only in part.

## 6. Plan

1. Proofs: `RestMeansMirrored` and `RowsMatchDisk` in `FolderSync` for changes that overlap.
2. Renames of directories made locally, from the watcher to the rows and to Drive.
3. Edits amid the daemon's work, once the divergences above are settled one way or the
   other: each premise that goes is a property that gets stronger.
