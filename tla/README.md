# Ramag: TLA+ models and proofs

Ramag is a local-first desktop workbench (Rust, GPUI) for databases, Redis,
MongoDB, git, SSH, object storage and the clipboard history. These modules
model the parts of it whose state is shared by concurrent tasks: what they keep,
what every operation does to it, and what must hold however operations
interleave, fail or are cut short.

`PROJECT.json` lists components, runs, findings, hazards and theorems, and for
every definition the source lines it stands for. Run a module with
`tlc -config <run>.cfg <MC module>`, check a proof module with `tlapm`.

## The system

`ramag-bin` composes the services and runs the loops (clipboard polling, hot
keys, tray). The tool crates (`ramag-tool-*`) are GPUI views: they call the use
cases of `ramag-app` from futures spawned on the UI thread, many of them
detached, so that closing a view does not stop them. The services use driver
and storage traits of `ramag-domain`; the `ramag-infra-*` crates implement
them on tokio runtimes and bounded pools of blocking threads. State that
outlives a run is in one redb database (one write transaction per operation)
and, for images of the clipboard, in content-addressed media files.

| component | state | operations | what makes it hard | correct when |
|---|---|---|---|---|
| ClipboardService, clip repository, media store | items and hash index (redb), media files, pending deletions, recent cache | capture, copy, delete, undo, expiry, clear, orphan scan, preload | every operation awaits between reading and writing; media are shared between items by content; crashes | items and open undo windows keep their media, the index finds every item, no duplicates, cache shows what exists |
| Clipboard settings | preference, three mirrors | load, save | mirrors change before the write | mirrors equal the stored preference when no save runs |
| SQL PoolCache (MySQL, PostgreSQL) | pools, generations, build locks per connection | get_pool, evict, retried reads | check / build / insert and the steps of evict interleave | no evicted pool stays, one build at a time, requests keep their generation |
| Redis pools, MongoDB clients | as above, one per database, LRU bound | get_or_create, evict_all_dbs | as above, and the bound is enforced in steps | as above, and the bound |
| Tunnel registry | connection to slot, ssh child per slot | ensure, evict, shutdown_all | two locks, one held across a handshake; children die; slots are detached while used | limit, no tunnel left behind, calls return |
| SshService | transfer queue, cancellation handles, terminal generations and blocks, capability cache | enqueue, execute, cancel, retry, clear; save, delete, disconnect, shutdown; terminal_command | a profile changes while transfers and terminals of the old one are being prepared | every active task can be cancelled, bounds, nothing of an old profile goes on or is launched |
| infra-ssh transfers | temporary and backup files beside one remote and one local file, permits | upload, save_file, download, download_directory | a request fails before or after the server has carried it out; two transfers to one target; others write it | no content is lost, targets are complete, who may not overwrite does not, every transfer ends |
| infra-ssh sessions | session and connect lock per profile | get_or_connect, invalidate | a failure of one request removes the session another has just opened | one session per profile (not modelled) |
| ObjectStorageService and driver | account revisions, account gates, operators, listing cursors | save, delete, list, upload, download | cached operators and cursors of an old revision; cursors taken over an await | a request uses the revision it read, or fails |
| DataSyncService | gate (task, phase, cancel flag), plans, where the execution stands; source and target | preflight, start, cancel, execute, acknowledge | every call of a database may fail; both sides change between two of them; a row may be larger than a page; cancellation between structures | one task at a time, only confirmed objects are written, nothing is overwritten, completed means complete, cancelled is safe |
| UpdateService | cached result, time of the last check | check, download | serialised checks, clock | no two checks at once, result is current |
| Worker pools | bounded queue, workers | run_blocking | full queue, panics | a job accepted is answered |
| VCS views | latest revision per key; pending events | begin, run_if_latest; watch, debounce | a newer write overtakes an older one; events during a refresh | the last write wins, no event is lost |
| Storage, encryption, drivers, git, terminal, UI | tables; connections; widgets | single transactions, external calls | data formats | not modelled |

The hazards of each part, at their lines, are in `PROJECT.json`; a hazard that
no property covers says why.

## The modules

Every action is one critical section or one stretch between two awaits, taken
whole: what the code does in it, trailing clean-up included. Operators that
begin with the comment "Mutant:" are deliberate mistakes, each of which
violates one property; the specifications do not use them.

### ClipHistory: the clipboard history

`clips` and `byHash` are the two redb tables of `clip_repo.rs`, `files` the
media directory, `pending`/`nextToken` the `PendingMediaDeletes` of the service,
`timers` the tasks the view spawns to finalise a deletion, `undo` the items in
the notifications, `cache` the recent items. Every writer holds
`history_mutation_lock` for its whole section and is one action; `record()` is
split at its awaits (`CaptureBegin`, `PersistFull`, `PersistThumb`,
`CaptureSave`, with `CaptureFails` for its rollbacks) because a crash and the
unlocked listing of the orphan scan may fall between them. `Crash` forgets what
is in memory and keeps tables and files.

A content stands for all that the pasteboard holds: an image, copied files, or a text
with the rich text beside it; `Plain` is the same text without. The code compares
contents in three ways, and so does the model. The fingerprint is the constant
`Primary` (FNV-1a can collide) with `Secondary` for the name after a collision: it
is of the characters, so a text has that of the same text with other rich text,
and of a copied file whose path it is. A capture (`PayloadMatches`) compares texts
without their rich text, files with files, and an image with the file on disk.
Undo (`SharePayload`) compares the rich text too. What two contents have in
common by one of these and not by another is where the index and uniqueness give
way, see the observations below; `IndexComplete` and `UniqueContent` are about a
content that is `Alone` with its fingerprint, in a history that may hold others
that are not. A path stands for a hash and a kind of file: two items of one hash
share their files, as in `media.rs`.

The constant `Hazards` says what the environment may do: a media file that
exists cannot be read, the user deletes while the start-up orphan scan runs,
timers take the lock out of order, a restored item is over the retention limit
at once. `IndexSound`, `CacheCoherent` and `EveryWindowHasTimer` are proved with any
of them; media safety holds without, and the orphan scan is a finding. Media
safety needs all four to be absent. For the last one two items do not show it,
three do: an old item is deleted, captured again, deleted again, and the first
deletion undone; the next capture prunes it with the media the second window
still promises.

### SqlPoolCache and PoolPromise: connection pools of MySQL and PostgreSQL

One connection of `pool.rs` / `backend.rs`: the cached pool, its generation, its
build locks, `clock` for the counter generations come from, the requests
(`get_pool`, its waiters, the query and `retry_idempotent_read`) and the
evictions by the UI and by retries. Saving the connection is `SaveConfig`,
followed by the steps of `evict` in the order of the code: generation, locks,
pool. Builds are awaited outside every map lock, hence each look at a map is an
action. `LatePin` says whether the connection can be saved after a request was
sent with its configuration and before it pins a generation; without that, the
retry alone brings an old configuration to a new generation.

`PoolPromise` is the abstract specification: a connection has epochs, an epoch ends in one
step and takes its shared pool with it, in an epoch at most one pool is shared and
who asked in it works on that one. The cache implements it: an epoch is a generation, the
shared pool is what is cached as long as its generation is current, so that the
eviction of the promise is the first of the three removals of `evict`, the
sharing is the insert of a request whose generation is current, and everything else
of both is unseen. A request that is overtaken by an eviction works on a pool of its
own epoch.

### TunnelRegistry: ssh tunnels of database connections

The registry (connection to slot, one mutex), a mutex per slot which is held
across the handshake, what a slot contains, which ssh children are alive, the
`ensure` calls and the `evict`/`shutdown_all` calls. The reference count of a slot
(`Arc::strong_count`) is computed from who holds it. `late` marks the children
that were started for a slot that had been taken away.

### SshTransfers: transfers, profiles and terminals of SSH

`tasks`, `queue`, `cancellations` and `cancelled` are the `TransferState` behind one
mutex; `exec` the calls of `execute_transfer`, step by step: begin, the profile
as stored now, preparation (capabilities, path, write checks, connection), the
permit of the driver's semaphore, the copy. `call` has the calls of `save_profile`
and `delete_profile` at the step they have reached: storage, terminal policy
(`blocked`, `generation`), cancellation of the transfers. `term` has the terminals
being opened, with the generation taken before and compared after the profile
is read, and once more by the view. A profile is the number of the version in
storage, 0 for none, so that stale means "not what is stored".

The waits of 5 s for transfers to stop and the disconnection that follows change
nothing of this state; a copy may end, fail or be cut off at any time. The three
statuses of an ended task are one.

### DataSync and SyncPromise: synchronising databases

`gate` is `DataSyncGate`, `asked` the cancel flags, `plan` what preflight found (for
each task), `created` and `finalized` what the execution has made, `work` its local
variables: the object, the last identity read, identities still to fetch, rows
still to insert, the deferred cancellation. `pc` says at which call of a database
a task waits. The three engines share the model and differ where their code
does: SQL takes its snapshot apart from the list of tables, creates all
structures first and honours a cancellation only if it creates nothing; MongoDB
creates each collection when it comes to it and looks for cancellation at more places.
An insertion that meets a row of another client with the same identity leaves it;
with the same value in another unique column MySQL is silent (hence
`mysql_missing_identities_after_insert`), PostgreSQL refuses the statement,
MongoDB inserts the rest. A call may also fail after it has been carried out.

A row is its identity, its content is left out: rows are never updated by the
synchronisation. Identities are numbered in the order in which the databases compare
them, which is how the next page is filtered (`Ahead`). `Kind` says of each object what
else happens to them. Those of kind "exact" are sorted in that order and arrive
unchanged. Those of kind "text" are sorted by another one (`Rank`): PostgreSQL selects
columns of types the program does not know as a cast under their own name, which is what
ORDER BY then means. Those of kind "rounded" come back to the database without their
fraction (`Carried`, `Keys`), so that a page can begin with the row that ended the last
one. `PagesReachAll(o)` names the objects that are read without a gap; it is a condition
in the properties, about one object each, and not an assumption: the other objects of
the same task are there, and get in the way if they can. What matters of size is which
rows alone exceed the byte limit of a page (`Oversized`). `steady` and `offered` are not
in the program: they record what the source has had all the time, and at some time,
since the start.

`SyncPromise` is the abstract specification: a phase, what must and what may be
copied, what has been, what others have. `DataSync` is shown to implement it with
the refinement mapping at the end of the module, by TLC as a property and by
TLAPS as a theorem.

### TransferEngine: files over SFTP

One remote and one local file, and any number of transfers of the four kinds
after them. `temp`, `backup` and `localTemp` are the files each transfer has beside
them, `seen` is what `lstat` found before an upload and what the editor had opened
before a save. Each request to the server is an action that is answered, or
fails before or after the server has carried it out, with or without the loss of
the link (`lost`): after the loss each further request of that transfer fails,
the clean-up and the roll-back too. Copying is one action, since the half-written file is
visible only under the temporary name, and that is what `AlwaysWhole` checks.
The server renames only to free names (SFTP version 3 without the POSIX
extension, which the client does not use). Others write either file; the server's
file they also replace by something that is no regular file, but they do not
remove it: who removed it would not be this program.

`SshTransfers` is the queue in front of this module: its step `copy` is a whole
transfer here, and its permit the same semaphore.

## What is checked

| run | module and bounds | result |
|---|---|---|
| `clip_history` | 2 items; an image, a text, and three contents with one fingerprint (a text, the same with rich text, a file of that path); cache of 2, 2 deletions with media, ordinary environment, fair (309,258 states) | types, `LiveMediaIntact`, `PendingRestorable`, `IndexComplete`, `UniqueContent`, `IndexSound`, `CacheCoherent`, `EveryWindowHasTimer`, `WindowsClose` hold |
| `clip_scan_race` | 2 symmetric items, 2 images, deletions during the orphan scan | `LiveMediaIntact` is violated |
| `sql_pool` | 2 requests, 2 generations, one save, failures, late pins, fair (56,686 states) | types, `NoStalePool`, `SingleFlight`, `OwnGeneration`, `RequestsAnswered`, and the refinement `EvictsAtOnce` hold |
| `sql_pool_retry` | the same, but no save before a first pin | `FreshConfig` is violated by the retry |
| `tunnels` | 2 connections (one with two configurations), limit 1, 2 callers, 1 closer, 2 slots, 2 children, fair | types, `RegistryBound`, `LeftOnlyLate`, `OnlyEvictionDetaches`, `ReturnsWanted`, `EveryCallReturns` hold |
| `tunnel_leak` | the same | `NoOrphanTunnel` is violated |
| `ssh_transfers` | 2 tasks, queue 1, history 1, 1 permit, 1 profile with 2 versions, 2 overlapping calls, 1 terminal, fair | types, `HandlePerActive`, `RunningIsExecuted`, `QueueBound`, `StaleTransferCancelled`, `NoStaleTerminal`, `StopsInTheEnd` hold |
| `data_sync` | each engine, 2 tasks, 2 objects of at most 2 rows (the second with rounded keys in MySQL, text-sorted ones in PostgreSQL), pages of 1, one change by others on either side, fair (515,226 states) | types, `OneExecutor`, `ConfirmedOnly`, `CompletedIsComplete`, `SafeCancel`, `ComesToAResult`, and the refinement `KeepsItsPromise` hold |
| `data_sync_mongo` | MongoDB, one task, a document too large for a page | `NothingMissed` is violated |
| `data_sync_text` | PostgreSQL, one task, one object whose keys are sorted as texts | `NothingMissed` is violated |
| `ssh_files` | 2 transfers of any kinds and policies, one change by others, fair (990,899 states) | types, `AlwaysWhole`, `NeverGone`, `RefuseNeverReplaces`, `EveryTransferEnds` hold |
| `ssh_save_race` | one transfer, one change by others | `SavesWhatItSaw` is violated |

Why the bounds are enough to be of interest:

- History: two items are what sharing needs (an item and a deleted one with the
  same files, or two windows). An image has files to share; the text is alone with its
  fingerprint, so that `IndexComplete` and `UniqueContent` speak of it and of the image
  while the three contents of one fingerprint take each other's entry of the index.
  Two tokens give a window, its successor after put-back or second deletion, and a
  stale timer. The cache has room for both items, so that one that is over age is
  seen to leave it; smaller windows and any number of items are in the proofs.
- Pools: two requests give a builder and a waiter, or an old and a new
  generation at work at once; the second generation comes from one eviction. The
  retry and the UI give two evictions at a time.
- Tunnels: a limit of 1 with two connections fills the registry; two
  configurations of one connection force a replacement; a slot that was taken
  away and a fresh one exist together.
- Transfer queue: with a queue of 1 the second task is refused or comes after
  the first, and a history of 1 prunes while one waits, runs and retries; two
  versions make one stale; two calls overlap. Any number is in the proofs.
- Synchronisation: pages of one row make every object take several pages; the
  first object is done while the second is not; two tasks contend for the gate
  and are prepared while the other one works; a single change by others falls
  between any two calls. Row 2 is too large for a page in SQL (the task fails),
  row 1 clashes with a row of others. In MongoDB no document is too large in
  `data_sync`, and one is in `data_sync_mongo`. The last object of the SQL engines
  has the keys that can go wrong and the first has not: what `CompletedIsComplete`
  says of the first must hold whatever the other does. The texts are in reverse order.
  Identities of several BSON types are for the proofs only.
- Files: an upload beside a save, an upload or a download to the same name is
  where targets are seen, moved aside and rolled back by two; one change by others
  comes at any time. Both have a permit, else they would not meet; that one waits
  for the permit of another is therefore in the proofs (any `MaxConcurrent`) and not
  in this run.

The check for deadlock is off where the system really comes to rest: in `data_sync`,
`data_sync_mongo`, `data_sync_text`, `ssh_files` and `ssh_save_race` each task or
transfer begins at most once and all are over in the end; `sql_pool_retry` uses up the
saves of its bound. That nothing rests half way is what `ComesToAResult` and
`EveryTransferEnds` say.

## Fairness

Assumed is only what the runtime gives:

- A future that can go on does: tokio and smol wake every ready task, and
  `record()`, `evict` and lifecycle calls have no unbounded wait of their own. Their
  steps are weakly fair.
- Locks that many wait for are served in turn (tokio and futures mutexes queue
  their waiters, a parking_lot mutex hands over after a while). Where another
  actor may take the lock in between, a step that waits for one is strongly fair:
  each timer of `ClipHistory`, the waits of `SqlPoolCache` and `TunnelRegistry`.
- A build, a handshake and the preparation of a transfer end: they have timeouts
  (`READY_TIMEOUT` of 12 s for tunnels, the connect timeouts of the pools,
  `CONNECT_TIMEOUT` of 15 s and a request timeout of 20 s for SFTP). Of a query on a
  pool nothing is assumed: it may run for ever, and `RequestsAnswered` asks for the
  pool or an error, not for its end.
- A call of a database in a synchronisation returns or fails (the drivers' connect
  and query timeouts, and a connection that is lost is an error), and a request over
  SFTP is answered or fails after its timeout: `Execute` of each task and each transfer is
  weakly fair as a whole. Which outcome it is remains free. Reading an
  object for ever is possible when its keys are rounded, and `ComesToAResult` excepts a task
  that stays with such an object. Permits of the semaphore
  are given in turn.
- Nothing is assumed of users, of crashes, of ssh children, nor of a copy that is
  not cancelled: it may hang with its permit, which is why `StopsInTheEnd` has to
  hold for those that wait behind it.

## What is proved

The theorems hold for every value of the constants that satisfies the named
assumptions of the modules (bounds positive, `None` outside the data).

**ClipHistory_proofs** (every environment, colliding fingerprints included):
`TypeCorrect`, `IndexCorrect`, `CacheCorrect`, `TimersCorrect`. `IndexSound` and
`EveryWindowHasTimer` are inductive with the types: every save writes table and index in
one transaction, `put_back` keeps the token its timer knows.

**ClipMedia_proofs** (ordinary environment, `ImagesAlone`: no image has the fingerprint
of another content, while texts and files, with rich text or without, may have each
other's): `MediaInvariant`, `LiveMediaSafe`, `UndoSafe`, `IndexFindsEveryItem`,
`NoDuplicates`. "No live item has lost a file" is not inductive: whoever removes files
looks at references and windows, so that the invariant must say who owns each file.
`MediaInv` does: everything goes by one of its fingerprints, and what is alone by the
primary one; the files of an open window belong to a live item or to a window that does
not close earlier (`CoverInv`, which uses that timers run in order of their tokens);
windows share no path with live items; what pruning by age may take shares nothing with
a window; a capture under way that is of something alone works on a hash nobody has.

**SqlPoolCache_proofs** (any number of requests and generations): types,
`NoStalePool`, `OwnGeneration`, `PoolInv`, `SingleFlight`, `KeptWhileCurrent`. The
key is `LockInv`: a generation that is current has the one build lock it began
with, since `evict` drops a lock only after its generation; therefore whoever
builds for a current generation has excluded all others, and the miss it saw
still holds when it stores (`MissInv`). `Implements` is the refinement of
`PoolPromise`, step by step. It needs what `LateInv` and `OneSharedPool` add
(`SharedInv`): who is about to keep the pool it built has lost its generation, and who works on a
pool of the current generation works on the cached one, also `AllShare`. That a
pool, once shared, is so until its generation ends (`KeptStep`, `PoolIsKept`) makes every
hit and every settled build a `Take`.

**SshTransfers_proofs** (any number of tasks, profiles, calls and terminals, any
limits): `TypeCorrect`, `HandlesCorrect`, `RunningCorrect`, `StaleCancelled`,
`NoStaleTerminalStarts`. The inductive invariant is the queue's
(`HandlePerActive` and `RunningIsExecuted` need each other: a call that cancels a
task must know whether somebody executes it) with the types and, for
terminals, `TermInv`: one whose profile has changed since it read it has a
generation that has ended, or the change is still before the terminal policy.
The order of the code carries it: `terminal_command` takes the generation before the
profile, `save_profile` stores before it advances.

**SshQueue_proofs** (the same): `QueueBounded` and `OldestArePruned`, an action
property that no run has (TLC agreed once on the instance of `ssh_transfers`). The queue
keeps the tasks that are present, each once, in the order in which they
were added: the operator `InOrder` numbers them by counting, and the
lemmas show that this numbering is a bijection between positions. Of the history,
the tasks that stay after `Prune` each have at most `MaxHistory` finished
tasks that are not older, so the oldest of them bounds their number.

**DataSync_proofs** (any numbers of tasks, objects and rows, any page size, any rows
too large, any kinds and orders of keys, any changes by others): `TypeCorrect`,
`GateExclusive`, `WritesConfirmed`, `CancelIsSafe`, `CompletedHasAll`, `Implements` (the
refinement of `SyncPromise`) and `OnlyAdds`. None has an assumption beyond those of the
constants; what is said of completeness is said of the objects for which
`PagesReachAll` holds. `FullInv` is inductive: whoever executes has the gate (`GateInv`);
what a task was shown, or has created, exists (`StructInv`); rows in hand belong
to the step it is at and were offered by the source (`HandInv`). Completeness rests on
`Accounted`: each steady row up to the last identity read is in the target, still to be
fetched, or in hand. Every action moves rows between the three, and none out of them,
except by failing; the last page of an object leaves only the target. A page of an object
that is read without a gap is a prefix of what is ahead (`UpToIsPart`, `SameRows`) and
its keys are the identities themselves (`Exact`, `KeysAreIds`), which is where the
condition is used; `data_sync_mongo` and `data_sync_text` show that it is needed.
`OnlyAdds` needs it nowhere: whatever documents and keys there are, no row of the
target is ever replaced or removed, and a row that is written has a key that the source
gave (an action property of the proofs only; TLC agrees on the instances of the runs).

**TransferEngine_proofs** (any number of transfers, permits and changes): `TypeCorrect`,
`FilesAreWhole`, `OriginalKept`, `NeverReplaces`. `FilesAt` says that whoever commits
has a complete temporary file, and whoever may have to roll back has moved something
aside. `Kept` strengthens `NeverGone` to be inductive: if the remote name is free, the
file is aside with a transfer that is not just about to remove it. It holds because
`RemoveBackup` comes only after `MoveIn`, and whoever empties the name again has moved
that file aside itself.

**TunnelRegistry_proofs** (any finite numbers of connections and threads, any slots
and children): `TypeCorrect`, `RegistryBounded`, `ChildrenOwned`,
`DetachedByClosersOnly`, `WantedReturned`. It starts with what a reference count
says: a slot without references is known to nobody (a new slot collides with
none), one with two, from the map and the thread that asks, to nobody else (a
clean-up takes it from no other thread). The invariant adds to the properties
that who builds holds the lock of its slot and has emptied it (`BuildInv`), so
that a finished tunnel replaces nothing, and that a closer that is done has
nothing left (`CloseInv`), so that an eviction adds to what will be stopped.

**What the refuted properties lack.** Three of the runs that find a violation are
answered by a theorem that says which step is to blame: with that step excluded,
and nothing else, the property holds for all values of the constants.

- `OnlyTheWindow`: `SavesWhatItSaw` holds if nobody changes the remote file between a save's
  last look and its move (`MovedAsSeen`); moving, committing and rolling back are right.
- `NoneForgotten`: `NoOrphanTunnel` holds if no slot leaves the registry while a
  call waits for it or builds in it (`StaysRegistered`).
- `FreshUnlessPinnedOld`: `FreshConfig` holds if a generation is pinned with
  the saved configuration only (`PinsSaved`), by retries as by first requests.

They are stated as `Spec /\ [][A]_vars => []P`. TLC, given A as an action constraint on
the configuration of the violation, finds none and still reaches 30,234, 2,583
and 24,453 states: the hypotheses do not stop the system. The condition `PagesReachAll`
is the same for `data_sync_mongo` and `data_sync_text`, and the ordinary environment for
`clip_scan_race`.

## What is only model-checked

- Liveness under fairness (`WindowsClose`, `RequestsAnswered`, `EveryCallReturns`,
  `StopsInTheEnd`, `ComesToAResult`, `EveryTransferEnds`): out of the prover's reach, like ENABLED.
- The refutations, by their nature.

Every safety invariant and every action property of a passing run, and both refinements,
are stated by a theorem.

## What the runs found

Each is a disagreement between code and what its comments promise, with a trace
of the run named.

- `clip_scan_race`: the start-up orphan scan takes as referenced only what the
  table refers to; the media of a deletion whose undo window is open are removed
  and undo brings back an item without them.
- `sql_pool_retry`: a read that is retried after its connection was saved pins the new
  generation with the old configuration, and the pool it builds is served to
  requests with the new one.
- `tunnel_leak`: `ensure` puts a tunnel into a slot that `evict` has removed; its
  ssh child is known to nobody and runs on.
- `data_sync_mongo`: a page whose first document exceeds the byte limit comes back
  empty and marked as truncated; the synchronisation takes it for the end of the
  collection, and the task is reported as completed without that document
  and those after it. The SQL side reports an error there.
- `data_sync_text`: identity columns of PostgreSQL whose type the program does not
  know (enum, inet, citext and others) are selected as `CAST("c" AS TEXT) AS "c"`; `ORDER BY "c"`
  sorts by that text, `WHERE "c" > literal` continues by the native order. Rows between
  the two orders are never read, and the task is reported as completed.
- `ssh_save_race`: a save compares the remote file with what the editor had opened
  and then moves aside and removes whatever is at its name: a change in between is lost.

Observed while modelling, without a run of their own:

- `remove_unused_slot` (ramag-infra-tunnel, lib.rs:178) waits for a slot with the registry
  locked; while another call holds that slot across its handshake, calls for
  every connection wait, although lib.rs:138 says a handshake locks only its own.
  They all return (`EveryCallReturns`).
- `delete_profile` blocks the terminals of a profile and nothing in the program
  unblocks them: saved again from a form that was open, the profile is refused
  terminals until the program is restarted.
- `_id: {$gt: last}` compares within one BSON type only: a collection whose
  identities are of several types ends after those of the first
  (mongo_sync/support.rs:17-28; README.md:176 of the repository claims BSON semantics).
  `NothingMissed` fails there as well, hence the second half of `PagesReachAll`.
- MySQL's ENUM and SET have the two orders of `data_sync_text` too: sorted by index,
  compared with a literal as texts (identity.rs:12-30).
- TIME is decoded without its fraction by both SQL drivers (ramag-infra-postgres, types.rs:59;
  ramag-infra-mysql, types.rs:85). A key of 12:00:00.5 is carried as 12:00:00, the page
  after it begins with the same row, and no loop of sql_sync.rs:201-355 looks for
  progress: the task reads that page until it is cancelled. `ComesToAResult` without
  its exception fails in `data_sync`.
- Undo compares the rich text (media_ops.rs:248), capture and the fingerprint do not
  (clipboard_service.rs:359-362, 411-417): delete a text with rich text, capture it
  plain, undo. The history then holds the text twice, and the plain item has lost its
  entry of the index to the restored one. `IndexComplete` and `UniqueContent` without
  `Alone` fail so.
- A copied file and a text that is its path share a fingerprint (clipboard_service.rs:400-409)
  and match neither at capture nor at undo: undoing the one after the other was captured
  takes its entry of the index, and the next capture of it is stored as a second item.
- README.md:173 of the repository lists Redis among the synchronised engines; the code has
  no scope for it and the dialog refuses it (data_sync_dialog.rs:456).
- `prune_history` goes by the order in which tasks were added, not in which they ended:
  a transfer that outlasts `MaxHistory` younger ones is not in the history when it ends,
  its outcome is not shown (`OldestPruned` allows it).
- A download that is cancelled while the remote file is being opened leaves its
  local temporary file (transfer.rs:334 and 347 return with `?` before the clean-up), and
  a failed creation whose request was carried out leaves the remote one.
- A rename to the backup that was carried out and reported as failed is not rolled
  back: the old file stays under the name of the backup (`NeverGone` allows it). If
  only the removal of the backup fails, the transfer is reported as failed with its
  file in place.

## What is not modelled

Rendering, input and the operating system's part of clipboard, tray and hot
keys; SQL, BSON and Redis data, parsing and the drivers behind the pools; git
operations; encryption and serialisation; the JumpServer API. Most of the
program by lines is of this kind: views over single calls, and conversions.

In modelled parts: pruning by count and age except as a step that takes settled
items, search, text updates and the index repair of an old database (history);
the capability cache, production mode and workspace preferences (SSH);
the permits, sizes and deadlines of production downloads and the contents
of an archive (transfer engine); the generation of the gate (a preflight is started at most
once, so that a late call of an old task finds another task or none), the comparison of
definitions, namespaces, enums and foreign keys, and the numbers shown as progress
(synchronisation). The comparison of target definitions at the start is modelled as
that of which objects exist. Errors of storage or network that leave
everything as it was are stuttering steps in the modules other than `DataSync` and
`TransferEngine`, where they are actions.

State that is shared and not modelled: the sessions of the SSH driver
(`connection.rs`: connect locks, invalidation), the pools of Redis with their
LRU bound and the clients of MongoDB, account revisions and listing cursors of the object
storage, the mirrors of the clipboard settings, the update check, the worker pools.
Each is named with its reason in `PROJECT.json`.

## How it was built, and what could follow

The order was that of what a failure costs: the history and its media, the
caches and tunnels that every query goes through, the SSH queue and its profiles,
then the two components that write data of others, the synchronisation
and the transfer engine. Properties of a run were settled with TLC before they were proved.

What would add most next: `SqlPoolCache` composed with `TunnelRegistry` (an eviction drops the
pool before the tunnel), the sessions under `TransferEngine`, the object storage
(a request uses the revision of the account that it read, or fails).
