# Slipspace in TLA+

Slipspace shows a remote workspace as a local directory. A client keeps copies
of remote files in a cache, writes to the cache at once, and uploads deltas in
the background; a daemon on the server puts a FUSE file system over the real
directory so that server-side programs cannot use a file while the client holds
newer bytes. This directory holds TLA+ modules of the protocol between the two,
of the signal connections, the client's cache, the server's name tables and the
daemon's handling of the workspace directory, TLC configurations that check them
on small instances, and TLAPS proofs for all instances.

Sources are named by file: *client* is `src/slipspace-client/src`, *server* is
`src/server-daemon/src`.

## 1. Inventory

| Part | State | Operations | Talks to |
|---|---|---|---|
| client FUSE loop, `fs.rs` | inode tables, `sftp`; shares `dirty_files`, `versions`, `pending_ignores`, sender `tx` | `lookup`, `open`, `read`, `write`, `release`, `setattr`, `create`, `unlink`, `rename`, `mkdir`, `rmdir`, `readdir` | SFTP to the server's FUSE loop; the channel to the sync thread; DIRTY |
| client cache, `cache.rs` | LRU table and total size, the `DIRTY` connection | `add_file`, `touch`, `update_size`, `remove`, `rename`, `evict_if_needed`, `mark_dirty` | called by the FUSE loop only |
| client sync thread, `sync.rs` | its connection | one pass per queue entry | PATCH, CLEAN |
| client invalidation listener, `signal.rs` | its connection | SUBSCRIBE, INVALIDATE | removes cached copies |
| client start and shutdown, `main.rs` | SSH session, tunnel | auto-install, Ctrl-C | SHUTDOWN |
| signal server, `tcp_server.rs` | `dirty_files`, subscribers, connection count, per-connection `client_locks` | DIRTY, CLEAN, PATCH, SUBSCRIBE, SHUTDOWN, disconnect, watchdog | backing store, `restore_workspace` |
| server FUSE file system, `fs.rs` | inode and handle tables | every FUSE operation; the dirty check; `invalidate_client` | backing store, INVALIDATE |
| workspace swap and restore, `main.rs` | target directory, backing store, mounts | start-up, `restore_workspace` | the kernel |
| `metadata.rs` (both) | none | attribute conversion, zero time to live | |
| `test_rsync.rs` | none | a demonstration of `fast_rsync` | |

`fast_rsync`, `fuser`, the kernel, SSH and SFTP are external.

What is hard here:

* *Threads with many small locks.* The FUSE loop, the sync thread and the
  listener each take one mutex, let it go, touch a file, and take another.
  Whether a write is uploaded depends on the order of `fs::write`, `dirty`,
  `versions` and `tx.send` against the sync thread's reads of the same four.
* *Three connections.* DIRTY, PATCH/CLEAN and INVALIDATE travel separately, and
  SFTP is a fourth way. Nothing orders one against another.
* *Deltas.* A PATCH is only right on the bytes its base was taken from.
* *Self-invalidation.* `pending_ignores` tells the client's own changes from
  those of others, with a set of paths filled before the request is made.
* *Connections that break.* Locks belong to connections, not to clients: the loss
  of an old connection and the reconnection are handled by different threads in
  any order. A broken subscription loses invalidations.
* *Bookkeeping beside the files.* The LRU table beside the copies on disk; the
  inode tables, the locks and the broadcasts, which go by path, beside files that
  move; the offset of a listing beside a directory that changes.
* *Crashes and overlapping restores* between the calls of the swap.

What makes each part correct:

* client: an upload that ends in CLEAN carried every completed write; a dirty
  file always has somebody who will upload it; an open, an eviction or an
  invalidation never destroys a dirty copy; a settled cached copy is the
  server's bytes.
* server: a settled file is locked exactly while the client has unsynced
  changes; only PATCH changes a locked file.
* together: once a path has settled, the backing store holds what a user last
  put there; a dirty file becomes clean.
* signal connections: no lock outlives the connections that set it; the count that
  the watchdog samples is exact; a deserted daemon leaves.
* client cache: the total is the sum of the entries, eviction ends, and only dirty
  files keep the cache over its limit.
* server tables: two numbers never name one path; a lock lets through at most the
  request that was already past its check; every change is broadcast unless a lock
  came meanwhile; a listing is complete.
* workspace: the users' files are in exactly one of target and backing store,
  a restore puts them back, and one that nothing has crossed does no harm even where
  others overlap.

`PROJECT.json` lists the hazards by line, with the properties that cover them. A hazard
whose failing case every property leaves out names none, and a note says what the
code does there.

## 2. Modules

| Module | Models | Code |
|---|---|---|
| `SlipState` | constants, variables and types of one client and one server; `Settled` | shared state of client `main.rs` and server `main.rs` |
| `ClientFuse` | the FUSE loop's handlers and the parts of the cache they call | client `fs.rs`, `cache.rs` |
| `ClientSync` | a pass of the sync thread | client `sync.rs` |
| `ClientSignal` | the handling of INVALIDATE | client `signal.rs` |
| `ServerDaemon` | DIRTY, CLEAN, PATCH; the server's FUSE loop | server `tcp_server.rs`, `fs.rs` |
| `SlipSync` | the composition, `Spec`, `FairSpec`, all properties | |
| `SavedFiles` | what the users are promised: one store of saved files, without threads, caches or messages; `SlipSync` implements it | `README.md` |
| `Connections` | the signal connections of several clients: breaking, reconnecting, locks per connection, the count, the watchdog, SHUTDOWN | server `tcp_server.rs`; the sending parts of client `cache.rs`, `sync.rs`, `main.rs` |
| `FileCache` | the LRU table, its total and eviction, over copies on disk | client `cache.rs`, the handlers of `fs.rs` |
| `NameTables` | the server's inode numbers, handles, listings, dirty check and broadcast over files and directories that move | server `fs.rs` |
| `Workspace` | start-up swap and `restore_workspace`; its properties | server `main.rs`, and the restore calls of `tcp_server.rs` |
| `WorkspaceOverlap` | `Workspace` with the history that says which starts and restores others have crossed; no behaviour of its own | |
| `TurnTaking` | the inductive invariants of `SlipSync` while users take turns; no behaviour of its own | |
| `MCSlipSync` (extends `TurnTaking`), `MCConnections`, `MCFileCache`, `MCNameTables`, `MCWorkspace` | symmetry, definitions and a view for TLC | |
| `SlipSyncProofs`, `TurnTakingProofs`, `ConnectionsProofs`, `FileCacheProofs`, `NameTablesProofs`, `WorkspaceProofs`, `WorkspaceOverlapProofs` | theorems about them | |
| `SetInduction` | induction and recursion over the natural numbers in the form the proofs of `FileCache` and `NameTables` use | |

### SlipSync: how state and actions correspond

`local` and `base` are the cached copy and the `.base` copy of a file, `backing`
the file in the backing store. Bytes are abstracted to a number: 0 is empty,
each mutation by a user draws a fresh one, and `Torn` is a file to which a delta
of other bytes was applied. Two different numbers may or may not have equal
sizes, so `OpenStat` may or may not notice a difference. `dirty`, `versions`,
`ignores` and `queue` are the client's `dirty_files`, `versions`,
`pending_ignores` and channel; `srvDirty` is the server's `dirty_files`.
`Resubscribe` breaks the listener's connection: a suffix of what is in flight is
lost. What is broadcast before the next SUBSCRIBE is handled is sent and then lost
by a further break, so that no state is needed for the gap.
`fuse`, `sync`, `lsn`, `srv` and `patcher` say where each thread stands, with
the local variables it still needs. `fuseSig`, `syncSig` and `inval` are the
three connections.

The FUSE loops serve one request at a time, so a handler runs from `fuse = Idle`
back to `Idle`; each action in between is one access to something another
thread or the server also uses. The order of the actions is the order of the
statements: `write` is `WriteData`, `MarkDirty`, `SendDirty` (only if the path
was not dirty), `WriteBump`; `setattr` is `Setattr`, `Enqueue`, `MarkDirty`,
`SendDirty`; a sync pass is `SyncRecv` (entry and version), `SyncReadBase`,
`SyncReadLocal`, `SyncSendPatch`, `SyncSaveBase`, `SyncCheck`, `SyncClear`,
`SyncSendClean`. A server handler is `RemoteBegin` (the dirty check),
`SrvApply`, `SrvInvalidate` (the second dirty check and the broadcast). The
client's SFTP requests go through the same loop.

`Env` says what users and disk may do, so that each run and theorem names the
conditions it needs; `SlipState` documents its members. The central one is
`"overlap"`: without it, users act on a path only once everything about it has
`Settled`.

Merged steps: the lookup the kernel makes before an operation and the
operation's first step; the two reads in `open` (does the copy exist, is it
dirty); the removal of the copy and the entry in `pending_ignores` in `unlink`;
the reading of a queue entry and of its version; the eviction after a write and the
raising of its version (`WriteBump`); and `fs::write` of a whole file in PATCH. What another thread does between two merged steps it can also do
just before or after them, except that a server-side reader of a half-written file
is not modelled. `OpenFetch` reads the file as it is then, or as it was at the
SFTP open if it has been unlinked. Evictions take any set of files that are not
dirty, more than LRU order would. `seen` and `latest` are history and steer
nothing; `nextId` only numbers, and bounds, the mutations.

### SavedFiles: the refinement

`saved` is `latest`, `stored` is `backing`. A step of `SlipSync` that raises
`latest` alone is `SaveAtClient`; `PatchWrite` must be `Receive`, the arrival of
the *whole* of the last save; `SrvApply` is `SaveAtServer`, which is allowed only
over a file that has arrived. Everything else is a stutter. The property says
more than `NoLostUpdate`, which looks at settled paths only: it forbids an
intermediate content on the server at any moment.

### Connections: how state and actions correspond

Connections are numbered in the order they are made. `link` says whether one
holds, `wire` what the server has not read, `thread` where its thread stands,
`locks` its `client_locks`; `dirtyFiles` and `count` are the two things the threads
share. `fuseStream` and `syncStream` are the `Option<TcpStream>`s of a client's FUSE
loop and sync thread.

`MarkDirty` is `mark_dirty`: it writes, or connects and resends all of
`dirty_files` in any order, or gives up and leaves the path dirty. A pass of the
sync thread is `SyncPatch`, `SyncCheck`, `SyncClean`, for any path at any time, which is
more than the queue would give; the first two attempts at a
PATCH and the retry at a CLEAN have the outcomes of `sync.rs`, among them that a
failed PATCH does not stop the pass. A write on a connection that has just broken
may seem to succeed: `Break` cuts `wire` anywhere, and `NotWritten` is what the
client notices. A partial line at the cut is dropped by the model; the code would
handle a cut DIRTY as a lock on a shortened path until the thread's own clean-up.
A server thread is `CountUp`, the `Handle...` actions, `Cleanup`, `Uncount`. `Quit`
is Ctrl-C in one step: SHUTDOWN on a connection of its own, which may be refused, and the
process's end, which closes its other connections. What its FUSE loop and sync thread
may still send between the two is taken to have been sent before. The listener's connection is left out: it holds no lock, and
the watchdog with fewer connections is the harder case.

One client is enough for the run, because nothing on the server knows a client: two
clients differ from two streams of one only in whose `dirty_files` is resent. The
theorems are for any number of clients.

### FileCache: how state and actions correspond

`lru` is the table, least recently used first, `total` is `current_size`, `held` is
`to_restore`, `copy` the sizes of the copies on disk. A file's content is its size.
`evict_if_needed` is a loop of `EvictOne` steps that ends in `EvictEnd`, so that the
sync thread (`SyncClear`) and the listener (`Purge`) come between its turns. `Purge` is one
step, its look at `dirty_files` and the removal of the copy; no property of the table
depends on what comes between (`SlipSync` has the two). Handles of one path are one
here, since `release` only tells whether the path is still open. The
handlers of the FUSE loop wait, since the loop runs in one of them. `Put` is
`LruCache::put`: the old entry goes, the new one is the most recently used. `Sum` adds
the sizes up by a recursive function. Each handler
that touches a copy or the table is an action; those that change a copy and not
the table (`Create`, `Setattr`, `Unlink`, `Rename`, a failed download `OpenCut`)
note it in `untracked`, which is history like `kept` and `newest`.

### NameTables: how state and actions correspond

`entry` says what is at each path, `bytes` what is in each file; `inodes` and `paths`
are the two maps of `get_inode`, `handles` is `open_files`, where a handle holds its
file, not its path, as a file descriptor does. A request names an inode number or a
parent's number and a name, and the handler goes by the path it finds for it.
The loop serves one request at a time, but the signal server's threads change
`dirty_files` and the backing store under it, and a handler lets go of the lock of
`dirty_files` each time it has looked. So a handler is three steps or more: the check
(`OpenBegin`, `WriteBegin`, `NameBegin`; `RenameBegin` and `RenameCheck` for the two
paths of a rename), the effect with the reply (`Open`, `Write`, `Lookup`, `Mkdir`,
`Unlink`, `Rmdir`, `Rename`, `Create`), and `Invalidate`, which looks again and broadcasts,
once for each path. `req` is what the loop is at. `Fail` ends a handler at its check or
its effect with an error. `req.raced` (paths of the request for which DIRTY
came since the check) and `req.changed` (what it has changed and not broadcast) are
history. One step each, although another thread might come between: the effect of a
handler with the `metadata` after it, which is taken to succeed; the reading of a whole
directory; and PATCH. `listing` is
one directory stream with the user's offset and what it has returned so far;
`news` holds the broadcasts of the last step. A buffer that is full after `room`
entries has had the next one numbered already (`Readdir`). `Ordered(S)[i]` is what
`read_dir` gives of the names in `S` among the first `i` in its order, `Numbered(ps)[i]`
the two tables after `get_inode` for the first `i` paths of `ps`: recursive functions,
for the two loops of the handler.

### Workspace: how state and actions correspond

`target` and `backing` are absent, empty or full; `mounts` is the stack of FUSE
mounts on the target, whose entries become `"dead"` with their daemon. `main`
and `rest` say which call of start-up and of each `restore_workspace` comes next
(restores run in the Ctrl-C handler, the watchdog, a SHUTDOWN thread, or the
`--restore` command); one action is one file system call, in the order of
`main.rs`. `Unmount`, `RemoveTarget`, `CanMove` and `TargetExists` say what the
calls do on a path with mounts: a `remove_dir_all` through a mount empties the
backing store and fails on the mount point; a rename fails on a mount point or
onto a directory that is not empty. Daemons crash (`Crash`), restore commands
die (`RestoreCrash`), the machine restarts (`Reboot`) between any two calls.
`MainReturns` is the return of `fuser::mount2` after an unmount. A
`remove_dir_all` is one step; a crash within it leaves a directory between full
and empty, which is no better than what the model already checks for.
The daemon's port plays no part: a second daemon that cannot bind it panics in
the listener thread only, and `main` goes on.

### WorkspaceOverlap: what remains true when everything overlaps

With `"restores"`, `"starts"`, `"unmountFails"` and `"bareUse"` in `Env` the files can be
lost (section 3). `WorkspaceOverlap` says by whom. It adds to `Workspace` two variables of
history and no behaviour: a start or a restore is *crossed* when, while it is under way,
another party creates or removes the target, the backing store or a mount, or when its own
unmount leaves a mount. `Findable` says that the next start or restore finds the files and
does not delete them. `OnlyCrossedHarm`: a step that makes them not findable is one of a
crossed start or restore, or a save by a user into the bare target beside a backing store.
So a start or restore which nothing has crossed does no harm, even where others are
under way, have died half-way or have failed. That is more than its single steps show: `remove_dir_all`
is harmless only because of what the same execution found or did several
steps before, and because nobody has undone it since.

## 3. Runs

### Runs that pass

| Run | Instance | Shows |
|---|---|---|
| `overlap` | 1 file, 1 handle, 2 mutations, every kind of environment but truncation by path, subscriptions lost | `TypeOK`, `DirtyHasOwner`, `CheckedSnapshotIsCurrent`, `DirtyCopyKept` under free interleaving |
| `turn_taking` | 1 file, 1 handle, 5 mutations, queue 2, users on both sides take turns | `NoLostUpdate`, `CacheCoherent`, `ImplementsSavedFiles`, and `TurnInv`, the invariant that proves them |
| `two_files` | 2 files, 3 mutations, evictions, turns per file | `NoLostUpdate`, `CacheCoherent`, `ImplementsSavedFiles`, `NoUnlockedDirty`, `LockInv` and `DirtyCopyKept`, with the files in different phases |
| `liveness` | 1 file, 2 handles, client users overlap, fair threads | `DirtyIsSynced`, and `DirtyHasOwner` and `CheckedSnapshotIsCurrent` when a release meets another handle's write |
| `connections` | 1 client, 1 file, 3 connections that break, are refused and made again, fair server threads | `TypeOK`, `LockHasHolder`, `CountExact`, `LostLocksGo`, `DesertedDaemonLeaves` |
| `file_cache` | 2 files of sizes 0 to 3, limit 2, left-over copies | `TypeOK`, `TotalIsSum`, `CopyAccounted`, `OverLimitOnlyDirty`, `NewestGoesLast`, `EvictionEnds` |
| `name_tables` | 2 names at the top, 1 below each, 1 file at a time, 2 numbers besides the root's, 1 handle, 1 lock or a listing | `TypeOK`, `TablesAgree`, `ListingFaithful`, `LockedFileStays`, `ChangeIsAnnounced` |
| `workspace` | 2 daemons, 2 restores, one at a time, crashes and reboots | `TypeOK`, `DataKept`, `RestoreCompletes` |
| `workspace_overlap` | the same, overlapping, `fusermount3` may fail, users in the bare target | `OnlyCrossedHarm` |

Bounds. `MaxId` bounds mutations: `overlap` has two, enough for one write to
meet the upload of another, which is what the races need; `turn_taking` has
five, enough for write, sync, remote change, purge and a further write. The
queue and the connections hold two or three messages; a pass sends two (PATCH,
CLEAN), and a user operation at most one DIRTY. `MaxHandles` 2, in `liveness`, is needed
for a release beside a write; more handles repeat that, and where users wait
for a path to settle there is never a second. Two paths are enough to share
the queue and the loops, since no action relates three. In `connections`, three connections let one
break, be replaced, and the replacement break, or both streams and the SHUTDOWN be
open at once; `Patience` 2 stands for the watchdog's six samples. In `file_cache` sizes up
to 3 over a limit of 2 make one file evict the other, itself, both or neither. In
`name_tables` four paths let a directory with a file in it move onto another name
while a lock, a handle or a listing refers to either; the third inode number is
where a number outlives its file. The run's constraints leave out what repeats the rest:
`ListedAlone`, a listing while something is locked or open (`readdir` asks for neither; files
still come by PATCH, directories by `mkdir`), and `Hopeful`, a request by name that finds
nothing at its path, or no directory to make it in (it fails). One lock
at a time is enough, since each property is about one path and a handler looks at
one path at a time. States that differ only in `news`, in what a listing has seen
once nothing is asked of it, in the bytes while there is a listing, or in the history of a
request then or if it only reads, are one (`VIEW`): no guard reads any of these, and the
action properties look at each step. Two daemons and two
restores are enough for one to act on what the other changes; `MaxMounts` 2
allows a mount on a mount.

`CHECK_DEADLOCK FALSE`: users may stop, and every bound on mutations is reached
in the end; `SlipSync` then rests. In `Workspace` the machine may always restart,
so its runs keep the check. In the other three, clients may stop and the bounds on
connections and numbers are reached.

Fairness (`SlipSync!Fairness`): weak fairness for each thread separately: the
client's FUSE loop once it has a request, the sync thread, the listener, the
two signal connections' threads, and the server's FUSE loop. Each is an OS
thread that blocks only on a message, a mutex held for a moment, or a reply,
and the actions' guards say exactly when it is not blocked. Users are not fair:
nobody has to close a file. `Connections` is fair to each server thread
(`ThreadStep(c)`) and to the watchdog's timer (`Watch`), not to clients, who may stop
or reconnect for ever. `FileCache` is fair to the loop of `evict_if_needed` alone.
`Workspace` and `NameTables` claim nothing live.

### Runs that find a violation

Each states what a doc or a comment says and finds a behaviour of the code
against it.

| Run | Property | What happens |
|---|---|---|
| `v_lost_update` | `NoLostUpdate` | a write lands between the sync thread's version check and its removal from `dirty_files`; it is not in the upload, and its release finds the file clean |
| `v_lost_lock` | `ResentLockHeld` | a client's connection is lost, it connects again and resends its locks, and then the server's thread for the old connection removes them ("Clean up stale locks for this client") |
| `v_restore_cut` | `RestoreNotCut` | the restore's unmount makes `mount2` return, `main` ends the process |

More that the models contain and no run is spent on:

* DIRTY may be handled after its own PATCH and CLEAN, which came by another
  connection: the file is clean and locked for good.
* `setattr` by path (`"pathTruncate"`) queues first and marks dirty after. A quick
  pass in between leaves the file dirty and locked with nobody to queue it
  (`DirtyHasOwner`); the theorem `DirtyNeverOrphaned` assumes it away.
* A file that is not cached is truncated to a size above zero: the missing copy is
  uploaded as an empty file. The same happens to a file that is open, evicted,
  and then truncated through the handle. This is why `turn_taking`
  truncates but does not evict, and `two_files` evicts but does not truncate; both
  leave out `"pathTruncate"`, and `"overlap"` for the reason `v_lost_update` shows.
* A lost subscription (`"resubscribe"`) breaks `CacheCoherent`, and `NoLostUpdate` even
  when users take turns: a server-side write's INVALIDATE is lost; the new file has
  the size of the cached one, so `open` keeps the stale copy; the client user
  saves, the PATCH is a delta on the stale base and cannot be applied, and CLEAN
  follows all the same. `overlap` and all theorems about `SlipSync` include it.
* CLEAN may follow a newer DIRTY, which went by another connection, and unlock a
  changed file; `NoUnlockedDirty` therefore needs turn-taking.
* `pending_ignores` is a set. Two of the client's own operations on a path in
  quick succession (unlink, create) make one entry and two invalidations, and the
  second purges the cache. An entry whose request was refused stays, and swallows
  a later invalidation by another user. `CacheCoherent` therefore needs
  turn-taking, too.
* The listener removes the cached copy after it has let go of the lock under which
  it saw the file clean; `DirtyCopyKept` excepts it by name.
* The server's `setattr` asks `dirty_files` nothing and broadcasts nothing
  (`RemoteSetattr`).
* The server's `lookup` rejects every locked path, the requests of the client that
  holds the lock included (`LookupFinds`).
* `Connections`: a PATCH that cannot be sent is followed by the version check and by
  CLEAN all the same, and the change is dropped (`SyncPatch`). A CLEAN resent on a
  new connection may be handled before the PATCH on the old one. A CLEAN that is
  refused leaves the lock until the FUSE loop's connection ends. A path marked
  dirty while the server could not be reached is not locked until the next newly
  dirty path makes `mark_dirty` connect again. Any client's SHUTDOWN ends the daemon
  for all, and any client's CLEAN unlocks another's lock. The watchdog may sample
  in the gaps of a client that reconnects.
* `FileCache`: copies of an earlier session are in no table. An entry whose copy was
  unlinked or purged stays and counts. `create` and `setattr` leave the size as it
  was until the next `write`. A clean file may be evicted while it is open, by the
  download that opened it if all else is dirty: the next `read` answers `EIO`.
* `NameTables`: a DIRTY handled between a handler's check and its effect does not stop
  the effect, so one change by a server-side user reaches a file that is locked by
  then; and when it is handled before the handler's second look, this change is
  broadcast to nobody. Both properties allow for that one request (`raced`) and say that there is no other.
* `NameTables`: what `PastCheck` lists reaches a locked file, or changes one unannounced:
  the server's `setattr`; a handle whose file has been renamed, since `write` checks the
  path its inode number had; the renaming of a directory above the file.
  (PATCH is meant to.) A PATCH for a path whose directory has been renamed fails
  silently. An entry removed between two calls of a listing makes the next call
  skip one, an added one may be returned twice.
* In `Workspace`, two restores at once (`"restores"`): one finds the backing store, another
  renames it to the target, and the first removes the restored target, cannot rename and
  prints "Restore complete." (`DataKept` and `RestoreCompletes` fail). A start that
  overlaps a restore or another start removes a target that has just been restored
  (`"starts"`), and a restore whose `fusermount3` fails empties the backing store
  through the mount that is still there (`"unmountFails"`): both break `DataKept`. Files
  put into the bare target beside a backing store (`"bareUse"`) are deleted by the next
  start. `OnlyCrossedHarm` says that there is no other way.

## 4. Proofs

All theorems hold for every value of the constants under the `ASSUME`s of the
modules (the environment is a set of the listed kinds, the bounds are naturals,
those on mutations and on inode numbers positive, the paths of the signal
connections are finitely many, the paths of the name tables are closed under
parent and a directory has a name once, a name is not a daemon). Every safety
invariant and every action property that a passing run checks is also a theorem.

`SlipSyncProofs`:

* `TypeCorrect`: `TypeOK`. It needs `Awaited`: while the server's loop serves a
  request of the client, the client's loop waits for the reply, so `SrvApply` finds
  it where it may go on.
* `SnapshotCurrent`: `CheckedSnapshotIsCurrent`. It is not inductive: the check
  comes several steps after the version was read. `VersionsOrdered` says that
  `start <= seen <= versions` for the file of a pass; as versions only grow, if
  `start` equals the version at the check then so does `seen`. The argument
  rests on the code reading the version *before* the file.
* `DirtyNeverOrphaned`: `DirtyHasOwner`, if `"pathTruncate" \notin Env`. The
  property does not survive a step by itself: a pass that gives up stops owning its
  path. `OwnerInv` has three parts. `ChangeHeld`: while `write` or `setattr` is
  between changing a file and having it marked, a handle on it is open. `Owned`: a
  dirty path has a handle, a queue entry, a release about to queue it, or the sync
  thread. `ChangedIsRequeued`: if the version has moved since the pass began, or the
  path became dirty again after the pass cleared it, one of the first three holds,
  so the pass may give up or end.
* `DirtyCopyIsKept`: `DirtyCopyKept`, for all environments. `OpenSafe` says that
  while an open is between its look at `dirty_files` and its download, the path it
  works on cannot have become dirty, since only the FUSE loop itself makes files
  dirty.

`TurnTakingProofs`, for any number of paths, handles, mutations and messages, if users
take turns. `TakesTurns` says so in terms of `Env`: no overlap, one handle per path,
no truncation by path or at the server, no lost subscription, and not both
truncation and eviction. Section 3 has, for each of these, what the code does without
it; that users overlap is what `v_lost_update` shows. Evictions, server-side writes,
creates and unlinks, and all interleavings of the threads remain.

* `TurnsKept`: `TurnInv`, which is inductive. For each path it says who excludes whom
  (`Excluded`, `OneAnnouncement`, `Named`, `Ignored`) and what each place with bytes
  holds (`ServerHolds`, `ClientHolds`, `DeltasFit`, `DirtyUntilSent`): the server's file
  is the last save, or a thread or a message is on its way to it (`Coming`); the
  base of every delta is what the delta will meet; a cached copy is older only
  while an announcement is still to be heard (`Stale`). `DirtyUntilSent` is needed
  because a changed copy must not be evicted before it is read. A step
  belongs to one path: `UntouchedKeeps` says once what every other path needs for
  its part, so that each thread has a lemma about its own path (`...Own`, `...Steps`) and
  one that it leaves the others untouched (`...Others`).
* `NoUpdateIsLost` (`NoLostUpdate`) and `CachesStayCoherent` (`CacheCoherent`) are
  `TurnInv` at a settled path.
* `LocksFollow` (`LockInv`), without truncation as well: it is inductive, and says
  that a dirty path is locked, or its DIRTY is sent, or `write` is about to send it, and that
  a CLEAN under way is about a path that is not dirty again. It needs from `TurnInv`
  that nothing is uploaded while a handle is open. `DirtyFilesAreLocked`
  (`NoUnlockedDirty`) follows at a settled path.
* `SavedFilesImplemented` (`ImplementsSavedFiles`): initial states map to initial states and
  each step to a step of `SavedFiles` or a stutter. The step that matters is
  `PatchWrite`: by `DeltasFit` the delta fits the bytes, so what is written
  is the whole of the last save.

`ConnectionsProofs`, for any clients, paths, faults and bounds:

* `ConnectionTypes`: `TypeOK`. That the count is a natural number needs the count to be
  exact.
* `CountIsExact`: `CountExact`. The set of counted connections gains or loses exactly one
  member in `CountUp` and `Uncount`, and no other action moves a thread into or out
  of it. This needs `FreshUnserved`: a connection that is not made yet has no thread.
* `LocksHaveHolders`: `LockHasHolder`. Not inductive without `FreshUnserved` either; the
  argument is that `dirty_files` and `client_locks` change together, so that a lock
  removed from one thread's set is removed from the common one as well, which is
  also what loses it in `v_lost_lock`.

`FileCacheProofs`, for any paths, sizes and limit. `CacheInv` is the inductive invariant:
the five properties with `EachOnce` (a path is at most once in the table and the files
set aside together, and nothing is set aside between evictions).

* `CacheTypesHold` (`TypeOK`) and `TotalNeverDrifts` (`TotalIsSum`). `add_file` and
  `evict_if_needed` subtract a size from an unsigned total without a check; that they
  never wrap follows from the total being the sum, and needs `EachOnce`, since the entry
  whose size is subtracted must be one of the summands. It also shows that the guard in
  `update_size` is never needed.
* `CopiesAreAccounted` (`CopyAccounted`), `DirtyOnlyOverLimit` (`OverLimitOnlyDirty`).
* `NewestIsLast` (`NewestGoesLast`): while the loop runs, the file it runs for is the
  last in the table or has been set aside (`NewestLast`).

What a sum over a table of any length does when an entry is added or taken out is a fact
about a recursive function, and needs induction. `SetInduction` has it in a form
without operator parameters: the least number at which a claim fails is a member of a set
(`Least`, from the library's theorem that the order of the naturals is well-founded), and a
recursion is a function that computes each value from the one before (`Recursion`).

`NameTablesProofs`, for any names, order, and bounds:

* `LockedFileStaysHolds` and `ChangeIsAnnouncedHolds`: the two action properties. Neither is
  inductive, since a check and the effect or the broadcast it is for are steps apart. `ReqInv`
  carries what the check found: a path of the request that is locked now is in `raced`
  (`LockedSince`), and what the request has changed is one of the paths that it has yet to
  broadcast, or excused (`ToTell`, `Excused`). HandleDirty is the step that would break
  it, and the proof shows that `raced` is all that it needs. Both also rest
  on `StoreInv`, in which `OnePath` says that a file is at one path at a time: without
  it a write that was checked for one path would change what is at another. `OnePath`
  is kept by `Rename` because what moves under the new name is taken away under
  the old, and by `Create` and PATCH because they take a file that is at no path.
* `TablesStayInverse` (`TablesAgree`) and `TreeTypesHold` (`TypeOK`). `get_inode` keeps the
  tables inverse and takes nothing out (`GetInodeKeeps`); so do any number of
  calls (`NumberedKeeps`, by induction); hence a handle or a listing keeps its path
  (`NumbersKept`).
* `ListingsFaithful` (`ListingFaithful`). Not inductive: it speaks of listings read to the
  end. `ListingInv` says of every moment that what was there throughout has been seen or
  stands after the offset (`SeenOrComes`), and that what has been seen stands before it
  (`SeenPassed`). Where the directory only grows, each entry moves back or stays, where it only
  shrinks, forward (`OrderedGrown`, by induction over the order of the names); so the
  first part survives what is added, the second what is removed, which is
  exactly what the property excepts.

`WorkspaceProofs`:

* `TypeCorrect`: `TypeOK`, which includes that a restoring thread runs only in a
  daemon that listens.
* `FilesKept` (`DataKept`) and `RestoresComplete` (`RestoreCompletes`), if
  `Env = {}`. The inductive invariant `KeepInv` is: at most one start or restore
  is at work (`OneActor`); what it found or did still holds (`StartKnows`,
  `RestoreKnows`), in particular nothing is mounted when it comes to
  `remove_dir_all`; and while there is a backing store, the target under the
  mounts is not full, and at most the backing store is mounted (`Layers`). Each
  of the four kinds in `Env` breaks one of these.

`WorkspaceOverlapProofs`:

* `OnlyCrossedDoHarm` (`OnlyCrossedHarm`), for every `Env` and any number of starts and
  restores. The inductive invariant `Sure` says what a start (`StartSure`) or a restore
  (`RestoreSure`) that is not crossed knows at each call: that there is a backing store, or
  none, that nothing is mounted, or that the target is gone. `KeepInv` cannot be used, as it
  rests on there being one actor; `Sure` rests on the history instead: a step of anybody
  else either leaves what is known as it is or crosses whoever relies on it.

Checked by TLC only: the liveness properties `DirtyIsSynced`, `LostLocksGo`,
`DesertedDaemonLeaves` and `EvictionEnds`, which are out of the prover's reach. The properties
of the runs that expect a violation are false and have no theorem.

## 5. Not modelled, and the plan

Left out for good: attribute conversion, argument parsing, SSH and SFTP set-up,
`test_rsync.rs`, progress output. The `.changed` markers in the cache are written
and never read. `getattr`, and the client's `readdir`, change nothing another part
sees; the server's `read` answers or refuses. The client's inode tables work like
the server's, except that its `readdir` numbers `..` as the root.

In the plan:

1. The client's `rename` in `SlipSync`: the copy moves, while `dirty_files`,
   `versions` and the queue keep the old path, before the server may refuse.
2. The client's `mkdir` and `rmdir` with their entries in `pending_ignores`.
3. The client's Ctrl-C composed with `Workspace`: the removal of the cache directory
   with unsynced files, and a SHUTDOWN that restores while a PATCH is applied.
