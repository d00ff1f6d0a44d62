----------------------------- MODULE TurnTaking -----------------------------
(***************************************************************************)
(* The inductive invariants of SlipSync while users take turns on a path.  *)
(* TurnTakingProofs proves them, and from them that no save is lost, that  *)
(* the caches hold what the server holds, that changed files are locked,   *)
(* and that client and server implement SavedFiles.                        *)
(***************************************************************************)
EXTENDS SlipSync

(* Users wait until a path has settled, keep one handle per path, and      *)
(* truncate through it; nobody truncates at the server, the listener keeps *)
(* its connection, and a cache from which copies are evicted is not        *)
(* truncated in (section 3 of the README has what happens otherwise).      *)
TakesTurns ==
    /\ Env \cap {"overlap", "reopen", "remoteSetattr", "pathTruncate",
                 "resubscribe"} = {}
    /\ ~({"truncate", "evict"} \subseteq Env)

-----------------------------------------------------------------------------
(* What is going on about a path.                                          *)
Doing(operation, p) == WorksOn(fuse, p) /\ fuse.op = operation
Naming(p) == Doing("create", p) \/ Doing("unlink", p)

LockSent(p) == \E i \in DOMAIN fuseSig : fuseSig[i] = p
IsPatch(i, p) == syncSig[i].type = "PATCH" /\ syncSig[i].path = p
PatchSent(p) == \E i \in DOMAIN syncSig : IsPatch(i, p)
CleanSent(p) ==
    \E i \in DOMAIN syncSig : syncSig[i].type = "CLEAN" /\ syncSig[i].path = p
InFlight(p) == PatchSent(p) \/ WorksOn(patcher, p)

(* The sync thread has p, will have it, or has sent something about it.    *)
Uploading(p) ==
    Queued(p) \/ WorksOn(sync, p) \/ PatchSent(p) \/ CleanSent(p)
        \/ WorksOn(patcher, p)

(* A change at the server is being made, broadcast or heard of.            *)
Hearing(p) == WorksOn(lsn, p) /\ lsn.pc = "ignore"
Purging(p) == WorksOn(lsn, p) /\ lsn.pc # "ignore"
Announced(p) == WorksOn(srv, p) \/ Mentions(inval, p) \/ Hearing(p)
Announcing(p) == Announced(p) \/ Purging(p)

(* The cached copy holds a change that a PATCH still to be sent will take. *)
Taking(p) == WorksOn(sync, p) /\ sync.pc \in {"base", "local", "send"}
Changed(p) ==
    \/ p \in dirty \/ Queued(p) \/ Taking(p)
    \/ Doing("write", p) \/ Doing("release", p)
    \/ Doing("setattr", p) /\ fuse.pc = "enqueue"

(* The cached copy and base are older than the server's file.              *)
Stale(p) ==
    \/ Purging(p)
    \/ p \notin ignores /\ Announced(p)
    \/ WorksOn(fuse, p) /\ fuse.pc = "createLocal"

(* What the server will hold once all PATCHes on their way have arrived.   *)
Coming(p) == IF InFlight(p) THEN latest[p] ELSE backing[p]
Earlier(i, p) ==
    WorksOn(patcher, p) \/ \E j \in DOMAIN syncSig : j < i /\ IsPatch(j, p)

-----------------------------------------------------------------------------
(* The parts of the inductive invariant, for one path.                     *)

(* Which place of the FUSE loop belongs to which operation.                *)
PcsOf(operation) ==
    CASE operation = "open" ->
            {"openCheck", "openStat", "openDownload", "openFetch"}
      [] operation = "write" -> {"mark", "signal", "bump"}
      [] operation = "setattr" -> {"enqueue", "mark", "signal"}
      [] operation = "release" -> {"enqueue"}
      [] operation = "create" ->
            {"request", "await", "createLocal", "createStat"}
      [] operation = "unlink" -> {"request", "await"}
      [] OTHER -> {}
Staged == fuse.pc # "idle" => fuse.pc \in PcsOf(fuse.op)

(* Who excludes whom.                                                      *)
Excluded(p) ==
    /\ handles[p] <= 1
    /\ Doing("open", p) => handles[p] = 0 /\ p \notin srvDirty
    /\ Doing("write", p) \/ Doing("setattr", p) => handles[p] = 1
    /\ Doing("release", p) \/ Naming(p) => handles[p] = 0
    /\ Doing("setattr", p) => "truncate" \in Env
    /\ Doing("open", p) \/ Naming(p) \/ Announcing(p)
          => p \notin dirty /\ ~LockSent(p)
    /\ Doing("open", p) \/ Doing("write", p) \/ Naming(p) \/ Announcing(p)
          => ~Uploading(p)
    /\ Announcing(p) => p \notin srvDirty
    /\ WorksOn(fuse, p) /\ Announcing(p) => Naming(p)

(* One announcement of a path at a time; the listener finds it clean.      *)
OneInInval(p) ==
    \A i, j \in DOMAIN inval : inval[i].path = p /\ inval[j].path = p => i = j
OneAnnouncement(p) ==
    /\ WorksOn(srv, p) => ~Mentions(inval, p) /\ ~WorksOn(lsn, p)
    /\ WorksOn(lsn, p) => ~Mentions(inval, p) /\ ~lsn.wasDirty
    /\ OneInInval(p)

(* A create or unlink from its request on.                                 *)
Named(p) ==
    /\ Naming(p) => fuse.data = IF fuse.op = "create" THEN Empty ELSE NoFile
    /\ Naming(p) /\ fuse.pc = "request"
          => /\ ~Announcing(p) /\ p \in ignores
             /\ fuse.op = "create" => p \in srvDirty \/ backing[p] = NoFile
             /\ fuse.op = "unlink" => p \notin srvDirty /\ backing[p] # NoFile
    /\ WorksOn(fuse, p) /\ fuse.pc = "await"
          => WorksOn(srv, p) /\ srv.pc = "apply" /\ srv.own
    /\ WorksOn(srv, p) /\ srv.pc = "apply"
          => /\ handles[p] = 0
             /\ IF srv.own
                THEN WorksOn(fuse, p) /\ fuse.pc = "await" /\ srv.new = fuse.data
                ELSE ~WorksOn(fuse, p) /\ p \notin ignores
    /\ WorksOn(fuse, p) /\ fuse.pc \in {"createLocal", "createStat"}
          => backing[p] = Empty /\ latest[p] = Empty /\ p \notin srvDirty
    /\ WorksOn(fuse, p) /\ fuse.pc = "createStat" => local[p] = Empty

(* The client hears of its own changes first, and ignores those.           *)
Ignored(p) ==
    /\ Announced(p) => p \in ignores \/ (handles[p] = 0 /\ ~WorksOn(fuse, p))
    /\ Purging(p) => handles[p] = 0 /\ ~WorksOn(fuse, p)
    /\ p \in ignores
          => /\ p \notin dirty /\ ~Uploading(p) /\ ~LockSent(p)
             /\ WorksOn(fuse, p) => Naming(p)
             /\ IF p \in srvDirty THEN handles[p] = 0
                ELSE Announced(p) \/ (Naming(p) /\ fuse.pc = "request")

(* What the files hold.                                                    *)
ServerHolds(p) ==
    /\ latest[p] # Torn /\ backing[p] # Torn
    /\ latest[p] \in {NoFile} \cup 0..MaxId
    /\ WorksOn(srv, p) => srv.new \in {NoFile} \cup 0..MaxId
    /\ \/ handles[p] > 0 \/ Changed(p) \/ Uploading(p) \/ Doing("open", p)
       => backing[p] # NoFile
    /\ ~Changed(p) /\ ~InFlight(p) => backing[p] = latest[p]

ClientHolds(p) ==
    /\ Changed(p) => local[p] = latest[p] /\ latest[p] # NoFile
    /\ Doing("open", p) /\ fuse.pc \in {"openStat", "openFetch"}
          => local[p] # NoFile
    /\ Purging(p) /\ lsn.pc = "purgeBase" => local[p] = NoFile
    /\ ~Stale(p) /\ backing[p] # NoFile
          => /\ \/ local[p] \in {NoFile, latest[p]}
                \/ Doing("open", p) /\ fuse.pc = "openFetch"
             /\ \/ base[p] \in {NoFile, Coming(p)}
                \/ WorksOn(sync, p) /\ sync.pc = "saveBase"

(* Every delta was computed from what it will be applied to.               *)
PatchesFit(p) ==
    \A i \in DOMAIN syncSig : IsPatch(i, p) =>
        /\ syncSig[i].to = latest[p]
        /\ \/ syncSig[i].from = Empty
           \/ syncSig[i].from = IF Earlier(i, p) THEN latest[p] ELSE backing[p]
DeltasFit(p) ==
    /\ WorksOn(sync, p) /\ sync.pc \in {"local", "send"}
          => sync.old \in {Empty, Coming(p)}
    /\ WorksOn(sync, p) /\ sync.pc \in {"send", "saveBase"}
          => sync.new = latest[p]
    /\ WorksOn(sync, p) /\ ~Taking(p) /\ ~InFlight(p) => backing[p] = latest[p]
    /\ WorksOn(patcher, p)
          => patcher.to = latest[p] /\ patcher.from \in {Empty, patcher.old}
             /\ patcher.old # Torn
    /\ PatchesFit(p)

(* Without truncation nothing is uploaded while a handle is open, and a    *)
(* changed file stays dirty, safe from eviction, until it has been sent.   *)
OneInQueue(p) == \A i, j \in DOMAIN queue : queue[i] = p /\ queue[j] = p => i = j
DirtyUntilSent(p) ==
    /\ Doing("write", p) /\ fuse.pc \in {"signal", "bump"} => p \in dirty
    /\ "truncate" \in Env /\ handles[p] > 0 => local[p] # NoFile
    /\ "truncate" \notin Env =>
          /\ Uploading(p) => handles[p] = 0
          /\ Doing("release", p) => ~Uploading(p)
          /\ Queued(p) => ~WorksOn(sync, p)
          /\ OneInQueue(p)
          /\ Changed(p) => p \in dirty \/ Doing("write", p)

TurnOK(p) ==
    /\ Excluded(p) /\ OneAnnouncement(p) /\ Named(p) /\ Ignored(p)
    /\ ServerHolds(p) /\ ClientHolds(p) /\ DeltasFit(p) /\ DirtyUntilSent(p)

(* While users take turns, whatever the threads are at, each path has one  *)
(* operation or announcement under way at a time, every PATCH that is sent *)
(* or being made fits the bytes it will meet at the server; and cache, base*)
(* and backing store lag behind the last save only where a thread or a     *)
(* message is about to bring it.                                           *)
TurnInv == Staged /\ \A p \in Paths : TurnOK(p)

(* The lock of one path, after it became dirty and before it is clean.     *)
LockFollows(p) ==
    /\ p \in dirty => \/ p \in srvDirty \/ LockSent(p)
                      \/ Doing("write", p) /\ fuse.pc = "signal"
    /\ CleanSent(p) \/ (WorksOn(sync, p) /\ sync.pc = "clean")
          => p \notin dirty

(* Without truncation a changed file is locked at the server, or its DIRTY *)
(* is on the way, and a CLEAN on the way, which goes by a connection of its*)
(* own, is about a file that has not changed since.                        *)
LockInv == \A p \in Paths : LockFollows(p)
=============================================================================
