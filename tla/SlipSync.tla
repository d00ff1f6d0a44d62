------------------------------ MODULE SlipSync ------------------------------
(***************************************************************************)
(* One slipspace client and its server daemon: the client's FUSE loop,     *)
(* sync thread and invalidation listener, the server's signal threads and  *)
(* FUSE loop, and the users on both sides.  The signal connections hold,   *)
(* but for the listener's (Connections has those that break).              *)
(***************************************************************************)
EXTENDS ClientFuse, ClientSync, ClientSignal, ServerDaemon

Init ==
    /\ backing \in [Paths -> {NoFile, 1}]
    /\ latest = backing
    /\ nextId = 2
    /\ local = [p \in Paths |-> NoFile]
    /\ base = [p \in Paths |-> NoFile]
    /\ dirty = {} /\ ignores = {} /\ srvDirty = {}
    /\ versions = [p \in Paths |-> 0]
    /\ handles = [p \in Paths |-> 0]
    /\ queue = <<>> /\ fuseSig = <<>> /\ syncSig = <<>> /\ inval = <<>>
    /\ fuse = Idle /\ sync = Idle /\ lsn = Idle
    /\ srv = Idle /\ patcher = Idle

Next ==
    \/ UserRequest \/ FuseStep
    \/ SyncStep
    \/ ListenerStep
    \/ SignalStep
    \/ RemoteRequest \/ ServerStep

Spec == Init /\ [][Next]_vars

(* Every thread is scheduled; the users need not do anything.              *)
Fairness ==
    /\ WF_vars(FuseStep)
    /\ WF_vars(SyncStep)
    /\ WF_vars(ListenerReads)
    /\ WF_vars(HandleDirty)
    /\ WF_vars(HandleClean \/ PatchRead \/ PatchWrite)
    /\ WF_vars(ServerStep)

FairSpec == Spec /\ Fairness

-----------------------------------------------------------------------------
(* Every path in the client's dirty_files has someone who will bring it to *)
(* the sync thread: an open handle, whose release queues it, a queue       *)
(* entry, or a thread at work on it (write, setattr and release in fs.rs   *)
(* against the check and the removal in sync.rs).                          *)
DirtyHasOwner ==
    \A p \in dirty :
        handles[p] > 0 \/ Queued(p) \/ WorksOn(sync, p) \/ WorksOn(fuse, p)

(* The version check of the sync thread: when it is about to pass, every   *)
(* write that has completed is in the copy that was sent (sync.rs reads    *)
(* the version before the file, fs.rs writes the file before the version). *)
CheckedSnapshotIsCurrent ==
    sync.pc = "check" /\ versions[sync.path] = sync.start
        => sync.seen = versions[sync.path]

(* A step that changes the cached copy of a dirty file is a user's write,  *)
(* truncation, unlink or re-creation, a purge that began before the file   *)
(* was dirty, or the download of a copy that had gone missing: an open     *)
(* never empties the copy to download over it, and the cache never evicts  *)
(* it (fs.rs open, cache.rs evict_if_needed).                              *)
DirtyCopyKept ==
    [][\A p \in dirty :
          local[p] # NoFile /\ local'[p] # local[p]
            => \/ fuse = Idle /\ WorksOn(fuse, p)'
               \/ WorksOn(fuse, p) /\ fuse.pc \in {"createLocal", "openFetch"}
               \/ WorksOn(lsn, p) /\ lsn.pc = "purge"]_vars

-----------------------------------------------------------------------------
(* Once nothing about a path is in transit and no client user has it open, *)
(* the backing store holds what a user last put there: no save is lost and *)
(* no delta is applied to other bytes than it was computed from (README:   *)
(* "Writes are instantly saved locally and synced in the background").     *)
NoLostUpdate ==
    \A p \in Paths :
        Settled(p) /\ handles[p] = 0 => backing[p] = latest[p]

(* At such a point a cached copy, and the base of the next delta, are the  *)
(* server's bytes: every other change has purged them (README: other       *)
(* caching systems "risk actions on the remote using outdated files").     *)
CacheCoherent ==
    \A p \in Paths :
        Settled(p) /\ handles[p] = 0 /\ backing[p] # NoFile
            => /\ local[p] \in {NoFile, backing[p]}
               /\ base[p] \in {NoFile, backing[p]}

(* Once nothing about a path is in transit, the server locks it if the     *)
(* client has changes to it that the server lacks (README: "locks any      *)
(* operations using those files"; DIRTY and CLEAN in tcp_server.rs).       *)
NoUnlockedDirty ==
    \A p \in Paths : Settled(p) /\ p \in dirty => p \in srvDirty

(* A dirty file whose handles are all closed becomes clean or is opened    *)
(* again: the release, or the pass of the sync thread that found the       *)
(* version moved, leaves another queue entry to come (sync.rs).            *)
DirtyIsSynced ==
    \A p \in Paths :
        (p \in dirty /\ handles[p] = 0) ~> (p \notin dirty \/ handles[p] > 0)

-----------------------------------------------------------------------------
(* While users take turns on a path, the client and its server implement   *)
(* one store of saved files: every change of the backing store is the      *)
(* arrival of the whole of the last save, or a save made at the server     *)
(* over a file that has arrived; no delta, eviction, purge, download or    *)
(* signal is seen by the users (README: "Writes are instantly saved        *)
(* locally and synced in the background").                                 *)
Saved == INSTANCE SavedFiles
    WITH Files <- {NoFile} \cup 0..MaxId, saved <- latest, stored <- backing
ImplementsSavedFiles == Saved!Spec
=============================================================================
