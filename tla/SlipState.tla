----------------------------- MODULE SlipState -----------------------------
(***************************************************************************)
(* The state shared by the threads of one slipspace client and one server  *)
(* daemon, for a set of file paths.  ClientFuse, ClientSync, ClientSignal  *)
(* and ServerDaemon hold the actions; SlipSync composes them.              *)
(*                                                                         *)
(* The bytes of a file are abstracted to a number: 0 is the empty file,    *)
(* every mutation draws a fresh number, and Torn stands for a file that a  *)
(* delta computed against other bytes has been applied to.                 *)
(***************************************************************************)
EXTENDS Integers, Sequences

CONSTANTS
    Paths,       \* the regular files of the workspace
    Env,         \* what the users and the disk may do, a subset of EnvKinds
    MaxId,       \* bound: files hold 1 at first, mutations draw 2 to MaxId
    MaxHandles,  \* bound: client file handles open on one path
    MaxQueue,    \* bound: entries of the sync queue (unbounded in the code)
    MaxWire      \* bound: messages in flight on one connection

EnvKinds ==
    { "overlap",        \* users do not wait until a path has settled
      "remote",         \* server-side users write, create and unlink
      "remoteSetattr",  \* server-side users truncate through an open file
      "reopen",         \* client users open, create or unlink an open file
      "truncate",       \* client users truncate a file they have open
      "pathTruncate",   \* client users truncate a file they have not opened
      "unlink",         \* client users unlink
      "resubscribe",    \* the listener's connection breaks and is made again
      "evict" }         \* the client cache is over its size limit

ASSUME EnvAssumption == Env \subseteq EnvKinds
ASSUME BoundAssumption ==
    /\ MaxId \in Nat \ {0} /\ MaxHandles \in Nat
    /\ MaxQueue \in Nat /\ MaxWire \in Nat

NoFile == -1
Torn == -2
Empty == 0

Content == Nat \cup {Torn}
File == Content \cup {NoFile}

(* fs::read(..).unwrap_or_default(): a missing file reads as no bytes.     *)
Bytes(f) == IF f = NoFile THEN Empty ELSE f

VARIABLES
    \* client cache directory
    local, base,
    \* client state behind mutexes, and the channel tx/rx
    dirty, versions, ignores, queue,
    \* client threads: FUSE loop (with its open files), sync, signal listener
    fuse, handles, sync, lsn,
    \* connections: DIRTY; PATCH and CLEAN; INVALIDATE
    fuseSig, syncSig, inval,
    \* server: backing store, dirty_files, FUSE loop, PATCH handler
    backing, srvDirty, srv, patcher,
    \* history: content last given to a path by any user, next fresh number
    latest, nextId

diskVars == <<local, base>>
lockVars == <<dirty, versions, ignores>>
fuseVars == <<fuse, handles>>
threadVars == <<sync, lsn>>
wireVars == <<fuseSig, syncSig, inval>>
serverVars == <<backing, srvDirty, srv, patcher>>
histVars == <<latest, nextId>>
vars == <<diskVars, lockVars, queue, fuseVars, threadVars, wireVars,
          serverVars, histVars>>

Idle == [pc |-> "idle"]

FuseOps == {"open", "write", "release", "setattr", "create", "unlink"}
FusePcs == {"openCheck", "openStat", "openDownload", "openFetch", "mark",
            "signal", "bump", "enqueue", "request", "await", "createLocal",
            "createStat"}
FuseBusy == [op : FuseOps, pc : FusePcs, path : Paths, data : File]

SyncPcs == {"base", "local", "send", "saveBase", "check", "clear", "clean"}
SyncBusy == [pc : SyncPcs, path : Paths, start : Nat, seen : Nat,
             old : Content, new : Content]

ListenerBusy == [pc : {"ignore", "purge", "purgeBase"}, path : Paths,
                 wasDirty : BOOLEAN]

ServerBusy == [pc : {"apply", "invalidate"}, path : Paths, new : File,
               own : BOOLEAN]

PatcherBusy == [pc : {"write"}, path : Paths, old : Content,
                from : Content, to : Content]

PatchMsg == [type : {"PATCH"}, path : Paths, from : Content, to : Content]
CleanMsg == [type : {"CLEAN"}, path : Paths]
InvalMsg == [path : Paths]

TypeOK ==
    /\ local \in [Paths -> File]
    /\ base \in [Paths -> File]
    /\ dirty \in SUBSET Paths
    /\ versions \in [Paths -> Nat]
    /\ ignores \in SUBSET Paths
    /\ queue \in Seq(Paths)
    /\ fuse \in {Idle} \cup FuseBusy
    /\ handles \in [Paths -> Nat]
    /\ sync \in {Idle} \cup SyncBusy
    /\ lsn \in {Idle} \cup ListenerBusy
    /\ fuseSig \in Seq(Paths)
    /\ syncSig \in Seq(PatchMsg \cup CleanMsg)
    /\ inval \in Seq(InvalMsg)
    /\ backing \in [Paths -> File]
    /\ srvDirty \in SUBSET Paths
    /\ srv \in {Idle} \cup ServerBusy
    /\ patcher \in {Idle} \cup PatcherBusy
    /\ latest \in [Paths -> File]
    /\ nextId \in Nat

-----------------------------------------------------------------------------
(* Thread t (a value of fuse, sync, lsn, srv or patcher) is working on p.  *)
WorksOn(t, p) == t # Idle /\ t.path = p

Queued(p) == \E i \in DOMAIN queue : queue[i] = p

Mentions(wire, p) == \E i \in DOMAIN wire : wire[i].path = p

(* Nothing about p is in transit in any thread, queue or connection.       *)
Settled(p) ==
    /\ \A t \in {fuse, sync, lsn, srv, patcher} : ~WorksOn(t, p)
    /\ ~Queued(p)
    /\ \A i \in DOMAIN fuseSig : fuseSig[i] # p
    /\ ~Mentions(syncSig, p)
    /\ ~Mentions(inval, p)

(* Client users, and server-side users, who take turns on a path unless    *)
(* the environment lets them overlap.                                      *)
ClientMayAct(p) == "overlap" \in Env \/ Settled(p)
ClientMayName(p) == "reopen" \in Env \/ handles[p] = 0
RemoteMayAct(p) ==
    "overlap" \in Env \/ (Settled(p) /\ handles[p] = 0 /\ p \notin dirty)

(* The server's FUSE loop is between requests, and its lookup handler      *)
(* finds p and does not reject it as dirty.                                *)
ServerFree == srv = Idle
LookupFinds(p) == p \notin srvDirty /\ backing[p] # NoFile
=============================================================================
