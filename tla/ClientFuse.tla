----------------------------- MODULE ClientFuse -----------------------------
(***************************************************************************)
(* The client's FUSE loop (slipspace-client/src/fs.rs).  The loop serves   *)
(* one kernel request at a time, so a handler is the sequence of the       *)
(* actions below from "fuse = Idle" back to it, and every action is one    *)
(* access to state that another thread or the server shares.               *)
(***************************************************************************)
EXTENDS SlipState

Start(operation, to, p, d) ==
    fuse' = [op |-> operation, pc |-> to, path |-> p, data |-> d]
Goto(to) == fuse' = [fuse EXCEPT !.pc = to]
Reply == fuse' = Idle

(* Faulty variant: dirty files are evicted too.                            *)
EvictSetsBlind == IF "evict" \in Env THEN SUBSET Paths ELSE {{}}

(* FileCache::evict_if_needed: under cache pressure, any files that are    *)
(* not in dirty_files lose their cached copy and their base.               *)
EvictSets ==
    IF "evict" \in Env THEN SUBSET (Paths \ dirty) ELSE {{}}
Without(f, E) == [p \in Paths |-> IF p \in E THEN NoFile ELSE f[p]]

-----------------------------------------------------------------------------
(* open: the kernel looks the path up on the server first (TTL is 0).      *)
OpenLookup(p) ==
    /\ fuse = Idle /\ ClientMayAct(p)
    /\ ClientMayName(p) /\ handles[p] < MaxHandles
    /\ ServerFree /\ LookupFinds(p)
    /\ Start("open", "openCheck", p, NoFile)
    /\ UNCHANGED <<handles, diskVars, lockVars, queue, threadVars, wireVars,
                   serverVars, histVars>>

Opened == Reply /\ handles' = [handles EXCEPT ![fuse.path] = @ + 1]

(* Faulty variant: dirty_files is not consulted before a download.         *)
OpenCheckBlind ==
    /\ fuse.pc = "openCheck"
    /\ Goto(IF local[fuse.path] = NoFile THEN "openDownload" ELSE "openStat")
    /\ UNCHANGED <<handles, diskVars, lockVars, queue, threadVars, wireVars,
                   serverVars, histVars>>

OpenCheck ==
    /\ fuse.pc = "openCheck"
    /\ \/ /\ local[fuse.path] = NoFile
          /\ Goto("openDownload") /\ UNCHANGED handles
       \/ /\ local[fuse.path] # NoFile /\ fuse.path \notin dirty
          /\ Goto("openStat") /\ UNCHANGED handles
       \/ /\ local[fuse.path] # NoFile /\ fuse.path \in dirty
          /\ Opened
    /\ UNCHANGED <<diskVars, lockVars, queue, threadVars, wireVars,
                   serverVars, histVars>>

(* The sizes are compared, not the bytes: equal bytes have equal sizes,    *)
(* different bytes may have either.                                        *)
OpenStat ==
    LET p == fuse.path IN
    /\ fuse.pc = "openStat" /\ ServerFree
    /\ \/ /\ LookupFinds(p) /\ local[p] # NoFile /\ local[p] # backing[p]
          /\ Goto("openDownload") /\ UNCHANGED handles
       \/ Opened
    /\ UNCHANGED <<diskVars, lockVars, queue, threadVars, wireVars,
                   serverVars, histVars>>

(* sftp.open, then File::create, which empties the local copy.             *)
OpenDownload ==
    LET p == fuse.path IN
    /\ fuse.pc = "openDownload" /\ ServerFree
    /\ \/ /\ LookupFinds(p)
          /\ local' = [local EXCEPT ![p] = Empty]
          /\ fuse' = [fuse EXCEPT !.pc = "openFetch", !.data = backing[p]]
       \/ /\ ~LookupFinds(p) /\ Reply /\ UNCHANGED local
    /\ UNCHANGED <<handles, base, lockVars, queue, threadVars, wireVars,
                   serverVars, histVars>>

(* read_to_end, write_all, copy to the base, add_file.  The server rejects *)
(* the read of a path that has become dirty: the open succeeds all the     *)
(* same, on the emptied copy.  A copy purged since OpenDownload stays      *)
(* purged (the bytes go to an unlinked inode and fs::copy fails).          *)
OpenFetch ==
    LET p == fuse.path
        got == IF backing[p] = NoFile THEN fuse.data ELSE backing[p]
        kept == local[p] # NoFile
        newLocal == IF kept THEN [local EXCEPT ![p] = got] ELSE local
        newBase == IF kept THEN [base EXCEPT ![p] = got] ELSE base
    IN
    /\ fuse.pc = "openFetch" /\ ServerFree
    /\ \/ /\ p \in srvDirty /\ UNCHANGED diskVars
       \/ /\ p \notin srvDirty
          /\ \E E \in EvictSets :
                /\ local' = Without(newLocal, E)
                /\ base' = Without(newBase, E)
    /\ Opened
    /\ UNCHANGED <<lockVars, queue, threadVars, wireVars, serverVars,
                   histVars>>

-----------------------------------------------------------------------------
(* write: local file first, then mark_dirty, update_size, versions += 1.   *)
WriteData(p) ==
    /\ fuse = Idle /\ ClientMayAct(p) /\ nextId <= MaxId
    /\ handles[p] > 0 /\ local[p] # NoFile
    /\ local' = [local EXCEPT ![p] = nextId]
    /\ latest' = [latest EXCEPT ![p] = nextId]
    /\ nextId' = nextId + 1
    /\ Start("write", "mark", p, NoFile)
    /\ UNCHANGED <<handles, base, lockVars, queue, threadVars, wireVars,
                   serverVars>>

(* FileCache::mark_dirty, shared by write and setattr.                     *)
AfterMark == IF fuse.op = "write" THEN Goto("bump") ELSE Reply

(* Faulty variant: the server is not told of a newly dirty file.           *)
MarkDirtySilently ==
    /\ fuse.pc = "mark"
    /\ dirty' = dirty \cup {fuse.path}
    /\ AfterMark
    /\ UNCHANGED <<handles, diskVars, versions, ignores, queue, threadVars,
                   wireVars, serverVars, histVars>>

MarkDirty ==
    /\ fuse.pc = "mark"
    /\ dirty' = dirty \cup {fuse.path}
    /\ IF fuse.path \in dirty THEN AfterMark ELSE Goto("signal")
    /\ UNCHANGED <<handles, diskVars, versions, ignores, queue, threadVars,
                   wireVars, serverVars, histVars>>

SendDirty ==
    /\ fuse.pc = "signal"
    /\ fuseSig' = Append(fuseSig, fuse.path)
    /\ AfterMark
    /\ UNCHANGED <<handles, diskVars, lockVars, queue, threadVars, syncSig,
                   inval, serverVars, histVars>>

WriteBump ==
    /\ fuse.pc = "bump"
    /\ \E E \in EvictSets :
          /\ local' = Without(local, E)
          /\ base' = Without(base, E)
    /\ versions' = [versions EXCEPT ![fuse.path] = @ + 1]
    /\ Reply
    /\ UNCHANGED <<handles, dirty, ignores, queue, threadVars, wireVars,
                   serverVars, histVars>>

-----------------------------------------------------------------------------
(* Faulty variants: the dirty file is not queued; a handle is closed twice.*)
ReleaseForgetful(p) ==
    /\ fuse = Idle /\ handles[p] > 0 /\ Len(queue) < MaxQueue
    /\ handles' = [handles EXCEPT ![p] = @ - 1]
    /\ UNCHANGED <<fuse, diskVars, lockVars, queue, threadVars, wireVars,
                   serverVars, histVars>>
ReleaseTwice(p) ==
    /\ fuse = Idle /\ local[p] # NoFile /\ Len(queue) < MaxQueue
    /\ handles' = [handles EXCEPT ![p] = @ - 1]
    /\ UNCHANGED <<fuse, diskVars, lockVars, queue, threadVars, wireVars,
                   serverVars, histVars>>

(* release: queue the file for the sync thread if it is dirty.             *)
Release(p) ==
    /\ fuse = Idle /\ handles[p] > 0 /\ Len(queue) < MaxQueue
    /\ handles' = [handles EXCEPT ![p] = @ - 1]
    /\ IF p \in dirty THEN Start("release", "enqueue", p, NoFile)
                      ELSE UNCHANGED fuse
    /\ UNCHANGED <<diskVars, lockVars, queue, threadVars, wireVars,
                   serverVars, histVars>>

(* setattr with a size: truncate the cached copy if there is one, queue    *)
(* the path, and only then mark it dirty; versions is left alone.          *)
Setattr(p) ==
    /\ fuse = Idle /\ ClientMayAct(p) /\ nextId <= MaxId
    /\ Len(queue) < MaxQueue
    /\ \/ "truncate" \in Env /\ handles[p] > 0
       \/ "pathTruncate" \in Env /\ ServerFree /\ LookupFinds(p)
    /\ \E c \in {Empty, nextId} :
          /\ local' = IF local[p] = NoFile THEN local
                                           ELSE [local EXCEPT ![p] = c]
          /\ latest' = [latest EXCEPT ![p] = c]
    /\ nextId' = nextId + 1
    /\ Start("setattr", "enqueue", p, NoFile)
    /\ UNCHANGED <<handles, base, lockVars, queue, threadVars, wireVars,
                   serverVars>>

Enqueue ==
    /\ fuse.pc = "enqueue"
    /\ queue' = Append(queue, fuse.path)
    /\ IF fuse.op = "setattr" THEN Goto("mark") ELSE Reply
    /\ UNCHANGED <<handles, diskVars, lockVars, threadVars, wireVars,
                   serverVars, histVars>>

-----------------------------------------------------------------------------
(* create: the kernel's lookup has failed (ENOENT also stands for the      *)
(* server's EACCES); ignore one invalidation, create over SFTP, then empty *)
(* copy and base.                                                          *)
CreateIgnore(p) ==
    /\ fuse = Idle /\ ClientMayAct(p)
    /\ ClientMayName(p) /\ handles[p] < MaxHandles
    /\ nextId <= MaxId /\ Len(inval) < MaxWire
    /\ ServerFree /\ ~LookupFinds(p)
    /\ ignores' = ignores \cup {p}
    /\ nextId' = nextId + 1
    /\ Start("create", "request", p, Empty)
    /\ UNCHANGED <<handles, diskVars, dirty, versions, queue, threadVars,
                   wireVars, serverVars, latest>>

CreateLocal ==
    /\ fuse.pc = "createLocal"
    /\ local' = [local EXCEPT ![fuse.path] = Empty]
    /\ base' = [base EXCEPT ![fuse.path] = Empty]
    /\ Goto("createStat")
    /\ UNCHANGED <<handles, lockVars, queue, threadVars, wireVars, serverVars,
                   histVars>>

(* fstat of the new file, for the reply: if the file is gone, the create   *)
(* fails and no handle reaches the user.                                   *)
CreateStat ==
    /\ fuse.pc = "createStat" /\ ServerFree
    /\ IF backing[fuse.path] # NoFile THEN Opened
                                      ELSE Reply /\ UNCHANGED handles
    /\ UNCHANGED <<diskVars, lockVars, queue, threadVars, wireVars,
                   serverVars, histVars>>

(* unlink: the cached copy goes first (the base stays), then the ignore,   *)
(* then the SFTP request.                                                  *)
UnlinkLocal(p) ==
    /\ fuse = Idle /\ "unlink" \in Env /\ ClientMayAct(p)
    /\ ClientMayName(p)
    /\ nextId <= MaxId /\ Len(inval) < MaxWire
    /\ ServerFree /\ LookupFinds(p)
    /\ local' = [local EXCEPT ![p] = NoFile]
    /\ ignores' = ignores \cup {p}
    /\ nextId' = nextId + 1
    /\ Start("unlink", "request", p, NoFile)
    /\ UNCHANGED <<handles, base, dirty, versions, queue, threadVars,
                   wireVars, serverVars, latest>>

(* The SFTP request reaches the server's FUSE loop: its handler runs to    *)
(* the reply and the invalidation as SrvApply and SrvInvalidate; a dirty   *)
(* path, or one to unlink that is gone, is an error.  Creating a file that *)
(* has appeared meanwhile opens and empties it without an invalidation.    *)
SftpRequest ==
    LET p == fuse.path IN
    /\ fuse.pc = "request" /\ ServerFree
    /\ \/ /\ p \in srvDirty \/ (fuse.op = "unlink" /\ backing[p] = NoFile)
          /\ Reply /\ UNCHANGED <<serverVars, latest>>
       \/ /\ p \notin srvDirty /\ (fuse.op = "create" <=> backing[p] = NoFile)
          /\ srv' = [pc |-> "apply", path |-> p, new |-> fuse.data,
                     own |-> TRUE]
          /\ Goto("await")
          /\ UNCHANGED <<backing, srvDirty, patcher, latest>>
       \/ /\ p \notin srvDirty /\ fuse.op = "create" /\ backing[p] # NoFile
          /\ backing' = [backing EXCEPT ![p] = Empty]
          /\ latest' = [latest EXCEPT ![p] = Empty]
          /\ Goto("createLocal")
          /\ UNCHANGED <<srvDirty, srv, patcher>>
    /\ UNCHANGED <<handles, diskVars, lockVars, queue, threadVars, wireVars,
                   nextId>>

-----------------------------------------------------------------------------
(* What the users ask of the loop, and how it carries on.                  *)
UserRequest ==
    \E p \in Paths :
        \/ OpenLookup(p) \/ WriteData(p) \/ Release(p) \/ Setattr(p)
        \/ CreateIgnore(p) \/ UnlinkLocal(p)

FuseStep ==
    \/ OpenCheck \/ OpenStat \/ OpenDownload \/ OpenFetch
    \/ MarkDirty \/ SendDirty \/ WriteBump \/ Enqueue
    \/ SftpRequest \/ CreateLocal \/ CreateStat
=============================================================================
