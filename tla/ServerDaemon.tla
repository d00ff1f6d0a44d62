---------------------------- MODULE ServerDaemon ----------------------------
(***************************************************************************)
(* The server daemon: one thread per signal connection                     *)
(* (server-daemon/src/tcp_server.rs) and the FUSE loop over the backing    *)
(* store (server-daemon/src/fs.rs), which serves the server-side users and *)
(* the client's SFTP requests alike.                                       *)
(***************************************************************************)
EXTENDS SlipState

HandleDirty ==
    /\ fuseSig # <<>>
    /\ fuseSig' = Tail(fuseSig)
    /\ srvDirty' = srvDirty \cup {Head(fuseSig)}
    /\ UNCHANGED <<diskVars, lockVars, queue, fuseVars, threadVars, syncSig,
                   inval, backing, srv, patcher, histVars>>

HandleClean ==
    /\ patcher = Idle /\ syncSig # <<>> /\ Head(syncSig).type = "CLEAN"
    /\ syncSig' = Tail(syncSig)
    /\ srvDirty' = srvDirty \ {Head(syncSig).path}
    /\ UNCHANGED <<diskVars, lockVars, queue, fuseVars, threadVars, fuseSig,
                   inval, backing, srv, patcher, histVars>>

(* PATCH reads the old bytes, applies the delta, writes the result back,   *)
(* and looks at dirty_files nowhere.                                       *)
PatchRead ==
    /\ patcher = Idle /\ syncSig # <<>> /\ Head(syncSig).type = "PATCH"
    /\ LET m == Head(syncSig) IN
       patcher' = [pc |-> "write", path |-> m.path,
                   old |-> Bytes(backing[m.path]),
                   from |-> m.from, to |-> m.to]
    /\ syncSig' = Tail(syncSig)
    /\ UNCHANGED <<diskVars, lockVars, queue, fuseVars, threadVars, fuseSig,
                   inval, backing, srvDirty, srv, histVars>>

(* fast_rsync::apply: a delta copies blocks of the bytes it was computed   *)
(* from and carries the rest.  It gives back "to" on those bytes, or if    *)
(* it has nothing to copy; on other bytes it can also give a mixture or    *)
(* fail, and a failure writes nothing.                                     *)
Applied(old, from, to, unchanged) ==
    IF (old = from /\ old # Torn) \/ from = Empty \/ to = Empty
    THEN {to} ELSE {to, Torn, unchanged}

PatchWrite ==
    LET p == patcher.path IN
    /\ patcher.pc = "write"
    /\ \E r \in Applied(patcher.old, patcher.from, patcher.to, backing[p]) :
          backing' = [backing EXCEPT ![p] = r]
    /\ patcher' = Idle
    /\ UNCHANGED <<diskVars, lockVars, queue, fuseVars, threadVars, wireVars,
                   srvDirty, srv, histVars>>

-----------------------------------------------------------------------------
(* A server-side user writes, creates or unlinks: the handler's dirty      *)
(* check here, its effect in SrvApply, its broadcast in SrvInvalidate.     *)
RemoteBegin(p) ==
    /\ srv = Idle /\ "remote" \in Env /\ RemoteMayAct(p)
    /\ nextId <= MaxId /\ Len(inval) < MaxWire
    /\ p \notin srvDirty
    /\ \E c \in IF backing[p] = NoFile THEN {Empty} ELSE {nextId, NoFile} :
          srv' = [pc |-> "apply", path |-> p, new |-> c, own |-> FALSE]
    /\ nextId' = nextId + 1
    /\ UNCHANGED <<diskVars, lockVars, queue, fuseVars, threadVars, wireVars,
                   backing, srvDirty, patcher, latest>>

(* The effect and the reply, which the client's FUSE loop may await.       *)
SrvApply ==
    /\ srv.pc = "apply"
    /\ backing' = [backing EXCEPT ![srv.path] = srv.new]
    /\ latest' = [latest EXCEPT ![srv.path] = srv.new]
    /\ srv' = [srv EXCEPT !.pc = "invalidate"]
    /\ fuse' = IF ~srv.own THEN fuse
               ELSE IF fuse.op = "create"
                    THEN [fuse EXCEPT !.pc = "createLocal"] ELSE Idle
    /\ UNCHANGED <<diskVars, lockVars, queue, handles, threadVars, wireVars,
                   srvDirty, patcher, nextId>>

(* invalidate_client: nothing is broadcast for a path that is dirty now.   *)
SrvInvalidate ==
    /\ srv.pc = "invalidate"
    /\ inval' = IF srv.path \in srvDirty THEN inval
                ELSE Append(inval, [path |-> srv.path])
    /\ srv' = Idle
    /\ UNCHANGED <<diskVars, lockVars, queue, fuseVars, threadVars, fuseSig,
                   syncSig, backing, srvDirty, patcher, histVars>>

(* setattr with a size: neither a dirty check nor a broadcast.             *)
RemoteSetattr(p) ==
    /\ srv = Idle /\ "remoteSetattr" \in Env /\ RemoteMayAct(p)
    /\ nextId <= MaxId /\ backing[p] # NoFile
    /\ \E c \in {Empty, nextId} :
         /\ backing' = [backing EXCEPT ![p] = c]
         /\ latest' = [latest EXCEPT ![p] = c]
    /\ nextId' = nextId + 1
    /\ UNCHANGED <<diskVars, lockVars, queue, fuseVars, threadVars, wireVars,
                   srvDirty, srv, patcher>>

RemoteRequest == \E p \in Paths : RemoteBegin(p) \/ RemoteSetattr(p)
SignalStep == HandleDirty \/ HandleClean \/ PatchRead \/ PatchWrite
ServerStep == SrvApply \/ SrvInvalidate
=============================================================================
