----------------------------- MODULE ClientSync -----------------------------
(***************************************************************************)
(* The client's background sync thread (slipspace-client/src/sync.rs),     *)
(* while its connection holds.  One queue entry at a time: note the        *)
(* version, diff the cached copy against its base, send the delta, save    *)
(* the base, and release the lock if the version has not moved.            *)
(***************************************************************************)
EXTENDS SlipState

SyncGoto(to) == sync' = [sync EXCEPT !.pc = to]

SyncRecv ==
    /\ sync = Idle /\ queue # <<>> /\ Len(syncSig) + 2 <= MaxWire
    /\ queue' = Tail(queue)
    /\ sync' = [pc |-> "base", path |-> Head(queue),
                start |-> versions[Head(queue)], seen |-> 0,
                old |-> Empty, new |-> Empty]
    /\ UNCHANGED <<diskVars, lockVars, fuseVars, lsn, wireVars, serverVars,
                   histVars>>

SyncReadBase ==
    /\ sync.pc = "base"
    /\ sync' = [sync EXCEPT !.pc = "local", !.old = Bytes(base[sync.path])]
    /\ UNCHANGED <<diskVars, lockVars, queue, fuseVars, lsn, wireVars,
                   serverVars, histVars>>

(* "seen" is a history field: the version the copy had when it was read.   *)
SyncReadLocal ==
    /\ sync.pc = "local"
    /\ sync' = [sync EXCEPT !.pc = "send", !.new = Bytes(local[sync.path]),
                            !.seen = versions[sync.path]]
    /\ UNCHANGED <<diskVars, lockVars, queue, fuseVars, lsn, wireVars,
                   serverVars, histVars>>

(* Faulty variant: the start version is read after the file.               *)
SyncSendPatchLateVersion ==
    /\ sync.pc = "send"
    /\ syncSig' = Append(syncSig, [type |-> "PATCH", path |-> sync.path,
                                   from |-> sync.old, to |-> sync.new])
    /\ sync' = [sync EXCEPT !.pc = "saveBase", !.old = Empty,
                            !.start = versions[sync.path]]
    /\ UNCHANGED <<diskVars, lockVars, queue, fuseVars, lsn, fuseSig, inval,
                   serverVars, histVars>>

SyncSendPatch ==
    /\ sync.pc = "send"
    /\ syncSig' = Append(syncSig, [type |-> "PATCH", path |-> sync.path,
                                   from |-> sync.old, to |-> sync.new])
    /\ sync' = [sync EXCEPT !.pc = "saveBase", !.old = Empty]
    /\ UNCHANGED <<diskVars, lockVars, queue, fuseVars, lsn, fuseSig, inval,
                   serverVars, histVars>>

(* Faulty variant: the base is not updated after an upload.                *)
SyncSaveBaseForgotten ==
    /\ sync.pc = "saveBase"
    /\ sync' = [sync EXCEPT !.pc = "check", !.new = Empty]
    /\ UNCHANGED <<diskVars, lockVars, queue, fuseVars, lsn, wireVars,
                   serverVars, histVars>>

SyncSaveBase ==
    /\ sync.pc = "saveBase"
    /\ base' = [base EXCEPT ![sync.path] = sync.new]
    /\ sync' = [sync EXCEPT !.pc = "check", !.new = Empty]
    /\ UNCHANGED <<local, lockVars, queue, fuseVars, lsn, wireVars,
                   serverVars, histVars>>

(* Faulty variant: the comparison of the versions is the wrong way round.  *)
SyncCheckInverted ==
    /\ sync.pc = "check"
    /\ IF versions[sync.path] # sync.start THEN SyncGoto("clear")
                                           ELSE sync' = Idle
    /\ UNCHANGED <<diskVars, lockVars, queue, fuseVars, lsn, wireVars,
                   serverVars, histVars>>

SyncCheck ==
    /\ sync.pc = "check"
    /\ IF versions[sync.path] = sync.start THEN SyncGoto("clear")
                                           ELSE sync' = Idle
    /\ UNCHANGED <<diskVars, lockVars, queue, fuseVars, lsn, wireVars,
                   serverVars, histVars>>

SyncClear ==
    /\ sync.pc = "clear"
    /\ dirty' = dirty \ {sync.path}
    /\ SyncGoto("clean")
    /\ UNCHANGED <<diskVars, versions, ignores, queue, fuseVars, lsn,
                   wireVars, serverVars, histVars>>

SyncSendClean ==
    /\ sync.pc = "clean"
    /\ syncSig' = Append(syncSig, [type |-> "CLEAN", path |-> sync.path])
    /\ sync' = Idle
    /\ UNCHANGED <<diskVars, lockVars, queue, fuseVars, lsn, fuseSig, inval,
                   serverVars, histVars>>

SyncStep ==
    \/ SyncRecv \/ SyncReadBase \/ SyncReadLocal \/ SyncSendPatch
    \/ SyncSaveBase \/ SyncCheck \/ SyncClear \/ SyncSendClean
=============================================================================
