---------------------------- MODULE ClientSignal ----------------------------
(***************************************************************************)
(* The client's invalidation listener (slipspace-client/src/signal.rs).    *)
(* The two mutexes are taken one after the other, and the two files are    *)
(* removed under neither.                                                  *)
(***************************************************************************)
EXTENDS SlipState

InvalRecv ==
    /\ lsn = Idle /\ inval # <<>>
    /\ inval' = Tail(inval)
    /\ lsn' = [pc |-> "ignore", path |-> Head(inval).path,
               wasDirty |-> Head(inval).path \in dirty]
    /\ UNCHANGED <<diskVars, lockVars, queue, fuseVars, sync, fuseSig,
                   syncSig, serverVars, histVars>>

InvalIgnore ==
    /\ lsn.pc = "ignore"
    /\ ignores' = ignores \ {lsn.path}
    /\ lsn' = IF lsn.wasDirty \/ lsn.path \in ignores
              THEN Idle ELSE [lsn EXCEPT !.pc = "purge"]
    /\ UNCHANGED <<diskVars, dirty, versions, queue, fuseVars, sync,
                   wireVars, serverVars, histVars>>

(* Faulty variant: only the base is purged.                                *)
InvalPurgeBaseOnly ==
    /\ lsn.pc = "purge"
    /\ lsn' = [lsn EXCEPT !.pc = "purgeBase"]
    /\ UNCHANGED <<diskVars, lockVars, queue, fuseVars, sync, wireVars,
                   serverVars, histVars>>

InvalPurge ==
    /\ lsn.pc = "purge"
    /\ local' = [local EXCEPT ![lsn.path] = NoFile]
    /\ lsn' = [lsn EXCEPT !.pc = "purgeBase"]
    /\ UNCHANGED <<base, lockVars, queue, fuseVars, sync, wireVars,
                   serverVars, histVars>>

InvalPurgeBase ==
    /\ lsn.pc = "purgeBase"
    /\ base' = [base EXCEPT ![lsn.path] = NoFile]
    /\ lsn' = Idle
    /\ UNCHANGED <<local, lockVars, queue, fuseVars, sync, wireVars,
                   serverVars, histVars>>

(* The connection breaks; the listener reads what had arrived, connects    *)
(* and subscribes again.  A broadcast before the server has handled that   *)
(* SUBSCRIBE reaches nobody: here it is sent, and lost by a further break. *)
Resubscribe ==
    /\ "resubscribe" \in Env
    /\ \E n \in 0..Len(inval) - 1 : inval' = SubSeq(inval, 1, n)
    /\ UNCHANGED <<diskVars, lockVars, queue, fuseVars, threadVars, fuseSig,
                   syncSig, serverVars, histVars>>

ListenerReads == InvalRecv \/ InvalIgnore \/ InvalPurge \/ InvalPurgeBase
ListenerStep == ListenerReads \/ Resubscribe
=============================================================================
