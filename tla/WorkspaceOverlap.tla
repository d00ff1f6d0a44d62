-------------------------- MODULE WorkspaceOverlap --------------------------
(***************************************************************************)
(* Workspace with everything in Env: restores beside restores and starts,  *)
(* unmounts that fail, users in the bare target.  The files can be lost    *)
(* then.  This module keeps the history that tells by whom: which starts   *)
(* and restores under way have been crossed, because another party has     *)
(* made or removed the target, the backing store or a mount since they     *)
(* began, or because their own unmount has left something mounted.         *)
(***************************************************************************)
EXTENDS Workspace

VARIABLES
    crossedStarts,      \* daemons, of those that start
    crossedRestores     \* of the executions of restore_workspace under way

overlapVars == <<vars, crossedStarts, crossedRestores>>

(* What the calls of a start or a restore depend on: not on what users     *)
(* have in the directories.                                                *)
LayoutChanges ==
    \/ (target = "absent") # (target' = "absent")
    \/ (backing = "absent") # (backing' = "absent")
    \/ Len(mounts) # Len(mounts')

StartMoves(d) == main'[d] # main[d]
RestoreMoves(r) == rest'[r] # rest[r]
UnmountLeft == mounts' # <<>>

Crosses ==
    /\ crossedStarts' =
          {d \in Daemons :
             /\ main'[d] \in Starting
             /\ \/ d \in crossedStarts
                \/ main[d] \in Starting /\ ~StartMoves(d) /\ LayoutChanges
                \/ main[d] = "unmount" /\ StartMoves(d) /\ UnmountLeft}
    /\ crossedRestores' =
          {r \in Restores :
             /\ rest'[r] \in Restoring
             /\ \/ r \in crossedRestores
                \/ rest[r] \in Restoring /\ ~RestoreMoves(r) /\ LayoutChanges
                \/ rest[r] = "unmount" /\ RestoreMoves(r) /\ UnmountLeft}

OverlapInit == Init /\ crossedStarts = {} /\ crossedRestores = {}
OverlapNext == Next /\ Crosses
OverlapSpec == OverlapInit /\ [][OverlapNext]_overlapVars

-----------------------------------------------------------------------------
(* The next start and the next restore find the files: they are in the     *)
(* target when there is no backing store, and otherwise in the backing     *)
(* store, and then not in the target, which both clear.                    *)
Findable ==
    /\ saved => IF backing = "absent" THEN target = "full"
                ELSE backing = "full" /\ target # "full"
    /\ backing = "absent" => mounts = <<>>

(* However many starts and restores there are at a time and wherever they  *)
(* die, one that nothing has crossed never loses the files nor leaves them *)
(* where the next one would delete them, and neither do users who keep to  *)
(* the mounted workspace: only a start or a restore that has been crossed  *)
(* does, or a user's save into the bare target (the sequences of calls in  *)
(* main of main.rs and restore_workspace).                                 *)
OnlyCrossedHarm ==
    [][Findable /\ ~Findable' =>
          \/ \E d \in crossedStarts : StartMoves(d)
          \/ \E r \in crossedRestores : RestoreMoves(r)
          \/ UserSaves /\ mounts = <<>> /\ backing # "absent"]_overlapVars
=============================================================================
