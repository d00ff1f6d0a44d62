------------------------------ MODULE Workspace ------------------------------
(***************************************************************************)
(* The workspace directory of the server daemon and the hidden backing     *)
(* store (server-daemon/src/main.rs): a start moves the directory aside    *)
(* and mounts the FUSE file system in its place, restore_workspace moves   *)
(* it back.  Starts and restores are sequences of file system calls of     *)
(* processes and threads that share nothing else; any of them may die      *)
(* between two calls.                                                      *)
(***************************************************************************)
EXTENDS Integers, Sequences

CONSTANTS
    Daemons,    \* daemon processes
    Restores,   \* executions of restore_workspace
    NoDaemon,   \* "owner" of an execution by the --restore command
    Env,        \* what may happen, a subset of EnvKinds
    MaxMounts   \* bound: mounts on top of each other

EnvKinds ==
    { "restores",        \* restores run at the same time
      "starts",          \* a start runs during another one or a restore
      "unmountFails",    \* fusermount3 is missing or fails
      "bareUse" }        \* users work in the target while nothing is mounted
                         \* on it although there is a backing store

ASSUME DaemonAssumption == NoDaemon \notin Daemons /\ "dead" \notin Daemons
ASSUME EnvAssumption == Env \subseteq EnvKinds
ASSUME BoundAssumption == MaxMounts \in Nat

VARIABLES
    target,   \* the directory under the mounts: "absent", "empty", "full"
    backing,  \* the backing store, likewise
    mounts,   \* FUSE mounts on the target, the visible one last
    main,     \* where main() of each daemon is
    rest,     \* where each execution of restore_workspace is
    owner,    \* the daemon whose thread it is, or NoDaemon
    saved     \* history: users have files in the workspace

vars == <<target, backing, mounts, main, rest, owner, saved>>
dirVars == <<target, backing, saved>>
restVars == <<rest, owner>>

Dir == {"absent", "empty", "full"}
Starting == {"checkBacking", "checkTarget", "swap", "makeBacking", "unmount",
             "remove", "create", "mount"}
Restoring == {"unmount", "exists", "remove", "rename"}

TypeOK ==
    /\ target \in Dir /\ backing \in Dir
    /\ mounts \in Seq(Daemons \cup {"dead"})
    /\ main \in [Daemons -> Starting \cup {"off", "serve"}]
    /\ rest \in [Restores -> Restoring \cup {"off", "done", "cut"}]
    /\ owner \in [Restores -> Daemons \cup {NoDaemon}]
    /\ saved \in BOOLEAN
    /\ \A r \in Restores :    \* a thread runs in a daemon that listens
          rest[r] \in Restoring /\ owner[r] \in Daemons
            => main[owner[r]] \in {"mount", "serve"}

Init ==
    /\ target \in Dir /\ backing = "absent" /\ mounts = <<>>
    /\ main = [d \in Daemons |-> "off"]
    /\ rest = [r \in Restores |-> "off"]
    /\ owner = [r \in Restores |-> NoDaemon]
    /\ saved = (target = "full")

-----------------------------------------------------------------------------
(* File system calls on the target's path.  A mount hides the directory    *)
(* and shows the backing store; one whose daemon is gone shows nothing.    *)
ShowsBacking == mounts # <<>> /\ mounts[Len(mounts)] # "dead"
TargetExists ==
    IF mounts = <<>> THEN target # "absent"
                     ELSE ShowsBacking /\ backing # "absent"

Unmount ==
    \/ /\ mounts # <<>> /\ mounts' = SubSeq(mounts, 1, Len(mounts) - 1)
    \/ /\ mounts = <<>> \/ "unmountFails" \in Env
       /\ UNCHANGED mounts

(* remove_dir_all: through a mount it empties what the mount shows and     *)
(* fails on the mount point.                                               *)
RemoveTarget ==
    /\ target' = IF mounts = <<>> THEN "absent" ELSE target
    /\ backing' = IF ShowsBacking /\ backing = "full" THEN "empty" ELSE backing

(* rename(2) of directories: not of or onto a mount point, nor onto a      *)
(* directory that is not empty.                                            *)
CanMove(from, to) == mounts = <<>> /\ from # "absent" /\ to # "full"

-----------------------------------------------------------------------------
StartBusy == \E d \in Daemons : main[d] \in Starting
RestoreBusy == \E r \in Restores : rest[r] \in Restoring
MayStart == "starts" \in Env \/ (~StartBusy /\ ~RestoreBusy)
MayRestore ==
    /\ "starts" \in Env \/ ~StartBusy
    /\ "restores" \in Env \/ ~RestoreBusy

(* Faulty variant: the restore goes on in a process of its own.            *)
EndedButRestore(d, as) ==
    /\ main' = [main EXCEPT ![d] = "off"]
    /\ mounts' = [i \in DOMAIN mounts |->
                    IF mounts[i] = d THEN "dead" ELSE mounts[i]]
    /\ UNCHANGED restVars

(* The end of a daemon process: its threads end with it, its mount stays.  *)
Ended(d, as) ==
    /\ main' = [main EXCEPT ![d] = "off"]
    /\ rest' = [r \in Restores |-> IF owner[r] # d THEN rest[r] ELSE
                                   IF rest[r] \in Restoring THEN as ELSE "off"]
    /\ mounts' = [i \in DOMAIN mounts |->
                    IF mounts[i] = d THEN "dead" ELSE mounts[i]]
    /\ UNCHANGED owner
Panic(d) == Ended(d, "off") /\ UNCHANGED dirVars

At(d, pc, next) == main[d] = pc /\ main' = [main EXCEPT ![d] = next]

Start(d) ==
    /\ MayStart /\ At(d, "off", "checkBacking")
    /\ UNCHANGED <<dirVars, restVars, mounts>>

StartCheckBacking(d) ==
    /\ At(d, "checkBacking", IF backing # "absent" THEN "unmount"
                                                   ELSE "checkTarget")
    /\ UNCHANGED <<dirVars, restVars, mounts>>

StartCheckTarget(d) ==
    /\ At(d, "checkTarget", IF TargetExists THEN "swap" ELSE "makeBacking")
    /\ UNCHANGED <<dirVars, restVars, mounts>>

StartSwap(d) ==
    /\ main[d] = "swap"
    /\ \/ /\ CanMove(target, backing) /\ At(d, "swap", "unmount")
          /\ backing' = target /\ target' = "absent"
          /\ UNCHANGED <<saved, restVars, mounts>>
       \/ ~CanMove(target, backing) /\ Panic(d)

StartMakeBacking(d) ==
    /\ At(d, "makeBacking", "unmount")
    /\ backing' = IF backing = "absent" THEN "empty" ELSE backing
    /\ UNCHANGED <<target, saved, restVars, mounts>>

StartUnmount(d) ==
    /\ At(d, "unmount", "remove") /\ Unmount
    /\ UNCHANGED <<dirVars, restVars>>

StartRemove(d) ==
    /\ At(d, "remove", "create") /\ RemoveTarget
    /\ UNCHANGED <<saved, restVars, mounts>>

StartCreate(d) ==
    /\ main[d] = "create"
    /\ \/ /\ (mounts = <<>> \/ TargetExists) /\ At(d, "create", "mount")
          /\ target' = IF target = "absent" THEN "empty" ELSE target
          /\ UNCHANGED <<backing, saved, restVars, mounts>>
       \/ mounts # <<>> /\ ~TargetExists /\ Panic(d)

StartMount(d) ==
    /\ main[d] = "mount"
    /\ \/ /\ TargetExists /\ Len(mounts) < MaxMounts /\ At(d, "mount", "serve")
          /\ mounts' = Append(mounts, d)
          /\ UNCHANGED <<dirVars, restVars>>
       \/ ~TargetExists /\ Panic(d)

(* fuser::mount2 returns once the file system is unmounted, and main ends, *)
(* whatever the other threads are doing.                                   *)
MainReturns(d) ==
    /\ main[d] = "serve" /\ \A i \in DOMAIN mounts : mounts[i] # d
    /\ Ended(d, "cut") /\ UNCHANGED dirVars

MainStep(d) ==
    \/ Start(d) \/ StartCheckBacking(d) \/ StartCheckTarget(d) \/ StartSwap(d)
    \/ StartMakeBacking(d) \/ StartUnmount(d) \/ StartRemove(d)
    \/ StartCreate(d) \/ StartMount(d) \/ MainReturns(d)

-----------------------------------------------------------------------------
(* restore_workspace, by the Ctrl-C handler, the watchdog or a SHUTDOWN    *)
(* thread of a daemon that listens, or by the --restore command.           *)
RestAt(r, pc, next) == rest[r] = pc /\ rest' = [rest EXCEPT ![r] = next]

(* Faulty variant: it is not asked whether there is a backing store.       *)
RestoreBeginBlind(r, o) ==
    /\ MayRestore /\ rest[r] \in {"off", "cut"}
    /\ o # NoDaemon => main[o] \in {"mount", "serve"}
    /\ rest' = [rest EXCEPT ![r] = "unmount"]
    /\ owner' = [owner EXCEPT ![r] = o]
    /\ UNCHANGED <<dirVars, mounts, main>>

RestoreBegin(r, o) ==
    /\ MayRestore /\ rest[r] \in {"off", "cut"}
    /\ o # NoDaemon => main[o] \in {"mount", "serve"}
    /\ rest' = [rest EXCEPT ![r] = IF backing # "absent" THEN "unmount"
                                                        ELSE "done"]
    /\ owner' = [owner EXCEPT ![r] = o]
    /\ UNCHANGED <<dirVars, mounts, main>>

(* Faulty variant: the file system is not unmounted.                       *)
RestoreUnmountForgotten(r) ==
    /\ RestAt(r, "unmount", "exists")
    /\ UNCHANGED <<dirVars, mounts, main, owner>>

RestoreUnmount(r) ==
    /\ RestAt(r, "unmount", "exists") /\ Unmount
    /\ UNCHANGED <<dirVars, main, owner>>

RestoreExists(r) ==
    /\ RestAt(r, "exists", IF TargetExists THEN "remove" ELSE "rename")
    /\ UNCHANGED <<dirVars, mounts, main, owner>>

RestoreRemove(r) ==
    /\ RestAt(r, "remove", "rename") /\ RemoveTarget
    /\ UNCHANGED <<saved, mounts, main, owner>>

RestoreRename(r) ==
    /\ RestAt(r, "rename", "done")
    /\ IF CanMove(backing, target)
       THEN target' = backing /\ backing' = "absent"
       ELSE UNCHANGED <<target, backing>>
    /\ UNCHANGED <<saved, mounts, main, owner>>

RestoreExit(r) ==
    /\ rest[r] = "done"
    /\ \/ owner[r] \in Daemons /\ Ended(owner[r], "off")
       \/ /\ owner[r] = NoDaemon /\ RestAt(r, "done", "off")
          /\ UNCHANGED <<mounts, main, owner>>
    /\ UNCHANGED dirVars

RestoreStep(r) ==
    \/ \E o \in Daemons \cup {NoDaemon} : RestoreBegin(r, o)
    \/ RestoreUnmount(r) \/ RestoreExists(r) \/ RestoreRemove(r)
    \/ RestoreRename(r) \/ RestoreExit(r)

-----------------------------------------------------------------------------
(* Processes die and the machine restarts at any moment.                   *)
Crash(d) == main[d] # "off" /\ Ended(d, "off") /\ UNCHANGED dirVars

RestoreCrash(r) ==
    /\ rest[r] # "off" /\ owner[r] = NoDaemon
    /\ rest' = [rest EXCEPT ![r] = "off"]
    /\ UNCHANGED <<dirVars, mounts, main, owner>>

Reboot ==
    /\ main' = [d \in Daemons |-> "off"]
    /\ rest' = [r \in Restores |-> "off"]
    /\ mounts' = <<>>
    /\ UNCHANGED <<dirVars, owner>>

(* Users put files into the workspace through the mount, or into the plain *)
(* directory: while there is no backing store, or, with "bareUse", at any  *)
(* time.                                                                   *)
UserSaves ==
    /\ TargetExists
    /\ \/ /\ ShowsBacking /\ backing' = "full" /\ UNCHANGED target
       \/ /\ mounts = <<>>
          /\ backing = "absent" \/ "bareUse" \in Env
          /\ target' = "full" /\ UNCHANGED backing
    /\ saved' = TRUE
    /\ UNCHANGED <<mounts, main, restVars>>

Next ==
    \/ \E d \in Daemons : MainStep(d) \/ Crash(d)
    \/ \E r \in Restores : RestoreStep(r) \/ RestoreCrash(r)
    \/ Reboot
    \/ UserSaves

Spec == Init /\ [][Next]_vars

-----------------------------------------------------------------------------
(* What the users have saved is in the workspace directory or in the       *)
(* backing store, and in one of them only, whatever dies at whatever point *)
(* of a start or a restore: the next start and the next restore, which     *)
(* both clear the target when there is a backing store, find it (main.rs). *)
DataKept == saved => (target = "full") # (backing = "full")

(* A restore that comes to its end has put the backing store back in place *)
(* (main.rs:40, "Restore complete.", is printed in every case).            *)
RestoreCompletes ==
    [][\A r \in Restores :
          rest[r] = "rename" /\ rest'[r] = "done"
            => backing' = "absent" /\ target' # "absent"]_vars

(* The restore that Ctrl-C, the watchdog or SHUTDOWN has begun is not cut  *)
(* short by the end of main, which returns once the restore has unmounted  *)
(* the file system (main.rs:104, "restoring workspace, and exiting         *)
(* cleanly").                                                              *)
RestoreNotCut == \A r \in Restores : rest[r] # "cut"
=============================================================================
