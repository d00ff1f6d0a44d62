--------------------------- MODULE WorkspaceProofs ---------------------------
(***************************************************************************)
(* Theorems about Workspace for any number of daemons and restores.        *)
(***************************************************************************)
EXTENDS Workspace, SequenceTheorems, TLAPS

MountsType == mounts \in Seq(Daemons \cup {"dead"})

(* What unmounting does to the stack of mounts.                            *)
LEMMA UnmountStack ==
    ASSUME MountsType, Unmount
    PROVE  /\ MountsType'
           /\ Len(mounts') <= Len(mounts)
           /\ Len(mounts) <= 1 /\ "unmountFails" \notin Env => mounts' = <<>>
  <1>1. CASE mounts # <<>> /\ mounts' = SubSeq(mounts, 1, Len(mounts) - 1)
    <2>1. Len(mounts) \in Nat \ {0}
        BY <1>1, EmptySeq, LenProperties DEF MountsType
    <2>2. \A i \in 1 .. Len(mounts) - 1 : mounts[i] \in Daemons \cup {"dead"}
        BY <2>1, ElementOfSeq DEF MountsType
    <2>3. MountsType' /\ Len(mounts') = Len(mounts) - 1
      <3> DEFINE n == Len(mounts) - 1
                 S == Daemons \cup {"dead"}
      <3>1. /\ SubSeq(mounts, 1, n) \in Seq(S)
            /\ Len(SubSeq(mounts, 1, n)) = IF 1 <= n THEN n - 1 + 1 ELSE 0
          <4>1. n \in Int /\ \A i \in 1 .. n : mounts[i] \in S
              BY <2>1, <2>2
          <4> HIDE DEF n, S
          <4> QED
              BY <4>1, SubSeqProperties
      <3>2. (IF 1 <= n THEN n - 1 + 1 ELSE 0) = Len(mounts) - 1
        <4>1. n \in Nat
            BY <2>1
        <4> HIDE DEF n
        <4>2. (IF 1 <= n THEN n - 1 + 1 ELSE 0) = n
            BY <4>1
        <4> QED
            BY <4>2 DEF n
      <3>3. mounts' = SubSeq(mounts, 1, n)
          BY <1>1
      <3> HIDE DEF n
      <3> QED
          BY <3>1, <3>2, <3>3 DEF MountsType
    <2>4. Len(mounts) <= 1 => mounts' = <<>>
        BY <1>1, <2>1, SubSeqEmpty
    <2> QED
        BY <2>1, <2>3, <2>4
  <1>2. CASE UNCHANGED mounts /\ (mounts = <<>> \/ "unmountFails" \in Env)
    <2>1. Len(mounts) \in Nat
        BY LenProperties DEF MountsType
    <2> QED
        BY <1>2, <2>1 DEF MountsType
  <1> QED
      BY <1>1, <1>2 DEF Unmount

(* What the end of a process does to it.                                   *)
LEMMA EndedStack ==
    ASSUME MountsType, NEW d, NEW as, Ended(d, as)
    PROVE  MountsType' /\ Len(mounts') = Len(mounts)
  <1> DEFINE n == Len(mounts)
  <1>1. /\ n \in Nat /\ DOMAIN mounts = 1 .. n
        /\ mounts \in [1 .. n -> Daemons \cup {"dead"}]
      BY LenProperties DEF MountsType
  <1>2. mounts' \in [1 .. n -> Daemons \cup {"dead"}]
      BY <1>1 DEF Ended
  <1>3. MountsType'
      BY <1>1, <1>2, SeqDef DEF MountsType
  <1>4. DOMAIN mounts' = 1 .. n /\ DOMAIN mounts' = 1 .. Len(mounts')
      BY <1>2, <1>3, LenProperties DEF MountsType
  <1>5. Len(mounts') \in Nat
      BY <1>3, LenProperties DEF MountsType
  <1> QED
      BY <1>1, <1>3, <1>4, <1>5

(* A stack of length 0 is the empty stack.                                 *)
LEMMA EmptyStack ==
    ASSUME MountsType
    PROVE  /\ Len(mounts) \in Nat
           /\ Len(mounts) = 0 <=> mounts = <<>>
  BY EmptySeq, LenProperties DEF MountsType

-----------------------------------------------------------------------------
(* The type invariant.                                                     *)
LEMMA MainType ==
    ASSUME TypeOK, NEW d \in Daemons, MainStep(d)
    PROVE  TypeOK'
  <1> USE DEF dirVars, restVars, TypeOK, Dir, Restoring
  <1>1. ASSUME NEW as \in {"off", "cut"}, Ended(d, as), UNCHANGED dirVars
        PROVE  TypeOK'
    <2>1. mounts' \in Seq(Daemons \cup {"dead"})
        BY <1>1, EndedStack DEF MountsType
    <2> QED
        BY <1>1, <2>1 DEF Ended
  <1>2. CASE Start(d) \/ StartCheckBacking(d) \/ StartCheckTarget(d)
               \/ StartMakeBacking(d)
      BY <1>2 DEF Start, StartCheckBacking, StartCheckTarget,
         StartMakeBacking, At, Starting
  <1>3. CASE StartSwap(d)
      BY <1>1, <1>3 DEF StartSwap, At, Starting, Panic
  <1>4. CASE StartUnmount(d)
    <2>1. mounts' \in Seq(Daemons \cup {"dead"})
        BY <1>4, UnmountStack DEF StartUnmount, MountsType
    <2> QED
        BY <1>4, <2>1 DEF StartUnmount, At, Starting
  <1>5. CASE StartRemove(d)
      BY <1>5 DEF StartRemove, RemoveTarget, At, Starting
  <1>6. CASE StartCreate(d)
      BY <1>1, <1>6 DEF StartCreate, At, Starting, Panic
  <1>7. CASE StartMount(d)
    <2>1. CASE mounts' = Append(mounts, d)
      <3>1. mounts' \in Seq(Daemons \cup {"dead"})
          BY <2>1, AppendProperties
      <3> QED
          BY <1>1, <1>7, <3>1 DEF StartMount, At, Starting, Panic
    <2>2. CASE mounts' # Append(mounts, d)
        BY <1>1, <1>7, <2>2 DEF StartMount, Panic
    <2> QED
        BY <2>1, <2>2
  <1>8. CASE MainReturns(d)
      BY <1>1, <1>8 DEF MainReturns
  <1> QED
      BY <1>2, <1>3, <1>4, <1>5, <1>6, <1>7, <1>8 DEF MainStep

(* A step of a restore keeps the types.                                    *)
LEMMA RestoreType ==
    ASSUME TypeOK, NEW r \in Restores, RestoreStep(r)
    PROVE  TypeOK'
  <1> USE DEF dirVars, restVars, TypeOK, Dir, Restoring
  <1>1. ASSUME NEW o \in Daemons \cup {NoDaemon}, RestoreBegin(r, o)
        PROVE  TypeOK'
      BY <1>1, DaemonAssumption DEF RestoreBegin
  <1>2. CASE RestoreUnmount(r)
    <2>1. mounts' \in Seq(Daemons \cup {"dead"})
        BY <1>2, UnmountStack DEF RestoreUnmount, MountsType
    <2> QED
        BY <1>2, <2>1 DEF RestoreUnmount, RestAt
  <1>3. CASE RestoreExists(r) \/ RestoreRename(r)
      BY <1>3 DEF RestoreExists, RestoreRename, RestAt
  <1>4. CASE RestoreRemove(r)
      BY <1>4 DEF RestoreRemove, RemoveTarget, RestAt
  <1>5. CASE RestoreExit(r)
    <2>1. CASE owner[r] \in Daemons /\ Ended(owner[r], "off")
      <3>1. mounts' \in Seq(Daemons \cup {"dead"})
          BY <2>1, EndedStack DEF MountsType
      <3> QED
          BY <1>5, <2>1, <3>1 DEF RestoreExit, Ended
    <2>2. CASE RestAt(r, "done", "off") /\ UNCHANGED <<mounts, main, owner>>
        BY <1>5, <2>2 DEF RestoreExit, RestAt
    <2> QED
        BY <1>5, <2>1, <2>2 DEF RestoreExit
  <1> QED
      BY <1>1, <1>2, <1>3, <1>4, <1>5 DEF RestoreStep

(* Every variable of the workspace keeps its type, whatever overlaps.      *)
THEOREM TypeCorrect == Spec => []TypeOK
  <1>1. Init => TypeOK
    <2> SUFFICES ASSUME Init PROVE TypeOK
        OBVIOUS
    <2>1. mounts \in Seq(Daemons \cup {"dead"})
        BY EmptySeq DEF Init
    <2>2. saved \in BOOLEAN
        BY Zenon DEF Init
    <2> QED
        BY <2>1, <2>2 DEF Init, TypeOK, Dir, Restoring
  <1>2. TypeOK /\ [Next]_vars => TypeOK'
    <2> SUFFICES ASSUME TypeOK, [Next]_vars PROVE TypeOK'
        OBVIOUS
    <2>1. ASSUME NEW d \in Daemons, Crash(d) PROVE TypeOK'
      <3>1. mounts' \in Seq(Daemons \cup {"dead"})
          BY <2>1, EndedStack DEF MountsType, Crash, TypeOK
      <3> QED
          BY <2>1, <3>1 DEF Crash, Ended, TypeOK, dirVars, Restoring
    <2>2. ASSUME NEW r \in Restores, RestoreCrash(r) PROVE TypeOK'
        BY <2>2 DEF RestoreCrash, TypeOK, dirVars, Restoring
    <2>3. CASE Reboot
      <3>1. mounts' \in Seq(Daemons \cup {"dead"})
          BY <2>3, EmptySeq DEF Reboot
      <3> QED
          BY <2>3, <3>1 DEF Reboot, TypeOK, dirVars, Restoring
    <2>4. CASE UserSaves
        BY <2>4 DEF UserSaves, TypeOK, Dir, restVars
    <2>5. CASE UNCHANGED vars
        BY <2>5 DEF TypeOK, vars
    <2> QED
        BY <2>1, <2>2, <2>3, <2>4, <2>5, MainType, RestoreType DEF Next
  <1> QED
      BY <1>1, <1>2, PTL DEF Spec

-----------------------------------------------------------------------------
(* The invariant that keeps the files, when starts and restores do not     *)
(* overlap: at most one of them is at work ...                             *)
OneActor ==
    /\ \A d, e \in Daemons :
          main[d] \in Starting /\ main[e] \in Starting => d = e
    /\ \A r, q \in Restores :
          rest[r] \in Restoring /\ rest[q] \in Restoring => r = q
    /\ \A d \in Daemons, r \in Restores :
          ~(main[d] \in Starting /\ rest[r] \in Restoring)

(* ... what it has found or done still holds ...                           *)
StartKnows ==
    \A d \in Daemons :
        /\ main[d] \in {"checkTarget", "swap", "makeBacking"}
             => backing = "absent"
        /\ main[d] = "makeBacking" => target = "absent"
        /\ main[d] \in {"unmount", "remove", "create", "mount"}
             => backing # "absent"
        /\ main[d] \in {"remove", "create", "mount"} => mounts = <<>>
RestoreKnows ==
    \A r \in Restores :
        /\ rest[r] \in Restoring => backing # "absent"
        /\ rest[r] \in {"exists", "remove", "rename"} => mounts = <<>>
        /\ rest[r] = "rename" => target = "absent"

(* ... and the backing store, while there is one, is the only place of the *)
(* files and the only thing ever mounted.                                  *)
Layers ==
    /\ Len(mounts) <= 1
    /\ mounts # <<>> => backing # "absent"
    /\ backing # "absent" => target # "full"
    /\ saved => target = "full" \/ backing = "full"

KeepInv == OneActor /\ StartKnows /\ RestoreKnows /\ Layers

(* Leaving an activity, with the directories as they are, keeps it.        *)
LEMMA EndKeeps ==
    ASSUME TypeOK, KeepInv, NEW d \in Daemons, NEW as \in {"off", "cut"},
           Ended(d, as), UNCHANGED dirVars
    PROVE  KeepInv'
  <1>1. /\ \A e \in Daemons : main'[e] \in {main[e], "off"}
        /\ \A r \in Restores : rest'[r] \in {rest[r], "off", "cut"}
      BY DEF Ended, TypeOK
  <1>2. /\ Len(mounts') = Len(mounts)
        /\ mounts' = <<>> <=> mounts = <<>>
    <2>1. MountsType' /\ Len(mounts') = Len(mounts)
        BY EndedStack DEF TypeOK, MountsType
    <2>2. Len(mounts) = 0 <=> mounts = <<>>
        BY EmptyStack DEF TypeOK, MountsType
    <2>3. Len(mounts') = 0 <=> mounts' = <<>>
        BY <2>1, EmptySeq DEF MountsType
    <2> QED
        BY <2>1, <2>2, <2>3
  <1>3. OneActor'
      BY <1>1 DEF KeepInv, OneActor, Starting, Restoring
  <1>4. StartKnows' /\ RestoreKnows'
      BY <1>1, <1>2 DEF KeepInv, StartKnows, RestoreKnows, Restoring, dirVars
  <1>5. Layers'
      BY <1>2 DEF KeepInv, Layers, dirVars
  <1> QED
      BY <1>3, <1>4, <1>5 DEF KeepInv

(* A daemon at work on its start is the only one at work.                  *)
NowAlone(d, next) ==
    /\ OneActor'
    /\ \A e \in Daemons : e # d => main'[e] \notin Starting
    /\ \A r \in Restores : rest'[r] \notin Restoring
    /\ main'[d] = next

(* A start at work stays alone at work when it goes on.                    *)
LEMMA StarterAlone ==
    ASSUME TypeOK, KeepInv, NEW d \in Daemons, main[d] \in Starting,
           NEW next, main' = [main EXCEPT ![d] = next], UNCHANGED rest
    PROVE  NowAlone(d, next)
  BY DEF TypeOK, KeepInv, OneActor, NowAlone

(* Every step of a start keeps the invariant.                              *)
LEMMA StartKeeps ==
    ASSUME Env = {}, TypeOK, TypeOK', KeepInv, NEW d \in Daemons, MainStep(d)
    PROVE  KeepInv'
  <1> USE DEF dirVars, restVars
  <1>1. ASSUME NEW as \in {"off", "cut"}, Ended(d, as), UNCHANGED dirVars
        PROVE  KeepInv'
      BY <1>1, EndKeeps
  <1>2. CASE Start(d)
    <2>1. /\ \A e \in Daemons : main[e] \notin Starting
          /\ \A r \in Restores : rest[r] \notin Restoring
          /\ main' = [main EXCEPT ![d] = "checkBacking"]
          /\ UNCHANGED <<target, backing, saved, rest, owner, mounts>>
        BY <1>2 DEF Start, MayStart, StartBusy, RestoreBusy, At
    <2>2. /\ \A e \in Daemons : e # d => main'[e] \notin Starting
          /\ main'[d] = "checkBacking"
        BY <2>1 DEF TypeOK
    <2> QED
        BY <2>1, <2>2 DEF KeepInv, OneActor, StartKnows, RestoreKnows,
           Layers, Starting, Restoring
  <1>3. CASE StartCheckBacking(d) \/ StartCheckTarget(d)
    <2>1. PICK next \in Starting :
             /\ main[d] \in Starting /\ main' = [main EXCEPT ![d] = next]
             /\ UNCHANGED <<target, backing, saved, rest, owner, mounts>>
        BY <1>3 DEF StartCheckBacking, StartCheckTarget, At, Starting
    <2>2. NowAlone(d, main'[d])
        BY <2>1, StarterAlone DEF TypeOK
    <2>3. StartKnows'
      <3>1. CASE StartCheckBacking(d)
          BY <2>1, <2>2, <3>1
          DEF NowAlone, StartCheckBacking, At, KeepInv, StartKnows, Starting, TypeOK
      <3>2. CASE StartCheckTarget(d)
        <4>1. backing = "absent" /\ mounts = <<>>
            BY <3>2 DEF StartCheckTarget, At, KeepInv, StartKnows, Layers
        <4> QED
            BY <2>1, <2>2, <3>2, <4>1
            DEF NowAlone, StartCheckTarget, At, KeepInv, StartKnows, Starting,
                TargetExists, TypeOK
      <3> QED
          BY <1>3, <3>1, <3>2
    <2> QED
        BY <2>1, <2>2, <2>3 DEF NowAlone, KeepInv, RestoreKnows, Layers,
           Restoring
  <1>4. CASE main[d] = "swap" /\ main' = [main EXCEPT ![d] = "unmount"]
               /\ CanMove(target, backing)
               /\ backing' = target /\ target' = "absent"
               /\ UNCHANGED <<saved, rest, owner, mounts>>
    <2>1. NowAlone(d, "unmount")
        BY <1>4, StarterAlone DEF Starting
    <2>2. StartKnows'
        BY <1>4, <2>1
        DEF NowAlone, KeepInv, StartKnows, CanMove, Starting
    <2>3. Layers'
        BY <1>4 DEF KeepInv, StartKnows, Layers, CanMove
    <2> QED
        BY <1>4, <2>1, <2>2, <2>3
        DEF NowAlone, KeepInv, RestoreKnows, Restoring
  <1>5. CASE StartMakeBacking(d)
    <2>1. /\ main[d] = "makeBacking" /\ backing = "absent"
          /\ target = "absent" /\ backing' = "empty"
          /\ main' = [main EXCEPT ![d] = "unmount"]
          /\ UNCHANGED <<target, saved, rest, owner, mounts>>
        BY <1>5 DEF StartMakeBacking, At, KeepInv, StartKnows
    <2>2. NowAlone(d, "unmount")
        BY <2>1, StarterAlone DEF Starting
    <2>3. StartKnows'
        BY <2>1, <2>2
        DEF NowAlone, StartKnows, Starting
    <2>4. Layers'
        BY <2>1 DEF KeepInv, Layers
    <2> QED
        BY <2>1, <2>2, <2>3, <2>4
        DEF NowAlone, KeepInv, RestoreKnows, Restoring
  <1>6. CASE StartUnmount(d)
    <2>1. /\ main[d] = "unmount" /\ main' = [main EXCEPT ![d] = "remove"]
          /\ UNCHANGED <<target, backing, saved, rest, owner>>
          /\ backing # "absent"
        BY <1>6 DEF StartUnmount, At, KeepInv, StartKnows
    <2>2. mounts' = <<>> /\ Len(mounts') <= 1
        BY <1>6, UnmountStack, EmptySeq
        DEF StartUnmount, KeepInv, Layers, TypeOK, MountsType
    <2>3. NowAlone(d, "remove")
        BY <2>1, StarterAlone DEF Starting
    <2>4. StartKnows'
        BY <2>1, <2>2, <2>3
        DEF NowAlone, StartKnows, Starting
    <2> QED
        BY <2>1, <2>2, <2>3, <2>4
        DEF NowAlone, KeepInv, RestoreKnows, Restoring, Layers
  <1>7. CASE StartRemove(d)
    <2>1. /\ main[d] = "remove" /\ main' = [main EXCEPT ![d] = "create"]
          /\ mounts = <<>> /\ backing # "absent"
          /\ target' = "absent"
          /\ UNCHANGED <<backing, saved, rest, owner, mounts>>
        BY <1>7 DEF StartRemove, At, KeepInv, StartKnows, RemoveTarget,
           ShowsBacking
    <2>2. NowAlone(d, "create")
        BY <2>1, StarterAlone DEF Starting
    <2>3. StartKnows'
        BY <2>1, <2>2
        DEF NowAlone, StartKnows, Starting
    <2>4. Layers'
        BY <2>1 DEF KeepInv, Layers
    <2> QED
        BY <2>1, <2>2, <2>3, <2>4
        DEF NowAlone, KeepInv, RestoreKnows, Restoring
  <1>8. CASE main[d] = "create" /\ main' = [main EXCEPT ![d] = "mount"]
               /\ target' = (IF target = "absent" THEN "empty" ELSE target)
               /\ UNCHANGED <<backing, saved, rest, owner, mounts>>
    <2>1. NowAlone(d, "mount")
        BY <1>8, StarterAlone DEF Starting
    <2>2. mounts = <<>> /\ backing # "absent"
        BY <1>8 DEF KeepInv, StartKnows
    <2>3. StartKnows'
        BY <1>8, <2>1, <2>2
        DEF NowAlone, StartKnows, Starting
    <2>4. Layers'
        BY <1>8, <2>2 DEF KeepInv, Layers
    <2> QED
        BY <1>8, <2>1, <2>3, <2>4
        DEF NowAlone, KeepInv, RestoreKnows, Restoring
  <1>9. CASE main[d] = "mount" /\ main' = [main EXCEPT ![d] = "serve"]
               /\ mounts' = Append(mounts, d)
               /\ UNCHANGED <<target, backing, saved, rest, owner>>
    <2>1. NowAlone(d, "serve")
        BY <1>9, StarterAlone DEF Starting
    <2>2. mounts = <<>> /\ backing # "absent"
        BY <1>9 DEF KeepInv, StartKnows
    <2>3. Len(mounts') = 1
        BY <1>9, <2>2, AppendProperties, EmptySeq DEF TypeOK
    <2>4. StartKnows'
        BY <1>9, <2>1, <2>2
        DEF NowAlone, StartKnows, Starting
    <2>5. Layers'
        BY <1>9, <2>2, <2>3 DEF KeepInv, Layers
    <2> QED
        BY <1>9, <2>1, <2>4, <2>5
        DEF NowAlone, KeepInv, RestoreKnows, Restoring
  <1> QED
      BY <1>1, <1>2, <1>3, <1>4, <1>5, <1>6, <1>7, <1>8, <1>9
      DEF MainStep, StartSwap, StartCreate, StartMount, MainReturns, Panic, At

(* Likewise a restore at work.                                             *)
NowAloneR(r, next) ==
    /\ OneActor'
    /\ \A q \in Restores : q # r => rest'[q] \notin Restoring
    /\ \A d \in Daemons : main'[d] \notin Starting
    /\ rest'[r] = next

(* A restore at work stays alone at work when it goes on.                  *)
LEMMA RestorerAlone ==
    ASSUME TypeOK, KeepInv, NEW r \in Restores, rest[r] \in Restoring,
           NEW next, rest' = [rest EXCEPT ![r] = next], UNCHANGED main
    PROVE  NowAloneR(r, next)
  BY DEF TypeOK, KeepInv, OneActor, NowAloneR

(* Every step of a restore keeps the invariant, and its rename succeeds.   *)
LEMMA RestoreKeeps ==
    ASSUME Env = {}, TypeOK, TypeOK', KeepInv, NEW r \in Restores,
           RestoreStep(r)
    PROVE  /\ KeepInv'
           /\ RestoreRename(r) => backing' = "absent" /\ target' # "absent"
  <1> USE DEF dirVars, restVars
  <1>1. ASSUME NEW o \in Daemons \cup {NoDaemon}, RestoreBegin(r, o)
        PROVE  KeepInv'
    <2>1. PICK next \in {"unmount", "done"} :
             /\ rest' = [rest EXCEPT ![r] = next]
             /\ next = "unmount" => backing # "absent"
             /\ \A q \in Restores : rest[q] \notin Restoring
             /\ \A d \in Daemons : main[d] \notin Starting
             /\ UNCHANGED <<target, backing, saved, mounts, main>>
        BY <1>1 DEF RestoreBegin, MayRestore, StartBusy, RestoreBusy
    <2>2. /\ rest'[r] = next
          /\ \A q \in Restores : q # r => rest'[q] \notin Restoring
        BY <2>1 DEF TypeOK
    <2> QED
        BY <2>1, <2>2 DEF KeepInv, OneActor, StartKnows, RestoreKnows,
           Layers, Starting, Restoring
  <1>2. CASE RestoreUnmount(r)
    <2>1. /\ rest[r] = "unmount" /\ rest' = [rest EXCEPT ![r] = "exists"]
          /\ UNCHANGED <<target, backing, saved, main>>
          /\ backing # "absent"
        BY <1>2 DEF RestoreUnmount, RestAt, KeepInv, RestoreKnows, Restoring
    <2>2. mounts' = <<>> /\ Len(mounts') <= 1
        BY <1>2, UnmountStack, EmptySeq
        DEF RestoreUnmount, KeepInv, Layers, TypeOK, MountsType
    <2>3. NowAloneR(r, "exists")
        BY <2>1, RestorerAlone DEF Restoring
    <2>4. RestoreKnows'
        BY <2>1, <2>2, <2>3 DEF NowAloneR, RestoreKnows, Restoring
    <2> QED
        BY <2>1, <2>2, <2>3, <2>4
        DEF NowAloneR, KeepInv, StartKnows, Starting, Layers, RestoreRename,
            RestAt
  <1>3. CASE RestoreExists(r)
    <2>1. PICK next \in {"remove", "rename"} :
             /\ rest[r] = "exists" /\ rest' = [rest EXCEPT ![r] = next]
             /\ next = "rename" => ~TargetExists
             /\ UNCHANGED <<target, backing, saved, mounts, main>>
        BY <1>3 DEF RestoreExists, RestAt
    <2>2. mounts = <<>> /\ backing # "absent"
        BY <2>1 DEF KeepInv, RestoreKnows, Restoring
    <2>3. NowAloneR(r, next)
        BY <2>1, RestorerAlone DEF Restoring
    <2>4. RestoreKnows'
        BY <2>1, <2>2, <2>3
        DEF NowAloneR, RestoreKnows, Restoring, TargetExists
    <2> QED
        BY <2>1, <2>3, <2>4
        DEF NowAloneR, KeepInv, StartKnows, Starting, Layers, RestoreRename,
            RestAt
  <1>4. CASE RestoreRemove(r)
    <2>1. /\ rest[r] = "remove" /\ rest' = [rest EXCEPT ![r] = "rename"]
          /\ mounts = <<>> /\ backing # "absent" /\ target' = "absent"
          /\ UNCHANGED <<backing, saved, mounts, main>>
        BY <1>4 DEF RestoreRemove, RestAt, KeepInv, RestoreKnows, Restoring,
           RemoveTarget, ShowsBacking
    <2>2. NowAloneR(r, "rename")
        BY <2>1, RestorerAlone DEF Restoring
    <2>3. RestoreKnows' /\ Layers'
        BY <2>1, <2>2 DEF NowAloneR, RestoreKnows, Restoring, KeepInv, Layers
    <2> QED
        BY <2>1, <2>2, <2>3
        DEF NowAloneR, KeepInv, StartKnows, Starting, RestoreRename, RestAt
  <1>5. CASE RestoreRename(r)
    <2>1. /\ rest[r] = "rename" /\ rest' = [rest EXCEPT ![r] = "done"]
          /\ mounts = <<>> /\ backing # "absent" /\ target = "absent"
        BY <1>5 DEF RestoreRename, RestAt, KeepInv, RestoreKnows, Restoring
    <2>2. /\ target' = backing /\ backing' = "absent"
          /\ UNCHANGED <<saved, mounts, main>>
        BY <1>5, <2>1 DEF RestoreRename, CanMove
    <2>3. NowAloneR(r, "done")
        BY <2>1, <2>2, RestorerAlone DEF Restoring
    <2>4. RestoreKnows' /\ Layers'
        BY <2>1, <2>2, <2>3
        DEF NowAloneR, RestoreKnows, Restoring, KeepInv, Layers
    <2> QED
        BY <2>1, <2>2, <2>3, <2>4
        DEF NowAloneR, KeepInv, StartKnows, Starting
  <1>6. CASE RestoreExit(r)
    <2>1. CASE owner[r] \in Daemons /\ Ended(owner[r], "off")
      <3>1. UNCHANGED dirVars
          BY <1>6 DEF RestoreExit
      <3>2. KeepInv'
          BY <2>1, <3>1, EndKeeps
      <3> QED
          BY <1>6, <3>2 DEF RestoreExit, RestoreRename, RestAt
    <2>2. CASE RestAt(r, "done", "off") /\ UNCHANGED <<mounts, main, owner>>
      <3>1. /\ \A q \in Restores : rest'[q] \in {rest[q], "off"}
            /\ UNCHANGED <<target, backing, saved, mounts, main>>
          BY <1>6, <2>2 DEF RestoreExit, RestAt, TypeOK
      <3> QED
          BY <2>2, <3>1 DEF KeepInv, OneActor, StartKnows, RestoreKnows,
             Layers, Restoring, RestoreRename, RestAt
    <2> QED
        BY <1>6, <2>1, <2>2 DEF RestoreExit
  <1>7. ASSUME NEW o \in Daemons \cup {NoDaemon}, RestoreBegin(r, o)
        PROVE  ~RestoreRename(r)
      BY <1>7 DEF RestoreBegin, RestoreRename, RestAt
  <1> QED
      BY <1>1, <1>2, <1>3, <1>4, <1>5, <1>6, <1>7 DEF RestoreStep

(* Crashes, a reboot and users' saves keep the invariant.                  *)
LEMMA OthersKeep ==
    ASSUME Env = {}, TypeOK, TypeOK', KeepInv,
           \/ \E d \in Daemons : Crash(d)
           \/ \E r \in Restores : RestoreCrash(r)
           \/ Reboot \/ UserSaves \/ UNCHANGED vars
    PROVE  KeepInv'
  <1> USE DEF dirVars, restVars
  <1>1. ASSUME NEW d \in Daemons, Crash(d) PROVE KeepInv'
      BY <1>1, EndKeeps DEF Crash
  <1>2. ASSUME NEW r \in Restores, RestoreCrash(r) PROVE KeepInv'
    <2>1. /\ \A q \in Restores : rest'[q] \in {rest[q], "off"}
          /\ UNCHANGED <<target, backing, saved, mounts, main>>
        BY <1>2 DEF RestoreCrash, TypeOK
    <2> QED
        BY <2>1 DEF KeepInv, OneActor, StartKnows, RestoreKnows, Layers,
           Restoring
  <1>3. CASE Reboot
    <2>1. /\ \A d \in Daemons : main'[d] = "off"
          /\ \A r \in Restores : rest'[r] = "off"
          /\ mounts' = <<>> /\ Len(mounts') <= 1
          /\ UNCHANGED <<target, backing, saved>>
        BY <1>3, EmptySeq DEF Reboot
    <2> QED
        BY <2>1 DEF KeepInv, OneActor, StartKnows, RestoreKnows, Layers,
           Starting, Restoring
  <1>4. CASE UserSaves
    <2>1. UNCHANGED <<mounts, main, rest>>
        BY <1>4 DEF UserSaves
    <2>2. CASE ShowsBacking /\ backing' = "full" /\ UNCHANGED target
      <3>1. mounts # <<>>
          BY <2>2 DEF ShowsBacking
      <3> QED
          BY <1>4, <2>1, <2>2, <3>1
          DEF KeepInv, OneActor, StartKnows, RestoreKnows, Layers
    <2>3. CASE mounts = <<>> /\ backing = "absent" /\ target' = "full"
                 /\ UNCHANGED backing
      <3>1. target # "absent"
          BY <1>4, <2>3 DEF UserSaves, TargetExists
      <3> QED
          BY <1>4, <2>1, <2>3, <3>1
          DEF KeepInv, OneActor, StartKnows, RestoreKnows, Layers, Restoring
    <2> QED
        BY <1>4, <2>2, <2>3 DEF UserSaves
  <1>5. CASE UNCHANGED vars
      BY <1>5 DEF vars, KeepInv, OneActor, StartKnows, RestoreKnows, Layers
  <1> QED
      BY <1>1, <1>2, <1>3, <1>4, <1>5

(* Every step keeps the invariant, when nothing overlaps or fails.         *)
LEMMA KeepStep ==
    ASSUME Env = {}, TypeOK, TypeOK', KeepInv, [Next]_vars
    PROVE  KeepInv'
  <1>1. ASSUME NEW d \in Daemons, MainStep(d) PROVE KeepInv'
      BY <1>1, StartKeeps
  <1>2. ASSUME NEW r \in Restores, RestoreStep(r) PROVE KeepInv'
      BY <1>2, RestoreKeeps
  <1> QED
      BY <1>1, <1>2, OthersKeep DEF Next

(* The invariant that keeps the files holds throughout.                    *)
LEMMA KeepInvariant == ASSUME Env = {} PROVE Spec => []KeepInv
  <1>1. Init => KeepInv
    <2> SUFFICES ASSUME Init PROVE KeepInv
        OBVIOUS
    <2>1. saved => target = "full"
        BY Zenon DEF Init
    <2>2. Len(mounts) <= 1 /\ mounts = <<>> /\ backing = "absent"
        BY EmptySeq DEF Init
    <2> QED
        BY <2>1, <2>2 DEF Init, KeepInv, OneActor, StartKnows, RestoreKnows,
           Layers, Starting, Restoring
  <1>2. TypeOK /\ TypeOK' /\ KeepInv /\ [Next]_vars => KeepInv'
      BY KeepStep
  <1> QED
      BY <1>1, <1>2, TypeCorrect, PTL DEF Spec

(* As long as starts and restores do not overlap and unmounting works, any *)
(* number of daemons and restores may crash at any point and the machine   *)
(* may restart: the users' files stay in one place, the workspace          *)
(* directory or the backing store.                                         *)
THEOREM FilesKept == ASSUME Env = {} PROVE Spec => []DataKept
  <1>1. TypeOK /\ KeepInv => DataKept
      BY DEF KeepInv, Layers, DataKept
  <1> QED
      BY <1>1, TypeCorrect, KeepInvariant, PTL

(* Under the same conditions every restore that comes to its end has put   *)
(* the backing store back in the place of the workspace directory.         *)
THEOREM RestoresComplete == ASSUME Env = {} PROVE Spec => RestoreCompletes
  <1> DEFINE Completes ==
               \A r \in Restores :
                   rest[r] = "rename" /\ rest'[r] = "done"
                     => backing' = "absent" /\ target' # "absent"
  <1>1. TypeOK /\ TypeOK' /\ KeepInv /\ [Next]_vars => Completes
    <2> SUFFICES ASSUME TypeOK, TypeOK', KeepInv, [Next]_vars,
                        NEW r \in Restores,
                        rest[r] = "rename", rest'[r] = "done"
                 PROVE  backing' = "absent" /\ target' # "absent"
        OBVIOUS
    <2>1. ASSUME NEW d \in Daemons, MainStep(d) \/ Crash(d) PROVE FALSE
      <3>1. rest' = rest \/ \E as \in {"off", "cut"} : Ended(d, as)
          BY <2>1 DEF MainStep, Start, StartCheckBacking, StartCheckTarget,
             StartSwap, StartMakeBacking, StartUnmount, StartRemove,
             StartCreate, StartMount, MainReturns, Crash, Panic, restVars
      <3> QED
          BY <3>1 DEF Ended, Restoring, TypeOK
    <2>2. ASSUME NEW q \in Restores, RestoreStep(q) \/ RestoreCrash(q)
          PROVE  q = r /\ RestoreRename(r)
      <3>1. ASSUME rest' = [rest EXCEPT ![q] = "done"], rest[q] = "rename",
                   RestoreRename(q)
            PROVE  q = r /\ RestoreRename(r)
          BY <3>1 DEF TypeOK
      <3>2. ASSUME NEW o \in Daemons \cup {NoDaemon}, RestoreBegin(q, o)
            PROVE  FALSE
          BY <3>2 DEF RestoreBegin, TypeOK
      <3>3. ASSUME RestoreUnmount(q) \/ RestoreExists(q) \/ RestoreRemove(q)
                     \/ RestoreCrash(q)
            PROVE  FALSE
          BY <3>3 DEF RestoreUnmount, RestoreExists, RestoreRemove,
             RestoreCrash, RestAt, TypeOK
      <3>4. ASSUME RestoreExit(q) PROVE FALSE
          BY <3>4 DEF RestoreExit, RestAt, Ended, Restoring, TypeOK
      <3> QED
          BY <2>2, <3>1, <3>2, <3>3, <3>4
          DEF RestoreStep, RestoreRename, RestAt
    <2>3. ~Reboot /\ ~UserSaves /\ ~(UNCHANGED vars)
        BY DEF Reboot, UserSaves, restVars, vars
    <2> QED
        BY <2>1, <2>2, <2>3, RestoreKeeps DEF Next, RestoreStep
  <1>2. Completes => [\A r \in Restores :
                         rest[r] = "rename" /\ rest'[r] = "done"
                           => backing' = "absent" /\ target' # "absent"]_vars
      OBVIOUS
  <1> QED
      BY <1>1, <1>2, TypeCorrect, KeepInvariant, PTL DEF Spec, RestoreCompletes
=============================================================================
