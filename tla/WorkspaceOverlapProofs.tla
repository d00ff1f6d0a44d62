----------------------- MODULE WorkspaceOverlapProofs -----------------------
(***************************************************************************)
(* The theorem about WorkspaceOverlap, for any number of daemons and       *)
(* restores, whatever is in Env.                                           *)
(***************************************************************************)
EXTENDS WorkspaceOverlap, WorkspaceProofs

(* What one start or one restore that has not been crossed has found or    *)
(* done still holds, whatever the others are doing; and without saved      *)
(* files nothing is full.                                                  *)
StartSure(d) ==
    /\ main[d] \in {"checkTarget", "swap", "makeBacking"} => backing = "absent"
    /\ main[d] = "makeBacking" /\ mounts = <<>> => target = "absent"
    /\ main[d] \in {"unmount", "remove", "create", "mount"} => backing # "absent"
    /\ main[d] \in {"remove", "create", "mount"} => mounts = <<>>
RestoreSure(r) ==
    /\ rest[r] \in Restoring => backing # "absent"
    /\ rest[r] \in {"exists", "remove", "rename"} => mounts = <<>>
Sure ==
    /\ \A d \in Daemons : d \in crossedStarts \/ StartSure(d)
    /\ \A r \in Restores : r \in crossedRestores \/ RestoreSure(r)
    /\ ~saved => target # "full" /\ backing # "full"

-----------------------------------------------------------------------------
(* Who moves in a step: the one that takes it, or one that ends.           *)
LEMMA MainMovesItself ==
    ASSUME TypeOK, [Next]_vars, NEW d \in Daemons,
           main'[d] # main[d], main'[d] \in Starting
    PROVE  MainStep(d)
  <1> USE DEF TypeOK, Starting
  <1>1. ASSUME NEW e \in Daemons, MainStep(e), e # d
        PROVE  FALSE
      BY <1>1 DEF MainStep, Start, StartCheckBacking, StartCheckTarget, StartSwap,
         StartMakeBacking, StartUnmount, StartRemove, StartCreate, StartMount,
         MainReturns, Panic, Ended, At
  <1>2. ASSUME NEW r \in Restores, RestoreStep(r)
        PROVE  FALSE
      BY <1>2 DEF RestoreStep, RestoreBegin, RestoreUnmount, RestoreExists,
         RestoreRemove, RestoreRename, RestoreExit, Ended
  <1>3. ASSUME \/ \E e \in Daemons : Crash(e)
               \/ \E r \in Restores : RestoreCrash(r)
               \/ Reboot \/ UserSaves \/ UNCHANGED vars
        PROVE  FALSE
      BY <1>3 DEF Crash, Ended, RestoreCrash, Reboot, UserSaves, vars
  <1> QED
      BY <1>1, <1>2, <1>3 DEF Next

LEMMA RestoreMovesItself ==
    ASSUME TypeOK, [Next]_vars, NEW r \in Restores,
           rest'[r] # rest[r], rest'[r] \in Restoring
    PROVE  RestoreStep(r)
  <1> USE DEF TypeOK, Restoring
  <1>1. ASSUME NEW d \in Daemons, MainStep(d)
        PROVE  FALSE
      BY <1>1 DEF MainStep, Start, StartCheckBacking, StartCheckTarget, StartSwap,
         StartMakeBacking, StartUnmount, StartRemove, StartCreate, StartMount,
         MainReturns, Panic, Ended, restVars
  <1>2. ASSUME NEW q \in Restores, RestoreStep(q), q # r
        PROVE  FALSE
      BY <1>2 DEF RestoreStep, RestoreBegin, RestoreUnmount, RestoreExists,
         RestoreRemove, RestoreRename, RestoreExit, Ended, RestAt
  <1>3. ASSUME \/ \E e \in Daemons : Crash(e)
               \/ \E q \in Restores : RestoreCrash(q)
               \/ Reboot \/ UserSaves \/ UNCHANGED vars
        PROVE  FALSE
      BY <1>3 DEF Crash, Ended, RestoreCrash, Reboot, UserSaves, vars, restVars
  <1> QED
      BY <1>1, <1>2, <1>3 DEF Next

(* A layout that stays has the same mounts as far as one can tell.         *)
LEMMA SameLayout ==
    ASSUME TypeOK, TypeOK', ~LayoutChanges
    PROVE  /\ target' = "absent" <=> target = "absent"
           /\ backing' = "absent" <=> backing = "absent"
           /\ mounts' = <<>> <=> mounts = <<>>
  <1>1. Len(mounts) = 0 <=> mounts = <<>>
      BY EmptyStack DEF TypeOK, MountsType
  <1>2. Len(mounts') = 0 <=> mounts' = <<>>
      BY EmptySeq, LenProperties DEF TypeOK
  <1> QED
      BY <1>1, <1>2 DEF LayoutChanges

-----------------------------------------------------------------------------
(* The steps of a start that has not been crossed.                         *)
LEMMA StartSteps ==
    ASSUME TypeOK, NEW d \in Daemons, StartSure(d), MainStep(d),
           main'[d] # main[d], main'[d] \in Starting,
           main[d] = "unmount" => mounts' = <<>>
    PROVE  StartSure(d)'
  <1> USE DEF TypeOK, StartSure, At, dirVars
  <1>1. CASE Start(d) \/ StartCheckBacking(d)
      BY <1>1 DEF Start, StartCheckBacking
  <1>2. CASE StartCheckTarget(d)
      BY <1>2 DEF StartCheckTarget, TargetExists
  <1>3. CASE StartSwap(d)
      BY <1>3 DEF StartSwap, CanMove, Panic, Ended, Starting
  <1>4. CASE StartMakeBacking(d)
      BY <1>4 DEF StartMakeBacking
  <1>5. CASE StartUnmount(d)
      BY <1>5 DEF StartUnmount
  <1>6. CASE StartRemove(d)
      BY <1>6 DEF StartRemove, RemoveTarget, ShowsBacking
  <1>7. CASE StartCreate(d)
      BY <1>7 DEF StartCreate, Panic, Ended, Starting
  <1>8. CASE StartMount(d) \/ MainReturns(d)
      BY <1>8 DEF StartMount, MainReturns, Panic, Ended, Starting
  <1> QED
      BY <1>1, <1>2, <1>3, <1>4, <1>5, <1>6, <1>7, <1>8 DEF MainStep

(* And of a restore.                                                       *)
LEMMA RestoreSteps ==
    ASSUME TypeOK, NEW r \in Restores, RestoreSure(r), RestoreStep(r),
           rest'[r] # rest[r], rest'[r] \in Restoring,
           rest[r] = "unmount" => mounts' = <<>>
    PROVE  RestoreSure(r)'
  <1> USE DEF TypeOK, RestoreSure, RestAt, dirVars, Restoring
  <1>1. ASSUME NEW o, RestoreBegin(r, o)
        PROVE  RestoreSure(r)'
      BY <1>1 DEF RestoreBegin
  <1>2. CASE RestoreUnmount(r)
      BY <1>2 DEF RestoreUnmount
  <1>3. CASE RestoreExists(r)
      BY <1>3 DEF RestoreExists
  <1>4. CASE RestoreRemove(r)
      BY <1>4 DEF RestoreRemove, RemoveTarget, ShowsBacking
  <1>5. CASE RestoreRename(r) \/ RestoreExit(r)
      BY <1>5 DEF RestoreRename, RestoreExit, Ended
  <1> QED
      BY <1>1, <1>2, <1>3, <1>4, <1>5 DEF RestoreStep

(* Files appear only by saving.                                            *)
LEMMA NothingUnsaved ==
    ASSUME TypeOK, [Next]_vars, ~saved => target # "full" /\ backing # "full"
    PROVE  ~saved' => target' # "full" /\ backing' # "full"
  <1> USE DEF dirVars
  <1>1. ASSUME NEW d \in Daemons, MainStep(d) \/ Crash(d)
        PROVE  ~saved' => target' # "full" /\ backing' # "full"
    <2>1. CASE StartSwap(d) \/ StartRemove(d) \/ StartCreate(d) \/ StartMakeBacking(d)
        BY <2>1 DEF StartSwap, StartRemove, RemoveTarget, StartCreate,
           StartMakeBacking, Panic
    <2>2. CASE ~(StartSwap(d) \/ StartRemove(d) \/ StartCreate(d) \/ StartMakeBacking(d))
        BY <1>1, <2>2 DEF MainStep, Start, StartCheckBacking, StartCheckTarget,
           StartUnmount, StartMount, MainReturns, Panic, Crash
    <2> QED
        BY <2>1, <2>2
  <1>2. ASSUME NEW r \in Restores, RestoreStep(r) \/ RestoreCrash(r)
        PROVE  ~saved' => target' # "full" /\ backing' # "full"
    <2>1. CASE RestoreRemove(r) \/ RestoreRename(r)
        BY <2>1 DEF RestoreRemove, RemoveTarget, RestoreRename
    <2>2. CASE ~(RestoreRemove(r) \/ RestoreRename(r))
        BY <1>2, <2>2 DEF RestoreStep, RestoreBegin, RestoreUnmount, RestoreExists,
           RestoreExit, RestoreCrash
    <2> QED
        BY <2>1, <2>2
  <1>3. CASE Reboot \/ UserSaves \/ UNCHANGED vars
      BY <1>3 DEF Reboot, UserSaves, vars
  <1> QED
      BY <1>1, <1>2, <1>3 DEF Next

(* One that moves is sure of what it has done itself, one that does not    *)
(* move is not crossed only if the layout has stayed.                      *)
LEMMA SureStep ==
    ASSUME TypeOK, TypeOK', Sure, OverlapNext
    PROVE  Sure'
  <1> USE DEF OverlapNext
  <1>1. ASSUME NEW d \in Daemons, d \notin crossedStarts'
        PROVE  StartSure(d)'
    <2>1. CASE main'[d] \notin Starting
        BY <2>1 DEF StartSure, Starting
    <2>2. CASE main'[d] \in Starting /\ main'[d] = main[d]
      <3>1. d \notin crossedStarts /\ ~LayoutChanges
          BY <1>1, <2>2 DEF Crosses, StartMoves
      <3>2. StartSure(d)
          BY <3>1 DEF Sure
      <3> QED
          BY <2>2, <3>1, <3>2, SameLayout DEF StartSure
    <2>3. CASE main'[d] \in Starting /\ main'[d] # main[d]
      <3>1. d \notin crossedStarts /\ (main[d] = "unmount" => mounts' = <<>>)
          BY <1>1, <2>3 DEF Crosses, StartMoves, UnmountLeft
      <3>2. StartSure(d)
          BY <3>1 DEF Sure
      <3>3. MainStep(d)
          BY <2>3, MainMovesItself
      <3> QED
          BY <2>3, <3>1, <3>2, <3>3, StartSteps
    <2> QED
        BY <2>1, <2>2, <2>3
  <1>2. ASSUME NEW r \in Restores, r \notin crossedRestores'
        PROVE  RestoreSure(r)'
    <2>1. CASE rest'[r] \notin Restoring
        BY <2>1 DEF RestoreSure, Restoring
    <2>2. CASE rest'[r] \in Restoring /\ rest'[r] = rest[r]
      <3>1. r \notin crossedRestores /\ ~LayoutChanges
          BY <1>2, <2>2 DEF Crosses, RestoreMoves
      <3>2. RestoreSure(r)
          BY <3>1 DEF Sure
      <3> QED
          BY <2>2, <3>1, <3>2, SameLayout DEF RestoreSure
    <2>3. CASE rest'[r] \in Restoring /\ rest'[r] # rest[r]
      <3>1. r \notin crossedRestores /\ (rest[r] = "unmount" => mounts' = <<>>)
          BY <1>2, <2>3 DEF Crosses, RestoreMoves, UnmountLeft
      <3>2. RestoreSure(r)
          BY <3>1 DEF Sure
      <3>3. RestoreStep(r)
          BY <2>3, RestoreMovesItself
      <3> QED
          BY <2>3, <3>1, <3>2, <3>3, RestoreSteps
    <2> QED
        BY <2>1, <2>2, <2>3
  <1>3. ~saved' => target' # "full" /\ backing' # "full"
      BY NothingUnsaved DEF Sure
  <1> QED
      BY <1>1, <1>2, <1>3 DEF Sure

-----------------------------------------------------------------------------
(* A process that ends, or a user, leaves the files where they are found.  *)
LEMMA EndFindable ==
    ASSUME TypeOK, Findable, NEW d, NEW as, Ended(d, as), UNCHANGED dirVars
    PROVE  Findable'
  <1>1. mounts = <<>> => mounts' = <<>>
    <2>1. MountsType
        BY DEF TypeOK, MountsType
    <2>2. MountsType' /\ Len(mounts') = Len(mounts)
        BY <2>1, EndedStack
    <2>3. Len(mounts') = 0 => mounts' = <<>>
        BY <2>2, EmptySeq, LenProperties DEF MountsType
    <2> QED
        BY <2>1, <2>2, <2>3, EmptyStack
  <1> QED
      BY <1>1 DEF Findable, dirVars

LEMMA UnmountFindable ==
    ASSUME TypeOK, Findable, Unmount, UNCHANGED dirVars
    PROVE  Findable'
  <1>1. mounts = <<>> => mounts' = <<>>
      BY DEF Unmount
  <1> QED
      BY <1>1 DEF Findable, dirVars

(* A start that has not been crossed does not lose the files.              *)
LEMMA StartFindable ==
    ASSUME TypeOK, Findable, ~saved => target # "full" /\ backing # "full",
           NEW d \in Daemons, MainStep(d), StartSure(d)
    PROVE  Findable'
  <1> USE DEF TypeOK, Findable, StartSure, At
  <1>1. CASE Start(d) \/ StartCheckBacking(d) \/ StartCheckTarget(d)
      BY <1>1 DEF Start, StartCheckBacking, StartCheckTarget, dirVars
  <1>2. CASE StartSwap(d)
    <2>1. CASE Panic(d)
        BY <2>1, EndFindable DEF Panic
    <2>2. CASE ~Panic(d)
        BY <1>2, <2>2 DEF StartSwap, CanMove
    <2> QED
        BY <2>1, <2>2
  <1>3. CASE StartMakeBacking(d)
      BY <1>3 DEF StartMakeBacking
  <1>4. CASE StartUnmount(d)
      BY <1>4, UnmountFindable DEF StartUnmount
  <1>5. CASE StartRemove(d)
      BY <1>5 DEF StartRemove, RemoveTarget, ShowsBacking
  <1>6. CASE StartCreate(d)
    <2>1. CASE Panic(d)
        BY <2>1, EndFindable DEF Panic
    <2>2. CASE ~Panic(d)
        BY <1>6, <2>2 DEF StartCreate
    <2> QED
        BY <2>1, <2>2
  <1>7. CASE StartMount(d)
    <2>1. CASE Panic(d)
        BY <2>1, EndFindable DEF Panic
    <2>2. CASE ~Panic(d)
        BY <1>7, <2>2 DEF StartMount, dirVars
    <2> QED
        BY <2>1, <2>2
  <1>8. CASE MainReturns(d)
      BY <1>8, EndFindable DEF MainReturns
  <1> QED
      BY <1>1, <1>2, <1>3, <1>4, <1>5, <1>6, <1>7, <1>8 DEF MainStep

(* Nor does a restore.                                                     *)
LEMMA RestoreFindable ==
    ASSUME TypeOK, Findable, ~saved => target # "full" /\ backing # "full",
           NEW r \in Restores, RestoreStep(r), RestoreSure(r)
    PROVE  Findable'
  <1> USE DEF TypeOK, Findable, RestoreSure, RestAt, Restoring
  <1>1. ASSUME NEW o, RestoreBegin(r, o)
        PROVE  Findable'
      BY <1>1 DEF RestoreBegin, dirVars
  <1>2. CASE RestoreUnmount(r)
      BY <1>2, UnmountFindable DEF RestoreUnmount
  <1>3. CASE RestoreExists(r)
      BY <1>3 DEF RestoreExists, dirVars
  <1>4. CASE RestoreRemove(r)
      BY <1>4 DEF RestoreRemove, RemoveTarget, ShowsBacking
  <1>5. CASE RestoreRename(r)
      BY <1>5 DEF RestoreRename, CanMove
  <1>6. CASE RestoreExit(r)
    <2>1. CASE Ended(owner[r], "off")
        BY <1>6, <2>1, EndFindable DEF RestoreExit
    <2>2. CASE ~Ended(owner[r], "off")
        BY <1>6, <2>2 DEF RestoreExit, dirVars
    <2> QED
        BY <2>1, <2>2
  <1> QED
      BY <1>1, <1>2, <1>3, <1>4, <1>5, <1>6 DEF RestoreStep

-----------------------------------------------------------------------------
(* Only a start or a restore of main.rs that something has crossed between *)
(* its calls, or a save into the bare target, takes the files from where   *)
(* the next start or restore finds them: for any number of daemons and     *)
(* restores that overlap, die or fail to unmount.                          *)
THEOREM OnlyCrossedDoHarm == OverlapSpec => OnlyCrossedHarm
  <1> DEFINE
        Crossed == \/ \E d \in crossedStarts : StartMoves(d)
                   \/ \E r \in crossedRestores : RestoreMoves(r)
        Bare == UserSaves /\ mounts = <<>> /\ backing # "absent"
  <1>1. OverlapSpec => Spec
    <2>1. OverlapInit => Init
        BY DEF OverlapInit
    <2>2. [OverlapNext]_overlapVars => [Next]_vars
        BY DEF OverlapNext, overlapVars
    <2> QED
        BY <2>1, <2>2, PTL DEF OverlapSpec, Spec
  <1>2. OverlapInit => Sure
      BY DEF OverlapInit, Init, Sure, StartSure, RestoreSure, Restoring
  <1>3. ASSUME TypeOK, TypeOK', Sure, [OverlapNext]_overlapVars
        PROVE  Sure'
    <2>1. CASE OverlapNext
        BY <1>3, <2>1, SureStep
    <2>2. CASE UNCHANGED overlapVars
        BY <1>3, <2>2 DEF overlapVars, vars, Sure, StartSure, RestoreSure
    <2> QED
        BY <1>3, <2>1, <2>2
  <1>4. ASSUME TypeOK, Sure, OverlapNext, Findable, ~Findable'
        PROVE  Crossed \/ Bare
    <2>1. ~saved => target # "full" /\ backing # "full"
        BY <1>4 DEF Sure
    <2>2. Next
        BY <1>4 DEF OverlapNext
    <2>3. ASSUME NEW d \in Daemons, MainStep(d)
          PROVE  Crossed
      <3>1. ~StartSure(d)
          BY <1>4, <2>1, <2>3, StartFindable
      <3>2. d \in crossedStarts
          BY <1>4, <3>1 DEF Sure
      <3>3. StartMoves(d)
          BY <1>4, <2>3 DEF MainStep, Start, StartCheckBacking, StartCheckTarget,
             StartSwap, StartMakeBacking, StartUnmount, StartRemove, StartCreate,
             StartMount, MainReturns, Panic, Ended, At, StartMoves, TypeOK
      <3> QED
          BY <3>2, <3>3
    <2>4. ASSUME NEW r \in Restores, RestoreStep(r)
          PROVE  Crossed
      <3>1. ~RestoreSure(r)
          BY <1>4, <2>1, <2>4, RestoreFindable
      <3>2. r \in crossedRestores /\ rest[r] \in Restoring
          BY <1>4, <3>1 DEF Sure, RestoreSure, Restoring
      <3>3. RestoreMoves(r)
          BY <1>4, <2>4, <3>2 DEF RestoreStep, RestoreBegin, RestoreUnmount,
             RestoreExists, RestoreRemove, RestoreRename, RestoreExit, RestAt,
             Ended, RestoreMoves, Restoring, TypeOK
      <3> QED
          BY <3>2, <3>3
    <2>5. ASSUME NEW d \in Daemons, Crash(d)
          PROVE  FALSE
        BY <1>4, <2>5, EndFindable DEF Crash
    <2>6. CASE (\E r \in Restores : RestoreCrash(r)) \/ Reboot
        BY <1>4, <2>6 DEF RestoreCrash, Reboot, Findable, dirVars
    <2>7. CASE UserSaves
        BY <1>4, <2>1, <2>7 DEF UserSaves, Findable, ShowsBacking
    <2> QED
        BY <2>2, <2>3, <2>4, <2>5, <2>6, <2>7 DEF Next
  <1>5. TypeOK /\ Sure /\ [OverlapNext]_overlapVars =>
          [Findable /\ ~Findable' => Crossed \/ Bare]_overlapVars
      BY <1>4
  <1>6. TypeOK /\ TypeOK' /\ Sure /\ [OverlapNext]_overlapVars => Sure'
      BY <1>3
  <1>7. [Findable /\ ~Findable' => Crossed \/ Bare]_overlapVars =>
          [Findable /\ ~Findable' =>
             \/ \E d \in crossedStarts : StartMoves(d)
             \/ \E r \in crossedRestores : RestoreMoves(r)
             \/ UserSaves /\ mounts = <<>> /\ backing # "absent"]_overlapVars
      OBVIOUS
  <1> QED
      BY <1>1, <1>2, <1>5, <1>6, <1>7, TypeCorrect, PTL DEF OverlapSpec, OnlyCrossedHarm
=============================================================================
