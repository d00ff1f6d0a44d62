--------------------------- MODULE SlipSyncProofs ---------------------------
(***************************************************************************)
(* Theorems about SlipSync for any set of paths, any environment the       *)
(* theorem does not exclude, and any bounds.                               *)
(***************************************************************************)
EXTENDS SlipSync, SequenceTheorems, TLAPS

USE DEF Idle

(* A busy thread is one whose pc is not "idle".                            *)
LEMMA BusyTypes ==
    ASSUME TypeOK
    PROVE  /\ fuse.pc # "idle" => fuse \in FuseBusy
           /\ sync.pc # "idle" => sync \in SyncBusy
           /\ lsn.pc # "idle" => lsn \in ListenerBusy
           /\ srv.pc # "idle" => srv \in ServerBusy
           /\ patcher.pc # "idle" => patcher \in PatcherBusy
  BY DEF TypeOK

(* Evicting entries from a disk directory leaves files and missing files.  *)
LEMMA WithoutType ==
    ASSUME NEW f \in [Paths -> File], NEW E \in EvictSets
    PROVE  Without(f, E) \in [Paths -> File]
  BY DEF Without, File

(* While the server's handler works on a request of the client, the        *)
(* client's FUSE loop awaits the reply: without this the reply could go to *)
(* a loop that is not in a handler.                                        *)
Awaited == srv.pc = "apply" /\ srv.own => fuse.pc = "await"

(* The initial state has the types.                                        *)
LEMMA InitType == Init => TypeOK
  <1> SUFFICES ASSUME Init PROVE TypeOK
      OBVIOUS
  <1>1. /\ <<>> \in Seq(Paths) /\ <<>> \in Seq(PatchMsg \cup CleanMsg)
        /\ <<>> \in Seq(InvalMsg)
      BY EmptySeq
  <1>2. backing \in [Paths -> File]
      BY DEF Init, File, Content, NoFile
  <1> QED
      BY <1>1, <1>2 DEF Init, TypeOK, File, Content, NoFile

(* The two ways in which a handler of the client's FUSE loop carries on.   *)
LEMMA GotoType ==
    ASSUME TypeOK, fuse.pc # "idle", NEW to \in FusePcs, Goto(to)
    PROVE  fuse' \in FuseBusy /\ fuse'.pc = to
  <1>1. fuse \in FuseBusy
      BY BusyTypes
  <1> QED
      BY <1>1 DEF Goto, FuseBusy

(* A handler that ends with a successful open adds a handle and frees the  *)
(* loop.                                                                   *)
LEMMA OpenedType ==
    ASSUME TypeOK, fuse.pc # "idle", Opened
    PROVE  /\ fuse' = Idle
           /\ handles' \in [Paths -> Nat]
           /\ \A p \in Paths : handles[p] > 0 => handles'[p] > 0
  <1>1. fuse.path \in Paths
      BY BusyTypes DEF FuseBusy
  <1> QED
      BY <1>1 DEF TypeOK, Opened, Reply

(* The steps of the client's FUSE loop keep the types.                     *)
LEMMA FuseStepType ==
    ASSUME TypeOK, FuseStep
    PROVE  TypeOK'
  <1> USE DEF diskVars, lockVars, threadVars, wireVars, serverVars, histVars
  <1>0. fuse.pc # "idle" /\ fuse \in FuseBusy
      BY BusyTypes DEF FuseStep, OpenCheck, OpenStat, OpenDownload, OpenFetch,
         MarkDirty, SendDirty, WriteBump, Enqueue, SftpRequest, CreateLocal,
         CreateStat
  <1>p. fuse.path \in Paths /\ fuse.data \in File
      BY <1>0 DEF FuseBusy
  <1>f. Empty \in File /\ NoFile \in File
      BY DEF File, Content, Empty, NoFile
  <1>1. CASE OpenCheck
    <2>1. fuse' \in {Idle} \cup FuseBusy /\ handles' \in [Paths -> Nat]
        BY <1>1, <1>0, GotoType, OpenedType DEF OpenCheck, FusePcs, TypeOK
    <2> QED
        BY <1>1, <2>1 DEF OpenCheck, TypeOK
  <1>2. CASE OpenStat
    <2>1. fuse' \in {Idle} \cup FuseBusy /\ handles' \in [Paths -> Nat]
        BY <1>2, <1>0, GotoType, OpenedType DEF OpenStat, FusePcs, TypeOK
    <2> QED
        BY <1>2, <2>1 DEF OpenStat, TypeOK
  <1>3. CASE OpenDownload
    <2>1. fuse' \in {Idle} \cup FuseBusy
      <3>1. ASSUME NEW d \in File
            PROVE  [fuse EXCEPT !.pc = "openFetch", !.data = d] \in FuseBusy
          BY <1>0 DEF FuseBusy, FusePcs
      <3>2. backing[fuse.path] \in File
          BY <1>p DEF TypeOK
      <3> QED
          BY <1>3, <3>1, <3>2 DEF OpenDownload, Reply
    <2>2. local' \in [Paths -> File]
        BY <1>3, <1>f DEF OpenDownload, TypeOK
    <2> QED
        BY <1>3, <2>1, <2>2 DEF OpenDownload, TypeOK
  <1>4. CASE OpenFetch
    <2>1. fuse' = Idle /\ handles' \in [Paths -> Nat]
        BY <1>4, <1>0, OpenedType DEF OpenFetch
    <2> DEFINE got == IF backing[fuse.path] = NoFile THEN fuse.data
                                                     ELSE backing[fuse.path]
               newLocal == IF local[fuse.path] # NoFile
                           THEN [local EXCEPT ![fuse.path] = got] ELSE local
               newBase == IF local[fuse.path] # NoFile
                          THEN [base EXCEPT ![fuse.path] = got] ELSE base
    <2>2. newLocal \in [Paths -> File] /\ newBase \in [Paths -> File]
        BY <1>p DEF TypeOK
    <2>3. \/ UNCHANGED diskVars
          \/ \E E \in EvictSets : /\ local' = Without(newLocal, E)
                                  /\ base' = Without(newBase, E)
        BY <1>4, Zenon DEF OpenFetch
    <2> HIDE DEF newLocal, newBase
    <2>4. local' \in [Paths -> File] /\ base' \in [Paths -> File]
      <3>1. CASE UNCHANGED diskVars
          BY <3>1 DEF TypeOK
      <3>2. ASSUME NEW E \in EvictSets,
                   local' = Without(newLocal, E), base' = Without(newBase, E)
            PROVE  local' \in [Paths -> File] /\ base' \in [Paths -> File]
          BY <2>2, <3>2, WithoutType
      <3> QED
          BY <2>3, <3>1, <3>2
    <2> QED
        BY <1>4, <2>1, <2>4 DEF OpenFetch, TypeOK
  <1>5. CASE MarkDirty
    <2>1. fuse' \in {Idle} \cup FuseBusy
        BY <1>5, <1>0, GotoType DEF MarkDirty, AfterMark, Reply, FusePcs
    <2> QED
        BY <1>5, <1>p, <2>1 DEF MarkDirty, TypeOK
  <1>6. CASE SendDirty
    <2>1. fuse' \in {Idle} \cup FuseBusy
        BY <1>6, <1>0, GotoType DEF SendDirty, AfterMark, Reply, FusePcs
    <2>2. fuseSig' \in Seq(Paths)
        BY <1>6, <1>p, AppendProperties DEF SendDirty, TypeOK
    <2> QED
        BY <1>6, <2>1, <2>2 DEF SendDirty, TypeOK
  <1>7. CASE WriteBump
    <2>1. local' \in [Paths -> File] /\ base' \in [Paths -> File]
        BY <1>7, WithoutType DEF WriteBump, TypeOK
    <2>2. versions' \in [Paths -> Nat]
        BY <1>7, <1>p DEF WriteBump, TypeOK
    <2> QED
        BY <1>7, <2>1, <2>2 DEF WriteBump, Reply, TypeOK
  <1>8. CASE Enqueue
    <2>1. fuse' \in {Idle} \cup FuseBusy
        BY <1>8, <1>0, GotoType DEF Enqueue, Reply, FusePcs
    <2>2. queue' \in Seq(Paths)
        BY <1>8, <1>p, AppendProperties DEF Enqueue, TypeOK
    <2> QED
        BY <1>8, <2>1, <2>2 DEF Enqueue, TypeOK
  <1>9. CASE SftpRequest
    <2>1. CASE Reply /\ UNCHANGED <<serverVars, latest>>
        BY <1>9, <2>1 DEF SftpRequest, Reply, TypeOK
    <2>2. CASE /\ srv' = [pc |-> "apply", path |-> fuse.path,
                          new |-> fuse.data, own |-> TRUE]
               /\ Goto("await")
               /\ UNCHANGED <<backing, srvDirty, patcher, latest>>
      <3>1. fuse' \in FuseBusy
          BY <1>0, <2>2, GotoType DEF FusePcs
      <3>2. srv' \in ServerBusy
          BY <1>p, <2>2 DEF ServerBusy
      <3> QED
          BY <1>9, <2>2, <3>1, <3>2 DEF SftpRequest, TypeOK
    <2>3. CASE /\ backing' = [backing EXCEPT ![fuse.path] = Empty]
               /\ latest' = [latest EXCEPT ![fuse.path] = Empty]
               /\ Goto("createLocal")
               /\ UNCHANGED <<srvDirty, srv, patcher>>
      <3>1. fuse' \in FuseBusy
          BY <1>0, <2>3, GotoType DEF FusePcs
      <3>2. backing' \in [Paths -> File] /\ latest' \in [Paths -> File]
          BY <1>f, <2>3 DEF TypeOK
      <3> QED
          BY <1>9, <2>3, <3>1, <3>2 DEF SftpRequest, TypeOK
    <2> QED
        BY <1>9, <2>1, <2>2, <2>3 DEF SftpRequest
  <1>10. CASE CreateLocal
    <2>1. fuse' \in FuseBusy
        BY <1>10, <1>0, GotoType DEF CreateLocal, FusePcs
    <2>2. local' \in [Paths -> File] /\ base' \in [Paths -> File]
        BY <1>10 DEF CreateLocal, TypeOK, File, Content, Empty
    <2> QED
        BY <1>10, <2>1, <2>2 DEF CreateLocal, TypeOK
  <1>11. CASE CreateStat
    <2>1. fuse' = Idle /\ handles' \in [Paths -> Nat]
        BY <1>11, <1>0, OpenedType DEF CreateStat, Reply, TypeOK
    <2> QED
        BY <1>11, <2>1 DEF CreateStat, TypeOK
  <1> QED
      BY <1>1, <1>2, <1>3, <1>4, <1>5, <1>6, <1>7, <1>8, <1>9, <1>10, <1>11
      DEF FuseStep

(* The client users' requests keep the types.                              *)
LEMMA UserRequestType ==
    ASSUME TypeOK, UserRequest
    PROVE  TypeOK'
  <1> USE DEF diskVars, lockVars, threadVars, wireVars, serverVars, histVars
  <1>0. PICK p \in Paths :
            \/ OpenLookup(p) \/ WriteData(p) \/ Release(p) \/ Setattr(p)
            \/ CreateIgnore(p) \/ UnlinkLocal(p)
      BY DEF UserRequest
  <1>f. /\ NoFile \in File /\ Empty \in File /\ nextId \in File
        /\ nextId + 1 \in Nat
      BY DEF TypeOK, File, Content, Empty, NoFile
  <1>s. ASSUME NEW operation \in FuseOps, NEW to \in FusePcs, NEW d \in File,
               Start(operation, to, p, d)
        PROVE  fuse' \in FuseBusy
      BY <1>s DEF Start, FuseBusy
  <1>1. CASE OpenLookup(p)
    <2>1. fuse' \in FuseBusy
        BY <1>1, <1>f, <1>s DEF OpenLookup, FuseOps, FusePcs
    <2> QED
        BY <1>1, <2>1 DEF OpenLookup, TypeOK
  <1>2. CASE WriteData(p)
    <2>1. fuse' \in FuseBusy
        BY <1>2, <1>f, <1>s DEF WriteData, FuseOps, FusePcs
    <2> QED
        BY <1>2, <1>f, <2>1 DEF WriteData, TypeOK
  <1>3. CASE Release(p)
    <2>1. fuse' \in {Idle} \cup FuseBusy
        BY <1>3, <1>f, <1>s DEF Release, FuseOps, FusePcs
    <2>2. handles' \in [Paths -> Nat]
        BY <1>3 DEF Release, TypeOK
    <2> QED
        BY <1>3, <2>1, <2>2 DEF Release, TypeOK
  <1>4. CASE Setattr(p)
    <2>1. fuse' \in FuseBusy
        BY <1>4, <1>f, <1>s DEF Setattr, FuseOps, FusePcs
    <2>2. local' \in [Paths -> File] /\ latest' \in [Paths -> File]
        BY <1>4, <1>f DEF Setattr, TypeOK
    <2> QED
        BY <1>4, <1>f, <2>1, <2>2 DEF Setattr, TypeOK
  <1>5. CASE CreateIgnore(p)
    <2>1. fuse' \in FuseBusy
        BY <1>5, <1>f, <1>s DEF CreateIgnore, FuseOps, FusePcs
    <2> QED
        BY <1>5, <1>f, <2>1 DEF CreateIgnore, TypeOK
  <1>6. CASE UnlinkLocal(p)
    <2>1. fuse' \in FuseBusy
        BY <1>6, <1>f, <1>s DEF UnlinkLocal, FuseOps, FusePcs
    <2> QED
        BY <1>6, <1>f, <2>1 DEF UnlinkLocal, TypeOK
  <1> QED
      BY <1>0, <1>1, <1>2, <1>3, <1>4, <1>5, <1>6

(* The steps of the sync thread keep the types.                            *)
LEMMA SyncStepType ==
    ASSUME TypeOK, SyncStep
    PROVE  TypeOK'
  <1> USE DEF diskVars, lockVars, fuseVars, wireVars, serverVars, histVars
  <1>e. Empty \in Content /\ Empty \in File
      BY DEF File, Content, Empty
  <1>b. ASSUME NEW f \in File PROVE Bytes(f) \in Content
      BY <1>b DEF Bytes, File, Content, Empty
  <1>1. CASE SyncRecv
    <2>1. Head(queue) \in Paths /\ queue' \in Seq(Paths)
        BY <1>1, HeadTailProperties DEF SyncRecv, TypeOK
    <2>2. sync' \in SyncBusy
        BY <1>1, <1>e, <2>1 DEF SyncRecv, SyncBusy, SyncPcs, TypeOK
    <2> QED
        BY <1>1, <2>1, <2>2 DEF SyncRecv, TypeOK
  <1>2. CASE SyncReadBase
    <2>1. sync \in SyncBusy /\ base[sync.path] \in File
        BY <1>2, BusyTypes DEF SyncReadBase, SyncBusy, TypeOK
    <2>2. sync' \in SyncBusy
        BY <1>2, <1>b, <2>1 DEF SyncReadBase, SyncBusy, SyncPcs
    <2> QED
        BY <1>2, <2>2 DEF SyncReadBase, TypeOK
  <1>3. CASE SyncReadLocal
    <2>1. /\ sync \in SyncBusy /\ local[sync.path] \in File
          /\ versions[sync.path] \in Nat
        BY <1>3, BusyTypes DEF SyncReadLocal, SyncBusy, TypeOK
    <2>2. sync' \in SyncBusy
        BY <1>3, <1>b, <2>1 DEF SyncReadLocal, SyncBusy, SyncPcs
    <2> QED
        BY <1>3, <2>2 DEF SyncReadLocal, TypeOK
  <1>4. CASE SyncSendPatch
    <2>1. sync \in SyncBusy
        BY <1>4, BusyTypes DEF SyncSendPatch
    <2>2. sync' \in SyncBusy
        BY <1>4, <1>e, <2>1 DEF SyncSendPatch, SyncBusy, SyncPcs
    <2>3. [type |-> "PATCH", path |-> sync.path,
           from |-> sync.old, to |-> sync.new] \in PatchMsg \cup CleanMsg
        BY <2>1 DEF SyncBusy, PatchMsg
    <2>4. syncSig' \in Seq(PatchMsg \cup CleanMsg)
        BY <1>4, <2>3, AppendProperties DEF SyncSendPatch, TypeOK
    <2> QED
        BY <1>4, <2>2, <2>4 DEF SyncSendPatch, TypeOK
  <1>5. CASE SyncSaveBase
    <2>1. sync \in SyncBusy
        BY <1>5, BusyTypes DEF SyncSaveBase
    <2>2. sync' \in SyncBusy
        BY <1>5, <1>e, <2>1 DEF SyncSaveBase, SyncBusy, SyncPcs
    <2>3. base' \in [Paths -> File]
        BY <1>5, <2>1 DEF SyncSaveBase, SyncBusy, TypeOK, File
    <2> QED
        BY <1>5, <2>2, <2>3 DEF SyncSaveBase, TypeOK
  <1>6. CASE SyncCheck
    <2>1. sync \in SyncBusy
        BY <1>6, BusyTypes DEF SyncCheck
    <2>2. sync' \in {Idle} \cup SyncBusy
        BY <1>6, <2>1 DEF SyncCheck, SyncGoto, SyncBusy, SyncPcs
    <2> QED
        BY <1>6, <2>2 DEF SyncCheck, TypeOK
  <1>7. CASE SyncClear
    <2>1. sync \in SyncBusy
        BY <1>7, BusyTypes DEF SyncClear
    <2>2. sync' \in SyncBusy
        BY <1>7, <2>1 DEF SyncClear, SyncGoto, SyncBusy, SyncPcs
    <2> QED
        BY <1>7, <2>2 DEF SyncClear, TypeOK
  <1>8. CASE SyncSendClean
    <2>1. sync \in SyncBusy
        BY <1>8, BusyTypes DEF SyncSendClean
    <2>2. [type |-> "CLEAN", path |-> sync.path] \in PatchMsg \cup CleanMsg
        BY <2>1 DEF SyncBusy, CleanMsg
    <2>3. syncSig' \in Seq(PatchMsg \cup CleanMsg)
        BY <1>8, <2>2, AppendProperties DEF SyncSendClean, TypeOK
    <2> QED
        BY <1>8, <2>3 DEF SyncSendClean, TypeOK
  <1> QED
      BY <1>1, <1>2, <1>3, <1>4, <1>5, <1>6, <1>7, <1>8 DEF SyncStep

(* The steps of the invalidation listener keep the types.                  *)
LEMMA ListenerStepType ==
    ASSUME TypeOK, ListenerStep
    PROVE  TypeOK'
  <1> USE DEF diskVars, lockVars, fuseVars, wireVars, serverVars, histVars
  <1>1. CASE InvalRecv
    <2>1. Head(inval) \in InvalMsg /\ inval' \in Seq(InvalMsg)
        BY <1>1, HeadTailProperties DEF InvalRecv, TypeOK
    <2>2. lsn' \in ListenerBusy
        BY <1>1, <2>1 DEF InvalRecv, ListenerBusy, InvalMsg
    <2> QED
        BY <1>1, <2>1, <2>2 DEF InvalRecv, TypeOK
  <1>2. CASE InvalIgnore
    <2>1. lsn \in ListenerBusy
        BY <1>2, BusyTypes DEF InvalIgnore
    <2>2. lsn' \in {Idle} \cup ListenerBusy
        BY <1>2, <2>1 DEF InvalIgnore, ListenerBusy
    <2> QED
        BY <1>2, <2>2 DEF InvalIgnore, TypeOK
  <1>3. CASE InvalPurge
    <2>1. lsn \in ListenerBusy
        BY <1>3, BusyTypes DEF InvalPurge
    <2>2. lsn' \in ListenerBusy
        BY <1>3, <2>1 DEF InvalPurge, ListenerBusy
    <2>3. local' \in [Paths -> File]
        BY <1>3 DEF InvalPurge, TypeOK, File
    <2> QED
        BY <1>3, <2>2, <2>3 DEF InvalPurge, TypeOK
  <1>4. CASE InvalPurgeBase
    <2>1. base' \in [Paths -> File]
        BY <1>4 DEF InvalPurgeBase, TypeOK, File
    <2> QED
        BY <1>4, <2>1 DEF InvalPurgeBase, TypeOK
  <1>5. CASE Resubscribe
    <2>1. PICK n \in 0..Len(inval) - 1 : inval' = SubSeq(inval, 1, n)
        BY <1>5 DEF Resubscribe
    <2>2. inval' \in Seq(InvalMsg)
      <3>1. inval \in Seq(InvalMsg)
          BY DEF TypeOK
      <3>2. n \in Int /\ \A i \in 1..n : inval[i] \in InvalMsg
          BY <3>1
      <3>3. SubSeq(inval, 1, n) \in Seq(InvalMsg)
          BY <3>2, SubSeqProperties
      <3> QED
          BY <2>1, <3>3
    <2>3. UNCHANGED <<diskVars, lockVars, queue, fuseVars, threadVars,
                      fuseSig, syncSig, serverVars, histVars>>
        BY <1>5 DEF Resubscribe
    <2> QED
        BY <2>2, <2>3 DEF TypeOK, threadVars
  <1> QED
      BY <1>1, <1>2, <1>3, <1>4, <1>5 DEF ListenerStep, ListenerReads

(* The server's signal threads keep the types.                             *)
LEMMA SignalStepType ==
    ASSUME TypeOK, SignalStep
    PROVE  TypeOK'
  <1> USE DEF diskVars, lockVars, fuseVars, threadVars, wireVars, histVars
  <1>b. ASSUME NEW f \in File PROVE Bytes(f) \in Content
      BY <1>b DEF Bytes, File, Content, Empty
  <1>1. CASE HandleDirty
    <2>1. Head(fuseSig) \in Paths /\ fuseSig' \in Seq(Paths)
        BY <1>1, HeadTailProperties DEF HandleDirty, TypeOK
    <2> QED
        BY <1>1, <2>1 DEF HandleDirty, TypeOK
  <1>2. CASE HandleClean
    <2>1. syncSig' \in Seq(PatchMsg \cup CleanMsg)
        BY <1>2, HeadTailProperties DEF HandleClean, TypeOK
    <2> QED
        BY <1>2, <2>1 DEF HandleClean, TypeOK
  <1>3. CASE PatchRead
    <2>1. /\ Head(syncSig) \in PatchMsg \cup CleanMsg
          /\ syncSig' \in Seq(PatchMsg \cup CleanMsg)
        BY <1>3, HeadTailProperties DEF PatchRead, TypeOK
    <2>2. Head(syncSig) \in PatchMsg
        BY <1>3, <2>1 DEF PatchRead, CleanMsg
    <2>3. Bytes(backing[Head(syncSig).path]) \in Content
        BY <1>b, <2>2 DEF PatchMsg, TypeOK
    <2>4. patcher' \in PatcherBusy
        BY <1>3, <2>2, <2>3 DEF PatchRead, PatchMsg, PatcherBusy
    <2> QED
        BY <1>3, <2>1, <2>4 DEF PatchRead, TypeOK
  <1>4. CASE PatchWrite
    <2>1. patcher \in PatcherBusy
        BY <1>4, BusyTypes DEF PatchWrite
    <2>2. ASSUME NEW r \in Applied(patcher.old, patcher.from, patcher.to,
                                   backing[patcher.path])
          PROVE  r \in File
        BY <2>1, <2>2
        DEF Applied, PatcherBusy, TypeOK, File, Content, Torn
    <2>3. backing' \in [Paths -> File]
        BY <1>4, <2>2 DEF PatchWrite, TypeOK
    <2> QED
        BY <1>4, <2>3 DEF PatchWrite, TypeOK
  <1> QED
      BY <1>1, <1>2, <1>3, <1>4 DEF SignalStep

(* The server's FUSE loop and its users keep the types.                    *)
LEMMA ServerStepType ==
    ASSUME TypeOK, Awaited, RemoteRequest \/ ServerStep
    PROVE  TypeOK'
  <1> USE DEF diskVars, lockVars, fuseVars, threadVars, wireVars, histVars
  <1>f. /\ Empty \in File /\ NoFile \in File /\ nextId \in File
        /\ nextId + 1 \in Nat
      BY DEF TypeOK, File, Content, Empty, NoFile
  <1>1. ASSUME NEW p \in Paths, RemoteBegin(p)
        PROVE  TypeOK'
    <2>1. srv' \in ServerBusy
        BY <1>1, <1>f DEF RemoteBegin, ServerBusy
    <2> QED
        BY <1>1, <1>f, <2>1 DEF RemoteBegin, TypeOK
  <1>2. ASSUME NEW p \in Paths, RemoteSetattr(p)
        PROVE  TypeOK'
    <2>1. backing' \in [Paths -> File] /\ latest' \in [Paths -> File]
        BY <1>2, <1>f DEF RemoteSetattr, TypeOK
    <2> QED
        BY <1>2, <1>f, <2>1 DEF RemoteSetattr, TypeOK
  <1>3. CASE SrvApply
    <2>1. srv \in ServerBusy
        BY <1>3, BusyTypes DEF SrvApply
    <2>2. srv' \in ServerBusy
        BY <1>3, <2>1 DEF SrvApply, ServerBusy
    <2>3. backing' \in [Paths -> File] /\ latest' \in [Paths -> File]
        BY <1>3, <2>1 DEF SrvApply, ServerBusy, TypeOK
    <2>4. fuse' \in {Idle} \cup FuseBusy
      <3>1. CASE srv.own /\ fuse.op = "create"
        <4>1. fuse \in FuseBusy
            BY <1>3, <3>1, BusyTypes DEF SrvApply, Awaited
        <4> QED
            BY <1>3, <3>1, <4>1 DEF SrvApply, FuseBusy, FusePcs
      <3>2. CASE ~(srv.own /\ fuse.op = "create")
          BY <1>3, <3>2 DEF SrvApply, TypeOK
      <3> QED
          BY <3>1, <3>2
    <2> QED
        BY <1>3, <2>2, <2>3, <2>4 DEF SrvApply, TypeOK
  <1>4. CASE SrvInvalidate
    <2>1. srv \in ServerBusy
        BY <1>4, BusyTypes DEF SrvInvalidate
    <2>2. [path |-> srv.path] \in InvalMsg
        BY <2>1 DEF ServerBusy, InvalMsg
    <2>3. inval' \in Seq(InvalMsg)
        BY <1>4, <2>2, AppendProperties DEF SrvInvalidate, TypeOK
    <2> QED
        BY <1>4, <2>3 DEF SrvInvalidate, TypeOK
  <1> QED
      BY <1>1, <1>2, <1>3, <1>4 DEF RemoteRequest, ServerStep

(* The loop stays where it is until that handler replies.                  *)
LEMMA AwaitedStep ==
    ASSUME TypeOK, Awaited, [Next]_vars
    PROVE  Awaited'
  <1> USE DEF Awaited, vars, diskVars, lockVars, fuseVars, threadVars,
              wireVars, serverVars, histVars
  <1>1. ASSUME UNCHANGED srv, fuse.pc = "await" => UNCHANGED fuse
        PROVE  Awaited'
      BY <1>1
  <1>2. CASE UserRequest
      BY <1>1, <1>2 DEF UserRequest, OpenLookup, WriteData, Release, Setattr,
         CreateIgnore, UnlinkLocal
  <1>3. CASE FuseStep
    <2>1. CASE SftpRequest /\ UNCHANGED srv
        BY <1>1, <2>1 DEF SftpRequest
    <2>2. CASE SftpRequest /\ ~UNCHANGED srv
      <3>1. fuse.pc = "request" /\ Goto("await")
          BY <2>2, Zenon DEF SftpRequest
      <3> QED
          BY <3>1, BusyTypes DEF Goto, FuseBusy
    <2>3. CASE ~SftpRequest
        BY <1>1, <1>3, <2>3 DEF FuseStep, OpenCheck, OpenStat, OpenDownload,
           OpenFetch, MarkDirty, SendDirty, WriteBump, Enqueue, CreateLocal,
           CreateStat
    <2> QED
        BY <2>1, <2>2, <2>3
  <1>4. CASE SyncStep
      BY <1>1, <1>4 DEF SyncStep, SyncRecv, SyncReadBase, SyncReadLocal,
         SyncSendPatch, SyncSaveBase, SyncCheck, SyncClear, SyncSendClean
  <1>5. CASE ListenerStep
      BY <1>1, <1>5 DEF ListenerStep, ListenerReads, Resubscribe, InvalRecv, InvalIgnore, InvalPurge,
         InvalPurgeBase
  <1>6. CASE SignalStep
      BY <1>1, <1>6 DEF SignalStep, HandleDirty, HandleClean, PatchRead,
         PatchWrite
  <1>7. CASE RemoteRequest
      BY <1>1, <1>7 DEF RemoteRequest, RemoteBegin, RemoteSetattr
  <1>8. CASE ServerStep
    <2>1. srv'.pc # "apply"
        BY <1>8, BusyTypes DEF ServerStep, SrvApply, SrvInvalidate, ServerBusy
    <2> QED
        BY <2>1
  <1>9. CASE UNCHANGED vars
      BY <1>1, <1>9
  <1> QED
      BY <1>2, <1>3, <1>4, <1>5, <1>6, <1>7, <1>8, <1>9 DEF Next

(* Every step of the system keeps the types.                               *)
LEMMA TypeStep ==
    ASSUME TypeOK, Awaited, [Next]_vars
    PROVE  TypeOK'
  <1>1. CASE UNCHANGED vars
      BY <1>1 DEF TypeOK, vars, diskVars, lockVars, fuseVars, threadVars,
         wireVars, serverVars, histVars
  <1> QED
      BY <1>1, UserRequestType, FuseStepType, SyncStepType,
         ListenerStepType, SignalStepType, ServerStepType DEF Next

(* The types, together with what SrvApply needs to keep them.              *)
LEMMA TypeInvariant == Spec => [](TypeOK /\ Awaited)
  <1>1. Init => TypeOK /\ Awaited
      BY InitType DEF Init, Awaited
  <1>2. TypeOK /\ Awaited /\ [Next]_vars => (TypeOK /\ Awaited)'
      BY TypeStep, AwaitedStep
  <1> QED
      BY <1>1, <1>2, PTL DEF Spec

(* Every variable of the client, the server and the connections between    *)
(* them keeps its type, whatever the users do.                             *)
THEOREM TypeCorrect == Spec => []TypeOK
  BY TypeInvariant, PTL

-----------------------------------------------------------------------------
(* The version check of the sync thread.  The start version is read first, *)
(* the file next; a version never goes down.                               *)
VersionsOrdered ==
    /\ sync # Idle => sync.start <= versions[sync.path]
    /\ sync.pc \in {"send", "saveBase", "check"}
          => sync.start <= sync.seen /\ sync.seen <= versions[sync.path]

(* The actions other than the sync thread's leave it alone, and the only   *)
(* thing they do to a version is to raise it.                              *)
LEMMA VersionsRise ==
    ASSUME TypeOK, [Next]_vars, ~SyncStep
    PROVE  /\ UNCHANGED sync
           /\ \A p \in Paths : versions[p] <= versions'[p]
  <1> USE DEF vars, diskVars, lockVars, fuseVars, threadVars,
              wireVars, serverVars, histVars
  <1>1. ASSUME UNCHANGED versions
        PROVE  \A p \in Paths : versions[p] <= versions'[p]
      BY <1>1 DEF TypeOK
  <1>2. CASE WriteBump
      BY <1>2 DEF WriteBump, TypeOK
  <1>3. CASE FuseStep /\ ~WriteBump
    <2>1. UNCHANGED <<sync, versions>>
        BY <1>3 DEF FuseStep, OpenCheck, OpenStat,
           OpenDownload, OpenFetch, MarkDirty, SendDirty, Enqueue,
           SftpRequest, CreateLocal, CreateStat
    <2> QED
        BY <1>1, <2>1
  <1>4. CASE UserRequest
    <2>1. UNCHANGED <<sync, versions>>
        BY <1>4 DEF UserRequest, OpenLookup, WriteData, Release, Setattr,
           CreateIgnore, UnlinkLocal
    <2> QED
        BY <1>1, <2>1
  <1>5. CASE ListenerStep \/ SignalStep
    <2>1. UNCHANGED <<sync, versions>>
        BY <1>5 DEF ListenerStep, ListenerReads, Resubscribe, InvalRecv, InvalIgnore, InvalPurge,
           InvalPurgeBase, SignalStep, HandleDirty, HandleClean, PatchRead,
           PatchWrite
    <2> QED
        BY <1>1, <2>1
  <1>6. CASE RemoteRequest \/ ServerStep
    <2>1. UNCHANGED <<sync, versions>>
        BY <1>6 DEF RemoteRequest, RemoteBegin, RemoteSetattr, ServerStep,
           SrvApply, SrvInvalidate
    <2> QED
        BY <1>1, <2>1
  <1>7. CASE UNCHANGED vars
      BY <1>1, <1>7
  <1> QED
      BY <1>2, <1>3, <1>4, <1>5, <1>6, <1>7 DEF Next

(* Every step keeps the order of the version noted, copied and current.    *)
LEMMA VersionsOrderedStep ==
    ASSUME TypeOK, TypeOK', VersionsOrdered, [Next]_vars
    PROVE  VersionsOrdered'
  <1> USE DEF VersionsOrdered
  <1>0. ASSUME NEW p \in Paths
        PROVE  versions[p] \in Nat /\ versions'[p] \in Nat
      BY <1>0 DEF TypeOK
  <1>1. CASE ~SyncStep
    <2>1. UNCHANGED sync /\ \A p \in Paths : versions[p] <= versions'[p]
        BY <1>1, VersionsRise
    <2>2. CASE sync = Idle
        BY <2>1, <2>2
    <2>3. CASE sync \in SyncBusy
        BY <1>0, <2>1, <2>3 DEF SyncBusy
    <2> QED
        BY <2>2, <2>3 DEF TypeOK
  <1>2. CASE SyncRecv
    <2>1. Head(queue) \in Paths
        BY <1>2, HeadTailProperties DEF SyncRecv, TypeOK
    <2> QED
        BY <1>0, <1>2, <2>1 DEF SyncRecv, lockVars
  <1>3. CASE SyncReadLocal
    <2>1. sync \in SyncBusy
        BY <1>3, BusyTypes DEF SyncReadLocal
    <2> QED
        BY <1>0, <1>3, <2>1 DEF SyncReadLocal, SyncBusy, lockVars
  <1>4. CASE SyncStep /\ ~SyncRecv /\ ~SyncReadLocal
    <2>1. /\ sync \in SyncBusy
          /\ versions' = versions
        BY <1>4, BusyTypes DEF SyncStep, SyncReadBase, SyncSendPatch,
           SyncSaveBase, SyncCheck, SyncClear, SyncSendClean, lockVars
    <2>2. \/ sync' = Idle
          \/ /\ sync'.path = sync.path
             /\ sync'.start = sync.start /\ sync'.seen = sync.seen
             /\ sync'.pc \in {"send", "saveBase", "check"}
                  => sync.pc \in {"send", "saveBase", "check"}
        BY <1>4, <2>1 DEF SyncStep, SyncReadBase, SyncSendPatch,
           SyncSaveBase, SyncCheck, SyncClear, SyncSendClean, SyncGoto,
           SyncBusy
    <2> QED
        BY <2>1, <2>2 DEF SyncBusy
  <1> QED
      BY <1>1, <1>2, <1>3, <1>4

(* Whatever the users and the other threads do between the reading of the  *)
(* version and the check, a check that passes has uploaded every write     *)
(* that has completed.                                                     *)
THEOREM SnapshotCurrent == Spec => []CheckedSnapshotIsCurrent
  <1>1. Init => VersionsOrdered
      BY DEF Init, VersionsOrdered
  <1>2. TypeOK /\ TypeOK' /\ VersionsOrdered /\ [Next]_vars
            => VersionsOrdered'
      BY VersionsOrderedStep
  <1>3. TypeOK /\ VersionsOrdered => CheckedSnapshotIsCurrent
    <2> SUFFICES ASSUME TypeOK, VersionsOrdered, sync.pc = "check",
                        versions[sync.path] = sync.start
                 PROVE  sync.seen = versions[sync.path]
        BY DEF CheckedSnapshotIsCurrent
    <2>1. sync \in SyncBusy
        BY BusyTypes
    <2> QED
        BY <2>1 DEF VersionsOrdered, SyncBusy, TypeOK
  <1> QED
      BY <1>1, <1>2, <1>3, TypeCorrect, PTL DEF Spec

-----------------------------------------------------------------------------
(* Who brings a dirty file to the sync thread.  "Owning" are the places of *)
(* the FUSE loop between changing a file and having it marked and queued.  *)
Owning == {"mark", "signal", "bump", "enqueue"}

(* A file is marked dirty through a handle that is still open: true of     *)
(* write, and of setattr unless it truncates a file nobody has opened.     *)
ChangeHeld ==
    fuse.pc \in {"mark", "signal", "bump"}
            \/ (fuse.pc = "enqueue" /\ fuse.op = "setattr")
        => handles[fuse.path] > 0

(* The file will come by the sync thread again.                            *)
Requeued(p) ==
    \/ handles[p] > 0
    \/ Queued(p)
    \/ fuse.pc = "enqueue" /\ fuse.path = p

Owned == \A p \in dirty : Requeued(p) \/ WorksOn(sync, p)

(* A file that was changed after the sync thread took it up, or after the  *)
(* thread took it out of dirty_files, does not depend on this pass.        *)
ChangedIsRequeued ==
    /\ sync # Idle /\ sync.path \in dirty
    /\ \/ sync.pc = "clean"
       \/ sync.pc # "clear" /\ versions[sync.path] # sync.start
    => Requeued(sync.path)

OwnerInv == ChangeHeld /\ Owned /\ ChangedIsRequeued

(* A step that has no part in this: no queue entry or handle goes away,    *)
(* nothing becomes dirty, and the FUSE loop is not in an owning place.     *)
Quiet ==
    /\ UNCHANGED <<dirty, versions, queue, sync>>
    /\ \A p \in Paths : handles[p] > 0 => handles'[p] > 0
    /\ \/ UNCHANGED <<fuse, handles>>
       \/ fuse.pc \notin Owning /\ fuse'.pc \notin Owning

(* A quiet step loses no owner.                                            *)
LEMMA QuietKeepsOwner ==
    ASSUME TypeOK, OwnerInv, Quiet
    PROVE  OwnerInv'
  <1> USE DEF OwnerInv, Quiet, Owning
  <1>1. ChangeHeld'
      BY DEF ChangeHeld
  <1>2. ASSUME NEW p \in Paths, Requeued(p) PROVE Requeued(p)'
      BY <1>2 DEF Requeued, Queued
  <1>3. Owned'
      BY <1>2 DEF Owned, WorksOn, TypeOK
  <1>4. ChangedIsRequeued'
      BY <1>2 DEF ChangedIsRequeued, TypeOK, SyncBusy
  <1> QED
      BY <1>1, <1>3, <1>4

(* Opening a file, creating or unlinking one, and all that the listener    *)
(* and the server do, is quiet.                                            *)
LEMMA QuietRequests ==
    ASSUME TypeOK, NEW p \in Paths,
           OpenLookup(p) \/ CreateIgnore(p) \/ UnlinkLocal(p)
    PROVE  Quiet
  BY DEF OpenLookup, CreateIgnore, UnlinkLocal, Start, Quiet, Owning,
     lockVars, threadVars

(* The steps of open, create and unlink in the client's FUSE loop are      *)
(* quiet.                                                                  *)
LEMMA QuietFuseSteps ==
    ASSUME TypeOK, \/ OpenCheck \/ OpenStat \/ OpenDownload \/ OpenFetch
                   \/ SftpRequest \/ CreateLocal \/ CreateStat
    PROVE  Quiet
  <1> USE DEF lockVars, threadVars, Owning
  <1>1. fuse.pc # "idle" /\ fuse.pc \notin Owning
      BY DEF OpenCheck, OpenStat, OpenDownload, OpenFetch, SftpRequest,
         CreateLocal, CreateStat
  <1>2. UNCHANGED <<dirty, versions, queue, sync>>
      BY DEF OpenCheck, OpenStat, OpenDownload, OpenFetch, SftpRequest,
         CreateLocal, CreateStat
  <1>3. ASSUME NEW to \in FusePcs \ Owning, Goto(to), UNCHANGED handles
        PROVE  Quiet
      BY <1>1, <1>2, <1>3, GotoType DEF Quiet
  <1>4. ASSUME Reply, UNCHANGED handles PROVE Quiet
      BY <1>1, <1>2, <1>4 DEF Quiet, Reply
  <1>5. ASSUME Opened PROVE Quiet
      BY <1>1, <1>2, <1>5, OpenedType DEF Quiet
  <1>6. CASE OpenCheck
      BY <1>3, <1>5, <1>6 DEF OpenCheck, FusePcs
  <1>7. CASE OpenStat
      BY <1>3, <1>5, <1>7 DEF OpenStat, FusePcs
  <1>8. CASE OpenDownload
    <2>1. CASE Reply
        BY <1>4, <1>8, <2>1 DEF OpenDownload
    <2>2. CASE fuse' = [fuse EXCEPT !.pc = "openFetch",
                                    !.data = backing[fuse.path]]
      <3>1. fuse'.pc = "openFetch"
          BY <1>1, <2>2, BusyTypes DEF FuseBusy
      <3> QED
          BY <1>1, <1>2, <1>8, <3>1 DEF OpenDownload, Quiet
    <2> QED
        BY <1>8, <2>1, <2>2 DEF OpenDownload
  <1>9. CASE OpenFetch
      BY <1>5, <1>9 DEF OpenFetch
  <1>10. CASE SftpRequest
    <2>1. UNCHANGED handles /\ (Reply \/ Goto("await") \/ Goto("createLocal"))
        BY <1>10, Zenon DEF SftpRequest
    <2> QED
        BY <1>3, <1>4, <2>1 DEF FusePcs
  <1>11. CASE CreateLocal
      BY <1>3, <1>11 DEF CreateLocal, FusePcs
  <1>12. CASE CreateStat
      BY <1>4, <1>5, <1>12 DEF CreateStat
  <1> QED
      BY <1>6, <1>7, <1>8, <1>9, <1>10, <1>11, <1>12

(* So are all steps of the listener and of the server.                     *)
LEMMA QuietOthers ==
    ASSUME TypeOK, Awaited,
           \/ ListenerStep \/ SignalStep \/ RemoteRequest \/ ServerStep
           \/ UNCHANGED vars
    PROVE  Quiet
  <1> USE DEF Quiet, Owning, lockVars, fuseVars, threadVars
  <1>1. CASE ListenerStep
      BY <1>1 DEF ListenerStep, ListenerReads, Resubscribe, InvalRecv, InvalIgnore, InvalPurge,
         InvalPurgeBase
  <1>2. CASE SignalStep
      BY <1>2 DEF SignalStep, HandleDirty, HandleClean, PatchRead, PatchWrite
  <1>3. CASE RemoteRequest \/ SrvInvalidate
      BY <1>3 DEF RemoteRequest, RemoteBegin, RemoteSetattr, SrvInvalidate
  <1>4. CASE SrvApply
    <2>1. CASE srv.own
      <3>1. fuse \in FuseBusy /\ fuse.pc = "await"
          BY <1>4, <2>1, BusyTypes DEF SrvApply, Awaited
      <3>2. fuse'.pc \in {"createLocal", "idle"}
          BY <1>4, <2>1, <3>1 DEF SrvApply, FuseBusy
      <3> QED
          BY <1>4, <3>1, <3>2 DEF SrvApply
    <2>2. CASE ~srv.own
        BY <1>4, <2>2 DEF SrvApply
    <2> QED
        BY <2>1, <2>2
  <1>5. CASE UNCHANGED vars
      BY <1>5 DEF vars
  <1> QED
      BY <1>1, <1>2, <1>3, <1>4, <1>5 DEF ServerStep

(* What the queue holds after a send and after a receive.                  *)
LEMMA QueuedAppend ==
    ASSUME TypeOK, NEW q \in Paths, queue' = Append(queue, q)
    PROVE  /\ Queued(q)'
           /\ \A p : Queued(p) => Queued(p)'
  <1>1. /\ queue \in Seq(Paths) /\ Len(queue) \in Nat
        /\ DOMAIN queue = 1 .. Len(queue)
      BY LenProperties DEF TypeOK
  <1>2. /\ queue' \in Seq(Paths) /\ Len(queue') = Len(queue) + 1
        /\ \A i \in 1 .. Len(queue) : queue'[i] = queue[i]
        /\ queue'[Len(queue) + 1] = q
      BY <1>1, AppendProperties
  <1>3. DOMAIN queue' = 1 .. Len(queue')
      BY <1>2, LenProperties
  <1>4. /\ 1 .. Len(queue) \subseteq DOMAIN queue'
        /\ Len(queue) + 1 \in DOMAIN queue'
      BY <1>1, <1>2, <1>3
  <1> QED
      BY <1>1, <1>2, <1>4 DEF Queued

(* Taking the first entry off the queue leaves the others queued.          *)
LEMMA QueuedTail ==
    ASSUME TypeOK, queue # <<>>, queue' = Tail(queue),
           NEW p, Queued(p), p # Head(queue)
    PROVE  Queued(p)'
  <1>1. PICK i \in DOMAIN queue : queue[i] = p
      BY DEF Queued
  <1>2. i \in 2 .. Len(queue)
    <2>1. Len(queue) \in Nat /\ i \in 1 .. Len(queue)
        BY <1>1, LenProperties DEF TypeOK
    <2>2. i # 1
        BY <1>1
    <2> QED
        BY <2>1, <2>2
  <1>3. /\ queue' \in Seq(Paths) /\ Len(queue') = Len(queue) - 1
        /\ \A j \in 1 .. Len(queue') : queue'[j] = queue[j + 1]
      BY HeadTailProperties DEF TypeOK
  <1>4. Len(queue) \in Nat /\ DOMAIN queue' = 1 .. Len(queue')
      BY <1>3, LenProperties DEF TypeOK
  <1>5. i - 1 \in DOMAIN queue' /\ queue'[i - 1] = queue[(i - 1) + 1]
      BY <1>2, <1>3, <1>4
  <1>6. (i - 1) + 1 = i
      BY <1>2
  <1> QED
      BY <1>1, <1>5, <1>6 DEF Queued

(* A step of the FUSE loop keeps the invariant if it lets go of no dirty   *)
(* file, and every file that it makes dirty or whose version it raises     *)
(* will come by the sync thread again.                                     *)
LEMMA OwnerKept ==
    ASSUME TypeOK, TypeOK', Owned, ChangedIsRequeued, UNCHANGED sync,
           \A p \in dirty : Requeued(p) => Requeued(p)',
           \A p \in dirty' : p \notin dirty \/ versions'[p] # versions[p]
                               => Requeued(p)'
    PROVE  Owned' /\ ChangedIsRequeued'
  <1>1. Owned'
      BY DEF Owned, WorksOn
  <1>2. ChangedIsRequeued'
      BY DEF ChangedIsRequeued
  <1> QED
      BY <1>1, <1>2

(* The steps of write, release and setattr keep an owner for every dirty   *)
(* file, if what they truncate is open.                                    *)
LEMMA OwnerFuseStep ==
    ASSUME "pathTruncate" \notin Env, TypeOK, TypeOK', OwnerInv,
           \/ MarkDirty \/ SendDirty \/ WriteBump \/ Enqueue
           \/ \E p \in Paths : WriteData(p) \/ Release(p) \/ Setattr(p)
    PROVE  OwnerInv'
  <1> USE DEF OwnerInv, diskVars, lockVars, threadVars, wireVars, serverVars,
              histVars
  <1>1. CASE MarkDirty
    <2>1. fuse \in FuseBusy /\ handles[fuse.path] > 0
        BY <1>1, BusyTypes DEF MarkDirty, ChangeHeld
    <2>2. /\ \/ fuse' = Idle
             \/ fuse'.pc \in {"bump", "signal"} /\ fuse'.path = fuse.path
          /\ UNCHANGED <<handles, queue, versions, sync>>
        BY <1>1, <2>1 DEF MarkDirty, AfterMark, Goto, Reply, FuseBusy
    <2>3. ChangeHeld'
        BY <2>1, <2>2 DEF ChangeHeld
    <2>4. \A p \in Paths : Requeued(p) => Requeued(p)'
        BY <1>1, <2>2 DEF Requeued, Queued, MarkDirty
    <2>5. \A p \in dirty' : p \notin dirty => Requeued(p)'
        BY <1>1, <2>1, <2>2 DEF Requeued, MarkDirty
    <2> QED
        BY <2>2, <2>3, <2>4, <2>5, OwnerKept DEF TypeOK
  <1>2. CASE SendDirty
    <2>1. fuse \in FuseBusy /\ handles[fuse.path] > 0
        BY <1>2, BusyTypes DEF SendDirty, ChangeHeld
    <2>2. /\ \/ fuse' = Idle
             \/ fuse'.pc = "bump" /\ fuse'.path = fuse.path
          /\ UNCHANGED <<handles, queue, versions, dirty, sync>>
        BY <1>2, <2>1 DEF SendDirty, AfterMark, Goto, Reply, FuseBusy
    <2>3. ChangeHeld'
        BY <2>1, <2>2 DEF ChangeHeld
    <2>4. \A p \in Paths : Requeued(p) => Requeued(p)'
        BY <1>2, <2>2 DEF Requeued, Queued, SendDirty
    <2> QED
        BY <2>2, <2>3, <2>4, OwnerKept DEF TypeOK
  <1>3. CASE WriteBump
    <2>1. fuse \in FuseBusy /\ handles[fuse.path] > 0
        BY <1>3, BusyTypes DEF WriteBump, ChangeHeld
    <2>2. fuse' = Idle /\ UNCHANGED <<handles, queue, dirty, sync>>
        BY <1>3 DEF WriteBump, Reply
    <2>3. ChangeHeld'
        BY <2>2 DEF ChangeHeld
    <2>4. \A p \in Paths : Requeued(p) => Requeued(p)'
        BY <1>3, <2>2 DEF Requeued, Queued, WriteBump
    <2>5. \A p \in Paths : versions'[p] # versions[p] => Requeued(p)'
        BY <1>3, <2>1, <2>2 DEF WriteBump, Requeued, TypeOK
    <2> QED
        BY <2>2, <2>3, <2>4, <2>5, OwnerKept DEF TypeOK
  <1>4. CASE Enqueue
    <2>1. fuse \in FuseBusy
        BY <1>4, BusyTypes DEF Enqueue
    <2>2. /\ \/ fuse' = Idle
             \/ /\ fuse.op = "setattr"
                /\ fuse'.pc = "mark" /\ fuse'.path = fuse.path
          /\ UNCHANGED <<handles, versions, dirty, sync>>
        BY <1>4, <2>1 DEF Enqueue, Goto, Reply, FuseBusy
    <2>3. ChangeHeld'
        BY <1>4, <2>2 DEF ChangeHeld, Enqueue
    <2>4. \A p \in Paths : Requeued(p) => Requeued(p)'
        BY <1>4, <2>1, <2>2, QueuedAppend DEF Requeued, Enqueue, FuseBusy
    <2> QED
        BY <2>2, <2>3, <2>4, OwnerKept DEF TypeOK
  <1>5. ASSUME NEW p \in Paths, WriteData(p) \/ Setattr(p)
        PROVE  OwnerInv'
    <2>1. /\ fuse.pc = "idle" /\ handles[p] > 0
          /\ fuse'.pc \in {"mark", "enqueue"} /\ fuse'.path = p
          /\ UNCHANGED <<handles, queue, versions, dirty, sync>>
        BY <1>5 DEF WriteData, Setattr, Start
    <2>2. ChangeHeld'
        BY <2>1 DEF ChangeHeld
    <2>3. \A q \in Paths : Requeued(q) => Requeued(q)'
        BY <2>1 DEF Requeued, Queued
    <2> QED
        BY <2>1, <2>2, <2>3, OwnerKept DEF TypeOK
  <1>6. ASSUME NEW p \in Paths, Release(p)
        PROVE  OwnerInv'
    <2>1. /\ fuse.pc = "idle"
          /\ handles' = [handles EXCEPT ![p] = @ - 1]
          /\ UNCHANGED <<queue, versions, dirty, sync>>
          /\ p \in dirty => /\ fuse'.pc = "enqueue" /\ fuse'.path = p
                            /\ fuse'.op = "release"
          /\ p \notin dirty => UNCHANGED fuse
        BY <1>6 DEF Release, Start
    <2>2. ChangeHeld'
        BY <2>1 DEF ChangeHeld
    <2>3. \A q \in dirty : Requeued(q) => Requeued(q)'
        BY <2>1 DEF Requeued, Queued, TypeOK
    <2> QED
        BY <2>1, <2>2, <2>3, OwnerKept DEF TypeOK
  <1> QED
      BY <1>1, <1>2, <1>3, <1>4, <1>5, <1>6

(* The sync thread lets go of a file only if it is clean, or requeued.     *)
LEMMA OwnerSyncStep ==
    ASSUME TypeOK, TypeOK', OwnerInv, SyncStep
    PROVE  OwnerInv'
  <1> USE DEF OwnerInv, diskVars, lockVars, fuseVars
  <1>1. UNCHANGED <<fuse, handles, versions>>
      BY DEF SyncStep, SyncRecv, SyncReadBase, SyncReadLocal,
         SyncSendPatch, SyncSaveBase, SyncCheck, SyncClear, SyncSendClean
  <1>2. ChangeHeld'
      BY <1>1 DEF ChangeHeld
  <1>3. CASE SyncRecv
    <2>1. /\ sync = Idle /\ sync'.path = Head(queue) /\ sync'.pc = "base"
          /\ sync'.start = versions[Head(queue)] /\ UNCHANGED dirty
        BY <1>3 DEF SyncRecv
    <2>2. \A p \in Paths : Requeued(p) => Requeued(p)' \/ p = Head(queue)
        BY <1>1, <1>3, QueuedTail DEF SyncRecv, Requeued
    <2>3. sync' # Idle
        BY <1>3 DEF SyncRecv
    <2>4. Owned'
        BY <2>1, <2>2, <2>3 DEF Owned, WorksOn, TypeOK
    <2>5. ChangedIsRequeued'
        BY <1>1, <2>1 DEF ChangedIsRequeued
    <2> QED
        BY <1>2, <2>4, <2>5
  <1>4. CASE ~SyncRecv
    <2>1. /\ sync \in SyncBusy
          /\ UNCHANGED queue
        BY <1>4, BusyTypes DEF SyncStep, SyncReadBase, SyncReadLocal,
           SyncSendPatch, SyncSaveBase, SyncCheck, SyncClear, SyncSendClean
    <2>2. \A p : Requeued(p) => Requeued(p)'
        BY <1>1, <2>1 DEF Requeued, Queued
    <2>3. CASE SyncCheck
      <3>1. CASE versions[sync.path] = sync.start
          BY <1>1, <1>2, <2>1, <2>2, <2>3, <3>1
          DEF SyncCheck, SyncGoto, SyncBusy, Owned, WorksOn, ChangedIsRequeued
      <3>2. CASE versions[sync.path] # sync.start
        <4>1. /\ sync' = Idle /\ UNCHANGED dirty
              /\ sync.path \in dirty => Requeued(sync.path)
            BY <2>1, <2>3, <3>2 DEF SyncCheck, ChangedIsRequeued
        <4> QED
            BY <1>2, <2>2, <4>1 DEF Owned, WorksOn, ChangedIsRequeued
      <3> QED
          BY <3>1, <3>2
    <2>4. CASE SyncClear
        BY <1>1, <1>2, <2>1, <2>2, <2>4
        DEF SyncClear, SyncGoto, SyncBusy, Owned, WorksOn, ChangedIsRequeued
    <2>5. CASE SyncSendClean
      <3>1. /\ sync' = Idle /\ UNCHANGED dirty
            /\ sync.path \in dirty => Requeued(sync.path)
          BY <2>1, <2>5 DEF SyncSendClean, ChangedIsRequeued
      <3> QED
          BY <1>2, <2>2, <3>1 DEF Owned, WorksOn, ChangedIsRequeued
    <2>6. CASE SyncReadBase \/ SyncReadLocal \/ SyncSendPatch \/ SyncSaveBase
      <3>1. /\ sync'.path = sync.path /\ sync'.start = sync.start
            /\ sync.pc \notin {"clean", "clear"} /\ sync' # Idle
            /\ sync'.pc \notin {"clean", "clear"} /\ UNCHANGED dirty
          BY <2>1, <2>6 DEF SyncReadBase, SyncReadLocal, SyncSendPatch,
             SyncSaveBase, SyncBusy
      <3> QED
          BY <1>1, <1>2, <2>1, <2>2, <3>1
          DEF Owned, WorksOn, ChangedIsRequeued
    <2> QED
        BY <1>4, <2>3, <2>4, <2>5, <2>6 DEF SyncStep
  <1> QED
      BY <1>3, <1>4

(* However the users of a client and of the server interleave, and         *)
(* whichever files are opened, created, unlinked, written, truncated       *)
(* through an open handle, purged or evicted meanwhile, no path stays in   *)
(* dirty_files without anyone who will bring it to the sync thread.        *)
THEOREM DirtyNeverOrphaned ==
    ASSUME "pathTruncate" \notin Env
    PROVE  Spec => []DirtyHasOwner
  <1>1. Init => OwnerInv
      BY DEF Init, OwnerInv, ChangeHeld, Owned, ChangedIsRequeued
  <1>2. TypeOK /\ TypeOK' /\ Awaited /\ OwnerInv /\ [Next]_vars => OwnerInv'
    <2> SUFFICES ASSUME TypeOK, TypeOK', Awaited, OwnerInv, [Next]_vars
                 PROVE  OwnerInv'
        OBVIOUS
    <2>1. CASE UserRequest
        BY <2>1, OwnerFuseStep, QuietRequests, QuietKeepsOwner
        DEF UserRequest
    <2>2. CASE FuseStep
        BY <2>2, OwnerFuseStep, QuietFuseSteps, QuietKeepsOwner DEF FuseStep
    <2>3. CASE SyncStep
        BY <2>3, OwnerSyncStep
    <2> QED
        BY <2>1, <2>2, <2>3, QuietOthers, QuietKeepsOwner DEF Next
  <1>3. OwnerInv => DirtyHasOwner
      BY DEF OwnerInv, Owned, Requeued, DirtyHasOwner, WorksOn
  <1> QED
      BY <1>1, <1>2, <1>3, TypeInvariant, PTL DEF Spec

-----------------------------------------------------------------------------
(* An open that has decided to compare or to download found the file clean *)
(* or without a copy; only the FUSE loop itself makes files dirty or fills *)
(* in copies, so this stays true until it acts on the decision.            *)
OpenSafe ==
    /\ fuse.pc = "openStat" => fuse.path \notin dirty
    /\ fuse.pc = "openDownload"
         => fuse.path \notin dirty \/ local[fuse.path] = NoFile

(* Outside the FUSE loop's own steps, dirty_files and the set of cached    *)
(* copies only shrink.                                                     *)
LEMMA OthersOnlyShrink ==
    ASSUME TypeOK,
           SyncStep \/ ListenerStep \/ SignalStep \/ RemoteRequest
             \/ ServerStep \/ UNCHANGED vars
    PROVE  /\ dirty' \subseteq dirty
           /\ \A p \in Paths : local'[p] # local[p]
                => local'[p] = NoFile /\ WorksOn(lsn, p) /\ lsn.pc = "purge"
  <1> USE DEF diskVars, lockVars, fuseVars, threadVars, wireVars, serverVars,
              histVars
  <1>1. CASE SyncStep
      BY <1>1 DEF SyncStep, SyncRecv, SyncReadBase, SyncReadLocal,
         SyncSendPatch, SyncSaveBase, SyncCheck, SyncClear, SyncSendClean
  <1>2. CASE InvalPurge
    <2>1. /\ lsn \in ListenerBusy /\ lsn.pc = "purge"
          /\ local' = [local EXCEPT ![lsn.path] = NoFile]
          /\ UNCHANGED dirty
        BY <1>2, BusyTypes DEF InvalPurge
    <2> QED
        BY <2>1 DEF TypeOK, WorksOn
  <1>3. CASE InvalRecv \/ InvalIgnore \/ InvalPurgeBase \/ Resubscribe
      BY <1>3 DEF InvalRecv, InvalIgnore, InvalPurgeBase, Resubscribe
  <1>4. CASE SignalStep
      BY <1>4 DEF SignalStep, HandleDirty, HandleClean, PatchRead, PatchWrite
  <1>5. CASE RemoteRequest \/ ServerStep
      BY <1>5 DEF RemoteRequest, RemoteBegin, RemoteSetattr, ServerStep,
         SrvApply, SrvInvalidate
  <1>6. CASE UNCHANGED vars
      BY <1>6 DEF vars
  <1> QED
      BY <1>1, <1>2, <1>3, <1>4, <1>5, <1>6 DEF ListenerStep, ListenerReads

(* ... and they leave the loop's open where it is, except for the reply    *)
(* that ends a create or an unlink.                                        *)
LEMMA OthersKeepOpen ==
    ASSUME TypeOK, Awaited,
           SyncStep \/ ListenerStep \/ SignalStep \/ RemoteRequest
             \/ ServerStep \/ UNCHANGED vars,
           fuse'.pc \in {"openStat", "openDownload"}
    PROVE  UNCHANGED fuse
  <1> USE DEF diskVars, lockVars, fuseVars, threadVars, wireVars, serverVars,
              histVars
  <1>1. CASE SrvApply
    <2>1. CASE srv.own
      <3>1. fuse \in FuseBusy /\ fuse.pc = "await"
          BY <1>1, <2>1, BusyTypes DEF SrvApply, Awaited
      <3>2. fuse'.pc \in {"createLocal", "idle"}
          BY <1>1, <2>1, <3>1 DEF SrvApply, FuseBusy
      <3> QED
          BY <3>2
    <2>2. CASE ~srv.own
        BY <1>1, <2>2 DEF SrvApply
    <2> QED
        BY <2>1, <2>2
  <1>2. CASE ~SrvApply
      BY <1>2 DEF SyncStep, SyncRecv, SyncReadBase, SyncReadLocal,
         SyncSendPatch, SyncSaveBase, SyncCheck, SyncClear, SyncSendClean,
         ListenerStep, ListenerReads, Resubscribe,
         InvalRecv, InvalIgnore, InvalPurge, InvalPurgeBase,
         SignalStep, HandleDirty, HandleClean, PatchRead, PatchWrite,
         RemoteRequest, RemoteBegin, RemoteSetattr, ServerStep,
         SrvInvalidate, vars
  <1> QED
      BY <1>1, <1>2

(* Evicting from a directory leaves the entries of dirty files alone.      *)
LEMMA EvictSparesDirty ==
    ASSUME TypeOK, NEW f \in [Paths -> File], NEW E \in EvictSets
    PROVE  \A p \in dirty : Without(f, E)[p] = f[p]
  BY DEF TypeOK, EvictSets, Without

(* What a step of the FUSE loop may do to the copy of a dirty file.        *)
MaySpoil(p) ==
    \/ fuse = Idle /\ WorksOn(fuse, p)'
    \/ WorksOn(fuse, p) /\ fuse.pc \in {"createLocal", "openFetch"}

CopyStep ==
    \A p \in dirty : local[p] # NoFile /\ local'[p] # local[p] => MaySpoil(p)

(* A request by a client user spoils a dirty copy only as the user's own   *)
(* change of it, and begins with OpenSafe.                                 *)
LEMMA RequestKeepsCopy ==
    ASSUME TypeOK, UserRequest
    PROVE  CopyStep /\ OpenSafe'
  <1> USE DEF diskVars, lockVars, CopyStep, MaySpoil, OpenSafe, WorksOn, Start
  <1>1. PICK p \in Paths : \/ OpenLookup(p) \/ WriteData(p) \/ Release(p)
                           \/ Setattr(p) \/ CreateIgnore(p) \/ UnlinkLocal(p)
      BY DEF UserRequest
  <1>2. CASE OpenLookup(p) \/ CreateIgnore(p)
      BY <1>2 DEF OpenLookup, CreateIgnore
  <1>3. CASE Release(p)
      BY <1>3 DEF Release
  <1>4. CASE WriteData(p)
    <2>1. /\ fuse = Idle /\ fuse'.path = p /\ fuse'.pc = "mark"
          /\ local' = [local EXCEPT ![p] = nextId]
        BY <1>4 DEF WriteData
    <2> QED
        BY <2>1 DEF TypeOK
  <1>5. CASE Setattr(p)
    <2>1. /\ fuse = Idle /\ fuse'.path = p /\ fuse'.pc = "enqueue"
          /\ \A q \in Paths : q # p => local'[q] = local[q]
        BY <1>5 DEF Setattr, TypeOK
    <2> QED
        BY <2>1 DEF TypeOK
  <1>6. CASE UnlinkLocal(p)
    <2>1. /\ fuse = Idle /\ fuse'.path = p /\ fuse'.pc = "request"
          /\ local' = [local EXCEPT ![p] = NoFile]
        BY <1>6 DEF UnlinkLocal
    <2> QED
        BY <2>1 DEF TypeOK
  <1> QED
      BY <1>1, <1>2, <1>3, <1>4, <1>5, <1>6

(* The cached copies after a download: the opened one, then evictions.     *)
Fetched ==
    LET p == fuse.path
        got == IF backing[p] = NoFile THEN fuse.data ELSE backing[p]
    IN  IF local[p] # NoFile THEN [local EXCEPT ![p] = got] ELSE local

(* A download puts the bytes it fetched into the copy, and then evicts.    *)
LEMMA FetchThenEvict ==
    ASSUME TypeOK, fuse.path \in Paths, fuse.data \in File, OpenFetch
    PROVE  /\ UNCHANGED local \/ \E E \in EvictSets :
                                   local' = Without(Fetched, E)
           /\ Fetched \in [Paths -> File]
           /\ \A p \in Paths : p # fuse.path => Fetched[p] = local[p]
  <1>1. UNCHANGED diskVars \/ \E E \in EvictSets : local' = Without(Fetched, E)
      BY Zenon DEF OpenFetch, Fetched
  <1>2. CASE local[fuse.path] # NoFile
    <2> DEFINE got == IF backing[fuse.path] = NoFile THEN fuse.data
                                                     ELSE backing[fuse.path]
    <2>1. Fetched = [local EXCEPT ![fuse.path] = got] /\ got \in File
        BY <1>2 DEF Fetched, TypeOK
    <2> QED
        BY <1>1, <2>1 DEF TypeOK, diskVars
  <1>3. CASE local[fuse.path] = NoFile
    <2>1. Fetched = local
        BY <1>3 DEF Fetched
    <2> QED
        BY <1>1, <2>1 DEF TypeOK, diskVars
  <1> QED
      BY <1>2, <1>3

(* A step of the client's FUSE loop destroys no dirty copy, and keeps      *)
(* OpenSafe.                                                               *)
LEMMA FuseStepKeepsCopy ==
    ASSUME TypeOK, OpenSafe, FuseStep
    PROVE  CopyStep /\ OpenSafe'
  <1> USE DEF diskVars, lockVars, CopyStep, MaySpoil, WorksOn
  <1>1. fuse \in FuseBusy
      BY BusyTypes DEF FuseStep, OpenCheck, OpenStat, OpenDownload, OpenFetch,
         MarkDirty, SendDirty, WriteBump, Enqueue, SftpRequest, CreateLocal,
         CreateStat
  <1>2. CASE OpenCheck
      BY <1>1, <1>2 DEF OpenCheck, Opened, Goto, Reply, FuseBusy, OpenSafe
  <1>3. CASE OpenStat
      BY <1>1, <1>3 DEF OpenStat, Opened, Goto, Reply, FuseBusy, OpenSafe
  <1>4. CASE OpenDownload
    <2>1. fuse.path \notin dirty \/ local[fuse.path] = NoFile
        BY <1>4 DEF OpenDownload, OpenSafe
    <2>2. \A q \in Paths : q # fuse.path => local'[q] = local[q]
      <3>1. \/ UNCHANGED local
            \/ local' = [local EXCEPT ![fuse.path] = Empty]
          BY <1>4 DEF OpenDownload
      <3> QED
          BY <3>1 DEF TypeOK
    <2>3. fuse'.pc \in {"openFetch", "idle"}
      <3>1. CASE fuse' = [fuse EXCEPT !.pc = "openFetch",
                                      !.data = backing[fuse.path]]
          BY <1>1, <3>1 DEF FuseBusy
      <3>2. CASE fuse' = Idle
          BY <3>2
      <3> QED
          BY <1>4, <3>1, <3>2 DEF OpenDownload, Reply
    <2> QED
        BY <2>1, <2>2, <2>3 DEF TypeOK, OpenSafe
  <1>5. CASE OpenFetch
    <2>1. fuse' = Idle /\ fuse.pc = "openFetch"
        BY <1>5 DEF OpenFetch, Opened, Reply
    <2>2. \A p \in dirty : p # fuse.path => local'[p] = local[p]
      <3>1. fuse.path \in Paths /\ fuse.data \in File
          BY <1>1 DEF FuseBusy
      <3>2. ASSUME NEW E \in EvictSets, local' = Without(Fetched, E)
            PROVE  \A p \in dirty : p # fuse.path => local'[p] = local[p]
          BY <1>5, <3>1, <3>2, FetchThenEvict, EvictSparesDirty DEF TypeOK
      <3> QED
          BY <1>5, <3>1, <3>2, FetchThenEvict
    <2> QED
        BY <1>1, <2>1, <2>2 DEF OpenSafe
  <1>6. CASE WriteBump
    <2>1. /\ fuse' = Idle
          /\ \E E \in EvictSets : local' = Without(local, E)
        BY <1>6 DEF WriteBump, Reply
    <2>2. \A p \in dirty : local'[p] = local[p]
        BY <2>1, EvictSparesDirty DEF TypeOK
    <2> QED
        BY <2>1, <2>2 DEF OpenSafe
  <1>7. CASE MarkDirty \/ SendDirty \/ Enqueue \/ SftpRequest \/ CreateStat
    <2>1. UNCHANGED local /\ fuse'.pc \notin {"openStat", "openDownload"}
        BY <1>1, <1>7 DEF MarkDirty, SendDirty, Enqueue, SftpRequest,
           CreateStat, Opened, AfterMark, Goto, Reply, FuseBusy
    <2> QED
        BY <2>1 DEF OpenSafe
  <1>8. CASE CreateLocal
    <2>1. /\ fuse.pc = "createLocal" /\ fuse'.pc = "createStat"
          /\ local' = [local EXCEPT ![fuse.path] = Empty]
        BY <1>1, <1>8 DEF CreateLocal, Goto, FuseBusy
    <2> QED
        BY <1>1, <2>1 DEF TypeOK, OpenSafe
  <1> QED
      BY <1>2, <1>3, <1>4, <1>5, <1>6, <1>7, <1>8 DEF FuseStep

(* Whatever the users, the other threads and the server do, the client     *)
(* never downloads over the copy of a dirty file that it has found to be   *)
(* there and never evicts one: DirtyCopyKept for every set of paths and    *)
(* every environment.                                                      *)
THEOREM DirtyCopyIsKept == Spec => DirtyCopyKept
  <1> DEFINE Kept == \A p \in dirty :
               local[p] # NoFile /\ local'[p] # local[p]
                 => \/ fuse = Idle /\ WorksOn(fuse, p)'
                    \/ /\ WorksOn(fuse, p)
                       /\ fuse.pc \in {"createLocal", "openFetch"}
                    \/ WorksOn(lsn, p) /\ lsn.pc = "purge"
  <1>1. Init => OpenSafe
      BY DEF Init, OpenSafe
  <1>2. TypeOK /\ Awaited /\ OpenSafe /\ [Next]_vars => OpenSafe' /\ Kept
    <2> SUFFICES ASSUME TypeOK, Awaited, OpenSafe, [Next]_vars
                 PROVE  OpenSafe' /\ Kept
        OBVIOUS
    <2>1. CASE UserRequest \/ FuseStep
        BY <2>1, RequestKeepsCopy, FuseStepKeepsCopy DEF CopyStep, MaySpoil
    <2>2. CASE SyncStep \/ ListenerStep \/ SignalStep \/ RemoteRequest
                 \/ ServerStep \/ UNCHANGED vars
      <3>1. Kept
          BY <2>2, OthersOnlyShrink DEF TypeOK
      <3>2. ASSUME fuse'.pc \in {"openStat", "openDownload"}
            PROVE  OpenSafe'
        <4>1. UNCHANGED fuse /\ fuse \in FuseBusy
            BY <2>2, <3>2, OthersKeepOpen, BusyTypes
        <4> QED
            BY <2>2, <4>1, OthersOnlyShrink DEF OpenSafe, FuseBusy
      <3> QED
          BY <3>1, <3>2 DEF OpenSafe
    <2> QED
        BY <2>1, <2>2 DEF Next
  <1>3. Kept => [\A p \in dirty :
                   local[p] # NoFile /\ local'[p] # local[p]
                     => \/ fuse = Idle /\ WorksOn(fuse, p)'
                        \/ WorksOn(fuse, p)
                             /\ fuse.pc \in {"createLocal", "openFetch"}
                        \/ WorksOn(lsn, p) /\ lsn.pc = "purge"]_vars
      OBVIOUS
  <1> QED
      BY <1>1, <1>2, <1>3, TypeInvariant, PTL DEF Spec, DirtyCopyKept
=============================================================================
