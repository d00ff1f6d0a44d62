-------------------------- MODULE TurnTakingProofs --------------------------
(***************************************************************************)
(* While users take turns on a path, no save is lost, the caches hold what *)
(* the server holds, changed files are locked, and the client and server   *)
(* implement SavedFiles: for any set of paths and any bounds.              *)
(***************************************************************************)
EXTENDS TurnTaking, SlipSyncProofs

USE DEF Idle

(* What is in a sequence after an element is added at its end.             *)
LEMMA Appended ==
    ASSUME NEW S, NEW s \in Seq(S), NEW x \in S
    PROVE  /\ Len(s) \in Nat /\ DOMAIN s = 1 .. Len(s)
           /\ DOMAIN Append(s, x) = 1 .. Len(s) + 1
           /\ \A i \in 1 .. Len(s) : Append(s, x)[i] = s[i]
           /\ Append(s, x)[Len(s) + 1] = x
  <1>1. /\ Append(s, x) \in Seq(S) /\ Len(Append(s, x)) = Len(s) + 1
        /\ \A i \in 1 .. Len(s) : Append(s, x)[i] = s[i]
        /\ Append(s, x)[Len(s) + 1] = x
      BY AppendProperties
  <1>2. /\ Len(s) \in Nat /\ DOMAIN s = 1 .. Len(s)
        /\ DOMAIN Append(s, x) = 1 .. Len(Append(s, x))
      BY <1>1, LenProperties
  <1> QED
      BY <1>1, <1>2

(* What is in a sequence after its first element is taken off.             *)
LEMMA Removed ==
    ASSUME NEW S, NEW s \in Seq(S), s # <<>>
    PROVE  /\ Len(s) \in Nat \ {0} /\ DOMAIN s = 1 .. Len(s)
           /\ Head(s) = s[1] /\ Head(s) \in S
           /\ DOMAIN Tail(s) = 1 .. Len(s) - 1
           /\ \A i \in 1 .. Len(s) - 1 : Tail(s)[i] = s[i + 1]
           /\ \A i \in 2 .. Len(s) : Tail(s)[i - 1] = s[i]
  <1>1. /\ Head(s) \in S /\ Tail(s) \in Seq(S) /\ Len(Tail(s)) = Len(s) - 1
        /\ \A i \in 1 .. Len(Tail(s)) : Tail(s)[i] = s[i + 1]
      BY HeadTailProperties
  <1>2. /\ Len(s) \in Nat /\ DOMAIN s = 1 .. Len(s) /\ Len(Tail(s)) \in Nat
        /\ DOMAIN Tail(s) = 1 .. Len(Tail(s))
      BY <1>1, LenProperties
  <1>3. Head(s) = s[1]
      OBVIOUS
  <1>4. ASSUME NEW i \in 2 .. Len(s) PROVE Tail(s)[i - 1] = s[i]
    <2>1. i - 1 \in 1 .. Len(Tail(s)) /\ (i - 1) + 1 = i
        BY <1>1, <1>2
    <2> QED
        BY <1>1, <2>1
  <1> QED
      BY <1>1, <1>2, <1>3, <1>4

-----------------------------------------------------------------------------
(* What the sync queue holds about a path after a send and a receive.      *)
LEMMA QueueSend ==
    ASSUME TypeOK, NEW q \in Paths, queue' = Append(queue, q), NEW p
    PROVE  /\ Queued(p)' <=> Queued(p) \/ p = q
           /\ OneInQueue(p) /\ (p = q => ~Queued(p)) => OneInQueue(p)'
  <1>1. /\ Len(queue) \in Nat /\ DOMAIN queue = 1 .. Len(queue)
        /\ DOMAIN queue' = 1 .. Len(queue) + 1
        /\ \A i \in 1 .. Len(queue) : queue'[i] = queue[i]
        /\ queue'[Len(queue) + 1] = q
      BY Appended DEF TypeOK
  <1>2. Queued(p)' <=> Queued(p) \/ p = q
    <2>1. ASSUME Queued(p)' PROVE Queued(p) \/ p = q
        BY <1>1, <2>1 DEF Queued
    <2>2. ASSUME Queued(p) PROVE Queued(p)'
        BY <1>1, <2>2 DEF Queued
    <2>3. ASSUME p = q PROVE Queued(p)'
      <3>1. Len(queue) + 1 \in DOMAIN queue'
          BY <1>1
      <3> QED
          BY <1>1, <2>3, <3>1 DEF Queued
    <2> QED
        BY <2>1, <2>2, <2>3
  <1>3. ASSUME OneInQueue(p), p = q => ~Queued(p) PROVE OneInQueue(p)'
      BY <1>1, <1>3 DEF OneInQueue, Queued
  <1> QED
      BY <1>2, <1>3

(* What the sync queue holds once the sync thread took its first path.     *)
LEMMA QueueReceive ==
    ASSUME TypeOK, queue # <<>>, queue' = Tail(queue), NEW p
    PROVE  /\ Queued(p) <=> Queued(p)' \/ p = Head(queue)
           /\ OneInQueue(p)
                => OneInQueue(p)' /\ (p = Head(queue) => ~Queued(p)')
           /\ Head(queue) \in Paths
  <1>1. /\ Len(queue) \in Nat \ {0} /\ DOMAIN queue = 1 .. Len(queue)
        /\ Head(queue) = queue[1] /\ Head(queue) \in Paths
        /\ DOMAIN queue' = 1 .. Len(queue) - 1
        /\ \A i \in 1 .. Len(queue) - 1 : queue'[i] = queue[i + 1]
        /\ \A i \in 2 .. Len(queue) : queue'[i - 1] = queue[i]
      BY Removed DEF TypeOK
  <1>2. ASSUME Queued(p)' PROVE \E i \in DOMAIN queue : i # 1 /\ queue[i] = p
    <2>1. PICK i \in DOMAIN queue' : queue'[i] = p
        BY <1>2 DEF Queued
    <2>2. i + 1 \in DOMAIN queue /\ i + 1 # 1 /\ queue[i + 1] = p
        BY <1>1, <2>1
    <2> QED
        BY <2>2
  <1>3. ASSUME Queued(p) PROVE Queued(p)' \/ p = Head(queue)
    <2>1. PICK i \in DOMAIN queue : queue[i] = p
        BY <1>3 DEF Queued
    <2>2. CASE i = 1
        BY <1>1, <2>1, <2>2
    <2>3. CASE i # 1
      <3>1. i - 1 \in DOMAIN queue' /\ queue'[i - 1] = p
          BY <1>1, <2>1, <2>3
      <3> QED
          BY <3>1 DEF Queued
    <2> QED
        BY <2>2, <2>3
  <1>4. 1 \in DOMAIN queue
      BY <1>1
  <1>5. ASSUME OneInQueue(p) PROVE OneInQueue(p)'
    <2> SUFFICES ASSUME NEW i \in DOMAIN queue', NEW j \in DOMAIN queue',
                        queue'[i] = p, queue'[j] = p
                 PROVE  i = j
        BY DEF OneInQueue
    <2>1. /\ i + 1 \in DOMAIN queue /\ j + 1 \in DOMAIN queue
          /\ queue[i + 1] = p /\ queue[j + 1] = p /\ i \in Int /\ j \in Int
        BY <1>1
    <2>2. i + 1 = j + 1
        BY <1>5, <2>1 DEF OneInQueue
    <2> QED
        BY <2>1, <2>2
  <1>6. ASSUME OneInQueue(p), p = Head(queue) PROVE ~Queued(p)'
      BY <1>1, <1>2, <1>4, <1>6 DEF OneInQueue
  <1> QED
      BY <1>1, <1>2, <1>3, <1>4, <1>5, <1>6 DEF Queued

(* What is on the connection that carries DIRTY.                           *)
LEMMA LockSend ==
    ASSUME TypeOK, NEW q \in Paths, fuseSig' = Append(fuseSig, q), NEW p
    PROVE  LockSent(p)' <=> LockSent(p) \/ p = q
  <1>1. /\ Len(fuseSig) \in Nat /\ DOMAIN fuseSig = 1 .. Len(fuseSig)
        /\ DOMAIN fuseSig' = 1 .. Len(fuseSig) + 1
        /\ \A i \in 1 .. Len(fuseSig) : fuseSig'[i] = fuseSig[i]
        /\ fuseSig'[Len(fuseSig) + 1] = q
      BY Appended DEF TypeOK
  <1>2. Len(fuseSig) + 1 \in DOMAIN fuseSig'
      BY <1>1
  <1> QED
      BY <1>1, <1>2 DEF LockSent

(* What is on the DIRTY connection once its first message has been taken.  *)
LEMMA LockReceive ==
    ASSUME TypeOK, fuseSig # <<>>, fuseSig' = Tail(fuseSig), NEW p
    PROVE  /\ LockSent(p) <=> LockSent(p)' \/ p = Head(fuseSig)
           /\ Head(fuseSig) \in Paths
  <1>1. /\ Len(fuseSig) \in Nat \ {0} /\ DOMAIN fuseSig = 1 .. Len(fuseSig)
        /\ Head(fuseSig) = fuseSig[1] /\ Head(fuseSig) \in Paths
        /\ DOMAIN fuseSig' = 1 .. Len(fuseSig) - 1
        /\ \A i \in 1 .. Len(fuseSig) - 1 : fuseSig'[i] = fuseSig[i + 1]
        /\ \A i \in 2 .. Len(fuseSig) : fuseSig'[i - 1] = fuseSig[i]
      BY Removed DEF TypeOK
  <1>2. ASSUME LockSent(p)' PROVE LockSent(p)
    <2>1. PICK i \in DOMAIN fuseSig' : fuseSig'[i] = p
        BY <1>2 DEF LockSent
    <2>2. i + 1 \in DOMAIN fuseSig /\ fuseSig[i + 1] = p
        BY <1>1, <2>1
    <2> QED
        BY <2>2 DEF LockSent
  <1>3. ASSUME LockSent(p) PROVE LockSent(p)' \/ p = Head(fuseSig)
    <2>1. PICK i \in DOMAIN fuseSig : fuseSig[i] = p
        BY <1>3 DEF LockSent
    <2>2. CASE i = 1
        BY <1>1, <2>1, <2>2
    <2>3. CASE i # 1
      <3>1. i - 1 \in DOMAIN fuseSig' /\ fuseSig'[i - 1] = p
          BY <1>1, <2>1, <2>3
      <3> QED
          BY <3>1 DEF LockSent
    <2> QED
        BY <2>2, <2>3
  <1>4. 1 \in DOMAIN fuseSig
      BY <1>1
  <1> QED
      BY <1>1, <1>2, <1>3, <1>4 DEF LockSent

(* What is on the connection that carries INVALIDATE.                      *)
LEMMA InvalSend ==
    ASSUME TypeOK, NEW q \in Paths, inval' = Append(inval, [path |-> q]), NEW p
    PROVE  /\ Mentions(inval, p)' <=> Mentions(inval, p) \/ p = q
           /\ OneInInval(p) /\ (p = q => ~Mentions(inval, p)) => OneInInval(p)'
  <1>1. /\ Len(inval) \in Nat /\ DOMAIN inval = 1 .. Len(inval)
        /\ DOMAIN inval' = 1 .. Len(inval) + 1
        /\ \A i \in 1 .. Len(inval) : inval'[i] = inval[i]
        /\ inval'[Len(inval) + 1] = [path |-> q]
      BY Appended DEF TypeOK, InvalMsg
  <1>2. Len(inval) + 1 \in DOMAIN inval' /\ inval'[Len(inval) + 1].path = q
      BY <1>1
  <1>3. Mentions(inval, p)' <=> Mentions(inval, p) \/ p = q
      BY <1>1, <1>2 DEF Mentions
  <1>4. ASSUME OneInInval(p), p = q => ~Mentions(inval, p) PROVE OneInInval(p)'
      BY <1>1, <1>2, <1>4 DEF OneInInval, Mentions
  <1> QED
      BY <1>3, <1>4

(* What is on the INVALIDATE connection once the listener took the first.  *)
LEMMA InvalReceive ==
    ASSUME TypeOK, inval # <<>>, inval' = Tail(inval), NEW p
    PROVE  /\ Mentions(inval, p) <=> Mentions(inval, p)' \/ p = Head(inval).path
           /\ OneInInval(p)
                => OneInInval(p)' /\ (p = Head(inval).path => ~Mentions(inval, p)')
           /\ Head(inval).path \in Paths
  <1>1. /\ Len(inval) \in Nat \ {0} /\ DOMAIN inval = 1 .. Len(inval)
        /\ Head(inval) = inval[1] /\ Head(inval) \in InvalMsg
        /\ DOMAIN inval' = 1 .. Len(inval) - 1
        /\ \A i \in 1 .. Len(inval) - 1 : inval'[i] = inval[i + 1]
        /\ \A i \in 2 .. Len(inval) : inval'[i - 1] = inval[i]
      BY Removed DEF TypeOK
  <1>2. ASSUME Mentions(inval, p)'
        PROVE  \E i \in DOMAIN inval : i # 1 /\ inval[i].path = p
    <2>1. PICK i \in DOMAIN inval' : inval'[i].path = p
        BY <1>2 DEF Mentions
    <2>2. i + 1 \in DOMAIN inval /\ i + 1 # 1 /\ inval[i + 1].path = p
        BY <1>1, <2>1
    <2> QED
        BY <2>2
  <1>3. ASSUME Mentions(inval, p)
        PROVE  Mentions(inval, p)' \/ p = Head(inval).path
    <2>1. PICK i \in DOMAIN inval : inval[i].path = p
        BY <1>3 DEF Mentions
    <2>2. CASE i = 1
        BY <1>1, <2>1, <2>2
    <2>3. CASE i # 1
      <3>1. i - 1 \in DOMAIN inval' /\ inval'[i - 1].path = p
          BY <1>1, <2>1, <2>3
      <3> QED
          BY <3>1 DEF Mentions
    <2> QED
        BY <2>2, <2>3
  <1>4. 1 \in DOMAIN inval
      BY <1>1
  <1>5. ASSUME OneInInval(p) PROVE OneInInval(p)'
    <2> SUFFICES ASSUME NEW i \in DOMAIN inval', NEW j \in DOMAIN inval',
                        inval'[i].path = p, inval'[j].path = p
                 PROVE  i = j
        BY DEF OneInInval
    <2>1. /\ i + 1 \in DOMAIN inval /\ j + 1 \in DOMAIN inval
          /\ inval[i + 1].path = p /\ inval[j + 1].path = p
          /\ i \in Int /\ j \in Int
        BY <1>1
    <2>2. i + 1 = j + 1
        BY <1>5, <2>1 DEF OneInInval
    <2> QED
        BY <2>1, <2>2
  <1>6. ASSUME OneInInval(p), p = Head(inval).path PROVE ~Mentions(inval, p)'
      BY <1>1, <1>2, <1>4, <1>6 DEF OneInInval
  <1>7. Head(inval).path \in Paths
      BY <1>1 DEF InvalMsg
  <1> QED
      BY <1>1, <1>2, <1>3, <1>4, <1>5, <1>6, <1>7 DEF Mentions

(* What is on the connection that carries PATCH and CLEAN.                 *)
LEMMA SyncSend ==
    ASSUME TypeOK, NEW m \in PatchMsg \cup CleanMsg, NEW p,
           syncSig' = Append(syncSig, m), UNCHANGED <<latest, backing, patcher>>
    PROVE  /\ PatchSent(p)' <=> PatchSent(p) \/ (m.type = "PATCH" /\ p = m.path)
           /\ CleanSent(p)' <=> CleanSent(p) \/ (m.type = "CLEAN" /\ p = m.path)
           /\ /\ PatchesFit(p)
              /\ m.type = "PATCH" /\ p = m.path
                    => m.to = latest[p] /\ m.from \in {Empty, Coming(p)}
              => PatchesFit(p)'
  <1>1. /\ Len(syncSig) \in Nat /\ DOMAIN syncSig = 1 .. Len(syncSig)
        /\ DOMAIN syncSig' = 1 .. Len(syncSig) + 1
        /\ \A i \in 1 .. Len(syncSig) : syncSig'[i] = syncSig[i]
        /\ syncSig'[Len(syncSig) + 1] = m
      BY Appended DEF TypeOK
  <1>2. Len(syncSig) + 1 \in DOMAIN syncSig'
      BY <1>1
  <1>3. PatchSent(p)' <=> PatchSent(p) \/ (m.type = "PATCH" /\ p = m.path)
      BY <1>1, <1>2 DEF PatchSent, IsPatch
  <1>4. CleanSent(p)' <=> CleanSent(p) \/ (m.type = "CLEAN" /\ p = m.path)
      BY <1>1, <1>2 DEF CleanSent
  <1>5. ASSUME PatchesFit(p),
               m.type = "PATCH" /\ p = m.path
                  => m.to = latest[p] /\ m.from \in {Empty, Coming(p)}
        PROVE  PatchesFit(p)'
    <2> SUFFICES ASSUME NEW i \in DOMAIN syncSig', IsPatch(i, p)'
                 PROVE  /\ syncSig'[i].to = latest[p]
                        /\ \/ syncSig'[i].from = Empty
                           \/ syncSig'[i].from = IF Earlier(i, p)'
                                                 THEN latest[p] ELSE backing[p]
        BY DEF PatchesFit
    <2>1. CASE i \in DOMAIN syncSig
      <3>1. \A j \in DOMAIN syncSig' : j < i <=> j \in DOMAIN syncSig /\ j < i
          BY <1>1, <2>1
      <3>2. Earlier(i, p)' <=> Earlier(i, p)
          BY <1>1, <3>1 DEF Earlier, IsPatch, WorksOn
      <3> QED
          BY <1>1, <1>5, <2>1, <3>2 DEF PatchesFit, IsPatch
    <2>2. CASE i = Len(syncSig) + 1
      <3>1. \A j \in DOMAIN syncSig' : j < i <=> j \in DOMAIN syncSig
          BY <1>1, <2>2
      <3>2. Earlier(i, p)' <=> InFlight(p)
          BY <1>1, <3>1 DEF Earlier, InFlight, PatchSent, IsPatch, WorksOn
      <3> QED
          BY <1>1, <1>5, <2>2, <3>2 DEF IsPatch, Coming
    <2> QED
        BY <1>1, <2>1, <2>2
  <1> QED
      BY <1>3, <1>4, <1>5

(* What is on the PATCH and CLEAN connection once its first is taken.      *)
LEMMA SyncReceive ==
    ASSUME TypeOK, syncSig # <<>>, syncSig' = Tail(syncSig), NEW p,
           UNCHANGED <<latest, backing>>, patcher = Idle,
           WorksOn(patcher, p)' <=> Head(syncSig).type = "PATCH"
                                      /\ p = Head(syncSig).path
    PROVE  /\ PatchSent(p) <=> \/ PatchSent(p)'
                               \/ Head(syncSig).type = "PATCH"
                                    /\ p = Head(syncSig).path
           /\ CleanSent(p) <=> \/ CleanSent(p)'
                               \/ Head(syncSig).type = "CLEAN"
                                    /\ p = Head(syncSig).path
           /\ PatchesFit(p) => PatchesFit(p)'
           /\ /\ PatchesFit(p)
              /\ Head(syncSig).type = "PATCH" /\ p = Head(syncSig).path
              => /\ Head(syncSig).to = latest[p]
                 /\ Head(syncSig).from \in {Empty, backing[p]}
           /\ Head(syncSig) \in PatchMsg \cup CleanMsg
  <1>1. /\ Len(syncSig) \in Nat \ {0} /\ DOMAIN syncSig = 1 .. Len(syncSig)
        /\ Head(syncSig) = syncSig[1] /\ Head(syncSig) \in PatchMsg \cup CleanMsg
        /\ DOMAIN syncSig' = 1 .. Len(syncSig) - 1
        /\ \A i \in 1 .. Len(syncSig) - 1 : syncSig'[i] = syncSig[i + 1]
        /\ \A i \in 2 .. Len(syncSig) : syncSig'[i - 1] = syncSig[i]
      BY Removed DEF TypeOK
  <1>2. 1 \in DOMAIN syncSig
      BY <1>1
  <1>3. ASSUME NEW i \in DOMAIN syncSig'
        PROVE  i \in Int /\ i + 1 \in DOMAIN syncSig /\ syncSig'[i] = syncSig[i + 1]
      BY <1>1, <1>3
  <1>4. ASSUME NEW i \in DOMAIN syncSig, i # 1
        PROVE  i - 1 \in DOMAIN syncSig' /\ syncSig'[i - 1] = syncSig[i]
      BY <1>1, <1>4
  <1>5. PatchSent(p) <=> \/ PatchSent(p)'
                         \/ Head(syncSig).type = "PATCH" /\ p = Head(syncSig).path
    <2>1. ASSUME PatchSent(p)' PROVE PatchSent(p)
        BY <1>3, <2>1 DEF PatchSent, IsPatch
    <2>2. ASSUME PatchSent(p), ~PatchSent(p)' PROVE IsPatch(1, p)
      <3>1. PICK i \in DOMAIN syncSig : IsPatch(i, p)
          BY <2>2 DEF PatchSent
      <3>2. i = 1
          BY <1>4, <2>2, <3>1 DEF PatchSent, IsPatch
      <3> QED
          BY <3>1, <3>2
    <2>3. ASSUME IsPatch(1, p) PROVE PatchSent(p)
        BY <1>2, <2>3 DEF PatchSent
    <2> QED
        BY <1>1, <2>1, <2>2, <2>3 DEF IsPatch
  <1>6. CleanSent(p) <=> \/ CleanSent(p)'
                         \/ Head(syncSig).type = "CLEAN" /\ p = Head(syncSig).path
    <2>1. ASSUME CleanSent(p)' PROVE CleanSent(p)
        BY <1>3, <2>1 DEF CleanSent
    <2>2. ASSUME CleanSent(p), ~CleanSent(p)'
          PROVE  Head(syncSig).type = "CLEAN" /\ p = Head(syncSig).path
      <3>1. PICK i \in DOMAIN syncSig :
                syncSig[i].type = "CLEAN" /\ syncSig[i].path = p
          BY <2>2 DEF CleanSent
      <3>2. i = 1
          BY <1>4, <2>2, <3>1 DEF CleanSent
      <3> QED
          BY <1>1, <3>1, <3>2
    <2>3. ASSUME Head(syncSig).type = "CLEAN", p = Head(syncSig).path
          PROVE  CleanSent(p)
        BY <1>1, <1>2, <2>3 DEF CleanSent
    <2> QED
        BY <2>1, <2>2, <2>3
  <1>7. ASSUME NEW i \in DOMAIN syncSig'
        PROVE  Earlier(i, p)' <=> Earlier(i + 1, p)
    <2>1. ASSUME Earlier(i, p)' PROVE Earlier(i + 1, p)
      <3>1. CASE WorksOn(patcher, p)'
        <4>1. 1 < i + 1 /\ IsPatch(1, p)
            BY <1>1, <1>3, <3>1 DEF IsPatch
        <4> QED
            BY <1>2, <4>1 DEF Earlier
      <3>2. CASE \E j \in DOMAIN syncSig' : j < i /\ IsPatch(j, p)'
        <4>1. PICK j \in DOMAIN syncSig' : j < i /\ IsPatch(j, p)'
            BY <3>2
        <4>2. j + 1 \in DOMAIN syncSig /\ j + 1 < i + 1 /\ IsPatch(j + 1, p)
            BY <1>3, <4>1 DEF IsPatch
        <4> QED
            BY <4>2 DEF Earlier
      <3> QED
          BY <2>1, <3>1, <3>2 DEF Earlier
    <2>2. ASSUME Earlier(i + 1, p) PROVE Earlier(i, p)'
      <3>0. ~WorksOn(patcher, p)
          BY DEF WorksOn
      <3>1. PICK j \in DOMAIN syncSig : j < i + 1 /\ IsPatch(j, p)
          BY <2>2, <3>0 DEF Earlier
      <3>2. CASE j = 1
          BY <1>1, <3>1, <3>2 DEF IsPatch, Earlier
      <3>3. CASE j # 1
        <4>1. j - 1 \in DOMAIN syncSig' /\ j - 1 < i /\ IsPatch(j - 1, p)'
            BY <1>1, <1>3, <1>4, <3>1, <3>3 DEF IsPatch
        <4> QED
            BY <4>1 DEF Earlier
      <3> QED
          BY <3>2, <3>3
    <2> QED
        BY <2>1, <2>2
  <1>8. ASSUME PatchesFit(p) PROVE PatchesFit(p)'
    <2> SUFFICES ASSUME NEW i \in DOMAIN syncSig', IsPatch(i, p)'
                 PROVE  /\ syncSig'[i].to = latest[p]
                        /\ \/ syncSig'[i].from = Empty
                           \/ syncSig'[i].from = IF Earlier(i, p)'
                                                 THEN latest[p] ELSE backing[p]
        BY DEF PatchesFit
    <2>1. i + 1 \in DOMAIN syncSig /\ IsPatch(i + 1, p)
        BY <1>3 DEF IsPatch
    <2> QED
        BY <1>3, <1>7, <1>8, <2>1 DEF PatchesFit
  <1>9. ASSUME PatchesFit(p), IsPatch(1, p)
        PROVE  syncSig[1].to = latest[p] /\ syncSig[1].from \in {Empty, backing[p]}
    <2>1. ~Earlier(1, p)
        BY <1>1 DEF Earlier, WorksOn
    <2> QED
        BY <1>2, <1>9, <2>1 DEF PatchesFit
  <1> QED
      BY <1>1, <1>5, <1>6, <1>8, <1>9 DEF IsPatch

-----------------------------------------------------------------------------
(* A step that has no part in p: everything about p stays as it is, except *)
(* that a clean copy of p may be evicted.                                  *)
Evicted(p) ==
    /\ local'[p] = NoFile /\ base'[p] = NoFile
    /\ p \notin dirty /\ ~WorksOn(fuse, p) /\ "evict" \in Env
SameFiles(p) ==
    /\ latest'[p] = latest[p] /\ backing'[p] = backing[p]
    /\ handles'[p] = handles[p]
    /\ p \in dirty' <=> p \in dirty
    /\ p \in ignores' <=> p \in ignores
    /\ p \in srvDirty' <=> p \in srvDirty
SameThreads(p) ==
    /\ WorksOn(fuse, p)' <=> WorksOn(fuse, p)
    /\ WorksOn(fuse, p) => UNCHANGED fuse
    /\ WorksOn(sync, p)' <=> WorksOn(sync, p)
    /\ WorksOn(sync, p) => UNCHANGED sync
    /\ WorksOn(lsn, p)' <=> WorksOn(lsn, p)
    /\ WorksOn(lsn, p) => UNCHANGED lsn
    /\ WorksOn(srv, p)' <=> WorksOn(srv, p)
    /\ WorksOn(srv, p) => UNCHANGED srv
    /\ WorksOn(patcher, p)' <=> WorksOn(patcher, p)
    /\ WorksOn(patcher, p) => UNCHANGED patcher
SameWires(p) ==
    /\ Queued(p)' <=> Queued(p)
    /\ LockSent(p)' <=> LockSent(p)
    /\ PatchSent(p)' <=> PatchSent(p)
    /\ CleanSent(p)' <=> CleanSent(p)
    /\ Mentions(inval, p)' <=> Mentions(inval, p)
    /\ OneInQueue(p) => OneInQueue(p)'
    /\ OneInInval(p) => OneInInval(p)'
    /\ PatchesFit(p) => PatchesFit(p)'
Untouched(p) ==
    /\ (local'[p] = local[p] /\ base'[p] = base[p]) \/ Evicted(p)
    /\ SameFiles(p) /\ SameThreads(p) /\ SameWires(p)

(* What has no part in a path keeps the path's invariant.                  *)
LEMMA UntouchedKeeps ==
    ASSUME TakesTurns, NEW p \in Paths, TurnOK(p), Untouched(p)
    PROVE  TurnOK(p)'
  <1> USE DEF TurnOK, Untouched, SameFiles, SameThreads, SameWires
  <1>1. \A operation : Doing(operation, p)' <=> Doing(operation, p)
      BY DEF Doing
  <1>2. /\ InFlight(p)' <=> InFlight(p)
        /\ Uploading(p)' <=> Uploading(p)
        /\ Taking(p)' <=> Taking(p)
        /\ Coming(p)' = Coming(p)
      BY DEF InFlight, Uploading, Taking, Coming
  <1>3. /\ Announced(p)' <=> Announced(p)
        /\ Purging(p)' <=> Purging(p)
      BY DEF Announced, Hearing, Purging
  <1>4. /\ Naming(p)' <=> Naming(p)
        /\ Announcing(p)' <=> Announcing(p)
        /\ Changed(p)' <=> Changed(p)
        /\ Stale(p)' <=> Stale(p)
      BY <1>1, <1>2, <1>3 DEF Naming, Announcing, Changed, Stale, Doing
  <1>5. Excluded(p)'
      BY <1>1, <1>2, <1>4 DEF Excluded
  <1>6. OneAnnouncement(p)'
      BY DEF OneAnnouncement
  <1>7. Named(p)'
    <2>1. CASE WorksOn(fuse, p) /\ WorksOn(srv, p)
        BY <1>1, <1>4, <2>1 DEF Named, Evicted
    <2>2. CASE WorksOn(fuse, p) /\ ~WorksOn(srv, p)
        BY <1>1, <1>4, <2>2 DEF Named, Evicted
    <2>3. CASE ~WorksOn(fuse, p) /\ WorksOn(srv, p)
      <3>1. ~Naming(p) /\ UNCHANGED srv
          BY <2>3 DEF Naming, Doing
      <3> QED
          BY <1>4, <2>3, <3>1 DEF Named
    <2>4. CASE ~WorksOn(fuse, p) /\ ~WorksOn(srv, p)
        BY <1>4, <2>4 DEF Named, Naming, Doing
    <2> QED
        BY <2>1, <2>2, <2>3, <2>4
  <1>8. Ignored(p)'
      BY <1>2, <1>3, <1>4 DEF Ignored, Naming, Doing
  <1>9. ServerHolds(p)'
      BY <1>1, <1>2, <1>4 DEF ServerHolds
  <1>10. CASE ~Evicted(p)
    <2>1. ClientHolds(p)'
        BY <1>1, <1>2, <1>3, <1>4, <1>10 DEF ClientHolds, Doing, Purging
    <2>2. DirtyUntilSent(p)'
        BY <1>1, <1>2, <1>4, <1>10 DEF DirtyUntilSent, Doing
    <2> QED
        BY <1>5, <1>6, <1>7, <1>8, <1>9, <2>1, <2>2, <1>2 DEF DeltasFit
  <1>11. CASE Evicted(p)
    <2>1. "truncate" \notin Env
        BY <1>11 DEF Evicted, TakesTurns
    <2>2. ClientHolds(p)'
      <3>1. ~Changed(p)
          BY <1>11, <2>1 DEF Evicted, DirtyUntilSent, Doing
      <3> QED
          BY <1>1, <1>2, <1>3, <1>4, <1>11, <3>1
          DEF ClientHolds, Evicted, Doing, Purging
    <2>3. DirtyUntilSent(p)'
        BY <1>1, <1>2, <1>4, <1>11, <2>1 DEF DirtyUntilSent, Doing
    <2> QED
        BY <1>5, <1>6, <1>7, <1>8, <1>9, <2>2, <2>3, <1>2 DEF DeltasFit
  <1> QED
      BY <1>10, <1>11

(* Whom the threads work for, as their places.                             *)
LEMMA Working ==
    ASSUME TypeOK, NEW p
    PROVE  /\ WorksOn(fuse, p) <=> fuse.pc # "idle" /\ fuse.path = p
           /\ WorksOn(sync, p) <=> sync.pc # "idle" /\ sync.path = p
           /\ WorksOn(lsn, p) <=> lsn.pc # "idle" /\ lsn.path = p
           /\ WorksOn(srv, p) <=> srv.pc # "idle" /\ srv.path = p
           /\ WorksOn(patcher, p) <=> patcher.pc # "idle" /\ patcher.path = p
  <1>1. fuse # Idle <=> fuse.pc # "idle"
      BY DEF TypeOK, FuseBusy, FusePcs
  <1>2. sync # Idle <=> sync.pc # "idle"
      BY DEF TypeOK, SyncBusy, SyncPcs
  <1>3. lsn # Idle <=> lsn.pc # "idle"
      BY DEF TypeOK, ListenerBusy
  <1>4. srv # Idle <=> srv.pc # "idle"
      BY DEF TypeOK, ServerBusy
  <1>5. patcher # Idle <=> patcher.pc # "idle"
      BY DEF TypeOK, PatcherBusy
  <1> QED
      BY <1>1, <1>2, <1>3, <1>4, <1>5 DEF WorksOn

(* Whom the threads work for next, as their places.                        *)
LEMMA WorkingNext ==
    ASSUME TypeOK', NEW p
    PROVE  /\ WorksOn(fuse, p)' <=> fuse'.pc # "idle" /\ fuse'.path = p
           /\ WorksOn(sync, p)' <=> sync'.pc # "idle" /\ sync'.path = p
           /\ WorksOn(lsn, p)' <=> lsn'.pc # "idle" /\ lsn'.path = p
           /\ WorksOn(srv, p)' <=> srv'.pc # "idle" /\ srv'.path = p
           /\ WorksOn(patcher, p)' <=> patcher'.pc # "idle" /\ patcher'.path = p
  <1>1. fuse' # Idle <=> fuse'.pc # "idle"
      BY DEF TypeOK, FuseBusy, FusePcs
  <1>2. sync' # Idle <=> sync'.pc # "idle"
      BY DEF TypeOK, SyncBusy, SyncPcs
  <1>3. lsn' # Idle <=> lsn'.pc # "idle"
      BY DEF TypeOK, ListenerBusy
  <1>4. srv' # Idle <=> srv'.pc # "idle"
      BY DEF TypeOK, ServerBusy
  <1>5. patcher' # Idle <=> patcher'.pc # "idle"
      BY DEF TypeOK, PatcherBusy
  <1> QED
      BY <1>1, <1>2, <1>3, <1>4, <1>5 DEF WorksOn

(* What a queue or connection says of a path if nothing is sent on it.     *)
LEMMA QueueKept ==
    ASSUME NEW p, UNCHANGED queue
    PROVE  (Queued(p)' <=> Queued(p)) /\ (OneInQueue(p)' <=> OneInQueue(p))
  BY DEF Queued, OneInQueue

(* The same of the DIRTY connection.                                       *)
LEMMA LocksKept ==
    ASSUME NEW p, UNCHANGED fuseSig
    PROVE  LockSent(p)' <=> LockSent(p)
  BY DEF LockSent

(* The same of the INVALIDATE connection.                                  *)
LEMMA InvalKept ==
    ASSUME NEW p, UNCHANGED inval
    PROVE  /\ Mentions(inval, p)' <=> Mentions(inval, p)
           /\ OneInInval(p)' <=> OneInInval(p)
  BY DEF Mentions, OneInInval

(* The same of the PATCH and CLEAN connection.                             *)
LEMMA SyncKept ==
    ASSUME NEW p, UNCHANGED syncSig
    PROVE  /\ PatchSent(p)' <=> PatchSent(p)
           /\ CleanSent(p)' <=> CleanSent(p)
           /\ /\ latest'[p] = latest[p] /\ backing'[p] = backing[p]
              /\ WorksOn(patcher, p)' <=> WorksOn(patcher, p)
              => (PatchesFit(p)' <=> PatchesFit(p))
           /\ ~PatchSent(p) => PatchesFit(p)'
  <1>1. /\ PatchSent(p)' <=> PatchSent(p)
        /\ CleanSent(p)' <=> CleanSent(p)
      BY DEF PatchSent, CleanSent, IsPatch
  <1>2. ASSUME latest'[p] = latest[p], backing'[p] = backing[p],
               WorksOn(patcher, p)' <=> WorksOn(patcher, p)
        PROVE  PatchesFit(p)' <=> PatchesFit(p)
    <2>1. \A i : Earlier(i, p)' <=> Earlier(i, p)
        BY <1>2 DEF Earlier, IsPatch
    <2> QED
        BY <1>2, <2>1 DEF PatchesFit, IsPatch
  <1>3. ASSUME ~PatchSent(p) PROVE PatchesFit(p)'
      BY <1>3 DEF PatchSent, PatchesFit, IsPatch
  <1> QED
      BY <1>1, <1>2, <1>3

(* Nothing is sent or received.                                            *)
LEMMA WiresKept ==
    ASSUME NEW p, SameFiles(p), SameThreads(p), UNCHANGED <<queue, wireVars>>
    PROVE  SameWires(p)
  BY QueueKept, LocksKept, InvalKept, SyncKept
  DEF SameFiles, SameThreads, SameWires, wireVars

-----------------------------------------------------------------------------
(* The steps of the client's FUSE loop.                                    *)
LEMMA FuseStepOthers ==
    ASSUME TypeOK, TypeOK', FuseStep, NEW p \in Paths, p # fuse.path
    PROVE  Untouched(p)
  <1> USE DEF diskVars, lockVars, threadVars, wireVars, serverVars, histVars
  <1>0. fuse \in FuseBusy /\ fuse.pc # "idle" /\ ~WorksOn(fuse, p)
      BY BusyTypes DEF FuseStep, OpenCheck, OpenStat, OpenDownload, OpenFetch,
         MarkDirty, SendDirty, WriteBump, Enqueue, SftpRequest, CreateLocal,
         CreateStat, WorksOn
  <1>1. ASSUME fuse' = Idle \/ fuse'.path = fuse.path
        PROVE  ~WorksOn(fuse, p)'
      BY <1>1 DEF WorksOn
  <1>2. ASSUME NEW to, Goto(to) PROVE fuse'.path = fuse.path
      BY <1>0, <1>2 DEF Goto, FuseBusy
  <1>3. Opened => /\ handles'[p] = handles[p] /\ ~WorksOn(fuse, p)'
      BY <1>0, <1>1 DEF Opened, Reply, TypeOK, FuseBusy
  <1>4. Reply => ~WorksOn(fuse, p)'
      BY <1>1 DEF Reply
  <1>5. ASSUME UNCHANGED <<sync, lsn, srv, patcher>>, ~WorksOn(fuse, p)'
        PROVE  SameThreads(p)
      BY <1>0, <1>5 DEF SameThreads, WorksOn
  <1>6. ASSUME UNCHANGED <<diskVars, dirty, ignores, serverVars, latest>>,
               handles'[p] = handles[p]
        PROVE  SameFiles(p) /\ local'[p] = local[p] /\ base'[p] = base[p]
      BY <1>6 DEF SameFiles
  <1>7. ASSUME UNCHANGED <<queue, wireVars>>, SameFiles(p), SameThreads(p)
        PROVE  SameWires(p)
      BY <1>7, WiresKept
  <1>8. ASSUME NEW f \in [Paths -> File], NEW g \in [Paths -> File],
               NEW E \in EvictSets, f[p] = local[p], g[p] = base[p],
               local' = Without(f, E), base' = Without(g, E)
        PROVE  (local'[p] = local[p] /\ base'[p] = base[p]) \/ Evicted(p)
      BY <1>0, <1>8 DEF Evicted, Without, EvictSets
  <1>11. CASE OpenCheck
    <2>1. ~WorksOn(fuse, p)' /\ handles'[p] = handles[p]
        BY <1>1, <1>2, <1>3, <1>11, Zenon DEF OpenCheck
    <2> QED
        BY <1>5, <1>6, <1>7, <1>11, <2>1 DEF OpenCheck, Untouched
  <1>12. CASE OpenStat
    <2>1. ~WorksOn(fuse, p)' /\ handles'[p] = handles[p]
        BY <1>1, <1>2, <1>3, <1>12, Zenon DEF OpenStat
    <2> QED
        BY <1>5, <1>6, <1>7, <1>12, <2>1 DEF OpenStat, Untouched
  <1>13. CASE OpenDownload
    <2>1. ~WorksOn(fuse, p)'
        BY <1>0, <1>1, <1>4, <1>13 DEF OpenDownload, FuseBusy
    <2>2. local'[p] = local[p]
        BY <1>13 DEF OpenDownload, TypeOK
    <2>3. SameFiles(p) /\ SameThreads(p)
        BY <1>5, <1>13, <2>1 DEF OpenDownload, SameFiles
    <2> QED
        BY <1>7, <1>13, <2>2, <2>3 DEF OpenDownload, Untouched
  <1>14. CASE OpenFetch
    <2> DEFINE got == IF backing[fuse.path] = NoFile THEN fuse.data
                                                     ELSE backing[fuse.path]
               newLocal == IF local[fuse.path] # NoFile
                           THEN [local EXCEPT ![fuse.path] = got] ELSE local
               newBase == IF local[fuse.path] # NoFile
                          THEN [base EXCEPT ![fuse.path] = got] ELSE base
    <2>1. /\ newLocal \in [Paths -> File] /\ newLocal[p] = local[p]
          /\ newBase \in [Paths -> File] /\ newBase[p] = base[p]
        BY <1>0 DEF TypeOK, FuseBusy
    <2>2. \/ UNCHANGED diskVars
          \/ \E E \in EvictSets : /\ local' = Without(newLocal, E)
                                  /\ base' = Without(newBase, E)
        BY <1>14, Zenon DEF OpenFetch
    <2> HIDE DEF newLocal, newBase
    <2>3. (local'[p] = local[p] /\ base'[p] = base[p]) \/ Evicted(p)
        BY <1>8, <2>1, <2>2
    <2>4. SameFiles(p) /\ SameThreads(p)
        BY <1>3, <1>5, <1>14 DEF OpenFetch, SameFiles
    <2> QED
        BY <1>7, <1>14, <2>3, <2>4 DEF OpenFetch, Untouched
  <1>15. CASE MarkDirty
    <2>1. ~WorksOn(fuse, p)'
        BY <1>1, <1>2, <1>4, <1>15, Zenon DEF MarkDirty, AfterMark
    <2>2. SameFiles(p) /\ SameThreads(p)
        BY <1>5, <1>15, <2>1 DEF MarkDirty, SameFiles
    <2> QED
        BY <1>7, <1>15, <2>2 DEF MarkDirty, Untouched
  <1>16. CASE SendDirty
    <2>1. ~WorksOn(fuse, p)'
        BY <1>1, <1>2, <1>4, <1>16, Zenon DEF SendDirty, AfterMark
    <2>2. SameFiles(p) /\ SameThreads(p)
        BY <1>5, <1>16, <2>1 DEF SendDirty, SameFiles
    <2>3. SameWires(p)
        BY <1>0, <1>16, <2>2, LockSend, QueueKept, InvalKept, SyncKept
        DEF SendDirty, FuseBusy, SameFiles, SameThreads, SameWires
    <2> QED
        BY <1>16, <2>2, <2>3 DEF SendDirty, Untouched
  <1>17. CASE WriteBump
    <2>1. (local'[p] = local[p] /\ base'[p] = base[p]) \/ Evicted(p)
        BY <1>8, <1>17 DEF WriteBump, TypeOK
    <2>2. SameFiles(p) /\ SameThreads(p)
        BY <1>4, <1>5, <1>17 DEF WriteBump, SameFiles
    <2> QED
        BY <1>7, <1>17, <2>1, <2>2 DEF WriteBump, Untouched
  <1>18. CASE Enqueue
    <2>1. ~WorksOn(fuse, p)'
        BY <1>1, <1>2, <1>4, <1>18, Zenon DEF Enqueue
    <2>2. SameFiles(p) /\ SameThreads(p)
        BY <1>5, <1>18, <2>1 DEF Enqueue, SameFiles
    <2>3. SameWires(p)
        BY <1>0, <1>18, <2>2, QueueSend, LocksKept, InvalKept, SyncKept
        DEF Enqueue, FuseBusy, SameFiles, SameThreads, SameWires
    <2> QED
        BY <1>18, <2>2, <2>3 DEF Enqueue, Untouched
  <1>19. CASE SftpRequest
    <2>1. ~WorksOn(fuse, p)'
        BY <1>1, <1>2, <1>4, <1>19, Zenon DEF SftpRequest
    <2>2. WorksOn(srv, p)' <=> WorksOn(srv, p)
        BY <1>19 DEF SftpRequest, ServerFree, WorksOn
    <2>3. WorksOn(srv, p) => UNCHANGED srv
        BY <1>19 DEF SftpRequest, ServerFree, WorksOn
    <2>4. SameThreads(p)
        BY <1>0, <1>19, <2>1, <2>2, <2>3 DEF SftpRequest, SameThreads, WorksOn
    <2>5. SameFiles(p)
        BY <1>19 DEF SftpRequest, SameFiles, TypeOK
    <2> QED
        BY <1>7, <1>19, <2>4, <2>5 DEF SftpRequest, Untouched
  <1>20. CASE CreateLocal
    <2>1. ~WorksOn(fuse, p)'
        BY <1>1, <1>2, <1>20 DEF CreateLocal
    <2>2. local'[p] = local[p] /\ base'[p] = base[p]
        BY <1>20 DEF CreateLocal, TypeOK
    <2>3. SameFiles(p) /\ SameThreads(p)
        BY <1>5, <1>20, <2>1 DEF CreateLocal, SameFiles
    <2> QED
        BY <1>7, <1>20, <2>2, <2>3 DEF CreateLocal, Untouched
  <1>21. CASE CreateStat
    <2>1. ~WorksOn(fuse, p)' /\ handles'[p] = handles[p]
        BY <1>3, <1>4, <1>21 DEF CreateStat
    <2> QED
        BY <1>5, <1>6, <1>7, <1>21, <2>1 DEF CreateStat, Untouched
  <1> QED
      BY <1>11, <1>12, <1>13, <1>14, <1>15, <1>16, <1>17, <1>18, <1>19,
         <1>20, <1>21 DEF FuseStep

(* The steps of open.                                                      *)
LEMMA OpenSteps ==
    ASSUME TypeOK, TypeOK', TakesTurns, Staged, NEW p \in Paths, p = fuse.path,
           TurnOK(p), OpenCheck \/ OpenStat \/ OpenDownload \/ OpenFetch
    PROVE  TurnOK(p)'
  <1> USE DEF diskVars, lockVars, threadVars, wireVars, serverVars, histVars
  <1>0. fuse \in FuseBusy /\ fuse.pc # "idle" /\ WorksOn(fuse, p)
      BY BusyTypes DEF OpenCheck, OpenStat, OpenDownload, OpenFetch, WorksOn
  <1>1. fuse.op = "open"
      BY <1>0 DEF Staged, PcsOf, FuseBusy, FuseOps, OpenCheck, OpenStat,
         OpenDownload, OpenFetch
  <1>2. /\ handles[p] = 0 /\ p \notin srvDirty /\ p \notin dirty
        /\ ~LockSent(p) /\ ~Uploading(p) /\ ~Announcing(p)
      BY <1>0, <1>1 DEF TurnOK, Excluded, Doing, Naming
  <1>3. UNCHANGED <<queue, fuseSig, syncSig, inval, sync, lsn, srv, patcher,
                    backing, srvDirty, latest, dirty, ignores>>
      BY DEF OpenCheck, OpenStat, OpenDownload, OpenFetch
  <1>4. /\ ~Queued(p)' /\ ~PatchSent(p)' /\ ~CleanSent(p)' /\ ~LockSent(p)'
        /\ ~Mentions(inval, p)' /\ PatchesFit(p)' /\ OneInInval(p)' 
        /\ OneInQueue(p) => OneInQueue(p)'
      BY <1>2, <1>3, QueueKept, LocksKept, InvalKept, SyncKept
      DEF Uploading, Announcing, Announced, TurnOK, OneAnnouncement
  <1>5. ~WorksOn(sync, p)' /\ ~WorksOn(lsn, p)' /\ ~WorksOn(srv, p)'
          /\ ~WorksOn(patcher, p)'
      BY <1>2, <1>3 DEF WorksOn, Uploading, Announcing, Announced, Hearing, Purging
  <1>6. /\ backing[p] = latest[p] /\ backing[p] # NoFile
        /\ \/ local[p] \in {NoFile, latest[p]}
           \/ fuse.pc = "openFetch" /\ local[p] # NoFile
        /\ base[p] \in {NoFile, backing[p]}
        /\ p \notin ignores 
      BY <1>0, <1>1, <1>2
  DEF TurnOK, Doing, Naming, Changed, Taking, Uploading, InFlight, Coming, Announcing, Stale,
      ServerHolds, ClientHolds, Ignored, Staged, PcsOf
  <1> USE DEF TurnOK, Excluded, OneAnnouncement, Named, Ignored, ServerHolds,
      ClientHolds, DeltasFit, DirtyUntilSent, 
      Doing, Naming, Uploading, Announced, Announcing, Purging, Hearing,
      Taking, Changed, Stale, Coming, InFlight
  <1>11. CASE OpenCheck
    <2>1. /\ fuse'.pc \in {"openDownload", "openStat"} /\ fuse'.op = "open"
          /\ fuse'.path = p /\ (fuse'.pc = "openStat" => local[p] # NoFile)
        BY <1>0, <1>1, <1>2, <1>11 DEF OpenCheck, Goto, FuseBusy
    <2> QED
        BY <1>1, <1>2, <1>3, <1>4, <1>5, <1>6, <1>11, <2>1, WorkingNext DEF OpenCheck
  <1>12. CASE OpenStat
    <2>1. CASE Opened
      BY <1>1, <1>2, <1>3, <1>4, <1>5, <1>6, <1>12, <2>1 DEF OpenStat, Opened, Reply, WorksOn
    <2>2. CASE Goto("openDownload") /\ UNCHANGED handles
      <3>1. /\ fuse'.pc = "openDownload" /\ fuse'.op = "open"
            /\ fuse'.path = p
          BY <1>0, <1>1, <1>2, <2>2 DEF Goto, FuseBusy
      <3> QED
        BY <1>1, <1>2, <1>3, <1>4, <1>5, <1>6, <1>12, <2>2, <3>1, WorkingNext DEF OpenStat
    <2> QED
        BY <1>12, <2>1, <2>2 DEF OpenStat
  <1>13. CASE OpenDownload
    <2>1. LookupFinds(p) /\ p \in DOMAIN local
        BY <1>2, <1>6 DEF LookupFinds, TypeOK
    <2>2. /\ local' = [local EXCEPT ![p] = Empty] /\ UNCHANGED <<base, handles>>
          /\ fuse' = [fuse EXCEPT !.pc = "openFetch", !.data = backing[p]]
        BY <1>13, <2>1 DEF OpenDownload
    <2>3. local'[p] = Empty /\ Empty # NoFile
        BY <2>1, <2>2 DEF Empty, NoFile
    <2>4. fuse'.pc = "openFetch" /\ fuse'.op = "open" /\ fuse'.path = p
        BY <1>0, <1>1, <2>2 DEF FuseBusy
    <2> QED
        BY <1>2, <1>3, <1>4, <1>5, <1>6, <2>2, <2>3, <2>4, WorkingNext
  <1>14. CASE OpenFetch
    <2>1. local[p] # NoFile /\ p \in DOMAIN local /\ p \in DOMAIN base
        BY <1>0, <1>1, <1>14 DEF OpenFetch, TypeOK
    <2>2. PICK E \in EvictSets :
              /\ local' = Without([local EXCEPT ![p] = backing[p]], E)
              /\ base' = Without([base EXCEPT ![p] = backing[p]], E)
        BY <1>2, <1>6, <1>14, <2>1 DEF OpenFetch
    <2>3. /\ local'[p] = base'[p] /\ local'[p] \in {NoFile, backing[p]}
          /\ "truncate" \in Env => local'[p] = backing[p]
        BY <2>1, <2>2 DEF Without, EvictSets, TakesTurns
    <2>4. fuse' = Idle /\ handles'[p] = 1 /\ ~WorksOn(fuse, p)'
        BY <1>2, <1>14 DEF OpenFetch, Opened, Reply, TypeOK, WorksOn
    <2> QED
        BY <1>2, <1>3, <1>4, <1>5, <1>6, <2>3, <2>4
  <1> QED
      BY <1>11, <1>12, <1>13, <1>14

(* The steps of write, setattr and release.                                *)
LEMMA ChangeSteps ==
    ASSUME TypeOK, TypeOK', TakesTurns, Staged, NEW p \in Paths, p = fuse.path,
           TurnOK(p), MarkDirty \/ SendDirty \/ WriteBump \/ Enqueue
    PROVE  TurnOK(p)'
  <1> USE DEF diskVars, lockVars, threadVars, wireVars, serverVars, histVars
  <1>0. fuse \in FuseBusy /\ fuse.pc # "idle" /\ WorksOn(fuse, p)
      BY BusyTypes DEF MarkDirty, SendDirty, WriteBump, Enqueue, WorksOn
  <1>1. /\ fuse.op \in {"write", "setattr", "release"}
        /\ fuse.op = "write" => fuse.pc \in {"mark", "signal", "bump"}
        /\ fuse.op = "release" => fuse.pc = "enqueue"
        /\ fuse.op = "setattr" => fuse.pc \in {"enqueue", "mark", "signal"}
      BY <1>0 DEF Staged, PcsOf, FuseBusy, FuseOps, MarkDirty, SendDirty,
         WriteBump, Enqueue
  <1>2. /\ ~Announcing(p) /\ p \notin ignores /\ ~Naming(p)
        /\ fuse.op = "release" => handles[p] = 0
        /\ fuse.op # "release" => handles[p] = 1
        /\ fuse.op = "setattr" => "truncate" \in Env
        /\ fuse.op = "write" => ~Uploading(p)
        /\ handles[p] <= 1
      BY <1>0, <1>1 DEF TurnOK, Excluded, Doing, Naming, Ignored
  <1>3. UNCHANGED <<syncSig, inval, sync, lsn, srv, patcher, handles,
                    backing, srvDirty, latest, ignores>>
      BY DEF MarkDirty, SendDirty, WriteBump, Enqueue
  <1>4. /\ PatchSent(p)' <=> PatchSent(p)
        /\ CleanSent(p)' <=> CleanSent(p)
        /\ ~Mentions(inval, p)' /\ OneInInval(p)' /\ PatchesFit(p)'
      BY <1>2, <1>3, InvalKept, SyncKept
      DEF Announcing, Announced, TurnOK, OneAnnouncement, DeltasFit, WorksOn
  <1>5. /\ WorksOn(sync, p)' <=> WorksOn(sync, p)
        /\ ~WorksOn(lsn, p)' /\ ~WorksOn(srv, p)'
        /\ WorksOn(patcher, p)' <=> WorksOn(patcher, p)
      BY <1>2, <1>3 DEF WorksOn, Announcing, Announced, Hearing, Purging
  <1>6. /\ local[p] = latest[p] /\ latest[p] # NoFile /\ backing[p] # NoFile
        /\ ~Stale(p)
    <2>1. ~Stale(p)
        BY <1>0, <1>1, <1>2 DEF Announcing, Stale, Staged
    <2>2. CASE Changed(p)
        BY <2>1, <2>2 DEF TurnOK, ServerHolds, ClientHolds
    <2>3. CASE ~Changed(p)
      <3>1. fuse.op = "setattr"
          BY <1>0, <1>1, <2>3 DEF Changed, Doing
      <3>2. handles[p] = 1 /\ local[p] # NoFile /\ backing[p] # NoFile
          BY <1>2, <3>1 DEF TurnOK, ServerHolds, DirtyUntilSent
      <3> QED
          BY <1>1, <2>1, <3>1, <3>2 DEF TurnOK, ClientHolds, Doing
    <2> QED
        BY <2>2, <2>3
  <1> USE DEF TurnOK, Excluded, OneAnnouncement, Named, Ignored, ServerHolds,
      ClientHolds, DeltasFit, DirtyUntilSent,
      Doing, Naming, Uploading, Announced, Announcing, Purging, Hearing,
      Taking, Changed, Stale, Coming, InFlight
  <1>11. CASE MarkDirty
    <2>1. UNCHANGED <<diskVars, queue, fuseSig>> /\ dirty' = dirty \cup {p}
        BY <1>11 DEF MarkDirty
    <2>2. /\ Queued(p)' <=> Queued(p)
          /\ OneInQueue(p) => OneInQueue(p)'
          /\ LockSent(p)' <=> LockSent(p)
        BY <2>1, QueueKept, LocksKept
    <2>3. CASE fuse.op = "write"
      <3>1. /\ fuse'.op = "write" /\ fuse'.path = p
            /\ fuse'.pc \in {"signal", "bump"}
          BY <1>0, <1>11, <2>3 DEF MarkDirty, AfterMark, Goto, FuseBusy
      <3> QED
          BY <1>1, <1>2, <1>3, <1>4, <1>5, <1>6, <2>1, <2>2, <2>3, <3>1,
             WorkingNext
    <2>4. CASE fuse.op = "setattr"
      <3>1. \/ ~WorksOn(fuse, p)'
            \/ /\ fuse'.op = "setattr" /\ fuse'.path = p
               /\ fuse'.pc = "signal" /\ WorksOn(fuse, p)'
          BY <1>0, <1>11, <2>4 DEF MarkDirty, AfterMark, Goto, Reply, FuseBusy,
             WorksOn
      <3> QED
          BY <1>1, <1>2, <1>3, <1>4, <1>5, <1>6, <2>1, <2>2, <2>4, <3>1
    <2> QED
        BY <1>1, <1>11, <2>3, <2>4 DEF MarkDirty
  <1>12. CASE SendDirty
    <2>1. /\ UNCHANGED <<diskVars, queue, dirty>> /\ fuse.pc = "signal"
          /\ fuseSig' = Append(fuseSig, p)
        BY <1>12 DEF SendDirty
    <2>2. /\ Queued(p)' <=> Queued(p)
          /\ OneInQueue(p) => OneInQueue(p)'
          /\ LockSent(p)'
        BY <2>1, QueueKept, LockSend
    <2>3. CASE fuse.op = "write"
      <3>1. fuse'.op = "write" /\ fuse'.path = p /\ fuse'.pc = "bump"
          BY <1>0, <1>12, <2>3 DEF SendDirty, AfterMark, Goto, FuseBusy
      <3> QED
          BY <1>0, <1>1, <1>2, <1>3, <1>4, <1>5, <1>6, <2>1, <2>2, <2>3, <3>1,
             WorkingNext
    <2>4. CASE fuse.op = "setattr"
      <3>1. ~WorksOn(fuse, p)'
          BY <1>12, <2>4 DEF SendDirty, AfterMark, Reply, WorksOn
      <3> QED
          BY <1>0, <1>1, <1>2, <1>3, <1>4, <1>5, <1>6, <2>1, <2>2, <2>4, <3>1
    <2> QED
        BY <1>1, <1>12, <2>3, <2>4 DEF SendDirty
  <1>13. CASE WriteBump
    <2>1. /\ UNCHANGED <<queue, fuseSig, dirty>>
          /\ fuse.op = "write" /\ p \in dirty /\ ~WorksOn(fuse, p)'
        BY <1>0, <1>1, <1>13 DEF WriteBump, Reply, WorksOn
    <2>2. local'[p] = local[p] /\ base'[p] = base[p]
        BY <1>13, <2>1 DEF WriteBump, EvictSets, Without, TypeOK
    <2>3. /\ ~Queued(p)' /\ (OneInQueue(p) => OneInQueue(p)')
          /\ LockSent(p)' <=> LockSent(p)
        BY <1>2, <2>1, QueueKept, LocksKept
    <2> QED
        BY <1>2, <1>3, <1>4, <1>5, <1>6, <2>1, <2>2, <2>3
  <1>14. CASE Enqueue
    <2>1. /\ UNCHANGED <<diskVars, fuseSig, dirty>>
          /\ queue' = Append(queue, p)
        BY <1>14 DEF Enqueue
    <2>2. /\ Queued(p)' 
          /\ OneInQueue(p) /\ ~Queued(p) => OneInQueue(p)'
          /\ LockSent(p)' <=> LockSent(p)
        BY <2>1, QueueSend, LocksKept
    <2>3. CASE fuse.op = "setattr"
      <3>1. fuse'.op = "setattr" /\ fuse'.path = p /\ fuse'.pc = "mark"
          BY <1>0, <1>14, <2>3 DEF Enqueue, Goto, FuseBusy
      <3> QED
          BY <1>2, <1>3, <1>4, <1>5, <1>6, <1>14, <2>1, <2>2, <2>3, <3>1,
             WorkingNext
    <2>4. CASE fuse.op = "release"
      <3>1. ~WorksOn(fuse, p)'
          BY <1>14, <2>4 DEF Enqueue, Reply, WorksOn
      <3> QED
          BY <1>0, <1>2, <1>3, <1>4, <1>5, <1>6, <2>1, <2>2, <2>4, <3>1
    <2> QED
        BY <1>1, <1>14, <2>3, <2>4 DEF Enqueue
  <1> QED
      BY <1>11, <1>12, <1>13, <1>14

(* The steps of create and unlink after the request.                       *)
LEMMA NameSteps ==
    ASSUME TypeOK, TypeOK', TakesTurns, Staged, NEW p \in Paths, p = fuse.path,
           TurnOK(p), SftpRequest \/ CreateLocal \/ CreateStat
    PROVE  TurnOK(p)'
  <1> USE DEF diskVars, lockVars, threadVars, wireVars, serverVars, histVars
  <1>0. fuse \in FuseBusy /\ fuse.pc # "idle" /\ WorksOn(fuse, p)
      BY BusyTypes DEF SftpRequest, CreateLocal, CreateStat, WorksOn
  <1>1. /\ fuse.op \in {"create", "unlink"} /\ Naming(p)
        /\ fuse.op = "unlink" => fuse.pc = "request"
      BY <1>0 DEF Staged, PcsOf, FuseBusy, FuseOps, SftpRequest, CreateLocal,
         CreateStat, Naming, Doing
  <1>2. /\ handles[p] = 0 /\ p \notin dirty /\ ~LockSent(p) /\ ~Uploading(p)
        /\ ~Purging(p) /\ (Announced(p) => p \in ignores)
        /\ fuse.data = IF fuse.op = "create" THEN Empty ELSE NoFile
      BY <1>0, <1>1 DEF TurnOK, Excluded, Ignored, Named
  <1>3. UNCHANGED <<queue, fuseSig, syncSig, inval, sync, lsn, patcher,
                    srvDirty, dirty, ignores>>
      BY DEF SftpRequest, CreateLocal, CreateStat
  <1>4. /\ ~Queued(p)' /\ ~PatchSent(p)' /\ ~CleanSent(p)' /\ ~LockSent(p)'
        /\ Mentions(inval, p)' <=> Mentions(inval, p)
        /\ PatchesFit(p)' /\ OneInInval(p)'
        /\ OneInQueue(p) => OneInQueue(p)'
      BY <1>2, <1>3, QueueKept, LocksKept, InvalKept, SyncKept
      DEF Uploading, TurnOK, OneAnnouncement
  <1>5. /\ ~WorksOn(sync, p)' /\ ~WorksOn(patcher, p)'
        /\ WorksOn(lsn, p)' <=> WorksOn(lsn, p)
      BY <1>2, <1>3 DEF WorksOn, Uploading
  <1>6. ~Changed(p) /\ ~InFlight(p) /\ Coming(p) = backing[p]
      BY <1>0, <1>1, <1>2 DEF Changed, Doing, Taking, Uploading, InFlight, Coming
  <1>7. backing[p] = latest[p]
      BY <1>6 DEF TurnOK, ServerHolds
  <1> USE DEF TurnOK, Excluded, OneAnnouncement, Named, Ignored, ServerHolds,
      ClientHolds, DeltasFit, DirtyUntilSent,
      Doing, Naming, Uploading, Announced, Announcing, Purging, Hearing,
      Taking, Changed, Stale, Coming, InFlight
  <1>11. CASE SftpRequest
    <2>1. /\ UNCHANGED <<diskVars, handles>> /\ fuse.pc = "request" /\ srv = Idle
        BY <1>11 DEF SftpRequest, ServerFree
    <2>2. /\ ~Announcing(p) /\ p \in ignores
          /\ fuse.op = "create" => p \in srvDirty \/ backing[p] = NoFile
          /\ fuse.op = "unlink" => p \notin srvDirty /\ backing[p] # NoFile
        BY <1>1, <2>1
    <2>3. CASE Reply /\ UNCHANGED <<serverVars, latest>> /\ p \in srvDirty
      <3>1. ~WorksOn(fuse, p)' /\ ~WorksOn(srv, p)'
          BY <2>1, <2>3 DEF Reply, WorksOn
      <3> QED
          BY <1>0, <1>1, <1>2, <1>3, <1>4, <1>5, <1>6, <1>7, <2>1, <2>2, <2>3, <3>1
    <2>4. CASE /\ p \notin srvDirty /\ (fuse.op = "create" <=> backing[p] = NoFile)
               /\ srv' = [pc |-> "apply", path |-> p, new |-> fuse.data,
                          own |-> TRUE]
               /\ Goto("await") /\ UNCHANGED <<backing, latest>>
      <3>1. /\ fuse'.pc = "await" /\ fuse'.op = fuse.op /\ fuse'.path = p
            /\ fuse'.data = fuse.data
          BY <1>0, <2>4 DEF Goto, FuseBusy
      <3>2. /\ WorksOn(fuse, p)' /\ WorksOn(srv, p)'
            /\ srv'.pc = "apply" /\ srv'.own /\ srv'.new = fuse.data
          BY <2>4, <3>1, WorkingNext
      <3>3. srv'.new \in {NoFile} \cup 0..MaxId
          BY <1>1, <1>2, <3>2, BoundAssumption DEF NoFile, Empty
      <3> QED
          BY <1>0, <1>1, <1>2, <1>3, <1>4, <1>5, <1>6, <1>7, <2>1, <2>2, <2>4,
             <3>1, <3>2, <3>3
    <2> QED
        BY <1>1, <1>11, <2>2, <2>3, <2>4 DEF SftpRequest
  <1>12. CASE CreateLocal
    <2>1. /\ UNCHANGED <<srv, handles, backing, latest>> /\ fuse.pc = "createLocal"
          /\ local'[p] = Empty /\ base'[p] = Empty
        BY <1>12 DEF CreateLocal, TypeOK
    <2>2. /\ fuse'.pc = "createStat" /\ fuse'.op = fuse.op /\ fuse'.path = p
          /\ fuse'.data = fuse.data /\ WorksOn(fuse, p)'
        BY <1>0, <1>12, WorkingNext DEF CreateLocal, Goto, FuseBusy
    <2>3. WorksOn(srv, p)' <=> WorksOn(srv, p)
        BY <2>1 DEF WorksOn
    <2>4. fuse.op = "create" /\ backing[p] = Empty /\ latest[p] = Empty
        BY <1>0, <1>1, <2>1
    <2> QED
        BY <1>0, <1>2, <1>3, <1>4, <1>5, <1>6, <2>1, <2>2, <2>3, <2>4
  <1>13. CASE CreateStat
    <2>1. /\ fuse.pc = "createStat" /\ backing[p] = Empty /\ latest[p] = Empty
          /\ local[p] = Empty /\ p \notin srvDirty /\ backing[p] # NoFile
        BY <1>0, <1>13 DEF CreateStat, Empty, NoFile
    <2>2. /\ UNCHANGED <<srv, backing, latest, diskVars>>
          /\ handles'[p] = 1 /\ ~WorksOn(fuse, p)'
        BY <1>2, <1>13, <2>1 DEF CreateStat, Opened, Reply, TypeOK, WorksOn
    <2>3. WorksOn(srv, p)' <=> WorksOn(srv, p)
        BY <2>2 DEF WorksOn
    <2> QED
        BY <1>0, <1>1, <1>2, <1>3, <1>4, <1>5, <1>6, <2>1, <2>2, <2>3
  <1> QED
      BY <1>11, <1>12, <1>13

-----------------------------------------------------------------------------
(* The requests of the client's users.                                     *)
LEMMA RequestOthers ==
    ASSUME TypeOK, NEW q \in Paths, NEW p \in Paths, p # q,
           \/ OpenLookup(q) \/ WriteData(q) \/ Release(q) \/ Setattr(q)
           \/ CreateIgnore(q) \/ UnlinkLocal(q)
    PROVE  Untouched(p)
  <1> USE DEF diskVars, lockVars, threadVars, wireVars, serverVars, histVars
  <1>1. /\ UNCHANGED <<sync, lsn, srv, patcher, queue, wireVars, base, backing,
                       srvDirty, dirty>>
        /\ fuse = Idle /\ (fuse' = Idle \/ fuse'.path = q)
      BY DEF OpenLookup, WriteData, Release, Setattr, CreateIgnore, UnlinkLocal,
         Start
  <1>2. SameThreads(p)
      BY <1>1 DEF SameThreads, WorksOn
  <1>3. /\ p \in ignores' <=> p \in ignores
        /\ handles'[p] = handles[p]
      BY DEF OpenLookup, WriteData, Release, Setattr, CreateIgnore, UnlinkLocal,
         TypeOK
  <1>4. local'[p] = local[p] /\ latest'[p] = latest[p]
      BY DEF OpenLookup, WriteData, Release, Setattr, CreateIgnore, UnlinkLocal,
         TypeOK
  <1>5. SameFiles(p)
      BY <1>1, <1>3, <1>4 DEF SameFiles
  <1> QED
      BY <1>1, <1>2, <1>4, <1>5, WiresKept DEF Untouched

(* A request keeps the invariant of the path that is requested.            *)
LEMMA RequestOwn ==
    ASSUME TypeOK, TypeOK', TakesTurns, DirtyHasOwner, NEW p \in Paths,
           TurnOK(p),
           \/ OpenLookup(p) \/ WriteData(p) \/ Release(p) \/ Setattr(p)
           \/ CreateIgnore(p) \/ UnlinkLocal(p)
    PROVE  TurnOK(p)'
  <1> USE DEF diskVars, lockVars, threadVars, wireVars, serverVars, histVars
  <1>1. /\ UNCHANGED <<sync, lsn, srv, patcher, queue, fuseSig, syncSig, inval,
                       base, backing, srvDirty, dirty>>
        /\ fuse = Idle /\ ~WorksOn(fuse, p)
      BY DEF OpenLookup, WriteData, Release, Setattr, CreateIgnore, UnlinkLocal,
         WorksOn
  <1>2. /\ WorksOn(sync, p)' <=> WorksOn(sync, p)
        /\ WorksOn(lsn, p)' <=> WorksOn(lsn, p)
        /\ WorksOn(srv, p)' <=> WorksOn(srv, p)
        /\ WorksOn(patcher, p)' <=> WorksOn(patcher, p)
      BY <1>1 DEF WorksOn
  <1>3. /\ Queued(p)' <=> Queued(p)
        /\ LockSent(p)' <=> LockSent(p)
        /\ PatchSent(p)' <=> PatchSent(p)
        /\ CleanSent(p)' <=> CleanSent(p)
        /\ Mentions(inval, p)' <=> Mentions(inval, p)
        /\ OneInQueue(p)' <=> OneInQueue(p)
        /\ OneInInval(p)' <=> OneInInval(p)
      BY <1>1, QueueKept, LocksKept, InvalKept, SyncKept
  <1>4. ASSUME ~Release(p)
        PROVE  /\ ~WorksOn(sync, p) /\ ~WorksOn(lsn, p) /\ ~WorksOn(srv, p)
               /\ ~WorksOn(patcher, p) /\ ~Queued(p) /\ ~LockSent(p)
               /\ ~PatchSent(p) /\ ~CleanSent(p) /\ ~Mentions(inval, p)
               /\ p \in dirty => handles[p] > 0
               /\ PatchesFit(p)'
    <2>1. Settled(p)
        BY <1>4 DEF OpenLookup, WriteData, Setattr, CreateIgnore, UnlinkLocal,
           ClientMayAct, TakesTurns
    <2>2. /\ ~WorksOn(sync, p) /\ ~WorksOn(lsn, p) /\ ~WorksOn(srv, p)
          /\ ~WorksOn(patcher, p) /\ ~Queued(p) /\ ~LockSent(p)
          /\ ~PatchSent(p) /\ ~CleanSent(p) /\ ~Mentions(inval, p)
        BY <2>1 DEF Settled, LockSent, PatchSent, CleanSent, IsPatch, Mentions
    <2> QED
        BY <1>1, <2>2, SyncKept DEF DirtyHasOwner
  <1>5. /\ handles[p] \in Nat /\ p \in DOMAIN handles /\ p \in DOMAIN local
        /\ p \in DOMAIN latest /\ p \in DOMAIN base
      BY DEF TypeOK
  <1> USE DEF TurnOK, Excluded, OneAnnouncement, Named, Ignored, ServerHolds,
      ClientHolds, DeltasFit, DirtyUntilSent,
      Doing, Naming, Uploading, Announced, Announcing, Purging, Hearing,
      Taking, Changed, Stale, Coming, InFlight
  <1>11. CASE OpenLookup(p)
    <2>1. /\ handles[p] = 0 /\ p \notin srvDirty /\ backing[p] # NoFile
          /\ UNCHANGED <<local, latest, ignores, handles>>
        BY <1>5, <1>11 DEF OpenLookup, ClientMayName, TakesTurns, LookupFinds
    <2>2. /\ fuse'.op = "open" /\ fuse'.path = p /\ fuse'.pc = "openCheck"
        BY <1>11 DEF OpenLookup, Start
    <2>3. ~Release(p)
        BY <2>1 DEF Release
    <2> QED
        BY <1>1, <1>2, <1>3, <1>4, <2>1, <2>2, <2>3
  <1>12. CASE WriteData(p)
    <2>1. /\ handles[p] > 0 /\ local[p] # NoFile
          /\ local'[p] = nextId /\ latest'[p] = nextId /\ nextId \in 0..MaxId
          /\ UNCHANGED <<ignores, handles>>
        BY <1>5, <1>12, BoundAssumption DEF WriteData, TypeOK
    <2>2. /\ fuse'.op = "write" /\ fuse'.path = p /\ fuse'.pc = "mark"
          /\ WorksOn(fuse, p)'
        BY <1>12, WorkingNext DEF WriteData, Start
    <2>3. ~Release(p)
        BY <1>1, <2>1, <1>12 DEF Release, WriteData, Start
    <2>4. nextId # NoFile /\ nextId # Torn
        BY <2>1, BoundAssumption DEF NoFile, Torn
    <2> QED
        BY <1>1, <1>2, <1>3, <1>4, <1>5, <2>1, <2>2, <2>3, <2>4
  <1>13. CASE Release(p)
    <2>1. /\ handles[p] = 1 /\ handles'[p] = 0
          /\ UNCHANGED <<ignores, local, latest>>
        BY <1>5, <1>13 DEF Release
    <2>2. PatchesFit(p)'
        BY <1>1, <1>2, <2>1, SyncKept
    <2>3. CASE p \in dirty
      <3>1. /\ fuse'.op = "release" /\ fuse'.path = p /\ fuse'.pc = "enqueue"
            /\ WorksOn(fuse, p)'
          BY <1>13, <2>3, WorkingNext DEF Release, Start
      <3> QED
          BY <1>1, <1>2, <1>3, <2>1, <2>2, <2>3, <3>1
    <2>4. CASE p \notin dirty
      <3>1. ~WorksOn(fuse, p)'
          BY <1>1, <1>13, <2>4 DEF Release, WorksOn
      <3> QED
          BY <1>1, <1>2, <1>3, <2>1, <2>2, <2>4, <3>1
    <2> QED
        BY <2>3, <2>4
  <1>14. CASE Setattr(p)
    <2>1. /\ handles[p] > 0 /\ "truncate" \in Env /\ local[p] # NoFile
          /\ UNCHANGED <<ignores, handles>>
        BY <1>14 DEF Setattr, TakesTurns
    <2>2. PICK c \in {Empty, nextId} : local'[p] = c /\ latest'[p] = c
        BY <1>5, <1>14, <2>1 DEF Setattr
    <2>3. c \in 0..MaxId /\ c # NoFile /\ c # Torn
        BY <1>14, BoundAssumption DEF Setattr, TypeOK, Empty, NoFile, Torn
    <2>4. /\ fuse'.op = "setattr" /\ fuse'.path = p /\ fuse'.pc = "enqueue"
          /\ WorksOn(fuse, p)'
        BY <1>14, WorkingNext DEF Setattr, Start
    <2>5. ~Release(p)
        BY <1>1, <2>4 DEF Release, Start
    <2> QED
        BY <1>1, <1>2, <1>3, <1>4, <1>5, <2>1, <2>2, <2>3, <2>4, <2>5
  <1>15. CASE CreateIgnore(p)
    <2>1. /\ handles[p] = 0 /\ (p \in srvDirty \/ backing[p] = NoFile)
          /\ UNCHANGED <<local, latest, handles>> /\ p \in ignores'
        BY <1>5, <1>15 DEF CreateIgnore, ClientMayName, TakesTurns, LookupFinds
    <2>2. /\ fuse'.op = "create" /\ fuse'.path = p /\ fuse'.pc = "request"
          /\ fuse'.data = Empty /\ WorksOn(fuse, p)'
        BY <1>15, WorkingNext DEF CreateIgnore, Start
    <2>3. ~Release(p)
        BY <2>1 DEF Release
    <2> QED
        BY <1>1, <1>2, <1>3, <1>4, <2>1, <2>2, <2>3
  <1>16. CASE UnlinkLocal(p)
    <2>1. /\ handles[p] = 0 /\ p \notin srvDirty /\ backing[p] # NoFile
          /\ UNCHANGED <<latest, handles>> /\ p \in ignores' /\ local'[p] = NoFile
        BY <1>5, <1>16 DEF UnlinkLocal, ClientMayName, TakesTurns, LookupFinds
    <2>2. /\ fuse'.op = "unlink" /\ fuse'.path = p /\ fuse'.pc = "request"
          /\ fuse'.data = NoFile /\ WorksOn(fuse, p)'
        BY <1>16, WorkingNext DEF UnlinkLocal, Start
    <2>3. ~Release(p)
        BY <2>1 DEF Release
    <2> QED
        BY <1>1, <1>2, <1>3, <1>4, <2>1, <2>2, <2>3
  <1> QED
      BY <1>11, <1>12, <1>13, <1>14, <1>15, <1>16

-----------------------------------------------------------------------------
(* The steps of the sync thread.                                           *)
LEMMA SyncOthers ==
    ASSUME TypeOK, TypeOK', NEW p \in Paths,
           \/ SyncRecv /\ p # Head(queue)
           \/ /\ p # sync.path
              /\ \/ SyncReadBase \/ SyncReadLocal \/ SyncSendPatch
                 \/ SyncSaveBase \/ SyncCheck \/ SyncClear \/ SyncSendClean
    PROVE  Untouched(p)
  <1> USE DEF diskVars, lockVars, fuseVars, wireVars, serverVars, histVars
  <1>1. /\ UNCHANGED <<local, ignores, fuse, handles, lsn, fuseSig, inval,
                       backing, srvDirty, srv, patcher, latest>>
        /\ p \in dirty' <=> p \in dirty
      BY DEF SyncRecv, SyncReadBase, SyncReadLocal, SyncSendPatch,
         SyncSaveBase, SyncCheck, SyncClear, SyncSendClean
  <1>2. base'[p] = base[p]
      BY DEF SyncRecv, SyncReadBase, SyncReadLocal, SyncSendPatch,
         SyncSaveBase, SyncCheck, SyncClear, SyncSendClean, TypeOK
  <1>3. SameFiles(p)
      BY <1>1 DEF SameFiles
  <1>4. ~WorksOn(sync, p) /\ ~WorksOn(sync, p)'
    <2>1. CASE SyncRecv /\ p # Head(queue)
        BY <2>1 DEF SyncRecv, WorksOn
    <2>2. CASE ~(SyncRecv /\ p # Head(queue))
      <3>1. sync \in SyncBusy
          BY <2>2, BusyTypes DEF SyncReadBase, SyncReadLocal, SyncSendPatch,
             SyncSaveBase, SyncCheck, SyncClear, SyncSendClean
      <3>2. sync' = Idle \/ sync'.path = sync.path
          BY <2>2, <3>1 DEF SyncReadBase, SyncReadLocal, SyncSendPatch,
             SyncSaveBase, SyncCheck, SyncClear, SyncSendClean, SyncGoto,
             SyncBusy
      <3> QED
          BY <2>2, <3>1, <3>2 DEF WorksOn
    <2> QED
        BY <2>1, <2>2
  <1>5. SameThreads(p)
      BY <1>1, <1>4 DEF SameThreads, WorksOn
  <1>6. SameWires(p)
    <2>1. CASE SyncRecv /\ p # Head(queue)
      <3>1. UNCHANGED syncSig /\ queue # <<>> /\ queue' = Tail(queue)
          BY <2>1 DEF SyncRecv
      <3> QED
          BY <1>1, <1>3, <1>5, <2>1, <3>1, QueueReceive, LocksKept, InvalKept,
             SyncKept DEF SameFiles, SameThreads, SameWires
    <2>2. CASE SyncSendPatch \/ SyncSendClean
      <3>1. /\ sync \in SyncBusy
            /\ p # sync.path /\ UNCHANGED queue
          BY <2>2, BusyTypes DEF SyncSendPatch, SyncSendClean, SyncRecv
      <3>2. PICK m \in PatchMsg \cup CleanMsg :
                 syncSig' = Append(syncSig, m) /\ m.path = sync.path
          BY <2>2, <3>1 DEF SyncSendPatch, SyncSendClean, PatchMsg, CleanMsg,
             SyncBusy
      <3>3. /\ PatchSent(p)' <=> PatchSent(p)
            /\ CleanSent(p)' <=> CleanSent(p)
            /\ PatchesFit(p) => PatchesFit(p)'
          BY <1>1, <3>1, <3>2, SyncSend
      <3> QED
          BY <1>1, <3>1, <3>3, QueueKept, LocksKept, InvalKept DEF SameWires
    <2>3. CASE SyncReadBase \/ SyncReadLocal \/ SyncSaveBase \/ SyncCheck
                 \/ SyncClear
      <3>1. UNCHANGED <<queue, wireVars>>
          BY <2>3 DEF SyncReadBase, SyncReadLocal, SyncSaveBase, SyncCheck,
             SyncClear
      <3> QED
          BY <1>3, <1>5, <3>1, WiresKept
    <2> QED
        BY <2>1, <2>2, <2>3
  <1> QED
      BY <1>1, <1>2, <1>3, <1>5, <1>6 DEF Untouched

(* The sync thread keeps the invariant of the path it works on or takes.   *)
LEMMA SyncOwn ==
    ASSUME TypeOK, TypeOK', TakesTurns, Staged, NEW p \in Paths, TurnOK(p),
           \/ SyncRecv /\ p = Head(queue)
           \/ /\ p = sync.path
              /\ \/ SyncReadBase \/ SyncReadLocal \/ SyncSendPatch
                 \/ SyncSaveBase \/ SyncCheck \/ SyncClear \/ SyncSendClean
    PROVE  TurnOK(p)'
  <1> USE DEF diskVars, lockVars, fuseVars, wireVars, serverVars, histVars
  <1>1. UNCHANGED <<local, ignores, fuse, handles, lsn, fuseSig, inval,
                    backing, srvDirty, srv, patcher, latest>>
      BY DEF SyncRecv, SyncReadBase, SyncReadLocal, SyncSendPatch,
         SyncSaveBase, SyncCheck, SyncClear, SyncSendClean
  <1>2. /\ WorksOn(fuse, p)' <=> WorksOn(fuse, p)
        /\ WorksOn(lsn, p)' <=> WorksOn(lsn, p)
        /\ WorksOn(srv, p)' <=> WorksOn(srv, p)
        /\ WorksOn(patcher, p)' <=> WorksOn(patcher, p)
        /\ LockSent(p)' <=> LockSent(p)
        /\ Mentions(inval, p)' <=> Mentions(inval, p)
        /\ OneInInval(p)' <=> OneInInval(p)
      BY <1>1, LocksKept, InvalKept DEF WorksOn
  <1>3. Uploading(p)
    <2>1. CASE SyncRecv /\ p = Head(queue)
        BY <2>1, QueueReceive DEF SyncRecv, Uploading
    <2>2. CASE ~SyncRecv
        BY <2>2 DEF SyncReadBase, SyncReadLocal, SyncSendPatch,
           SyncSaveBase, SyncCheck, SyncClear, SyncSendClean, WorksOn, Uploading
    <2> QED
        BY <2>1, <2>2 DEF SyncReadBase, SyncReadLocal, SyncSendPatch,
           SyncSaveBase, SyncCheck, SyncClear, SyncSendClean, SyncRecv
  <1>4. /\ ~Announcing(p) /\ p \notin ignores /\ ~Naming(p)
        /\ ~Doing("open", p) /\ ~Doing("write", p) /\ ~Stale(p)
        /\ backing[p] # NoFile
        /\ "truncate" \notin Env => handles[p] = 0 /\ ~Doing("release", p)
    <2>1. /\ ~Announcing(p) /\ p \notin ignores /\ ~Naming(p)
          /\ ~Doing("open", p) /\ ~Doing("write", p)
          /\ backing[p] # NoFile
          /\ "truncate" \notin Env => handles[p] = 0 /\ ~Doing("release", p)
        BY <1>3 DEF TurnOK, Excluded, Ignored, ServerHolds, DirtyUntilSent
    <2>2. ~Stale(p)
      <3>1. WorksOn(fuse, p) => fuse.pc # "createLocal"
        <4>1. fuse \in {Idle} \cup FuseBusy
            BY DEF TypeOK
        <4> QED
            BY <2>1, <4>1 DEF Naming, Doing, Staged, PcsOf, FuseBusy, FuseOps,
               WorksOn
      <3> QED
          BY <2>1, <3>1 DEF Stale, Announcing
    <2> QED
        BY <2>1, <2>2
  <1>5. Changed(p) => local[p] = latest[p] /\ latest[p] # NoFile
      BY DEF TurnOK, ClientHolds
  <1> USE DEF TurnOK, Excluded, OneAnnouncement, Named, Ignored, ServerHolds,
      ClientHolds, DeltasFit, DirtyUntilSent,
      Doing, Naming, Uploading, Announced, Announcing, Purging, Hearing,
      Taking, Changed, Stale, Coming, InFlight
  <1>11. CASE SyncRecv /\ p = Head(queue)
    <2>1. /\ UNCHANGED <<base, dirty, syncSig>> /\ ~WorksOn(sync, p)
          /\ sync'.pc = "base" /\ WorksOn(sync, p)'
          /\ queue # <<>> /\ queue' = Tail(queue)
        BY <1>11, WorkingNext DEF SyncRecv, WorksOn
    <2>2. /\ Queued(p)
          /\ OneInQueue(p) => OneInQueue(p)' /\ ~Queued(p)'
        BY <1>11, <2>1, QueueReceive
    <2>3. /\ PatchSent(p)' <=> PatchSent(p)
          /\ CleanSent(p)' <=> CleanSent(p)
          /\ PatchesFit(p)'
        BY <1>1, <1>2, <2>1, SyncKept
    <2> QED
        BY <1>1, <1>2, <1>4, <1>5, <2>1, <2>2, <2>3
  <1>12. ASSUME ~SyncRecv
         PROVE  sync \in SyncBusy /\ WorksOn(sync, p) /\ p = sync.path
      BY <1>12, BusyTypes DEF SyncReadBase, SyncReadLocal, SyncSendPatch,
         SyncSaveBase, SyncCheck, SyncClear, SyncSendClean, WorksOn
  <1>13. ASSUME UNCHANGED <<queue, syncSig>>
         PROVE  /\ Queued(p)' <=> Queued(p)
                /\ OneInQueue(p)' <=> OneInQueue(p)
                /\ PatchSent(p)' <=> PatchSent(p)
                /\ CleanSent(p)' <=> CleanSent(p)
                /\ PatchesFit(p)'
      BY <1>1, <1>2, <1>13, QueueKept, SyncKept
  <1>14. CASE SyncReadBase /\ p = sync.path
    <2>1. /\ UNCHANGED <<base, dirty, queue, syncSig>> /\ WorksOn(sync, p)
          /\ sync.pc = "base" /\ sync \in SyncBusy
        BY <1>14, BusyTypes DEF SyncReadBase, WorksOn
    <2>2. /\ sync'.pc = "local" /\ sync'.path = p /\ WorksOn(sync, p)'
          /\ sync'.old = Bytes(base[p])
        BY <1>14, <2>1, WorkingNext DEF SyncReadBase, SyncBusy
    <2>3. sync'.old \in {Empty, Coming(p)}
        BY <1>4, <2>1, <2>2 DEF Bytes
    <2> QED
        BY <1>1, <1>2, <1>4, <1>5, <1>13, <2>1, <2>2, <2>3
  <1>15. CASE SyncReadLocal /\ p = sync.path
    <2>1. /\ UNCHANGED <<base, dirty, queue, syncSig>> /\ WorksOn(sync, p)
          /\ sync.pc = "local" /\ sync \in SyncBusy
        BY <1>15, BusyTypes DEF SyncReadLocal, WorksOn
    <2>2. /\ sync'.pc = "send" /\ sync'.path = p /\ WorksOn(sync, p)'
          /\ sync'.old = sync.old /\ sync'.new = Bytes(local[p])
        BY <1>15, <2>1, WorkingNext DEF SyncReadLocal, SyncBusy
    <2>3. sync'.new = latest[p]
        BY <1>5, <2>1, <2>2 DEF Bytes
    <2> QED
        BY <1>1, <1>2, <1>4, <1>5, <1>13, <2>1, <2>2, <2>3
  <1>16. CASE SyncSendPatch /\ p = sync.path
    <2> DEFINE m == [type |-> "PATCH", path |-> p,
                     from |-> sync.old, to |-> sync.new]
    <2>1. /\ UNCHANGED <<base, dirty, queue>> /\ WorksOn(sync, p)
          /\ sync.pc = "send" /\ sync \in SyncBusy /\ syncSig' = Append(syncSig, m)
        BY <1>16, BusyTypes DEF SyncSendPatch, WorksOn
    <2>2. /\ sync'.pc = "saveBase" /\ sync'.path = p /\ WorksOn(sync, p)'
          /\ sync'.new = sync.new
        BY <1>16, <2>1, WorkingNext DEF SyncSendPatch, SyncBusy
    <2>3. m \in PatchMsg \cup CleanMsg
        BY <2>1 DEF PatchMsg, SyncBusy
    <2>4. sync.new = latest[p] /\ sync.old \in {Empty, Coming(p)}
        BY <2>1
    <2> HIDE DEF m
    <2>5. m.type = "PATCH" /\ m.path = p /\ m.from = sync.old /\ m.to = sync.new
        BY DEF m
    <2>6. PatchesFit(p)
        OBVIOUS
    <2>7. /\ PatchSent(p)' /\ PatchesFit(p)'
          /\ CleanSent(p)' <=> CleanSent(p)
        BY ONLY TypeOK, <1>1, <2>1, <2>3, <2>4, <2>5, <2>6, SyncSend
    <2>8. /\ Queued(p)' <=> Queued(p)
          /\ OneInQueue(p)' <=> OneInQueue(p)
        BY <2>1, QueueKept
    <2> QED
        BY <1>1, <1>2, <1>4, <1>5, <2>1, <2>2, <2>4, <2>7, <2>8
  <1>17. CASE SyncSaveBase /\ p = sync.path
    <2>1. /\ UNCHANGED <<dirty, queue, syncSig>> /\ WorksOn(sync, p)
          /\ sync.pc = "saveBase" /\ sync \in SyncBusy
          /\ base'[p] = sync.new
        BY <1>17, BusyTypes DEF SyncSaveBase, WorksOn, TypeOK
    <2>2. /\ sync'.pc = "check" /\ sync'.path = p /\ WorksOn(sync, p)'
        BY <1>17, <2>1, WorkingNext DEF SyncSaveBase, SyncBusy
    <2> QED
        BY <1>1, <1>2, <1>4, <1>5, <1>13, <2>1, <2>2
  <1>18. CASE SyncCheck /\ p = sync.path
    <2>1. /\ UNCHANGED <<base, dirty, queue, syncSig>> /\ WorksOn(sync, p)
          /\ sync.pc = "check" /\ sync \in SyncBusy
        BY <1>18, BusyTypes DEF SyncCheck, WorksOn
    <2>2. CASE sync' = Idle
      <3>1. ~WorksOn(sync, p)'
          BY <2>2 DEF WorksOn
      <3> QED
          BY <1>1, <1>2, <1>4, <1>5, <1>13, <2>1, <3>1
    <2>3. CASE SyncGoto("clear")
      <3>1. /\ sync'.pc = "clear" /\ sync'.path = p /\ WorksOn(sync, p)'
          BY <1>18, <2>1, <2>3, WorkingNext DEF SyncGoto, SyncBusy
      <3> QED
          BY <1>1, <1>2, <1>4, <1>5, <1>13, <2>1, <3>1
    <2> QED
        BY <1>18, <2>2, <2>3 DEF SyncCheck
  <1>19. CASE SyncClear /\ p = sync.path
    <2>1. /\ UNCHANGED <<base, queue, syncSig>> /\ WorksOn(sync, p)
          /\ sync.pc = "clear" /\ sync \in SyncBusy /\ p \notin dirty'
        BY <1>19, BusyTypes DEF SyncClear, WorksOn
    <2>2. /\ sync'.pc = "clean" /\ sync'.path = p /\ WorksOn(sync, p)'
        BY <1>19, <2>1, WorkingNext DEF SyncClear, SyncGoto, SyncBusy
    <2> QED
        BY <1>1, <1>2, <1>4, <1>5, <1>13, <2>1, <2>2
  <1>20. CASE SyncSendClean /\ p = sync.path
    <2> DEFINE m == [type |-> "CLEAN", path |-> p]
    <2>1. /\ UNCHANGED <<base, dirty, queue>> /\ WorksOn(sync, p)
          /\ sync.pc = "clean" /\ sync \in SyncBusy /\ syncSig' = Append(syncSig, m)
          /\ ~WorksOn(sync, p)'
        BY <1>20, BusyTypes DEF SyncSendClean, WorksOn
    <2>2. m \in PatchMsg \cup CleanMsg
        BY DEF CleanMsg
    <2> HIDE DEF m
    <2>3. m.type = "CLEAN" /\ m.path = p
        BY DEF m
    <2>4. PatchesFit(p)
        OBVIOUS
    <2>5. /\ PatchSent(p)' <=> PatchSent(p)
          /\ PatchesFit(p)' /\ CleanSent(p)'
        BY ONLY TypeOK, <1>1, <2>1, <2>2, <2>3, <2>4, SyncSend
    <2>6. /\ Queued(p)' <=> Queued(p)
          /\ OneInQueue(p)' <=> OneInQueue(p)
        BY <2>1, QueueKept
    <2> QED
        BY <1>1, <1>2, <1>4, <1>5, <2>1, <2>5, <2>6
  <1> QED
      BY <1>11, <1>14, <1>15, <1>16, <1>17, <1>18, <1>19, <1>20

-----------------------------------------------------------------------------
(* The steps of the invalidation listener.                                 *)
LEMMA ListenerOthers ==
    ASSUME TypeOK, TypeOK', NEW p \in Paths,
           \/ InvalRecv /\ p # Head(inval).path
           \/ (InvalIgnore \/ InvalPurge \/ InvalPurgeBase) /\ p # lsn.path
    PROVE  Untouched(p)
  <1> USE DEF diskVars, lockVars, fuseVars, wireVars, serverVars, histVars
  <1>1. /\ UNCHANGED <<dirty, fuse, handles, sync, queue, fuseSig, syncSig,
                       backing, srvDirty, srv, patcher, latest>>
        /\ p \in ignores' <=> p \in ignores
      BY DEF InvalRecv, InvalIgnore, InvalPurge, InvalPurgeBase
  <1>2. local'[p] = local[p] /\ base'[p] = base[p]
      BY DEF InvalRecv, InvalIgnore, InvalPurge, InvalPurgeBase, TypeOK
  <1>3. SameFiles(p)
      BY <1>1 DEF SameFiles
  <1>4. ~WorksOn(lsn, p) /\ ~WorksOn(lsn, p)'
    <2>1. CASE InvalRecv /\ p # Head(inval).path
        BY <2>1 DEF InvalRecv, WorksOn
    <2>2. CASE ~(InvalRecv /\ p # Head(inval).path)
      <3>1. lsn \in ListenerBusy
          BY <2>2, BusyTypes DEF InvalIgnore, InvalPurge, InvalPurgeBase
      <3>2. lsn' = Idle \/ lsn'.path = lsn.path
          BY <2>2, <3>1 DEF InvalIgnore, InvalPurge, InvalPurgeBase, ListenerBusy
      <3> QED
          BY <2>2, <3>1, <3>2 DEF WorksOn
    <2> QED
        BY <2>1, <2>2
  <1>5. SameThreads(p)
      BY <1>1, <1>4 DEF SameThreads, WorksOn
  <1>6. SameWires(p)
    <2>1. CASE InvalRecv /\ p # Head(inval).path
      <3>1. inval # <<>> /\ inval' = Tail(inval)
          BY <2>1 DEF InvalRecv
      <3> QED
          BY <1>1, <1>3, <1>5, <2>1, <3>1, QueueKept, LocksKept, InvalReceive,
             SyncKept DEF SameFiles, SameThreads, SameWires
    <2>2. CASE ~(InvalRecv /\ p # Head(inval).path)
      <3>1. UNCHANGED <<queue, wireVars>>
          BY <2>2 DEF InvalIgnore, InvalPurge, InvalPurgeBase
      <3> QED
          BY <1>3, <1>5, <3>1, WiresKept
    <2> QED
        BY <2>1, <2>2
  <1> QED
      BY <1>2, <1>3, <1>5, <1>6 DEF Untouched

(* The listener keeps the invariant of the path it works on or hears of.   *)
LEMMA ListenerOwn ==
    ASSUME TypeOK, TypeOK', TakesTurns, NEW p \in Paths, TurnOK(p),
           \/ InvalRecv /\ p = Head(inval).path
           \/ (InvalIgnore \/ InvalPurge \/ InvalPurgeBase) /\ p = lsn.path
    PROVE  TurnOK(p)'
  <1> USE DEF diskVars, lockVars, fuseVars, wireVars, serverVars, histVars
  <1>1. UNCHANGED <<dirty, fuse, handles, sync, queue, fuseSig, syncSig,
                    backing, srvDirty, srv, patcher, latest>>
      BY DEF InvalRecv, InvalIgnore, InvalPurge, InvalPurgeBase
  <1>2. /\ WorksOn(fuse, p)' <=> WorksOn(fuse, p)
        /\ WorksOn(sync, p)' <=> WorksOn(sync, p)
        /\ WorksOn(srv, p)' <=> WorksOn(srv, p)
        /\ WorksOn(patcher, p)' <=> WorksOn(patcher, p)
        /\ Queued(p)' <=> Queued(p)
        /\ LockSent(p)' <=> LockSent(p)
        /\ PatchSent(p)' <=> PatchSent(p)
        /\ CleanSent(p)' <=> CleanSent(p)
        /\ OneInQueue(p)' <=> OneInQueue(p)
        /\ PatchesFit(p)
      BY <1>1, QueueKept, LocksKept, SyncKept DEF WorksOn, TurnOK, DeltasFit
  <1>3. PatchesFit(p)'
      BY <1>1, <1>2, SyncKept
  <1>4. Announcing(p)
    <2>1. CASE InvalRecv /\ p = Head(inval).path
        BY <2>1, InvalReceive DEF InvalRecv, Announcing, Announced
    <2>2. CASE ~(InvalRecv /\ p = Head(inval).path)
        BY <2>2 DEF InvalIgnore, InvalPurge, InvalPurgeBase, WorksOn,
           Announcing, Announced, Hearing, Purging
    <2> QED
        BY <2>1, <2>2
  <1>5. /\ p \notin dirty /\ ~LockSent(p) /\ ~Uploading(p) /\ p \notin srvDirty
        /\ WorksOn(fuse, p) => Naming(p)
      BY <1>4 DEF TurnOK, Excluded
  <1> USE DEF TurnOK, Excluded, OneAnnouncement, Named, Ignored, ServerHolds,
      ClientHolds, DeltasFit, DirtyUntilSent,
      Doing, Naming, Uploading, Announced, Announcing, Purging, Hearing,
      Taking, Changed, Stale, Coming, InFlight
  <1>6. ~Changed(p) /\ ~Changed(p)'
      BY <1>1, <1>2, <1>5
  <1>7. ASSUME UNCHANGED inval
        PROVE  /\ Mentions(inval, p)' <=> Mentions(inval, p)
               /\ OneInInval(p)'
      BY <1>7, InvalKept
  <1>11. CASE InvalRecv /\ p = Head(inval).path
    <2>1. /\ UNCHANGED <<local, base, ignores>> /\ lsn = Idle
          /\ inval # <<>> /\ inval' = Tail(inval)
          /\ lsn'.pc = "ignore" /\ ~lsn'.wasDirty /\ WorksOn(lsn, p)'
        BY <1>5, <1>11, WorkingNext DEF InvalRecv
    <2>2. Mentions(inval, p) /\ ~Mentions(inval, p)' /\ OneInInval(p)'
        BY <1>11, <2>1, InvalReceive
    <2>3. ~WorksOn(srv, p) /\ ~WorksOn(lsn, p)
        BY <2>1, <2>2 DEF WorksOn
    <2> QED
        BY <1>1, <1>2, <1>3, <1>5, <1>6, <2>1, <2>2, <2>3
  <1>12. CASE InvalIgnore /\ p = lsn.path
    <2>1. /\ UNCHANGED <<local, base, inval>> /\ lsn.pc = "ignore"
          /\ lsn \in ListenerBusy /\ WorksOn(lsn, p)
        BY <1>12, BusyTypes DEF InvalIgnore, WorksOn
    <2>2. ~lsn.wasDirty /\ ~Mentions(inval, p) /\ ~WorksOn(srv, p)
        BY <2>1
    <2>3. CASE p \in ignores
      <3>1. ~WorksOn(lsn, p)' /\ p \notin ignores'
          BY <1>12, <2>3 DEF InvalIgnore, WorksOn
      <3> QED
          BY <1>1, <1>2, <1>3, <1>5, <1>6, <1>7, <2>1, <2>2, <2>3, <3>1
    <2>4. CASE p \notin ignores
      <3>1. lsn' = [lsn EXCEPT !.pc = "purge"] /\ p \notin ignores'
          BY <1>12, <2>2, <2>4 DEF InvalIgnore
      <3>2. lsn'.pc = "purge" /\ ~lsn'.wasDirty /\ WorksOn(lsn, p)'
          BY <1>12, <2>1, <2>2, <3>1, WorkingNext DEF ListenerBusy
      <3> QED
          BY <1>1, <1>2, <1>3, <1>5, <1>6, <1>7, <2>1, <2>2, <2>4, <3>1, <3>2
    <2> QED
        BY <2>3, <2>4
  <1>13. CASE InvalPurge /\ p = lsn.path
    <2>1. /\ UNCHANGED <<base, inval, ignores>> /\ lsn.pc = "purge"
          /\ lsn \in ListenerBusy /\ WorksOn(lsn, p) /\ local'[p] = NoFile
        BY <1>13, BusyTypes DEF InvalPurge, WorksOn, TypeOK
    <2>2. /\ lsn'.pc = "purgeBase" /\ lsn'.wasDirty = lsn.wasDirty
          /\ WorksOn(lsn, p)'
        BY <1>13, <2>1, WorkingNext DEF InvalPurge, ListenerBusy
    <2>3. handles[p] = 0 /\ ~WorksOn(fuse, p)
        BY <2>1
    <2> QED
        BY <1>1, <1>2, <1>3, <1>5, <1>6, <1>7, <2>1, <2>2, <2>3
  <1>14. CASE InvalPurgeBase /\ p = lsn.path
    <2>1. /\ UNCHANGED <<local, inval, ignores>> /\ lsn.pc = "purgeBase"
          /\ WorksOn(lsn, p) /\ base'[p] = NoFile /\ ~WorksOn(lsn, p)'
        BY <1>14 DEF InvalPurgeBase, WorksOn, TypeOK
    <2>2. local[p] = NoFile /\ ~WorksOn(srv, p) /\ ~Mentions(inval, p)
        BY <2>1
    <2>3. handles[p] = 0 /\ ~WorksOn(fuse, p)
        BY <2>1
    <2> QED
        BY <1>1, <1>2, <1>3, <1>5, <1>6, <1>7, <2>1, <2>2, <2>3
  <1> QED
      BY <1>11, <1>12, <1>13, <1>14

-----------------------------------------------------------------------------
(* The steps of the server's signal threads.                               *)
LEMMA SignalOthers ==
    ASSUME TypeOK, TypeOK', NEW p \in Paths,
           \/ HandleDirty /\ p # Head(fuseSig)
           \/ (HandleClean \/ PatchRead) /\ p # Head(syncSig).path
           \/ PatchWrite /\ p # patcher.path
    PROVE  Untouched(p)
  <1> USE DEF diskVars, lockVars, fuseVars, threadVars, wireVars, histVars
  <1>1. /\ UNCHANGED <<local, base, dirty, ignores, fuse, handles, sync, lsn,
                       queue, inval, srv, latest>>
        /\ p \in srvDirty' <=> p \in srvDirty
      BY DEF HandleDirty, HandleClean, PatchRead, PatchWrite
  <1>2. backing'[p] = backing[p]
      BY DEF HandleDirty, HandleClean, PatchRead, PatchWrite, TypeOK
  <1>3. SameFiles(p)
      BY <1>1, <1>2 DEF SameFiles
  <1>4. /\ WorksOn(patcher, p)' <=> WorksOn(patcher, p)
        /\ WorksOn(patcher, p) => UNCHANGED patcher
      BY DEF HandleDirty, HandleClean, PatchRead, PatchWrite, WorksOn
  <1>5. SameThreads(p)
      BY <1>1, <1>4 DEF SameThreads, WorksOn
  <1>6. SameWires(p)
    <2>1. CASE HandleDirty /\ p # Head(fuseSig)
      <3>1. fuseSig # <<>> /\ fuseSig' = Tail(fuseSig) /\ UNCHANGED syncSig
          BY <2>1 DEF HandleDirty
      <3> QED
          BY <1>1, <1>3, <1>4, <2>1, <3>1, QueueKept, LockReceive, InvalKept,
             SyncKept DEF SameFiles, SameWires
    <2>2. CASE (HandleClean \/ PatchRead) /\ p # Head(syncSig).path
      <3>1. /\ syncSig # <<>> /\ syncSig' = Tail(syncSig) /\ UNCHANGED fuseSig
            /\ patcher = Idle /\ UNCHANGED backing
          BY <2>2 DEF HandleClean, PatchRead
      <3>2. ~WorksOn(patcher, p)'
          BY <1>4, <3>1 DEF WorksOn
      <3>3. /\ PatchSent(p)' <=> PatchSent(p)
            /\ CleanSent(p)' <=> CleanSent(p)
            /\ PatchesFit(p) => PatchesFit(p)'
          BY <1>1, <2>2, <3>1, <3>2, SyncReceive
      <3> QED
          BY <1>1, <3>1, <3>3, QueueKept, LocksKept, InvalKept DEF SameWires
    <2>3. CASE PatchWrite
      <3>1. UNCHANGED <<queue, wireVars>>
          BY <2>3 DEF PatchWrite
      <3> QED
          BY <1>3, <1>5, <3>1, WiresKept
    <2> QED
        BY <2>1, <2>2, <2>3
  <1> QED
      BY <1>1, <1>3, <1>5, <1>6 DEF Untouched

(* A PATCH gives the server's file the content it was computed to give.    *)
LEMMA PatchArrives ==
    ASSUME TypeOK, NEW p \in Paths, TurnOK(p), PatchWrite, p = patcher.path
    PROVE  backing' = [backing EXCEPT ![p] = latest[p]] /\ WorksOn(patcher, p)
  <1>1. WorksOn(patcher, p)
      BY DEF PatchWrite, WorksOn
  <1>2. /\ patcher.to = latest[p] /\ patcher.from \in {Empty, patcher.old}
        /\ patcher.old # Torn
      BY <1>1 DEF TurnOK, DeltasFit
  <1>3. Applied(patcher.old, patcher.from, patcher.to, backing[p]) = {latest[p]}
      BY <1>2 DEF Applied
  <1> QED
      BY <1>1, <1>3 DEF PatchWrite

(* The signal threads keep the invariant of the path they are told of.     *)
LEMMA SignalOwn ==
    ASSUME TypeOK, TypeOK', TakesTurns, Staged, NEW p \in Paths, TurnOK(p),
           \/ HandleDirty /\ p = Head(fuseSig)
           \/ (HandleClean \/ PatchRead) /\ p = Head(syncSig).path
           \/ PatchWrite /\ p = patcher.path
    PROVE  TurnOK(p)'
  <1> USE DEF diskVars, lockVars, fuseVars, threadVars, wireVars, histVars
  <1>1. UNCHANGED <<local, base, dirty, ignores, fuse, handles, sync, lsn,
                    queue, inval, srv, latest>>
      BY DEF HandleDirty, HandleClean, PatchRead, PatchWrite
  <1>2. /\ WorksOn(fuse, p)' <=> WorksOn(fuse, p)
        /\ WorksOn(sync, p)' <=> WorksOn(sync, p)
        /\ WorksOn(lsn, p)' <=> WorksOn(lsn, p)
        /\ WorksOn(srv, p)' <=> WorksOn(srv, p)
        /\ Queued(p)' <=> Queued(p)
        /\ OneInQueue(p)' <=> OneInQueue(p)
        /\ Mentions(inval, p)' <=> Mentions(inval, p)
        /\ OneInInval(p)' <=> OneInInval(p)
        /\ PatchesFit(p)
      BY <1>1, QueueKept, InvalKept DEF WorksOn, TurnOK, DeltasFit
  <1>11. CASE HandleDirty /\ p = Head(fuseSig)
    <2>1. /\ fuseSig # <<>> /\ fuseSig' = Tail(fuseSig) /\ p \in srvDirty'
          /\ UNCHANGED <<syncSig, backing, patcher>>
        BY <1>11 DEF HandleDirty
    <2>2. LockSent(p)
        BY <1>11, <2>1, LockReceive
    <2>3. /\ ~Announcing(p) /\ ~Naming(p) /\ ~Doing("open", p) /\ p \notin ignores
        BY <2>2 DEF TurnOK, Excluded, Ignored
    <2>4. /\ WorksOn(patcher, p)' <=> WorksOn(patcher, p)
          /\ PatchSent(p)' <=> PatchSent(p)
          /\ CleanSent(p)' <=> CleanSent(p)
          /\ PatchesFit(p)'
        BY <1>1, <1>2, <2>1, SyncKept DEF WorksOn
    <2>5. WorksOn(fuse, p) => fuse.pc \notin {"createLocal", "createStat"}
      <3>1. fuse \in {Idle} \cup FuseBusy
          BY DEF TypeOK
      <3> QED
          BY <2>3, <3>1 DEF Naming, Doing, Staged, PcsOf, FuseBusy, FuseOps,
             WorksOn
    <2> QED
        BY <1>1, <1>2, <2>1, <2>3, <2>4, <2>5
        DEF TurnOK, Excluded, OneAnnouncement, Named, Ignored, ServerHolds,
            ClientHolds, DeltasFit, DirtyUntilSent,
            Doing, Naming, Uploading, Announced, Announcing, Purging, Hearing,
            Taking, Changed, Stale, Coming, InFlight
  <1>12. CASE HandleClean /\ p = Head(syncSig).path
    <2>1. /\ syncSig # <<>> /\ syncSig' = Tail(syncSig) /\ p \notin srvDirty'
          /\ Head(syncSig).type = "CLEAN" /\ patcher = Idle
          /\ UNCHANGED <<fuseSig, backing, patcher>>
        BY <1>12 DEF HandleClean
    <2>2. WorksOn(patcher, p)' <=> WorksOn(patcher, p)
        BY <2>1 DEF WorksOn
    <2>3. /\ PatchSent(p)' <=> PatchSent(p)
          /\ CleanSent(p)
          /\ PatchesFit(p)'
        BY <1>1, <1>2, <1>12, <2>1, <2>2, SyncReceive DEF WorksOn
    <2>4. LockSent(p)' <=> LockSent(p)
        BY <2>1, LocksKept
    <2>5. /\ ~Announcing(p) /\ ~Naming(p) /\ ~Doing("open", p) /\ p \notin ignores
        BY <2>3 DEF TurnOK, Excluded, Ignored, Uploading
    <2> QED
        BY <1>1, <1>2, <2>1, <2>2, <2>3, <2>4, <2>5
        DEF TurnOK, Excluded, OneAnnouncement, Named, Ignored, ServerHolds,
            ClientHolds, DeltasFit, DirtyUntilSent,
            Doing, Naming, Uploading, Announced, Announcing, Purging, Hearing,
            Taking, Changed, Stale, Coming, InFlight
  <1>13. CASE PatchRead /\ p = Head(syncSig).path
    <2>1. /\ syncSig # <<>> /\ syncSig' = Tail(syncSig)
          /\ Head(syncSig).type = "PATCH" /\ patcher = Idle
          /\ UNCHANGED <<fuseSig, backing, srvDirty>>
          /\ patcher'.pc = "write" /\ patcher'.path = p
          /\ patcher'.old = Bytes(backing[p])
          /\ patcher'.from = Head(syncSig).from /\ patcher'.to = Head(syncSig).to
        BY <1>13 DEF PatchRead
    <2>2. WorksOn(patcher, p)' /\ ~WorksOn(patcher, p)
        BY <2>1, WorkingNext DEF WorksOn
    <2>3. /\ PatchSent(p) /\ PatchesFit(p)'
          /\ CleanSent(p)' <=> CleanSent(p)
          /\ Head(syncSig).to = latest[p]
          /\ Head(syncSig).from \in {Empty, backing[p]}
        BY <1>1, <1>2, <1>13, <2>1, <2>2, SyncReceive
    <2>4. LockSent(p)' <=> LockSent(p)
        BY <2>1, LocksKept
    <2>5. /\ ~Announcing(p) /\ ~Naming(p) /\ ~Doing("open", p) /\ p \notin ignores
          /\ backing[p] # NoFile /\ backing[p] # Torn
        BY <2>3 DEF TurnOK, Excluded, Ignored, ServerHolds, Uploading
    <2>6. patcher'.old = backing[p]
        BY <2>1, <2>5 DEF Bytes
    <2> QED
        BY <1>1, <1>2, <2>1, <2>2, <2>3, <2>4, <2>5, <2>6
        DEF TurnOK, Excluded, OneAnnouncement, Named, Ignored, ServerHolds,
            ClientHolds, DeltasFit, DirtyUntilSent,
            Doing, Naming, Uploading, Announced, Announcing, Purging, Hearing,
            Taking, Changed, Stale, Coming, InFlight
  <1>14. CASE PatchWrite /\ p = patcher.path
    <2>1. /\ UNCHANGED <<fuseSig, syncSig, srvDirty>> /\ ~WorksOn(patcher, p)'
          /\ WorksOn(patcher, p)
        BY <1>14, PatchArrives DEF PatchWrite, WorksOn
    <2>2. backing'[p] = latest[p]
        BY <1>14, PatchArrives DEF TypeOK
    <2>3. /\ PatchSent(p)' <=> PatchSent(p)
          /\ CleanSent(p)' <=> CleanSent(p)
        BY <2>1, SyncKept
    <2>4. PatchesFit(p)'
      <3> SUFFICES ASSUME NEW i \in DOMAIN syncSig, IsPatch(i, p)
                   PROVE  /\ syncSig[i].to = latest[p]
                          /\ syncSig[i].from \in {Empty, latest[p]}
          BY <1>1, <2>1, <2>2 DEF PatchesFit, IsPatch
      <3>1. Earlier(i, p)
          BY <2>1 DEF Earlier
      <3> QED
          BY <1>2, <3>1 DEF PatchesFit
    <2>5. LockSent(p)' <=> LockSent(p)
        BY <2>1, LocksKept
    <2>6. /\ ~Announcing(p) /\ ~Naming(p) /\ ~Doing("open", p) /\ p \notin ignores
          /\ backing[p] # NoFile
        BY <2>1 DEF TurnOK, Excluded, Ignored, ServerHolds, Uploading
    <2>7. latest[p] # NoFile
      <3>1. patcher.to \in Content /\ patcher.to = latest[p]
          BY <1>14, <2>1, BusyTypes DEF PatchWrite, PatcherBusy, TurnOK, DeltasFit
      <3> QED
          BY <3>1 DEF Content, NoFile, Torn
    <2> QED
        BY <1>1, <1>2, <2>1, <2>2, <2>3, <2>4, <2>5, <2>6, <2>7
        DEF TurnOK, Excluded, OneAnnouncement, Named, Ignored, ServerHolds,
            ClientHolds, DeltasFit, DirtyUntilSent,
            Doing, Naming, Uploading, Announced, Announcing, Purging, Hearing,
            Taking, Changed, Stale, Coming, InFlight
  <1> QED
      BY <1>11, <1>12, <1>13, <1>14

-----------------------------------------------------------------------------
(* The requests of the server's users, and the steps of its FUSE loop.     *)
LEMMA ServerOthers ==
    ASSUME TypeOK, TypeOK', NEW p \in Paths,
           \/ \E q \in Paths : RemoteBegin(q) /\ p # q
           \/ SrvApply /\ p # srv.path /\ TurnOK(srv.path)
           \/ SrvInvalidate /\ p # srv.path
    PROVE  Untouched(p)
  <1> USE DEF diskVars, lockVars, fuseVars, threadVars, wireVars, histVars
  <1>1. UNCHANGED <<local, base, dirty, ignores, handles, sync, lsn, queue,
                    fuseSig, syncSig, srvDirty, patcher>>
      BY DEF RemoteBegin, SrvApply, SrvInvalidate
  <1>2. backing'[p] = backing[p] /\ latest'[p] = latest[p]
      BY DEF RemoteBegin, SrvApply, SrvInvalidate, TypeOK
  <1>3. SameFiles(p)
      BY <1>1, <1>2 DEF SameFiles
  <1>4. /\ ~WorksOn(srv, p) /\ ~WorksOn(srv, p)'
        /\ WorksOn(fuse, p)' <=> WorksOn(fuse, p)
        /\ WorksOn(fuse, p) => UNCHANGED fuse
    <2>1. CASE \E q \in Paths : RemoteBegin(q) /\ p # q
        BY <2>1 DEF RemoteBegin, WorksOn
    <2>2. CASE SrvApply /\ p # srv.path /\ TurnOK(srv.path)
      <3>1. srv \in ServerBusy /\ srv'.path = srv.path
          BY <2>2, BusyTypes DEF SrvApply, ServerBusy
      <3>2. CASE srv.own
        <4>1. WorksOn(fuse, srv.path)
            BY <2>2, <3>1, <3>2 DEF SrvApply, TurnOK, Named, WorksOn
        <4>2. fuse \in FuseBusy
            BY <4>1 DEF WorksOn, TypeOK
        <4>3. fuse' = Idle \/ fuse'.path = fuse.path
            BY <2>2, <4>2 DEF SrvApply, FuseBusy
        <4> QED
            BY <2>2, <3>1, <4>1, <4>3 DEF WorksOn
      <3>3. CASE ~srv.own
          BY <2>2, <3>1, <3>3 DEF SrvApply, WorksOn
      <3> QED
          BY <3>2, <3>3
    <2>3. CASE SrvInvalidate /\ p # srv.path
        BY <2>3 DEF SrvInvalidate, WorksOn
    <2> QED
        BY <2>1, <2>2, <2>3
  <1>5. SameThreads(p)
      BY <1>1, <1>4 DEF SameThreads, WorksOn
  <1>6. SameWires(p)
    <2>1. CASE SrvInvalidate /\ srv.path \notin srvDirty /\ p # srv.path
      <3>1. srv.path \in Paths
          BY <2>1, BusyTypes DEF SrvInvalidate, ServerBusy
      <3>2. inval' = Append(inval, [path |-> srv.path])
          BY <2>1 DEF SrvInvalidate
      <3> QED
          BY <1>1, <1>3, <1>5, <2>1, <3>1, <3>2, QueueKept, LocksKept, InvalSend,
             SyncKept DEF SameFiles, SameThreads, SameWires
    <2>2. CASE ~(SrvInvalidate /\ srv.path \notin srvDirty /\ p # srv.path)
      <3>1. UNCHANGED inval
          BY <2>2 DEF SrvInvalidate, SrvApply, RemoteBegin
      <3> QED
          BY <1>1, <1>3, <1>5, <3>1, WiresKept
    <2> QED
        BY <2>1, <2>2
  <1> QED
      BY <1>1, <1>3, <1>5, <1>6 DEF Untouched

(* A save made at the server is made over a file that has arrived.         *)
LEMMA ServerSavesOver ==
    ASSUME TypeOK, NEW p \in Paths, TurnOK(p), SrvApply, p = srv.path
    PROVE  /\ backing[p] = latest[p] /\ srv.new \in {NoFile} \cup 0..MaxId
           /\ ~Changed(p) /\ ~InFlight(p)
  <1>1. WorksOn(srv, p) /\ srv.pc = "apply"
      BY DEF SrvApply, WorksOn
  <1>2. /\ p \notin dirty /\ ~Uploading(p)
        /\ WorksOn(fuse, p) => Naming(p)
      BY <1>1 DEF TurnOK, Excluded, Announcing, Announced
  <1>3. ~Changed(p) /\ ~InFlight(p)
      BY <1>2 DEF Changed, InFlight, Uploading, Taking, Naming, Doing
  <1> QED
      BY <1>1, <1>3 DEF TurnOK, ServerHolds

(* The server keeps the invariant of the path that it changes.             *)
LEMMA ServerOwn ==
    ASSUME TypeOK, TypeOK', TakesTurns, Staged, NEW p \in Paths, TurnOK(p),
           \/ RemoteBegin(p)
           \/ (SrvApply \/ SrvInvalidate) /\ p = srv.path
    PROVE  TurnOK(p)'
  <1> USE DEF diskVars, lockVars, fuseVars, threadVars, wireVars, histVars
  <1>1. UNCHANGED <<local, base, dirty, ignores, handles, sync, lsn, queue,
                    fuseSig, syncSig, srvDirty, patcher>>
      BY DEF RemoteBegin, SrvApply, SrvInvalidate
  <1>2. /\ p \notin dirty /\ ~LockSent(p) /\ ~Uploading(p) /\ p \notin srvDirty
        /\ WorksOn(fuse, p) => Naming(p)
    <2>1. CASE RemoteBegin(p)
      <3>1. Settled(p) /\ p \notin dirty /\ p \notin srvDirty
          BY <2>1 DEF RemoteBegin, RemoteMayAct, TakesTurns
      <3> QED
          BY <3>1 DEF Settled, LockSent, PatchSent, CleanSent, IsPatch, Mentions,
             Uploading
    <2>2. CASE (SrvApply \/ SrvInvalidate) /\ p = srv.path
      <3>1. Announcing(p)
          BY <2>2 DEF SrvApply, SrvInvalidate, WorksOn, Announcing, Announced
      <3> QED
          BY <3>1 DEF TurnOK, Excluded
    <2> QED
        BY <2>1, <2>2
  <1>3. /\ WorksOn(sync, p)' <=> WorksOn(sync, p)
        /\ WorksOn(lsn, p)' <=> WorksOn(lsn, p)
        /\ WorksOn(patcher, p)' <=> WorksOn(patcher, p)
        /\ ~Queued(p)' /\ ~LockSent(p)' /\ ~PatchSent(p)' /\ ~CleanSent(p)'
        /\ OneInQueue(p)' <=> OneInQueue(p)
        /\ PatchesFit(p)'
      BY <1>1, <1>2, QueueKept, LocksKept, SyncKept DEF WorksOn, Uploading
  <1>4. ASSUME UNCHANGED inval
        PROVE  /\ Mentions(inval, p)' <=> Mentions(inval, p)
               /\ OneInInval(p)'
      BY <1>4, InvalKept DEF TurnOK, OneAnnouncement
  <1> USE DEF TurnOK, Excluded, OneAnnouncement, Named, Ignored, ServerHolds,
      ClientHolds, DeltasFit, DirtyUntilSent,
      Doing, Naming, Uploading, Announced, Announcing, Purging, Hearing,
      Taking, Changed, Stale, Coming, InFlight
  <1>11. CASE RemoteBegin(p)
    <2>1. /\ UNCHANGED <<inval, fuse, backing, latest>> /\ handles[p] = 0
          /\ srv'.pc = "apply" /\ srv'.path = p /\ ~srv'.own
          /\ srv'.new \in {Empty, nextId, NoFile}
        BY <1>11 DEF RemoteBegin, RemoteMayAct, TakesTurns
    <2>2. /\ ~WorksOn(fuse, p) /\ ~WorksOn(fuse, p)' /\ ~WorksOn(lsn, p)
          /\ ~Mentions(inval, p) /\ ~WorksOn(srv, p) /\ WorksOn(srv, p)'
      <3>1. Settled(p) /\ srv' # Idle
          BY <1>11, <2>1 DEF RemoteBegin, RemoteMayAct, TakesTurns
      <3> QED
          BY <2>1, <3>1 DEF Settled, WorksOn
    <2>3. srv'.new \in {NoFile} \cup 0..MaxId
        BY <1>11, <2>1, BoundAssumption DEF RemoteBegin, TypeOK, Empty
    <2>4. p \notin ignores
        BY <1>2, <2>2
    <2> QED
        BY <1>1, <1>2, <1>3, <1>4, <2>1, <2>2, <2>3, <2>4
  <1>12. CASE SrvApply /\ p = srv.path
    <2>1. /\ UNCHANGED inval /\ srv.pc = "apply" /\ WorksOn(srv, p)
          /\ srv \in ServerBusy
          /\ backing'[p] = srv.new /\ latest'[p] = srv.new
        BY <1>12, BusyTypes DEF SrvApply, WorksOn, TypeOK
    <2>2. /\ srv'.pc = "invalidate" /\ WorksOn(srv, p)' /\ srv'.new = srv.new
        BY <1>12, <2>1, WorkingNext DEF SrvApply, ServerBusy
    <2>3. srv.new \in {NoFile} \cup 0..MaxId /\ srv.new # Torn /\ handles[p] = 0
        BY <1>12, <2>1, ServerSavesOver, BoundAssumption DEF NoFile, Torn
    <2>4. CASE srv.own
      <3>1. /\ WorksOn(fuse, p) /\ fuse.pc = "await" /\ srv.new = fuse.data
            /\ Naming(p) /\ p \in ignores
          BY <1>2, <2>1, <2>4
      <3>2. CASE fuse.op = "create"
        <4>1. /\ fuse \in FuseBusy /\ fuse' = [fuse EXCEPT !.pc = "createLocal"]
              /\ srv.new = Empty
            BY <1>12, <2>4, <3>1, <3>2, BusyTypes DEF SrvApply
        <4>2. /\ fuse'.pc = "createLocal" /\ fuse'.op = "create"
              /\ fuse'.data = Empty /\ WorksOn(fuse, p)'
            BY <3>1, <3>2, <4>1, WorkingNext DEF FuseBusy, WorksOn
        <4> QED
            BY <1>1, <1>2, <1>3, <1>4, <2>1, <2>2, <2>3, <3>1, <3>2, <4>1, <4>2
      <3>3. CASE fuse.op # "create"
        <4>1. ~WorksOn(fuse, p)' /\ srv.new = NoFile
            BY <1>12, <2>4, <3>1, <3>3 DEF SrvApply, WorksOn
        <4> QED
            BY <1>1, <1>2, <1>3, <1>4, <2>1, <2>2, <2>3, <3>1, <3>3, <4>1
      <3> QED
          BY <3>2, <3>3
    <2>5. CASE ~srv.own
      <3>1. UNCHANGED fuse /\ ~WorksOn(fuse, p) /\ ~WorksOn(fuse, p)'
            /\ p \notin ignores
          BY <1>12, <2>1, <2>5 DEF SrvApply, WorksOn
      <3> QED
          BY <1>1, <1>2, <1>3, <1>4, <2>1, <2>2, <2>3, <3>1
    <2> QED
        BY <2>4, <2>5
  <1>13. CASE SrvInvalidate /\ p = srv.path
    <2>1. /\ UNCHANGED <<fuse, backing, latest>> /\ srv.pc = "invalidate"
          /\ WorksOn(srv, p) /\ ~WorksOn(srv, p)'
          /\ inval' = Append(inval, [path |-> p])
        BY <1>2, <1>13 DEF SrvInvalidate, WorksOn
    <2>2. Mentions(inval, p)' /\ OneInInval(p)'
        BY <2>1, InvalSend
    <2>3. WorksOn(fuse, p)' <=> WorksOn(fuse, p)
        BY <2>1 DEF WorksOn
    <2>4. ~WorksOn(lsn, p)
        BY <2>1
    <2>5. ~(WorksOn(fuse, p) /\ fuse.pc \in {"request", "await"})
      <3>1. CASE WorksOn(fuse, p) /\ fuse.pc = "request"
          BY <1>2, <2>1, <3>1
      <3>2. CASE WorksOn(fuse, p) /\ fuse.pc = "await"
          BY <2>1, <3>2
      <3> QED
          BY <3>1, <3>2
    <2> QED
        BY <1>1, <1>2, <1>3, <2>1, <2>2, <2>3, <2>4, <2>5
  <1> QED
      BY <1>11, <1>12, <1>13

-----------------------------------------------------------------------------
(* The place of the FUSE loop belongs to its operation, whatever the users *)
(* do.                                                                     *)
LEMMA StagedStep ==
    ASSUME TypeOK, Awaited, Staged, [Next]_vars
    PROVE  Staged'
  <1> USE DEF threadVars, fuseVars, serverVars, PcsOf, Staged
  <1>1. CASE UserRequest
    <2>1. fuse' = fuse
            \/ \E operation, to, p, d : Start(operation, to, p, d)
                  /\ <<operation, to>> \in
                        {<<"open", "openCheck">>, <<"write", "mark">>,
                         <<"release", "enqueue">>, <<"setattr", "enqueue">>,
                         <<"create", "request">>, <<"unlink", "request">>}
        BY <1>1 DEF UserRequest, OpenLookup, WriteData, Release, Setattr,
           CreateIgnore, UnlinkLocal
    <2>2. ASSUME NEW operation, NEW to, NEW p, NEW d,
                 Start(operation, to, p, d),
                 <<operation, to>> \in
                        {<<"open", "openCheck">>, <<"write", "mark">>,
                         <<"release", "enqueue">>, <<"setattr", "enqueue">>,
                         <<"create", "request">>, <<"unlink", "request">>}
          PROVE  Staged'
      <3>1. fuse'.op = operation /\ fuse'.pc = to
          BY <2>2 DEF Start
      <3> QED
          BY <2>2, <3>1
    <2> QED
        BY <2>1, <2>2
  <1>2. CASE FuseStep
    <2>1. fuse \in FuseBusy
        BY <1>2, BusyTypes DEF FuseStep, OpenCheck, OpenStat, OpenDownload,
           OpenFetch, MarkDirty, SendDirty, WriteBump, Enqueue, SftpRequest,
           CreateLocal, CreateStat
    <2>2. fuse.op \in FuseOps /\ fuse.pc \in PcsOf(fuse.op)
        BY <2>1 DEF FuseBusy, FusePcs
    <2>3. ASSUME NEW to, Goto(to) PROVE fuse'.op = fuse.op /\ fuse'.pc = to
        BY <2>1, <2>3 DEF Goto, FuseBusy
    <2>4. ASSUME fuse' = Idle PROVE Staged'
        BY <2>4
    <2>5. CASE OpenCheck \/ OpenStat
        BY <2>2, <2>3, <2>4, <2>5 DEF OpenCheck, OpenStat, Opened, Reply, FuseOps
    <2>6. CASE OpenDownload
      <3>1. CASE fuse' = [fuse EXCEPT !.pc = "openFetch",
                                      !.data = backing[fuse.path]]
        <4>1. fuse'.op = fuse.op /\ fuse'.pc = "openFetch"
            BY <2>1, <3>1 DEF FuseBusy
        <4> QED
            BY <2>2, <2>6, <4>1 DEF OpenDownload, FuseOps
      <3> QED
          BY <2>4, <2>6, <3>1 DEF OpenDownload, Reply
    <2>7. CASE OpenFetch \/ WriteBump \/ CreateStat
        BY <2>4, <2>7 DEF OpenFetch, WriteBump, CreateStat, Opened, Reply
    <2>8. CASE MarkDirty \/ SendDirty \/ Enqueue
        BY <2>2, <2>3, <2>4, <2>8 DEF MarkDirty, SendDirty, Enqueue, AfterMark,
           Reply, FuseOps
    <2>9. CASE SftpRequest \/ CreateLocal
      <3>1. fuse.op \in {"create", "unlink"}
          BY <2>2, <2>9 DEF SftpRequest, CreateLocal, FuseOps
      <3>2. CASE SftpRequest
          BY <2>3, <2>4, <3>1, <3>2 DEF SftpRequest, Reply
      <3>3. CASE CreateLocal
        <4>1. fuse.op = "create"
            BY <2>2, <3>1, <3>3 DEF CreateLocal
        <4> QED
            BY <2>3, <3>3, <4>1 DEF CreateLocal
      <3> QED
          BY <2>9, <3>2, <3>3
    <2> QED
        BY <1>2, <2>5, <2>6, <2>7, <2>8, <2>9 DEF FuseStep
  <1>3. CASE SrvApply
    <2>1. CASE srv.own
      <3>1. fuse \in FuseBusy /\ fuse.pc = "await"
          BY <1>3, <2>1, BusyTypes DEF Awaited, SrvApply
      <3>2. CASE fuse.op = "create"
        <4>1. fuse'.op = "create" /\ fuse'.pc = "createLocal"
            BY <1>3, <2>1, <3>1, <3>2 DEF SrvApply, FuseBusy
        <4> QED
            BY <4>1
      <3>3. CASE fuse.op # "create"
          BY <1>3, <2>1, <3>3 DEF SrvApply
      <3> QED
          BY <3>2, <3>3
    <2>2. CASE ~srv.own
        BY <1>3, <2>2 DEF SrvApply
    <2> QED
        BY <2>1, <2>2
  <1>4. CASE SyncStep \/ ListenerStep \/ SignalStep \/ RemoteRequest
               \/ SrvInvalidate \/ UNCHANGED vars
    <2>1. UNCHANGED fuse
        BY <1>4 DEF SyncStep, SyncRecv, SyncReadBase, SyncReadLocal,
           SyncSendPatch, SyncSaveBase, SyncCheck, SyncClear, SyncSendClean,
           ListenerStep, ListenerReads, Resubscribe,
           InvalRecv, InvalIgnore, InvalPurge, InvalPurgeBase,
           SignalStep, HandleDirty, HandleClean, PatchRead, PatchWrite,
           RemoteRequest, RemoteBegin, RemoteSetattr, SrvInvalidate, vars
    <2> QED
        BY <2>1
  <1> QED
      BY <1>1, <1>2, <1>3, <1>4 DEF Next, ServerStep

(* At first nothing is going on, and every file is where it was saved.     *)
LEMMA InitTurn == Init => TurnInv
  <1> SUFFICES ASSUME Init PROVE TurnInv
      OBVIOUS
  <1>1. Staged
      BY DEF Init, Staged
  <1>2. ASSUME NEW p \in Paths PROVE TurnOK(p)
    <2>1. /\ queue = <<>> /\ fuseSig = <<>> /\ syncSig = <<>> /\ inval = <<>>
          /\ fuse = Idle /\ sync = Idle /\ lsn = Idle /\ srv = Idle
          /\ patcher = Idle /\ dirty = {} /\ ignores = {} /\ handles[p] = 0
          /\ local[p] = NoFile /\ base[p] = NoFile
          /\ latest[p] = backing[p] /\ backing[p] \in {NoFile, 1}
        BY DEF Init
    <2>2. /\ ~Queued(p) /\ ~LockSent(p) /\ ~PatchSent(p) /\ ~CleanSent(p)
          /\ ~Mentions(inval, p) /\ OneInQueue(p) /\ OneInInval(p)
          /\ PatchesFit(p)
        BY <2>1 DEF Queued, LockSent, PatchSent, CleanSent, Mentions,
           OneInQueue, OneInInval, PatchesFit
    <2>3. /\ ~WorksOn(fuse, p) /\ ~WorksOn(sync, p) /\ ~WorksOn(lsn, p)
          /\ ~WorksOn(srv, p) /\ ~WorksOn(patcher, p)
        BY <2>1 DEF WorksOn
    <2>4. /\ latest[p] \in {NoFile} \cup 0..MaxId
          /\ latest[p] # Torn
        BY <2>1, BoundAssumption DEF NoFile, Torn
    <2> QED
        BY <2>1, <2>2, <2>3, <2>4
        DEF TurnOK, Excluded, OneAnnouncement, Named, Ignored, ServerHolds,
            ClientHolds, DeltasFit, DirtyUntilSent,
            Doing, Naming, Uploading, Announced, Announcing, Purging, Hearing,
            Taking, Changed, Stale, Coming, InFlight
  <1> QED
      BY <1>1, <1>2 DEF TurnInv

(* Every step either has no part in a path or keeps its invariant.         *)
LEMMA TurnStep ==
    ASSUME TypeOK, TypeOK', Awaited, TakesTurns, DirtyHasOwner, TurnInv,
           [Next]_vars
    PROVE  TurnInv'
  <1>1. Staged /\ \A p \in Paths : TurnOK(p)
      BY DEF TurnInv
  <1>2. Staged'
      BY <1>1, StagedStep
  <1> SUFFICES ASSUME NEW p \in Paths PROVE TurnOK(p)'
      BY <1>2 DEF TurnInv
  <1>3. ASSUME Untouched(p) PROVE TurnOK(p)'
      BY <1>1, <1>3, UntouchedKeeps
  <1>4. CASE UserRequest
      BY <1>1, <1>3, <1>4, RequestOthers, RequestOwn DEF UserRequest
  <1>5. CASE FuseStep
    <2>1. CASE p = fuse.path
        BY <1>1, <1>5, <2>1, OpenSteps, ChangeSteps, NameSteps DEF FuseStep
    <2>2. CASE p # fuse.path
        BY <1>3, <1>5, <2>2, FuseStepOthers
    <2> QED
        BY <2>1, <2>2
  <1>6. CASE SyncStep
      BY <1>1, <1>3, <1>6, SyncOthers, SyncOwn DEF SyncStep
  <1>7. CASE ListenerStep
      BY <1>1, <1>3, <1>7, ListenerOthers, ListenerOwn
      DEF ListenerStep, ListenerReads, Resubscribe, TakesTurns
  <1>8. CASE SignalStep
      BY <1>1, <1>3, <1>8, SignalOthers, SignalOwn DEF SignalStep
  <1>9. CASE RemoteRequest
      BY <1>1, <1>3, <1>9, ServerOthers, ServerOwn
      DEF RemoteRequest, RemoteSetattr, TakesTurns
  <1>10. CASE ServerStep
    <2>1. srv.path \in Paths
        BY <1>10, BusyTypes DEF ServerStep, SrvApply, SrvInvalidate, ServerBusy
    <2> QED
        BY <1>1, <1>3, <1>10, <2>1, ServerOthers, ServerOwn DEF ServerStep
  <1>11. CASE UNCHANGED vars
    <2> USE DEF vars, diskVars, lockVars, fuseVars, threadVars, wireVars,
                serverVars, histVars
    <2>1. SameFiles(p) /\ SameThreads(p)
        BY <1>11 DEF SameFiles, SameThreads, WorksOn
    <2> QED
        BY <1>3, <1>11, <2>1, WiresKept DEF Untouched
  <1> QED
      BY <1>4, <1>5, <1>6, <1>7, <1>8, <1>9, <1>10, <1>11 DEF Next

(* While users take turns, TurnInv holds: for every set of paths and any   *)
(* bounds.                                                                 *)
THEOREM TurnsKept ==
    ASSUME TakesTurns
    PROVE  Spec => []TurnInv
  <1>1. "pathTruncate" \notin Env
      BY DEF TakesTurns
  <1>2. TypeOK /\ TypeOK' /\ Awaited /\ DirtyHasOwner /\ TurnInv /\ [Next]_vars
          => TurnInv'
      BY TurnStep
  <1>3. Spec => []DirtyHasOwner
      BY <1>1, DirtyNeverOrphaned
  <1> QED
      BY <1>2, <1>3, InitTurn, TypeInvariant, PTL DEF Spec

-----------------------------------------------------------------------------
(* A path that has settled with all handles closed: nothing has changed it *)
(* that the server does not hold, and nothing is about to purge it.        *)
LEMMA SettledQuiet ==
    ASSUME DirtyHasOwner, NEW p \in Paths, TurnOK(p), Settled(p),
           handles[p] = 0
    PROVE  /\ backing[p] = latest[p]
           /\ backing[p] # NoFile => /\ local[p] \in {NoFile, backing[p]}
                                     /\ base[p] \in {NoFile, backing[p]}
  <1>1. /\ ~WorksOn(fuse, p) /\ ~WorksOn(sync, p) /\ ~WorksOn(lsn, p)
        /\ ~WorksOn(srv, p) /\ ~WorksOn(patcher, p) /\ ~Queued(p)
        /\ ~PatchSent(p) /\ ~Mentions(inval, p)
      BY DEF Settled, PatchSent, IsPatch, Mentions
  <1>2. p \notin dirty
      BY <1>1 DEF DirtyHasOwner
  <1>3. ~Changed(p) /\ ~InFlight(p) /\ ~Stale(p) /\ ~Doing("open", p)
      BY <1>1, <1>2 DEF Changed, Taking, Doing, InFlight, Stale, Purging,
         Announced, Hearing
  <1>4. backing[p] = latest[p]
      BY <1>3 DEF TurnOK, ServerHolds
  <1> QED
      BY <1>1, <1>3, <1>4 DEF TurnOK, ClientHolds, Coming

(* While users take turns, no save is lost: whenever nothing about a path  *)
(* is in transit and nobody has it open at the client, the server holds    *)
(* what was last saved, and no delta was applied to other bytes than it    *)
(* was computed from.                                                      *)
THEOREM NoUpdateIsLost ==
    ASSUME TakesTurns
    PROVE  Spec => []NoLostUpdate
  <1>1. DirtyHasOwner /\ TurnInv => NoLostUpdate
      BY SettledQuiet DEF TurnInv, NoLostUpdate
  <1>2. Spec => []DirtyHasOwner
      BY DirtyNeverOrphaned DEF TakesTurns
  <1> QED
      BY <1>1, <1>2, TurnsKept, PTL

(* At such a point the client's copy and the base of the next delta, if    *)
(* they exist, are the server's bytes.                                     *)
THEOREM CachesStayCoherent ==
    ASSUME TakesTurns
    PROVE  Spec => []CacheCoherent
  <1>1. DirtyHasOwner /\ TurnInv => CacheCoherent
      BY SettledQuiet DEF TurnInv, CacheCoherent
  <1>2. Spec => []DirtyHasOwner
      BY DirtyNeverOrphaned DEF TakesTurns
  <1> QED
      BY <1>1, <1>2, TurnsKept, PTL

-----------------------------------------------------------------------------
(* The lock of a changed file is held or on its way, if nobody truncates.  *)
LEMMA LockStep ==
    ASSUME TypeOK, TypeOK', Awaited, TakesTurns, "truncate" \notin Env,
           TurnInv, LockInv, [Next]_vars
    PROVE  LockInv'
  <1> USE DEF diskVars, lockVars, fuseVars, threadVars, wireVars, serverVars,
              histVars
  <1> SUFFICES ASSUME NEW p \in Paths PROVE LockFollows(p)'
      BY DEF LockInv
  <1>1. TurnOK(p) /\ Staged /\ LockFollows(p)
      BY DEF TurnInv, LockInv
  <1>2. ASSUME Untouched(p) PROVE LockFollows(p)'
      BY <1>1, <1>2 DEF LockFollows, Untouched, SameFiles, SameThreads,
         SameWires, Doing
  <1>3. ASSUME UNCHANGED <<dirty, srvDirty, fuseSig, syncSig, sync>>,
               fuse.pc = "signal" => UNCHANGED fuse
        PROVE  LockFollows(p)'
    <2>1. /\ LockSent(p)' <=> LockSent(p)
          /\ CleanSent(p)' <=> CleanSent(p)
        BY <1>3, LocksKept, SyncKept
    <2> QED
        BY <1>1, <1>3, <2>1 DEF LockFollows, Doing, WorksOn
  <1>4. CASE UserRequest
    <2>1. /\ UNCHANGED <<dirty, srvDirty, fuseSig, syncSig, sync>>
          /\ fuse = Idle
        BY <1>4 DEF UserRequest, OpenLookup, WriteData, Release, Setattr,
           CreateIgnore, UnlinkLocal
    <2> QED
        BY <1>3, <2>1
  <1>5. CASE FuseStep
    <2>1. CASE p # fuse.path
        BY <1>2, <1>5, <2>1, FuseStepOthers
    <2>2. CASE p = fuse.path /\ MarkDirty
      <3>1. fuse \in FuseBusy /\ WorksOn(fuse, p) /\ fuse.pc = "mark"
          BY <2>2, BusyTypes DEF MarkDirty, WorksOn
      <3>2. fuse.op = "write"
          BY <1>1, <3>1 DEF Staged, PcsOf, FuseBusy, FuseOps, TurnOK, Excluded,
             Doing
      <3>3. ~CleanSent(p) /\ ~WorksOn(sync, p)
          BY <1>1, <3>1, <3>2 DEF TurnOK, Excluded, Doing, Uploading
      <3>4. UNCHANGED <<srvDirty, fuseSig, syncSig, sync>>
          BY <2>2 DEF MarkDirty
      <3>5. /\ LockSent(p)' <=> LockSent(p)
            /\ ~CleanSent(p)' /\ ~WorksOn(sync, p)'
          BY <3>3, <3>4, LocksKept, SyncKept DEF WorksOn
      <3>6. CASE p \in dirty
          BY <1>1, <3>1, <3>4, <3>5, <3>6 DEF LockFollows
      <3>7. CASE p \notin dirty
        <4>1. fuse'.pc = "signal" /\ fuse'.op = "write" /\ fuse'.path = p
            BY <2>2, <3>1, <3>2, <3>7 DEF MarkDirty, Goto, FuseBusy
        <4> QED
            BY <3>5, <4>1, WorkingNext DEF LockFollows, Doing
      <3> QED
          BY <3>6, <3>7
    <2>3. CASE p = fuse.path /\ SendDirty
      <3>1. /\ UNCHANGED <<dirty, srvDirty, syncSig, sync>>
            /\ fuseSig' = Append(fuseSig, p)
          BY <2>3 DEF SendDirty
      <3>2. LockSent(p)' /\ (CleanSent(p)' <=> CleanSent(p))
          BY <3>1, LockSend, SyncKept
      <3> QED
          BY <1>1, <3>1, <3>2 DEF LockFollows, WorksOn
    <2>4. CASE ~MarkDirty /\ ~SendDirty
      <3>1. /\ UNCHANGED <<dirty, srvDirty, fuseSig, syncSig, sync>>
            /\ fuse.pc # "signal"
          BY <1>5, <2>4 DEF FuseStep, OpenCheck, OpenStat, OpenDownload,
             OpenFetch, WriteBump, Enqueue, SftpRequest, CreateLocal, CreateStat
      <3> QED
          BY <1>3, <3>1
    <2> QED
        BY <2>1, <2>2, <2>3, <2>4
  <1>6. CASE SyncStep
    <2>1. CASE SyncClear \/ SyncSendClean
      <3>1. CASE p # sync.path
          BY <1>2, <2>1, <3>1, SyncOthers
      <3>2. CASE SyncClear /\ p = sync.path
          BY <3>2 DEF SyncClear, LockFollows
      <3>3. CASE SyncSendClean /\ p = sync.path
        <4>1. /\ p \notin dirty'
              /\ UNCHANGED dirty
            BY <1>1, <3>3 DEF SyncSendClean, LockFollows, WorksOn
        <4> QED
            BY <4>1 DEF LockFollows
      <3> QED
          BY <2>1, <3>1, <3>2, <3>3
    <2>2. CASE SyncSendPatch
      <3>1. CASE p # sync.path
          BY <1>2, <2>2, <3>1, SyncOthers
      <3>2. CASE p = sync.path
        <4> DEFINE m == [type |-> "PATCH", path |-> p,
                         from |-> sync.old, to |-> sync.new]
        <4>1. /\ sync \in SyncBusy /\ syncSig' = Append(syncSig, m)
              /\ UNCHANGED <<dirty, srvDirty, fuse, fuseSig, latest, backing,
                             patcher>>
            BY <2>2, <3>2, BusyTypes DEF SyncSendPatch
        <4>2. m \in PatchMsg \cup CleanMsg /\ m.type = "PATCH"
            BY <4>1 DEF PatchMsg, SyncBusy
        <4> HIDE DEF m
        <4>3. CleanSent(p)' <=> CleanSent(p)
            BY <4>1, <4>2, SyncSend
        <4>4. sync'.pc = "saveBase"
            BY <2>2, <4>1 DEF SyncSendPatch, SyncBusy
        <4>5. LockSent(p)' <=> LockSent(p)
            BY <4>1, LocksKept
        <4> QED
            BY <1>1, <4>1, <4>3, <4>4, <4>5 DEF LockFollows, Doing, WorksOn
      <3> QED
          BY <3>1, <3>2
    <2>3. CASE SyncRecv \/ SyncReadBase \/ SyncReadLocal \/ SyncSaveBase
                 \/ SyncCheck
      <3>1. UNCHANGED <<dirty, srvDirty, fuse, fuseSig, syncSig>>
          BY <2>3 DEF SyncRecv, SyncReadBase, SyncReadLocal, SyncSaveBase,
             SyncCheck
      <3>2. sync'.pc # "clean"
        <4>1. CASE SyncRecv
            BY <4>1 DEF SyncRecv
        <4>2. CASE ~SyncRecv
          <5>1. sync \in SyncBusy
              BY <2>3, <4>2, BusyTypes DEF SyncReadBase, SyncReadLocal,
                 SyncSaveBase, SyncCheck
          <5>2. CASE SyncCheck
              BY <5>1, <5>2 DEF SyncCheck, SyncGoto, SyncBusy
          <5>3. CASE SyncReadBase \/ SyncReadLocal \/ SyncSaveBase
              BY <5>1, <5>3 DEF SyncReadBase, SyncReadLocal, SyncSaveBase,
                 SyncBusy
          <5> QED
              BY <2>3, <4>2, <5>2, <5>3
        <4> QED
            BY <4>1, <4>2
      <3>3. /\ LockSent(p)' <=> LockSent(p)
            /\ CleanSent(p)' <=> CleanSent(p)
          BY <3>1, LocksKept, SyncKept
      <3> QED
          BY <1>1, <3>1, <3>2, <3>3 DEF LockFollows, Doing, WorksOn
    <2> QED
        BY <1>6, <2>1, <2>2, <2>3 DEF SyncStep
  <1>7. CASE ListenerStep
    <2>1. UNCHANGED <<dirty, srvDirty, fuse, fuseSig, syncSig, sync>>
        BY <1>7 DEF ListenerStep, ListenerReads, InvalRecv, InvalIgnore,
           InvalPurge, InvalPurgeBase, Resubscribe
    <2> QED
        BY <1>3, <2>1
  <1>8. CASE SignalStep
    <2>1. CASE HandleDirty
      <3>1. /\ fuseSig # <<>> /\ fuseSig' = Tail(fuseSig)
            /\ UNCHANGED <<dirty, fuse, syncSig, sync>>
            /\ srvDirty' = srvDirty \cup {Head(fuseSig)}
          BY <2>1 DEF HandleDirty
      <3>2. /\ LockSent(p) => LockSent(p)' \/ p \in srvDirty'
            /\ CleanSent(p)' <=> CleanSent(p)
          BY <3>1, LockReceive, SyncKept
      <3> QED
          BY <1>1, <3>1, <3>2 DEF LockFollows, Doing, WorksOn
    <2>2. CASE HandleClean \/ PatchRead
      <3>1. CASE p # Head(syncSig).path
          BY <1>2, <2>2, <3>1, SignalOthers
      <3>2. CASE p = Head(syncSig).path
        <4>1. /\ syncSig # <<>> /\ syncSig' = Tail(syncSig)
              /\ UNCHANGED <<dirty, fuse, fuseSig, sync, latest, backing>>
              /\ patcher = Idle
            BY <2>2 DEF HandleClean, PatchRead
        <4>2. WorksOn(patcher, p)' <=> Head(syncSig).type = "PATCH"
          <5>1. CASE HandleClean
              BY <5>1 DEF HandleClean, WorksOn
          <5>2. CASE PatchRead
              BY <3>2, <5>2 DEF PatchRead, WorksOn
          <5> QED
              BY <2>2, <5>1, <5>2
        <4>3. CleanSent(p) <=> \/ CleanSent(p)'
                               \/ Head(syncSig).type = "CLEAN"
            BY <3>2, <4>1, <4>2, SyncReceive
        <4>4. LockSent(p)' <=> LockSent(p)
            BY <4>1, LocksKept
        <4>5. p \in srvDirty' \/ ~(p \in srvDirty) \/ CleanSent(p)
            BY <2>2, <4>3 DEF HandleClean, PatchRead
        <4> QED
            BY <1>1, <4>1, <4>3, <4>4, <4>5 DEF LockFollows, Doing, WorksOn
      <3> QED
          BY <3>1, <3>2
    <2>3. CASE PatchWrite
      <3>1. UNCHANGED <<dirty, srvDirty, fuse, fuseSig, syncSig, sync>>
          BY <2>3 DEF PatchWrite
      <3> QED
          BY <1>3, <3>1
    <2> QED
        BY <1>8, <2>1, <2>2, <2>3 DEF SignalStep
  <1>9. CASE RemoteRequest \/ ServerStep \/ UNCHANGED vars
    <2>1. UNCHANGED <<dirty, srvDirty, fuseSig, syncSig, sync>>
        BY <1>9 DEF RemoteRequest, RemoteBegin, RemoteSetattr, ServerStep,
           SrvApply, SrvInvalidate, vars
    <2>2. fuse.pc = "signal" => UNCHANGED fuse
        BY <1>9 DEF RemoteRequest, RemoteBegin, RemoteSetattr, ServerStep,
           SrvApply, SrvInvalidate, vars, Awaited
    <2> QED
        BY <1>3, <2>1, <2>2
  <1> QED
      BY <1>4, <1>5, <1>6, <1>7, <1>8, <1>9 DEF Next

(* While users take turns and nobody truncates, the lock of a file follows *)
(* its changes although DIRTY and CLEAN go by two connections: mark_dirty  *)
(* and the CLEAN of the sync thread.                                       *)
(* (A truncation enqueues the file before it marks it, and the sync thread *)
(* can release the lock in between.)                                       *)
THEOREM LocksFollow ==
    ASSUME TakesTurns, "truncate" \notin Env
    PROVE  Spec => []LockInv
  <1>1. Init => LockInv
      BY DEF Init, LockInv, LockFollows, CleanSent, WorksOn
  <1>2. TypeOK /\ TypeOK' /\ Awaited /\ TurnInv /\ LockInv /\ [Next]_vars
          => LockInv'
      BY LockStep
  <1> QED
      BY <1>1, <1>2, TurnsKept, TypeInvariant, PTL DEF Spec

(* Then a file with changes that the server lacks is locked there once     *)
(* nothing about it is in transit: no server-side user opens it.           *)
THEOREM DirtyFilesAreLocked ==
    ASSUME TakesTurns, "truncate" \notin Env
    PROVE  Spec => []NoUnlockedDirty
  <1>1. LockInv => NoUnlockedDirty
    <2> SUFFICES ASSUME LockInv, NEW p \in Paths, Settled(p), p \in dirty
                 PROVE  p \in srvDirty
        BY DEF NoUnlockedDirty
    <2>1. ~WorksOn(fuse, p) /\ ~LockSent(p)
        BY DEF Settled, LockSent
    <2> QED
        BY <2>1 DEF LockInv, LockFollows, Doing
  <1> QED
      BY <1>1, LocksFollow, PTL

-----------------------------------------------------------------------------
(* Every step of the client and its server saves, receives, or is not seen *)
(* by the users at all.                                                    *)
LEMMA SavedStep ==
    ASSUME TypeOK, TakesTurns, TurnInv, [Next]_vars
    PROVE  [Saved!Next]_(Saved!vars)
  <1> USE DEF diskVars, lockVars, fuseVars, threadVars, wireVars, serverVars,
              histVars
  <1> DEFINE Files == {NoFile} \cup 0..MaxId
  <1>0. Staged /\ \A p \in Paths : TurnOK(p)
      BY DEF TurnInv
  <1>1. ASSUME NEW p \in Paths, NEW c \in Files,
               latest' = [latest EXCEPT ![p] = c], UNCHANGED backing
        PROVE  Saved!Next
      BY <1>1 DEF Saved!Next, Saved!SaveAtClient
  <1>2. ASSUME UNCHANGED <<latest, backing>>
        PROVE  UNCHANGED Saved!vars
      BY <1>2 DEF Saved!vars
  <1>3. CASE UserRequest
    <2>1. PICK p \in Paths : \/ OpenLookup(p) \/ WriteData(p) \/ Release(p)
                             \/ Setattr(p) \/ CreateIgnore(p) \/ UnlinkLocal(p)
        BY <1>3 DEF UserRequest
    <2>2. CASE WriteData(p)
      <3>1. /\ latest' = [latest EXCEPT ![p] = nextId] /\ UNCHANGED backing
            /\ nextId \in Files
          BY <2>2, BoundAssumption DEF WriteData, TypeOK
      <3> QED
          BY <1>1, <3>1
    <2>3. CASE Setattr(p)
      <3>1. PICK c \in {Empty, nextId} : latest' = [latest EXCEPT ![p] = c]
          BY <2>3 DEF Setattr
      <3>2. c \in Files /\ UNCHANGED backing
          BY <2>3, BoundAssumption DEF Setattr, TypeOK, Empty
      <3> QED
          BY <1>1, <3>1, <3>2
    <2>4. CASE OpenLookup(p) \/ Release(p) \/ CreateIgnore(p) \/ UnlinkLocal(p)
        BY <1>2, <2>4 DEF OpenLookup, Release, CreateIgnore, UnlinkLocal
    <2> QED
        BY <2>1, <2>2, <2>3, <2>4
  <1>4. CASE FuseStep
    <2>1. CASE SftpRequest
      <3>1. fuse \in FuseBusy /\ WorksOn(fuse, fuse.path)
          BY <2>1, BusyTypes DEF SftpRequest, WorksOn
      <3>2. fuse.path \in Paths
          BY <3>1 DEF FuseBusy
      <3>3. fuse.op = "create" => \/ fuse.path \in srvDirty
                                  \/ backing[fuse.path] = NoFile
          BY <1>0, <2>1, <3>1, <3>2
          DEF SftpRequest, TurnOK, Named, Naming, Doing
      <3> QED
          BY <1>2, <2>1, <3>3 DEF SftpRequest
    <2>2. CASE ~SftpRequest
        BY <1>2, <1>4, <2>2 DEF FuseStep, OpenCheck, OpenStat, OpenDownload,
           OpenFetch, MarkDirty, SendDirty, WriteBump, Enqueue, CreateLocal,
           CreateStat
    <2> QED
        BY <2>1, <2>2
  <1>5. CASE SyncStep \/ ListenerStep
      BY <1>2, <1>5 DEF SyncStep, SyncRecv, SyncReadBase, SyncReadLocal,
         SyncSendPatch, SyncSaveBase, SyncCheck, SyncClear, SyncSendClean,
         ListenerStep, ListenerReads, InvalRecv, InvalIgnore, InvalPurge,
         InvalPurgeBase, Resubscribe
  <1>6. CASE SignalStep
    <2>1. CASE PatchWrite
      <3>1. patcher.path \in Paths
          BY <2>1, BusyTypes DEF PatchWrite, PatcherBusy
      <3>2. backing' = [backing EXCEPT ![patcher.path] = latest[patcher.path]]
          BY <1>0, <2>1, <3>1, PatchArrives
      <3>3. UNCHANGED latest
          BY <2>1 DEF PatchWrite
      <3> QED
          BY <3>1, <3>2, <3>3 DEF Saved!Next, Saved!Receive
    <2>2. CASE HandleDirty \/ HandleClean \/ PatchRead
        BY <1>2, <2>2 DEF HandleDirty, HandleClean, PatchRead
    <2> QED
        BY <1>6, <2>1, <2>2 DEF SignalStep
  <1>7. CASE RemoteRequest
      BY <1>2, <1>7 DEF RemoteRequest, RemoteBegin, RemoteSetattr, TakesTurns
  <1>8. CASE ServerStep
    <2>1. CASE SrvApply
      <3>1. srv.path \in Paths
          BY <2>1, BusyTypes DEF SrvApply, ServerBusy
      <3>2. /\ backing[srv.path] = latest[srv.path] /\ srv.new \in Files
          BY <1>0, <2>1, <3>1, ServerSavesOver
      <3>3. /\ backing' = [backing EXCEPT ![srv.path] = srv.new]
            /\ latest' = [latest EXCEPT ![srv.path] = srv.new]
          BY <2>1 DEF SrvApply
      <3> QED
          BY <3>1, <3>2, <3>3 DEF Saved!Next, Saved!SaveAtServer
    <2>2. CASE SrvInvalidate
        BY <1>2, <2>2 DEF SrvInvalidate
    <2> QED
        BY <1>8, <2>1, <2>2 DEF ServerStep
  <1>9. CASE UNCHANGED vars
      BY <1>2, <1>9 DEF vars
  <1> QED
      BY <1>3, <1>4, <1>5, <1>6, <1>7, <1>8, <1>9 DEF Next

(* While users take turns, the client and its server implement SavedFiles: *)
(* for every set of paths and any bounds.                                  *)
THEOREM SavedFilesImplemented ==
    ASSUME TakesTurns
    PROVE  Spec => ImplementsSavedFiles
  <1>1. Init => Saved!Init
    <2> SUFFICES ASSUME Init PROVE Saved!Init
        OBVIOUS
    <2>1. 1 \in 0..MaxId
        BY BoundAssumption
    <2> QED
        BY <2>1 DEF Init, Saved!Init
  <1>2. TypeOK /\ TurnInv /\ [Next]_vars => [Saved!Next]_(Saved!vars)
      BY SavedStep
  <1> QED
      BY <1>1, <1>2, TurnsKept, TypeCorrect, PTL
      DEF Spec, ImplementsSavedFiles, Saved!Spec
=============================================================================
