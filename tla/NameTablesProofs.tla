-------------------------- MODULE NameTablesProofs --------------------------
(***************************************************************************)
(* Theorems about NameTables, for any paths of any depth, any files and    *)
(* any number of inode numbers and handles: what a server-side user can do *)
(* to a file, whatever has been renamed meanwhile.                         *)
(***************************************************************************)
EXTENDS NameTables, SequenceTheorems, SetInduction

(* The invariant: the store is what its type says, and a file is at one    *)
(* path.  Without the second part, a write by one path could be seen at    *)
(* another that was never checked.                                         *)
StoreType ==
    /\ entry \in [Nodes -> {Absent, Dir} \cup Objects]
    /\ bytes \in [Objects -> 0..2]
OnePath ==
    \A p, q \in Nodes : entry[p] = entry[q] /\ entry[p] \in Objects => p = q
StoreInv == StoreType /\ OnePath

-----------------------------------------------------------------------------
(* Paths: a path continues each of its prefixes by what is cut off.        *)
LEMMA Continues ==
    ASSUME NEW q \in Seq(Names), NEW r \in Seq(Names), IsPrefix(q, r)
    PROVE  /\ SubSeq(r, Len(q) + 1, Len(r)) \in Seq(Names)
           /\ r = q \o SubSeq(r, Len(q) + 1, Len(r))
  <1> DEFINE k == Len(q)
             n == Len(r)
             tail == SubSeq(r, k + 1, n)
  <1>1. /\ k \in Nat /\ n \in Nat /\ k <= n
        /\ SubSeq(q, 1, k) = SubSeq(r, 1, k)
      BY LenProperties DEF IsPrefix
  <1>2. SubSeq(q, 1, k) = q
      BY SubSeqFull
  <1>3. SubSeq(r, 1, n) = r
      BY SubSeqFull
  <1>4. 1 \in 1 .. n + 1 /\ k \in 1 - 1 .. n /\ n \in k .. n
      BY <1>1
  <1>5. SubSeq(r, 1, k) \o tail = SubSeq(r, 1, n)
    <2> HIDE DEF k
    <2> QED
        BY <1>4, ConcatAdjacentSubSeq
  <1>6. tail \in Seq(Names)
    <2>1. \A i \in k + 1 .. n : r[i] \in Names
        BY <1>1, ElementOfSeq
    <2>2. k + 1 \in Int /\ n \in Int
        BY <1>1
    <2> HIDE DEF k, n
    <2> QED
        BY <2>1, <2>2, SubSeqProperties
  <1> QED
      BY <1>1, <1>2, <1>3, <1>5, <1>6

(* What is appended to a path has it as a prefix.                          *)
LEMMA Extends ==
    ASSUME NEW p \in Seq(Names), NEW s \in Seq(Names)
    PROVE  IsPrefix(p, p \o s)
  <1>1. /\ p \o s \in Seq(Names) /\ Len(p \o s) = Len(p) + Len(s)
        /\ Len(p) \in Nat /\ Len(s) \in Nat
        /\ \A i \in 1 .. Len(p) : (p \o s)[i] = p[i]
      BY ConcatProperties, LenProperties
  <1> DEFINE cut == SubSeq(p \o s, 1, Len(p))
             n == Len(p)
  <1>2. /\ cut \in Seq(Names) /\ Len(cut) = Len(p)
        /\ \A i \in 1 .. Len(p) : cut[i] = (p \o s)[i]
    <2>1. \A i \in 1 .. n : (p \o s)[i] \in Names
        BY <1>1, ElementOfSeq
    <2>2. n \in Nat
        BY <1>1
    <2>3. /\ SubSeq(p \o s, 1, n) \in Seq(Names)
          /\ Len(SubSeq(p \o s, 1, n)) = IF 1 <= n THEN n - 1 + 1 ELSE 0
          /\ \A i \in 1 .. n - 1 + 1 : SubSeq(p \o s, 1, n)[i] = (p \o s)[1 + i - 1]
      <3> DEFINE z == p \o s
      <3>1. 1 \in Int /\ n \in Int /\ \A i \in 1 .. n : z[i] \in Names
          BY <2>1, <2>2
      <3> HIDE DEF n, z
      <3>2. /\ SubSeq(z, 1, n) \in Seq(Names)
            /\ Len(SubSeq(z, 1, n)) = IF 1 <= n THEN n - 1 + 1 ELSE 0
            /\ \A i \in 1 .. n - 1 + 1 : SubSeq(z, 1, n)[i] = z[1 + i - 1]
          BY <3>1, SubSeqProperties
      <3> QED
          BY <3>2 DEF z
    <2> HIDE DEF n
    <2>4. /\ (IF 1 <= n THEN n - 1 + 1 ELSE 0) = n
          /\ n - 1 + 1 = n
          /\ \A i \in 1 .. n : 1 + i - 1 = i
        BY <2>2
    <2>5. \A i \in 1 .. n : SubSeq(p \o s, 1, n)[i] = (p \o s)[i]
        BY <2>2, <2>3, <2>4
    <2> QED
        BY <2>3, <2>4, <2>5 DEF n
  <1>3. cut = p
      BY <1>1, <1>2, SeqEqual
  <1> QED
      BY <1>1, <1>3, SubSeqFull DEF IsPrefix

-----------------------------------------------------------------------------
(* Renaming takes each file to one place: what it puts below the new name  *)
(* comes from below the old one, where nothing stays.                      *)
LEMMA MovedOnePath ==
    ASSUME StoreInv, NEW p \in Nodes, NEW q \in Nodes
    PROVE  /\ Moved(p, q) \in [Nodes -> {Absent, Dir} \cup Objects]
           /\ \A r, s \in Nodes :
                 /\ Moved(p, q)[r] = Moved(p, q)[s]
                 /\ Moved(p, q)[r] \in Objects
                 => r = s
  <1> DEFINE rest(r) == SubSeq(r, Len(q) + 1, Len(r))
             from(r) == p \o rest(r)
             m == Moved(p, q)
  <1>1. Nodes \subseteq Seq(Names)
      BY NodesAssumption
  <1>2. m \in [Nodes -> {Absent, Dir} \cup Objects]
      BY DEF Moved, StoreInv, StoreType
  <1>3. ASSUME NEW r \in Nodes, m[r] \in Objects, IsPrefix(q, r)
        PROVE  /\ from(r) \in Nodes /\ m[r] = entry[from(r)]
               /\ IsPrefix(p, from(r))
               /\ rest(r) \in Seq(Names) /\ r = q \o rest(r)
    <2>1. rest(r) \in Seq(Names) /\ r = q \o rest(r)
        BY <1>1, <1>3, Continues
    <2>2. from(r) \in Nodes /\ m[r] = entry[from(r)]
        BY <1>3, ObjectsAssumption DEF Moved
    <2>3. IsPrefix(p, from(r))
        BY <1>1, <2>1, Extends
    <2> QED
        BY <2>1, <2>2, <2>3
  <1>4. ASSUME NEW r \in Nodes, m[r] \in Objects, ~IsPrefix(q, r)
        PROVE  m[r] = entry[r] /\ ~IsPrefix(p, r)
      BY <1>4, ObjectsAssumption DEF Moved
  <1>5. ASSUME NEW r \in Nodes, NEW s \in Nodes, m[r] = m[s], m[r] \in Objects
        PROVE  r = s
    <2>1. CASE IsPrefix(q, r) /\ IsPrefix(q, s)
      <3>1. from(r) \in Nodes /\ from(s) \in Nodes /\ entry[from(r)] = entry[from(s)]
            /\ entry[from(r)] \in Objects
          BY <1>3, <1>5, <2>1
      <3>2. from(r) = from(s)
          BY <3>1 DEF StoreInv, OnePath
      <3>3. rest(r) \in Seq(Names) /\ rest(s) \in Seq(Names) /\ p \in Seq(Names)
            /\ r = q \o rest(r) /\ s = q \o rest(s)
          BY <1>1, <1>3, <1>5, <2>1
      <3>4. rest(r) = rest(s)
        <4> HIDE DEF rest
        <4> QED
            BY <3>2, <3>3, ConcatSimplifications
      <3> HIDE DEF rest
      <3> QED
          BY <3>3, <3>4
    <2>2. ASSUME NEW t \in Nodes, NEW u \in Nodes, m[t] = m[u], m[t] \in Objects,
                 IsPrefix(q, t), ~IsPrefix(q, u)
          PROVE  FALSE
      <3>1. from(t) \in Nodes /\ m[t] = entry[from(t)] /\ IsPrefix(p, from(t))
          BY <1>3, <2>2
      <3>2. m[u] = entry[u] /\ ~IsPrefix(p, u)
          BY <1>4, <2>2
      <3>3. from(t) = u
          BY <2>2, <3>1, <3>2 DEF StoreInv, OnePath
      <3> QED
          BY <3>1, <3>2, <3>3
    <2>3. CASE ~IsPrefix(q, r) /\ ~IsPrefix(q, s)
        BY <1>4, <1>5, <2>3 DEF StoreInv, OnePath
    <2> QED
        BY <1>5, <2>1, <2>2, <2>3
  <1> QED
      BY <1>2, <1>5

-----------------------------------------------------------------------------
(* What a single step does to the store.                                   *)

SameStore == UNCHANGED entry /\ UNCHANGED bytes

(* A file, new or known to be at q, appears at q with new contents.        *)
PlacedAt(q) ==
    /\ ~IsDir(q)
    /\ \E o \in Objects, b \in 0..2 :
          /\ IF IsFile(q) THEN o = entry[q] ELSE ~InStore(o)
          /\ entry' = [entry EXCEPT ![q] = o]
          /\ bytes' = [bytes EXCEPT ![o] = b]

(* Nothing, or a directory, is at q now.                                   *)
ClearedAt(q) ==
    /\ UNCHANGED bytes
    /\ entry' = [entry EXCEPT ![q] = Absent] \/ entry' = [entry EXCEPT ![q] = Dir]

(* Placing a file at a path is seen at no other path.                      *)
LEMMA PlacedKeeps ==
    ASSUME StoreInv, NEW q \in Nodes, PlacedAt(q)
    PROVE  StoreInv' /\ \A p \in Nodes : p # q => Seen(p)' = Seen(p)
  <1>1. PICK o \in Objects, b \in 0..2 :
           /\ IF IsFile(q) THEN o = entry[q] ELSE ~InStore(o)
           /\ entry' = [entry EXCEPT ![q] = o]
           /\ bytes' = [bytes EXCEPT ![o] = b]
      BY DEF PlacedAt
  <1>2. \A p \in Nodes : p # q => entry[p] # o
      BY <1>1 DEF IsFile, InStore, StoreInv, OnePath
  <1>3. \A p \in Nodes : entry'[p] = IF p = q THEN o ELSE entry[p]
      BY <1>1 DEF StoreInv, StoreType
  <1>4. StoreType'
      BY <1>1 DEF StoreInv, StoreType
  <1>5. OnePath'
      BY <1>2, <1>3 DEF StoreInv, OnePath
  <1>6. \A p \in Nodes : p # q => Seen(p)' = Seen(p)
      BY <1>1, <1>2, <1>3 DEF Seen, IsFile, StoreInv, StoreType
  <1> QED
      BY <1>4, <1>5, <1>6 DEF StoreInv

(* Nor is clearing a path, or making a directory there.                    *)
LEMMA ClearedKeeps ==
    ASSUME StoreInv, NEW q \in Nodes, ClearedAt(q)
    PROVE  StoreInv' /\ \A p \in Nodes : p # q => Seen(p)' = Seen(p)
  <1>1. \A p \in Nodes : p # q => entry'[p] = entry[p]
      BY DEF ClearedAt, StoreInv, StoreType
  <1>2. entry'[q] \notin Objects
      BY ObjectsAssumption DEF ClearedAt, StoreInv, StoreType
  <1>3. StoreType'
      BY DEF ClearedAt, StoreInv, StoreType
  <1>4. OnePath'
      BY <1>1, <1>2 DEF StoreInv, OnePath
  <1>5. \A p \in Nodes : p # q => Seen(p)' = Seen(p)
      BY <1>1 DEF ClearedAt, Seen, IsFile
  <1> QED
      BY <1>3, <1>4, <1>5 DEF StoreInv

(* A store that stays looks the same everywhere.                           *)
LEMMA SameKeeps ==
    ASSUME StoreInv, SameStore
    PROVE  StoreInv' /\ \A p \in Nodes : Seen(p)' = Seen(p)
  BY DEF SameStore, StoreInv, StoreType, OnePath, Seen, IsFile

(* New bytes of an open file are seen at the one path it is at, if any.    *)
LEMMA WriteKeeps ==
    ASSUME StoreInv, NEW o \in Objects, NEW b \in 0..2,
           UNCHANGED entry, bytes' = [bytes EXCEPT ![o] = b]
    PROVE  StoreInv' /\ \A p \in Nodes : entry[p] # o => Seen(p)' = Seen(p)
  BY DEF StoreInv, StoreType, OnePath, Seen, IsFile

(* A renaming touches the two paths and what is below them.                *)
LEMMA RenameKeeps ==
    ASSUME StoreInv, NEW p \in Nodes, NEW q \in Nodes, Rename(p, q)
    PROVE  /\ StoreInv'
           /\ \A r \in Nodes :
                 r # p /\ r # q /\ r \notin Below(p) \cup Below(q)
                 => Seen(r)' = Seen(r)
  <1>1. entry' = Moved(p, q) /\ UNCHANGED bytes
      BY DEF Rename
  <1>2. StoreInv'
      BY <1>1, MovedOnePath DEF StoreInv, StoreType, OnePath
  <1>3. ASSUME NEW r \in Nodes, r # p, r # q, r \notin Below(p) \cup Below(q)
        PROVE  Seen(r)' = Seen(r)
    <2>1. ~IsPrefix(p, r) /\ ~IsPrefix(q, r)
        BY <1>3 DEF Below, IsStrictPrefix
    <2>2. entry'[r] = entry[r]
        BY <1>1, <2>1 DEF Moved
    <2> QED
        BY <1>1, <2>2 DEF Seen, IsFile
  <1> QED
      BY <1>2, <1>3

-----------------------------------------------------------------------------
(* What the requests do, in these terms.                                   *)
HandlesInv ==
    /\ handles \in [1..MaxHandles ->
                      {Closed} \cup [ino : Known, obj : Objects, write : BOOLEAN]]
    /\ \A h \in 1..MaxHandles : handles[h] # Closed => inodes[handles[h].ino] \in Nodes
LocksType == dirtyFiles \subseteq Nodes

(* The request: a path of it that has been checked and is locked now has   *)
(* been locked since the check; and what it changed and has not broadcast  *)
(* it goes on to broadcast, or that is excused.  The gaps between check,   *)
(* effect and broadcast are what makes this more than one step.            *)
ReqType == req \in {Idle} \cup Request
LockedSince ==
    /\ req.path \in dirtyFiles => req.path \in req.raced
    /\ req.pc # "check" /\ req.to \in dirtyFiles => req.to \in req.raced
Excused(p) == p \in req.raced \/ Elsewhere(p)
ToTell ==
    /\ req.op # "rename" => req.to = req.path
    /\ req.pc \in {"check", "act"} => req.changed = {}
    /\ req.pc = "tell" =>
          \A p \in req.changed : p \in {req.path, req.to} \/ Elsewhere(p)
    /\ req.pc = "tellNew" => \A p \in req.changed : p = req.to \/ Excused(p)
ReqInv == ReqType /\ (req # Idle => LockedSince /\ ToTell)

(* The steps that change the store for a request.                          *)
Serving ==
    \/ \E h \in 1..MaxHandles : Write(h)
    \/ \E p \in Nodes : \/ Mkdir(p) \/ Unlink(p) \/ Rmdir(p) \/ Create(p)
                        \/ \E q \in Nodes : Rename(p, q)
(* The steps that take up a request, or look at the locks once more.       *)
Beginning ==
    \/ \E ino \in Known : OpenBegin(ino)
    \/ \E h \in 1..MaxHandles : WriteBegin(h)
    \/ \E p \in Nodes : NameBegin(p) \/ \E q \in Nodes : RenameBegin(p, q)
(* The steps that end a request with nothing to broadcast.                 *)
Replying == Fail \/ (\E ino \in Known : Open(ino)) \/ \E p \in Nodes : Lookup(p)
(* The steps that no request takes part in.                                *)
Apart ==
    \/ \E ino \in Known : Opendir(ino) \/ Setattr(ino)
    \/ \E h \in 1..MaxHandles : Release(h)
    \/ \E room \in 1..2 : Readdir(room)
    \/ Releasedir \/ \E p \in Nodes : HandlePatch(p)
LEMMA NextParts ==
    Next <=> \/ Serving \/ Beginning \/ Replying \/ Apart
             \/ RenameCheck \/ Invalidate \/ \E p \in Nodes : Signal(p)
  BY DEF Next, ByNumber, ByHandle, ByName, Serving, Beginning, Replying, Apart

(* A request changes what is at its own paths, and past the check what is  *)
(* below a renamed one, or what a handle's file has become.                *)
LEMMA WriteServes ==
    ASSUME StoreInv, HandlesInv, ReqType, NEW h \in 1..MaxHandles, Write(h)
    PROVE  /\ StoreInv' /\ req \in Request /\ req.pc = "act" /\ GoesOn
           /\ \A p \in Nodes :
                 Seen(p)' = Seen(p) \/ p \in {req.path, req.to} \/ Elsewhere(p)
  <1> DEFINE o == handles[h].obj
  <1>1. o \in Objects
      BY DEF HandlesInv, Write, Closed
  <1>2. UNCHANGED entry /\ bytes' = [bytes EXCEPT ![o] = Changed(o)]
        /\ Changed(o) \in 0..2
      BY DEF Write, Put, Changed
  <1>3. StoreInv'
      BY <1>1, <1>2, WriteKeeps
  <1>4. req \in Request /\ req.pc = "act" /\ req.op = "write" /\ GoesOn /\ req # Idle
      BY DEF Write, Serves, ReqType
  <1>5. \A p \in Nodes : p # req.path => Elsewhere(p)
      BY <1>4 DEF Elsewhere
  <1> QED
      BY <1>3, <1>4, <1>5

LEMMA ServingChanges ==
    ASSUME StoreInv, HandlesInv, ReqType, Serving
    PROVE  /\ StoreInv' /\ req \in Request /\ req.pc = "act" /\ GoesOn
           /\ \A p \in Nodes :
                 Seen(p)' = Seen(p) \/ p \in {req.path, req.to} \/ Elsewhere(p)
  <1>1. ASSUME NEW q \in Nodes, Mkdir(q) \/ Unlink(q) \/ Rmdir(q)
        PROVE  /\ StoreInv' /\ req \in Request /\ req.pc = "act" /\ GoesOn
               /\ \A p \in Nodes : Seen(p)' = Seen(p) \/ p = req.path
    <2>1. ClearedAt(q) /\ GoesOn /\ req.pc = "act" /\ req.path = q /\ req # Idle
        BY <1>1 DEF Mkdir, Unlink, Rmdir, Gone, Serves, ClearedAt, Idle
    <2> QED
        BY <2>1, ClearedKeeps DEF ReqType
  <1>2. ASSUME NEW q \in Nodes, Create(q)
        PROVE  /\ StoreInv' /\ req \in Request /\ req.pc = "act" /\ GoesOn
               /\ \A p \in Nodes : Seen(p)' = Seen(p) \/ p = req.path
    <2>1. GoesOn /\ req.pc = "act" /\ req.path = q /\ req # Idle
        BY <1>2 DEF Create, Serves, Idle
    <2>2. PlacedAt(q)
      <3>1. 0 \in 0..2
          OBVIOUS
      <3> QED
          BY <1>2, <3>1 DEF Create, Put, PlacedAt
    <2> QED
        BY <2>1, <2>2, PlacedKeeps DEF ReqType
  <1>3. ASSUME NEW q \in Nodes, NEW r \in Nodes, Rename(q, r)
        PROVE  /\ StoreInv' /\ req \in Request /\ req.pc = "act" /\ GoesOn
               /\ \A p \in Nodes :
                     Seen(p)' = Seen(p) \/ p \in {req.path, req.to} \/ Elsewhere(p)
    <2>1. /\ GoesOn /\ req.pc = "act" /\ req.op = "rename" /\ req # Idle
          /\ req.path = q /\ req.to = r
        BY <1>3 DEF Rename, Serves, Idle
    <2>2. \A p \in Below(q) \cup Below(r) : Elsewhere(p)
        BY <2>1 DEF Elsewhere
    <2> QED
        BY <1>3, <2>1, <2>2, RenameKeeps DEF ReqType
  <1> QED
      BY <1>1, <1>2, <1>3, WriteServes DEF Serving

(* PATCH and setattr go past the check.                                    *)
LEMMA ApartAllowed ==
    ASSUME StoreInv, Apart
    PROVE  StoreInv' /\ \A p \in Nodes : Seen(p)' = Seen(p) \/ PastCheck(p)
  <1>1. CASE SameStore
      BY <1>1, SameKeeps
  <1>2. ASSUME NEW ino \in Known, Setattr(ino)
        PROVE  StoreInv' /\ \A p \in Nodes : Seen(p)' = Seen(p) \/ PastCheck(p)
    <2> DEFINE q == inodes[ino]
    <2>1. entry[q] \in Objects /\ q \in Nodes /\ UNCHANGED entry
          /\ bytes' = [bytes EXCEPT ![entry[q]] = Unchecked] /\ Unchecked \in 0..2
        BY <1>2 DEF Setattr, IsFile, Put, Unchecked
    <2>2. StoreInv' /\ \A p \in Nodes : entry[p] # entry[q] => Seen(p)' = Seen(p)
        BY <2>1, WriteKeeps
    <2>3. PastCheck(q)
        BY <1>2 DEF PastCheck
    <2>4. \A p \in Nodes : p # q => entry[p] # entry[q]
        BY <2>1 DEF StoreInv, OnePath
    <2> QED
        BY <2>2, <2>3, <2>4
  <1>3. ASSUME NEW q \in Nodes, HandlePatch(q)
        PROVE  StoreInv' /\ \A p \in Nodes : Seen(p)' = Seen(p) \/ PastCheck(p)
    <2>1. Unchecked \in 0..2
        BY DEF Unchecked
    <2>2. PlacedAt(q)
      <3>1. CASE IsFile(q)
        <4>1. entry' = [entry EXCEPT ![q] = entry[q]] /\ entry[q] \in Objects
            BY <1>3, <3>1 DEF HandlePatch, IsFile, StoreInv, StoreType
        <4> QED
            BY <1>3, <2>1, <3>1, <4>1 DEF HandlePatch, Put, PlacedAt
      <3>2. CASE ~IsFile(q)
          BY <1>3, <2>1, <3>2 DEF HandlePatch, Put, PlacedAt
      <3> QED
          BY <3>1, <3>2
    <2>3. PastCheck(q)
        BY <1>3 DEF PastCheck
    <2> QED
        BY <2>2, <2>3, PlacedKeeps
  <1>4. ASSUME \/ \E ino \in Known : Opendir(ino)
               \/ \E h \in 1..MaxHandles : Release(h)
               \/ \E room \in 1..2 : Readdir(room)
               \/ Releasedir
        PROVE  SameStore
      BY <1>4 DEF Opendir, Release, Readdir, Releasedir, storeVars, SameStore
  <1> QED
      BY <1>1, <1>2, <1>3, <1>4 DEF Apart

(* The other steps leave the store alone.                                  *)
LEMMA OthersSame ==
    ASSUME \/ Beginning \/ Replying \/ RenameCheck \/ Invalidate
           \/ (\E p \in Nodes : Signal(p)) \/ UNCHANGED vars
    PROVE  SameStore
  <1>1. CASE Beginning
      BY <1>1 DEF Beginning, OpenBegin, WriteBegin, NameBegin, RenameBegin, Checked,
                  storeVars, SameStore
  <1>2. CASE Replying
      BY <1>2 DEF Replying, Fail, Open, OpensAs, Lookup, storeVars, SameStore
  <1>3. CASE RenameCheck \/ Invalidate
      BY <1>3 DEF RenameCheck, Invalidate, Tells, storeVars, SameStore
  <1>4. CASE (\E p \in Nodes : Signal(p)) \/ UNCHANGED vars
      BY <1>4 DEF Signal, vars, storeVars, SameStore
  <1> QED
      BY <1>1, <1>2, <1>3, <1>4

LEMMA StoreStep ==
    ASSUME StoreInv, HandlesInv, ReqType, [Next]_vars
    PROVE  StoreInv'
  BY NextParts, ServingChanges, ApartAllowed, OthersSame, SameKeeps

(* Only DIRTY and CLEAN touch the locks.                                   *)
LEMMA LocksStays ==
    ASSUME [Next]_vars, ~ \E p \in Nodes : Signal(p)
    PROVE  UNCHANGED dirtyFiles
  <1>1. CASE Serving
      BY <1>1 DEF Serving, Write, Mkdir, Unlink, Rmdir, Gone, Create, Rename
  <1>2. CASE Beginning
      BY <1>2 DEF Beginning, OpenBegin, WriteBegin, NameBegin, RenameBegin, Checked
  <1>3. CASE Replying
      BY <1>3 DEF Replying, Fail, Open, OpensAs, Lookup
  <1>4. CASE Apart
      BY <1>4 DEF Apart, Opendir, Setattr, Release, Readdir, Releasedir, HandlePatch
  <1>5. CASE RenameCheck \/ Invalidate \/ UNCHANGED vars
      BY <1>5 DEF RenameCheck, Invalidate, Tells, vars
  <1> QED
      BY <1>1, <1>2, <1>3, <1>4, <1>5, NextParts

LEMMA LocksKept ==
    ASSUME LocksType, [Next]_vars
    PROVE  LocksType'
  <1>1. ASSUME NEW p \in Nodes, Signal(p)
        PROVE  LocksType'
      BY <1>1 DEF Signal, HandleDirty, HandleClean, LocksType
  <1> QED
      BY <1>1, LocksStays DEF LocksType

-----------------------------------------------------------------------------
(* The two tables of get_inode as one value; that they are inverse to each *)
(* other; that numbers are only added to them.                             *)
Tables == [inodes : Seq(Paths), paths : [Paths -> Nat]]
Agree(t) ==
    /\ \A i \in DOMAIN t.inodes : t.paths[t.inodes[i]] = i
    /\ \A p \in Paths : t.paths[p] # 0 =>
          t.paths[p] \in DOMAIN t.inodes /\ t.inodes[t.paths[p]] = p
AddedTo(t, u) ==
    /\ Len(t.inodes) <= Len(u.inodes)
    /\ \A i \in DOMAIN t.inodes : u.inodes[i] = t.inodes[i]

(* get_inode gives a path a number that no other path has.                 *)
LEMMA GetInodeKeeps ==
    ASSUME NEW t \in Tables, Agree(t), NEW p \in Paths
    PROVE  /\ GetInode(t, p) \in Tables /\ Agree(GetInode(t, p))
           /\ AddedTo(t, GetInode(t, p)) /\ GetInode(t, p).paths[p] # 0
  <1>1. /\ t.inodes \in Seq(Paths) /\ t.paths \in [Paths -> Nat]
        /\ t = [inodes |-> t.inodes, paths |-> t.paths]
      BY DEF Tables
  <1>2. PICK n \in Nat : /\ n = Len(t.inodes) /\ DOMAIN t.inodes = 1 .. n
                         /\ \A i \in 1 .. n : t.inodes[i] \in Paths
      BY <1>1, LenProperties, ElementOfSeq
  <1>3. CASE t.paths[p] # 0
      BY <1>2, <1>3 DEF GetInode, AddedTo
  <1>4. CASE t.paths[p] = 0
    <2>1. PICK a, b : a = Append(t.inodes, p) /\ b = [t.paths EXCEPT ![p] = n + 1]
        OBVIOUS
    <2>2. /\ a \in Seq(Paths) /\ Len(a) = n + 1 /\ a[n + 1] = p
          /\ \A i \in 1 .. n : a[i] = t.inodes[i]
        BY <1>1, <1>2, <2>1, AppendProperties
    <2>3. DOMAIN a = 1 .. n + 1
        BY <2>2, LenProperties
    <2>4. /\ b \in [Paths -> Nat] /\ b[p] = n + 1
          /\ \A q \in Paths : q # p => b[q] = t.paths[q]
        BY <1>1, <2>1
    <2>5. PICK u : u = GetInode(t, p)
        OBVIOUS
    <2>6. u = [inodes |-> a, paths |-> b]
        BY <1>2, <1>4, <2>1, <2>5 DEF GetInode
    <2>7. u.inodes = a /\ u.paths = b /\ u \in Tables
        BY <2>2, <2>4, <2>6 DEF Tables
    <2>8. \A i \in 1 .. n : t.inodes[i] # p
        BY <1>2, <1>4 DEF Agree
    <2>9. \A i \in 1 .. n + 1 : b[a[i]] = i
      <3>1. ASSUME NEW i \in 1 .. n
            PROVE  b[a[i]] = i
        <4>1. a[i] = t.inodes[i] /\ a[i] \in Paths /\ a[i] # p
            BY <1>2, <2>2, <2>8
        <4>2. t.paths[a[i]] = i
            BY <1>2, <4>1 DEF Agree
        <4> QED
            BY <2>4, <4>1, <4>2
      <3>2. \A i \in 1 .. n + 1 : i \in 1 .. n \/ i = n + 1
          OBVIOUS
      <3> QED
          BY <2>2, <2>4, <3>1, <3>2
    <2>10. ASSUME NEW q \in Paths, b[q] # 0
           PROVE  b[q] \in 1 .. n + 1 /\ a[b[q]] = q
      <3>1. CASE q = p
          BY <2>2, <2>4, <3>1
      <3>2. CASE q # p
        <4>1. b[q] \in 1 .. n /\ t.inodes[b[q]] = q
            BY <1>2, <2>4, <2>10, <3>2 DEF Agree
        <4> QED
            BY <2>2, <4>1
      <3> QED
          BY <3>1, <3>2
    <2>11. Agree(u)
        BY <2>3, <2>7, <2>9, <2>10 DEF Agree
    <2>12. AddedTo(t, u)
        BY <1>2, <2>2, <2>7 DEF AddedTo
    <2>13. u.paths[p] # 0
        BY <2>4, <2>7
    <2> QED
        BY <2>5, <2>7, <2>11, <2>12, <2>13
  <1> QED
      BY <1>3, <1>4

(* Numbering one path after another.                                       *)
LEMMA NumberedSteps ==
    ASSUME NEW ps \in Seq(Paths), inodes \in Seq(Paths), paths \in [Paths -> Nat],
           TablesAgree
    PROVE  /\ Numbered(ps)[0] = [inodes |-> inodes, paths |-> paths]
           /\ \A i \in 1 .. Len(ps) :
                 Numbered(ps)[i] = GetInode(Numbered(ps)[i - 1], ps[i])
  <1>1. PICK n \in Nat : n = Len(ps) /\ \A i \in 1 .. n : ps[i] \in Paths
      BY LenProperties, ElementOfSeq
  <1>2. PICK Good : Good = {t \in Tables : Agree(t)}
      OBVIOUS
  <1>3. PICK x : x = [inodes |-> inodes, paths |-> paths]
      OBVIOUS
  <1>4. x \in Good
      BY <1>2, <1>3 DEF Tables, TablesAgree, Agree, Known
  <1>5. PICK step : step = [z \in (1 .. n) \X Good |-> GetInode(z[2], ps[z[1]])]
      OBVIOUS
  <1>6. step \in [(1 .. n) \X Good -> Good]
    <2>1. ASSUME NEW z \in (1 .. n) \X Good
          PROVE  GetInode(z[2], ps[z[1]]) \in Good
      <3>1. z[2] \in Tables /\ Agree(z[2]) /\ ps[z[1]] \in Paths
          BY <1>1, <1>2
      <3> QED
          BY <1>2, <3>1, GetInodeKeeps
    <2> QED
        BY <1>5, <2>1
  <1>7. PICK f : Computes(f, n, Good, x, step)
      BY <1>4, <1>6, Recursion
  <1>8. ASSUME NEW i \in 1 .. n
        PROVE  f[i] = GetInode(f[i - 1], ps[i])
    <2>1. i - 1 \in 0 .. n
        OBVIOUS
    <2>2. <<i, f[i - 1]>> \in (1 .. n) \X Good
        BY <1>7, <2>1 DEF Computes
    <2> QED
        BY <1>5, <1>7, <2>2 DEF Computes
  <1>9. f = [i \in 0 .. n |-> IF i = 0 THEN x ELSE GetInode(f[i - 1], ps[i])]
      BY <1>7, <1>8 DEF Computes
  <1>10. \E g : g = [i \in 0 .. Len(ps) |->
                        IF i = 0 THEN [inodes |-> inodes, paths |-> paths]
                        ELSE GetInode(g[i - 1], ps[i])]
      BY <1>1, <1>3, <1>9
  <1>11. Numbered(ps) = [i \in 0 .. Len(ps) |->
                            IF i = 0 THEN [inodes |-> inodes, paths |-> paths]
                            ELSE GetInode(Numbered(ps)[i - 1], ps[i])]
      BY <1>10 DEF Numbered
  <1>12. PICK g : g = Numbered(ps)
      OBVIOUS
  <1>13. g = [i \in 0 .. n |-> IF i = 0 THEN x ELSE GetInode(g[i - 1], ps[i])]
      BY <1>1, <1>3, <1>11, <1>12
  <1>14. 0 \in 0 .. n /\ \A i \in 1 .. n : i \in 0 .. n /\ i # 0
      OBVIOUS
  <1>15. g[0] = x
      BY <1>13, <1>14
  <1>16. \A i \in 1 .. n : g[i] = GetInode(g[i - 1], ps[i])
      BY <1>13, <1>14
  <1> QED
      BY <1>1, <1>3, <1>12, <1>15, <1>16

(* The tables as they are; numbers are never given up or changed.          *)
TablesInv ==
    /\ inodes \in Seq(Paths) /\ Len(inodes) \in 1..MaxInodes
    /\ paths \in [Paths -> Nat] /\ TablesAgree
NumbersKept == \A i \in Known : i \in Known' /\ inodes'[i] = inodes[i]

(* After any number of calls of get_inode the tables agree still.          *)
LEMMA NumberedKeeps ==
    ASSUME TablesInv, NEW ps \in Seq(Paths), NEW i \in 0 .. Len(ps)
    PROVE  /\ Numbered(ps)[i] \in Tables /\ Agree(Numbered(ps)[i])
           /\ AddedTo([inodes |-> inodes, paths |-> paths], Numbered(ps)[i])
  <1>1. PICK n \in Nat : n = Len(ps) /\ \A j \in 1 .. n : ps[j] \in Paths
      BY LenProperties, ElementOfSeq
  <1>2. PICK g, x : g = Numbered(ps) /\ x = [inodes |-> inodes, paths |-> paths]
      OBVIOUS
  <1>3. g[0] = x /\ \A j \in 1 .. n : g[j] = GetInode(g[j - 1], ps[j])
      BY <1>1, <1>2, NumberedSteps DEF TablesInv
  <1> DEFINE T == {j \in 0 .. n : g[j] \in Tables /\ Agree(g[j]) /\ AddedTo(x, g[j])}
  <1>4. 0 \in T
    <2>1. x \in Tables /\ Agree(x)
        BY <1>2 DEF Tables, TablesInv, TablesAgree, Agree, Known
    <2>2. AddedTo(x, x)
      <3>1. Len(x.inodes) \in Nat
          BY <2>1, LenProperties DEF Tables
      <3> QED
          BY <3>1 DEF AddedTo
    <2> QED
        BY <1>3, <2>1, <2>2
  <1>5. ASSUME NEW j \in 0 .. n - 1, j \in T
        PROVE  j + 1 \in T
    <2>1. j + 1 \in 1 .. n /\ (j + 1) - 1 = j /\ j + 1 \in 0 .. n
        OBVIOUS
    <2>2. PICK t, u : t = g[j] /\ u = g[j + 1]
        OBVIOUS
    <2>3. u = GetInode(t, ps[j + 1]) /\ ps[j + 1] \in Paths
        BY <1>1, <1>3, <2>1, <2>2
    <2>4. t \in Tables /\ Agree(t) /\ AddedTo(x, t)
        BY <1>5, <2>2
    <2>5. u \in Tables /\ Agree(u) /\ AddedTo(t, u)
        BY <2>3, <2>4, GetInodeKeeps
    <2>6. AddedTo(x, u)
      <3>1. /\ x.inodes \in Seq(Paths) /\ t.inodes \in Seq(Paths)
            /\ u.inodes \in Seq(Paths)
          BY <1>2, <2>4, <2>5 DEF Tables, TablesInv
      <3>2. /\ Len(x.inodes) \in Nat /\ DOMAIN x.inodes = 1 .. Len(x.inodes)
            /\ Len(t.inodes) \in Nat /\ DOMAIN t.inodes = 1 .. Len(t.inodes)
            /\ Len(u.inodes) \in Nat
          BY <3>1, LenProperties
      <3> QED
          BY <2>4, <2>5, <3>2 DEF AddedTo
    <2> QED
        BY <2>1, <2>2, <2>5, <2>6
  <1> HIDE DEF T
  <1>6. 0 .. n \subseteq T
      BY <1>4, <1>5, UpTo
  <1> QED
      BY <1>1, <1>2, <1>6 DEF T

(* What numbering does to the tables.                                      *)
LEMMA NumberAllKeeps ==
    ASSUME TablesInv, NEW ps \in Seq(Paths), NumberAll(ps)
    PROVE  TablesInv' /\ NumbersKept
  <1>1. Len(ps) \in Nat
      BY LenProperties
  <1>2. PICK t, x : /\ t = Numbered(ps)[Len(ps)]
                    /\ x = [inodes |-> inodes, paths |-> paths]
      OBVIOUS
  <1>3. t \in Tables /\ Agree(t) /\ AddedTo(x, t)
      BY <1>1, <1>2, NumberedKeeps
  <1>4. inodes' = t.inodes /\ paths' = t.paths /\ Len(t.inodes) <= MaxInodes
      BY <1>2 DEF NumberAll
  <1>5. /\ inodes' \in Seq(Paths) /\ paths' \in [Paths -> Nat]
        /\ inodes \in Seq(Paths) /\ x.inodes = inodes
      BY <1>2, <1>3, <1>4 DEF Tables, TablesInv
  <1>6. /\ Len(inodes') \in Nat /\ DOMAIN inodes' = 1 .. Len(inodes')
        /\ Len(inodes) \in Nat /\ DOMAIN inodes = 1 .. Len(inodes)
      BY <1>5, LenProperties
  <1>7. Len(inodes) <= Len(inodes') /\ \A i \in DOMAIN inodes : inodes'[i] = inodes[i]
      BY <1>3, <1>4, <1>5 DEF AddedTo
  <1>8. Len(inodes') \in 1 .. MaxInodes
      BY <1>4, <1>6, <1>7, BoundAssumption DEF TablesInv
  <1>9. TablesAgree'
      BY <1>3, <1>4 DEF Agree, TablesAgree, Known
  <1> QED
      BY <1>5, <1>6, <1>7, <1>8, <1>9 DEF TablesInv, NumbersKept, Known

(* A path that is numbered has a number afterwards.                        *)
LEMMA NumberOne ==
    ASSUME TablesInv, NEW p \in Paths, NumberAll(<<p>>)
    PROVE  TablesInv' /\ NumbersKept /\ paths'[p] \in Known'
  <1>1. PICK ps : ps = <<p>>
      OBVIOUS
  <1>2. ps \in Seq(Paths) /\ Len(ps) = 1 /\ ps[1] = p
      BY <1>1
  <1>3. PICK x : x = [inodes |-> inodes, paths |-> paths]
      OBVIOUS
  <1>4. x \in Tables /\ Agree(x)
      BY <1>3 DEF Tables, TablesInv, TablesAgree, Agree, Known
  <1>5. Numbered(ps)[1] = GetInode(x, p)
    <2>1. /\ Numbered(ps)[0] = x
          /\ \A i \in 1 .. 1 : Numbered(ps)[i] = GetInode(Numbered(ps)[i - 1], ps[i])
        BY <1>2, <1>3, NumberedSteps DEF TablesInv
    <2>2. 1 \in 1 .. 1 /\ 1 - 1 = 0
        OBVIOUS
    <2>3. Numbered(ps)[1] = GetInode(Numbered(ps)[1 - 1], ps[1])
        BY <2>1, <2>2
    <2> QED
        BY <1>2, <2>1, <2>2, <2>3
  <1>6. paths'[p] # 0
      BY <1>1, <1>2, <1>4, <1>5, GetInodeKeeps DEF NumberAll
  <1>7. TablesInv' /\ NumbersKept
      BY <1>1, <1>2, NumberAllKeeps
  <1> QED
      BY <1>6, <1>7 DEF TablesInv, TablesAgree

-----------------------------------------------------------------------------
(* The names that are in S of the first names in order.                    *)
LEMMA OrderedSteps ==
    ASSUME NEW S
    PROVE  /\ Ordered(S)[0] = <<>>
           /\ \A i \in 1 .. Len(Order) :
                 Ordered(S)[i] = IF Order[i] \in S
                                 THEN Append(Ordered(S)[i - 1], Order[i])
                                 ELSE Ordered(S)[i - 1]
  <1>1. PICK n \in Nat : n = Len(Order) /\ \A i \in 1 .. n : Order[i] \in Names
      BY OrderAssumption, LenProperties, ElementOfSeq
  <1>2. PICK Some : Some = Seq(Names)
      OBVIOUS
  <1>3. PICK step : step = [z \in (1 .. n) \X Some |->
                               IF Order[z[1]] \in S THEN Append(z[2], Order[z[1]])
                               ELSE z[2]]
      OBVIOUS
  <1>4. step \in [(1 .. n) \X Some -> Some]
    <2>1. ASSUME NEW z \in (1 .. n) \X Some
          PROVE  (IF Order[z[1]] \in S THEN Append(z[2], Order[z[1]]) ELSE z[2]) \in Some
      <3>1. z[2] \in Some /\ Order[z[1]] \in Names
          BY <1>1
      <3>2. Append(z[2], Order[z[1]]) \in Some
          BY <1>2, <3>1, AppendProperties
      <3> QED
          BY <3>1, <3>2
    <2> QED
        BY <1>3, <2>1
  <1>5. PICK x : x = <<>>
      OBVIOUS
  <1>6. x \in Some
      BY <1>2, <1>5
  <1>7. PICK f : Computes(f, n, Some, x, step)
      BY <1>4, <1>6, Recursion
  <1>8. ASSUME NEW i \in 1 .. n
        PROVE  f[i] = IF Order[i] \in S THEN Append(f[i - 1], Order[i]) ELSE f[i - 1]
    <2>1. i - 1 \in 0 .. n
        OBVIOUS
    <2>2. <<i, f[i - 1]>> \in (1 .. n) \X Some
        BY <1>7, <2>1 DEF Computes
    <2> QED
        BY <1>3, <1>7, <2>2 DEF Computes
  <1>9. f = [i \in 0 .. n |->
                IF i = 0 THEN x
                ELSE IF Order[i] \in S THEN Append(f[i - 1], Order[i])
                ELSE f[i - 1]]
    <2>1. ASSUME NEW i \in 0 .. n
          PROVE  f[i] = IF i = 0 THEN x
                        ELSE IF Order[i] \in S THEN Append(f[i - 1], Order[i])
                        ELSE f[i - 1]
      <3>1. CASE i = 0
          BY <1>7, <3>1 DEF Computes
      <3>2. CASE i # 0
        <4>1. i \in 1 .. n
            BY <3>2
        <4> QED
            BY <1>8, <3>2, <4>1
      <3> QED
          BY <3>1, <3>2
    <2>2. f = [i \in 0 .. n |-> f[i]]
        BY <1>7 DEF Computes
    <2> QED
        BY <2>1, <2>2
  <1>10. \E g : g = [i \in 0 .. Len(Order) |->
                        IF i = 0 THEN <<>>
                        ELSE IF Order[i] \in S THEN Append(g[i - 1], Order[i])
                        ELSE g[i - 1]]
      BY <1>1, <1>5, <1>9
  <1>11. PICK g : g = Ordered(S)
      OBVIOUS
  <1>12. g = [i \in 0 .. Len(Order) |->
                 IF i = 0 THEN <<>>
                 ELSE IF Order[i] \in S THEN Append(g[i - 1], Order[i])
                 ELSE g[i - 1]]
      BY <1>10, <1>11 DEF Ordered
  <1>13. 0 \in 0 .. n /\ \A i \in 1 .. n : i \in 0 .. n /\ i # 0
      OBVIOUS
  <1>14. g[0] = <<>>
      BY <1>1, <1>12, <1>13
  <1>15. \A i \in 1 .. n :
            g[i] = IF Order[i] \in S THEN Append(g[i - 1], Order[i]) ELSE g[i - 1]
      BY <1>1, <1>12, <1>13
  <1> QED
      BY <1>1, <1>11, <1>14, <1>15

(* s holds the names in S among the first i, each of them once.            *)
Holds(s, S, i) ==
    /\ s \in Seq(Names)
    /\ \A j \in 1 .. Len(s) : \E k \in 1 .. i : s[j] = Order[k] /\ Order[k] \in S
    /\ \A k \in 1 .. i : Order[k] \in S => \E j \in 1 .. Len(s) : s[j] = Order[k]
    /\ \A j, k \in 1 .. Len(s) : s[j] = s[k] => j = k

(* One more name is appended if it is in S, and is new to s.               *)
LEMMA HoldsOneMore ==
    ASSUME NEW s, NEW S, NEW i \in 0 .. Len(Order) - 1, Holds(s, S, i)
    PROVE  Holds(IF Order[i + 1] \in S THEN Append(s, Order[i + 1]) ELSE s, S, i + 1)
  <1>1. PICK n \in Nat : n = Len(Order) /\ DOMAIN Order = 1 .. n
      BY OrderAssumption, LenProperties
  <1>2. \A k \in 1 .. i + 1 : k \in 1 .. i \/ k = i + 1
      OBVIOUS
  <1>3. i \in Nat /\ i + 1 \in 1 .. n /\ \A k \in 1 .. i : k \in 1 .. i + 1
      BY <1>1
  <1>4. CASE Order[i + 1] \notin S
      BY <1>2, <1>3, <1>4 DEF Holds
  <1>5. CASE Order[i + 1] \in S
    <2>1. PICK x, t : x = Order[i + 1] /\ t = Append(s, x)
        OBVIOUS
    <2>2. x \in Names /\ s \in Seq(Names) /\ Len(s) \in Nat
        BY <1>1, <1>3, <2>1, OrderAssumption, ElementOfSeq, LenProperties DEF Holds
    <2>3. /\ t \in Seq(Names) /\ Len(t) = Len(s) + 1 /\ t[Len(s) + 1] = x
          /\ \A j \in 1 .. Len(s) : t[j] = s[j]
        BY <2>1, <2>2, AppendProperties
    <2>4. \A j \in 1 .. Len(t) : j \in 1 .. Len(s) \/ j = Len(t)
        BY <2>2, <2>3
    <2>5. Len(t) \in 1 .. Len(t) /\ t[Len(t)] = x
          /\ \A j \in 1 .. Len(s) : j \in 1 .. Len(t)
        BY <2>2, <2>3
    <2>6. ASSUME NEW j \in 1 .. Len(t)
          PROVE  \E k \in 1 .. i + 1 : t[j] = Order[k] /\ Order[k] \in S
      <3>1. CASE j \in 1 .. Len(s)
          BY <1>3, <2>3, <3>1 DEF Holds
      <3>2. CASE j = Len(t)
        <4>1. t[j] = Order[i + 1] /\ i + 1 \in 1 .. i + 1
            BY <1>3, <2>1, <2>5, <3>2
        <4> QED
            BY <1>5, <4>1
      <3> QED
          BY <2>4, <3>1, <3>2
    <2>7. ASSUME NEW k \in 1 .. i + 1, Order[k] \in S
          PROVE  \E j \in 1 .. Len(t) : t[j] = Order[k]
      <3>1. CASE k \in 1 .. i
          BY <2>3, <2>5, <2>7, <3>1 DEF Holds
      <3>2. CASE k = i + 1
          BY <2>1, <2>5, <3>2
      <3> QED
          BY <1>2, <3>1, <3>2
    <2>8. ASSUME NEW j \in 1 .. Len(s)
          PROVE  t[j] # x
      <3>1. PICK k \in 1 .. i : s[j] = Order[k]
          BY DEF Holds
      <3>2. k \in 1 .. n /\ k # i + 1
          BY <1>1
      <3> QED
          BY <1>1, <1>3, <2>1, <2>3, <3>1, <3>2, OrderAssumption
    <2>9. ASSUME NEW j \in 1 .. Len(t), NEW k \in 1 .. Len(t), t[j] = t[k]
          PROVE  j = k
      <3>1. CASE j \in 1 .. Len(s) /\ k \in 1 .. Len(s)
          BY <2>3, <2>9, <3>1 DEF Holds
      <3>2. CASE j = Len(t) \/ k = Len(t)
          BY <2>4, <2>5, <2>8, <2>9, <3>2
      <3> QED
          BY <2>4, <3>1, <3>2
    <2>10. Holds(t, S, i + 1)
        BY <2>3, <2>6, <2>7, <2>9 DEF Holds
    <2> QED
        BY <1>5, <2>1, <2>10
  <1> QED
      BY <1>4, <1>5

(* So Ordered gives the names in S, each once: induction over the order.   *)
LEMMA OrderedHolds ==
    ASSUME NEW S, NEW i \in 0 .. Len(Order)
    PROVE  Holds(Ordered(S)[i], S, i)
  <1>1. PICK n \in Nat : n = Len(Order)
      BY OrderAssumption, LenProperties
  <1>2. PICK g : g = Ordered(S)
      OBVIOUS
  <1>3. /\ g[0] = <<>>
        /\ \A j \in 1 .. n : g[j] = IF Order[j] \in S THEN Append(g[j - 1], Order[j])
                                    ELSE g[j - 1]
      BY <1>1, <1>2, OrderedSteps
  <1> DEFINE T == {j \in 0 .. n : Holds(g[j], S, j)}
  <1>4. 0 \in T
    <2>1. Holds(<<>>, S, 0)
      <3>1. PICK e : e = <<>>
          OBVIOUS
      <3>2. e \in Seq(Names) /\ Len(e) = 0
          BY <3>1
      <3>3. Holds(e, S, 0)
          BY <3>2 DEF Holds
      <3> QED
          BY <3>1, <3>3
    <2> QED
        BY <1>3, <2>1
  <1>5. ASSUME NEW j \in 0 .. n - 1, j \in T
        PROVE  j + 1 \in T
    <2>1. j + 1 \in 1 .. n /\ (j + 1) - 1 = j /\ j + 1 \in 0 .. n
        OBVIOUS
    <2>2. g[j + 1] = IF Order[j + 1] \in S THEN Append(g[j], Order[j + 1]) ELSE g[j]
        BY <1>3, <2>1
    <2>3. Holds(g[j + 1], S, j + 1)
        BY <1>1, <1>5, <2>2, HoldsOneMore
    <2> QED
        BY <2>1, <2>3
  <1> HIDE DEF T
  <1>6. 0 .. n \subseteq T
      BY <1>4, <1>5, UpTo
  <1> QED
      BY <1>1, <1>2, <1>6 DEF T

(* Each element of s is in t, there or later.                              *)
Behind(s, t) ==
    /\ Len(s) <= Len(t)
    /\ \A j \in 1 .. Len(s) : \E k \in 1 .. Len(t) : j <= k /\ t[k] = s[j]

(* A directory that only grows moves each of its entries back, if at all.  *)
LEMMA OrderedGrown ==
    ASSUME NEW R, NEW S, S \subseteq R, NEW i \in 0 .. Len(Order)
    PROVE  Behind(Ordered(S)[i], Ordered(R)[i])
  <1>1. PICK n \in Nat : n = Len(Order) /\ \A j \in 1 .. n : Order[j] \in Names
      BY OrderAssumption, LenProperties, ElementOfSeq
  <1>2. PICK g, h : g = Ordered(S) /\ h = Ordered(R)
      OBVIOUS
  <1>3. /\ g[0] = <<>>
        /\ \A j \in 1 .. n : g[j] = IF Order[j] \in S THEN Append(g[j - 1], Order[j])
                                    ELSE g[j - 1]
      BY <1>1, <1>2, OrderedSteps
  <1>4. /\ h[0] = <<>>
        /\ \A j \in 1 .. n : h[j] = IF Order[j] \in R THEN Append(h[j - 1], Order[j])
                                    ELSE h[j - 1]
      BY <1>1, <1>2, OrderedSteps
  <1> DEFINE T == {j \in 0 .. n : Behind(g[j], h[j])}
  <1>5. 0 \in T
    <2>1. PICK e : e = <<>> /\ Len(e) = 0
        OBVIOUS
    <2>2. Behind(e, e)
        BY <2>1 DEF Behind
    <2> QED
        BY <1>3, <1>4, <2>1, <2>2
  <1>6. ASSUME NEW j \in 0 .. n - 1, j \in T
        PROVE  j + 1 \in T
    <2>1. j + 1 \in 1 .. n /\ (j + 1) - 1 = j /\ j + 1 \in 0 .. n
        OBVIOUS
    <2>2. PICK x, s, t, u, v : /\ x = Order[j + 1]
                               /\ s = g[j] /\ t = h[j]
                               /\ u = g[j + 1] /\ v = h[j + 1]
        OBVIOUS
    <2>3. /\ u = (IF x \in S THEN Append(s, x) ELSE s)
          /\ v = (IF x \in R THEN Append(t, x) ELSE t)
        BY <1>3, <1>4, <2>1, <2>2
    <2>4. s \in Seq(Names) /\ t \in Seq(Names) /\ x \in Names
      <3>1. j \in 0 .. Len(Order)
          BY <1>1
      <3>2. Holds(s, S, j) /\ Holds(t, R, j)
          BY <1>2, <2>2, <3>1, OrderedHolds
      <3>3. x \in Names
          BY <1>1, <2>1, <2>2
      <3> QED
          BY <3>2, <3>3 DEF Holds
    <2>5. Len(s) \in Nat /\ Len(t) \in Nat
        BY <2>4, LenProperties
    <2>6. Behind(s, t)
        BY <1>6, <2>2
    <2>7. Behind(s, v) /\ (x \in R => Len(v) = Len(t) + 1 /\ v[Len(t) + 1] = x)
      <3>1. CASE x \in R
        <4>1. Len(v) = Len(t) + 1 /\ v[Len(t) + 1] = x
              /\ \A k \in 1 .. Len(t) : v[k] = t[k]
            BY <2>3, <2>4, <3>1, AppendProperties
        <4> QED
            BY <2>5, <2>6, <4>1 DEF Behind
      <3>2. CASE x \notin R
          BY <2>3, <2>6, <3>2
      <3> QED
          BY <3>1, <3>2
    <2>8. CASE x \notin S
        BY <2>1, <2>2, <2>3, <2>7, <2>8
    <2>9. CASE x \in S
      <3>1. /\ Len(u) = Len(s) + 1 /\ u[Len(s) + 1] = x
            /\ \A k \in 1 .. Len(s) : u[k] = s[k]
          BY <2>3, <2>4, <2>9, AppendProperties
      <3>2. Len(v) = Len(t) + 1 /\ v[Len(v)] = x /\ Len(s) <= Len(t)
          BY <2>6, <2>7, <2>9 DEF Behind
      <3>3. ASSUME NEW k \in 1 .. Len(u)
            PROVE  \E m \in 1 .. Len(v) : k <= m /\ v[m] = u[k]
        <4>1. CASE k \in 1 .. Len(s)
            BY <2>7, <3>1, <4>1 DEF Behind
        <4>2. CASE k = Len(s) + 1
          <5>1. Len(v) \in 1 .. Len(v) /\ k <= Len(v) /\ v[Len(v)] = u[k]
              BY <2>5, <3>1, <3>2, <4>2
          <5> QED
              BY <5>1
        <4>3. k \in 1 .. Len(s) \/ k = Len(s) + 1
            BY <2>5, <3>1
        <4> QED
            BY <4>1, <4>2, <4>3
      <3>4. Len(u) <= Len(v)
          BY <2>5, <3>1, <3>2
      <3>5. Behind(u, v)
          BY <3>3, <3>4 DEF Behind
      <3> QED
          BY <2>1, <2>2, <3>5
    <2> QED
        BY <2>8, <2>9
  <1> HIDE DEF T
  <1>7. 0 .. n \subseteq T
      BY <1>5, <1>6, UpTo
  <1> QED
      BY <1>1, <1>2, <1>7 DEF T

-----------------------------------------------------------------------------
(* The names in a directory as read_dir gives them, and the entries that   *)
(* readdir makes of them.                                                  *)
Listed(p) == Ordered(NamesIn(p))[Len(Order)]

(* A directory's listing has each name in it once and no other.            *)
LEMMA ListedNames ==
    ASSUME NEW p \in Paths
    PROVE  /\ Listed(p) \in Seq(Names) /\ Len(Listed(p)) \in Nat
           /\ \A j \in 1 .. Len(Listed(p)) : Listed(p)[j] \in NamesIn(p)
           /\ \A n \in NamesIn(p) : \E j \in 1 .. Len(Listed(p)) : Listed(p)[j] = n
           /\ \A j, k \in 1 .. Len(Listed(p)) : Listed(p)[j] = Listed(p)[k] => j = k
  <1>1. PICK n \in Nat : n = Len(Order) /\ DOMAIN Order = 1 .. n
      BY OrderAssumption, LenProperties
  <1>2. PICK s, S : s = Listed(p) /\ S = NamesIn(p)
      OBVIOUS
  <1>3. Holds(s, S, n)
    <2>1. n \in 0 .. n
        OBVIOUS
    <2> QED
        BY <1>1, <1>2, <2>1, OrderedHolds DEF Listed
  <1>4. Len(s) \in Nat
      BY <1>3, LenProperties DEF Holds
  <1>5. \A m \in S : \E k \in 1 .. n : Order[k] = m
      BY <1>1, <1>2 DEF NamesIn, NamesAt, Names, Range
  <1>6. /\ s \in Seq(Names)
        /\ \A j \in 1 .. Len(s) : s[j] \in S
        /\ \A j, k \in 1 .. Len(s) : s[j] = s[k] => j = k
      BY <1>3 DEF Holds
  <1>7. \A m \in S : \E j \in 1 .. Len(s) : s[j] = m
      BY <1>3, <1>5 DEF Holds
  <1> QED
      BY <1>2, <1>4, <1>6, <1>7

(* readdir's entries: two, then the paths of the names in their order.     *)
LEMMA EntriesAre ==
    ASSUME NEW p \in Paths
    PROVE  /\ Entries(p) \in Seq(Paths) /\ Len(Entries(p)) = Len(Listed(p)) + 2
           /\ \A j \in 1 .. Len(Listed(p)) : Entries(p)[j + 2] = Append(p, Listed(p)[j])
  <1>1. PICK s : s = Listed(p)
      OBVIOUS
  <1>2. /\ s \in Seq(Names) /\ Len(s) \in Nat
        /\ \A j \in 1 .. Len(s) : s[j] \in NamesIn(p)
      BY <1>1, ListedNames
  <1>3. PICK a, b : a = <<p, Parent(p)>> /\ b = [i \in DOMAIN s |-> Append(p, s[i])]
      OBVIOUS
  <1>4. a \in Seq(Paths) /\ Len(a) = 2
    <2>1. Parent(p) \in Paths
        BY ClosedAssumption DEF Parent, Paths
    <2> QED
        BY <1>3, <2>1
  <1>5. DOMAIN s = 1 .. Len(s)
      BY <1>2, LenProperties
  <1>6. b \in Seq(Paths) /\ Len(b) = Len(s) /\ \A j \in 1 .. Len(s) : b[j] = Append(p, s[j])
    <2>1. \A j \in 1 .. Len(s) : Append(p, s[j]) \in Paths
        BY <1>2 DEF NamesIn, NamesAt, Paths
    <2>2. b \in [1 .. Len(s) -> Paths]
        BY <1>3, <1>5, <2>1
    <2>3. b \in Seq(Paths) /\ DOMAIN b = 1 .. Len(s)
        BY <1>2, <2>2, IsASeq
    <2>4. Len(b) = Len(s)
        BY <1>2, <2>3, LenProperties
    <2> QED
        BY <1>3, <1>5, <2>3, <2>4
  <1>7. Entries(p) = a \o b
      BY <1>1, <1>3 DEF Entries, Listed
  <1>8. PICK m \in Nat : m = Len(s)
      BY <1>2
  <1>9. /\ a \o b \in Seq(Paths) /\ Len(a \o b) = 2 + m
        /\ \A i \in 1 .. 2 + m : (a \o b)[i] = IF i <= 2 THEN a[i] ELSE b[i - 2]
    <2>1. /\ a \o b \in Seq(Paths) /\ Len(a \o b) = Len(a) + Len(b)
          /\ \A i \in 1 .. Len(a) + Len(b) :
                (a \o b)[i] = IF i <= Len(a) THEN a[i] ELSE b[i - Len(a)]
      <3>1. a \in Seq(Paths) /\ b \in Seq(Paths)
          BY <1>4, <1>6
      <3> QED
          BY <3>1, ConcatProperties
    <2>2. Len(a) = 2 /\ Len(b) = m
        BY <1>4, <1>6, <1>8
    <2> QED
        BY <2>1, <2>2
  <1>10. ASSUME NEW j \in 1 .. m
         PROVE  (a \o b)[j + 2] = Append(p, s[j])
    <2>1. j + 2 \in 1 .. 2 + m /\ ~(j + 2 <= 2) /\ (j + 2) - 2 = j
        OBVIOUS
    <2> QED
        BY <1>6, <1>8, <1>9, <2>1
  <1> QED
      BY <1>1, <1>7, <1>8, <1>9, <1>10

-----------------------------------------------------------------------------
(* What readdir returns of a sequence of entries: those after the offset,  *)
(* up to some number of them.                                              *)
LEMMA ReaddirReturns ==
    ASSUME NEW e \in Seq(Paths), NEW k \in Nat,
           NEW n \in Nat, n <= Len(SubSeq(e, k + 1, Len(e)))
    PROVE  LET m == SubSeq(SubSeq(e, k + 1, Len(e)), 1, n) IN
           /\ m \in Seq(Paths) /\ Len(m) = n /\ (n # 0 => k + n <= Len(e))
           /\ \A i \in 1 .. n : m[i] = e[k + i]
  <1>1. PICK l \in Nat : l = Len(e) /\ \A i \in 1 .. l : e[i] \in Paths
      BY LenProperties, ElementOfSeq
  <1>2. PICK r, m : r = SubSeq(e, k + 1, l) /\ m = SubSeq(r, 1, n)
      OBVIOUS
  <1>3. \A i \in k + 1 .. l : e[i] \in Paths
      BY <1>1
  <1>4. /\ r \in Seq(Paths) /\ Len(r) = IF k + 1 <= l THEN l - (k + 1) + 1 ELSE 0
        /\ \A i \in 1 .. l - (k + 1) + 1 : r[i] = e[k + 1 + i - 1]
    <2>1. PICK f : f = k + 1
        OBVIOUS
    <2>2. f \in Int /\ l \in Int /\ \A i \in f .. l : e[i] \in Paths
        BY <1>1, <1>3, <2>1
    <2>3. /\ SubSeq(e, f, l) \in Seq(Paths)
          /\ Len(SubSeq(e, f, l)) = IF f <= l THEN l - f + 1 ELSE 0
          /\ \A i \in 1 .. l - f + 1 : SubSeq(e, f, l)[i] = e[f + i - 1]
        BY <2>2, SubSeqProperties
    <2> QED
        BY <1>2, <2>1, <2>3
  <1>5. n <= Len(r) /\ Len(r) \in Nat
      BY <1>1, <1>2, <1>4, LenProperties
  <1>6. \A i \in 1 .. n : r[i] \in Paths
      BY <1>4, <1>5, ElementOfSeq
  <1>7. /\ m \in Seq(Paths) /\ Len(m) = (IF 1 <= n THEN n - 1 + 1 ELSE 0)
        /\ \A i \in 1 .. n - 1 + 1 : m[i] = r[1 + i - 1]
    <2>1. PICK f : f = 1
        OBVIOUS
    <2>2. f \in Int /\ n \in Int /\ \A i \in f .. n : r[i] \in Paths
        BY <1>6, <2>1
    <2>3. /\ SubSeq(r, f, n) \in Seq(Paths)
          /\ Len(SubSeq(r, f, n)) = IF f <= n THEN n - f + 1 ELSE 0
          /\ \A i \in 1 .. n - f + 1 : SubSeq(r, f, n)[i] = r[f + i - 1]
        BY <2>2, SubSeqProperties
    <2> QED
        BY <1>2, <2>1, <2>3
  <1>8. Len(m) = n
      BY <1>7
  <1>9. n # 0 => k + n <= l
      BY <1>4, <1>5
  <1>10. ASSUME NEW i \in 1 .. n
         PROVE  m[i] = e[k + i]
    <2>1. i \in 1 .. n - 1 + 1 /\ 1 + i - 1 = i
        OBVIOUS
    <2>2. i \in 1 .. l - (k + 1) + 1 /\ k + 1 + i - 1 = k + i
        BY <1>9
    <2> QED
        BY <1>4, <1>7, <2>1, <2>2
  <1> QED
      BY <1>1, <1>2, <1>7, <1>8, <1>9, <1>10

(* Two names make two paths.                                               *)
LEMMA NamesTell ==
    ASSUME NEW p \in Paths, NEW m \in Names, NEW n \in Names,
           Append(p, m) = Append(p, n)
    PROVE  m = n
  <1>1. p \in Seq(Names)
    <2>1. CASE p \in Nodes
        BY <2>1, NodesAssumption
    <2>2. CASE p = Root
        BY <2>2 DEF Root
    <2> QED
        BY <2>1, <2>2 DEF Paths
  <1>2. /\ Append(p, m)[Len(p) + 1] = m /\ Append(p, n)[Len(p) + 1] = n
      BY <1>1, AppendProperties
  <1> QED
      BY <1>2

-----------------------------------------------------------------------------
(* What is true of the listing.                                            *)
(* The entries up to the offset have been seen, those that were there all  *)
(* along are among them or still to come, and those that have been seen    *)
(* do not come again: what Entries gives from the offset on.  Behind says  *)
(* how this survives a change of the directory.                            *)
Listing == [ino : Known, offset : Nat, seen : Seq(Paths), kept : SUBSET Names,
            shrunk : BOOLEAN, grew : BOOLEAN]
Comes(n) ==
    LET f == Listed(inodes[listing.ino]) IN
    \E j \in 1 .. Len(f) : f[j] = n /\ j + 2 > listing.offset
Passed(n) ==
    LET f == Listed(inodes[listing.ino]) IN
    \A j \in 1 .. Len(f) : f[j] = n => j + 2 <= listing.offset
SeenOrComes ==
    \A n \in listing.kept :
       \/ \E i \in 1 .. Len(listing.seen) :
             listing.seen[i] = Append(inodes[listing.ino], n)
       \/ Comes(n)
SeenPassed ==
    \A i \in 3 .. Len(listing.seen) :
       \E n \in Names :
          listing.seen[i] = Append(inodes[listing.ino], n) /\ Passed(n)
SeenOnce ==
    \A i, j \in 3 .. Len(listing.seen) :
       i # j => listing.seen[i] # listing.seen[j]
ListingInv ==
    listing = Closed \/
      /\ listing \in Listing /\ Len(listing.seen) = listing.offset
      /\ listing.kept \subseteq NamesIn(inodes[listing.ino])
      /\ ~listing.shrunk => SeenOrComes
      /\ ~listing.grew => SeenPassed /\ SeenOnce

AllInv ==
    /\ StoreInv /\ LocksType /\ TablesInv /\ HandlesInv /\ ListingInv /\ ReqInv
    /\ news \subseteq Nodes

-----------------------------------------------------------------------------
(* A number names a path; every step keeps the numbers, or numbers some    *)
(* paths.                                                                  *)
LEMMA KnownPaths ==
    ASSUME TablesInv, NEW ino \in Known
    PROVE  inodes[ino] \in Paths
  BY LenProperties, ElementOfSeq DEF TablesInv, Known

(* Tables that stay keep their invariant.                                  *)
LEMMA SameTables ==
    ASSUME TablesInv, UNCHANGED tableVars
    PROVE  TablesInv' /\ NumbersKept
  BY DEF tableVars, TablesInv, TablesAgree, NumbersKept, Known

(* readdir numbers entries of the directory, which are paths.              *)
LEMMA ReaddirNumbers ==
    ASSUME TablesInv, ListingInv, NEW room \in 1..2, Readdir(room)
    PROVE  TablesInv' /\ NumbersKept
  <1>1. listing # Closed /\ listing.ino \in Known /\ listing.offset \in Nat
      BY DEF Readdir, ListingInv, Listing
  <1>2. PICK p, e, k : p = inodes[listing.ino] /\ e = Entries(p) /\ k = listing.offset
      OBVIOUS
  <1>3. e \in Seq(Paths) /\ k \in Nat
      BY <1>1, <1>2, KnownPaths, EntriesAre
  <1>4. PICK r : r = SubSeq(e, k + 1, Len(e))
      OBVIOUS
  <1>5. PICK n : /\ n = (IF room < Len(r) THEN room ELSE Len(r))
                 /\ NumberAll(SubSeq(r, 1, IF n < Len(r) THEN n + 1 ELSE n))
      BY <1>2, <1>4 DEF Readdir
  <1>6. r \in Seq(Paths) /\ Len(r) \in Nat
    <2>1. PICK f, l : f = k + 1 /\ l = Len(e)
        OBVIOUS
    <2>2. f \in Int /\ l \in Int /\ \A i \in f .. l : e[i] \in Paths
        BY <1>3, <2>1, LenProperties, ElementOfSeq
    <2>3. SubSeq(e, f, l) \in Seq(Paths)
        BY <2>2, SubSeqProperties
    <2> QED
        BY <1>4, <2>1, <2>3, LenProperties
  <1>7. PICK u : u = IF n < Len(r) THEN n + 1 ELSE n
      OBVIOUS
  <1>8. u \in Nat /\ u <= Len(r)
      BY <1>5, <1>6, <1>7
  <1>9. SubSeq(r, 1, u) \in Seq(Paths)
    <2>1. PICK f : f = 1
        OBVIOUS
    <2>2. f \in Int /\ u \in Int /\ \A i \in f .. u : r[i] \in Paths
        BY <1>6, <1>8, <2>1, ElementOfSeq
    <2>3. SubSeq(r, f, u) \in Seq(Paths)
        BY <2>2, SubSeqProperties
    <2> QED
        BY <2>1, <2>3
  <1> QED
      BY <1>5, <1>7, <1>9, NumberAllKeeps

(* Every step keeps the tables inverse and every number's path.            *)
LEMMA TablesStep ==
    ASSUME TablesInv, ListingInv, [Next]_vars
    PROVE  TablesInv' /\ NumbersKept
  <1>1. CASE UNCHANGED tableVars
      BY <1>1, SameTables
  <1>2. ASSUME NEW p \in Nodes, Lookup(p) \/ Mkdir(p) \/ Create(p)
        PROVE  TablesInv' /\ NumbersKept
    <2>1. NumberAll(<<p>>) /\ p \in Paths
        BY <1>2 DEF Lookup, Mkdir, Create, Paths
    <2> QED
        BY <2>1, NumberOne
  <1>3. CASE Beginning \/ Fail \/ (\E ino \in Known : Open(ino))
      BY <1>1, <1>3 DEF Beginning, OpenBegin, WriteBegin, NameBegin, RenameBegin,
                        Checked, Fail, Open, OpensAs
  <1>4. ASSUME NEW p \in Nodes, NEW q \in Nodes, Unlink(p) \/ Rmdir(p) \/ Rename(p, q)
        PROVE  TablesInv' /\ NumbersKept
      BY <1>1, <1>4 DEF Unlink, Rmdir, Gone, Rename
  <1>5. ASSUME NEW h \in 1..MaxHandles, Write(h) \/ Release(h)
        PROVE  TablesInv' /\ NumbersKept
      BY <1>1, <1>5 DEF Write, Release
  <1>6. CASE \/ \E ino \in Known : Opendir(ino) \/ Setattr(ino)
             \/ Releasedir \/ \E p \in Nodes : HandlePatch(p)
      BY <1>1, <1>6 DEF Opendir, Setattr, Releasedir, HandlePatch
  <1>7. CASE \/ RenameCheck \/ Invalidate \/ (\E p \in Nodes : Signal(p))
             \/ UNCHANGED vars
      BY <1>1, <1>7 DEF RenameCheck, Invalidate, Tells, Signal, vars
  <1> QED
      BY <1>2, <1>3, <1>4, <1>5, <1>6, <1>7, ReaddirNumbers, NextParts
      DEF Serving, Replying, Apart

-----------------------------------------------------------------------------
(* An open file keeps its number and its path.                             *)
LEMMA HandlesStep ==
    ASSUME AllInv, [Next]_vars, TablesInv', NumbersKept
    PROVE  HandlesInv'
  <1> DEFINE R == [ino : Known, obj : Objects, write : BOOLEAN]
  <1>1. Known \subseteq Known' /\ \A i \in Known : inodes'[i] = inodes[i]
      BY DEF NumbersKept
  <1>2. R \subseteq R'
      BY <1>1
  <1>3. CASE UNCHANGED handles
    <2>1. handles \in [1..MaxHandles -> {Closed} \cup R']
        BY <1>2 DEF AllInv, HandlesInv
    <2>2. \A h \in 1..MaxHandles : handles[h] # Closed => handles[h].ino \in Known
        BY DEF AllInv, HandlesInv
    <2> QED
        BY <1>1, <1>3, <2>1, <2>2 DEF AllInv, HandlesInv
  <1>4. ASSUME NEW h \in 1..MaxHandles, NEW v, handles' = [handles EXCEPT ![h] = v],
               v = Closed \/ (v \in R' /\ inodes'[v.ino] \in Nodes)
        PROVE  HandlesInv'
    <2>1. \A g \in 1..MaxHandles :
             handles[g] # Closed => handles[g].ino \in Known
                                    /\ inodes[handles[g].ino] \in Nodes
        BY DEF AllInv, HandlesInv
    <2>2. handles' \in [1..MaxHandles -> {Closed} \cup R']
        BY <1>2, <1>4 DEF AllInv, HandlesInv
    <2>3. \A g \in 1..MaxHandles : handles'[g] = IF g = h THEN v ELSE handles[g]
        BY <1>4 DEF AllInv, HandlesInv
    <2>4. \A g \in 1..MaxHandles :
             handles'[g] # Closed => inodes'[handles'[g].ino] \in Nodes
        BY <1>1, <1>4, <2>1, <2>3
    <2> QED
        BY <2>2, <2>4 DEF HandlesInv
  <1>5. ASSUME NEW ino \in Known, NEW w \in BOOLEAN, OpensAs(ino, w)
        PROVE  HandlesInv'
    <2>1. PICK v : v = [ino |-> ino, obj |-> entry[inodes[ino]], write |-> w]
        OBVIOUS
    <2>2. PICK h \in 1..MaxHandles : handles' = [handles EXCEPT ![h] = v]
        BY <1>5, <2>1 DEF OpensAs
    <2>3. entry[inodes[ino]] \in Objects /\ inodes[ino] \in Nodes
        BY <1>5 DEF OpensAs, IsFile
    <2>4. v \in R' /\ v.ino = ino /\ inodes'[ino] \in Nodes
        BY <1>1, <2>1, <2>3
    <2> QED
        BY <1>4, <2>2, <2>4
  <1>6. ASSUME NEW p \in Nodes, Create(p)
        PROVE  HandlesInv'
    <2>1. PICK o \in Objects, h \in 1..MaxHandles :
             /\ NumberAll(<<p>>)
             /\ handles' = [handles EXCEPT ![h] =
                               [ino |-> paths'[p], obj |-> o, write |-> TRUE]]
        BY <1>6 DEF Create
    <2>2. PICK v : v = [ino |-> paths'[p], obj |-> o, write |-> TRUE]
        OBVIOUS
    <2>3. p \in Paths
        BY DEF Paths
    <2>4. paths'[p] \in Known'
        BY <2>1, <2>3, NumberOne DEF AllInv
    <2>5. 0 \notin Known' /\ (paths'[p] # 0 => inodes'[paths'[p]] = p)
        BY <2>3, LenProperties DEF TablesInv, TablesAgree, Known
    <2>6. v \in R' /\ inodes'[v.ino] \in Nodes
        BY <2>2, <2>4, <2>5
    <2> QED
        BY <1>4, <2>1, <2>2, <2>6
  <1>7. ASSUME NEW h \in 1..MaxHandles, Write(h) \/ Release(h)
        PROVE  HandlesInv'
      BY <1>3, <1>4, <1>7 DEF Write, Release
  <1>8. CASE Beginning \/ Fail \/ (\E p \in Nodes : Lookup(p))
      BY <1>3, <1>8 DEF Beginning, OpenBegin, WriteBegin, NameBegin, RenameBegin,
                        Checked, Fail, Lookup
  <1>9. ASSUME NEW p \in Nodes, NEW q \in Nodes,
               Mkdir(p) \/ Unlink(p) \/ Rmdir(p) \/ Rename(p, q)
        PROVE  HandlesInv'
      BY <1>3, <1>9 DEF Mkdir, Unlink, Rmdir, Gone, Rename
  <1>10. CASE \/ \E ino \in Known : Opendir(ino) \/ Setattr(ino)
              \/ Releasedir \/ (\E room \in 1..2 : Readdir(room))
              \/ \E p \in Nodes : HandlePatch(p)
      BY <1>3, <1>10 DEF Opendir, Setattr, Releasedir, Readdir, HandlePatch
  <1>11. CASE \/ RenameCheck \/ Invalidate \/ (\E p \in Nodes : Signal(p))
              \/ UNCHANGED vars
      BY <1>3, <1>11 DEF RenameCheck, Invalidate, Tells, Signal, vars
  <1>12. CASE \E ino \in Known : Open(ino)
      BY <1>5, <1>12 DEF Open
  <1> QED
      BY <1>6, <1>7, <1>8, <1>9, <1>10, <1>11, <1>12, NextParts
      DEF Serving, Replying, Apart

-----------------------------------------------------------------------------
(* The request.  What is broadcast is a path below the root.               *)
LEMMA NewsStep ==
    ASSUME AllInv, [Next]_vars
    PROVE  (news \subseteq Nodes)'
  <1>1. CASE news' = {} \/ news' = news
      BY <1>1 DEF AllInv
  <1>2. CASE Serving
      BY <1>1, <1>2 DEF Serving, Write, Mkdir, Unlink, Rmdir, Gone, Create, Rename, GoesOn
  <1>3. CASE Beginning \/ Replying
      BY <1>1, <1>3 DEF Beginning, OpenBegin, WriteBegin, NameBegin, RenameBegin,
                        Checked, Replying, Fail, Open, OpensAs, Lookup, Replies
  <1>4. CASE Apart
      BY <1>1, <1>4 DEF Apart, Opendir, Setattr, Release, Readdir, Releasedir, HandlePatch
  <1>5. CASE Invalidate
    <2>1. req.pc \in {"tell", "tellNew"} /\ Idle.pc = "idle" /\ ReqType
        BY <1>5 DEF Invalidate, AllInv, ReqInv, Idle
    <2>2. req \in Request
        BY <2>1 DEF ReqType
    <2> QED
        BY <1>5, <2>2 DEF Invalidate, Tells, Request
  <1>6. CASE RenameCheck \/ (\E p \in Nodes : Signal(p)) \/ UNCHANGED vars
      BY <1>1, <1>6 DEF RenameCheck, Signal, vars
  <1> QED
      BY <1>2, <1>3, <1>4, <1>5, <1>6, NextParts

(* The check finds a path free.                                            *)
LEMMA CheckedKeeps ==
    ASSUME NEW op \in Ops, NEW arg \in Nat, NEW p \in Nodes, NEW q \in Nodes,
           Checked(op, arg, p, q), op # "rename" => q = p
    PROVE  ReqInv'
  <1>1. PICK pc \in {"check", "act"} :
           /\ req' = [pc |-> pc, op |-> op, arg |-> arg, path |-> p, to |-> q,
                      raced |-> {}, changed |-> {}]
           /\ op # "rename" => pc = "act"
           /\ op = "rename" => pc = "check"
      BY DEF Checked
  <1>2. req' \in Request
      BY <1>1 DEF Request
  <1>3. p \notin dirtyFiles'
      BY DEF Checked, Free
  <1>4. LockedSince'
      BY <1>1, <1>3 DEF LockedSince
  <1>5. ToTell'
      BY <1>1 DEF ToTell
  <1> QED
      BY <1>2, <1>4, <1>5 DEF ReqInv, ReqType

(* DIRTY is noted, CLEAN only frees.                                       *)
LEMMA SignalKeeps ==
    ASSUME ReqInv, NEW p \in Nodes, HandleDirty(p) \/ HandleClean(p)
    PROVE  ReqInv'
  <1>1. CASE req = Idle
      BY <1>1 DEF HandleDirty, HandleClean, ReqInv, ReqType
  <1>2. CASE req # Idle
    <2>1. PICK R \in SUBSET {p} :
             /\ req' = [req EXCEPT !.raced = @ \cup R]
             /\ dirtyFiles' \subseteq dirtyFiles \cup {p}
             /\ p \in dirtyFiles' /\ p \in {req.path, req.to} => p \in R
      <3>1. req = [req EXCEPT !.raced = @ \cup {}]
          BY <1>2 DEF ReqInv, ReqType, Request
      <3>2. CASE HandleClean(p)
        <4>1. /\ {} \in SUBSET {p} /\ req' = [req EXCEPT !.raced = @ \cup {}]
              /\ dirtyFiles' \subseteq dirtyFiles \cup {p} /\ p \notin dirtyFiles'
            BY <3>1, <3>2 DEF HandleClean
        <4> QED
            BY <4>1
      <3>3. CASE HandleDirty(p) /\ p \in {req.path, req.to}
          BY <1>2, <3>3 DEF HandleDirty
      <3>4. CASE HandleDirty(p) /\ p \notin {req.path, req.to}
        <4>1. /\ {} \in SUBSET {p} /\ req' = [req EXCEPT !.raced = @ \cup {}]
              /\ dirtyFiles' \subseteq dirtyFiles \cup {p}
              /\ p \notin {req.path, req.to}
            BY <3>1, <3>4 DEF HandleDirty
        <4> QED
            BY <4>1
      <3> QED
          BY <3>2, <3>3, <3>4
    <2>2. req \in Request /\ LockedSince /\ ToTell
        BY <1>2 DEF ReqInv, ReqType
    <2>3. req' \in Request /\ req' # Idle
        BY <2>1, <2>2 DEF Request, Idle
    <2>4. /\ req'.pc = req.pc /\ req'.op = req.op /\ req'.path = req.path
          /\ req'.to = req.to /\ req'.changed = req.changed
          /\ req'.raced = req.raced \cup R
        BY <2>1, <2>2 DEF Request
    <2>5. LockedSince'
        BY <2>1, <2>2, <2>4 DEF LockedSince
    <2>6. \A r : Elsewhere(r) => Elsewhere(r)'
        BY <2>3, <2>4 DEF Elsewhere, Below
    <2>7. ToTell'
        BY <2>2, <2>4, <2>6 DEF ToTell, Excused
    <2> QED
        BY <2>3, <2>5, <2>7 DEF ReqInv, ReqType
  <1> QED
      BY <1>1, <1>2

(* Effect and broadcast move on in the request.                            *)
LEMMA MovesOn ==
    ASSUME ReqInv, req # Idle, UNCHANGED dirtyFiles, NEW pc, NEW C \in SUBSET Nodes,
           pc \in {"act", "tell", "tellNew"},
           req' = [req EXCEPT !.pc = pc, !.changed = C],
           req.pc = "check" => req.to \notin dirtyFiles,
           pc = "act" => C = {},
           pc = "tell" => \A p \in C : p \in {req.path, req.to} \/ Elsewhere(p),
           pc = "tellNew" => \A p \in C : p = req.to \/ Excused(p)
    PROVE  ReqInv'
  <1>1. req \in Request /\ LockedSince /\ ToTell
      BY DEF ReqInv, ReqType
  <1>2. req' \in Request /\ req' # Idle
      BY <1>1 DEF Request, Idle
  <1>3. /\ req'.pc = pc /\ req'.op = req.op /\ req'.path = req.path
        /\ req'.to = req.to /\ req'.changed = C /\ req'.raced = req.raced
      BY <1>1 DEF Request
  <1>4. LockedSince'
      BY <1>1, <1>3 DEF LockedSince
  <1>5. \A r : Elsewhere(r) => Elsewhere(r)'
      BY <1>2, <1>3 DEF Elsewhere, Below
  <1>6. ToTell'
      BY <1>1, <1>3, <1>5 DEF ToTell, Excused
  <1> QED
      BY <1>2, <1>4, <1>6 DEF ReqInv, ReqType

LEMMA BeginningKeeps ==
    ASSUME TablesInv, HandlesInv, Beginning
    PROVE  ReqInv'
  <1>1. \A op \in {"openR", "openRW", "write", "lookup", "mkdir", "unlink",
                   "rmdir", "create", "rename"} : op \in Ops
      BY DEF Ops
  <1>2. ASSUME NEW ino \in Known, OpenBegin(ino)
        PROVE  ReqInv'
    <2>1. ino \in Nat
        BY LenProperties DEF TablesInv, Known
    <2> QED
        BY <1>1, <1>2, <2>1, CheckedKeeps DEF OpenBegin
  <1>3. ASSUME NEW h \in 1..MaxHandles, WriteBegin(h)
        PROVE  ReqInv'
    <2>1. inodes[handles[h].ino] \in Nodes
        BY <1>3 DEF WriteBegin, HandlesInv
    <2>2. h \in Nat
        BY BoundAssumption
    <2> QED
        BY <1>1, <1>3, <2>1, <2>2, CheckedKeeps DEF WriteBegin
  <1>4. ASSUME NEW p \in Nodes, NameBegin(p)
        PROVE  ReqInv'
    <2>1. PICK op \in {"lookup", "mkdir", "unlink", "rmdir", "create"} :
             Checked(op, 0, p, p)
        BY <1>4 DEF NameBegin
    <2> QED
        BY <1>1, <2>1, CheckedKeeps
  <1>5. ASSUME NEW p \in Nodes, NEW q \in Nodes, RenameBegin(p, q)
        PROVE  ReqInv'
      BY <1>1, <1>5, CheckedKeeps DEF RenameBegin
  <1> QED
      BY <1>2, <1>3, <1>4, <1>5 DEF Beginning

LEMMA InvalidateKeeps ==
    ASSUME ReqInv, Invalidate
    PROVE  ReqInv'
  <1>1. CASE req' = Idle
      BY <1>1 DEF ReqInv, ReqType
  <1>2. CASE req' # Idle
    <2>1. /\ req.pc = "tell" /\ news' = {req.path} \ dirtyFiles
          /\ req' = [req EXCEPT !.pc = "tellNew", !.changed = @ \ news']
          /\ UNCHANGED dirtyFiles
        BY <1>2 DEF Invalidate, Tells
    <2>2. req # Idle /\ req \in Request /\ LockedSince /\ ToTell
        BY <2>1 DEF ReqInv, ReqType, Idle
    <2>3. PICK C : C = req.changed \ news'
        OBVIOUS
    <2>4. req' = [req EXCEPT !.pc = "tellNew", !.changed = C] /\ C \in SUBSET Nodes
        BY <2>1, <2>2, <2>3 DEF Request
    <2>5. \A p \in C : p = req.to \/ Excused(p)
        BY <2>1, <2>2, <2>3 DEF ToTell, LockedSince, Excused
    <2> QED
        BY <2>1, <2>2, <2>4, <2>5, MovesOn
  <1> QED
      BY <1>1, <1>2

LEMMA ReqStep ==
    ASSUME AllInv, [Next]_vars
    PROVE  ReqInv'
  <1>1. StoreInv /\ LocksType /\ TablesInv /\ HandlesInv /\ ReqInv /\ ReqType
      BY DEF AllInv, ReqInv
  <1>2. CASE UNCHANGED <<req, dirtyFiles>>
    <2>1. \A p : Elsewhere(p) => Elsewhere(p)'
        BY <1>2 DEF Elsewhere, Below
    <2> QED
        BY <1>1, <1>2, <2>1 DEF ReqInv, ReqType, LockedSince, ToTell, Excused
  <1>3. CASE Serving
    <2>1. /\ req \in Request /\ req.pc = "act" /\ GoesOn /\ req # Idle
          /\ \A p \in Nodes :
                Seen(p)' = Seen(p) \/ p \in {req.path, req.to} \/ Elsewhere(p)
        BY <1>1, <1>3, ServingChanges DEF Idle
    <2>2. PICK C : C = {p \in Nodes : Seen(p)' # Seen(p)}
        OBVIOUS
    <2>3. req' = [req EXCEPT !.pc = "tell", !.changed = C]
        BY <2>1, <2>2 DEF GoesOn
    <2>4. UNCHANGED dirtyFiles
        BY <1>3 DEF Serving, Write, Mkdir, Unlink, Rmdir, Gone, Create, Rename
    <2>5. /\ C \in SUBSET Nodes
          /\ \A p \in C : p \in {req.path, req.to} \/ Elsewhere(p)
        BY <2>1, <2>2
    <2>6. ReqInv /\ req # Idle /\ req.pc # "check"
        BY <1>1, <2>1
    <2> QED
        BY <2>3, <2>4, <2>5, <2>6, MovesOn
  <1>4. CASE RenameCheck
    <2>1. req.pc = "check" /\ req # Idle /\ req \in Request /\ ToTell
        BY <1>1, <1>4 DEF RenameCheck, ReqInv, ReqType, Idle
    <2>2. PICK C : C = {}
        OBVIOUS
    <2>3. req' = [req EXCEPT !.pc = "act", !.changed = C]
        BY <1>4, <2>1, <2>2 DEF RenameCheck, ToTell, Request
    <2>4. req.to \notin dirtyFiles /\ UNCHANGED dirtyFiles
        BY <1>4 DEF RenameCheck, Free
    <2>5. C \in SUBSET Nodes
        BY <2>2
    <2> QED
        BY <1>1, <2>1, <2>2, <2>3, <2>4, <2>5, MovesOn
  <1>5. CASE Replying
    <2>1. req' = Idle \/ (UNCHANGED <<req, dirtyFiles>>)
        BY <1>5 DEF Replying, Fail, Open, OpensAs, Lookup, Replies
    <2> QED
        BY <1>2, <2>1 DEF ReqInv, ReqType
  <1>6. CASE Apart
      BY <1>2, <1>6 DEF Apart, Opendir, Setattr, Release, Readdir, Releasedir, HandlePatch
  <1>7. CASE \E p \in Nodes : Signal(p)
      BY <1>1, <1>7, SignalKeeps DEF Signal
  <1>8. CASE UNCHANGED vars
      BY <1>2, <1>8 DEF vars
  <1> QED
      BY <1>1, <1>3, <1>4, <1>5, <1>6, <1>7, <1>8, BeginningKeeps, InvalidateKeeps,
         NextParts

-----------------------------------------------------------------------------
(* The listing.  A step that leaves it and the directory alone:            *)
LEMMA ListingSame ==
    ASSUME TablesInv, TablesInv', NumbersKept, ListingInv, UNCHANGED <<entry, listing>>
    PROVE  ListingInv'
  <1>1. CASE listing = Closed
      BY <1>1 DEF ListingInv
  <1>2. CASE listing # Closed
    <2>1. listing \in Listing /\ listing.ino \in Known
        BY <1>2 DEF ListingInv, Listing
    <2>2. inodes'[listing'.ino] = inodes[listing.ino] /\ listing' \in Listing'
        BY <2>1 DEF NumbersKept, Listing
    <2>3. PICK p : p = inodes[listing.ino] /\ p = inodes'[listing'.ino]
        BY <2>2
    <2>4. NamesIn(p)' = NamesIn(p) /\ Listed(p)' = Listed(p)
        BY DEF NamesIn, NamesAt, Listed
    <2>5. \A n : (Comes(n) => Comes(n)') /\ (Passed(n) => Passed(n)')
        BY <2>3, <2>4 DEF Comes, Passed
    <2>6. (SeenOrComes => SeenOrComes') /\ (SeenPassed => SeenPassed')
          /\ (SeenOnce => SeenOnce')
        BY <2>3, <2>5 DEF SeenOrComes, SeenPassed, SeenOnce
    <2> QED
        BY <1>2, <2>2, <2>3, <2>4, <2>6 DEF ListingInv
  <1> QED
      BY <1>1, <1>2

(* opendir: nothing seen, everything to come.                              *)
LEMMA OpendirKeeps ==
    ASSUME TablesInv, TablesInv', NumbersKept, NEW ino \in Known, Opendir(ino)
    PROVE  ListingInv'
  <1>1. PICK p : p = inodes[ino]
      OBVIOUS
  <1>2. p \in Paths /\ inodes'[ino] = p /\ ino \in Known'
      BY <1>1, KnownPaths DEF NumbersKept
  <1>3. PICK e : e = <<>>
      OBVIOUS
  <1>4. listing' = [ino |-> ino, offset |-> 0, seen |-> e,
                    kept |-> NamesIn(p), shrunk |-> FALSE, grew |-> FALSE]
        /\ UNCHANGED entry
      BY <1>1, <1>3 DEF Opendir, storeVars
  <1>5. NamesIn(p)' = NamesIn(p) /\ Listed(p)' = Listed(p) /\ NamesIn(p) \subseteq Names
      BY <1>4 DEF NamesIn, NamesAt, Listed
  <1>6. e \in Seq(Paths) /\ e \in Seq(Paths') /\ Len(e) = 0
      BY <1>3
  <1>7. /\ listing' \in Listing' /\ listing'.ino = ino /\ listing'.offset = 0
        /\ listing'.seen = e /\ listing'.kept = NamesIn(p)
      BY <1>2, <1>4, <1>5, <1>6 DEF Listing
  <1>8. PICK f : f = Listed(p)
      OBVIOUS
  <1>9. /\ Len(f) \in Nat
        /\ \A n \in NamesIn(p) : \E j \in 1 .. Len(f) : f[j] = n
      BY <1>2, <1>8, ListedNames
  <1>10. SeenOrComes'
    <2>1. ASSUME NEW n \in NamesIn(p)
          PROVE  Comes(n)'
      <3>1. PICK j \in 1 .. Len(f) : f[j] = n
          BY <1>9
      <3>2. j + 2 > 0
          BY <1>9
      <3> QED
          BY <1>2, <1>5, <1>7, <1>8, <3>1, <3>2 DEF Comes
    <2> QED
        BY <1>7, <2>1 DEF SeenOrComes
  <1>11. SeenPassed' /\ SeenOnce'
      BY <1>6, <1>7 DEF SeenPassed, SeenOnce
  <1> QED
      BY <1>2, <1>5, <1>6, <1>7, <1>10, <1>11 DEF ListingInv

(* A change of the store while a listing is read.                          *)
LEMMA WatchedKeeps ==
    ASSUME TablesInv, TablesInv', NumbersKept, ListingInv, Watched
    PROVE  ListingInv'
  <1>1. CASE listing = Closed
      BY <1>1 DEF ListingInv, Watched
  <1>2. CASE listing # Closed
    <2>1. /\ listing \in Listing /\ listing.ino \in Known
          /\ listing.kept \subseteq NamesIn(inodes[listing.ino])
          /\ Len(listing.seen) = listing.offset
        BY <1>2 DEF ListingInv, Listing
    <2>2. PICK p : p = inodes[listing.ino]
        OBVIOUS
    <2>3. p \in Paths /\ listing.ino \in Known' /\ inodes'[listing.ino] = p
        BY <2>1, <2>2, KnownPaths DEF NumbersKept
    <2>4. PICK now, new : now = NamesIn(p) /\ new = NamesIn(p)'
        OBVIOUS
    <2>5. new = NamesAt(entry', p) /\ new \subseteq Names
        BY <2>4 DEF NamesIn, NamesAt
    <2>6. listing' = [listing EXCEPT !.kept = @ \cap new,
                         !.shrunk = @ \/ now \ new # {},
                         !.grew = @ \/ new \ now # {}]
        BY <1>2, <2>2, <2>4, <2>5 DEF Watched
    <2>7. /\ listing' \in Listing' /\ listing'.ino = listing.ino
          /\ listing'.offset = listing.offset /\ listing'.seen = listing.seen
          /\ listing'.kept = listing.kept \cap new
          /\ ~listing'.shrunk => ~listing.shrunk /\ now \subseteq new
          /\ ~listing'.grew => ~listing.grew /\ new \subseteq now
        BY <2>1, <2>3, <2>6 DEF Listing
    <2>8. PICK f, g : f = Listed(p) /\ g = Listed(p)'
        OBVIOUS
    <2>9. /\ f = Ordered(now)[Len(Order)] /\ g = Ordered(new)[Len(Order)]
          /\ Len(Order) \in 0 .. Len(Order)
      <3>1. Len(Order) \in Nat
          BY OrderAssumption, LenProperties
      <3> QED
          BY <2>4, <2>8, <3>1 DEF Listed
    <2>10. Len(f) \in Nat /\ Len(g) \in Nat /\ listing.offset \in Nat
      <3>1. Holds(f, now, Len(Order)) /\ Holds(g, new, Len(Order))
          BY <2>9, OrderedHolds
      <3> QED
          BY <2>1, <3>1, LenProperties DEF Holds, Listing
    <2>11. ASSUME ~listing'.shrunk
           PROVE  SeenOrComes'
      <3>1. Behind(f, g)
          BY <2>7, <2>9, <2>11, OrderedGrown
      <3>2. SeenOrComes
          BY <1>2, <2>7, <2>11 DEF ListingInv
      <3>3. ASSUME NEW n, Comes(n)
            PROVE  Comes(n)'
        <4>1. PICK j \in 1 .. Len(f) : f[j] = n /\ j + 2 > listing.offset
            BY <2>2, <2>8, <3>3 DEF Comes
        <4>2. PICK k \in 1 .. Len(g) : j <= k /\ g[k] = n
            BY <3>1, <4>1 DEF Behind
        <4>3. k + 2 > listing.offset
            BY <2>10, <4>1, <4>2
        <4> QED
            BY <2>3, <2>7, <2>8, <4>2, <4>3 DEF Comes
      <3> QED
          BY <2>2, <2>3, <2>7, <3>2, <3>3 DEF SeenOrComes
    <2>12. ASSUME ~listing'.grew
           PROVE  SeenPassed' /\ SeenOnce'
      <3>1. Behind(g, f)
          BY <2>7, <2>9, <2>12, OrderedGrown
      <3>2. SeenPassed /\ SeenOnce
          BY <1>2, <2>7, <2>12 DEF ListingInv
      <3>3. ASSUME NEW n, Passed(n)
            PROVE  Passed(n)'
        <4>1. ASSUME NEW j \in 1 .. Len(g), g[j] = n
              PROVE  j + 2 <= listing.offset
          <5>1. PICK k \in 1 .. Len(f) : j <= k /\ f[k] = n
              BY <3>1, <4>1 DEF Behind
          <5>2. k + 2 <= listing.offset
              BY <2>2, <2>8, <3>3, <5>1 DEF Passed
          <5> QED
              BY <2>10, <5>1, <5>2
        <4> QED
            BY <2>3, <2>7, <2>8, <4>1 DEF Passed
      <3> QED
          BY <2>2, <2>3, <2>7, <3>2, <3>3 DEF SeenPassed, SeenOnce
    <2> QED
        BY <2>1, <2>3, <2>4, <2>7, <2>11, <2>12 DEF ListingInv
  <1> QED
      BY <1>1, <1>2

(* A call of readdir: what it returns is seen, and is passed.              *)
LEMMA ReaddirKeeps ==
    ASSUME TablesInv, TablesInv', NumbersKept, ListingInv,
           NEW room \in 1..2, Readdir(room)
    PROVE  ListingInv'
  <1>1. /\ listing # Closed /\ listing \in Listing /\ listing.ino \in Known
        /\ listing.offset \in Nat /\ listing.seen \in Seq(Paths)
        /\ listing.kept \subseteq NamesIn(inodes[listing.ino])
        /\ Len(listing.seen) = listing.offset
        /\ UNCHANGED entry
      BY DEF Readdir, ListingInv, Listing, storeVars
  <1>2. PICK p : p = inodes[listing.ino]
      OBVIOUS
  <1>3. p \in Paths /\ listing.ino \in Known' /\ inodes'[listing.ino] = p
      BY <1>1, <1>2, KnownPaths DEF NumbersKept
  <1>4. NamesIn(p)' = NamesIn(p) /\ Listed(p)' = Listed(p)
      BY <1>1 DEF NamesIn, NamesAt, Listed
  <1>5. PICK e, f, k, s : /\ e = Entries(p) /\ f = Listed(p)
                          /\ k = listing.offset /\ s = listing.seen
      OBVIOUS
  <1>6. /\ e \in Seq(Paths) /\ Len(e) = Len(f) + 2 /\ Len(f) \in Nat /\ k \in Nat
        /\ \A j \in 1 .. Len(f) : e[j + 2] = Append(p, f[j])
        /\ s \in Seq(Paths) /\ Len(s) = k
    <2>1. /\ e \in Seq(Paths) /\ Len(e) = Len(f) + 2
          /\ \A j \in 1 .. Len(f) : e[j + 2] = Append(p, f[j])
        BY <1>3, <1>5, EntriesAre
    <2>2. Len(f) \in Nat
        BY <1>3, <1>5, ListedNames
    <2> QED
        BY <1>1, <1>5, <2>1, <2>2
  <1>7. /\ \A j \in 1 .. Len(f) : f[j] \in Names
        /\ \A i, j \in 1 .. Len(f) : f[i] = f[j] => i = j
      BY <1>3, <1>5, ListedNames DEF NamesIn, NamesAt
  <1>8. PICK r, n, m, t : /\ r = SubSeq(e, k + 1, Len(e))
                          /\ n = (IF room < Len(r) THEN room ELSE Len(r))
                          /\ m = SubSeq(r, 1, n) /\ t = s \o m
      OBVIOUS
  <1>9. listing' = [listing EXCEPT !.offset = @ + n, !.seen = @ \o m]
      BY <1>2, <1>5, <1>8 DEF Readdir
  <1>10. n \in Nat /\ n <= Len(r)
    <2>1. Len(r) \in Nat
      <3>1. PICK b, l : b = k + 1 /\ l = Len(e)
          OBVIOUS
      <3>2. b \in Int /\ l \in Int /\ \A i \in b .. l : e[i] \in Paths
          BY <1>6, <3>1, ElementOfSeq
      <3>3. SubSeq(e, b, l) \in Seq(Paths)
          BY <3>2, SubSeqProperties
      <3> QED
          BY <1>8, <3>1, <3>3, LenProperties
    <2>2. room \in Nat /\ n = IF room < Len(r) THEN room ELSE Len(r)
        BY <1>8
    <2> QED
        BY <2>1, <2>2
  <1>11. /\ m \in Seq(Paths) /\ Len(m) = n /\ (n # 0 => k + n <= Len(f) + 2)
         /\ \A i \in 1 .. n : m[i] = e[k + i]
    <2>1. /\ e \in Seq(Paths) /\ k \in Nat /\ n \in Nat
          /\ n <= Len(SubSeq(e, k + 1, Len(e)))
        BY <1>6, <1>8, <1>10
    <2>2. PICK z : z = SubSeq(SubSeq(e, k + 1, Len(e)), 1, n)
        OBVIOUS
    <2>3. /\ z \in Seq(Paths) /\ Len(z) = n /\ (n # 0 => k + n <= Len(e))
          /\ \A i \in 1 .. n : z[i] = e[k + i]
        BY <2>1, <2>2, ReaddirReturns
    <2>4. z = m /\ Len(e) = Len(f) + 2
        BY <1>6, <1>8, <2>2
    <2> QED
        BY <2>3, <2>4
  <1>12. /\ t \in Seq(Paths) /\ Len(t) = k + n
         /\ \A i \in 1 .. k : t[i] = s[i]
         /\ \A i \in k + 1 .. k + n : t[i] = e[i]
    <2>1. /\ t \in Seq(Paths) /\ Len(t) = Len(s) + Len(m)
          /\ \A i \in 1 .. Len(s) + Len(m) :
                t[i] = IF i <= Len(s) THEN s[i] ELSE m[i - Len(s)]
      <3>1. s \in Seq(Paths) /\ m \in Seq(Paths)
          BY <1>6, <1>11
      <3>2. /\ s \o m \in Seq(Paths) /\ Len(s \o m) = Len(s) + Len(m)
            /\ \A i \in 1 .. Len(s) + Len(m) :
                  (s \o m)[i] = IF i <= Len(s) THEN s[i] ELSE m[i - Len(s)]
          BY <3>1, ConcatProperties
      <3>3. t = s \o m
          BY <1>8
      <3> QED
          BY <3>2, <3>3
    <2>2. Len(s) = k /\ Len(m) = n
        BY <1>6, <1>11
    <2>3. \A i \in 1 .. k + n : t[i] = IF i <= k THEN s[i] ELSE m[i - k]
        BY <2>1, <2>2
    <2>4. ASSUME NEW i \in k + 1 .. k + n
          PROVE  t[i] = e[i]
      <3>1. i \in 1 .. k + n /\ ~(i <= k) /\ i - k \in 1 .. n /\ k + (i - k) = i
          BY <1>6, <1>10
      <3>2. t[i] = m[i - k] /\ m[i - k] = e[k + (i - k)]
          BY <1>11, <2>3, <3>1
      <3> QED
          BY <3>1, <3>2
    <2>5. \A i \in 1 .. k : i \in 1 .. k + n /\ i <= k
        BY <1>6, <1>10
    <2> QED
        BY <2>1, <2>2, <2>3, <2>4, <2>5
  <1>13. /\ listing' \in Listing' /\ listing'.ino = listing.ino
         /\ listing'.offset = k + n /\ listing'.seen = t
         /\ listing'.kept = listing.kept /\ listing'.shrunk = listing.shrunk
         /\ listing'.grew = listing.grew
    <2>1. listing' = [listing EXCEPT !.offset = k + n, !.seen = t]
        BY <1>1, <1>5, <1>8, <1>9 DEF Listing
    <2>2. k + n \in Nat
        BY <1>6, <1>10
    <2> QED
        BY <1>1, <1>3, <1>12, <2>1, <2>2 DEF Listing
  <1>14. ASSUME NEW i \in k + 1 .. k + n, 3 <= i
         PROVE  i - 2 \in 1 .. Len(f) /\ t[i] = Append(p, f[i - 2])
    <2>1. i - 2 \in 1 .. Len(f) /\ (i - 2) + 2 = i
        BY <1>6, <1>10, <1>11, <1>14
    <2> QED
        BY <1>6, <1>12, <2>1
  <1>15. ASSUME SeenOrComes
         PROVE  SeenOrComes'
    <2>1. ASSUME NEW x \in listing.kept
          PROVE  (\E i \in 1 .. Len(t) : t[i] = Append(p, x)) \/ Comes(x)'
      <3>1. CASE \E i \in 1 .. Len(s) : s[i] = Append(p, x)
        <4>1. PICK i \in 1 .. k : s[i] = Append(p, x)
            BY <1>6, <3>1
        <4>2. i \in 1 .. Len(t) /\ t[i] = Append(p, x)
            BY <1>6, <1>10, <1>12, <4>1
        <4> QED
            BY <4>2
      <3>2. CASE Comes(x)
        <4>1. PICK j \in 1 .. Len(f) : f[j] = x /\ j + 2 > k
            BY <1>2, <1>5, <3>2 DEF Comes
        <4>2. CASE j + 2 <= k + n
          <5>1. j + 2 \in k + 1 .. k + n /\ j + 2 \in 1 .. Len(t)
              BY <1>6, <1>10, <1>12, <4>1, <4>2
          <5>2. t[j + 2] = Append(p, x)
              BY <1>6, <1>12, <4>1, <5>1
          <5> QED
              BY <5>1, <5>2
        <4>3. CASE j + 2 > k + n
            BY <1>3, <1>4, <1>5, <1>13, <4>1, <4>3 DEF Comes
        <4>4. j + 2 <= k + n \/ j + 2 > k + n
            BY <1>6, <1>10
        <4> QED
            BY <4>2, <4>3, <4>4
      <3> QED
          BY <1>2, <1>5, <1>15, <3>1, <3>2 DEF SeenOrComes
    <2> QED
        BY <1>3, <1>13, <2>1 DEF SeenOrComes
  <1>16. ASSUME SeenPassed
         PROVE  SeenPassed'
    <2>1. ASSUME NEW x, Passed(x)
          PROVE  Passed(x)'
      <3>1. \A j \in 1 .. Len(f) : f[j] = x => j + 2 <= k
          BY <1>2, <1>5, <2>1 DEF Passed
      <3>2. \A j \in 1 .. Len(f) : f[j] = x => j + 2 <= k + n
          BY <1>6, <1>10, <3>1
      <3> QED
          BY <1>3, <1>4, <1>5, <1>13, <3>2 DEF Passed
    <2>2. ASSUME NEW i \in 3 .. Len(t)
          PROVE  \E x \in Names : t[i] = Append(p, x) /\ Passed(x)'
      <3>1. CASE i <= k
        <4>1. i \in 3 .. Len(s) /\ t[i] = s[i]
            BY <1>6, <1>12, <3>1
        <4> QED
            BY <1>2, <1>5, <1>16, <2>1, <4>1 DEF SeenPassed
      <3>2. CASE ~(i <= k)
        <4>1. i \in k + 1 .. k + n /\ 3 <= i
            BY <1>6, <1>10, <1>12, <3>2
        <4>2. i - 2 \in 1 .. Len(f) /\ t[i] = Append(p, f[i - 2])
            BY <1>14, <4>1
        <4>3. \A j \in 1 .. Len(f) : f[j] = f[i - 2] => j + 2 <= k + n
            BY <1>7, <4>1, <4>2
        <4>4. Passed(f[i - 2])'
            BY <1>3, <1>4, <1>5, <1>13, <4>3 DEF Passed
        <4> QED
            BY <1>7, <4>2, <4>4
      <3> QED
          BY <3>1, <3>2
    <2> QED
        BY <1>3, <1>13, <2>2 DEF SeenPassed
  <1>17. ASSUME SeenPassed, SeenOnce
         PROVE  SeenOnce'
    <2>1. ASSUME NEW i \in 3 .. k, NEW j \in k + 1 .. k + n, 3 <= j
          PROVE  t[i] # t[j]
      <3>1. i \in 3 .. Len(s) /\ t[i] = s[i]
          BY <1>6, <1>12
      <3>2. PICK x \in Names : s[i] = Append(p, x) /\ Passed(x)
          BY <1>2, <1>5, <1>17, <3>1 DEF SeenPassed
      <3>3. j - 2 \in 1 .. Len(f) /\ t[j] = Append(p, f[j - 2])
          BY <1>14, <2>1
      <3>4. f[j - 2] = x => j - 2 + 2 <= k
          BY <1>2, <1>5, <3>2, <3>3 DEF Passed
      <3>5. f[j - 2] # x
          BY <1>6, <1>10, <3>4
      <3> QED
          BY <1>3, <1>7, <3>1, <3>2, <3>3, <3>5, NamesTell
    <2>2. ASSUME NEW i \in k + 1 .. k + n, NEW j \in k + 1 .. k + n,
                 3 <= i, 3 <= j, i # j
          PROVE  t[i] # t[j]
      <3>1. /\ i - 2 \in 1 .. Len(f) /\ t[i] = Append(p, f[i - 2])
            /\ j - 2 \in 1 .. Len(f) /\ t[j] = Append(p, f[j - 2])
          BY <1>14, <2>2
      <3>2. i - 2 # j - 2
          BY <1>6, <1>10, <2>2
      <3>3. f[i - 2] # f[j - 2]
          BY <1>7, <3>1, <3>2
      <3> QED
          BY <1>3, <1>7, <3>1, <3>3, NamesTell
    <2>3. \A i, j \in 3 .. k : i # j => t[i] # t[j]
      <3>1. \A i \in 3 .. k : i \in 3 .. Len(s) /\ t[i] = s[i]
          BY <1>6, <1>12
      <3> QED
          BY <1>5, <1>17, <3>1 DEF SeenOnce
    <2>4. \A i \in 3 .. Len(t) : i \in 3 .. k \/ (i \in k + 1 .. k + n /\ 3 <= i)
        BY <1>6, <1>10, <1>12
    <2>5. \A i, j \in 3 .. Len(t) : i # j => t[i] # t[j]
        BY <2>1, <2>2, <2>3, <2>4
    <2> QED
        BY <1>13, <2>5 DEF SeenOnce
  <1>18. /\ ~listing'.shrunk => SeenOrComes'
         /\ ~listing'.grew => SeenPassed' /\ SeenOnce'
      BY <1>1, <1>13, <1>15, <1>16, <1>17 DEF ListingInv
  <1> QED
      BY <1>1, <1>2, <1>3, <1>4, <1>12, <1>13, <1>18 DEF ListingInv

(* Every step keeps what is claimed of the listing.                        *)
LEMMA ListingStep ==
    ASSUME AllInv, [Next]_vars, TablesInv', NumbersKept
    PROVE  ListingInv'
  <1>1. TablesInv /\ ListingInv
      BY DEF AllInv
  <1>2. CASE UNCHANGED <<entry, listing>>
      BY <1>1, <1>2, ListingSame
  <1>3. CASE Watched
      BY <1>1, <1>3, WatchedKeeps
  <1>4. ASSUME NEW ino \in Known, Opendir(ino) \/ Setattr(ino)
        PROVE  ListingInv'
      BY <1>1, <1>2, <1>4, OpendirKeeps DEF Setattr, storeVars
  <1>5. CASE Beginning \/ Replying
      BY <1>2, <1>5 DEF Beginning, OpenBegin, WriteBegin, NameBegin, RenameBegin, Checked,
                        Replying, Fail, Open, OpensAs, Lookup, storeVars
  <1>6. CASE \/ \E h \in 1..MaxHandles : Write(h) \/ Release(h)
             \/ RenameCheck \/ Invalidate \/ \E p \in Nodes : Signal(p)
      BY <1>2, <1>6 DEF Write, Release, RenameCheck, Invalidate, Tells, Signal, storeVars
  <1>7. ASSUME NEW p \in Nodes, NEW q \in Nodes,
               \/ Mkdir(p) \/ Unlink(p) \/ Rmdir(p) \/ Create(p)
               \/ Rename(p, q) \/ HandlePatch(p)
        PROVE  ListingInv'
      BY <1>3, <1>7 DEF Mkdir, Unlink, Rmdir, Gone, Create, Rename, HandlePatch
  <1>8. ASSUME NEW room \in 1..2, Readdir(room)
        PROVE  ListingInv'
      BY <1>1, <1>8, ReaddirKeeps
  <1>9. CASE Releasedir
      BY <1>9 DEF Releasedir, ListingInv
  <1>10. CASE UNCHANGED vars
      BY <1>2, <1>10 DEF vars, storeVars
  <1> QED
      BY <1>4, <1>5, <1>6, <1>7, <1>8, <1>9, <1>10, NextParts DEF Serving, Apart

(* At first only the root has a number, and nothing is open.               *)
LEMMA InitAll == Init => AllInv
  <1>1. SUFFICES ASSUME Init
                 PROVE  AllInv
      OBVIOUS
  <1>2. StoreInv /\ LocksType /\ ReqInv
      BY <1>1, ObjectsAssumption
      DEF Init, StoreInv, StoreType, OnePath, LocksType, ReqInv, ReqType
  <1>3. PICK s : s = <<Root>>
      OBVIOUS
  <1>4. s \in Seq(Paths) /\ Len(s) = 1 /\ s[1] = Root /\ DOMAIN s = 1 .. 1
    <2>1. Root \in Paths
        BY DEF Paths
    <2> QED
        BY <1>3, <2>1
  <1>5. /\ inodes = s /\ Known = 1 .. 1
        /\ paths = [p \in Paths |-> IF p = Root THEN 1 ELSE 0]
      BY <1>1, <1>3, <1>4 DEF Init, Known
  <1>6. TablesInv
    <2>1. 1 \in 1 .. MaxInodes
        BY BoundAssumption
    <2>2. TablesAgree
      <3>1. \A i \in Known : i = 1 /\ paths[inodes[i]] = i
        <4>1. Root \in Paths
            BY DEF Paths
        <4> QED
            BY <1>4, <1>5, <4>1
      <3>2. \A p \in Paths : paths[p] # 0 => paths[p] = 1 /\ p = Root
          BY <1>5
      <3> QED
          BY <1>4, <1>5, <3>1, <3>2 DEF TablesAgree
    <2> QED
        BY <1>4, <1>5, <2>1, <2>2 DEF TablesInv
  <1>7. HandlesInv
      BY <1>1 DEF Init, HandlesInv
  <1>8. ListingInv /\ news \subseteq Nodes
      BY <1>1 DEF Init, ListingInv
  <1> QED
      BY <1>2, <1>6, <1>7, <1>8 DEF AllInv

(* Every step keeps the whole invariant.                                   *)
LEMMA NextAll ==
    ASSUME AllInv, [Next]_vars
    PROVE  AllInv'
  <1>1. StoreInv' /\ LocksType' /\ ReqInv'
      BY StoreStep, LocksKept, ReqStep DEF AllInv, ReqInv
  <1>2. TablesInv' /\ NumbersKept
      BY TablesStep DEF AllInv
  <1>3. HandlesInv' /\ ListingInv' /\ (news \subseteq Nodes)'
      BY <1>2, HandlesStep, ListingStep, NewsStep
  <1> QED
      BY <1>1, <1>2, <1>3 DEF AllInv

(* The whole invariant holds in every reachable state.                     *)
LEMMA SpecAllInv == Spec => []AllInv
  <1>1. AllInv /\ [Next]_vars => AllInv'
      BY NextAll
  <1> QED
      BY <1>1, InitAll, PTL DEF Spec

-----------------------------------------------------------------------------
(* No two inode numbers name one path and each leads back to its path,     *)
(* whatever has been renamed or removed: get_inode.                        *)
THEOREM TablesStayInverse == Spec => []TablesAgree
  <1>1. AllInv => TablesAgree
      BY DEF AllInv, TablesInv
  <1> QED
      BY <1>1, SpecAllInv, PTL

(* The tables, the handles, the locks and the store are what their types   *)
(* say: the state of the file system in fs.rs.                             *)
THEOREM TreeTypesHold == Spec => []TypeOK
  <1>1. ASSUME AllInv
        PROVE  TypeOK
    <2>1. paths \in [Paths -> 0..Len(inodes)]
      <3>1. /\ paths \in [Paths -> Nat] /\ Len(inodes) \in Nat
            /\ Known = 1 .. Len(inodes)
          BY <1>1, LenProperties DEF AllInv, TablesInv, Known
      <3>2. \A p \in Paths : paths[p] \in 0 .. Len(inodes)
          BY <1>1, <3>1 DEF AllInv, TablesInv, TablesAgree
      <3> QED
          BY <3>1, <3>2
    <2>2. \/ listing = Closed
          \/ /\ listing.ino \in Known /\ listing.offset \in Nat
             /\ listing.seen \in Seq(Paths) /\ listing.kept \subseteq Names
             /\ {listing.shrunk, listing.grew} \subseteq BOOLEAN
        BY <1>1 DEF AllInv, ListingInv, Listing
    <2> QED
        BY <1>1, <2>1, <2>2
        DEF TypeOK, AllInv, StoreInv, StoreType, LocksType, TablesInv, HandlesInv,
            ReqInv, ReqType
  <1> QED
      BY <1>1, SpecAllInv, PTL

(* A listing read to its end by calls of readdir of any size has every     *)
(* entry that was there throughout and none twice, unless the directory    *)
(* changed in the way that excuses it: the offset of readdir in fs.rs.     *)
THEOREM ListingsFaithful == Spec => []ListingFaithful
  <1>1. ASSUME AllInv
        PROVE  ListingFaithful
    <2>1. SUFFICES ASSUME listing # Closed,
                          listing.offset >= Len(Entries(inodes[listing.ino]))
                   PROVE  /\ ~listing.shrunk =>
                               \A n \in listing.kept :
                                  Append(inodes[listing.ino], n) \in Range(listing.seen)
                          /\ ~listing.grew =>
                               \A i, j \in 3..Len(listing.seen) :
                                  i # j => listing.seen[i] # listing.seen[j]
        BY DEF ListingFaithful
    <2>2. /\ listing \in Listing /\ listing.ino \in Known
          /\ listing.seen \in Seq(Paths) /\ listing.offset \in Nat
          /\ ~listing.shrunk => SeenOrComes
          /\ ~listing.grew => SeenOnce
        BY <1>1, <2>1 DEF AllInv, ListingInv, Listing
    <2>3. PICK p, f : p = inodes[listing.ino] /\ f = Listed(p)
        OBVIOUS
    <2>4. Len(f) \in Nat /\ listing.offset >= Len(f) + 2
      <3>1. p \in Paths
          BY <1>1, <2>2, <2>3, KnownPaths DEF AllInv
      <3>2. Len(f) \in Nat
          BY <2>3, <3>1, ListedNames
      <3>3. Len(Entries(p)) = Len(f) + 2
          BY <2>3, <3>1, EntriesAre
      <3> QED
          BY <2>1, <2>3, <3>2, <3>3
    <2>5. \A n : ~Comes(n)
        BY <2>2, <2>3, <2>4 DEF Comes
    <2>6. DOMAIN listing.seen = 1 .. Len(listing.seen)
        BY <2>2, LenProperties
    <2> QED
        BY <2>2, <2>5, <2>6 DEF SeenOrComes, SeenOnce, Range
  <1> QED
      BY <1>1, SpecAllInv, PTL

-----------------------------------------------------------------------------
(* No server-side user changes what is at a locked path, by name or        *)
(* through a handle opened before the lock, past its check apart, except   *)
(* the one request whose check came before the DIRTY: whatever the signal  *)
(* server does in the gaps of the handlers of fs.rs, for every tree,       *)
(* whatever was renamed before.                                            *)
THEOREM LockedFileStaysHolds == Spec => LockedFileStays
  <1>1. ASSUME AllInv, [Next]_vars, NEW p \in dirtyFiles, ~PastCheck(p),
               ~(req # Idle /\ p \in req.raced)
        PROVE  Seen(p)' = Seen(p)
    <2>1. p \in Nodes /\ StoreInv /\ HandlesInv /\ ReqType
        BY <1>1 DEF AllInv, LocksType, ReqInv
    <2>2. CASE Serving
      <3>1. /\ req \in Request /\ req.pc = "act" /\ GoesOn /\ req # Idle
            /\ Seen(p)' = Seen(p) \/ p \in {req.path, req.to} \/ Elsewhere(p)
          BY <2>1, <2>2, ServingChanges DEF Idle
      <3>2. req'.pc = "tell"
          BY <3>1 DEF GoesOn, Request
      <3>3. ~Elsewhere(p)
          BY <1>1, <3>1, <3>2 DEF PastCheck
      <3>4. p \notin {req.path, req.to}
          BY <1>1, <3>1 DEF AllInv, ReqInv, LockedSince
      <3> QED
          BY <3>1, <3>3, <3>4
    <2> QED
        BY <1>1, <2>1, <2>2, NextParts, ApartAllowed, OthersSame, SameKeeps
  <1>2. AllInv /\ [Next]_vars =>
           [\A p \in dirtyFiles :
               Seen(p)' = Seen(p) \/ PastCheck(p) \/ (req # Idle /\ p \in req.raced)]_vars
      BY <1>1
  <1> QED
      BY <1>2, SpecAllInv, PTL DEF Spec, LockedFileStays

(* A request ends where nothing has been changed, or at its broadcast.     *)
LEMMA Ends ==
    ASSUME ReqType, [Next]_vars, req # Idle, req' = Idle
    PROVE  req.pc \in {"check", "act"} \/ Invalidate
  <1>1. ~Serving
      BY DEF Serving, Write, Mkdir, Unlink, Rmdir, Gone, Create, Rename, GoesOn,
             ReqType, Request, Idle
  <1>2. ~Beginning
      BY DEF Beginning, OpenBegin, WriteBegin, NameBegin, RenameBegin, Checked
  <1>3. Replying => req.pc \in {"check", "act"}
      BY DEF Replying, Fail, Open, Serves, Lookup
  <1>4. ~Apart
      BY DEF Apart, Opendir, Setattr, Release, Readdir, Releasedir, HandlePatch
  <1>5. ~RenameCheck
      BY DEF RenameCheck, ReqType, Request, Idle
  <1>6. ~ \E p \in Nodes : Signal(p)
      BY DEF Signal, HandleDirty, HandleClean, ReqType, Request, Idle
  <1>7. ~ UNCHANGED vars
      BY DEF vars
  <1> QED
      BY <1>1, <1>2, <1>3, <1>4, <1>5, <1>6, <1>7, NextParts

(* A request of fs.rs that ends has broadcast each path that it changed,   *)
(* both paths of a rename included, although invalidate_client looks at    *)
(* dirty_files again, unless DIRTY came for the path after the check.      *)
THEOREM ChangeIsAnnouncedHolds == Spec => ChangeIsAnnounced
  <1>1. ASSUME AllInv, [Next]_vars, req # Idle, req' = Idle,
               NEW p \in req.changed, p \notin news'
        PROVE  p \in req.raced \/ Elsewhere(p)
    <2>1. req \in Request /\ ReqType /\ LockedSince /\ ToTell
        BY <1>1 DEF AllInv, ReqInv, ReqType
    <2>2. Invalidate
        BY <1>1, <2>1, Ends DEF ToTell
    <2>3. CASE req.pc = "tell"
      <3>1. req.op # "rename" /\ news' = {req.path} \ dirtyFiles
          BY <1>1, <2>1, <2>2, <2>3 DEF Invalidate, Tells, Request, Idle
      <3> QED
          BY <1>1, <2>1, <2>3, <3>1 DEF ToTell, LockedSince
    <2>4. CASE req.pc = "tellNew"
      <3>1. news' = {req.to} \ dirtyFiles
          BY <2>2, <2>4 DEF Invalidate, Tells
      <3> QED
          BY <1>1, <2>1, <2>4, <3>1 DEF ToTell, LockedSince, Excused
    <2> QED
        BY <2>2, <2>3, <2>4 DEF Invalidate
  <1>2. AllInv /\ [Next]_vars =>
           [req # Idle /\ req' = Idle =>
               \A p \in req.changed \ news' : p \in req.raced \/ Elsewhere(p)]_vars
      BY <1>1
  <1> QED
      BY <1>2, SpecAllInv, PTL DEF Spec, ChangeIsAnnounced
=============================================================================
