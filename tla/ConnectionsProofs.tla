-------------------------- MODULE ConnectionsProofs --------------------------
(***************************************************************************)
(* Theorems about Connections, for any finite set of files, any clients    *)
(* and any number of connections, whatever breaks or is refused.           *)
(***************************************************************************)
EXTENDS Connections, FiniteSetTheorems, SequenceTheorems, TLAPS

Counted(t) == {c \in Conns : t[c] \in {"serve", "uncount"}}
ClientTypes ==
    /\ running \in SUBSET Clients
    /\ dirty \in [Clients -> SUBSET Paths]
    /\ fuseStream \in [Clients -> {NoConn} \cup Conns]
    /\ syncStream \in [Clients -> {NoConn} \cup Conns]
    /\ pass \in [Clients -> {Idle, [pc |-> "connect"]}
                            \cup [pc : {"check", "clean"}, path : Paths]]
WireType == wire \in [Conns -> Seq(Msg)]
ServerTypes ==
    /\ link \in [Conns -> {"unused", "up", "broken"}]
    /\ thread \in [Conns -> {"unused", "count", "serve", "uncount", "done"}]
    /\ locks \in [Conns -> SUBSET Paths]
    /\ dirtyFiles \in SUBSET Paths
    /\ quiet \in Nat
    /\ daemon \in {"up", "gone"}

(* TypeOK in the three parts that different steps disturb, and the count.  *)
LEMMA TypeParts ==
    TypeOK <=> ClientTypes /\ WireType /\ ServerTypes /\ count \in Nat
  BY DEF TypeOK, ClientTypes, WireType, ServerTypes

(* The type after a step, in the parts that its proof takes one by one.    *)
LEMMA TypePartsNext ==
    TypeOK' <=> ClientTypes' /\ WireType' /\ ServerTypes' /\ (count \in Nat)'
  BY DEF TypeOK, ClientTypes, WireType, ServerTypes

(* The locks that are sent again are a sequence of messages.               *)
LEMMA ResendType ==
    ASSUME ClientTypes, NEW k \in Clients, NEW p \in Paths, NEW m \in Resend(k, p)
    PROVE  m \in Seq(Msg)
  <1> DEFINE S == dirty[k] \cup {p}
             n == Cardinality(S)
  <1>1. S \in SUBSET Paths
      BY DEF ClientTypes
  <1>2. n \in Nat
      BY <1>1, PathsAssumption, FS_Subset, FS_CardinalityType
  <1>3. PICK s \in SetToSeqs(S) : m = [i \in DOMAIN s |-> [cmd |-> "DIRTY", path |-> s[i]]]
      BY DEF Resend
  <1>4. s \in [1 .. n -> S]
      BY <1>3 DEF SetToSeqs
  <1>5. m \in [1 .. n -> Msg]
      BY <1>1, <1>3, <1>4 DEF Msg
  <1> HIDE DEF n
  <1> QED
      BY <1>2, <1>5, SeqDef

-----------------------------------------------------------------------------
(* What each part of a step leaves of the messages in flight.              *)
LEMMA ConnectWire ==
    ASSUME WireType, NEW c \in Conns, NEW m \in Seq(Msg), NEW state,
           Connect(c, m, state)
    PROVE  WireType'
  BY DEF WireType, Connect

(* Writing to a connection appends to its wire.                            *)
LEMMA WrittenWire ==
    ASSUME WireType, NEW c \in Conns \cup {NoConn}, NEW m \in Msg, Written(c, m)
    PROVE  WireType'
  <1>1. c \in Conns
      BY DEF Written
  <1>2. Append(wire[c], m) \in Seq(Msg)
      BY <1>1, AppendProperties DEF WireType
  <1> QED
      BY <1>1, <1>2 DEF WireType, Written

(* Receiving takes the first message off a wire.                           *)
LEMMA ReceiveWire ==
    ASSUME WireType, NEW c \in Conns, NEW cmd, Receive(c, cmd)
    PROVE  WireType' /\ Head(wire[c]) \in Msg /\ Head(wire[c]).cmd = cmd
  <1>1. /\ wire[c] \in Seq(Msg) /\ wire[c] # <<>>
        /\ Head(wire[c]) \in Msg /\ Tail(wire[c]) \in Seq(Msg)
      BY HeadTailProperties DEF WireType, Receive
  <1> QED
      BY <1>1 DEF WireType, Receive

(* Breaking a connection cuts its wire.                                    *)
LEMMA BreakWire ==
    ASSUME WireType, NEW c \in Conns, Break(c)
    PROVE  WireType'
  <1>1. PICK n \in 0 .. Len(wire[c]) : wire' = [wire EXCEPT ![c] = SubSeq(@, 1, n)]
      BY DEF Break
  <1>2. wire[c] \in Seq(Msg) /\ Len(wire[c]) \in Nat
      BY LenProperties DEF WireType
  <1>3. n \in Int /\ n <= Len(wire[c])
      BY <1>2
  <1>4. \A i \in 1 .. n : wire[c][i] \in Msg
      BY <1>2, <1>3, ElementOfSeq
  <1>5. SubSeq(wire[c], 1, n) \in Seq(Msg)
      BY <1>3, <1>4, SubSeqProperties
  <1> QED
      BY <1>1, <1>5 DEF WireType

(* Messages in flight stay messages.                                       *)
LEMMA WireKept ==
    ASSUME ClientTypes, WireType, [Next]_vars
    PROVE  WireType'
  <1>1. ASSUME NEW k \in Clients, NEW p \in Paths, MarkDirty(k, p)
        PROVE  WireType'
    <2>1. fuseStream[k] \in Conns \cup {NoConn} /\ [cmd |-> "DIRTY", path |-> p] \in Msg
        BY DEF ClientTypes, Msg
    <2>2. CASE Written(fuseStream[k], [cmd |-> "DIRTY", path |-> p])
        BY <2>1, <2>2, WrittenWire
    <2>3. ASSUME NEW c \in Conns, NEW m \in Resend(k, p), Connect(c, m, "up")
          PROVE  WireType'
        BY <2>3, ResendType, ConnectWire
    <2>4. CASE NoConnection(fuseStream[k])
        BY <2>4 DEF NoConnection, connVars, WireType
    <2> QED
        BY <1>1, <2>2, <2>3, <2>4 DEF MarkDirty
  <1>2. ASSUME NEW k \in Clients, NEW p \in Paths, SyncPatch(k, p)
        PROVE  WireType'
    <2> DEFINE m == [cmd |-> "PATCH", path |-> p]
    <2>1. syncStream[k] \in Conns \cup {NoConn} /\ m \in Msg
        BY DEF ClientTypes, Msg
    <2>2. <<m>> \in Seq(Msg) /\ <<>> \in Seq(Msg)
        BY <2>1
    <2>3. CASE Written(syncStream[k], m)
        BY <2>1, <2>3, WrittenWire
    <2>4. ASSUME NEW c \in Conns, Connect(c, <<m>>, "up") \/ Connect(c, <<>>, "broken")
          PROVE  WireType'
        BY <2>2, <2>4, ConnectWire
    <2>5. CASE NoConnection(syncStream[k])
        BY <2>5 DEF NoConnection, connVars, WireType
    <2> QED
        BY <1>2, <2>3, <2>4, <2>5 DEF SyncPatch
  <1>3. ASSUME NEW k \in Clients, SyncStart(k)
        PROVE  WireType'
    <2>1. ASSUME NEW c \in Conns, Connect(c, <<>>, "up")
          PROVE  WireType'
      <3>1. <<>> \in Seq(Msg)
          OBVIOUS
      <3> QED
          BY <2>1, <3>1, ConnectWire
    <2>2. CASE NoConnection(NoConn)
        BY <2>2 DEF NoConnection, connVars, WireType
    <2> QED
        BY <1>3, <2>1, <2>2 DEF SyncStart
  <1>4. ASSUME NEW k \in Clients, SyncClean(k)
        PROVE  WireType'
    <2> DEFINE m == [cmd |-> "CLEAN", path |-> pass[k].path]
    <2>1. syncStream[k] \in Conns \cup {NoConn} /\ m \in Msg
        BY <1>4 DEF ClientTypes, Msg, SyncClean, Idle
    <2>2. <<m>> \in Seq(Msg)
        BY <2>1
    <2>3. CASE Written(syncStream[k], m)
        BY <2>1, <2>3, WrittenWire
    <2>4. ASSUME NEW c \in Conns, Connect(c, <<m>>, "up")
          PROVE  WireType'
        BY <2>2, <2>4, ConnectWire
    <2>5. CASE NoConnection(syncStream[k])
        BY <2>5 DEF NoConnection, connVars, WireType
    <2> QED
        BY <1>4, <2>3, <2>4, <2>5 DEF SyncClean
  <1>5. ASSUME NEW k \in Clients, Quit(k)
        PROVE  WireType'
    <2>1. <<[cmd |-> "SHUTDOWN"]>> \in Seq(Msg)
        BY DEF Msg
    <2> QED
        BY <1>5, <2>1 DEF Quit, WireType
  <1>6. ASSUME NEW k \in Clients, SyncCheck(k)
        PROVE  WireType'
      BY <1>6 DEF SyncCheck, connVars, WireType
  <1>7. ASSUME NEW c \in Conns, ThreadStep(c)
        PROVE  WireType'
    <2>1. ASSUME NEW cmd, Receive(c, cmd)
          PROVE  WireType'
        BY <2>1, ReceiveWire
    <2>2. CASE HandleDirty(c) \/ HandleClean(c) \/ HandlePatch(c) \/ HandleShutdown(c)
        BY <2>1, <2>2 DEF HandleDirty, HandleClean, HandlePatch, HandleShutdown
    <2>3. CASE CountUp(c) \/ Cleanup(c) \/ Uncount(c)
        BY <2>3 DEF CountUp, Cleanup, Uncount, WireType
    <2> QED
        BY <1>7, <2>2, <2>3 DEF ThreadStep
  <1>8. ASSUME NEW c \in Conns, Break(c)
        PROVE  WireType'
      BY <1>8, BreakWire
  <1>9. CASE Watch \/ UNCHANGED vars
      BY <1>9 DEF Watch, vars, connVars, WireType
  <1> QED
      BY <1>1, <1>2, <1>3, <1>4, <1>5, <1>6, <1>7, <1>8, <1>9
      DEF Next, ClientStep

-----------------------------------------------------------------------------
(* Connecting makes a thread that is not counted yet; writing makes none.  *)
LEMMA ConnectServer ==
    ASSUME ServerTypes, NEW c \in Conns, NEW m, NEW state \in {"up", "broken"},
           Connect(c, m, state), UNCHANGED <<lockVars, watchVars>>
    PROVE  ServerTypes'
  BY DEF ServerTypes, Connect, lockVars, watchVars

(* A step that leaves the server alone keeps its invariant.                *)
LEMMA SameServer ==
    ASSUME ServerTypes, link' = link, thread' = thread,
           UNCHANGED lockVars, UNCHANGED watchVars
    PROVE  ServerTypes'
  BY DEF ServerTypes, lockVars, watchVars

(* Every step of a client leaves the server's locks and counts alone.      *)
LEMMA ClientTypesKept ==
    ASSUME ClientTypes, WireType, ServerTypes, NEW k \in Clients, ClientStep(k)
    PROVE  ClientTypes' /\ ServerTypes'
  <1>1. ASSUME NEW p \in Paths, MarkDirty(k, p)
        PROVE  ClientTypes' /\ ServerTypes'
    <2>1. ClientTypes'
        BY <1>1 DEF MarkDirty, ClientTypes
    <2>2. CASE Written(fuseStream[k], [cmd |-> "DIRTY", path |-> p])
        BY <1>1, <2>1, <2>2, SameServer DEF MarkDirty, Written
    <2>3. ASSUME NEW c \in Conns, NEW m, Connect(c, m, "up")
          PROVE  ServerTypes'
        BY <1>1, <2>3, ConnectServer DEF MarkDirty
    <2>4. CASE NoConnection(fuseStream[k])
        BY <1>1, <2>1, <2>4, SameServer DEF MarkDirty, NoConnection, connVars
    <2> QED
        BY <1>1, <2>1, <2>2, <2>3, <2>4 DEF MarkDirty
  <1>2. ASSUME NEW p \in Paths, SyncPatch(k, p)
        PROVE  ClientTypes' /\ ServerTypes'
    <2> DEFINE m == [cmd |-> "PATCH", path |-> p]
    <2>1. ClientTypes'
        BY <1>2 DEF SyncPatch, SyncUses, ClientTypes
    <2>2. CASE Written(syncStream[k], m)
        BY <1>2, <2>1, <2>2, SameServer DEF SyncPatch, Written
    <2>3. ASSUME NEW c \in Conns, NEW ms, NEW state \in {"up", "broken"},
                 Connect(c, ms, state)
          PROVE  ServerTypes'
        BY <1>2, <2>3, ConnectServer DEF SyncPatch
    <2>4. CASE NoConnection(syncStream[k])
        BY <1>2, <2>1, <2>4, SameServer DEF SyncPatch, NoConnection, connVars
    <2> QED
        BY <1>2, <2>1, <2>2, <2>3, <2>4 DEF SyncPatch
  <1>3. CASE SyncStart(k)
    <2>1. ClientTypes'
        BY <1>3 DEF SyncStart, SyncUses, ClientTypes
    <2>2. ASSUME NEW c \in Conns, Connect(c, <<>>, "up")
          PROVE  ServerTypes'
        BY <1>3, <2>2, ConnectServer DEF SyncStart
    <2>3. CASE NoConnection(NoConn)
        BY <1>3, <2>1, <2>3, SameServer DEF SyncStart, NoConnection, connVars
    <2> QED
        BY <1>3, <2>1, <2>2, <2>3 DEF SyncStart
  <1>4. CASE SyncCheck(k)
    <2>1. pass[k] \in [pc : {"check", "clean"}, path : Paths]
        BY <1>4 DEF SyncCheck, ClientTypes, Idle
    <2>2. ClientTypes'
        BY <1>4, <2>1 DEF SyncCheck, ClientTypes
    <2> QED
        BY <1>4, <2>1, <2>2, SameServer DEF SyncCheck, connVars
  <1>5. CASE SyncClean(k)
    <2> DEFINE m == [cmd |-> "CLEAN", path |-> pass[k].path]
    <2>1. ClientTypes'
        BY <1>5 DEF SyncClean, SyncUses, ClientTypes
    <2>2. CASE Written(syncStream[k], m)
        BY <1>5, <2>1, <2>2, SameServer DEF SyncClean, Written
    <2>3. ASSUME NEW c \in Conns, Connect(c, <<m>>, "up")
          PROVE  ServerTypes'
        BY <1>5, <2>3, ConnectServer DEF SyncClean
    <2>4. CASE NoConnection(syncStream[k])
        BY <1>5, <2>1, <2>4, SameServer DEF SyncClean, NoConnection, connVars
    <2> QED
        BY <1>5, <2>1, <2>2, <2>3, <2>4 DEF SyncClean
  <1>6. CASE Quit(k)
    <2>1. ClientTypes'
        BY <1>6 DEF Quit, ClientTypes
    <2>2. Shut(k, link) \in [Conns -> {"unused", "up", "broken"}]
        BY DEF Shut, ServerTypes
    <2>3. ServerTypes'
        BY <1>6, <2>2 DEF Quit, ServerTypes, lockVars, watchVars
    <2> QED
        BY <2>1, <2>3
  <1> QED
      BY <1>1, <1>2, <1>3, <1>4, <1>5, <1>6 DEF ClientStep

(* A server thread leaves the clients alone; its locks are files.          *)
LEMMA ThreadTypesKept ==
    ASSUME ClientTypes, WireType, ServerTypes, NEW c \in Conns, ThreadStep(c)
    PROVE  ClientTypes' /\ ServerTypes'
  <1>1. CASE CountUp(c) \/ Cleanup(c) \/ Uncount(c)
      BY <1>1 DEF CountUp, Cleanup, Uncount, ThreadTo, clientVars, lockVars,
                  watchVars, ClientTypes, ServerTypes
  <1>2. ASSUME NEW cmd, Receive(c, cmd)
        PROVE  Head(wire[c]) \in Msg /\ Head(wire[c]).cmd = cmd
      BY <1>2, ReceiveWire
  <1>3. CASE HandleDirty(c) \/ HandleClean(c)
    <2>1. Head(wire[c]).path \in Paths
        BY <1>2, <1>3 DEF HandleDirty, HandleClean, Msg
    <2> QED
        BY <1>3, <2>1 DEF HandleDirty, HandleClean, Receive, clientVars,
                          ClientTypes, ServerTypes
  <1>4. CASE HandlePatch(c) \/ HandleShutdown(c)
      BY <1>4 DEF HandlePatch, HandleShutdown, Leave, Receive, clientVars,
                  lockVars, ClientTypes, ServerTypes
  <1> QED
      BY <1>1, <1>3, <1>4 DEF ThreadStep

(* Every step keeps the types of clients and server.                       *)
LEMMA PartsKept ==
    ASSUME ClientTypes, WireType, ServerTypes, [Next]_vars
    PROVE  ClientTypes' /\ WireType' /\ ServerTypes'
  <1>1. WireType'
      BY WireKept
  <1>2. ASSUME NEW c \in Conns, Break(c)
        PROVE  ClientTypes' /\ ServerTypes'
      BY <1>2 DEF Break, clientVars, lockVars, watchVars, ClientTypes, ServerTypes
  <1>3. CASE Watch
    <2>1. UNCHANGED clientVars /\ UNCHANGED connVars /\ UNCHANGED lockVars
        BY <1>3 DEF Watch
    <2>2. ClientTypes'
        BY <2>1 DEF clientVars, ClientTypes
    <2>3. quiet' \in Nat /\ daemon' \in {"up", "gone"}
        BY <1>3 DEF Watch, Leave, ServerTypes
    <2> QED
        BY <1>1, <2>1, <2>2, <2>3 DEF connVars, lockVars, ServerTypes
  <1>4. CASE UNCHANGED vars
    <2>1. /\ UNCHANGED clientVars /\ UNCHANGED connVars
          /\ UNCHANGED lockVars /\ UNCHANGED watchVars
        BY <1>4 DEF vars
    <2>2. ClientTypes'
        BY <2>1 DEF clientVars, ClientTypes
    <2> QED
        BY <1>1, <2>1, <2>2 DEF connVars, lockVars, watchVars, ServerTypes
  <1> QED
      BY <1>1, <1>2, <1>3, <1>4, ClientTypesKept, ThreadTypesKept DEF Next

-----------------------------------------------------------------------------
(* The strengthening that makes the count and the holders inductive: no    *)
(* thread serves a connection that has not been made.                      *)
FreshUnserved == \A c \in Conns : link[c] = "unused" => thread[c] = "unused"
Inv == TypeOK /\ FreshUnserved /\ CountExact /\ LockHasHolder

(* What the new connection, or the absence of one, means to the threads.   *)
Undisturbed ==
    /\ FreshUnserved'
    /\ Counted(thread') = Counted(thread)
    /\ \A d \in Conns : thread[d] = "serve" => thread'[d] = "serve"

(* A new connection disturbs no thread.                                    *)
LEMMA ConnectUndisturbed ==
    ASSUME ServerTypes, FreshUnserved, NEW c \in Conns, NEW m,
           NEW state \in {"up", "broken"}, Connect(c, m, state)
    PROVE  Undisturbed
  <1>1. thread[c] = "unused"
      BY DEF Connect, Fresh, FreshUnserved
  <1> QED
      BY <1>1 DEF Connect, FreshUnserved, Undisturbed, Counted, ServerTypes

(* Nor does a step that leaves links and threads alone.                    *)
LEMMA SameUndisturbed ==
    ASSUME FreshUnserved, UNCHANGED <<link, thread>>
    PROVE  Undisturbed
  BY DEF FreshUnserved, Undisturbed, Counted

(* A client's step disturbs no thread, no lock and no count.               *)
LEMMA ClientUndisturbed ==
    ASSUME ServerTypes, FreshUnserved, NEW k \in Clients, ClientStep(k)
    PROVE  Undisturbed /\ UNCHANGED <<lockVars, watchVars>>
  <1>1. ASSUME NEW c, NEW m, Written(c, m)
        PROVE  Undisturbed
      BY <1>1, SameUndisturbed DEF Written
  <1>2. ASSUME NEW c, NoConnection(c)
        PROVE  Undisturbed
      BY <1>2, SameUndisturbed DEF NoConnection, connVars
  <1>3. ASSUME NEW c \in Conns, NEW m, NEW state \in {"up", "broken"}, Connect(c, m, state)
        PROVE  Undisturbed
      BY <1>3, ConnectUndisturbed
  <1>4. ASSUME NEW p \in Paths, MarkDirty(k, p)
        PROVE  Undisturbed
      BY <1>1, <1>2, <1>3, <1>4 DEF MarkDirty
  <1>5. ASSUME NEW p \in Paths, SyncPatch(k, p)
        PROVE  Undisturbed
      BY <1>1, <1>2, <1>3, <1>5 DEF SyncPatch
  <1>6. CASE SyncStart(k)
      BY <1>1, <1>2, <1>3, <1>6 DEF SyncStart
  <1>7. CASE SyncClean(k)
      BY <1>1, <1>2, <1>3, <1>7 DEF SyncClean
  <1>8. CASE SyncCheck(k)
      BY <1>8, SameUndisturbed DEF SyncCheck, connVars
  <1>9. CASE Quit(k)
    <2>1. CASE UNCHANGED thread /\ link' = Shut(k, link)
      <3>1. \A c \in Conns : link'[c] \in {link[c], "broken"}
          BY <2>1 DEF Shut
      <3> QED
        <4>1. FreshUnserved'
            BY <2>1, <3>1 DEF FreshUnserved
        <4>2. Counted(thread') = Counted(thread)
            BY <2>1
        <4> QED
            BY <1>9, <2>1, <4>1, <4>2 DEF Undisturbed, Quit
    <2>2. ASSUME NEW c \in Conns, c \in Fresh,
                 link' = [Shut(k, link) EXCEPT ![c] = "broken"],
                 thread' = [thread EXCEPT ![c] = "count"]
          PROVE  Undisturbed
      <3>1. thread[c] = "unused"
          BY <2>2 DEF Fresh, FreshUnserved
      <3>2. \A d \in Conns : d # c => link'[d] \in {link[d], "broken"}
          BY <2>2 DEF Shut
      <3>3. link'[c] = "broken"
          BY <2>2 DEF Shut
      <3> QED
          BY <2>2, <3>1, <3>2, <3>3
          DEF FreshUnserved, Undisturbed, Counted, ServerTypes
    <2> QED
        BY <1>9, <2>1, <2>2 DEF Quit
  <1>10. UNCHANGED <<lockVars, watchVars>>
      BY DEF ClientStep, MarkDirty, SyncPatch, SyncStart, SyncCheck, SyncClean, Quit
  <1> QED
      BY <1>4, <1>5, <1>6, <1>7, <1>8, <1>9, <1>10 DEF ClientStep

-----------------------------------------------------------------------------
(* The connections that are counted are finitely many.                     *)
LEMMA CountedFinite ==
    ASSUME NEW t
    PROVE  IsFiniteSet(Counted(t)) /\ Cardinality(Counted(t)) \in Nat
  <1>1. MaxConns \in Nat
      BY BoundAssumption
  <1>2. IsFiniteSet(Conns)
      BY <1>1, FS_Interval DEF Conns
  <1>3. Counted(t) \in SUBSET Conns
      BY DEF Counted
  <1> QED
      BY <1>2, <1>3, FS_Subset, FS_CardinalityType

(* The count and the set it stands for change together.                    *)
LEMMA CountKept ==
    ASSUME Inv, [Next]_vars
    PROVE  CountExact' /\ FreshUnserved' /\ (count \in Nat)'
  <1>1. ServerTypes /\ FreshUnserved /\ count = Cardinality(Counted(thread))
      BY TypeParts DEF Inv, CountExact, Counted
  <1>2. \A t : IsFiniteSet(Counted(t)) /\ Cardinality(Counted(t)) \in Nat
      BY CountedFinite
  <1>3. SUFFICES FreshUnserved' /\ count' = Cardinality(Counted(thread'))
      BY <1>2 DEF CountExact, Counted
  <1>4. ASSUME NEW k \in Clients, ClientStep(k)
        PROVE  FreshUnserved' /\ count' = Cardinality(Counted(thread'))
      BY <1>1, <1>4, ClientUndisturbed DEF Undisturbed, watchVars
  <1>5. ASSUME NEW c \in Conns, CountUp(c)
        PROVE  FreshUnserved' /\ count' = Cardinality(Counted(thread'))
    <2>1. Counted(thread') = Counted(thread) \cup {c} /\ c \notin Counted(thread)
        BY <1>1, <1>5 DEF CountUp, At, ThreadTo, Counted, ServerTypes
    <2>2. Cardinality(Counted(thread')) = Cardinality(Counted(thread)) + 1
        BY <1>2, <2>1, FS_AddElement
    <2> QED
        BY <1>1, <1>5, <2>2 DEF CountUp, At, ThreadTo, FreshUnserved, ServerTypes
  <1>6. ASSUME NEW c \in Conns, Uncount(c)
        PROVE  FreshUnserved' /\ count' = Cardinality(Counted(thread'))
    <2>1. Counted(thread') = Counted(thread) \ {c} /\ c \in Counted(thread)
        BY <1>1, <1>6 DEF Uncount, At, ThreadTo, Counted, ServerTypes
    <2>2. Cardinality(Counted(thread')) = Cardinality(Counted(thread)) - 1
        BY <1>2, <2>1, FS_RemoveElement
    <2> QED
        BY <1>1, <1>6, <2>2 DEF Uncount, At, ThreadTo, FreshUnserved, ServerTypes
  <1>7. ASSUME NEW c \in Conns, Cleanup(c)
        PROVE  FreshUnserved' /\ count' = Cardinality(Counted(thread'))
    <2>1. Counted(thread') = Counted(thread)
        BY <1>1, <1>7 DEF Cleanup, At, ThreadTo, Counted, ServerTypes
    <2> QED
        BY <1>1, <1>7, <2>1 DEF Cleanup, At, ThreadTo, FreshUnserved, ServerTypes, watchVars
  <1>8. ASSUME NEW c \in Conns, NEW cmd, Receive(c, cmd)
        PROVE  FreshUnserved' /\ count' = Cardinality(Counted(thread'))
      BY <1>1, <1>8 DEF Receive, FreshUnserved, Counted
  <1>9. ASSUME NEW c \in Conns, Break(c)
        PROVE  FreshUnserved' /\ count' = Cardinality(Counted(thread'))
      BY <1>1, <1>9 DEF Break, FreshUnserved, Counted, watchVars, ServerTypes
  <1>10. CASE Watch \/ UNCHANGED vars
      BY <1>1, <1>10 DEF Watch, vars, connVars, watchVars, FreshUnserved, Counted
  <1> QED
      BY <1>4, <1>5, <1>6, <1>7, <1>8, <1>9, <1>10
      DEF Next, ThreadStep, HandleDirty, HandleClean, HandlePatch, HandleShutdown

(* A thread that goes takes its locks along, and a lock that goes from     *)
(* dirty_files needs no holder.                                            *)
LEMMA HoldersKept ==
    ASSUME Inv, [Next]_vars
    PROVE  LockHasHolder'
  <1>1. ServerTypes /\ WireType /\ FreshUnserved /\ LockHasHolder
      BY TypeParts DEF Inv
  <1>2. ASSUME NEW k \in Clients, ClientStep(k)
        PROVE  LockHasHolder'
    <2>1. Undisturbed /\ UNCHANGED lockVars
        BY <1>1, <1>2, ClientUndisturbed
    <2> QED
        BY <1>1, <2>1 DEF LockHasHolder, Undisturbed, lockVars
  <1>3. ASSUME NEW c \in Conns, HandleDirty(c)
        PROVE  LockHasHolder'
      BY <1>1, <1>3 DEF HandleDirty, Receive, At, LockHasHolder, ServerTypes
  <1>4. ASSUME NEW c \in Conns, HandleClean(c)
        PROVE  LockHasHolder'
      BY <1>1, <1>4 DEF HandleClean, Receive, At, LockHasHolder, ServerTypes
  <1>5. ASSUME NEW c \in Conns, Cleanup(c)
        PROVE  LockHasHolder'
    <2>1. ASSUME NEW p \in dirtyFiles'
          PROVE  \E d \in Conns : thread'[d] = "serve" /\ p \in locks'[d]
      <3>1. PICK d \in Conns : thread[d] = "serve" /\ p \in locks[d]
          BY <1>1, <1>5, <2>1 DEF Cleanup, LockHasHolder
      <3>2. d # c
          BY <1>5, <2>1, <3>1 DEF Cleanup
      <3> QED
          BY <1>1, <1>5, <3>1, <3>2 DEF Cleanup, ThreadTo, ServerTypes
    <2> QED
        BY <2>1 DEF LockHasHolder
  <1>6. ASSUME NEW c \in Conns, CountUp(c) \/ Uncount(c)
        PROVE  LockHasHolder'
      BY <1>1, <1>6 DEF CountUp, Uncount, At, ThreadTo, LockHasHolder, lockVars, ServerTypes
  <1>7. ASSUME NEW c \in Conns, HandlePatch(c) \/ HandleShutdown(c)
        PROVE  LockHasHolder'
      BY <1>1, <1>7 DEF HandlePatch, HandleShutdown, Receive, LockHasHolder, lockVars
  <1>8. CASE (\E c \in Conns : Break(c)) \/ Watch \/ UNCHANGED vars
      BY <1>1, <1>8 DEF Break, Watch, vars, connVars, lockVars, LockHasHolder
  <1> QED
      BY <1>2, <1>3, <1>4, <1>5, <1>6, <1>7, <1>8 DEF Next, ThreadStep

-----------------------------------------------------------------------------
(* The invariant holds at first.                                           *)
LEMMA InitInv ==
    ASSUME Init
    PROVE  Inv
  <1>1. ClientTypes /\ ServerTypes /\ count \in Nat
      BY DEF Init, ClientTypes, ServerTypes
  <1>2. WireType
    <2>1. <<>> \in Seq(Msg)
        OBVIOUS
    <2> QED
        BY <2>1 DEF Init, WireType
  <1>3. CountExact
    <2>1. {c \in Conns : thread[c] \in {"serve", "uncount"}} = {}
        BY DEF Init
    <2> QED
        BY <2>1, FS_EmptySet DEF Init, CountExact
  <1> QED
      BY <1>1, <1>2, <1>3, TypeParts DEF Init, Inv, FreshUnserved, LockHasHolder

(* Every step keeps the invariant.                                         *)
LEMMA NextInv ==
    ASSUME Inv, [Next]_vars
    PROVE  Inv'
  <1>1. ClientTypes /\ WireType /\ ServerTypes
      BY TypeParts DEF Inv
  <1>2. ClientTypes' /\ WireType' /\ ServerTypes'
      BY <1>1, PartsKept
  <1> QED
      BY <1>2, CountKept, HoldersKept, TypePartsNext DEF Inv

(* The invariant holds in every reachable state.                           *)
LEMMA SpecInv == Spec => []Inv
  BY InitInv, NextInv, PTL DEF Spec

(* The variables keep their types: in particular the messages that are     *)
(* sent again after a reconnection are locks of files.                     *)
THEOREM ConnectionTypes == Spec => []TypeOK
  <1>1. Inv => TypeOK
      BY DEF Inv
  <1> QED
      BY <1>1, SpecInv, PTL

(* The number that the watchdog samples is that of the connections served. *)
THEOREM CountIsExact == Spec => []CountExact
  <1>1. Inv => CountExact
      BY DEF Inv
  <1> QED
      BY <1>1, SpecInv, PTL

(* Every lock of the server is noted with a connection still served, so    *)
(* the end of that connection takes it away: no lock outlives them all.    *)
THEOREM LocksHaveHolders == Spec => []LockHasHolder
  <1>1. Inv => LockHasHolder
      BY DEF Inv
  <1> QED
      BY <1>1, SpecInv, PTL
=============================================================================
