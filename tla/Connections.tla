---------------------------- MODULE Connections ----------------------------
(***************************************************************************)
(* The signal connections on which clients lock and unlock files at the    *)
(* server daemon, which break, are refused, and are made again             *)
(* (server-daemon/src/tcp_server.rs; mark_dirty in cache.rs and sync.rs of *)
(* slipspace-client).  A client's FUSE loop sends DIRTY on one connection, *)
(* its sync thread PATCH and CLEAN on another; the server serves each      *)
(* connection by a thread of its own, which knows no client.               *)
(***************************************************************************)
EXTENDS Integers, Sequences, FiniteSets, SequencesExt

CONSTANTS
    Clients, Paths,
    Env,        \* what may go wrong, a subset of EnvKinds
    Patience,   \* samples without a connection after which the daemon leaves
    MaxConns,   \* bound: connections made, numbered in order
    MaxWire     \* bound: DIRTY and PATCH are sent while fewer are in flight there

EnvKinds == { "breaks",    \* connections break
              "refused",   \* a connection may be refused at any time
              "quit" }     \* a client's user presses Ctrl-C
ASSUME PathsAssumption == IsFiniteSet(Paths)
ASSUME EnvAssumption == Env \subseteq EnvKinds
ASSUME BoundAssumption == {Patience, MaxConns, MaxWire} \subseteq Nat \ {0}

Conns == 1..MaxConns
NoConn == 0
Idle == [pc |-> "idle"]

VARIABLES
    \* clients: dirty_files, the streams of FUSE loop and sync thread, its pass
    running, dirty, fuseStream, syncStream, pass,
    \* connections: do they hold, and what the server has not read yet
    link, wire,
    \* server: a thread per connection with its client_locks, dirty_files,
    \* active_connections, the watchdog's empty samples
    thread, locks, dirtyFiles, count, quiet, daemon

clientVars == <<running, dirty, fuseStream, syncStream, pass>>
connVars == <<link, wire, thread>>
lockVars == <<locks, dirtyFiles>>
watchVars == <<count, quiet, daemon>>
vars == <<clientVars, connVars, lockVars, watchVars>>

Msg == [cmd : {"DIRTY", "PATCH", "CLEAN"}, path : Paths] \cup [cmd : {"SHUTDOWN"}]

TypeOK ==
    /\ running \in SUBSET Clients
    /\ dirty \in [Clients -> SUBSET Paths]
    /\ fuseStream \in [Clients -> {NoConn} \cup Conns]
    /\ syncStream \in [Clients -> {NoConn} \cup Conns]
    /\ pass \in [Clients -> {Idle, [pc |-> "connect"]}
                            \cup [pc : {"check", "clean"}, path : Paths]]
    /\ link \in [Conns -> {"unused", "up", "broken"}]
    /\ wire \in [Conns -> Seq(Msg)]
    /\ thread \in [Conns -> {"unused", "count", "serve", "uncount", "done"}]
    /\ locks \in [Conns -> SUBSET Paths]
    /\ dirtyFiles \in SUBSET Paths
    /\ count \in Nat /\ quiet \in Nat
    /\ daemon \in {"up", "gone"}

Init ==
    /\ running = Clients
    /\ dirty = [k \in Clients |-> {}]
    /\ fuseStream = [k \in Clients |-> NoConn]
    /\ syncStream = [k \in Clients |-> NoConn]
    /\ pass = [k \in Clients |-> [pc |-> "connect"]]
    /\ link = [c \in Conns |-> "unused"]
    /\ wire = [c \in Conns |-> <<>>]
    /\ thread = [c \in Conns |-> "unused"]
    /\ locks = [c \in Conns |-> {}]
    /\ dirtyFiles = {} /\ count = 0 /\ quiet = 0 /\ daemon = "up"

-----------------------------------------------------------------------------
(* The network.  A message written to a connection that is already lost    *)
(* may seem sent: the loss is noticed by that write or by a later one.     *)

Fresh == {c \in Conns : link[c] = "unused"}
IsUp(c) == daemon = "up" /\ c # NoConn /\ link[c] = "up"
Refused == daemon = "gone" \/ Fresh = {} \/ "refused" \in Env
HasRoom(c) == c # NoConn => Len(wire[c]) < MaxWire

(* TcpStream::connect, and the messages sent before anything can fail; the *)
(* client keeps the stream or, if "state" is "broken", drops it at once.   *)
Connect(c, messages, state) ==
    /\ daemon = "up" /\ c \in Fresh /\ \A d \in Fresh : c <= d
    /\ link' = [link EXCEPT ![c] = state]
    /\ wire' = [wire EXCEPT ![c] = messages]
    /\ thread' = [thread EXCEPT ![c] = "count"]

Written(c, m) ==
    /\ c # NoConn
    /\ wire' = IF IsUp(c) THEN [wire EXCEPT ![c] = Append(@, m)] ELSE wire
    /\ UNCHANGED <<link, thread>>

(* There is no stream, or the write on it fails.                           *)
NotWritten(c) == ~IsUp(c)
NoConnection(c) == NotWritten(c) /\ Refused /\ UNCHANGED connVars

(* What had been sent arrives up to some point; a message that is cut      *)
(* there is not handled.                                                   *)
Break(c) ==
    /\ "breaks" \in Env /\ link[c] = "up"
    /\ link' = [link EXCEPT ![c] = "broken"]
    /\ \E n \in 0..Len(wire[c]) : wire' = [wire EXCEPT ![c] = SubSeq(@, 1, n)]
    /\ UNCHANGED <<clientVars, thread, lockVars, watchVars>>

-----------------------------------------------------------------------------
(* "Re-send all dirty locks on reconnect!", in the order of a HashSet.     *)
Resend(k, p) ==
    {[i \in DOMAIN s |-> [cmd |-> "DIRTY", path |-> s[i]]]
        : s \in SetToSeqs(dirty[k] \cup {p})}

(* The client's FUSE loop, in mark_dirty for a path that is not dirty: if  *)
(* the server cannot be told, it is dirty all the same.                    *)
MarkDirty(k, p) ==
    LET s == fuseStream[k] IN
    /\ k \in running /\ p \notin dirty[k] /\ HasRoom(s)
    /\ \/ Written(s, [cmd |-> "DIRTY", path |-> p]) /\ UNCHANGED fuseStream
       \/ /\ NotWritten(s)
          /\ \E c \in Conns, m \in Resend(k, p) :
                /\ Connect(c, m, "up")
                /\ fuseStream' = [fuseStream EXCEPT ![k] = c]
       \/ NoConnection(s) /\ UNCHANGED fuseStream
    /\ dirty' = [dirty EXCEPT ![k] = @ \cup {p}]
    /\ UNCHANGED <<running, syncStream, pass, lockVars, watchVars>>

(* The sync thread makes its first connection, or fails to.                *)
SyncUses(k, c) == syncStream' = [syncStream EXCEPT ![k] = c]
SyncStart(k) ==
    /\ k \in running /\ pass[k].pc = "connect"
    /\ \/ \E c \in Conns : Connect(c, <<>>, "up") /\ SyncUses(k, c)
       \/ NoConnection(NoConn) /\ UNCHANGED syncStream
    /\ pass' = [pass EXCEPT ![k] = Idle]
    /\ UNCHANGED <<running, dirty, fuseStream, lockVars, watchVars>>

(* A pass for any path, dirty or not (the queue has duplicates), up to its *)
(* PATCH.  A refused connection leaves the old stream, one that breaks     *)
(* under the patch leaves none; the pass goes on either way.               *)
SyncPatch(k, p) ==
    LET s == syncStream[k]
        m == [cmd |-> "PATCH", path |-> p]
    IN
    /\ k \in running /\ pass[k] = Idle /\ HasRoom(s)
    /\ \/ Written(s, m) /\ UNCHANGED syncStream
       \/ NotWritten(s) /\ \E c \in Conns : Connect(c, <<m>>, "up") /\ SyncUses(k, c)
       \/ /\ NotWritten(s) /\ "breaks" \in Env
          /\ \E c \in Conns : Connect(c, <<>>, "broken") /\ SyncUses(k, NoConn)
       \/ NoConnection(s) /\ UNCHANGED syncStream
    /\ pass' = [pass EXCEPT ![k] = [pc |-> "check", path |-> p]]
    /\ UNCHANGED <<running, dirty, fuseStream, lockVars, watchVars>>

(* The version has moved since the pass began, or the path becomes clean.  *)
SyncCheck(k) ==
    /\ k \in running /\ pass[k].pc = "check"
    /\ \/ pass' = [pass EXCEPT ![k] = Idle] /\ UNCHANGED dirty
       \/ /\ pass' = [pass EXCEPT ![k].pc = "clean"]
          /\ dirty' = [dirty EXCEPT ![k] = @ \ {pass[k].path}]
    /\ UNCHANGED <<running, fuseStream, syncStream, connVars, lockVars, watchVars>>

SyncClean(k) ==
    LET s == syncStream[k]
        m == [cmd |-> "CLEAN", path |-> pass[k].path]
    IN
    /\ k \in running /\ pass[k].pc = "clean"
    /\ \/ Written(s, m) /\ UNCHANGED syncStream
       \/ NotWritten(s) /\ \E c \in Conns : Connect(c, <<m>>, "up") /\ SyncUses(k, c)
       \/ NoConnection(s) /\ SyncUses(k, NoConn)
    /\ pass' = [pass EXCEPT ![k] = Idle]
    /\ UNCHANGED <<running, dirty, fuseStream, lockVars, watchVars>>

(* Ctrl-C: SHUTDOWN on a connection of its own, then the process exits,    *)
(* which closes its streams.                                               *)
Shut(k, f) == [c \in Conns |-> IF c \in {fuseStream[k], syncStream[k]}
                               THEN "broken" ELSE f[c]]
Quit(k) ==
    /\ "quit" \in Env /\ k \in running
    /\ running' = running \ {k}
    /\ \/ \E c \in Conns :
             /\ daemon = "up" /\ c \in Fresh /\ \A d \in Fresh : c <= d
             /\ link' = [Shut(k, link) EXCEPT ![c] = "broken"]
             /\ wire' = [wire EXCEPT ![c] = <<[cmd |-> "SHUTDOWN"]>>]
             /\ thread' = [thread EXCEPT ![c] = "count"]
       \/ Refused /\ link' = Shut(k, link) /\ UNCHANGED <<wire, thread>>
    /\ UNCHANGED <<dirty, fuseStream, syncStream, pass, lockVars, watchVars>>

-----------------------------------------------------------------------------
(* A server thread: count the connection, handle what arrives, and when    *)
(* the stream has ended, remove the locks set on it and count it off.      *)
At(c, state) == daemon = "up" /\ thread[c] = state
ThreadTo(c, state) == thread' = [thread EXCEPT ![c] = state]

CountUp(c) ==
    /\ At(c, "count") /\ ThreadTo(c, "serve")
    /\ count' = count + 1
    /\ UNCHANGED <<clientVars, link, wire, lockVars, quiet, daemon>>

Receive(c, cmd) ==
    /\ At(c, "serve") /\ wire[c] # <<>> /\ Head(wire[c]).cmd = cmd
    /\ wire' = [wire EXCEPT ![c] = Tail(@)]
    /\ UNCHANGED <<clientVars, link, thread, count, quiet>>

(* Faulty variant: the lock is not noted with the connection.              *)
HandleDirtyUnnoted(c) ==
    /\ Receive(c, "DIRTY")
    /\ dirtyFiles' = dirtyFiles \cup {Head(wire[c]).path}
    /\ UNCHANGED <<locks, daemon>>

HandleDirty(c) ==
    /\ Receive(c, "DIRTY")
    /\ dirtyFiles' = dirtyFiles \cup {Head(wire[c]).path}
    /\ locks' = [locks EXCEPT ![c] = @ \cup {Head(wire[c]).path}]
    /\ UNCHANGED daemon

HandleClean(c) ==
    /\ Receive(c, "CLEAN")
    /\ dirtyFiles' = dirtyFiles \ {Head(wire[c]).path}
    /\ locks' = [locks EXCEPT ![c] = @ \ {Head(wire[c]).path}]
    /\ UNCHANGED daemon

(* What PATCH does to the file is in ServerDaemon.                         *)
HandlePatch(c) == Receive(c, "PATCH") /\ UNCHANGED <<lockVars, daemon>>

(* restore_workspace, of which Workspace has the steps, and process::exit. *)
Leave == daemon' = "gone"
HandleShutdown(c) == Receive(c, "SHUTDOWN") /\ Leave /\ UNCHANGED lockVars

(* Faulty variants: only the thread's own set is emptied; a connection     *)
(* that held no lock is not counted off.                                   *)
CleanupOwnSet(c) ==
    /\ At(c, "serve") /\ wire[c] = <<>> /\ link[c] = "broken"
    /\ locks' = [locks EXCEPT ![c] = {}]
    /\ ThreadTo(c, "uncount")
    /\ UNCHANGED <<clientVars, link, wire, dirtyFiles, watchVars>>
CleanupEarlyEnd(c) ==
    /\ At(c, "serve") /\ wire[c] = <<>> /\ link[c] = "broken"
    /\ dirtyFiles' = dirtyFiles \ locks[c]
    /\ locks' = [locks EXCEPT ![c] = {}]
    /\ ThreadTo(c, IF locks[c] = {} THEN "done" ELSE "uncount")
    /\ UNCHANGED <<clientVars, link, wire, watchVars>>

Cleanup(c) ==
    /\ At(c, "serve") /\ wire[c] = <<>> /\ link[c] = "broken"
    /\ dirtyFiles' = dirtyFiles \ locks[c]
    /\ locks' = [locks EXCEPT ![c] = {}]
    /\ ThreadTo(c, "uncount")
    /\ UNCHANGED <<clientVars, link, wire, watchVars>>

(* Faulty variant: a thread counts off again and again.                    *)
UncountAgain(c) ==
    /\ At(c, "uncount") /\ UNCHANGED thread
    /\ count' = count - 1
    /\ UNCHANGED <<clientVars, link, wire, lockVars, quiet, daemon>>

Uncount(c) ==
    /\ At(c, "uncount") /\ ThreadTo(c, "done")
    /\ count' = count - 1
    /\ UNCHANGED <<clientVars, link, wire, lockVars, quiet, daemon>>

(* Faulty variant: empty samples are not added up.                         *)
WatchForgetful ==
    /\ daemon = "up"
    /\ quiet' = IF count = 0 THEN 1 ELSE 0
    /\ IF quiet' >= Patience THEN Leave ELSE UNCHANGED daemon
    /\ UNCHANGED <<clientVars, connVars, lockVars, count>>

(* The watchdog's sample, every ten seconds.                               *)
Watch ==
    /\ daemon = "up"
    /\ quiet' = IF count = 0 THEN quiet + 1 ELSE 0
    /\ IF quiet' >= Patience THEN Leave ELSE UNCHANGED daemon
    /\ UNCHANGED <<clientVars, connVars, lockVars, count>>

-----------------------------------------------------------------------------
ClientStep(k) ==
    \/ \E p \in Paths : MarkDirty(k, p) \/ SyncPatch(k, p)
    \/ SyncStart(k) \/ SyncCheck(k) \/ SyncClean(k) \/ Quit(k)
ThreadStep(c) ==
    \/ CountUp(c) \/ Cleanup(c) \/ Uncount(c)
    \/ HandleDirty(c) \/ HandleClean(c) \/ HandlePatch(c) \/ HandleShutdown(c)

Next ==
    \/ \E k \in Clients : ClientStep(k)
    \/ \E c \in Conns : ThreadStep(c) \/ Break(c)
    \/ Watch

Spec == Init /\ [][Next]_vars

(* The server's threads run; clients may stop at any point.                *)
FairSpec == Spec /\ WF_vars(Watch) /\ \A c \in Conns : WF_vars(ThreadStep(c))

-----------------------------------------------------------------------------
(* Every lock is noted with a connection that is still served, so that     *)
(* losing connections, in whatever order, leaks none: dirty_files and the  *)
(* client_locks of each thread are changed together (tcp_server.rs).       *)
LockHasHolder ==
    \A p \in dirtyFiles : \E c \in Conns : thread[c] = "serve" /\ p \in locks[c]

(* The count that the watchdog samples is that of the connections served:  *)
(* none is counted twice, or left counted on any way out of the loop.      *)
CountExact ==
    count = Cardinality({c \in Conns : thread[c] \in {"serve", "uncount"}})

(* A lock whose connections are all lost goes, unless it is set again on   *)
(* another ("Connection lost! Clean up stale locks for this client").      *)
LostLocksGo ==
    \A p \in Paths :
        (p \in dirtyFiles /\ \A c \in Conns : p \in locks[c] => ~IsUp(c))
            ~> \/ p \notin dirtyFiles \/ daemon = "gone"
               \/ \E c \in Conns : p \in locks[c] /\ IsUp(c)

(* A daemon whose connections are all lost for good restores the workspace *)
(* and leaves (the "zombie server" of the watchdog).                       *)
DesertedDaemonLeaves ==
    <>[](\A c \in Conns : ~IsUp(c)) => <>(daemon = "gone")

-----------------------------------------------------------------------------
(* What a comment says and the code does not keep.                         *)

(* "Re-send all dirty locks on reconnect!": a lock that a client has set   *)
(* again on its new connection is held, until the file is synced.          *)
ResentLockHeld ==
    \A k \in Clients, p \in Paths :
        LET c == fuseStream[k] IN
        p \in dirty[k] /\ IsUp(c) /\ p \in locks[c] => p \in dirtyFiles
=============================================================================
