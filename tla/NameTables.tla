----------------------------- MODULE NameTables -----------------------------
(***************************************************************************)
(* The server's FUSE file system (server-daemon/src/fs.rs): inode numbers, *)
(* open handles, directory listings and the check of dirty_files, which    *)
(* all go by path, over a backing store in which files and directories     *)
(* move.  One loop serves the requests, one at a time; a handler asks      *)
(* is_dirty, acts, and asks again before it broadcasts, and lets go of the *)
(* lock in between, when the signal server's threads may take it.          *)
(* Handlers that only answer (getattr, read) have no action, a handler     *)
(* that answers an error changes nothing.                                  *)
(***************************************************************************)
EXTENDS Integers, SequencesExt

CONSTANTS
    Order,       \* the names, in the order read_dir gives them
    Objects,     \* the regular files that may exist at a time
    Nodes,       \* bound: the paths in use, closed under parent
    MaxInodes,   \* bound: inode numbers given out
    MaxHandles,  \* bound: files open at a time
    MaxDirty     \* bound: paths locked at a time
Root == <<>>
Absent == "absent"
Dir == "dir"
Names == Range(Order)
ASSUME OrderAssumption ==
    Order \in Seq(Names) /\ \A i, j \in DOMAIN Order : Order[i] = Order[j] => i = j
ASSUME ObjectsAssumption == Absent \notin Objects /\ Dir \notin Objects
ASSUME NodesAssumption == Nodes \subseteq Seq(Names) \ {Root}
ASSUME ClosedAssumption == \A p \in Nodes : Front(p) \in Nodes \cup {Root}
ASSUME BoundAssumption ==
    MaxInodes \in Nat \ {0} /\ MaxHandles \in Nat /\ MaxDirty \in Nat

Closed == [ino |-> 0]
Paths == Nodes \cup {Root}
(* Contents: 0 and 1 are written by users, PastCheck tells the third.      *)
Unchecked == 2     \* what a patch or a truncation leaves

(* The request that the loop serves, past its first look at dirty_files:   *)
(* op, what it names (arg: an inode number or a handle), the path that is  *)
(* checked, and for rename the second one.  raced and changed are history: *)
(* those of its paths that DIRTY came for since the check, and the paths   *)
(* that it changed and has not broadcast.                                  *)
Idle == [pc |-> "idle"]
Ops == {"lookup", "openR", "openRW", "write", "mkdir", "unlink", "rmdir",
        "rename", "create"}
Request == [pc : {"check", "act", "tell", "tellNew"}, op : Ops, arg : Nat,
            path : Nodes, to : Nodes, raced : SUBSET Nodes, changed : SUBSET Nodes]

VARIABLES
    entry, bytes,       \* backing_dir: what is at each path, file contents
    inodes, paths,      \* the two tables; 0 stands for no number
    handles,            \* open_files
    dirtyFiles,
    listing,            \* the directory stream a user reads
    req,                \* what the FUSE loop does
    news                \* paths broadcast by the last step

storeVars == <<entry, bytes>>
tableVars == <<inodes, paths>>
vars == <<storeVars, tableVars, handles, dirtyFiles, listing, req, news>>

Parent(p) == IF p = Root THEN Root ELSE Front(p)
IsDir(p) == p = Root \/ (p \in Nodes /\ entry[p] = Dir)
IsFile(p) == p \in Nodes /\ entry[p] \in Objects
Below(p) == {q \in Nodes : IsStrictPrefix(p, q)}
NamesAt(e, p) == {n \in Names : Append(p, n) \in Nodes /\ e[Append(p, n)] # Absent}
NamesIn(p) == NamesAt(entry, p)
(* read_dir: ".", "..", then what is there; the order of two entries does  *)
(* not depend on which others exist.  Those in S of the first names:       *)
Ordered(S) ==
    LET first[i \in 0..Len(Order)] ==
            IF i = 0 THEN <<>>
            ELSE IF Order[i] \in S THEN Append(first[i - 1], Order[i])
            ELSE first[i - 1]
    IN  first
Entries(p) ==
    LET there == Ordered(NamesIn(p))[Len(Order)] IN
    <<p, Parent(p)>> \o [i \in DOMAIN there |-> Append(p, there[i])]

Known == DOMAIN inodes          \* the numbers a request may carry

TypeOK ==
    /\ entry \in [Nodes -> {Absent, Dir} \cup Objects]
    /\ bytes \in [Objects -> 0..2]
    /\ inodes \in Seq(Paths) /\ Len(inodes) \in 1..MaxInodes
    /\ paths \in [Paths -> 0..Len(inodes)]
    /\ handles \in [1..MaxHandles ->
                      {Closed} \cup [ino : Known, obj : Objects, write : BOOLEAN]]
    /\ dirtyFiles \subseteq Nodes /\ news \subseteq Nodes
    /\ req \in {Idle} \cup Request
    /\ listing = Closed \/
         /\ listing.ino \in Known /\ listing.offset \in Nat
         /\ listing.seen \in Seq(Paths) /\ listing.kept \subseteq Names
         /\ {listing.shrunk, listing.grew} \subseteq BOOLEAN

Init ==
    /\ entry = [p \in Nodes |-> Absent] /\ bytes = [o \in Objects |-> 0]
    /\ inodes = <<Root>>
    /\ paths = [p \in Paths |-> IF p = Root THEN 1 ELSE 0]
    /\ handles = [h \in 1..MaxHandles |-> Closed]
    /\ dirtyFiles = {} /\ listing = Closed /\ req = Idle /\ news = {}

-----------------------------------------------------------------------------
(* get_inode, for one path and for each of a sequence of paths in turn:    *)
(* the tables after the first i of them.                                   *)
GetInodeLate(t, p) ==     \* faulty variant: counts before the second insert
    IF t.paths[p] # 0 THEN t
    ELSE [inodes |-> Append(t.inodes, p),
          paths |-> [t.paths EXCEPT ![p] = Len(t.inodes) + 2]]
GetInode(t, p) ==
    IF t.paths[p] # 0 THEN t
    ELSE [inodes |-> Append(t.inodes, p),
          paths |-> [t.paths EXCEPT ![p] = Len(t.inodes) + 1]]
Numbered(ps) ==
    LET after[i \in 0..Len(ps)] ==
            IF i = 0 THEN [inodes |-> inodes, paths |-> paths]
            ELSE GetInode(after[i - 1], ps[i])
    IN  after
NumberAll(ps) ==
    LET t == Numbered(ps)[Len(ps)] IN
    /\ Len(t.inodes) <= MaxInodes
    /\ inodes' = t.inodes /\ paths' = t.paths

Seen(p) == IF IsFile(p) THEN <<entry[p], bytes[entry[p]]>> ELSE <<entry[p]>>

(* is_dirty, at the start of a handler; a path that is locked is refused.  *)
Free(p) == p \notin dirtyFiles
Checked(op, arg, p, q) ==
    /\ req = Idle /\ Free(p)
    /\ req' = [pc |-> IF op = "rename" THEN "check" ELSE "act", op |-> op,
               arg |-> arg, path |-> p, to |-> q, raced |-> {}, changed |-> {}]
    /\ news' = {}
    /\ UNCHANGED <<storeVars, tableVars, handles, dirtyFiles, listing>>

(* The handler has come to its effect; it replies and ends, or replies and *)
(* goes on to invalidate_client.                                           *)
Serves(op, p) == req.pc = "act" /\ req.op = op /\ req.path = p
Replies == req' = Idle /\ news' = {}
GoesOn ==
    /\ req' = [req EXCEPT !.pc = "tell",
                          !.changed = {p \in Nodes : Seen(p)' # Seen(p)}]
    /\ news' = {}

(* History for the listing, in every step that changes the store.          *)
Watched ==
    IF listing = Closed THEN listing' = listing
    ELSE LET now == NamesIn(inodes[listing.ino])
             new == NamesAt(entry', inodes[listing.ino]) IN
         listing' = [listing EXCEPT !.kept = @ \cap new,
                         !.shrunk = @ \/ now \ new # {},
                         !.grew = @ \/ new \ now # {}]

InStore(o) == \E p \in Nodes : entry[p] = o
HeldOpen(o) == \E h \in 1..MaxHandles : handles[h] # Closed /\ handles[h].obj = o
Put(o, b) == bytes' = [bytes EXCEPT ![o] = b]
Changed(o) == IF bytes[o] = 0 THEN 1 ELSE 0

-----------------------------------------------------------------------------
(* Requests by inode number.                                               *)
(* The kernel starts and ends a listing; the file system is not told.      *)
Opendir(ino) ==
    /\ req = Idle /\ listing = Closed /\ IsDir(inodes[ino])
    /\ listing' = [ino |-> ino, offset |-> 0, seen |-> <<>>,
                   kept |-> NamesIn(inodes[ino]), shrunk |-> FALSE, grew |-> FALSE]
    /\ news' = {}
    /\ UNCHANGED <<storeVars, tableVars, handles, dirtyFiles, req>>
Releasedir ==
    /\ req = Idle /\ listing # Closed /\ listing' = Closed
    /\ news' = {}
    /\ UNCHANGED <<storeVars, tableVars, handles, dirtyFiles, req>>

(* A call returns the entries after the offset that fit the buffer; the    *)
(* first that does not fit has been given a number as well.                *)
ReaddirAgain(room) ==     \* faulty variant: < for <= in the offset test
    LET p == inodes[listing.ino]
        from == IF listing.offset = 0 THEN 1 ELSE listing.offset
        upto == IF from + room - 1 < Len(Entries(p)) THEN from + room - 1
                ELSE Len(Entries(p)) IN
    /\ req = Idle /\ listing # Closed /\ IsDir(p)
    /\ NumberAll(SubSeq(Entries(p), from, upto))
    /\ listing' = [listing EXCEPT !.offset = upto,
                      !.seen = @ \o SubSeq(Entries(p), from, upto)]
    /\ news' = {}
    /\ UNCHANGED <<storeVars, handles, dirtyFiles, req>>
Readdir(room) ==
    LET p == inodes[listing.ino]
        rest == SubSeq(Entries(p), listing.offset + 1, Len(Entries(p)))
        n == IF room < Len(rest) THEN room ELSE Len(rest) IN
    /\ req = Idle /\ listing # Closed /\ IsDir(p)
    /\ NumberAll(SubSeq(rest, 1, IF n < Len(rest) THEN n + 1 ELSE n))
    /\ listing' = [listing EXCEPT !.offset = @ + n,
                      !.seen = @ \o SubSeq(rest, 1, n)]
    /\ news' = {}
    /\ UNCHANGED <<storeVars, handles, dirtyFiles, req>>

(* Only an open that reads looks at dirty_files.                           *)
OpenBegin(ino) ==
    /\ inodes[ino] \in Nodes
    /\ \E op \in {"openR", "openRW"} : Checked(op, ino, inodes[ino], inodes[ino])
OpensAs(ino, write) ==
    /\ IsFile(inodes[ino])
    /\ \E h \in 1..MaxHandles :
          /\ handles[h] = Closed
          /\ handles' = [handles EXCEPT ![h] =
                [ino |-> ino, obj |-> entry[inodes[ino]], write |-> write]]
    /\ Replies
    /\ UNCHANGED <<storeVars, tableVars, dirtyFiles, listing>>
Open(ino) ==
    \/ req = Idle /\ OpensAs(ino, TRUE)         \* O_WRONLY
    \/ Serves("openR", inodes[ino]) /\ req.arg = ino /\ OpensAs(ino, FALSE)
    \/ Serves("openRW", inodes[ino]) /\ req.arg = ino /\ OpensAs(ino, TRUE)

(* The check and the broadcast go by the path of the inode number, the     *)
(* bytes by the open file.                                                 *)
WriteUnchecked(h) ==      \* faulty variant: the handle is enough
    LET p == inodes[handles[h].ino] IN
    /\ req = Idle /\ handles[h] # Closed /\ handles[h].write
    /\ req' = [pc |-> "act", op |-> "write", arg |-> h, path |-> p, to |-> p,
               raced |-> {}, changed |-> {}]
    /\ news' = {}
    /\ UNCHANGED <<storeVars, tableVars, handles, dirtyFiles, listing>>
WriteBegin(h) ==
    LET p == inodes[handles[h].ino] IN
    handles[h] # Closed /\ handles[h].write /\ Checked("write", h, p, p)
Write(h) ==
    /\ req # Idle /\ req.arg = h
    /\ handles[h] # Closed /\ Serves("write", inodes[handles[h].ino])
    /\ Put(handles[h].obj, Changed(handles[h].obj))
    /\ UNCHANGED entry
    /\ GoesOn
    /\ UNCHANGED <<tableVars, handles, dirtyFiles, listing>>

Release(h) ==
    /\ req = Idle /\ handles[h] # Closed
    /\ handles' = [handles EXCEPT ![h] = Closed]
    /\ news' = {}
    /\ UNCHANGED <<storeVars, tableVars, dirtyFiles, listing, req>>

(* setattr with a size: no check, no broadcast.                            *)
Setattr(ino) ==
    /\ req = Idle /\ IsFile(inodes[ino])
    /\ Put(entry[inodes[ino]], Unchecked)
    /\ news' = {}
    /\ UNCHANGED <<entry, tableVars, handles, dirtyFiles, listing, req>>

-----------------------------------------------------------------------------
(* Requests by the number of the parent and a name: p is the path that the *)
(* handler joins from them.                                                *)
Named(p) == \E ino \in Known : inodes[ino] = Parent(p)
NameBegin(p) ==
    /\ Named(p)
    /\ \E op \in {"lookup", "mkdir", "unlink", "rmdir", "create"} :
          Checked(op, 0, p, p)

Lookup(p) ==
    /\ Serves("lookup", p) /\ entry[p] # Absent
    /\ NumberAll(<<p>>)
    /\ Replies
    /\ UNCHANGED <<storeVars, handles, dirtyFiles, listing>>

Mkdir(p) ==
    /\ Serves("mkdir", p) /\ entry[p] = Absent /\ IsDir(Parent(p))
    /\ entry' = [entry EXCEPT ![p] = Dir] /\ UNCHANGED bytes
    /\ NumberAll(<<p>>)
    /\ GoesOn /\ Watched
    /\ UNCHANGED <<handles, dirtyFiles>>

(* remove_file takes a file, remove_dir an empty directory.                *)
Gone(p) ==
    /\ entry' = [entry EXCEPT ![p] = Absent] /\ UNCHANGED bytes
    /\ GoesOn /\ Watched
    /\ UNCHANGED <<tableVars, handles, dirtyFiles>>
Unlink(p) == Serves("unlink", p) /\ IsFile(p) /\ Gone(p)
Rmdir(p) == Serves("rmdir", p) /\ IsDir(p) /\ NamesIn(p) = {} /\ Gone(p)

(* fs::rename: a directory takes what is below it along.                   *)
MayMove(p, q) ==
    /\ entry[p] # Absent /\ IsDir(Parent(q)) /\ ~IsStrictPrefix(p, q)
    /\ IF IsDir(p) THEN p = q \/ entry[q] = Absent \/ (IsDir(q) /\ NamesIn(q) = {})
                   ELSE ~IsDir(q)
    /\ \A r \in Below(p) :            \* bound: what is below fits Nodes
          entry[r] # Absent => q \o SubSeq(r, Len(p) + 1, Len(r)) \in Nodes
Moved(p, q) ==
    [r \in Nodes |->
        LET from == p \o SubSeq(r, Len(q) + 1, Len(r)) IN
        IF IsPrefix(q, r) THEN IF from \in Nodes THEN entry[from] ELSE Absent
        ELSE IF IsPrefix(p, r) THEN Absent ELSE entry[r]]
RenameBegin(p, q) == Named(p) /\ Named(q) /\ Checked("rename", 0, p, q)
RenameCheck ==            \* is_dirty for the new path
    /\ req.pc = "check" /\ Free(req.to)
    /\ req' = [req EXCEPT !.pc = "act"]
    /\ news' = {}
    /\ UNCHANGED <<storeVars, tableVars, handles, dirtyFiles, listing>>
Rename(p, q) ==
    /\ Serves("rename", p) /\ req.to = q /\ MayMove(p, q)
    /\ entry' = Moved(p, q) /\ UNCHANGED bytes
    /\ GoesOn /\ Watched
    /\ UNCHANGED <<tableVars, handles, dirtyFiles>>

(* File::create truncates a file that is there.                            *)
Create(p) ==
    /\ Serves("create", p) /\ ~IsDir(p) /\ IsDir(Parent(p))
    /\ \E o \in Objects :
          /\ IF IsFile(p) THEN o = entry[p] ELSE ~InStore(o) /\ ~HeldOpen(o)
          /\ entry' = [entry EXCEPT ![p] = o]
          /\ Put(o, 0)
          /\ NumberAll(<<p>>)
          /\ \E h \in 1..MaxHandles :
                /\ handles[h] = Closed
                /\ handles' = [handles EXCEPT ![h] =
                      [ino |-> paths'[p], obj |-> o, write |-> TRUE]]
    /\ GoesOn /\ Watched
    /\ UNCHANGED dirtyFiles

-----------------------------------------------------------------------------
(* A path is locked, or the call fails for whatever reason: an error.      *)
Fail ==
    /\ req.pc \in {"check", "act"}
    /\ Replies
    /\ UNCHANGED <<storeVars, tableVars, handles, dirtyFiles, listing>>

(* invalidate_client, for each path of the request: nothing is broadcast   *)
(* for a path that is locked now.                                          *)
Tells(p, more) ==
    /\ news' = {p} \ dirtyFiles
    /\ req' = IF more THEN [req EXCEPT !.pc = "tellNew", !.changed = @ \ news']
              ELSE Idle
    /\ UNCHANGED <<storeVars, tableVars, handles, dirtyFiles, listing>>
InvalidateOnce ==         \* faulty variant: a rename tells its old path only
    \/ req.pc = "tell" /\ Tells(req.path, FALSE)
    \/ req.pc = "tellNew" /\ Tells(req.to, FALSE)
Invalidate ==
    \/ req.pc = "tell" /\ Tells(req.path, req.op = "rename")
    \/ req.pc = "tellNew" /\ Tells(req.to, FALSE)

-----------------------------------------------------------------------------
(* The signal server's part: DIRTY and CLEAN, and PATCH, which writes the  *)
(* path whatever dirty_files holds.                                        *)
HandleDirty(p) ==
    /\ Free(p) /\ Cardinality(dirtyFiles) < MaxDirty
    /\ dirtyFiles' = dirtyFiles \cup {p}
    /\ req' = IF req # Idle /\ p \in {req.path, req.to}
              THEN [req EXCEPT !.raced = @ \cup {p}] ELSE req
HandleClean(p) == ~Free(p) /\ dirtyFiles' = dirtyFiles \ {p} /\ UNCHANGED req
Signal(p) ==
    /\ HandleDirty(p) \/ HandleClean(p)
    /\ news' = {}
    /\ UNCHANGED <<storeVars, tableVars, handles, listing>>

HandlePatch(p) ==
    /\ IsDir(Parent(p)) /\ ~IsDir(p)
    /\ IF IsFile(p) THEN Put(entry[p], Unchecked) /\ UNCHANGED entry
       ELSE \E o \in Objects :
               /\ ~InStore(o) /\ ~HeldOpen(o)
               /\ entry' = [entry EXCEPT ![p] = o]
               /\ Put(o, Unchecked)
    /\ news' = {} /\ Watched
    /\ UNCHANGED <<tableVars, handles, dirtyFiles, req>>

ByName(p) ==
    \/ NameBegin(p) \/ Lookup(p) \/ Mkdir(p) \/ Unlink(p) \/ Rmdir(p) \/ Create(p)
    \/ \E q \in Nodes : RenameBegin(p, q) \/ Rename(p, q)
ByNumber(ino) == Opendir(ino) \/ Setattr(ino) \/ OpenBegin(ino) \/ Open(ino)
ByHandle(h) == WriteBegin(h) \/ Write(h) \/ Release(h)
Next ==
    \/ \E ino \in Known : ByNumber(ino)
    \/ \E h \in 1..MaxHandles : ByHandle(h)
    \/ \E room \in 1..2 : Readdir(room)
    \/ Releasedir \/ RenameCheck \/ Fail \/ Invalidate
    \/ \E p \in Nodes : ByName(p) \/ Signal(p) \/ HandlePatch(p)

Spec == Init /\ [][Next]_vars

-----------------------------------------------------------------------------
(* The two tables of get_inode stay inverse to each other: two numbers     *)
(* never name one path, and every number leads back to its path, although  *)
(* rename and unlink take nothing out of them.                             *)
TablesAgree ==
    /\ \A i \in Known : paths[inodes[i]] = i
    /\ \A p \in Paths : paths[p] # 0 => paths[p] \in Known /\ inodes[paths[p]] = p

(* What reaches a file past the check of its path: PATCH, setattr, a       *)
(* handle whose file has been moved to the path under it, and the renaming *)
(* of a directory above it.                                                *)
Elsewhere(p) ==
    /\ req # Idle
    /\ \/ req.op = "write" /\ p # req.path
       \/ req.op = "rename" /\ p \in Below(req.path) \cup Below(req.to)
PastCheck(p) ==
    \/ HandlePatch(p)
    \/ \E ino \in Known : Setattr(ino) /\ inodes[ino] = p
    \/ Elsewhere(p) /\ req.pc = "act" /\ req'.pc = "tell"

(* While a client holds the lock of a path, no server-side user changes    *)
(* what is there, by name or through a handle opened before the lock: only *)
(* the one request that had been checked when DIRTY was handled may still  *)
(* come through (fs.rs: is_dirty lets go of the lock before the effect).   *)
LockedFileStays ==
    [][\A p \in dirtyFiles :
          Seen(p)' = Seen(p) \/ PastCheck(p) \/ (req # Idle /\ p \in req.raced)]_vars

(* A request that ends has broadcast every path that it changed, both      *)
(* paths of a rename included, unless DIRTY came for that path after the   *)
(* check, so that invalidate_client may find it locked and say nothing.    *)
ChangeIsAnnounced ==
    [][req # Idle /\ req' = Idle =>
          \A p \in req.changed \ news' : p \in req.raced \/ Elsewhere(p)]_vars

(* A listing read to its end with buffers of any size has every entry that *)
(* was there throughout, unless an entry was removed meanwhile, and none   *)
(* twice, unless one was added: the offset is an index into what is there  *)
(* now (readdir).                                                          *)
ListingFaithful ==
    listing # Closed =>
        LET p == inodes[listing.ino] IN
        listing.offset >= Len(Entries(p)) =>
            /\ ~listing.shrunk =>
                  \A n \in listing.kept : Append(p, n) \in Range(listing.seen)
            /\ ~listing.grew =>
                  \A i, j \in 3..Len(listing.seen) :
                     i # j => listing.seen[i] # listing.seen[j]
=============================================================================
