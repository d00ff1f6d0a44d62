----------------------------- MODULE FileCache -----------------------------
(***************************************************************************)
(* The size accounting and eviction of the client's cache                  *)
(* (slipspace-client/src/cache.rs) beside the copies on disk, under the    *)
(* handlers of fs.rs that use it and the two threads that do not:          *)
(* the sync thread clears dirty flags, the listener removes copies.        *)
(* SlipSync evicts any clean files; here is the table that picks them.     *)
(***************************************************************************)
EXTENDS Integers, SequencesExt

CONSTANTS
    Paths,
    MaxFile,    \* bound: the largest file
    MaxSize     \* max_size, 1 GB in the code
ASSUME BoundAssumption == MaxFile \in Nat /\ MaxSize \in Nat

NoCopy == -1
Sizes == 0..MaxFile
Entry == [path : Paths, size : Sizes]

VARIABLES
    lru,        \* the LRU table, least recently used first
    total,      \* current_size
    evicting,   \* the FUSE loop is in evict_if_needed
    held,       \* to_restore
    copy,       \* size of each cached copy on disk
    open,       \* paths with an open handle
    dirty,
    \* history: files found dirty by the last eviction; copies that changed
    \* size behind the table; the file that the last eviction was for
    kept, untracked, newest

tableVars == <<lru, total>>
evictVars == <<evicting, held, kept, newest>>
vars == <<tableVars, evictVars, copy, open, dirty, untracked>>

(* Where the table has p, with which size; the sum of the sizes.           *)
InTable(p) == \E i \in DOMAIN lru : lru[i].path = p
Place(p) == CHOOSE i \in DOMAIN lru : lru[i].path = p
SizeIn(p) == IF InTable(p) THEN lru[Place(p)].size ELSE 0
Sums(t) ==
    LET sum[i \in 0..Len(t)] == IF i = 0 THEN 0 ELSE sum[i - 1] + t[i].size
    IN  sum
Sum(t) == Sums(t)[Len(t)]
PathsOf(t) == {t[i].path : i \in DOMAIN t}

TypeOK ==
    /\ lru \in Seq(Entry) /\ held \in Seq(Entry)
    /\ LET all == lru \o held IN
       \A i, j \in DOMAIN all : all[i].path = all[j].path => i = j
    /\ total \in Nat /\ evicting \in BOOLEAN
    /\ copy \in [Paths -> Sizes \cup {NoCopy}]
    /\ {open, dirty, kept, untracked, newest} \subseteq SUBSET Paths

(* The cache directory may hold copies of an earlier session.              *)
Init ==
    /\ lru = <<>> /\ total = 0 /\ evicting = FALSE /\ held = <<>>
    /\ copy \in [Paths -> Sizes \cup {NoCopy}]
    /\ untracked = {p \in Paths : copy[p] # NoCopy}
    /\ open = {} /\ dirty = {} /\ kept = {} /\ newest = {}

-----------------------------------------------------------------------------
(* LruCache::put and get: the entry becomes the most recently used.        *)
Without(p) == IF InTable(p) THEN RemoveAt(lru, Place(p)) ELSE lru
PutInPlace(p, s) ==       \* faulty variant: an old entry keeps its place
    IF InTable(p) THEN [lru EXCEPT ![Place(p)].size = s]
    ELSE Append(lru, [path |-> p, size |-> s])
PutAgain(p, s) ==         \* faulty variant: an old entry stays as well
    Append(lru, [path |-> p, size |-> s])
Put(p, s) == Append(Without(p), [path |-> p, size |-> s])
Touched(p) == IF InTable(p) THEN Put(p, SizeIn(p)) ELSE lru

(* add_file and update_size: replace the entry, then evict.  base is the   *)
(* total without the old entry; update_size guards its subtraction.        *)
Account(p, s, base) ==
    /\ lru' = Put(p, s)
    /\ total' = base + s
    /\ evicting' = TRUE /\ newest' = {p}
    /\ untracked' = untracked \ {p}
    /\ UNCHANGED <<held, kept>>
AddFileTwice(p, s) == Account(p, s, total)    \* faulty variant: old size stays
AddFile(p, s) == Account(p, s, total - SizeIn(p))
UpdateSize(p, s) ==
    LET os == SizeIn(p) IN
    Account(p, s, IF total >= os THEN total - os ELSE total)

(* One turn of the loop of evict_if_needed, and its end.                   *)
EvictStop ==              \* faulty variant: a dirty file stops the loop
    LET e == Head(lru) IN
    /\ evicting /\ total > MaxSize /\ lru # <<>>
    /\ lru' = Tail(lru)
    /\ IF e.path \in dirty
       THEN /\ held' = Append(held, e) /\ evicting' = FALSE
            /\ UNCHANGED <<total, copy>>
       ELSE /\ copy' = [copy EXCEPT ![e.path] = NoCopy]
            /\ total' = total - e.size
            /\ UNCHANGED <<held, evicting>>
    /\ UNCHANGED <<open, dirty, kept, untracked, newest>>
EvictRequeue ==           \* faulty variant: a dirty file goes back at once
    LET e == Head(lru) IN
    /\ evicting /\ total > MaxSize /\ lru # <<>>
    /\ IF e.path \in dirty
       THEN lru' = Append(Tail(lru), e) /\ UNCHANGED <<total, copy>>
       ELSE /\ lru' = Tail(lru)
            /\ copy' = [copy EXCEPT ![e.path] = NoCopy]
            /\ total' = total - e.size
    /\ UNCHANGED <<evicting, held, open, dirty, kept, untracked, newest>>

EvictOne ==
    LET e == Head(lru) IN
    /\ evicting /\ total > MaxSize /\ lru # <<>>
    /\ lru' = Tail(lru)
    /\ IF e.path \in dirty
       THEN held' = Append(held, e) /\ UNCHANGED <<total, copy>>
       ELSE /\ copy' = [copy EXCEPT ![e.path] = NoCopy]
            /\ total' = total - e.size
            /\ UNCHANGED held
    /\ UNCHANGED <<evicting, open, dirty, kept, untracked, newest>>

EvictForget ==            \* faulty variant: what was set aside is dropped
    /\ evicting /\ (total <= MaxSize \/ lru = <<>>)
    /\ evicting' = FALSE
    /\ held' = <<>>
    /\ kept' = PathsOf(held)
    /\ UNCHANGED <<lru, total, copy, open, dirty, untracked, newest>>
EvictEnd ==
    /\ evicting /\ (total <= MaxSize \/ lru = <<>>)
    /\ evicting' = FALSE
    /\ lru' = lru \o held /\ held' = <<>>
    /\ kept' = PathsOf(held)
    /\ UNCHANGED <<total, copy, open, dirty, untracked, newest>>

-----------------------------------------------------------------------------
(* The handlers of fs.rs.  open downloads a file that is missing, or that  *)
(* is clean and differs in size from the server's.                         *)
OpenDownload(p) ==
    /\ ~evicting
    /\ \E s \in Sizes :
          /\ copy[p] = NoCopy \/ (p \notin dirty /\ s # copy[p])
          /\ copy' = [copy EXCEPT ![p] = s]
          /\ AddFile(p, s)
    /\ open' = open \cup {p}
    /\ UNCHANGED dirty

(* The download fails after File::create: the open succeeds all the same.  *)
OpenCut(p) ==
    /\ ~evicting
    /\ copy[p] = NoCopy \/ p \notin dirty
    /\ copy' = [copy EXCEPT ![p] = 0]
    /\ untracked' = untracked \cup {p}
    /\ open' = open \cup {p}
    /\ UNCHANGED <<tableVars, evictVars, dirty>>

OpenCached(p) ==
    /\ ~evicting /\ copy[p] # NoCopy
    /\ lru' = Touched(p)
    /\ open' = open \cup {p}
    /\ UNCHANGED <<total, evictVars, copy, dirty, untracked>>

Read(p) ==
    /\ ~evicting /\ p \in open /\ copy[p] # NoCopy
    /\ lru' = Touched(p)
    /\ UNCHANGED <<total, evictVars, copy, open, dirty, untracked>>

Write(p) ==
    /\ ~evicting /\ p \in open /\ copy[p] # NoCopy
    /\ \E s \in Sizes :
          /\ s >= copy[p]
          /\ copy' = [copy EXCEPT ![p] = s]
          /\ \/ UpdateSize(p, s)
             \/ /\ lru' = Touched(p)           \* its size cannot be read
                /\ untracked' = untracked \cup {p}
                /\ UNCHANGED <<total, evictVars>>
    /\ dirty' = dirty \cup {p}
    /\ UNCHANGED open

Release(p) ==
    /\ ~evicting /\ p \in open
    /\ open' = open \ {p}
    /\ UNCHANGED <<tableVars, evictVars, copy, dirty, untracked>>

(* create, setattr, unlink and rename leave the table as it is.            *)
Create(p) ==
    /\ ~evicting
    /\ copy' = [copy EXCEPT ![p] = 0]
    /\ untracked' = untracked \cup {p}
    /\ open' = open \cup {p}
    /\ UNCHANGED <<tableVars, evictVars, dirty>>

Setattr(p) ==
    /\ ~evicting
    /\ \E s \in Sizes :
          copy' = [copy EXCEPT ![p] = IF @ = NoCopy THEN NoCopy ELSE s]
    /\ untracked' = untracked \cup {p}
    /\ dirty' = dirty \cup {p}
    /\ UNCHANGED <<tableVars, evictVars, open>>

Unlink(p) ==
    /\ ~evicting
    /\ copy' = [copy EXCEPT ![p] = NoCopy]
    /\ UNCHANGED <<tableVars, evictVars, open, dirty, untracked>>

Rename(p, q) ==
    /\ ~evicting /\ p # q /\ copy[p] # NoCopy
    /\ copy' = [copy EXCEPT ![q] = copy[p], ![p] = NoCopy]
    /\ untracked' = untracked \cup {q}
    /\ UNCHANGED <<tableVars, evictVars, open, dirty>>

-----------------------------------------------------------------------------
(* The sync thread ends a pass; the listener handles an INVALIDATE.        *)
SyncClear(p) ==
    /\ dirty' = dirty \ {p}
    /\ UNCHANGED <<tableVars, evictVars, copy, open, untracked>>

Purge(p) ==
    /\ p \notin dirty
    /\ copy' = [copy EXCEPT ![p] = NoCopy]
    /\ UNCHANGED <<tableVars, evictVars, open, dirty, untracked>>

Handler(p) ==
    \/ OpenDownload(p) \/ OpenCut(p) \/ OpenCached(p) \/ Read(p) \/ Write(p)
    \/ Release(p) \/ Create(p) \/ Setattr(p) \/ Unlink(p) \/ \E q \in Paths : Rename(p, q)
EvictStep == EvictOne \/ EvictEnd
Next ==
    \/ \E p \in Paths : Handler(p) \/ SyncClear(p) \/ Purge(p)
    \/ EvictStep

Spec == Init /\ [][Next]_vars
FairSpec == Spec /\ WF_vars(EvictStep)

-----------------------------------------------------------------------------
(* current_size is the sum of the entries, in the table or set aside by    *)
(* the loop: it never drifts and never wraps below zero.                   *)
TotalIsSum == total = Sum(lru) + Sum(held)

(* Every copy on disk that was not made or resized behind the table has    *)
(* an entry of its size, also while the loop has set it aside: what is     *)
(* charged to the limit is what the disk holds.                            *)
CopyAccounted ==
    \A p \in Paths :
        copy[p] # NoCopy /\ p \notin untracked
            => [path |-> p, size |-> copy[p]] \in Range(lru \o held)

(* The cache is over its limit only with files that the last eviction      *)
(* found dirty: one dirty file spares no clean one (cache.rs to_restore).  *)
OverLimitOnlyDirty ==
    ~evicting /\ total > MaxSize => PathsOf(lru) \subseteq kept

(* The file that is being opened or written is evicted for its own sake    *)
(* only when nothing else is left to evict.                                *)
NewestGoesLast ==
    [][evicting /\ lru # <<>> /\ lru' = Tail(lru) /\ held' = held
          /\ Head(lru).path \in newest
          => Len(lru) = 1]_vars

(* Eviction ends, whatever the sync thread and the listener do meanwhile:  *)
(* with only dirty files left it gives up instead of going round.          *)
EvictionEnds == evicting ~> ~evicting
=============================================================================
