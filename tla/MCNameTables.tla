---------------------------- MODULE MCNameTables ----------------------------
(* NameTables for TLC: two names at the top, one name below each of them.  *)
(* Constraints: a listing is followed while nothing is locked or open      *)
(* (readdir asks for neither), a request while there is something it could *)
(* work on.  States that differ only in what nothing depends on are one:   *)
(* news, what a listing has kept or seen once ListingFaithful asks no more *)
(* of it, and what only the properties of locked paths look at: the        *)
(* contents of files, while there is a listing, and the history of a       *)
(* request, then and if it only reads.                                     *)
EXTENDS NameTables
CONSTANTS a, b, f
MCNodes == {<<a>>, <<b>>, <<a, f>>, <<b, f>>}
MCOrder == <<a, b, f>>
ListedAlone ==
    \/ listing = Closed
    \/ dirtyFiles = {} /\ \A h \in 1..MaxHandles : handles[h] = Closed
Hopeful ==
    req # Idle /\ req.pc \in {"check", "act"} =>
        \/ req.op = "write"
        \/ req.op \in {"mkdir", "create"} /\ IsDir(Parent(req.path))
        \/ entry[req.path] # Absent
Asked ==
    IF listing = Closed THEN Closed
    ELSE [listing EXCEPT !.kept = IF listing.shrunk THEN {} ELSE @,
                         !.seen = IF listing.shrunk /\ listing.grew THEN <<>> ELSE @]
Locking ==
    IF req = Idle THEN <<dirtyFiles, req>>
    ELSE <<dirtyFiles, req.pc, req.op, req.arg, req.path, req.to>>
History ==
    IF listing # Closed THEN <<>>
    ELSE IF req = Idle \/ req.op \in {"lookup", "openR", "openRW"} THEN <<bytes>>
    ELSE <<bytes, req.raced, req.changed>>
View == <<entry, tableVars, handles, Asked, Locking, History>>
=============================================================================
