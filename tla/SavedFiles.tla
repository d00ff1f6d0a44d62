----------------------------- MODULE SavedFiles -----------------------------
(***************************************************************************)
(* What slipspace promises the users of a shared workspace, with no        *)
(* threads, caches, locks or messages: a save is visible at once where it  *)
(* was made, reaches the server whole, and no user of the server saves     *)
(* over what has not arrived yet (README: "Writes are instantly saved      *)
(* locally and synced in the background", "locks any operations using      *)
(* those files before files are completely synced").                       *)
(***************************************************************************)
CONSTANTS Paths, Files     \* Files: what a path may hold, "no file" included

VARIABLES
    saved,    \* what a user last saved under each path
    stored    \* what the server holds under it
vars == <<saved, stored>>

Init == saved \in [Paths -> Files] /\ stored = saved

(* A client user saves; the server will hear of it.                        *)
SaveAtClient(p, c) ==
    /\ saved' = [saved EXCEPT ![p] = c]
    /\ UNCHANGED stored

(* The server receives the whole of what was saved last, and nothing else. *)
Receive(p) ==
    /\ stored' = [stored EXCEPT ![p] = saved[p]]
    /\ UNCHANGED saved

(* A save that is made at the server, over a file that has all arrived.    *)
SaveAtServer(p, c) ==
    /\ stored[p] = saved[p]
    /\ saved' = [saved EXCEPT ![p] = c]
    /\ stored' = [stored EXCEPT ![p] = c]

Next ==
    \E p \in Paths :
        \/ Receive(p)
        \/ \E c \in Files : SaveAtClient(p, c) \/ SaveAtServer(p, c)

Spec == Init /\ [][Next]_vars
=============================================================================
