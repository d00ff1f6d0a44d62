----------------------------- MODULE MCWorkspace -----------------------------
(* Workspace for TLC: daemons and restores are interchangeable.            *)
EXTENDS Workspace, TLC

ProcessSymmetry == Permutations(Daemons) \cup Permutations(Restores)
=============================================================================
