---------------------------- MODULE MCSlipSync ----------------------------
(* Instances of SlipSync for TLC.                                          *)
EXTENDS TurnTaking, TLC

PathSymmetry == Permutations(Paths)
=============================================================================
