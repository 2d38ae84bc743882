--------------------------- MODULE MCScamperQueue ---------------------------
(* Instances of ScamperQueue for TLC.                                      *)
EXTENDS ScamperQueue

TaskSymmetry == Permutations(Task)
=============================================================================
