---------------------------- MODULE MCScamperLoop ----------------------------
(* Instances of ScamperLoop for TLC.                                       *)
EXTENDS ScamperLoop

CONSTANTS t1, t2, t3

=============================================================================
