----------------------------- MODULE ProbeBucket -----------------------------
(***************************************************************************)
(* What scamper's pacing promises: a bucket of time that fills by the      *)
(* clock, holds at most Depth, and pays Wait for every probe.  In any      *)
(* stretch of time L no more than (Depth + L) / Wait probes are sent.      *)
(***************************************************************************)
EXTENDS Integers

CONSTANTS Task, Wait, Depth

VARIABLES
  level,  \* the time saved up
  left    \* the probes each task has yet to send

Init == level = 0 /\ left \in [Task -> Nat]

Fill == level' = level + 1 /\ level' <= Depth /\ UNCHANGED left

(* time that nobody used is forgotten                                      *)
Leak == level' \in 0 .. level /\ UNCHANGED left

Send ==
  /\ level >= Wait
  /\ level' = level - Wait
  /\ \E t \in Task : left[t] > 0 /\ left' = [left EXCEPT ![t] = @ - 1]

Next == Fill \/ Leak \/ Send

Spec == Init /\ [][Next]_<<level, left>>

=============================================================================
