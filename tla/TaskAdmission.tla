---------------------------- MODULE TaskAdmission ----------------------------
(***************************************************************************)
(* What the sources, the hold lists and the signatures promise together,   *)
(* with no queue, list or count in sight: measurements are submitted; one  *)
(* starts only while none that it could be confused with runs; what has    *)
(* started runs until it is gone; what is gone does not come back.         *)
(* ScamperSources implements this.                                         *)
(***************************************************************************)
CONSTANTS
  Task,
  Conflict   \* pairs of measurements whose replies could be confused

VARIABLE state

Init == state \in [Task -> {"absent", "pending"}]

(* some measurements, a command or the lines of a block of a file          *)
Submit ==
  \E T \in SUBSET {t \in Task : state[t] = "absent"} :
    state' = [t \in Task |-> IF t \in T THEN "pending" ELSE state[t]]

Start(t) ==
  /\ state[t] = "pending"
  /\ \A u \in Task : state[u] = "running" => <<u, t>> \notin Conflict
  /\ state' = [state EXCEPT ![t] = "running"]

Finish(t) ==
  /\ state[t] = "running"
  /\ state' = [state EXCEPT ![t] = "gone"]

(* measurements that never run: halted, or dropped with their source       *)
Drop ==
  \E T \in SUBSET {t \in Task : state[t] = "pending"} :
    state' = [t \in Task |-> IF t \in T THEN "gone" ELSE state[t]]

Next == Submit \/ Drop \/ \E t \in Task : Start(t) \/ Finish(t)

Spec == Init /\ [][Next]_state

=============================================================================
