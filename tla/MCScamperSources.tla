-------------------------- MODULE MCScamperSources --------------------------
(* Instances of ScamperSources for TLC.                                    *)
EXTENDS ScamperSources

CONSTANTS sa, sb, sc, t1, t2, t3, t4

(* sa is the default source, if there is one; sb is a control client's     *)
ThreeSources == [t \in Task |-> IF t = t3 THEN sb ELSE IF t = t4 THEN sc ELSE sa]
TwoForA == [s \in Source |-> IF s = sa THEN 2 ELSE 1]
TwoSources == [t \in Task |-> IF t \in {t1, t2} THEN sa ELSE sb]
OneSource  == [t \in Task |-> sa]
TaskOrder  == [t \in Task |-> CASE t = t1 -> 1 [] t = t2 -> 2 [] t = t3 -> 3 [] t = t4 -> 4]
InTurn == [s \in Source |-> SetToSortSeq({t \in Task : SourceOf[t] = s},
                                         LAMBDA u, t : TaskOrder[u] < TaskOrder[t])]

CmdlineAndControl == [s \in Source |-> IF s = sa THEN "cmdline" ELSE "control"]
StdinAndControl   == [s \in Source |-> IF s = sa THEN "stdin"   ELSE "control"]
FileAndControl    == [s \in Source |-> IF s = sa THEN "file"    ELSE "control"]
AllControl        == [s \in Source |-> "control"]
OneEach           == [s \in Source |-> 1]

(* every two tasks overlap                                                 *)
Clique == {<<u, t>> \in Task \X Task : u # t}
(* t1 and t3 overlap t2 but not each other                                 *)
Chain  == {<<u, t>> \in Task \X Task : u # t /\ t2 \in {u, t}}

=============================================================================
