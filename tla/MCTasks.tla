------------------------------- MODULE MCTasks -------------------------------
(* Small instances of TaskMgrs for TLC. *)
EXTENDS TaskMgrs

CONSTANTS t1, t2, t3

\* Two tasks of one hash code, and one for the other thread.
TwoLanes == [t \in Tasks |-> IF t = t3 THEN 2 ELSE 1]
=============================================================================
