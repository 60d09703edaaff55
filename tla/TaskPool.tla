------------------------------ MODULE TaskPool ------------------------------
(***************************************************************************)
(* What a task manager of the engine promises to its user: a task that was  *)
(* accepted is answered at most once, in the order of acceptance among the  *)
(* tasks of its lane, and never once the manager has begun to stop, when    *)
(* tasks may be dropped, the last of a lane first.                          *)
(***************************************************************************)
EXTENDS Integers, Sequences, SequencesExt

CONSTANTS Tasks, Lanes

VARIABLES
  lane,      \* the lane of a task
  line,      \* the accepted tasks of a lane that have no answer yet
  answered,  \* the tasks that were answered
  running    \* accepting tasks and answering them

vars == <<lane, line, answered, running>>

Known == answered \cup UNION {ToSet(line[l]) : l \in Lanes}

Accept(t) ==
  /\ t \notin Known
  /\ line' = [line EXCEPT ![lane[t]] = Append(@, t)]
  /\ UNCHANGED <<lane, answered, running>>

Answer(t) ==
  /\ running
  /\ line[lane[t]] # <<>> /\ t = Head(line[lane[t]])
  /\ line' = [line EXCEPT ![lane[t]] = Tail(@)]
  /\ answered' = answered \cup {t}
  /\ UNCHANGED <<lane, running>>

StartOrStop ==
  /\ running' = ~running
  /\ \A l \in Lanes : IsPrefix(line'[l], line[l])
  /\ UNCHANGED <<lane, answered>>

Drop ==
  /\ ~running
  /\ \A l \in Lanes : IsPrefix(line'[l], line[l])
  /\ UNCHANGED <<lane, answered, running>>

Init ==
  /\ lane \in [Tasks -> Lanes]
  /\ line = [l \in Lanes |-> <<>>]
  /\ answered = {}
  /\ running = FALSE

Next == (\E t \in Tasks : Accept(t) \/ Answer(t)) \/ StartOrStop \/ Drop

Spec == Init /\ [][Next]_vars
=============================================================================
