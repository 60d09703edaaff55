------------------------------- MODULE Timers -------------------------------
(***************************************************************************)
(* What the timer manager promises: a timer fires when it is due and never  *)
(* before, the earliest first, as often as it was asked to, and not at all  *)
(* once it was removed.                                                    *)
(***************************************************************************)
EXTENDS Integers

CONSTANTS Ids, Never

VARIABLES
  now,    \* the time of the last update
  firing, \* the timer whose callback runs, or Never
  plan    \* a timer's next time, how many times are left (without limit if
          \* negative) and how far apart they are, or Never

vars == <<now, firing, plan>>

\* One timer is there from the beginning, to be fired once.
Init ==
  /\ firing = Never
  /\ \E t \in Ids :
       plan = [u \in Ids |-> IF u = t THEN [due |-> now, span |-> 0, left |-> 1] ELSE Never]

Tick == UNCHANGED <<firing, plan>>

Add(t) ==
  /\ plan[t] = Never
  /\ \A u \in Ids \ {t} : plan'[u] = plan[u]
  /\ plan'[t] # Never => plan'[t].due >= now
  /\ UNCHANGED <<now, firing>>

Remove(t) ==
  /\ plan' = [plan EXCEPT ![t] = Never]
  /\ UNCHANGED <<now, firing>>

Fire(t) ==
  /\ firing = Never /\ firing' = t
  /\ plan[t] # Never /\ plan[t].due <= now
  /\ \A u \in Ids : plan[u] # Never => plan[t].due <= plan[u].due
  /\ plan' = [plan EXCEPT ![t] =
                IF @.left < 0 \/ @.left > 1
                THEN [due |-> now + @.span, span |-> @.span,
                      left |-> IF @.left < 0 THEN @.left ELSE @.left - 1]
                ELSE Never]
  /\ UNCHANGED now

Fired == firing' = Never /\ UNCHANGED <<now, plan>>

RemoveAll ==
  /\ plan' = [t \in Ids |-> Never]
  /\ UNCHANGED <<now, firing>>

Next == Tick \/ Fired \/ (\E t \in Ids : Add(t) \/ Remove(t) \/ Fire(t)) \/ RemoveAll

Spec == Init /\ [][Next]_vars
=============================================================================
