------------------------------ MODULE TimerMgr ------------------------------
(***************************************************************************)
(* The timer manager of the engine (timer_mgr.cpp): timers in a red-black   *)
(* tree ordered by the time they are due, an index of them by id, and a set *)
(* of those to be removed at the next occasion, since a callback may remove *)
(* any timer, its own included.                                            *)
(*                                                                         *)
(* The tree is the set of its nodes, of which the one with the least key is *)
(* taken first, and any of those with the same key.                        *)
(***************************************************************************)
EXTENDS Integers

CONSTANTS
  MaxId,     \* timers added, at most
  Times,     \* the moments there are
  LoopMax,   \* nodes an update takes, at most (10000000 in the code)
  None

Ids == 1..MaxId

TimerItems == [key : Nat, span : Nat, left : Int]

ASSUME TimerAssumption ==
  /\ MaxId \in Nat \ {0} /\ LoopMax \in Nat \ {0}
  /\ Times \subseteq Nat
  /\ None \notin Int /\ None \notin TimerItems

VARIABLES
  m_now_ms,
  items,          \* m_id_to_timer_node, with the nodes' keys and items
  tree,           \* m_rbtree_timer_items
  to_remove,      \* m_to_remove_nodes
  last_timer_id,
  current,        \* the timer whose callback runs, or None
  updating,       \* in the loop of UpdateTime
  loops,
  \* history
  freed,          \* how often a timer's node was freed
  dangling        \* a node in to_remove was freed by ClearAll

timerVars == <<m_now_ms, items, tree, to_remove, last_timer_id, current, updating,
               loops, freed, dangling>>

-----------------------------------------------------------------------------
Known == {t \in Ids : items[t] # None}

\* With no times to fire it fires once all the same; -1 is no limit.
Addable(span, times) ==
  /\ last_timer_id < MaxId
  /\ span >= 0 /\ times >= -1
  /\ times = -1 => span > 0

Add(start, span, times) ==
  LET t == last_timer_id + 1
  IN /\ Addable(span, times)
     /\ last_timer_id' = t
     /\ items' = [items EXCEPT ![t] = [key |-> IF start >= m_now_ms THEN start ELSE m_now_ms,
                                       span |-> span, left |-> times]]
     /\ tree' = tree \cup {t}
     /\ UNCHANGED <<m_now_ms, to_remove, current, updating, loops, freed, dangling>>

AddNext(start) == Add(start, 0, 1)
AddFirm(span, times) == Add(m_now_ms + span, span, times)

RemoveTimer(t) ==
  /\ to_remove' = to_remove \cup {t}
  /\ UNCHANGED <<m_now_ms, items, tree, last_timer_id, current, updating, loops, freed, dangling>>

\* Mutant: the nodes are freed in the tree.
ChekRemoveNodesLeaveTree ==
  LET gone == to_remove \cap Known
  IN /\ items' = [t \in Ids |-> IF t \in gone THEN None ELSE items[t]]
     /\ freed' = [t \in Ids |-> IF t \in gone THEN freed[t] + 1 ELSE freed[t]]
     /\ to_remove' = {}
     /\ UNCHANGED tree

\* Mutant: the index keeps them.
ChekRemoveNodesKeepIndex ==
  LET gone == to_remove \cap Known
  IN /\ tree' = tree \ gone
     /\ freed' = [t \in Ids |-> IF t \in gone THEN freed[t] + 1 ELSE freed[t]]
     /\ to_remove' = {}
     /\ UNCHANGED items

\* A node that is in the tree is taken out of it; all are freed.
ChekRemoveNodes ==
  LET gone == to_remove \cap Known
  IN /\ tree' = tree \ gone
     /\ items' = [t \in Ids |-> IF t \in gone THEN None ELSE items[t]]
     /\ freed' = [t \in Ids |-> IF t \in gone THEN freed[t] + 1 ELSE freed[t]]
     /\ to_remove' = {}

UpdateTime(now) ==
  /\ ~updating
  /\ m_now_ms' = now
  /\ ChekRemoveNodes
  /\ updating' = TRUE /\ loops' = 0
  /\ UNCHANGED <<last_timer_id, current, dangling>>

OneIsDue == loops < LoopMax /\ \E t \in tree : items[t].key <= m_now_ms

\* srv_rbtree_min
IsFirst(t) == t \in tree /\ \A u \in tree : items[t].key <= items[u].key

\* Mutant: the callback of a removed timer runs.
ExecuteNodeUnchecked ==
  /\ updating /\ current = None
  /\ OneIsDue
  /\ loops' = loops + 1
  /\ \E t \in tree : IsFirst(t) /\ tree' = tree \ {t} /\ current' = t
  /\ UNCHANGED <<m_now_ms, items, to_remove, last_timer_id, updating, freed, dangling>>

\* TryExecuteNode, up to the callback.
ExecuteNode ==
  /\ updating /\ current = None
  /\ OneIsDue
  /\ loops' = loops + 1
  /\ \E t \in tree :
       /\ IsFirst(t)
       /\ tree' = tree \ {t}
       /\ current' = IF t \in to_remove THEN None ELSE t
  /\ UNCHANGED <<m_now_ms, items, to_remove, last_timer_id, updating, freed, dangling>>

\* Mutant: a timer without limit is counted down as well.
LeftAfterAlways(left) == left - 1
LeftAfter(left) == IF left = -1 THEN -1 ELSE left - 1

GoesOn(item) == item.left = -1 \/ item.left > 1

\* ... and after it.
NodeExecuted ==
  LET item == items[current]
  IN /\ current # None
     /\ current' = None
     /\ items' = [items EXCEPT ![current] =
                   [key  |-> IF GoesOn(item) THEN m_now_ms + item.span ELSE item.key,
                    span |-> item.span, left |-> LeftAfter(item.left)]]
     /\ IF GoesOn(item)
        THEN tree' = tree \cup {current} /\ UNCHANGED to_remove
        ELSE to_remove' = to_remove \cup {current} /\ UNCHANGED tree
     /\ UNCHANGED <<m_now_ms, last_timer_id, updating, loops, freed, dangling>>

UpdateEnds ==
  /\ updating /\ current = None
  /\ ~OneIsDue
  /\ ChekRemoveNodes
  /\ updating' = FALSE
  /\ UNCHANGED <<m_now_ms, last_timer_id, current, loops, dangling>>

\* The nodes of the tree are freed, and the index is left with them.
ClearAll ==
  /\ tree' = {}
  /\ freed' = [t \in Ids |-> IF t \in tree THEN freed[t] + 1 ELSE freed[t]]
  /\ dangling' = (to_remove \cap tree # {})
  /\ UNCHANGED <<m_now_ms, items, to_remove, last_timer_id, current, updating, loops>>
=============================================================================
