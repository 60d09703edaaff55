---------------------------- MODULE EngineProofs ----------------------------
(***************************************************************************)
(* Of Engine, for any number of timers and moments: the types of its state, *)
(* that a started network is stopped, that no timer's node is lost or freed *)
(* twice, and that the timers are kept.                                    *)
(***************************************************************************)
EXTENDS Engine, TLAPS

LEMMA ConstantTypes ==
  /\ MaxId \in Nat /\ 1 \in Ids /\ Ids \subseteq Nat
  /\ Times \subseteq Nat /\ Spans \subseteq Nat
  /\ LoopMax \in Nat /\ LoopMax > 0
  /\ None \notin Ids /\ None \notin TimerItems /\ None \notin Funcs
BY TimerAssumption, LogicAssumption DEF Ids

-----------------------------------------------------------------------------
(* Types. *)

TimerTypes ==
  /\ m_now_ms \in Times
  /\ items \in [Ids -> TimerItems \cup {None}]
  /\ \A t \in Ids : items[t] # None => items[t].left >= -1
  /\ tree \subseteq Ids /\ to_remove \subseteq Ids /\ last_timer_id \in Ids
  /\ current \in Ids \cup {None} /\ updating \in BOOLEAN /\ loops \in 0..LoopMax
  /\ freed \in [Ids -> Nat] /\ dangling \in BOOLEAN
  /\ current # None => items[current] # None /\ step = "timers" /\ updating
  /\ \A t \in tree : items[t] # None /\ t # current
  /\ \A t \in Ids : items[t] # None => t <= last_timer_id
  /\ \A t \in to_remove : t <= last_timer_id

LogicTypes ==
  /\ m_state \in States /\ func \in Funcs
  /\ step \in {"frame", "timers", "results", "modules"}
  /\ modules \in [Modules -> {"Free", "Inited", "Awaked", "Updating", "Quited", "Destroyed"}]
  /\ service_state \in {"Runing", "NotifyQuit", "Quiting", "Quited"}
  /\ run \in {"waits", "ok", "failed"} /\ exited \in BOOLEAN
  /\ quit_in \in Funcs \cup {None}
  /\ updating => step = "timers"

Types == TimerTypes /\ LogicTypes

LEMMA TypesSuffice == Types => TypeOK
BY DEF Types, TimerTypes, LogicTypes, TypeOK

LEMMA InitTypes == Init => Types
<1> SUFFICES ASSUME Init PROVE Types
  OBVIOUS
<1>1. items \in [Ids -> TimerItems \cup {None}]
  <2>1. [key |-> m_now_ms, span |-> 0, left |-> 1] \in TimerItems
    BY ConstantTypes DEF Init, TimerItems
  <2> QED BY <2>1 DEF Init
<1>2. \A t \in Ids : items[t] # None => items[t].left >= -1
  BY DEF Init
<1>3. freed \in [Ids -> Nat] /\ loops \in 0..LoopMax
  BY ConstantTypes DEF Init
<1>4. items[1] \in TimerItems /\ \A t \in Ids : t # 1 => items[t] = None
  BY ConstantTypes DEF Init, TimerItems
<1>6. TimerTypes
  <2>1. items[1] # None
    BY <1>4, ConstantTypes
  <2>2. \A t \in tree : t \in Ids /\ items[t] # None /\ t # None
    BY <2>1, ConstantTypes DEF Init
  <2>3. \A t \in Ids : items[t] # None => t <= 1
    BY <1>4
  <2> QED BY <1>1, <1>2, <1>3, <2>2, <2>3, ConstantTypes DEF Init, TimerTypes
<1>5. LogicTypes
  BY DEF Init, LogicTypes, States, Funcs
<1> QED BY <1>5, <1>6 DEF Types

LEMMA ChekTypes ==
  ASSUME Types, ChekRemoveNodes
  PROVE  /\ items' \in [Ids -> TimerItems \cup {None}]
         /\ \A t \in Ids : items'[t] # None => items'[t].left >= -1
         /\ tree' \subseteq Ids /\ to_remove' \subseteq Ids
         /\ \A t \in tree' : items'[t] # None /\ t # current
         /\ \A t \in Ids : items'[t] # None => items'[t] = items[t]
         /\ \A t \in to_remove' : FALSE
         /\ freed' \in [Ids -> Nat]
<1>1. items' \in [Ids -> TimerItems \cup {None}] /\ \A t \in Ids : items'[t] # None => items'[t] = items[t]
  BY DEF ChekRemoveNodes, Types, TimerTypes
<1>2. freed' \in [Ids -> Nat]
  <2>1. \A t \in Ids : freed[t] \in Nat /\ freed[t] + 1 \in Nat
    BY DEF Types, TimerTypes
  <2> QED BY <2>1 DEF ChekRemoveNodes
<1>3. \A t \in tree' : items'[t] # None /\ t # current
  BY DEF ChekRemoveNodes, Known, Types, TimerTypes
<1> QED BY <1>1, <1>2, <1>3 DEF ChekRemoveNodes, Types, TimerTypes

LEMMA FrameBeginsTypes == ASSUME Types, FrameBegins PROVE Types'
<1>1. PICK now \in Times : UpdateTime(now)
  BY DEF FrameBegins
<1>2. current = None
  BY ConstantTypes DEF FrameBegins, Types, TimerTypes
<1>3. TimerTypes'
  BY <1>1, <1>2, ChekTypes, ConstantTypes DEF UpdateTime, Types, TimerTypes
<1>4. LogicTypes'
  BY <1>1 DEF FrameBegins, UpdateTime, Types, LogicTypes
<1> QED BY <1>3, <1>4 DEF Types

LEMMA TimerFiresTypes == ASSUME Types, TimerFires PROVE Types'
<1>1. PICK t \in tree : tree' = tree \ {t} /\ current' = IF t \in to_remove THEN None ELSE t
  BY DEF TimerFires, ExecuteNode
<1>2. loops' \in 0..LoopMax
  BY ConstantTypes DEF TimerFires, ExecuteNode, OneIsDue, Types, TimerTypes
<1>3. TimerTypes'
  BY <1>1, <1>2, ConstantTypes DEF TimerFires, ExecuteNode, logicVars, Types, TimerTypes
<1>4. LogicTypes'
  BY DEF TimerFires, ExecuteNode, logicVars, Types, LogicTypes
<1> QED BY <1>3, <1>4 DEF Types

LEMMA QuitTypes ==
  ASSUME Types, Quit PROVE m_state' \in States /\ quit_in' \in Funcs \cup {None}
BY DEF Quit, Types, LogicTypes, States

\* What becomes of a timer whose callback has run.
LEMMA ExecutedIs ==
  ASSUME Types, NodeExecuted
  PROVE  /\ current \in Ids /\ items[current] \in TimerItems /\ items[current].left >= -1
         /\ items'[current] \in TimerItems /\ items'[current].left >= -1
         /\ items'[current].span = items[current].span
         /\ items'[current].left = LeftAfter(items[current].left)
         /\ GoesOn(items[current]) => items'[current].key = m_now_ms + items[current].span
         /\ items' \in [Ids -> TimerItems \cup {None}]
         /\ \A t \in Ids : t # current => items'[t] = items[t]
<1>1. current \in Ids /\ items[current] \in TimerItems /\ items[current].left >= -1 /\ m_now_ms \in Nat
  BY ConstantTypes DEF NodeExecuted, Types, TimerTypes
<1>2. items[current].key \in Nat /\ items[current].span \in Nat /\ items[current].left \in Int
  BY <1>1 DEF TimerItems
<1>3. PICK key \in Nat :
        /\ GoesOn(items[current]) => key = m_now_ms + items[current].span
        /\ items' = [items EXCEPT ![current] =
             [key |-> key, span |-> items[current].span, left |-> LeftAfter(items[current].left)]]
  <2>1. CASE GoesOn(items[current])
    <3>1. m_now_ms + items[current].span \in Nat
      BY <1>1, <1>2
    <3> QED BY <2>1, <3>1 DEF NodeExecuted
  <2>2. CASE ~GoesOn(items[current])
    BY <1>2, <2>2 DEF NodeExecuted
  <2> QED BY <2>1, <2>2
<1>4. LeftAfter(items[current].left) \in Int /\ LeftAfter(items[current].left) >= -1
  BY <1>1, <1>2 DEF LeftAfter
<1>5. items'[current] =
        [key |-> key, span |-> items[current].span, left |-> LeftAfter(items[current].left)]
  BY <1>1, <1>3 DEF Types, TimerTypes
<1>6. items'[current] \in TimerItems
  BY <1>2, <1>4, <1>5 DEF TimerItems
<1>7. \A t \in Ids : t # current => items'[t] = items[t]
  BY <1>3 DEF Types, TimerTypes
<1>8. items' \in [Ids -> TimerItems \cup {None}]
  BY <1>3, <1>6, <1>7 DEF Types, TimerTypes
<1> QED BY <1>1, <1>3, <1>4, <1>5, <1>6, <1>7, <1>8

LEMMA ExecutedTypes ==
  ASSUME Types, NodeExecuted, step' = step PROVE TimerTypes'
<1>1. items'[current] # None
  BY ExecutedIs, ConstantTypes
<1>2. \A t \in Ids : items'[t] # None => items'[t].left >= -1 /\ t <= last_timer_id
  BY ExecutedIs DEF NodeExecuted, Types, TimerTypes
<1>3. tree' \subseteq tree \cup {current} /\ to_remove' \subseteq to_remove \cup {current}
  BY DEF NodeExecuted
<1>4. \A t \in tree' : t \in Ids /\ items'[t] # None
  BY ExecutedIs, <1>1, <1>3 DEF Types, TimerTypes
<1>5. \A t \in to_remove' : t \in Ids /\ t <= last_timer_id
  BY ExecutedIs, <1>3 DEF NodeExecuted, Types, TimerTypes
<1>6. current' = None /\ \A t \in tree' : t # None
  BY <1>4, ConstantTypes DEF NodeExecuted
<1> QED BY ExecutedIs, <1>2, <1>4, <1>5, <1>6 DEF NodeExecuted, Types, TimerTypes

LEMMA TimerFiredTypes == ASSUME Types, TimerFired PROVE Types'
<1>1. step' = step /\ NodeExecuted
  BY DEF TimerFired
<1>2. TimerTypes'
  BY <1>1, ExecutedTypes
<1>3. m_state' \in States /\ quit_in' \in Funcs \cup {None} /\ run' \in {"waits", "ok", "failed"}
  BY QuitTypes DEF TimerFired, logicVars, Types, LogicTypes
<1>4. LogicTypes'
  BY <1>1, <1>3 DEF TimerFired, NodeExecuted, Types, LogicTypes
<1> QED BY <1>2, <1>4 DEF Types

LEMMA TimersEndTypes == ASSUME Types, TimersEnd PROVE Types'
<1>1. UpdateEnds /\ ChekRemoveNodes
  BY DEF TimersEnd, UpdateEnds
<1>2. TimerTypes'
  BY <1>1, ChekTypes DEF UpdateEnds, Types, TimerTypes
<1>3. LogicTypes'
  BY <1>1 DEF TimersEnd, UpdateEnds, Types, LogicTypes
<1> QED BY <1>2, <1>3 DEF Types

LEMMA ResultsEndTypes == ASSUME Types, ResultsEnd PROVE Types'
BY DEF ResultsEnd, timerVars, Types, TimerTypes, LogicTypes

\* The functions of the loop leave the timers alone, but for ClearAll.
LEMMA LoopTimerTypes == ASSUME Types, Loop PROVE TimerTypes'
<1>1. current = None
  BY DEF Loop, LoopCalled, InitCalled, AwakeCalled, UpdateCalled, RealseCalled, DestroyCalled,
         LoopEnds, Types, TimerTypes
<1>2. CASE ClearAll
  <2>1. freed' \in [Ids -> Nat]
    <3>1. \A t \in Ids : freed[t] \in Nat /\ freed[t] + 1 \in Nat
      BY DEF Types, TimerTypes
    <3> QED BY <1>2, <3>1 DEF ClearAll
  <2> QED BY <1>1, <1>2, <2>1 DEF ClearAll, Types, TimerTypes
<1>3. CASE UNCHANGED timerVars
  BY <1>1, <1>3 DEF timerVars, Types, TimerTypes
<1> QED BY <1>2, <1>3
        DEF Loop, LoopCalled, InitCalled, AwakeCalled, UpdateCalled, RealseCalled, DestroyCalled, LoopEnds

LEMMA LoopTypes == ASSUME Types, Loop PROVE Types'
<1>1. TimerTypes'
  BY LoopTimerTypes
<1>2. updating' = updating /\ step = "modules"
  BY DEF Loop, LoopCalled, InitCalled, AwakeCalled, UpdateCalled, RealseCalled, DestroyCalled,
         LoopEnds, ClearAll, timerVars
<1>3. func' \in Funcs /\ step' = "frame"
  BY DEF Loop, LoopCalled, InitCalled, AwakeCalled, UpdateCalled, RealseCalled, DestroyCalled,
         LoopEnds, EnterRealse, Goto, Funcs
<1>4. m_state' \in States /\ quit_in' \in Funcs \cup {None}
  BY QuitTypes DEF Loop, LoopCalled, InitCalled, AwakeCalled, UpdateCalled, RealseCalled,
         DestroyCalled, LoopEnds, EnterRealse, Types, LogicTypes, States
<1>5. modules' \in [Modules -> {"Free", "Inited", "Awaked", "Updating", "Quited", "Destroyed"}]
  BY DEF Loop, LoopCalled, InitCalled, AwakeCalled, UpdateCalled, RealseCalled,
         DestroyCalled, LoopEnds, Advance, Types, LogicTypes
<1>6. /\ service_state' \in {"Runing", "NotifyQuit", "Quiting", "Quited"}
      /\ run' \in {"waits", "ok", "failed"} /\ exited' \in BOOLEAN
  BY DEF Loop, LoopCalled, InitCalled, AwakeCalled, UpdateCalled, RealseCalled,
         DestroyCalled, LoopEnds, Types, LogicTypes
<1>7. LogicTypes'
  BY <1>2, <1>3, <1>4, <1>5, <1>6 DEF LogicTypes, Types
<1> QED BY <1>1, <1>7 DEF Types

\* What an addition does, whoever asks for it.
LEMMA AddIs ==
  ASSUME Types, NEW start \in Nat, NEW span \in Nat, NEW times \in Int, Add(start, span, times)
  PROVE  \E key \in Nat :
           /\ key >= m_now_ms /\ times >= -1
           /\ last_timer_id + 1 \in Ids /\ last_timer_id' = last_timer_id + 1
           /\ items' = [items EXCEPT ![last_timer_id + 1] = [key |-> key, span |-> span, left |-> times]]
           /\ tree' = tree \cup {last_timer_id + 1}
           /\ UNCHANGED <<m_now_ms, to_remove, current, updating, loops, freed, dangling>>
<1>1. m_now_ms \in Nat /\ last_timer_id \in 1..MaxId
  BY ConstantTypes DEF Types, TimerTypes, Ids
<1>2. last_timer_id + 1 \in Ids
  BY <1>1, ConstantTypes DEF Add, Addable, Ids
<1>3. PICK key \in Nat : key >= m_now_ms /\ key = IF start >= m_now_ms THEN start ELSE m_now_ms
  BY <1>1
<1>4. items' = [items EXCEPT ![last_timer_id + 1] = [key |-> key, span |-> span, left |-> times]]
  BY <1>3 DEF Add
<1> QED BY <1>2, <1>3, <1>4 DEF Add, Addable

LEMMA CallbackAddsIs ==
  ASSUME Types, CallbackAdds
  PROVE  \E item \in TimerItems :
           /\ item.key >= m_now_ms /\ item.left >= -1
           /\ last_timer_id + 1 \in Ids /\ last_timer_id' = last_timer_id + 1
           /\ items' = [items EXCEPT ![last_timer_id + 1] = item]
           /\ tree' = tree \cup {last_timer_id + 1}
           /\ UNCHANGED <<m_now_ms, to_remove, current, updating, loops, freed, dangling>>
<1>1. \E start \in Nat, span \in Nat, times \in Int : Add(start, span, times)
  <2>1. m_now_ms \in Nat
    BY ConstantTypes DEF Types, TimerTypes
  <2>2. CASE \E start \in Spans : AddNext(m_now_ms + start)
    <3>1. PICK start \in Spans : Add(m_now_ms + start, 0, 1)
      BY <2>2 DEF AddNext
    <3>2. m_now_ms + start \in Nat
      BY <2>1, ConstantTypes
    <3> QED BY <3>1, <3>2
  <2>3. CASE \E span \in Spans, times \in -1..2 : AddFirm(span, times)
    <3>1. PICK span \in Spans, times \in -1..2 : Add(m_now_ms + span, span, times)
      BY <2>3 DEF AddFirm
    <3>2. m_now_ms + span \in Nat /\ span \in Nat /\ times \in Int
      BY <2>1, ConstantTypes
    <3> QED BY <3>1, <3>2
  <2> QED BY <2>2, <2>3 DEF CallbackAdds
<1>2. PICK start \in Nat, span \in Nat, times \in Int : Add(start, span, times)
  BY <1>1
<1>3. PICK key \in Nat :
           /\ key >= m_now_ms /\ times >= -1
           /\ last_timer_id + 1 \in Ids /\ last_timer_id' = last_timer_id + 1
           /\ items' = [items EXCEPT ![last_timer_id + 1] = [key |-> key, span |-> span, left |-> times]]
           /\ tree' = tree \cup {last_timer_id + 1}
           /\ UNCHANGED <<m_now_ms, to_remove, current, updating, loops, freed, dangling>>
  BY <1>2, AddIs
<1>4. [key |-> key, span |-> span, left |-> times] \in TimerItems
  BY DEF TimerItems
<1> QED BY <1>3, <1>4

LEMMA CallbackTypes == ASSUME Types, CallbackAdds \/ CallbackRemoves PROVE Types'
<1>1. UNCHANGED logicVars
  BY DEF CallbackAdds, CallbackRemoves
<1>2. CASE CallbackAdds
  <2>1. PICK item \in TimerItems :
           /\ item.key >= m_now_ms /\ item.left >= -1
           /\ last_timer_id + 1 \in Ids /\ last_timer_id' = last_timer_id + 1
           /\ items' = [items EXCEPT ![last_timer_id + 1] = item]
           /\ tree' = tree \cup {last_timer_id + 1}
           /\ UNCHANGED <<m_now_ms, to_remove, current, updating, loops, freed, dangling>>
    BY <1>2, CallbackAddsIs
  <2>2. last_timer_id \in Nat /\ last_timer_id + 1 # current
    BY <2>1, ConstantTypes DEF Types, TimerTypes
  <2>3. items' \in [Ids -> TimerItems \cup {None}]
    BY <2>1 DEF Types, TimerTypes
  <2>4. items'[last_timer_id + 1] = item /\ item # None
    BY <2>1, ConstantTypes DEF Types, TimerTypes
  <2>5. \A t \in Ids : t # last_timer_id + 1 => items'[t] = items[t]
    BY <2>1 DEF Types, TimerTypes
  <2>6. \A t \in Ids : items'[t] # None => items'[t].left >= -1 /\ t <= last_timer_id'
    BY <2>1, <2>2, <2>4, <2>5, ConstantTypes DEF Types, TimerTypes
  <2>7. tree' \subseteq Ids /\ \A t \in tree' : items'[t] # None /\ t # current
    BY <2>1, <2>2, <2>4, <2>5 DEF Types, TimerTypes
  <2>8. \A t \in to_remove : t <= last_timer_id'
    BY <2>1, <2>2, ConstantTypes DEF Types, TimerTypes
  <2>9. current # None => items'[current] # None
    BY <2>2, <2>5 DEF Types, TimerTypes
  <2> QED BY <1>1, <2>1, <2>3, <2>6, <2>7, <2>8, <2>9 DEF logicVars, Types, TimerTypes, LogicTypes
<1>3. CASE CallbackRemoves
  <2>1. PICK t \in 1..last_timer_id : RemoveTimer(t)
    BY <1>3 DEF CallbackRemoves
  <2>2. t \in Ids
    BY ConstantTypes DEF Types, TimerTypes, Ids
  <2> QED BY <1>1, <2>1, <2>2 DEF RemoveTimer, logicVars, Types, TimerTypes, LogicTypes
<1> QED BY <1>2, <1>3

LEMMA QuitGameTypes == ASSUME Types, try_quit_game \/ UNCHANGED vars PROVE Types'
<1>1. UNCHANGED timerVars /\ step' = step
  BY DEF try_quit_game, vars, logicVars
<1>2. TimerTypes'
  BY <1>1 DEF timerVars, Types, TimerTypes
<1>3. LogicTypes'
  BY <1>1 DEF try_quit_game, vars, timerVars, logicVars, Types, LogicTypes
<1> QED BY <1>2, <1>3 DEF Types

LEMMA StepTypes == Types /\ [Next]_vars => Types'
BY FrameBeginsTypes, TimerFiresTypes, TimerFiredTypes, TimersEndTypes, ResultsEndTypes, LoopTypes,
   CallbackTypes, QuitGameTypes DEF Next, OnFrame

\* The engine's timers and its loop keep their types (timer_mgr.cpp,
\* ServerLogic.cpp, module_mgr.cpp).
THEOREM EngineTypes == Spec => []TypeOK
BY InitTypes, StepTypes, TypesSuffice, PTL DEF Spec

-----------------------------------------------------------------------------
(* The life of the network module. *)

\* The network has been brought as far as the loop has come, where the service
\* was found not to run in time; m_state is that of the function unless Quit
\* was called, and then in this very function if it is still to be left.
LifeInv ==
  LET net == modules["network"]
  IN /\ m_state \in {"Free", "Init", "Awake", "Update"} => quit_in = None
     /\ func \in {"Loop", "Init"} => net = "Free"
     /\ func = "Awake" => net = "Inited" /\ (m_state = "Awake" \/ quit_in = "Awake")
     /\ func = "Update" => net \in {"Awaked", "Updating"}
     /\ func = "Realse" => net \in {"Free", "Inited", "Updating"} \/ (net = "Awaked" /\ quit_in = "Awake")
     /\ func = "Destroy" => net \in {"Free", "Inited", "Quited"} \/ (net = "Awaked" /\ quit_in = "Awake")
     /\ func \in {"Destroyed", "Max", "over"} =>
          net \in {"Free", "Inited", "Destroyed"} \/ (net = "Awaked" /\ quit_in = "Awake")

LEMMA InitLife == Init => LifeInv
BY DEF Init, LifeInv, Modules

LEMMA QuitLife ==
  ASSUME Types, LifeInv, Quit, UNCHANGED <<func, modules>> PROVE LifeInv'
BY ConstantTypes DEF Quit, LifeInv, Types, LogicTypes, Funcs, States

LEMMA AdvanceIs ==
  ASSUME NEW from, NEW to, Advance(from, to)
  PROVE  modules'["network"] = IF modules["network"] = from THEN to ELSE modules["network"]
BY DEF Advance, Modules

LEMMA LoopLife == ASSUME Types, LifeInv, Loop PROVE LifeInv'
<1> DEFINE net == modules["network"]
<1>1. CASE LoopCalled
  <2>1. net' = net /\ quit_in' = quit_in
    BY <1>1 DEF LoopCalled
  <2>2. func = "Loop"
    BY <1>1 DEF LoopCalled
  <2>3. CASE m_state = "Free"
    <3>1. func' = "Init" /\ m_state' = "Init"
      BY <1>1, <2>3 DEF LoopCalled, Goto
    <3>2. quit_in = None
      BY <2>3 DEF LifeInv
    <3> QED BY <2>1, <2>2, <3>1, <3>2 DEF LifeInv
  <2>4. CASE m_state # "Free"
    <3>1. func' = "Realse" /\ m_state' = "Release"
      BY <1>1, <2>4 DEF LoopCalled, EnterRealse, Goto
    <3> QED BY <2>1, <2>2, <2>4, <3>1 DEF LifeInv
  <2> QED BY <2>3, <2>4
<1>2. CASE InitCalled
  <2>1. net' = (IF net = "Free" THEN "Inited" ELSE net) /\ quit_in' = quit_in
    BY <1>2, AdvanceIs DEF InitCalled
  <2>2. func = "Init"
    BY <1>2 DEF InitCalled
  <2>3. CASE m_state = "Init"
    <3>1. func' = "Awake" /\ m_state' = "Awake"
      BY <1>2, <2>3 DEF InitCalled, Goto
    <3>2. quit_in = None
      BY <2>3 DEF LifeInv
    <3> QED BY <2>1, <2>2, <3>1, <3>2 DEF LifeInv
  <2>4. CASE m_state # "Init"
    <3>1. func' = "Realse" /\ m_state' = "Release"
      BY <1>2, <2>4 DEF InitCalled, EnterRealse, Goto
    <3> QED BY <2>1, <2>2, <2>4, <3>1 DEF LifeInv
  <2> QED BY <2>3, <2>4
<1>3. CASE AwakeCalled
  <2>1. net' = (IF net = "Inited" THEN "Awaked" ELSE net) /\ quit_in' = quit_in
    BY <1>3, AdvanceIs DEF AwakeCalled
  <2>2. func = "Awake"
    BY <1>3 DEF AwakeCalled
  <2>3. CASE m_state = "Awake"
    <3>1. func' = "Update" /\ m_state' = "Update"
      BY <1>3, <2>3 DEF AwakeCalled, Goto
    <3>2. quit_in = None
      BY <2>3 DEF LifeInv
    <3> QED BY <2>1, <2>2, <3>1, <3>2 DEF LifeInv
  <2>4. CASE m_state # "Awake"
    <3>1. func' = "Realse" /\ m_state' = "Release"
      BY <1>3, <2>4 DEF AwakeCalled, EnterRealse, Goto
    <3> QED BY <2>1, <2>2, <2>4, <3>1 DEF LifeInv
  <2> QED BY <2>3, <2>4
<1>4. CASE UpdateCalled
  <2>1. net' = IF net = "Awaked" THEN "Updating" ELSE net
    BY <1>4, AdvanceIs DEF UpdateCalled
  <2>2. net' = "Updating"
    BY <1>4, <2>1 DEF UpdateCalled, LifeInv
  <2>3. m_state' \in {"Free", "Init", "Awake", "Update"} => quit_in' = None
    BY <1>4 DEF UpdateCalled, Quit, LifeInv
  <2>4. func' \in {"Update", "Realse"}
    BY <1>4 DEF UpdateCalled, Goto
  <2> HIDE DEF net
  <2> QED BY <2>2, <2>3, <2>4 DEF LifeInv, net
<1>5. CASE RealseCalled
  <2>1. net' = (IF net = "Updating" THEN "Quited" ELSE net) /\ quit_in' = quit_in
    BY <1>5, AdvanceIs DEF RealseCalled
  <2> QED BY <1>5, <2>1 DEF RealseCalled, Goto, LifeInv
<1>6. CASE DestroyCalled
  <2>1. net' = (IF net = "Quited" THEN "Destroyed" ELSE net) /\ quit_in' = quit_in
    BY <1>6, AdvanceIs DEF DestroyCalled
  <2> QED BY <1>6, <2>1 DEF DestroyCalled, Goto, LifeInv
<1>7. CASE LoopEnds
  <2>1. net' = net /\ quit_in' = quit_in
    BY <1>7 DEF LoopEnds
  <2> QED BY <1>7, <2>1 DEF LoopEnds, Goto, LifeInv
<1> QED BY <1>1, <1>2, <1>3, <1>4, <1>5, <1>6, <1>7 DEF Loop

LEMMA StepLife == Types /\ LifeInv /\ [Next]_vars => LifeInv'
<1> SUFFICES ASSUME Types, LifeInv, [Next]_vars PROVE LifeInv'
  OBVIOUS
<1>1. CASE Loop
  BY <1>1, LoopLife
<1>2. CASE TimerFired
  <2>1. CASE Quit
    BY <1>2, <2>1, QuitLife DEF TimerFired
  <2>2. CASE ~Quit
    BY <1>2, <2>2 DEF TimerFired, logicVars, LifeInv
  <2> QED BY <2>1, <2>2
<1>3. CASE UNCHANGED <<m_state, func, modules, quit_in>>
  BY <1>3 DEF LifeInv
<1> QED BY <1>1, <1>2, <1>3
        DEF Next, OnFrame, FrameBegins, TimerFires, TimersEnd, ResultsEnd, CallbackAdds,
            CallbackRemoves, try_quit_game, vars, logicVars

\* A network that was started is stopped before the loop is over, unless the
\* service was found not to run while the modules were awakened
\* (ServerLogic.cpp:81-180, module_mgr.cpp:49-144).
THEOREM StartedNetworkIsStopped == Spec => []StartedIsStopped
<1>1. Init => Types /\ LifeInv
  BY InitTypes, InitLife
<1>2. (Types /\ LifeInv) /\ [Next]_vars => (Types /\ LifeInv)'
  BY StepTypes, StepLife
<1>3. LifeInv => StartedIsStopped
  BY DEF LifeInv, StartedIsStopped
<1> QED BY <1>1, <1>2, <1>3, PTL DEF Spec

-----------------------------------------------------------------------------
(* The nodes of the timers. *)

\* Until all is cleared a known node was never freed, and is in the tree,
\* running or to be removed; afterwards there is no tree, and a known node may
\* still be freed once, unless its removal was waiting.
NodeInv ==
  /\ Cleared => tree = {} /\ current = None
  /\ ~Cleared =>
       /\ Known \subseteq tree \cup {current} \cup to_remove
       /\ ~dangling
       /\ \A t \in Ids : freed[t] <= 1 /\ (t \in Known => freed[t] = 0)
  /\ Cleared /\ ~dangling =>
       \A t \in Ids : freed[t] <= 1 /\ (t \in Known \cap to_remove => freed[t] = 0)
  /\ \A t \in Ids : t <= last_timer_id /\ t \notin Known => freed[t] >= 1
  /\ \A t \in Ids : t > last_timer_id => freed[t] = 0

LEMMA InitNodes == Init => NodeInv
<1> SUFFICES ASSUME Init PROVE NodeInv
  OBVIOUS
<1>1. ~Cleared /\ last_timer_id = 1 /\ 1 \in Ids
  BY ConstantTypes DEF Init, Cleared
<1>2. \A t \in Ids : (t # 1 => t > 1) /\ freed[t] = 0
  BY ConstantTypes DEF Init, Ids
<1>3. items[1] # None
  BY InitTypes, <1>1 DEF Init, Types, TimerTypes
<1>4. Known = {1}
  BY <1>1, <1>3 DEF Init, Known
<1>5. \A t \in Ids : t <= last_timer_id => t \in Known
  BY <1>1, <1>2, <1>4 DEF Ids
<1>6. current = None /\ tree = {1} /\ dangling = FALSE
  BY DEF Init
<1> QED BY <1>1, <1>2, <1>4, <1>5, <1>6 DEF NodeInv

LEMMA NodesSuffice == Types /\ NodeInv => NoNodeLost /\ FreedOnce
<1> SUFFICES ASSUME Types, NodeInv PROVE NoNodeLost /\ FreedOnce
  OBVIOUS
<1>1. \A t \in Ids : freed[t] \in Nat
  BY DEF Types, TimerTypes
<1>2. tree \subseteq Known \ {current}
  BY DEF Known, Types, TimerTypes
<1>3. NoNodeLost
  BY <1>2 DEF NoNodeLost, NodeInv
<1>4. \A t \in Ids : freed[t] > 1 => dangling
  BY <1>1 DEF NodeInv
<1>5. FreedOnce
  BY <1>4 DEF FreedOnce, NodeInv
<1> QED BY <1>3, <1>5

\* Nodes that are removed are freed, and not known any more.
LEMMA ChekNodes ==
  ASSUME Types, NodeInv, ChekRemoveNodes, UNCHANGED <<func, current, dangling, last_timer_id>>
  PROVE  NodeInv'
<1>1. Known' = Known \ to_remove
  BY DEF ChekRemoveNodes, Known
<1>2. \A t \in Ids : freed[t] \in Nat
  BY DEF Types, TimerTypes
<1>3. \A t \in Ids : freed'[t] = IF t \in to_remove \cap Known THEN freed[t] + 1 ELSE freed[t]
  BY DEF ChekRemoveNodes
<1>4. Cleared' = Cleared /\ to_remove' = {} /\ tree' = tree \ (to_remove \cap Known)
  BY DEF Cleared, ChekRemoveNodes
<1>5. Cleared => tree' = {} /\ current' = None
  BY <1>4 DEF NodeInv
<1>6. ~Cleared => /\ Known' \subseteq tree' \cup {current'} \cup to_remove'
                  /\ ~dangling'
                  /\ \A t \in Ids : freed'[t] <= 1 /\ (t \in Known' => freed'[t] = 0)
  BY <1>1, <1>2, <1>3, <1>4 DEF NodeInv
<1>7. Cleared /\ ~dangling => \A t \in Ids : freed'[t] <= 1
  BY <1>2, <1>3 DEF NodeInv
<1>8. \A t \in Ids : t <= last_timer_id /\ t \notin Known' => freed'[t] >= 1
  BY <1>1, <1>2, <1>3 DEF NodeInv
<1>9. \A t \in Ids : t > last_timer_id => freed'[t] = 0
  <2>1. \A t \in Known : t \in Ids /\ t <= last_timer_id
    BY DEF Known, Types, TimerTypes
  <2>2. \A t \in Ids : t > last_timer_id => t \notin Known
    BY <2>1, ConstantTypes DEF Types, TimerTypes
  <2> QED BY <1>3, <2>2 DEF NodeInv
<1> QED BY <1>4, <1>5, <1>6, <1>7, <1>8, <1>9 DEF NodeInv

LEMMA ExecuteNodes == ASSUME Types, NodeInv, TimerFires PROVE NodeInv'
<1>1. PICK t \in tree : tree' = tree \ {t} /\ current' = IF t \in to_remove THEN None ELSE t
  BY DEF TimerFires, ExecuteNode
<1>2. ~Cleared /\ current = None
  BY <1>1 DEF NodeInv, TimerFires, ExecuteNode
<1>3. UNCHANGED <<items, to_remove, last_timer_id, freed, dangling, func>>
  BY DEF TimerFires, ExecuteNode, logicVars
<1>4. Known' = Known /\ Cleared' = Cleared
  BY <1>3 DEF Known, Cleared
<1>5. None \notin Known
  BY ConstantTypes DEF Known
<1>6. Known \subseteq tree' \cup {current'} \cup to_remove
  BY <1>1, <1>2, <1>5 DEF NodeInv
<1> QED BY <1>2, <1>3, <1>4, <1>6 DEF NodeInv

LEMMA ExecutedNodes == ASSUME Types, NodeInv, TimerFired PROVE NodeInv'
<1>1. UNCHANGED <<last_timer_id, freed, dangling, func>> /\ current # None
  BY DEF TimerFired, NodeExecuted
<1>2. ~Cleared /\ Cleared' = Cleared
  BY <1>1 DEF NodeInv, Cleared
<1>3. current \in Ids /\ items'[current] # None
  BY ExecutedIs, ConstantTypes DEF TimerFired
<1>4. Known' = Known
  BY ExecutedIs, <1>1, <1>3 DEF Known, Types, TimerTypes, TimerFired
<1>5. Known \subseteq tree' \cup {current'} \cup to_remove'
  BY <1>2 DEF NodeInv, TimerFired, NodeExecuted
<1> QED BY <1>1, <1>2, <1>4, <1>5 DEF NodeInv

LEMMA AddsNodes == ASSUME Types, NodeInv, CallbackAdds PROVE NodeInv'
<1>1. PICK item \in TimerItems :
        /\ last_timer_id + 1 \in Ids /\ last_timer_id' = last_timer_id + 1
        /\ items' = [items EXCEPT ![last_timer_id + 1] = item]
        /\ tree' = tree \cup {last_timer_id + 1}
        /\ UNCHANGED <<to_remove, current, freed, dangling>>
  BY CallbackAddsIs
<1>2. func' = func /\ ~Cleared
  BY DEF CallbackAdds, InCallback, logicVars, Cleared, NodeInv
<1>3. Known' = Known \cup {last_timer_id + 1}
  BY <1>1, ConstantTypes DEF Known, Types, TimerTypes
<1>4. last_timer_id \in Nat
  BY ConstantTypes DEF Types, TimerTypes
<1>5. freed[last_timer_id + 1] = 0
  BY <1>1, <1>4 DEF NodeInv
<1>6. \A t \in Ids : t \in Nat
  BY ConstantTypes
<1>7. \A t \in Ids : t > last_timer_id' => t > last_timer_id
  BY <1>1, <1>4, <1>6
<1>8. \A t \in Ids : t <= last_timer_id' /\ t \notin Known' => t <= last_timer_id /\ t \notin Known
  BY <1>1, <1>3, <1>4, <1>6
<1> QED BY <1>1, <1>2, <1>3, <1>5, <1>7, <1>8 DEF NodeInv, Cleared

LEMMA RemovesNodes == ASSUME Types, NodeInv, CallbackRemoves PROVE NodeInv'
<1>1. PICK t : RemoveTimer(t)
  BY DEF CallbackRemoves
<1>2. func' = func /\ ~Cleared
  BY DEF CallbackRemoves, InCallback, logicVars, Cleared, NodeInv
<1> QED BY <1>1, <1>2 DEF RemoveTimer, NodeInv, Cleared, Known

LEMMA ClearNodes == ASSUME Types, NodeInv, RealseCalled PROVE NodeInv'
<1>1. ~Cleared /\ Cleared' /\ current = None
  BY DEF RealseCalled, Goto, Cleared, Types, TimerTypes
<1>2. UNCHANGED <<items, to_remove, last_timer_id, current>> /\ tree' = {}
  BY DEF RealseCalled, ClearAll
<1>3. Known' = Known
  BY <1>2 DEF Known
<1>4. \A t \in Ids : freed[t] \in Nat /\ freed'[t] = IF t \in tree THEN freed[t] + 1 ELSE freed[t]
  BY DEF RealseCalled, ClearAll, Types, TimerTypes
<1>5. tree \subseteq Known
  BY DEF Known, Types, TimerTypes
<1>6. ~dangling' => to_remove \cap tree = {}
  BY DEF RealseCalled, ClearAll
<1>7. ~dangling' => \A t \in Ids : freed'[t] <= 1 /\ (t \in Known \cap to_remove => freed'[t] = 0)
  BY <1>1, <1>4, <1>5, <1>6 DEF NodeInv
<1>8. \A t \in Ids : t <= last_timer_id /\ t \notin Known => freed'[t] >= 1
  BY <1>4, <1>5 DEF NodeInv
<1>9. \A t \in Ids : t > last_timer_id => freed'[t] = 0
  <2>1. \A t \in Ids : t > last_timer_id => t \notin tree
    BY ConstantTypes DEF Types, TimerTypes
  <2> QED BY <1>4, <2>1 DEF NodeInv
<1> QED BY <1>1, <1>2, <1>3, <1>7, <1>8, <1>9 DEF NodeInv

LEMMA StepNodes == Types /\ NodeInv /\ [Next]_vars => NodeInv'
<1> SUFFICES ASSUME Types, NodeInv, [Next]_vars PROVE NodeInv'
  OBVIOUS
<1>1. CASE FrameBegins
  <2>1. ChekRemoveNodes /\ UNCHANGED <<func, current, dangling, last_timer_id>>
    BY <1>1 DEF FrameBegins, UpdateTime
  <2> QED BY <2>1, ChekNodes
<1>2. CASE TimersEnd
  <2>1. ChekRemoveNodes /\ UNCHANGED <<func, current, dangling, last_timer_id>>
    BY <1>2 DEF TimersEnd, UpdateEnds
  <2> QED BY <2>1, ChekNodes
<1>3. CASE TimerFires
  BY <1>3, ExecuteNodes
<1>4. CASE TimerFired
  BY <1>4, ExecutedNodes
<1>5. CASE RealseCalled
  BY <1>5, ClearNodes
<1>6. CASE CallbackAdds
  BY <1>6, AddsNodes
<1>7. CASE CallbackRemoves
  BY <1>7, RemovesNodes
<1>8. CASE UNCHANGED timerVars /\ Cleared' = Cleared
  BY <1>8 DEF timerVars, NodeInv, Known
<1>9. CASE ResultsEnd \/ LoopCalled \/ InitCalled \/ AwakeCalled \/ UpdateCalled \/ DestroyCalled
           \/ LoopEnds \/ try_quit_game \/ UNCHANGED vars
  <2>1. UNCHANGED timerVars
    BY <1>9 DEF ResultsEnd, LoopCalled, InitCalled, AwakeCalled, UpdateCalled, DestroyCalled,
                LoopEnds, try_quit_game, vars
  <2>2. Cleared' = Cleared
    BY <1>9 DEF ResultsEnd, LoopCalled, InitCalled, AwakeCalled, UpdateCalled, DestroyCalled,
                LoopEnds, try_quit_game, vars, logicVars, Cleared, Goto, EnterRealse
  <2> QED BY <1>8, <2>1, <2>2
<1> QED BY <1>1, <1>2, <1>3, <1>4, <1>5, <1>6, <1>7, <1>9 DEF Next, OnFrame, Loop

\* Whatever callbacks remove, the tree, the running timer and those to be removed
\* are all the timers there are (timer_mgr.cpp:118-184).
THEOREM NodesKept == Spec => []NoNodeLost
<1>1. Init => Types /\ NodeInv
  BY InitTypes, InitNodes
<1>2. (Types /\ NodeInv) /\ [Next]_vars => (Types /\ NodeInv)'
  BY StepTypes, StepNodes
<1> QED BY <1>1, <1>2, NodesSuffice, PTL DEF Spec

\* A node is freed once, unless its removal was waiting when everything was
\* cleared (timer_mgr.cpp:83-136, ServerLogic.cpp:144-167).
THEOREM NodesFreedOnce == Spec => []FreedOnce
<1>1. Init => Types /\ NodeInv
  BY InitTypes, InitNodes
<1>2. (Types /\ NodeInv) /\ [Next]_vars => (Types /\ NodeInv)'
  BY StepTypes, StepNodes
<1> QED BY <1>1, <1>2, NodesSuffice, PTL DEF Spec

-----------------------------------------------------------------------------
(* The promise of the timers. *)

\* What Plan is in each case.
LEMMA PlanIs ==
  ASSUME Types, NEW t \in Ids
  PROVE  /\ items[t] = None \/ t \in to_remove => Plan(t) = None
         /\ items[t] # None /\ t \notin to_remove /\ t = current /\ GoesOn(items[t]) =>
              Plan(t) = [due  |-> m_now_ms + items[t].span, span |-> items[t].span,
                         left |-> LeftAfter(items[t].left)]
         /\ t = current /\ ~GoesOn(items[t]) => Plan(t) = None
         /\ items[t] # None /\ t \notin to_remove /\ t \in tree =>
              Plan(t) = [due |-> items[t].key, span |-> items[t].span, left |-> items[t].left]
         /\ t \notin tree /\ t # current => Plan(t) = None
<1>1. t \in tree => t # current
  BY DEF Types, TimerTypes
<1> QED BY <1>1 DEF Plan

\* Every step of the engine is one of the promise, and no timer's plan is None.
PlanOf == [t \in Ids |-> Plan(t)]

LEMMA PlannedIs ==
  ASSUME Types, NEW t \in Ids, Plan(t) # None
  PROVE  t \in tree \cup {current} /\ items[t] # None /\ t \notin to_remove
BY PlanIs

LEMMA ItemIs ==
  ASSUME Types, NEW t \in Ids, items[t] # None
  PROVE  /\ items[t].key \in Nat /\ items[t].span \in Nat
         /\ items[t].left \in Int /\ items[t].left >= -1
         /\ LeftAfter(items[t].left) \in Int
         /\ m_now_ms \in Nat
<1>1. items[t] \in TimerItems /\ items[t].left >= -1 /\ m_now_ms \in Nat
  BY ConstantTypes DEF Types, TimerTypes
<1>2. items[t].key \in Nat /\ items[t].span \in Nat /\ items[t].left \in Int
  BY <1>1 DEF TimerItems
<1> QED BY <1>1, <1>2 DEF LeftAfter

LEMMA InitPlan == Init => Promise!Init
<1> SUFFICES ASSUME Init PROVE Promise!Init
  OBVIOUS
<1>1. Types /\ 1 \in Ids
  BY InitTypes, ConstantTypes
<1>2. items[1] = [key |-> m_now_ms, span |-> 0, left |-> 1] /\ items[1] # None
  BY <1>1, ConstantTypes DEF Init, Types, TimerTypes
<1>3. Plan(1) = [due |-> m_now_ms, span |-> 0, left |-> 1]
  BY <1>1, <1>2, PlanIs DEF Init
<1>4. \A t \in Ids : t # 1 => Plan(t) = None
  BY <1>1, PlanIs DEF Init
<1>5. [t \in Ids |-> Plan(t)] =
        [u \in Ids |-> IF u = 1 THEN [due |-> m_now_ms, span |-> 0, left |-> 1] ELSE None]
  BY <1>3, <1>4
<1> QED BY <1>1, <1>5 DEF Init, Promise!Init

\* A step that leaves the timers alone changes no plan.
LEMMA SamePlan ==
  ASSUME UNCHANGED <<m_now_ms, items, tree, to_remove, current>>
  PROVE  PlanOf' = PlanOf
BY DEF PlanOf, Plan

\* Neither does the removal of nodes.
LEMMA ChekPlan ==
  ASSUME Types, Types', ChekRemoveNodes, current = None, current' = None
  PROVE  PlanOf' = PlanOf
<1> SUFFICES ASSUME NEW t \in Ids PROVE Plan(t)' = Plan(t)
  BY DEF PlanOf
<1>1. t # current /\ t # current'
  BY ConstantTypes
<1>2. CASE items[t] = None \/ t \in to_remove
  <2>1. items'[t] = None
    BY <1>2 DEF ChekRemoveNodes, Known
  <2> QED BY <1>2, <2>1 DEF Plan
<1>3. CASE items[t] # None /\ t \notin to_remove
  <2>1. items'[t] = items[t] /\ t \notin to_remove' /\ (t \in tree' <=> t \in tree)
    BY <1>3 DEF ChekRemoveNodes, Known
  <2> QED BY <1>1, <2>1, <1>3 DEF Plan
<1> QED BY <1>2, <1>3

LEMMA TickPlan == ASSUME Types, Types', FrameBegins \/ TimersEnd PROVE Promise!Next
<1>1. current = None /\ current' = None /\ ChekRemoveNodes
  BY ConstantTypes DEF FrameBegins, UpdateTime, TimersEnd, UpdateEnds, Types, TimerTypes
<1>2. PlanOf' = PlanOf
  BY <1>1, ChekPlan
<1> QED BY <1>1, <1>2 DEF PlanOf, Promise!Next, Promise!Tick

LEMMA RemovesPlan == ASSUME Types, CallbackRemoves PROVE Promise!Next
<1>1. PICK t \in 1..last_timer_id : RemoveTimer(t)
  BY DEF CallbackRemoves
<1>2. t \in Ids
  BY ConstantTypes DEF Types, TimerTypes, Ids
<1>3. \A u \in Ids : Plan(u)' = IF u = t THEN None ELSE Plan(u)
  BY <1>1 DEF RemoveTimer, Plan
<1>4. PlanOf' = [PlanOf EXCEPT ![t] = None]
  BY <1>2, <1>3 DEF PlanOf
<1>5. UNCHANGED <<m_now_ms, current>>
  BY <1>1 DEF RemoveTimer
<1>6. Promise!Remove(t)
  BY <1>4, <1>5 DEF PlanOf, Promise!Remove
<1> QED BY <1>2, <1>6 DEF Promise!Next

LEMMA ClearsPlan == ASSUME Types, RealseCalled PROVE Promise!Next
<1>1. current = None /\ current' = None /\ m_now_ms' = m_now_ms /\ tree' = {}
  BY DEF RealseCalled, ClearAll, Types, TimerTypes
<1>2. \A t \in Ids : Plan(t)' = None
  BY <1>1, ConstantTypes DEF Plan
<1>3. PlanOf' = [t \in Ids |-> None]
  BY <1>2 DEF PlanOf
<1>4. Promise!RemoveAll
  BY <1>1, <1>3 DEF PlanOf, Promise!RemoveAll
<1> QED BY <1>4 DEF Promise!Next

LEMMA AddsPlan == ASSUME Types, Types', CallbackAdds PROVE Promise!Next
<1>0. PICK t : t = last_timer_id + 1
  OBVIOUS
<1>1. PICK item \in TimerItems :
        /\ item.key >= m_now_ms
        /\ t \in Ids /\ last_timer_id' = t
        /\ items' = [items EXCEPT ![t] = item]
        /\ tree' = tree \cup {t}
        /\ UNCHANGED <<m_now_ms, to_remove, current>>
  BY <1>0, CallbackAddsIs
<1>2. t > last_timer_id
  BY <1>0, ConstantTypes DEF Types, TimerTypes
<1>3. items[t] = None /\ t \notin to_remove
  BY <1>1, <1>2, ConstantTypes DEF Types, TimerTypes
<1>4. items'[t] = item /\ \A u \in Ids : u # t => items'[u] = items[u]
  BY <1>1 DEF Types, TimerTypes
<1>5. PlanOf[t] = None
  BY <1>1, <1>3, PlanIs DEF PlanOf
<1>6. \A u \in Ids \ {t} : PlanOf'[u] = PlanOf[u]
  BY <1>1, <1>4 DEF PlanOf, Plan
<1>7. PlanOf'[t].due >= m_now_ms
  <2>1. t # current' /\ items'[t] # None
    BY <1>1, <1>4 DEF Types, TimerTypes
  <2>2. PlanOf'[t] = Plan(t)'
    BY <1>1 DEF PlanOf
  <2>3. Plan(t)' = [due |-> item.key, span |-> item.span, left |-> item.left]
    BY <1>1, <1>3, <1>4, <2>1 DEF Plan
  <2> QED BY <1>1, <2>2, <2>3
<1>8. Promise!Add(t)
  BY <1>1, <1>5, <1>6, <1>7 DEF PlanOf, Promise!Add
<1> QED BY <1>1, <1>8 DEF Promise!Next

LEMMA FiresPlan == ASSUME Types, Types', TimerFires PROVE Promise!Next \/ UNCHANGED Promise!vars
<1>1. PICK t \in tree :
        /\ IsFirst(t) /\ tree' = tree \ {t}
        /\ current' = IF t \in to_remove THEN None ELSE t
  BY DEF TimerFires, ExecuteNode
<1>2. /\ current = None /\ UNCHANGED <<m_now_ms, items, to_remove>>
      /\ \E u \in tree : items[u].key <= m_now_ms
  BY DEF TimerFires, ExecuteNode, OneIsDue
<1>3. t \in Ids /\ items[t] # None /\ t # None /\ \A u \in Ids : u # None
  BY ConstantTypes DEF Types, TimerTypes
<1>4. \A u \in Ids : u # t => Plan(u)' = Plan(u)
  BY <1>1, <1>2, <1>3 DEF Plan
<1>5. CASE t \in to_remove
  <2>1. Plan(t)' = None /\ Plan(t) = None
    BY <1>2, <1>3, <1>5 DEF Plan
  <2>2. PlanOf' = PlanOf
    BY <1>4, <2>1 DEF PlanOf
  <2>3. current' = current
    BY <1>1, <1>2, <1>5
  <2> QED BY <1>2, <2>2, <2>3 DEF PlanOf, Promise!vars
<1>6. CASE t \notin to_remove
  <2>1. current' = t
    BY <1>1, <1>6
  <2>2. PlanOf[t] = [due |-> items[t].key, span |-> items[t].span, left |-> items[t].left]
    BY <1>1, <1>3, <1>6, PlanIs DEF PlanOf
  <2>3. PlanOf[t] # None
    BY <1>3, <2>2, ItemIs, PlanAssumption
  <2>4. \A u \in tree : items[t].key <= items[u].key
    BY <1>1 DEF IsFirst
  <2>5. items[t].key <= m_now_ms
    <3>1. PICK u \in tree : items[u].key <= m_now_ms
      BY <1>2
    <3>2. u \in Ids /\ items[u] # None
      BY <3>1 DEF Types, TimerTypes
    <3>3. items[t].key \in Nat /\ items[u].key \in Nat /\ m_now_ms \in Nat
      BY <1>3, <3>2, ItemIs
    <3> QED BY <2>4, <3>1, <3>3
  <2>6. \A u \in Ids : PlanOf[u] # None => PlanOf[t].due <= PlanOf[u].due
    <3> SUFFICES ASSUME NEW u \in Ids, PlanOf[u] # None PROVE PlanOf[t].due <= PlanOf[u].due
      OBVIOUS
    <3>1. Plan(u) # None
      BY DEF PlanOf
    <3>2. u \in tree /\ items[u] # None /\ u \notin to_remove
      BY <1>2, <1>3, <3>1, PlannedIs
    <3>3. PlanOf[u] = [due |-> items[u].key, span |-> items[u].span, left |-> items[u].left]
      BY <3>2, PlanIs DEF PlanOf
    <3> QED BY <2>2, <2>4, <3>2, <3>3
  <2> DEFINE after == IF PlanOf[t].left < 0 \/ PlanOf[t].left > 1
                      THEN [due |-> m_now_ms + PlanOf[t].span, span |-> PlanOf[t].span,
                            left |-> IF PlanOf[t].left < 0 THEN PlanOf[t].left ELSE PlanOf[t].left - 1]
                      ELSE None
  <2>7. Plan(t)' = after
    <3>1. items[t].left \in Int /\ items[t].left >= -1
      BY <1>3, ItemIs
    <3>2. PlanOf[t].left = items[t].left /\ PlanOf[t].span = items[t].span
      BY <2>2
    <3>3. CASE GoesOn(items[t])
      <4>1. Plan(t)' = [due  |-> m_now_ms + items[t].span, span |-> items[t].span,
                        left |-> LeftAfter(items[t].left)]
        BY <1>2, <1>3, <1>6, <2>1, <3>3 DEF Plan
      <4>2. items[t].left < 0 \/ items[t].left > 1
        BY <3>1, <3>3 DEF GoesOn
      <4>3. LeftAfter(items[t].left) = IF items[t].left < 0 THEN items[t].left ELSE items[t].left - 1
        BY <3>1, <3>3 DEF GoesOn, LeftAfter
      <4> QED BY <3>2, <4>1, <4>2, <4>3
    <3>4. CASE ~GoesOn(items[t])
      <4>1. Plan(t)' = None
        BY <1>2, <1>3, <1>6, <2>1, <3>4 DEF Plan
      <4>2. ~(items[t].left < 0 \/ items[t].left > 1)
        BY <3>1, <3>4 DEF GoesOn
      <4> QED BY <3>2, <4>1, <4>2
    <3> QED BY <3>3, <3>4
  <2> HIDE DEF after
  <2>8. PlanOf' = [PlanOf EXCEPT ![t] = after]
    BY <1>3, <1>4, <2>7 DEF PlanOf
  <2>9. Promise!Fire(t)
    <3>1. PlanOf[t].due <= m_now_ms
      BY <2>2, <2>5
    <3> QED BY <1>2, <2>1, <2>3, <3>1, <2>6, <2>8 DEF PlanOf, Promise!Fire, after
  <2> QED BY <1>3, <2>9 DEF Promise!Next
<1> QED BY <1>5, <1>6

LEMMA FiredPlan == ASSUME Types, Types', TimerFired PROVE Promise!Next
<1>0. PICK t : t = current
  OBVIOUS
<1>1. /\ t # None /\ current' = None /\ m_now_ms' = m_now_ms /\ NodeExecuted
  BY <1>0 DEF TimerFired, NodeExecuted
<1>2. t \in Ids /\ items[t] # None /\ \A u \in Ids : u # None
  BY <1>0, <1>1, ConstantTypes DEF Types, TimerTypes
<1>3. \A u \in Ids : u # t => Plan(u)' = Plan(u)
  <2> SUFFICES ASSUME NEW u \in Ids, u # t PROVE Plan(u)' = Plan(u)
    OBVIOUS
  <2>1. items'[u] = items[u] /\ (u \in tree' <=> u \in tree) /\ (u \in to_remove' <=> u \in to_remove)
    BY <1>0, <1>1, ExecutedIs DEF NodeExecuted
  <2> QED BY <1>0, <1>1, <1>2, <2>1 DEF Plan
<1>4. Plan(t)' = Plan(t)
  <2>1. /\ items'[t] \in TimerItems
        /\ items'[t].span = items[t].span
        /\ items'[t].left = LeftAfter(items[t].left)
        /\ GoesOn(items[t]) => items'[t].key = m_now_ms + items[t].span
    BY <1>0, <1>1, ExecutedIs
  <2>2. items'[t] # None
    BY <1>0, <2>1, ConstantTypes
  <2>3. CASE GoesOn(items[t]) /\ t \notin to_remove
    <3>1. t \in tree' /\ t \notin to_remove'
      BY <1>0, <1>1, <2>3 DEF NodeExecuted
    <3>2. [due  |-> items'[t].key, span |-> items'[t].span, left |-> items'[t].left]
            = Plan(t)
      BY <1>0, <1>2, <2>1, <2>3, PlanIs
    <3> QED BY <1>0, <1>1, <1>2, <2>2, <3>1, <3>2 DEF Plan
  <2>4. CASE ~GoesOn(items[t]) \/ t \in to_remove
    <3>1. t \in to_remove'
      BY <1>0, <1>1, <2>4 DEF NodeExecuted
    <3>2. Plan(t) = None
      BY <1>0, <1>2, <2>4, PlanIs
    <3> QED BY <1>0, <1>2, <3>1, <3>2 DEF Plan
  <2> QED BY <2>3, <2>4
<1>5. PlanOf' = PlanOf
  BY <1>2, <1>3, <1>4 DEF PlanOf
<1> QED BY <1>0, <1>1, <1>5 DEF PlanOf, Promise!Next, Promise!Fired

LEMMA StepPlan == Types /\ Types' /\ [Next]_vars => [Promise!Next]_Promise!vars
<1> SUFFICES ASSUME Types, Types', [Next]_vars PROVE Promise!Next \/ UNCHANGED Promise!vars
  OBVIOUS
<1>1. CASE UNCHANGED <<m_now_ms, items, tree, to_remove, current>>
  <2>1. PlanOf' = PlanOf
    BY <1>1, SamePlan
  <2> QED BY <1>1, <2>1 DEF PlanOf, Promise!vars
<1>2. CASE ResultsEnd \/ LoopCalled \/ InitCalled \/ AwakeCalled \/ UpdateCalled \/ DestroyCalled
           \/ LoopEnds \/ try_quit_game \/ UNCHANGED vars
  <2>1. UNCHANGED timerVars
    BY <1>2 DEF ResultsEnd, LoopCalled, InitCalled, AwakeCalled, UpdateCalled, DestroyCalled,
                LoopEnds, try_quit_game, vars
  <2> QED BY <1>1, <2>1 DEF timerVars
<1> QED BY <1>2, TickPlan, FiresPlan, FiredPlan, AddsPlan, RemovesPlan, ClearsPlan DEF Next, OnFrame, Loop

\* The engine's timers fire when they are due, the earliest first, as often as they
\* were asked to and never after their removal, for any number of timers, moments
\* and rounds (timer_mgr.cpp:24-184).
THEOREM TimersKeepThePromise == Spec => TimersKept
<1>1. Init => Types /\ Promise!Init
  BY InitTypes, InitPlan
<1>2. Types /\ [Next]_vars => Types' /\ [Promise!Next]_Promise!vars
  BY StepTypes, StepPlan
<1> QED BY <1>1, <1>2, PTL DEF Spec, TimersKept, Promise!Spec
=============================================================================
