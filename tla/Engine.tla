------------------------------- MODULE Engine -------------------------------
(* What the engine's timers and its life cycle promise. *)
EXTENDS ServerLogic

States == {"Free", "Init", "Awake", "Update", "Release", "Destroy", "Max"}

\* Types of the timers' and the loop's state.
TypeOK ==
  /\ m_now_ms \in Times
  /\ items \in [Ids -> TimerItems \cup {None}]
  /\ \A t \in Ids : items[t] # None => items[t].left >= -1
  /\ tree \subseteq Ids /\ to_remove \subseteq Ids /\ last_timer_id \in Ids
  /\ current \in Ids \cup {None} /\ updating \in BOOLEAN /\ loops \in 0..LoopMax
  /\ freed \in [Ids -> Nat] /\ dangling \in BOOLEAN
  /\ m_state \in States /\ func \in Funcs
  /\ step \in {"frame", "timers", "results", "modules"}
  /\ modules \in [Modules -> {"Free", "Inited", "Awaked", "Updating", "Quited", "Destroyed"}]
  /\ service_state \in {"Runing", "NotifyQuit", "Quiting", "Quited"}
  /\ run \in {"waits", "ok", "failed"} /\ exited \in BOOLEAN
  /\ quit_in \in Funcs \cup {None}

Cleared == func \in {"Destroy", "Destroyed", "Max", "over"}

\* Whatever the callbacks remove, their own timers included, every timer of the
\* index has its node either in the tree, or out of it and then running or to be
\* removed; and the tree has neither a freed node nor one that will be inserted
\* again (timer_mgr.cpp:118-184).
NoNodeLost ==
  /\ tree \subseteq Known \ {current}
  /\ ~Cleared => Known \subseteq tree \cup {current} \cup to_remove

\* A node is freed once, and only if it is unknown or everything was cleared; but
\* a removal that waits when ClearAll frees the tree frees its node again in the
\* next frame (timer_mgr.cpp:83-104, 118-136; ServerLogic.cpp:144-159).
FreedOnce ==
  \A t \in Ids :
    /\ freed[t] > 1 => dangling
    /\ t \in Known /\ ~Cleared => freed[t] = 0
    /\ t <= last_timer_id /\ t \notin Known => freed[t] >= 1

\* When the loop is over, the network was stopped if it was started, unless the
\* service was found not to run in the frame in which the modules are awakened:
\* these are then passed over by Realse and Destroy, which expect updating ones
\* (ServerLogic.cpp:81-142, module_mgr.cpp:96-144).
StartedIsStopped ==
  func = "over" => modules["network"] \in {"Free", "Inited", "Destroyed"} \/ quit_in = "Awake"

\* A service that is asked to quit is left, in whatever state the loop was
\* (service_base.cpp:5-29, ServerLogic.cpp:101-188).
QuitEnds == (service_state = "NotifyQuit") ~> (func = "over" \/ exited)

\* The next firing of a timer in the tree, or of the one that is running.
Plan(t) ==
  LET wanted == items[t] # None /\ t \notin to_remove
  IN CASE wanted /\ t = current /\ GoesOn(items[t]) ->
            [due  |-> m_now_ms + items[t].span, span |-> items[t].span,
             left |-> LeftAfter(items[t].left)]
       [] wanted /\ t # current /\ t \in tree ->
            [due |-> items[t].key, span |-> items[t].span, left |-> items[t].left]
       [] OTHER -> None

\* No timer's next firing is None.
ASSUME PlanAssumption == None \notin [due : Int, span : Int, left : Int]

Promise == INSTANCE Timers WITH
  Never <- None, now <- m_now_ms, firing <- current,
  plan <- [t \in Ids |-> Plan(t)]

\* A timer fires when it is due, the earliest first, as often as it was asked to,
\* and never after its removal, while callbacks add and remove timers and the
\* clock may be set back (timer_mgr.cpp:24-184).
TimersKept == Promise!Spec
=============================================================================
