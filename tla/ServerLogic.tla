----------------------------- MODULE ServerLogic -----------------------------
(***************************************************************************)
(* The engine's main loop (ServerLogic.cpp) with the modules it leads       *)
(* through their life (module_mgr.cpp), the service that is run by it       *)
(* (service_base.cpp) and its timers: each function of the loop goes        *)
(* through frames, and a frame updates the timers, hands the results of     *)
(* asynchronous tasks to their callbacks and calls the modules.             *)
(*                                                                         *)
(* The modules are the network and the service, none of which ever fails    *)
(* or asks for a further frame but for Update.                              *)
(***************************************************************************)
EXTENDS TimerMgr

CONSTANT Spans   \* how far ahead callbacks ask for a timer

Modules == {"network", "service"}

Funcs == {"Loop", "Init", "Awake", "Update", "Realse", "Destroy", "Destroyed", "Max", "over"}

ASSUME LogicAssumption == Spans \subseteq Nat /\ None \notin Funcs

VARIABLES
  m_state,
  func,           \* the function of the loop that is running
  step,           \* and where its frame is: "frame", "timers", "results", "modules"
  modules,        \* the modules' states
  service_state,  \* ServiceBase::m_state
  run,            \* RunService: "waits", "ok" or "failed"
  exited,         \* exit was called by the signal handler
  \* history
  quit_in         \* the function that was running when Quit was first called

logicVars == <<m_state, func, step, modules, service_state, run, exited, quit_in>>
vars == <<timerVars, logicVars>>

-----------------------------------------------------------------------------
\* The clock is the system's: it may be set back.
FrameBegins ==
  /\ step = "frame" /\ func # "over" /\ ~exited
  /\ \E now \in Times : UpdateTime(now)
  /\ step' = "timers"
  /\ UNCHANGED <<m_state, func, modules, service_state, run, exited, quit_in>>

TimerFires ==
  /\ step = "timers" /\ ~exited
  /\ ExecuteNode
  /\ UNCHANGED logicVars

\* Mutant: the loop that updates is not left.
QuitBeforeUpdate ==
  /\ m_state' = IF m_state \in {"Free", "Init", "Awake"} THEN "Release" ELSE m_state
  /\ quit_in' = IF quit_in = None THEN func ELSE quit_in
Quit ==
  /\ m_state' = IF m_state \in {"Free", "Init", "Awake", "Update"} THEN "Release" ELSE m_state
  /\ quit_in' = IF quit_in = None THEN func ELSE quit_in

\* The callback of the first timer is RunService, which quits if the script
\* cannot be loaded.
TimerFired ==
  /\ ~exited
  /\ NodeExecuted
  /\ \/ current # 1 /\ UNCHANGED logicVars
     \/ current = 1 /\ run' = "ok" /\ UNCHANGED <<m_state, quit_in>>
     \/ current = 1 /\ run' = "failed" /\ Quit
  /\ UNCHANGED <<func, step, modules, service_state, exited>>

TimersEnd ==
  /\ step = "timers" /\ ~exited
  /\ UpdateEnds
  /\ step' = "results"
  /\ UNCHANGED <<m_state, func, modules, service_state, run, exited, quit_in>>

ResultsEnd ==
  /\ step = "results" /\ ~exited
  /\ step' = "modules"
  /\ UNCHANGED <<timerVars, m_state, func, modules, service_state, run, exited, quit_in>>

-----------------------------------------------------------------------------
\* All modules in the one state are brought to the other.
Advance(from, to) ==
  modules' = [m \in Modules |-> IF modules[m] = from THEN to ELSE modules[m]]

\* On to the next function of the loop.
Goto(f) == func' = f /\ step' = "frame"

\* What Realse and Update are preceded by: Init and Awake do nothing unless
\* the state is that of the function before.
EnterRealse == Goto("Realse") /\ m_state' = "Release"

LoopCalled ==
  /\ step = "modules" /\ func = "Loop" /\ ~exited
  /\ IF m_state = "Free" THEN Goto("Init") /\ m_state' = "Init" ELSE EnterRealse
  /\ UNCHANGED <<timerVars, modules, service_state, run, exited, quit_in>>

InitCalled ==
  /\ step = "modules" /\ func = "Init" /\ ~exited
  /\ Advance("Free", "Inited")
  /\ IF m_state = "Init" THEN Goto("Awake") /\ m_state' = "Awake" ELSE EnterRealse
  /\ UNCHANGED <<timerVars, service_state, run, exited, quit_in>>

AwakeCalled ==
  /\ step = "modules" /\ func = "Awake" /\ ~exited
  /\ Advance("Inited", "Awaked")
  /\ IF m_state = "Awake" THEN Goto("Update") /\ m_state' = "Update" ELSE EnterRealse
  /\ UNCHANGED <<timerVars, service_state, run, exited, quit_in>>

\* Mutant: an engine that quits does not update its modules once more.
UpdateCalledAtOnce ==
  /\ step = "modules" /\ func = "Update" /\ ~exited
  /\ IF m_state = "Update" THEN Advance("Awaked", "Updating") ELSE UNCHANGED modules
  /\ \/ /\ service_state \in {"Runing", "Quited"}
        /\ UNCHANGED <<service_state, m_state, quit_in>>
     \/ /\ service_state \in {"NotifyQuit", "Quiting"}
        /\ service_state' = "Quiting"
        /\ UNCHANGED <<m_state, quit_in>>
     \/ /\ service_state \in {"NotifyQuit", "Quiting"}
        /\ service_state' = "Quited"
        /\ Quit
  /\ IF m_state' = "Update" THEN Goto("Update") ELSE Goto("Realse")
  /\ UNCHANGED <<timerVars, run, exited>>

\* ServiceBase::Update tells the service that it is to quit, and stops the
\* engine when the service says it can.
UpdateCalled ==
  /\ step = "modules" /\ func = "Update" /\ ~exited
  /\ Advance("Awaked", "Updating")
  /\ \/ /\ service_state \in {"Runing", "Quited"}
        /\ UNCHANGED <<service_state, m_state, quit_in>>
     \/ /\ service_state \in {"NotifyQuit", "Quiting"}
        /\ service_state' = "Quiting"
        /\ UNCHANGED <<m_state, quit_in>>
     \/ /\ service_state \in {"NotifyQuit", "Quiting"}
        /\ service_state' = "Quited"
        /\ Quit
  /\ IF m_state' = "Update" THEN Goto("Update") ELSE Goto("Realse")
  /\ UNCHANGED <<timerVars, run, exited>>

RealseCalled ==
  /\ step = "modules" /\ func = "Realse" /\ ~exited
  /\ Advance("Updating", "Quited")
  /\ ClearAll
  /\ Goto("Destroy") /\ m_state' = "Destroy"
  /\ UNCHANGED <<service_state, run, exited, quit_in>>

DestroyCalled ==
  /\ step = "modules" /\ func = "Destroy" /\ ~exited
  /\ Advance("Quited", "Destroyed")
  /\ Goto("Destroyed") /\ UNCHANGED m_state
  /\ UNCHANGED <<timerVars, service_state, run, exited, quit_in>>

\* Destroy and Loop each end with a frame more.
LoopEnds ==
  /\ step = "modules" /\ func \in {"Destroyed", "Max"} /\ ~exited
  /\ Goto(IF func = "Destroyed" THEN "Max" ELSE "over")
  /\ m_state' = "Max"
  /\ UNCHANGED <<timerVars, modules, service_state, run, exited, quit_in>>

-----------------------------------------------------------------------------
\* The scripts run in the callbacks: of a timer, of a task's result while
\* there are threads, and of the network's events.
InCallback ==
  /\ func # "over" /\ ~exited
  /\ \/ current # None
     \/ step = "results" /\ func \in {"Init", "Awake", "Update", "Realse"} /\ run = "ok"
     \/ step = "modules" /\ func = "Update" /\ run = "ok"

CallbackAdds ==
  /\ InCallback
  /\ \/ \E start \in Spans : AddNext(m_now_ms + start)
     \/ \E span \in Spans, times \in -1..2 : AddFirm(span, times)
  /\ UNCHANGED logicVars

CallbackRemoves ==
  /\ InCallback
  /\ \E t \in 1..last_timer_id : RemoveTimer(t)
  /\ UNCHANGED logicVars

\* An interrupt at any time, or the script: once Realse has begun the engine has
\* no service any more, and the process is left at once.
try_quit_game ==
  /\ func # "over" /\ ~exited
  /\ IF func \in {"Realse", "Destroy", "Destroyed", "Max"}
     THEN exited' = TRUE /\ UNCHANGED service_state
     ELSE /\ service_state' = IF service_state = "Runing" THEN "NotifyQuit" ELSE service_state
          /\ UNCHANGED exited
  /\ UNCHANGED <<timerVars, m_state, func, step, modules, run, quit_in>>

-----------------------------------------------------------------------------
\* The first timer is the one that runs the service.
Init ==
  /\ m_now_ms \in Times
  /\ items = [t \in Ids |-> IF t = 1 THEN [key |-> m_now_ms, span |-> 0, left |-> 1] ELSE None]
  /\ tree = {1}
  /\ to_remove = {}
  /\ last_timer_id = 1
  /\ current = None /\ updating = FALSE /\ loops = 0
  /\ freed = [t \in Ids |-> 0] /\ dangling = FALSE
  /\ m_state = "Free" /\ func = "Loop" /\ step = "frame"
  /\ modules = [m \in Modules |-> "Free"]
  /\ service_state = "Runing" /\ run = "waits" /\ exited = FALSE
  /\ quit_in = None

OnFrame == FrameBegins \/ TimerFires \/ TimerFired \/ TimersEnd \/ ResultsEnd

Loop ==
  \/ LoopCalled \/ InitCalled \/ AwakeCalled \/ UpdateCalled
  \/ RealseCalled \/ DestroyCalled \/ LoopEnds

Next == OnFrame \/ Loop \/ CallbackAdds \/ CallbackRemoves \/ try_quit_game

Spec == Init /\ [][Next]_vars

\* The main thread runs, callbacks return, and a service that was told to quit
\* says in the end that it can.
FairSpec ==
  /\ Spec
  /\ WF_vars(OnFrame \/ Loop)
  /\ SF_vars(UpdateCalled /\ service_state' = "Quited")
=============================================================================
