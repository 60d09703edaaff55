---------------------------- MODULE AsyncTaskMgr ----------------------------
(***************************************************************************)
(* The manager of the engine's asynchronous tasks (async_task_mgr.cpp): all *)
(* threads take from one queue.                                            *)
(***************************************************************************)
EXTENDS TaskThreads

AsyncStart ==
  /\ mgr = "async" /\ stop = None
  /\ ~is_running /\ starts < MaxStarts
  /\ Launch
  /\ UNCHANGED ctx_ok

\* Whether the manager runs or not.
AsyncAddTask(t) ==
  /\ mgr = "async" /\ stop = None
  /\ t \notin accepted
  /\ Push(t, 0)

AsyncLoop(w) ==
  /\ mgr = "async" /\ pc[w] = "loop"
  /\ Goto(w, IF is_exit[w] THEN "ended" ELSE "take")
  /\ UNCHANGED <<lifeVars, tasks, done_tasks, handling, cur, is_exit, ctx_ok, historyVars>>

AsyncTaskDone(w) == mgr = "async" /\ TaskDone(w) /\ UNCHANGED ctx_ok

\* Stop throws away what is queued, ...
AsyncStop ==
  /\ mgr = "async" /\ stop = None /\ handling = <<>>
  /\ is_running
  /\ is_running' = FALSE
  /\ tasks' = [tasks EXCEPT ![0] = <<>>]
  /\ missed' = {}
  /\ stop' = [at |-> "tell", thread |-> 0]
  /\ UNCHANGED <<mgr, thread_num, starts, done_tasks, handling, pc, cur, is_exit,
                 ctx_ok, accepted, answered, late>>

\* ... tells the threads one by one, each time notifying all, ...
AsyncTell(w) ==
  /\ mgr = "async" /\ stop = [at |-> "tell", thread |-> w]
  /\ is_exit' = [is_exit EXCEPT ![w] = TRUE]
  /\ NotifyAll(0)
  /\ stop' = IF w < ThreadNum - 1 THEN [at |-> "tell", thread |-> w + 1]
                                  ELSE [at |-> "notify", thread |-> 0]
  /\ UNCHANGED <<mgr, is_running, thread_num, starts, tasks, done_tasks, handling,
                 cur, ctx_ok, historyVars>>

\* ... then notifies them again before it waits for each.
AsyncNotify(w) ==
  /\ mgr = "async" /\ stop = [at |-> "notify", thread |-> w]
  /\ NotifyAll(0)
  /\ Notified(w)
  /\ stop' = [at |-> "join", thread |-> w]
  /\ UNCHANGED <<mgr, is_running, thread_num, starts, tasks, done_tasks, handling,
                 cur, is_exit, ctx_ok, accepted, answered, missed>>

AsyncJoined ==
  /\ mgr = "async"
  /\ \/ \E w \in Workers : Joined(w, "notify")
     \/ AllJoined /\ UNCHANGED <<tasks, missed>>
=============================================================================
