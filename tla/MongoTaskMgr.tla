---------------------------- MODULE MongoTaskMgr ----------------------------
(***************************************************************************)
(* The manager of database tasks (mongo_task_mgr.cpp): a thread and a queue *)
(* for each remainder of the hash code.                                    *)
(***************************************************************************)
EXTENDS TaskThreads

\* When the server cannot be reached, nothing changes.
MongoStart ==
  /\ mgr = "mongo" /\ stop = None
  /\ ~is_running /\ starts < MaxStarts
  /\ Launch
  /\ UNCHANGED ctx_ok

\* FindOne and the like: the task is refused unless the manager runs.
TaskActionBody(t) ==
  /\ mgr = "mongo" /\ stop = None
  /\ t \notin accepted
  /\ is_running /\ thread_num > 0
  /\ Push(t, HashCode[t] % thread_num)

\* The queue is looked at before its mutex is taken.
MongoLoop(w) ==
  /\ mgr = "mongo" /\ pc[w] = "loop"
  /\ Goto(w, IF is_exit[w] THEN "ended" ELSE IF tasks[w] = <<>> THEN "idle" ELSE "take")
  /\ UNCHANGED <<lifeVars, tasks, done_tasks, handling, cur, is_exit, ctx_ok, historyVars>>

\* An exception of the driver becomes an error in the task.
MongoTaskDone(w) == mgr = "mongo" /\ TaskDone(w) /\ UNCHANGED ctx_ok

\* Mutant: the threads are not told.
MongoStopUntold ==
  /\ mgr = "mongo" /\ stop = None /\ handling = <<>>
  /\ is_running
  /\ is_running' = FALSE
  /\ stop' = [at |-> "notify", thread |-> 0]
  /\ UNCHANGED <<mgr, thread_num, starts, tasks, done_tasks, handling, pc, cur,
                 is_exit, ctx_ok, historyVars>>

\* Stop tells all threads, then notifies each before it waits for it.
MongoStop ==
  /\ mgr = "mongo" /\ stop = None /\ handling = <<>>
  /\ is_running
  /\ is_running' = FALSE
  /\ is_exit' = [w \in Workers |-> TRUE]
  /\ stop' = [at |-> "notify", thread |-> 0]
  /\ UNCHANGED <<mgr, thread_num, starts, tasks, done_tasks, handling, pc, cur,
                 ctx_ok, historyVars>>

MongoNotify(w) ==
  /\ mgr = "mongo" /\ stop = [at |-> "notify", thread |-> w]
  /\ NotifyOne(w)
  /\ Notified(w)
  /\ stop' = [at |-> "join", thread |-> w]
  /\ UNCHANGED <<mgr, is_running, thread_num, starts, tasks, done_tasks, handling,
                 cur, is_exit, ctx_ok, accepted, answered, missed>>

\* The threads' queues go with them.
MongoJoined ==
  /\ mgr = "mongo"
  /\ \/ \E w \in Workers : Joined(w, "notify")
     \/ AllJoined /\ tasks' = [w \in Workers |-> <<>>] /\ missed' = {}
=============================================================================
