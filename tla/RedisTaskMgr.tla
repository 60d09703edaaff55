---------------------------- MODULE RedisTaskMgr ----------------------------
(***************************************************************************)
(* The manager of Redis commands (redis_task_mgr.cpp), for a cluster: as    *)
(* with the database tasks, and a thread connects again when a command has  *)
(* broken its connection.                                                  *)
(***************************************************************************)
EXTENDS TaskThreads

CONSTANT Malformed   \* commands that could not be formatted

ASSUME MalformedAssumption == Malformed \subseteq Tasks

\* A start that fails leaves its threads' records behind, and Stop does not
\* take them away.
RedisStart ==
  /\ mgr = "redis" /\ stop = None
  /\ ~is_running /\ starts < MaxStarts
  /\ \/ Launch /\ ctx_ok' = {}
     \/ /\ thread_num' = ThreadNum
        /\ starts' = starts + 1
        /\ UNCHANGED <<mgr, is_running, stop, tasks, done_tasks, handling, pc, cur,
                       is_exit, ctx_ok, historyVars>>

\* Unless the manager runs, the command gets its id and is never seen again.
ExecuteCmd(t) ==
  /\ mgr = "redis" /\ stop = None
  /\ t \notin accepted
  /\ is_running /\ thread_num > 0
  /\ Push(t, HashCode[t] % thread_num)

\* Mutant: a thread without a connection gives up until the next command.
RedisLoopGivesUp(w) ==
  /\ mgr = "redis" /\ pc[w] = "loop"
  /\ \/ is_exit[w] /\ Goto(w, "ended")
     \/ ~is_exit[w] /\ (tasks[w] = <<>> \/ w \notin ctx_ok) /\ Goto(w, "idle")
     \/ ~is_exit[w] /\ tasks[w] # <<>> /\ w \in ctx_ok /\ Goto(w, "take")
  /\ UNCHANGED <<lifeVars, tasks, done_tasks, handling, cur, is_exit, ctx_ok, historyVars>>

RedisLoop(w) ==
  /\ mgr = "redis" /\ pc[w] = "loop"
  /\ \/ is_exit[w] /\ Goto(w, "ended")
     \/ ~is_exit[w] /\ tasks[w] = <<>> /\ Goto(w, "idle")
     \/ ~is_exit[w] /\ tasks[w] # <<>> /\ w \in ctx_ok /\ Goto(w, "take")
  /\ UNCHANGED <<lifeVars, tasks, done_tasks, handling, cur, is_exit, ctx_ok, historyVars>>

\* With a command to do and no connection a thread connects until it has one.
SetupCtx(w) ==
  /\ mgr = "redis" /\ pc[w] = "loop"
  /\ ~is_exit[w] /\ tasks[w] # <<>> /\ w \notin ctx_ok
  /\ ctx_ok' = ctx_ok \cup {w}
  /\ Goto(w, "take")
  /\ UNCHANGED <<lifeVars, tasks, done_tasks, handling, cur, is_exit, historyVars>>

\* A command that is sent may break the connection.
RedisTaskDone(w) ==
  /\ mgr = "redis"
  /\ TaskDone(w)
  /\ ctx_ok' \in IF cur[w] \in Malformed THEN {ctx_ok} ELSE {ctx_ok, ctx_ok \ {w}}

RedisStop ==
  /\ mgr = "redis" /\ stop = None /\ handling = <<>>
  /\ is_running
  /\ is_running' = FALSE
  /\ is_exit' = [w \in Workers |-> TRUE]
  /\ stop' = [at |-> "notify", thread |-> 0]
  /\ UNCHANGED <<mgr, thread_num, starts, tasks, done_tasks, handling, pc, cur,
                 ctx_ok, historyVars>>

RedisNotify(w) ==
  /\ mgr = "redis" /\ stop = [at |-> "notify", thread |-> w]
  /\ NotifyOne(w)
  /\ Notified(w)
  /\ stop' = [at |-> "join", thread |-> w]
  /\ UNCHANGED <<mgr, is_running, thread_num, starts, tasks, done_tasks, handling,
                 cur, is_exit, ctx_ok, accepted, answered, missed>>

RedisJoined ==
  /\ mgr = "redis"
  /\ \/ \E w \in Workers : Joined(w, "notify")
     \/ AllJoined /\ tasks' = [w \in Workers |-> <<>>] /\ missed' = {}
=============================================================================
