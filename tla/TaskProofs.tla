----------------------------- MODULE TaskProofs -----------------------------
(***************************************************************************)
(* Of TaskMgrs, for any number of threads and tasks: the types of its       *)
(* state, that a queue is never slept over, but for the moment that nothing *)
(* guards, and that tasks are answered as TaskPool promises, each lane in   *)
(* its own order.                                                           *)
(*                                                                          *)
(* Of DbUuid, whose queries are tasks of a database client, for any number  *)
(* of services: the types, that no id is handed out twice, and that a low   *)
(* pool is refilled unless a query of it failed.                            *)
(***************************************************************************)
EXTENDS TaskMgrs, DbUuid, SequenceTheorems, FiniteSetTheorems, WellFoundedInduction, TLAPS

\* A thread that processes has a task.
Types == TypeOK /\ \A w \in Workers : pc[w] = "process" => cur[w] \in Tasks

LEMMA WorkerTypes == ThreadNum \in Nat /\ ThreadNum > 0 /\ 0 \in Workers /\ ThreadNum - 1 \in Workers
BY ThreadAssumption DEF Workers

LEMMA LaneTypes ==
  ASSUME NEW t \in Tasks PROVE HashCode[t] % ThreadNum \in Workers
<1>1. HashCode[t] \in Nat
  BY HashAssumption
<1> QED BY <1>1, ThreadAssumption DEF Workers

LEMMA InitTypes == Init => Types
<1> SUFFICES ASSUME Init PROVE Types
  OBVIOUS
<1>1. tasks \in [Workers -> Seq(Tasks)] /\ done_tasks \in Seq(Tasks) /\ handling \in Seq(Tasks)
  BY DEF Init
<1>2. starts \in 0..MaxStarts
  BY ThreadAssumption DEF Init
<1> QED BY <1>1, <1>2 DEF Init, Types, TypeOK

LEMMA WakeTypes ==
  ASSUME NEW S, Types, Wake(S)
  PROVE  /\ pc' \in [Workers -> {"none", "loop", "take", "process", "idle", "drowsy", "waiting", "ended"}]
         /\ \A w \in Workers : pc'[w] = "process" => pc[w] = "process"
BY DEF Types, TypeOK, Wake

LEMMA NotifyWakes ==
  ASSUME NEW q, NotifyOne(q) \/ NotifyAll(q)
  PROVE  \E S \in SUBSET Waiting(q) : Wake(S) /\ (Waiting(q) # {} => S # {})
BY DEF NotifyOne, NotifyAll

\* What is not pushed, taken or done leaves the types of the queues alone.
LEMMA PushTypes ==
  ASSUME Types, NEW t \in Tasks, NEW q \in Workers, Push(t, q)
  PROVE  Types'
<1>1. PICK S \in SUBSET Waiting(q) : Wake(S)
  BY NotifyWakes DEF Push
<1>2. tasks' \in [Workers -> Seq(Tasks)]
  <2>1. tasks \in [Workers -> Seq(Tasks)]
    BY DEF Types, TypeOK
  <2>2. Append(tasks[q], t) \in Seq(Tasks)
    BY <2>1
  <2> QED BY <2>1, <2>2 DEF Push
<1>3. missed' \subseteq Workers /\ accepted' \subseteq Tasks
  BY DEF Push, Types, TypeOK
<1> QED BY <1>1, <1>2, <1>3, WakeTypes DEF Push, Types, TypeOK, lifeVars, Stops

LEMMA LaunchTypes ==
  ASSUME Types, Launch, starts < MaxStarts, ctx_ok' \subseteq Workers
  PROVE  Types'
<1>1. starts' \in 0..MaxStarts
  BY ThreadAssumption DEF Types, TypeOK, Launch
<1> QED BY <1>1 DEF Types, TypeOK, Launch, historyVars, Stops

LEMMA StartTypes == ASSUME Types, Start PROVE Types'
<1>1. CASE AsyncStart
  BY <1>1, LaunchTypes DEF AsyncStart, Types, TypeOK
<1>2. CASE MongoStart
  BY <1>2, LaunchTypes DEF MongoStart, Types, TypeOK
<1>3. CASE RedisStart
  <2>1. CASE Launch /\ ctx_ok' = {}
    BY <1>3, <2>1, LaunchTypes DEF RedisStart
  <2>2. CASE ~(Launch /\ ctx_ok' = {})
    <3>1. starts' \in 0..MaxStarts
      BY <1>3, <2>2, ThreadAssumption DEF Types, TypeOK, RedisStart
    <3> QED BY <1>3, <2>2, <3>1 DEF Types, TypeOK, RedisStart, historyVars, Stops
  <2> QED BY <2>1, <2>2
<1> QED BY <1>1, <1>2, <1>3 DEF Start

LEMMA AddTaskTypes == ASSUME Types, NEW t \in Tasks, AddTask(t) PROVE Types'
<1>1. CASE AsyncAddTask(t)
  BY <1>1, PushTypes, WorkerTypes DEF AsyncAddTask
<1>2. CASE TaskActionBody(t) \/ ExecuteCmd(t)
  <2>1. thread_num = ThreadNum /\ Push(t, HashCode[t] % thread_num)
    BY <1>2 DEF TaskActionBody, ExecuteCmd, Types, TypeOK
  <2> QED BY <2>1, PushTypes, LaneTypes
<1> QED BY <1>1, <1>2 DEF AddTask

LEMMA StopTypes == ASSUME Types, Stop PROVE Types'
<1>1. CASE AsyncStop
  <2>1. tasks' \in [Workers -> Seq(Tasks)]
    BY <1>1 DEF AsyncStop, Types, TypeOK
  <2>2. stop' \in Stops
    BY <1>1, WorkerTypes DEF AsyncStop, Stops
  <2> QED BY <1>1, <2>1, <2>2 DEF AsyncStop, Types, TypeOK
<1>2. CASE MongoStop \/ RedisStop
  <2>1. stop' \in Stops
    BY <1>2, WorkerTypes DEF MongoStop, RedisStop, Stops
  <2> QED BY <1>2, <2>1 DEF MongoStop, RedisStop, Types, TypeOK, historyVars
<1> QED BY <1>1, <1>2 DEF Stop

LEMMA TakeTypes == ASSUME Types, NEW w \in Workers, TakeTask(w) PROVE Types'
<1>1. QueueOf(w) \in Workers
  BY WorkerTypes DEF QueueOf
<1>2. CASE tasks[QueueOf(w)] = <<>>
  BY <1>2 DEF TakeTask, Goto, Types, TypeOK, lifeVars, Stops
<1>3. CASE tasks[QueueOf(w)] # <<>>
  <2>1. tasks[QueueOf(w)] \in Seq(Tasks)
    BY <1>1 DEF Types, TypeOK
  <2>2. Head(tasks[QueueOf(w)]) \in Tasks /\ Tail(tasks[QueueOf(w)]) \in Seq(Tasks)
    BY <2>1, <1>3
  <2>3. tasks' \in [Workers -> Seq(Tasks)] /\ cur' \in [Workers -> Tasks \cup {None}]
    BY <1>1, <1>3, <2>2 DEF TakeTask, Types, TypeOK
  <2>4. \A v \in Workers : pc'[v] = "process" => cur'[v] \in Tasks
    BY <1>3, <2>2 DEF TakeTask, Goto, Types, TypeOK
  <2> QED BY <1>3, <2>3, <2>4 DEF TakeTask, Goto, Types, TypeOK, lifeVars, Stops
<1> QED BY <1>2, <1>3

LEMMA DoneTypes ==
  ASSUME Types, NEW w \in Workers, TaskDone(w), ctx_ok' \subseteq Workers
  PROVE  Types'
<1>1. cur[w] \in Tasks /\ done_tasks \in Seq(Tasks)
  BY DEF TaskDone, Types, TypeOK
<1>2. done_tasks' \in Seq(Tasks)
  BY <1>1 DEF TaskDone
<1>3. \A v \in Workers : pc'[v] = "process" => v # w /\ pc[v] = "process"
  BY DEF TaskDone, Goto, Types, TypeOK
<1> QED BY <1>2, <1>3 DEF TaskDone, Goto, Types, TypeOK, lifeVars, historyVars, Stops

\* Every other step of a thread moves it on, and at most connects it.
LEMMA MoveTypes ==
  ASSUME Types, NEW w \in Workers,
         NEW where \in {"loop", "take", "idle", "drowsy", "waiting", "ended"}, Goto(w, where),
         ctx_ok' \subseteq Workers,
         UNCHANGED <<lifeVars, tasks, done_tasks, handling, cur, is_exit, historyVars>>
  PROVE  Types'
BY DEF Types, TypeOK, Goto, lifeVars, historyVars, Stops

LEMMA ThreadTypes == ASSUME Types, NEW w \in Workers, ThreadLoop(w) \/ WakeUp(w) PROVE Types'
<1>1. CASE AsyncLoop(w)
  BY <1>1, MoveTypes DEF AsyncLoop, Types, TypeOK
<1>2. CASE MongoLoop(w)
  BY <1>2, MoveTypes DEF MongoLoop, Types, TypeOK
<1>3. CASE RedisLoop(w)
  BY <1>3, MoveTypes DEF RedisLoop, Types, TypeOK
<1>4. CASE SetupCtx(w)
  BY <1>4, MoveTypes DEF SetupCtx, Types, TypeOK
<1>5. CASE TakeTask(w)
  BY <1>5, TakeTypes
<1>6. CASE AsyncTaskDone(w) \/ MongoTaskDone(w) \/ RedisTaskDone(w)
  <2>1. ctx_ok' \subseteq Workers
    BY <1>6 DEF AsyncTaskDone, MongoTaskDone, RedisTaskDone, Types, TypeOK
  <2> QED BY <1>6, <2>1, DoneTypes DEF AsyncTaskDone, MongoTaskDone, RedisTaskDone
<1>7. CASE Idle(w)
  BY <1>7, MoveTypes DEF Idle, Types, TypeOK
<1>8. CASE Wait(w) \/ WakeUp(w)
  BY <1>8, MoveTypes DEF Wait, WakeUp, Types, TypeOK
<1> QED BY <1>1, <1>2, <1>3, <1>4, <1>5, <1>6, <1>7, <1>8 DEF ThreadLoop

LEMMA FrameTypes == ASSUME Types, OnFrame \/ HandleResult PROVE Types'
<1>1. CASE OnFrame
  <2>1. handling' \in Seq(Tasks) /\ done_tasks' \in Seq(Tasks)
    BY <1>1 DEF OnFrame, Types, TypeOK
  <2> QED BY <1>1, <2>1 DEF OnFrame, Types, TypeOK, lifeVars, historyVars, Stops
<1>2. CASE HandleResult
  <2>1. handling \in Seq(Tasks)
    BY DEF Types, TypeOK
  <2>2. handling' \in Seq(Tasks) /\ Head(handling) \in Tasks
    BY <1>2, <2>1 DEF HandleResult
  <2> QED BY <1>2, <2>2 DEF HandleResult, Types, TypeOK, lifeVars, Stops
<1> QED BY <1>1, <1>2

LEMMA NotifiedTypes ==
  ASSUME NEW w \in Workers, Notified(w) PROVE late' \subseteq Workers
BY DEF Notified

LEMMA NextWorker ==
  ASSUME NEW w \in Workers, w < ThreadNum - 1 PROVE w + 1 \in Workers
BY WorkerTypes DEF Workers

LEMMA JoinedTypes ==
  ASSUME Types, NEW w \in Workers, Joined(w, "notify") PROVE Types'
<1>1. stop' \in Stops
  BY NextWorker DEF Joined, Stops
<1> QED BY <1>1 DEF Joined, Types, TypeOK, historyVars

LEMMA AllJoinedTypes ==
  ASSUME Types, AllJoined, tasks' \in [Workers -> Seq(Tasks)], missed' \subseteq Workers
  PROVE  Types'
<1>1. done_tasks' \in Seq(Tasks)
  BY DEF AllJoined
<1> QED BY <1>1 DEF AllJoined, Types, TypeOK, Stops

LEMMA NotifyTypes ==
  ASSUME Types, NEW w \in Workers, AsyncTell(w) \/ AsyncNotify(w) \/ MongoNotify(w) \/ RedisNotify(w)
  PROVE  Types'
<1>1. PICK S : Wake(S)
  BY NotifyWakes DEF AsyncTell, AsyncNotify, MongoNotify, RedisNotify
<1>2. stop' \in Stops
  BY NextWorker, WorkerTypes DEF AsyncTell, AsyncNotify, MongoNotify, RedisNotify, Stops
<1>3. is_exit' \in [Workers -> BOOLEAN] /\ late' \subseteq Workers
  BY NotifiedTypes DEF AsyncTell, AsyncNotify, MongoNotify, RedisNotify, Types, TypeOK, historyVars
<1> QED BY <1>1, <1>2, <1>3, WakeTypes
        DEF AsyncTell, AsyncNotify, MongoNotify, RedisNotify, Types, TypeOK, historyVars

LEMMA StopStepTypes == ASSUME Types, StopStep PROVE Types'
<1>1. ASSUME NEW w \in Workers, AsyncTell(w) \/ AsyncNotify(w) \/ MongoNotify(w) \/ RedisNotify(w)
      PROVE  Types'
  BY <1>1, NotifyTypes
<1>2. ASSUME NEW w \in Workers, Joined(w, "notify") PROVE Types'
  BY <1>2, JoinedTypes
<1>3. CASE AllJoined /\ UNCHANGED <<tasks, missed>>
  BY <1>3, AllJoinedTypes DEF Types, TypeOK
<1>4. CASE AllJoined /\ tasks' = [w \in Workers |-> <<>>] /\ missed' = {}
  <2>1. tasks' \in [Workers -> Seq(Tasks)]
    BY <1>4
  <2> QED BY <1>4, <2>1, AllJoinedTypes
<1> QED BY <1>1, <1>2, <1>3, <1>4 DEF StopStep, AsyncJoined, MongoJoined, RedisJoined

LEMMA StepTypes == Types /\ [Next]_vars => Types'
<1> SUFFICES ASSUME Types, [Next]_vars PROVE Types'
  OBVIOUS
<1>1. CASE Start
  BY <1>1, StartTypes
<1>2. CASE Stop
  BY <1>2, StopTypes
<1>3. CASE StopStep
  BY <1>3, StopStepTypes
<1>4. ASSUME NEW t \in Tasks, AddTask(t) PROVE Types'
  BY <1>4, AddTaskTypes
<1>5. CASE OnFrame \/ HandleResult
  BY <1>5, FrameTypes
<1>6. ASSUME NEW w \in Workers, ThreadLoop(w) \/ WakeUp(w) PROVE Types'
  BY <1>6, ThreadTypes
<1>7. CASE UNCHANGED vars
  BY <1>7 DEF vars, Types, TypeOK, Stops
<1> QED BY <1>1, <1>2, <1>3, <1>4, <1>5, <1>6, <1>7 DEF Next

\* The state of a task manager of any kind keeps its types
\* (async_task_mgr.cpp, mongo_task_mgr.cpp, redis_task_mgr.cpp).
THEOREM TaskTypes == Spec => []TypeOK
<1>1. Types => TypeOK
  BY DEF Types
<1> QED BY <1>1, InitTypes, StepTypes, PTL DEF Spec

-----------------------------------------------------------------------------
\* A thread of the queue that will look at it before it waits.
Looking(q) == \E w \in Serving(q) : pc[w] \in {"loop", "take", "process"}

\* A manager that runs is not being stopped, and each of its threads is in the
\* loop; a queue with tasks has a thread that looks, or was missed.
Attended ==
  /\ stop # None => ~is_running
  /\ is_running => \A w \in Workers : ~is_exit[w] /\ pc[w] \notin {"none", "ended"}
  /\ is_running => \A q \in Workers :
       tasks[q] # <<>> /\ Serving(q) # {} => q \in missed \/ Looking(q)

LEMMA InitAttended == Init => Attended
BY DEF Init, Attended

LEMMA AttendedSuffices == Types /\ Attended => SleptThrough
BY DEF Attended, SleptThrough, Looking, Waiting, Types, TypeOK

LEMMA StartAttended == ASSUME Types, Attended, Start PROVE Attended'
<1>1. CASE Launch
  <2>1. stop' = None
    BY <1>1 DEF Start, AsyncStart, MongoStart, RedisStart, Launch
  <2>2. \A w \in Workers : pc'[w] = "loop" /\ ~is_exit'[w]
    BY <1>1 DEF Launch
  <2>3. \A q \in Workers : Serving(q)' # {} => Looking(q)'
    BY <2>2 DEF Looking, Serving
  <2> QED BY <2>1, <2>2, <2>3 DEF Attended
<1>2. CASE ~Launch
  BY <1>2 DEF Start, AsyncStart, MongoStart, RedisStart, Attended, Looking, Serving, QueueOf, historyVars
<1> QED BY <1>1, <1>2

\* A push wakes a waiting thread, which then looks.
LEMMA PushAttended ==
  ASSUME Types, Attended, stop = None, NEW t \in Tasks, NEW q \in Workers, Push(t, q)
  PROVE  Attended'
<1>1. PICK S \in SUBSET Waiting(q) : Wake(S) /\ (Waiting(q) # {} => S # {})
  BY NotifyWakes DEF Push
<1>2. \A w \in Workers : pc'[w] = IF w \in S THEN "loop" ELSE pc[w]
  BY <1>1 DEF Wake
<1>3. \A p \in Workers : Serving(p)' = Serving(p)
  BY DEF Push, lifeVars, Serving, QueueOf
<1>4. \A p \in Workers : Looking(p) => Looking(p)'
  BY <1>2, <1>3 DEF Looking, Serving
<1>5. ASSUME is_running, Serving(q) # {} PROVE q \in missed' \/ Looking(q)'
  <2>1. CASE Waiting(q) # {}
    BY <1>1, <1>2, <1>3, <2>1 DEF Looking, Waiting, Serving
  <2>2. CASE Waiting(q) = {} /\ Dozing(q) # {}
    BY <2>2 DEF Push
  <2>3. CASE Waiting(q) = {} /\ Dozing(q) = {}
    <3>1. PICK w \in Serving(q) : TRUE
      BY <1>5
    <3>2. pc[w] \in {"loop", "take", "process"}
      BY <1>5, <2>3, <3>1 DEF Attended, Waiting, Dozing, Serving, Types, TypeOK
    <3> QED BY <3>1, <3>2, <1>4 DEF Looking
  <2> QED BY <2>1, <2>2, <2>3
<1>6. ASSUME is_running, NEW p \in Workers, p # q, tasks'[p] # <<>>, Serving(p) # {}
      PROVE  p \in missed' \/ Looking(p)'
  <2>1. tasks'[p] = tasks[p] /\ missed \subseteq missed'
    BY <1>6 DEF Push, Types, TypeOK
  <2> QED BY <1>4, <1>6, <2>1 DEF Attended
<1>7. is_running' = is_running /\ stop' = stop /\ is_exit' = is_exit
  BY DEF Push, lifeVars
<1>8. is_running => \A w \in Workers : ~is_exit[w] /\ pc'[w] \notin {"none", "ended"}
  BY <1>2 DEF Attended
<1> QED BY <1>3, <1>5, <1>6, <1>7, <1>8 DEF Attended

LEMMA AddTaskAttended ==
  ASSUME Types, Attended, NEW t \in Tasks, AddTask(t) PROVE Attended'
<1>1. CASE AsyncAddTask(t)
  BY <1>1, PushAttended, WorkerTypes DEF AsyncAddTask
<1>2. CASE TaskActionBody(t) \/ ExecuteCmd(t)
  <2>1. stop = None /\ thread_num = ThreadNum /\ Push(t, HashCode[t] % thread_num)
    BY <1>2 DEF TaskActionBody, ExecuteCmd, Types, TypeOK
  <2> QED BY <2>1, PushAttended, LaneTypes
<1> QED BY <1>1, <1>2 DEF AddTask

\* While the manager is stopped there is nothing to show but that it is.
LEMMA StoppedAttended ==
  ASSUME ~is_running' PROVE Attended'
BY DEF Attended

LEMMA StopAttended == ASSUME Types, Attended, Stop \/ StopStep PROVE Attended'
<1>1. CASE Stop
  BY <1>1, StoppedAttended DEF Stop, AsyncStop, MongoStop, RedisStop
<1>2. CASE StopStep
  <2>1. stop # None
    <3>1. stop \in Stops
      BY <1>2, WorkerTypes
         DEF StopStep, AsyncTell, AsyncNotify, MongoNotify, RedisNotify, AsyncJoined,
             MongoJoined, RedisJoined, Joined, AllJoined, Stops
    <3> QED BY <3>1, NoneAssumption
  <2>2. is_running' = is_running
    BY <1>2 DEF StopStep, AsyncTell, AsyncNotify, MongoNotify, RedisNotify, AsyncJoined,
                MongoJoined, RedisJoined, Joined, AllJoined
  <2> QED BY <2>1, <2>2, StoppedAttended DEF Attended
<1> QED BY <1>1, <1>2

\* A thread that goes on in its loop, or to wait with the queue empty.
LEMMA MoveAttended ==
  ASSUME Types, Attended, NEW w \in Workers, NEW where, Goto(w, where),
         UNCHANGED <<mgr, is_running, stop, tasks, is_exit, missed>>,
         is_running => where \notin {"none", "ended"},
         \/ where \in {"loop", "take", "process"}
         \/ pc[w] \notin {"loop", "take", "process"}
         \/ tasks[QueueOf(w)] = <<>>
  PROVE  Attended'
<1>1. \A v \in Workers : pc'[v] = IF v = w THEN where ELSE pc[v]
  BY DEF Goto, Types, TypeOK
<1>2. \A q \in Workers : Serving(q)' = Serving(q)
  BY DEF Serving, QueueOf
<1>3. ASSUME NEW q \in Workers, tasks[q] # <<>>, Looking(q) PROVE Looking(q)'
  <2>1. PICK v \in Serving(q) : pc[v] \in {"loop", "take", "process"}
    BY <1>3 DEF Looking
  <2>2. v \in Workers /\ QueueOf(v) = q
    BY DEF Serving
  <2>3. pc'[v] \in {"loop", "take", "process"}
    BY <1>1, <1>3, <2>1, <2>2
  <2> QED BY <1>2, <2>3 DEF Looking
<1>4. is_running => \A v \in Workers : pc'[v] \notin {"none", "ended"}
  BY <1>1 DEF Attended
<1> QED BY <1>2, <1>3, <1>4 DEF Attended

LEMMA TakeAttended == ASSUME Types, Attended, NEW w \in Workers, TakeTask(w) PROVE Attended'
<1>1. CASE tasks[QueueOf(w)] = <<>>
  BY <1>1, MoveAttended DEF TakeTask, lifeVars
<1>2. CASE tasks[QueueOf(w)] # <<>>
  <2>1. \A v \in Workers : pc'[v] = IF v = w THEN "process" ELSE pc[v]
    BY <1>2 DEF TakeTask, Goto, Types, TypeOK
  <2>2. \A q \in Workers : Serving(q)' = Serving(q)
    BY DEF TakeTask, lifeVars, Serving, QueueOf
  <2>3. \A q \in Workers : Looking(q) => Looking(q)'
    BY <2>1, <2>2 DEF Looking, Serving
  <2>4. Looking(QueueOf(w))'
    <3>1. w \in Serving(QueueOf(w))
      BY DEF Serving
    <3>2. QueueOf(w)' = QueueOf(w) /\ QueueOf(w) \in Workers
      BY WorkerTypes DEF QueueOf, TakeTask, lifeVars
    <3> QED BY <2>1, <2>2, <3>1, <3>2 DEF Looking
  <2>5. \A q \in Workers : q # QueueOf(w) =>
          tasks'[q] = tasks[q] /\ (q \in missed => q \in missed')
    BY <1>2 DEF TakeTask, Types, TypeOK
  <2>6. QueueOf(w)' = QueueOf(w)
    BY DEF QueueOf, TakeTask, lifeVars
  <2>7. UNCHANGED <<is_running, stop, is_exit>>
    BY DEF TakeTask, lifeVars
  <2>8. is_running => \A v \in Workers : pc'[v] \notin {"none", "ended"}
    BY <2>1 DEF Attended
  <2> QED BY <2>2, <2>3, <2>4, <2>5, <2>6, <2>7, <2>8 DEF Attended
<1> QED BY <1>1, <1>2

LEMMA ThreadAttended ==
  ASSUME Types, Attended, NEW w \in Workers, ThreadLoop(w) \/ WakeUp(w) PROVE Attended'
<1> USE DEF lifeVars, historyVars
<1>1. is_running => ~is_exit[w]
  BY DEF Attended
<1>2. CASE AsyncLoop(w)
  <2>1. CASE is_exit[w]
    BY <1>1, <1>2, <2>1, StoppedAttended DEF AsyncLoop
  <2>2. CASE ~is_exit[w]
    BY <1>2, <2>2, MoveAttended DEF AsyncLoop
  <2> QED BY <2>1, <2>2
<1>3. CASE MongoLoop(w)
  <2>1. CASE is_exit[w]
    BY <1>1, <1>3, <2>1, StoppedAttended DEF MongoLoop
  <2>2. CASE ~is_exit[w] /\ tasks[w] = <<>>
    BY <1>3, <2>2, MoveAttended DEF MongoLoop, QueueOf
  <2>3. CASE ~is_exit[w] /\ tasks[w] # <<>>
    BY <1>3, <2>3, MoveAttended DEF MongoLoop
  <2> QED BY <2>1, <2>2, <2>3
<1>4. CASE RedisLoop(w)
  <2>1. CASE is_exit[w] /\ Goto(w, "ended")
    BY <1>1, <1>4, <2>1, StoppedAttended DEF RedisLoop
  <2>2. CASE tasks[w] = <<>> /\ Goto(w, "idle")
    BY <1>4, <2>2, MoveAttended DEF RedisLoop, QueueOf
  <2>3. CASE Goto(w, "take")
    BY <1>4, <2>3, MoveAttended DEF RedisLoop
  <2> QED BY <1>4, <2>1, <2>2, <2>3 DEF RedisLoop
<1>5. CASE SetupCtx(w)
  BY <1>5, MoveAttended DEF SetupCtx
<1>6. CASE TakeTask(w)
  BY <1>6, TakeAttended
<1>7. CASE AsyncTaskDone(w) \/ MongoTaskDone(w) \/ RedisTaskDone(w)
  BY <1>7, MoveAttended DEF AsyncTaskDone, MongoTaskDone, RedisTaskDone, TaskDone
<1>8. CASE Idle(w)
  <2>1. CASE is_exit[w]
    BY <1>1, <1>8, <2>1, MoveAttended DEF Idle
  <2>2. CASE ~is_exit[w]
    BY <1>8, <2>2, MoveAttended DEF Idle
  <2> QED BY <2>1, <2>2
<1>9. CASE Wait(w) \/ WakeUp(w)
  BY <1>9, MoveAttended DEF Wait, WakeUp
<1> QED BY <1>2, <1>3, <1>4, <1>5, <1>6, <1>7, <1>8, <1>9 DEF ThreadLoop

LEMMA FrameAttended ==
  ASSUME Types, Attended, OnFrame \/ HandleResult \/ UNCHANGED vars PROVE Attended'
BY DEF OnFrame, HandleResult, vars, lifeVars, historyVars, Attended, Looking, Serving, QueueOf

LEMMA StepAttended == Types /\ Attended /\ [Next]_vars => Attended'
<1> SUFFICES ASSUME Types, Attended, [Next]_vars PROVE Attended'
  OBVIOUS
<1>1. CASE Start
  BY <1>1, StartAttended
<1>2. CASE Stop \/ StopStep
  BY <1>2, StopAttended
<1>3. ASSUME NEW t \in Tasks, AddTask(t) PROVE Attended'
  BY <1>3, AddTaskAttended
<1>4. CASE OnFrame \/ HandleResult \/ UNCHANGED vars
  BY <1>4, FrameAttended
<1>5. ASSUME NEW w \in Workers, ThreadLoop(w) \/ WakeUp(w) PROVE Attended'
  BY <1>5, ThreadAttended
<1> QED BY <1>1, <1>2, <1>3, <1>4, <1>5 DEF Next

\* Threads that all wait while tasks are queued were missed by a push in the
\* moment between the look at the queue and the wait (async_task_mgr.cpp:117-132
\* and the like): no other order of pushes, wake-ups, stops and starts does it.
THEOREM OnlyMissedIsSleptThrough == Spec => []SleptThrough
<1>1. Init => Types /\ Attended
  BY InitTypes, InitAttended
<1>2. (Types /\ Attended) /\ [Next]_vars => (Types /\ Attended)'
  BY StepTypes, StepAttended
<1> QED BY <1>1, <1>2, AttendedSuffices, PTL DEF Spec

-----------------------------------------------------------------------------
(* Tasks are answered in the order of their lanes: the queues, the threads  *)
(* and the frames implement TaskPool.                                       *)

Item == Tasks \cup {None}

LEMMA NatMin ==
  ASSUME NEW T \in SUBSET Nat, T # {}
  PROVE  \E x \in T : \A y \in T : x <= y
<1> DEFINE R == {ss \in Nat \X Nat : ss[1] < ss[2]}
<1>1. IsWellFoundedOn(R, Nat)
  BY NatLessThanWellFounded DEF OpToRel
<1>2. \E x \in T : \A y \in T : ~(<<y, x>> \in R)
  <2> HIDE DEF R
  <2> QED BY <1>1, WFMin
<1>3. PICK x \in T : \A y \in T : ~(<<y, x>> \in R)
  BY <1>2
<1>4. \A y \in T : x <= y
  <2> TAKE y \in T
  <2>1. x \in Nat /\ y \in Nat /\ ~(y < x)
    BY <1>3
  <2> QED BY <2>1
<1> QED BY <1>4

LEMMA Induction ==
  ASSUME NEW T, 0 \in T, \A n \in Nat : n \in T => n + 1 \in T
  PROVE  Nat \subseteq T
<1> SUFFICES ASSUME Nat \ T # {} PROVE FALSE
  OBVIOUS
<1>1. PICK n \in Nat \ T : \A y \in Nat \ T : n <= y
  BY NatMin
<1>2. n # 0 /\ n - 1 \in Nat
  BY <1>1
<1>3. n - 1 \in T
  BY <1>1, <1>2
<1>4. (n - 1) + 1 = n
  BY <1>1
<1> QED BY <1>1, <1>2, <1>3, <1>4

\* What an item adds to the lane.
Piece(lanes, l, d) == IF d # None /\ lanes[d] = l THEN <<d>> ELSE <<>>

\* f collects, item by item, what of s is in the lane.
CountsUp(f, lanes, l, s) ==
  f = [n \in 0..Len(s) |->
         IF n = 0 THEN <<>>
         ELSE IF s[n] # None /\ lanes[s[n]] = l
              THEN f[n - 1] \o <<s[n]>>
              ELSE f[n - 1]]

LEMMA PieceType ==
  ASSUME NEW lanes, NEW l, NEW d \in Item
  PROVE  Piece(lanes, l, d) \in Seq(Tasks)
BY DEF Piece, Item

LEMMA CountUpExists ==
  ASSUME NEW lanes, NEW l, NEW s \in Seq(Item)
  PROVE  \E f : CountsUp(f, lanes, l, s)
<1> DEFINE L == Len(s)
           Good(f, m) == /\ f \in [0..m -> Seq(Tasks)] /\ f[0] = <<>>
                         /\ \A n \in 1..m : f[n] = IF s[n] # None /\ lanes[s[n]] = l
                                                   THEN f[n - 1] \o <<s[n]>>
                                                   ELSE f[n - 1]
           T == {m \in Nat : m <= L => \E f : Good(f, m)}
<1>1. 0 \in T
  <2> DEFINE f == [n \in 0..0 |-> <<>>]
  <2>0. \A n \in 1..0 : FALSE
    OBVIOUS
  <2>1. 0 \in 0..0 /\ 1..0 = {} /\ <<>> \in Seq(Tasks)
    BY <2>0
  <2>2. f \in [0..0 -> Seq(Tasks)] /\ f[0] = <<>>
    BY <2>1
  <2>3. Good(f, 0)
    <3> HIDE DEF f
    <3> QED BY <2>1, <2>2
  <2> QED BY <2>3
<1>2. ASSUME NEW m \in Nat, m \in T PROVE m + 1 \in T
  <2> HIDE DEF Good
  <2> SUFFICES ASSUME m + 1 <= L PROVE \E f : Good(f, m + 1)
    OBVIOUS
  <2> USE DEF Good
  <2>0. L \in Nat /\ m + 1 \in 1..L /\ m <= L
    OBVIOUS
  <2>1. PICK f : Good(f, m)
    BY <1>2, <2>0
  <2> DEFINE g == [n \in 0..(m + 1) |-> IF n = m + 1 THEN f[m] \o Piece(lanes, l, s[m + 1]) ELSE f[n]]
  <2>2. Piece(lanes, l, s[m + 1]) \in Seq(Tasks)
    BY <2>0, PieceType
  <2>3. f[m] \in Seq(Tasks) /\ f[m] \o Piece(lanes, l, s[m + 1]) \in Seq(Tasks) /\ f[m] \o <<>> = f[m]
    BY <2>1, <2>2, ConcatProperties, ConcatEmptySeq
  <2>4. g \in [0..(m + 1) -> Seq(Tasks)] /\ g[0] = <<>>
    BY <2>1, <2>3
  <2>5. ASSUME NEW n \in 1..(m + 1)
        PROVE  g[n] = IF s[n] # None /\ lanes[s[n]] = l
                      THEN g[n - 1] \o <<s[n]>> ELSE g[n - 1]
    <3>1. CASE n = m + 1
      <4>1. g[n] = f[m] \o Piece(lanes, l, s[n]) /\ g[n - 1] = f[m]
        BY <3>1
      <4> HIDE DEF g
      <4> QED BY <2>3, <4>1, <3>1 DEF Piece
    <3>2. CASE n # m + 1
      <4>1. n \in 1..m /\ g[n] = f[n] /\ g[n - 1] = f[n - 1]
        BY <3>2
      <4> HIDE DEF g
      <4> QED BY <2>1, <4>1
    <3> QED BY <3>1, <3>2
  <2>6. Good(g, m + 1)
    <3> HIDE DEF g
    <3> QED BY <2>4, <2>5
  <2> QED BY <2>6
<1>3. L \in Nat /\ L \in T
  <2> HIDE DEF T
  <2> QED BY <1>1, <1>2, Induction
<1>4. PICK f : Good(f, L)
  <2> HIDE DEF L, Good
  <2>1. L <= L
    BY <1>3
  <2> QED BY <1>3, <2>1
<1>5. CountsUp(f, lanes, l, s)
  <2>1. \A n \in 0..L : n # 0 => n \in 1..L
    BY <1>3
  <2> HIDE DEF L
  <2> QED BY <1>4, <2>1 DEF CountsUp, L
<1> QED BY <1>5

\* InLane is the last of the counts.
LEMMA InLaneCount ==
  ASSUME NEW lanes, NEW l, NEW s \in Seq(Item)
  PROVE  \E f : /\ f \in [0..Len(s) -> Seq(Tasks)] /\ f[0] = <<>>
                /\ \A n \in 1..Len(s) : f[n] = f[n - 1] \o Piece(lanes, l, s[n])
                /\ f[Len(s)] = InLane(s, lanes, l)
<1> DEFINE f == CHOOSE g : CountsUp(g, lanes, l, s)
           L == Len(s)
<1>1. CountsUp(f, lanes, l, s)
  BY CountUpExists
<1>2. f[L] = InLane(s, lanes, l)
  BY DEF InLane, CountsUp
<1> HIDE DEF f
<1>3. L \in Nat /\ DOMAIN f = 0..L /\ f[0] = <<>>
  <2>1. L \in Nat
    OBVIOUS
  <2> HIDE DEF L
  <2>2. f = [n \in 0..L |->
         IF n = 0 THEN <<>>
         ELSE IF s[n] # None /\ lanes[s[n]] = l
              THEN f[n - 1] \o <<s[n]>>
              ELSE f[n - 1]]
    BY <1>1 DEF CountsUp, L
  <2>3. 0 \in 0..L
    BY <2>1
  <2> QED BY <2>1, <2>2, <2>3
<1>4. \A n \in 1..L : f[n] = IF s[n] # None /\ lanes[s[n]] = l
              THEN f[n - 1] \o <<s[n]>>
              ELSE f[n - 1]
  <2> HIDE DEF L
  <2>2. f = [n \in 0..L |->
         IF n = 0 THEN <<>>
         ELSE IF s[n] # None /\ lanes[s[n]] = l
              THEN f[n - 1] \o <<s[n]>>
              ELSE f[n - 1]]
    BY <1>1 DEF CountsUp, L
  <2>3. \A n \in 1..L : n \in 0..L /\ n # 0
    BY <1>3
  <2> QED BY <2>2, <2>3
<1> DEFINE T == {n \in Nat : n <= L => f[n] \in Seq(Tasks)}
<1>5. ASSUME NEW n \in Nat, n \in T PROVE n + 1 \in T
  <2> SUFFICES ASSUME n + 1 <= L PROVE f[n + 1] \in Seq(Tasks)
    OBVIOUS
  <2>1. n + 1 \in 1..L /\ (n + 1) - 1 = n /\ f[n] \in Seq(Tasks)
    BY <1>3, <1>5
  <2>2. Piece(lanes, l, s[n + 1]) \in Seq(Tasks)
    BY <2>1, PieceType
  <2>3. f[n + 1] = IF s[n + 1] # None /\ lanes[s[n + 1]] = l
              THEN f[n] \o <<s[n + 1]>>
              ELSE f[n]
    BY <1>4, <2>1
  <2> QED BY <2>1, <2>2, <2>3, ConcatProperties DEF Piece
<1>6. 0 \in T
  BY <1>3
<1>7. Nat \subseteq T
  <2> HIDE DEF T
  <2> QED BY <1>5, <1>6, Induction
<1>8. \A n \in 0..L : f[n] \in Seq(Tasks)
  BY <1>3, <1>7
<1>9. \A n \in 1..L : f[n] = f[n - 1] \o Piece(lanes, l, s[n])
  <2> TAKE n \in 1..L
  <2>1. f[n - 1] \in Seq(Tasks)
    BY <1>3, <1>8
  <2>2. f[n - 1] \o <<>> = f[n - 1]
    BY <2>1, ConcatEmptySeq
  <2> QED BY <1>4, <2>2 DEF Piece
<1>10. f \in [0..L -> Seq(Tasks)]
  <2>1. f = [n \in 0..L |-> f[n]]
    <3>1. f = [n \in 0..L |->
         IF n = 0 THEN <<>>
         ELSE IF s[n] # None /\ lanes[s[n]] = l
              THEN f[n - 1] \o <<s[n]>>
              ELSE f[n - 1]]
      BY <1>1 DEF CountsUp
    <3> QED BY <3>1
  <2> QED BY <1>8, <2>1
<1> QED BY <1>2, <1>3, <1>9, <1>10
LEMMA InLaneType ==
  ASSUME NEW lanes, NEW l, NEW s \in Seq(Item)
  PROVE  InLane(s, lanes, l) \in Seq(Tasks)
<1>1. Len(s) \in Nat /\ Len(s) \in 0..Len(s)
  OBVIOUS
<1> DEFINE L == Len(s)
<1>2. PICK f : f \in [0..L -> Seq(Tasks)] /\ f[L] = InLane(s, lanes, l)
  BY InLaneCount
<1> HIDE DEF L
<1> QED BY <1>1, <1>2 DEF L

LEMMA SeqAssociative ==
  \A x, y, z \in Seq(Tasks) : (x \o y) \o z = x \o (y \o z)
BY ConcatAssociative

LEMMA InLaneConcat ==
  ASSUME NEW lanes, NEW l, NEW s \in Seq(Item), NEW t \in Seq(Item)
  PROVE  InLane(s \o t, lanes, l) = InLane(s, lanes, l) \o InLane(t, lanes, l)
<1> DEFINE a == Len(s)
           b == Len(t)
           u == s \o t
<1>1. /\ u \in Seq(Item) /\ a \in Nat /\ b \in Nat /\ Len(u) = a + b
      /\ \A i \in 1..a : u[i] = s[i]
      /\ \A i \in 1..b : u[a + i] = t[i]
  <2>1. u \in Seq(Item) /\ a \in Nat /\ b \in Nat /\ Len(u) = a + b
        /\ \A i \in 1..(a + b) : u[i] = IF i <= a THEN s[i] ELSE t[i - a]
    BY ConcatProperties
  <2> HIDE DEF a, b, u
  <2>2. \A i \in 1..a : i \in 1..(a + b) /\ i <= a
    BY <2>1
  <2>3. \A i \in 1..b : a + i \in 1..(a + b) /\ ~(a + i <= a) /\ (a + i) - a = i
    BY <2>1
  <2> QED BY <2>1, <2>2, <2>3
<1>2. PICK f : /\ f \in [0..a -> Seq(Tasks)] /\ f[0] = <<>>
               /\ \A n \in 1..a : f[n] = f[n - 1] \o Piece(lanes, l, s[n])
               /\ f[a] = InLane(s, lanes, l)
  BY InLaneCount
<1>3. PICK g : /\ g \in [0..b -> Seq(Tasks)] /\ g[0] = <<>>
               /\ \A n \in 1..b : g[n] = g[n - 1] \o Piece(lanes, l, t[n])
               /\ g[b] = InLane(t, lanes, l)
  BY InLaneCount
<1>4. PICK h : /\ h \in [0..(a + b) -> Seq(Tasks)] /\ h[0] = <<>>
               /\ \A n \in 1..(a + b) : h[n] = h[n - 1] \o Piece(lanes, l, u[n])
               /\ h[a + b] = InLane(u, lanes, l)
  <2> HIDE DEF u
  <2>1. PICK h : /\ h \in [0..Len(u) -> Seq(Tasks)] /\ h[0] = <<>>
                 /\ \A n \in 1..Len(u) : h[n] = h[n - 1] \o Piece(lanes, l, u[n])
                 /\ h[Len(u)] = InLane(u, lanes, l)
    BY <1>1, InLaneCount
  <2> HIDE DEF a, b
  <2> QED BY <1>1, <2>1
<1>5. \A n \in 1..b : t[n] \in Item
  OBVIOUS
<1> HIDE DEF a, b, u
<1>6. h[a] = f[a]
  <2> DEFINE T == {n \in Nat : n <= a => h[n] = f[n]}
  <2>1. 0 \in T
    BY <1>2, <1>4
  <2>2. ASSUME NEW n \in Nat, n \in T PROVE n + 1 \in T
    <3> SUFFICES ASSUME n + 1 <= a PROVE h[n + 1] = f[n + 1]
      OBVIOUS
    <3>1. n + 1 \in 1..a /\ n + 1 \in 1..(a + b) /\ (n + 1) - 1 = n /\ h[n] = f[n]
      BY <1>1, <2>2
    <3>2. h[n + 1] = h[n] \o Piece(lanes, l, s[n + 1])
      BY <1>1, <1>4, <3>1
    <3>3. f[n + 1] = f[n] \o Piece(lanes, l, s[n + 1])
      BY <1>2, <3>1
    <3> QED BY <3>1, <3>2, <3>3
  <2>3. Nat \subseteq T
    <3> HIDE DEF T
    <3> QED BY <2>1, <2>2, Induction
  <2> QED BY <1>1, <2>3
<1>7. f[a] \in Seq(Tasks)
  BY <1>1, <1>2
<1>8. h[a + b] = f[a] \o g[b]
  <2> DEFINE P(n) == h[a + n] = f[a] \o g[n]
             T == {n \in Nat : n <= b => P(n)}
  <2>1. 0 \in T
    <3>1. a + 0 = a /\ f[a] \o <<>> = f[a]
      BY <1>1, <1>7, ConcatEmptySeq
    <3> QED BY <1>3, <1>6, <3>1
  <2>2. ASSUME NEW n \in Nat, n \in T PROVE n + 1 \in T
    <3> HIDE DEF P
    <3> SUFFICES ASSUME n + 1 <= b PROVE P(n + 1)
      OBVIOUS
    <3>0. n <= b
      BY <1>1
    <3>6. P(n)
      BY <2>2, <3>0
    <3>1. /\ n + 1 \in 1..b /\ a + (n + 1) \in 1..(a + b) /\ (n + 1) - 1 = n
          /\ (a + (n + 1)) - 1 = a + n /\ n \in 0..b
      BY <1>1
    <3>8. h[a + n] = f[a] \o g[n]
      BY <3>6 DEF P
    <3> DEFINE p == Piece(lanes, l, t[n + 1])
    <3>7. f[a] \in Seq(Tasks)
      BY <1>7
    <3>2. p \in Seq(Tasks) /\ g[n] \in Seq(Tasks)
      BY <1>3, <1>5, <3>1, PieceType
    <3>3. h[a + (n + 1)] = h[a + n] \o p
      BY <1>1, <1>4, <3>1
    <3>4. g[n + 1] = g[n] \o p
      BY <1>3, <3>1
    <3> HIDE DEF p
    <3>5. (f[a] \o g[n]) \o p = f[a] \o (g[n] \o p)
      BY <3>2, <3>7, SeqAssociative
    <3> QED BY <3>1, <3>3, <3>4, <3>5, <3>8 DEF P
  <2>3. Nat \subseteq T
    <3> HIDE DEF T
    <3> QED BY <2>1, <2>2, Induction
  <2> HIDE DEF P
  <2>4. P(b)
    BY <1>1, <2>3
  <2> QED BY <2>4 DEF P
<1> QED BY <1>2, <1>3, <1>4, <1>8 DEF u

LEMMA InLaneOne ==
  ASSUME NEW lanes, NEW l, NEW d \in Item
  PROVE  InLane(<<d>>, lanes, l) = Piece(lanes, l, d)
<1>1. <<d>> \in Seq(Item) /\ Len(<<d>>) = 1 /\ <<d>>[1] = d
  OBVIOUS
<1>2. PICK f : /\ f[0] = <<>>
               /\ \A n \in 1..1 : f[n] = f[n - 1] \o Piece(lanes, l, <<d>>[n])
               /\ f[1] = InLane(<<d>>, lanes, l)
  BY <1>1, InLaneCount
<1>3. 1 \in 1..1 /\ 1 - 1 = 0
  OBVIOUS
<1>4. f[1] = <<>> \o Piece(lanes, l, d)
  BY <1>1, <1>2, <1>3
<1> QED BY <1>2, <1>4, PieceType, ConcatEmptySeq

LEMMA InLaneNone ==
  ASSUME NEW lanes, NEW l, NEW s \in Seq(Item),
         \A i \in DOMAIN s : Piece(lanes, l, s[i]) = <<>>
  PROVE  InLane(s, lanes, l) = <<>>
<1> DEFINE L == Len(s)
<1>1. L \in Nat /\ DOMAIN s = 1..L
  OBVIOUS
<1>2. PICK f : /\ f \in [0..L -> Seq(Tasks)] /\ f[0] = <<>>
               /\ \A n \in 1..L : f[n] = f[n - 1] \o Piece(lanes, l, s[n])
               /\ f[L] = InLane(s, lanes, l)
  BY InLaneCount
<1> HIDE DEF L
<1> DEFINE T == {n \in Nat : n <= L => f[n] = <<>>}
<1>3. 0 \in T
  BY <1>2
<1>4. ASSUME NEW n \in Nat, n \in T PROVE n + 1 \in T
  <2> SUFFICES ASSUME n + 1 <= L PROVE f[n + 1] = <<>>
    OBVIOUS
  <2>1. n + 1 \in 1..L /\ (n + 1) - 1 = n /\ f[n] = <<>>
    BY <1>1, <1>4
  <2>2. f[n + 1] = <<>> \o <<>>
    BY <1>1, <1>2, <2>1
  <2>3. <<>> \o <<>> = <<>>
    OBVIOUS
  <2> QED BY <2>2, <2>3
<1>5. Nat \subseteq T
  <2> HIDE DEF T
  <2> QED BY <1>3, <1>4, Induction
<1> QED BY <1>1, <1>2, <1>5

\* What the first item adds comes first.
LEMMA InLaneHead ==
  ASSUME NEW lanes, NEW l, NEW s \in Seq(Item), s # <<>>
  PROVE  InLane(s, lanes, l) = Piece(lanes, l, Head(s)) \o InLane(Tail(s), lanes, l)
<1>1. Head(s) \in Item /\ Tail(s) \in Seq(Item) /\ <<Head(s)>> \in Seq(Item)
  OBVIOUS
<1>2. s = <<Head(s)>> \o Tail(s)
  OBVIOUS
<1>3. InLane(<<Head(s)>> \o Tail(s), lanes, l) = InLane(<<Head(s)>>, lanes, l) \o InLane(Tail(s), lanes, l)
  BY <1>1, InLaneConcat
<1> QED BY <1>1, <1>2, <1>3, InLaneOne

\* Two sequences of the same length whose items in the lane are at the same places.
LEMMA InLaneSame ==
  ASSUME NEW lanes, NEW l, NEW s \in Seq(Item), NEW t \in Seq(Item), Len(s) = Len(t),
         \A i \in DOMAIN s : Piece(lanes, l, s[i]) = Piece(lanes, l, t[i])
  PROVE  InLane(s, lanes, l) = InLane(t, lanes, l)
<1> DEFINE L == Len(s)
<1>1. L \in Nat /\ DOMAIN s = 1..L
  OBVIOUS
<1>2. PICK f : /\ f[0] = <<>>
               /\ \A n \in 1..L : f[n] = f[n - 1] \o Piece(lanes, l, s[n])
               /\ f[L] = InLane(s, lanes, l)
  BY InLaneCount
<1>3. PICK g : /\ g[0] = <<>>
               /\ \A n \in 1..L : g[n] = g[n - 1] \o Piece(lanes, l, t[n])
               /\ g[L] = InLane(t, lanes, l)
  <2>1. PICK g : /\ g[0] = <<>>
                 /\ \A n \in 1..Len(t) : g[n] = g[n - 1] \o Piece(lanes, l, t[n])
                 /\ g[Len(t)] = InLane(t, lanes, l)
    BY InLaneCount
  <2> QED BY <2>1
<1> HIDE DEF L
<1> DEFINE T == {n \in Nat : n <= L => f[n] = g[n]}
<1>4. 0 \in T
  BY <1>2, <1>3
<1>5. ASSUME NEW n \in Nat, n \in T PROVE n + 1 \in T
  <2> SUFFICES ASSUME n + 1 <= L PROVE f[n + 1] = g[n + 1]
    OBVIOUS
  <2>1. n + 1 \in 1..L /\ (n + 1) - 1 = n /\ f[n] = g[n]
    BY <1>1, <1>5
  <2>2. f[n + 1] = f[n] \o Piece(lanes, l, s[n + 1])
    BY <1>2, <2>1
  <2>3. g[n + 1] = g[n] \o Piece(lanes, l, t[n + 1])
    BY <1>3, <2>1
  <2> QED BY <1>1, <2>1, <2>2, <2>3
<1>6. Nat \subseteq T
  <2> HIDE DEF T
  <2> QED BY <1>4, <1>5, Induction
<1> QED BY <1>1, <1>2, <1>3, <1>6

\* One item of the sequence is in the lane.
LEMMA InLaneSole ==
  ASSUME NEW lanes, NEW l, NEW s \in Seq(Item), NEW k \in DOMAIN s,
         \A i \in DOMAIN s \ {k} : Piece(lanes, l, s[i]) = <<>>
  PROVE  InLane(s, lanes, l) = Piece(lanes, l, s[k])
<1> DEFINE L == Len(s)
           p == Piece(lanes, l, s[k])
<1>1. L \in Nat /\ DOMAIN s = 1..L /\ k \in 1..L
  OBVIOUS
<1>2. PICK f : /\ f[0] = <<>>
               /\ \A n \in 1..L : f[n] = f[n - 1] \o Piece(lanes, l, s[n])
               /\ f[L] = InLane(s, lanes, l)
  BY InLaneCount
<1>0. p \in Seq(Tasks)
  BY <1>1, PieceType
<1>7. <<>> \o p = p /\ p \o <<>> = p /\ <<>> \o <<>> = <<>>
  <2> HIDE DEF p
  <2> QED BY <1>0, ConcatEmptySeq
<1> HIDE DEF L, p
<1> DEFINE T == {n \in Nat : n <= L => f[n] = IF n < k THEN <<>> ELSE p}
<1>4. 0 \in T
  BY <1>1, <1>2
<1>5. ASSUME NEW n \in Nat, n \in T PROVE n + 1 \in T
  <2> SUFFICES ASSUME n + 1 <= L PROVE f[n + 1] = IF n + 1 < k THEN <<>> ELSE p
    OBVIOUS
  <2>1. n + 1 \in 1..L /\ (n + 1) - 1 = n /\ f[n] = IF n < k THEN <<>> ELSE p
    BY <1>1, <1>5
  <2>2. f[n + 1] = f[n] \o Piece(lanes, l, s[n + 1])
    BY <1>2, <2>1
  <2>3. CASE n + 1 = k
    <3>1. f[n] = <<>> /\ Piece(lanes, l, s[n + 1]) = p
      BY <2>1, <2>3 DEF p
    <3> QED BY <1>7, <2>2, <2>3, <3>1
  <2>4. CASE n + 1 # k
    <3>1. Piece(lanes, l, s[n + 1]) = <<>> /\ (n + 1 < k <=> n < k)
      BY <1>1, <2>1, <2>4
    <3> QED BY <1>7, <2>1, <2>2, <3>1
  <2> QED BY <2>3, <2>4
<1>6. Nat \subseteq T
  <2> HIDE DEF T
  <2> QED BY <1>4, <1>5, Induction
<1> QED BY <1>1, <1>2, <1>6 DEF p

-----------------------------------------------------------------------------
(* Where a task may be. *)

QueueFor(t) == QueueOfLane(LaneOf[t])

\* What is queued, in hand or done was accepted; a thread has a task while it
\* processes it.
Placed ==
  /\ \A q \in Workers : \A i \in DOMAIN tasks[q] :
       tasks[q][i] \in accepted /\ QueueFor(tasks[q][i]) = q
  /\ \A w \in Workers : cur[w] # None => cur[w] \in accepted /\ pc[w] = "process"
  /\ \A i \in DOMAIN done_tasks : done_tasks[i] \in accepted
  /\ \A i \in DOMAIN handling : handling[i] \in accepted
  /\ answered \subseteq accepted

\* A queue of its own for each thread, or nothing taken twice from the one of all.
Apart ==
  IF mgr = "async"
  THEN /\ \A i, j \in DOMAIN tasks[0] : tasks[0][i] = tasks[0][j] => i = j
       /\ \A w \in Workers : \A i \in DOMAIN tasks[0] : cur[w] # tasks[0][i]
       /\ \A v, w \in Workers : cur[v] = cur[w] /\ cur[w] # None => v = w
  ELSE \A w \in Workers : cur[w] # None => QueueFor(cur[w]) = w

\* A manager that has stopped has no threads, and has nothing to answer.
Stopped ==
  /\ handling # <<>> => is_running
  /\ stop = None /\ ~is_running => done_tasks = <<>> /\ \A w \in Workers : pc[w] = "none"
  /\ stop # None =>
       /\ ~is_running
       /\ mgr = "async" => tasks[0] = <<>>
       /\ stop.at # "tell" => \A v \in Workers : v < stop.thread => pc[v] = "ended"

LanesInv == Placed /\ Apart /\ Stopped

LEMMA LaneFacts ==
  ASSUME Types, NEW t \in Tasks
  PROVE  /\ LaneOf[t] \in Lanes /\ QueueFor(t) \in Workers
         /\ mgr = "async" => LaneOf[t] = t /\ QueueFor(t) = 0
         /\ mgr # "async" => LaneOf[t] = HashCode[t] /\ QueueFor(t) = HashCode[t] % ThreadNum
BY HashAssumption, LaneTypes, WorkerTypes DEF LaneOf, Lanes, QueueFor, QueueOfLane

\* Lanes are those of the kind of manager, which does not change.
LEMMA LanesStay ==
  ASSUME UNCHANGED mgr
  PROVE  UNCHANGED LaneOf /\ (\A l : QueueOfLane(l)' = QueueOfLane(l)) /\ \A t : QueueFor(t)' = QueueFor(t)
<1>1. UNCHANGED LaneOf /\ \A l : QueueOfLane(l)' = QueueOfLane(l)
  BY DEF LaneOf, QueueOfLane
<1> QED BY <1>1 DEF QueueFor

LEMMA InitLanes == Init => LanesInv
<1> SUFFICES ASSUME Init PROVE LanesInv
  OBVIOUS
<1>1. \A w \in Workers : tasks[w] = <<>> /\ cur[w] = None /\ pc[w] = "none"
  BY DEF Init
<1>2. DOMAIN <<>> = {}
  OBVIOUS
<1>3. Placed
  BY <1>1, <1>2 DEF Init, Placed
<1>4. Apart
  BY <1>1, <1>2, WorkerTypes DEF Init, Apart
<1>5. Stopped
  BY <1>1 DEF Init, Stopped
<1> QED BY <1>3, <1>4, <1>5 DEF LanesInv

LEMMA KindStays == [Next]_vars => UNCHANGED mgr
<1> USE DEF lifeVars
<1>1. Start => UNCHANGED mgr
  BY DEF Start, AsyncStart, MongoStart, RedisStart, Launch
<1>2. Stop => UNCHANGED mgr
  BY DEF Stop, AsyncStop, MongoStop, RedisStop
<1>3. StopStep => UNCHANGED mgr
  BY DEF StopStep, AsyncTell, AsyncNotify, MongoNotify, RedisNotify, AsyncJoined, MongoJoined,
         RedisJoined, Joined, AllJoined
<1>4. \A t \in Tasks : AddTask(t) => UNCHANGED mgr
  BY DEF AddTask, AsyncAddTask, TaskActionBody, ExecuteCmd, Push
<1>5. OnFrame \/ HandleResult \/ UNCHANGED vars => UNCHANGED mgr
  BY DEF OnFrame, HandleResult, vars
<1>6. \A w \in Workers : ThreadLoop(w) \/ WakeUp(w) => UNCHANGED mgr
  BY DEF ThreadLoop, WakeUp, AsyncLoop, MongoLoop, RedisLoop, SetupCtx, TakeTask, AsyncTaskDone,
         MongoTaskDone, RedisTaskDone, TaskDone, Idle, Wait
<1> QED BY <1>1, <1>2, <1>3, <1>4, <1>5, <1>6 DEF Next

-----------------------------------------------------------------------------
(* The steps of the threads. *)

\* A thread without a task that goes on in its loop.
LEMMA MoveLanes ==
  ASSUME Types, LanesInv, NEW w \in Workers, NEW where, Goto(w, where),
         pc[w] \notin {"process", "none", "ended"},
         UNCHANGED <<mgr, is_running, stop, tasks, done_tasks, handling, cur, accepted, answered>>
  PROVE  LanesInv'
<1>1. \A v \in Workers : pc'[v] = IF v = w THEN where ELSE pc[v]
  BY DEF Goto, Types, TypeOK
<1>2. \A t : QueueFor(t)' = QueueFor(t)
  BY LanesStay
<1>3. Placed'
  BY <1>1, <1>2 DEF LanesInv, Placed
<1>4. Apart'
  BY <1>2 DEF LanesInv, Apart
<1>5. Stopped'
  BY <1>1 DEF LanesInv, Stopped
<1> QED BY <1>3, <1>4, <1>5 DEF LanesInv

\* What a thread takes is the first of its queue, and no other has a task of its lane.
LEMMA Taken ==
  ASSUME Types, LanesInv, NEW w \in Workers, TakeTask(w), tasks[QueueOf(w)] # <<>>
  PROVE  LET q == QueueOf(w)
             t == Head(tasks[q])
         IN /\ q \in Workers /\ t \in Tasks /\ t \in accepted /\ QueueFor(t) = q
            /\ tasks[q] \in Seq(Tasks)
            /\ 1 \in DOMAIN tasks[q] /\ t = tasks[q][1]
            /\ cur[w] = None /\ cur' = [cur EXCEPT ![w] = t]
            /\ tasks' = [tasks EXCEPT ![q] = Tail(@)]
            /\ \A v \in Workers : cur[v] # None => LaneOf[cur[v]] # LaneOf[t]
<1> DEFINE q == QueueOf(w)
           t == Head(tasks[q])
<1>1. q \in Workers
  BY WorkerTypes DEF QueueOf
<1>2. tasks[q] \in Seq(Tasks)
  BY <1>1 DEF Types, TypeOK
<1>3. 1 \in DOMAIN tasks[q] /\ t = tasks[q][1] /\ t \in Tasks
  BY <1>2
<1>4. t \in accepted /\ QueueFor(t) = q
  BY <1>1, <1>3 DEF LanesInv, Placed
<1>5. cur[w] = None
  BY DEF TakeTask, LanesInv, Placed
<1>6. cur' = [cur EXCEPT ![w] = t] /\ tasks' = [tasks EXCEPT ![q] = Tail(@)]
  BY DEF TakeTask
<1> HIDE DEF t
<1>7. ASSUME NEW v \in Workers, cur[v] # None PROVE LaneOf[cur[v]] # LaneOf[t]
  <2>1. cur[v] \in Tasks
    BY <1>7 DEF Types, TypeOK
  <2>2. CASE mgr = "async"
    <3>1. q = 0
      BY <2>2 DEF QueueOf
    <3>2. cur[v] # t
      BY <1>3, <2>2, <3>1 DEF LanesInv, Apart
    <3> QED BY <1>3, <2>1, <2>2, <3>2, LaneFacts
  <2>3. CASE mgr # "async"
    <3>1. QueueFor(cur[v]) = v
      BY <1>7, <2>3 DEF LanesInv, Apart
    <3>2. q = w
      BY <2>3 DEF QueueOf
    <3>3. v # w
      BY <1>5, <1>7
    <3> QED BY <1>4, <3>1, <3>2, <3>3 DEF QueueFor
  <2> QED BY <2>2, <2>3
<1> QED BY <1>1, <1>2, <1>3, <1>4, <1>5, <1>6, <1>7 DEF t

LEMMA TakeLanes ==
  ASSUME Types, LanesInv, NEW w \in Workers, TakeTask(w)
  PROVE  LanesInv'
<1>1. CASE tasks[QueueOf(w)] = <<>>
  BY <1>1, MoveLanes DEF TakeTask, lifeVars
<1>2. CASE tasks[QueueOf(w)] # <<>>
  <2> DEFINE q == QueueOf(w)
             t == Head(tasks[q])
  <2>1. /\ q \in Workers /\ t \in Tasks /\ t \in accepted /\ QueueFor(t) = q
        /\ tasks[q] \in Seq(Tasks)
        /\ 1 \in DOMAIN tasks[q] /\ t = tasks[q][1]
        /\ cur[w] = None /\ cur' = [cur EXCEPT ![w] = t]
        /\ tasks' = [tasks EXCEPT ![q] = Tail(@)]
    BY <1>2, Taken
  <2>2. /\ \A i \in DOMAIN Tail(tasks[q]) :
             /\ i + 1 \in DOMAIN tasks[q] /\ i + 1 # 1
             /\ Tail(tasks[q])[i] = tasks[q][i + 1]
        /\ \A i, j \in DOMAIN Tail(tasks[q]) : i + 1 = j + 1 => i = j
    <3>1. tasks[q] # <<>>
      BY <1>2
    <3> QED BY <2>1, <3>1
  <2>3. UNCHANGED <<mgr, is_running, stop, done_tasks, handling, accepted, answered>>
    BY DEF TakeTask, lifeVars
  <2>4. \A v \in Workers : pc'[v] = IF v = w THEN "process" ELSE pc[v]
    BY <1>2 DEF TakeTask, Goto, Types, TypeOK
  <2>10. pc[w] = "take"
    BY DEF TakeTask
  <2>5. /\ \A v \in Workers : cur'[v] = IF v = w THEN t ELSE cur[v]
        /\ \A p \in Workers : tasks'[p] = IF p = q THEN Tail(tasks[q]) ELSE tasks[p]
    BY <2>1 DEF Types, TypeOK
  <2>6. \A x : QueueFor(x)' = QueueFor(x)
    BY <2>3, LanesStay
  <2>11. mgr = "async" => q = 0
    BY DEF QueueOf
  <2>12. mgr # "async" => q = w
    BY DEF QueueOf
  <2>13. /\ \A i \in DOMAIN tasks'[q] :
             /\ i + 1 \in DOMAIN tasks[q] /\ i + 1 # 1
             /\ tasks'[q][i] = tasks[q][i + 1]
         /\ \A i, j \in DOMAIN tasks'[q] : i + 1 = j + 1 => i = j
    BY <2>1, <2>2, <2>5
  <2> HIDE DEF q, t
  <2>7. Placed'
    <3>1. \A p \in Workers : \A i \in DOMAIN tasks'[p] :
            tasks'[p][i] \in accepted /\ QueueFor(tasks'[p][i]) = p
      <4>1. \A i \in DOMAIN tasks'[q] : tasks'[q][i] \in accepted /\ QueueFor(tasks'[q][i]) = q
        BY <2>1, <2>13 DEF LanesInv, Placed
      <4> QED BY <2>5, <4>1 DEF LanesInv, Placed
    <3>2. \A v \in Workers : cur'[v] # None => cur'[v] \in accepted /\ pc'[v] = "process"
      BY <2>1, <2>4, <2>5 DEF LanesInv, Placed
    <3> QED BY <2>3, <2>6, <3>1, <3>2 DEF LanesInv, Placed
  <2>8. Apart'
    <3>1. CASE mgr = "async"
      <4> USE <2>11, <3>1
      <4>1. \A i, j \in DOMAIN tasks'[0] : tasks'[0][i] = tasks'[0][j] => i = j
        BY <2>13 DEF LanesInv, Apart
      <4>2. \A v \in Workers : \A i \in DOMAIN tasks'[0] : cur'[v] # tasks'[0][i]
        BY <2>1, <2>5, <2>13 DEF LanesInv, Apart
      <4>3. \A u, v \in Workers : cur'[u] = cur'[v] /\ cur'[v] # None => u = v
        BY <2>1, <2>5 DEF LanesInv, Apart
      <4> QED BY <2>3, <4>1, <4>2, <4>3 DEF Apart
    <3>2. CASE mgr # "async"
      <4>1. \A v \in Workers : cur'[v] # None => QueueFor(cur'[v]) = v
        BY <2>1, <2>5, <2>12, <3>2 DEF LanesInv, Apart
      <4> QED BY <2>3, <2>6, <3>2, <4>1 DEF Apart
    <3> QED BY <3>1, <3>2
  <2>9. Stopped'
    <3>1. handling # <<>> => is_running
      BY DEF LanesInv, Stopped
    <3>2. ~(stop = None /\ ~is_running)
      BY <2>10 DEF LanesInv, Stopped
    <3>3. ASSUME stop # None, mgr = "async" PROVE FALSE
      BY <1>2, <2>11, <3>3 DEF LanesInv, Stopped, q
    <3>4. ASSUME stop # None PROVE ~is_running /\ (stop.at # "tell" => \A v \in Workers : v < stop.thread => pc'[v] = "ended")
      <4>1. \A v \in Workers : pc[v] = "ended" => pc'[v] = "ended"
        BY <2>4, <2>10
      <4> QED BY <3>4, <4>1 DEF LanesInv, Stopped
    <3> QED BY <2>3, <3>1, <3>2, <3>3, <3>4 DEF Stopped
  <2> QED BY <2>7, <2>8, <2>9 DEF LanesInv
<1> QED BY <1>1, <1>2

LEMMA DoneLanes ==
  ASSUME Types, LanesInv, NEW w \in Workers, TaskDone(w)
  PROVE  LanesInv'
<1>1. UNCHANGED <<mgr, is_running, stop, tasks, handling, accepted, answered>>
  BY DEF TaskDone, lifeVars, historyVars
<1>2. cur[w] \in Tasks /\ cur[w] # None /\ done_tasks \in Seq(Tasks) /\ pc[w] = "process"
  BY NoneAssumption DEF TaskDone, Types, TypeOK
<1>3. /\ \A v \in Workers : cur'[v] = IF v = w THEN None ELSE cur[v]
      /\ \A v \in Workers : pc'[v] = IF v = w THEN "loop" ELSE pc[v]
  BY DEF TaskDone, Goto, Types, TypeOK
<1>4. \A x : QueueFor(x)' = QueueFor(x)
  BY <1>1, LanesStay
<1>5. \A i \in DOMAIN done_tasks' : done_tasks'[i] \in accepted
  <2>1. done_tasks' = Append(done_tasks, cur[w])
    BY DEF TaskDone
  <2>2. PICK s \in Seq(Tasks) : s = done_tasks
    BY <1>2
  <2>3. \A i \in DOMAIN Append(s, cur[w]) : i \in DOMAIN s \/ Append(s, cur[w])[i] = cur[w]
    OBVIOUS
  <2>4. \A i \in DOMAIN s : Append(s, cur[w])[i] = s[i]
    OBVIOUS
  <2>5. cur[w] \in accepted
    BY <1>2 DEF LanesInv, Placed
  <2> QED BY <2>1, <2>2, <2>3, <2>4, <2>5 DEF LanesInv, Placed
<1>6. Placed'
  BY <1>1, <1>3, <1>4, <1>5 DEF LanesInv, Placed
<1>7. Apart'
  <2>1. CASE mgr = "async"
    <3>0. tasks[0] \in Seq(Tasks)
      BY WorkerTypes DEF Types, TypeOK
    <3>1. \A i \in DOMAIN tasks[0] : None # tasks[0][i]
      BY <3>0, NoneAssumption
    <3>2. \A i, j \in DOMAIN tasks[0] : tasks[0][i] = tasks[0][j] => i = j
      BY <2>1 DEF LanesInv, Apart
    <3>3. \A v \in Workers : \A i \in DOMAIN tasks[0] : cur'[v] # tasks[0][i]
      BY <1>3, <2>1, <3>1 DEF LanesInv, Apart
    <3>4. \A u, v \in Workers : cur'[u] = cur'[v] /\ cur'[v] # None => u = v
      BY <1>3, <2>1 DEF LanesInv, Apart
    <3> QED BY <1>1, <2>1, <3>2, <3>3, <3>4 DEF Apart
  <2>2. CASE mgr # "async"
    BY <1>1, <1>3, <1>4, <2>2 DEF LanesInv, Apart
  <2> QED BY <2>1, <2>2
<1>8. Stopped'
  <2>1. ~(stop = None /\ ~is_running)
    BY <1>2 DEF LanesInv, Stopped
  <2>2. \A v \in Workers : pc[v] = "ended" => pc'[v] = "ended"
    BY <1>2, <1>3
  <2> QED BY <1>1, <2>1, <2>2 DEF LanesInv, Stopped
<1> QED BY <1>6, <1>7, <1>8 DEF LanesInv

LEMMA ThreadLanes ==
  ASSUME Types, LanesInv, NEW w \in Workers, ThreadLoop(w) \/ WakeUp(w)
  PROVE  LanesInv'
<1> USE DEF lifeVars, historyVars
<1>1. CASE AsyncLoop(w)
  BY <1>1, MoveLanes DEF AsyncLoop
<1>2. CASE MongoLoop(w)
  BY <1>2, MoveLanes DEF MongoLoop
<1>3. CASE RedisLoop(w)
  BY <1>3, MoveLanes DEF RedisLoop
<1>4. CASE SetupCtx(w)
  BY <1>4, MoveLanes DEF SetupCtx
<1>5. CASE TakeTask(w)
  BY <1>5, TakeLanes
<1>6. CASE AsyncTaskDone(w) \/ MongoTaskDone(w) \/ RedisTaskDone(w)
  BY <1>6, DoneLanes DEF AsyncTaskDone, MongoTaskDone, RedisTaskDone
<1>7. CASE Idle(w)
  BY <1>7, MoveLanes DEF Idle
<1>8. CASE Wait(w) \/ WakeUp(w)
  BY <1>8, MoveLanes DEF Wait, WakeUp
<1> QED BY <1>1, <1>2, <1>3, <1>4, <1>5, <1>6, <1>7, <1>8 DEF ThreadLoop

-----------------------------------------------------------------------------
(* The steps of the main thread. *)

LEMMA StartLanes ==
  ASSUME Types, LanesInv, Start
  PROVE  LanesInv'
<1>1. stop = None /\ ~is_running
  BY DEF Start, AsyncStart, MongoStart, RedisStart
<1>2. UNCHANGED <<mgr, tasks, done_tasks, handling, cur, stop, accepted, answered>>
  BY DEF Start, AsyncStart, MongoStart, RedisStart, Launch, historyVars
<1>3. /\ \A w \in Workers : pc[w] = "none" /\ cur[w] = None
      /\ done_tasks = <<>> /\ handling = <<>>
  BY <1>1 DEF LanesInv, Stopped, Placed
<1>4. \A t : QueueFor(t)' = QueueFor(t)
  BY <1>2, LanesStay
<1>5. Placed' /\ Apart'
  BY <1>2, <1>3, <1>4 DEF LanesInv, Placed, Apart
<1>6. Stopped'
  <2>1. CASE Launch
    BY <1>1, <1>2, <1>3, <2>1 DEF Stopped, Launch
  <2>2. CASE ~Launch
    BY <1>1, <1>2, <2>2 DEF Start, AsyncStart, MongoStart, RedisStart, LanesInv, Stopped
  <2> QED BY <2>1, <2>2
<1> QED BY <1>5, <1>6 DEF LanesInv

\* A push is one to the queue of the task's lane.
LEMMA Added ==
  ASSUME Types, NEW t \in Tasks, AddTask(t)
  PROVE  stop = None /\ t \notin accepted /\ QueueFor(t) \in Workers /\ Push(t, QueueFor(t))
<1>1. CASE AsyncAddTask(t)
  BY <1>1, LaneFacts DEF AsyncAddTask
<1>2. CASE TaskActionBody(t) \/ ExecuteCmd(t)
  <2>1. thread_num = ThreadNum /\ mgr # "async"
    BY <1>2 DEF TaskActionBody, ExecuteCmd, Types, TypeOK
  <2> QED BY <1>2, <2>1, LaneFacts DEF TaskActionBody, ExecuteCmd
<1> QED BY <1>1, <1>2 DEF AddTask

LEMMA WakeStays ==
  ASSUME NEW q, NotifyOne(q) \/ NotifyAll(q)
  PROVE  \A w \in Workers : pc'[w] = pc[w] \/ (pc[w] = "waiting" /\ pc'[w] = "loop")
<1>1. PICK S \in SUBSET Waiting(q) : Wake(S)
  BY NotifyWakes
<1> QED BY <1>1 DEF Wake, Waiting

LEMMA AddTaskLanes ==
  ASSUME Types, LanesInv, NEW t \in Tasks, AddTask(t)
  PROVE  LanesInv'
<1> DEFINE q == QueueFor(t)
<1>1. stop = None /\ t \notin accepted /\ q \in Workers /\ Push(t, q)
  BY Added
<1>2. /\ UNCHANGED <<mgr, is_running, stop, done_tasks, handling, cur, answered>>
      /\ accepted' = accepted \cup {t}
  BY <1>1 DEF Push, lifeVars
<1>3. \A w \in Workers : pc'[w] = pc[w] \/ (pc[w] = "waiting" /\ pc'[w] = "loop")
  BY <1>1, WakeStays DEF Push
<1>4. tasks[q] \in Seq(Tasks)
  BY <1>1 DEF Types, TypeOK
<1>5. \A p \in Workers : tasks'[p] = IF p = q THEN Append(tasks[q], t) ELSE tasks[p]
  BY <1>1 DEF Push, Types, TypeOK
<1>6. \A x : QueueFor(x)' = QueueFor(x)
  BY <1>2, LanesStay
<1>7. PICK s \in Seq(Tasks) : s = tasks[q]
  BY <1>4
<1>8. /\ \A i \in DOMAIN Append(s, t) :
           \/ i \in DOMAIN s /\ Append(s, t)[i] = s[i]
           \/ i = Len(s) + 1 /\ Append(s, t)[i] = t
      /\ \A i \in DOMAIN s : i # Len(s) + 1
  OBVIOUS
<1>9. /\ \A i \in DOMAIN tasks'[q] :
           \/ i \in DOMAIN tasks[q] /\ tasks'[q][i] = tasks[q][i]
           \/ i = Len(s) + 1 /\ tasks'[q][i] = t
  BY <1>1, <1>5, <1>7, <1>8
<1>10. q = QueueFor(t)
  OBVIOUS
<1> HIDE DEF q
<1>11. Placed'
  <2>1. \A p \in Workers : \A i \in DOMAIN tasks'[p] :
          tasks'[p][i] \in accepted \cup {t} /\ QueueFor(tasks'[p][i]) = p
    <3>1. \A i \in DOMAIN tasks'[q] : tasks'[q][i] \in accepted \cup {t} /\ QueueFor(tasks'[q][i]) = q
      BY <1>1, <1>9, <1>10 DEF LanesInv, Placed
    <3> QED BY <1>5, <3>1 DEF LanesInv, Placed
  <2>2. \A w \in Workers : cur[w] # None => cur[w] \in accepted /\ pc'[w] = "process"
    <3>1. \A w \in Workers : pc[w] = "process" => pc'[w] = "process"
      BY <1>3
    <3> QED BY <3>1 DEF LanesInv, Placed
  <2> QED BY <1>2, <1>6, <2>1, <2>2 DEF LanesInv, Placed
<1>12. Apart'
  <2>1. CASE mgr = "async"
    <3>0. q = 0
      BY <1>10, <2>1, LaneFacts
    <3>1. \A i \in DOMAIN tasks[0] : tasks[0][i] # t
      BY <1>1, WorkerTypes DEF LanesInv, Placed
    <3>2. \A v \in Workers : cur[v] # t
      BY <1>1, NoneAssumption DEF LanesInv, Placed
    <3>3. \A i, j \in DOMAIN tasks'[0] : tasks'[0][i] = tasks'[0][j] => i = j
      BY <1>9, <2>1, <3>0, <3>1 DEF LanesInv, Apart
    <3>4. \A v \in Workers : \A i \in DOMAIN tasks'[0] : cur[v] # tasks'[0][i]
      BY <1>9, <2>1, <3>0, <3>2 DEF LanesInv, Apart
    <3>5. \A u, v \in Workers : cur[u] = cur[v] /\ cur[v] # None => u = v
      BY <2>1 DEF LanesInv, Apart
    <3> QED BY <1>2, <2>1, <3>3, <3>4, <3>5 DEF Apart
  <2>2. CASE mgr # "async"
    BY <1>2, <1>6, <2>2 DEF LanesInv, Apart
  <2> QED BY <2>1, <2>2
<1>13. Stopped'
  <2>1. \A w \in Workers : pc[w] = "none" => pc'[w] = "none"
    BY <1>3
  <2> QED BY <1>1, <1>2, <2>1 DEF LanesInv, Stopped
<1> QED BY <1>11, <1>12, <1>13 DEF LanesInv

LEMMA FrameLanes ==
  ASSUME Types, LanesInv, OnFrame \/ HandleResult \/ UNCHANGED vars
  PROVE  LanesInv'
<1>1. UNCHANGED <<mgr, is_running, stop, tasks, pc, cur, accepted>>
  BY DEF OnFrame, HandleResult, vars, lifeVars, historyVars
<1>2. \A t : QueueFor(t)' = QueueFor(t)
  BY <1>1, LanesStay
<1>3. CASE OnFrame
  <2>1. /\ handling' = done_tasks /\ done_tasks' = <<>> /\ UNCHANGED answered
        /\ stop = None /\ done_tasks # <<>>
    BY <1>3 DEF OnFrame, historyVars
  <2>2. is_running
    BY <2>1 DEF LanesInv, Stopped
  <2>3. DOMAIN <<>> = {}
    OBVIOUS
  <2>4. Placed'
    BY <1>1, <1>2, <2>1, <2>3 DEF LanesInv, Placed
  <2>5. Apart'
    BY <1>1, <1>2 DEF LanesInv, Apart
  <2>6. Stopped'
    BY <1>1, <2>1, <2>2 DEF Stopped
  <2> QED BY <2>4, <2>5, <2>6 DEF LanesInv
<1>4. CASE HandleResult
  <2>1. /\ handling # <<>> /\ handling' = Tail(handling) /\ UNCHANGED done_tasks
        /\ answered' = answered \cup {Head(handling)}
    BY <1>4 DEF HandleResult
  <2>2. handling \in Seq(Tasks)
    BY DEF Types, TypeOK
  <2>3. \A i \in DOMAIN handling' : i + 1 \in DOMAIN handling /\ handling'[i] = handling[i + 1]
    BY <2>1, <2>2
  <2>4. 1 \in DOMAIN handling /\ Head(handling) = handling[1]
    BY <2>1, <2>2
  <2>5. Placed'
    BY <1>1, <1>2, <2>1, <2>3, <2>4 DEF LanesInv, Placed
  <2>6. Apart'
    BY <1>1, <1>2 DEF LanesInv, Apart
  <2>7. Stopped'
    BY <1>1, <2>1 DEF LanesInv, Stopped
  <2> QED BY <2>5, <2>6, <2>7 DEF LanesInv
<1>5. CASE UNCHANGED vars
  <2>1. UNCHANGED <<done_tasks, handling, answered>>
    BY <1>5 DEF vars
  <2>2. Placed' /\ Apart'
    BY <1>1, <1>2, <2>1 DEF LanesInv, Placed, Apart
  <2>3. Stopped'
    BY <1>1, <2>1 DEF LanesInv, Stopped
  <2> QED BY <2>2, <2>3 DEF LanesInv
<1> QED BY <1>3, <1>4, <1>5

LEMMA StopLanes ==
  ASSUME Types, LanesInv, Stop
  PROVE  LanesInv'
<1>1. /\ UNCHANGED <<mgr, done_tasks, handling, cur, pc, accepted, answered>>
      /\ handling = <<>> /\ is_running' = FALSE
  BY DEF Stop, AsyncStop, MongoStop, RedisStop, historyVars
<1>2. \A t : QueueFor(t)' = QueueFor(t)
  BY <1>1, LanesStay
<1>3. \A q \in Workers : tasks'[q] = tasks[q] \/ tasks'[q] = <<>>
  BY DEF Stop, AsyncStop, MongoStop, RedisStop, Types, TypeOK
<1>4. DOMAIN <<>> = {}
  OBVIOUS
<1>5. Placed'
  <2>1. \A q \in Workers : \A i \in DOMAIN tasks'[q] :
          tasks'[q][i] \in accepted /\ QueueFor(tasks'[q][i]) = q
    BY <1>3, <1>4 DEF LanesInv, Placed
  <2> QED BY <1>1, <1>2, <2>1 DEF LanesInv, Placed
<1>6. Apart'
  <2>1. CASE mgr = "async"
    <3>1. tasks'[0] = tasks[0] \/ tasks'[0] = <<>>
      BY <1>3, WorkerTypes
    <3> QED BY <1>1, <1>4, <2>1, <3>1 DEF LanesInv, Apart
  <2>2. CASE mgr # "async"
    BY <1>1, <1>2, <2>2 DEF LanesInv, Apart
  <2> QED BY <2>1, <2>2
<1>7. Stopped'
  <2>1. mgr = "async" => tasks'[0] = <<>>
    BY WorkerTypes DEF Stop, AsyncStop, MongoStop, RedisStop, Types, TypeOK
  <2>2. \E at \in {"tell", "notify"} : stop' = [at |-> at, thread |-> 0]
    BY DEF Stop, AsyncStop, MongoStop, RedisStop
  <2>3. stop'.thread = 0 /\ stop' # None
    <3>1. stop' \in Stops
      BY <2>2, WorkerTypes DEF Stops
    <3> QED BY <2>2, <3>1, NoneAssumption
  <2>4. \A v \in Workers : ~(v < 0)
    BY DEF Workers
  <2> QED BY <1>1, <2>1, <2>3, <2>4 DEF Stopped
<1> QED BY <1>5, <1>6, <1>7 DEF LanesInv

\* Where Stop is.
LEMMA StopAt ==
  ASSUME NEW at \in {"tell", "notify", "join"}, NEW w \in Workers, stop = [at |-> at, thread |-> w]
  PROVE  stop # None /\ stop.at = at /\ stop.thread = w
<1>1. stop \in Stops
  BY DEF Stops
<1> QED BY <1>1, NoneAssumption

LEMMA NotifyLanes ==
  ASSUME Types, LanesInv, NEW w \in Workers,
         AsyncTell(w) \/ AsyncNotify(w) \/ MongoNotify(w) \/ RedisNotify(w)
  PROVE  LanesInv'
<1> USE DEF historyVars
<1>1. UNCHANGED <<mgr, is_running, tasks, done_tasks, handling, cur, accepted, answered>>
  BY DEF AsyncTell, AsyncNotify, MongoNotify, RedisNotify
<1>2. \A v \in Workers : pc'[v] = pc[v] \/ (pc[v] = "waiting" /\ pc'[v] = "loop")
  BY WakeStays DEF AsyncTell, AsyncNotify, MongoNotify, RedisNotify
<1>3. \A t : QueueFor(t)' = QueueFor(t)
  BY <1>1, LanesStay
<1>4. \A v \in Workers : (pc[v] = "process" => pc'[v] = "process") /\ (pc[v] = "ended" => pc'[v] = "ended")
  BY <1>2
<1>5. Placed'
  BY <1>1, <1>3, <1>4 DEF LanesInv, Placed
<1>6. Apart'
  BY <1>1, <1>3 DEF LanesInv, Apart
<1>7. Stopped'
  <2>1. PICK at \in {"tell", "notify"} : stop = [at |-> at, thread |-> w] /\ (at = "tell" => AsyncTell(w))
    BY DEF AsyncTell, AsyncNotify, MongoNotify, RedisNotify
  <2>2. stop # None /\ stop.at = at /\ stop.thread = w
    BY <2>1, StopAt
  <2>3. ~is_running /\ handling = <<>> /\ (mgr = "async" => tasks[0] = <<>>)
    BY <2>2 DEF LanesInv, Stopped
  <2>4. CASE at = "tell"
    <3>1. stop' = IF w < ThreadNum - 1 THEN [at |-> "tell", thread |-> w + 1]
                                       ELSE [at |-> "notify", thread |-> 0]
      BY <2>1, <2>4 DEF AsyncTell
    <3>2. stop'.at = "tell" \/ stop'.thread = 0
      BY <3>1
    <3>3. stop' # None
      <4>1. stop' \in Stops
        BY <3>1, NextWorker, WorkerTypes DEF Stops
      <4> QED BY <4>1, NoneAssumption
    <3>4. \A v \in Workers : ~(v < 0)
      BY DEF Workers
    <3> QED BY <1>1, <2>3, <3>2, <3>3, <3>4 DEF Stopped
  <2>5. CASE at = "notify"
    <3>1. stop' = [at |-> "join", thread |-> w]
      <4>1. AsyncNotify(w) \/ MongoNotify(w) \/ RedisNotify(w)
        <5>1. ~AsyncTell(w)
          BY <2>2, <2>5 DEF AsyncTell
        <5> QED BY <5>1
      <4> QED BY <4>1 DEF AsyncNotify, MongoNotify, RedisNotify
    <3>2. stop' # None /\ stop'.thread = w
      <4>1. stop' \in Stops
        BY <3>1 DEF Stops
      <4> QED BY <3>1, <4>1, NoneAssumption
    <3>3. \A v \in Workers : v < w => pc'[v] = "ended"
      BY <1>4, <2>2, <2>5 DEF LanesInv, Stopped
    <3> QED BY <1>1, <2>3, <3>2, <3>3 DEF Stopped
  <2> QED BY <2>4, <2>5
<1> QED BY <1>5, <1>6, <1>7 DEF LanesInv

LEMMA JoinedLanes ==
  ASSUME Types, LanesInv, NEW w \in Workers, Joined(w, "notify")
  PROVE  LanesInv'
<1>1. UNCHANGED <<mgr, is_running, tasks, done_tasks, handling, pc, cur, accepted, answered>>
  BY DEF Joined, historyVars
<1>2. \A t : QueueFor(t)' = QueueFor(t)
  BY <1>1, LanesStay
<1>3. Placed' /\ Apart'
  BY <1>1, <1>2 DEF LanesInv, Placed, Apart
<1>4. stop # None /\ stop.at = "join" /\ stop.thread = w
  BY StopAt DEF Joined
<1>5. stop' # None /\ stop'.thread = w + 1
  <2>1. stop' = [at |-> "notify", thread |-> w + 1]
    BY DEF Joined
  <2>2. stop' \in Stops
    BY <2>1, NextWorker DEF Joined, Stops
  <2> QED BY <2>1, <2>2, NoneAssumption
<1>6. \A v \in Workers : v < w + 1 => pc[v] = "ended"
  <2>1. \A v \in Workers : v < w + 1 => v < w \/ v = w
    BY DEF Workers
  <2>2. \A v \in Workers : v < w => pc[v] = "ended"
    BY <1>4 DEF LanesInv, Stopped
  <2> QED BY <2>1, <2>2 DEF Joined
<1>7. ~is_running /\ handling = <<>> /\ (mgr = "async" => tasks[0] = <<>>)
  BY <1>4 DEF LanesInv, Stopped
<1>8. Stopped'
  BY <1>1, <1>5, <1>6, <1>7 DEF Stopped
<1> QED BY <1>3, <1>8 DEF LanesInv

\* When all have ended, no thread has a task.
LEMMA JoinedAll ==
  ASSUME Types, LanesInv, AllJoined
  PROVE  /\ stop # None /\ ~is_running /\ handling = <<>>
         /\ \A w \in Workers : cur[w] = None
         /\ mgr = "async" => tasks[0] = <<>>
<1>1. stop # None /\ stop.at = "join" /\ stop.thread = ThreadNum - 1
  BY StopAt, WorkerTypes DEF AllJoined
<1>2. \A v \in Workers : v < ThreadNum - 1 \/ v = ThreadNum - 1
  BY WorkerTypes DEF Workers
<1>3. \A v \in Workers : pc[v] = "ended"
  BY <1>1, <1>2 DEF AllJoined, LanesInv, Stopped
<1> QED BY <1>1, <1>3 DEF LanesInv, Stopped, Placed

LEMMA AllJoinedLanes ==
  ASSUME Types, LanesInv, AllJoined,
         \A q \in Workers : tasks'[q] = tasks[q] \/ tasks'[q] = <<>>
  PROVE  LanesInv'
<1>1. /\ UNCHANGED <<mgr, is_running, handling, cur, accepted, answered>>
      /\ done_tasks' = <<>> /\ stop' = None
      /\ \A w \in Workers : pc'[w] = "none"
  BY DEF AllJoined
<1>2. ~is_running /\ handling = <<>> /\ \A w \in Workers : cur[w] = None
  BY JoinedAll
<1>3. DOMAIN <<>> = {}
  OBVIOUS
<1>4. \A t : QueueFor(t)' = QueueFor(t)
  BY <1>1, LanesStay
<1>5. Placed'
  <2>1. \A q \in Workers : \A i \in DOMAIN tasks'[q] :
          tasks'[q][i] \in accepted /\ QueueFor(tasks'[q][i]) = q
    BY <1>3 DEF LanesInv, Placed
  <2>2. answered \subseteq accepted
    BY DEF LanesInv, Placed
  <2> QED BY <1>1, <1>2, <1>3, <1>4, <2>1, <2>2 DEF Placed
<1>6. Apart'
  <2>1. CASE mgr = "async"
    <3>1. tasks'[0] = tasks[0] \/ tasks'[0] = <<>>
      BY WorkerTypes
    <3> QED BY <1>1, <1>3, <2>1, <3>1 DEF LanesInv, Apart
  <2>2. CASE mgr # "async"
    BY <1>1, <1>2, <2>2 DEF Apart
  <2> QED BY <2>1, <2>2
<1>7. Stopped'
  BY <1>1, <1>2 DEF Stopped
<1> QED BY <1>5, <1>6, <1>7 DEF LanesInv

LEMMA StopStepLanes ==
  ASSUME Types, LanesInv, StopStep
  PROVE  LanesInv'
<1>1. ASSUME NEW w \in Workers, AsyncTell(w) \/ AsyncNotify(w) \/ MongoNotify(w) \/ RedisNotify(w)
      PROVE  LanesInv'
  BY <1>1, NotifyLanes
<1>2. ASSUME NEW w \in Workers, Joined(w, "notify") PROVE LanesInv'
  BY <1>2, JoinedLanes
<1>3. ASSUME AllJoined, UNCHANGED tasks \/ tasks' = [w \in Workers |-> <<>>] PROVE LanesInv'
  BY <1>3, AllJoinedLanes
<1> QED BY <1>1, <1>2, <1>3 DEF StopStep, AsyncJoined, MongoJoined, RedisJoined

LEMMA StepLanes == Types /\ LanesInv /\ [Next]_vars => LanesInv'
<1> SUFFICES ASSUME Types, LanesInv, [Next]_vars PROVE LanesInv'
  OBVIOUS
<1>1. CASE Start
  BY <1>1, StartLanes
<1>2. CASE Stop
  BY <1>2, StopLanes
<1>3. CASE StopStep
  BY <1>3, StopStepLanes
<1>4. ASSUME NEW t \in Tasks, AddTask(t) PROVE LanesInv'
  BY <1>4, AddTaskLanes
<1>5. CASE OnFrame \/ HandleResult \/ UNCHANGED vars
  BY <1>5, FrameLanes
<1>6. ASSUME NEW w \in Workers, ThreadLoop(w) \/ WakeUp(w) PROVE LanesInv'
  BY <1>6, ThreadLanes
<1> QED BY <1>1, <1>2, <1>3, <1>4, <1>5, <1>6 DEF Next

-----------------------------------------------------------------------------
(* Lines. *)

\* What is picked from a sequence is in it.
LEMMA InLaneWithin ==
  ASSUME NEW lanes, NEW l, NEW s \in Seq(Item), NEW A \in SUBSET Tasks,
         \A i \in DOMAIN s : s[i] \in A \cup {None}
  PROVE  InLane(s, lanes, l) \in Seq(A)
<1> DEFINE L == Len(s)
<1>1. L \in Nat /\ DOMAIN s = 1..L
  OBVIOUS
<1>2. PICK f : /\ f[0] = <<>>
               /\ \A n \in 1..L : f[n] = f[n - 1] \o Piece(lanes, l, s[n])
               /\ f[L] = InLane(s, lanes, l)
  BY InLaneCount
<1> HIDE DEF L
<1> DEFINE T == {n \in Nat : n <= L => f[n] \in Seq(A)}
<1>3. 0 \in T
  <2>1. <<>> \in Seq(A)
    OBVIOUS
  <2> QED BY <1>2, <2>1
<1>4. ASSUME NEW n \in Nat, n \in T PROVE n + 1 \in T
  <2> SUFFICES ASSUME n + 1 <= L PROVE f[n + 1] \in Seq(A)
    OBVIOUS
  <2>1. n + 1 \in 1..L /\ (n + 1) - 1 = n /\ f[n] \in Seq(A)
    BY <1>1, <1>4
  <2>2. f[n + 1] = f[n] \o Piece(lanes, l, s[n + 1])
    BY <1>2, <2>1
  <2>3. Piece(lanes, l, s[n + 1]) \in Seq(A)
    BY <1>1, <2>1 DEF Piece
  <2> QED BY <2>1, <2>2, <2>3, ConcatProperties
<1>5. Nat \subseteq T
  <2> HIDE DEF T
  <2> QED BY <1>3, <1>4, Induction
<1> QED BY <1>1, <1>2, <1>5

LEMMA InLaneEmpty ==
  ASSUME NEW lanes, NEW l
  PROVE  InLane(<<>>, lanes, l) = <<>>
<1>1. <<>> \in Seq(Item) /\ \A i \in DOMAIN <<>> : Piece(lanes, l, <<>>[i]) = <<>>
  OBVIOUS
<1> QED BY <1>1, InLaneNone

LEMMA InLaneAppend ==
  ASSUME NEW lanes, NEW l, NEW s \in Seq(Item), NEW t \in Item
  PROVE  InLane(Append(s, t), lanes, l) = InLane(s, lanes, l) \o Piece(lanes, l, t)
<1>1. <<t>> \in Seq(Item) /\ Append(s, t) = s \o <<t>>
  OBVIOUS
<1>2. InLane(s \o <<t>>, lanes, l) = InLane(s, lanes, l) \o InLane(<<t>>, lanes, l)
  BY <1>1, InLaneConcat
<1> QED BY <1>1, <1>2, InLaneOne

\* What the threads hold.
Hand(c) == [i \in 1..ThreadNum |-> c[i - 1]]

LEMMA HandFacts ==
  ASSUME NEW c \in [Workers -> Item]
  PROVE  /\ Hand(c) \in Seq(Item) /\ DOMAIN Hand(c) = 1..ThreadNum /\ Len(Hand(c)) = ThreadNum
         /\ \A i \in 1..ThreadNum : i - 1 \in Workers /\ Hand(c)[i] = c[i - 1]
         /\ \A w \in Workers : w + 1 \in 1..ThreadNum /\ Hand(c)[w + 1] = c[w]
<1>1. \A i \in 1..ThreadNum : i - 1 \in Workers
  BY ThreadAssumption DEF Workers
<1>2. \A w \in Workers : w + 1 \in 1..ThreadNum /\ (w + 1) - 1 = w
  BY ThreadAssumption DEF Workers
<1>3. Hand(c) \in [1..ThreadNum -> Item]
  BY <1>1 DEF Hand
<1>4. Hand(c) \in Seq(Item) /\ Len(Hand(c)) = ThreadNum
  BY <1>3, ThreadAssumption
<1>5. \A i \in 1..ThreadNum : Hand(c)[i] = c[i - 1]
  BY DEF Hand
<1> QED BY <1>1, <1>2, <1>3, <1>4, <1>5

LEMMA HandNone ==
  ASSUME NEW lanes, NEW l, NEW c \in [Workers -> Item],
         \A w \in Workers : c[w] # None => lanes[c[w]] # l
  PROVE  InLane(Hand(c), lanes, l) = <<>>
<1>1. \A i \in DOMAIN Hand(c) : i - 1 \in Workers /\ Hand(c)[i] = c[i - 1]
  BY HandFacts
<1>2. \A i \in DOMAIN Hand(c) : Piece(lanes, l, Hand(c)[i]) = <<>>
  BY <1>1 DEF Piece
<1>3. Hand(c) \in Seq(Item)
  BY HandFacts
<1> QED BY <1>2, <1>3, InLaneNone

LEMMA HandSole ==
  ASSUME NEW lanes, NEW l, NEW c \in [Workers -> Item], NEW w \in Workers, c[w] # None, lanes[c[w]] = l,
         \A v \in Workers \ {w} : c[v] # None => lanes[c[v]] # l
  PROVE  InLane(Hand(c), lanes, l) = <<c[w]>>
<1>1. \A i \in DOMAIN Hand(c) \ {w + 1} : i - 1 \in Workers /\ i - 1 # w /\ Hand(c)[i] = c[i - 1]
  <2>1. \A i \in 1..ThreadNum : i # w + 1 => i - 1 # w
    BY DEF Workers
  <2> QED BY <2>1, HandFacts
<1>2. \A i \in DOMAIN Hand(c) \ {w + 1} : Piece(lanes, l, Hand(c)[i]) = <<>>
  BY <1>1 DEF Piece
<1>3. w + 1 \in DOMAIN Hand(c) /\ Hand(c)[w + 1] = c[w]
  BY HandFacts
<1>4. InLane(Hand(c), lanes, l) = Piece(lanes, l, Hand(c)[w + 1])
  BY <1>2, <1>3, HandFacts, InLaneSole
<1> QED BY <1>3, <1>4 DEF Piece

LEMMA HandSame ==
  ASSUME NEW lanes, NEW l, NEW c \in [Workers -> Item], NEW d \in [Workers -> Item],
         \A w \in Workers : Piece(lanes, l, c[w]) = Piece(lanes, l, d[w])
  PROVE  InLane(Hand(c), lanes, l) = InLane(Hand(d), lanes, l)
<1>1. \A i \in DOMAIN Hand(c) : Piece(lanes, l, Hand(c)[i]) = Piece(lanes, l, Hand(d)[i])
  <2>1. DOMAIN Hand(c) = 1..ThreadNum
    BY HandFacts
  <2>2. \A i \in 1..ThreadNum : i - 1 \in Workers /\ Hand(c)[i] = c[i - 1]
    BY HandFacts
  <2>3. \A i \in 1..ThreadNum : Hand(d)[i] = d[i - 1]
    BY HandFacts
  <2> QED BY <2>1, <2>2, <2>3
<1>2. Hand(c) \in Seq(Item) /\ Len(Hand(c)) = ThreadNum
  BY HandFacts
<1>3. Hand(d) \in Seq(Item) /\ Len(Hand(d)) = ThreadNum
  BY HandFacts
<1> QED BY <1>1, <1>2, <1>3, InLaneSame

\* A line by its parts: what the callbacks get now, what is done, what the
\* threads hold and what is queued.
Called(l) == InLane(handling, LaneOf, l)
Done(l)   == InLane(done_tasks, LaneOf, l)
Held(l)   == InLane(Hand(cur), LaneOf, l)
Queued(l) == InLane(tasks[QueueOfLane(l)], LaneOf, l)

IsLane(l) == \E t \in Tasks : LaneOf[t] = l

LEMMA ItemSeqs ==
  ASSUME Types
  PROVE  /\ handling \in Seq(Item) /\ done_tasks \in Seq(Item) /\ cur \in [Workers -> Item]
         /\ \A q \in Workers : tasks[q] \in Seq(Item)
<1>1. Seq(Tasks) \subseteq Seq(Item)
  BY DEF Item
<1> QED BY <1>1 DEF Types, TypeOK, Item

LEMMA LaneQueues ==
  ASSUME NEW l, IsLane(l)
  PROVE  QueueOfLane(l) \in Workers
BY LaneTypes, WorkerTypes DEF IsLane, LaneOf, QueueOfLane

LEMMA LineParts ==
  ASSUME NEW l, IsLane(l), Types
  PROVE  Line(l) = Called(l) \o Done(l) \o Held(l) \o Queued(l)
<1> DEFINE q == tasks[QueueOfLane(l)]
<1>1. InHand = Hand(cur)
  BY DEF InHand, Hand
<1>2. Line(l) = InLane(handling \o done_tasks \o Hand(cur) \o q, LaneOf, l)
  BY <1>1 DEF Line, IsLane
<1>3. handling \in Seq(Item) /\ done_tasks \in Seq(Item) /\ Hand(cur) \in Seq(Item) /\ q \in Seq(Item)
  BY ItemSeqs, HandFacts, LaneQueues
<1> HIDE DEF q
<1>4. InLane(handling \o done_tasks \o Hand(cur) \o q, LaneOf, l)
        = InLane(handling, LaneOf, l) \o InLane(done_tasks, LaneOf, l)
            \o InLane(Hand(cur), LaneOf, l) \o InLane(q, LaneOf, l)
  <2>1. PICK x : x = handling \o done_tasks
    OBVIOUS
  <2>2. PICK y : y = x \o Hand(cur)
    OBVIOUS
  <2>3. x \in Seq(Item)
    BY <1>3, <2>1, ConcatProperties
  <2>4. y \in Seq(Item)
    BY <1>3, <2>2, <2>3, ConcatProperties
  <2>5. InLane(handling \o done_tasks, LaneOf, l) = InLane(handling, LaneOf, l) \o InLane(done_tasks, LaneOf, l)
    BY <1>3, InLaneConcat
  <2>6. InLane(x \o Hand(cur), LaneOf, l) = InLane(x, LaneOf, l) \o InLane(Hand(cur), LaneOf, l)
    BY <1>3, <2>3, InLaneConcat
  <2>7. InLane(y \o q, LaneOf, l) = InLane(y, LaneOf, l) \o InLane(q, LaneOf, l)
    BY <1>3, <2>4, InLaneConcat
  <2> QED BY <2>1, <2>2, <2>5, <2>6, <2>7
<1> QED BY <1>2, <1>4 DEF Called, Done, Held, Queued, q

LEMMA LineNext ==
  ASSUME NEW l, IsLane(l), Types', UNCHANGED mgr
  PROVE  Line(l)' = Called(l)' \o Done(l)' \o Held(l)' \o Queued(l)'
<1> DEFINE q == tasks'[QueueOfLane(l)']
<1>0. QueueOfLane(l)' = QueueOfLane(l) /\ LaneOf' = LaneOf
  BY LanesStay
<1>1. InHand' = Hand(cur')
  BY DEF InHand, Hand
<1>2. Line(l)' = InLane(handling' \o done_tasks' \o Hand(cur') \o q, LaneOf', l)
  BY <1>0, <1>1 DEF Line, IsLane
<1>3. handling' \in Seq(Item) /\ done_tasks' \in Seq(Item) /\ Hand(cur') \in Seq(Item) /\ q \in Seq(Item)
  <2>1. Seq(Tasks) \subseteq Seq(Item)
    BY DEF Item
  <2>2. handling' \in Seq(Tasks) /\ done_tasks' \in Seq(Tasks) /\ cur' \in [Workers -> Item]
        /\ \A w \in Workers : tasks'[w] \in Seq(Tasks)
    BY DEF Types, TypeOK, Item
  <2> QED BY <1>0, <2>1, <2>2, HandFacts, LaneQueues
<1> HIDE DEF q
<1>4. InLane(handling' \o done_tasks' \o Hand(cur') \o q, LaneOf', l)
        = InLane(handling', LaneOf', l) \o InLane(done_tasks', LaneOf', l)
            \o InLane(Hand(cur'), LaneOf', l) \o InLane(q, LaneOf', l)
  <2>1. PICK x : x = handling' \o done_tasks'
    OBVIOUS
  <2>2. PICK y : y = x \o Hand(cur')
    OBVIOUS
  <2>3. x \in Seq(Item)
    BY <1>3, <2>1, ConcatProperties
  <2>4. y \in Seq(Item)
    BY <1>3, <2>2, <2>3, ConcatProperties
  <2>5. InLane(handling' \o done_tasks', LaneOf', l) = InLane(handling', LaneOf', l) \o InLane(done_tasks', LaneOf', l)
    BY <1>3, InLaneConcat
  <2>6. InLane(x \o Hand(cur'), LaneOf', l) = InLane(x, LaneOf', l) \o InLane(Hand(cur'), LaneOf', l)
    BY <1>3, <2>3, InLaneConcat
  <2>7. InLane(y \o q, LaneOf', l) = InLane(y, LaneOf', l) \o InLane(q, LaneOf', l)
    BY <1>3, <2>4, InLaneConcat
  <2> QED BY <2>1, <2>2, <2>5, <2>6, <2>7
<1> QED BY <1>2, <1>4 DEF Called, Done, Held, Queued, Hand, q

LEMMA PartTypes ==
  ASSUME NEW l, IsLane(l), Types
  PROVE  /\ Called(l) \in Seq(Tasks) /\ Done(l) \in Seq(Tasks)
         /\ Held(l) \in Seq(Tasks) /\ Queued(l) \in Seq(Tasks)
BY ItemSeqs, HandFacts, LaneQueues, InLaneType DEF Called, Done, Held, Queued

\* A line is of tasks that were accepted.
LEMMA LineAccepted ==
  ASSUME Types, LanesInv, NEW l
  PROVE  Line(l) \in Seq(accepted)
<1>1. CASE ~IsLane(l)
  BY <1>1 DEF Line, IsLane
<1>2. CASE IsLane(l)
  <2>1. accepted \in SUBSET Tasks
    BY DEF Types, TypeOK
  <2> PICK A \in SUBSET Tasks : A = accepted
    BY <2>1
  <2>2. Called(l) \in Seq(A)
    <3>1. \A i \in DOMAIN handling : handling[i] \in A \cup {None}
      BY DEF LanesInv, Placed
    <3> QED BY <3>1, ItemSeqs, InLaneWithin DEF Called
  <2>3. Done(l) \in Seq(A)
    <3>1. \A i \in DOMAIN done_tasks : done_tasks[i] \in A \cup {None}
      BY DEF LanesInv, Placed
    <3> QED BY <3>1, ItemSeqs, InLaneWithin DEF Done
  <2>4. Held(l) \in Seq(A)
    <3>1. \A w \in Workers : cur[w] \in A \cup {None}
      BY DEF LanesInv, Placed
    <3>2. cur \in [Workers -> Item]
      BY ItemSeqs
    <3>3. \A i \in DOMAIN Hand(cur) : Hand(cur)[i] \in A \cup {None}
      BY <3>1, <3>2, HandFacts
    <3> QED BY <3>2, <3>3, HandFacts, InLaneWithin DEF Held
  <2>5. Queued(l) \in Seq(A)
    <3> DEFINE q == QueueOfLane(l)
    <3>0. q \in Workers
      BY <1>2, LaneQueues
    <3>1. \A i \in DOMAIN tasks[q] : tasks[q][i] \in A \cup {None}
      BY <3>0 DEF LanesInv, Placed
    <3>2. tasks[q] \in Seq(Item)
      BY <3>0, ItemSeqs
    <3> QED BY <3>1, <3>2, InLaneWithin DEF Queued
  <2>6. Line(l) = Called(l) \o Done(l) \o Held(l) \o Queued(l)
    BY <1>2, LineParts
  <2> QED BY <2>2, <2>3, <2>4, <2>5, <2>6, ConcatProperties
<1> QED BY <1>1, <1>2

-----------------------------------------------------------------------------
(* Steps of the contract. *)

LEMMA PrefixOf ==
  ASSUME NEW S, NEW s \in Seq(S), NEW t \in Seq(S)
  PROVE  Contract!IsPrefix(s, s \o t)
<1>1. /\ s \o t \in Seq(S) /\ Len(s \o t) = Len(s) + Len(t)
      /\ Len(s) \in Nat /\ Len(t) \in Nat
  BY ConcatProperties
<1>2. SubSeq(s \o t, 1, Len(s)) = SubSeq(s, 1, Len(s))
  <2>1. CASE Len(s) = 0
    BY <2>1, SubSeqEmpty
  <2>2. CASE Len(s) # 0
    <3>1. 1 \in 1..Len(s) /\ Len(s) \in 1..Len(s)
      BY <1>1, <2>2
    <3> QED BY <3>1, SubSeqOfConcat1
  <2> QED BY <2>1, <2>2
<1> QED BY <1>1, <1>2 DEF Contract!IsPrefix

LEMMA Associative ==
  \A x, y, z \in Seq(Tasks) : (x \o y) \o z = x \o (y \o z)
BY ConcatAssociative

LEMMA Neutral ==
  \A x \in Seq(Tasks) : x \o <<>> = x /\ <<>> \o x = x
BY ConcatEmptySeq

\* The steps of a thread and of Stop that nobody sees.
LEMMA StillStep ==
  ASSUME UNCHANGED <<LaneOf, answered, is_running>>, \A l \in Lanes : Line(l)' = Line(l)
  PROVE  UNCHANGED Contract!vars
<1>1. UNCHANGED [l \in Lanes |-> Line(l)]
  OBVIOUS
<1> QED BY <1>1 DEF Contract!vars

LEMMA AcceptStep ==
  ASSUME NEW t \in Tasks, LaneOf[t] \in Lanes, UNCHANGED <<LaneOf, answered, is_running>>,
         t \notin accepted, answered \subseteq accepted,
         \A l \in Lanes : Line(l) \in Seq(accepted),
         \A l \in Lanes : Line(l)' = IF l = LaneOf[t] THEN Append(Line(l), t) ELSE Line(l)
  PROVE  Contract!Accept(t)
<1> DEFINE line == [l \in Lanes |-> Line(l)]
<1>1. line' = [line EXCEPT ![LaneOf[t]] = Append(@, t)]
  OBVIOUS
<1>2. ASSUME NEW l \in Lanes PROVE t \notin Contract!ToSet(line[l])
  <2>1. \A i \in DOMAIN Line(l) : Line(l)[i] \in accepted
    <3> PICK s : s = Line(l)
      OBVIOUS
    <3>1. s \in Seq(accepted)
      OBVIOUS
    <3>2. \A i \in DOMAIN s : s[i] \in accepted
      BY <3>1
    <3> QED BY <3>2
  <2>2. line[l] = Line(l)
    OBVIOUS
  <2> QED BY <2>1, <2>2 DEF Contract!ToSet
<1>3. t \notin Contract!Known
  BY <1>2 DEF Contract!Known
<1> QED BY <1>1, <1>3 DEF Contract!Accept

LEMMA AnswerStep ==
  ASSUME NEW t \in Tasks, LaneOf[t] \in Lanes, UNCHANGED <<LaneOf, is_running>>, is_running,
         Line(LaneOf[t]) # <<>>, t = Head(Line(LaneOf[t])), answered' = answered \cup {t},
         \A l \in Lanes : Line(l)' = IF l = LaneOf[t] THEN Tail(Line(l)) ELSE Line(l)
  PROVE  Contract!Answer(t)
<1> DEFINE line == [l \in Lanes |-> Line(l)]
<1>1. line' = [line EXCEPT ![LaneOf[t]] = Tail(@)]
  OBVIOUS
<1>2. line[LaneOf[t]] = Line(LaneOf[t])
  OBVIOUS
<1> QED BY <1>1, <1>2 DEF Contract!Answer

LEMMA SwitchStep ==
  ASSUME UNCHANGED <<LaneOf, answered>>, is_running' = ~is_running,
         \A l \in Lanes : Contract!IsPrefix(Line(l)', Line(l))
  PROVE  Contract!StartOrStop
<1>1. \A l \in Lanes : Contract!IsPrefix([k \in Lanes |-> Line(k)]'[l], [k \in Lanes |-> Line(k)][l])
  OBVIOUS
<1> QED BY <1>1 DEF Contract!StartOrStop

LEMMA DropStep ==
  ASSUME UNCHANGED <<LaneOf, answered, is_running>>, ~is_running,
         \A l \in Lanes : Contract!IsPrefix(Line(l)', Line(l))
  PROVE  Contract!Drop
<1>1. \A l \in Lanes : Contract!IsPrefix([k \in Lanes |-> Line(k)]'[l], [k \in Lanes |-> Line(k)][l])
  OBVIOUS
<1> QED BY <1>1 DEF Contract!Drop

LEMMA StepsDo ==
  /\ \A t \in Tasks : Contract!Accept(t) \/ Contract!Answer(t) => Contract!Next
  /\ Contract!StartOrStop \/ Contract!Drop => Contract!Next
BY DEF Contract!Next

\* A line stays as it is if its parts do, and where it is no lane.
LEMMA LineSame ==
  ASSUME NEW l, UNCHANGED mgr,
         UNCHANGED <<handling, done_tasks, cur, tasks>> \/ ~IsLane(l)
  PROVE  Line(l)' = Line(l)
BY LanesStay DEF Line, IsLane, InHand

LEMMA PrefixSame ==
  ASSUME NEW S, NEW s \in Seq(S)
  PROVE  Contract!IsPrefix(s, s)
<1>1. s \o <<>> = s /\ <<>> \in Seq(S)
  BY ConcatEmptySeq
<1> QED BY <1>1, PrefixOf

LEMMA PrefixEmpty ==
  ASSUME NEW S, NEW s \in Seq(S)
  PROVE  Contract!IsPrefix(<<>>, s)
<1>1. <<>> \o s = s /\ <<>> \in Seq(S)
  BY ConcatEmptySeq
<1> QED BY <1>1, PrefixOf

-----------------------------------------------------------------------------
(* What each step is to the lines. *)

LEMMA QueuedNext ==
  ASSUME NEW l, IsLane(l), Types', UNCHANGED mgr
  PROVE  Queued(l)' \in Seq(Tasks)
<1>1. QueueOfLane(l)' = QueueOfLane(l) /\ LaneOf' = LaneOf
  BY LanesStay
<1>2. tasks'[QueueOfLane(l)] \in Seq(Tasks)
  BY LaneQueues DEF Types, TypeOK
<1>3. tasks'[QueueOfLane(l)] \in Seq(Item)
  BY <1>2 DEF Item
<1> QED BY <1>1, <1>3, InLaneType DEF Queued

\* A thread takes the oldest task of its queue.
LEMMA TakeLines ==
  ASSUME Types, Types', LanesInv, NEW w \in Workers, TakeTask(w)
  PROVE  UNCHANGED <<mgr, answered, is_running>> /\ \A l \in Lanes : Line(l)' = Line(l)
<1>1. UNCHANGED <<mgr, answered, is_running, handling, done_tasks>>
  BY DEF TakeTask, lifeVars
<1>2. CASE tasks[QueueOf(w)] = <<>>
  <2>1. UNCHANGED <<cur, tasks>>
    BY <1>2 DEF TakeTask
  <2> QED BY <1>1, <2>1, LineSame
<1>3. CASE tasks[QueueOf(w)] # <<>>
  <2> DEFINE q == QueueOf(w)
             t == Head(tasks[q])
  <2>1. /\ q \in Workers /\ t \in Tasks /\ QueueFor(t) = q
        /\ tasks[q] \in Seq(Tasks) /\ tasks[q] # <<>>
        /\ cur[w] = None /\ cur' = [cur EXCEPT ![w] = t]
        /\ tasks' = [tasks EXCEPT ![q] = Tail(@)]
        /\ \A v \in Workers : cur[v] # None => LaneOf[cur[v]] # LaneOf[t]
    BY <1>3, Taken
  <2>2. /\ \A v \in Workers : cur'[v] = IF v = w THEN t ELSE cur[v]
        /\ \A p \in Workers : tasks'[p] = IF p = q THEN Tail(tasks[q]) ELSE tasks[p]
    BY <2>1 DEF Types, TypeOK
  <2>3. t # None
    BY <2>1, NoneAssumption
  <2>4. LaneOf' = LaneOf /\ \A k : QueueOfLane(k)' = QueueOfLane(k)
    BY <1>1, LanesStay
  <2>5. cur \in [Workers -> Item] /\ cur' \in [Workers -> Item]
    <3>1. cur' \in [Workers -> Item]
      BY DEF Types, TypeOK, Item
    <3> QED BY <3>1, ItemSeqs
  <2>6. ASSUME NEW l \in Lanes, IsLane(l) PROVE Line(l)' = Line(l)
    <3>1. Line(l) = Called(l) \o Done(l) \o Held(l) \o Queued(l)
      BY <2>6, LineParts
    <3>2. Line(l)' = Called(l)' \o Done(l)' \o Held(l)' \o Queued(l)'
      BY <1>1, <2>6, LineNext
    <3>3. Called(l)' = Called(l) /\ Done(l)' = Done(l)
      BY <1>1, <2>4 DEF Called, Done
    <3>4. /\ Called(l) \in Seq(Tasks) /\ Done(l) \in Seq(Tasks)
          /\ Held(l) \in Seq(Tasks) /\ Queued(l) \in Seq(Tasks)
      BY <2>6, PartTypes
    <3>5. QueueOfLane(l) = q => Queued(l) = Piece(LaneOf, l, t) \o Queued(l)'
      <4>1. ASSUME QueueOfLane(l) = q PROVE Queued(l) = Piece(LaneOf, l, t) \o Queued(l)'
        <5>1. Queued(l) = InLane(tasks[q], LaneOf, l)
          BY <4>1 DEF Queued
        <5>2. Queued(l)' = InLane(Tail(tasks[q]), LaneOf, l)
          BY <2>1, <2>2, <2>4, <4>1 DEF Queued
        <5>3. tasks[q] \in Seq(Item)
          BY <2>1, ItemSeqs
        <5> HIDE DEF q
        <5>4. InLane(tasks[q], LaneOf, l) = Piece(LaneOf, l, Head(tasks[q])) \o InLane(Tail(tasks[q]), LaneOf, l)
          BY <2>1, <5>3, InLaneHead
        <5> QED BY <5>1, <5>2, <5>4
      <4> QED BY <4>1
    <3>6. QueueOfLane(l) # q => UNCHANGED Queued(l)
      <4>1. QueueOfLane(l) \in Workers
        BY <2>6, LaneQueues
      <4> QED BY <2>2, <2>4, <4>1 DEF Queued
    <3> HIDE DEF q, t
    <3>7. CASE LaneOf[t] = l
      <4>1. Held(l) = <<>>
        BY <2>1, <2>5, <3>7, HandNone DEF Held
      <4>2. Held(l)' = <<t>>
        <5>1. \A v \in Workers \ {w} : cur'[v] # None => LaneOf[cur'[v]] # l
          BY <2>1, <2>2, <3>7
        <5>2. cur'[w] = t
          BY <2>2
        <5>3. InLane(Hand(cur'), LaneOf, l) = <<cur'[w]>>
          BY <2>3, <2>5, <3>7, <5>1, <5>2, HandSole
        <5> QED BY <2>4, <5>2, <5>3 DEF Held, Hand
      <4>3. Queued(l) = <<t>> \o Queued(l)'
        <5>1. QueueOfLane(l) = q
          BY <2>1, <3>7 DEF QueueFor
        <5> QED BY <2>3, <3>5, <3>7, <5>1 DEF Piece
      <4>4. Queued(l)' \in Seq(Tasks) /\ <<t>> \in Seq(Tasks)
        <5>1. Queued(l)' \in Seq(Tasks)
          BY <1>1, <2>6, QueuedNext
        <5>2. <<t>> \in Seq(Tasks)
          BY <2>1
        <5> QED BY <5>1, <5>2
      <4> PICK x : x = Called(l) \o Done(l)
        OBVIOUS
      <4> PICK z : z = Queued(l)'
        OBVIOUS
      <4>5. x \in Seq(Tasks) /\ z \in Seq(Tasks) /\ <<t>> \in Seq(Tasks)
        BY <3>4, <4>4, ConcatProperties
      <4>6. (x \o <<>>) \o (<<t>> \o z) = (x \o <<t>>) \o z
        BY <4>5, Associative, Neutral
      <4> QED BY <3>1, <3>2, <3>3, <4>1, <4>2, <4>3, <4>6
    <3>8. CASE LaneOf[t] # l
      <4>1. Held(l)' = Held(l)
        <5>1. \A v \in Workers : Piece(LaneOf, l, cur'[v]) = Piece(LaneOf, l, cur[v])
          BY <2>1, <2>2, <3>8 DEF Piece
        <5>2. InLane(Hand(cur'), LaneOf, l) = InLane(Hand(cur), LaneOf, l)
          BY <2>5, <5>1, HandSame
        <5> QED BY <2>4, <5>2 DEF Held, Hand
      <4>2. Queued(l)' = Queued(l)
        <5>1. CASE QueueOfLane(l) = q
          <6>1. Queued(l) = <<>> \o Queued(l)'
            BY <3>5, <3>8, <5>1 DEF Piece
          <6>2. Queued(l)' \in Seq(Tasks)
            BY <1>1, <2>6, QueuedNext
          <6> QED BY <6>1, <6>2, Neutral
        <5> QED BY <3>6, <5>1
      <4> QED BY <3>1, <3>2, <3>3, <4>1, <4>2
    <3> QED BY <3>7, <3>8
  <2>7. \A l \in Lanes : Line(l)' = Line(l)
    BY <1>1, <2>6, LineSame
  <2> QED BY <1>1, <2>7
<1> QED BY <1>2, <1>3

\* A task that is done is the last of those done.
LEMMA DoneLines ==
  ASSUME Types, Types', LanesInv, NEW w \in Workers, TaskDone(w)
  PROVE  UNCHANGED <<mgr, answered, is_running>> /\ \A l \in Lanes : Line(l)' = Line(l)
<1>1. UNCHANGED <<mgr, answered, is_running, handling, tasks>>
  BY DEF TaskDone, lifeVars, historyVars
<1>2. cur[w] \in Tasks /\ pc[w] = "process" /\ done_tasks' = Append(done_tasks, cur[w])
  BY DEF TaskDone, Types
<1> PICK t \in Tasks : t = cur[w]
  BY <1>2
<1>3. \A v \in Workers : cur'[v] = IF v = w THEN None ELSE cur[v]
  BY DEF TaskDone, Types, TypeOK
<1>4. LaneOf' = LaneOf /\ \A k : QueueOfLane(k)' = QueueOfLane(k)
  BY <1>1, LanesStay
<1>5. cur \in [Workers -> Item] /\ cur' \in [Workers -> Item]
  <2>1. cur' \in [Workers -> Item]
    BY DEF Types, TypeOK, Item
  <2> QED BY <2>1, ItemSeqs
<1>6. t # None
  BY NoneAssumption
<1>7. ASSUME NEW v \in Workers, v # w, cur[v] # None PROVE LaneOf[cur[v]] # LaneOf[t]
  <2>1. cur[v] \in Tasks
    BY <1>7 DEF Types, TypeOK
  <2>2. CASE mgr = "async"
    <3>1. cur[v] # t
      BY <1>6, <1>7, <2>2 DEF LanesInv, Apart
    <3> QED BY <2>1, <2>2, <3>1, LaneFacts
  <2>3. CASE mgr # "async"
    <3>1. QueueFor(cur[v]) = v /\ QueueFor(t) = w
      BY <1>6, <1>7, <2>3 DEF LanesInv, Apart
    <3> QED BY <1>7, <3>1 DEF QueueFor
  <2> QED BY <2>2, <2>3
<1>8. ASSUME NEW l \in Lanes, IsLane(l) PROVE Line(l)' = Line(l)
  <2>1. Line(l) = Called(l) \o Done(l) \o Held(l) \o Queued(l)
    BY <1>8, LineParts
  <2>2. Line(l)' = Called(l)' \o Done(l)' \o Held(l)' \o Queued(l)'
    BY <1>1, <1>8, LineNext
  <2>3. Called(l)' = Called(l) /\ Queued(l)' = Queued(l)
    BY <1>1, <1>4 DEF Called, Queued
  <2>4. /\ Called(l) \in Seq(Tasks) /\ Done(l) \in Seq(Tasks)
        /\ Held(l) \in Seq(Tasks) /\ Queued(l) \in Seq(Tasks)
    BY <1>8, PartTypes
  <2>5. Done(l)' = Done(l) \o Piece(LaneOf, l, t)
    <3>1. done_tasks \in Seq(Item) /\ t \in Item
      BY ItemSeqs DEF Item
    <3>2. InLane(Append(done_tasks, t), LaneOf, l) = InLane(done_tasks, LaneOf, l) \o Piece(LaneOf, l, t)
      BY <3>1, InLaneAppend
    <3> QED BY <1>2, <1>4, <3>2 DEF Done
  <2>6. CASE LaneOf[t] = l
    <3>1. Held(l) = <<t>>
      <4>1. \A v \in Workers \ {w} : cur[v] # None => LaneOf[cur[v]] # l
        BY <1>7, <2>6
      <4>2. InLane(Hand(cur), LaneOf, l) = <<cur[w]>>
        BY <1>5, <1>6, <2>6, <4>1, HandSole
      <4> QED BY <4>2 DEF Held
    <3>2. Held(l)' = <<>>
      <4>1. \A v \in Workers : cur'[v] # None => LaneOf[cur'[v]] # l
        BY <1>3, <1>7, <2>6
      <4>2. InLane(Hand(cur'), LaneOf, l) = <<>>
        BY <1>5, <4>1, HandNone
      <4> QED BY <1>4, <4>2 DEF Held, Hand
    <3>3. Done(l)' = Done(l) \o <<t>>
      BY <1>6, <2>5, <2>6 DEF Piece
    <3> PICK x, y, z : x = Called(l) /\ y = Done(l) /\ z = Queued(l)
      OBVIOUS
    <3>4. x \in Seq(Tasks) /\ y \in Seq(Tasks) /\ <<t>> \in Seq(Tasks)
      BY <2>4
    <3>5. (x \o (y \o <<t>>)) \o <<>> = (x \o y) \o <<t>>
      <4>1. x \o (y \o <<t>>) \in Seq(Tasks)
        BY <3>4, ConcatProperties
      <4>2. (x \o (y \o <<t>>)) \o <<>> = x \o (y \o <<t>>)
        BY <4>1, Neutral
      <4> QED BY <3>4, <4>2, Associative
    <3> QED BY <2>1, <2>2, <2>3, <3>1, <3>2, <3>3, <3>5
  <2>7. CASE LaneOf[t] # l
    <3>1. Held(l)' = Held(l)
      <4>1. \A v \in Workers : Piece(LaneOf, l, cur'[v]) = Piece(LaneOf, l, cur[v])
        BY <1>3, <2>7 DEF Piece
      <4>2. InLane(Hand(cur'), LaneOf, l) = InLane(Hand(cur), LaneOf, l)
        BY <1>5, <4>1, HandSame
      <4> QED BY <1>4, <4>2 DEF Held, Hand
    <3>2. Done(l)' = Done(l)
      <4>1. Done(l)' = Done(l) \o <<>>
        BY <2>5, <2>7 DEF Piece
      <4> QED BY <2>4, <4>1, Neutral
    <3> QED BY <2>1, <2>2, <2>3, <3>1, <3>2
  <2> QED BY <2>6, <2>7
<1>9. \A l \in Lanes : Line(l)' = Line(l)
  BY <1>1, <1>8, LineSame
<1> QED BY <1>1, <1>9

\* What a thread does without a task is not seen.
LEMMA MoveStill ==
  ASSUME UNCHANGED <<mgr, is_running, tasks, done_tasks, handling, cur, answered>>
  PROVE  UNCHANGED Contract!vars
<1>1. \A l \in Lanes : Line(l)' = Line(l)
  BY LineSame
<1> QED BY <1>1, LanesStay, StillStep

LEMMA ThreadStep ==
  ASSUME Types, Types', LanesInv, NEW w \in Workers, ThreadLoop(w) \/ WakeUp(w)
  PROVE  UNCHANGED Contract!vars
<1> USE DEF lifeVars, historyVars
<1>1. CASE AsyncLoop(w) \/ MongoLoop(w) \/ RedisLoop(w)
  BY <1>1, MoveStill DEF AsyncLoop, MongoLoop, RedisLoop
<1>2. CASE SetupCtx(w) \/ Idle(w) \/ Wait(w) \/ WakeUp(w)
  BY <1>2, MoveStill DEF SetupCtx, Idle, Wait, WakeUp
<1>3. CASE TakeTask(w)
  BY <1>3, TakeLines, LanesStay, StillStep
<1>4. CASE AsyncTaskDone(w) \/ MongoTaskDone(w) \/ RedisTaskDone(w)
  <2>1. TaskDone(w)
    BY <1>4 DEF AsyncTaskDone, MongoTaskDone, RedisTaskDone
  <2> QED BY <2>1, DoneLines, LanesStay, StillStep
<1> QED BY <1>1, <1>2, <1>3, <1>4 DEF ThreadLoop

\* The done tasks are called back before any that is done later.
LEMMA FrameStep ==
  ASSUME Types, Types', OnFrame
  PROVE  UNCHANGED Contract!vars
<1>1. UNCHANGED <<mgr, is_running, tasks, cur, answered>>
  BY DEF OnFrame, lifeVars, historyVars
<1>2. handling = <<>> /\ handling' = done_tasks /\ done_tasks' = <<>>
  BY DEF OnFrame
<1>3. LaneOf' = LaneOf /\ \A k : QueueOfLane(k)' = QueueOfLane(k)
  BY <1>1, LanesStay
<1>4. ASSUME NEW l \in Lanes, IsLane(l) PROVE Line(l)' = Line(l)
  <2>1. Line(l) = Called(l) \o Done(l) \o Held(l) \o Queued(l)
    BY <1>4, LineParts
  <2>2. Line(l)' = Called(l)' \o Done(l)' \o Held(l)' \o Queued(l)'
    BY <1>1, <1>4, LineNext
  <2>3. Held(l)' = Held(l) /\ Queued(l)' = Queued(l)
    BY <1>1, <1>3 DEF Held, Queued, Hand
  <2>4. Called(l) = <<>> /\ Called(l)' = Done(l) /\ Done(l)' = <<>>
    BY <1>2, <1>3, InLaneEmpty DEF Called, Done
  <2>5. Done(l) \o <<>> = Done(l) /\ <<>> \o Done(l) = Done(l)
    BY <1>4, PartTypes, Neutral
  <2> QED BY <2>1, <2>2, <2>3, <2>4, <2>5
<1>5. \A l \in Lanes : Line(l)' = Line(l)
  BY <1>1, <1>4, LineSame
<1> QED BY <1>1, <1>3, <1>5, StillStep

\* A callback is that of the first task of its line.
LEMMA ResultStep ==
  ASSUME Types, Types', LanesInv, HandleResult
  PROVE  Contract!Next
<1>1. UNCHANGED <<mgr, is_running, tasks, done_tasks, cur>>
  BY DEF HandleResult, lifeVars
<1>2. handling # <<>> /\ handling' = Tail(handling) /\ answered' = answered \cup {Head(handling)}
  BY DEF HandleResult
<1>3. LaneOf' = LaneOf /\ \A k : QueueOfLane(k)' = QueueOfLane(k)
  BY <1>1, LanesStay
<1>4. handling \in Seq(Tasks) /\ handling \in Seq(Item)
  BY ItemSeqs DEF Types, TypeOK
<1>5. Head(handling) \in Tasks
  BY <1>2, <1>4
<1> PICK t \in Tasks : t = Head(handling)
  BY <1>5
<1>6. t # None
  BY NoneAssumption
<1>7. ASSUME NEW l \in Lanes, IsLane(l)
      PROVE  /\ LaneOf[t] # l => Line(l)' = Line(l)
             /\ LaneOf[t] = l => Line(l) # <<>> /\ Head(Line(l)) = t /\ Line(l)' = Tail(Line(l))
  <2>1. Line(l) = Called(l) \o Done(l) \o Held(l) \o Queued(l)
    BY <1>7, LineParts
  <2>2. Line(l)' = Called(l)' \o Done(l)' \o Held(l)' \o Queued(l)'
    BY <1>1, <1>7, LineNext
  <2>3. Done(l)' = Done(l) /\ Held(l)' = Held(l) /\ Queued(l)' = Queued(l)
    BY <1>1, <1>3 DEF Done, Held, Queued, Hand
  <2>4. Called(l) = Piece(LaneOf, l, t) \o Called(l)'
    <3>1. InLane(handling, LaneOf, l) = Piece(LaneOf, l, Head(handling)) \o InLane(Tail(handling), LaneOf, l)
      BY <1>2, <1>4, InLaneHead
    <3> QED BY <1>2, <1>3, <3>1 DEF Called
  <2>5. Called(l)' \in Seq(Tasks)
    <3>1. Tail(handling) \in Seq(Item)
      BY <1>2, <1>4
    <3>2. InLane(Tail(handling), LaneOf, l) \in Seq(Tasks)
      BY <3>1, InLaneType
    <3> QED BY <1>2, <1>3, <3>2 DEF Called
  <2>6. CASE LaneOf[t] # l
    <3>1. Called(l) = <<>> \o Called(l)'
      BY <2>4, <2>6 DEF Piece
    <3>2. Called(l) = Called(l)'
      BY <2>5, <3>1, Neutral
    <3> QED BY <2>1, <2>2, <2>3, <2>6, <3>2
  <2>7. CASE LaneOf[t] = l
    <3>1. Called(l) = <<t>> \o Called(l)'
      BY <1>6, <2>4, <2>7 DEF Piece
    <3>2. Done(l) \in Seq(Tasks) /\ Held(l) \in Seq(Tasks) /\ Queued(l) \in Seq(Tasks)
      BY <1>7, PartTypes
    <3>3. Line(l) = <<t>> \o Line(l)'
      <4>1. PICK x, y, u, v \in Seq(Tasks) : x = Called(l)' /\ y = Done(l) /\ u = Held(l) /\ v = Queued(l)
        BY <2>5, <3>2
      <4>2. <<t>> \in Seq(Tasks)
        OBVIOUS
      <4>3. (<<t>> \o x) \o y = <<t>> \o (x \o y)
        BY <4>2, Associative
      <4>4. x \o y \in Seq(Tasks)
        BY ConcatProperties
      <4>5. (<<t>> \o (x \o y)) \o u = <<t>> \o ((x \o y) \o u)
        BY <4>2, <4>4, Associative
      <4>6. (x \o y) \o u \in Seq(Tasks)
        BY <4>4, ConcatProperties
      <4>7. (<<t>> \o ((x \o y) \o u)) \o v = <<t>> \o (((x \o y) \o u) \o v)
        BY <4>2, <4>6, Associative
      <4> QED BY <2>1, <2>2, <2>3, <3>1, <4>1, <4>3, <4>5, <4>7
    <3>4. Line(l)' \in Seq(Tasks)
      BY <2>2, <2>3, <2>5, <3>2, ConcatProperties
    <3>5. PICK z \in Seq(Tasks) : z = Line(l)'
      BY <3>4
    <3>6. <<t>> \o z # <<>> /\ Head(<<t>> \o z) = t /\ Tail(<<t>> \o z) = z
      OBVIOUS
    <3> QED BY <2>7, <3>3, <3>5, <3>6
  <2> QED BY <2>6, <2>7
<1>8. LaneOf[t] \in Lanes /\ IsLane(LaneOf[t])
  BY LaneFacts DEF IsLane
<1>9. Line(LaneOf[t]) # <<>> /\ t = Head(Line(LaneOf[t]))
  BY <1>7, <1>8
<1>10. \A l \in Lanes : Line(l)' = IF l = LaneOf[t] THEN Tail(Line(l)) ELSE Line(l)
  <2> TAKE l \in Lanes
  <2>1. CASE IsLane(l)
    BY <1>7, <2>1
  <2>2. CASE ~IsLane(l)
    BY <1>1, <1>8, <2>2, LineSame
  <2> QED BY <2>1, <2>2
<1>11. is_running
  BY <1>2 DEF LanesInv, Stopped
<1>12. Contract!Answer(t)
  BY <1>1, <1>2, <1>3, <1>8, <1>9, <1>10, <1>11, AnswerStep
<1> QED BY <1>12, StepsDo

\* A task that is accepted is the last of its line.
LEMMA AddStep ==
  ASSUME Types, Types', LanesInv, NEW t \in Tasks, AddTask(t)
  PROVE  Contract!Next
<1>1. t \notin accepted /\ QueueFor(t) \in Workers /\ Push(t, QueueFor(t))
  BY Added
<1> PICK q \in Workers : q = QueueFor(t)
  BY <1>1
<1>2. UNCHANGED <<mgr, is_running, done_tasks, handling, cur, answered>>
  BY <1>1 DEF Push, lifeVars
<1>3. \A p \in Workers : tasks'[p] = IF p = q THEN Append(tasks[q], t) ELSE tasks[p]
  BY <1>1 DEF Push, Types, TypeOK
<1>4. LaneOf' = LaneOf /\ \A k : QueueOfLane(k)' = QueueOfLane(k)
  BY <1>2, LanesStay
<1>5. tasks[q] \in Seq(Item) /\ t \in Item /\ t # None
  BY ItemSeqs, NoneAssumption DEF Item
<1>6. ASSUME NEW l \in Lanes, IsLane(l)
      PROVE  /\ LaneOf[t] # l => Line(l)' = Line(l)
             /\ LaneOf[t] = l => Line(l)' = Append(Line(l), t)
  <2>1. Line(l) = Called(l) \o Done(l) \o Held(l) \o Queued(l)
    BY <1>6, LineParts
  <2>2. Line(l)' = Called(l)' \o Done(l)' \o Held(l)' \o Queued(l)'
    BY <1>2, <1>6, LineNext
  <2>3. Called(l)' = Called(l) /\ Done(l)' = Done(l) /\ Held(l)' = Held(l)
    BY <1>2, <1>4 DEF Called, Done, Held, Hand
  <2>4. QueueOfLane(l) \in Workers
    BY <1>6, LaneQueues
  <2>5. QueueOfLane(l) # q => Queued(l)' = Queued(l)
    BY <1>3, <1>4, <2>4 DEF Queued
  <2>6. QueueOfLane(l) = q => Queued(l)' = Queued(l) \o Piece(LaneOf, l, t)
    <3>1. InLane(Append(tasks[q], t), LaneOf, l) = InLane(tasks[q], LaneOf, l) \o Piece(LaneOf, l, t)
      BY <1>5, InLaneAppend
    <3> QED BY <1>3, <1>4, <3>1 DEF Queued
  <2>7. /\ Called(l) \in Seq(Tasks) /\ Done(l) \in Seq(Tasks)
        /\ Held(l) \in Seq(Tasks) /\ Queued(l) \in Seq(Tasks)
    BY <1>6, PartTypes
  <2>8. CASE LaneOf[t] # l
    <3>1. Queued(l)' = Queued(l)
      <4>1. CASE QueueOfLane(l) = q
        <5>1. Queued(l)' = Queued(l) \o <<>>
          BY <2>6, <2>8, <4>1 DEF Piece
        <5> QED BY <2>7, <5>1, Neutral
      <4> QED BY <2>5, <4>1
    <3> QED BY <2>1, <2>2, <2>3, <2>8, <3>1
  <2>9. CASE LaneOf[t] = l
    <3>1. QueueOfLane(l) = q
      BY <2>9 DEF QueueFor
    <3>2. Queued(l)' = Queued(l) \o <<t>>
      BY <1>5, <2>6, <2>9, <3>1 DEF Piece
    <3> PICK x, z : x = Called(l) \o Done(l) \o Held(l) /\ z = Queued(l)
      OBVIOUS
    <3>3. x \in Seq(Tasks) /\ z \in Seq(Tasks) /\ <<t>> \in Seq(Tasks)
      BY <2>7, ConcatProperties
    <3>4. x \o (z \o <<t>>) = (x \o z) \o <<t>>
      BY <3>3, Associative
    <3>5. x \o z \in Seq(Tasks)
      BY <3>3, ConcatProperties
    <3>6. (x \o z) \o <<t>> = Append(x \o z, t)
      <4> PICK s \in Seq(Tasks) : s = x \o z
        BY <3>5
      <4>1. s \o <<t>> = Append(s, t)
        OBVIOUS
      <4> QED BY <4>1
    <3> QED BY <2>1, <2>2, <2>3, <2>9, <3>2, <3>4, <3>6
  <2> QED BY <2>8, <2>9
<1>7. LaneOf[t] \in Lanes /\ IsLane(LaneOf[t])
  BY LaneFacts DEF IsLane
<1>8. \A l \in Lanes : Line(l)' = IF l = LaneOf[t] THEN Append(Line(l), t) ELSE Line(l)
  <2> TAKE l \in Lanes
  <2>1. CASE IsLane(l)
    BY <1>6, <2>1
  <2>2. CASE ~IsLane(l)
    BY <1>2, <1>7, <2>2, LineSame
  <2> QED BY <2>1, <2>2
<1>9. answered \subseteq accepted /\ \A l \in Lanes : Line(l) \in Seq(accepted)
  BY LineAccepted DEF LanesInv, Placed
<1>10. Contract!Accept(t)
  BY <1>1, <1>2, <1>4, <1>7, <1>8, <1>9, AcceptStep
<1> QED BY <1>10, StepsDo

LEMMA LineTypes ==
  ASSUME Types, LanesInv, NEW l
  PROVE  /\ Contract!IsPrefix(Line(l), Line(l)) /\ Contract!IsPrefix(<<>>, Line(l))
BY LineAccepted, PrefixSame, PrefixEmpty

LEMMA StartStep ==
  ASSUME Types, LanesInv, Start
  PROVE  Contract!Next \/ UNCHANGED Contract!vars
<1>1. UNCHANGED <<mgr, tasks, done_tasks, handling, cur, answered>>
  BY DEF Start, AsyncStart, MongoStart, RedisStart, Launch, historyVars
<1>2. \A l \in Lanes : Line(l)' = Line(l)
  BY <1>1, LineSame
<1>3. CASE Launch
  <2>1. is_running' = ~is_running
    BY <1>3 DEF Start, AsyncStart, MongoStart, RedisStart, Launch
  <2>2. \A l \in Lanes : Contract!IsPrefix(Line(l)', Line(l))
    BY <1>2, LineTypes
  <2> QED BY <1>1, <2>1, <2>2, LanesStay, SwitchStep, StepsDo
<1>4. CASE ~Launch
  <2>1. UNCHANGED is_running
    BY <1>4 DEF Start, AsyncStart, MongoStart, RedisStart
  <2> QED BY <1>1, <1>2, <2>1, LanesStay, StillStep
<1> QED BY <1>3, <1>4

\* A stop drops what is queued, if anything: the ends of the lines.
LEMMA StopLines ==
  ASSUME Types, Types', LanesInv, Stop
  PROVE  Contract!Next
<1>1. UNCHANGED <<mgr, done_tasks, handling, cur, answered>> /\ is_running' = ~is_running
  BY DEF Stop, AsyncStop, MongoStop, RedisStop, historyVars
<1>2. \A q \in Workers : tasks'[q] = tasks[q] \/ tasks'[q] = <<>>
  BY DEF Stop, AsyncStop, MongoStop, RedisStop, Types, TypeOK
<1>3. LaneOf' = LaneOf /\ \A k : QueueOfLane(k)' = QueueOfLane(k)
  BY <1>1, LanesStay
<1>4. ASSUME NEW l \in Lanes, IsLane(l) PROVE Contract!IsPrefix(Line(l)', Line(l))
  <2>1. Line(l) = Called(l) \o Done(l) \o Held(l) \o Queued(l)
    BY <1>4, LineParts
  <2>2. Line(l)' = Called(l)' \o Done(l)' \o Held(l)' \o Queued(l)'
    BY <1>1, <1>4, LineNext
  <2>3. Called(l)' = Called(l) /\ Done(l)' = Done(l) /\ Held(l)' = Held(l)
    BY <1>1, <1>3 DEF Called, Done, Held, Hand
  <2>4. Queued(l)' = Queued(l) \/ Queued(l)' = <<>>
    <3>1. QueueOfLane(l) \in Workers
      BY <1>4, LaneQueues
    <3> QED BY <1>2, <1>3, <3>1, InLaneEmpty DEF Queued
  <2>5. /\ Called(l) \in Seq(Tasks) /\ Done(l) \in Seq(Tasks)
        /\ Held(l) \in Seq(Tasks) /\ Queued(l) \in Seq(Tasks)
    BY <1>4, PartTypes
  <2> PICK x, z : x = Called(l) \o Done(l) \o Held(l) /\ z = Queued(l)
    OBVIOUS
  <2>6. x \in Seq(Tasks) /\ z \in Seq(Tasks)
    BY <2>5, ConcatProperties
  <2>7. x \o z \in Seq(Tasks) /\ x \o <<>> = x
    BY <2>6, Neutral, ConcatProperties
  <2>8. Contract!IsPrefix(x \o z, x \o z)
    BY <2>7, PrefixSame
  <2>9. Contract!IsPrefix(x, x \o z)
    BY <2>6, PrefixOf
  <2> QED BY <2>1, <2>2, <2>3, <2>4, <2>7, <2>8, <2>9
<1>5. ASSUME NEW l \in Lanes PROVE Contract!IsPrefix(Line(l)', Line(l))
  <2>1. CASE IsLane(l)
    BY <1>4, <2>1
  <2>2. CASE ~IsLane(l)
    BY <1>1, <2>2, LineSame, LineTypes
  <2> QED BY <2>1, <2>2
<1> QED BY <1>1, <1>3, <1>5, SwitchStep, StepsDo

\* When all threads have ended, what is left is dropped.
LEMMA JoinedLines ==
  ASSUME Types, Types', LanesInv, AllJoined,
         (mgr = "async" /\ UNCHANGED tasks) \/ tasks' = [w \in Workers |-> <<>>]
  PROVE  Contract!Next
<1>1. UNCHANGED <<mgr, is_running, handling, cur, answered>> /\ done_tasks' = <<>>
  BY DEF AllJoined
<1>2. /\ ~is_running /\ handling = <<>> /\ \A w \in Workers : cur[w] = None
      /\ mgr = "async" => tasks[0] = <<>>
  BY JoinedAll
<1>3. LaneOf' = LaneOf /\ \A k : QueueOfLane(k)' = QueueOfLane(k)
  BY <1>1, LanesStay
<1>4. ASSUME NEW l \in Lanes, IsLane(l) PROVE Line(l)' = <<>>
  <2>1. Line(l)' = Called(l)' \o Done(l)' \o Held(l)' \o Queued(l)'
    BY <1>1, <1>4, LineNext
  <2>2. Called(l)' = <<>> /\ Done(l)' = <<>>
    BY <1>1, <1>2, InLaneEmpty DEF Called, Done
  <2>3. Held(l)' = <<>>
    <3>1. cur' \in [Workers -> Item] /\ \A w \in Workers : cur'[w] = None
      BY <1>1, <1>2, ItemSeqs
    <3>2. InLane(Hand(cur'), LaneOf', l) = <<>>
      BY <3>1, HandNone
    <3> QED BY <3>2 DEF Held, Hand
  <2>4. Queued(l)' = <<>>
    <3>1. tasks'[QueueOfLane(l)] = <<>>
      <4>1. CASE mgr = "async" /\ UNCHANGED tasks
        BY <1>2, <4>1 DEF QueueOfLane
      <4>2. CASE tasks' = [w \in Workers |-> <<>>]
        BY <1>4, <4>2, LaneQueues
      <4> QED BY <4>1, <4>2
    <3> QED BY <1>3, <3>1, InLaneEmpty DEF Queued
  <2>5. <<>> \o <<>> = <<>>
    OBVIOUS
  <2> QED BY <2>1, <2>2, <2>3, <2>4, <2>5
<1>5. ASSUME NEW l \in Lanes PROVE Contract!IsPrefix(Line(l)', Line(l))
  <2>1. CASE IsLane(l)
    BY <1>4, <2>1, LineTypes
  <2>2. CASE ~IsLane(l)
    BY <1>1, <2>2, LineSame, LineTypes
  <2> QED BY <2>1, <2>2
<1> QED BY <1>1, <1>2, <1>3, <1>5, DropStep, StepsDo

LEMMA StopStepStep ==
  ASSUME Types, Types', LanesInv, StopStep
  PROVE  Contract!Next \/ UNCHANGED Contract!vars
<1> USE DEF historyVars
<1>1. ASSUME NEW w \in Workers, AsyncTell(w) \/ AsyncNotify(w) \/ MongoNotify(w) \/ RedisNotify(w)
      PROVE  UNCHANGED Contract!vars
  BY <1>1, MoveStill DEF AsyncTell, AsyncNotify, MongoNotify, RedisNotify
<1>2. ASSUME NEW w \in Workers, Joined(w, "notify") PROVE UNCHANGED Contract!vars
  BY <1>2, MoveStill DEF Joined
<1>3. ASSUME AllJoined, (mgr = "async" /\ UNCHANGED tasks) \/ tasks' = [w \in Workers |-> <<>>]
      PROVE  Contract!Next
  BY <1>3, JoinedLines
<1> QED BY <1>1, <1>2, <1>3 DEF StopStep, AsyncJoined, MongoJoined, RedisJoined

LEMMA ContractInit == Init => Contract!Init
<1> SUFFICES ASSUME Init PROVE Contract!Init
  OBVIOUS
<1>1. Types
  BY InitTypes
<1>2. LaneOf \in [Tasks -> Lanes]
  BY HashAssumption DEF LaneOf, Lanes
<1>3. ASSUME NEW l \in Lanes PROVE Line(l) = <<>>
  <2>1. CASE ~IsLane(l)
    BY <2>1 DEF Line, IsLane
  <2>2. CASE IsLane(l)
    <3>1. Line(l) = Called(l) \o Done(l) \o Held(l) \o Queued(l)
      BY <1>1, <2>2, LineParts
    <3>2. Called(l) = <<>> /\ Done(l) = <<>>
      BY InLaneEmpty DEF Init, Called, Done
    <3>3. Held(l) = <<>>
      <4>1. cur \in [Workers -> Item] /\ \A w \in Workers : cur[w] = None
        BY <1>1, ItemSeqs DEF Init
      <4> QED BY <4>1, HandNone DEF Held
    <3>4. Queued(l) = <<>>
      <4>1. tasks[QueueOfLane(l)] = <<>>
        BY <2>2, LaneQueues DEF Init
      <4> QED BY <4>1, InLaneEmpty DEF Queued
    <3>5. <<>> \o <<>> = <<>>
      OBVIOUS
    <3> QED BY <3>1, <3>2, <3>3, <3>4, <3>5
  <2> QED BY <2>1, <2>2
<1>4. [l \in Lanes |-> Line(l)] = [l \in Lanes |-> <<>>]
  BY <1>3
<1>5. answered = {} /\ is_running = FALSE
  BY DEF Init
<1> QED BY <1>2, <1>4, <1>5 DEF Contract!Init

LEMMA ContractStep ==
  Types /\ Types' /\ LanesInv /\ [Next]_vars => Contract!Next \/ UNCHANGED Contract!vars
<1> SUFFICES ASSUME Types, Types', LanesInv, [Next]_vars
             PROVE  Contract!Next \/ UNCHANGED Contract!vars
  OBVIOUS
<1>1. CASE Start
  BY <1>1, StartStep
<1>2. CASE Stop
  BY <1>2, StopLines
<1>3. CASE StopStep
  BY <1>3, StopStepStep
<1>4. ASSUME NEW t \in Tasks, AddTask(t) PROVE Contract!Next
  BY <1>4, AddStep
<1>5. CASE OnFrame
  BY <1>5, FrameStep
<1>6. CASE HandleResult
  BY <1>6, ResultStep
<1>7. ASSUME NEW w \in Workers, ThreadLoop(w) \/ WakeUp(w) PROVE UNCHANGED Contract!vars
  BY <1>7, ThreadStep
<1>8. CASE UNCHANGED vars
  BY <1>8, MoveStill DEF vars
<1> QED BY <1>1, <1>2, <1>3, <1>4, <1>5, <1>6, <1>7, <1>8 DEF Next

\* Whatever the number of threads and tasks, a task that was accepted is
\* answered at most once, in the order of its lane, and never once a stop has
\* begun: the queues, the threads and the frames implement TaskPool
\* (async_task_mgr.cpp:36-133, mongo_task_mgr.cpp:61-101, redis_task_mgr.cpp:63-106).
THEOREM TasksKeepContract == Spec => KeepsContract
<1>1. Init => Types /\ LanesInv
  BY InitTypes, InitLanes
<1>2. (Types /\ LanesInv) /\ [Next]_vars => (Types /\ LanesInv)'
  BY StepTypes, StepLanes
<1>3. Spec => [](Types /\ LanesInv)
  BY <1>1, <1>2, PTL DEF Spec
<1>4. Types /\ LanesInv /\ (Types /\ LanesInv)' /\ [Next]_vars => [Contract!Next]_Contract!vars
  BY ContractStep
<1> QED BY <1>3, <1>4, ContractInit, PTL DEF Spec, KeepsContract, Contract!Spec

-----------------------------------------------------------------------------
(***************************************************************************)
(* The ids that tasks of the database client draw (DbUuid), for any number *)
(* of services and any batch size.  NeverTwice is not inductive: the       *)
(* argument is that every id up to last_id is in at most one place (a      *)
(* pool, or a batch on its way to one) as long as it has not been handed   *)
(* out, and in none afterwards.                                            *)
(***************************************************************************)
\* The batch on its way to the pool of s, and all the ids s has or will get.
Awaited(s) == IF task[s] = "done" THEN Batch(to_id[s]) ELSE {}
Holding(s) == ids[s] \cup Awaited(s)

\* A query that is done returned a value the counter had, with a whole batch
\* below it.
DoneOK == \A s \in Services : task[s] = "done" => to_id[s] \in Apply_Uuid_Count..last_id

\* No id is above the counter, or in two places.
InOnePlace ==
    /\ \A s \in Services : ids[s] \subseteq 1..last_id
    /\ \A s \in Services : ids[s] \cap Awaited(s) = {}
    /\ \A s, t \in Services : s # t => Holding(s) \cap Holding(t) = {}

\* An id that was handed out is not above the counter and nowhere else.
Spent ==
    /\ \A i \in Ids : handed[i] \in {0, 1}
    /\ \A i \in Ids : handed[i] = 1 => i <= last_id
    /\ \A s \in Services : \A i \in Holding(s) : handed[i] = 0

\* ids_count counts the pool, and a low pool is querying.
Counted ==
    \A s \in Services :
      /\ IsFiniteSet(ids[s]) /\ Cardinality(ids[s]) = ids_count[s]
      /\ state[s] \in {"starting", "started"} /\ ids_count[s] <= Hold_Uuid_Min_Count
           => querying[s]
      /\ querying[s] => task[s] # "none" \/ erred[s]

UuidInv == UuidTypeOK /\ DoneOK /\ InOnePlace /\ Spent /\ Counted

-----------------------------------------------------------------------------
LEMMA BatchFacts ==
  ASSUME NEW to \in 0..MaxId, to \in Apply_Uuid_Count..last_id, UuidTypeOK
  PROVE  /\ Batch(to) \subseteq Ids
         /\ Batch(to) \subseteq 1..last_id
         /\ IsFiniteSet(Batch(to)) /\ Cardinality(Batch(to)) = Apply_Uuid_Count
<1>1. /\ Apply_Uuid_Count \in Nat /\ Apply_Uuid_Count > 0 /\ to \in Nat
      /\ MaxId \in Nat /\ last_id \in 0..MaxId
  BY UuidAssumption DEF UuidTypeOK
<1>2. Batch(to) \subseteq 1..last_id /\ Batch(to) \subseteq Ids
  BY <1>1 DEF Batch, Ids
<1>3. IsFiniteSet(Batch(to)) /\ Cardinality(Batch(to)) = Apply_Uuid_Count
  BY <1>1, FS_Interval DEF Batch
<1>4. QED BY <1>2, <1>3

LEMMA InitUuidInv == UuidInit => UuidInv
<1> SUFFICES ASSUME UuidInit PROVE UuidInv
  OBVIOUS
<1>1. UuidTypeOK
  BY UuidAssumption DEF UuidInit, UuidTypeOK, States, QueryStates
<1>2. DoneOK /\ InOnePlace /\ Spent
  BY DEF UuidInit, DoneOK, InOnePlace, Spent, Holding, Awaited
<1>3. Counted
  BY FS_EmptySet DEF UuidInit, Counted
<1>4. QED BY <1>1, <1>2, <1>3 DEF UuidInv

\* A query, sent unless one is out.
LEMMA QueryFacts ==
  ASSUME UuidInv, NEW s \in Services, Query(s)
  PROVE  /\ querying' \in [Services -> BOOLEAN] /\ task' \in [Services -> QueryStates]
         /\ querying'[s] /\ (task'[s] # "none" \/ erred[s])
         /\ \A t \in Services : t # s => querying'[t] = querying[t] /\ task'[t] = task[t]
         /\ \A t \in Services : task'[t] = "done" => task[t] = "done"
BY DEF Query, UuidInv, UuidTypeOK, Counted, QueryStates

LEMMA StartInv ==
  ASSUME UuidInv, NEW s \in Services, StartModule(s) PROVE UuidInv'
<1>1. /\ querying' \in [Services -> BOOLEAN] /\ task' \in [Services -> QueryStates]
      /\ state' \in [Services -> States]
      /\ \A t \in Services : t # s =>
            querying'[t] = querying[t] /\ task'[t] = task[t] /\ state'[t] = state[t]
      /\ \A t \in Services : task'[t] = "done" => task[t] = "done"
      /\ state'[s] \in {"starting", "started"} => querying'[s]
      /\ querying'[s] => task'[s] # "none" \/ erred[s]
  BY QueryFacts DEF StartModule, UuidInv, UuidTypeOK, States, Counted
<1>2. UNCHANGED <<last_id, ids, ids_count, to_id, stops, handed, erred>>
  BY DEF StartModule
<1>3. UuidTypeOK'
  BY <1>1, <1>2 DEF UuidInv, UuidTypeOK
<1>4. DoneOK'
  BY <1>1, <1>2 DEF UuidInv, DoneOK
<1>5. \A t \in Services : Awaited(t)' \subseteq Awaited(t) /\ Holding(t)' \subseteq Holding(t)
  BY <1>1, <1>2 DEF Awaited, Holding
<1>6. InOnePlace' /\ Spent'
  BY <1>2, <1>5 DEF UuidInv, InOnePlace, Spent
<1>7. Counted'
  BY <1>1, <1>2 DEF UuidInv, Counted
<1>8. QED BY <1>3, <1>4, <1>6, <1>7 DEF UuidInv

LEMMA CheckStartInv ==
  ASSUME UuidInv, NEW s \in Services, CheckStartSuccess(s) PROVE UuidInv'
<1>1. /\ state' \in [Services -> States]
      /\ \A t \in Services : state'[t] \in {"starting", "started"} =>
            state[t] \in {"starting", "started"}
  BY DEF CheckStartSuccess, UuidInv, UuidTypeOK, States
<1>2. UNCHANGED <<last_id, ids, ids_count, querying, task, to_id, stops, handed, erred>>
  BY DEF CheckStartSuccess
<1>3. UuidTypeOK' /\ DoneOK'
  BY <1>1, <1>2 DEF UuidInv, UuidTypeOK, DoneOK
<1>4. InOnePlace' /\ Spent'
  BY <1>2 DEF UuidInv, InOnePlace, Spent, Holding, Awaited
<1>5. Counted'
  BY <1>1, <1>2 DEF UuidInv, Counted
<1>6. QED BY <1>3, <1>4, <1>5 DEF UuidInv

LEMMA DbRunsInv ==
  ASSUME UuidInv, NEW s \in Services, DbRuns(s) PROVE UuidInv'
<1>1. /\ task' \in [Services -> QueryStates] /\ to_id' \in [Services -> 0..MaxId]
      /\ last_id' \in 0..MaxId /\ last_id <= last_id'
      /\ \A t \in Services : t # s => task'[t] = task[t] /\ to_id'[t] = to_id[t]
      /\ task[s] = "sent" /\ task'[s] # "none"
      /\ task'[s] = "done" => /\ last_id' = last_id + Apply_Uuid_Count
                              /\ to_id'[s] = last_id'
  BY UuidAssumption DEF DbRuns, UuidInv, UuidTypeOK, QueryStates
<1>2. UNCHANGED <<state, ids, ids_count, querying, stops, handed, erred>>
  BY DEF DbRuns
<1>3. UuidTypeOK'
  BY <1>1, <1>2 DEF UuidInv, UuidTypeOK
<1>4. last_id \in Nat /\ last_id' \in Nat /\ Apply_Uuid_Count \in Nat
  BY <1>1, UuidAssumption DEF UuidInv, UuidTypeOK
<1>5. DoneOK'
  <2>1. ASSUME NEW t \in Services, task'[t] = "done"
        PROVE  to_id'[t] \in Apply_Uuid_Count..last_id'
    <3>1. CASE t = s
      BY <1>1, <1>4, <2>1, <3>1
    <3>2. CASE t # s
      BY <1>1, <1>4, <2>1, <3>2 DEF UuidInv, DoneOK
    <3>3. QED BY <3>1, <3>2
  <2>2. QED BY <2>1 DEF DoneOK
<1>6. \A t \in Services : Holding(t) \subseteq 1..last_id /\ ids[t] \subseteq Holding(t)
  <2>1. ASSUME NEW t \in Services, task[t] = "done" PROVE Batch(to_id[t]) \subseteq 1..last_id
    BY <2>1, BatchFacts DEF UuidInv, DoneOK, UuidTypeOK
  <2>2. QED BY <2>1 DEF Holding, Awaited, UuidInv, InOnePlace
<1>7. /\ Awaited(s) = {}
      /\ \A t \in Services : t # s => Awaited(t)' = Awaited(t) /\ Holding(t)' = Holding(t)
      /\ \A i \in Awaited(s)' : i \in Int /\ i > last_id
      /\ Holding(s)' = ids[s] \cup Awaited(s)'
  <2>1. ASSUME task'[s] = "done", NEW i \in Batch(to_id'[s]) PROVE i \in Int /\ i > last_id
    BY <1>1, <1>4, <2>1 DEF Batch
  <2>2. QED BY <1>1, <1>2, <2>1 DEF Awaited, Holding
<1>8. InOnePlace'
  <2>1. \A i \in Awaited(s)', t \in Services : i \notin Holding(t) /\ i \notin ids[t]
    BY <1>4, <1>6, <1>7
  <2>2. \A t \in Services : ids'[t] \subseteq 1..last_id'
    BY <1>1, <1>2, <1>4 DEF UuidInv, InOnePlace
  <2>3. QED BY <1>2, <1>7, <2>1, <2>2 DEF UuidInv, InOnePlace, Holding
<1>9. Spent'
  <2>1. \A i \in Ids : handed'[i] = 1 => i <= last_id'
    BY <1>1, <1>2, <1>4 DEF UuidInv, Spent, Ids
  <2>2. Awaited(s)' \subseteq Ids
    <3>1. CASE task'[s] = "done"
      <4>1. Awaited(s)' = Batch(to_id'[s])
        BY <3>1 DEF Awaited
      <4>2. to_id'[s] \in Apply_Uuid_Count..MaxId
        BY <1>1, <1>4, <3>1, UuidAssumption
      <4>3. QED BY <4>1, <4>2, UuidAssumption DEF Batch, Ids
    <3>2. CASE task'[s] # "done"
      BY <3>2 DEF Awaited
    <3>3. QED BY <3>1, <3>2
  <2>3. ASSUME NEW i \in Awaited(s)' PROVE handed[i] = 0
    <3>1. i \in Ids /\ ~ (i <= last_id)
      BY <1>4, <1>7, <2>2
    <3>2. QED BY <3>1 DEF UuidInv, Spent
  <2>4. QED BY <1>2, <1>7, <2>1, <2>3 DEF UuidInv, Spent, Holding
<1>10. Counted'
  BY <1>1, <1>2 DEF UuidInv, Counted
<1>11. QED BY <1>3, <1>5, <1>8, <1>9, <1>10 DEF UuidInv

LEMMA QueryFailedInv ==
  ASSUME UuidInv, NEW s \in Services, QueryFailed(s) PROVE UuidInv'
<1>1. /\ task' \in [Services -> QueryStates] /\ erred' \in [Services -> BOOLEAN]
      /\ task'[s] = "none" /\ erred'[s]
      /\ \A t \in Services : t # s => task'[t] = task[t] /\ erred'[t] = erred[t]
  BY DEF QueryFailed, UuidInv, UuidTypeOK, QueryStates
<1>2. UNCHANGED <<last_id, state, ids, ids_count, querying, to_id, stops, handed>>
  BY DEF QueryFailed
<1>3. UuidTypeOK' /\ DoneOK'
  BY <1>1, <1>2 DEF UuidInv, UuidTypeOK, DoneOK
<1>4. \A t \in Services : Awaited(t)' \subseteq Awaited(t) /\ Holding(t)' \subseteq Holding(t)
  BY <1>1, <1>2 DEF Awaited, Holding
<1>5. InOnePlace' /\ Spent'
  BY <1>2, <1>4 DEF UuidInv, InOnePlace, Spent
<1>6. Counted'
  BY <1>1, <1>2 DEF UuidInv, Counted
<1>7. QED BY <1>3, <1>5, <1>6 DEF UuidInv

LEMMA QueryDoneInv ==
  ASSUME UuidInv, NEW s \in Services, QueryDone(s) PROVE UuidInv'
<1> DEFINE batch == Batch(to_id[s])
<1>1. /\ batch \subseteq Ids /\ batch \subseteq 1..last_id
      /\ IsFiniteSet(batch) /\ Cardinality(batch) = Apply_Uuid_Count
  BY BatchFacts DEF QueryDone, UuidInv, DoneOK, UuidTypeOK
<1>2. batch = Awaited(s) /\ batch \cap ids[s] = {} /\ batch \ ids[s] = batch
  BY DEF QueryDone, Awaited, UuidInv, InOnePlace
<1> HIDE DEF batch
<1>3. /\ task' = [task EXCEPT ![s] = "none"]
      /\ querying' = [querying EXCEPT ![s] = FALSE]
      /\ ids' = [ids EXCEPT ![s] = @ \cup batch]
      /\ ids_count' = [ids_count EXCEPT ![s] = @ + Apply_Uuid_Count]
      /\ UNCHANGED <<last_id, state, to_id, stops, handed, erred>>
  BY <1>1, <1>2 DEF QueryDone, batch
<1>4. UuidTypeOK'
  <2>1. ids' \in [Services -> SUBSET Ids]
    BY <1>1, <1>3 DEF UuidInv, UuidTypeOK
  <2>2. ids_count' \in [Services -> Nat]
    BY <1>3, UuidAssumption DEF UuidInv, UuidTypeOK
  <2>3. task' \in [Services -> QueryStates] /\ querying' \in [Services -> BOOLEAN]
    BY <1>3 DEF UuidInv, UuidTypeOK, QueryStates
  <2>4. QED BY <1>3, <2>1, <2>2, <2>3 DEF UuidInv, UuidTypeOK
<1>5. DoneOK'
  BY <1>3 DEF UuidInv, UuidTypeOK, DoneOK
<1>6. /\ \A t \in Services : Holding(t)' = Holding(t)
      /\ Awaited(s)' = {} /\ ids'[s] = ids[s] \cup batch
      /\ \A t \in Services : t # s => Awaited(t)' = Awaited(t) /\ ids'[t] = ids[t]
  <2>1. /\ task'[s] = "none" /\ ids'[s] = ids[s] \cup batch
        /\ \A t \in Services : t # s =>
              task'[t] = task[t] /\ ids'[t] = ids[t] /\ to_id'[t] = to_id[t]
    BY <1>3 DEF UuidInv, UuidTypeOK
  <2>2. Awaited(s)' = {}
    BY <2>1 DEF Awaited
  <2>3. \A t \in Services : t # s => Awaited(t)' = Awaited(t)
    BY <2>1 DEF Awaited
  <2>4. QED BY <1>2, <2>1, <2>2, <2>3 DEF Holding
<1>7. InOnePlace' /\ Spent'
  BY <1>1, <1>3, <1>6 DEF UuidInv, InOnePlace, Spent
<1>8. Counted'
  <2>1. /\ IsFiniteSet(ids[s] \cup batch)
        /\ Cardinality(ids[s] \cup batch) = ids_count[s] + Apply_Uuid_Count
    <3>1. ids[s] \cap batch = {} /\ IsFiniteSet(ids[s]) /\ Cardinality(ids[s]) = ids_count[s]
      BY <1>2 DEF UuidInv, Counted
    <3>2. /\ IsFiniteSet(ids[s] \cup batch)
          /\ Cardinality(ids[s] \cup batch) =
                Cardinality(ids[s]) + Cardinality(batch) - Cardinality(ids[s] \cap batch)
      BY <1>1, <3>1, FS_Union
    <3>3. Cardinality(ids[s] \cap batch) = 0
      BY <3>1, FS_EmptySet
    <3>4. ids_count[s] \in Nat /\ Apply_Uuid_Count \in Nat
      BY UuidAssumption DEF UuidInv, UuidTypeOK
    <3>5. QED BY <1>1, <3>1, <3>2, <3>3, <3>4
  <2>2. ids_count'[s] = ids_count[s] + Apply_Uuid_Count /\ ids_count'[s] > Hold_Uuid_Min_Count
    BY <1>3, UuidAssumption DEF UuidInv, UuidTypeOK
  <2>3. ~ querying'[s]
    BY <1>3 DEF UuidInv, UuidTypeOK
  <2>4. \A t \in Services : t # s =>
          /\ ids_count'[t] = ids_count[t] /\ querying'[t] = querying[t] /\ task'[t] = task[t]
    BY <1>3 DEF UuidInv, UuidTypeOK
  <2>5. ids_count'[s] \in Nat /\ Hold_Uuid_Min_Count \in Nat
    BY <1>4, UuidAssumption DEF UuidTypeOK
  <2> DEFINE CountedAt(t) ==
        /\ IsFiniteSet(ids[t]) /\ Cardinality(ids[t]) = ids_count[t]
        /\ state[t] \in {"starting", "started"} /\ ids_count[t] <= Hold_Uuid_Min_Count
             => querying[t]
        /\ querying[t] => task[t] # "none" \/ erred[t]
  <2>6. CountedAt(s)'
    BY <1>6, <2>1, <2>2, <2>3, <2>5
  <2>7. \A t \in Services : t # s => CountedAt(t)'
    BY <1>3, <1>6, <2>4 DEF UuidInv, Counted
  <2>8. QED BY <2>6, <2>7 DEF Counted
<1>9. QED BY <1>4, <1>5, <1>7, <1>8 DEF UuidInv

LEMMA ApplyInv ==
  ASSUME UuidInv, NEW s \in Services, NEW id \in Ids, Apply(s, id) PROVE UuidInv'
<1>1. /\ id \in ids[s] /\ handed[id] = 0 /\ id <= last_id
      /\ IsFiniteSet(ids[s]) /\ Cardinality(ids[s]) = ids_count[s]
  BY DEF Apply, UuidInv, InOnePlace, Spent, Counted, Holding, UuidTypeOK
<1>2. /\ ids' = [ids EXCEPT ![s] = @ \ {id}]
      /\ ids_count' = [ids_count EXCEPT ![s] = @ - 1]
      /\ handed' = [handed EXCEPT ![id] = @ + 1]
      /\ UNCHANGED <<last_id, state, to_id, stops, erred>>
  BY DEF Apply
<1>3. IsFiniteSet(ids[s] \ {id}) /\ Cardinality(ids[s] \ {id}) = ids_count[s] - 1
  BY <1>1, FS_RemoveElement
<1>4. ids_count[s] - 1 \in Nat
  BY <1>3, FS_CardinalityType
<1>5. /\ querying' \in [Services -> BOOLEAN] /\ task' \in [Services -> QueryStates]
      /\ querying'[s] => task'[s] # "none" \/ erred[s]
      /\ \A t \in Services : t # s => querying'[t] = querying[t] /\ task'[t] = task[t]
      /\ \A t \in Services : task'[t] = "done" => task[t] = "done"
      /\ ids_count'[s] <= Hold_Uuid_Min_Count => querying'[s]
  <2>1. CASE Query(s)
    BY <2>1, QueryFacts
  <2>2. CASE ~ (ids_count'[s] <= Hold_Uuid_Min_Count) /\ UNCHANGED <<querying, task>>
    BY <2>2 DEF UuidInv, UuidTypeOK, Counted
  <2>3. QED BY <2>1, <2>2 DEF Apply
<1>6. /\ ids'[s] = ids[s] \ {id} /\ ids_count'[s] = ids_count[s] - 1
      /\ \A t \in Services : t # s => ids'[t] = ids[t] /\ ids_count'[t] = ids_count[t]
      /\ handed'[id] = 1 /\ \A i \in Ids : i # id => handed'[i] = handed[i]
  BY <1>1, <1>2 DEF UuidInv, UuidTypeOK
<1>7. UuidTypeOK'
  <2>1. handed' \in [Ids -> Nat]
    BY <1>1, <1>2 DEF UuidInv, UuidTypeOK
  <2>2. ids' \in [Services -> SUBSET Ids]
    BY <1>2 DEF UuidInv, UuidTypeOK
  <2>3. ids_count' \in [Services -> Nat]
    BY <1>2, <1>4 DEF UuidInv, UuidTypeOK
  <2>4. QED BY <1>2, <1>5, <2>1, <2>2, <2>3 DEF UuidInv, UuidTypeOK
<1>8. DoneOK'
  BY <1>2, <1>5 DEF UuidInv, DoneOK
<1>9. /\ \A t \in Services : ids'[t] \subseteq ids[t]
      /\ \A t \in Services : Awaited(t)' \subseteq Awaited(t) /\ Holding(t)' \subseteq Holding(t)
  BY <1>2, <1>5, <1>6 DEF Awaited, Holding
<1>10. InOnePlace'
  BY <1>2, <1>9 DEF UuidInv, InOnePlace
<1>11. Spent'
  <2>1. \A t \in Services : id \notin Holding(t)'
    <3>1. id \notin Holding(s)'
      BY <1>1, <1>6, <1>9 DEF Holding, UuidInv, InOnePlace
    <3>2. \A t \in Services : t # s => id \notin Holding(t)
      BY <1>1 DEF Holding, UuidInv, InOnePlace
    <3>3. QED BY <1>9, <3>1, <3>2
  <2>2. \A t \in Services : Holding(t) \subseteq Ids
    <3>1. ASSUME NEW t \in Services, task[t] = "done" PROVE Batch(to_id[t]) \subseteq Ids
      BY <3>1, BatchFacts DEF UuidInv, DoneOK, UuidTypeOK
    <3>2. QED BY <3>1 DEF Holding, Awaited, UuidInv, UuidTypeOK
  <2>3. \A t \in Services : \A i \in Holding(t)' : handed'[i] = 0
    <3>1. SUFFICES ASSUME NEW t \in Services, NEW i \in Holding(t)' PROVE handed'[i] = 0
      OBVIOUS
    <3>2. i \in Holding(t) /\ i \in Ids /\ i # id
      BY <1>9, <2>1, <2>2
    <3>3. QED BY <1>6, <3>2 DEF UuidInv, Spent
  <2>4. \A i \in Ids : handed'[i] \in {0, 1} /\ (handed'[i] = 1 => i <= last_id')
    BY <1>1, <1>2, <1>6 DEF UuidInv, Spent
  <2>5. QED BY <2>3, <2>4 DEF Spent
<1>12. Counted'
  <2> DEFINE CountedAt(t) ==
        /\ IsFiniteSet(ids[t]) /\ Cardinality(ids[t]) = ids_count[t]
        /\ state[t] \in {"starting", "started"} /\ ids_count[t] <= Hold_Uuid_Min_Count
             => querying[t]
        /\ querying[t] => task[t] # "none" \/ erred[t]
  <2>1. CountedAt(s)'
    BY <1>2, <1>3, <1>5, <1>6
  <2>2. \A t \in Services : t # s => CountedAt(t)'
    BY <1>2, <1>5, <1>6 DEF UuidInv, Counted
  <2>3. QED BY <2>1, <2>2 DEF Counted
<1>13. QED BY <1>7, <1>8, <1>10, <1>11, <1>12 DEF UuidInv

LEMMA StopInv ==
  ASSUME UuidInv, NEW s \in Services, StopModule(s) PROVE UuidInv'
<1>1. /\ last_id' \in 0..MaxId /\ last_id <= last_id' /\ stops' \in 0..MaxStops
      /\ last_id \in Int /\ last_id' \in Int
  BY UuidAssumption DEF StopModule, UuidInv, UuidTypeOK
<1>2. /\ state' = [state EXCEPT ![s] = "free"]
      /\ ids' = [ids EXCEPT ![s] = {}]
      /\ ids_count' = [ids_count EXCEPT ![s] = 0]
      /\ querying' = [querying EXCEPT ![s] = FALSE]
      /\ task' = [task EXCEPT ![s] = "none"]
      /\ erred' = [erred EXCEPT ![s] = FALSE]
      /\ UNCHANGED <<to_id, handed>>
  BY DEF StopModule
<1>3. UuidTypeOK'
  BY <1>1, <1>2 DEF UuidInv, UuidTypeOK, States, QueryStates
<1>4. \A t \in Services : /\ task'[t] = "done" => task[t] = "done"
                          /\ ids'[t] \subseteq ids[t]
  BY <1>2 DEF UuidInv, UuidTypeOK
<1>5. DoneOK'
  <2>1. \A t \in Services : task'[t] = "done" => to_id'[t] \in Apply_Uuid_Count..last_id
    BY <1>2, <1>4 DEF UuidInv, DoneOK
  <2>2. QED BY <1>1, <2>1, UuidAssumption DEF DoneOK
<1>6. \A t \in Services : Awaited(t)' \subseteq Awaited(t) /\ Holding(t)' \subseteq Holding(t)
  BY <1>2, <1>4 DEF Awaited, Holding
<1>7. InOnePlace'
  <2>1. \A t \in Services : ids'[t] \subseteq 1..last_id'
    BY <1>1, <1>4 DEF UuidInv, InOnePlace
  <2>2. QED BY <1>4, <1>6, <2>1 DEF UuidInv, InOnePlace
<1>8. Spent'
  <2>1. \A i \in Ids : handed'[i] = 1 => i <= last_id'
    BY <1>1, <1>2 DEF UuidInv, Spent, Ids
  <2>2. QED BY <1>2, <1>6, <2>1 DEF UuidInv, Spent
<1>9. Counted'
  <2>1. /\ ids'[s] = {} /\ ids_count'[s] = 0 /\ state'[s] = "free" /\ ~ querying'[s]
        /\ \A t \in Services : t # s =>
              /\ ids'[t] = ids[t] /\ ids_count'[t] = ids_count[t] /\ state'[t] = state[t]
              /\ querying'[t] = querying[t] /\ task'[t] = task[t] /\ erred'[t] = erred[t]
    BY <1>2 DEF UuidInv, UuidTypeOK
  <2>2. QED BY <2>1, FS_EmptySet DEF UuidInv, Counted
<1>10. QED BY <1>3, <1>5, <1>7, <1>8, <1>9 DEF UuidInv

LEMMA UuidInvariant == UuidSpec => []UuidInv
<1>1. UuidInv /\ [UuidNext]_uuidVars => UuidInv'
  <2> SUFFICES ASSUME UuidInv, [UuidNext]_uuidVars PROVE UuidInv'
    OBVIOUS
  <2>1. CASE UuidNext
    BY <2>1, StartInv, CheckStartInv, StopInv, DbRunsInv, QueryFailedInv, QueryDoneInv, ApplyInv
    DEF UuidNext
  <2>2. CASE UNCHANGED uuidVars
    BY <2>2 DEF uuidVars, UuidInv, UuidTypeOK, DoneOK, InOnePlace, Spent, Counted, Holding, Awaited
  <2>3. QED BY <2>1, <2>2
<1>2. QED BY <1>1, InitUuidInv, PTL DEF UuidSpec

\* Types: in particular a pool's count never goes below zero.
THEOREM UuidTypes == UuidSpec => []UuidTypeOK
BY UuidInvariant, PTL DEF UuidInv

\* No id is handed out twice, by one service or by several, whatever queries
\* fail and whichever services stop or crash (database_uuid_module.lua).
THEOREM IdsHandedOnce == UuidSpec => []NeverTwice
<1>1. UuidInv => NeverTwice
  BY DEF UuidInv, Spent, NeverTwice
<1>2. QED BY <1>1, UuidInvariant, PTL

\* A started pool that is down to Hold_Uuid_Min_Count has its next batch on
\* the way, unless a query of it failed.
THEOREM PoolsRefill == UuidSpec => []LowPoolRefills
<1>1. UuidInv => LowPoolRefills
  BY DEF UuidInv, Counted, LowPoolRefills
<1>2. QED BY <1>1, UuidInvariant, PTL
=============================================================================
