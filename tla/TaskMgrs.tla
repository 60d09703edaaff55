------------------------------ MODULE TaskMgrs ------------------------------
(***************************************************************************)
(* A task manager of the engine, of one of the three kinds.                 *)
(***************************************************************************)
EXTENDS AsyncTaskMgr, MongoTaskMgr, RedisTaskMgr

Init ==
  /\ mgr \in {"async", "mongo", "redis"}
  /\ is_running = FALSE /\ thread_num = 0 /\ starts = 0
  /\ tasks = [w \in Workers |-> <<>>]
  /\ done_tasks = <<>> /\ handling = <<>>
  /\ pc = [w \in Workers |-> "none"]
  /\ cur = [w \in Workers |-> None]
  /\ is_exit = [w \in Workers |-> FALSE]
  /\ stop = None
  /\ ctx_ok = {}
  /\ accepted = {} /\ answered = {} /\ missed = {} /\ late = {}

Start == AsyncStart \/ MongoStart \/ RedisStart
AddTask(t) == AsyncAddTask(t) \/ TaskActionBody(t) \/ ExecuteCmd(t)
Stop == AsyncStop \/ MongoStop \/ RedisStop

ThreadLoop(w) ==
  \/ AsyncLoop(w) \/ MongoLoop(w) \/ RedisLoop(w)
  \/ SetupCtx(w)
  \/ TakeTask(w)
  \/ AsyncTaskDone(w) \/ MongoTaskDone(w) \/ RedisTaskDone(w)
  \/ Idle(w)
  \/ Wait(w)

StopStep ==
  \/ \E w \in Workers : AsyncTell(w) \/ AsyncNotify(w) \/ MongoNotify(w) \/ RedisNotify(w)
  \/ AsyncJoined \/ MongoJoined \/ RedisJoined

Next ==
  \/ Start \/ Stop \/ StopStep
  \/ \E t \in Tasks : AddTask(t)
  \/ OnFrame \/ HandleResult
  \/ \E w \in Workers : ThreadLoop(w) \/ WakeUp(w)

Spec == Init /\ [][Next]_vars

\* Threads run, a Redis server that is gone comes back, OnFrame is called in
\* every frame, and Stop goes on.
FairSpec ==
  /\ Spec
  /\ \A w \in Workers : WF_vars(ThreadLoop(w))
  /\ WF_vars(OnFrame) /\ WF_vars(HandleResult) /\ WF_vars(StopStep)

-----------------------------------------------------------------------------
\* Types of a manager's state.
TypeOK ==
  /\ mgr \in {"async", "mongo", "redis"}
  /\ is_running \in BOOLEAN /\ thread_num \in {0, ThreadNum} /\ starts \in 0..MaxStarts
  /\ tasks \in [Workers -> Seq(Tasks)]
  /\ done_tasks \in Seq(Tasks) /\ handling \in Seq(Tasks)
  /\ pc \in [Workers -> {"none", "loop", "take", "process", "idle", "drowsy", "waiting", "ended"}]
  /\ cur \in [Workers -> Tasks \cup {None}]
  /\ is_exit \in [Workers -> BOOLEAN]
  /\ stop \in Stops \cup {None}
  /\ ctx_ok \subseteq Workers
  /\ accepted \subseteq Tasks /\ answered \subseteq Tasks /\ missed \subseteq Workers
  /\ late \subseteq Workers

\* A queue whose threads all wait holds tasks only if one of these was pushed
\* in the moment between a thread's look at the empty queue and its wait, which
\* nothing guards (async_task_mgr.cpp:117-132, mongo_task_mgr.cpp:188-218,
\* redis_task_mgr.cpp:232-310): any other push wakes a thread that will find it.
SleptThrough ==
  \A q \in Workers :
    (tasks[q] # <<>> /\ is_running /\ Serving(q) # {} /\ Waiting(q) = Serving(q)) => q \in missed

-----------------------------------------------------------------------------
\* The lane of a task is its hash code with the databases, and its own with
\* the asynchronous tasks.
LaneOf == IF mgr = "async" THEN [t \in Tasks |-> t] ELSE HashCode

QueueOfLane(l) == IF mgr = "async" THEN 0 ELSE l % ThreadNum

\* The tasks of s in lane l.
InLane(s, lanes, l) ==
  LET upto[n \in 0..Len(s)] ==
        IF n = 0 THEN <<>>
        ELSE IF s[n] # None /\ lanes[s[n]] = l
             THEN upto[n - 1] \o <<s[n]>>
             ELSE upto[n - 1]
  IN upto[Len(s)]

\* What the threads have taken, nothing of some.
InHand == [i \in 1..ThreadNum |-> cur[i - 1]]

Lanes == Tasks \cup {HashCode[t] : t \in Tasks}

Line(l) ==
  IF \E t \in Tasks : LaneOf[t] = l
  THEN InLane(handling \o done_tasks \o InHand \o tasks[QueueOfLane(l)], LaneOf, l)
  ELSE <<>>

Contract == INSTANCE TaskPool WITH
  lane    <- LaneOf,
  line    <- [l \in Lanes |-> Line(l)],
  running <- is_running

\* Through the queues, the threads and the frames a task is answered at most
\* once and in the order of its lane, also when threads overtake one another,
\* and none is answered once a stop has begun
\* (async_task_mgr.cpp:36-133, mongo_task_mgr.cpp:61-101, redis_task_mgr.cpp:63-106).
KeepsContract == Contract!Spec

Unanswered(t) ==
  \/ \E q \in Workers : t \in ToSet(tasks[q]) \/ cur[q] = t
  \/ t \in ToSet(done_tasks \o handling)

\* A task is answered, or deleted by a stop, unless its queue grew in the moment
\* SleptThrough is about.
TaskEnds ==
  \A t \in Tasks :
    Unanswered(t) ~>
      (~Unanswered(t) \/ ~is_running \/ \E q \in missed : t \in ToSet(tasks[q]))

\* Stop ends, unless the thread it waits for was past its look at is_exit, and
\* not yet waiting, when it was notified (async_task_mgr.cpp:49-60, 127-132;
\* mongo_task_mgr.cpp:66-76, 215-219; redis_task_mgr.cpp:68-78, 307-311).
StopEnds == (stop # None) ~> (stop = None \/ late # {})
=============================================================================
