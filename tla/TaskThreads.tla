----------------------------- MODULE TaskThreads -----------------------------
(***************************************************************************)
(* What the three task managers of the engine have in common: threads that  *)
(* take tasks from a queue, process them and put them on a queue of done    *)
(* tasks, and the main thread that hands these to their callbacks.          *)
(*                                                                         *)
(* A worker that finds its queue empty waits on a condition variable        *)
(* without looking at the queue again.                                      *)
(***************************************************************************)
EXTENDS Integers, Sequences, SequencesExt

CONSTANTS
  Tasks,
  HashCode,    \* of the tasks for a database
  ThreadNum,   \* threads of a manager
  MaxStarts,   \* the manager is started so often, at most
  None

Workers == 0..(ThreadNum - 1)

\* The steps of Stop: a thread is told to end, notified, or waited for.
Stops == [at : {"tell", "notify", "join"}, thread : Workers]

ASSUME HashAssumption   == HashCode \in [Tasks -> Nat]
ASSUME ThreadAssumption == ThreadNum \in Nat \ {0} /\ MaxStarts \in Nat
ASSUME NoneAssumption   == None \notin Tasks /\ None \notin Stops

VARIABLES
  mgr,         \* the kind of manager: "async", "mongo" or "redis"
  is_running,  \* m_is_running
  thread_num,  \* m_thread_num
  tasks,       \* the queue of a thread; the first one is everybody's of "async"
  done_tasks,  \* m_done_tasks
  handling,    \* OnFrame's tmp_done_task
  pc, cur,     \* where a thread is in ThreadLoop, and the task it has taken
  is_exit,
  stop,        \* where Stop is: None, or the step and the thread it is at
  ctx_ok,      \* threads whose connection to Redis is usable
  \* history
  starts, accepted, answered,
  missed,      \* queues that grew when a thread was between finding it empty
               \* and waiting, and none was waiting to be notified
  late         \* threads that were there when Stop last notified them

vars == <<mgr, is_running, thread_num, tasks, done_tasks, handling, pc, cur,
          is_exit, stop, ctx_ok, starts, accepted, answered, missed, late>>

lifeVars    == <<mgr, is_running, thread_num, stop, starts>>
historyVars == <<accepted, answered, missed, late>>

QueueOf(w) == IF mgr = "async" THEN 0 ELSE w

\* The threads of a queue, those that wait on its condition variable, and
\* those that will without looking at the queue again.
Serving(q) == {w \in Workers : QueueOf(w) = q}
Waiting(q) == {w \in Serving(q) : pc[w] = "waiting"}
Dozing(q)  == {w \in Serving(q) : pc[w] \in {"idle", "drowsy"}}

Wake(S) == pc' = [w \in Workers |-> IF w \in S THEN "loop" ELSE pc[w]]
\* Mutant: nobody is notified.
NotifyNobody(q) == Wake({})
NotifyOne(q) == IF Waiting(q) = {} THEN Wake({}) ELSE \E w \in Waiting(q) : Wake({w})
NotifyAll(q) == Wake(Waiting(q))

\* Stop's last notification of a thread.
Notified(w) == late' = IF pc[w] = "drowsy" THEN {w} ELSE {}

-----------------------------------------------------------------------------
(* ThreadLoop. *)

Goto(w, where) == pc' = [pc EXCEPT ![w] = where]

\* A task is taken under the queue's mutex.
TakeTask(w) ==
  /\ pc[w] = "take"
  /\ IF tasks[QueueOf(w)] = <<>>
     THEN Goto(w, "idle") /\ UNCHANGED <<tasks, cur, missed>>
     ELSE /\ Goto(w, "process")
          /\ cur' = [cur EXCEPT ![w] = Head(tasks[QueueOf(w)])]
          /\ tasks' = [tasks EXCEPT ![QueueOf(w)] = Tail(@)]
          /\ missed' = missed \ {QueueOf(w)}
  /\ UNCHANGED <<lifeVars, done_tasks, handling, is_exit, ctx_ok, accepted, answered, late>>

\* Mutant: the task is forgotten before it is put on the queue.
TaskDoneForgotten(w) ==
  /\ pc[w] = "process"
  /\ done_tasks' = Append(done_tasks, None)
  /\ cur' = [cur EXCEPT ![w] = None]
  /\ Goto(w, "loop")
  /\ UNCHANGED <<lifeVars, tasks, handling, is_exit, historyVars>>

TaskDone(w) ==
  /\ pc[w] = "process"
  /\ done_tasks' = Append(done_tasks, cur[w])
  /\ cur' = [cur EXCEPT ![w] = None]
  /\ Goto(w, "loop")
  /\ UNCHANGED <<lifeVars, tasks, handling, is_exit, historyVars>>

\* Nothing to do, as it seemed: the thread makes for the condition variable.
Idle(w) ==
  /\ pc[w] = "idle"
  /\ Goto(w, IF is_exit[w] THEN "ended" ELSE "drowsy")
  /\ UNCHANGED <<lifeVars, tasks, done_tasks, handling, cur, is_exit, ctx_ok, historyVars>>

Wait(w) ==
  /\ pc[w] = "drowsy"
  /\ Goto(w, "waiting")
  /\ UNCHANGED <<lifeVars, tasks, done_tasks, handling, cur, is_exit, ctx_ok, historyVars>>

\* The wait may end without a notification.
WakeUp(w) ==
  /\ pc[w] = "waiting"
  /\ Goto(w, "loop")
  /\ UNCHANGED <<lifeVars, tasks, done_tasks, handling, cur, is_exit, ctx_ok, historyVars>>

-----------------------------------------------------------------------------
(* The main thread. *)

\* Mutant: the done tasks are copied instead of taken.
OnFrameCopies ==
  /\ stop = None
  /\ handling = <<>> /\ done_tasks # <<>>
  /\ handling' = done_tasks
  /\ UNCHANGED <<lifeVars, tasks, done_tasks, pc, cur, is_exit, ctx_ok, historyVars>>

\* OnFrame takes the done tasks, then calls back one after the other.
OnFrame ==
  /\ stop = None
  /\ handling = <<>> /\ done_tasks # <<>>
  /\ handling' = done_tasks
  /\ done_tasks' = <<>>
  /\ UNCHANGED <<lifeVars, tasks, pc, cur, is_exit, ctx_ok, historyVars>>

HandleResult ==
  /\ handling # <<>>
  /\ answered' = answered \cup {Head(handling)}
  /\ handling' = Tail(handling)
  /\ UNCHANGED <<lifeVars, tasks, done_tasks, pc, cur, is_exit, ctx_ok, accepted, missed, late>>

\* Threads are started, with ctx_ok and the rest left to the manager.
Launch ==
  /\ is_running' = TRUE
  /\ thread_num' = ThreadNum
  /\ starts' = starts + 1
  /\ pc' = [w \in Workers |-> "loop"]
  /\ is_exit' = [w \in Workers |-> FALSE]
  /\ UNCHANGED <<mgr, tasks, done_tasks, handling, cur, stop, historyVars>>

\* A task is pushed under the queue's mutex, and one thread is notified.  A
\* thread that begins to wait between the two is one that wakes up by itself.
Push(t, q) ==
  /\ tasks' = [tasks EXCEPT ![q] = Append(@, t)]
  /\ accepted' = accepted \cup {t}
  /\ NotifyOne(q)
  /\ missed' = IF Waiting(q) = {} /\ Dozing(q) # {} THEN missed \cup {q} ELSE missed
  /\ UNCHANGED <<lifeVars, done_tasks, handling, cur, is_exit, ctx_ok, answered, late>>

\* The thread at which Stop waits has ended: on to the next.
Joined(w, again) ==
  /\ stop = [at |-> "join", thread |-> w]
  /\ pc[w] = "ended"
  /\ w < ThreadNum - 1
  /\ stop' = [at |-> again, thread |-> w + 1]
  /\ UNCHANGED <<mgr, is_running, thread_num, starts, tasks, done_tasks, handling,
                 pc, cur, is_exit, ctx_ok, historyVars>>

\* All have ended: what they have done is deleted.
AllJoined ==
  /\ stop = [at |-> "join", thread |-> ThreadNum - 1]
  /\ pc[ThreadNum - 1] = "ended"
  /\ stop' = None
  /\ thread_num' = 0
  /\ done_tasks' = <<>>
  /\ pc' = [w \in Workers |-> "none"]
  /\ late' = {}
  /\ UNCHANGED <<mgr, is_running, starts, handling, cur, is_exit, ctx_ok, accepted, answered>>
=============================================================================
