------------------------------ MODULE NetModule ------------------------------
(***************************************************************************)
(* The network module of the engine (network_module.cpp): the main thread   *)
(* asks for connections, sends, closes, and hands what the worker reports   *)
(* to the handlers; a task thread makes the connections that were asked     *)
(* for asynchronously.                                                     *)
(***************************************************************************)
EXTENDS NetWorker

CONSTANTS
  Askable,       \* connections the program asks for itself (the rest are accepted)
  MaxIn, MaxOut  \* chunks and messages of a connection, at most

ASSUME AskableAssumption == Listeners \subseteq Askable /\ Askable \subseteq Cnns
\* Neither is a task's result.
ASSUME TaskAssumption    == None \notin [cnn : Cnns, fd : Fds \cup {None}]
\* What a connection had sent when it was closed is a number.
ASSUME CountAssumption   == None \notin Nat
ASSUME BoundAssumption   == MaxIn \in [Cnns -> Nat] /\ MaxOut \in [Cnns -> Nat]

VARIABLES
  net_tasks,        \* m_net_tasks: connections to make
  in_task,          \* the one the task thread is making, and its descriptor
  net_task_results, \* m_net_task_results
  async_handlers,   \* m_async_network_handlers
  phase,            \* "update", "released" or "destroyed": the module's life
  draining,         \* the queue of events ProcessNetDatas is at, or None
  to_remove_netids, \* its to_remove_netids
  \* history and the user's side
  asked,            \* connections asked for, or that asked to be accepted
  expired,          \* connections whose handler is gone
  life,             \* what the handler has been told: "none", "open", "failed", "closed"
  got,              \* the chunks it has been given
  sent,             \* how many messages it has sent
  closing           \* how many it had sent when it was first closed, or None

taskVars   == <<net_tasks, in_task, net_task_results>>
updateVars == <<draining, to_remove_netids>>
userVars   == <<asked, expired, life, got, sent, closing>>
moduleVars == <<taskVars, async_handlers, phase, updateVars, userVars>>
vars == <<workerVars, moduleVars>>

-----------------------------------------------------------------------------
(* What the program does, in a frame or in a callback. *)

ListenAsyncOrConnectAsync(c) ==
  /\ c \in Askable \ asked
  /\ phase = "update"
  /\ asked' = asked \cup {c}
  /\ async_handlers' = async_handlers \cup {c}
  /\ net_tasks' = Append(net_tasks, c)
  /\ UNCHANGED <<workerVars, in_task, net_task_results, phase, updateVars,
                 expired, life, got, sent, closing>>

CancelAsync(c) ==
  /\ c \in async_handlers
  /\ phase = "update"
  /\ async_handlers' = async_handlers \ {c}
  /\ UNCHANGED <<workerVars, taskVars, phase, updateVars, userVars>>

\* AddCnn and OnOpen.
Opened(c, f) ==
  IF AddCnnOK(f)
  THEN /\ AddCnn(c, f)
       /\ life' = [life EXCEPT ![c] = "open"]
       /\ UNCHANGED <<sock, stolen>>
  ELSE /\ CloseFd(c, f)
       /\ life' = [life EXCEPT ![c] = "failed"]
       /\ UNCHANGED new_nodes

\* Listen and Connect that wait for their result.
ListenOrConnect(c) ==
  /\ c \in Askable \ asked
  /\ phase = "update"
  /\ asked' = asked \cup {c}
  /\ \/ /\ FreeFds # {}
        /\ OpenFd(c)
        /\ AddCnn(c, Min(FreeFds))
        /\ life' = [life EXCEPT ![c] = "open"]
     \/ /\ life' = [life EXCEPT ![c] = "failed"]
        /\ UNCHANGED <<sock, new_nodes>>
  /\ UNCHANGED <<peerVars, to_remove, wait_send, net_datas, using_idx, is_exits,
                 loopVars, stolen, taskVars, async_handlers, phase, updateVars,
                 expired, got, sent, closing>>

UserSend(c) ==
  /\ life[c] = "open" /\ c \notin Listeners \cup expired
  /\ phase = "update"
  /\ sent[c] < MaxOut[c]
  /\ sent' = [sent EXCEPT ![c] = @ + 1]
  /\ Send(c, <<c, sent[c] + 1>>)
  /\ UNCHANGED <<sock, peerVars, new_nodes, to_remove, net_datas, using_idx,
                 is_exits, loopVars, stolen, taskVars, async_handlers, phase,
                 updateVars, asked, expired, life, got, closing>>

MarkClosing(S) ==
  closing' = [c \in Cnns |-> IF c \in S /\ closing[c] = None THEN sent[c] ELSE closing[c]]

Close(c) ==
  /\ life[c] = "open" /\ closing[c] = None /\ c \notin expired
  /\ phase = "update"
  /\ RemoveCnns({c})
  /\ MarkClosing({c})
  /\ UNCHANGED <<sock, peerVars, new_nodes, wait_send, net_datas, using_idx,
                 is_exits, loopVars, stolen, taskVars, async_handlers, phase,
                 updateVars, asked, expired, life, got, sent>>

\* The last reference to the handler is dropped.
HandlerExpires(c) ==
  /\ c \in asked \ expired
  /\ expired' = expired \cup {c}
  /\ UNCHANGED <<workerVars, taskVars, async_handlers, phase, updateVars,
                 asked, life, got, sent, closing>>

-----------------------------------------------------------------------------
(* The task thread. *)

TaskStarts ==
  /\ in_task = None
  /\ phase = "update"
  /\ net_tasks # <<>>
  /\ FreeFds # {}
  /\ in_task' = [cnn |-> Head(net_tasks), fd |-> Min(FreeFds)]
  /\ OpenFd(Head(net_tasks))
  /\ net_tasks' = Tail(net_tasks)
  /\ UNCHANGED <<peerVars, sharedVars, loopVars, stolen, net_task_results,
                 async_handlers, phase, updateVars, userVars>>

TaskEnds ==
  /\ in_task # None
  /\ in_task' = None
  /\ \/ /\ net_task_results' = Append(net_task_results, in_task)
        /\ UNCHANGED <<sock, stolen>>
     \/ /\ net_task_results' = Append(net_task_results, [in_task EXCEPT !.fd = None])
        /\ CloseFd(in_task.cnn, in_task.fd)
  /\ UNCHANGED <<peerVars, sharedVars, loopVars, net_tasks, async_handlers,
                 phase, updateVars, userVars>>

-----------------------------------------------------------------------------
(* Update, and the end of the module. *)

ProcessNetTaskResult ==
  LET ret == Head(net_task_results)
      c   == ret.cnn
  IN /\ phase = "update" /\ draining = None
     /\ net_task_results # <<>>
     /\ net_task_results' = Tail(net_task_results)
     /\ async_handlers' = async_handlers \ {c}
     /\ IF c \notin async_handlers \/ c \in expired
        THEN /\ IF ret.fd = None THEN UNCHANGED <<sock, stolen>> ELSE CloseFd(c, ret.fd)
             /\ UNCHANGED <<new_nodes, life>>
        ELSE IF ret.fd = None
        THEN life' = [life EXCEPT ![c] = "failed"] /\ UNCHANGED <<sock, stolen, new_nodes>>
        ELSE Opened(c, ret.fd)
     /\ UNCHANGED <<peerVars, to_remove, wait_send, net_datas, using_idx, is_exits,
                    loopVars, net_tasks, in_task, phase, updateVars,
                    asked, expired, got, sent, closing>>

\* Mutant: the queues are not switched.
GetNetDatasSameQueue ==
  /\ phase = "update" /\ draining = None
  /\ net_datas[using_idx] # <<>>
  /\ draining' = using_idx
  /\ UNCHANGED <<workerVars, taskVars, async_handlers, phase,
                 to_remove_netids, userVars>>

\* GetNetDatas: the worker goes on with the other queue.
GetNetDatas ==
  /\ phase = "update" /\ draining = None
  /\ net_datas[using_idx] # <<>>
  /\ draining' = using_idx
  /\ using_idx' = (using_idx + 1) % 2
  /\ UNCHANGED <<sock, peerVars, new_nodes, to_remove, wait_send, net_datas,
                 is_exits, loopVars, stolen, taskVars, async_handlers, phase,
                 to_remove_netids, userVars>>

\* Mutant: the accepted socket is left open.
HandlerGoneLeaks(data) ==
  /\ data.cnn \in expired
  /\ to_remove_netids' = to_remove_netids \cup {data.cnn}
  /\ UNCHANGED <<sock, stolen, new_nodes, life, got, asked>>

\* A handler that is gone: its connection is to be removed.
HandlerGone(data) ==
  /\ data.cnn \in expired
  /\ to_remove_netids' = to_remove_netids \cup {data.cnn}
  /\ IF data.act = "accept" THEN CloseFd(data.new, data.fd) ELSE UNCHANGED <<sock, stolen>>
  /\ UNCHANGED <<new_nodes, life, got, asked>>

OnRecvData(data) ==
  /\ data.cnn \notin expired /\ data.act = "read"
  /\ got' = [got EXCEPT ![data.cnn] = @ \o data.chunks]
  /\ UNCHANGED <<sock, stolen, new_nodes, life, asked, to_remove_netids>>

OnClose(data) ==
  /\ data.cnn \notin expired /\ data.act = "close"
  /\ life' = [life EXCEPT ![data.cnn] = "closed"]
  /\ UNCHANGED <<sock, stolen, new_nodes, got, asked, to_remove_netids>>

\* GenConnectorHandler may have no handler to give.
OnAccept(data) ==
  /\ data.cnn \notin expired /\ data.act = "accept"
  /\ asked' = asked \cup {data.new}
  /\ \/ Opened(data.new, data.fd)
     \/ CloseFd(data.new, data.fd) /\ UNCHANGED <<new_nodes, life>>
  /\ UNCHANGED <<got, to_remove_netids>>

ProcessNetData ==
  /\ phase = "update" /\ draining # None
  /\ net_datas[draining] # <<>>
  /\ net_datas' = [net_datas EXCEPT ![draining] = Tail(@)]
  /\ LET data == Head(net_datas[draining])
     IN HandlerGone(data) \/ OnRecvData(data) \/ OnClose(data) \/ OnAccept(data)
  /\ UNCHANGED <<peerVars, to_remove, wait_send, using_idx, is_exits, loopVars,
                 taskVars, async_handlers, phase, draining,
                 expired, sent, closing>>

DatasProcessed ==
  /\ phase = "update" /\ draining # None
  /\ net_datas[draining] = <<>>
  /\ draining' = None
  /\ to_remove_netids' = {}
  /\ RemoveCnns(to_remove_netids)
  /\ MarkClosing(to_remove_netids)
  /\ UNCHANGED <<sock, peerVars, new_nodes, wait_send, net_datas, using_idx,
                 is_exits, loopVars, stolen, taskVars, async_handlers, phase,
                 asked, expired, life, got, sent>>

\* The task thread is joined, so it is between two tasks; what it has made is
\* forgotten with its descriptor.
Release ==
  /\ phase = "update" /\ draining = None /\ in_task = None
  /\ phase' = "released"
  /\ net_tasks' = <<>> /\ net_task_results' = <<>>
  /\ UNCHANGED <<workerVars, in_task, async_handlers, updateVars, userVars>>

Destroy ==
  /\ phase = "released"
  /\ phase' = "destroyed"
  /\ is_exits' = TRUE
  /\ async_handlers' = {}
  /\ UNCHANGED <<sock, peerVars, new_nodes, to_remove, wait_send, net_datas,
                 using_idx, loopVars, stolen, taskVars, updateVars, userVars>>

-----------------------------------------------------------------------------
Init ==
  /\ WorkerInit
  /\ net_tasks = <<>> /\ net_task_results = <<>> /\ in_task = None
  /\ async_handlers = {}
  /\ phase = "update"
  /\ draining = None /\ to_remove_netids = {}
  /\ asked = {} /\ expired = {}
  /\ life = [c \in Cnns |-> "none"]
  /\ got = [c \in Cnns |-> <<>>]
  /\ sent = [c \in Cnns |-> 0]
  /\ closing = [c \in Cnns |-> None]

\* The peers, within the bounds.
Peers ==
  \E c \in Cnns :
    \/ arrived[c] < MaxIn[c] /\ PeerSends(c) /\ UNCHANGED moduleVars
    \/ PeerCloses(c) /\ UNCHANGED moduleVars
    \/ /\ c \notin Askable \cup asked
       /\ asked' = asked \cup {c}
       /\ PeerConnects(c)
       /\ UNCHANGED <<taskVars, async_handlers, phase, updateVars,
                      expired, life, got, sent, closing>>

Program ==
  \E c \in Cnns :
    \/ ListenAsyncOrConnectAsync(c)
    \/ CancelAsync(c)
    \/ ListenOrConnect(c)
    \/ UserSend(c)
    \/ Close(c)
    \/ HandlerExpires(c)

TaskThread == TaskStarts \/ TaskEnds
Worker     == WorkLoop /\ UNCHANGED moduleVars
Update     == ProcessNetTaskResult \/ GetNetDatas \/ ProcessNetData \/ DatasProcessed

Next ==
  \/ Peers \/ Program \/ TaskThread \/ Worker \/ Update
  \/ Release \/ Destroy

Spec == Init /\ [][Next]_vars

\* The threads run, and the main loop calls Update in every frame.
FairSpec == Spec /\ WF_vars(Worker) /\ WF_vars(TaskThread) /\ WF_vars(Update)

-----------------------------------------------------------------------------
Data == [cnn : Cnns, act : {"read"}, chunks : Seq(Cnns \X Nat)]
          \cup [cnn : Cnns, act : {"close"}]
          \cup [cnn : Listeners, act : {"accept"}, new : Cnns, fd : Fds]

\* Types of the worker's and the module's state.
TypeOK ==
  /\ sock \in [Fds -> Cnns \cup {None}]
  /\ arrived \in [Cnns -> Nat]
  /\ unread \in [Cnns -> Seq(Cnns \X Nat)]
  /\ wire \in [Cnns -> Seq(Cnns \X Nat)]
  /\ hup \subseteq Cnns /\ knocking \subseteq Cnns \ Askable
  /\ new_nodes \in [Cnns -> Fds \cup {None}]
  /\ to_remove \subseteq Cnns
  /\ wait_send \in [Cnns -> Seq(Cnns \X Nat)]
  /\ net_datas \in [{0, 1} -> Seq(Data)]
  /\ using_idx \in {0, 1} /\ draining \in {1 - using_idx, None}
  /\ is_exits \in BOOLEAN
  /\ id2nodes \in [Cnns -> [fd : Fds, send : Seq(Cnns \X Nat)] \cup {None}]
  /\ pc \in {"add", "send", "select", "io", "remove",
             "exit_add", "exit_remove", "exit_send", "exited"}
  /\ next_it_advance \in 0..Cardinality(Cnns)
  /\ read_set \subseteq Fds /\ write_set \subseteq Fds
  /\ stolen \subseteq Cnns
  /\ net_tasks \in Seq(Askable)
  /\ in_task \in [cnn : Askable, fd : Fds] \cup {None}
  /\ net_task_results \in Seq([cnn : Askable, fd : Fds \cup {None}])
  /\ async_handlers \subseteq Askable
  /\ phase \in {"update", "released", "destroyed"}
  /\ to_remove_netids \subseteq Cnns
  /\ asked \subseteq Cnns /\ expired \subseteq asked
  /\ life \in [Cnns -> {"none", "open", "failed", "closed"}]
  /\ got \in [Cnns -> Seq(Cnns \X Nat)]
  /\ sent \in [Cnns -> Nat]
  /\ closing \in [Cnns -> Nat \cup {None}]

\* Events that are under way to the main thread, the oldest first.
Queued == net_datas[(using_idx + 1) % 2] \o net_datas[using_idx]

\* Who will close a descriptor: a node or a node to be, the task thread, a
\* result or an event on its way to the main thread.
Holders(f) ==
  {<<"node", c>> : c \in NodesByFd(f)}
    \cup {<<"new node", c>> : c \in {d \in Cnns : new_nodes[d] = f}}
    \cup {<<"task", in_task.cnn>> : i \in {j \in {1} : in_task # None /\ in_task.fd = f}}
    \cup {<<"result", ret.cnn>> : ret \in {r \in ToSet(net_task_results) : r.fd = f}}
    \cup {<<"event", d.new>> : d \in {e \in ToSet(Queued) : e.act = "accept" /\ e.fd = f}}

\* As long as the module runs and no socket was closed for somebody else, an
\* open descriptor is held in exactly one place, for the connection it
\* denotes, and what is held is open: on every path, cancelled, expired or
\* failed, somebody closes it and nobody closes it twice
\* (network_module.cpp:373-419, 430-490; net_worker_select.cpp:306-393, 555-576).
DescriptorsOwned ==
  (stolen = {} /\ phase = "update") =>
    \A f \in Fds :
      IF sock[f] = None
      THEN Holders(f) = {}
      ELSE Cardinality(Holders(f)) = 1 /\ \A h \in Holders(f) : h[2] = sock[f]

-----------------------------------------------------------------------------
(* The module as its users see it. *)

Chunks(c, datas) ==
  LET upto[n \in 0..Len(datas)] ==
        IF n = 0 THEN <<>>
        ELSE IF datas[n].cnn = c /\ datas[n].act = "read"
             THEN upto[n - 1] \o datas[n].chunks
             ELSE upto[n - 1]
  IN upto[Len(datas)]

\* What the peer has sent and c's handler has not been given: in the queues of
\* events, and in the socket as long as it is open.
Unread(c) == IF \E f \in Fds : sock[f] = c THEN unread[c] ELSE <<>>
Coming(c) == Chunks(c, Queued) \o Unread(c)

\* What c has sent and the worker has not written.
Going(c) == (IF c \in Nodes THEN id2nodes[c].send ELSE <<>>) \o wait_send[c]

\* It was open, and the worker has it no more.
Ended(c) == life[c] \in {"open", "closed"} /\ new_nodes[c] = None /\ c \notin Nodes

Contract == INSTANCE NetStream WITH
  coming <- [c \in Cnns |-> Coming(c)],
  going  <- [c \in Cnns |-> Going(c)],
  ended  <- {c \in Cnns : Ended(c)},
  over   <- phase # "update",
  broken <- stolen # {}

\* The threads, their queues and the delayed removal implement NetStream:
\* data and messages keep their order through the two event queues and the
\* buffers, a handler is told of the end once and last, and a connection that
\* is closed is written what was sent before (net_worker_select.cpp:134-144,
\* 322-345, 395-417).
StreamKept == Contract!Spec

\* A new connection comes to its close event, whoever ends it: the comment at
\* net_worker_select.cpp:365 says so of connections that are removed before the
\* worker has seen them.
CloseNotified ==
  \A c \in Cnns :
    (life[c] = "open" /\ (closing[c] # None \/ c \in hup))
      ~> (life[c] = "closed" \/ c \in expired \/ stolen # {} \/ phase # "update")
=============================================================================
