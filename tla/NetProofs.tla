----------------------------- MODULE NetProofs -----------------------------
(***************************************************************************)
(* Of NetModule, for any connections, listeners and descriptors: the types  *)
(* of its state, that every open descriptor has exactly one owner, and that *)
(* what is sent on a connection is received in its order without a hole     *)
(* (NetStream).                                                             *)
(***************************************************************************)
EXTENDS NetModule, FiniteSetTheorems, SequenceTheorems, WellFoundedInduction, TLAPS

-----------------------------------------------------------------------------
(* Where a connection is on its way from being asked for to being a node:   *)
(* in one place at a time, and in each place once.                         *)

Asking(c)    == \E i \in DOMAIN net_tasks : net_tasks[i] = c
Making(c)    == in_task # None /\ in_task.cnn = c
Made(c)      == \E i \in DOMAIN net_task_results : net_task_results[i].cnn = c
Accepted(c)  == \E q \in {0, 1} : \E i \in DOMAIN net_datas[q] :
                   net_datas[q][i].act = "accept" /\ net_datas[q][i].new = c

TasksOnce   == \A i, j \in DOMAIN net_tasks : net_tasks[i] = net_tasks[j] => i = j
ResultsOnce == \A i, j \in DOMAIN net_task_results :
                 net_task_results[i].cnn = net_task_results[j].cnn => i = j
AcceptsOnce ==
  \A q, r \in {0, 1} : \A i \in DOMAIN net_datas[q], j \in DOMAIN net_datas[r] :
    /\ net_datas[q][i].act = "accept" /\ net_datas[r][j].act = "accept"
    /\ net_datas[q][i].new = net_datas[r][j].new
    => q = r /\ i = j

\* A connection the program asked for, until the program is told.
Asked ==
  /\ TasksOnce /\ ResultsOnce
  /\ \A c \in Cnns : Asking(c) => ~Making(c) /\ ~Made(c)
  /\ \A c \in Cnns : Making(c) => ~Made(c)
  /\ \A c \in Cnns : Asking(c) \/ Making(c) \/ Made(c) => c \in asked /\ life[c] = "none"

\* A connection that a peer asked for, until the program is told.
Guests ==
  /\ AcceptsOnce
  /\ \A c \in knocking : ~Accepted(c) /\ c \in asked /\ life[c] = "none"
  /\ \A c \in Cnns : Accepted(c) => c \in asked \ Askable /\ life[c] = "none"

\* A connection that the program has opened.
Given ==
  /\ \A c \in Cnns : c \in Nodes \/ new_nodes[c] # None => c \in asked /\ life[c] # "none"
  /\ \A c \in Nodes : new_nodes[c] = None
  /\ \A c \in Cnns \ asked : life[c] = "none"

\* Events come of connections that the program has opened.
Told == \A q \in {0, 1} : \A i \in DOMAIN net_datas[q] : life[net_datas[q][i].cnn] # "none"

Places == Asked /\ Guests /\ Given /\ Told

\* Who has a descriptor.
MakingFd(c, f)   == Making(c) /\ in_task.fd = f
MadeFd(c, f)     == \E i \in DOMAIN net_task_results :
                      net_task_results[i].cnn = c /\ net_task_results[i].fd = f
AcceptedFd(c, f) == \E q \in {0, 1} : \E i \in DOMAIN net_datas[q] :
                      /\ net_datas[q][i].act = "accept"
                      /\ net_datas[q][i].new = c /\ net_datas[q][i].fd = f
NodeFd(c, f)     == c \in Nodes /\ id2nodes[c].fd = f

HeldFor(c, f) ==
  MakingFd(c, f) \/ MadeFd(c, f) \/ AcceptedFd(c, f) \/ new_nodes[c] = f \/ NodeFd(c, f)

\* What is open is held for the connection it denotes, and what is held is open.
Owned == \A c \in Cnns, f \in Fds : HeldFor(c, f) <=> sock[f] = c

Quiet == stolen = {} /\ phase = "update"

OwnedInv == Places /\ (Quiet => Owned)

-----------------------------------------------------------------------------
(* Operators. *)

LEMMA ConstantFacts ==
  /\ Listeners \subseteq Askable /\ Askable \subseteq Cnns
  /\ IsFiniteSet(Cnns) /\ None \notin Cnns
  /\ Fds \subseteq Nat /\ IsFiniteSet(Fds) /\ None \notin Fds
BY CnnAssumption, FdAssumption, AskableAssumption

LEMMA NatMin ==
  ASSUME NEW T \in SUBSET Nat, T # {}
  PROVE  \E x \in T : \A y \in T : x <= y
<1> DEFINE R == {ss \in Nat \X Nat : ss[1] < ss[2]}
<1>1. IsWellFoundedOn(R, Nat)
  BY NatLessThanWellFounded DEF OpToRel
<1>2. \E x \in T : \A y \in T : ~(<<y, x>> \in R)
  <2> HIDE DEF R
  <2> QED BY <1>1, WFMin
<1>3. PICK x \in T : \A y \in T : ~(<<y, x>> \in R)
  BY <1>2
<1>4. \A y \in T : x <= y
  <2> TAKE y \in T
  <2>1. x \in Nat /\ y \in Nat /\ ~(y < x)
    BY <1>3
  <2> QED BY <2>1
<1> QED BY <1>4

LEMMA SeqFacts ==
  ASSUME NEW S
  PROVE  /\ <<>> \in Seq(S)
         /\ \A s \in Seq(S), x \in S : Append(s, x) \in Seq(S)
         /\ \A s \in Seq(S) : s # <<>> => Head(s) \in S /\ Tail(s) \in Seq(S)
         /\ \A s \in Seq(S) : \A i \in DOMAIN s : s[i] \in S
OBVIOUS

LEMMA FreeFd ==
  ASSUME FreeFds # {}
  PROVE  Min(FreeFds) \in Fds /\ sock[Min(FreeFds)] = None
<1>1. \E x \in FreeFds : \A y \in FreeFds : x =< y
  BY NatMin, ConstantFacts DEF FreeFds
<1>2. Min(FreeFds) \in FreeFds
  BY <1>1 DEF Min
<1> QED BY <1>2 DEF FreeFds

\* A finite set in some order, each element once.
LEMMA SetToSeqOf ==
  ASSUME NEW S, IsFiniteSet(S)
  PROVE  /\ SetToSeq(S) \in Seq(S)
         /\ DOMAIN SetToSeq(S) = 1..Cardinality(S)
<1> DEFINE n == Cardinality(S)
<1>1. n \in Nat /\ ExistsBijection(1..n, S)
  BY FS_CardinalityType
<1>2. PICK g \in [1..n -> S] : IsInjective(g)
  BY <1>1 DEF ExistsBijection, Bijection, Injection, IsInjective
<1>3. SetToSeq(S) \in [1..n -> S]
  BY <1>2 DEF SetToSeq
<1> HIDE DEF n
<1>4. SetToSeq(S) \in Seq(S) /\ DOMAIN SetToSeq(S) = 1..n
  BY <1>1, <1>3
<1> QED BY <1>4 DEF n

LEMMA DataTypes ==
  /\ \A d \in Data : /\ d.cnn \in Cnns
                     /\ d.act \in {"read", "close", "accept"}
                     /\ d.act = "read" => d.chunks \in Seq(Cnns \X Nat)
                     /\ d.act = "accept" => d.new \in Cnns /\ d.fd \in Fds
  /\ \A c \in Cnns : CloseData(c) \in Data
  /\ \A c \in Cnns, s \in Seq(Cnns \X Nat) : ReadData(c, s) \in Data
  /\ \A c \in Listeners, d \in Cnns, f \in Fds : AcceptData(c, d, f) \in Data
  /\ \A c \in Cnns : CloseData(c).act # "accept"
  /\ \A c \in Cnns, s \in Seq(Cnns \X Nat) : ReadData(c, s).act # "accept"
BY ConstantFacts DEF Data, CloseData, ReadData, AcceptData

LEMMA CloseFdsType ==
  ASSUME TypeOK, NEW pairs, CloseFds(pairs)
  PROVE  /\ sock' \in [Fds -> Cnns \cup {None}]
         /\ stolen' \subseteq Cnns
BY DEF TypeOK, CloseFds

LEMMA OpenFdType ==
  ASSUME TypeOK, NEW c \in Cnns, FreeFds # {}, OpenFd(c)
  PROVE  sock' \in [Fds -> Cnns \cup {None}]
BY FreeFd DEF TypeOK, OpenFd

LEMMA AddDatasType ==
  ASSUME TypeOK, NEW datas \in Seq(Data), AddNetworkDatas(datas)
  PROVE  net_datas' \in [{0, 1} -> Seq(Data)]
BY DEF TypeOK, AddNetworkDatas

LEMMA NodeFacts ==
  ASSUME TypeOK
  PROVE  /\ Nodes \subseteq Cnns
         /\ \A c \in Nodes : id2nodes[c] \in [fd : Fds, send : Seq(Cnns \X Nat)]
         /\ \A f : NodesByFd(f) \subseteq Nodes
         /\ \A f, c : c \in NodesByFd(f) => id2nodes[c].fd = f
BY DEF TypeOK, Nodes, NodesByFd

-----------------------------------------------------------------------------
(* Types. *)

LEMMA InitType == Init => TypeOK
<1> SUFFICES ASSUME Init PROVE TypeOK
  OBVIOUS
<1>1. Cardinality(Cnns) \in Nat
  BY FS_CardinalityType, ConstantFacts
<1>2. 0 \in 0..Cardinality(Cnns)
  BY <1>1
<1>3. \A S : <<>> \in Seq(S)
  OBVIOUS
<1> QED BY <1>2, <1>3 DEF Init, WorkerInit, TypeOK

LEMMA PeersType == TypeOK /\ Peers => TypeOK'
<1> SUFFICES ASSUME TypeOK, NEW c \in Cnns,
               \/ PeerSends(c) /\ UNCHANGED moduleVars
               \/ PeerCloses(c) /\ UNCHANGED moduleVars
               \/ /\ c \notin Askable \cup asked
                  /\ asked' = asked \cup {c}
                  /\ PeerConnects(c)
                  /\ UNCHANGED <<taskVars, async_handlers, phase, updateVars,
                                 expired, life, got, sent, closing>>
             PROVE TypeOK'
  BY DEF Peers
<1> USE DEF moduleVars, taskVars, updateVars, userVars, sharedVars, loopVars
<1>1. CASE PeerSends(c) /\ UNCHANGED moduleVars
  <2>1. <<c, arrived[c] + 1>> \in Cnns \X Nat
    <3>1. arrived[c] + 1 \in Nat
      BY DEF TypeOK
    <3> QED BY <3>1
  <2>2. /\ arrived' \in [Cnns -> Nat]
        /\ unread' \in [Cnns -> Seq(Cnns \X Nat)]
    BY <1>1, <2>1 DEF TypeOK, PeerSends
  <2> QED BY <1>1, <2>2 DEF TypeOK, PeerSends
<1>2. CASE PeerCloses(c) /\ UNCHANGED moduleVars
  BY <1>2 DEF TypeOK, PeerCloses
<1>3. CASE /\ c \notin Askable \cup asked
           /\ asked' = asked \cup {c}
           /\ PeerConnects(c)
           /\ UNCHANGED <<taskVars, async_handlers, phase, updateVars,
                          expired, life, got, sent, closing>>
  <2>1. knocking' \subseteq Cnns \ Askable
    BY <1>3 DEF TypeOK, PeerConnects
  <2>2. asked' \subseteq Cnns /\ expired' \subseteq asked'
    BY <1>3 DEF TypeOK
  <2> QED BY <1>3, <2>1, <2>2 DEF TypeOK, PeerConnects
<1> QED BY <1>1, <1>2, <1>3

LEMMA ProgramType == TypeOK /\ Program => TypeOK'
<1> SUFFICES ASSUME TypeOK, NEW c \in Cnns,
               \/ ListenAsyncOrConnectAsync(c) \/ CancelAsync(c) \/ ListenOrConnect(c)
               \/ UserSend(c) \/ Close(c) \/ HandlerExpires(c)
             PROVE TypeOK'
  BY DEF Program
<1> USE DEF workerVars, moduleVars, taskVars, updateVars, userVars, peerVars, sharedVars, loopVars
<1>1. CASE ListenAsyncOrConnectAsync(c)
  <2>1. net_tasks' \in Seq(Askable) /\ async_handlers' \subseteq Askable
    BY <1>1 DEF TypeOK, ListenAsyncOrConnectAsync
  <2>2. asked' \subseteq Cnns /\ expired' \subseteq asked'
    BY <1>1 DEF TypeOK, ListenAsyncOrConnectAsync
  <2> QED BY <1>1, <2>1, <2>2 DEF TypeOK, ListenAsyncOrConnectAsync
<1>2. CASE CancelAsync(c)
  BY <1>2 DEF TypeOK, CancelAsync
<1>3. CASE ListenOrConnect(c)
  <2>1. sock' \in [Fds -> Cnns \cup {None}]
    BY <1>3, OpenFdType DEF ListenOrConnect, TypeOK
  <2>2. new_nodes' \in [Cnns -> Fds \cup {None}]
    <3>1. CASE FreeFds # {} /\ AddCnn(c, Min(FreeFds))
      <4>1. Min(FreeFds) \in Fds
        BY <3>1, FreeFd
      <4> QED BY <3>1, <4>1 DEF TypeOK, AddCnn
    <3>2. CASE UNCHANGED <<sock, new_nodes>>
      BY <3>2 DEF TypeOK
    <3> QED BY <1>3, <3>1, <3>2 DEF ListenOrConnect
  <2> QED BY <1>3, <2>1, <2>2 DEF TypeOK, ListenOrConnect
<1>4. CASE UserSend(c)
  <2>1. <<c, sent[c] + 1>> \in Cnns \X Nat
    BY DEF TypeOK
  <2>2. /\ sent' \in [Cnns -> Nat]
        /\ wait_send' \in [Cnns -> Seq(Cnns \X Nat)]
    BY <1>4, <2>1 DEF TypeOK, UserSend, Send
  <2> QED BY <1>4, <2>2 DEF TypeOK, UserSend
<1>5. CASE Close(c)
  BY <1>5 DEF TypeOK, Close, RemoveCnns, MarkClosing
<1>6. CASE HandlerExpires(c)
  BY <1>6 DEF TypeOK, HandlerExpires
<1> QED BY <1>1, <1>2, <1>3, <1>4, <1>5, <1>6

LEMMA TaskThreadType == TypeOK /\ TaskThread => TypeOK'
<1> SUFFICES ASSUME TypeOK, TaskThread PROVE TypeOK'
  OBVIOUS
<1> USE DEF workerVars, moduleVars, taskVars, updateVars, userVars, peerVars, sharedVars, loopVars
<1>1. CASE TaskStarts
  <2>1. Head(net_tasks) \in Askable /\ Tail(net_tasks) \in Seq(Askable)
    BY <1>1 DEF TypeOK, TaskStarts
  <2>2. sock' \in [Fds -> Cnns \cup {None}]
    BY <1>1, <2>1, OpenFdType, ConstantFacts DEF TaskStarts
  <2>3. in_task' \in [cnn : Askable, fd : Fds]
    BY <1>1, <2>1, FreeFd DEF TaskStarts
  <2> QED BY <1>1, <2>1, <2>2, <2>3 DEF TypeOK, TaskStarts
<1>2. CASE TaskEnds
  <2>1. in_task \in [cnn : Askable, fd : Fds]
    BY <1>2 DEF TypeOK, TaskEnds
  <2>2. net_task_results' \in Seq([cnn : Askable, fd : Fds \cup {None}])
    <3>1. in_task \in [cnn : Askable, fd : Fds \cup {None}]
      BY <2>1
    <3>2. [in_task EXCEPT !.fd = None] \in [cnn : Askable, fd : Fds \cup {None}]
      BY <2>1
    <3>3. net_task_results \in Seq([cnn : Askable, fd : Fds \cup {None}])
      BY DEF TypeOK
    <3>4. \E ret \in [cnn : Askable, fd : Fds \cup {None}] :
            net_task_results' = Append(net_task_results, ret)
      BY <1>2, <3>1, <3>2 DEF TaskEnds
    <3> HIDE DEF TypeOK
    <3> QED BY <3>3, <3>4, SeqFacts
  <2>3. sock' \in [Fds -> Cnns \cup {None}] /\ stolen' \subseteq Cnns
    BY <1>2, CloseFdsType DEF TypeOK, TaskEnds, CloseFd
  <2> QED BY <1>2, <2>2, <2>3 DEF TypeOK, TaskEnds
<1> QED BY <1>1, <1>2 DEF TaskThread

LEMMA OpenedType ==
  ASSUME TypeOK, NEW c \in Cnns, NEW f \in Fds, Opened(c, f)
  PROVE  /\ sock' \in [Fds -> Cnns \cup {None}] /\ stolen' \subseteq Cnns
         /\ new_nodes' \in [Cnns -> Fds \cup {None}]
         /\ life' \in [Cnns -> {"none", "open", "failed", "closed"}]
<1>1. CASE AddCnnOK(f)
  BY <1>1 DEF Opened, TypeOK, AddCnn
<1>2. CASE ~AddCnnOK(f)
  <2>1. sock' \in [Fds -> Cnns \cup {None}] /\ stolen' \subseteq Cnns
    BY <1>2, CloseFdsType DEF Opened, CloseFd
  <2> QED BY <1>2, <2>1 DEF Opened, TypeOK
<1> QED BY <1>1, <1>2

LEMMA UpdateType == TypeOK /\ Update => TypeOK'
<1> SUFFICES ASSUME TypeOK, Update PROVE TypeOK'
  OBVIOUS
<1> USE DEF workerVars, moduleVars, taskVars, updateVars, userVars, peerVars, sharedVars, loopVars
<1>1. CASE ProcessNetTaskResult
  <2> DEFINE ret == Head(net_task_results)
  <2>1. /\ ret \in [cnn : Askable, fd : Fds \cup {None}]
        /\ net_task_results' \in Seq([cnn : Askable, fd : Fds \cup {None}])
        /\ ret.cnn \in Cnns
    <3>1. /\ net_task_results \in Seq([cnn : Askable, fd : Fds \cup {None}])
          /\ net_task_results # <<>> /\ net_task_results' = Tail(net_task_results)
      BY <1>1 DEF ProcessNetTaskResult, TypeOK
    <3> HIDE DEF ret
    <3>2. ret \in [cnn : Askable, fd : Fds \cup {None}]
      BY <3>1, SeqFacts DEF ret
    <3> QED BY <3>1, <3>2, ConstantFacts
  <2>2. /\ sock' \in [Fds -> Cnns \cup {None}] /\ stolen' \subseteq Cnns
        /\ new_nodes' \in [Cnns -> Fds \cup {None}]
        /\ life' \in [Cnns -> {"none", "open", "failed", "closed"}]
    <3>1. CASE ret.cnn \notin async_handlers \/ ret.cnn \in expired
      <4>1. sock' \in [Fds -> Cnns \cup {None}] /\ stolen' \subseteq Cnns
        BY <1>1, <3>1, CloseFdsType DEF ProcessNetTaskResult, CloseFd, TypeOK
      <4> QED BY <1>1, <3>1, <4>1 DEF ProcessNetTaskResult, TypeOK
    <3>2. CASE ~(ret.cnn \notin async_handlers \/ ret.cnn \in expired) /\ ret.fd = None
      BY <1>1, <3>2 DEF ProcessNetTaskResult, TypeOK
    <3>3. CASE ~(ret.cnn \notin async_handlers \/ ret.cnn \in expired) /\ ret.fd # None
      <4>1. Opened(ret.cnn, ret.fd)
        BY <1>1, <3>3 DEF ProcessNetTaskResult
      <4> QED BY <2>1, <3>3, <4>1, OpenedType
    <3> QED BY <3>1, <3>2, <3>3
  <2> QED BY <1>1, <2>1, <2>2 DEF ProcessNetTaskResult, TypeOK
<1>2. CASE GetNetDatas
  <2>1. draining' \in {1 - using_idx', None} /\ using_idx' \in {0, 1}
    <3>1. using_idx \in {0, 1} /\ (0 + 1) % 2 = 1 /\ (1 + 1) % 2 = 0
      BY DEF TypeOK
    <3>2. draining' = using_idx /\ using_idx' = (using_idx + 1) % 2
      BY <1>2 DEF GetNetDatas
    <3> QED BY <3>1, <3>2
  <2> QED BY <1>2, <2>1 DEF GetNetDatas, TypeOK
<1>3. CASE ProcessNetData
  <2> DEFINE data == Head(net_datas[draining])
  <2>1. draining \in {0, 1} /\ net_datas[draining] \in Seq(Data) /\ net_datas[draining] # <<>>
    BY <1>3 DEF ProcessNetData, TypeOK
  <2>2. data \in Data /\ Tail(net_datas[draining]) \in Seq(Data)
    BY <2>1
  <2>3. net_datas' \in [{0, 1} -> Seq(Data)]
    BY <1>3, <2>1, <2>2 DEF ProcessNetData, TypeOK
  <2>4. /\ sock' \in [Fds -> Cnns \cup {None}] /\ stolen' \subseteq Cnns
        /\ new_nodes' \in [Cnns -> Fds \cup {None}]
        /\ life' \in [Cnns -> {"none", "open", "failed", "closed"}]
        /\ got' \in [Cnns -> Seq(Cnns \X Nat)]
        /\ to_remove_netids' \subseteq Cnns
        /\ asked' \subseteq Cnns /\ asked \subseteq asked'
    <3> HIDE DEF data
    <3>1. CASE HandlerGone(data)
      <4>1. sock' \in [Fds -> Cnns \cup {None}] /\ stolen' \subseteq Cnns
        BY <3>1, CloseFdsType DEF HandlerGone, CloseFd, TypeOK
      <4>2. data.cnn \in Cnns
        BY <2>2, DataTypes
      <4> QED BY <3>1, <4>1, <4>2 DEF HandlerGone, TypeOK
    <3>2. CASE OnRecvData(data)
      <4>1. data.cnn \in Cnns /\ data.chunks \in Seq(Cnns \X Nat)
        BY <2>2, <3>2, DataTypes DEF OnRecvData
      <4>2. got[data.cnn] \o data.chunks \in Seq(Cnns \X Nat)
        BY <4>1 DEF TypeOK
      <4> QED BY <3>2, <4>2 DEF OnRecvData, TypeOK
    <3>3. CASE OnClose(data)
      BY <2>2, <3>3, DataTypes DEF OnClose, TypeOK
    <3>4. CASE OnAccept(data)
      <4>1. data.new \in Cnns /\ data.fd \in Fds
        BY <2>2, <3>4, DataTypes DEF OnAccept
      <4>2. /\ sock' \in [Fds -> Cnns \cup {None}] /\ stolen' \subseteq Cnns
            /\ new_nodes' \in [Cnns -> Fds \cup {None}]
            /\ life' \in [Cnns -> {"none", "open", "failed", "closed"}]
        <5>1. CASE Opened(data.new, data.fd)
          BY <4>1, <5>1, OpenedType
        <5>2. CASE CloseFd(data.new, data.fd) /\ UNCHANGED <<new_nodes, life>>
          <6>1. sock' \in [Fds -> Cnns \cup {None}] /\ stolen' \subseteq Cnns
            BY <5>2, CloseFdsType DEF CloseFd
          <6> QED BY <5>2, <6>1 DEF TypeOK
        <5> QED BY <3>4, <5>1, <5>2 DEF OnAccept
      <4> QED BY <3>4, <4>1, <4>2 DEF OnAccept, TypeOK
    <3> QED BY <1>3, <3>1, <3>2, <3>3, <3>4 DEF ProcessNetData, data
  <2> QED BY <1>3, <2>3, <2>4 DEF ProcessNetData, TypeOK
<1>4. CASE DatasProcessed
  BY <1>4 DEF DatasProcessed, RemoveCnns, MarkClosing, TypeOK
<1> QED BY <1>1, <1>2, <1>3, <1>4 DEF Update

LEMMA ShutDownType == TypeOK /\ (Release \/ Destroy) => TypeOK'
<1> SUFFICES ASSUME TypeOK, Release \/ Destroy PROVE TypeOK'
  OBVIOUS
<1> USE DEF workerVars, moduleVars, taskVars, updateVars, userVars, peerVars, sharedVars, loopVars
<1>1. CASE Release
  <2>1. net_tasks' \in Seq(Askable)
        /\ net_task_results' \in Seq([cnn : Askable, fd : Fds \cup {None}])
    BY <1>1, SeqFacts DEF Release
  <2> QED BY <1>1, <2>1 DEF TypeOK, Release
<1>2. CASE Destroy
  BY <1>2 DEF TypeOK, Destroy
<1> QED BY <1>1, <1>2

LEMMA HandleNetErrorType ==
  ASSUME TypeOK, NEW c \in Cnns, NEW f \in Fds, NEW datas \in Seq(Data),
         HandleNetError(c, f, datas)
  PROVE  /\ sock' \in [Fds -> Cnns \cup {None}] /\ stolen' \subseteq Cnns
         /\ id2nodes' \in [Cnns -> [fd : Fds, send : Seq(Cnns \X Nat)] \cup {None}]
         /\ net_datas' \in [{0, 1} -> Seq(Data)]
<1>1. sock' \in [Fds -> Cnns \cup {None}] /\ stolen' \subseteq Cnns
  BY CloseFdsType DEF HandleNetError, CloseFd
<1>2. id2nodes' \in [Cnns -> [fd : Fds, send : Seq(Cnns \X Nat)] \cup {None}]
  BY DEF HandleNetError, TypeOK
<1>3. datas \o <<CloseData(c)>> \in Seq(Data)
  BY DataTypes
<1>4. net_datas' \in [{0, 1} -> Seq(Data)]
  BY <1>3, AddDatasType DEF HandleNetError
<1> QED BY <1>1, <1>2, <1>4

LEMMA WorkLoopType == TypeOK /\ Worker => TypeOK'
<1> SUFFICES ASSUME TypeOK, WorkLoop, UNCHANGED moduleVars PROVE TypeOK'
  BY DEF Worker
<1> USE DEF moduleVars, taskVars, updateVars, userVars, peerVars, sharedVars, loopVars
<1> DEFINE NodeRec == [fd : Fds, send : Seq(Cnns \X Nat)]
<1>1. CASE WorkLoop_AddConn
  <2>1. id2nodes' \in [Cnns -> NodeRec \cup {None}]
    <3>1. \A c \in Cnns : new_nodes[c] # None => [fd |-> new_nodes[c], send |-> <<>>] \in NodeRec
      BY SeqFacts DEF TypeOK
    <3> QED BY <1>1, <3>1 DEF WorkLoop_AddConn, TypeOK
  <2>2. new_nodes' \in [Cnns -> Fds \cup {None}]
    BY <1>1 DEF WorkLoop_AddConn
  <2> QED BY <1>1, <2>1, <2>2 DEF WorkLoop_AddConn, TypeOK
<1>2. CASE WorkLoop_SendBuff
  <2>1. id2nodes' \in [Cnns -> NodeRec \cup {None}]
    <3>1. \A c \in Nodes : [id2nodes[c] EXCEPT !.send = @ \o wait_send[c]] \in NodeRec
      <4> SUFFICES ASSUME NEW c \in Nodes PROVE [id2nodes[c] EXCEPT !.send = @ \o wait_send[c]] \in NodeRec
        OBVIOUS
      <4>1. id2nodes[c] \in NodeRec /\ wait_send[c] \in Seq(Cnns \X Nat)
        BY NodeFacts DEF TypeOK
      <4>2. id2nodes[c].send \o wait_send[c] \in Seq(Cnns \X Nat)
        BY <4>1
      <4> QED BY <4>1, <4>2
    <3> QED BY <1>2, <3>1 DEF WorkLoop_SendBuff, TypeOK
  <2>2. wait_send' \in [Cnns -> Seq(Cnns \X Nat)]
    BY <1>2, SeqFacts DEF WorkLoop_SendBuff
  <2> QED BY <1>2, <2>1, <2>2 DEF WorkLoop_SendBuff, TypeOK
<1>3. CASE Select
  <2>1. next_it_advance' \in 0..Cardinality(Cnns)
    <3>1. /\ Cardinality(Cnns) \in Nat /\ Cardinality(Nodes) \in Nat
          /\ Cardinality(Nodes) <= Cardinality(Cnns)
      BY NodeFacts, ConstantFacts, FS_Subset, FS_CardinalityType
    <3>2. next_it_advance \in 0..Cardinality(Cnns)
      BY DEF TypeOK
    <3>3. next_it_advance' \in {next_it_advance, Cardinality(Nodes)}
      BY <1>3 DEF Select
    <3> QED BY <3>1, <3>2, <3>3
  <2>2. read_set' \subseteq Fds /\ write_set' \subseteq Fds
    <3>1. PICK watched \in SUBSET Nodes :
            /\ read_set' \subseteq {id2nodes[c].fd : c \in watched}
            /\ write_set' \subseteq {id2nodes[c].fd : c \in watched}
      BY <1>3 DEF Select, kSubset
    <3> QED BY <3>1, NodeFacts
  <2>3. /\ pc' = "io"
        /\ UNCHANGED <<sock, peerVars, sharedVars, id2nodes, stolen>>
    BY <1>3 DEF Select
  <2> QED BY <2>1, <2>2, <2>3 DEF TypeOK
<1>4. ASSUME NEW f \in Fds, HandleNetRead(f) PROVE TypeOK'
  <2>1. /\ read_set' \subseteq Fds
        /\ UNCHANGED <<new_nodes, to_remove, wait_send, using_idx, is_exits, pc,
                       next_it_advance, write_set>>
    BY <1>4 DEF HandleNetRead, TypeOK
  <2>2. CASE HandleStrayFd(f)
    <3>1. sock' \in [Fds -> Cnns \cup {None}] /\ stolen' \subseteq Cnns
      BY <2>2, CloseFdsType DEF HandleStrayFd, CloseFd
    <3> QED BY <2>1, <2>2, <3>1 DEF HandleStrayFd, TypeOK
  <2>3. ASSUME NEW c \in Cnns, ReadConnect(c, f) PROVE TypeOK'
    <3> DEFINE d      == sock[f]
               chunks == IF d = None THEN <<>> ELSE unread[d]
               datas  == IF chunks = <<>> THEN <<>> ELSE <<ReadData(c, chunks)>>
    <3>1. chunks \in Seq(Cnns \X Nat)
      <4>1. <<>> \in Seq(Cnns \X Nat)
        OBVIOUS
      <4>2. d # None => unread[d] \in Seq(Cnns \X Nat)
        BY DEF TypeOK
      <4> QED BY <4>1, <4>2
    <3>2. datas \in Seq(Data)
      <4> HIDE DEF chunks
      <4>1. chunks # <<>> => ReadData(c, chunks) \in Data
        BY <3>1, DataTypes
      <4> QED BY <4>1
    <3>3. unread' \in [Cnns -> Seq(Cnns \X Nat)]
      BY <2>3, SeqFacts DEF ReadConnect, TypeOK
    <3>4. /\ sock' \in [Fds -> Cnns \cup {None}] /\ stolen' \subseteq Cnns
          /\ id2nodes' \in [Cnns -> NodeRec \cup {None}]
          /\ net_datas' \in [{0, 1} -> Seq(Data)]
      <4>1. \/ HandleNetError(c, f, datas)
            \/ AddNetworkDatas(datas) /\ UNCHANGED <<sock, stolen, id2nodes>>
        BY <2>3 DEF ReadConnect
      <4> HIDE DEF datas
      <4>2. CASE HandleNetError(c, f, datas)
        BY <3>2, <4>2, HandleNetErrorType
      <4>3. CASE AddNetworkDatas(datas) /\ UNCHANGED <<sock, stolen, id2nodes>>
        BY <3>2, <4>3, AddDatasType DEF TypeOK
      <4> QED BY <4>1, <4>2, <4>3
    <3>5. UNCHANGED <<arrived, hup, knocking, wire>>
      BY <2>3 DEF ReadConnect
    <3> QED BY <2>1, <3>3, <3>4, <3>5 DEF TypeOK
  <2>4. ASSUME NEW c \in Cnns, ReadListen(c, f) PROVE TypeOK'
    <3>1. /\ sock' \in [Fds -> Cnns \cup {None}]
          /\ knocking' \subseteq Cnns \ Askable
          /\ net_datas' \in [{0, 1} -> Seq(Data)]
      <4>1. CASE sock[f] = c /\ knocking # {} /\ FreeFds # {}
        <5>1. PICK d \in knocking :
                /\ knocking' = knocking \ {d}
                /\ OpenFd(d)
                /\ AddNetworkDatas(<<AcceptData(c, d, Min(FreeFds))>>)
          BY <2>4, <4>1 DEF ReadListen
        <5>2. d \in Cnns /\ c \in Listeners
          BY <2>4 DEF TypeOK, ReadListen
        <5>3. <<AcceptData(c, d, Min(FreeFds))>> \in Seq(Data)
          BY <4>1, <5>2, FreeFd, DataTypes
        <5>4. sock' \in [Fds -> Cnns \cup {None}]
          BY <4>1, <5>1, <5>2, OpenFdType
        <5>5. net_datas' \in [{0, 1} -> Seq(Data)]
          BY <5>1, <5>3, AddDatasType
        <5> QED BY <5>1, <5>4, <5>5 DEF TypeOK
      <4>2. CASE ~(sock[f] = c /\ knocking # {} /\ FreeFds # {})
        BY <2>4, <4>2 DEF ReadListen, TypeOK
      <4> QED BY <4>1, <4>2
    <3>2. UNCHANGED <<arrived, unread, hup, wire, stolen, id2nodes>>
      BY <2>4 DEF ReadListen
    <3> QED BY <2>1, <3>1, <3>2 DEF TypeOK
  <2> QED BY <1>4, <2>2, <2>3, <2>4 DEF HandleNetRead
<1>5. ASSUME NEW f \in Fds, HandleNetWrite(f) PROVE TypeOK'
  <2>1. /\ write_set' \subseteq Fds
        /\ UNCHANGED <<new_nodes, to_remove, wait_send, using_idx, is_exits, pc,
                       next_it_advance, read_set>>
    BY <1>5 DEF HandleNetWrite, TypeOK
  <2>2. CASE HandleStrayFd(f)
    <3>1. sock' \in [Fds -> Cnns \cup {None}] /\ stolen' \subseteq Cnns
      BY <2>2, CloseFdsType DEF HandleStrayFd, CloseFd
    <3> QED BY <2>1, <2>2, <3>1 DEF HandleStrayFd, TypeOK
  <2>3. ASSUME NEW c \in Cnns, WriteNode(c, f) PROVE TypeOK'
    <3>1. c \in Nodes /\ id2nodes[c] \in NodeRec
      BY <2>3, NodeFacts DEF WriteNode
    <3>2. /\ sock' \in [Fds -> Cnns \cup {None}] /\ stolen' \subseteq Cnns
          /\ id2nodes' \in [Cnns -> NodeRec \cup {None}]
          /\ net_datas' \in [{0, 1} -> Seq(Data)]
          /\ wire' \in [Cnns -> Seq(Cnns \X Nat)]
      <4>1. CASE HandleNetError(c, f, <<>>) /\ UNCHANGED wire
        <5>1. <<>> \in Seq(Data)
          OBVIOUS
        <5> QED BY <4>1, <5>1, HandleNetErrorType DEF TypeOK
      <4>2. CASE /\ wire' = [x \in Cnns |-> IF x = sock[f] /\ c \notin Listeners
                                            THEN wire[x] \o id2nodes[c].send ELSE wire[x]]
                 /\ id2nodes' = [id2nodes EXCEPT ![c].send = <<>>]
                 /\ UNCHANGED <<sock, stolen, net_datas>>
        <5>1. id2nodes[c].send \in Seq(Cnns \X Nat)
          BY <3>1
        <5>2. \A x \in Cnns : wire[x] \o id2nodes[c].send \in Seq(Cnns \X Nat)
          <6>1. wire \in [Cnns -> Seq(Cnns \X Nat)]
            BY DEF TypeOK
          <6>2. \A S : \A p, q \in Seq(S) : p \o q \in Seq(S)
            OBVIOUS
          <6> QED BY ONLY <5>1, <6>1, <6>2
        <5>3. wire' \in [Cnns -> Seq(Cnns \X Nat)]
          BY <4>2, <5>2 DEF TypeOK
        <5>4. id2nodes' \in [Cnns -> NodeRec \cup {None}]
          BY <3>1, <4>2, SeqFacts DEF TypeOK
        <5> QED BY <4>2, <5>3, <5>4 DEF TypeOK
      <4> QED BY <2>3, <4>1, <4>2 DEF WriteNode
    <3>3. UNCHANGED <<arrived, unread, hup, knocking>>
      BY <2>3 DEF WriteNode
    <3> QED BY <2>1, <3>2, <3>3 DEF TypeOK
  <2> QED BY <1>5, <2>2, <2>3 DEF HandleNetWrite
<1>6. CASE IoDone
  BY <1>6 DEF IoDone, TypeOK
<1>7. CASE WorkLoop_RemoveConn
  <2> DEFINE delay == {c \in to_remove : Delayed(c)}
             gone  == (to_remove \cap Nodes) \ delay
             s     == SetToSeq(gone)
             datas == [i \in DOMAIN s |-> CloseData(s[i])]
  <2>1. /\ id2nodes' = [c \in Cnns |-> IF c \in gone THEN None ELSE id2nodes[c]]
        /\ CloseFds({<<c, id2nodes[c].fd>> : c \in gone})
        /\ AddNetworkDatas(datas)
        /\ wait_send' = [c \in Cnns |-> IF c \in to_remove \ delay THEN <<>> ELSE wait_send[c]]
        /\ to_remove' = delay
        /\ UNCHANGED <<peerVars, new_nodes, using_idx, is_exits,
                       next_it_advance, read_set, write_set>>
    BY <1>7 DEF WorkLoop_RemoveConn
  <2>2. delay \subseteq to_remove /\ gone \subseteq Cnns
    BY NodeFacts DEF TypeOK
  <2>3. pc' \in {"add", "exit_send"}
    BY <1>7 DEF WorkLoop_RemoveConn
  <2> HIDE DEF delay, gone
  <2>4. datas \in Seq(Data)
    <3>1. s \in Seq(gone)
      BY <2>2, ConstantFacts, FS_Subset, SetToSeqOf
    <3> HIDE DEF s
    <3>2. \A i \in 1..Len(s) : s[i] \in Cnns
      BY <2>2, <3>1
    <3>3. \A i \in 1..Len(s) : CloseData(s[i]) \in Data
      BY <3>2, DataTypes
    <3> QED BY <3>1, <3>3
  <2> HIDE DEF datas
  <2>5. sock' \in [Fds -> Cnns \cup {None}] /\ stolen' \subseteq Cnns
    BY <2>1, CloseFdsType
  <2>6. net_datas' \in [{0, 1} -> Seq(Data)]
    BY <2>1, <2>4, AddDatasType
  <2>7. /\ id2nodes' \in [Cnns -> NodeRec \cup {None}]
        /\ wait_send' \in [Cnns -> Seq(Cnns \X Nat)]
        /\ to_remove' \subseteq Cnns
    BY <2>1, <2>2, SeqFacts DEF TypeOK
  <2> QED BY <2>1, <2>3, <2>5, <2>6, <2>7 DEF TypeOK
<1>8. CASE LoopEnds
  <2>1. to_remove' \subseteq Cnns
    BY <1>8, NodeFacts DEF LoopEnds, TypeOK
  <2> QED BY <1>8, <2>1 DEF LoopEnds, TypeOK
<1> QED BY <1>1, <1>2, <1>3, <1>4, <1>5, <1>6, <1>7, <1>8 DEF WorkLoop

LEMMA StutterType == TypeOK /\ UNCHANGED vars => TypeOK'
BY DEF TypeOK, vars, workerVars, moduleVars, taskVars, updateVars, userVars,
       peerVars, sharedVars, loopVars

LEMMA NextType == TypeOK /\ [Next]_vars => TypeOK'
BY PeersType, ProgramType, TaskThreadType, WorkLoopType, UpdateType, ShutDownType,
   StutterType DEF Next

\* Whatever connections, descriptors and bounds there are, the state of the
\* worker and of the module keeps its types, the index of the queue that is
\* being emptied included: it is never the one the worker fills
\* (network_module.cpp:373-419, net_worker_select.cpp:91-190).
THEOREM NetTypes == Spec => []TypeOK
BY InitType, NextType, PTL DEF Spec

-----------------------------------------------------------------------------
(* What the steps do to the places, one place at a time. *)

\* The accept events are the same.
QueueSame ==
  /\ \A c \in Cnns : Accepted(c)' <=> Accepted(c)
  /\ \A c \in Cnns, f \in Fds : AcceptedFd(c, f)' <=> AcceptedFd(c, f)
  /\ AcceptsOnce'

LEMMA QueueUnchanged ==
  ASSUME Guests, UNCHANGED net_datas
  PROVE  QueueSame
BY DEF QueueSame, Guests, Accepted, AcceptedFd, AcceptsOnce

LEMMA QueueOf ==
  ASSUME TypeOK, NEW q \in {0, 1}
  PROVE  /\ DOMAIN net_datas[q] = 1..Len(net_datas[q]) /\ Len(net_datas[q]) \in Nat
         /\ \A i \in DOMAIN net_datas[q] : net_datas[q][i] \in Data
BY DEF TypeOK

LEMMA AddedDatas ==
  ASSUME TypeOK, NEW datas \in Seq(Data), AddNetworkDatas(datas)
  PROVE  /\ using_idx \in {0, 1} /\ Len(datas) \in Nat /\ DOMAIN datas = 1..Len(datas)
         /\ net_datas'[1 - using_idx] = net_datas[1 - using_idx]
         /\ DOMAIN net_datas'[using_idx] = 1..(Len(net_datas[using_idx]) + Len(datas))
         /\ \A i \in 1..(Len(net_datas[using_idx]) + Len(datas)) :
              net_datas'[using_idx][i] = IF i <= Len(net_datas[using_idx])
                                         THEN net_datas[using_idx][i]
                                         ELSE datas[i - Len(net_datas[using_idx])]
<1> DEFINE s == net_datas[using_idx]
<1>1. using_idx \in {0, 1} /\ 1 - using_idx \in {0, 1} /\ 1 - using_idx # using_idx
  BY DEF TypeOK
<1>2. net_datas \in [{0, 1} -> Seq(Data)] /\ s \in Seq(Data)
  BY <1>1 DEF TypeOK
<1>3. net_datas'[using_idx] = s \o datas /\ net_datas'[1 - using_idx] = net_datas[1 - using_idx]
  BY <1>1, <1>2 DEF AddNetworkDatas
<1> HIDE DEF s
<1>4. /\ DOMAIN (s \o datas) = 1..(Len(s) + Len(datas)) /\ Len(datas) \in Nat
      /\ DOMAIN datas = 1..Len(datas)
      /\ \A i \in 1..(Len(s) + Len(datas)) :
           (s \o datas)[i] = IF i <= Len(s) THEN s[i] ELSE datas[i - Len(s)]
  BY <1>2
<1> QED BY <1>1, <1>3, <1>4 DEF s

LEMMA QueueIndex == \A q \in {0, 1} : TypeOK => q = using_idx \/ q = 1 - using_idx
BY DEF TypeOK

LEMMA AddedNoAccept ==
  ASSUME TypeOK, Guests, NEW datas \in Seq(Data), AddNetworkDatas(datas),
         \A i \in DOMAIN datas : datas[i].act # "accept"
  PROVE  QueueSame
<1> DEFINE u == using_idx
           n == Len(net_datas[u])
<1>0. /\ u \in {0, 1} /\ n \in Nat /\ Len(datas) \in Nat /\ DOMAIN datas = 1..Len(datas)
      /\ DOMAIN net_datas[u] = 1..n
      /\ net_datas'[1 - u] = net_datas[1 - u]
      /\ DOMAIN net_datas'[u] = 1..(n + Len(datas))
      /\ \A i \in 1..(n + Len(datas)) :
           net_datas'[u][i] = IF i <= n THEN net_datas[u][i] ELSE datas[i - n]
  BY AddedDatas, QueueOf
<1> HIDE DEF n
<1>1. \A q \in {0, 1} : \A i : i \in DOMAIN net_datas[q] =>
        i \in DOMAIN net_datas'[q] /\ net_datas'[q][i] = net_datas[q][i]
  <2>1. \A i \in 1..n : i \in 1..(n + Len(datas)) /\ i <= n
    BY <1>0
  <2> QED BY <1>0, <2>1, QueueIndex
<1>2. \A q \in {0, 1} : \A i : i \in DOMAIN net_datas'[q] /\ net_datas'[q][i].act = "accept" =>
        i \in DOMAIN net_datas[q]
  <2> SUFFICES ASSUME NEW q \in {0, 1}, NEW i \in DOMAIN net_datas'[q], i \notin DOMAIN net_datas[q]
               PROVE net_datas'[q][i].act # "accept"
    OBVIOUS
  <2>1. q = u /\ i \in 1..(n + Len(datas)) /\ ~(i <= n)
    BY <1>0, QueueIndex
  <2>2. net_datas'[q][i] = datas[i - n] /\ i - n \in DOMAIN datas
    BY <1>0, <2>1
  <2> QED BY <2>2
<1> QED BY <1>1, <1>2 DEF QueueSame, Guests, Accepted, AcceptedFd, AcceptsOnce

LEMMA AddedAccept ==
  ASSUME TypeOK, Guests, NEW l \in Listeners, NEW d \in Cnns, NEW g \in Fds, ~Accepted(d),
         AddNetworkDatas(<<AcceptData(l, d, g)>>)
  PROVE  /\ \A c \in Cnns : Accepted(c)' <=> Accepted(c) \/ c = d
         /\ \A c \in Cnns, f \in Fds :
              AcceptedFd(c, f)' <=> AcceptedFd(c, f) \/ (c = d /\ f = g)
         /\ AcceptsOnce'
<1> DEFINE u == using_idx
           n == Len(net_datas[u])
           e == AcceptData(l, d, g)
<1>1. /\ u \in {0, 1} /\ n \in Nat /\ DOMAIN net_datas[u] = 1..n
      /\ net_datas'[1 - u] = net_datas[1 - u]
      /\ DOMAIN net_datas'[u] = 1..(n + 1) /\ net_datas'[u][n + 1] = e
      /\ \A i \in 1..n : net_datas'[u][i] = net_datas[u][i]
  <2>1. <<e>> \in Seq(Data) /\ Len(<<e>>) = 1
    BY DataTypes
  <2>2. u \in {0, 1} /\ n \in Nat /\ DOMAIN net_datas[u] = 1..n
    BY QueueOf DEF TypeOK
  <2> HIDE DEF e
  <2>3. /\ net_datas'[1 - u] = net_datas[1 - u]
        /\ DOMAIN net_datas'[u] = 1..(n + 1)
        /\ \A i \in 1..(n + 1) :
             net_datas'[u][i] = IF i <= n THEN net_datas[u][i] ELSE <<e>>[i - n]
    BY <2>1, AddedDatas DEF e
  <2> HIDE DEF n
  <2>4. n + 1 \in 1..(n + 1) /\ ~(n + 1 <= n) /\ (n + 1) - n = 1 /\ <<e>>[1] = e
    BY <2>2
  <2>5. \A i \in 1..n : i \in 1..(n + 1) /\ i <= n
    BY <2>2
  <2> QED BY <2>2, <2>3, <2>4, <2>5
<1>2. e.act = "accept" /\ e.new = d /\ e.fd = g
  BY DEF AcceptData
<1> HIDE DEF n, e
<1>3. \A q \in {0, 1} : \A i : i \in DOMAIN net_datas[q] =>
        i \in DOMAIN net_datas'[q] /\ net_datas'[q][i] = net_datas[q][i]
  BY <1>1, QueueIndex
<1>4. \A q \in {0, 1} : \A i : i \in DOMAIN net_datas'[q] =>
        i \in DOMAIN net_datas[q] \/ (q = u /\ i = n + 1)
  BY <1>1, QueueIndex
<1>5. u \in {0, 1} /\ n + 1 \in DOMAIN net_datas'[u] /\ net_datas'[u][n + 1] = e
      /\ n + 1 \notin DOMAIN net_datas[u]
  BY <1>1
<1>6. \A c \in Cnns : Accepted(c)' <=> Accepted(c) \/ c = d
  <2> SUFFICES ASSUME NEW c \in Cnns PROVE Accepted(c)' <=> Accepted(c) \/ c = d
    OBVIOUS
  <2>1. Accepted(c) => Accepted(c)'
    BY <1>3 DEF Accepted
  <2>2. c = d => Accepted(c)'
    BY <1>2, <1>5 DEF Accepted
  <2>3. Accepted(c)' => Accepted(c) \/ c = d
    BY <1>2, <1>3, <1>4, <1>5 DEF Accepted
  <2> QED BY <2>1, <2>2, <2>3
<1>7. \A c \in Cnns, f \in Fds : AcceptedFd(c, f)' <=> AcceptedFd(c, f) \/ (c = d /\ f = g)
  <2> SUFFICES ASSUME NEW c \in Cnns, NEW f \in Fds
               PROVE  AcceptedFd(c, f)' <=> AcceptedFd(c, f) \/ (c = d /\ f = g)
    OBVIOUS
  <2>1. AcceptedFd(c, f) => AcceptedFd(c, f)'
    BY <1>3 DEF AcceptedFd
  <2>2. c = d /\ f = g => AcceptedFd(c, f)'
    BY <1>2, <1>5 DEF AcceptedFd
  <2>3. AcceptedFd(c, f)' => AcceptedFd(c, f) \/ (c = d /\ f = g)
    BY <1>2, <1>3, <1>4, <1>5 DEF AcceptedFd
  <2> QED BY <2>1, <2>2, <2>3
<1>8. AcceptsOnce'
  <2> SUFFICES ASSUME NEW q \in {0, 1}, NEW r \in {0, 1},
                      NEW i \in DOMAIN net_datas'[q], NEW j \in DOMAIN net_datas'[r],
                      net_datas'[q][i].act = "accept", net_datas'[r][j].act = "accept",
                      net_datas'[q][i].new = net_datas'[r][j].new
               PROVE  q = r /\ i = j
    BY DEF AcceptsOnce
  <2>1. CASE i \in DOMAIN net_datas[q] /\ j \in DOMAIN net_datas[r]
    BY <1>3, <2>1 DEF Guests, AcceptsOnce
  <2>2. CASE i \in DOMAIN net_datas[q] /\ ~(j \in DOMAIN net_datas[r])
    BY <1>2, <1>3, <1>4, <1>5, <2>2 DEF Accepted
  <2>3. CASE ~(i \in DOMAIN net_datas[q]) /\ j \in DOMAIN net_datas[r]
    BY <1>2, <1>3, <1>4, <1>5, <2>3 DEF Accepted
  <2>4. CASE ~(i \in DOMAIN net_datas[q]) /\ ~(j \in DOMAIN net_datas[r])
    BY <1>4, <2>4
  <2> QED BY <2>1, <2>2, <2>3, <2>4
<1> QED BY <1>6, <1>7, <1>8

LEMMA DroppedData ==
  ASSUME TypeOK, NEW q \in {0, 1}, net_datas[q] # <<>>,
         net_datas' = [net_datas EXCEPT ![q] = Tail(@)]
  PROVE  /\ net_datas'[1 - q] = net_datas[1 - q]
         /\ 1 \in DOMAIN net_datas[q] /\ net_datas[q][1] = Head(net_datas[q])
         /\ \A i \in DOMAIN net_datas'[q] :
              /\ i \in Nat /\ i # 0
              /\ i + 1 \in DOMAIN net_datas[q] /\ net_datas'[q][i] = net_datas[q][i + 1]
         /\ \A i \in DOMAIN net_datas[q] : i # 1 =>
              i - 1 \in DOMAIN net_datas'[q] /\ net_datas'[q][i - 1] = net_datas[q][i]
<1> DEFINE s == net_datas[q]
<1>1. s \in Seq(Data) /\ s # <<>> /\ net_datas'[q] = Tail(s) /\ net_datas'[1 - q] = net_datas[1 - q]
  BY DEF TypeOK
<1> HIDE DEF s
<1>2. /\ Len(s) \in Nat /\ Len(s) >= 1 /\ DOMAIN s = 1..Len(s) /\ s[1] = Head(s)
      /\ DOMAIN Tail(s) = 1..(Len(s) - 1)
      /\ \A i \in 1..(Len(s) - 1) : Tail(s)[i] = s[i + 1]
  BY <1>1
<1>3. \A i \in DOMAIN s : i # 1 => i - 1 \in 1..(Len(s) - 1) /\ (i - 1) + 1 = i
  BY <1>2
<1>4. \A i \in DOMAIN Tail(s) : i \in Nat /\ i # 0 /\ i + 1 \in DOMAIN s /\ Tail(s)[i] = s[i + 1]
  BY <1>2
<1>5. \A i \in DOMAIN s : i # 1 => i - 1 \in DOMAIN Tail(s) /\ Tail(s)[i - 1] = s[i]
  BY <1>2, <1>3
<1>6. 1 \in DOMAIN s
  BY <1>2
<1>7. /\ \A i \in DOMAIN net_datas'[q] :
           i \in Nat /\ i # 0 /\ i + 1 \in DOMAIN s /\ net_datas'[q][i] = s[i + 1]
      /\ \A i \in DOMAIN s : i # 1 => i - 1 \in DOMAIN net_datas'[q] /\ net_datas'[q][i - 1] = s[i]
  <2>1. net_datas'[q] = Tail(s)
    BY <1>1
  <2> QED BY <1>4, <1>5, <2>1
<1> QED BY <1>1, <1>2, <1>6, <1>7 DEF s

LEMMA DroppedNoAccept ==
  ASSUME TypeOK, Guests, NEW q \in {0, 1}, net_datas[q] # <<>>,
         net_datas' = [net_datas EXCEPT ![q] = Tail(@)],
         Head(net_datas[q]).act # "accept"
  PROVE  QueueSame
<1>1. /\ \A r \in {0, 1} : r = q \/ (r = 1 - q /\ net_datas'[r] = net_datas[r])
      /\ 1 \in DOMAIN net_datas[q] /\ net_datas[q][1] = Head(net_datas[q])
      /\ \A i \in DOMAIN net_datas'[q] :
           /\ i \in Nat /\ i # 0
           /\ i + 1 \in DOMAIN net_datas[q] /\ net_datas'[q][i] = net_datas[q][i + 1]
      /\ \A i \in DOMAIN net_datas[q] : i # 1 =>
           i - 1 \in DOMAIN net_datas'[q] /\ net_datas'[q][i - 1] = net_datas[q][i]
  <2>1. \A r \in {0, 1} : r = q \/ r = 1 - q
    OBVIOUS
  <2> QED BY <2>1, DroppedData
<1>2. \A r \in {0, 1} : \A i \in DOMAIN net_datas[r] : net_datas[r][i].act = "accept" =>
        \E j \in DOMAIN net_datas'[r] : net_datas'[r][j] = net_datas[r][i]
  BY <1>1
<1>3. \A r \in {0, 1} : \A i \in DOMAIN net_datas'[r] :
        \E j \in DOMAIN net_datas[r] : net_datas'[r][i] = net_datas[r][j]
  BY <1>1
<1>4. AcceptsOnce'
  <2>1. \A i, j \in DOMAIN net_datas'[q] : i + 1 = j + 1 => i = j
    BY <1>1
  <2> SUFFICES ASSUME NEW r \in {0, 1}, NEW s \in {0, 1},
                      NEW i \in DOMAIN net_datas'[r], NEW j \in DOMAIN net_datas'[s],
                      net_datas'[r][i].act = "accept", net_datas'[s][j].act = "accept",
                      net_datas'[r][i].new = net_datas'[s][j].new
               PROVE  r = s /\ i = j
    BY DEF AcceptsOnce
  <2> DEFINE Place(u, k) == IF u = q THEN k + 1 ELSE k
  <2>2. ASSUME NEW u \in {0, 1}, NEW k \in DOMAIN net_datas'[u]
        PROVE  Place(u, k) \in DOMAIN net_datas[u] /\ net_datas'[u][k] = net_datas[u][Place(u, k)]
    <3>1. CASE u = q
      BY <1>1, <3>1
    <3>2. CASE u # q
      BY <1>1, <3>2
    <3> QED BY <3>1, <3>2
  <2> HIDE DEF Place
  <2>3. r = s /\ Place(r, i) = Place(s, j)
    BY <2>2 DEF Guests, AcceptsOnce
  <2> QED BY <2>1, <2>3 DEF Place
<1>5. ASSUME NEW c PROVE Accepted(c)' <=> Accepted(c)
  <2>1. Accepted(c) => Accepted(c)'
    BY <1>2 DEF Accepted
  <2>2. Accepted(c)' => Accepted(c)
    BY <1>3 DEF Accepted
  <2> QED BY <2>1, <2>2
<1>6. ASSUME NEW c, NEW f PROVE AcceptedFd(c, f)' <=> AcceptedFd(c, f)
  <2>1. AcceptedFd(c, f) => AcceptedFd(c, f)'
    BY <1>2 DEF AcceptedFd
  <2>2. AcceptedFd(c, f)' => AcceptedFd(c, f)
    BY <1>3 DEF AcceptedFd
  <2> QED BY <2>1, <2>2
<1> QED BY <1>4, <1>5, <1>6 DEF QueueSame

LEMMA DroppedAccept ==
  ASSUME TypeOK, Guests, NEW q \in {0, 1}, net_datas[q] # <<>>,
         net_datas' = [net_datas EXCEPT ![q] = Tail(@)],
         Head(net_datas[q]).act = "accept"
  PROVE  LET d == Head(net_datas[q]).new
             g == Head(net_datas[q]).fd
         IN /\ AcceptedFd(d, g) /\ Accepted(d)
            /\ \A f : AcceptedFd(d, f) => f = g
            /\ \A c \in Cnns : Accepted(c)' <=> Accepted(c) /\ c # d
            /\ \A c \in Cnns, f \in Fds : AcceptedFd(c, f)' <=> AcceptedFd(c, f) /\ c # d
            /\ AcceptsOnce'
<1> DEFINE d == Head(net_datas[q]).new
           g == Head(net_datas[q]).fd
<1>1. /\ \A r \in {0, 1} : r = q \/ (r = 1 - q /\ net_datas'[r] = net_datas[r])
      /\ 1 \in DOMAIN net_datas[q] /\ net_datas[q][1] = Head(net_datas[q])
      /\ \A i \in DOMAIN net_datas'[q] :
           /\ i \in Nat /\ i # 0
           /\ i + 1 \in DOMAIN net_datas[q] /\ net_datas'[q][i] = net_datas[q][i + 1]
      /\ \A i \in DOMAIN net_datas[q] : i # 1 =>
           i - 1 \in DOMAIN net_datas'[q] /\ net_datas'[q][i - 1] = net_datas[q][i]
  <2>1. \A r \in {0, 1} : r = q \/ r = 1 - q
    OBVIOUS
  <2> QED BY <2>1, DroppedData
<1>0. /\ net_datas[q][1].new = d /\ net_datas[q][1].fd = g
      /\ net_datas[q][1].act = "accept"
  BY <1>1
<1>2. \A r \in {0, 1} : \A i \in DOMAIN net_datas[r] :
        net_datas[r][i].act = "accept" /\ net_datas[r][i].new # d =>
        \E j \in DOMAIN net_datas'[r] : net_datas'[r][j] = net_datas[r][i]
  <2> SUFFICES ASSUME NEW r \in {0, 1}, NEW i \in DOMAIN net_datas[r],
                      net_datas[r][i].new # d
               PROVE  \E j \in DOMAIN net_datas'[r] : net_datas'[r][j] = net_datas[r][i]
    OBVIOUS
  <2>1. CASE r = q
    <3>1. i # 1
      BY <1>0, <2>1
    <3> QED BY <1>1, <2>1, <3>1
  <2>2. CASE r # q
    BY <1>1, <2>2
  <2> QED BY <2>1, <2>2
<1>3. \A r \in {0, 1} : \A i \in DOMAIN net_datas'[r] : net_datas'[r][i].act = "accept" =>
        /\ \E j \in DOMAIN net_datas[r] : net_datas'[r][i] = net_datas[r][j]
        /\ net_datas'[r][i].new # d
  <2> SUFFICES ASSUME NEW r \in {0, 1}, NEW i \in DOMAIN net_datas'[r],
                      net_datas'[r][i].act = "accept"
               PROVE  /\ \E j \in DOMAIN net_datas[r] : net_datas'[r][i] = net_datas[r][j]
                      /\ net_datas'[r][i].new # d
    OBVIOUS
  <2>1. CASE r = q
    <3>1. /\ i + 1 \in DOMAIN net_datas[q] /\ net_datas'[q][i] = net_datas[q][i + 1]
          /\ i + 1 # 1
      BY <1>1, <2>1
    <3> QED BY <1>0, <1>1, <2>1, <3>1 DEF Guests, AcceptsOnce
  <2>2. CASE r # q
    BY <1>0, <1>1, <2>2 DEF Guests, AcceptsOnce
  <2> QED BY <2>1, <2>2
<1>4. AcceptsOnce'
  <2>1. \A i, j \in DOMAIN net_datas'[q] : i + 1 = j + 1 => i = j
    BY <1>1
  <2> SUFFICES ASSUME NEW r \in {0, 1}, NEW s \in {0, 1},
                      NEW i \in DOMAIN net_datas'[r], NEW j \in DOMAIN net_datas'[s],
                      net_datas'[r][i].act = "accept", net_datas'[s][j].act = "accept",
                      net_datas'[r][i].new = net_datas'[s][j].new
               PROVE  r = s /\ i = j
    BY DEF AcceptsOnce
  <2> DEFINE Place(u, k) == IF u = q THEN k + 1 ELSE k
  <2>2. ASSUME NEW u \in {0, 1}, NEW k \in DOMAIN net_datas'[u]
        PROVE  Place(u, k) \in DOMAIN net_datas[u] /\ net_datas'[u][k] = net_datas[u][Place(u, k)]
    <3>1. CASE u = q
      BY <1>1, <3>1
    <3>2. CASE u # q
      BY <1>1, <3>2
    <3> QED BY <3>1, <3>2
  <2> HIDE DEF Place
  <2>3. r = s /\ Place(r, i) = Place(s, j)
    BY <2>2 DEF Guests, AcceptsOnce
  <2> QED BY <2>1, <2>3 DEF Place
<1> HIDE DEF d, g
<1>5. AcceptedFd(d, g) /\ Accepted(d)
  BY <1>0, <1>1 DEF AcceptedFd, Accepted
<1>6. \A f : AcceptedFd(d, f) => f = g
  BY <1>0, <1>1 DEF AcceptedFd, Guests, AcceptsOnce
<1>7. ASSUME NEW c \in Cnns PROVE Accepted(c)' <=> Accepted(c) /\ c # d
  <2>1. Accepted(c) /\ c # d => Accepted(c)'
    BY <1>2 DEF Accepted
  <2>2. Accepted(c)' => Accepted(c) /\ c # d
    BY <1>3 DEF Accepted
  <2> QED BY <2>1, <2>2
<1>8. ASSUME NEW c \in Cnns, NEW f \in Fds PROVE AcceptedFd(c, f)' <=> AcceptedFd(c, f) /\ c # d
  <2>1. ASSUME AcceptedFd(c, f), c # d PROVE AcceptedFd(c, f)'
    <3>0. PICK r \in {0, 1} : \E i \in DOMAIN net_datas[r] :
            net_datas[r][i].act = "accept" /\ net_datas[r][i].new = c /\ net_datas[r][i].fd = f
      BY <2>1 DEF AcceptedFd
    <3>1. PICK i \in DOMAIN net_datas[r] :
            net_datas[r][i].act = "accept" /\ net_datas[r][i].new = c /\ net_datas[r][i].fd = f
      BY <3>0
    <3>2. PICK j \in DOMAIN net_datas'[r] : net_datas'[r][j] = net_datas[r][i]
      BY <1>2, <2>1, <3>1
    <3> QED BY <3>1, <3>2 DEF AcceptedFd
  <2>2. AcceptedFd(c, f)' => AcceptedFd(c, f) /\ c # d
    BY <1>3 DEF AcceptedFd
  <2> QED BY <2>1, <2>2
<1> QED BY <1>4, <1>5, <1>6, <1>7, <1>8 DEF d, g

-----------------------------------------------------------------------------
(* Steps that move no connection and no descriptor. *)

LifeKept ==
  \A c \in Cnns : /\ life[c] # "none" => life'[c] # "none"
                  /\ c \notin asked' \ asked /\ life[c] = "none" => life'[c] = "none"

NodesSame == Nodes' = Nodes /\ \A c \in Nodes : id2nodes'[c].fd = id2nodes[c].fd

Still ==
  /\ UNCHANGED <<taskVars, new_nodes, knocking>>
  /\ QueueSame /\ Told' /\ NodesSame
  /\ asked \subseteq asked' /\ LifeKept
  /\ Quiet' => Quiet /\ sock' = sock

LEMMA AskedStep ==
  ASSUME TypeOK, Asked, UNCHANGED taskVars, asked \subseteq asked', LifeKept
  PROVE  Asked'
BY DEF Asked, TasksOnce, ResultsOnce, Asking, Making, Made, LifeKept, taskVars

LEMMA GuestsStep ==
  ASSUME TypeOK, Guests, knocking' \subseteq knocking, AcceptsOnce',
         \A c \in Cnns : Accepted(c)' => Accepted(c), asked \subseteq asked', LifeKept
  PROVE  Guests'
<1>1. knocking \subseteq Cnns
  BY DEF TypeOK
<1>2. \A c \in knocking' : ~Accepted(c)' /\ c \in asked' /\ life'[c] = "none"
  BY <1>1 DEF Guests, LifeKept
<1>3. \A c \in Cnns : Accepted(c)' => c \in asked' \ Askable /\ life'[c] = "none"
  BY DEF Guests, LifeKept
<1> QED BY <1>2, <1>3 DEF Guests

LEMMA GivenStep ==
  ASSUME TypeOK, Given, NodesSame, UNCHANGED new_nodes, asked \subseteq asked', LifeKept
  PROVE  Given'
BY NodeFacts DEF Given, NodesSame, LifeKept

LEMMA ToldStep ==
  ASSUME TypeOK, Told, LifeKept, UNCHANGED net_datas
  PROVE  Told'
BY QueueOf, DataTypes DEF Told, LifeKept

LEMMA ToldAdded ==
  ASSUME TypeOK, Told, LifeKept, NEW datas \in Seq(Data), AddNetworkDatas(datas),
         \A i \in DOMAIN datas : life[datas[i].cnn] # "none"
  PROVE  Told'
<1> SUFFICES ASSUME NEW q \in {0, 1}, NEW i \in DOMAIN net_datas'[q]
             PROVE  life'[net_datas'[q][i].cnn] # "none"
  BY DEF Told
<1> DEFINE n == Len(net_datas[using_idx])
<1>1. /\ using_idx \in {0, 1} /\ n \in Nat /\ Len(datas) \in Nat /\ DOMAIN datas = 1..Len(datas)
      /\ DOMAIN net_datas[using_idx] = 1..n
      /\ net_datas'[1 - using_idx] = net_datas[1 - using_idx]
      /\ DOMAIN net_datas'[using_idx] = 1..(n + Len(datas))
      /\ \A j \in 1..(n + Len(datas)) :
           net_datas'[using_idx][j] = IF j <= n THEN net_datas[using_idx][j] ELSE datas[j - n]
  BY AddedDatas, QueueOf
<1> HIDE DEF n
<1>2. CASE q = using_idx /\ ~(i <= n)
  <2>1. i - n \in DOMAIN datas /\ net_datas'[q][i] = datas[i - n]
    BY <1>1, <1>2
  <2>2. datas[i - n].cnn \in Cnns
    BY <1>1, <2>1, DataTypes
  <2> QED BY <2>1, <2>2 DEF LifeKept
<1>3. CASE ~(q = using_idx /\ ~(i <= n))
  <2>1. i \in DOMAIN net_datas[q] /\ net_datas'[q][i] = net_datas[q][i]
    BY <1>1, <1>3, QueueIndex
  <2>2. net_datas[q][i].cnn \in Cnns
    BY <2>1, QueueOf, DataTypes
  <2> QED BY <2>1, <2>2 DEF Told, LifeKept
<1> QED BY <1>2, <1>3

LEMMA ToldDropped ==
  ASSUME TypeOK, Told, LifeKept, NEW q \in {0, 1}, net_datas[q] # <<>>,
         net_datas' = [net_datas EXCEPT ![q] = Tail(@)]
  PROVE  Told'
<1> SUFFICES ASSUME NEW r \in {0, 1}, NEW i \in DOMAIN net_datas'[r]
             PROVE  life'[net_datas'[r][i].cnn] # "none"
  BY DEF Told
<1>1. \E j \in DOMAIN net_datas[r] : net_datas'[r][i] = net_datas[r][j]
  <2>1. CASE r = q
    <3>1. i + 1 \in DOMAIN net_datas[q] /\ net_datas'[q][i] = net_datas[q][i + 1]
      BY <2>1, DroppedData
    <3> QED BY <2>1, <3>1
  <2>2. CASE r # q
    BY <2>2 DEF TypeOK
  <2> QED BY <2>1, <2>2
<1>2. PICK j \in DOMAIN net_datas[r] : net_datas'[r][i] = net_datas[r][j]
  BY <1>1
<1>3. net_datas[r][j].cnn \in Cnns
  BY <1>2, QueueOf, DataTypes
<1> QED BY <1>2, <1>3 DEF Told, LifeKept

LEMMA StillKeeps ==
  ASSUME TypeOK, OwnedInv, Still
  PROVE  OwnedInv'
<1>1. Places'
  <2>1. \A c \in Cnns : Accepted(c)' => Accepted(c)
    BY DEF Still, QueueSame
  <2> QED BY <2>1, AskedStep, GuestsStep, GivenStep DEF OwnedInv, Places, Still, QueueSame
<1>2. ASSUME Quiet' PROVE Owned'
  <2>1. Owned /\ sock' = sock
    BY <1>2 DEF Still, OwnedInv
  <2>2. ASSUME NEW c \in Cnns, NEW f \in Fds PROVE HeldFor(c, f)' <=> HeldFor(c, f)
    <3>1. MakingFd(c, f)' <=> MakingFd(c, f)
      BY DEF Still, taskVars, MakingFd, Making
    <3>2. MadeFd(c, f)' <=> MadeFd(c, f)
      BY DEF Still, taskVars, MadeFd
    <3>3. AcceptedFd(c, f)' <=> AcceptedFd(c, f)
      BY DEF Still, QueueSame
    <3>4. NodeFd(c, f)' <=> NodeFd(c, f)
      BY DEF Still, NodesSame, NodeFd
    <3> QED BY <3>1, <3>2, <3>3, <3>4 DEF HeldFor, Still
  <2> QED BY <2>1, <2>2 DEF Owned
<1> QED BY <1>1, <1>2 DEF OwnedInv

LEMMA PeersStill ==
  ASSUME TypeOK, OwnedInv, NEW c \in Cnns,
         (PeerSends(c) \/ PeerCloses(c)) /\ UNCHANGED moduleVars
  PROVE  Still
<1> USE DEF moduleVars, taskVars, updateVars, userVars, sharedVars, loopVars
<1>1. /\ UNCHANGED <<net_datas, id2nodes, new_nodes, knocking, taskVars, asked, life,
                     phase, sock, stolen>>
  BY DEF PeerSends, PeerCloses
<1>2. LifeKept /\ NodesSame
  BY <1>1 DEF LifeKept, NodesSame, Nodes
<1> QED BY <1>1, <1>2, QueueUnchanged, ToldStep DEF OwnedInv, Places, Still, Quiet

LEMMA ProgramStill ==
  ASSUME TypeOK, OwnedInv,
         \/ \E c \in Cnns : CancelAsync(c) \/ UserSend(c) \/ Close(c) \/ HandlerExpires(c)
         \/ GetNetDatas \/ DatasProcessed
  PROVE  Still
<1> USE DEF workerVars, peerVars, sharedVars, loopVars, moduleVars, taskVars, updateVars, userVars
<1>1. UNCHANGED <<net_datas, id2nodes, new_nodes, knocking, taskVars, asked, life,
                  phase, sock, stolen>>
  BY DEF CancelAsync, UserSend, Close, HandlerExpires, GetNetDatas, DatasProcessed
<1>2. LifeKept /\ NodesSame
  BY <1>1 DEF LifeKept, NodesSame, Nodes
<1> QED BY <1>1, <1>2, QueueUnchanged, ToldStep DEF OwnedInv, Places, Still, Quiet

LEMMA WorkerStill ==
  ASSUME TypeOK, OwnedInv, UNCHANGED moduleVars,
         WorkLoop_SendBuff \/ Select \/ IoDone \/ LoopEnds
  PROVE  Still
<1> USE DEF peerVars, sharedVars, loopVars, moduleVars, taskVars, updateVars, userVars
<1>1. UNCHANGED <<net_datas, new_nodes, knocking, taskVars, asked, life, phase, sock, stolen>>
  BY DEF WorkLoop_SendBuff, Select, IoDone, LoopEnds
<1>2. NodesSame
  <2>1. CASE WorkLoop_SendBuff
    <3>1. \A d \in Nodes : id2nodes[d] \in [fd : Fds, send : Seq(Cnns \X Nat)]
      BY NodeFacts
    <3>2. \A d \in Nodes : /\ id2nodes'[d].fd = id2nodes[d].fd
                           /\ id2nodes'[d] \in [fd : Fds, send : Seq(Cnns \X Nat)]
      <4> SUFFICES ASSUME NEW d \in Nodes
                   PROVE  /\ id2nodes'[d].fd = id2nodes[d].fd
                          /\ id2nodes'[d] \in [fd : Fds, send : Seq(Cnns \X Nat)]
        OBVIOUS
      <4>1. d \in Cnns /\ wait_send[d] \in Seq(Cnns \X Nat)
        BY NodeFacts DEF TypeOK
      <4>2. id2nodes[d].send \o wait_send[d] \in Seq(Cnns \X Nat)
        BY <3>1, <4>1
      <4> QED BY <2>1, <3>1, <4>1, <4>2 DEF WorkLoop_SendBuff
    <3>3. \A d \in Cnns \ Nodes : id2nodes'[d] = None
      BY <2>1 DEF WorkLoop_SendBuff, Nodes
    <3> QED BY <3>2, <3>3, NodeFacts, NodeAssumption DEF NodesSame, Nodes
  <2>2. CASE Select \/ IoDone \/ LoopEnds
    <3>1. id2nodes' = id2nodes
      BY <2>2 DEF Select, IoDone, LoopEnds
    <3> QED BY <3>1 DEF NodesSame, Nodes
  <2> QED BY <2>1, <2>2
<1>3. LifeKept
  BY <1>1 DEF LifeKept
<1> QED BY <1>1, <1>2, <1>3, QueueUnchanged, ToldStep DEF OwnedInv, Places, Still, Quiet

\* close() of a descriptor that nobody has: if it was of nobody, it was closed.
LEMMA StrayStill ==
  ASSUME TypeOK, OwnedInv, UNCHANGED moduleVars, NEW f \in Fds, HandleStrayFd(f),
         UNCHANGED <<new_nodes>>
  PROVE  Still
<1> USE DEF peerVars, moduleVars, taskVars, updateVars, userVars
<1>1. UNCHANGED <<net_datas, id2nodes, knocking, taskVars, asked, life, phase>>
  BY DEF HandleStrayFd
<1>2. LifeKept /\ NodesSame
  BY <1>1 DEF LifeKept, NodesSame, Nodes
<1>3. ASSUME Quiet' PROVE Quiet /\ sock' = sock
  <2>1. /\ sock' = [g \in Fds |-> IF g = f THEN None ELSE sock[g]]
        /\ stolen' = stolen \cup {d \in Cnns : sock[f] = d /\ None # d}
    BY DEF HandleStrayFd, CloseFd, CloseFds
  <2>2. sock[f] = None
    BY <1>3, <2>1, ConstantFacts DEF Quiet, TypeOK
  <2> QED BY <1>1, <1>3, <2>1, <2>2 DEF Quiet, TypeOK
<1> QED BY <1>1, <1>2, <1>3, QueueUnchanged, ToldStep DEF OwnedInv, Places, Still

LEMMA ReadStill ==
  ASSUME TypeOK, OwnedInv, UNCHANGED moduleVars, NEW c \in Nodes,
         NEW chunks \in Seq(Cnns \X Nat),
         AddNetworkDatas(IF chunks = <<>> THEN <<>> ELSE <<ReadData(c, chunks)>>),
         UNCHANGED <<sock, stolen, id2nodes, knocking, new_nodes>>
  PROVE  Still
<1> USE DEF moduleVars, taskVars, updateVars, userVars
<1> DEFINE datas == IF chunks = <<>> THEN <<>> ELSE <<ReadData(c, chunks)>>
<1>1. ReadData(c, chunks) \in Data /\ ReadData(c, chunks).act # "accept"
      /\ ReadData(c, chunks).cnn = c /\ life[c] # "none"
  BY DataTypes, NodeFacts DEF ReadData, OwnedInv, Places, Given
<1>2. /\ datas \in Seq(Data)
      /\ \A i \in DOMAIN datas : datas[i].act # "accept" /\ life[datas[i].cnn] # "none"
  BY <1>1
<1>3. AddNetworkDatas(datas)
  OBVIOUS
<1>4. LifeKept /\ NodesSame
  BY DEF LifeKept, NodesSame, Nodes
<1> HIDE DEF datas
<1> QED BY <1>2, <1>3, <1>4, AddedNoAccept, ToldAdded DEF OwnedInv, Places, Still, Quiet

-----------------------------------------------------------------------------
(* A connection holds its descriptor in the place where it is; descriptors  *)
(* are opened for a place and closed with it.                              *)

LEMMA Alone ==
  ASSUME TypeOK, Places, NEW c \in Cnns, NEW f \in Fds
  PROVE  /\ Making(c) => (HeldFor(c, f) <=> in_task.fd = f)
         /\ Made(c) => (HeldFor(c, f) <=> MadeFd(c, f))
         /\ Accepted(c) => (HeldFor(c, f) <=> AcceptedFd(c, f))
         /\ new_nodes[c] # None => (HeldFor(c, f) <=> new_nodes[c] = f)
         /\ c \in Nodes => (HeldFor(c, f) <=> id2nodes[c].fd = f)
         /\ c \in knocking \/ c \notin asked \/ Asking(c) => ~HeldFor(c, f)
<1>1. /\ MakingFd(c, f) => Making(c)
      /\ MadeFd(c, f) => Made(c)
      /\ AcceptedFd(c, f) => Accepted(c)
      /\ NodeFd(c, f) => c \in Nodes
      /\ new_nodes[c] = f => new_nodes[c] # None
  BY ConstantFacts DEF MakingFd, MadeFd, Made, AcceptedFd, Accepted, NodeFd
<1>2. Asking(c) \/ Making(c) \/ Made(c) => c \in Askable
  <2>1. Asking(c) => c \in Askable
    <3>1. net_tasks \in Seq(Askable)
      BY DEF TypeOK
    <3> QED BY <3>1 DEF Asking
  <2>2. Making(c) => c \in Askable
    BY DEF Making, TypeOK
  <2>3. Made(c) => c \in Askable
    <3>1. net_task_results \in Seq([cnn : Askable, fd : Fds \cup {None}])
      BY DEF TypeOK
    <3>2. \A i \in DOMAIN net_task_results :
            net_task_results[i] \in [cnn : Askable, fd : Fds \cup {None}]
      BY <3>1, SeqFacts
    <3> QED BY <3>2 DEF Made
  <2> QED BY <2>1, <2>2, <2>3
<1>3. /\ Making(c) => ~Made(c)
      /\ Asking(c) => ~Making(c) /\ ~Made(c)
      /\ Asking(c) \/ Making(c) \/ Made(c) =>
           c \in asked /\ life[c] = "none" /\ ~Accepted(c) /\ c \notin knocking
      /\ Accepted(c) => c \in asked /\ life[c] = "none"
      /\ c \in knocking => c \in asked /\ ~Accepted(c) /\ life[c] = "none"
      /\ c \in Nodes \/ new_nodes[c] # None => c \in asked /\ life[c] # "none"
      /\ c \in Nodes => new_nodes[c] = None
  BY <1>2 DEF Places, Asked, Guests, Given, TypeOK
<1> QED BY <1>1, <1>3 DEF HeldFor, MakingFd, NodeFd

LEMMA OwnedSame ==
  ASSUME Owned, UNCHANGED sock,
         \A c \in Cnns, f \in Fds : HeldFor(c, f)' <=> HeldFor(c, f)
  PROVE  Owned'
BY DEF Owned

LEMMA OwnedOpen ==
  ASSUME TypeOK, Owned, NEW d \in Cnns, FreeFds # {}, OpenFd(d),
         \A c \in Cnns, f \in Fds :
           HeldFor(c, f)' <=> HeldFor(c, f) \/ (c = d /\ f = Min(FreeFds))
  PROVE  Owned'
<1>1. Min(FreeFds) \in Fds /\ sock[Min(FreeFds)] = None
  BY FreeFd
<1>2. /\ \A f \in Fds : f # Min(FreeFds) => sock'[f] = sock[f]
      /\ sock'[Min(FreeFds)] = d
  BY <1>1 DEF OpenFd, TypeOK
<1> SUFFICES ASSUME NEW c \in Cnns, NEW f \in Fds PROVE HeldFor(c, f)' <=> sock'[f] = c
  BY DEF Owned
<1>3. CASE f = Min(FreeFds)
  <2>1. ~HeldFor(c, f)
    BY <1>1, <1>3, ConstantFacts DEF Owned
  <2> QED BY <1>2, <1>3, <2>1
<1>4. CASE f # Min(FreeFds)
  BY <1>2, <1>4 DEF Owned
<1> QED BY <1>3, <1>4

LEMMA OwnedClose ==
  ASSUME TypeOK, Owned, NEW d \in Cnns, NEW g \in Fds, CloseFd(d, g), stolen' = {},
         \A f \in Fds : HeldFor(d, f) <=> f = g,
         \A c \in Cnns, f \in Fds : HeldFor(c, f)' <=> HeldFor(c, f) /\ c # d
  PROVE  Owned'
<1>1. sock' = [f \in Fds |-> IF f = g THEN None ELSE sock[f]]
  BY DEF CloseFd, CloseFds
<1>2. sock[g] = d
  BY DEF Owned
<1> SUFFICES ASSUME NEW c \in Cnns, NEW f \in Fds PROVE HeldFor(c, f)' <=> sock'[f] = c
  BY DEF Owned
<1>3. CASE f = g
  <2>1. HeldFor(c, f) => c = d
    BY <1>2, <1>3 DEF Owned
  <2>2. sock'[f] # c
    BY <1>1, <1>3, ConstantFacts
  <2> QED BY <2>1, <2>2
<1>4. CASE f # g
  <2>1. sock'[f] = sock[f]
    BY <1>1, <1>4
  <2>2. HeldFor(c, f) => c # d
    BY <1>4
  <2> QED BY <2>1, <2>2 DEF Owned
<1> QED BY <1>3, <1>4

\* Closing a descriptor that is the connection's own robs nobody, so that a
\* step that robs nobody kept its peace before.
LEMMA QuietBefore ==
  ASSUME TypeOK, NEW pairs, CloseFds(pairs) \/ UNCHANGED stolen, phase' = phase, Quiet'
  PROVE  Quiet
BY DEF CloseFds, Quiet

LEMMA SeqTail ==
  ASSUME NEW S, NEW s \in Seq(S), s # <<>>
  PROVE  /\ 1 \in DOMAIN s /\ s[1] = Head(s)
         /\ \A i \in DOMAIN Tail(s) : i \in Nat /\ i # 0 /\ i + 1 \in DOMAIN s /\ Tail(s)[i] = s[i + 1]
         /\ \A i \in DOMAIN s : i # 1 => i - 1 \in DOMAIN Tail(s) /\ Tail(s)[i - 1] = s[i]
<1>1. /\ Len(s) \in Nat /\ Len(s) >= 1 /\ DOMAIN s = 1..Len(s) /\ s[1] = Head(s)
      /\ DOMAIN Tail(s) = 1..(Len(s) - 1)
      /\ \A i \in 1..(Len(s) - 1) : Tail(s)[i] = s[i + 1]
  OBVIOUS
<1>2. \A i \in DOMAIN s : i # 1 => i - 1 \in 1..(Len(s) - 1) /\ (i - 1) + 1 = i
  BY <1>1
<1>3. \A i \in DOMAIN Tail(s) : i \in Nat /\ i # 0 /\ i + 1 \in DOMAIN s /\ Tail(s)[i] = s[i + 1]
  BY <1>1
<1>4. \A i \in DOMAIN s : i # 1 => i - 1 \in DOMAIN Tail(s) /\ Tail(s)[i - 1] = s[i]
  BY <1>1, <1>2
<1> QED BY <1>1, <1>3, <1>4

LEMMA SeqAppend ==
  ASSUME NEW S, NEW s \in Seq(S), NEW x \in S
  PROVE  /\ Len(s) + 1 \in DOMAIN Append(s, x) /\ Append(s, x)[Len(s) + 1] = x
         /\ \A i \in DOMAIN s : i \in DOMAIN Append(s, x) /\ Append(s, x)[i] = s[i]
         /\ \A i \in DOMAIN Append(s, x) : i \in DOMAIN s \/ i = Len(s) + 1
         /\ Len(s) + 1 \notin DOMAIN s
<1>1. /\ Len(s) \in Nat /\ DOMAIN s = 1..Len(s) /\ DOMAIN Append(s, x) = 1..(Len(s) + 1)
      /\ \A i \in 1..Len(s) : Append(s, x)[i] = s[i]
      /\ Append(s, x)[Len(s) + 1] = x
  OBVIOUS
<1> QED BY <1>1

LEMMA TaskAppended ==
  ASSUME TypeOK, Asked, NEW d \in Askable, ~Asking(d), net_tasks' = Append(net_tasks, d)
  PROVE  TasksOnce' /\ \A c : Asking(c)' <=> Asking(c) \/ c = d
<1>1. net_tasks \in Seq(Askable)
  BY DEF TypeOK
<1> QED BY <1>1, SeqAppend DEF Asked, TasksOnce, Asking

LEMMA TaskTaken ==
  ASSUME TypeOK, Asked, net_tasks # <<>>, net_tasks' = Tail(net_tasks)
  PROVE  /\ TasksOnce' /\ Asking(Head(net_tasks))
         /\ \A c : Asking(c)' <=> Asking(c) /\ c # Head(net_tasks)
<1> DEFINE s == net_tasks
           t == Tail(s)
<1>1. /\ 1 \in DOMAIN s /\ s[1] = Head(s)
      /\ \A i \in DOMAIN t : i \in Nat /\ i # 0 /\ i + 1 \in DOMAIN s /\ t[i] = s[i + 1]
      /\ \A i \in DOMAIN s : i # 1 => i - 1 \in DOMAIN t /\ t[i - 1] = s[i]
  <2>1. s \in Seq(Askable)
    BY DEF TypeOK
  <2> QED BY <2>1, SeqTail
<1>2. \A i, j \in DOMAIN s : s[i] = s[j] => i = j
  BY DEF Asked, TasksOnce
<1>3. \A i, j \in DOMAIN t : i + 1 = j + 1 => i = j
  BY <1>1
<1>4. \A i \in DOMAIN t : i + 1 # 1
  BY <1>1
<1> HIDE DEF t
<1>5. \A i, j \in DOMAIN t : t[i] = t[j] => i = j
  BY <1>1, <1>2, <1>3
<1>6. \A c : (\E i \in DOMAIN t : t[i] = c) <=> (\E i \in DOMAIN s : s[i] = c) /\ c # Head(s)
  BY <1>1, <1>2, <1>4
<1> QED BY <1>1, <1>5, <1>6 DEF TasksOnce, Asking, t

LEMMA ResultAppended ==
  ASSUME TypeOK, Asked, NEW ret \in [cnn : Askable, fd : Fds \cup {None}], ~Made(ret.cnn),
         net_task_results' = Append(net_task_results, ret)
  PROVE  /\ ResultsOnce'
         /\ \A c : Made(c)' <=> Made(c) \/ c = ret.cnn
         /\ \A c, f : MadeFd(c, f)' <=> MadeFd(c, f) \/ (c = ret.cnn /\ f = ret.fd)
<1> DEFINE s == net_task_results
           t == Append(s, ret)
<1>1. /\ Len(s) + 1 \in DOMAIN t /\ t[Len(s) + 1] = ret
      /\ \A i \in DOMAIN s : i \in DOMAIN t /\ t[i] = s[i]
      /\ \A i \in DOMAIN t : i \in DOMAIN s \/ i = Len(s) + 1
  <2>1. s \in Seq([cnn : Askable, fd : Fds \cup {None}])
    BY DEF TypeOK
  <2> HIDE DEF s
  <2> QED BY <2>1, SeqAppend
<1> HIDE DEF t
<1>2. ResultsOnce'
  BY <1>1 DEF Asked, ResultsOnce, Made, t
<1>3. ASSUME NEW c PROVE Made(c)' <=> Made(c) \/ c = ret.cnn
  BY <1>1 DEF Made, t
<1>4. ASSUME NEW c, NEW f PROVE MadeFd(c, f)' <=> MadeFd(c, f) \/ (c = ret.cnn /\ f = ret.fd)
  BY <1>1 DEF MadeFd, t
<1> QED BY <1>2, <1>3, <1>4

LEMMA ResultTaken ==
  ASSUME TypeOK, Asked, net_task_results # <<>>, net_task_results' = Tail(net_task_results)
  PROVE  LET ret == Head(net_task_results)
         IN /\ ResultsOnce' /\ Made(ret.cnn)
            /\ \A f : MadeFd(ret.cnn, f) <=> f = ret.fd
            /\ \A c : Made(c)' <=> Made(c) /\ c # ret.cnn
            /\ \A c, f : MadeFd(c, f)' <=> MadeFd(c, f) /\ c # ret.cnn
<1> DEFINE s == net_task_results
           t == Tail(s)
           ret == Head(s)
<1>1. /\ 1 \in DOMAIN s /\ s[1] = ret
      /\ \A i \in DOMAIN t : i \in Nat /\ i # 0 /\ i + 1 \in DOMAIN s /\ t[i] = s[i + 1]
      /\ \A i \in DOMAIN s : i # 1 => i - 1 \in DOMAIN t /\ t[i - 1] = s[i]
  <2>1. s \in Seq([cnn : Askable, fd : Fds \cup {None}]) /\ s # <<>>
    BY DEF TypeOK
  <2> HIDE DEF s
  <2> QED BY <2>1, SeqTail
<1>2. \A i, j \in DOMAIN s : s[i].cnn = s[j].cnn => i = j
  BY DEF Asked, ResultsOnce
<1>3. \A i, j \in DOMAIN t : i + 1 = j + 1 => i = j
  BY <1>1
<1>4. \A i \in DOMAIN t : i + 1 # 1
  BY <1>1
<1> HIDE DEF t, ret
<1>5. \A i, j \in DOMAIN t : t[i].cnn = t[j].cnn => i = j
  BY <1>1, <1>2, <1>3
<1>6. \A i \in DOMAIN t : t[i].cnn # ret.cnn /\ \E j \in DOMAIN s : t[i] = s[j]
  BY <1>1, <1>2, <1>4
<1>7. \A i \in DOMAIN s : s[i].cnn # ret.cnn => \E j \in DOMAIN t : t[j] = s[i]
  BY <1>1
<1>8. Made(ret.cnn) /\ \A f : MadeFd(ret.cnn, f) <=> f = ret.fd
  BY <1>1, <1>2 DEF Made, MadeFd
<1>9. ASSUME NEW c PROVE Made(c)' <=> Made(c) /\ c # ret.cnn
  BY <1>6, <1>7 DEF Made, t
<1>10. ASSUME NEW c, NEW f PROVE MadeFd(c, f)' <=> MadeFd(c, f) /\ c # ret.cnn
  <2>1. MadeFd(c, f)' => MadeFd(c, f) /\ c # ret.cnn
    BY <1>6 DEF MadeFd, t
  <2>2. ASSUME MadeFd(c, f), c # ret.cnn PROVE MadeFd(c, f)'
    <3>1. PICK i \in DOMAIN s : s[i].cnn = c /\ s[i].fd = f
      BY <2>2 DEF MadeFd
    <3>2. PICK j \in DOMAIN t : t[j] = s[i]
      BY <1>7, <2>2, <3>1
    <3> QED BY <3>1, <3>2 DEF MadeFd, t
  <2> QED BY <2>1, <2>2
<1>11. ResultsOnce'
  BY <1>5 DEF ResultsOnce, t
<1> QED BY <1>8, <1>9, <1>10, <1>11 DEF ret

-----------------------------------------------------------------------------
(* The steps that move connections. *)

LEMMA AskOwned ==
  ASSUME TypeOK, OwnedInv, NEW c \in Cnns, ListenAsyncOrConnectAsync(c)
  PROVE  OwnedInv'
<1> USE DEF workerVars, peerVars, sharedVars, loopVars, updateVars
<1>1. /\ UNCHANGED <<net_datas, id2nodes, new_nodes, knocking, in_task, net_task_results,
                     life, phase, sock, stolen>>
      /\ asked' = asked \cup {c} /\ c \in Askable \ asked
      /\ net_tasks' = Append(net_tasks, c)
  BY DEF ListenAsyncOrConnectAsync
<1>2. LifeKept /\ NodesSame /\ QueueSame
  BY <1>1, QueueUnchanged DEF LifeKept, NodesSame, Nodes, OwnedInv, Places
<1>3. ~Asking(c) /\ ~Making(c) /\ ~Made(c) /\ life[c] = "none"
  BY <1>1, ConstantFacts DEF OwnedInv, Places, Asked, Given
<1>4. TasksOnce' /\ \A d : Asking(d)' <=> Asking(d) \/ d = c
  BY <1>1, <1>3, TaskAppended DEF OwnedInv, Places
<1>5. \A d, f : /\ Making(d)' <=> Making(d)
                /\ Made(d)' <=> Made(d)
                /\ MakingFd(d, f)' <=> MakingFd(d, f)
                /\ MadeFd(d, f)' <=> MadeFd(d, f)
                /\ NodeFd(d, f)' <=> NodeFd(d, f)
  BY <1>1, <1>2 DEF Making, Made, MakingFd, MadeFd, NodeFd, NodesSame
<1>6. Asked'
  BY <1>1, <1>3, <1>4, <1>5 DEF OwnedInv, Places, Asked, ResultsOnce
<1>7. Guests' /\ Given' /\ Told'
  BY <1>1, <1>2, GuestsStep, GivenStep, ToldStep DEF OwnedInv, Places, QueueSame
<1>8. ASSUME Quiet' PROVE Owned'
  BY <1>1, <1>2, <1>5, <1>8, OwnedSame DEF OwnedInv, Quiet, HeldFor, QueueSame
<1> QED BY <1>6, <1>7, <1>8 DEF OwnedInv, Places

LEMMA ListenOrConnectOwned ==
  ASSUME TypeOK, OwnedInv, NEW c \in Cnns, ListenOrConnect(c)
  PROVE  OwnedInv'
<1> USE DEF peerVars, loopVars
<1>1. /\ UNCHANGED <<net_datas, id2nodes, knocking, taskVars, phase, stolen>>
      /\ asked' = asked \cup {c} /\ c \in Askable \ asked
      /\ \A d \in Cnns : d # c => life'[d] = life[d]
  BY DEF ListenOrConnect, TypeOK
<1>2. LifeKept /\ NodesSame /\ QueueSame
  <2>1. life' \in [Cnns -> {"none", "open", "failed", "closed"}] /\ life'[c] # "none"
    BY DEF ListenOrConnect, TypeOK
  <2> QED BY <1>1, <2>1, QueueUnchanged DEF LifeKept, NodesSame, Nodes, OwnedInv, Places
<1>3. Asked' /\ Guests' /\ Told'
  BY <1>1, <1>2, AskedStep, GuestsStep, ToldStep DEF OwnedInv, Places, QueueSame
<1>4. CASE UNCHANGED <<sock, new_nodes>>
  BY <1>1, <1>2, <1>3, <1>4, StillKeeps DEF Still, Quiet
<1>5. CASE FreeFds # {} /\ OpenFd(c) /\ AddCnn(c, Min(FreeFds)) /\ life' = [life EXCEPT ![c] = "open"]
  <2>1. /\ \A d \in Cnns : d # c => new_nodes'[d] = new_nodes[d]
        /\ new_nodes'[c] = Min(FreeFds) /\ Min(FreeFds) \in Fds
        /\ life'[c] = "open" /\ Nodes' = Nodes
    BY <1>2, <1>5, FreeFd DEF AddCnn, TypeOK, NodesSame
  <2>2. c \notin Nodes /\ new_nodes[c] = None
    BY <1>1 DEF OwnedInv, Places, Given
  <2>3. Given'
    BY <1>1, <2>1, <2>2, NodeFacts DEF OwnedInv, Places, Given
  <2>4. ASSUME Quiet' PROVE Owned'
    <3>1. ASSUME NEW d \in Cnns, NEW f \in Fds
          PROVE  HeldFor(d, f)' <=> HeldFor(d, f) \/ (d = c /\ f = Min(FreeFds))
      <4>1. /\ MakingFd(d, f)' <=> MakingFd(d, f)
            /\ MadeFd(d, f)' <=> MadeFd(d, f)
            /\ NodeFd(d, f)' <=> NodeFd(d, f)
            /\ AcceptedFd(d, f)' <=> AcceptedFd(d, f)
        BY <1>1, <1>2 DEF Making, Made, MakingFd, MadeFd, NodeFd, NodesSame, QueueSame, taskVars
      <4>2. new_nodes'[d] = f <=> new_nodes[d] = f \/ (d = c /\ f = Min(FreeFds))
        BY <2>1, <2>2, ConstantFacts
      <4> QED BY <4>1, <4>2 DEF HeldFor
    <3>2. Owned
      BY <1>1, <2>4 DEF OwnedInv, Quiet
    <3> QED BY <1>5, <3>1, <3>2, OwnedOpen
  <2> QED BY <1>3, <2>3, <2>4 DEF OwnedInv, Places
<1> QED BY <1>4, <1>5 DEF ListenOrConnect

LEMMA PeerConnectsOwned ==
  ASSUME TypeOK, OwnedInv, NEW c \in Cnns, c \notin Askable \cup asked,
         asked' = asked \cup {c}, PeerConnects(c),
         UNCHANGED <<taskVars, async_handlers, phase, updateVars,
                     expired, life, got, sent, closing>>
  PROVE  OwnedInv'
<1> USE DEF sharedVars, loopVars
<1>1. UNCHANGED <<net_datas, id2nodes, new_nodes, sock, stolen>> /\ knocking' = knocking \cup {c}
  BY DEF PeerConnects
<1>2. LifeKept /\ NodesSame /\ QueueSame
  BY <1>1, QueueUnchanged DEF LifeKept, NodesSame, Nodes, OwnedInv, Places
<1>3. Asked' /\ Given' /\ Told'
  BY <1>1, <1>2, AskedStep, GivenStep, ToldStep DEF OwnedInv, Places
<1>4. Guests'
  <2>1. ~Accepted(c) /\ life[c] = "none"
    BY DEF OwnedInv, Places, Guests, Given
  <2>2. knocking \subseteq Cnns
    BY DEF TypeOK
  <2> QED BY <1>1, <1>2, <2>1, <2>2 DEF OwnedInv, Places, Guests, QueueSame
<1>5. ASSUME Quiet' PROVE Owned'
  <2>1. \A d \in Cnns, f \in Fds : HeldFor(d, f)' <=> HeldFor(d, f)
    BY <1>1, <1>2 DEF HeldFor, Making, Made, MakingFd, MadeFd, NodeFd, NodesSame, QueueSame, taskVars
  <2> QED BY <1>1, <1>5, <2>1, OwnedSame DEF OwnedInv, Quiet
<1> QED BY <1>3, <1>4, <1>5 DEF OwnedInv, Places

LEMMA TaskStartsOwned ==
  ASSUME TypeOK, OwnedInv, TaskStarts
  PROVE  OwnedInv'
<1> USE DEF peerVars, sharedVars, loopVars, userVars
<1> DEFINE c == Head(net_tasks)
<1>1. /\ UNCHANGED <<net_datas, id2nodes, new_nodes, knocking, net_task_results, life, asked,
                     phase, stolen>>
      /\ in_task = None /\ net_tasks # <<>> /\ FreeFds # {}
      /\ in_task' = [cnn |-> c, fd |-> Min(FreeFds)]
      /\ OpenFd(c) /\ net_tasks' = Tail(net_tasks)
  BY DEF TaskStarts
<1>2. LifeKept /\ NodesSame /\ QueueSame
  BY <1>1, QueueUnchanged DEF LifeKept, NodesSame, Nodes, OwnedInv, Places
<1>3. TasksOnce' /\ Asking(c) /\ \A d : Asking(d)' <=> Asking(d) /\ d # c
  BY <1>1, TaskTaken DEF OwnedInv, Places
<1>4. c \in Cnns
  BY <1>1, ConstantFacts, SeqFacts DEF TypeOK
<1>5. in_task' # None /\ in_task'.cnn = c /\ in_task'.fd = Min(FreeFds)
  <2>1. in_task' \in [cnn : Cnns, fd : Fds \cup {None}]
    BY <1>1, <1>4, FreeFd
  <2> QED BY <1>1, <2>1, TaskAssumption
<1> HIDE DEF c
<1>6. /\ \A d : /\ Making(d)' <=> d = c
                /\ ~Making(d)
                /\ Made(d)' <=> Made(d)
      /\ \A d, f : /\ MakingFd(d, f)' <=> d = c /\ f = Min(FreeFds)
                   /\ ~MakingFd(d, f)
                   /\ MadeFd(d, f)' <=> MadeFd(d, f)
                   /\ NodeFd(d, f)' <=> NodeFd(d, f)
  BY <1>1, <1>2, <1>5 DEF Making, Made, MakingFd, MadeFd, NodeFd, NodesSame
<1>7. Asked'
  <2>1. ~Made(c) /\ c \in asked /\ life[c] = "none"
    BY <1>3, <1>4 DEF OwnedInv, Places, Asked
  <2>2. ResultsOnce'
    BY <1>1 DEF OwnedInv, Places, Asked, ResultsOnce
  <2>3. \A d \in Cnns : Asking(d)' => ~Making(d)' /\ ~Made(d)'
    BY <1>3, <1>6 DEF OwnedInv, Places, Asked
  <2>4. \A d \in Cnns : Making(d)' => ~Made(d)'
    BY <1>6, <2>1
  <2>5. \A d \in Cnns : Asking(d)' \/ Making(d)' \/ Made(d)' => d \in asked' /\ life'[d] = "none"
    BY <1>1, <1>3, <1>6, <2>1 DEF OwnedInv, Places, Asked
  <2> QED BY <1>3, <2>2, <2>3, <2>4, <2>5 DEF Asked
<1>8. Guests' /\ Given' /\ Told'
  BY <1>1, <1>2, GuestsStep, GivenStep, ToldStep DEF OwnedInv, Places, QueueSame
<1>9. ASSUME Quiet' PROVE Owned'
  <2>1. \A d \in Cnns, f \in Fds :
          HeldFor(d, f)' <=> HeldFor(d, f) \/ (d = c /\ f = Min(FreeFds))
    BY <1>1, <1>2, <1>6 DEF HeldFor, QueueSame
  <2>2. Owned
    BY <1>1, <1>9 DEF OwnedInv, Quiet
  <2> QED BY <1>1, <1>4, <2>1, <2>2, OwnedOpen
<1> QED BY <1>7, <1>8, <1>9 DEF OwnedInv, Places

LEMMA TaskEndsOwned ==
  ASSUME TypeOK, OwnedInv, TaskEnds
  PROVE  OwnedInv'
<1> USE DEF peerVars, sharedVars, loopVars, userVars
<1> DEFINE c == in_task.cnn
           g == in_task.fd
<1>1. /\ UNCHANGED <<net_datas, id2nodes, new_nodes, knocking, net_tasks, life, asked, phase>>
      /\ in_task # None /\ in_task' = None
  BY DEF TaskEnds
<1>2. LifeKept /\ NodesSame /\ QueueSame
  BY <1>1, QueueUnchanged DEF LifeKept, NodesSame, Nodes, OwnedInv, Places
<1>3. in_task \in [cnn : Askable, fd : Fds] /\ c \in Askable /\ g \in Fds /\ c \in Cnns
  BY <1>1, ConstantFacts DEF TypeOK
<1>4. PICK ret \in [cnn : Askable, fd : Fds \cup {None}] :
        /\ net_task_results' = Append(net_task_results, ret)
        /\ ret.cnn = c
        /\ \/ ret.fd = g /\ UNCHANGED <<sock, stolen>>
           \/ ret.fd = None /\ CloseFd(c, g)
  <2>1. in_task \in [cnn : Askable, fd : Fds \cup {None}]
    BY <1>3
  <2>2. /\ [in_task EXCEPT !.fd = None] \in [cnn : Askable, fd : Fds \cup {None}]
        /\ [in_task EXCEPT !.fd = None].fd = None
        /\ [in_task EXCEPT !.fd = None].cnn = c
    BY <1>3
  <2> QED BY <2>1, <2>2 DEF TaskEnds
<1>5. Making(c) /\ ~Made(c)
  BY <1>1, <1>3 DEF Making, OwnedInv, Places, Asked
<1>6. /\ ResultsOnce'
      /\ \A d : Made(d)' <=> Made(d) \/ d = c
      /\ \A d, f : MadeFd(d, f)' <=> MadeFd(d, f) \/ (d = c /\ f = ret.fd)
  BY <1>4, <1>5, ResultAppended DEF OwnedInv, Places
<1>7. \A d, f : /\ ~Making(d)' /\ ~MakingFd(d, f)'
                /\ Making(d) <=> d = c
                /\ MakingFd(d, f) <=> d = c /\ f = g
                /\ Asking(d)' <=> Asking(d)
                /\ NodeFd(d, f)' <=> NodeFd(d, f)
  BY <1>1, <1>2 DEF Making, Asking, MakingFd, NodeFd, NodesSame
<1> HIDE DEF c, g
<1>8. Asked'
  BY <1>1, <1>3, <1>6, <1>7 DEF OwnedInv, Places, Asked, TasksOnce
<1>9. Guests' /\ Given' /\ Told'
  BY <1>1, <1>2, GuestsStep, GivenStep, ToldStep DEF OwnedInv, Places, QueueSame
<1>10. ASSUME Quiet' PROVE Owned'
  <2>1. CASE ret.fd = g /\ UNCHANGED <<sock, stolen>>
    <3>1. \A d \in Cnns, f \in Fds : HeldFor(d, f)' <=> HeldFor(d, f)
      BY <1>1, <1>2, <1>6, <1>7, <2>1 DEF HeldFor, QueueSame
    <3> QED BY <1>1, <1>10, <2>1, <3>1, OwnedSame DEF OwnedInv, Quiet
  <2>2. CASE ret.fd = None /\ CloseFd(c, g)
    <3>1. \A f \in Fds : HeldFor(c, f) <=> f = g
      BY <1>3, <1>5, Alone DEF OwnedInv, g
    <3>2. \A d \in Cnns, f \in Fds : HeldFor(d, f)' <=> HeldFor(d, f) /\ d # c
      <4> SUFFICES ASSUME NEW d \in Cnns, NEW f \in Fds
                   PROVE  HeldFor(d, f)' <=> HeldFor(d, f) /\ d # c
        OBVIOUS
      <4>1. ~MadeFd(c, f) /\ ~AcceptedFd(c, f) /\ new_nodes[c] # f /\ ~NodeFd(c, f)
        <5>1. /\ c \notin Nodes /\ new_nodes[c] = None
              /\ ~Accepted(c)
          BY <1>3, <1>5 DEF OwnedInv, Places, Asked, Given, Guests
        <5> QED BY <1>5, <5>1, ConstantFacts DEF MadeFd, Made, AcceptedFd, Accepted, NodeFd
      <4>2. f # None
        BY ConstantFacts
      <4> QED BY <1>1, <1>2, <1>6, <1>7, <2>2, <4>1, <4>2 DEF HeldFor, QueueSame
    <3>3. Owned /\ stolen' = {}
      BY <1>1, <1>10, <2>2, QuietBefore DEF OwnedInv, Quiet, CloseFd
    <3> QED BY <1>3, <2>2, <3>1, <3>2, <3>3, OwnedClose
  <2> QED BY <1>4, <2>1, <2>2
<1> QED BY <1>8, <1>9, <1>10 DEF OwnedInv, Places

\* What is left of a step once its connection, that had the descriptor g (or
\* none), is out of its place: the descriptor was closed, or given to the worker.
LEMMA OpenedOwned ==
  ASSUME TypeOK, OwnedInv, NEW c \in Cnns, NEW g \in Fds,
         \A f \in Fds : HeldFor(c, f) <=> f = g,
         new_nodes[c] = None, c \notin Nodes, NodesSame, phase' = phase,
         \A d \in Cnns, f \in Fds :
           /\ MakingFd(d, f)' <=> MakingFd(d, f) /\ d # c
           /\ MadeFd(d, f)' <=> MadeFd(d, f) /\ d # c
           /\ AcceptedFd(d, f)' <=> AcceptedFd(d, f) /\ d # c,
         \/ Opened(c, g)
         \/ CloseFd(c, g) /\ UNCHANGED new_nodes,
         Quiet'
  PROVE  Owned'
<1>1. CASE CloseFd(c, g) /\ UNCHANGED new_nodes
  <2>1. Owned /\ stolen' = {}
    BY <1>1, QuietBefore DEF OwnedInv, Quiet, CloseFd
  <2>2. \A d \in Cnns, f \in Fds : HeldFor(d, f)' <=> HeldFor(d, f) /\ d # c
    <3> SUFFICES ASSUME NEW d \in Cnns, NEW f \in Fds
                 PROVE  HeldFor(d, f)' <=> HeldFor(d, f) /\ d # c
      OBVIOUS
    <3>1. NodeFd(d, f)' <=> NodeFd(d, f) /\ d # c
      BY DEF NodesSame, NodeFd
    <3>2. new_nodes'[d] = f <=> new_nodes[d] = f /\ d # c
      BY <1>1, ConstantFacts
    <3> QED BY <3>1, <3>2 DEF HeldFor
  <2> QED BY <1>1, <2>1, <2>2, OwnedClose
<1>2. CASE AddCnn(c, g) /\ UNCHANGED <<sock, stolen>>
  <2>1. \A d \in Cnns, f \in Fds : HeldFor(d, f)' <=> HeldFor(d, f)
    <3> SUFFICES ASSUME NEW d \in Cnns, NEW f \in Fds PROVE HeldFor(d, f)' <=> HeldFor(d, f)
      OBVIOUS
    <3>1. NodeFd(d, f)' <=> NodeFd(d, f)
      BY DEF NodesSame, NodeFd
    <3>2. new_nodes' = [new_nodes EXCEPT ![c] = g]
      BY <1>2 DEF AddCnn
    <3>3. CASE d = c
      <4>1. new_nodes'[c] = g
        BY <3>2 DEF TypeOK
      <4>2. ~NodeFd(c, f)
        BY DEF NodeFd
      <4> QED BY <3>1, <3>3, <4>1, <4>2 DEF HeldFor
    <3>4. CASE d # c
      <4>1. new_nodes'[d] = new_nodes[d]
        BY <3>2, <3>4 DEF TypeOK
      <4> QED BY <3>1, <3>4, <4>1 DEF HeldFor
    <3> QED BY <3>3, <3>4
  <2> QED BY <1>2, <2>1, OwnedSame DEF OwnedInv, Quiet
<1> QED BY <1>1, <1>2 DEF Opened

\* The program is told: the connection is open, or will not be.
LEMMA ResultOwned ==
  ASSUME TypeOK, OwnedInv, ProcessNetTaskResult
  PROVE  OwnedInv'
<1> USE DEF peerVars, loopVars
<1> DEFINE ret == Head(net_task_results)
           c   == ret.cnn
           told == life'[c] # "none"
<1>1. /\ UNCHANGED <<net_datas, id2nodes, knocking, in_task, net_tasks, asked, phase>>
      /\ net_task_results # <<>> /\ net_task_results' = Tail(net_task_results)
  BY DEF ProcessNetTaskResult
<1>2. /\ ResultsOnce' /\ Made(c)
      /\ \A f : MadeFd(c, f) <=> f = ret.fd
      /\ \A d : Made(d)' <=> Made(d) /\ d # c
      /\ \A d, f : MadeFd(d, f)' <=> MadeFd(d, f) /\ d # c
  BY <1>1, ResultTaken DEF OwnedInv, Places
<1>3. ret \in [cnn : Askable, fd : Fds \cup {None}] /\ c \in Cnns /\ c \in Askable
  <2>1. net_task_results \in Seq([cnn : Askable, fd : Fds \cup {None}])
    BY DEF TypeOK
  <2>2. ret \in [cnn : Askable, fd : Fds \cup {None}]
    BY <1>1, <2>1, SeqFacts
  <2> QED BY <2>2, ConstantFacts
<1>4. \/ /\ ret.fd = None /\ UNCHANGED <<sock, stolen, new_nodes>>
         /\ life' = life \/ life' = [life EXCEPT ![c] = "failed"]
      \/ ret.fd # None /\ CloseFd(c, ret.fd) /\ UNCHANGED <<new_nodes, life>>
      \/ ret.fd # None /\ Opened(c, ret.fd)
  BY DEF ProcessNetTaskResult
<1> HIDE DEF ret
<1>5. /\ c \in asked /\ life[c] = "none" /\ ~Asking(c) /\ ~Making(c) /\ ~Accepted(c)
      /\ c \notin knocking /\ c \notin Nodes /\ new_nodes[c] = None
  BY <1>2, <1>3 DEF OwnedInv, Places, Asked, Guests, Given, TypeOK
<1>6. /\ \A d \in Cnns : d # c => life'[d] = life[d] /\ new_nodes'[d] = new_nodes[d]
      /\ new_nodes'[c] # None => life'[c] # "none"
  <2>1. /\ life \in [Cnns -> {"none", "open", "failed", "closed"}]
        /\ new_nodes \in [Cnns -> Fds \cup {None}]
    BY DEF TypeOK
  <2>2. \/ new_nodes' = new_nodes
        \/ new_nodes' = [new_nodes EXCEPT ![c] = ret.fd] /\ life' = [life EXCEPT ![c] = "open"]
    BY <1>4 DEF Opened, AddCnn
  <2>3. life' = life \/ \E v \in {"open", "failed"} : life' = [life EXCEPT ![c] = v]
    BY <1>4 DEF Opened
  <2> HIDE DEF c
  <2>4. \A d \in Cnns : d # c => life'[d] = life[d] /\ new_nodes'[d] = new_nodes[d]
    BY <1>3, <2>1, <2>2, <2>3
  <2>5. new_nodes'[c] # None => life'[c] # "none"
    BY <1>3, <1>5, <2>1, <2>2
  <2> QED BY <2>4, <2>5
<1>7. NodesSame /\ QueueSame
  BY <1>1, QueueUnchanged DEF NodesSame, Nodes, OwnedInv, Places
<1>8. /\ \A d : Making(d)' <=> Making(d)
      /\ \A d : Asking(d)' <=> Asking(d)
      /\ \A d, f : MakingFd(d, f)' <=> MakingFd(d, f)
      /\ \A d, f : NodeFd(d, f)' <=> NodeFd(d, f)
  BY <1>1, <1>7 DEF Making, Asking, MakingFd, NodeFd, NodesSame
<1>9. Asked'
  <2>1. TasksOnce'
    BY <1>1 DEF OwnedInv, Places, Asked, TasksOnce
  <2>2. \A d \in Cnns : Asking(d)' \/ Making(d)' \/ Made(d)' => d \in asked' /\ life'[d] = "none"
    BY <1>1, <1>2, <1>5, <1>6, <1>8 DEF OwnedInv, Places, Asked
  <2> QED BY <1>2, <1>8, <2>1, <2>2 DEF OwnedInv, Places, Asked
<1>10. Guests'
  <2>1. knocking \subseteq Cnns
    BY DEF TypeOK
  <2> QED BY <1>1, <1>5, <1>6, <1>7, <2>1 DEF OwnedInv, Places, Guests, QueueSame
<1>11. Given'
  BY <1>1, <1>3, <1>5, <1>6, <1>7, NodeFacts DEF OwnedInv, Places, Given, NodesSame
<1>12. Told'
  <2> SUFFICES ASSUME NEW q \in {0, 1}, NEW i \in DOMAIN net_datas[q]
               PROVE  life'[net_datas[q][i].cnn] # "none"
    BY <1>1 DEF Told
  <2>1. net_datas[q][i].cnn \in Cnns /\ life[net_datas[q][i].cnn] # "none"
    BY QueueOf, DataTypes DEF OwnedInv, Places, Told
  <2> QED BY <1>5, <1>6, <2>1
<1>13. ASSUME Quiet' PROVE Owned'
  <2>1. CASE ret.fd = None
    <3>1. \A d \in Cnns, f \in Fds : MadeFd(d, f)' <=> MadeFd(d, f)
      BY <1>2, <2>1, ConstantFacts
    <3>2. UNCHANGED <<sock, stolen, new_nodes>>
      BY <1>4, <2>1
    <3>3. \A d \in Cnns, f \in Fds : HeldFor(d, f)' <=> HeldFor(d, f)
      BY <1>7, <1>8, <3>1, <3>2 DEF HeldFor, QueueSame
    <3> QED BY <1>1, <1>13, <3>2, <3>3, OwnedSame DEF OwnedInv, Quiet
  <2>2. CASE ret.fd # None
    <3>1. ret.fd \in Fds
      BY <1>3, <2>2
    <3>2. \A f \in Fds : HeldFor(c, f) <=> f = ret.fd
      BY <1>2, <1>3, Alone DEF OwnedInv
    <3>3. \A d \in Cnns, f \in Fds :
            /\ MakingFd(d, f)' <=> MakingFd(d, f) /\ d # c
            /\ MadeFd(d, f)' <=> MadeFd(d, f) /\ d # c
            /\ AcceptedFd(d, f)' <=> AcceptedFd(d, f) /\ d # c
      BY <1>2, <1>5, <1>7, <1>8 DEF QueueSame, MakingFd, AcceptedFd, Accepted
    <3>4. Opened(c, ret.fd) \/ (CloseFd(c, ret.fd) /\ UNCHANGED new_nodes)
      BY <1>4, <2>2
    <3> QED BY <1>1, <1>3, <1>5, <1>7, <1>13, <3>1, <3>2, <3>3, <3>4, OpenedOwned
  <2> QED BY <2>1, <2>2
<1> QED BY <1>9, <1>10, <1>11, <1>12, <1>13 DEF OwnedInv, Places

LEMMA DataOwned ==
  ASSUME TypeOK, OwnedInv, ProcessNetData
  PROVE  OwnedInv'
<1> USE DEF peerVars, loopVars, taskVars
<1> DEFINE q    == draining
           data == Head(net_datas[q])
<1>1. /\ UNCHANGED <<knocking, taskVars, id2nodes, phase>>
      /\ q \in {0, 1} /\ net_datas[q] # <<>>
      /\ net_datas' = [net_datas EXCEPT ![q] = Tail(@)]
  BY DEF ProcessNetData, TypeOK
<1>2. HandlerGone(data) \/ OnRecvData(data) \/ OnClose(data) \/ OnAccept(data)
  BY DEF ProcessNetData
<1>3. data \in Data /\ life[data.cnn] # "none" /\ data.cnn \in Cnns
  <2>1. 1 \in DOMAIN net_datas[q] /\ net_datas[q][1] = data
    BY <1>1, DroppedData
  <2> QED BY <1>1, <2>1, QueueOf, DataTypes DEF OwnedInv, Places, Told
<1>4. NodesSame
  BY <1>1 DEF NodesSame, Nodes
<1>5. CASE data.act # "accept"
  <2>1. /\ UNCHANGED <<sock, stolen, new_nodes, asked>>
        /\ life' = life \/ life' = [life EXCEPT ![data.cnn] = "closed"]
    BY <1>2, <1>5 DEF HandlerGone, OnRecvData, OnClose, OnAccept
  <2>2. QueueSame
    BY <1>1, <1>5, DroppedNoAccept DEF OwnedInv, Places
  <2> HIDE DEF data, q
  <2>3. LifeKept
    BY <1>3, <2>1 DEF LifeKept, TypeOK
  <2>4. Told'
    BY <1>1, <2>3, ToldDropped DEF OwnedInv, Places
  <2>5. Still
    BY <1>1, <1>4, <2>1, <2>2, <2>3, <2>4 DEF Still, Quiet
  <2> QED BY <2>5, StillKeeps
<1>6. CASE data.act = "accept"
  <2> DEFINE c == data.new
             g == data.fd
  <2>1. /\ AcceptedFd(c, g) /\ Accepted(c)
        /\ \A f : AcceptedFd(c, f) => f = g
        /\ \A d \in Cnns : Accepted(d)' <=> Accepted(d) /\ d # c
        /\ \A d \in Cnns, f \in Fds : AcceptedFd(d, f)' <=> AcceptedFd(d, f) /\ d # c
        /\ AcceptsOnce'
    BY <1>1, <1>6, DroppedAccept DEF OwnedInv, Places
  <2>2. c \in Cnns /\ g \in Fds
    BY <1>3, <1>6, DataTypes
  <2>3. /\ \/ Opened(c, g) /\ asked' = asked \cup {c}
           \/ CloseFd(c, g) /\ UNCHANGED <<new_nodes, life>> /\ asked' \in {asked, asked \cup {c}}
    BY <1>2, <1>6 DEF HandlerGone, OnRecvData, OnClose, OnAccept
  <2> HIDE DEF data, q
  <2> HIDE DEF c, g
  <2>4. /\ c \in asked /\ c \notin Askable /\ life[c] = "none" /\ c \notin knocking
        /\ c \notin Nodes /\ new_nodes[c] = None /\ asked' = asked
    <3>1. c \in asked /\ c \notin Askable /\ life[c] = "none" /\ c \notin knocking
      BY <2>1, <2>2 DEF OwnedInv, Places, Guests
    <3> QED BY <2>2, <2>3, <3>1 DEF OwnedInv, Places, Given
  <2>5. ~Asking(c) /\ ~Making(c) /\ ~Made(c)
    <3>1. /\ net_tasks \in Seq(Askable)
          /\ net_task_results \in Seq([cnn : Askable, fd : Fds \cup {None}])
      BY DEF TypeOK
    <3>2. /\ \A i \in DOMAIN net_tasks : net_tasks[i] \in Askable
          /\ \A i \in DOMAIN net_task_results :
               net_task_results[i] \in [cnn : Askable, fd : Fds \cup {None}]
      BY <3>1, SeqFacts
    <3> QED BY <2>4, <3>2 DEF Asking, Making, Made, TypeOK
  <2>6. /\ \A d \in Cnns : d # c => life'[d] = life[d] /\ new_nodes'[d] = new_nodes[d]
        /\ new_nodes'[c] # None => life'[c] # "none"
    <3>1. /\ life \in [Cnns -> {"none", "open", "failed", "closed"}]
          /\ new_nodes \in [Cnns -> Fds \cup {None}]
      BY DEF TypeOK
    <3>2. \/ new_nodes' = new_nodes
          \/ new_nodes' = [new_nodes EXCEPT ![c] = g] /\ life' = [life EXCEPT ![c] = "open"]
      BY <2>3 DEF Opened, AddCnn
    <3>3. life' = life \/ \E v \in {"open", "failed"} : life' = [life EXCEPT ![c] = v]
      BY <2>3 DEF Opened
    <3>4. \A d \in Cnns : d # c => life'[d] = life[d] /\ new_nodes'[d] = new_nodes[d]
      BY <2>2, <3>1, <3>2, <3>3
    <3>5. new_nodes'[c] # None => life'[c] # "none"
      BY <2>2, <2>4, <3>1, <3>2
    <3> QED BY <3>4, <3>5
  <2>7. /\ \A d : Asking(d)' <=> Asking(d)
        /\ \A d : Making(d)' <=> Making(d)
        /\ \A d : Made(d)' <=> Made(d)
        /\ \A d, f : MakingFd(d, f)' <=> MakingFd(d, f)
        /\ \A d, f : MadeFd(d, f)' <=> MadeFd(d, f)
    BY <1>1 DEF Asking, Making, Made, MakingFd, MadeFd
  <2>8. Asked'
    <3>1. TasksOnce' /\ ResultsOnce'
      BY <1>1 DEF OwnedInv, Places, Asked, TasksOnce, ResultsOnce
    <3> QED BY <2>4, <2>5, <2>6, <2>7, <3>1 DEF OwnedInv, Places, Asked
  <2>9. Guests'
    <3>1. knocking \subseteq Cnns
      BY DEF TypeOK
    <3> QED BY <1>1, <2>1, <2>4, <2>6, <3>1 DEF OwnedInv, Places, Guests
  <2>10. Given'
    BY <1>4, <2>2, <2>4, <2>6, NodeFacts DEF OwnedInv, Places, Given, NodesSame
  <2>11. Told'
    <3>1. \A d \in Cnns : life[d] # "none" => life'[d] # "none"
      BY <2>4, <2>6
    <3>2. ASSUME NEW r \in {0, 1}, NEW i \in DOMAIN net_datas'[r]
          PROVE  life'[net_datas'[r][i].cnn] # "none"
      <4>1. \E j \in DOMAIN net_datas[r] : net_datas'[r][i] = net_datas[r][j]
        <5>1. CASE r = q
          <6>1. i + 1 \in DOMAIN net_datas[q] /\ net_datas'[q][i] = net_datas[q][i + 1]
            BY <1>1, <5>1, DroppedData
          <6> QED BY <5>1, <6>1
        <5>2. CASE r # q
          BY <1>1, <5>2 DEF TypeOK
        <5> QED BY <5>1, <5>2
      <4>2. PICK j \in DOMAIN net_datas[r] : net_datas'[r][i] = net_datas[r][j]
        BY <4>1
      <4>3. net_datas[r][j].cnn \in Cnns
        BY <4>2, QueueOf, DataTypes
      <4> QED BY <3>1, <4>2, <4>3 DEF OwnedInv, Places, Told
    <3> QED BY <3>2 DEF Told
  <2>12. ASSUME Quiet' PROVE Owned'
    <3>1. \A f \in Fds : HeldFor(c, f) <=> f = g
      BY <2>1, <2>2, Alone DEF OwnedInv
    <3>2. \A d \in Cnns, f \in Fds :
            /\ MakingFd(d, f)' <=> MakingFd(d, f) /\ d # c
            /\ MadeFd(d, f)' <=> MadeFd(d, f) /\ d # c
            /\ AcceptedFd(d, f)' <=> AcceptedFd(d, f) /\ d # c
      <4>1. ASSUME NEW d \in Cnns, NEW f \in Fds
            PROVE  MakingFd(d, f)' <=> MakingFd(d, f) /\ d # c
        BY <2>1, <2>5, <2>7 DEF MakingFd, MadeFd, Made
      <4>2. ASSUME NEW d \in Cnns, NEW f \in Fds
            PROVE  MadeFd(d, f)' <=> MadeFd(d, f) /\ d # c
        BY <2>1, <2>5, <2>7 DEF MakingFd, MadeFd, Made
      <4>3. ASSUME NEW d \in Cnns, NEW f \in Fds
            PROVE  AcceptedFd(d, f)' <=> AcceptedFd(d, f) /\ d # c
        BY <2>1, <2>5, <2>7 DEF MakingFd, MadeFd, Made
      <4> QED BY <4>1, <4>2, <4>3
    <3>3. Opened(c, g) \/ (CloseFd(c, g) /\ UNCHANGED new_nodes)
      BY <2>3
    <3> QED BY <1>1, <1>4, <2>2, <2>4, <2>12, <3>1, <3>2, <3>3, OpenedOwned
  <2> QED BY <2>8, <2>9, <2>10, <2>11, <2>12 DEF OwnedInv, Places
<1> QED BY <1>5, <1>6

\* The end of the module: nothing is said of descriptors any more.
LEMMA ShutDownOwned ==
  ASSUME TypeOK, OwnedInv, Release \/ Destroy
  PROVE  OwnedInv'
<1> USE DEF workerVars, peerVars, sharedVars, loopVars, updateVars, userVars, taskVars
<1>1. /\ UNCHANGED <<net_datas, id2nodes, new_nodes, knocking, in_task, asked, life, sock>>
      /\ ~Quiet'
      /\ \/ net_tasks' = <<>> /\ net_task_results' = <<>>
         \/ UNCHANGED taskVars
  BY DEF Release, Destroy, Quiet
<1>2. LifeKept /\ NodesSame /\ QueueSame
  BY <1>1, QueueUnchanged DEF LifeKept, NodesSame, Nodes, OwnedInv, Places
<1>3. Guests' /\ Given' /\ Told'
  BY <1>1, <1>2, GuestsStep, GivenStep, ToldStep DEF OwnedInv, Places, QueueSame
<1>4. Asked'
  <2>1. CASE UNCHANGED taskVars
    BY <1>1, <1>2, <2>1, AskedStep DEF OwnedInv, Places
  <2>2. CASE net_tasks' = <<>> /\ net_task_results' = <<>>
    <3>1. \A c : ~Asking(c)' /\ ~Made(c)' /\ (Making(c)' <=> Making(c))
      BY <1>1, <2>2 DEF Asking, Made, Making
    <3>2. TasksOnce' /\ ResultsOnce'
      BY <2>2 DEF TasksOnce, ResultsOnce
    <3> QED BY <1>1, <3>1, <3>2 DEF OwnedInv, Places, Asked
  <2> QED BY <1>1, <2>1, <2>2
<1> QED BY <1>1, <1>3, <1>4 DEF OwnedInv, Places

LEMMA AddConnOwned ==
  ASSUME TypeOK, OwnedInv, UNCHANGED moduleVars, WorkLoop_AddConn
  PROVE  OwnedInv'
<1> USE DEF peerVars, moduleVars, taskVars, userVars, updateVars
<1>1. /\ UNCHANGED <<net_datas, knocking, taskVars, asked, life, phase, sock, stolen>>
      /\ id2nodes' = [c \in Cnns |-> IF new_nodes[c] # None
                                     THEN [fd |-> new_nodes[c], send |-> <<>>]
                                     ELSE id2nodes[c]]
      /\ new_nodes' = [c \in Cnns |-> None]
  BY DEF WorkLoop_AddConn
<1>2. LifeKept /\ QueueSame
  BY <1>1, QueueUnchanged DEF LifeKept, OwnedInv, Places
<1>3. \A c \in Cnns : new_nodes[c] # None =>
        id2nodes'[c] # None /\ id2nodes'[c].fd = new_nodes[c]
  <2> SUFFICES ASSUME NEW c \in Cnns, new_nodes[c] # None
               PROVE  id2nodes'[c] # None /\ id2nodes'[c].fd = new_nodes[c]
    OBVIOUS
  <2>1. id2nodes'[c] = [fd |-> new_nodes[c], send |-> <<>>]
    BY <1>1
  <2>2. new_nodes[c] \in Fds
    BY DEF TypeOK
  <2>3. id2nodes'[c] \in [fd : Fds, send : Seq(Cnns \X Nat)]
    <3>1. <<>> \in Seq(Cnns \X Nat)
      OBVIOUS
    <3> QED BY <2>1, <2>2, <3>1
  <2>4. id2nodes'[c].fd = new_nodes[c]
    BY <2>1
  <2>5. id2nodes'[c] # None
    BY <2>3, NodeAssumption
  <2> QED BY <2>4, <2>5
<1>4. \A c \in Cnns : new_nodes[c] = None => id2nodes'[c] = id2nodes[c]
  BY <1>1
<1>5. \A c \in Cnns : c \in Nodes' <=> c \in Nodes \/ new_nodes[c] # None
  BY <1>3, <1>4 DEF Nodes, OwnedInv, Places, Given
<1>6. Nodes' \subseteq Cnns /\ Nodes \subseteq Cnns
  BY DEF Nodes
<1>7. Asked' /\ Guests' /\ Told'
  BY <1>1, <1>2, AskedStep, GuestsStep, ToldStep DEF OwnedInv, Places, QueueSame
<1>8. Given'
  BY <1>1, <1>5, <1>6 DEF OwnedInv, Places, Given
<1>9. ASSUME Quiet' PROVE Owned'
  <2>1. ASSUME NEW c \in Cnns, NEW f \in Fds PROVE HeldFor(c, f)' <=> HeldFor(c, f)
    <3>1. NodeFd(c, f)' \/ new_nodes'[c] = f <=> NodeFd(c, f) \/ new_nodes[c] = f
      <4>1. f # None /\ new_nodes'[c] # f
        BY <1>1, ConstantFacts
      <4>2. CASE new_nodes[c] = None
        BY <1>4, <1>5, <4>1, <4>2 DEF NodeFd
      <4>3. CASE new_nodes[c] # None
        <5>1. c \notin Nodes
          BY <4>3 DEF OwnedInv, Places, Given
        <5> QED BY <1>3, <1>5, <4>1, <4>3, <5>1 DEF NodeFd
      <4> QED BY <4>2, <4>3
    <3>2. /\ MakingFd(c, f)' <=> MakingFd(c, f)
          /\ MadeFd(c, f)' <=> MadeFd(c, f)
          /\ AcceptedFd(c, f)' <=> AcceptedFd(c, f)
      BY <1>1, <1>2 DEF MakingFd, Making, MadeFd, QueueSame
    <3> QED BY <3>1, <3>2 DEF HeldFor
  <2> QED BY <1>1, <1>9, <2>1, OwnedSame DEF OwnedInv, Quiet
<1> QED BY <1>7, <1>8, <1>9 DEF OwnedInv, Places

\* Nodes end and their descriptors are closed, with other events in the queue.
LEMMA NodesEndOwned ==
  ASSUME TypeOK, OwnedInv, UNCHANGED <<taskVars, asked, life, phase, new_nodes, knocking>>,
         QueueSame, Told', NEW gone \in SUBSET Nodes,
         id2nodes' = [c \in Cnns |-> IF c \in gone THEN None ELSE id2nodes[c]],
         CloseFds({<<c, id2nodes[c].fd>> : c \in gone})
  PROVE  OwnedInv'
<1> DEFINE pairs == {<<c, id2nodes[c].fd>> : c \in gone}
<1>1. LifeKept
  BY DEF LifeKept
<1>2. Nodes \subseteq Cnns /\ Nodes' = Nodes \ gone
      /\ \A c \in Nodes \ gone : id2nodes'[c] = id2nodes[c]
  BY DEF Nodes
<1>3. Asked' /\ Guests'
  BY <1>1, AskedStep, GuestsStep DEF OwnedInv, Places, QueueSame
<1>4. Given'
  BY <1>2 DEF OwnedInv, Places, Given
<1>5. ASSUME Quiet' PROVE Owned'
  <2>1. Owned
    BY <1>5, QuietBefore DEF OwnedInv
  <2>2. sock' = [f \in Fds |-> IF \E c \in gone : id2nodes[c].fd = f THEN None ELSE sock[f]]
    <3>1. sock' = [f \in Fds |-> IF \E p \in pairs : p[2] = f THEN None ELSE sock[f]]
      BY DEF CloseFds
    <3>2. ASSUME NEW f PROVE (\E p \in pairs : p[2] = f) <=> \E c \in gone : id2nodes[c].fd = f
      <4>1. \A c \in gone : <<c, id2nodes[c].fd>> \in pairs
        OBVIOUS
      <4>2. \A p \in pairs : \E c \in gone : p[2] = id2nodes[c].fd
        OBVIOUS
      <4>3. \A c \in gone : <<c, id2nodes[c].fd>>[2] = id2nodes[c].fd
        OBVIOUS
      <4> HIDE DEF pairs
      <4> QED BY <4>1, <4>2, <4>3
    <3> QED BY <3>1, <3>2
  <2> SUFFICES ASSUME NEW c \in Cnns, NEW f \in Fds PROVE HeldFor(c, f)' <=> sock'[f] = c
    BY DEF Owned
  <2>3. NodeFd(c, f)' <=> NodeFd(c, f) /\ c \notin gone
    BY <1>2 DEF NodeFd
  <2>4. /\ MakingFd(c, f)' <=> MakingFd(c, f)
        /\ MadeFd(c, f)' <=> MadeFd(c, f)
        /\ AcceptedFd(c, f)' <=> AcceptedFd(c, f)
    BY DEF MakingFd, Making, MadeFd, QueueSame, taskVars
  <2>5. \A d \in gone : HeldFor(d, f) <=> id2nodes[d].fd = f
    BY <1>2, Alone DEF OwnedInv
  <2>6. CASE c \in gone
    <3>1. ~HeldFor(c, f)'
      <4>1. ~MakingFd(c, f) /\ ~MadeFd(c, f) /\ ~AcceptedFd(c, f) /\ new_nodes[c] # f
        <5>1. new_nodes[c] = None /\ life[c] # "none"
          BY <2>6 DEF OwnedInv, Places, Given
        <5>2. ~Making(c) /\ ~Made(c) /\ ~Accepted(c)
          BY <5>1 DEF OwnedInv, Places, Asked, Guests
        <5> QED BY <5>1, <5>2, ConstantFacts DEF MakingFd, MadeFd, Made, AcceptedFd, Accepted
      <4> QED BY <2>3, <2>4, <2>6, <4>1 DEF HeldFor
    <3>2. sock'[f] # c
      <4>1. sock[f] = c => id2nodes[c].fd = f
        BY <2>1, <2>5, <2>6 DEF Owned
      <4> QED BY <2>2, <2>6, <4>1, ConstantFacts
    <3> QED BY <3>1, <3>2
  <2>7. CASE c \notin gone
    <3>1. HeldFor(c, f)' <=> HeldFor(c, f)
      BY <2>3, <2>4, <2>7 DEF HeldFor
    <3>2. sock'[f] = c <=> sock[f] = c
      <4>1. \A d \in gone : id2nodes[d].fd = f => sock[f] = d
        BY <1>2, <2>1, <2>5 DEF Owned
      <4> QED BY <2>2, <2>7, <4>1, ConstantFacts
    <3> QED BY <2>1, <3>1, <3>2 DEF Owned
  <2> QED BY <2>6, <2>7
<1> QED BY <1>3, <1>4, <1>5 DEF OwnedInv, Places

LEMMA NetErrorOwned ==
  ASSUME TypeOK, OwnedInv, UNCHANGED <<taskVars, asked, life, phase, new_nodes, knocking>>,
         NEW f \in Fds, NEW c \in NodesByFd(f), NEW datas \in Seq(Data),
         \A i \in DOMAIN datas : datas[i].act # "accept" /\ life[datas[i].cnn] # "none",
         HandleNetError(c, f, datas)
  PROVE  OwnedInv'
<1> DEFINE all == datas \o <<CloseData(c)>>
<1>1. c \in Nodes /\ c \in Cnns /\ id2nodes[c].fd = f /\ life[c] # "none"
  BY NodeFacts DEF OwnedInv, Places, Given
<1>2. CloseData(c) \in Data /\ CloseData(c).act # "accept" /\ CloseData(c).cnn = c
  BY <1>1, DataTypes DEF CloseData
<1>3. /\ all \in Seq(Data)
      /\ \A i \in DOMAIN all : all[i].act # "accept" /\ life[all[i].cnn] # "none"
  <2>1. DOMAIN datas = 1..Len(datas) /\ Len(datas) \in Nat
    OBVIOUS
  <2>2. all \in Seq(Data) /\ Len(all) = Len(datas) + 1 /\ DOMAIN all = 1..(Len(datas) + 1)
    BY <1>2
  <2>3. \A i \in 1..(Len(datas) + 1) :
          all[i] = IF i <= Len(datas) THEN datas[i] ELSE CloseData(c)
    BY <1>2
  <2> HIDE DEF all
  <2> QED BY <1>1, <1>2, <2>1, <2>2, <2>3
<1> HIDE DEF all
<1>4. AddNetworkDatas(all)
  BY DEF HandleNetError, all
<1>5. LifeKept
  BY DEF LifeKept
<1>6. QueueSame /\ Told'
  BY <1>3, <1>4, <1>5, AddedNoAccept, ToldAdded DEF OwnedInv, Places
<1>7. {c} \in SUBSET Nodes
      /\ id2nodes' = [d \in Cnns |-> IF d \in {c} THEN None ELSE id2nodes[d]]
  BY <1>1 DEF HandleNetError, TypeOK
<1>8. CloseFds({<<d, id2nodes[d].fd>> : d \in {c}})
  <2>1. {<<d, id2nodes[d].fd>> : d \in {c}} = {<<c, f>>}
    BY <1>1
  <2> QED BY <2>1 DEF HandleNetError, CloseFd
<1> QED BY <1>6, <1>7, <1>8, NodesEndOwned

LEMMA RemoveConnOwned ==
  ASSUME TypeOK, OwnedInv, UNCHANGED moduleVars, WorkLoop_RemoveConn
  PROVE  OwnedInv'
<1> USE DEF peerVars, moduleVars, userVars
<1> DEFINE delay == {c \in to_remove : Delayed(c)}
           gone  == (to_remove \cap Nodes) \ delay
           s     == SetToSeq(gone)
           datas == [i \in DOMAIN s |-> CloseData(s[i])]
<1>1. /\ id2nodes' = [c \in Cnns |-> IF c \in gone THEN None ELSE id2nodes[c]]
      /\ CloseFds({<<c, id2nodes[c].fd>> : c \in gone})
      /\ AddNetworkDatas(datas)
      /\ UNCHANGED <<taskVars, asked, life, phase, new_nodes, knocking>>
  BY DEF WorkLoop_RemoveConn
<1>2. gone \in SUBSET Nodes /\ gone \subseteq Cnns
  BY NodeFacts
<1> HIDE DEF gone
<1>3. /\ datas \in Seq(Data)
      /\ \A i \in DOMAIN datas : datas[i].act # "accept" /\ life[datas[i].cnn] # "none"
  <2>1. s \in Seq(gone)
    BY <1>2, ConstantFacts, FS_Subset, SetToSeqOf
  <2> HIDE DEF s
  <2>2. \A i \in 1..Len(s) : s[i] \in gone /\ s[i] \in Cnns /\ life[s[i]] # "none"
    BY <1>2, <2>1 DEF OwnedInv, Places, Given
  <2>3. \A i \in 1..Len(s) : /\ CloseData(s[i]) \in Data /\ CloseData(s[i]).cnn = s[i]
                             /\ CloseData(s[i]).act # "accept"
    BY <2>2, DataTypes DEF CloseData
  <2> QED BY <2>1, <2>2, <2>3
<1> HIDE DEF datas
<1>4. LifeKept
  BY <1>1 DEF LifeKept
<1>5. QueueSame /\ Told'
  BY <1>1, <1>3, <1>4, AddedNoAccept, ToldAdded DEF OwnedInv, Places
<1> QED BY <1>1, <1>2, <1>5, NodesEndOwned

LEMMA AcceptOwned ==
  ASSUME TypeOK, OwnedInv, NEW l \in Listeners, NEW c \in knocking,
         UNCHANGED <<taskVars, asked, life, phase, new_nodes, id2nodes, stolen>>,
         FreeFds # {}, OpenFd(c), knocking' = knocking \ {c}, life[l] # "none",
         AddNetworkDatas(<<AcceptData(l, c, Min(FreeFds))>>)
  PROVE  OwnedInv'
<1>1. c \in Cnns /\ Min(FreeFds) \in Fds /\ l \in Cnns /\ c \notin Askable
  BY FreeFd, ConstantFacts DEF TypeOK
<1>2. ~Accepted(c) /\ c \in asked /\ life[c] = "none"
  BY DEF OwnedInv, Places, Guests
<1>3. /\ \A d \in Cnns : Accepted(d)' <=> Accepted(d) \/ d = c
      /\ \A d \in Cnns, f \in Fds :
           AcceptedFd(d, f)' <=> AcceptedFd(d, f) \/ (d = c /\ f = Min(FreeFds))
      /\ AcceptsOnce'
  BY <1>1, <1>2, AddedAccept DEF OwnedInv, Places
<1>4. LifeKept /\ NodesSame
  BY DEF LifeKept, NodesSame, Nodes
<1>5. Told'
  <2>1. /\ <<AcceptData(l, c, Min(FreeFds))>> \in Seq(Data)
        /\ \A i \in DOMAIN <<AcceptData(l, c, Min(FreeFds))>> :
             life[<<AcceptData(l, c, Min(FreeFds))>>[i].cnn] # "none"
    BY <1>1, DataTypes DEF AcceptData
  <2> QED BY <1>4, <2>1, ToldAdded DEF OwnedInv, Places
<1>6. Asked' /\ Given'
  BY <1>4, AskedStep, GivenStep DEF OwnedInv, Places
<1>7. Guests'
  <2>1. knocking \subseteq Cnns
    BY DEF TypeOK
  <2> QED BY <1>1, <1>2, <1>3, <2>1 DEF OwnedInv, Places, Guests
<1>8. ASSUME Quiet' PROVE Owned'
  <2>1. \A d \in Cnns, f \in Fds : HeldFor(d, f)' <=> HeldFor(d, f) \/ (d = c /\ f = Min(FreeFds))
    <3>1. \A d, f : /\ MakingFd(d, f)' <=> MakingFd(d, f)
                    /\ MadeFd(d, f)' <=> MadeFd(d, f)
                    /\ NodeFd(d, f)' <=> NodeFd(d, f)
      BY <1>4 DEF MakingFd, Making, MadeFd, NodeFd, NodesSame, taskVars
    <3> QED BY <1>3, <3>1 DEF HeldFor
  <2>2. Owned
    BY <1>8 DEF OwnedInv, Quiet
  <2> QED BY <1>1, <2>1, <2>2, OwnedOpen
<1> QED BY <1>5, <1>6, <1>7, <1>8 DEF OwnedInv, Places

LEMMA HandleReadOwned ==
  ASSUME TypeOK, OwnedInv, UNCHANGED moduleVars, NEW f \in Fds, HandleNetRead(f)
  PROVE  OwnedInv'
<1>1. UNCHANGED <<taskVars, asked, life, phase, new_nodes>>
  BY DEF HandleNetRead, moduleVars, userVars
<1>2. CASE HandleStrayFd(f)
  BY <1>1, <1>2, StrayStill, StillKeeps
<1>3. ASSUME NEW c \in Cnns, ReadConnect(c, f) PROVE OwnedInv'
  <2> DEFINE chunks == IF sock[f] = None THEN <<>> ELSE unread[sock[f]]
             datas  == IF chunks = <<>> THEN <<>> ELSE <<ReadData(c, chunks)>>
  <2>1. /\ c \in NodesByFd(f) /\ UNCHANGED knocking
        /\ \/ HandleNetError(c, f, datas)
           \/ AddNetworkDatas(datas) /\ UNCHANGED <<sock, stolen, id2nodes>>
    BY <1>3 DEF ReadConnect
  <2>2. c \in Nodes /\ life[c] # "none"
    BY <2>1, NodeFacts DEF OwnedInv, Places, Given
  <2>3. chunks \in Seq(Cnns \X Nat)
    <3>1. <<>> \in Seq(Cnns \X Nat)
      OBVIOUS
    <3>2. sock[f] # None => unread[sock[f]] \in Seq(Cnns \X Nat)
      BY DEF TypeOK
    <3> QED BY <3>1, <3>2
  <2> HIDE DEF chunks
  <2>4. CASE HandleNetError(c, f, datas)
    <3>1. ReadData(c, chunks) \in Data /\ ReadData(c, chunks).act # "accept"
          /\ ReadData(c, chunks).cnn = c
      BY <2>3, DataTypes DEF ReadData
    <3>2. /\ datas \in Seq(Data)
          /\ \A i \in DOMAIN datas : datas[i].act # "accept" /\ life[datas[i].cnn] # "none"
      BY <2>2, <3>1
    <3> HIDE DEF datas
    <3> QED BY <1>1, <2>1, <2>4, <3>2, NetErrorOwned
  <2>5. CASE AddNetworkDatas(datas) /\ UNCHANGED <<sock, stolen, id2nodes>>
    BY <1>1, <2>1, <2>2, <2>3, <2>5, ReadStill, StillKeeps
  <2> QED BY <2>1, <2>4, <2>5
<1>4. ASSUME NEW c \in Cnns, ReadListen(c, f) PROVE OwnedInv'
  <2>1. c \in Listeners /\ c \in Nodes /\ UNCHANGED <<stolen, id2nodes>>
    BY <1>4, NodeFacts DEF ReadListen
  <2>2. CASE sock[f] = c /\ knocking # {} /\ FreeFds # {}
    <3>1. PICK d \in knocking :
            /\ knocking' = knocking \ {d}
            /\ OpenFd(d)
            /\ AddNetworkDatas(<<AcceptData(c, d, Min(FreeFds))>>)
      BY <1>4, <2>2 DEF ReadListen
    <3>2. life[c] # "none"
      BY <2>1, NodeFacts DEF OwnedInv, Places, Given
    <3> QED BY <1>1, <2>1, <2>2, <3>1, <3>2, AcceptOwned
  <2>3. CASE ~(sock[f] = c /\ knocking # {} /\ FreeFds # {})
    <3>1. UNCHANGED <<knocking, sock, net_datas>>
      BY <1>4, <2>3 DEF ReadListen
    <3>2. LifeKept /\ NodesSame /\ QueueSame
      BY <1>1, <2>1, <3>1, QueueUnchanged DEF LifeKept, NodesSame, Nodes, OwnedInv, Places
    <3>3. Told'
      BY <3>1, <3>2, ToldStep DEF OwnedInv, Places
    <3> QED BY <1>1, <2>1, <3>1, <3>2, <3>3, StillKeeps DEF Still, Quiet
  <2> QED BY <2>2, <2>3
<1> QED BY <1>2, <1>3, <1>4 DEF HandleNetRead

LEMMA HandleWriteOwned ==
  ASSUME TypeOK, OwnedInv, UNCHANGED moduleVars, NEW f \in Fds, HandleNetWrite(f)
  PROVE  OwnedInv'
<1>1. UNCHANGED <<taskVars, asked, life, phase, new_nodes>>
  BY DEF HandleNetWrite, moduleVars, userVars
<1>2. CASE HandleStrayFd(f)
  BY <1>1, <1>2, StrayStill, StillKeeps
<1>3. ASSUME NEW c \in Cnns, WriteNode(c, f) PROVE OwnedInv'
  <2>1. c \in NodesByFd(f) /\ UNCHANGED knocking
    BY <1>3 DEF WriteNode
  <2>2. CASE HandleNetError(c, f, <<>>)
    <3>1. <<>> \in Seq(Data) /\ DOMAIN <<>> = {}
      OBVIOUS
    <3> QED BY <1>1, <2>1, <2>2, <3>1, NetErrorOwned
  <2>3. CASE /\ id2nodes' = [id2nodes EXCEPT ![c].send = <<>>]
             /\ UNCHANGED <<sock, stolen, net_datas>>
    <3>1. c \in Nodes /\ c \in Cnns /\ id2nodes[c] \in [fd : Fds, send : Seq(Cnns \X Nat)]
      BY <2>1, NodeFacts
    <3>2. /\ \A d \in Cnns : d # c => id2nodes'[d] = id2nodes[d]
          /\ id2nodes'[c] = [id2nodes[c] EXCEPT !.send = <<>>]
      BY <2>3, <3>1 DEF TypeOK
    <3>3. id2nodes'[c] \in [fd : Fds, send : Seq(Cnns \X Nat)] /\ id2nodes'[c].fd = id2nodes[c].fd
      <4>1. <<>> \in Seq(Cnns \X Nat)
        OBVIOUS
      <4> QED BY <3>1, <3>2, <4>1
    <3>4. NodesSame
      BY <3>1, <3>2, <3>3, NodeAssumption DEF NodesSame, Nodes
    <3>5. LifeKept /\ QueueSame
      BY <1>1, <2>3, QueueUnchanged DEF LifeKept, OwnedInv, Places
    <3>6. Told'
      BY <2>3, <3>5, ToldStep DEF OwnedInv, Places
    <3> QED BY <1>1, <2>1, <2>3, <3>4, <3>5, <3>6, StillKeeps DEF Still, Quiet
  <2> QED BY <1>3, <2>2, <2>3 DEF WriteNode
<1> QED BY <1>2, <1>3 DEF HandleNetWrite

-----------------------------------------------------------------------------
LEMMA InitOwned == Init => OwnedInv
<1> SUFFICES ASSUME Init PROVE OwnedInv
  OBVIOUS
<1>1. /\ net_tasks = <<>> /\ net_task_results = <<>> /\ in_task = None /\ knocking = {}
      /\ \A q \in {0, 1} : net_datas[q] = <<>>
      /\ \A c \in Cnns : new_nodes[c] = None /\ id2nodes[c] = None /\ life[c] = "none"
      /\ \A f \in Fds : sock[f] = None
  BY DEF Init, WorkerInit
<1>2. /\ Nodes = {} /\ \A c : ~Asking(c) /\ ~Making(c) /\ ~Made(c) /\ ~Accepted(c)
      /\ TasksOnce /\ ResultsOnce /\ AcceptsOnce /\ Told
  BY <1>1 DEF Nodes, Asking, Making, Made, Accepted, TasksOnce, ResultsOnce, AcceptsOnce, Told
<1>3. Places
  BY <1>1, <1>2 DEF Places, Asked, Guests, Given
<1>4. Owned
  <2>1. \A c, f : ~MakingFd(c, f) /\ ~MadeFd(c, f) /\ ~AcceptedFd(c, f) /\ ~NodeFd(c, f)
    BY <1>2 DEF MakingFd, MadeFd, Made, AcceptedFd, Accepted, NodeFd
  <2> QED BY <1>1, <2>1, ConstantFacts DEF Owned, HeldFor
<1> QED BY <1>3, <1>4 DEF OwnedInv

LEMMA NextOwned == TypeOK /\ OwnedInv /\ [Next]_vars => OwnedInv'
<1> SUFFICES ASSUME TypeOK, OwnedInv, [Next]_vars PROVE OwnedInv'
  OBVIOUS
<1>1. CASE Peers
  BY <1>1, PeersStill, StillKeeps, PeerConnectsOwned DEF Peers
<1>2. CASE Program
  BY <1>2, AskOwned, ListenOrConnectOwned, ProgramStill, StillKeeps DEF Program
<1>3. CASE TaskThread
  BY <1>3, TaskStartsOwned, TaskEndsOwned DEF TaskThread
<1>4. CASE Worker
  <2>1. WorkLoop /\ UNCHANGED moduleVars
    BY <1>4 DEF Worker
  <2>2. CASE WorkLoop_SendBuff \/ Select \/ IoDone \/ LoopEnds
    BY <2>1, <2>2, WorkerStill, StillKeeps
  <2>3. CASE WorkLoop_AddConn
    BY <2>1, <2>3, AddConnOwned
  <2>4. CASE WorkLoop_RemoveConn
    BY <2>1, <2>4, RemoveConnOwned
  <2>5. CASE \E f \in Fds : HandleNetRead(f) \/ HandleNetWrite(f)
    BY <2>1, <2>5, HandleReadOwned, HandleWriteOwned
  <2> QED BY <2>1, <2>2, <2>3, <2>4, <2>5 DEF WorkLoop
<1>5. CASE Update
  <2>1. CASE GetNetDatas \/ DatasProcessed
    BY <2>1, ProgramStill, StillKeeps
  <2> QED BY <1>5, <2>1, ResultOwned, DataOwned DEF Update
<1>6. CASE Release \/ Destroy
  BY <1>6, ShutDownOwned
<1>7. CASE UNCHANGED vars
  <2> USE DEF vars, workerVars, moduleVars, taskVars, updateVars, userVars, peerVars, sharedVars, loopVars
  <2>1. LifeKept /\ NodesSame /\ QueueSame
    BY <1>7, QueueUnchanged DEF LifeKept, NodesSame, Nodes, OwnedInv, Places
  <2>2. Told'
    BY <1>7, <2>1, ToldStep DEF OwnedInv, Places
  <2> QED BY <1>7, <2>1, <2>2, StillKeeps DEF Still, Quiet
<1> QED BY <1>1, <1>2, <1>3, <1>4, <1>5, <1>6, <1>7 DEF Next

\* Every holder that DescriptorsOwned counts is one of those of Owned.
LEMMA HoldersOf ==
  ASSUME TypeOK, NEW f \in Fds
  PROVE  \A h : h \in Holders(f) <=>
           \/ \E c \in Cnns : h = <<"node", c>> /\ NodeFd(c, f)
           \/ \E c \in Cnns : h = <<"new node", c>> /\ new_nodes[c] = f
           \/ \E c \in Cnns : h = <<"task", c>> /\ MakingFd(c, f)
           \/ \E c \in Cnns : h = <<"result", c>> /\ MadeFd(c, f)
           \/ \E c \in Cnns : h = <<"event", c>> /\ AcceptedFd(c, f)
<1> SUFFICES ASSUME NEW h
             PROVE h \in Holders(f) <=>
                \/ \E c \in Cnns : h = <<"node", c>> /\ NodeFd(c, f)
                \/ \E c \in Cnns : h = <<"new node", c>> /\ new_nodes[c] = f
                \/ \E c \in Cnns : h = <<"task", c>> /\ MakingFd(c, f)
                \/ \E c \in Cnns : h = <<"result", c>> /\ MadeFd(c, f)
                \/ \E c \in Cnns : h = <<"event", c>> /\ AcceptedFd(c, f)
  OBVIOUS
<1>1. h \in {<<"node", c>> : c \in NodesByFd(f)} <=> \E c \in Cnns : h = <<"node", c>> /\ NodeFd(c, f)
  BY DEF NodesByFd, Nodes, NodeFd
<1>2. h \in {<<"new node", c>> : c \in {d \in Cnns : new_nodes[d] = f}}
        <=> \E c \in Cnns : h = <<"new node", c>> /\ new_nodes[c] = f
  OBVIOUS
<1>3. h \in {<<"task", in_task.cnn>> : i \in {j \in {1} : in_task # None /\ in_task.fd = f}}
        <=> \E c \in Cnns : h = <<"task", c>> /\ MakingFd(c, f)
  <2>1. in_task # None => in_task.cnn \in Cnns
    BY ConstantFacts DEF TypeOK
  <2> QED BY <2>1 DEF MakingFd, Making
<1>4. h \in {<<"result", ret.cnn>> : ret \in {r \in ToSet(net_task_results) : r.fd = f}}
        <=> \E c \in Cnns : h = <<"result", c>> /\ MadeFd(c, f)
  <2>1. \A i \in DOMAIN net_task_results : net_task_results[i].cnn \in Cnns
    <3>1. net_task_results \in Seq([cnn : Askable, fd : Fds \cup {None}])
      BY DEF TypeOK
    <3>2. \A i \in DOMAIN net_task_results :
            net_task_results[i] \in [cnn : Askable, fd : Fds \cup {None}]
      BY <3>1, SeqFacts
    <3> QED BY <3>2, ConstantFacts
  <2> QED BY <2>1 DEF MadeFd, ToSet
<1>5. h \in {<<"event", d.new>> : d \in {e \in ToSet(Queued) : e.act = "accept" /\ e.fd = f}}
        <=> \E c \in Cnns : h = <<"event", c>> /\ AcceptedFd(c, f)
  <2> DEFINE u == using_idx
  <2>1. u \in {0, 1} /\ (u + 1) % 2 = 1 - u /\ 1 - u \in {0, 1}
        /\ \A q \in {0, 1} : q = u \/ q = 1 - u
    <3>1. (0 + 1) % 2 = 1 /\ (1 + 1) % 2 = 0
      OBVIOUS
    <3>2. u = 0 \/ u = 1
      BY DEF TypeOK
    <3> HIDE DEF u
    <3> QED BY <3>1, <3>2
  <2>2. net_datas[u] \in Seq(Data) /\ net_datas[1 - u] \in Seq(Data)
    BY <2>1 DEF TypeOK
  <2>3. ToSet(Queued) = ToSet(net_datas[0]) \cup ToSet(net_datas[1])
    <3>1. ASSUME NEW S, NEW s \in Seq(S), NEW t \in Seq(S)
          PROVE  ToSet(s \o t) = ToSet(s) \cup ToSet(t)
      <4>1. /\ Len(s) \in Nat /\ Len(t) \in Nat /\ DOMAIN s = 1..Len(s) /\ DOMAIN t = 1..Len(t)
            /\ DOMAIN (s \o t) = 1..(Len(s) + Len(t))
            /\ \A i \in 1..(Len(s) + Len(t)) :
                 (s \o t)[i] = IF i <= Len(s) THEN s[i] ELSE t[i - Len(s)]
        OBVIOUS
      <4>2. \A i \in DOMAIN s : i \in DOMAIN (s \o t) /\ (s \o t)[i] = s[i]
        BY <4>1
      <4>3. \A i \in DOMAIN t : i + Len(s) \in DOMAIN (s \o t) /\ (s \o t)[i + Len(s)] = t[i]
        BY <4>1
      <4>4. \A i \in DOMAIN (s \o t) : \/ i \in DOMAIN s
                                       \/ i - Len(s) \in DOMAIN t /\ (s \o t)[i] = t[i - Len(s)]
        BY <4>1
      <4> HIDE DEF u
      <4>5. ASSUME NEW x \in ToSet(s \o t) PROVE x \in ToSet(s) \cup ToSet(t)
        BY <4>2, <4>4 DEF ToSet
      <4>6. ASSUME NEW x \in ToSet(s) \cup ToSet(t) PROVE x \in ToSet(s \o t)
        BY <4>2, <4>3 DEF ToSet
      <4> QED BY <4>5, <4>6
    <3>2. ToSet(Queued) = ToSet(net_datas[1 - u]) \cup ToSet(net_datas[u])
      BY <2>1, <2>2, <3>1 DEF Queued
    <3> QED BY <2>1, <3>2
  <2>4. \A q \in {0, 1} : \A i \in DOMAIN net_datas[q] :
          net_datas[q][i].act = "accept" => net_datas[q][i].new \in Cnns
    BY QueueOf, DataTypes
  <2> QED BY <2>3, <2>4 DEF AcceptedFd, ToSet
<1> QED BY <1>1, <1>2, <1>3, <1>4, <1>5 DEF Holders

LEMMA OwnedDescriptors == TypeOK /\ OwnedInv => DescriptorsOwned
<1> SUFFICES ASSUME TypeOK, OwnedInv, Quiet, NEW f \in Fds
             PROVE  IF sock[f] = None
                    THEN Holders(f) = {}
                    ELSE Cardinality(Holders(f)) = 1 /\ \A h \in Holders(f) : h[2] = sock[f]
  BY DEF DescriptorsOwned, Quiet
<1>1. \A c \in Cnns : HeldFor(c, f) <=> sock[f] = c
  BY DEF OwnedInv, Owned
<1>2. CASE sock[f] = None
  <2>1. \A c \in Cnns : ~HeldFor(c, f)
    BY <1>1, <1>2, ConstantFacts
  <2> QED BY <1>2, <2>1, HoldersOf DEF HeldFor
<1>3. CASE sock[f] # None
  <2> DEFINE c == sock[f]
  <2>1. c \in Cnns /\ HeldFor(c, f) /\ \A d \in Cnns : HeldFor(d, f) => d = c
    BY <1>1, <1>3 DEF TypeOK
  <2> HIDE DEF c
  <2>2. /\ MakingFd(c, f) => Making(c)
        /\ MadeFd(c, f) => Made(c)
        /\ AcceptedFd(c, f) => Accepted(c)
        /\ NodeFd(c, f) => c \in Nodes
        /\ new_nodes[c] = f => new_nodes[c] # None
    BY ConstantFacts DEF MakingFd, MadeFd, Made, AcceptedFd, Accepted, NodeFd
  <2>3. /\ Making(c) \/ Made(c) => c \in Askable
        /\ Making(c) => ~Made(c)
        /\ Making(c) \/ Made(c) \/ Accepted(c) => life[c] = "none"
        /\ Accepted(c) => c \notin Askable
        /\ c \in Nodes \/ new_nodes[c] # None => life[c] # "none"
        /\ c \in Nodes => new_nodes[c] = None
    <3>1. Making(c) \/ Made(c) => c \in Askable
      <4>1. Making(c) => c \in Askable
        BY DEF Making, TypeOK
      <4>2. net_task_results \in Seq([cnn : Askable, fd : Fds \cup {None}])
        BY DEF TypeOK
      <4>3. \A i \in DOMAIN net_task_results :
              net_task_results[i] \in [cnn : Askable, fd : Fds \cup {None}]
        BY <4>2, SeqFacts
      <4> QED BY <4>1, <4>3 DEF Made
    <3> QED BY <2>1, <3>1 DEF OwnedInv, Places, Asked, Guests, Given
  <2>4. \E h : Holders(f) = {h} /\ h[2] = c
    <3> DEFINE Tag == IF NodeFd(c, f) THEN "node" ELSE
                      IF new_nodes[c] = f THEN "new node" ELSE
                      IF MakingFd(c, f) THEN "task" ELSE
                      IF MadeFd(c, f) THEN "result" ELSE "event"
    <3>1. \A h : h \in Holders(f) <=> h = <<Tag, c>>
      BY <2>1, <2>2, <2>3, HoldersOf DEF HeldFor
    <3> HIDE DEF Tag
    <3>2. Holders(f) = {<<Tag, c>>} /\ <<Tag, c>>[2] = c
      BY <3>1
    <3> QED BY <3>2
  <2> QED BY <1>3, <2>4, FS_Singleton DEF c
<1> QED BY <1>2, <1>3

\* While the module runs and no socket was closed for somebody else, every open
\* descriptor is held in exactly one place, for the connection it denotes, and
\* whatever is held is open, whichever path a connection takes: cancelled,
\* expired, failed, refused, or removed before the worker has seen it
\* (network_module.cpp:373-419, 430-490; net_worker_select.cpp:306-393, 555-576).
THEOREM NetDescriptors == Spec => []DescriptorsOwned
<1>1. TypeOK /\ OwnedInv /\ [Next]_vars => (TypeOK /\ OwnedInv)'
  BY NextType, NextOwned
<1>2. Init => TypeOK /\ OwnedInv
  BY InitType, InitOwned
<1> QED BY <1>1, <1>2, OwnedDescriptors, PTL DEF Spec

Chunk == Cnns \X Nat

LEMMA Induction ==
  ASSUME NEW T, 0 \in T, \A n \in Nat : n \in T => n + 1 \in T
  PROVE  Nat \subseteq T
<1> SUFFICES ASSUME Nat \ T # {} PROVE FALSE
  OBVIOUS
<1>1. PICK n \in Nat \ T : \A y \in Nat \ T : n <= y
  BY NatMin
<1>2. n # 0 /\ n - 1 \in Nat
  BY <1>1
<1>3. n - 1 \in T
  BY <1>1, <1>2
<1>4. (n - 1) + 1 = n
  BY <1>1
<1> QED BY <1>1, <1>2, <1>3, <1>4

\* What an event brings to c.
Piece(c, d) == IF d.cnn = c /\ d.act = "read" THEN d.chunks ELSE <<>>

\* f counts up the chunks for c.
CountsUp(f, c, datas) ==
  f = [n \in 0..Len(datas) |->
         IF n = 0 THEN <<>>
         ELSE IF datas[n].cnn = c /\ datas[n].act = "read"
              THEN f[n - 1] \o datas[n].chunks
              ELSE f[n - 1]]

LEMMA PieceType ==
  ASSUME NEW c, NEW d \in Data
  PROVE  Piece(c, d) \in Seq(Chunk)
BY DEF Piece, Data, Chunk

LEMMA CountUpExists ==
  ASSUME NEW c, NEW datas \in Seq(Data)
  PROVE  \E f : CountsUp(f, c, datas)
<1> DEFINE L == Len(datas)
           Good(f, m) == /\ f \in [0..m -> Seq(Chunk)] /\ f[0] = <<>>
                         /\ \A n \in 1..m : f[n] = IF datas[n].cnn = c /\ datas[n].act = "read"
                                                   THEN f[n - 1] \o datas[n].chunks
                                                   ELSE f[n - 1]
           T == {m \in Nat : m <= L => \E f : Good(f, m)}
<1>1. 0 \in T
  <2> DEFINE f == [n \in 0..0 |-> <<>>]
  <2>0. \A n \in 1..0 : FALSE
    OBVIOUS
  <2>1. 0 \in 0..0 /\ 1..0 = {} /\ <<>> \in Seq(Chunk)
    BY <2>0
  <2>2. f \in [0..0 -> Seq(Chunk)] /\ f[0] = <<>>
    BY <2>1
  <2>3. Good(f, 0)
    <3> HIDE DEF f
    <3> QED BY <2>1, <2>2
  <2> QED BY <2>3
<1>2. ASSUME NEW m \in Nat, m \in T PROVE m + 1 \in T
  <2> HIDE DEF Good
  <2> SUFFICES ASSUME m + 1 <= L PROVE \E f : Good(f, m + 1)
    OBVIOUS
  <2> USE DEF Good
  <2>0. L \in Nat /\ m + 1 \in 1..L /\ m <= L
    OBVIOUS
  <2>1. PICK f : Good(f, m)
    BY <1>2, <2>0
  <2> DEFINE g == [n \in 0..(m + 1) |-> IF n = m + 1 THEN f[m] \o Piece(c, datas[m + 1]) ELSE f[n]]
  <2>2. Piece(c, datas[m + 1]) \in Seq(Chunk)
    BY <2>0, PieceType
  <2>3. f[m] \in Seq(Chunk) /\ f[m] \o Piece(c, datas[m + 1]) \in Seq(Chunk) /\ f[m] \o <<>> = f[m]
    BY <2>1, <2>2, ConcatProperties, ConcatEmptySeq
  <2>4. g \in [0..(m + 1) -> Seq(Chunk)] /\ g[0] = <<>>
    BY <2>1, <2>3
  <2>5. ASSUME NEW n \in 1..(m + 1)
        PROVE  g[n] = IF datas[n].cnn = c /\ datas[n].act = "read"
                      THEN g[n - 1] \o datas[n].chunks ELSE g[n - 1]
    <3>1. CASE n = m + 1
      <4>1. g[n] = f[m] \o Piece(c, datas[n]) /\ g[n - 1] = f[m]
        BY <3>1
      <4> HIDE DEF g
      <4> QED BY <2>3, <4>1, <3>1 DEF Piece
    <3>2. CASE n # m + 1
      <4>1. n \in 1..m /\ g[n] = f[n] /\ g[n - 1] = f[n - 1]
        BY <3>2
      <4> HIDE DEF g
      <4> QED BY <2>1, <4>1
    <3> QED BY <3>1, <3>2
  <2>6. Good(g, m + 1)
    <3> HIDE DEF g
    <3> QED BY <2>4, <2>5
  <2> QED BY <2>6
<1>3. L \in Nat /\ L \in T
  <2> HIDE DEF T
  <2> QED BY <1>1, <1>2, Induction
<1>4. PICK f : Good(f, L)
  BY <1>3
<1>5. CountsUp(f, c, datas)
  <2>1. \A n \in 0..L : n # 0 => n \in 1..L
    BY <1>3
  <2> HIDE DEF L
  <2> QED BY <1>4, <2>1 DEF CountsUp, L
<1> QED BY <1>5

\* Chunks is the last of the counts.
LEMMA ChunksCount ==
  ASSUME NEW c, NEW datas \in Seq(Data)
  PROVE  \E f : /\ f \in [0..Len(datas) -> Seq(Chunk)] /\ f[0] = <<>>
                /\ \A n \in 1..Len(datas) : f[n] = f[n - 1] \o Piece(c, datas[n])
                /\ f[Len(datas)] = Chunks(c, datas)
<1> DEFINE f == CHOOSE g : CountsUp(g, c, datas)
           L == Len(datas)
<1>1. CountsUp(f, c, datas)
  BY CountUpExists
<1>2. f[L] = Chunks(c, datas)
  BY DEF Chunks, CountsUp
<1> HIDE DEF f
<1>3. L \in Nat /\ DOMAIN f = 0..L /\ f[0] = <<>>
  <2>1. L \in Nat
    OBVIOUS
  <2> HIDE DEF L
  <2>2. f = [n \in 0..L |->
         IF n = 0 THEN <<>>
         ELSE IF datas[n].cnn = c /\ datas[n].act = "read"
              THEN f[n - 1] \o datas[n].chunks
              ELSE f[n - 1]]
    BY <1>1 DEF CountsUp, L
  <2>3. 0 \in 0..L
    BY <2>1
  <2> QED BY <2>1, <2>2, <2>3
<1>4. \A n \in 1..L : f[n] = IF datas[n].cnn = c /\ datas[n].act = "read"
              THEN f[n - 1] \o datas[n].chunks
              ELSE f[n - 1]
  <2> HIDE DEF L
  <2>2. f = [n \in 0..L |->
         IF n = 0 THEN <<>>
         ELSE IF datas[n].cnn = c /\ datas[n].act = "read"
              THEN f[n - 1] \o datas[n].chunks
              ELSE f[n - 1]]
    BY <1>1 DEF CountsUp, L
  <2>3. \A n \in 1..L : n \in 0..L /\ n # 0
    BY <1>3
  <2> QED BY <2>2, <2>3
<1> DEFINE T == {n \in Nat : n <= L => f[n] \in Seq(Chunk)}
<1>5. ASSUME NEW n \in Nat, n \in T PROVE n + 1 \in T
  <2> SUFFICES ASSUME n + 1 <= L PROVE f[n + 1] \in Seq(Chunk)
    OBVIOUS
  <2>1. n + 1 \in 1..L /\ (n + 1) - 1 = n /\ f[n] \in Seq(Chunk)
    BY <1>3, <1>5
  <2>2. Piece(c, datas[n + 1]) \in Seq(Chunk)
    BY <2>1, PieceType
  <2>3. f[n + 1] = IF datas[n + 1].cnn = c /\ datas[n + 1].act = "read"
              THEN f[n] \o datas[n + 1].chunks
              ELSE f[n]
    BY <1>4, <2>1
  <2> QED BY <2>1, <2>2, <2>3, ConcatProperties DEF Piece
<1>6. 0 \in T
  BY <1>3
<1>7. Nat \subseteq T
  <2> HIDE DEF T
  <2> QED BY <1>5, <1>6, Induction
<1>8. \A n \in 0..L : f[n] \in Seq(Chunk)
  BY <1>3, <1>7
<1>9. \A n \in 1..L : f[n] = f[n - 1] \o Piece(c, datas[n])
  <2> TAKE n \in 1..L
  <2>1. f[n - 1] \in Seq(Chunk)
    BY <1>3, <1>8
  <2>2. f[n - 1] \o <<>> = f[n - 1]
    BY <2>1, ConcatEmptySeq
  <2> QED BY <1>4, <2>2 DEF Piece
<1>10. f \in [0..L -> Seq(Chunk)]
  <2>1. f = [n \in 0..L |-> f[n]]
    <3>1. f = [n \in 0..L |->
         IF n = 0 THEN <<>>
         ELSE IF datas[n].cnn = c /\ datas[n].act = "read"
              THEN f[n - 1] \o datas[n].chunks
              ELSE f[n - 1]]
      BY <1>1 DEF CountsUp
    <3> QED BY <3>1
  <2> QED BY <1>8, <2>1
<1> QED BY <1>2, <1>3, <1>9, <1>10
LEMMA ChunksType ==
  ASSUME NEW c, NEW datas \in Seq(Data)
  PROVE  Chunks(c, datas) \in Seq(Chunk)
<1>1. Len(datas) \in Nat /\ Len(datas) \in 0..Len(datas)
  OBVIOUS
<1> DEFINE L == Len(datas)
<1>2. PICK f : f \in [0..L -> Seq(Chunk)] /\ f[L] = Chunks(c, datas)
  BY ChunksCount
<1> HIDE DEF L
<1> QED BY <1>1, <1>2 DEF L

LEMMA SeqAssociative ==
  \A x, y, z \in Seq(Chunk) : (x \o y) \o z = x \o (y \o z)
BY ConcatAssociative

LEMMA ChunksConcat ==
  ASSUME NEW c, NEW s \in Seq(Data), NEW t \in Seq(Data)
  PROVE  Chunks(c, s \o t) = Chunks(c, s) \o Chunks(c, t)
<1> DEFINE a == Len(s)
           b == Len(t)
           u == s \o t
<1>1. /\ u \in Seq(Data) /\ a \in Nat /\ b \in Nat /\ Len(u) = a + b
      /\ \A i \in 1..a : u[i] = s[i]
      /\ \A i \in 1..b : u[a + i] = t[i]
  <2>1. u \in Seq(Data) /\ a \in Nat /\ b \in Nat /\ Len(u) = a + b
        /\ \A i \in 1..(a + b) : u[i] = IF i <= a THEN s[i] ELSE t[i - a]
    BY ConcatProperties
  <2> HIDE DEF a, b, u
  <2>2. \A i \in 1..a : i \in 1..(a + b) /\ i <= a
    BY <2>1
  <2>3. \A i \in 1..b : a + i \in 1..(a + b) /\ ~(a + i <= a) /\ (a + i) - a = i
    BY <2>1
  <2> QED BY <2>1, <2>2, <2>3
<1>2. PICK f : /\ f \in [0..a -> Seq(Chunk)] /\ f[0] = <<>>
               /\ \A n \in 1..a : f[n] = f[n - 1] \o Piece(c, s[n])
               /\ f[a] = Chunks(c, s)
  BY ChunksCount
<1>3. PICK g : /\ g \in [0..b -> Seq(Chunk)] /\ g[0] = <<>>
               /\ \A n \in 1..b : g[n] = g[n - 1] \o Piece(c, t[n])
               /\ g[b] = Chunks(c, t)
  BY ChunksCount
<1>4. PICK h : /\ h \in [0..(a + b) -> Seq(Chunk)] /\ h[0] = <<>>
               /\ \A n \in 1..(a + b) : h[n] = h[n - 1] \o Piece(c, u[n])
               /\ h[a + b] = Chunks(c, u)
  <2> HIDE DEF u
  <2>1. PICK h : /\ h \in [0..Len(u) -> Seq(Chunk)] /\ h[0] = <<>>
                 /\ \A n \in 1..Len(u) : h[n] = h[n - 1] \o Piece(c, u[n])
                 /\ h[Len(u)] = Chunks(c, u)
    BY <1>1, ChunksCount
  <2> HIDE DEF a, b
  <2> QED BY <1>1, <2>1
<1>5. \A n \in 1..b : t[n] \in Data
  OBVIOUS
<1> HIDE DEF a, b, u
<1>6. h[a] = f[a]
  <2> DEFINE T == {n \in Nat : n <= a => h[n] = f[n]}
  <2>1. 0 \in T
    BY <1>2, <1>4
  <2>2. ASSUME NEW n \in Nat, n \in T PROVE n + 1 \in T
    <3> SUFFICES ASSUME n + 1 <= a PROVE h[n + 1] = f[n + 1]
      OBVIOUS
    <3>1. n + 1 \in 1..a /\ n + 1 \in 1..(a + b) /\ (n + 1) - 1 = n /\ h[n] = f[n]
      BY <1>1, <2>2
    <3>2. h[n + 1] = h[n] \o Piece(c, s[n + 1])
      BY <1>1, <1>4, <3>1
    <3>3. f[n + 1] = f[n] \o Piece(c, s[n + 1])
      BY <1>2, <3>1
    <3> QED BY <3>1, <3>2, <3>3
  <2>3. Nat \subseteq T
    <3> HIDE DEF T
    <3> QED BY <2>1, <2>2, Induction
  <2> QED BY <1>1, <2>3
<1>7. f[a] \in Seq(Chunk)
  BY <1>1, <1>2
<1>8. h[a + b] = f[a] \o g[b]
  <2> DEFINE P(n) == h[a + n] = f[a] \o g[n]
             T == {n \in Nat : n <= b => P(n)}
  <2>1. 0 \in T
    <3>1. a + 0 = a /\ f[a] \o <<>> = f[a]
      BY <1>1, <1>7, ConcatEmptySeq
    <3> QED BY <1>3, <1>6, <3>1
  <2>2. ASSUME NEW n \in Nat, n \in T PROVE n + 1 \in T
    <3> HIDE DEF P
    <3> SUFFICES ASSUME n + 1 <= b PROVE P(n + 1)
      OBVIOUS
    <3>0. n <= b
      BY <1>1
    <3>6. P(n)
      BY <2>2, <3>0
    <3>1. /\ n + 1 \in 1..b /\ a + (n + 1) \in 1..(a + b) /\ (n + 1) - 1 = n
          /\ (a + (n + 1)) - 1 = a + n /\ h[a + n] = f[a] \o g[n] /\ n \in 0..b
      BY <1>1, <3>6 DEF P
    <3> DEFINE p == Piece(c, t[n + 1])
    <3>7. f[a] \in Seq(Chunk)
      BY <1>7
    <3>2. p \in Seq(Chunk) /\ g[n] \in Seq(Chunk)
      BY <1>3, <1>5, <3>1, PieceType
    <3>3. h[a + (n + 1)] = h[a + n] \o p
      BY <1>1, <1>4, <3>1
    <3>4. g[n + 1] = g[n] \o p
      BY <1>3, <3>1
    <3> HIDE DEF p
    <3>5. (f[a] \o g[n]) \o p = f[a] \o (g[n] \o p)
      BY <3>2, <3>7, SeqAssociative
    <3> QED BY <3>1, <3>3, <3>4, <3>5 DEF P
  <2>3. Nat \subseteq T
    <3> HIDE DEF T
    <3> QED BY <2>1, <2>2, Induction
  <2> HIDE DEF P
  <2>4. P(b)
    BY <1>1, <2>3
  <2> QED BY <2>4 DEF P
<1> QED BY <1>2, <1>3, <1>4, <1>8 DEF u

LEMMA ChunksOne ==
  ASSUME NEW c, NEW d \in Data
  PROVE  Chunks(c, <<d>>) = Piece(c, d)
<1>1. <<d>> \in Seq(Data) /\ Len(<<d>>) = 1 /\ <<d>>[1] = d
  OBVIOUS
<1>2. PICK f : /\ f[0] = <<>>
               /\ \A n \in 1..1 : f[n] = f[n - 1] \o Piece(c, <<d>>[n])
               /\ f[1] = Chunks(c, <<d>>)
  BY <1>1, ChunksCount
<1>3. 1 \in 1..1 /\ 1 - 1 = 0
  OBVIOUS
<1>4. f[1] = <<>> \o Piece(c, d)
  BY <1>1, <1>2, <1>3
<1> QED BY <1>2, <1>4, PieceType, ConcatEmptySeq

LEMMA ChunksNone ==
  ASSUME NEW c, NEW datas \in Seq(Data),
         \A i \in DOMAIN datas : Piece(c, datas[i]) = <<>>
  PROVE  Chunks(c, datas) = <<>>
<1> DEFINE L == Len(datas)
<1>1. L \in Nat /\ DOMAIN datas = 1..L
  OBVIOUS
<1>2. PICK f : /\ f \in [0..L -> Seq(Chunk)] /\ f[0] = <<>>
               /\ \A n \in 1..L : f[n] = f[n - 1] \o Piece(c, datas[n])
               /\ f[L] = Chunks(c, datas)
  BY ChunksCount
<1> HIDE DEF L
<1> DEFINE T == {n \in Nat : n <= L => f[n] = <<>>}
<1>3. 0 \in T
  BY <1>2
<1>4. ASSUME NEW n \in Nat, n \in T PROVE n + 1 \in T
  <2> SUFFICES ASSUME n + 1 <= L PROVE f[n + 1] = <<>>
    OBVIOUS
  <2>1. n + 1 \in 1..L /\ (n + 1) - 1 = n /\ f[n] = <<>>
    BY <1>1, <1>4
  <2>2. f[n + 1] = <<>> \o <<>>
    BY <1>1, <1>2, <2>1
  <2>3. <<>> \o <<>> = <<>>
    OBVIOUS
  <2> QED BY <2>2, <2>3
<1>5. Nat \subseteq T
  <2> HIDE DEF T
  <2> QED BY <1>3, <1>4, Induction
<1> QED BY <1>1, <1>2, <1>5

\* The oldest event's chunks come first.
LEMMA ChunksHead ==
  ASSUME NEW c, NEW s \in Seq(Data), s # <<>>
  PROVE  Chunks(c, s) = Piece(c, Head(s)) \o Chunks(c, Tail(s))
<1>1. Head(s) \in Data /\ Tail(s) \in Seq(Data) /\ <<Head(s)>> \in Seq(Data)
  OBVIOUS
<1>2. s = <<Head(s)>> \o Tail(s)
  OBVIOUS
<1>3. Chunks(c, <<Head(s)>> \o Tail(s)) = Chunks(c, <<Head(s)>>) \o Chunks(c, Tail(s))
  BY <1>1, ChunksConcat
<1> QED BY <1>1, <1>2, <1>3, ChunksOne

\* A step as NetStream allows it for c.
Step(c) == Contract!CnnNext(c) /\ (Ended(c) => Ended(c)')

Same(c) == UNCHANGED <<life[c], arrived[c], Coming(c), got[c], sent[c], Going(c), wire[c], Ended(c)>>

LEMMA SameStep ==
  ASSUME NEW c \in Cnns, Same(c)
  PROVE  Step(c)
<1>1. Contract!Keep(c)
  BY DEF Contract!Keep, Same
<1>2. Ended(c)' <=> Ended(c)
  BY DEF Same
<1> QED BY <1>1, <1>2 DEF Step, Contract!CnnNext

LEMMA OpenStep ==
  ASSUME NEW c \in Cnns, life[c] = "none", life'[c] = "open", ~Ended(c)', 
         UNCHANGED <<arrived[c], Coming(c), got[c], sent[c], Going(c), wire[c]>>
  PROVE  Step(c)
<1>1. Contract!Open(c)
  BY DEF Contract!Open
<1>2. ~Ended(c) /\ ~Ended(c)'
  BY DEF Ended
<1> QED BY <1>1, <1>2 DEF Step, Contract!CnnNext

LEMMA FailStep ==
  ASSUME NEW c \in Cnns, life[c] = "none", life'[c] \in {"none", "failed"}, Coming(c)' = <<>>,
         UNCHANGED <<arrived[c], got[c], sent[c], Going(c), wire[c]>>
  PROVE  Step(c)
<1>1. Contract!Fail(c)
  BY DEF Contract!Fail
<1>2. ~Ended(c) /\ ~Ended(c)'
  BY DEF Ended
<1> QED BY <1>1, <1>2 DEF Step, Contract!CnnNext

LEMMA PeerSendsStep ==
  ASSUME NEW c \in Cnns, c \notin hup, ~Ended(c), ~Ended(c)',
         arrived'[c] = arrived[c] + 1,
         Coming(c)' = Append(Coming(c), <<c, arrived[c] + 1>>),
         UNCHANGED <<life[c], got[c], sent[c], Going(c), wire[c]>>
  PROVE  Step(c)
<1>1. Contract!PeerSends(c)
  BY DEF Contract!PeerSends
<1> QED BY <1>1 DEF Step, Contract!CnnNext

LEMMA DeliverStep ==
  ASSUME NEW c \in Cnns, life[c] = "open", c \notin expired, Coming(c) # <<>>,
         Contract!IsPrefix(got[c], got'[c]),
         Coming(c) = Contract!Rest(got'[c], got[c]) \o Coming(c)',
         UNCHANGED <<life[c], arrived[c], sent[c], Going(c), wire[c], Ended(c)>>
  PROVE  Step(c)
<1>1. Contract!Deliver(c)
  BY DEF Contract!Deliver
<1> QED BY <1>1 DEF Step, Contract!CnnNext

LEMMA DiscardStep ==
  ASSUME NEW c \in Cnns, c \in expired, Contract!IsSuffix(Coming(c)', Coming(c)),
         UNCHANGED <<life[c], arrived[c], got[c], sent[c], Going(c), wire[c], Ended(c)>>
  PROVE  Step(c)
<1>1. Contract!Discard(c)
  BY DEF Contract!Discard
<1> QED BY <1>1 DEF Step, Contract!CnnNext

LEMMA SendStep ==
  ASSUME NEW c \in Cnns, life[c] = "open", c \notin expired, sent'[c] = sent[c] + 1,
         Going(c)' = Append(Going(c), <<c, sent[c] + 1>>),
         UNCHANGED <<life[c], arrived[c], Coming(c), got[c], wire[c], Ended(c)>>
  PROVE  Step(c)
<1>1. Contract!Send(c)
  BY DEF Contract!Send
<1> QED BY <1>1 DEF Step, Contract!CnnNext

LEMMA TransmitStep ==
  ASSUME NEW c \in Cnns, ~Ended(c), ~Ended(c)', Contract!IsPrefix(wire[c], wire'[c]),
         Going(c) = Contract!Rest(wire'[c], wire[c]) \o Going(c)',
         UNCHANGED <<life[c], arrived[c], Coming(c), got[c], sent[c]>>
  PROVE  Step(c)
<1>1. Contract!Transmit(c)
  BY DEF Contract!Transmit
<1> QED BY <1>1 DEF Step, Contract!CnnNext

LEMMA LoseStep ==
  ASSUME NEW c \in Cnns, wire[c] = <<>> \/ Ended(c), Going(c)' = <<>>,
         UNCHANGED <<life[c], arrived[c], Coming(c), got[c], sent[c], wire[c], Ended(c)>>
  PROVE  Step(c)
<1>1. Contract!Lose(c)
  BY DEF Contract!Lose
<1> QED BY <1>1 DEF Step, Contract!CnnNext

LEMMA EndStep ==
  ASSUME NEW c \in Cnns, ~Ended(c), Ended(c)',
         c \in hup \/ phase # "update" \/ (closing[c] # None /\ Going(c) = <<>>),
         Going(c)' = <<>> \/ Contract!IsSuffix(Going(c)', Going(c)),
         Contract!IsPrefix(Coming(c)', Coming(c)),
         UNCHANGED <<life[c], arrived[c], got[c], sent[c], wire[c]>>
  PROVE  Step(c)
<1>1. Contract!End(c)
  BY DEF Contract!End
<1> QED BY <1>1 DEF Step, Contract!CnnNext

LEMMA CloseStep ==
  ASSUME NEW c \in Cnns, life[c] = "open", Ended(c), c \notin expired, Coming(c) = <<>>,
         life'[c] = "closed",
         UNCHANGED <<arrived[c], Coming(c), got[c], sent[c], Going(c), wire[c], Ended(c)>>
  PROVE  Step(c)
<1>1. Contract!Close(c)
  BY DEF Contract!Close
<1> QED BY <1>1 DEF Step, Contract!CnnNext

LEMMA StepsNext ==
  ASSUME \A c \in Cnns : Step(c)
  PROVE  Contract!Next
BY DEF Step, Contract!Next

-----------------------------------------------------------------------------
(* What is under way to the handlers and the peers. *)

\* Not yet a socket.
Unborn(c) == c \notin asked \/ c \in knocking \/ Asking(c)

Socks ==
  /\ \A c \in Cnns, f \in Fds :
       life[c] # "none" => (sock[f] = c <=> new_nodes[c] = f \/ NodeFd(c, f))
  /\ \A c \in Cnns, f \in Fds : Unborn(c) => sock[f] # c

Fresh == \A c \in Cnns : Unborn(c) => unread[c] = <<>>

Opens == \A c \in Cnns : c \in Nodes \/ new_nodes[c] # None => life[c] = "open"

Orderly(q) ==
  \A i, j \in DOMAIN q : q[i].act = "close" /\ i < j => q[j].cnn # q[i].cnn

Events ==
  /\ \A i \in DOMAIN Queued : life[Queued[i].cnn] = "open"
  /\ \A i \in DOMAIN Queued : Queued[i].act = "close" => Ended(Queued[i].cnn)
  /\ Orderly(Queued)

Written ==
  \A c \in Cnns : wire[c] # <<>> => life[c] \in {"open", "closed"} /\ new_nodes[c] = None

Silent ==
  \A c \in Listeners : /\ wire[c] = <<>> /\ wait_send[c] = <<>>
                       /\ c \in Nodes => id2nodes[c].send = <<>>

Removals ==
  /\ \A c \in to_remove : closing[c] # None \/ phase # "update"
  /\ is_exits => phase # "update"

Switched == draining = None => net_datas[1 - using_idx] = <<>>

Joined == phase # "update" => draining = None /\ in_task = None

Control == Removals /\ Switched /\ Joined
Streams == Socks /\ Fresh /\ Opens /\ Events /\ Written /\ Silent
StreamInv == Control /\ (stolen = {} => Streams)

-----------------------------------------------------------------------------
LEMMA QueuedIs ==
  ASSUME TypeOK
  PROVE  /\ using_idx \in {0, 1} /\ 1 - using_idx \in {0, 1} /\ (using_idx + 1) % 2 = 1 - using_idx
         /\ net_datas[using_idx] \in Seq(Data) /\ net_datas[1 - using_idx] \in Seq(Data)
         /\ Queued = net_datas[1 - using_idx] \o net_datas[using_idx]
         /\ Queued \in Seq(Data)
<1>1. using_idx \in {0, 1} /\ 1 - using_idx \in {0, 1} /\ (using_idx + 1) % 2 = 1 - using_idx
  <2>1. (0 + 1) % 2 = 1 /\ (1 + 1) % 2 = 0
    OBVIOUS
  <2>2. \A u \in {0, 1} : 1 - u \in {0, 1} /\ (u + 1) % 2 = 1 - u
    BY <2>1
  <2>3. using_idx \in {0, 1}
    BY DEF TypeOK
  <2> QED BY <2>2, <2>3
<1>2. net_datas[using_idx] \in Seq(Data) /\ net_datas[1 - using_idx] \in Seq(Data)
  BY <1>1 DEF TypeOK
<1>3. Queued = net_datas[1 - using_idx] \o net_datas[using_idx]
  BY <1>1 DEF Queued
<1> QED BY <1>1, <1>2, <1>3, ConcatProperties

LEMMA QueuedData ==
  ASSUME TypeOK, NEW i \in DOMAIN Queued
  PROVE  Queued[i] \in Data /\ Queued[i].cnn \in Cnns
<1>1. Queued[i] \in Data
  BY QueuedIs, SeqFacts
<1> QED BY <1>1, DataTypes

LEMMA QueuedSame ==
  ASSUME UNCHANGED <<net_datas, using_idx>>
  PROVE  Queued' = Queued
BY DEF Queued

LEMMA QueuedAdds ==
  ASSUME TypeOK, NEW datas \in Seq(Data), AddNetworkDatas(datas), UNCHANGED using_idx
  PROVE  Queued' = Queued \o datas
<1> DEFINE s == net_datas[1 - using_idx]
           t == net_datas[using_idx]
<1>1. s \in Seq(Data) /\ t \in Seq(Data) /\ Queued = s \o t /\ using_idx \in {0, 1}
      /\ 1 - using_idx # using_idx /\ (using_idx + 1) % 2 = 1 - using_idx
  <2>1. \A u \in {0, 1} : 1 - u # u
    OBVIOUS
  <2>2. using_idx \in {0, 1}
    BY QueuedIs
  <2> QED BY QueuedIs, <2>1, <2>2
<1>2. net_datas'[1 - using_idx] = s /\ net_datas'[using_idx] = t \o datas
  BY QueuedIs, <1>1 DEF AddNetworkDatas, TypeOK
<1>3. Queued' = net_datas'[1 - using_idx] \o net_datas'[using_idx]
  BY <1>1 DEF Queued
<1> HIDE DEF s, t
<1>4. (s \o t) \o datas = s \o (t \o datas)
  BY <1>1, ConcatAssociative
<1> QED BY <1>1, <1>2, <1>3, <1>4

LEMMA QueuedSwitches ==
  ASSUME TypeOK, Switched, draining = None, UNCHANGED net_datas,
         using_idx' = (using_idx + 1) % 2
  PROVE  Queued' = Queued
<1>1. /\ using_idx \in {0, 1} /\ using_idx' = 1 - using_idx /\ (using_idx' + 1) % 2 = using_idx
      /\ (using_idx + 1) % 2 = 1 - using_idx
  <2>1. (0 + 1) % 2 = 1 /\ (1 + 1) % 2 = 0
    OBVIOUS
  <2>2. \A u \in {0, 1} : (u + 1) % 2 = 1 - u /\ ((1 - u) + 1) % 2 = u
    BY <2>1
  <2>3. using_idx \in {0, 1}
    BY DEF TypeOK
  <2> QED BY <2>2, <2>3
<1>2. Queued' = net_datas[using_idx] \o net_datas[1 - using_idx]
  BY <1>1 DEF Queued
<1>3. Queued = net_datas[1 - using_idx] \o net_datas[using_idx]
  BY QueuedIs
<1>4. net_datas[1 - using_idx] = <<>>
  BY DEF Switched
<1> QED BY <1>2, <1>3, <1>4, QueuedIs, ConcatEmptySeq

LEMMA QueuedDrops ==
  ASSUME TypeOK, draining # None, net_datas[draining] # <<>>, UNCHANGED using_idx,
         net_datas' = [net_datas EXCEPT ![draining] = Tail(@)]
  PROVE  /\ Queued # <<>> /\ Queued \in Seq(Data)
         /\ Head(Queued) = Head(net_datas[draining]) /\ Queued' = Tail(Queued)
<1> DEFINE s == net_datas[1 - using_idx]
           t == net_datas[using_idx]
<1>1. s \in Seq(Data) /\ t \in Seq(Data) /\ Queued = s \o t /\ using_idx \in {0, 1}
      /\ 1 - using_idx # using_idx /\ (using_idx + 1) % 2 = 1 - using_idx
      /\ draining = 1 - using_idx
  <2>1. \A u \in {0, 1} : 1 - u # u
    OBVIOUS
  <2>2. using_idx \in {0, 1}
    BY QueuedIs
  <2>3. draining = 1 - using_idx
    BY DEF TypeOK
  <2> QED BY QueuedIs, <2>1, <2>2, <2>3
<1>2. s # <<>>
  BY <1>1
<1>3. net_datas'[1 - using_idx] = Tail(s) /\ net_datas'[using_idx] = t
  BY QueuedIs, <1>1 DEF TypeOK
<1>4. Queued' = net_datas'[1 - using_idx] \o net_datas'[using_idx]
  BY <1>1 DEF Queued
<1> HIDE DEF s, t
<1>5. s \o t # <<>> /\ Head(s \o t) = Head(s) /\ Tail(s \o t) = Tail(s) \o t
  BY <1>1, <1>2
<1>6. Queued \in Seq(Data)
  BY QueuedIs
<1> QED BY <1>1, <1>3, <1>4, <1>5, <1>6 DEF s

LEMMA EventsSame ==
  ASSUME TypeOK, Events, Queued' = Queued,
         \A c \in Cnns : /\ life[c] = "open" => life'[c] = "open"
                         /\ Ended(c) => Ended(c)'
  PROVE  Events'
<1>1. DOMAIN Queued' = DOMAIN Queued /\ \A i \in DOMAIN Queued : Queued'[i] = Queued[i]
  OBVIOUS
<1>2. \A i \in DOMAIN Queued' : life'[Queued'[i].cnn] = "open"
  BY <1>1, QueuedData DEF Events
<1>3. ASSUME NEW i \in DOMAIN Queued', Queued'[i].act = "close" PROVE Ended(Queued[i].cnn)'
  <2>1. i \in DOMAIN Queued /\ Queued[i].act = "close" /\ Queued'[i].cnn = Queued[i].cnn
    BY <1>1, <1>3
  <2> PICK c \in Cnns : c = Queued[i].cnn
    BY <2>1, QueuedData
  <2>2. Ended(c)'
    BY <2>1 DEF Events
  <2>3. Queued'[i].cnn = c
    BY <2>1
  <2> QED BY <2>2, <2>3 DEF Ended
<1>4. Orderly(Queued)'
  BY DEF Events, Orderly
<1> QED BY <1>2, <1>3, <1>4 DEF Events

LEMMA EventsAdded ==
  ASSUME TypeOK, Events, NEW datas \in Seq(Data), Queued' = Queued \o datas,
         Orderly(datas), UNCHANGED life,
         \A c \in Cnns : Ended(c) => Ended(c)',
         \A i \in DOMAIN datas : /\ life[datas[i].cnn] = "open" /\ ~Ended(datas[i].cnn)
                                 /\ datas[i].act = "close" => Ended(datas[i].cnn)'
  PROVE  Events'
<1> DEFINE n == Len(Queued)
<1>1. /\ n \in Nat /\ Len(datas) \in Nat /\ DOMAIN Queued = 1..n /\ DOMAIN datas = 1..Len(datas)
      /\ DOMAIN Queued' = 1..(n + Len(datas))
      /\ \A i \in 1..n : Queued'[i] = Queued[i]
      /\ \A i \in 1..(n + Len(datas)) : ~(i <= n) => Queued'[i] = datas[i - n]
  <2>1. Queued \in Seq(Data)
    BY QueuedIs
  <2>2. /\ n \in Nat /\ Len(datas) \in Nat /\ DOMAIN Queued = 1..n /\ DOMAIN datas = 1..Len(datas)
        /\ Len(Queued \o datas) = n + Len(datas) /\ Queued \o datas \in Seq(Data)
        /\ \A i \in 1..(n + Len(datas)) :
             (Queued \o datas)[i] = IF i <= n THEN Queued[i] ELSE datas[i - n]
    BY <2>1, ConcatProperties
  <2> HIDE DEF n
  <2>3. \A i \in 1..n : i \in 1..(n + Len(datas)) /\ i <= n
    BY <2>2
  <2>4. DOMAIN (Queued \o datas) = 1..(n + Len(datas))
    BY <2>2
  <2> QED BY <2>2, <2>3, <2>4
<1> HIDE DEF n
<1>2. \A i \in DOMAIN Queued' : (i \in 1..n) \/ (~(i <= n) /\ i - n \in DOMAIN datas)
  BY <1>1
<1>3. \A i \in DOMAIN Queued' : life'[Queued'[i].cnn] = "open"
  BY <1>1, <1>2 DEF Events
<1>4. ASSUME NEW i \in DOMAIN Queued', Queued'[i].act = "close" PROVE Ended(Queued[i].cnn)'
  <2>1. CASE i \in 1..n
    <3>1. i \in DOMAIN Queued /\ Queued[i].act = "close" /\ Queued'[i] = Queued[i]
      BY <1>1, <1>4, <2>1
    <3> PICK c \in Cnns : c = Queued[i].cnn
      BY <3>1, QueuedData
    <3>2. Ended(c)'
      BY <3>1 DEF Events
    <3>3. Queued'[i].cnn = c
      BY <3>1
    <3> QED BY <3>2, <3>3 DEF Ended
  <2>2. CASE i \notin 1..n
    <3>1. i - n \in DOMAIN datas /\ Queued'[i] = datas[i - n]
      BY <1>1, <1>2, <2>2
    <3> PICK c : c = datas[i - n].cnn
      OBVIOUS
    <3>2. Ended(c)'
      BY <1>4, <3>1 DEF Ended
    <3>3. Queued'[i].cnn = c
      BY <3>1
    <3> QED BY <3>2, <3>3 DEF Ended
  <2> QED BY <2>1, <2>2
<1>5. Orderly(Queued)'
  <2> SUFFICES ASSUME NEW i \in DOMAIN Queued', NEW j \in DOMAIN Queued',
                      Queued'[i].act = "close", i < j
               PROVE  Queued'[j].cnn # Queued'[i].cnn
    BY DEF Orderly
  <2>1. CASE i \in 1..n /\ j \in 1..n
    BY <1>1, <2>1 DEF Events, Orderly
  <2>2. CASE i \in 1..n /\ j \notin 1..n
    <3>1. Ended(Queued[i].cnn) /\ Queued'[i] = Queued[i]
      BY <1>1, <2>2 DEF Events
    <3>2. ~Ended(datas[j - n].cnn) /\ Queued'[j] = datas[j - n]
      BY <1>1, <1>2, <2>2
    <3> PICK x, y : x = Queued[i].cnn /\ y = datas[j - n].cnn
      OBVIOUS
    <3>3. x # y
      BY <3>1, <3>2
    <3> QED BY <3>1, <3>2, <3>3
  <2>3. CASE i \notin 1..n /\ j \notin 1..n
    <3>1. /\ i - n \in DOMAIN datas /\ j - n \in DOMAIN datas /\ i - n < j - n
          /\ Queued'[i] = datas[i - n] /\ Queued'[j] = datas[j - n]
      BY <1>1, <1>2, <2>3
    <3> QED BY <3>1 DEF Orderly
  <2>4. ~(i \notin 1..n /\ j \in 1..n)
    BY <1>1
  <2> QED BY <2>1, <2>2, <2>3, <2>4
<1> QED BY <1>3, <1>4, <1>5 DEF Events

\* The oldest event is handled; if it is the end, its handler is told.
LEMMA EventsDropped ==
  ASSUME TypeOK, Events, Queued # <<>>, Queued' = Tail(Queued),
         \A c \in Cnns : /\ life[c] = "open" => (\/ life'[c] = "open"
                                                 \/ c = Head(Queued).cnn /\ Head(Queued).act = "close")
                         /\ Ended(c) => Ended(c)'
  PROVE  Events'
<1>1. /\ 1 \in DOMAIN Queued /\ Queued[1] = Head(Queued)
      /\ \A i \in DOMAIN Queued' : /\ i + 1 \in DOMAIN Queued /\ Queued'[i] = Queued[i + 1]
                                   /\ i \in Nat /\ i # 0
  <2>1. Queued \in Seq(Data)
    BY QueuedIs
  <2> PICK q \in Seq(Data) : q = Queued
    BY <2>1
  <2> QED BY SeqTail
<1>2. \A i \in DOMAIN Queued' : life'[Queued'[i].cnn] = "open"
  <2> TAKE i \in DOMAIN Queued'
  <2>1. i + 1 \in DOMAIN Queued /\ 1 < i + 1 /\ Queued'[i] = Queued[i + 1]
    BY <1>1
  <2>2. Queued[1].act = "close" => Queued[i + 1].cnn # Queued[1].cnn
    BY <1>1, <2>1 DEF Events, Orderly
  <2> QED BY <1>1, <2>1, <2>2, QueuedData DEF Events
<1>3. ASSUME NEW i \in DOMAIN Queued', Queued'[i].act = "close" PROVE Ended(Queued[i].cnn)'
  <2>1. i + 1 \in DOMAIN Queued /\ Queued[i + 1].act = "close" /\ Queued'[i] = Queued[i + 1]
    BY <1>1, <1>3
  <2> PICK c \in Cnns : c = Queued[i + 1].cnn
    BY <2>1, QueuedData
  <2>2. Ended(c)'
    BY <2>1 DEF Events
  <2>3. Queued'[i].cnn = c
    BY <2>1
  <2> QED BY <2>2, <2>3 DEF Ended
<1>4. Orderly(Queued)'
  <2>1. \A i, j \in DOMAIN Queued' : i < j => i + 1 < j + 1
    BY <1>1
  <2> QED BY <1>1, <2>1 DEF Events, Orderly
<1> QED BY <1>2, <1>3, <1>4 DEF Events

\* Nothing comes of a connection that was not opened.
LEMMA NothingComing ==
  ASSUME TypeOK, Events, NEW c \in Cnns, life[c] # "open"
  PROVE  Chunks(c, Queued) = <<>>
<1>1. \A i \in DOMAIN Queued : Queued[i].cnn # c
  BY DEF Events
<1>2. \A i \in DOMAIN Queued : Piece(c, Queued[i]) = <<>>
  BY <1>1 DEF Piece
<1> QED BY <1>2, QueuedIs, ChunksNone

LEMMA StreamTypes ==
  ASSUME TypeOK, NEW c \in Cnns
  PROVE  /\ Unread(c) \in Seq(Chunk) /\ Coming(c) \in Seq(Chunk)
         /\ Chunks(c, Queued) \in Seq(Chunk) /\ Going(c) \in Seq(Chunk)
         /\ wait_send[c] \in Seq(Chunk) /\ wire[c] \in Seq(Chunk) /\ got[c] \in Seq(Chunk)
         /\ unread[c] \in Seq(Chunk)
         /\ c \in Nodes => id2nodes[c].send \in Seq(Chunk)
<1>1. <<>> \in Seq(Chunk)
  OBVIOUS
<1>2. /\ unread[c] \in Seq(Chunk) /\ wait_send[c] \in Seq(Chunk) /\ wire[c] \in Seq(Chunk)
      /\ got[c] \in Seq(Chunk)
  BY DEF TypeOK, Chunk
<1>3. c \in Nodes => id2nodes[c].send \in Seq(Chunk)
  BY NodeFacts DEF Chunk
<1>4. Unread(c) \in Seq(Chunk)
  BY <1>1, <1>2 DEF Unread
<1>5. Chunks(c, Queued) \in Seq(Chunk)
  BY QueuedIs, ChunksType
<1>6. Coming(c) \in Seq(Chunk) /\ Going(c) \in Seq(Chunk)
  BY <1>1, <1>2, <1>3, <1>4, <1>5, ConcatProperties DEF Coming, Going
<1> QED BY <1>2, <1>3, <1>4, <1>5, <1>6

-----------------------------------------------------------------------------
(* What leaves a connection as it is. *)

LEMMA UnreadSame ==
  ASSUME NEW c \in Cnns, unread'[c] = unread[c],
         (\E f \in Fds : sock'[f] = c) <=> (\E f \in Fds : sock[f] = c)
  PROVE  Unread(c)' = Unread(c)
BY DEF Unread

LEMMA GoingSame ==
  ASSUME NEW c \in Cnns, wait_send'[c] = wait_send[c], c \in Nodes' <=> c \in Nodes,
         c \in Nodes => id2nodes'[c].send = id2nodes[c].send
  PROVE  Going(c)' = Going(c)
BY DEF Going

LEMMA EndedSame ==
  ASSUME NEW c \in Cnns, life'[c] = life[c], new_nodes'[c] = new_nodes[c],
         c \in Nodes' <=> c \in Nodes
  PROVE  Ended(c)' = Ended(c)
<1>1. Ended(c)' <=> Ended(c)
  BY DEF Ended
<1> QED BY <1>1 DEF Ended

LEMMA ComingSame ==
  ASSUME NEW c \in Cnns, Unread(c)' = Unread(c), Chunks(c, Queued)' = Chunks(c, Queued)
  PROVE  Coming(c)' = Coming(c)
BY DEF Coming

\* The events that are added are of other connections, or carry nothing.
LEMMA ChunksSame ==
  ASSUME TypeOK, NEW c \in Cnns, NEW datas \in Seq(Data), Queued' = Queued \o datas,
         \A i \in DOMAIN datas : Piece(c, datas[i]) = <<>>
  PROVE  Chunks(c, Queued)' = Chunks(c, Queued)
<1> PICK q \in Seq(Data) : q = Queued
  BY QueuedIs
<1>1. Chunks(c, q \o datas) = Chunks(c, q) \o Chunks(c, datas)
  BY ChunksConcat
<1>2. Chunks(c, datas) = <<>>
  BY ChunksNone
<1>3. Chunks(c, q) \in Seq(Chunk)
  BY ChunksType
<1>4. Chunks(c, q \o datas) = Chunks(c, q)
  BY <1>1, <1>2, <1>3, ConcatEmptySeq
<1>5. Chunks(c, Queued)' = Chunks(c, Queued')
  BY DEF Chunks
<1> QED BY <1>4, <1>5

LEMMA ChunksQueued ==
  ASSUME NEW c \in Cnns
  PROVE  Chunks(c, Queued)' = Chunks(c, Queued')
BY DEF Chunks

\* The oldest event leaves the queue.
LEMMA ChunksDropped ==
  ASSUME TypeOK, NEW c \in Cnns, Queued # <<>>, Queued' = Tail(Queued)
  PROVE  /\ Chunks(c, Queued) = Piece(c, Head(Queued)) \o Chunks(c, Queued)'
         /\ Head(Queued) \in Data /\ Chunks(c, Queued)' \in Seq(Chunk)
         /\ Piece(c, Head(Queued)) \in Seq(Chunk)
<1> PICK q \in Seq(Data) : q = Queued
  BY QueuedIs
<1>1. q # <<>> /\ Tail(q) \in Seq(Data) /\ Head(q) \in Data
  OBVIOUS
<1>2. Chunks(c, q) = Piece(c, Head(q)) \o Chunks(c, Tail(q))
  BY <1>1, ChunksHead
<1>3. Chunks(c, Tail(q)) \in Seq(Chunk) /\ Piece(c, Head(q)) \in Seq(Chunk)
  BY <1>1, ChunksType, PieceType
<1> QED BY <1>1, <1>2, <1>3, ChunksQueued

\* A step that closes sockets robs nobody if it says so.
LEMMA NotStolen ==
  ASSUME TypeOK, NEW pairs, CloseFds(pairs), stolen' = {}
  PROVE  /\ stolen = {}
         /\ \A f \in Fds, c \in Cnns :
              sock'[f] = c <=> sock[f] = c /\ ~\E p \in pairs : p[2] = f
         /\ \A p \in pairs, d \in Cnns : sock[p[2]] = d => p[1] = d
<1>1. stolen = {} /\ \A p \in pairs, d \in Cnns : sock[p[2]] = d => p[1] = d
  BY DEF CloseFds
<1>2. \A f \in Fds : sock'[f] = IF \E p \in pairs : p[2] = f THEN None ELSE sock[f]
  BY DEF CloseFds
<1>3. None \notin Cnns
  BY ConstantFacts
<1> QED BY <1>1, <1>2, <1>3

LEMMA OneClosed ==
  ASSUME TypeOK, NEW c, NEW g, CloseFd(c, g), stolen' = {}
  PROVE  /\ stolen = {}
         /\ \A f \in Fds, d \in Cnns : sock'[f] = d <=> sock[f] = d /\ f # g
         /\ \A d \in Cnns : sock[g] = d => c = d
<1> DEFINE pairs == {<<c, g>>}
<1>1. CloseFds(pairs)
  BY DEF CloseFd
<1> HIDE DEF pairs
<1>2. /\ stolen = {}
      /\ \A f \in Fds, d \in Cnns : sock'[f] = d <=> sock[f] = d /\ ~\E p \in pairs : p[2] = f
      /\ \A p \in pairs, d \in Cnns : sock[p[2]] = d => p[1] = d
  BY <1>1, NotStolen
<1>3. /\ \A f : (\E p \in pairs : p[2] = f) <=> f = g
      /\ <<c, g>> \in pairs
  BY DEF pairs
<1> QED BY <1>2, <1>3

-----------------------------------------------------------------------------
(* Steps that move no data and no connection. *)

StillData ==
  /\ UNCHANGED <<sock, unread, wire, id2nodes, new_nodes, life, wait_send>>
  /\ Queued' = Queued
  /\ \A c \in Cnns : Unborn(c)' => Unborn(c)

LEMMA StillStreams ==
  ASSUME TypeOK, Streams, StillData
  PROVE  Streams'
<1>1. UNCHANGED Nodes /\ \A c \in Cnns, f \in Fds : NodeFd(c, f)' <=> NodeFd(c, f)
  BY DEF StillData, Nodes, NodeFd
<1>2. Socks'
  BY <1>1 DEF StillData, Streams, Socks
<1>3. Fresh'
  BY DEF StillData, Streams, Fresh
<1>4. Opens'
  BY <1>1 DEF StillData, Streams, Opens
<1>5. Events'
  <2>1. \A c \in Cnns : Ended(c)' = Ended(c)
    BY <1>1, EndedSame DEF StillData
  <2> QED BY <2>1, EventsSame DEF StillData, Streams
<1>6. Written' /\ Silent'
  BY <1>1 DEF StillData, Streams, Written, Silent
<1> QED BY <1>2, <1>3, <1>4, <1>5, <1>6 DEF Streams

LEMMA StillSame ==
  ASSUME StillData, UNCHANGED <<arrived, got, sent>>, NEW c \in Cnns
  PROVE  Step(c)
<1>1. Unread(c)' = Unread(c)
  BY UnreadSame DEF StillData
<1>2. Chunks(c, Queued)' = Chunks(c, Queued)
  BY ChunksQueued DEF StillData
<1>3. Coming(c)' = Coming(c)
  BY <1>1, <1>2, ComingSame
<1>4. UNCHANGED Nodes
  BY DEF StillData, Nodes
<1>5. Going(c)' = Going(c)
  BY <1>4, GoingSame DEF StillData
<1>6. Ended(c)' = Ended(c)
  BY <1>4, EndedSame DEF StillData
<1>7. Same(c)
  BY <1>3, <1>5, <1>6 DEF StillData, Same
<1> QED BY <1>7, SameStep

\* A step that keeps what is under way, and does to each connection what
\* NetStream allows.
Streaming == Streams' /\ \A c \in Cnns : Step(c)

LEMMA StillStreaming ==
  ASSUME TypeOK, Streams, StillData, UNCHANGED <<arrived, got, sent>>
  PROVE  Streaming
BY StillStreams, StillSame DEF Streaming

LEMMA ProgramStreaming ==
  ASSUME TypeOK, Streams, NEW c \in Cnns,
         ListenAsyncOrConnectAsync(c) \/ CancelAsync(c) \/ Close(c) \/ HandlerExpires(c)
  PROVE  Streaming
<1>1. UNCHANGED <<sock, unread, wire, id2nodes, new_nodes, life, wait_send>>
  BY DEF ListenAsyncOrConnectAsync, CancelAsync, Close, HandlerExpires, workerVars, peerVars,
         loopVars, sharedVars, userVars
<1>2. UNCHANGED <<arrived, got, sent, net_datas, using_idx, knocking>>
  BY DEF ListenAsyncOrConnectAsync, CancelAsync, Close, HandlerExpires, workerVars, peerVars,
         loopVars, sharedVars, userVars
<1>3. \A d \in Cnns : Unborn(d)' => Unborn(d)
  <2>1. CASE ListenAsyncOrConnectAsync(c)
    <3>1. /\ c \notin asked /\ asked' = asked \cup {c} /\ c \in Askable
          /\ net_tasks' = Append(net_tasks, c) /\ net_tasks \in Seq(Askable)
      BY <2>1 DEF ListenAsyncOrConnectAsync, TypeOK
    <3>2. \A d \in Cnns : Asking(d)' => Asking(d) \/ d = c
      <4>1. \A i \in DOMAIN net_tasks' : i \in DOMAIN net_tasks \/ i = Len(net_tasks) + 1
        BY <3>1, SeqAppend
      <4> QED BY <3>1, <4>1, SeqAppend DEF Asking
    <3> QED BY <1>2, <3>1, <3>2 DEF Unborn
  <2>2. CASE CancelAsync(c) \/ Close(c) \/ HandlerExpires(c)
    <3>1. UNCHANGED <<asked, net_tasks>>
      BY <2>2 DEF CancelAsync, Close, HandlerExpires, taskVars, userVars
    <3> QED BY <1>2, <3>1 DEF Unborn, Asking
  <2> QED BY <2>1, <2>2
<1>4. StillData
  BY <1>1, <1>2, <1>3, QueuedSame DEF StillData
<1> QED BY <1>2, <1>4, StillStreaming

LEMMA UpdateStreaming ==
  ASSUME TypeOK, Control, Streams, GetNetDatas \/ DatasProcessed
  PROVE  Streaming
<1>1. UNCHANGED <<sock, unread, wire, id2nodes, new_nodes, life, wait_send>>
  BY DEF GetNetDatas, DatasProcessed, peerVars, loopVars, userVars
<1>2. UNCHANGED <<arrived, got, sent, knocking, asked, net_tasks, net_datas>>
  BY DEF GetNetDatas, DatasProcessed, peerVars, loopVars, userVars, taskVars
<1>3. \A d \in Cnns : Unborn(d)' => Unborn(d)
  BY <1>2 DEF Unborn, Asking
<1>4. Queued' = Queued
  <2>1. CASE GetNetDatas
    <3>1. draining = None /\ using_idx' = (using_idx + 1) % 2
      BY <2>1 DEF GetNetDatas
    <3> QED BY <1>2, <3>1, QueuedSwitches DEF Control
  <2>2. CASE DatasProcessed
    BY <1>2, <2>2, QueuedSame DEF DatasProcessed
  <2> QED BY <2>1, <2>2
<1>5. StillData
  BY <1>1, <1>3, <1>4 DEF StillData
<1> QED BY <1>2, <1>5, StillStreaming

LEMMA ShutDownStreaming ==
  ASSUME TypeOK, Streams, Release \/ Destroy
  PROVE  Streaming
<1>1. UNCHANGED <<sock, unread, wire, id2nodes, new_nodes, life, wait_send>>
  BY DEF Release, Destroy, workerVars, sharedVars, peerVars, loopVars, userVars
<1>2. UNCHANGED <<arrived, got, sent, knocking, asked, net_datas, using_idx>>
  BY DEF Release, Destroy, workerVars, sharedVars, peerVars, loopVars, userVars
<1>3. net_tasks' = net_tasks \/ net_tasks' = <<>>
  BY DEF Release, Destroy, taskVars
<1>4. \A d \in Cnns : Asking(d)' => Asking(d)
  BY <1>3 DEF Asking
<1>5. \A d \in Cnns : Unborn(d)' => Unborn(d)
  BY <1>2, <1>4 DEF Unborn
<1>6. StillData
  BY <1>1, <1>2, <1>5, QueuedSame DEF StillData
<1> QED BY <1>2, <1>6, StillStreaming

LEMMA PeerStillStreaming ==
  ASSUME TypeOK, Streams, NEW c \in Cnns,
         \/ PeerCloses(c) /\ UNCHANGED moduleVars
         \/ /\ c \notin Askable \cup asked
            /\ asked' = asked \cup {c}
            /\ PeerConnects(c)
            /\ UNCHANGED <<taskVars, async_handlers, phase, updateVars,
                           expired, life, got, sent, closing>>
  PROVE  Streaming
<1>1. UNCHANGED <<sock, unread, wire, id2nodes, new_nodes, life, wait_send>>
  BY DEF PeerCloses, PeerConnects, sharedVars, loopVars, moduleVars, userVars
<1>2. UNCHANGED <<arrived, got, sent, net_datas, using_idx, net_tasks>>
  BY DEF PeerCloses, PeerConnects, sharedVars, loopVars, moduleVars, userVars, taskVars
<1>3. \/ UNCHANGED <<asked, knocking>>
      \/ c \notin asked /\ asked' = asked \cup {c} /\ knocking' = knocking \cup {c}
  BY DEF PeerCloses, PeerConnects, moduleVars, userVars
<1>4. \A d \in Cnns : Asking(d)' => Asking(d)
  BY <1>2 DEF Asking
<1>5. \A d \in Cnns : Unborn(d)' => Unborn(d)
  BY <1>3, <1>4 DEF Unborn
<1>6. StillData
  BY <1>1, <1>2, <1>5, QueuedSame DEF StillData
<1> QED BY <1>2, <1>6, StillStreaming

LEMMA WorkerStillStreaming ==
  ASSUME TypeOK, Streams, UNCHANGED moduleVars, Select \/ IoDone \/ LoopEnds
  PROVE  Streaming
<1>1. UNCHANGED <<sock, unread, wire, id2nodes, new_nodes, life, wait_send>>
  BY DEF Select, IoDone, LoopEnds, peerVars, sharedVars, moduleVars, userVars
<1>2. UNCHANGED <<arrived, got, sent, net_datas, using_idx, net_tasks, asked, knocking>>
  BY DEF Select, IoDone, LoopEnds, peerVars, sharedVars, moduleVars, userVars, taskVars
<1>3. \A d \in Cnns : Unborn(d)' => Unborn(d)
  BY <1>2 DEF Unborn, Asking
<1>4. StillData
  BY <1>1, <1>2, <1>3, QueuedSame DEF StillData
<1> QED BY <1>2, <1>4, StillStreaming

LEMMA StutterStreaming ==
  ASSUME TypeOK, Streams, UNCHANGED vars
  PROVE  Streaming
<1>1. UNCHANGED <<sock, unread, wire, id2nodes, new_nodes, life, wait_send>>
  BY DEF vars, workerVars, peerVars, sharedVars, loopVars, moduleVars, userVars
<1>2. UNCHANGED <<arrived, got, sent, net_datas, using_idx, net_tasks, asked, knocking>>
  BY DEF vars, workerVars, peerVars, sharedVars, loopVars, moduleVars, userVars, taskVars
<1>3. \A d \in Cnns : Unborn(d)' => Unborn(d)
  BY <1>2 DEF Unborn, Asking
<1>4. StillData
  BY <1>1, <1>2, <1>3, QueuedSame DEF StillData
<1> QED BY <1>2, <1>4, StillStreaming

\* close() of a descriptor that nobody has.
LEMMA StrayStreaming ==
  ASSUME TypeOK, Streams, UNCHANGED moduleVars, NEW f \in Fds, HandleStrayFd(f),
         UNCHANGED <<new_nodes, wait_send, using_idx>>, stolen' = {}
  PROVE  Streaming
<1>1. sock' = sock
  <2>1. CloseFd(None, f)
    BY DEF HandleStrayFd
  <2>2. \A d \in Cnns : sock[f] = d => d = None
    BY <2>1, OneClosed
  <2>3. sock[f] = None /\ sock \in [Fds -> Cnns \cup {None}]
    BY <2>2, ConstantFacts DEF TypeOK
  <2>4. sock' = [g \in Fds |-> IF g = f THEN None ELSE sock[g]]
    BY <2>1 DEF CloseFd, CloseFds
  <2> QED BY <2>3, <2>4
<1>2. UNCHANGED <<unread, wire, id2nodes, life>>
  BY DEF HandleStrayFd, peerVars, moduleVars, userVars
<1>3. UNCHANGED <<arrived, got, sent, net_datas, net_tasks, asked, knocking>>
  BY DEF HandleStrayFd, peerVars, moduleVars, userVars, taskVars
<1>4. \A d \in Cnns : Unborn(d)' => Unborn(d)
  BY <1>3 DEF Unborn, Asking
<1>5. StillData
  BY <1>1, <1>2, <1>3, <1>4, QueuedSame DEF StillData
<1> QED BY <1>3, <1>5, StillStreaming

-----------------------------------------------------------------------------
(* The life of the module, the queues and what is to be removed. *)

LEMMA RemovalsNext ==
  ASSUME TypeOK, TypeOK', Control, [Next]_vars
  PROVE  Removals'
<1> DEFINE Kept == UNCHANGED <<to_remove, closing, phase, is_exits>>
<1>0. ASSUME Kept PROVE Removals'
  BY <1>0 DEF Control, Removals
<1>1. ASSUME NEW S \in SUBSET Cnns, RemoveCnns(S), MarkClosing(S), UNCHANGED <<phase, is_exits>>
      PROVE  Removals'
  <2>1. to_remove' = to_remove \cup S /\ to_remove \subseteq Cnns
    BY <1>1 DEF RemoveCnns, TypeOK
  <2>2. \A c \in Cnns : closing'[c] = IF c \in S /\ closing[c] = None THEN sent[c] ELSE closing[c]
    BY <1>1 DEF MarkClosing
  <2>3. \A c \in Cnns : sent[c] # None
    BY CountAssumption DEF TypeOK
  <2>4. \A c \in Cnns : c \in S \/ closing[c] # None => closing'[c] # None
    BY <2>2, <2>3
  <2> QED BY <1>1, <2>1, <2>4 DEF Control, Removals
<1>2. CASE Peers
  <2>1. Kept
    BY <1>2 DEF Peers, PeerSends, PeerCloses, PeerConnects, moduleVars, userVars, sharedVars
  <2> QED BY <1>0, <2>1
<1>3. CASE Program
  <2> PICK c \in Cnns : \/ ListenAsyncOrConnectAsync(c) \/ CancelAsync(c)
                        \/ ListenOrConnect(c) \/ UserSend(c)
                        \/ Close(c) \/ HandlerExpires(c)
    BY <1>3 DEF Program
  <2>1. CASE Close(c)
    BY <1>1, <2>1 DEF Close
  <2>2. CASE ~Close(c)
    <3>1. Kept
      BY <2>2 DEF ListenAsyncOrConnectAsync, CancelAsync, ListenOrConnect, UserSend,
                  HandlerExpires, workerVars, sharedVars, userVars
    <3> QED BY <1>0, <3>1
  <2> QED BY <2>1, <2>2
<1>4. CASE TaskThread
  <2>1. Kept
    BY <1>4 DEF TaskThread, TaskStarts, TaskEnds, userVars, sharedVars
  <2> QED BY <1>0, <2>1
<1>5. CASE Update
  <2>1. CASE DatasProcessed
    <3>1. to_remove_netids \in SUBSET Cnns
      BY DEF TypeOK
    <3> QED BY <1>1, <2>1, <3>1 DEF DatasProcessed
  <2>2. CASE ~DatasProcessed
    <3>1. Kept
      BY <1>5, <2>2 DEF Update, ProcessNetTaskResult, GetNetDatas, ProcessNetData, userVars
    <3> QED BY <1>0, <3>1
  <2> QED BY <2>1, <2>2
<1>6. CASE Worker
  <2>1. UNCHANGED <<closing, phase, is_exits>>
    BY <1>6 DEF Worker, WorkLoop, WorkLoop_AddConn, WorkLoop_SendBuff, Select, HandleNetRead,
                HandleNetWrite, IoDone, WorkLoop_RemoveConn, LoopEnds, sharedVars, moduleVars, userVars
  <2>2. \/ to_remove' \subseteq to_remove
        \/ is_exits
    BY <1>6 DEF Worker, WorkLoop, WorkLoop_AddConn, WorkLoop_SendBuff, Select, HandleNetRead,
                HandleNetWrite, IoDone, WorkLoop_RemoveConn, LoopEnds, sharedVars
  <2> QED BY <2>1, <2>2 DEF Control, Removals
<1>7. CASE Release \/ Destroy
  <2>1. phase' # "update" /\ UNCHANGED <<to_remove, closing>>
    BY <1>7 DEF Release, Destroy, workerVars, sharedVars, userVars
  <2> QED BY <2>1 DEF Removals
<1>8. CASE UNCHANGED vars
  <2>1. Kept
    BY <1>8 DEF vars, workerVars, sharedVars, moduleVars, userVars
  <2> QED BY <1>0, <2>1
<1> QED BY <1>2, <1>3, <1>4, <1>5, <1>6, <1>7, <1>8 DEF Next

LEMMA SwitchedNext ==
  ASSUME TypeOK, TypeOK', Control, [Next]_vars
  PROVE  Switched'
<1> DEFINE Kept == UNCHANGED <<draining, using_idx>> /\ net_datas'[1 - using_idx] = net_datas[1 - using_idx]
<1>0. ASSUME Kept PROVE Switched'
  BY <1>0 DEF Control, Switched
<1>1. \A datas : AddNetworkDatas(datas) => net_datas'[1 - using_idx] = net_datas[1 - using_idx]
  <2>1. using_idx \in {0, 1} /\ 1 - using_idx # using_idx /\ 1 - using_idx \in {0, 1}
    <3>1. \A u \in {0, 1} : 1 - u # u
      OBVIOUS
    <3> QED BY <3>1, QueuedIs
  <2> QED BY <2>1 DEF AddNetworkDatas, TypeOK
<1>2. CASE Peers
  <2>1. UNCHANGED <<draining, using_idx, net_datas>>
    BY <1>2 DEF Peers, PeerSends, PeerCloses, PeerConnects, moduleVars, updateVars, sharedVars
  <2> QED BY <1>0, <2>1
<1>3. CASE Program
  <2> PICK c \in Cnns : \/ ListenAsyncOrConnectAsync(c) \/ CancelAsync(c)
                        \/ ListenOrConnect(c) \/ UserSend(c)
                        \/ Close(c) \/ HandlerExpires(c)
    BY <1>3 DEF Program
  <2>1. UNCHANGED <<draining, using_idx, net_datas>>
    BY DEF ListenAsyncOrConnectAsync, CancelAsync, ListenOrConnect, UserSend, Close,
                  HandlerExpires, workerVars, sharedVars, updateVars
  <2> QED BY <1>0, <2>1
<1>4. CASE TaskThread
  <2>1. UNCHANGED <<draining, using_idx, net_datas>>
    BY <1>4 DEF TaskThread, TaskStarts, TaskEnds, updateVars, sharedVars
  <2> QED BY <1>0, <2>1
<1>5. CASE Update
  <2>1. CASE DatasProcessed
    <3>1. draining = 1 - using_idx /\ net_datas[draining] = <<>> /\ UNCHANGED <<net_datas, using_idx>>
      BY <2>1 DEF DatasProcessed, TypeOK
    <3> QED BY <3>1 DEF Switched
  <2>2. CASE GetNetDatas
    <3>1. draining' # None
      BY <2>2, CountAssumption DEF GetNetDatas, TypeOK
    <3> QED BY <3>1 DEF Switched
  <2>3. CASE ProcessNetData
    BY <2>3 DEF ProcessNetData, Switched
  <2>4. CASE ProcessNetTaskResult
    <3>1. UNCHANGED <<draining, using_idx, net_datas>>
      BY <2>4 DEF ProcessNetTaskResult, updateVars
    <3> QED BY <1>0, <3>1
  <2> QED BY <1>5, <2>1, <2>2, <2>3, <2>4 DEF Update
<1>6. CASE Worker
  <2>1. UNCHANGED <<draining, using_idx>>
    BY <1>6 DEF Worker, WorkLoop, WorkLoop_AddConn, WorkLoop_SendBuff, Select, HandleNetRead,
                HandleNetWrite, IoDone, WorkLoop_RemoveConn, LoopEnds, sharedVars, moduleVars, updateVars
  <2>2. net_datas' = net_datas \/ \E datas : AddNetworkDatas(datas)
    <3>1. CASE \E f \in Fds : HandleNetRead(f)
      BY <3>1 DEF HandleNetRead, HandleStrayFd, ReadConnect, ReadListen, HandleNetError
    <3>2. CASE \E f \in Fds : HandleNetWrite(f)
      BY <3>2 DEF HandleNetWrite, HandleStrayFd, WriteNode, HandleNetError
    <3>3. CASE WorkLoop_RemoveConn
      BY <3>3 DEF WorkLoop_RemoveConn
    <3>4. CASE WorkLoop_AddConn \/ WorkLoop_SendBuff \/ Select \/ IoDone \/ LoopEnds
      BY <3>4 DEF WorkLoop_AddConn, WorkLoop_SendBuff, Select, IoDone, LoopEnds, sharedVars
    <3> QED BY <1>6, <3>1, <3>2, <3>3, <3>4 DEF Worker, WorkLoop
  <2>3. net_datas'[1 - using_idx] = net_datas[1 - using_idx]
    BY <1>1, <2>2
  <2> QED BY <1>0, <2>1, <2>3
<1>7. CASE Release \/ Destroy
  <2>1. UNCHANGED <<draining, using_idx, net_datas>>
    BY <1>7 DEF Release, Destroy, workerVars, sharedVars, updateVars
  <2> QED BY <1>0, <2>1
<1>8. CASE UNCHANGED vars
  <2>1. UNCHANGED <<draining, using_idx, net_datas>>
    BY <1>8 DEF vars, workerVars, sharedVars, moduleVars, updateVars
  <2> QED BY <1>0, <2>1
<1> QED BY <1>2, <1>3, <1>4, <1>5, <1>6, <1>7, <1>8 DEF Next

LEMMA JoinedNext ==
  ASSUME Control, [Next]_vars
  PROVE  Joined'
<1>0. ASSUME UNCHANGED <<draining, in_task, phase>> PROVE Joined'
  BY <1>0 DEF Control, Joined
<1>1. CASE Peers
  BY <1>0, <1>1 DEF Peers, moduleVars, updateVars, taskVars
<1>2. CASE Program
  BY <1>0, <1>2 DEF Program, ListenAsyncOrConnectAsync, CancelAsync, ListenOrConnect, UserSend,
                    Close, HandlerExpires, updateVars, taskVars
<1>3. CASE TaskThread
  <2>1. phase' = phase /\ phase = "update"
    BY <1>3 DEF TaskThread, TaskStarts, TaskEnds, Control, Joined
  <2> QED BY <2>1 DEF Joined
<1>4. CASE Update
  <2>1. phase' = phase /\ phase = "update"
    BY <1>4 DEF Update, ProcessNetTaskResult, GetNetDatas, ProcessNetData, DatasProcessed
  <2> QED BY <2>1 DEF Joined
<1>5. CASE Worker
  BY <1>0, <1>5 DEF Worker, moduleVars, updateVars, taskVars
<1>6. CASE Release \/ Destroy
  BY <1>6 DEF Release, Destroy, updateVars, taskVars, Control, Joined
<1>7. CASE UNCHANGED vars
  BY <1>0, <1>7 DEF vars, moduleVars, updateVars, taskVars
<1> QED BY <1>1, <1>2, <1>3, <1>4, <1>5, <1>6, <1>7 DEF Next

LEMMA ControlNext ==
  ASSUME TypeOK, TypeOK', Control, [Next]_vars
  PROVE  Control'
BY RemovalsNext, SwitchedNext, JoinedNext DEF Control

-----------------------------------------------------------------------------
(* A connection opens or fails. *)

\* The queue is the same, or an accepted socket has been taken from it.
QueueLess ==
  \/ Queued' = Queued
  \/ Queued # <<>> /\ Queued' = Tail(Queued) /\ Head(Queued).act = "accept"

Elsewhere ==
  /\ UNCHANGED <<unread, wire, id2nodes, wait_send, arrived, got, sent>>
  /\ QueueLess
  /\ \A d \in Cnns : Unborn(d)' => Unborn(d)

LEMMA LessChunks ==
  ASSUME TypeOK, QueueLess, NEW c \in Cnns
  PROVE  Chunks(c, Queued)' = Chunks(c, Queued)
<1>1. CASE Queued' = Queued
  BY <1>1, ChunksQueued
<1>2. CASE Queued # <<>> /\ Queued' = Tail(Queued) /\ Head(Queued).act = "accept"
  <2>1. /\ Chunks(c, Queued) = Piece(c, Head(Queued)) \o Chunks(c, Queued)'
        /\ Chunks(c, Queued)' \in Seq(Chunk)
    BY <1>2, ChunksDropped
  <2>2. Piece(c, Head(Queued)) = <<>>
    BY <1>2 DEF Piece
  <2> QED BY <2>1, <2>2, ConcatEmptySeq
<1> QED BY <1>1, <1>2 DEF QueueLess

LEMMA LessEvents ==
  ASSUME TypeOK, Events, QueueLess,
         \A c \in Cnns : /\ life[c] = "open" => life'[c] = "open"
                         /\ Ended(c) => Ended(c)'
  PROVE  Events'
<1>1. CASE Queued' = Queued
  BY <1>1, EventsSame
<1>2. CASE Queued # <<>> /\ Queued' = Tail(Queued)
  BY <1>2, EventsDropped
<1> QED BY <1>1, <1>2 DEF QueueLess

\* c is told; the others are as they were.
LEMMA ToldStreaming ==
  ASSUME TypeOK, OwnedInv, Streams, Elsewhere, Socks', NEW c \in Cnns, life[c] = "none",
         life'[c] = "open" <=> new_nodes'[c] # None, life'[c] \in {"none", "open", "failed"},
         \A d \in Cnns \ {c} : life'[d] = life[d] /\ new_nodes'[d] = new_nodes[d]
  PROVE  /\ Streams' /\ ~Ended(c)' /\ Going(c)' = Going(c)
         /\ \A d \in Cnns \ {c} : Ended(d)' = Ended(d) /\ Going(d)' = Going(d)
         /\ \A d \in Cnns : Chunks(d, Queued)' = Chunks(d, Queued)
         /\ Chunks(c, Queued) = <<>>
<1>1. UNCHANGED Nodes
  BY DEF Elsewhere, Nodes
<1>2. \A d \in Cnns \ {c} : Ended(d)' = Ended(d)
  BY <1>1, EndedSame
<1>3. \A d \in Cnns : Going(d)' = Going(d)
  BY <1>1, GoingSame DEF Elsewhere
<1>4. ~Ended(c) /\ ~Ended(c)' /\ c \notin Nodes
  BY DEF Ended, OwnedInv, Places, Given
<1>5. \A d \in Cnns : Chunks(d, Queued)' = Chunks(d, Queued)
  BY LessChunks DEF Elsewhere
<1>6. Chunks(c, Queued) = <<>>
  BY NothingComing DEF Streams
<1>7. Fresh'
  BY DEF Elsewhere, Streams, Fresh
<1>8. Opens'
  BY <1>1, <1>4 DEF Elsewhere, Streams, Opens
<1>9. Events'
  <2>1. \A d \in Cnns : life[d] = "open" => life'[d] = "open"
    OBVIOUS
  <2>2. ASSUME NEW d \in Cnns, Ended(d) PROVE Ended(d)'
    <3>1. d # c
      BY <1>4, <2>2 DEF Ended
    <3> QED BY <1>2, <2>2, <3>1
  <2> QED BY <2>1, <2>2, LessEvents DEF Elsewhere, Streams
<1>10. Written' /\ Silent'
  BY <1>1 DEF Elsewhere, Streams, Written, Silent
<1>11. Streams'
  BY <1>7, <1>8, <1>9, <1>10 DEF Streams
<1> QED BY <1>2, <1>3, <1>4, <1>5, <1>6, <1>11

LEMMA OpensStreaming ==
  ASSUME TypeOK, OwnedInv, Streams, Elsewhere, Socks', NEW c \in Cnns, life[c] = "none",
         life'[c] = "open", new_nodes'[c] # None,
         \A d \in Cnns \ {c} : life'[d] = life[d] /\ new_nodes'[d] = new_nodes[d],
         \A d \in Cnns : Unread(d)' = Unread(d)
  PROVE  Streaming
<1>1. /\ Streams' /\ ~Ended(c)' /\ Going(c)' = Going(c)
      /\ \A d \in Cnns \ {c} : Ended(d)' = Ended(d) /\ Going(d)' = Going(d)
      /\ \A d \in Cnns : Chunks(d, Queued)' = Chunks(d, Queued)
  BY ToldStreaming
<1>2. \A d \in Cnns : Coming(d)' = Coming(d)
  BY <1>1, ComingSame
<1>3. Step(c)
  BY <1>1, <1>2, OpenStep DEF Elsewhere
<1>4. ASSUME NEW d \in Cnns \ {c} PROVE Step(d)
  <2>1. Same(d)
    BY <1>1, <1>2 DEF Same, Elsewhere
  <2> QED BY <2>1, SameStep
<1> QED BY <1>1, <1>3, <1>4 DEF Streaming

LEMMA FailsStreaming ==
  ASSUME TypeOK, OwnedInv, Streams, Elsewhere, Socks', NEW c \in Cnns, life[c] = "none",
         life'[c] \in {"none", "failed"}, UNCHANGED new_nodes,
         \A d \in Cnns \ {c} : life'[d] = life[d],
         \A f \in Fds, d \in Cnns : sock'[f] = d <=> sock[f] = d /\ d # c
  PROVE  Streaming
<1>0. new_nodes[c] = None
  BY DEF OwnedInv, Places, Given
<1>1. /\ Streams' /\ ~Ended(c)' /\ Going(c)' = Going(c)
      /\ \A d \in Cnns \ {c} : Ended(d)' = Ended(d) /\ Going(d)' = Going(d)
      /\ \A d \in Cnns : Chunks(d, Queued)' = Chunks(d, Queued)
      /\ Chunks(c, Queued) = <<>>
  BY <1>0, ToldStreaming
<1>2. ASSUME NEW d \in Cnns \ {c} PROVE Coming(d)' = Coming(d)
  <2>1. Unread(d)' = Unread(d)
    BY UnreadSame DEF Elsewhere
  <2> QED BY <1>1, <2>1, ComingSame
<1>3. Coming(c)' = <<>>
  <2>1. Unread(c)' = <<>>
    BY DEF Unread
  <2>2. <<>> \o <<>> = <<>>
    OBVIOUS
  <2> QED BY <1>1, <2>1, <2>2 DEF Coming
<1>4. Step(c)
  BY <1>1, <1>3, FailStep DEF Elsewhere
<1>5. ASSUME NEW d \in Cnns \ {c} PROVE Step(d)
  <2>1. Same(d)
    BY <1>1, <1>2 DEF Same, Elsewhere
  <2> QED BY <2>1, SameStep
<1> QED BY <1>1, <1>4, <1>5 DEF Streaming

\* The socket of a connection that is to be told is closed or given to the worker.
LEMMA SettledStreaming ==
  ASSUME TypeOK, OwnedInv, Streams, Elsewhere, Socks', NEW c \in Cnns, life[c] = "none",
         NEW g \in Fds, \A f \in Fds : sock[f] = c <=> f = g, stolen' = {},
         \/ Opened(c, g)
         \/ CloseFd(c, g) /\ UNCHANGED <<new_nodes, life>>
  PROVE  Streaming
<1>1. CASE CloseFd(c, g) /\ UNCHANGED new_nodes
                         /\ (UNCHANGED life \/ life' = [life EXCEPT ![c] = "failed"])
  <2>1. \A f \in Fds, d \in Cnns : sock'[f] = d <=> sock[f] = d /\ d # c
    BY <1>1, OneClosed
  <2>2. life'[c] \in {"none", "failed"} /\ \A d \in Cnns \ {c} : life'[d] = life[d]
    BY <1>1 DEF TypeOK
  <2> QED BY <1>1, <2>1, <2>2, FailsStreaming
<1>2. CASE AddCnn(c, g) /\ life' = [life EXCEPT ![c] = "open"] /\ UNCHANGED sock
  <2>1. /\ life'[c] = "open" /\ new_nodes'[c] = g /\ g # None
        /\ \A d \in Cnns \ {c} : life'[d] = life[d] /\ new_nodes'[d] = new_nodes[d]
    BY <1>2, ConstantFacts DEF AddCnn, TypeOK
  <2>2. \A d \in Cnns : Unread(d)' = Unread(d)
    BY <1>2, UnreadSame DEF Elsewhere
  <2> QED BY <2>1, <2>2, OpensStreaming
<1> QED BY <1>1, <1>2 DEF Opened

-----------------------------------------------------------------------------
(* Steps by which connections open or fail. *)

SocksOwned == Quiet => Socks

LEMMA OwnedSocks == TypeOK /\ OwnedInv => SocksOwned
<1> SUFFICES ASSUME TypeOK, OwnedInv, Quiet PROVE Socks
  BY DEF SocksOwned
<1>1. Places /\ Owned
  BY DEF OwnedInv
<1>2. ASSUME NEW c \in Cnns, NEW f \in Fds, life[c] # "none"
      PROVE  sock[f] = c <=> new_nodes[c] = f \/ NodeFd(c, f)
  <2>1. ~Making(c) /\ ~Made(c) /\ ~Accepted(c)
    BY <1>1, <1>2 DEF Places, Asked, Guests
  <2>2. ~MakingFd(c, f) /\ ~MadeFd(c, f) /\ ~AcceptedFd(c, f)
    BY <2>1 DEF MakingFd, MadeFd, Made, AcceptedFd, Accepted
  <2> QED BY <1>1, <2>2 DEF Owned, HeldFor
<1>3. ASSUME NEW c \in Cnns, NEW f \in Fds, Unborn(c) PROVE sock[f] # c
  BY <1>1, <1>3, Alone DEF Unborn, Owned
<1> QED BY <1>2, <1>3 DEF Socks

LEMMA OpenedFd ==
  ASSUME TypeOK, NEW c \in Cnns, FreeFds # {}, OpenFd(c)
  PROVE  \A f \in Fds, d \in Cnns : sock'[f] = d <=> sock[f] = d \/ (d = c /\ f = Min(FreeFds))
<1>1. Min(FreeFds) \in Fds /\ sock[Min(FreeFds)] = None
  BY FreeFd
<1>2. \A f \in Fds : sock'[f] = IF f = Min(FreeFds) THEN c ELSE sock[f]
  BY <1>1 DEF OpenFd, TypeOK
<1> QED BY <1>1, <1>2, ConstantFacts

\* A new socket of a connection that had none has nothing to be read.
LEMMA OpenedUnread ==
  ASSUME TypeOK, Streams, NEW c \in Cnns, Unborn(c), FreeFds # {}, OpenFd(c),
         UNCHANGED unread, NEW d \in Cnns
  PROVE  Unread(d)' = Unread(d)
<1>1. \A f \in Fds : sock'[f] = d <=> sock[f] = d \/ (d = c /\ f = Min(FreeFds))
  BY OpenedFd
<1>2. CASE d # c
  BY <1>1, <1>2, UnreadSame
<1>3. CASE d = c
  <2>1. unread[c] = <<>>
    BY DEF Streams, Fresh
  <2> QED BY <1>3, <2>1 DEF Unread
<1> QED BY <1>2, <1>3

LEMMA ListenOrConnectStreaming ==
  ASSUME TypeOK, OwnedInv, Streams, SocksOwned', stolen' = {}, NEW c \in Cnns, ListenOrConnect(c)
  PROVE  Streaming
<1>1. UNCHANGED <<unread, wire, id2nodes, wait_send, arrived, got, sent, net_datas, using_idx,
                  knocking, net_tasks, phase>>
  BY DEF ListenOrConnect, peerVars, loopVars, taskVars
<1>2. c \notin asked /\ asked' = asked \cup {c} /\ phase = "update"
  BY DEF ListenOrConnect
<1>3. \A d \in Cnns : Unborn(d)' => Unborn(d)
  BY <1>1, <1>2 DEF Unborn, Asking
<1>4. Elsewhere
  BY <1>1, <1>3, QueuedSame DEF Elsewhere, QueueLess
<1>5. Socks'
  BY <1>1, <1>2 DEF SocksOwned, Quiet
<1>6. life[c] = "none" /\ Unborn(c)
  BY <1>2 DEF OwnedInv, Places, Given, Unborn
<1>7. CASE /\ FreeFds # {} /\ OpenFd(c) /\ AddCnn(c, Min(FreeFds))
           /\ life' = [life EXCEPT ![c] = "open"]
  <2>1. Min(FreeFds) \in Fds
    BY <1>7, FreeFd
  <2>2. /\ life'[c] = "open" /\ new_nodes'[c] # None
        /\ \A d \in Cnns \ {c} : life'[d] = life[d] /\ new_nodes'[d] = new_nodes[d]
    <3>1. /\ life'[c] = "open" /\ new_nodes'[c] = Min(FreeFds)
          /\ \A d \in Cnns \ {c} : life'[d] = life[d] /\ new_nodes'[d] = new_nodes[d]
      BY <1>7 DEF AddCnn, TypeOK
    <3> QED BY <2>1, <3>1, ConstantFacts
  <2>3. \A d \in Cnns : Unread(d)' = Unread(d)
    BY <1>1, <1>6, <1>7, OpenedUnread
  <2> QED BY <1>4, <1>5, <1>6, <2>2, <2>3, OpensStreaming
<1>8. CASE life' = [life EXCEPT ![c] = "failed"] /\ UNCHANGED <<sock, new_nodes>>
  <2>1. life'[c] = "failed" /\ \A d \in Cnns \ {c} : life'[d] = life[d]
    BY <1>8 DEF TypeOK
  <2>2. \A f \in Fds, d \in Cnns : sock'[f] = d <=> sock[f] = d /\ d # c
    BY <1>6, <1>8 DEF Streams, Socks
  <2> QED BY <1>4, <1>5, <1>6, <1>8, <2>1, <2>2, FailsStreaming
<1> QED BY <1>7, <1>8 DEF ListenOrConnect

LEMMA TaskStartsStreaming ==
  ASSUME TypeOK, OwnedInv, Streams, SocksOwned', stolen' = {}, TaskStarts
  PROVE  Streaming
<1> DEFINE c == Head(net_tasks)
<1>1. UNCHANGED <<unread, wire, id2nodes, wait_send, arrived, got, sent, net_datas, using_idx,
                  knocking, phase, asked, life, new_nodes>>
  BY DEF TaskStarts, peerVars, sharedVars, loopVars, userVars
<1>2. /\ net_tasks # <<>> /\ net_tasks' = Tail(net_tasks) /\ phase = "update"
      /\ FreeFds # {} /\ OpenFd(c)
  BY DEF TaskStarts
<1>3. Asking(c) /\ \A d \in Cnns : Asking(d)' => Asking(d)
  BY <1>2, TaskTaken DEF OwnedInv, Places
<1>4. c \in Cnns /\ Unborn(c)
  <2>1. net_tasks \in Seq(Askable) /\ Askable \subseteq Cnns
    BY ConstantFacts DEF TypeOK
  <2> QED BY <1>2, <1>3, <2>1 DEF Unborn
<1> HIDE DEF c
<1>5. \A d \in Cnns : Unborn(d)' => Unborn(d)
  BY <1>1, <1>3 DEF Unborn
<1>6. Socks'
  BY <1>1, <1>2 DEF SocksOwned, Quiet
<1>7. UNCHANGED Nodes
  BY <1>1 DEF Nodes
<1>8. \A d \in Cnns : Ended(d)' = Ended(d) /\ Going(d)' = Going(d)
  BY <1>1, <1>7, EndedSame, GoingSame
<1>9. Queued' = Queued
  BY <1>1, QueuedSame
<1>10. Streams'
  <2>1. Fresh' /\ Opens' /\ Written' /\ Silent'
    BY <1>1, <1>5, <1>7 DEF Streams, Fresh, Opens, Written, Silent
  <2>2. Events'
    BY <1>1, <1>8, <1>9, EventsSame DEF Streams
  <2> QED BY <1>6, <2>1, <2>2 DEF Streams
<1>11. ASSUME NEW d \in Cnns PROVE Step(d)
  <2>1. Unread(d)' = Unread(d)
    BY <1>1, <1>2, <1>4, OpenedUnread
  <2>2. Chunks(d, Queued)' = Chunks(d, Queued)
    BY <1>9, ChunksQueued
  <2>3. Coming(d)' = Coming(d)
    BY <2>1, <2>2, ComingSame
  <2>4. Same(d)
    BY <1>1, <1>8, <2>3 DEF Same
  <2> QED BY <2>4, SameStep
<1> QED BY <1>10, <1>11 DEF Streaming

LEMMA TaskEndsStreaming ==
  ASSUME TypeOK, OwnedInv, Control, Streams, SocksOwned', stolen' = {}, TaskEnds
  PROVE  Streaming
<1>1. UNCHANGED <<unread, wire, id2nodes, wait_send, arrived, got, sent, net_datas, using_idx,
                  knocking, phase, asked, life, new_nodes, net_tasks>>
  BY DEF TaskEnds, peerVars, sharedVars, loopVars, userVars
<1>2. \A d \in Cnns : Unborn(d)' => Unborn(d)
  BY <1>1 DEF Unborn, Asking
<1>3. Queued' = Queued
  BY <1>1, QueuedSame
<1>4. in_task # None /\ phase = "update"
  BY DEF TaskEnds, Control, Joined
<1>5. CASE UNCHANGED sock
  BY <1>1, <1>2, <1>3, <1>5, StillStreaming DEF StillData
<1>6. CASE CloseFd(in_task.cnn, in_task.fd)
  <2> PICK t \in [cnn : Askable, fd : Fds] : t = in_task
    BY <1>4 DEF TypeOK
  <2> PICK c \in Cnns : c = t.cnn
    BY ConstantFacts
  <2> PICK g \in Fds : g = t.fd
    OBVIOUS
  <2>0. CloseFd(c, g)
    BY <1>6
  <2>1. Making(c)
    BY <1>4 DEF Making
  <2>2. life[c] = "none"
    BY <2>1 DEF OwnedInv, Places, Asked
  <2>3. stolen = {}
    BY <2>0, OneClosed
  <2>4. \A f \in Fds : sock[f] = c <=> f = g
    BY <1>4, <2>1, <2>3, Alone DEF OwnedInv, Quiet, Owned
  <2>5. Elsewhere /\ Socks'
    BY <1>1, <1>2, <1>3, <1>4 DEF Elsewhere, QueueLess, SocksOwned, Quiet
  <2> QED BY <1>1, <2>0, <2>2, <2>4, <2>5, SettledStreaming
<1> QED BY <1>5, <1>6 DEF TaskEnds

LEMMA ResultStreaming ==
  ASSUME TypeOK, OwnedInv, Streams, SocksOwned', stolen' = {}, ProcessNetTaskResult
  PROVE  Streaming
<1> DEFINE ret == Head(net_task_results)
<1>1. UNCHANGED <<unread, wire, id2nodes, wait_send, arrived, got, sent, net_datas, using_idx,
                  knocking, phase, asked, net_tasks>>
  BY DEF ProcessNetTaskResult, peerVars, loopVars
<1>2. /\ phase = "update" /\ net_task_results # <<>> /\ net_task_results' = Tail(net_task_results)
  BY DEF ProcessNetTaskResult
<1>3. Made(ret.cnn) /\ \A f : MadeFd(ret.cnn, f) <=> f = ret.fd
  BY <1>2, ResultTaken DEF OwnedInv, Places
<1>4. ret \in [cnn : Askable, fd : Fds \cup {None}]
  <2>1. net_task_results \in Seq([cnn : Askable, fd : Fds \cup {None}])
    BY DEF TypeOK
  <2> QED BY <1>2, <2>1, SeqFacts
<1>5. IF ret.cnn \notin async_handlers \/ ret.cnn \in expired
      THEN /\ IF ret.fd = None THEN UNCHANGED <<sock, stolen>> ELSE CloseFd(ret.cnn, ret.fd)
           /\ UNCHANGED <<new_nodes, life>>
      ELSE IF ret.fd = None
      THEN life' = [life EXCEPT ![ret.cnn] = "failed"] /\ UNCHANGED <<sock, stolen, new_nodes>>
      ELSE Opened(ret.cnn, ret.fd)
  BY DEF ProcessNetTaskResult
<1> PICK r \in [cnn : Askable, fd : Fds \cup {None}] : r = ret
  BY <1>4
<1> HIDE DEF ret
<1> PICK c \in Cnns : c = r.cnn
  BY ConstantFacts
<1> PICK g : g = r.fd
  OBVIOUS
<1>6. life[c] = "none"
  BY <1>3 DEF OwnedInv, Places, Asked
<1>7. Elsewhere
  <2>1. \A d \in Cnns : Unborn(d)' => Unborn(d)
    BY <1>1 DEF Unborn, Asking
  <2> QED BY <1>1, <2>1, QueuedSame DEF Elsewhere, QueueLess
<1>8. Socks'
  BY <1>1, <1>2 DEF SocksOwned, Quiet
<1>9. stolen = {}
  <2>1. stolen \subseteq stolen'
    BY <1>5 DEF Opened, CloseFd, CloseFds
  <2> QED BY <2>1
<1>10. \A f \in Fds : sock[f] = c <=> f = g
  BY <1>2, <1>3, <1>9, Alone DEF OwnedInv, Quiet, Owned
<1>11. CASE g = None
  <2>1. \A f \in Fds : sock[f] # c
    BY <1>10, <1>11, ConstantFacts
  <2>2. /\ UNCHANGED <<sock, new_nodes>>
        /\ UNCHANGED life \/ life' = [life EXCEPT ![c] = "failed"]
    BY <1>5, <1>11
  <2>3. life'[c] \in {"none", "failed"} /\ \A d \in Cnns \ {c} : life'[d] = life[d]
    BY <1>6, <2>2 DEF TypeOK
  <2> QED BY <1>6, <1>7, <1>8, <2>1, <2>2, <2>3, FailsStreaming
<1>12. CASE g # None
  <2>1. g \in Fds
    BY <1>12
  <2>2. \/ Opened(c, g)
        \/ CloseFd(c, g) /\ UNCHANGED <<new_nodes, life>>
    BY <1>5, <1>12
  <2> QED BY <1>6, <1>7, <1>8, <1>10, <2>1, <2>2, SettledStreaming
<1> QED BY <1>11, <1>12

-----------------------------------------------------------------------------
(* Beginnings and ends of sequences, as NetStream says them. *)

LEMMA PrefixOf ==
  ASSUME NEW S, NEW s \in Seq(S), NEW t \in Seq(S)
  PROVE  /\ Contract!IsPrefix(s, s \o t)
         /\ Contract!Rest(s \o t, s) = t
<1>1. /\ s \o t \in Seq(S) /\ Len(s \o t) = Len(s) + Len(t)
      /\ Len(s) \in Nat /\ Len(t) \in Nat
  BY ConcatProperties
<1>2. SubSeq(s \o t, 1, Len(s)) = SubSeq(s, 1, Len(s))
  <2>1. CASE Len(s) = 0
    BY <2>1, SubSeqEmpty
  <2>2. CASE Len(s) # 0
    <3>1. 1 \in 1..Len(s) /\ Len(s) \in 1..Len(s)
      BY <1>1, <2>2
    <3> QED BY <3>1, SubSeqOfConcat1
  <2> QED BY <2>1, <2>2
<1>3. SubSeq(s \o t, Len(s) + 1, Len(s \o t)) = t
  <2>1. CASE Len(t) = 0
    <3>1. t = <<>> /\ Len(s \o t) < Len(s) + 1 /\ Len(s) + 1 \in Int /\ Len(s \o t) \in Int
      BY <1>1, <2>1
    <3> QED BY <3>1, SubSeqEmpty
  <2>2. CASE Len(t) # 0
    <3>1. Len(s) + 1 \in Len(s) + 1 .. Len(s) + Len(t) /\ Len(s) + Len(t) \in Len(s) + 1 .. Len(s) + Len(t)
      BY <1>1, <2>2
    <3>2. SubSeq(s \o t, Len(s) + 1, Len(s) + Len(t))
            = SubSeq(t, (Len(s) + 1) - Len(s), (Len(s) + Len(t)) - Len(s))
      BY <3>1, SubSeqOfConcat2
    <3>3. (Len(s) + 1) - Len(s) = 1 /\ (Len(s) + Len(t)) - Len(s) = Len(t)
      BY <1>1
    <3> QED BY <1>1, <3>2, <3>3, SubSeqFull
  <2> QED BY <2>1, <2>2
<1>4. Len(s) <= Len(s \o t)
  BY <1>1
<1>5. Contract!IsPrefix(s, s \o t)
  BY <1>2, <1>4 DEF Contract!IsPrefix
<1>6. Contract!Rest(s \o t, s) = t
  BY <1>3 DEF Contract!Rest
<1> QED BY <1>5, <1>6

LEMMA ReverseType ==
  ASSUME NEW S, NEW s \in Seq(S)
  PROVE  /\ Contract!Reverse(s) \in Seq(S) /\ Len(Contract!Reverse(s)) = Len(s)
         /\ \A i \in 1..Len(s) : Contract!Reverse(s)[i] = s[(Len(s) - i) + 1]
<1> DEFINE n == Len(s)
           r == [i \in 1..n |-> s[(n - i) + 1]]
<1>1. n \in Nat /\ \A i \in 1..n : s[i] \in S
  OBVIOUS
<1>2. r = Contract!Reverse(s)
  BY DEF Contract!Reverse
<1> HIDE DEF n
<1>3. \A i \in 1..n : (n - i) + 1 \in 1..n
  BY <1>1
<1>4. r \in [1..n -> S]
  BY <1>1, <1>3
<1>5. r \in Seq(S) /\ Len(r) = n
  BY <1>1, <1>4
<1>6. \A i \in 1..n : r[i] = s[(n - i) + 1]
  OBVIOUS
<1> HIDE DEF r
<1> QED BY <1>2, <1>5, <1>6 DEF n

LEMMA SuffixOf ==
  ASSUME NEW S, NEW s \in Seq(S), NEW t \in Seq(S)
  PROVE  Contract!IsSuffix(t, s \o t)
<1> DEFINE u == s \o t
           R(x) == Contract!Reverse(x)
           a == Len(s)
           b == Len(t)
<1>1. /\ u \in Seq(S) /\ Len(u) = a + b /\ a \in Nat /\ b \in Nat
      /\ \A i \in 1..(a + b) : u[i] = IF i <= a THEN s[i] ELSE t[i - a]
  BY ConcatProperties
<1>2. /\ R(u) \in Seq(S) /\ Len(R(u)) = a + b
      /\ \A i \in 1..(a + b) : R(u)[i] = u[((a + b) - i) + 1]
  <2> HIDE DEF u, a, b
  <2>1. /\ R(u) \in Seq(S) /\ Len(R(u)) = Len(u)
        /\ \A i \in 1..Len(u) : R(u)[i] = u[(Len(u) - i) + 1]
    BY <1>1, ReverseType
  <2> QED BY <1>1, <2>1
<1>3. /\ R(s) \in Seq(S) /\ Len(R(s)) = a
      /\ \A i \in 1..a : R(s)[i] = s[(a - i) + 1]
  BY ReverseType
<1>4. /\ R(t) \in Seq(S) /\ Len(R(t)) = b
      /\ \A i \in 1..b : R(t)[i] = t[(b - i) + 1]
  BY ReverseType
<1>5. PICK x \in Seq(S) : x = R(u)
  BY <1>2
<1>6. PICK y \in Seq(S) : y = R(s)
  BY <1>3
<1>7. PICK z \in Seq(S) : z = R(t)
  BY <1>4
<1>8. /\ Len(x) = a + b /\ Len(y) = a /\ Len(z) = b
      /\ \A i \in 1..(a + b) : x[i] = u[((a + b) - i) + 1]
      /\ \A i \in 1..a : y[i] = s[(a - i) + 1]
      /\ \A i \in 1..b : z[i] = t[(b - i) + 1]
  BY <1>2, <1>3, <1>4, <1>5, <1>6, <1>7
<1> HIDE DEF u, R, a, b
<1>9. \A i \in 1..(a + b) : x[i] = IF i <= b THEN z[i] ELSE y[i - b]
  <2> TAKE i \in 1..(a + b)
  <2>1. CASE i <= b
    <3>1. i \in 1..b /\ ((a + b) - i) + 1 \in 1..(a + b) /\ ~(((a + b) - i) + 1 <= a)
          /\ (((a + b) - i) + 1) - a = (b - i) + 1
      BY <1>1, <2>1
    <3>2. x[i] = t[(b - i) + 1] /\ z[i] = t[(b - i) + 1]
      BY <1>1, <1>8, <3>1
    <3> QED BY <2>1, <3>2
  <2>2. CASE ~(i <= b)
    <3>1. i - b \in 1..a /\ ((a + b) - i) + 1 \in 1..(a + b) /\ ((a + b) - i) + 1 <= a
          /\ ((a + b) - i) + 1 = (a - (i - b)) + 1
      BY <1>1, <2>2
    <3>2. x[i] = s[((a + b) - i) + 1] /\ y[i - b] = s[(a - (i - b)) + 1]
      BY <1>1, <1>8, <3>1
    <3> QED BY <2>2, <3>1, <3>2
  <2> QED BY <2>1, <2>2
<1>10. x = z \o y
  <2>1. /\ z \o y \in Seq(S) /\ Len(z \o y) = b + a
        /\ \A i \in 1..(b + a) : (z \o y)[i] = IF i <= b THEN z[i] ELSE y[i - b]
    <3>1. /\ z \o y \in Seq(S) /\ Len(z \o y) = Len(z) + Len(y)
          /\ \A i \in 1..(Len(z) + Len(y)) : (z \o y)[i] = IF i <= Len(z) THEN z[i] ELSE y[i - Len(z)]
      BY ConcatProperties
    <3>2. Len(y) = a /\ Len(z) = b
      BY <1>8
    <3> QED BY <3>1, <3>2
  <2>2. a + b = b + a
    BY <1>1
  <2> PICK w \in Seq(S) : w = z \o y
    BY <2>1
  <2>3. Len(x) = a + b /\ Len(w) = a + b
    BY <1>8, <2>1, <2>2
  <2>4. \A i \in 1..(a + b) : w[i] = x[i]
    BY <1>9, <2>1, <2>2
  <2>5. w = x
    BY <2>3, <2>4, SeqEqual
  <2> QED BY <2>5
<1>11. Contract!IsPrefix(z, x)
  BY <1>10, PrefixOf
<1> QED BY <1>5, <1>7, <1>11 DEF Contract!IsSuffix, R, u

LEMMA PrefixSelf ==
  ASSUME NEW S, NEW s \in Seq(S)
  PROVE  Contract!IsPrefix(s, s) /\ Contract!IsSuffix(s, s)
<1>1. Contract!IsPrefix(s, s \o <<>>) /\ Contract!IsSuffix(s, <<>> \o s)
  BY PrefixOf, SuffixOf, SeqFacts
<1> QED BY <1>1, ConcatEmptySeq

-----------------------------------------------------------------------------
(* What the peers and the program send. *)

LEMMA PeerSendsStreaming ==
  ASSUME TypeOK, OwnedInv, Streams, NEW c \in Cnns, PeerSends(c), UNCHANGED moduleVars
  PROVE  Streaming
<1>1. UNCHANGED <<sock, wire, id2nodes, new_nodes, life, wait_send, got, sent, net_datas, using_idx,
                  knocking, asked, net_tasks>>
  BY DEF PeerSends, sharedVars, loopVars, moduleVars, userVars, taskVars
<1>2. PICK f \in Fds : sock[f] = c
  BY DEF PeerSends
<1>3. /\ c \notin hup
      /\ arrived'[c] = arrived[c] + 1 /\ \A d \in Cnns \ {c} : arrived'[d] = arrived[d]
      /\ unread'[c] = Append(unread[c], <<c, arrived[c] + 1>>)
      /\ \A d \in Cnns \ {c} : unread'[d] = unread[d]
  BY DEF PeerSends, TypeOK
<1>4. UNCHANGED Nodes /\ Queued' = Queued
  BY <1>1, QueuedSame DEF Nodes
<1>5. \A d \in Cnns : Ended(d)' = Ended(d) /\ Going(d)' = Going(d)
  BY <1>1, <1>4, EndedSame, GoingSame
<1>6. \A d \in Cnns : Chunks(d, Queued)' = Chunks(d, Queued)
  BY <1>4, ChunksQueued
<1>7. \A d \in Cnns : (Unborn(d)' <=> Unborn(d)) /\ (Unborn(d) => d # c)
  <2>1. \A d \in Cnns : Unborn(d)' <=> Unborn(d)
    BY <1>1 DEF Unborn, Asking
  <2>2. ~Unborn(c)
    BY <1>2 DEF Streams, Socks
  <2> QED BY <2>1, <2>2
<1>8. ~Ended(c)
  BY <1>2, ConstantFacts DEF Ended, Streams, Socks, NodeFd
<1>9. Streams'
  <2>1. Socks'
    BY <1>1, <1>4, <1>7 DEF Streams, Socks, NodeFd
  <2>2. Fresh'
    BY <1>3, <1>7 DEF Streams, Fresh
  <2>3. Opens' /\ Written' /\ Silent'
    BY <1>1, <1>4 DEF Streams, Opens, Written, Silent
  <2>4. Events'
    BY <1>1, <1>4, <1>5, EventsSame DEF Streams
  <2> QED BY <2>1, <2>2, <2>3, <2>4 DEF Streams
<1>10. Step(c)
  <2>1. Coming(c)' = Append(Coming(c), <<c, arrived[c] + 1>>)
    <3>1. Unread(c) = unread[c] /\ Unread(c)' = Append(unread[c], <<c, arrived[c] + 1>>)
      BY <1>1, <1>2, <1>3 DEF Unread
    <3>2. \A s, t \in Seq(Chunk), x \in Chunk : s \o Append(t, x) = Append(s \o t, x)
      <4> TAKE s, t \in Seq(Chunk), x \in Chunk
      <4>1. Append(t, x) = t \o <<x>> /\ Append(s \o t, x) = (s \o t) \o <<x>>
        BY AppendIsConcat, ConcatProperties
      <4>2. <<x>> \in Seq(Chunk)
        OBVIOUS
      <4> QED BY <4>1, <4>2, SeqAssociative
    <3>3. <<c, arrived[c] + 1>> \in Chunk
      BY DEF Chunk, TypeOK
    <3> PICK s \in Seq(Chunk) : s = Chunks(c, Queued)
      BY StreamTypes
    <3> PICK t \in Seq(Chunk) : t = unread[c]
      BY StreamTypes
    <3> PICK x \in Chunk : <<c, arrived[c] + 1>> = x
      BY <3>3
    <3>4. Coming(c) = s \o t /\ Coming(c)' = s \o Append(t, x)
      BY <1>6, <3>1 DEF Coming
    <3>5. s \o Append(t, x) = Append(s \o t, x)
      BY <3>2, Zenon
    <3> QED BY <3>4, <3>5, Zenon
  <2>2. UNCHANGED <<life[c], got[c], sent[c], Going(c), wire[c]>> /\ ~Ended(c)'
    BY <1>1, <1>5, <1>8
  <2> QED BY <1>3, <1>8, <2>1, <2>2, PeerSendsStep
<1>11. ASSUME NEW d \in Cnns \ {c} PROVE Step(d)
  <2>1. Unread(d)' = Unread(d)
    BY <1>1, <1>3, UnreadSame
  <2>2. Coming(d)' = Coming(d)
    BY <1>6, <2>1, ComingSame
  <2>3. Same(d)
    BY <1>1, <1>3, <1>5, <2>2 DEF Same
  <2> QED BY <2>3, SameStep
<1> QED BY <1>9, <1>10, <1>11 DEF Streaming

LEMMA UserSendStreaming ==
  ASSUME TypeOK, OwnedInv, Streams, NEW c \in Cnns, UserSend(c)
  PROVE  Streaming
<1>1. UNCHANGED <<sock, unread, wire, id2nodes, new_nodes, life, arrived, got, net_datas, using_idx,
                  knocking, asked, net_tasks>>
  BY DEF UserSend, peerVars, loopVars, taskVars
<1>2. /\ life[c] = "open" /\ c \notin Listeners /\ c \notin expired
      /\ sent'[c] = sent[c] + 1 /\ \A d \in Cnns \ {c} : sent'[d] = sent[d]
      /\ wait_send'[c] = Append(wait_send[c], <<c, sent[c] + 1>>)
      /\ \A d \in Cnns \ {c} : wait_send'[d] = wait_send[d]
  BY DEF UserSend, Send, TypeOK
<1>3. UNCHANGED Nodes /\ Queued' = Queued
  BY <1>1, QueuedSame DEF Nodes
<1>4. \A d \in Cnns : Ended(d)' = Ended(d)
  BY <1>1, <1>3, EndedSame
<1>5. \A d \in Cnns : Coming(d)' = Coming(d)
  <2> TAKE d \in Cnns
  <2>1. Chunks(d, Queued)' = Chunks(d, Queued)
    BY <1>3, ChunksQueued
  <2>2. Unread(d)' = Unread(d)
    BY <1>1, UnreadSame
  <2> QED BY <2>1, <2>2, ComingSame
<1>6. Streams'
  <2>1. \A d \in Cnns : Unborn(d)' <=> Unborn(d)
    BY <1>1 DEF Unborn, Asking
  <2>2. Socks' /\ Fresh'
    BY <1>1, <1>3, <2>1 DEF Streams, Socks, NodeFd, Fresh
  <2>3. Opens' /\ Written'
    BY <1>1, <1>3 DEF Streams, Opens, Written
  <2>4. Silent'
    BY <1>1, <1>2, <1>3, ConstantFacts DEF Streams, Silent
  <2>5. Events'
    BY <1>1, <1>3, <1>4, EventsSame DEF Streams
  <2> QED BY <2>2, <2>3, <2>4, <2>5 DEF Streams
<1>7. Step(c)
  <2>1. Going(c)' = Append(Going(c), <<c, sent[c] + 1>>)
    <3> DEFINE s == IF c \in Nodes THEN id2nodes[c].send ELSE <<>>
               x == <<c, sent[c] + 1>>
    <3>1. s \in Seq(Chunk) /\ wait_send[c] \in Seq(Chunk) /\ x \in Chunk
      <4>1. s \in Seq(Chunk) /\ wait_send[c] \in Seq(Chunk)
        <5>1. <<>> \in Seq(Chunk)
          OBVIOUS
        <5> QED BY <5>1, StreamTypes
      <4>2. sent[c] + 1 \in Nat
        BY DEF TypeOK
      <4> QED BY <4>1, <4>2 DEF Chunk
    <3>2. Going(c) = s \o wait_send[c] /\ Going(c)' = s \o wait_send'[c]
      BY <1>1, <1>3 DEF Going
    <3>3. wait_send'[c] = Append(wait_send[c], x)
      BY <1>2
    <3>4. \A u, v \in Seq(Chunk), y \in Chunk : u \o Append(v, y) = Append(u \o v, y)
      <4> TAKE u, v \in Seq(Chunk), y \in Chunk
      <4>1. Append(v, y) = v \o <<y>> /\ Append(u \o v, y) = (u \o v) \o <<y>>
        BY AppendIsConcat, ConcatProperties
      <4>2. <<y>> \in Seq(Chunk)
        OBVIOUS
      <4> QED BY <4>1, <4>2, SeqAssociative
    <3> HIDE DEF s, x
    <3>5. Going(c)' = Append(Going(c), x)
      BY <3>1, <3>2, <3>3, <3>4
    <3> QED BY <3>5 DEF x
  <2> QED BY <1>1, <1>2, <1>4, <1>5, <2>1, SendStep
<1>8. ASSUME NEW d \in Cnns \ {c} PROVE Step(d)
  <2>1. Going(d)' = Going(d)
    BY <1>1, <1>2, <1>3, GoingSame
  <2>2. Same(d)
    BY <1>1, <1>2, <1>4, <1>5, <2>1 DEF Same
  <2> QED BY <2>2, SameStep
<1> QED BY <1>6, <1>7, <1>8 DEF Streaming

-----------------------------------------------------------------------------
(* The program is told of events. *)

\* What an event of c's carries leaves the queue; the others are as they were.
LEMMA EventStreaming ==
  ASSUME TypeOK, OwnedInv, Streams, Socks', NEW data \in Data, NEW c \in Cnns, c = data.cnn,
         Queued # <<>>, Queued' = Tail(Queued), Head(Queued) = data, data.act # "accept",
         UNCHANGED <<sock, unread, wire, id2nodes, new_nodes, wait_send, arrived, sent,
                     knocking, asked, net_tasks>>,
         \A d \in Cnns \ {c} : life'[d] = life[d] /\ got'[d] = got[d],
         \/ life'[c] = life[c]
         \/ data.act = "close" /\ Ended(c) /\ life[c] = "open" /\ life'[c] = "closed"
  PROVE  /\ Streams' /\ Going(c)' = Going(c) /\ Ended(c)' = Ended(c) /\ Unread(c)' = Unread(c)
         /\ \A d \in Cnns \ {c} : Step(d)
<1>1. UNCHANGED Nodes
  BY DEF Nodes
<1>2. Ended(c)' = Ended(c)
  <2>1. CASE life'[c] = life[c]
    BY <1>1, <2>1, EndedSame
  <2>2. CASE Ended(c) /\ life'[c] = "closed"
    <3>1. Ended(c)' <=> Ended(c)
      BY <1>1, <2>2 DEF Ended
    <3> QED BY <3>1 DEF Ended
  <2> QED BY <2>1, <2>2
<1>3. \A d \in Cnns : Going(d)' = Going(d) /\ Unread(d)' = Unread(d)
  BY <1>1, GoingSame, UnreadSame
<1>4. \A d \in Cnns \ {c} : Ended(d)' = Ended(d)
  BY <1>1, EndedSame
<1>5. \A d \in Cnns : Unborn(d)' <=> Unborn(d)
  BY DEF Unborn, Asking
<1>6. Streams'
  <2>1. Fresh'
    BY <1>5 DEF Streams, Fresh
  <2>2. Opens'
    <3>1. \A d \in Cnns \ {c} : d \in Nodes \/ new_nodes[d] # None => life'[d] = "open"
      BY DEF Streams, Opens
    <3>2. c \in Nodes \/ new_nodes[c] # None => life'[c] = "open"
      BY DEF Streams, Opens, Ended
    <3> QED BY <1>1, <3>1, <3>2 DEF Opens
  <2>3. Events'
    <3>1. \A d \in Cnns : life[d] = "open" =>
            (life'[d] = "open" \/ (d = Head(Queued).cnn /\ Head(Queued).act = "close"))
      OBVIOUS
    <3>2. \A d \in Cnns : Ended(d) => Ended(d)'
      BY <1>2, <1>4
    <3> QED BY <3>1, <3>2, EventsDropped DEF Streams
  <2>4. Written'
    BY DEF Streams, Written
  <2>5. Silent'
    BY <1>1 DEF Streams, Silent
  <2> QED BY <2>1, <2>2, <2>3, <2>4, <2>5 DEF Streams
<1>7. ASSUME NEW d \in Cnns \ {c} PROVE Step(d)
  <2>1. Chunks(d, Queued)' = Chunks(d, Queued)
    <3>1. Piece(d, data) = <<>>
      BY DEF Piece
    <3>2. Chunks(d, Queued) = Piece(d, data) \o Chunks(d, Queued)' /\ Chunks(d, Queued)' \in Seq(Chunk)
      BY ChunksDropped
    <3> QED BY <3>1, <3>2, ConcatEmptySeq
  <2>2. Coming(d)' = Coming(d)
    BY <1>3, <2>1, ComingSame
  <2>3. Same(d)
    BY <1>3, <1>4, <2>2 DEF Same
  <2> QED BY <2>3, SameStep
<1> QED BY <1>2, <1>3, <1>6, <1>7

\* What is coming, when an event of c's has left the queue.
LEMMA EventComing ==
  ASSUME TypeOK, TypeOK', NEW c \in Cnns, Queued # <<>>, Queued' = Tail(Queued),
         Unread(c)' = Unread(c)
  PROVE  /\ Coming(c) = Piece(c, Head(Queued)) \o Coming(c)'
         /\ Coming(c)' \in Seq(Chunk) /\ Piece(c, Head(Queued)) \in Seq(Chunk)
<1>1. /\ Chunks(c, Queued) = Piece(c, Head(Queued)) \o Chunks(c, Queued)'
      /\ Chunks(c, Queued)' \in Seq(Chunk) /\ Piece(c, Head(Queued)) \in Seq(Chunk)
  BY ChunksDropped
<1>2. Unread(c) \in Seq(Chunk)
  BY StreamTypes
<1>3. Coming(c) = (Piece(c, Head(Queued)) \o Chunks(c, Queued)') \o Unread(c)
  BY <1>1 DEF Coming
<1>4. Coming(c)' = Chunks(c, Queued)' \o Unread(c)
  BY DEF Coming
<1>5. Coming(c)' \in Seq(Chunk)
  BY <1>1, <1>2, <1>4, ConcatProperties
<1>6. \A x, y, z \in Seq(Chunk) : (x \o y) \o z = x \o (y \o z)
  BY SeqAssociative
<1>7. (Piece(c, Head(Queued)) \o Chunks(c, Queued)') \o Unread(c)
        = Piece(c, Head(Queued)) \o (Chunks(c, Queued)' \o Unread(c))
  BY <1>1, <1>2, <1>6, Zenon
<1> QED BY <1>1, <1>3, <1>4, <1>5, <1>7

LEMMA DataStreaming ==
  ASSUME TypeOK, TypeOK', OwnedInv, Streams, SocksOwned', stolen' = {}, ProcessNetData
  PROVE  Streaming
<1> DEFINE data == Head(net_datas[draining])
<1>1. UNCHANGED <<unread, wire, id2nodes, wait_send, arrived, sent, knocking, phase, net_tasks,
                  net_task_results, in_task, expired, using_idx>>
  BY DEF ProcessNetData, peerVars, loopVars, taskVars
<1>2. /\ phase = "update" /\ draining # None /\ net_datas[draining] # <<>>
      /\ net_datas' = [net_datas EXCEPT ![draining] = Tail(@)]
      /\ HandlerGone(data) \/ OnRecvData(data) \/ OnClose(data) \/ OnAccept(data)
  BY DEF ProcessNetData
<1>3. /\ Queued # <<>> /\ Queued \in Seq(Data) /\ Head(Queued) = data /\ Queued' = Tail(Queued)
  BY <1>1, <1>2, QueuedDrops
<1>4. data \in Data /\ data.cnn \in Cnns
  BY <1>3, DataTypes
<1>5. Socks'
  BY <1>1, <1>2 DEF SocksOwned, Quiet
<1>6. CASE data.act # "accept"
  <2> HIDE DEF data
  <2> PICK c \in Cnns : c = data.cnn
    BY <1>4
  <2>1. UNCHANGED <<sock, new_nodes, asked>>
    BY <1>2, <1>6 DEF HandlerGone, OnRecvData, OnClose, OnAccept
  <2>2. life[c] = "open" /\ (data.act = "close" => Ended(c))
    <3>1. 1 \in DOMAIN Queued /\ Queued[1] = data
      BY <1>3, SeqTail
    <3>2. life[c] = "open"
      BY <3>1 DEF Streams, Events
    <3>3. Queued[1].act = "close" => Ended(Queued[1].cnn)
      BY <3>1 DEF Streams, Events
    <3> QED BY <3>1, <3>2, <3>3
  <2>3. CASE HandlerGone(data)
    <3>1. UNCHANGED <<life, got>> /\ c \in expired
      BY <2>3 DEF HandlerGone
    <3>2. /\ Streams' /\ Going(c)' = Going(c) /\ Ended(c)' = Ended(c) /\ Unread(c)' = Unread(c)
          /\ \A d \in Cnns \ {c} : Step(d)
      BY <1>1, <1>3, <1>4, <1>5, <1>6, <2>1, <3>1, EventStreaming
    <3>3. Contract!IsSuffix(Coming(c)', Coming(c))
      <4>1. /\ Coming(c) = Piece(c, Head(Queued)) \o Coming(c)'
            /\ Coming(c)' \in Seq(Chunk) /\ Piece(c, Head(Queued)) \in Seq(Chunk)
        BY <1>3, <3>2, EventComing
      <4> PICK x \in Seq(Chunk) : x = Coming(c)'
        BY <4>1
      <4> PICK y \in Seq(Chunk) : y = Piece(c, Head(Queued))
        BY <4>1
      <4>2. Contract!IsSuffix(x, y \o x)
        BY SuffixOf
      <4>3. Coming(c) = y \o x
        BY <4>1
      <4>4. Contract!IsSuffix(x, Coming(c))
        BY <4>2, <4>3
      <4> QED BY <4>4
    <3>4. Step(c)
      BY <1>1, <3>1, <3>2, <3>3, DiscardStep
    <3> QED BY <3>2, <3>4 DEF Streaming
  <2>4. CASE OnRecvData(data)
    <3>1. /\ UNCHANGED life /\ c \notin expired /\ data.act = "read" /\ Piece(c, data) = data.chunks
          /\ got'[c] = got[c] \o data.chunks /\ \A d \in Cnns \ {c} : got'[d] = got[d]
      BY <2>4 DEF OnRecvData, TypeOK, Piece
    <3>2. /\ Streams' /\ Going(c)' = Going(c) /\ Ended(c)' = Ended(c) /\ Unread(c)' = Unread(c)
          /\ \A d \in Cnns \ {c} : Step(d)
      BY <1>1, <1>3, <1>4, <1>5, <1>6, <2>1, <3>1, EventStreaming
    <3>3. /\ Coming(c) = data.chunks \o Coming(c)'
          /\ Coming(c)' \in Seq(Chunk) /\ data.chunks \in Seq(Chunk) /\ got[c] \in Seq(Chunk)
      BY <1>3, <3>1, <3>2, EventComing, StreamTypes
    <3>4. PICK p \in Seq(Chunk) : p = data.chunks
      BY <3>3
    <3>5. PICK g \in Seq(Chunk) : g = got[c]
      BY <3>3
    <3>6. PICK x \in Seq(Chunk) : x = Coming(c)'
      BY <3>3
    <3>7. Step(c)
      <4>1. CASE Coming(c) = <<>>
        <5>1. p \o x = <<>>
          BY <3>3, <3>4, <3>6, <4>1
        <5>2. p = <<>> /\ x = <<>>
          BY <5>1, ConcatEqualIffEmpty
        <5>3. got'[c] = got[c]
          BY <3>1, <3>4, <3>5, <5>2, ConcatEmptySeq
        <5>4. Same(c)
          BY <1>1, <3>1, <3>2, <3>6, <4>1, <5>2, <5>3 DEF Same
        <5> QED BY <5>4, SameStep
      <4>2. CASE Coming(c) # <<>>
        <5>1. Contract!IsPrefix(g, g \o p) /\ Contract!Rest(g \o p, g) = p
          BY PrefixOf
        <5>2. got[c] = g /\ got'[c] = g \o p /\ Coming(c) = p \o Coming(c)'
          BY <3>1, <3>3, <3>4, <3>5
        <5>3. Contract!IsPrefix(got[c], got'[c]) /\ Contract!Rest(got'[c], got[c]) = p
          BY <5>1, <5>2
        <5>4. Coming(c) = Contract!Rest(got'[c], got[c]) \o Coming(c)'
          BY <5>2, <5>3
        <5> QED BY <1>1, <2>2, <3>1, <3>2, <4>2, <5>3, <5>4, DeliverStep
      <4> QED BY <4>1, <4>2
    <3> QED BY <3>2, <3>7 DEF Streaming
  <2>5. CASE OnClose(data)
    <3>1. /\ UNCHANGED got /\ c \notin expired /\ data.act = "close" /\ Piece(c, data) = <<>>
          /\ life'[c] = "closed" /\ \A d \in Cnns \ {c} : life'[d] = life[d]
      BY <2>5 DEF OnClose, TypeOK, Piece
    <3>2. /\ Streams' /\ Going(c)' = Going(c) /\ Ended(c)' = Ended(c) /\ Unread(c)' = Unread(c)
          /\ \A d \in Cnns \ {c} : Step(d)
      BY <1>1, <1>3, <1>4, <1>5, <1>6, <2>1, <2>2, <3>1, EventStreaming
    <3>3. Coming(c)' = Coming(c)
      <4>1. Coming(c) = <<>> \o Coming(c)' /\ Coming(c)' \in Seq(Chunk)
        BY <1>3, <3>1, <3>2, EventComing
      <4> QED BY <4>1, ConcatEmptySeq
    <3>4. Coming(c) = <<>>
      <4>1. \A i \in DOMAIN Queued' : Queued'[i].cnn # c
        <5> TAKE i \in DOMAIN Queued'
        <5>1. 1 \in DOMAIN Queued /\ Queued[1] = data /\ i \in Nat /\ i # 0
              /\ i + 1 \in DOMAIN Queued /\ Queued'[i] = Queued[i + 1]
          BY <1>3, SeqTail
        <5>2. 1 < i + 1
          BY <5>1
        <5> QED BY <3>1, <5>1, <5>2 DEF Streams, Events, Orderly
      <4>2. Queued' \in Seq(Data)
        BY <1>3
      <4>3. \A i \in DOMAIN Queued' : Piece(c, Queued'[i]) = <<>>
        BY <4>1 DEF Piece
      <4>4. Chunks(c, Queued)' = <<>>
        BY <4>2, <4>3, ChunksNone, ChunksQueued
      <4>5. Unread(c) = <<>>
        <5>1. \A f \in Fds : sock[f] # c
          BY <2>2, <3>1, ConstantFacts DEF Streams, Socks, Ended, NodeFd
        <5> QED BY <5>1 DEF Unread
      <4>6. Coming(c)' = <<>> \o <<>>
        BY <3>2, <4>4, <4>5 DEF Coming
      <4>7. <<>> \o <<>> = <<>>
        OBVIOUS
      <4> QED BY <3>3, <4>6, <4>7
    <3>5. Step(c)
      BY <1>1, <2>2, <3>1, <3>2, <3>3, <3>4, CloseStep
    <3> QED BY <3>2, <3>5 DEF Streaming
  <2> QED BY <1>2, <1>6, <2>3, <2>4, <2>5 DEF OnAccept
<1>7. CASE data.act = "accept"
  <2>1. data.new \in Cnns /\ data.fd \in Fds
    BY <1>4, <1>7, DataTypes
  <2>2. draining \in {0, 1}
    <3>1. draining = 1 - using_idx
      BY <1>2 DEF TypeOK
    <3> QED BY <3>1, QueuedIs
  <2>3. Accepted(data.new) /\ \A f : AcceptedFd(data.new, f) <=> f = data.fd
    BY <1>2, <1>7, <2>2, DroppedAccept DEF OwnedInv, Places
  <2>4. UNCHANGED got
    BY <1>2, <1>7 DEF HandlerGone, OnRecvData, OnClose, OnAccept
  <2>5. /\ asked \subseteq asked'
        /\ \/ Opened(data.new, data.fd)
           \/ CloseFd(data.new, data.fd) /\ UNCHANGED <<new_nodes, life>>
    BY <1>2, <1>7 DEF HandlerGone, OnRecvData, OnClose, OnAccept
  <2>6. Elsewhere
    <3>1. \A d \in Cnns : Unborn(d)' => Unborn(d)
      BY <1>1, <2>5 DEF Unborn, Asking
    <3> QED BY <1>1, <1>3, <1>7, <2>4, <3>1 DEF Elsewhere, QueueLess
  <2> HIDE DEF data
  <2> PICK c \in Cnns : c = data.new
    BY <2>1
  <2> PICK g \in Fds : g = data.fd
    BY <2>1
  <2>7. life[c] = "none"
    BY <2>3 DEF OwnedInv, Places, Guests
  <2>8. stolen = {}
    <3>1. stolen \subseteq stolen'
      BY <2>5 DEF Opened, CloseFd, CloseFds
    <3> QED BY <3>1
  <2>9. \A f \in Fds : sock[f] = c <=> f = g
    BY <1>2, <2>3, <2>8, Alone DEF OwnedInv, Quiet, Owned
  <2> QED BY <1>5, <2>5, <2>6, <2>7, <2>9, SettledStreaming
<1> QED BY <1>6, <1>7

-----------------------------------------------------------------------------
(* The worker's steps. *)

WorkerStep == UNCHANGED <<moduleVars, arrived, hup, using_idx>>

LEMMA WorkerKeeps ==
  ASSUME WorkerStep
  PROVE  UNCHANGED <<arrived, got, sent, life, asked, net_tasks, closing, phase, hup, using_idx, expired>>
BY DEF WorkerStep, moduleVars, userVars, taskVars

LEMMA NodeSock ==
  ASSUME TypeOK, OwnedInv, Streams, NEW c \in Nodes
  PROVE  /\ c \in Cnns /\ life[c] = "open" /\ new_nodes[c] = None /\ ~Ended(c) /\ ~Unborn(c)
         /\ id2nodes[c].fd \in Fds /\ id2nodes[c].send \in Seq(Chunk)
         /\ \A f \in Fds : sock[f] = c <=> f = id2nodes[c].fd
         /\ Going(c) = id2nodes[c].send \o wait_send[c]
<1>1. c \in Cnns /\ id2nodes[c].fd \in Fds /\ id2nodes[c].send \in Seq(Chunk)
  BY NodeFacts, StreamTypes
<1>2. life[c] = "open" /\ new_nodes[c] = None
  BY <1>1 DEF Streams, Opens, OwnedInv, Places, Given
<1>3. \A f \in Fds : sock[f] = c <=> f = id2nodes[c].fd
  BY <1>1, <1>2, ConstantFacts DEF Streams, Socks, NodeFd
<1>4. ~Unborn(c)
  BY <1>1, <1>3 DEF Streams, Socks
<1>5. ~Ended(c)
  BY DEF Ended
<1> QED BY <1>1, <1>2, <1>3, <1>4, <1>5 DEF Going

LEMMA AddConnStreaming ==
  ASSUME TypeOK, TypeOK', OwnedInv, Streams, UNCHANGED moduleVars, WorkLoop_AddConn
  PROVE  Streaming
<1>1. /\ UNCHANGED <<sock, unread, wire, wait_send, net_datas, knocking>>
      /\ WorkerStep
  BY DEF WorkLoop_AddConn, peerVars, WorkerStep
<1>2. UNCHANGED <<arrived, got, sent, life, asked, net_tasks>>
  BY <1>1, WorkerKeeps
<1>3. \A c \in Cnns : /\ new_nodes'[c] = None
                      /\ new_nodes[c] = None => id2nodes'[c] = id2nodes[c]
                      /\ new_nodes[c] # None => id2nodes'[c] = [fd |-> new_nodes[c], send |-> <<>>]
  BY DEF WorkLoop_AddConn
<1>4. \A c \in Cnns : c \in Nodes' <=> c \in Nodes \/ new_nodes[c] # None
  <2>1. \A c \in Cnns : new_nodes[c] # None => [fd |-> new_nodes[c], send |-> <<>>] # None
    <3>1. \A c \in Cnns : new_nodes[c] # None => new_nodes[c] \in Fds
      BY DEF TypeOK
    <3>2. <<>> \in Seq(Cnns \X Nat)
      OBVIOUS
    <3>3. \A f \in Fds : [fd |-> f, send |-> <<>>] \in [fd : Fds, send : Seq(Cnns \X Nat)]
      BY <3>2
    <3> QED BY <3>1, <3>3, NodeAssumption
  <2> QED BY <1>3, <2>1 DEF Nodes
<1>5. \A c \in Nodes : new_nodes[c] = None /\ id2nodes'[c] = id2nodes[c]
  BY <1>3, NodeFacts DEF OwnedInv, Places, Given
<1>6. \A c \in Cnns : new_nodes[c] # None => id2nodes'[c].fd = new_nodes[c] /\ id2nodes'[c].send = <<>>
  <2> TAKE c \in Cnns
  <2> PICK g : g = new_nodes[c]
    OBVIOUS
  <2>1. [fd |-> g, send |-> <<>>].fd = g /\ [fd |-> g, send |-> <<>>].send = <<>>
    OBVIOUS
  <2>2. g # None => id2nodes'[c] = [fd |-> g, send |-> <<>>]
    BY <1>3
  <2> QED BY <2>1, <2>2
<1>7. \A c \in Cnns : Ended(c)' = Ended(c)
  <2>1. \A c \in Cnns : Ended(c)' <=> Ended(c)
    BY <1>2, <1>3, <1>4 DEF Ended
  <2> QED BY <2>1 DEF Ended
<1>8. \A c \in Cnns : Going(c)' = Going(c)
  BY <1>1, <1>4, <1>5, <1>6 DEF Going
<1>9. \A c \in Cnns : Unborn(c)' <=> Unborn(c)
  BY <1>1, <1>2 DEF Unborn, Asking
<1>10. Queued' = Queued
  BY <1>1, QueuedSame DEF WorkerStep
<1>11. Streams'
  <2>1. Socks'
    <3>1. \A c \in Cnns, f \in Fds : NodeFd(c, f)' <=> new_nodes[c] = f \/ NodeFd(c, f)
      BY <1>3, <1>4, <1>5, <1>6, ConstantFacts DEF NodeFd
    <3>2. \A c \in Cnns, f \in Fds : new_nodes'[c] # f
      BY <1>3, ConstantFacts
    <3>3. \A c \in Cnns, f \in Fds :
            life'[c] # "none" => (sock'[f] = c <=> new_nodes'[c] = f \/ NodeFd(c, f)')
      BY <1>1, <1>2, <3>1, <3>2 DEF Streams, Socks
    <3>4. \A c \in Cnns, f \in Fds : Unborn(c)' => sock'[f] # c
      BY <1>1, <1>9 DEF Streams, Socks
    <3> QED BY <3>3, <3>4 DEF Socks
  <2>2. Fresh'
    BY <1>1, <1>9 DEF Streams, Fresh
  <2>3. Opens'
    BY <1>2, <1>3, <1>4 DEF Streams, Opens
  <2>4. Written'
    BY <1>1, <1>2, <1>3 DEF Streams, Written
  <2>5. Silent'
    BY <1>1, <1>4, <1>5, <1>6, ConstantFacts DEF Streams, Silent
  <2>6. Events'
    BY <1>2, <1>7, <1>10, EventsSame DEF Streams
  <2> QED BY <2>1, <2>2, <2>3, <2>4, <2>5, <2>6 DEF Streams
<1>12. ASSUME NEW c \in Cnns PROVE Step(c)
  <2>1. Coming(c)' = Coming(c)
    BY <1>1, <1>10, ChunksQueued, UnreadSame, ComingSame
  <2>2. Same(c)
    BY <1>1, <1>2, <1>7, <1>8, <2>1 DEF Same
  <2> QED BY <2>2, SameStep
<1> QED BY <1>11, <1>12 DEF Streaming

\* What waits for a connection that the worker does not have is lost.
LEMMA LostStep ==
  ASSUME TypeOK, Streams, NEW c \in Cnns, c \notin Nodes, new_nodes[c] = None,
         Going(c)' = <<>>, Ended(c)' = Ended(c), Coming(c)' = Coming(c),
         UNCHANGED <<life, arrived, got, sent, wire>>
  PROVE  Step(c)
<1>1. wire[c] = <<>> \/ Ended(c)
  BY DEF Streams, Written, Ended
<1> QED BY <1>1, LoseStep

LEMMA SendBuffStreaming ==
  ASSUME TypeOK, TypeOK', OwnedInv, Streams, UNCHANGED moduleVars, WorkLoop_SendBuff
  PROVE  Streaming
<1>1. /\ UNCHANGED <<sock, unread, wire, new_nodes, net_datas, knocking>>
      /\ WorkerStep
  BY DEF WorkLoop_SendBuff, peerVars, WorkerStep
<1>2. UNCHANGED <<arrived, got, sent, life, asked, net_tasks>>
  BY <1>1, WorkerKeeps
<1>3. \A c \in Cnns : wait_send'[c] = <<>>
  BY DEF WorkLoop_SendBuff
<1>4. \A c \in Cnns : ~(c \in Nodes \ Listeners) => id2nodes'[c] = id2nodes[c]
  BY DEF WorkLoop_SendBuff
<1>5. \A c \in Nodes \ Listeners : /\ id2nodes'[c] # None
                                   /\ id2nodes'[c].fd = id2nodes[c].fd
                                   /\ id2nodes'[c].send = id2nodes[c].send \o wait_send[c]
  <2> TAKE c \in Nodes \ Listeners
  <2>1. id2nodes[c] \in [fd : Fds, send : Seq(Cnns \X Nat)] /\ c \in Cnns
    BY NodeFacts
  <2>2. id2nodes'[c] = [id2nodes[c] EXCEPT !.send = @ \o wait_send[c]]
    BY <2>1 DEF WorkLoop_SendBuff
  <2>3. id2nodes[c].send \in Seq(Cnns \X Nat) /\ wait_send[c] \in Seq(Cnns \X Nat)
    BY <2>1 DEF TypeOK
  <2>4. id2nodes[c].send \o wait_send[c] \in Seq(Cnns \X Nat)
    BY <2>3
  <2>5. id2nodes'[c] \in [fd : Fds, send : Seq(Cnns \X Nat)]
    BY <2>1, <2>2, <2>4
  <2> QED BY <2>1, <2>2, <2>5, NodeAssumption
<1>6. UNCHANGED Nodes
  BY <1>4, <1>5 DEF Nodes
<1>7. \A c \in Nodes : id2nodes'[c].fd = id2nodes[c].fd
  BY <1>4, <1>5, NodeFacts
<1>8. \A c \in Cnns : Ended(c)' = Ended(c)
  BY <1>1, <1>2, <1>6, EndedSame
<1>9. \A c \in Cnns : Unborn(c)' <=> Unborn(c)
  BY <1>1, <1>2 DEF Unborn, Asking
<1>10. Queued' = Queued
  BY <1>1, QueuedSame DEF WorkerStep
<1>11. Streams'
  <2>1. Socks'
    BY <1>1, <1>2, <1>6, <1>7, <1>9 DEF Streams, Socks, NodeFd
  <2>2. Fresh'
    BY <1>1, <1>9 DEF Streams, Fresh
  <2>3. Opens' /\ Written'
    BY <1>1, <1>2, <1>6 DEF Streams, Opens, Written
  <2>4. Silent'
    BY <1>1, <1>3, <1>4, <1>6, ConstantFacts DEF Streams, Silent
  <2>5. Events'
    BY <1>2, <1>8, <1>10, EventsSame DEF Streams
  <2> QED BY <2>1, <2>2, <2>3, <2>4, <2>5 DEF Streams
<1>12. ASSUME NEW c \in Cnns PROVE Coming(c)' = Coming(c)
  BY <1>1, <1>10, ChunksQueued, UnreadSame, ComingSame
<1>13. <<>> \o <<>> = <<>>
  OBVIOUS
<1>14. ASSUME NEW c \in Cnns PROVE Step(c)
  <2>1. CASE c \in Nodes
    <3>1. Going(c)' = Going(c)
      <4>1. CASE c \in Listeners
        BY <1>3, <1>4, <1>6, <2>1, <4>1 DEF Going, Streams, Silent
      <4>2. CASE c \notin Listeners
        <5>1. Going(c)' = (id2nodes[c].send \o wait_send[c]) \o <<>>
          BY <1>3, <1>5, <1>6, <2>1, <4>2 DEF Going
        <5>2. id2nodes[c].send \in Seq(Chunk) /\ wait_send[c] \in Seq(Chunk)
          BY <2>1, StreamTypes
        <5>3. (id2nodes[c].send \o wait_send[c]) \o <<>> = id2nodes[c].send \o wait_send[c]
          BY <5>2, ConcatProperties, ConcatEmptySeq
        <5> QED BY <2>1, <5>1, <5>3 DEF Going
      <4> QED BY <4>1, <4>2
    <3>2. Same(c)
      BY <1>1, <1>2, <1>8, <1>12, <3>1 DEF Same
    <3> QED BY <3>2, SameStep
  <2>2. CASE c \notin Nodes /\ new_nodes[c] = None
    <3>1. Going(c)' = <<>>
      BY <1>3, <1>6, <1>13, <2>2 DEF Going
    <3> QED BY <1>1, <1>2, <1>8, <1>12, <2>2, <3>1, LostStep
  <2>3. CASE c \notin Nodes /\ new_nodes[c] # None
    <3>1. Going(c)' = <<>>
      BY <1>3, <1>6, <1>13, <2>3 DEF Going
    <3>2. wire[c] = <<>>
      BY <2>3 DEF Streams, Written
    <3> QED BY <1>1, <1>2, <1>8, <1>12, <3>1, <3>2, LoseStep
  <2> QED BY <2>1, <2>2, <2>3
<1> QED BY <1>11, <1>14 DEF Streaming

LEMMA AcceptStreaming ==
  ASSUME TypeOK, TypeOK', OwnedInv, Streams, WorkerStep, NEW l \in Nodes \cap Listeners, NEW d \in knocking,
         UNCHANGED <<new_nodes, id2nodes, unread, wire, wait_send>>,
         FreeFds # {}, OpenFd(d), knocking' = knocking \ {d},
         AddNetworkDatas(<<AcceptData(l, d, Min(FreeFds))>>)
  PROVE  Streaming
<1>1. UNCHANGED <<arrived, got, sent, life, asked, net_tasks, using_idx>>
  BY WorkerKeeps
<1>2. /\ d \in Cnns /\ life[d] = "none" /\ d \in asked /\ ~Asking(d)
  <2>1. d \in Cnns /\ d \notin Askable
    BY ConstantFacts DEF TypeOK
  <2>2. ~Asking(d)
    <3>1. net_tasks \in Seq(Askable)
      BY DEF TypeOK
    <3>2. \A i \in DOMAIN net_tasks : net_tasks[i] \in Askable
      BY <3>1, SeqFacts
    <3> QED BY <2>1, <3>2 DEF Asking
  <2> QED BY <2>1, <2>2 DEF OwnedInv, Places, Guests
<1> DEFINE datas == <<AcceptData(l, d, Min(FreeFds))>>
<1>3. /\ datas \in Seq(Data) /\ DOMAIN datas = {1}
      /\ datas[1].act = "accept" /\ datas[1].cnn = l
  <2>1. AcceptData(l, d, Min(FreeFds)) \in Data
    BY <1>2, FreeFd, DataTypes
  <2>2. AcceptData(l, d, Min(FreeFds)).act = "accept" /\ AcceptData(l, d, Min(FreeFds)).cnn = l
    BY DEF AcceptData
  <2> QED BY <2>1, <2>2
<1>4. Queued' = Queued \o datas
  BY <1>1, <1>3, QueuedAdds
<1> HIDE DEF datas
<1>5. UNCHANGED Nodes
  BY DEF Nodes
<1>6. \A c \in Cnns : Ended(c)' = Ended(c) /\ Going(c)' = Going(c)
  BY <1>1, <1>5, EndedSame, GoingSame
<1>7. \A c \in Cnns : Chunks(c, Queued)' = Chunks(c, Queued)
  BY <1>3, <1>4, ChunksSame DEF Piece
<1>8. Unborn(d) /\ \A c \in Cnns : Unborn(c)' => Unborn(c) /\ c # d
  BY <1>1, <1>2 DEF Unborn, Asking
<1>9. \A f \in Fds, c \in Cnns : sock'[f] = c <=> sock[f] = c \/ (c = d /\ f = Min(FreeFds))
  BY <1>2, OpenedFd
<1>10. Streams'
  <2>1. Socks'
    <3>1. \A c \in Cnns, f \in Fds : NodeFd(c, f)' <=> NodeFd(c, f)
      BY <1>5 DEF NodeFd
    <3>2. \A c \in Cnns : life'[c] # "none" => c # d
      BY <1>1, <1>2
    <3> QED BY <1>1, <1>8, <1>9, <3>1, <3>2 DEF Streams, Socks
  <2>2. Fresh'
    BY <1>8 DEF Streams, Fresh
  <2>3. Opens' /\ Written' /\ Silent'
    BY <1>1, <1>5 DEF Streams, Opens, Written, Silent
  <2>4. Events'
    <3>1. Orderly(datas)
      BY <1>3 DEF Orderly
    <3>2. life[l] = "open" /\ ~Ended(l)
      BY NodeSock
    <3> QED BY <1>1, <1>3, <1>4, <1>6, <3>1, <3>2, EventsAdded DEF Streams
  <2> QED BY <2>1, <2>2, <2>3, <2>4 DEF Streams
<1>11. ASSUME NEW c \in Cnns PROVE Step(c)
  <2>1. Unread(c)' = Unread(c)
    BY <1>2, <1>8, OpenedUnread
  <2>2. Coming(c)' = Coming(c)
    BY <1>7, <2>1, ComingSame
  <2>3. Same(c)
    BY <1>1, <1>6, <2>2 DEF Same
  <2> QED BY <2>3, SameStep
<1> QED BY <1>10, <1>11 DEF Streaming

-----------------------------------------------------------------------------
(* The worker ends connections. *)

LEMMA SetToSeqOnce ==
  ASSUME NEW S, IsFiniteSet(S)
  PROVE  \A i, j \in DOMAIN SetToSeq(S) : SetToSeq(S)[i] = SetToSeq(S)[j] => i = j
<1> DEFINE n == Cardinality(S)
<1>1. n \in Nat /\ ExistsBijection(1..n, S)
  BY FS_CardinalityType
<1>2. PICK g \in [1..n -> S] : IsInjective(g)
  BY <1>1 DEF ExistsBijection, Bijection, Injection, IsInjective
<1>3. IsInjective(SetToSeq(S))
  BY <1>2 DEF SetToSeq
<1> QED BY <1>3 DEF IsInjective

\* The nodes of gone end and close their sockets; the events say so, each
\* connection's last.
LEMMA EndsStreaming ==
  ASSUME TypeOK, OwnedInv, Streams, WorkerStep, stolen' = {}, NEW gone \in SUBSET Nodes,
         id2nodes' = [c \in Cnns |-> IF c \in gone THEN None ELSE id2nodes[c]],
         CloseFds({<<c, id2nodes[c].fd>> : c \in gone}),
         NEW datas \in Seq(Data), AddNetworkDatas(datas), Orderly(datas),
         \A i \in DOMAIN datas : datas[i].cnn \in gone /\ datas[i].act # "accept",
         UNCHANGED <<new_nodes, wire, knocking>>,
         \A c \in Cnns \ gone : unread'[c] = unread[c],
         \A c \in Cnns : wait_send'[c] = wait_send[c] \/ wait_send'[c] = <<>>
  PROVE  /\ Streams' /\ Queued' = Queued \o datas
         /\ \A c \in gone : Ended(c)' /\ Unread(c)' = <<>> /\ Going(c)' = wait_send'[c]
         /\ \A c \in Cnns \ gone : /\ Ended(c)' = Ended(c) /\ Coming(c)' = Coming(c)
                                   /\ c \in Nodes' <=> c \in Nodes
                                   /\ id2nodes'[c] = id2nodes[c]
<1>1. UNCHANGED <<arrived, got, sent, life, asked, net_tasks, using_idx>>
  BY WorkerKeeps
<1>2. gone \subseteq Cnns /\ \A c \in gone : c \in Nodes
  BY NodeFacts
<1>3. \A c \in gone : /\ life[c] = "open" /\ new_nodes[c] = None /\ ~Ended(c) /\ ~Unborn(c)
                      /\ \A f \in Fds : sock[f] = c <=> f = id2nodes[c].fd
  BY <1>2, NodeSock
<1>4. /\ \A c \in Cnns : c \in Nodes' <=> c \in Nodes /\ c \notin gone
      /\ \A c \in Cnns \ gone : id2nodes'[c] = id2nodes[c]
  BY DEF Nodes
<1>5. \A f \in Fds, d \in Cnns : sock'[f] = d <=> sock[f] = d /\ d \notin gone
  <2> DEFINE pairs == {<<c, id2nodes[c].fd>> : c \in gone}
  <2>1. /\ \A f \in Fds, c \in Cnns :
             sock'[f] = c <=> sock[f] = c /\ ~\E p \in pairs : p[2] = f
    BY NotStolen
  <2>2. \A f : (\E p \in pairs : p[2] = f) <=> \E c \in gone : id2nodes[c].fd = f
    <3>1. \A p \in pairs : \E c \in gone : p[2] = id2nodes[c].fd
      OBVIOUS
    <3>2. \A c \in gone : <<c, id2nodes[c].fd>> \in pairs
      OBVIOUS
    <3>3. \A c, g : <<c, g>>[2] = g
      OBVIOUS
    <3>4. \A c \in gone : \E p \in pairs : p[2] = id2nodes[c].fd
      <4> TAKE c \in gone
      <4> PICK p : p = <<c, id2nodes[c].fd>>
        OBVIOUS
      <4> QED BY <3>2, <3>3
    <3> HIDE DEF pairs
    <3> QED BY <3>1, <3>4
  <2> HIDE DEF pairs
  <2> TAKE f \in Fds, d \in Cnns
  <2>3. sock[f] = d => ((\E c \in gone : id2nodes[c].fd = f) <=> d \in gone)
    BY <1>2, <1>3
  <2> QED BY <2>1, <2>2, <2>3
<1>6. Queued' = Queued \o datas
  BY <1>1, QueuedAdds
<1>7. ASSUME NEW c \in gone PROVE Ended(c)' /\ Unread(c)' = <<>> /\ Going(c)' = wait_send'[c]
  <2>1. Ended(c)' 
    BY <1>1, <1>2, <1>3, <1>4 DEF Ended
  <2>2. Unread(c)' = <<>>
    BY <1>2, <1>5 DEF Unread
  <2>3. Going(c)' = <<>> \o wait_send'[c]
    BY <1>2, <1>4 DEF Going
  <2>4. wait_send'[c] \in Seq(Chunk)
    <3>1. wait_send[c] \in Seq(Chunk) /\ <<>> \in Seq(Chunk)
      BY <1>2, StreamTypes
    <3> QED BY <1>2, <3>1
  <2> QED BY <2>1, <2>2, <2>3, <2>4, ConcatEmptySeq
<1>8. ASSUME NEW c \in Cnns \ gone PROVE Ended(c)' = Ended(c) /\ Coming(c)' = Coming(c)
  <2>1. Ended(c)' = Ended(c)
    BY <1>1, <1>4, EndedSame
  <2>2. Unread(c)' = Unread(c)
    BY <1>5, UnreadSame
  <2>3. \A i \in DOMAIN datas : Piece(c, datas[i]) = <<>>
    BY DEF Piece
  <2>4. Chunks(c, Queued)' = Chunks(c, Queued)
    BY <1>6, <2>3, ChunksSame
  <2> QED BY <2>1, <2>2, <2>4, ComingSame
<1>9. \A c \in Cnns : Unborn(c)' <=> Unborn(c)
  BY <1>1 DEF Unborn, Asking
<1>10. Streams'
  <2>1. Socks'
    <3>1. \A c \in Cnns, f \in Fds : NodeFd(c, f)' <=> NodeFd(c, f) /\ c \notin gone
      BY <1>4 DEF NodeFd
    <3>2. \A c \in gone, f \in Fds : new_nodes[c] # f
      BY <1>3, ConstantFacts
    <3> QED BY <1>1, <1>5, <1>9, <3>1, <3>2 DEF Streams, Socks
  <2>2. Fresh'
    BY <1>3, <1>9 DEF Streams, Fresh
  <2>3. Opens' /\ Written'
    BY <1>1, <1>4 DEF Streams, Opens, Written
  <2>4. Silent'
    BY <1>1, <1>4, ConstantFacts DEF Streams, Silent
  <2>5. Events'
    <3>1. \A c \in Cnns : Ended(c) => Ended(c)'
      BY <1>3, <1>7, <1>8
    <3>2. \A i \in DOMAIN datas : /\ life[datas[i].cnn] = "open" /\ ~Ended(datas[i].cnn)
                                  /\ datas[i].act = "close" => Ended(datas[i].cnn)'
      <4> TAKE i \in DOMAIN datas
      <4> PICK c \in gone : c = datas[i].cnn
        OBVIOUS
      <4>1. Ended(c)'
        BY <1>7
      <4>2. Ended(datas[i].cnn)'
        BY <4>1 DEF Ended
      <4> QED BY <1>3, <4>2
    <3> QED BY <1>1, <1>6, <3>1, <3>2, EventsAdded DEF Streams
  <2> QED BY <2>1, <2>2, <2>3, <2>4, <2>5 DEF Streams
<1> QED BY <1>4, <1>6, <1>7, <1>8, <1>10

LEMMA PrefixOfConcat ==
  \A a, p, r \in Seq(Chunk) : Contract!IsPrefix(a \o p, a \o (p \o r))
<1> TAKE a, p, r \in Seq(Chunk)
<1>1. (a \o p) \o r = a \o (p \o r)
  BY SeqAssociative
<1>2. a \o p \in Seq(Chunk)
  BY ConcatProperties
<1>3. Contract!IsPrefix(a \o p, (a \o p) \o r)
  BY <1>2, PrefixOf
<1> QED BY <1>1, <1>3

\* One connection ends because its peer has closed; what was read goes before.
LEMMA NetErrorStreaming ==
  ASSUME TypeOK, TypeOK', OwnedInv, Streams, WorkerStep, stolen' = {},
         NEW f \in Fds, NEW c \in NodesByFd(f), c \in hup,
         NEW datas \in Seq(Data), HandleNetError(c, f, datas),
         \A i \in DOMAIN datas : datas[i].cnn = c /\ datas[i].act = "read",
         \E r \in Seq(Chunk) : unread[c] = Chunks(c, datas) \o r,
         UNCHANGED <<new_nodes, wire, knocking, wait_send>>,
         \A d \in Cnns \ {c} : unread'[d] = unread[d]
  PROVE  Streaming
<1> DEFINE all == datas \o <<CloseData(c)>>
<1>1. c \in Nodes /\ c \in Cnns /\ id2nodes[c].fd = f
  BY NodeFacts
<1>2. CloseData(c) \in Data /\ CloseData(c).act = "close" /\ CloseData(c).cnn = c
  BY <1>1, DataTypes DEF CloseData
<1>3. /\ all \in Seq(Data)
      /\ \A i \in DOMAIN all : all[i].cnn = c /\ all[i].act # "accept"
      /\ Orderly(all)
  <2>1. DOMAIN datas = 1..Len(datas) /\ Len(datas) \in Nat
    OBVIOUS
  <2>2. all \in Seq(Data) /\ Len(all) = Len(datas) + 1 /\ DOMAIN all = 1..(Len(datas) + 1)
    BY <1>2
  <2>3. \A i \in 1..(Len(datas) + 1) :
          all[i] = IF i <= Len(datas) THEN datas[i] ELSE CloseData(c)
    BY <1>2
  <2> HIDE DEF all
  <2>4. \A i \in DOMAIN all : all[i].cnn = c /\ all[i].act # "accept"
    BY <1>2, <2>1, <2>2, <2>3
  <2>5. \A i, j \in DOMAIN all : i < j => all[i].act # "close"
    <3>1. \A i, j \in DOMAIN all : i < j => i \in DOMAIN datas /\ i <= Len(datas)
      BY <2>1, <2>2
    <3> QED BY <2>2, <2>3, <3>1
  <2> QED BY <2>2, <2>4, <2>5 DEF Orderly
<1>4. Chunks(c, all) = Chunks(c, datas)
  <2>1. <<CloseData(c)>> \in Seq(Data)
    BY <1>2
  <2>2. Chunks(c, all) = Chunks(c, datas) \o Chunks(c, <<CloseData(c)>>)
    BY <2>1, ChunksConcat
  <2>3. Chunks(c, <<CloseData(c)>>) = <<>>
    BY <1>2, ChunksOne DEF Piece
  <2>4. PICK s \in Seq(Chunk) : s = Chunks(c, datas)
    BY ChunksType
  <2>5. s \o <<>> = s
    BY ConcatEmptySeq
  <2> QED BY <2>2, <2>3, <2>4, <2>5
<1> HIDE DEF all
<1>5. AddNetworkDatas(all)
  BY DEF HandleNetError, all
<1>6. {c} \in SUBSET Nodes
      /\ id2nodes' = [d \in Cnns |-> IF d \in {c} THEN None ELSE id2nodes[d]]
  BY <1>1 DEF HandleNetError, TypeOK
<1>7. CloseFds({<<d, id2nodes[d].fd>> : d \in {c}})
  <2>1. {<<d, id2nodes[d].fd>> : d \in {c}} = {<<c, f>>}
    BY <1>1
  <2> QED BY <2>1 DEF HandleNetError, CloseFd
<1>8. /\ Streams' /\ Queued' = Queued \o all
      /\ \A d \in {c} : Ended(d)' /\ Unread(d)' = <<>> /\ Going(d)' = wait_send'[d]
      /\ \A d \in Cnns \ {c} : /\ Ended(d)' = Ended(d) /\ Coming(d)' = Coming(d)
                               /\ d \in Nodes' <=> d \in Nodes
                               /\ id2nodes'[d] = id2nodes[d]
  BY <1>1, <1>3, <1>5, <1>6, <1>7, EndsStreaming
<1>9. Ended(c)' /\ Unread(c)' = <<>> /\ Going(c)' = wait_send[c]
  BY <1>8
<1>10. UNCHANGED <<arrived, got, sent, life, hup>>
  BY WorkerKeeps
<1>11. Step(c)
  <2>1. ~Ended(c) /\ Going(c) = id2nodes[c].send \o wait_send[c] /\ id2nodes[c].send \in Seq(Chunk)
        /\ sock[f] = c
    BY <1>1, NodeSock
  <2>2. Contract!IsSuffix(Going(c)', Going(c))
    <3>1. wait_send[c] \in Seq(Chunk)
      BY <1>1, StreamTypes
    <3>2. Contract!IsSuffix(wait_send[c], id2nodes[c].send \o wait_send[c])
      BY <2>1, <3>1, SuffixOf
    <3> QED BY <1>9, <2>1, <3>2
  <2>3. Contract!IsPrefix(Coming(c)', Coming(c))
    <3> PICK q \in Seq(Data) : q = Queued
      BY QueuedIs
    <3> PICK a \in Seq(Chunk) : a = Chunks(c, q)
      BY ChunksType
    <3> PICK p \in Seq(Chunk) : p = Chunks(c, datas)
      BY ChunksType
    <3> PICK u \in Seq(Chunk) : u = unread[c]
      BY <1>1, StreamTypes
    <3>1. Chunks(c, Queued)' = a \o p
      BY <1>3, <1>4, <1>8, ChunksConcat, ChunksQueued
    <3>2. Unread(c) = u
      BY <2>1 DEF Unread
    <3>3. Coming(c) = a \o u
      BY <3>2 DEF Coming
    <3>4. a \o p \in Seq(Chunk)
      BY ConcatProperties
    <3>5. Coming(c)' = a \o p
      BY <1>9, <3>1, <3>4, ConcatEmptySeq DEF Coming
    <3>6. PICK r \in Seq(Chunk) : u = p \o r
      OBVIOUS
    <3>7. Contract!IsPrefix(a \o p, a \o (p \o r))
      BY <3>6, PrefixOfConcat
    <3>8. Contract!IsPrefix(Coming(c)', a \o u)
      BY <3>5, <3>6, <3>7
    <3> QED BY <3>3, <3>8
  <2> QED BY <1>1, <1>9, <1>10, <2>1, <2>2, <2>3, EndStep
<1>12. ASSUME NEW d \in Cnns \ {c} PROVE Step(d)
  <2>1. Going(d)' = Going(d)
    BY <1>8, GoingSame
  <2>2. Same(d)
    BY <1>8, <1>10, <2>1 DEF Same
  <2> QED BY <2>2, SameStep
<1> QED BY <1>8, <1>11, <1>12 DEF Streaming

\* The socket is that of the node: Read leaves nothing in it.
LEMMA ReadStreaming ==
  ASSUME TypeOK, TypeOK', OwnedInv, Streams, WorkerStep, stolen' = {},
         NEW f \in Fds, NEW c \in NodesByFd(f), ReadConnect(c, f),
         UNCHANGED <<new_nodes, wait_send>>
  PROVE  Streaming
<1>1. /\ c \in Nodes /\ c \in Cnns /\ life[c] = "open" /\ ~Ended(c) /\ ~Unborn(c)
      /\ sock[f] = c /\ c # None
  <2>1. c \in Nodes /\ id2nodes[c].fd = f
    BY NodeFacts
  <2>2. /\ c \in Cnns /\ life[c] = "open" /\ new_nodes[c] = None /\ ~Ended(c) /\ ~Unborn(c)
        /\ id2nodes[c].send \in Seq(Chunk)
        /\ \A g \in Fds : sock[g] = c <=> g = id2nodes[c].fd
        /\ Going(c) = id2nodes[c].send \o wait_send[c]
    BY <2>1, NodeSock
  <2>3. sock[f] = c /\ c # None
    BY <2>1, <2>2, ConstantFacts
  <2> QED BY <2>1, <2>2, <2>3
<1> DEFINE datas == IF unread[c] = <<>> THEN <<>> ELSE <<ReadData(c, unread[c])>>
<1>2. /\ \A x \in Cnns : unread'[x] = IF x = c THEN <<>> ELSE unread[x]
      /\ IF c \in hup THEN HandleNetError(c, f, datas)
                     ELSE AddNetworkDatas(datas) /\ UNCHANGED <<sock, stolen, id2nodes>>
      /\ UNCHANGED <<knocking, wire>>
  BY <1>1 DEF ReadConnect
<1>3. unread[c] \in Seq(Cnns \X Nat) /\ unread[c] \in Seq(Chunk)
  BY <1>1 DEF TypeOK, Chunk
<1>4. /\ ReadData(c, unread[c]) \in Data /\ ReadData(c, unread[c]).act = "read"
      /\ ReadData(c, unread[c]).cnn = c /\ ReadData(c, unread[c]).chunks = unread[c]
  BY <1>1, <1>3, DataTypes DEF ReadData
<1>5. /\ datas \in Seq(Data)
      /\ \A i \in DOMAIN datas : datas[i].cnn = c /\ datas[i].act = "read"
      /\ \A i, j \in DOMAIN datas : ~(i < j)
  BY <1>4
<1>6. Chunks(c, datas) = unread[c]
  <2>1. CASE unread[c] = <<>>
    <3>1. datas = <<>> /\ <<>> \in Seq(Data) /\ DOMAIN <<>> = {}
      BY <2>1
    <3> QED BY <2>1, <3>1, ChunksNone
  <2>2. CASE unread[c] # <<>>
    <3>1. datas = <<ReadData(c, unread[c])>>
      BY <2>2
    <3>2. Piece(c, ReadData(c, unread[c])) = unread[c]
      BY <1>4 DEF Piece
    <3> QED BY <1>4, <3>1, <3>2, ChunksOne
  <2> QED BY <2>1, <2>2
<1> HIDE DEF datas
<1>7. CASE c \in hup
  <2>1. \E r \in Seq(Chunk) : unread[c] = Chunks(c, datas) \o r
    <3>1. <<>> \in Seq(Chunk) /\ unread[c] = unread[c] \o <<>>
      BY <1>3, ConcatEmptySeq
    <3> QED BY <1>6, <3>1
  <2> QED BY <1>2, <1>5, <1>7, <2>1, NetErrorStreaming
<1>8. CASE c \notin hup
  <2>1. AddNetworkDatas(datas) /\ UNCHANGED <<sock, stolen, id2nodes>>
    BY <1>2, <1>8
  <2>2. UNCHANGED <<arrived, got, sent, life, asked, net_tasks, using_idx>>
    BY WorkerKeeps
  <2>3. Queued' = Queued \o datas
    BY <1>5, <2>1, <2>2, QueuedAdds
  <2>4. UNCHANGED Nodes
    BY <2>1 DEF Nodes
  <2>5. \A d \in Cnns : Ended(d)' = Ended(d) /\ Going(d)' = Going(d)
    BY <2>1, <2>2, <2>4, EndedSame, GoingSame
  <2>6. \A d \in Cnns : Unborn(d)' <=> Unborn(d)
    BY <1>2, <2>2 DEF Unborn, Asking
  <2>7. Streams'
    <3>1. Socks'
      BY <2>1, <2>2, <2>4, <2>6 DEF Streams, Socks, NodeFd
    <3>2. Fresh'
      BY <1>2, <2>6 DEF Streams, Fresh
    <3>3. Opens' /\ Written' /\ Silent'
      BY <1>2, <2>1, <2>2, <2>4 DEF Streams, Opens, Written, Silent
    <3>4. Events'
      <4>1. Orderly(datas)
        BY <1>5 DEF Orderly
      <4> QED BY <1>1, <1>5, <2>2, <2>3, <2>5, <4>1, EventsAdded DEF Streams
    <3> QED BY <3>1, <3>2, <3>3, <3>4 DEF Streams
  <2>8. ASSUME NEW d \in Cnns PROVE Coming(d)' = Coming(d)
    <3>1. CASE d # c
      <4>1. Chunks(d, Queued)' = Chunks(d, Queued)
        BY <1>5, <2>3, <3>1, ChunksSame DEF Piece
      <4>2. Unread(d)' = Unread(d)
        BY <1>2, <2>1, <3>1, UnreadSame
      <4> QED BY <4>1, <4>2, ComingSame
    <3>2. CASE d = c
      <4> PICK q \in Seq(Data) : q = Queued
        BY QueuedIs
      <4> PICK a \in Seq(Chunk) : a = Chunks(c, q)
        BY ChunksType
      <4> PICK u \in Seq(Chunk) : u = unread[c]
        BY <1>3
      <4>1. Chunks(c, Queued)' = a \o u
        <5>1. Chunks(c, q \o datas) = Chunks(c, q) \o Chunks(c, datas)
          BY <1>5, ChunksConcat
        <5>2. Chunks(c, Queued)' = Chunks(c, q \o datas)
          BY <1>1, <2>3, ChunksQueued
        <5> QED BY <1>6, <5>1, <5>2
      <4>2. Unread(c) = u /\ Unread(c)' = <<>>
        BY <1>1, <1>2 DEF Unread
      <4>3. Coming(c) = a \o u
        BY <4>2 DEF Coming
      <4>4. Coming(c)' = (a \o u) \o <<>>
        BY <4>1, <4>2 DEF Coming
      <4>5. (a \o u) \o <<>> = a \o u
        BY ConcatProperties, ConcatEmptySeq
      <4> QED BY <3>2, <4>3, <4>4, <4>5
    <3> QED BY <3>1, <3>2
  <2>9. ASSUME NEW d \in Cnns PROVE Step(d)
    <3>1. Same(d)
      BY <1>2, <2>2, <2>5, <2>8 DEF Same
    <3> QED BY <3>1, SameStep
  <2> QED BY <2>7, <2>9 DEF Streaming
<1> QED BY <1>7, <1>8

LEMMA ReadListenStreaming ==
  ASSUME TypeOK, TypeOK', OwnedInv, Streams, WorkerStep, NEW f \in Fds, NEW c \in NodesByFd(f),
         ReadListen(c, f), UNCHANGED <<new_nodes, wait_send>>
  PROVE  Streaming
<1>1. c \in Nodes \cap Listeners
  BY NodeFacts DEF ReadListen
<1>2. UNCHANGED <<unread, wire, id2nodes>>
  BY DEF ReadListen
<1>3. CASE sock[f] = c /\ knocking # {} /\ FreeFds # {}
  <2>1. PICK d \in knocking :
          /\ knocking' = knocking \ {d}
          /\ OpenFd(d)
          /\ AddNetworkDatas(<<AcceptData(c, d, Min(FreeFds))>>)
    BY <1>3 DEF ReadListen
  <2> QED BY <1>1, <1>2, <1>3, <2>1, AcceptStreaming
<1>4. CASE ~(sock[f] = c /\ knocking # {} /\ FreeFds # {})
  <2>1. UNCHANGED <<knocking, sock, net_datas>>
    BY <1>4 DEF ReadListen
  <2>2. UNCHANGED <<arrived, got, sent, life, asked, net_tasks, using_idx>>
    BY WorkerKeeps
  <2>3. \A d \in Cnns : Unborn(d)' => Unborn(d)
    BY <2>1, <2>2 DEF Unborn, Asking
  <2>4. StillData
    BY <1>2, <2>1, <2>2, <2>3, QueuedSame DEF StillData
  <2> QED BY <2>2, <2>4, StillStreaming
<1> QED BY <1>3, <1>4

LEMMA WriteStreaming ==
  ASSUME TypeOK, TypeOK', OwnedInv, Streams, WorkerStep, stolen' = {}, NEW f \in Fds, NEW c \in NodesByFd(f),
         WriteNode(c, f), UNCHANGED <<new_nodes, wait_send>>
  PROVE  Streaming
<1>1. /\ c \in Nodes /\ c \in Cnns /\ life[c] = "open" /\ new_nodes[c] = None /\ ~Ended(c)
      /\ sock[f] = c /\ c # None /\ id2nodes[c].send \in Seq(Chunk)
      /\ Going(c) = id2nodes[c].send \o wait_send[c]
  <2>1. c \in Nodes /\ id2nodes[c].fd = f
    BY NodeFacts
  <2>2. /\ c \in Cnns /\ life[c] = "open" /\ new_nodes[c] = None /\ ~Ended(c) /\ ~Unborn(c)
        /\ id2nodes[c].send \in Seq(Chunk)
        /\ \A g \in Fds : sock[g] = c <=> g = id2nodes[c].fd
        /\ Going(c) = id2nodes[c].send \o wait_send[c]
    BY <2>1, NodeSock
  <2>3. sock[f] = c /\ c # None
    BY <2>1, <2>2, ConstantFacts
  <2> QED BY <2>1, <2>2, <2>3
<1>2. UNCHANGED <<unread, knocking>> /\ UNCHANGED <<arrived, got, sent, life, asked, net_tasks, using_idx>>
  BY WorkerKeeps DEF WriteNode
<1>3. ASSUME /\ wire' = [x \in Cnns |-> IF x = sock[f] /\ c \notin Listeners
                                     THEN wire[x] \o id2nodes[c].send ELSE wire[x]]
             /\ id2nodes' = [id2nodes EXCEPT ![c].send = <<>>]
             /\ UNCHANGED <<sock, stolen, net_datas>>
      PROVE  Streaming
  <2>1. /\ id2nodes'[c] # None /\ id2nodes'[c].fd = id2nodes[c].fd /\ id2nodes'[c].send = <<>>
        /\ \A d \in Cnns \ {c} : id2nodes'[d] = id2nodes[d]
    <3>1. id2nodes[c] \in [fd : Fds, send : Seq(Cnns \X Nat)] /\ <<>> \in Seq(Cnns \X Nat)
      BY <1>1, NodeFacts
    <3>2. id2nodes'[c] = [id2nodes[c] EXCEPT !.send = <<>>]
      BY <1>1, <1>3 DEF TypeOK
    <3>3. id2nodes'[c] \in [fd : Fds, send : Seq(Cnns \X Nat)]
      BY <3>1, <3>2
    <3>4. \A d \in Cnns \ {c} : id2nodes'[d] = id2nodes[d]
      BY <1>3 DEF TypeOK
    <3> QED BY <3>1, <3>2, <3>3, <3>4, NodeAssumption
  <2>2. UNCHANGED Nodes
    BY <1>1, <2>1 DEF Nodes
  <2>3. \A d \in Cnns : Ended(d)' = Ended(d)
    BY <1>2, <2>2, EndedSame
  <2>4. \A d \in Cnns \ {c} : Going(d)' = Going(d) /\ wire'[d] = wire[d]
    BY <1>1, <1>3, <2>1, <2>2, GoingSame
  <2>5. wire'[c] = IF c \in Listeners THEN wire[c] ELSE wire[c] \o id2nodes[c].send
    BY <1>1, <1>3
  <2>6. Queued' = Queued
    BY <1>2, <1>3, QueuedSame
  <2>7. \A d \in Cnns : Coming(d)' = Coming(d)
    BY <1>2, <1>3, <2>6, ChunksQueued, UnreadSame, ComingSame
  <2>8. \A d \in Cnns : Unborn(d)' <=> Unborn(d)
    BY <1>2 DEF Unborn, Asking
  <2>9. Streams'
    <3>1. Socks'
      <4>1. \A d \in Cnns, g \in Fds : NodeFd(d, g)' <=> NodeFd(d, g)
        BY <2>1, <2>2 DEF NodeFd
      <4> QED BY <1>2, <1>3, <2>8, <4>1 DEF Streams, Socks
    <3>2. Fresh' /\ Opens'
      BY <1>2, <2>2, <2>8 DEF Streams, Fresh, Opens
    <3>3. Written'
      BY <1>1, <1>2, <2>4 DEF Streams, Written
    <3>4. Silent'
      BY <2>1, <2>2, <2>4, <2>5, ConstantFacts DEF Streams, Silent
    <3>5. Events'
      BY <1>2, <2>3, <2>6, EventsSame DEF Streams
    <3> QED BY <3>1, <3>2, <3>3, <3>4, <3>5 DEF Streams
  <2>10. Step(c)
    <3>1. Going(c)' = wait_send[c]
      <4>1. Going(c)' = <<>> \o wait_send[c]
        BY <1>1, <2>1, <2>2 DEF Going
      <4> QED BY <1>1, <4>1, StreamTypes, ConcatEmptySeq
    <3>2. CASE c \in Listeners
      <4>1. id2nodes[c].send = <<>>
        BY <1>1, <3>2 DEF Streams, Silent
      <4>2. Going(c)' = Going(c)
        BY <1>1, <2>1, <2>2, <4>1, GoingSame
      <4>3. Same(c)
        BY <1>1, <1>2, <2>3, <2>5, <2>7, <3>2, <4>2 DEF Same
      <4> QED BY <1>1, <4>3, SameStep
    <3>3. CASE c \notin Listeners
      <4> PICK w \in Seq(Chunk) : w = wire[c]
        BY <1>1, StreamTypes
      <4> PICK s \in Seq(Chunk) : s = id2nodes[c].send
        BY <1>1
      <4>1. Contract!IsPrefix(w, w \o s) /\ Contract!Rest(w \o s, w) = s
        BY PrefixOf
      <4>2. wire[c] = w /\ wire'[c] = w \o s /\ Going(c) = s \o Going(c)'
        BY <1>1, <2>5, <3>1, <3>3
      <4>3. Contract!IsPrefix(wire[c], wire'[c]) /\ Contract!Rest(wire'[c], wire[c]) = s
        BY <4>1, <4>2
      <4>4. Going(c) = Contract!Rest(wire'[c], wire[c]) \o Going(c)'
        BY <4>2, <4>3
      <4>5. ~Ended(c)'
        BY <1>1, <2>3
      <4> QED BY <1>1, <1>2, <2>7, <4>3, <4>4, <4>5, TransmitStep
    <3> QED BY <3>2, <3>3
  <2>11. ASSUME NEW d \in Cnns \ {c} PROVE Step(d)
    <3>1. Same(d)
      BY <1>2, <2>3, <2>4, <2>7 DEF Same
    <3> QED BY <3>1, SameStep
  <2> QED BY <2>9, <2>10, <2>11 DEF Streaming
<1>4. ASSUME sock[f] = None \/ sock[f] \in hup, HandleNetError(c, f, <<>>), UNCHANGED wire
      PROVE  Streaming
  <2>1. c \in hup
    BY <1>1, <1>4
  <2>2. <<>> \in Seq(Data) /\ DOMAIN <<>> = {}
    OBVIOUS
  <2>3. Chunks(c, <<>>) = <<>>
    BY <2>2, ChunksNone
  <2>4. \E r \in Seq(Chunk) : unread[c] = Chunks(c, <<>>) \o r
    <3>1. unread[c] \in Seq(Chunk) /\ unread[c] = <<>> \o unread[c]
      BY <1>1, StreamTypes, ConcatEmptySeq
    <3> QED BY <2>3, <3>1
  <2> QED BY <1>2, <1>4, <2>1, <2>2, <2>4, NetErrorStreaming
<1> QED BY <1>3, <1>4 DEF WriteNode

LEMMA RemoveConnStreaming ==
  ASSUME TypeOK, TypeOK', OwnedInv, Control, Streams, UNCHANGED moduleVars, stolen' = {},
         WorkLoop_RemoveConn
  PROVE  Streaming
<1> DEFINE delay == {c \in to_remove : Delayed(c)}
           gone  == (to_remove \cap Nodes) \ delay
           s     == SetToSeq(gone)
           datas == [i \in DOMAIN s |-> CloseData(s[i])]
<1>1. /\ id2nodes' = [c \in Cnns |-> IF c \in gone THEN None ELSE id2nodes[c]]
      /\ CloseFds({<<c, id2nodes[c].fd>> : c \in gone})
      /\ AddNetworkDatas(datas)
      /\ \A c \in Cnns : wait_send'[c] = IF c \in to_remove \ delay THEN <<>> ELSE wait_send[c]
      /\ UNCHANGED <<new_nodes, wire, knocking, unread>>
      /\ WorkerStep
  BY DEF WorkLoop_RemoveConn, peerVars, WorkerStep
<1>2. gone \in SUBSET Nodes /\ gone \subseteq Cnns
  BY NodeFacts
<1>3. \A c \in gone : id2nodes[c].send = <<>> /\ wait_send[c] = <<>> /\ c \in to_remove
  BY DEF Delayed
<1>4. \A c \in Cnns \ gone : wait_send'[c] # wait_send[c] =>
        c \notin Nodes /\ new_nodes[c] = None /\ wait_send'[c] = <<>>
  BY <1>1 DEF Delayed
<1>5. \A c \in Cnns : wait_send'[c] = wait_send[c] \/ wait_send'[c] = <<>>
  BY <1>1
<1> HIDE DEF gone
<1>6. /\ datas \in Seq(Data) /\ Orderly(datas)
      /\ \A i \in DOMAIN datas : datas[i].cnn \in gone /\ datas[i].act = "close"
  <2>1. s \in Seq(gone) /\ \A i, j \in DOMAIN s : s[i] = s[j] => i = j
    BY <1>2, ConstantFacts, FS_Subset, SetToSeqOf, SetToSeqOnce
  <2> HIDE DEF s
  <2>2. \A i \in 1..Len(s) : s[i] \in gone /\ s[i] \in Cnns
    BY <1>2, <2>1
  <2>3. \A i \in 1..Len(s) : /\ CloseData(s[i]) \in Data /\ CloseData(s[i]).cnn = s[i]
                             /\ CloseData(s[i]).act = "close"
    BY <2>2, DataTypes DEF CloseData
  <2>4. DOMAIN datas = 1..Len(s) /\ DOMAIN s = 1..Len(s) /\ Len(s) \in Nat
        /\ \A i \in 1..Len(s) : datas[i] = CloseData(s[i])
    BY <2>1
  <2>5. datas \in Seq(Data)
    BY <2>3, <2>4
  <2> HIDE DEF datas
  <2>6. \A i \in DOMAIN datas : /\ datas[i].cnn = s[i] /\ datas[i].cnn \in gone
                               /\ datas[i].act = "close"
    BY <2>2, <2>3, <2>4
  <2>7. Orderly(datas)
    <3>1. \A i, j \in DOMAIN datas : i < j => i # j
      BY <2>4
    <3> QED BY <2>1, <2>4, <2>6, <3>1 DEF Orderly
  <2> QED BY <2>5, <2>6, <2>7
<1> HIDE DEF datas
<1>7. /\ Streams' /\ Queued' = Queued \o datas
      /\ \A c \in gone : Ended(c)' /\ Unread(c)' = <<>> /\ Going(c)' = wait_send'[c]
      /\ \A c \in Cnns \ gone : /\ Ended(c)' = Ended(c) /\ Coming(c)' = Coming(c)
                                /\ c \in Nodes' <=> c \in Nodes
                                /\ id2nodes'[c] = id2nodes[c]
  BY <1>1, <1>2, <1>5, <1>6, EndsStreaming
<1>8. UNCHANGED <<arrived, got, sent, life, closing, phase>>
  BY <1>1, WorkerKeeps
<1>9. ASSUME NEW c \in gone PROVE Step(c)
  <2>1. c \in Nodes /\ c \in Cnns /\ ~Ended(c)
    BY <1>2, NodeSock
  <2>2. Going(c) = <<>> /\ Going(c)' = <<>>
    <3>1. Going(c) = <<>> \o <<>>
      BY <1>3, <2>1 DEF Going
    <3>2. wait_send'[c] = <<>>
      BY <1>3, <1>5, <2>1
    <3>3. <<>> \o <<>> = <<>>
      OBVIOUS
    <3> QED BY <1>7, <3>1, <3>2, <3>3
  <2>3. closing[c] # None \/ phase # "update"
    BY <1>3 DEF Control, Removals
  <2>4. Contract!IsPrefix(Coming(c)', Coming(c))
    <3>1. Chunks(c, Queued)' = Chunks(c, Queued)
      <4>1. \A i \in DOMAIN datas : Piece(c, datas[i]) = <<>>
        <5> TAKE i \in DOMAIN datas
        <5>1. datas[i].act # "read"
          BY <1>6
        <5> QED BY <5>1 DEF Piece
      <4> QED BY <1>6, <1>7, <2>1, <4>1, ChunksSame
    <3> PICK a \in Seq(Chunk) : a = Chunks(c, Queued)
      BY <2>1, StreamTypes
    <3> PICK u \in Seq(Chunk) : u = Unread(c)
      BY <2>1, StreamTypes
    <3>2. Coming(c) = a \o u /\ Coming(c)' = a \o <<>>
      BY <1>7, <3>1 DEF Coming
    <3>3. a \o <<>> = a
      BY ConcatEmptySeq
    <3>4. Contract!IsPrefix(a, a \o u)
      BY PrefixOf
    <3>5. Contract!IsPrefix(Coming(c)', a \o u)
      BY <3>2, <3>3, <3>4
    <3> QED BY <3>2, <3>5
  <2> QED BY <1>1, <1>7, <1>8, <2>1, <2>2, <2>3, <2>4, EndStep
<1>10. ASSUME NEW c \in Cnns \ gone PROVE Step(c)
  <2>1. CASE wait_send'[c] = wait_send[c]
    <3>1. Going(c)' = Going(c)
      BY <1>7, <2>1, GoingSame
    <3>2. Same(c)
      BY <1>1, <1>7, <1>8, <3>1 DEF Same
    <3> QED BY <3>2, SameStep
  <2>2. CASE wait_send'[c] # wait_send[c]
    <3>1. c \notin Nodes /\ new_nodes[c] = None /\ wait_send'[c] = <<>>
      BY <1>4, <2>2
    <3>2. Going(c)' = <<>>
      <4>1. Going(c)' = <<>> \o <<>>
        BY <1>7, <3>1 DEF Going
      <4>2. <<>> \o <<>> = <<>>
        OBVIOUS
      <4> QED BY <4>1, <4>2
    <3> QED BY <1>1, <1>7, <1>8, <3>1, <3>2, LostStep
  <2> QED BY <2>1, <2>2
<1> QED BY <1>7, <1>9, <1>10 DEF Streaming

-----------------------------------------------------------------------------
(* Every step. *)

LEMMA StolenGrows == TypeOK /\ [Next]_vars => stolen \subseteq stolen'
<1> SUFFICES ASSUME TypeOK, [Next]_vars PROVE stolen \subseteq stolen'
  OBVIOUS
<1> DEFINE Robs == UNCHANGED stolen \/ \E pairs : CloseFds(pairs)
<1>0. ASSUME Robs PROVE stolen \subseteq stolen'
  BY <1>0 DEF CloseFds
<1>1. CASE Peers
  BY <1>0, <1>1 DEF Peers, PeerSends, PeerCloses, PeerConnects
<1>2. CASE Program
  BY <1>0, <1>2 DEF Program, ListenAsyncOrConnectAsync, CancelAsync, ListenOrConnect, UserSend,
                    Close, HandlerExpires, workerVars
<1>3. CASE TaskThread
  BY <1>0, <1>3 DEF TaskThread, TaskStarts, TaskEnds, CloseFd
<1>4. CASE Update
  <2>1. CASE ProcessNetTaskResult
    BY <1>0, <2>1 DEF ProcessNetTaskResult, Opened, CloseFd
  <2>2. ASSUME GetNetDatas \/ DatasProcessed PROVE stolen \subseteq stolen'
    <3>1. GetNetDatas => UNCHANGED stolen
      BY DEF GetNetDatas
    <3>2. DatasProcessed => UNCHANGED stolen
      BY DEF DatasProcessed
    <3> QED BY <2>2, <3>1, <3>2
  <2>3. CASE ProcessNetData
    BY <1>0, <2>3 DEF ProcessNetData, HandlerGone, OnRecvData, OnClose, OnAccept, Opened, CloseFd
  <2> QED BY <1>4, <2>1, <2>2, <2>3 DEF Update
<1>5. CASE Worker
  <2>1. CASE WorkLoop_AddConn \/ WorkLoop_SendBuff \/ Select \/ IoDone \/ LoopEnds \/ WorkLoop_RemoveConn
    BY <1>0, <2>1 DEF WorkLoop_AddConn, WorkLoop_SendBuff, Select, IoDone, LoopEnds, WorkLoop_RemoveConn
  <2>2. CASE \E f \in Fds : HandleNetRead(f) \/ HandleNetWrite(f)
    BY <1>0, <2>2 DEF HandleNetRead, HandleNetWrite, HandleStrayFd, ReadConnect, ReadListen, WriteNode,
                      HandleNetError, CloseFd
  <2> QED BY <1>5, <2>1, <2>2 DEF Worker, WorkLoop
<1>6. CASE Release \/ Destroy \/ UNCHANGED vars
  BY <1>0, <1>6 DEF Release, Destroy, vars, workerVars
<1> QED BY <1>1, <1>2, <1>3, <1>4, <1>5, <1>6 DEF Next

LEMMA WorkerStreaming ==
  ASSUME TypeOK, TypeOK', OwnedInv, Control, Streams, stolen' = {}, Worker
  PROVE  Streaming
<1>1. UNCHANGED moduleVars
  BY DEF Worker
<1>2. CASE WorkLoop_AddConn
  BY <1>1, <1>2, AddConnStreaming
<1>3. CASE WorkLoop_SendBuff
  BY <1>1, <1>3, SendBuffStreaming
<1>4. CASE Select \/ IoDone \/ LoopEnds
  BY <1>1, <1>4, WorkerStillStreaming
<1>5. CASE WorkLoop_RemoveConn
  BY <1>1, <1>5, RemoveConnStreaming
<1>6. ASSUME NEW f \in Fds, HandleNetRead(f) PROVE Streaming
  <2>1. UNCHANGED <<new_nodes, wait_send, using_idx>>
    BY <1>6 DEF HandleNetRead
  <2>2. CASE HandleStrayFd(f)
    BY <1>1, <2>1, <2>2, StrayStreaming
  <2>3. ASSUME NEW c \in Cnns, ReadConnect(c, f) PROVE Streaming
    <3>1. c \in NodesByFd(f) /\ WorkerStep
      BY <1>1, <2>1, <2>3 DEF ReadConnect, WorkerStep
    <3> QED BY <2>1, <2>3, <3>1, ReadStreaming
  <2>4. ASSUME NEW c \in Cnns, ReadListen(c, f) PROVE Streaming
    <3>1. c \in NodesByFd(f) /\ WorkerStep
      BY <1>1, <2>1, <2>4 DEF ReadListen, WorkerStep
    <3> QED BY <2>1, <2>4, <3>1, ReadListenStreaming
  <2> QED BY <1>6, <2>2, <2>3, <2>4 DEF HandleNetRead
<1>7. ASSUME NEW f \in Fds, HandleNetWrite(f) PROVE Streaming
  <2>1. UNCHANGED <<new_nodes, wait_send, using_idx>>
    BY <1>7 DEF HandleNetWrite
  <2>2. CASE HandleStrayFd(f)
    BY <1>1, <2>1, <2>2, StrayStreaming
  <2>3. ASSUME NEW c \in Cnns, WriteNode(c, f) PROVE Streaming
    <3>1. c \in NodesByFd(f) /\ WorkerStep
      BY <1>1, <2>1, <2>3 DEF WriteNode, WorkerStep
    <3> QED BY <2>1, <2>3, <3>1, WriteStreaming
  <2> QED BY <1>7, <2>2, <2>3 DEF HandleNetWrite
<1> QED BY <1>2, <1>3, <1>4, <1>5, <1>6, <1>7 DEF Worker, WorkLoop

LEMMA NextStreaming ==
  ASSUME TypeOK, TypeOK', OwnedInv, SocksOwned', Control, Streams, stolen' = {}, [Next]_vars
  PROVE  Streaming
<1>1. CASE Peers
  BY <1>1, PeerSendsStreaming, PeerStillStreaming DEF Peers
<1>2. CASE Program
  BY <1>2, ProgramStreaming, ListenOrConnectStreaming, UserSendStreaming DEF Program
<1>3. CASE TaskThread
  BY <1>3, TaskStartsStreaming, TaskEndsStreaming DEF TaskThread
<1>4. CASE Worker
  BY <1>4, WorkerStreaming
<1>5. CASE Update
  BY <1>5, UpdateStreaming, ResultStreaming, DataStreaming DEF Update
<1>6. CASE Release \/ Destroy
  BY <1>6, ShutDownStreaming
<1>7. CASE UNCHANGED vars
  BY <1>7, StutterStreaming
<1> QED BY <1>1, <1>2, <1>3, <1>4, <1>5, <1>6, <1>7 DEF Next

LEMMA StreamNext ==
  TypeOK /\ TypeOK' /\ OwnedInv /\ SocksOwned' /\ StreamInv /\ [Next]_vars
    => StreamInv' /\ [Contract!Next]_(Contract!vars)
<1> SUFFICES ASSUME TypeOK, TypeOK', OwnedInv, SocksOwned', StreamInv, [Next]_vars
             PROVE  StreamInv' /\ Contract!Next
  OBVIOUS
<1>1. Control'
  BY ControlNext DEF StreamInv
<1>2. CASE stolen' = {}
  <2>1. stolen = {}
    BY <1>2, StolenGrows
  <2>2. Streaming
    BY <1>2, <2>1, NextStreaming DEF StreamInv
  <2>3. StreamInv'
    BY <1>1, <2>2 DEF StreamInv, Streaming
  <2>4. Contract!Next
    BY <2>2, StepsNext DEF Streaming
  <2> QED BY <2>3, <2>4
<1>3. CASE stolen' # {}
  BY <1>1, <1>3 DEF StreamInv, Contract!Next
<1> QED BY <1>2, <1>3

LEMMA InitNothing ==
  ASSUME Init, NEW c \in Cnns
  PROVE  Coming(c) = <<>> /\ Going(c) = <<>> /\ ~Ended(c)
<1>1. None \notin Cnns /\ \A d \in Cnns : id2nodes[d] = None
  BY ConstantFacts DEF Init, WorkerInit
<1>2. Queued = <<>> \o <<>>
  <2>1. (0 + 1) % 2 = 1 /\ using_idx = 0 /\ net_datas[0] = <<>> /\ net_datas[1] = <<>>
    BY DEF Init, WorkerInit
  <2> QED BY <2>1 DEF Queued
<1>3. <<>> \o <<>> = <<>>
  OBVIOUS
<1>4. Chunks(c, Queued) = <<>>
  <2>1. <<>> \in Seq(Data) /\ DOMAIN <<>> = {}
    OBVIOUS
  <2> QED BY <1>2, <1>3, <2>1, ChunksNone
<1>5. Unread(c) = <<>>
  BY <1>1 DEF Unread, Init, WorkerInit
<1>6. Coming(c) = <<>>
  BY <1>3, <1>4, <1>5 DEF Coming
<1>7. Going(c) = <<>>
  BY <1>1, <1>3 DEF Going, Nodes, Init, WorkerInit
<1>8. ~Ended(c)
  BY DEF Ended, Init
<1> QED BY <1>6, <1>7, <1>8

LEMMA InitStreams == Init => StreamInv /\ Contract!Init
<1> SUFFICES ASSUME Init PROVE StreamInv /\ Contract!Init
  OBVIOUS
<1>1. /\ [c \in Cnns |-> Coming(c)] = [c \in Cnns |-> <<>>]
      /\ [c \in Cnns |-> Going(c)] = [c \in Cnns |-> <<>>]
      /\ {c \in Cnns : Ended(c)} = {}
  BY InitNothing
<1>2. Contract!Init
  BY <1>1 DEF Contract!Init, Init, WorkerInit
<1>3. /\ None \notin Cnns /\ \A f \in Fds : sock[f] = None
      /\ \A c \in Cnns : /\ new_nodes[c] = None /\ id2nodes[c] = None /\ wire[c] = <<>>
                         /\ unread[c] = <<>> /\ wait_send[c] = <<>> /\ life[c] = "none"
      /\ using_idx = 0 /\ net_datas[0] = <<>> /\ net_datas[1] = <<>>
      /\ to_remove = {} /\ ~is_exits /\ draining = None /\ phase = "update"
  BY ConstantFacts DEF Init, WorkerInit
<1>4. Nodes = {}
  BY <1>3 DEF Nodes
<1>5. Control
  BY <1>3 DEF Control, Removals, Switched, Joined
<1>6. Socks /\ Fresh /\ Opens /\ Written /\ Silent
  BY <1>3, <1>4, ConstantFacts DEF Socks, Fresh, Opens, Written, Silent
<1>7. Events
  <2>1. DOMAIN Queued = {}
    <3>1. (0 + 1) % 2 = 1
      OBVIOUS
    <3>2. Queued = <<>> \o <<>>
      BY <1>3, <3>1 DEF Queued
    <3> QED BY <3>2
  <2> QED BY <2>1 DEF Events, Orderly
<1> QED BY <1>2, <1>5, <1>6, <1>7 DEF StreamInv, Streams

\* The threads, the two event queues, the buffers and the delayed removal do to
\* every connection what NetStream allows, whatever connections, descriptors and
\* bounds there are: chunks and messages keep their order, the handler is told of
\* the end once and last, and a connection that the program closes is written
\* what was sent before (net_worker_select.cpp:134-144, 322-345, 395-417;
\* network_module.cpp:373-419).
THEOREM StreamsKept == Spec => StreamKept
<1>1. Spec => []TypeOK
  BY NetTypes
<1>2. TypeOK /\ OwnedInv /\ [Next]_vars => OwnedInv'
  BY NextOwned
<1>3. TypeOK /\ OwnedInv => SocksOwned
  BY OwnedSocks
<1>4. Init => OwnedInv
  BY InitOwned
<1>5. Init => StreamInv /\ Contract!Init
  BY InitStreams
<1>6. TypeOK /\ TypeOK' /\ OwnedInv /\ SocksOwned' /\ StreamInv /\ [Next]_vars
        => StreamInv' /\ [Contract!Next]_(Contract!vars)
  BY StreamNext
<1> QED BY <1>1, <1>2, <1>3, <1>4, <1>5, <1>6, PTL DEF Spec, StreamKept, Contract!Spec
=============================================================================
