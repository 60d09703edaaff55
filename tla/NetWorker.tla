------------------------------ MODULE NetWorker ------------------------------
(***************************************************************************)
(* A network worker of the engine: the thread that waits with select on     *)
(* the sockets given to it, and the operations by which the main thread     *)
(* gives, takes back and feeds them (net_worker_select.cpp).                *)
(*                                                                         *)
(* A connection stands for the netid, the handler and the socket that were  *)
(* made for one another.  A descriptor is a number: which socket it denotes *)
(* is up to the operating system, that gives the lowest free number to the  *)
(* next socket.  Chunks and messages are pairs <<connection, number>>.      *)
(***************************************************************************)
EXTENDS Integers, Sequences, FiniteSets, SequencesExt, FiniteSetsExt

CONSTANTS
  Cnns,       \* connections, listening sockets included
  Listeners,  \* those that listen
  Fds,        \* descriptor numbers
  None

ASSUME CnnAssumption == /\ Listeners \subseteq Cnns /\ IsFiniteSet(Cnns)
                        /\ None \notin Cnns
ASSUME FdAssumption  == Fds \subseteq Nat /\ IsFiniteSet(Fds) /\ None \notin Fds
\* No node is None.
ASSUME NodeAssumption == None \notin [fd : Fds, send : Seq(Cnns \X Nat)]

VARIABLES
  \* operating system and peers
  sock,       \* the connection whose socket a descriptor denotes
  arrived,    \* how many chunks the peer has sent
  unread,     \* those the socket holds
  hup,        \* connections whose peer has closed
  knocking,   \* connections that wait to be accepted
  wire,       \* messages written to the socket
  \* shared by the two threads, each under its mutex
  new_nodes,  \* m_new_nodes: the descriptor of a connection just added
  to_remove,  \* m_to_remove_netids
  wait_send,  \* m_wait_send_buffs
  net_datas,  \* m_net_datas: two queues of events for the main thread
  using_idx,  \* the one that the worker fills
  is_exits,
  \* the worker's own
  id2nodes,   \* m_id2nodes: descriptor and messages to write
  pc,         \* where WorkLoop is
  next_it_advance, \* how many nodes the next round passes over
  read_set, write_set,
  \* history
  stolen      \* connections whose socket was closed for somebody else

peerVars   == <<arrived, unread, hup, knocking, wire>>
sharedVars == <<new_nodes, to_remove, wait_send, net_datas, using_idx, is_exits>>
loopVars   == <<id2nodes, pc, next_it_advance, read_set, write_set>>
workerVars == <<sock, peerVars, sharedVars, loopVars, stolen>>

-----------------------------------------------------------------------------
FreeFds == {f \in Fds : sock[f] = None}

\* The next descriptor denotes c's socket.
OpenFd(c) == sock' = [sock EXCEPT ![Min(FreeFds)] = c]

\* close(f) called for connection c: it closes whatever f denotes.
CloseFds(pairs) ==
  /\ sock' = [f \in Fds |-> IF \E p \in pairs : p[2] = f THEN None ELSE sock[f]]
  /\ stolen' = stolen \cup {d \in Cnns : \E p \in pairs : sock[p[2]] = d /\ p[1] # d}
CloseFd(c, f) == CloseFds({<<c, f>>})

Nodes == {c \in Cnns : id2nodes[c] # None}
NodesByFd(f) == {c \in Nodes : id2nodes[c].fd = f}

Readable(c) == unread[c] # <<>> \/ c \in hup \/ (c \in Listeners /\ knocking # {})

AddNetworkDatas(datas) == net_datas' = [net_datas EXCEPT ![using_idx] = @ \o datas]
ReadData(c, chunks) == [cnn |-> c, act |-> "read",  chunks |-> chunks]
CloseData(c)        == [cnn |-> c, act |-> "close"]
AcceptData(c, d, f) == [cnn |-> c, act |-> "accept", new |-> d, fd |-> f]

-----------------------------------------------------------------------------
(* Called by the main thread. *)

\* The descriptor is made non-blocking first, which fails if it was closed.
AddCnnOK(f) == sock[f] # None /\ ~is_exits

AddCnn(c, f) == new_nodes' = [new_nodes EXCEPT ![c] = f]

RemoveCnns(S) == to_remove' = to_remove \cup S

Send(c, m) == wait_send' = [wait_send EXCEPT ![c] = Append(@, m)]

-----------------------------------------------------------------------------
(* WorkLoop.  Once it is told to exit it removes everything and ends. *)

WorkLoop_AddConn ==
  /\ \/ pc = "add" /\ ~is_exits /\ pc' = "send"
     \/ pc = "exit_add" /\ pc' = "exit_remove"
  /\ id2nodes' = [c \in Cnns |-> IF new_nodes[c] # None
                                 THEN [fd |-> new_nodes[c], send |-> <<>>]
                                 ELSE id2nodes[c]]
  /\ new_nodes' = [c \in Cnns |-> None]
  /\ UNCHANGED <<sock, peerVars, to_remove, wait_send, net_datas, using_idx,
                 is_exits, next_it_advance, read_set, write_set, stolen>>

\* What is to be sent for a connection that is not there, or not there yet,
\* is thrown away.
WorkLoop_SendBuff ==
  /\ \/ pc = "send" /\ pc' = "select"
     \/ pc = "exit_send" /\ pc' = "exited"
  /\ id2nodes' = [c \in Cnns |-> IF c \in Nodes \ Listeners
                                 THEN [id2nodes[c] EXCEPT !.send = @ \o wait_send[c]]
                                 ELSE id2nodes[c]]
  /\ wait_send' = [c \in Cnns |-> <<>>]
  /\ UNCHANGED <<sock, peerVars, new_nodes, to_remove, net_datas, using_idx,
                 is_exits, next_it_advance, read_set, write_set, stolen>>

\* A round starts behind the nodes of the last one, and from the beginning
\* when there are none: when nodes were added it passes over as many as there
\* were, and which those are is up to the hash table.  If one of the
\* descriptors is not open select fails and nothing is ready.
Select ==
  LET count == Cardinality(Nodes)
      skip  == IF next_it_advance < count THEN next_it_advance ELSE 0
  IN /\ pc = "select"
     /\ pc' = "io"
     /\ next_it_advance' = IF count = 0 THEN next_it_advance ELSE count
     /\ \E watched \in kSubset(count - skip, Nodes) :
          LET fds == {id2nodes[c].fd : c \in watched}
              ok  == \A f \in fds : sock[f] # None
          IN /\ read_set'  = {f \in fds : ok /\ Readable(sock[f])}
             /\ write_set' = {f \in fds : ok /\ \E c \in watched :
                                            id2nodes[c].fd = f /\ id2nodes[c].send # <<>>}
     /\ UNCHANGED <<sock, peerVars, sharedVars, id2nodes, stolen>>

\* The ready descriptors are handled in ascending order, each read, then written.
Turn(f) == pc = "io" /\ \A g \in read_set \cup write_set : f <= g

\* Mutant: the end is reported before what was read.
HandleNetErrorEndFirst(c, f, datas) ==
  /\ CloseFd(c, f)
  /\ id2nodes' = [id2nodes EXCEPT ![c] = None]
  /\ AddNetworkDatas(<<CloseData(c)>> \o datas)

\* The node is gone before its socket's events have been handled.
HandleNetError(c, f, datas) ==
  /\ CloseFd(c, f)
  /\ id2nodes' = [id2nodes EXCEPT ![c] = None]
  /\ AddNetworkDatas(datas \o <<CloseData(c)>>)

\* Nobody has this descriptor (any more): it is closed.
HandleStrayFd(f) ==
  /\ NodesByFd(f) = {}
  /\ CloseFd(None, f)
  /\ UNCHANGED <<peerVars, id2nodes, net_datas>>

\* The rest of the function reads the node's type even after HandleNetError
\* has freed it; whatever it reads, accept fails on the closed descriptor.
ReadConnect(c, f) ==
  LET d      == sock[f]
      chunks == IF d = None THEN <<>> ELSE unread[d]
      datas  == IF chunks = <<>> THEN <<>> ELSE <<ReadData(c, chunks)>>
  IN /\ c \in NodesByFd(f) \ Listeners
     /\ unread' = [x \in Cnns |-> IF x = d THEN <<>> ELSE unread[x]]
     /\ IF d = None \/ d \in hup
        THEN HandleNetError(c, f, datas)
        ELSE AddNetworkDatas(datas) /\ UNCHANGED <<sock, stolen, id2nodes>>
     /\ UNCHANGED <<arrived, hup, knocking, wire>>

ReadListen(c, f) ==
  /\ c \in NodesByFd(f) \cap Listeners
  /\ IF sock[f] = c /\ knocking # {} /\ FreeFds # {}
     THEN \E d \in knocking :
            /\ knocking' = knocking \ {d}
            /\ OpenFd(d)
            /\ AddNetworkDatas(<<AcceptData(c, d, Min(FreeFds))>>)
     ELSE UNCHANGED <<knocking, sock, net_datas>>
  /\ UNCHANGED <<arrived, unread, hup, wire, stolen, id2nodes>>

HandleNetRead(f) ==
  /\ Turn(f) /\ f \in read_set
  /\ \/ HandleStrayFd(f)
     \/ \E c \in Cnns : ReadConnect(c, f) \/ ReadListen(c, f)
  /\ read_set' = read_set \ {f}
  /\ UNCHANGED <<new_nodes, to_remove, wait_send, using_idx, is_exits, pc,
                 next_it_advance, write_set>>

\* Writes until there is nothing left; a socket that is not ready is tried
\* again and again.  Nothing is written for a node that listens.
WriteNode(c, f) ==
  LET d == sock[f]
  IN /\ c \in NodesByFd(f)
     /\ \/ /\ d # None \/ c \in Listeners
           /\ wire' = [x \in Cnns |-> IF x = d /\ c \notin Listeners
                                     THEN wire[x] \o id2nodes[c].send ELSE wire[x]]
           /\ id2nodes' = [id2nodes EXCEPT ![c].send = <<>>]
           /\ UNCHANGED <<sock, stolen, net_datas>>
        \/ /\ c \notin Listeners
           /\ d = None \/ d \in hup
           /\ id2nodes[c].send # <<>>
           /\ HandleNetError(c, f, <<>>)
           /\ UNCHANGED wire
     /\ UNCHANGED <<arrived, unread, hup, knocking>>

HandleNetWrite(f) ==
  /\ Turn(f) /\ f \in write_set \ read_set
  /\ \/ HandleStrayFd(f)
     \/ \E c \in Cnns : WriteNode(c, f)
  /\ write_set' = write_set \ {f}
  /\ UNCHANGED <<new_nodes, to_remove, wait_send, using_idx, is_exits, pc,
                 next_it_advance, read_set>>

IoDone ==
  /\ pc = "io" /\ read_set \cup write_set = {}
  /\ pc' = "remove"
  /\ UNCHANGED <<sock, peerVars, sharedVars, id2nodes, next_it_advance,
                 read_set, write_set, stolen>>

\* Mutants: what is still to be sent is not waited for; a connection that is
\* not yet a node is forgotten.
DelayedIfNew(c) == c \notin Nodes /\ new_nodes[c] # None
DelayedIfNode(c) == c \in Nodes /\ (id2nodes[c].send # <<>> \/ wait_send[c] # <<>>)

\* A connection with something to send, or one that is not yet a node, is
\* removed in a later round.
Delayed(c) ==
  IF c \in Nodes THEN id2nodes[c].send # <<>> \/ wait_send[c] # <<>>
                 ELSE new_nodes[c] # None

WorkLoop_RemoveConn ==
  LET delay == {c \in to_remove : Delayed(c)}
      gone  == (to_remove \cap Nodes) \ delay
      \* they are removed in the order of their netids
      datas == LET s == SetToSeq(gone) IN [i \in DOMAIN s |-> CloseData(s[i])]
  IN /\ \/ pc = "remove" /\ pc' = "add"
        \/ pc = "exit_remove" /\ pc' = "exit_send"
     /\ id2nodes' = [c \in Cnns |-> IF c \in gone THEN None ELSE id2nodes[c]]
     /\ CloseFds({<<c, id2nodes[c].fd>> : c \in gone})
     /\ AddNetworkDatas(datas)
     /\ wait_send' = [c \in Cnns |-> IF c \in to_remove \ delay THEN <<>> ELSE wait_send[c]]
     /\ to_remove' = delay
     /\ UNCHANGED <<peerVars, new_nodes, using_idx, is_exits,
                    next_it_advance, read_set, write_set>>

LoopEnds ==
  /\ pc = "add" /\ is_exits
  /\ pc' = "exit_add"
  /\ to_remove' = to_remove \cup Nodes
  /\ UNCHANGED <<sock, peerVars, new_nodes, wait_send, net_datas, using_idx,
                 is_exits, id2nodes, next_it_advance,
                 read_set, write_set, stolen>>

WorkLoop ==
  \/ WorkLoop_AddConn
  \/ WorkLoop_SendBuff
  \/ Select
  \/ \E f \in Fds : HandleNetRead(f) \/ HandleNetWrite(f)
  \/ IoDone
  \/ WorkLoop_RemoveConn
  \/ LoopEnds

-----------------------------------------------------------------------------
(* The other ends of the connections. *)

PeerSends(c) ==
  /\ c \notin hup \cup Listeners
  /\ \E f \in Fds : sock[f] = c
  /\ arrived' = [arrived EXCEPT ![c] = @ + 1]
  /\ unread' = [unread EXCEPT ![c] = Append(@, <<c, arrived[c] + 1>>)]
  /\ UNCHANGED <<sock, hup, knocking, wire, sharedVars, loopVars, stolen>>

PeerCloses(c) ==
  /\ c \notin hup \cup Listeners
  /\ \E f \in Fds : sock[f] = c
  /\ hup' = hup \cup {c}
  /\ UNCHANGED <<sock, arrived, unread, knocking, wire, sharedVars, loopVars, stolen>>

PeerConnects(c) ==
  /\ \E l \in Listeners, f \in Fds : sock[f] = l
  /\ knocking' = knocking \cup {c}
  /\ UNCHANGED <<sock, arrived, unread, hup, wire, sharedVars, loopVars, stolen>>

WorkerInit ==
  /\ sock = [f \in Fds |-> None]
  /\ arrived = [c \in Cnns |-> 0]
  /\ unread = [c \in Cnns |-> <<>>]
  /\ hup = {} /\ knocking = {}
  /\ wire = [c \in Cnns |-> <<>>]
  /\ new_nodes = [c \in Cnns |-> None]
  /\ to_remove = {}
  /\ wait_send = [c \in Cnns |-> <<>>]
  /\ net_datas = [i \in {0, 1} |-> <<>>]
  /\ using_idx = 0
  /\ is_exits = FALSE
  /\ id2nodes = [c \in Cnns |-> None]
  /\ pc = "add" /\ next_it_advance = 0
  /\ read_set = {} /\ write_set = {}
  /\ stolen = {}
=============================================================================
