---------------------------- MODULE GateClientMgr ----------------------------
(***************************************************************************)
(* The gate service's ClientMgr (services/gate/client_mgr): one Client per *)
(* connection, its way from login to a role in game, and what the gate     *)
(* tells the world about it.  The handlers answer the client as well; what *)
(* the client reads is not modelled, what it may send next is.             *)
(***************************************************************************)
EXTENDS RoleNet

VARIABLES
    clients,    \* the Client of each connection
    gcalls      \* req_list of the gates: closures of the calls awaited

gateVars == <<clients, gcalls>>

\* "none": not connected yet; "gone": closed, its Client forgotten.
ClientStates == {"none", "Free", "Authing", "Manage_Role", "Launch_Role",
                 "In_Game", "gone"}

Client == [state : ClientStates,
           session : IdOrNil,               \* world_role_session_id
           role : Roles \cup {None},        \* launch_role_id
           world : BOOLEAN,                 \* world_client is set
           rejoin : Roles \cup {None},      \* role of a reconnect coroutine
           closing : BOOLEAN,               \* Net.close was called
           n : 0..MaxCall]                  \* calls made for this client

GateCbs == {GateCb(fn, c, n, r) :
              fn \in {"launch", "reconnect", "logout"},
              c \in Clients, n \in CallIds, r \in Roles}

GTypeOK ==
    /\ clients \in [Clients -> Client]
    /\ gcalls \subseteq GateCbs

GInit ==
    /\ clients = [c \in Clients |->
          [state |-> "none", session |-> 0, role |-> None, world |-> FALSE,
           rejoin |-> None, closing |-> FALSE, n |-> 0]]
    /\ gcalls = {}

Connected(c) == clients[c].state \notin {"none", "gone"}

\* Client c moves to state with nothing sent.
Moves(c, state) ==
    /\ clients' = [clients EXCEPT ![c].state = state]
    /\ UNCHANGED <<gcalls, net>>

\* The gate of client c calls the world; fn names the closure and its call.
CallsWorld(c, fn, remote_fn, args, r) ==
    LET n == clients[c].n + 1 IN
    /\ n \in CallIds
    /\ gcalls' = gcalls \cup {GateCb(fn, c, n, r)}
    /\ Deliver(NoLink, GateOf[c], <<Call(World, remote_fn, args, GateCb(fn, c, n, r))>>)

-----------------------------------------------------------------------------
(* Connection and login. *)

OnNewCnn(c) ==
    /\ clients[c].state = "none"
    /\ Moves(c, "Free")

\* A login request starts the authentication coroutine ...
ReqUserLogin(c) ==
    /\ clients[c].state = "Free"
    /\ clients' = [clients EXCEPT ![c].state = "Authing", ![c].rejoin = None]
    /\ UNCHANGED <<gcalls, net>>

\* ... which ends with the answer of the auth service.
UserLoginOver(c) ==
    /\ clients[c].state = "Authing" /\ clients[c].rejoin = None
    /\ Moves(c, "Manage_Role") \/ Moves(c, "Free")

-----------------------------------------------------------------------------
(* Playing a role. *)

ReqLaunchRoleAgain(c, r) ==             \* slip
    /\ clients[c].state \in {"Manage_Role", "Launch_Role"}
    /\ clients' = [clients EXCEPT ![c].state = "Launch_Role", ![c].world = TRUE,
                                  ![c].n = @ + 1]
    /\ CallsWorld(c, "launch", "launch_role", <<r, c>>, r)
ReqLaunchRole(c, r) ==
    /\ clients[c].state = "Manage_Role"
    /\ clients' = [clients EXCEPT ![c].state = "Launch_Role", ![c].world = TRUE,
                                  ![c].n = @ + 1]
    /\ CallsWorld(c, "launch", "launch_role", <<r, c>>, r)

\* _rpc_rsp_req_luanch_role.  A success that finds the client gone is not
\* reported back to the world.
RspLaunchRole(c, r, err, s) ==
    LET launching == clients[c].state = "Launch_Role" IN
    \/ /\ launching /\ err = "ok"
       /\ clients' = [clients EXCEPT ![c].state = "In_Game", ![c].role = r,
                                     ![c].session = s]
    \/ /\ launching /\ err # "ok"
       /\ clients' = [clients EXCEPT ![c].state = "Manage_Role"]
    \/ ~ launching /\ UNCHANGED clients

ReqReconnect(c, r) ==
    /\ clients[c].state = "Free"
    /\ clients' = [clients EXCEPT ![c].state = "Authing", ![c].rejoin = r]
    /\ UNCHANGED <<gcalls, net>>

\* The reconnect coroutine after its authentication: refused, without a
\* world service to ask, or waiting for reconnect_role.
ReconnectAuthed(c) ==
    LET r == clients[c].rejoin IN
    /\ clients[c].state = "Authing" /\ r # None
    /\ \/ Moves(c, "Free")
       \/ Moves(c, "Manage_Role")
       \/ /\ clients' = [clients EXCEPT ![c].state = "Launch_Role", ![c].world = TRUE,
                                        ![c].n = @ + 1]
          /\ CallsWorld(c, "reconnect", "reconnect_role", <<r, c>>, r)

\* The coroutine goes on with the Client it captured, gone or not; what it
\* does to a Client that is gone nobody sees.
RspReconnect(c, r, err, s) ==
    \/ /\ Connected(c) /\ err = "ok"
       /\ clients' = [clients EXCEPT ![c].state = "In_Game", ![c].role = r,
                                     ![c].session = s]
    \/ /\ Connected(c) /\ err # "ok"
       /\ clients' = [clients EXCEPT ![c].state =
                        IF @ = "Launch_Role" THEN "Manage_Role" ELSE @]
    \/ ~ Connected(c) /\ UNCHANGED clients

ReqLogoutRole(c) ==
    /\ clients[c].state = "In_Game" /\ clients[c].role # None
    /\ clients[c].world
    /\ clients' = [clients EXCEPT ![c].n = @ + 1]
    /\ CallsWorld(c, "logout", "logout_role",
                  <<clients[c].session, clients[c].role>>, clients[c].role)

RspLogoutRole(c, err) ==
    IF clients[c].state = "In_Game" /\ err = "ok"
    THEN clients' = [clients EXCEPT ![c].state = "Manage_Role", ![c].world = FALSE,
                                    ![c].session = 0]
    ELSE UNCHANGED clients

\* Callback cb of the gate runs with what the answer, or the expiry, says.
GateCallback(fn, c, r, err, s) ==
    \/ fn = "launch" /\ RspLaunchRole(c, r, err, s)
    \/ fn = "reconnect" /\ RspReconnect(c, r, err, s)
    \/ fn = "logout" /\ RspLogoutRole(c, err)

-----------------------------------------------------------------------------
(* The end of a connection. *)

\* on_kick_client closes the connection; its close event follows later.
OnKickClient(in, c) ==
    /\ clients' = [clients EXCEPT ![c].closing = clients[c].state # "gone"]
    /\ Deliver(in, GateOf[c], <<>>)
    /\ UNCHANGED gcalls

\* _on_close_cnn: a client that is launching, or in game with a session,
\* makes the gate call client_quit with the session it has.
OnCloseCnn(c) ==
    /\ Connected(c)
    /\ clients' = [clients EXCEPT ![c].state = "gone", ![c].session = 0, ![c].role = None,
                                  ![c].world = FALSE, ![c].rejoin = None, ![c].closing = FALSE]
    /\ IF \/ clients[c].state = "Launch_Role"
          \/ clients[c].state = "In_Game" /\ clients[c].world /\ clients[c].session # 0
       THEN Deliver(NoLink, GateOf[c],
                    <<Call(World, "client_quit", <<clients[c].session>>, NoCb)>>)
       ELSE UNCHANGED net
    /\ UNCHANGED gcalls
=============================================================================
