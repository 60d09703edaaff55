----------------------------- MODULE RoleSystem -----------------------------
(***************************************************************************)
(* The gates, the world service that owns the roles and the game services, *)
(* composed over the zone network: how a role is launched, taken over by   *)
(* another client, reconnected to, logged out of and released.  Each step  *)
(* is one event of one service: the arrival of a message, run to the end   *)
(* of its handler, a request of a client, a tick of a timer, a query       *)
(* result, or the expiry of a call.                                        *)
(***************************************************************************)
EXTENDS GateClientMgr, WorldRoleMgr, GameRoleMgr

vars == <<net, faults, clients, gcalls, objs, role_id_to_role, session_id_to_role,
          last_session_id, last_opera_id, wcalls, aborted, roles, loads>>

Init == NetInit /\ GInit /\ WInit /\ MInit

RoleTypeOK == GTypeOK /\ WTypeOK /\ MTypeOK /\ faults \in 0..MaxFault

-----------------------------------------------------------------------------
(* Requests and answers that reach the world service. *)

\* A request of the gate of client c.
FromGate(c, fn, args, cb) == Arrives(GateOf[c], World, Call(World, fn, args, cb))

WorldLaunchRole ==
    \E c \in Clients, n \in CallIds, r \in Roles :
        LET rsp == GateCb("launch", c, n, r) IN
        /\ FromGate(c, "launch_role", <<r, c>>, rsp)
        /\ LaunchRole(<<GateOf[c], World>>, rsp, c, r)

WorldReconnectRole ==
    \E c \in Clients, n \in CallIds, r \in Roles :
        LET rsp == GateCb("reconnect", c, n, r) IN
        /\ FromGate(c, "reconnect_role", <<r, c>>, rsp)
        /\ ReconnectRole(<<GateOf[c], World>>, rsp, c, r)

WorldLogoutRole ==
    \E c \in Clients, n \in CallIds, r \in Roles, s \in IdOrNil :
        LET rsp == GateCb("logout", c, n, r) IN
        /\ FromGate(c, "logout_role", <<s, r>>, rsp)
        /\ LogoutRole(<<GateOf[c], World>>, rsp, s, r)

WorldClientQuit ==
    \E gate \in Gates, s \in IdOrNil :
        /\ Arrives(gate, World, Call(World, "client_quit", <<s>>, NoCb))
        /\ ClientQuit(<<gate, World>>, s)

\* The world runs callback cb with err, at the arrival of an answer on
\* link in or, on NoLink, because its rpc manager gave the call up.
WorldCallback(in, cb, err) ==
    \/ \E s \in Ids, r \in Roles :
          cb = LaunchCb(s, r) /\ RpcRspLaunchRole(in, s, r, err)
    \/ \E o \in Ids :
          cb = ChangeCb(o) /\ LaunchClientChanged(in, o, err)
    \/ \E r \in Roles, opera \in Ids :
          cb = ReleaseCb(r, opera) /\ RpcRspTryReleaseRole(in, r, opera, err)
    \/ \E c \in Clients, n \in CallIds, r \in Roles, s \in Ids, o \in Ids :
          LET rsp == GateCb("reconnect", c, n, r) IN
          cb = ReconnectCb(rsp, s, o) /\ ReconnectClientChanged(in, rsp, s, o, err)

WorldAnswered ==
    \E g \in Games, cb \in wcalls, err \in Errors :
        /\ Arrives(g, World, Answer(World, cb, err, 0))
        /\ WorldCallback(<<g, World>>, cb, err)

\* An answer to a call made without callback, or given up, is ignored.
WorldIgnores ==
    \E g \in Games :
        /\ net[<<g, World>>] # <<>>
        /\ Head(net[<<g, World>>]).cb \notin wcalls
        /\ Deliver(<<g, World>>, World, <<>>)
        /\ UNCHANGED worldVars

WorldOnFrame == \E r \in Roles : OnFrame(r)

World_Step ==
    /\ WorldLaunchRole \/ WorldReconnectRole \/ WorldLogoutRole \/ WorldClientQuit
         \/ WorldAnswered \/ WorldIgnores \/ WorldOnFrame
    /\ UNCHANGED <<gateVars, gameVars, faults>>

\* on_frame of the rpc manager: every 15 seconds it gives up the calls whose
\* deadline lies ahead, that is, any call in flight.
WorldExpire ==
    /\ SpendFault
    /\ \E cb \in wcalls : WorldCallback(NoLink, cb, "expired")
    /\ UNCHANGED <<gateVars, gameVars>>

-----------------------------------------------------------------------------
(* The gates. *)

GateClientStep ==
    /\ \E c \in Clients :
          \/ OnNewCnn(c) \/ ReqUserLogin(c) \/ UserLoginOver(c)
          \/ \E r \in Roles : ReqLaunchRole(c, r) \/ ReqReconnect(c, r)
          \/ ReconnectAuthed(c) \/ ReqLogoutRole(c)
          \/ OnCloseCnn(c)
    /\ UNCHANGED <<worldVars, gameVars, faults>>

GateRuns(in, cb, err, s) ==
    /\ gcalls' = gcalls \ {cb}
    /\ GateCallback(cb[1], cb[2], cb[4], err, s)
    /\ Deliver(in, GateOf[cb[2]], <<>>)
    /\ UNCHANGED <<worldVars, gameVars>>

GateAnswered ==
    /\ \E cb \in gcalls, err \in Errors, s \in IdOrNil :
          /\ Arrives(World, GateOf[cb[2]], Answer(GateOf[cb[2]], cb, err, s))
          /\ GateRuns(<<World, GateOf[cb[2]]>>, cb, err, s)
    /\ UNCHANGED faults

\* The second answer to a call, or one that came too late, is ignored.
GateIgnores ==
    \E gate \in Gates :
        /\ net[<<World, gate>>] # <<>>
        /\ Head(net[<<World, gate>>]).fn = "rsp"
        /\ Head(net[<<World, gate>>]).cb \notin gcalls
        /\ Deliver(<<World, gate>>, gate, <<>>)
        /\ UNCHANGED <<gateVars, worldVars, gameVars, faults>>

GateKicks ==
    /\ \E c \in Clients :
          /\ Arrives(World, GateOf[c], Kick(c))
          /\ OnKickClient(<<World, GateOf[c]>>, c)
    /\ UNCHANGED <<worldVars, gameVars, faults>>

GateExpire ==
    /\ SpendFault
    /\ \E cb \in gcalls : GateRuns(NoLink, cb, "expired", 0)

-----------------------------------------------------------------------------
(* The game services. *)

GameLaunchRole ==
    \E g \in Games, r \in Roles, s \in Ids :
        /\ Arrives(World, g, Call(g, "launch_role", <<r>>, LaunchCb(s, r)))
        /\ LuanchRole(<<World, g>>, g, LaunchCb(s, r), r)

GameDbRsp == \E g \in Games : \E load \in loads[g] : DbRspLaunchRole(g, load[1], load[2])

GameClientChange ==
    \E g \in Games, r \in Roles, c \in Clients \cup {None} :
        /\ net[<<World, g>>] # <<>>
        /\ LET cb == Head(net[<<World, g>>]).cb IN
           /\ Arrives(World, g, ChangeClient(g, r, c, cb))
           /\ ClientChange(<<World, g>>, g, cb, r, c)

GameReleaseRole ==
    \E g \in Games, r \in Roles, opera \in Ids :
        /\ Arrives(World, g, Call(g, "release_role", <<r>>, ReleaseCb(r, opera)))
        /\ ReleaseRole(<<World, g>>, g, ReleaseCb(r, opera), r)

GameStep ==
    /\ GameLaunchRole \/ GameDbRsp \/ GameClientChange \/ GameReleaseRole
    /\ UNCHANGED <<gateVars, worldVars, faults>>

-----------------------------------------------------------------------------
Break ==
    /\ \E l \in Links : Disconnect(l)
    /\ UNCHANGED <<gateVars, worldVars, gameVars>>

Next ==
    \/ World_Step \/ WorldExpire
    \/ GateClientStep \/ GateAnswered \/ GateIgnores \/ GateKicks \/ GateExpire
    \/ GameStep
    \/ Break

Spec == Init /\ [][Next]_vars
=============================================================================
