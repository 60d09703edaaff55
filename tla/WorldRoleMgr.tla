---------------------------- MODULE WorldRoleMgr ----------------------------
(***************************************************************************)
(* The world service's RoleMgr (services/world/manage_role): which client  *)
(* session owns a role, on which game service the role lives, and when it  *)
(* is released.  Role tables are Lua objects shared by two indexes and by  *)
(* the closures of outstanding calls, so they live in a heap, objs, named  *)
(* by the session id that created them.                                    *)
(*                                                                         *)
(* A handler that dies of a Lua error keeps what it did before the error   *)
(* (common/msg_handler calls it under safe_call) and adds the line to      *)
(* aborted.                                                                *)
(***************************************************************************)
EXTENDS RoleNet

VARIABLES
    objs,               \* the heap of role tables
    role_id_to_role,    \* main index: role id -> object, 0 when absent
    session_id_to_role, \* auxiliary index: session id -> object, 0 when absent
    last_session_id,
    last_opera_id,
    wcalls,             \* req_list: closures of the calls still awaited
    aborted             \* lines at which a handler died of a Lua error

worldVars == <<objs, role_id_to_role, session_id_to_role, last_session_id,
               last_opera_id, wcalls, aborted>>

RoleStates == {"launch", "using", "idle", "releasing", "released"}

\* gate stands for gate_client and gate_client_netid, which the code always
\* assigns together; cached for cached_launch_rsp, the closure at the gate
\* that the cached answer will run.
Tokens == {TokenOf[c] : c \in Clients}
LaunchRsps == {GateCb("launch", c, n, r) : c \in Clients, n \in CallIds, r \in Roles}

RoleObj == [role : Roles, state : RoleStates, session : IdOrNil,
            gate : Clients \cup {None}, token : Tokens, cached : LaunchRsps \cup {None},
            game : Games, operas : SUBSET Ids]

ASSUME NilAssumption == None \notin RoleObj \cup LaunchRsps

\* The closures of the world's calls.  The second names the role table that
\* the Lua closure captured, the last also the answer it owes the gate.
LaunchCb(s, r)          == <<"_rpc_rsp_launch_role", s, r>>
ChangeCb(o)             == <<"launch_client_change", o>>
ReleaseCb(r, opera)     == <<"_rpc_rsp_try_release_role", r, opera>>
ReconnectCb(rsp, s, o)  == <<"_reconnect_role_game_change_client_cb", rsp, s, o>>

WorldCbs ==
    {LaunchCb(s, r) : s \in Ids, r \in Roles} \cup {ChangeCb(o) : o \in Ids}
    \cup {ReleaseCb(r, i) : r \in Roles, i \in Ids}
    \cup {ReconnectCb(GateCb("reconnect", c, n, r), s, o) :
            c \in Clients, n \in CallIds, r \in Roles, s \in Ids, o \in Ids}

\* The lines whose failure the handlers can meet: a nil cached answer, a nil
\* session used as a table key, the undefined service_info, a nil client, the
\* assertion of client_quit, a nil role.
AbortLines == {157, 162, 202, 208, 219, 221, 229, 234, 244, 257, 308, 340}

WTypeOK ==
    /\ objs \in [Ids -> RoleObj \cup {None}]
    /\ role_id_to_role \in [Roles -> IdOrNil]
    /\ session_id_to_role \in [Ids -> IdOrNil]
    /\ last_session_id \in IdOrNil
    /\ last_opera_id \in IdOrNil
    /\ wcalls \subseteq WorldCbs
    /\ aborted \subseteq AbortLines

WInit ==
    /\ objs = [o \in Ids |-> None]
    /\ role_id_to_role = [r \in Roles |-> 0]
    /\ session_id_to_role = [s \in Ids |-> 0]
    /\ last_session_id = 0
    /\ last_opera_id = 0
    /\ wcalls = {}
    /\ aborted = {}

-----------------------------------------------------------------------------
(* What the handlers send. *)

\* rpc_rsp:respone(err, game, session) to the gate whose closure is rsp
Reply(rsp, err, s) == Answer(GateOf[rsp[2]], rsp, err, s)
Kick(c) == Call(GateOf[c], "kick_client", <<c>>, NoCb)
\* client_change(role_id, is_disconnect, gate key, netid); None disconnects
ChangeClient(g, r, c, cb) == Call(g, "client_change", <<r, c>>, cb)

\* An index with some of its keys cleared.
\* (UnmapNothing and the other operators marked "slip" are variants the code
\* does not have: each is a mistake one of the properties catches.)
UnmapNothing(index, keys) == index      \* slip
Unmap(index, keys) == [k \in DOMAIN index |-> IF k \in keys THEN 0 ELSE index[k]]

Lives(r) == role_id_to_role[r] # 0
RoleOf(r) == objs[role_id_to_role[r]]
\* A role table whose client has left, in the given state.
DetachedFree(role, state) ==            \* slip
    [role EXCEPT !.session = 0, !.gate = None, !.state = "free"]
DetachedKeepsClient(role, state) ==     \* slip
    [role EXCEPT !.session = 0, !.state = state]
Detached(role, state) ==
    [role EXCEPT !.session = 0, !.gate = None, !.state = state]

\* The session of role r, 0 when the role is not in memory or has none.
SessionOf(r) == IF Lives(r) THEN RoleOf(r).session ELSE 0

\* The kick of the client that has role r now, if any.
KickOfNobody(r) == <<>>                 \* slip
KickOf(r) == IF RoleOf(r).gate = None THEN <<>> ELSE <<Kick(RoleOf(r).gate)>>

-----------------------------------------------------------------------------
(***************************************************************************)
(* launch_role: closure rsp of client c asks to play role r.  One action   *)
(* per state of the role.                                                  *)
(***************************************************************************)

\* The role is not in memory: create its table and have a game service,
\* chosen at random among those connected, load it.
LaunchAbsent(in, rsp, c, r) ==
    /\ ~ Lives(r)
    /\ \/ /\ Deliver(in, World, <<Reply(rsp, "refused", 0)>>)  \* no_valid_game_service
          /\ UNCHANGED worldVars
       \/ \E g \in Games :
            LET s == last_session_id + 1 IN
            /\ s \in Ids
            /\ last_session_id' = s
            /\ objs' = [objs EXCEPT ![s] =
                   [role |-> r, state |-> "launch", session |-> s, gate |-> c,
                    token |-> TokenOf[c], cached |-> rsp, game |-> g, operas |-> {}]]
            /\ role_id_to_role' = [role_id_to_role EXCEPT ![r] = s]
            /\ session_id_to_role' = [session_id_to_role EXCEPT ![s] = s]
            /\ wcalls' = wcalls \cup {LaunchCb(s, r)}
            /\ Deliver(in, World, <<Call(g, "launch_role", <<r>>, LaunchCb(s, r))>>)
            /\ UNCHANGED <<last_opera_id, aborted>>

LaunchReleasing(in, rsp, c, r) ==
    /\ Lives(r) /\ RoleOf(r).state = "releasing"
    /\ Deliver(in, World, <<Reply(rsp, "refused", 0)>>)
    /\ UNCHANGED worldVars

\* An idle role is answered at once with a new session; the handler then
\* falls into the branch for roles in use, which takes another new session
\* (its answer is dropped: rpc_rsp is already answered) and finds no client
\* to kick (IdleDetached).
LaunchIdle(in, rsp, c, r) ==
    /\ Lives(r) /\ RoleOf(r).state = "idle"
    /\ LET o == role_id_to_role[r]
           answered == last_session_id + 1
           s == last_session_id + 2
       IN /\ s \in Ids
          /\ last_session_id' = s
          /\ objs' = [objs EXCEPT ![o].state = "using", ![o].session = s,
                                  ![o].gate = c, ![o].token = TokenOf[c]]
          /\ session_id_to_role' = [Unmap(session_id_to_role, {RoleOf(r).session})
                                      EXCEPT ![s] = o]
          /\ Deliver(in, World, <<Reply(rsp, "ok", answered),
                                  ChangeClient(RoleOf(r).game, r, c, NoCb)>>)
    /\ UNCHANGED <<role_id_to_role, last_opera_id, wcalls, aborted>>

\* A role in use changes hands: its client is kicked, unless it is the very
\* client that asks again.
LaunchUsing(in, rsp, c, r) ==
    /\ Lives(r) /\ RoleOf(r).state = "using"
    /\ LET o == role_id_to_role[r]
           old == RoleOf(r).session
           change == ChangeClient(RoleOf(r).game, r, c, NoCb)
       IN \/ /\ RoleOf(r).gate = c
             /\ objs' = [objs EXCEPT ![o].token = TokenOf[c]]
             /\ session_id_to_role' = [session_id_to_role EXCEPT ![old] = o]
             /\ Deliver(in, World, <<Reply(rsp, "refused", 0), change>>)
             /\ UNCHANGED last_session_id
          \/ LET s == last_session_id + 1
             IN /\ RoleOf(r).gate # c
                /\ s \in Ids
                /\ last_session_id' = s
                /\ objs' = [objs EXCEPT ![o].session = s, ![o].gate = c,
                                        ![o].token = TokenOf[c]]
                /\ session_id_to_role' =
                     [Unmap(session_id_to_role, {old}) EXCEPT ![s] = o]
                /\ Deliver(in, World, KickOf(r) \o <<Reply(rsp, "ok", s), change>>)
    /\ UNCHANGED <<role_id_to_role, last_opera_id, wcalls, aborted>>

\* A role being launched: the newcomer takes over the cached answer and a
\* new session, and the handler dies at service_info.key (line 162: the
\* local of that name belongs to the other branch) before it records the
\* newcomer's gate or indexes its session.
LaunchLaunching(in, rsp, c, r) ==
    /\ Lives(r) /\ RoleOf(r).state = "launch"
    /\ LET o == role_id_to_role[r]
           old == RoleOf(r).session
       IN \/ /\ RoleOf(r).gate = c
             /\ objs' = [objs EXCEPT ![o].token = TokenOf[c]]
             /\ session_id_to_role' = [session_id_to_role EXCEPT ![old] = o]
             /\ Deliver(in, World, <<Reply(rsp, "refused", 0)>>)
             /\ UNCHANGED <<last_session_id, aborted>>
          \/ /\ RoleOf(r).gate # c /\ RoleOf(r).cached = None
             /\ aborted' = aborted \cup {157}
             /\ Deliver(in, World, <<>>)
             /\ UNCHANGED <<objs, last_session_id, session_id_to_role>>
          \/ LET s == last_session_id + 1 IN
             /\ RoleOf(r).gate # c /\ RoleOf(r).cached # None
             /\ s \in Ids
             /\ last_session_id' = s
             /\ objs' = [objs EXCEPT ![o].cached = rsp, ![o].session = s]
             /\ aborted' = aborted \cup {162}
             /\ Deliver(in, World, <<Reply(RoleOf(r).cached, "refused", 0)>>)
             /\ UNCHANGED session_id_to_role
    /\ UNCHANGED <<role_id_to_role, last_opera_id, wcalls>>

LaunchRole(in, rsp, c, r) ==
    \/ LaunchAbsent(in, rsp, c, r)
    \/ LaunchReleasing(in, rsp, c, r)
    \/ LaunchIdle(in, rsp, c, r)
    \/ LaunchUsing(in, rsp, c, r)
    \/ LaunchLaunching(in, rsp, c, r)

-----------------------------------------------------------------------------
(***************************************************************************)
(* The game service answered launch_role (or the call expired).            *)
(***************************************************************************)

\* fail_action of object o: the role is forgotten.  Its rpc answer fails on
\* a nil cached_launch_rsp, its index removal on a nil session.
FailAction(o, in, err) ==
    LET role == objs[o] IN
    \/ /\ role.cached = None
       /\ aborted' = aborted \cup {219}
       /\ Deliver(in, World, <<>>)
       /\ UNCHANGED <<objs, session_id_to_role, role_id_to_role>>
    \/ /\ role.cached # None
       /\ objs' = [objs EXCEPT ![o].cached = None]
       /\ Deliver(in, World, <<Reply(role.cached, err, 0)>>)
       /\ IF role.session = 0
          THEN /\ aborted' = aborted \cup {221}
               /\ UNCHANGED <<session_id_to_role, role_id_to_role>>
          ELSE /\ session_id_to_role' = Unmap(session_id_to_role, {role.session})
               /\ role_id_to_role' = Unmap(role_id_to_role, {role.role})
               /\ UNCHANGED aborted

\* try_release_role(r), called inside handlers, with heap as they left it:
\* the call goes out under a fresh opera id.
Releasing(heap, r) ==
    [heap EXCEPT ![role_id_to_role[r]].state = "releasing",
                 ![role_id_to_role[r]].operas = @ \cup {last_opera_id + 1}]
ReleaseCall(r) ==
    Call(RoleOf(r).game, "release_role", <<r>>, ReleaseCb(r, last_opera_id + 1))
TryReleaseRole(heap, calls, r) ==
    /\ last_opera_id + 1 \in Ids
    /\ objs' = Releasing(heap, r)
    /\ last_opera_id' = last_opera_id + 1
    /\ wcalls' = calls \cup {ReleaseCb(r, last_opera_id + 1)}

RpcRspLaunchRole(in, s, r, err) ==
    /\ LaunchCb(s, r) \in wcalls
    /\ LET calls == wcalls \ {LaunchCb(s, r)}
           o == role_id_to_role[r]
       IN \/ /\ SessionOf(r) = 0                             \* client_quit came first
             /\ wcalls' = calls
             /\ Deliver(in, World, <<>>)
             /\ UNCHANGED <<objs, role_id_to_role, session_id_to_role, last_opera_id, aborted>>
          \/ /\ SessionOf(r) \notin {0, s}                   \* taken over
             /\ wcalls' = calls
             /\ IF RoleOf(r).cached = None
                THEN aborted' = aborted \cup {202} /\ Deliver(in, World, <<>>)
                ELSE /\ Deliver(in, World, <<Reply(RoleOf(r).cached, "refused", 0)>>)
                     /\ UNCHANGED aborted
             /\ UNCHANGED <<objs, role_id_to_role, session_id_to_role, last_opera_id>>
          \/ /\ SessionOf(r) = s /\ RoleOf(r).state # "launch"
             /\ RoleOf(r).cached = None
             /\ aborted' = aborted \cup {208}
             /\ wcalls' = calls
             /\ Deliver(in, World, <<>>)
             /\ UNCHANGED <<objs, role_id_to_role, session_id_to_role, last_opera_id>>
          \/ /\ SessionOf(r) = s /\ RoleOf(r).state # "launch"
             /\ RoleOf(r).cached # None
             /\ TryReleaseRole(objs, calls, r)
             /\ Deliver(in, World, <<Reply(RoleOf(r).cached, "refused", 0)>>
                   \o KickOf(r)
                   \o <<ReleaseCall(r)>>)
             /\ UNCHANGED <<role_id_to_role, session_id_to_role, aborted>>
          \/ /\ SessionOf(r) = s /\ RoleOf(r).state = "launch"
             /\ err = "ok" /\ RoleOf(r).gate # None
             /\ wcalls' = calls \cup {ChangeCb(o)}
             /\ Deliver(in, World,
                   <<ChangeClient(RoleOf(r).game, r, RoleOf(r).gate, ChangeCb(o))>>)
             /\ UNCHANGED <<objs, role_id_to_role, session_id_to_role, last_opera_id, aborted>>
          \/ /\ SessionOf(r) = s /\ RoleOf(r).state = "launch"
             /\ err = "ok" /\ RoleOf(r).gate = None
             /\ aborted' = aborted \cup {234}
             /\ wcalls' = calls
             /\ Deliver(in, World, <<>>)
             /\ UNCHANGED <<objs, role_id_to_role, session_id_to_role, last_opera_id>>
          \/ /\ SessionOf(r) = s /\ RoleOf(r).state = "launch"
             /\ err # "ok"
             /\ wcalls' = calls
             /\ FailAction(o, in, err)
             /\ UNCHANGED last_opera_id
    /\ UNCHANGED last_session_id

\* The game service took the client: the launch is complete.  The callback
\* trusts the role table it captured and checks neither session nor state.
LaunchClientChanged(in, o, err) ==
    /\ ChangeCb(o) \in wcalls
    /\ wcalls' = wcalls \ {ChangeCb(o)}
    /\ \/ /\ err = "ok" /\ objs[o].cached # None
          /\ objs' = [objs EXCEPT ![o].state = "using", ![o].cached = None]
          /\ Deliver(in, World, <<Reply(objs[o].cached, "ok", objs[o].session)>>)
          /\ UNCHANGED <<role_id_to_role, session_id_to_role, aborted>>
       \/ /\ err = "ok" /\ objs[o].cached = None
          /\ objs' = [objs EXCEPT ![o].state = "using"]
          /\ aborted' = aborted \cup {229}
          /\ Deliver(in, World, <<>>)
          /\ UNCHANGED <<role_id_to_role, session_id_to_role>>
       \/ err # "ok" /\ FailAction(o, in, "refused")
    /\ UNCHANGED <<last_session_id, last_opera_id>>

-----------------------------------------------------------------------------
(***************************************************************************)
(* The gate lost the client, or the client leaves the role.                *)
(***************************************************************************)

\* client_quit(session_id); 0 when the gate has no session to name.
ClientQuit(in, s) ==
    LET o == IF s = 0 THEN 0 ELSE session_id_to_role[s]
        cleared(state) == [objs EXCEPT ![o] = Detached(@, state)]
        disconnect == ChangeClient(objs[o].game, objs[o].role, None, NoCb)
    IN /\ \/ /\ o = 0
             /\ Deliver(in, World, <<>>)
             /\ UNCHANGED <<objs, role_id_to_role, session_id_to_role, aborted>>
          \/ /\ o # 0 /\ objs[o].session = 0           \* a stale entry of the index
             /\ aborted' = aborted \cup {244}
             /\ Deliver(in, World, <<>>)
             /\ UNCHANGED <<objs, role_id_to_role, session_id_to_role>>
          \/ /\ o # 0 /\ objs[o].session # 0 /\ objs[o].state \in {"using", "launch"}
             /\ objs' = cleared(IF objs[o].state = "using" THEN "idle" ELSE "launch")
             /\ session_id_to_role' = Unmap(session_id_to_role, {objs[o].session})
             /\ Deliver(in, World, <<disconnect>>)
             /\ UNCHANGED <<role_id_to_role, aborted>>
          \/ /\ o # 0 /\ objs[o].session # 0             \* should not reach here
             /\ objs[o].state \notin {"using", "launch"}
             /\ objs' = cleared(objs[o].state)
             /\ session_id_to_role' = Unmap(session_id_to_role, {objs[o].session})
             /\ role_id_to_role' = Unmap(role_id_to_role, {objs[o].role})
             /\ aborted' = aborted \cup {257}
             /\ Deliver(in, World, <<>>)
       /\ UNCHANGED <<last_session_id, last_opera_id, wcalls>>

\* logout_role(session_id, role_id)
LogoutRole(in, rsp, s, r) ==
    LET o == IF s = 0 THEN 0 ELSE session_id_to_role[s]
        cleared == [objs EXCEPT ![o] = Detached(@, @.state)]
    IN /\ \/ /\ o = 0                                       \* nothing to do: Error_None
             /\ Deliver(in, World, <<Reply(rsp, "ok", 0)>>)
             /\ UNCHANGED <<objs, session_id_to_role, last_opera_id, wcalls, aborted>>
          \/ /\ o # 0 /\ objs[o].role # r                     \* not_match_role
             /\ Deliver(in, World, <<Reply(rsp, "refused", 0)>>)
             /\ UNCHANGED <<objs, session_id_to_role, last_opera_id, wcalls, aborted>>
          \/ /\ o # 0 /\ objs[o].role = r /\ objs[o].session = 0
             /\ aborted' = aborted \cup {340}                 \* a stale entry
             /\ Deliver(in, World, <<>>)
             /\ UNCHANGED <<objs, session_id_to_role, last_opera_id, wcalls>>
          \/ /\ o # 0 /\ objs[o].role = r /\ objs[o].session # 0
             /\ session_id_to_role' = Unmap(session_id_to_role, {objs[o].session})
             /\ IF Lives(r)
                THEN /\ TryReleaseRole(cleared, wcalls, r)
                     /\ Deliver(in, World, <<ReleaseCall(r), Reply(rsp, "ok", 0)>>)
                ELSE /\ objs' = cleared
                     /\ Deliver(in, World, <<Reply(rsp, "ok", 0)>>)
                     /\ UNCHANGED <<last_opera_id, wcalls>>
             /\ UNCHANGED aborted
       /\ UNCHANGED <<role_id_to_role, last_session_id>>

-----------------------------------------------------------------------------
(* Release. *)

\* on_frame finds role r idle for more than Idle_Role_Hold_Max_Sec.  (Its
\* other half, the forced removal of a role that will not release, tests
\* fields of the manager that nothing assigns, so it never runs.)
OnFrameAnyState(r) ==                   \* slip
    /\ Lives(r) /\ TryReleaseRole(objs, wcalls, r)
    /\ Deliver(NoLink, World, <<ReleaseCall(r)>>)
    /\ UNCHANGED <<role_id_to_role, session_id_to_role, last_session_id, aborted>>
OnFrame(r) ==
    /\ Lives(r) /\ RoleOf(r).state = "idle"
    /\ TryReleaseRole(objs, wcalls, r)
    /\ Deliver(NoLink, World, <<ReleaseCall(r)>>)
    /\ UNCHANGED <<role_id_to_role, session_id_to_role, last_session_id, aborted>>

\* The game service released the role, or the call failed and is tried again.
RpcRspTryReleaseRole(in, r, opera, err) ==
    /\ ReleaseCb(r, opera) \in wcalls
    /\ LET calls == wcalls \ {ReleaseCb(r, opera)}
           o == role_id_to_role[r]
       IN \/ /\ ~ Lives(r)                                  \* role is nil
             /\ aborted' = aborted \cup {308}
             /\ wcalls' = calls
             /\ Deliver(in, World, <<>>)
             /\ UNCHANGED <<objs, role_id_to_role, session_id_to_role, last_opera_id>>
          \/ /\ Lives(r)
             /\ opera \notin RoleOf(r).operas \/ RoleOf(r).state # "releasing"
             /\ wcalls' = calls
             /\ Deliver(in, World, <<>>)
             /\ UNCHANGED <<objs, role_id_to_role, session_id_to_role, last_opera_id, aborted>>
          \/ /\ Lives(r) /\ opera \in RoleOf(r).operas /\ RoleOf(r).state = "releasing"
             /\ err # "ok"
             /\ TryReleaseRole(objs, calls, r)
             /\ Deliver(in, World, <<ReleaseCall(r)>>)
             /\ UNCHANGED <<role_id_to_role, session_id_to_role, aborted>>
          \/ /\ Lives(r) /\ opera \in RoleOf(r).operas /\ RoleOf(r).state = "releasing"
             /\ err = "ok"
             /\ objs' = [objs EXCEPT ![o].state = "released"]
             /\ session_id_to_role' = Unmap(session_id_to_role, {RoleOf(r).session})
             /\ role_id_to_role' = Unmap(role_id_to_role, {r})
             /\ wcalls' = calls
             /\ Deliver(in, World, <<>>)
             /\ UNCHANGED <<last_opera_id, aborted>>
    /\ UNCHANGED last_session_id

-----------------------------------------------------------------------------
(***************************************************************************)
(* reconnect_role: only an idle role whose token fits is handed over; its  *)
(* session id is drawn from the counter of opera ids.  A refusal is never  *)
(* answered (error_num is reset before the test that would answer it).     *)
(***************************************************************************)
ReconnectRole(in, rsp, c, r) ==
    /\ \/ /\ \/ ~ Lives(r)
             \/ Lives(r) /\ RoleOf(r).token # TokenOf[c]
             \/ Lives(r) /\ RoleOf(r).state # "idle"
          /\ Deliver(in, World, <<>>)
          /\ UNCHANGED <<objs, session_id_to_role, last_opera_id, wcalls>>
       \/ LET o == role_id_to_role[r]
              s == last_opera_id + 1
          IN /\ Lives(r) /\ RoleOf(r).token = TokenOf[c] /\ RoleOf(r).state = "idle"
             /\ s \in Ids
             /\ last_opera_id' = s
             /\ objs' = [objs EXCEPT ![o].state = "using", ![o].session = s, ![o].gate = c]
             /\ session_id_to_role' = [session_id_to_role EXCEPT ![s] = o]
             /\ wcalls' = wcalls \cup {ReconnectCb(rsp, s, o)}
             /\ Deliver(in, World,
                   <<ChangeClient(RoleOf(r).game, r, c, ReconnectCb(rsp, s, o))>>)
    /\ UNCHANGED <<role_id_to_role, last_session_id, aborted>>

\* The game service took the reconnecting client, or did not.
ReconnectClientChanged(in, rsp, s, o, err) ==
    /\ ReconnectCb(rsp, s, o) \in wcalls
    /\ wcalls' = wcalls \ {ReconnectCb(rsp, s, o)}
    /\ LET ok == err = "ok" /\ objs[o].state = "using" IN
       \/ /\ objs[o].session # s                      \* the role changed hands meanwhile
          /\ Deliver(in, World, <<Reply(rsp, "refused", 0)>>)
          /\ UNCHANGED <<objs, session_id_to_role>>
       \/ /\ objs[o].session = s /\ ok
          /\ Deliver(in, World, <<Reply(rsp, "ok", s)>>)
          /\ UNCHANGED <<objs, session_id_to_role>>
       \/ /\ objs[o].session = s /\ ~ ok
          /\ objs' = [objs EXCEPT ![o] =
                        Detached(@, IF @.state = "using" THEN "idle" ELSE @.state)]
          /\ session_id_to_role' = Unmap(session_id_to_role, {s})
          /\ Deliver(in, World, <<Reply(rsp, "refused", 0)>>)
    /\ UNCHANGED <<role_id_to_role, last_session_id, last_opera_id, aborted>>
=============================================================================
