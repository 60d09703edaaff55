------------------------------ MODULE RoleMatch ------------------------------
(***************************************************************************)
(* The match and the room module of a role on its game service              *)
(* (services/game/service_logics/role_mgr/role_modules).  A callback keeps  *)
(* the module it belongs to, so the modules of a role that was released     *)
(* live on in closures; a role that is launched again has new ones.         *)
(***************************************************************************)
EXTENDS MatchNet

VARIABLES
  objs,     \* the game roles ever made
  in_game,  \* the one of a role that is in game, or 0
  drawn,    \* uuids drawn
  gcalls    \* calls under way

gameVars == <<objs, in_game, drawn, gcalls>>

JoinCb(o, s) == <<"join", o, s>>
BindCb(o, n) == <<"bind", o, n>>  \* the n-th attempt

NewRole(r, g) ==
  [role |-> r, game |-> g,
   match |-> "free", session |-> None,  \* RoleMatch: state, match_session_id
   room |-> "free", room_session |-> None, room_id |-> None,  \* RoleRoom
   started |-> FALSE, binds |-> 0]

GInit ==
  /\ objs = <<>>
  /\ in_game = [r \in Roles |-> 0]
  /\ drawn = 0
  /\ gcalls = {}

\* The world has a game load or release the role.
Launch(r, g) ==
  /\ in_game[r] = 0
  /\ objs' = Append(objs, NewRole(r, g))
  /\ in_game' = [in_game EXCEPT ![r] = Len(objs) + 1]
  /\ UNCHANGED <<drawn, gcalls, net>>

Release(r) ==
  /\ in_game[r] # 0
  /\ Trouble
  /\ in_game' = [in_game EXCEPT ![r] = 0]
  /\ UNCHANGED <<objs, drawn, gcalls, net>>

\* The role's game role, if it is in game g.
InGame(g, r, o) == o # 0 /\ in_game[r] = o /\ objs[o].game = g

-----------------------------------------------------------------------------
(* RoleMatch. *)

ReqJoinMatch(r) ==
  LET o == in_game[r]
      s == <<r, drawn + 1>>
  IN
  /\ o # 0 /\ objs[o].match = "free"
  /\ drawn < MaxJoin
  /\ drawn' = drawn + 1
  /\ objs' = [objs EXCEPT ![o].match = "joining", ![o].session = s]
  /\ gcalls' = gcalls \cup {JoinCb(o, s)}
  /\ Deliver(NoLink, objs[o].game, <<Call(Match, "join_match", <<s>>, JoinCb(o, s))>>)
  /\ UNCHANGED in_game

\* An answer other than success leaves the role where it is: clearing its state
\* is commented out.
CbJoinMatch(in, o, s, ok) ==
  /\ gcalls' = gcalls \ {JoinCb(o, s)}
  /\ objs' = IF ok /\ objs[o].session = s /\ objs[o].match = "joining"
             THEN [objs EXCEPT ![o].match = "matching"] ELSE objs
  /\ Deliver(in, objs[o].game, <<>>)
  /\ UNCHANGED <<in_game, drawn>>

\* The answer names no session, so the callback never takes it for its own and
\* the role stays as it is.
ReqQuitMatch(r) ==
  LET o == in_game[r] IN
  /\ o # 0 /\ objs[o].match \in {"joining", "matching"}
  /\ Trouble
  /\ Deliver(NoLink, objs[o].game, <<Call(Match, "quit_match", <<r>>, NoCb)>>)
  /\ UNCHANGED <<objs, in_game, drawn, gcalls>>

NotifyConfirmJoinMatch(g, s, cb) ==
  LET o      == in_game[RoleOf(s)]
      accept == InGame(g, RoleOf(s), o) /\ objs[o].match = "matching" /\ objs[o].session = s
  IN
  /\ objs' = IF accept THEN [objs EXCEPT ![o].match = "wait_enter_room"] ELSE objs
  /\ Deliver(<<Match, g>>, g, <<Answer(Match, cb, accept)>>)
  /\ UNCHANGED <<in_game, drawn, gcalls>>

-----------------------------------------------------------------------------
(* RoleRoom. *)

BindCall(o, obj) == Call(Room, "bind_room", <<obj.room_id, obj.room_session>>, BindCb(o, obj.binds))

\* A role that is in a room when it is bound to the next one does not leave the
\* first: unbind_room compares with a field that nothing assigns.
NotifyMatchSucc(g, s, k) ==
  LET o       == in_game[RoleOf(s)]
      meant   == InGame(g, RoleOf(s), o) /\ objs[o].session = s
      obj     == [objs[o] EXCEPT !.match = "free", !.session = None, !.room = "try_enter_room",
                                 !.room_session = s, !.room_id = k, !.binds = @ + 1]
  IN
  /\ IF meant /\ objs[o].match = "wait_enter_room"
     THEN /\ objs' = [objs EXCEPT ![o] = obj]
          /\ gcalls' = gcalls \cup {BindCb(o, obj.binds)}
          /\ Deliver(<<Match, g>>, g, <<BindCall(o, obj)>>)
          /\ UNCHANGED aborted
     ELSE /\ Deliver(<<Match, g>>, g, <<>>)
          /\ aborted' = IF meant THEN aborted \cup {<<"role_mgr_rpc_handler__match.lua:47", s>>}
                        ELSE aborted
          /\ UNCHANGED <<objs, gcalls>>
  /\ UNCHANGED <<in_game, drawn>>

\* A bind that expired is tried again; one that failed or was refused is not
\* undone, for the same reason.
BindFailed(o, n) ==
  /\ gcalls' = gcalls \ {BindCb(o, n)}
  /\ Deliver(NoLink, objs[o].game, <<>>)
  /\ UNCHANGED <<objs, in_game, drawn>>

BindExpired(o, n) ==
  LET obj == [objs[o] EXCEPT !.binds = @ + 1] IN
  IF objs[o].room = "try_enter_room"
  THEN /\ objs' = [objs EXCEPT ![o] = obj]
       /\ gcalls' = (gcalls \ {BindCb(o, n)}) \cup {BindCb(o, obj.binds)}
       /\ Deliver(NoLink, obj.game, <<BindCall(o, obj)>>)
       /\ UNCHANGED <<in_game, drawn>>
  ELSE BindFailed(o, n)

\* What is answered: the session the call was made for, whether it is bound and
\* whether the fight has started.
CbBindRoom(in, o, n, rsp) ==
  /\ gcalls' = gcalls \ {BindCb(o, n)}
  /\ objs' = IF /\ rsp.bound
                /\ rsp.session = objs[o].room_session /\ objs[o].room = "try_enter_room"
             THEN [objs EXCEPT ![o].room = "in_room", ![o].started = rsp.started]
             ELSE objs
  /\ Deliver(in, objs[o].game, <<>>)
  /\ UNCHANGED <<in_game, drawn>>

\* The room's notices: the fight has started, the room has ended.
Noticed(g, k, s) ==
  LET o == in_game[RoleOf(s)] IN
  InGame(g, RoleOf(s), o) /\ objs[o].room_session = s /\ objs[o].room_id = k

NotifyFightStart(g, k, s) ==
  /\ objs' = IF Noticed(g, k, s) THEN [objs EXCEPT ![in_game[RoleOf(s)]].started = TRUE] ELSE objs
  /\ Deliver(<<Room, g>>, g, <<>>)
  /\ UNCHANGED <<in_game, drawn, gcalls>>

ResetRoom(obj) ==
  [obj EXCEPT !.room = "free", !.room_session = None, !.room_id = None, !.started = FALSE]

NotifyEndOrTerminateRoom(g, k, s) ==
  /\ objs' = IF Noticed(g, k, s) THEN [objs EXCEPT ![in_game[RoleOf(s)]] = ResetRoom(@)] ELSE objs
  /\ Deliver(<<Room, g>>, g, <<>>)
  /\ UNCHANGED <<in_game, drawn, gcalls>>
=============================================================================
