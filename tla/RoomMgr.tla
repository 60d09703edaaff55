------------------------------- MODULE RoomMgr -------------------------------
(***************************************************************************)
(* The room service (services/room/service_logics/room_mgr): rooms of roles *)
(* that were matched, from the fight that is found for them until it is     *)
(* over.  A room that was released has no record here, though closures may  *)
(* still hold it.                                                          *)
(***************************************************************************)
EXTENDS MatchNet

VARIABLES
  rooms,   \* _id_to_room: state, the sessions of the roles, who is bound where
  rcalls   \* calls under way

roomVars == <<rooms, rcalls>>

FightCb(k, members) == <<"apply_fight", k, members>>
StartCb(k)          == <<"start_fight", k>>

RInit == rooms = <<>> /\ rcalls = {}

With(k, room) == [j \in DOMAIN rooms \cup {k} |-> IF j = k THEN room ELSE rooms[j]]
Without(k) == [j \in DOMAIN rooms \ {k} |-> rooms[j]]

\* Calls without callback to the roles of room k that are bound, which a Lua
\* table holds in any order.
SessionIn(k, r) == CHOOSE s \in rooms[k].members : RoleOf(s) = r
Notices(k, fn) ==
  {[i \in DOMAIN order |-> Call(order[i][2], fn, <<k, SessionIn(k, order[i][1])>>, NoCb)] :
     order \in SetToSeqs(rooms[k].bound)}

\* Without a fight service that is known the room is refused.
OnApplyRoom(k, members) ==
  /\ \/ /\ rcalls' = rcalls \cup {FightCb(k, members)}
        /\ Deliver(<<Match, Room>>, Room, <<Call(Fight, "apply_fight", <<k>>, FightCb(k, members))>>)
     \/ /\ Deliver(<<Match, Room>>, Room, <<Answer(Match, ApplyCb(k), FALSE)>>)
        /\ UNCHANGED rcalls
  /\ UNCHANGED rooms

CbApplyFight(in, k, members, ok) ==
  /\ FightCb(k, members) \in rcalls
  /\ rcalls' = rcalls \ {FightCb(k, members)}
  /\ rooms' = IF ok THEN With(k, [state |-> "wait_roles_ready", members |-> members, bound |-> {}])
              ELSE rooms
  /\ Deliver(in, Room, <<Answer(Match, ApplyCb(k), ok)>>)

BindRsp(g, cb, s, bound, started) ==
  Answer(g, cb, [session |-> s, bound |-> bound, started |-> started])

OnBindRoom(g, k, s, cb) ==
  IF k \in DOMAIN rooms /\ s \in rooms[k].members
  THEN LET bound == {b \in rooms[k].bound : b[1] # RoleOf(s)} \cup {<<RoleOf(s), g>>}
           ready == rooms[k].state = "wait_roles_ready"
                      /\ \A m \in rooms[k].members : \E b \in bound : b[1] = RoleOf(m)
           rsp   == BindRsp(g, cb, s, TRUE, rooms[k].state = "fighting")
       IN /\ rooms' = [rooms EXCEPT ![k].bound = bound,
                                    ![k].state = IF ready THEN "roles_ready" ELSE @]
          /\ rcalls' = IF ready THEN rcalls \cup {StartCb(k)} ELSE rcalls
          /\ Deliver(<<g, Room>>, Room,
                     <<rsp>> \o IF ready THEN <<Call(Fight, "start_fight", <<k>>, StartCb(k))>> ELSE <<>>)
  ELSE /\ Deliver(<<g, Room>>, Room, <<BindRsp(g, cb, s, FALSE, FALSE)>>)
       /\ UNCHANGED roomVars

CbStartFight(in, k, ok) ==
  /\ StartCb(k) \in rcalls
  /\ rcalls' = rcalls \ {StartCb(k)}
  /\ \/ /\ k \in DOMAIN rooms /\ rooms[k].state = "roles_ready" /\ ok
        /\ rooms' = [rooms EXCEPT ![k].state = "fighting"]
        /\ \E outs \in Notices(k, "notify_fight_start") : Deliver(in, Room, outs)
     \/ /\ k \in DOMAIN rooms /\ rooms[k].state = "roles_ready" /\ ~ok
        /\ rooms' = Without(k)
        /\ \E outs \in Notices(k, "notify_terminate_room") : Deliver(in, Room, outs)
     \/ /\ k \in DOMAIN rooms => rooms[k].state # "roles_ready"
        /\ Deliver(in, Room, <<>>)
        /\ UNCHANGED rooms

\* Mutant: the roles of the room are not told.
NotifyFightBattleOverUntold(k) ==
  /\ rooms' = IF k \in DOMAIN rooms THEN Without(k) ELSE rooms
  /\ Deliver(<<Fight, Room>>, Room, <<>>)
  /\ UNCHANGED rcalls

NotifyFightBattleOver(k) ==
  /\ IF k \in DOMAIN rooms
     THEN /\ rooms' = Without(k)
          /\ \E outs \in Notices(k, "notify_end_room") : Deliver(<<Fight, Room>>, Room, outs)
     ELSE /\ Deliver(<<Fight, Room>>, Room, <<>>)
          /\ UNCHANGED rooms
  /\ UNCHANGED rcalls

\* A room whose roles are not all bound in time is removed.  The handler means to
\* tell those that are, but passes the name of the remote function where the
\* callback goes, and dies.
CheckRemoveWaitRoleReadyExpireRooms(k) ==
  /\ k \in DOMAIN rooms /\ rooms[k].state = "wait_roles_ready"
  /\ rooms' = Without(k)
  /\ aborted' = IF rooms[k].bound = {} THEN aborted
                ELSE aborted \cup {<<"room_mgr.lua:41", k>>}
  /\ UNCHANGED <<rcalls, net>>
=============================================================================
