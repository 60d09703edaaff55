----------------------------- MODULE MatchFight -----------------------------
(* What the matching of roles promises. *)
EXTENDS MatchSystem

ObjType ==
  [role : Roles, game : Games,
   match : {"free", "joining", "matching", "wait_enter_room"}, session : {None} \cup Sessions,
   room : {"free", "try_enter_room", "in_room"}, room_session : {None} \cup Sessions,
   room_id : {None} \cup Rooms, started : BOOLEAN, binds : Nat]

\* Types of the services' state.
TypeOK ==
  /\ objs \in Seq(ObjType) /\ in_game \in [Roles -> 0..Len(objs)]
  /\ drawn \in 0..MaxJoin
  /\ \A cb \in gcalls : cb[1] \in {"join", "bind"} /\ cb[2] \in DOMAIN objs
  /\ mroles \in [Roles -> {None} \cup [session : Sessions, game : Games, room : {None} \cup Rooms]]
  /\ cells \subseteq Sessions /\ waiting \subseteq Rooms /\ confirmed \subseteq Rooms
  /\ accepted \subseteq waiting \X Roles
  /\ \A cb \in mcalls : cb[1] \in {"notify_confirm_join_match", "apply_room"} /\ cb[2] \in Rooms
  /\ DOMAIN rooms \subseteq Rooms
  /\ \A k \in DOMAIN rooms :
       rooms[k] \in [state : {"wait_roles_ready", "roles_ready", "fighting"},
                     members : SUBSET Sessions, bound : SUBSET (Roles \X Games)]
  /\ \A cb \in rcalls : cb[1] \in {"apply_fight", "start_fight"} /\ cb[2] \in Rooms
  /\ fights \subseteq Rooms
  /\ trouble \in 0..MaxTrouble /\ broken \in BOOLEAN

\* A role the match service knows, and would refuse as matching already, is on
\* its way: its cell waits for mates, its room for its roles or for the room
\* service, however quits, rejoins and answers of older matches cross
\* (match_mgr__process_rpc.lua:22-57, room_mgr.lua:38-160).
RoleHeld ==
  \A r \in Roles :
    mroles[r] # None =>
      \/ mroles[r].session \in cells
      \/ mroles[r].room \in waiting
      \/ mroles[r].room \in confirmed
           /\ (ApplyCb(mroles[r].room) \in mcalls
                 \/ <<"room_mgr.lua:96", mroles[r].room>> \in aborted)

OverNotice(m, k, s) ==
  m.fn \in {"notify_end_room", "notify_terminate_room"} /\ m.args = <<k, s>>

\* A role that is in a room is in one the room service has and that will tell it
\* of the end, or is about to be told: unless the room ran out of time and the
\* handler died (room_mgr.lua:41), or a connection broke
\* (role_room.lua:46-107, room_mgr__process_rpc.lua:44-127).
InLiveRoom ==
  \A r \in Roles :
    LET o == in_game[r]
        k == objs[o].room_id
        s == objs[o].room_session
        g == objs[o].game
    IN
    (o # 0 /\ objs[o].room = "in_room" /\ ~broken) =>
      \/ k \in DOMAIN rooms /\ s \in rooms[k].members /\ <<r, g>> \in rooms[k].bound
      \/ \E m \in ToSet(net[<<Room, g>>]) : OverNotice(m, k, s)
      \/ <<"room_mgr.lua:41", k>> \in aborted

\* A room comes to an end, whoever does not come, whatever call is given up, and
\* whether its fight was started or not (room_mgr.lua:30-48,
\* room_mgr__process_rpc.lua:76-127, fight_mgr.lua:36-52).
RoomEnds == \A k \in Rooms : k \in DOMAIN rooms ~> (k \notin DOMAIN rooms \/ broken)
=============================================================================
