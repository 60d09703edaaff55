----------------------------- MODULE MatchSystem -----------------------------
(***************************************************************************)
(* The games, the match, the room and the fight service composed.  A step   *)
(* is one event of one service: a message, run to the end of its handler, a *)
(* request of a player, a timer, or a call given up.                        *)
(***************************************************************************)
EXTENDS RoleMatch, MatchMgr, RoomMgr, FightMgr

vars == <<netVars, gameVars, matchVars, roomVars, fights>>

Init == NetInit /\ GInit /\ MInit /\ RInit /\ FInit

\* The next message on a link.
NextOn(l) == Head(net[l])
Takes(l, fn) == net[l] # <<>> /\ NextOn(l).fn = fn

-----------------------------------------------------------------------------
(* Messages. *)

\* An answer to a call that was given up is ignored.
Ignores(l, calls) ==
  /\ Takes(l, "rsp") /\ NextOn(l).cb \notin calls
  /\ Deliver(l, l[2], <<>>)

GameHandles(g) ==
  /\ \/ LET l == <<Match, g>>
            m == NextOn(l)
        IN
          \/ /\ Takes(l, "notify_confirm_join_match")
             /\ NotifyConfirmJoinMatch(g, m.args[1], m.cb)
             /\ UNCHANGED aborted
          \/ /\ Takes(l, "notify_match_succ")
             /\ NotifyMatchSucc(g, m.args[1], m.args[2])
          \/ /\ Takes(l, "rsp") /\ m.cb \in gcalls
             /\ CbJoinMatch(l, m.cb[2], m.cb[3], m.args)
             /\ UNCHANGED aborted
          \/ /\ Ignores(l, gcalls)
             /\ UNCHANGED <<gameVars, aborted>>
     \/ LET l == <<Room, g>>
            m == NextOn(l)
        IN
          /\ \/ Takes(l, "notify_fight_start") /\ NotifyFightStart(g, m.args[1], m.args[2])
             \/ /\ Takes(l, "notify_end_room") \/ Takes(l, "notify_terminate_room")
                /\ NotifyEndOrTerminateRoom(g, m.args[1], m.args[2])
             \/ Takes(l, "rsp") /\ m.cb \in gcalls /\ CbBindRoom(l, m.cb[2], m.cb[3], m.args)
             \/ Ignores(l, gcalls) /\ UNCHANGED gameVars
          /\ UNCHANGED aborted
  /\ UNCHANGED <<matchVars, roomVars, fights, trouble, broken>>

MatchHandles ==
  /\ \/ \E g \in Games :
          LET l == <<g, Match>>
              m == NextOn(l)
          IN
          \/ Takes(l, "join_match") /\ JoinMatch(g, m.args[1], m.cb) /\ UNCHANGED aborted
          \/ Takes(l, "quit_match") /\ QuitMatch(g, m.args[1]) /\ UNCHANGED aborted
          \/ /\ Takes(l, "rsp") /\ m.cb \in mcalls
             /\ CbNotifyConfirmJoinMatch(l, m.cb[2], m.cb[3], m.args)
          \/ Ignores(l, mcalls) /\ UNCHANGED <<matchVars, aborted>>
     \/ LET l == <<Room, Match>> IN
          \/ /\ Takes(l, "rsp") /\ NextOn(l).cb \in mcalls
             /\ CbApplyRoom(l, NextOn(l).cb[2], NextOn(l).args)
          \/ Ignores(l, mcalls) /\ UNCHANGED <<matchVars, aborted>>
  /\ UNCHANGED <<gameVars, roomVars, fights, trouble, broken>>

RoomHandles ==
  /\ \/ LET m == NextOn(<<Match, Room>>) IN
          Takes(<<Match, Room>>, "apply_room") /\ OnApplyRoom(m.args[1], m.args[2])
     \/ \E g \in Games :
          LET m == NextOn(<<g, Room>>) IN
          Takes(<<g, Room>>, "bind_room") /\ OnBindRoom(g, m.args[1], m.args[2], m.cb)
     \/ LET l == <<Fight, Room>>
            m == NextOn(l)
        IN
          \/ /\ Takes(l, "rsp") /\ m.cb \in rcalls /\ m.cb[1] = "apply_fight"
             /\ CbApplyFight(l, m.cb[2], m.cb[3], m.args)
          \/ /\ Takes(l, "rsp") /\ m.cb \in rcalls /\ m.cb[1] = "start_fight"
             /\ CbStartFight(l, m.cb[2], m.args)
          \/ Ignores(l, rcalls) /\ UNCHANGED roomVars
          \/ Takes(l, "notify_fight_battle_over") /\ NotifyFightBattleOver(m.args[1])
  /\ UNCHANGED <<gameVars, matchVars, fights, trouble, broken, aborted>>

FightHandles ==
  /\ LET l == <<Room, Fight>>
         m == NextOn(l)
     IN
       \/ Takes(l, "apply_fight") /\ OnApplyFight(m.args[1], m.cb)
       \/ Takes(l, "start_fight") /\ OnStartFight(m.args[1], m.cb)
  /\ UNCHANGED <<gameVars, matchVars, roomVars, trouble, broken, aborted>>

-----------------------------------------------------------------------------
(* Players, the world, timers and trouble. *)

GameSteps ==
  /\ \E r \in Roles :
       \/ ReqJoinMatch(r) /\ UNCHANGED trouble
       \/ ReqQuitMatch(r)
       \/ Release(r)
       \/ \E g \in Games : Launch(r, g) /\ UNCHANGED trouble
  /\ UNCHANGED <<matchVars, roomVars, fights, broken, aborted>>

MatchUpdates == UpdateLogic /\ UNCHANGED <<gameVars, roomVars, fights, trouble, broken, aborted>>

RoomUpdates ==
  /\ \E k \in DOMAIN rooms : CheckRemoveWaitRoleReadyExpireRooms(k)
  /\ UNCHANGED <<gameVars, matchVars, fights, trouble, broken>>

FightUpdates ==
  /\ \E k \in fights : CheckFightOver(k)
  /\ UNCHANGED <<gameVars, matchVars, roomVars, trouble, broken, aborted>>

GiveUp ==
  /\ Trouble
  /\ UNCHANGED <<broken, fights>>
  /\ \/ /\ \E cb \in gcalls :
             \/ cb[1] = "join" /\ CbJoinMatch(NoLink, cb[2], cb[3], FALSE)
             \/ cb[1] = "bind" /\ (BindFailed(cb[2], cb[3]) \/ BindExpired(cb[2], cb[3]))
        /\ UNCHANGED <<matchVars, roomVars, aborted>>
     \/ /\ \E cb \in mcalls :
             \/ /\ cb[1] = "notify_confirm_join_match"
                /\ CbNotifyConfirmJoinMatch(NoLink, cb[2], cb[3], FALSE)
             \/ cb[1] = "apply_room" /\ CbApplyRoom(NoLink, cb[2], FALSE)
        /\ UNCHANGED <<gameVars, roomVars>>
     \/ /\ \E cb \in rcalls :
             \/ cb[1] = "apply_fight" /\ CbApplyFight(NoLink, cb[2], cb[3], FALSE)
             \/ cb[1] = "start_fight" /\ CbStartFight(NoLink, cb[2], FALSE)
        /\ UNCHANGED <<gameVars, matchVars, aborted>>

Breaks ==
  /\ \E l \in Links : Break(l)
  /\ UNCHANGED <<gameVars, matchVars, roomVars, fights>>

Next ==
  \/ \E g \in Games : GameHandles(g)
  \/ MatchHandles \/ RoomHandles \/ FightHandles
  \/ GameSteps \/ MatchUpdates \/ RoomUpdates \/ FightUpdates
  \/ GiveUp \/ Breaks

Spec == Init /\ [][Next]_vars

\* Event loops handle what has arrived, rooms and fights run out of time.
FairSpec ==
  /\ Spec
  /\ WF_vars(RoomHandles) /\ WF_vars(FightHandles)
  /\ WF_vars(RoomUpdates) /\ WF_vars(FightUpdates)
=============================================================================
