------------------------------ MODULE FightMgr ------------------------------
(***************************************************************************)
(* The fight service (services/fight/service_logics/fight_mgr): a fight     *)
(* lasts until every role has rolled, or for a minute from its creation,    *)
(* whether it was started or not.  The clients that roll are left out.      *)
(***************************************************************************)
EXTENDS MatchNet

VARIABLE fights  \* _id_to_fight, by the room a fight was made for

FInit == fights = {}

OnApplyFight(k, cb) ==
  /\ fights' = fights \cup {k}
  /\ Deliver(<<Room, Fight>>, Fight, <<Answer(Room, cb, TRUE)>>)

OnStartFight(k, cb) ==
  /\ Deliver(<<Room, Fight>>, Fight, <<Answer(Room, cb, k \in fights)>>)
  /\ UNCHANGED fights

\* Mutant: the room service is not told.
CheckFightOverUntold(k) ==
  /\ k \in fights
  /\ fights' = fights \ {k}
  /\ Deliver(NoLink, Fight, <<>>)

CheckFightOver(k) ==
  /\ k \in fights
  /\ fights' = fights \ {k}
  /\ Deliver(NoLink, Fight, <<Call(Room, "notify_fight_battle_over", <<k>>, NoCb)>>)
=============================================================================
