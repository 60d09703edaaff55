---------------------------- MODULE GameRoleMgr ----------------------------
(***************************************************************************)
(* The game services' RoleMgr (services/game/service_logics/role_mgr): the *)
(* roles a game service holds, loading them from the database and letting  *)
(* them go, and the client each one talks to.                              *)
(***************************************************************************)
EXTENDS RoleNet

VARIABLES
    roles,      \* _id_to_role of each game service
    loads       \* find_one queries of each game service without a result yet

gameVars == <<roles, loads>>

GameRole == [state : {"absent", "load_from_db", "in_game"},
             gate : Clients \cup {None}]

Absent == [state |-> "absent", gate |-> None]

MTypeOK ==
    /\ roles \in [Games -> [Roles -> GameRole]]
    /\ DOMAIN loads = Games
    /\ \A g \in Games : \A load \in loads[g] : load[2] \in Roles

MInit ==
    /\ roles = [g \in Games |-> [r \in Roles |-> Absent]]
    /\ loads = [g \in Games |-> {}]

\* luanch_role: a role not yet held is read from the database.
LuanchRole(in, g, cb, r) ==
    \/ /\ roles[g][r].state = "absent"
       /\ roles' = [roles EXCEPT ![g][r].state = "load_from_db"]
       /\ loads' = [loads EXCEPT ![g] = @ \cup {<<cb, r>>}]
       /\ Deliver(in, g, <<>>)
    \/ /\ roles[g][r].state = "load_from_db"
       /\ Deliver(in, g, <<Answer(World, cb, "refused", 0)>>)
       /\ UNCHANGED gameVars
    \/ /\ roles[g][r].state = "in_game"
       /\ Deliver(in, g, <<Answer(World, cb, "ok", 0)>>)
       /\ UNCHANGED gameVars

\* _db_rsp_launch_role: a row, no row, or an error.  A role that is not
\* loading (released meanwhile, or loaded by an earlier query) is refused,
\* but the handler goes on: it dies on a role that is gone, and initialises
\* again one that is in game.
DbRspLaunchRole(g, cb, r) ==
    /\ <<cb, r>> \in loads[g]
    /\ loads' = [loads EXCEPT ![g] = @ \ {<<cb, r>>}]
    /\ LET refusal == IF roles[g][r].state = "load_from_db" THEN <<>>
                      ELSE <<Answer(World, cb, "refused", 0)>>
       IN \/ /\ roles[g][r].state # "absent"
             /\ roles' = [roles EXCEPT ![g][r] = Absent]
             /\ Deliver(NoLink, g, refusal \o <<Answer(World, cb, "refused", 0)>>)
          \/ /\ roles[g][r].state # "absent"
             /\ roles' = [roles EXCEPT ![g][r].state = "in_game"]
             /\ Deliver(NoLink, g, refusal \o <<Answer(World, cb, "ok", 0)>>)
          \/ /\ roles[g][r].state = "absent"
             /\ Deliver(NoLink, g, refusal)
             /\ UNCHANGED roles

\* client_change: c is the new client, None when the client is gone.
ClientChangeDropsRole(in, g, cb, r, c) ==       \* slip
    /\ Deliver(in, g, <<Answer(World, cb, "ok", 0)>>)
    /\ roles' = [roles EXCEPT ![g][r] = IF c = None THEN Absent ELSE [@ EXCEPT !.gate = c]]
    /\ UNCHANGED loads
ClientChangeKeepsClient(in, g, cb, r, c) ==     \* slip
    /\ Deliver(in, g, <<Answer(World, cb, "ok", 0)>>)
    /\ roles' = IF roles[g][r].state = "absent" \/ c = None THEN roles
                ELSE [roles EXCEPT ![g][r].gate = c]
    /\ UNCHANGED loads
ClientChange(in, g, cb, r, c) ==
    /\ Deliver(in, g, <<Answer(World, cb, "ok", 0)>>)
    /\ roles' = IF roles[g][r].state = "absent" THEN roles
                ELSE [roles EXCEPT ![g][r].gate = c]
    /\ UNCHANGED loads

ReleaseRoleKeepsIt(in, g, cb, r) ==             \* slip
    /\ Deliver(in, g, <<Answer(World, cb, "ok", 0)>>)
    /\ UNCHANGED gameVars
ReleaseRoleUnanswered(in, g, cb, r) ==          \* slip
    /\ Deliver(in, g, <<>>)
    /\ roles' = [roles EXCEPT ![g][r] = Absent]
    /\ UNCHANGED loads
ReleaseRole(in, g, cb, r) ==
    /\ Deliver(in, g, <<Answer(World, cb, "ok", 0)>>)
    /\ roles' = [roles EXCEPT ![g][r] = Absent]
    /\ UNCHANGED loads
=============================================================================
