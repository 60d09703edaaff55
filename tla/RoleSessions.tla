---------------------------- MODULE RoleSessions ----------------------------
(***************************************************************************)
(* What the gates, the world and the games of RoleSystem owe each other.   *)
(*                                                                         *)
(* launch_role draws session ids from one counter and reconnect_role from  *)
(* another (the opera ids), so the same number is drawn twice.  When one   *)
(* is drawn that somebody still holds as another session, a message that   *)
(* names it may hit the wrong role.  The history variable clash records    *)
(* that this has happened; properties that break then are stated for the   *)
(* time before.                                                            *)
(***************************************************************************)
EXTENDS RoleSystem

VARIABLE clash

HInit == Init /\ clash = FALSE

\* A message that names session s: an answer that grants it, or a request of
\* the client that has it.
Names(m, s) ==
    \/ m.fn = "rsp" /\ m.val = s
    \/ m.fn \in {"logout_role", "client_quit"} /\ m.args[1] = s

\* Session id s has left the world: a client has it, a reconnect is about to
\* give it out, or a message names it.
ClientHas(s) == \E c \in Clients : clients[c].session = s
Reconnects(s) ==
    \E cb \in wcalls : cb[1] = "_reconnect_role_game_change_client_cb" /\ cb[3] = s
Named(s) == \E l \in Links : \E i \in DOMAIN net[l] : Names(net[l][i], s)
GivenOut(s) == ClientHas(s) \/ Reconnects(s) \/ Named(s)

\* It is in use: given out, or the index of the world leads from it to a
\* table, or a role in memory has it.
Held(s) ==
    \/ session_id_to_role[s] # 0
    \/ \E r \in Roles : SessionOf(r) = s
    \/ GivenOut(s)

\* This step drew s as a session id, from the one counter or the other.
Draws(s) ==
    \/ last_session_id < s /\ s <= last_session_id'
    \/ \E cb \in wcalls' \ wcalls :
          cb[1] = "_reconnect_role_game_change_client_cb" /\ cb[3] = s

DrewHeld == \E s \in Ids : Draws(s) /\ Held(s)

HNext == Next /\ clash' = (clash \/ DrewHeld)

hvars == <<vars, clash>>

HSpec == HInit /\ [][HNext]_hvars

\* Services handle what arrives, database queries end, and a gate that
\* closes a connection sees it close: the event loops never stop.
Fairness ==
    /\ WF_vars(World_Step)
    /\ WF_vars(GameStep)
    /\ WF_vars(GateAnswered \/ GateIgnores \/ GateKicks)

FairSpec == HSpec /\ Fairness

-----------------------------------------------------------------------------
(* State formulas. *)

\* Nothing is on its way and no query is running.
Quiet ==
    /\ \A l \in Links : net[l] = <<>>
    /\ \A g \in Games : loads[g] = {}

Using(r) == Lives(r) /\ RoleOf(r).state = "using"
Idle(r) == Lives(r) /\ RoleOf(r).state = "idle"
Launching(r) == Lives(r) /\ RoleOf(r).state = "launch"
BeingReleased(r) == Lives(r) /\ RoleOf(r).state = "releasing"

InGame(c, r) == clients[c].state = "In_Game" /\ clients[c].role = r

\* The gate of c is about to learn that c leaves its role, or knows: it was
\* told to close the connection, or a kick or the answer to a logout of c is
\* on its way.
IsLeaving(c) ==
    \/ clients[c].closing
    \/ LET link == net[<<World, GateOf[c]>>] IN
       \E i \in DOMAIN link :
          link[i] = Kick(c) \/ (link[i].cb[1] = "logout" /\ link[i].cb[2] = c)

-----------------------------------------------------------------------------
(* Invariants. *)

\* No reference of the world dangles: each index and each closure that
\* captured a role table leads to one, and a role id leads to a table of that
\* role.
HeapOK ==
    /\ \A r \in Roles : Lives(r) =>
          /\ RoleOf(r) \in RoleObj /\ RoleOf(r).role = r
          /\ role_id_to_role[r] <= last_session_id
    /\ \A s \in Ids : session_id_to_role[s] # 0 =>
          objs[session_id_to_role[s]] \in RoleObj
    /\ \A cb \in wcalls :
          /\ cb[1] = "launch_client_change" => objs[cb[2]] \in RoleObj
          /\ cb[1] = "_reconnect_role_game_change_client_cb" => objs[cb[4]] \in RoleObj

\* The state has its types, and the world's references lead where the
\* handlers of manage_role_logic.lua expect.
TypeOK == RoleTypeOK /\ HeapOK /\ clash \in BOOLEAN

\* While a launch is outstanding (the call to the game service, or the
\* client_change that follows it) the role is still in launch, in the very
\* table that the call was made for: the callback of line 226 assigns to the
\* table it captured without looking whether it is still the role's.
LaunchInCharge ==
    ~ clash =>
      /\ \A s \in Ids, r \in Roles : LaunchCb(s, r) \in wcalls => Launching(r)
      /\ \A o \in Ids : ChangeCb(o) \in wcalls =>
            role_id_to_role[objs[o].role] = o /\ objs[o].state = "launch"

\* A release call outstanding means that the role is still there, is being
\* released, and has no second release under way, whatever was retried: the
\* callback uses the role without a nil check (line 308).
ReleaseInCharge ==
    ~ clash => \A r \in Roles, i \in Ids :
        ReleaseCb(r, i) \in wcalls =>
          /\ \A j \in Ids : ReleaseCb(r, j) \in wcalls => i = j
          /\ BeingReleased(r)

\* A role that a client plays, or may come back to, is in game on the game
\* service the world thinks it is on, also when calls expire and are retried
\* while the role is released and launched again.
GameHoldsRole ==
    ~ clash => \A r \in Roles :
        Using(r) \/ Idle(r) => roles[RoleOf(r).game][r].state = "in_game"

\* Without expired calls and broken connections no game service keeps a role
\* that the world has forgotten or placed elsewhere; so no role lives on two
\* game services.
OneHome ==
    ~ clash /\ faults = 0 => \A r \in Roles, g \in Games :
        roles[g][r].state # "absent" => Lives(r) /\ RoleOf(r).game = g

\* When the database answers, the role it answers for is still loading:
\* no release or second query came in between (_db_rsp_launch_role uses the
\* role even when it is gone, line 145).
LoadUndisturbed ==
    ~ clash => \A g \in Games : \A load \in loads[g] :
        roles[g][load[2]].state = "load_from_db"

\* An idle role, which the next launch or reconnect may take, has neither a
\* session nor a client, whatever calls were crossing when its client left:
\* so taking it never needs a kick.
IdleDetached ==
    \A r \in Roles : Idle(r) => RoleOf(r).session = 0 /\ RoleOf(r).gate = None

\* Nobody's role is released under them: a role being released has neither a
\* session nor a client, so client_quit cannot reach it (assertion of line
\* 257).
ReleasingDetached ==
    ~ clash => \A r \in Roles : BeingReleased(r) =>
        RoleOf(r).session = 0 /\ RoleOf(r).gate = None

\* No handler of the world dies of a Lua error, except launch_role when it
\* lets a client take over a launch (line 162): no assertion fails and no
\* nil is used as an answer, a session, a client or a role.
OnlyTakeoverDies == ~ clash => aborted \subseteq {162}

\* When everything has settled, and no call expired or connection broke, the
\* game service talks to the client that the world says owns the role, and to
\* none when the role is idle.
GameServesOwner ==
    ~ clash /\ faults = 0 /\ Quiet => \A r \in Roles :
        Using(r) \/ Idle(r) => roles[RoleOf(r).game][r].gate = RoleOf(r).gate

\* Two clients in game with the same role: one of them is on its way out, if
\* no call expired and no connection broke.  (After a takeover of a launch,
\* which dies halfway, this is not so.)
OneClientPerRole ==
    ~ clash /\ faults = 0 /\ aborted = {} => \A r \in Roles : \A c, d \in Clients :
        c # d /\ InGame(c, r) /\ InGame(d, r) => IsLeaving(c) \/ IsLeaving(d)

\* A gate has at most one launch or reconnect under way for a client that is
\* still connected, and only while the client waits for it: an answer that
\* comes late is never taken for the answer to a later request.
OneEntryCall ==
    \A c \in Clients : Connected(c) =>
        LET entries == {cb \in gcalls : cb[1] \in {"launch", "reconnect"} /\ cb[2] = c}
        IN /\ Cardinality(entries) <= 1
           /\ entries # {} => clients[c].state = "Launch_Role"

-----------------------------------------------------------------------------
(* Liveness. *)

\* A role whose release has begun is released in the end (no call expires).
ReleaseEnds == \A r \in Roles : BeingReleased(r) ~> ~ BeingReleased(r)

-----------------------------------------------------------------------------
(* What the repository says and the code does not do. *)

\* role.lua:25: the cached answer exists to handle a takeover during the
\* launch.  So a launch that was taken over ends: when all is quiet no role
\* is left in launch.
TakeoverHandled == Quiet => \A r \in Roles : ~ Launching(r)
=============================================================================
