------------------------------ MODULE RoleProofs ------------------------------
(***************************************************************************)
(* Proofs about RoleSessions, for any number of roles, clients, gates and  *)
(* games.                                                                  *)
(*                                                                         *)
(* The gates: the types of their state, and that a client has at most one  *)
(* launch or reconnect under way.                                          *)
(*                                                                         *)
(* The world, whatever is lost, given up or drawn twice: a step changes at *)
(* most one role table.  WorldInv is therefore preserved by any step of    *)
(* the shape OneTable describes, and the lemma of each handler only has to *)
(* show that shape.                                                        *)
(*                                                                         *)
(* The sessions: until one is drawn that somebody holds, what the calls of *)
(* the world are about and where a session leads is Sound.  Each handler   *)
(* has one of the shapes Kept, Changed, Removed and Created, and these     *)
(* leave it sound.                                                         *)
(*                                                                         *)
(* The game services: what is under way between the world and each of them *)
(* about a role agrees with where the world has the role (GameSound).      *)
(***************************************************************************)
EXTENDS RoleSessions, SendingProofs, FiniteSetTheorems, SequenceTheorems

-----------------------------------------------------------------------------
(* The gates. *)

Entries(c) == {cb \in gcalls : cb[1] \in {"launch", "reconnect"} /\ cb[2] = c}

\* The entry calls of a client that is not gone are at most one, and there
\* is none unless the client waits in Launch_Role; in particular none for a
\* client that has not connected yet.
OneEntry(c) ==
    clients[c].state # "gone" =>
      /\ \A a, b \in Entries(c) : a = b
      /\ Entries(c) # {} => clients[c].state = "Launch_Role"

GateInv == GTypeOK /\ \A c \in Clients : OneEntry(c)

LEMMA GateInit ==
  ASSUME GInit PROVE GateInv
BY ConstantsAssumption DEF GInit, GateInv, GTypeOK, OneEntry, Entries, Client, ClientStates, IdOrNil

\* Client c changes while no call is made: it keeps its state, or is gone, or
\* has no entry call left.
LEMMA GateMoves ==
  ASSUME NEW c \in Clients, GateInv,
         NEW new \in Client, clients' = [clients EXCEPT ![c] = new],
         gcalls' \subseteq gcalls,
         \/ new.state = clients[c].state
         \/ new.state = "gone"
         \/ clients[c].state # "gone" /\ Entries(c)' = {}
  PROVE  GateInv'
<1>1. GTypeOK'
  BY DEF GateInv, GTypeOK
<1>2. ASSUME NEW d \in Clients PROVE OneEntry(d)'
  <2>1. OneEntry(d) /\ Entries(d)' \subseteq Entries(d)
    BY <1>2 DEF GateInv, Entries
  <2>2. CASE d # c
    <3>1. clients'[d] = clients[d]
      BY <2>2 DEF GateInv, GTypeOK
    <3>2. QED BY <2>1, <3>1 DEF OneEntry
  <2>3. CASE d = c
    <3>1. clients'[c] = new
      BY DEF GateInv, GTypeOK
    <3>2. QED BY <2>1, <2>3, <3>1 DEF OneEntry
  <2>4. QED BY <2>2, <2>3
<1>3. QED BY <1>1, <1>2 DEF GateInv

\* Client c, which has no entry call, makes one and waits for it.
LEMMA GateEnters ==
  ASSUME NEW c \in Clients, NEW r \in Roles, NEW n \in CallIds,
         NEW fn \in {"launch", "reconnect"}, GateInv,
         clients[c].state \notin {"gone", "Launch_Role"},
         NEW new \in Client, clients' = [clients EXCEPT ![c] = new],
         new.state = "Launch_Role",
         gcalls' = gcalls \cup {GateCb(fn, c, n, r)}
  PROVE  GateInv'
<1> DEFINE cb == GateCb(fn, c, n, r)
<1>1. GTypeOK'
  BY DEF GateInv, GTypeOK, GateCbs
<1>2. cb[1] = fn /\ cb[2] = c
  BY DEF GateCb
<1>3. Entries(c) = {}
  BY DEF GateInv, OneEntry
<1>4. Entries(c)' = {cb}
  BY <1>2, <1>3 DEF Entries
<1>5. ASSUME NEW d \in Clients, d # c PROVE OneEntry(d)'
  <2>1. clients'[d] = clients[d] /\ Entries(d)' = Entries(d) /\ OneEntry(d)
    BY <1>2, <1>5 DEF GateInv, GTypeOK, Entries
  <2>2. QED BY <2>1 DEF OneEntry
<1>6. OneEntry(c)'
  <2>1. clients'[c] = new
    BY DEF GateInv, GTypeOK
  <2>2. QED BY <1>4, <2>1 DEF OneEntry
<1>7. QED BY <1>1, <1>5, <1>6 DEF GateInv

\* A logout is not an entry call.
LEMMA GateLogsOut ==
  ASSUME NEW c \in Clients, NEW r \in Roles, NEW n \in CallIds, GateInv,
         NEW new \in Client, clients' = [clients EXCEPT ![c] = new],
         new.state = clients[c].state,
         gcalls' = gcalls \cup {GateCb("logout", c, n, r)}
  PROVE  GateInv'
<1>1. GTypeOK'
  BY DEF GateInv, GTypeOK, GateCbs
<1>2. GateCb("logout", c, n, r)[1] = "logout"
  BY DEF GateCb
<1>3. ASSUME NEW d \in Clients PROVE OneEntry(d)'
  <2>1. clients'[d].state = clients[d].state /\ Entries(d)' = Entries(d) /\ OneEntry(d)
    BY <1>2, <1>3 DEF GateInv, GTypeOK, Entries
  <2>2. QED BY <2>1 DEF OneEntry
<1>4. QED BY <1>1, <1>3 DEF GateInv

\* Each request of a client, and the close of its connection.
LEMMA GateClientSteps ==
  ASSUME NEW c \in Clients, GateInv,
         \/ OnNewCnn(c) \/ ReqUserLogin(c) \/ UserLoginOver(c)
         \/ \E r \in Roles : ReqLaunchRole(c, r) \/ ReqReconnect(c, r)
         \/ ReconnectAuthed(c) \/ ReqLogoutRole(c) \/ OnCloseCnn(c)
  PROVE  GateInv'
<1> DEFINE old == clients[c]
           quiet(new) == /\ new \in Client
                         /\ clients' = [clients EXCEPT ![c] = new]
                         /\ gcalls' = gcalls
                         /\ \/ new.state = old.state
                            \/ new.state = "gone"
                            \/ old.state # "gone" /\ Entries(c) = {}
           enters(fn, r) == /\ old.state \notin {"gone", "Launch_Role"}
                            /\ old.n + 1 \in CallIds
                            /\ clients' = [clients EXCEPT ![c].state = "Launch_Role",
                                             ![c].world = TRUE, ![c].n = @ + 1]
                            /\ gcalls' = gcalls \cup {GateCb(fn, c, old.n + 1, r)}
<1> USE DEF IdOrNil
<1>1. old \in Client
  BY DEF GateInv, GTypeOK
<1>2. old.state \notin {"gone", "Launch_Role"} => Entries(c) = {}
  BY DEF GateInv, OneEntry
<1>3. ASSUME NEW new, quiet(new) PROVE GateInv'
  <2>1. Entries(c)' = Entries(c)
    BY <1>3 DEF Entries
  <2>2. QED BY <1>3, <2>1, GateMoves
<1>3a. ASSUME NEW fn \in {"launch", "reconnect"}, NEW r \in Roles, enters(fn, r)
       PROVE  GateInv'
  <2> DEFINE new == [old EXCEPT !.state = "Launch_Role", !.world = TRUE, !.n = @ + 1]
  <2>1. old.n + 1 \in 0..MaxCall
    BY <1>3a, ConstantsAssumption DEF CallIds
  <2>2. new \in Client
    BY <1>1, <2>1 DEF Client, ClientStates
  <2>3. new.state = "Launch_Role"
    BY <1>1 DEF Client
  <2>4. clients' = [clients EXCEPT ![c] = new]
    BY <1>3a
  <2>5. QED BY <1>3a, <2>2, <2>3, <2>4, GateEnters
<1>4. CASE OnNewCnn(c)
  <2>1. quiet([old EXCEPT !.state = "Free"])
    BY <1>1, <1>2, <1>4 DEF OnNewCnn, Moves, Client, ClientStates
  <2>2. QED BY <1>3, <2>1
<1>5. CASE ReqUserLogin(c)
  <2>1. quiet([old EXCEPT !.state = "Authing", !.rejoin = None])
    BY <1>1, <1>2, <1>5 DEF ReqUserLogin, Client, ClientStates
  <2>2. QED BY <1>3, <2>1
<1>6. CASE UserLoginOver(c)
  <2>1. quiet([old EXCEPT !.state = "Manage_Role"]) \/ quiet([old EXCEPT !.state = "Free"])
    BY <1>1, <1>2, <1>6 DEF UserLoginOver, Moves, Client, ClientStates
  <2>2. QED BY <1>3, <2>1
<1>7. ASSUME NEW r \in Roles, ReqLaunchRole(c, r) PROVE GateInv'
  <2>1. enters("launch", r)
    BY <1>1, <1>7 DEF ReqLaunchRole, CallsWorld
  <2>2. QED BY <1>3a, <2>1
<1>8. ASSUME NEW r \in Roles, ReqReconnect(c, r) PROVE GateInv'
  <2>1. quiet([old EXCEPT !.state = "Authing", !.rejoin = r])
    BY <1>1, <1>2, <1>8 DEF ReqReconnect, Client, ClientStates
  <2>2. QED BY <1>3, <2>1
<1>9. CASE ReconnectAuthed(c)
  <2>1. CASE Moves(c, "Free")
    <3>1. quiet([old EXCEPT !.state = "Free"])
      BY <1>1, <1>2, <1>9, <2>1 DEF ReconnectAuthed, Moves, Client, ClientStates
    <3>2. QED BY <1>3, <3>1
  <2>2. CASE Moves(c, "Manage_Role")
    <3>1. quiet([old EXCEPT !.state = "Manage_Role"])
      BY <1>1, <1>2, <1>9, <2>2 DEF ReconnectAuthed, Moves, Client, ClientStates
    <3>2. QED BY <1>3, <3>1
  <2>3. CASE /\ clients' = [clients EXCEPT ![c].state = "Launch_Role", ![c].world = TRUE,
                                           ![c].n = @ + 1]
             /\ CallsWorld(c, "reconnect", "reconnect_role", <<old.rejoin, c>>, old.rejoin)
    <3>1. old.rejoin \in Roles
      BY <1>1, <1>9 DEF ReconnectAuthed, Client
    <3>2. enters("reconnect", old.rejoin)
      BY <1>1, <1>9, <2>3 DEF ReconnectAuthed, CallsWorld
    <3>3. QED BY <1>3a, <3>1, <3>2
  <2>4. QED BY <1>9, <2>1, <2>2, <2>3 DEF ReconnectAuthed
<1>10. CASE ReqLogoutRole(c)
  <2>1. old.role \in Roles
    BY <1>1, <1>10 DEF ReqLogoutRole, Client
  <2> DEFINE new == [old EXCEPT !.n = @ + 1]
  <2>2. /\ clients' = [clients EXCEPT ![c] = new]
        /\ old.n + 1 \in CallIds
        /\ gcalls' = gcalls \cup {GateCb("logout", c, old.n + 1, old.role)}
    BY <1>10 DEF ReqLogoutRole, CallsWorld
  <2>3. old.n + 1 \in 0..MaxCall
    BY <2>2, ConstantsAssumption DEF CallIds
  <2>4. new \in Client /\ new.state = old.state
    BY <1>1, <2>3 DEF Client
  <2>5. QED BY <2>1, <2>2, <2>4, GateLogsOut
<1>11. CASE OnCloseCnn(c)
  <2> DEFINE new == [old EXCEPT !.state = "gone", !.session = 0, !.role = None,
                                !.world = FALSE, !.rejoin = None, !.closing = FALSE]
  <2>1. 0 \in IdOrNil
    BY ConstantsAssumption
  <2>2. new \in Client /\ new.state = "gone"
    BY <1>1, <2>1 DEF Client, ClientStates
  <2>3. clients' = [clients EXCEPT ![c] = new] /\ gcalls' = gcalls
    BY <1>11 DEF OnCloseCnn
  <2>4. QED BY <1>3, <2>2, <2>3
<1>12. QED BY <1>4, <1>5, <1>6, <1>7, <1>8, <1>9, <1>10, <1>11

\* A callback of the gate runs: its call is over, so the client has no entry
\* call left if this was one, and its state does not change otherwise unless
\* the answer to a logout takes it out of the game.
LEMMA GateCallbacks ==
  ASSUME NEW cb \in gcalls, NEW s \in IdOrNil, NEW err, NEW in, GateInv, GateRuns(in, cb, err, s)
  PROVE  GateInv'
<1>1. PICK fn \in {"launch", "reconnect", "logout"}, c \in Clients, n \in CallIds, r \in Roles :
        cb = GateCb(fn, c, n, r)
  BY DEF GateInv, GTypeOK, GateCbs
<1>2. cb[1] = fn /\ cb[2] = c /\ cb[4] = r
  BY <1>1 DEF GateCb
<1>3. GateCallback(fn, c, r, err, s) /\ gcalls' = gcalls \ {cb}
  BY <1>2 DEF GateRuns
<1> DEFINE old == clients[c]
<1>4. old \in Client /\ OneEntry(c)
  BY DEF GateInv, GTypeOK
<1>5. gcalls' \subseteq gcalls /\ Entries(c)' \subseteq Entries(c)
  BY <1>3 DEF Entries
<1>6. ASSUME fn # "logout", old.state # "gone" PROVE Entries(c)' = {}
  BY <1>2, <1>3, <1>4, <1>6 DEF OneEntry, Entries
<1>7. ASSUME clients' = clients PROVE GateInv'
  <2>1. clients' = [clients EXCEPT ![c] = old]
    BY <1>7 DEF GateInv, GTypeOK
  <2>2. QED BY <1>4, <1>5, <2>1, GateMoves
<1>8. CASE fn = "launch"
  <2>1. RspLaunchRole(c, r, err, s)
    BY <1>3, <1>8 DEF GateCallback
  <2>2. CASE old.state = "Launch_Role" /\ clients' # clients
    <3>1. Entries(c)' = {}
      BY <1>6, <1>8, <2>2
    <3>2. CASE clients' = [clients EXCEPT ![c].state = "In_Game", ![c].role = r,
                                          ![c].session = s]
      <4> DEFINE new == [old EXCEPT !.state = "In_Game", !.role = r, !.session = s]
      <4>1. new \in Client
        BY <1>4 DEF Client, ClientStates
      <4>2. clients' = [clients EXCEPT ![c] = new]
        BY <1>5, <2>2, <3>1, <3>2
      <4>3. QED BY <1>5, <2>2, <3>1, <3>2, <4>1, <4>2, GateMoves
    <3>3. CASE clients' = [clients EXCEPT ![c].state = "Manage_Role"]
      <4> DEFINE new == [old EXCEPT !.state = "Manage_Role"]
      <4>1. new \in Client
        BY <1>4 DEF Client, ClientStates
      <4>2. clients' = [clients EXCEPT ![c] = new]
        BY <1>5, <2>2, <3>1, <3>3
      <4>3. QED BY <1>5, <2>2, <3>1, <3>3, <4>1, <4>2, GateMoves
    <3>4. QED BY <2>1, <2>2, <3>2, <3>3 DEF RspLaunchRole
  <2>3. QED BY <1>7, <2>1, <2>2 DEF RspLaunchRole
<1>9. CASE fn = "reconnect"
  <2>1. RspReconnect(c, r, err, s)
    BY <1>3, <1>9 DEF GateCallback
  <2>2. CASE old.state # "gone" /\ clients' # clients
    <3>1. Entries(c)' = {}
      BY <1>6, <1>9, <2>2
    <3>2. CASE clients' = [clients EXCEPT ![c].state = "In_Game", ![c].role = r,
                                          ![c].session = s]
      <4> DEFINE new == [old EXCEPT !.state = "In_Game", !.role = r, !.session = s]
      <4>1. new \in Client
        BY <1>4 DEF Client, ClientStates
      <4>2. clients' = [clients EXCEPT ![c] = new]
        BY <1>5, <2>2, <3>1, <3>2
      <4>3. QED BY <1>5, <2>2, <3>1, <3>2, <4>1, <4>2, GateMoves
    <3>3. CASE clients' = [clients EXCEPT ![c].state =
                             IF @ = "Launch_Role" THEN "Manage_Role" ELSE @]
      <4> DEFINE new == [old EXCEPT !.state = IF @ = "Launch_Role" THEN "Manage_Role" ELSE @]
      <4>1. new \in Client
        BY <1>4 DEF Client, ClientStates
      <4>2. clients' = [clients EXCEPT ![c] = new]
        BY <1>5, <2>2, <3>1, <3>3
      <4>3. QED BY <1>5, <2>2, <3>1, <3>3, <4>1, <4>2, GateMoves
    <3>4. QED BY <2>1, <2>2, <3>2, <3>3 DEF RspReconnect
  <2>3. QED BY <1>7, <2>1, <2>2 DEF RspReconnect, Connected
<1>10. CASE fn = "logout"
  <2>1. RspLogoutRole(c, err)
    BY <1>3, <1>10 DEF GateCallback
  <2>2. CASE old.state = "In_Game" /\ clients' # clients
    <3>1. Entries(c)' = {}
      BY <1>4, <1>5, <2>2 DEF OneEntry
    <3> DEFINE new == [old EXCEPT !.state = "Manage_Role", !.world = FALSE, !.session = 0]
    <3>2. 0 \in IdOrNil
      BY ConstantsAssumption DEF IdOrNil
    <3>5. new \in Client
      BY <1>4, <3>2 DEF Client, ClientStates
    <3>3. clients' = [clients EXCEPT ![c] = new]
      BY <2>1, <2>2 DEF RspLogoutRole
    <3>4. QED BY <1>5, <2>2, <3>1, <3>3, <3>5, GateMoves
  <2>3. QED BY <1>7, <2>1, <2>2 DEF RspLogoutRole
<1>11. QED BY <1>8, <1>9, <1>10

LEMMA GateKick ==
  ASSUME NEW c \in Clients, NEW in, GateInv, OnKickClient(in, c)
  PROVE  GateInv'
<1> DEFINE new == [clients[c] EXCEPT !.closing = clients[c].state # "gone"]
<1>1. clients[c] \in Client
  BY DEF GateInv, GTypeOK
<1>2. (clients[c].state # "gone") \in BOOLEAN
  OBVIOUS
<1>3. new \in Client /\ new.state = clients[c].state
  BY <1>1, <1>2 DEF Client
<1>4. clients' = [clients EXCEPT ![c] = new] /\ gcalls' \subseteq gcalls
  BY DEF OnKickClient
<1>5. QED BY <1>3, <1>4, GateMoves

\* The gates keep GateInv in every step of the system.
LEMMA GateStep ==
  ASSUME GateInv, [Next]_vars PROVE GateInv'
<1>1. ASSUME gateVars' = gateVars PROVE GateInv'
  BY <1>1 DEF gateVars, GateInv, GTypeOK, OneEntry, Entries
<1>2. CASE GateClientStep
  BY <1>2, GateClientSteps DEF GateClientStep
<1>3. CASE GateAnswered
  BY <1>3, GateCallbacks DEF GateAnswered
<1>4. CASE GateExpire
  <2>1. 0 \in IdOrNil
    BY ConstantsAssumption DEF IdOrNil
  <2>2. QED BY <1>4, <2>1, GateCallbacks DEF GateExpire
<1>5. CASE GateKicks
  BY <1>5, GateKick DEF GateKicks
<1>6. CASE GateIgnores
  BY <1>1, <1>6 DEF GateIgnores
<1>7. CASE World_Step \/ WorldExpire \/ GameStep \/ Break
  BY <1>1, <1>7 DEF World_Step, WorldExpire, GameStep, Break
<1>8. CASE UNCHANGED vars
  BY <1>1, <1>8 DEF vars, gateVars
<1>9. QED BY <1>2, <1>3, <1>4, <1>5, <1>6, <1>7, <1>8 DEF Next

\* A gate never has two launch or reconnect calls under way for a connected
\* client, and none unless the client waits in Launch_Role
\* (client_mgr__process_msg.lua: process_req_launch_role, process_reconnect).
THEOREM GateCallsOnce == HSpec => []OneEntryCall
<1>1. HInit => GateInv
  BY GateInit DEF HInit, Init
<1>2. GateInv /\ [HNext]_hvars => GateInv'
  BY GateStep DEF HNext, hvars
<1>3. GateInv => OneEntryCall
  <2> SUFFICES ASSUME GateInv, NEW c \in Clients, Connected(c)
               PROVE  /\ Cardinality(Entries(c)) <= 1
                      /\ Entries(c) # {} => clients[c].state = "Launch_Role"
    BY DEF OneEntryCall, Entries
  <2>1. /\ \A a, b \in Entries(c) : a = b
        /\ Entries(c) # {} => clients[c].state = "Launch_Role"
    BY DEF GateInv, OneEntry, Connected
  <2>2. Entries(c) = {} \/ \E a : Entries(c) = {a}
    BY <2>1
  <2>3. CASE Entries(c) = {}
    <3>1. Cardinality(Entries(c)) = 0
      BY <2>3, FS_EmptySet
    <3>2. QED BY <2>3, <3>1
  <2>4. CASE \E a : Entries(c) = {a}
    <3>1. Cardinality(Entries(c)) = 1
      BY <2>4, FS_Singleton, Zenon
    <3>2. QED BY <2>1, <3>1
  <2>5. QED BY <2>2, <2>3, <2>4
<1>4. QED BY <1>1, <1>2, <1>3, PTL DEF HSpec

-----------------------------------------------------------------------------
(* The world. *)

\* The idle half of IdleDetached, for every table of the heap, indexed or not:
\* the closures of outstanding calls reach tables that no index leads to.
TableOK(role) == role.state = "idle" => role.session = 0 /\ role.gate = None

IdleTables == \A o \in Ids : objs[o] \in RoleObj => TableOK(objs[o])

WorldInv == WTypeOK /\ HeapOK /\ IdleTables

-----------------------------------------------------------------------------
(* Ids and indexes. *)

LEMMA IdFacts ==
  /\ 0 \in IdOrNil
  /\ \A i \in Ids : i \in IdOrNil /\ i # 0 /\ i \in Nat
  /\ \A i \in IdOrNil : i # 0 => i \in Ids
BY ConstantsAssumption DEF IdOrNil, Ids

LEMMA NextId ==
  ASSUME NEW i \in IdOrNil, NEW j \in {1, 2}, i + j \in Ids
  PROVE  i + j \in IdOrNil /\ i <= i + j
BY ConstantsAssumption DEF IdOrNil, Ids

LEMMA UnmapType ==
  ASSUME NEW K, NEW index \in [K -> IdOrNil], NEW keys
  PROVE  /\ Unmap(index, keys) \in [K -> IdOrNil]
         /\ \A k \in K : Unmap(index, keys)[k] \in {0, index[k]}
BY IdFacts DEF Unmap

\* A role id in memory leads to a table, and so does an indexed session.
LEMMA Lookup ==
  ASSUME WorldInv
  PROVE  /\ \A r \in Roles : Lives(r) =>
               /\ role_id_to_role[r] \in Ids
               /\ RoleOf(r) = objs[role_id_to_role[r]]
               /\ objs[role_id_to_role[r]] \in RoleObj
         /\ \A s \in Ids : session_id_to_role[s] # 0 =>
               /\ session_id_to_role[s] \in Ids
               /\ objs[session_id_to_role[s]] \in RoleObj
BY IdFacts DEF WorldInv, WTypeOK, HeapOK, Lives, RoleOf

-----------------------------------------------------------------------------
(* The shape of a step. *)

\* The closures a call made by the world may capture: table o, or none.
Captures(cb, o) ==
    /\ cb[1] = "launch_client_change" => cb[2] = o
    /\ cb[1] = "_reconnect_role_game_change_client_cb" => cb[4] = o

\* Everything but the heap: the role index loses entries only, the session
\* index may gain entries for table o, calls may capture it.
AroundTable(o) ==
    /\ role_id_to_role' \in [Roles -> IdOrNil]
    /\ \A r \in Roles : role_id_to_role'[r] \in {0, role_id_to_role[r]}
    /\ session_id_to_role' \in [Ids -> IdOrNil]
    /\ \A s \in Ids : session_id_to_role'[s] \in {0, session_id_to_role[s], o}
    /\ last_session_id' \in IdOrNil /\ last_session_id <= last_session_id'
    /\ last_opera_id' \in IdOrNil
    /\ wcalls' \subseteq WorldCbs
    /\ \A cb \in wcalls' : cb \in wcalls \/ Captures(cb, o)
    /\ aborted' \subseteq AbortLines

\* Table o becomes new.
OneTable(o, new) ==
    /\ objs' = [objs EXCEPT ![o] = new]
    /\ new \in RoleObj /\ new.role = objs[o].role /\ TableOK(new)
    /\ AroundTable(o)

LEMMA WorldCbKinds ==
  ASSUME NEW cb \in WorldCbs
  PROVE  /\ cb[1] = "launch_client_change" => cb[2] \in Ids
         /\ cb[1] = "_reconnect_role_game_change_client_cb" => cb[4] \in Ids
<1>1. CASE cb \in {LaunchCb(s, r) : s \in Ids, r \in Roles}
  BY <1>1 DEF LaunchCb
<1>2. CASE cb \in {ChangeCb(o) : o \in Ids}
  BY <1>2 DEF ChangeCb
<1>3. CASE cb \in {ReleaseCb(r, i) : r \in Roles, i \in Ids}
  BY <1>3 DEF ReleaseCb
<1>4. CASE cb \in {ReconnectCb(GateCb("reconnect", c, n, r), s, o) :
                     c \in Clients, n \in CallIds, r \in Roles, s \in Ids, o \in Ids}
  BY <1>4 DEF ReconnectCb
<1>5. QED BY <1>1, <1>2, <1>3, <1>4 DEF WorldCbs

\* No reference dangles after a step in which every table keeps its role and
\* new references lead to a table o that was there.
LEMMA HeapStep ==
  ASSUME WorldInv, NEW o \in IdOrNil, o # 0 => objs[o] \in RoleObj, AroundTable(o),
         \A p \in Ids : objs[p] \in RoleObj =>
            objs'[p] \in RoleObj /\ objs'[p].role = objs[p].role
  PROVE  HeapOK'
<1>1. ASSUME NEW r \in Roles, role_id_to_role'[r] # 0
      PROVE  /\ objs'[role_id_to_role'[r]] \in RoleObj
             /\ objs'[role_id_to_role'[r]].role = r
             /\ role_id_to_role'[r] <= last_session_id'
  <2>1. role_id_to_role'[r] = role_id_to_role[r]
    BY <1>1 DEF AroundTable
  <2>2. /\ role_id_to_role[r] \in Ids
        /\ objs[role_id_to_role[r]] \in RoleObj
        /\ objs[role_id_to_role[r]].role = r
        /\ role_id_to_role[r] <= last_session_id
    BY <1>1, <2>1, IdFacts DEF WorldInv, WTypeOK, HeapOK, Lives, RoleOf
  <2>3. /\ role_id_to_role[r] \in Int /\ last_session_id \in Int
        /\ last_session_id' \in Int /\ last_session_id <= last_session_id'
    BY <2>2, ConstantsAssumption DEF AroundTable, WorldInv, WTypeOK, Ids, IdOrNil
  <2>4. QED BY <2>1, <2>2, <2>3
<1>2. ASSUME NEW s \in Ids, session_id_to_role'[s] # 0
      PROVE  objs'[session_id_to_role'[s]] \in RoleObj
  <2>1. session_id_to_role'[s] = o \/ session_id_to_role'[s] = session_id_to_role[s]
    BY <1>2 DEF AroundTable
  <2>2. session_id_to_role'[s] \in Ids
    BY <1>2, IdFacts DEF AroundTable
  <2>3. objs[session_id_to_role'[s]] \in RoleObj
    BY <1>2, <2>1 DEF WorldInv, HeapOK
  <2>4. QED BY <2>2, <2>3
<1>3. ASSUME NEW cb \in wcalls'
      PROVE  /\ cb[1] = "launch_client_change" => objs'[cb[2]] \in RoleObj
             /\ cb[1] = "_reconnect_role_game_change_client_cb" => objs'[cb[4]] \in RoleObj
  <2>1. cb \in WorldCbs /\ (cb \in wcalls \/ Captures(cb, o))
    BY <1>3 DEF AroundTable
  <2>2. /\ cb[1] = "launch_client_change" => cb[2] \in Ids
        /\ cb[1] = "_reconnect_role_game_change_client_cb" => cb[4] \in Ids
    BY <2>1, WorldCbKinds
  <2>3. /\ cb[1] = "launch_client_change" => objs[cb[2]] \in RoleObj
        /\ cb[1] = "_reconnect_role_game_change_client_cb" => objs[cb[4]] \in RoleObj
    BY <2>1, <2>2, IdFacts DEF WorldInv, HeapOK, Captures
  <2>4. QED BY <2>2, <2>3
<1>4. QED BY <1>1, <1>2, <1>3 DEF HeapOK, Lives, RoleOf

LEMMA OneTableStep ==
  ASSUME WorldInv, NEW o \in Ids, objs[o] \in RoleObj, NEW new, OneTable(o, new)
  PROVE  WorldInv'
<1>1. /\ objs' \in [Ids -> RoleObj \cup {None}]
      /\ objs'[o] = new /\ new \in RoleObj
      /\ \A p \in Ids : p # o => objs'[p] = objs[p]
  BY DEF OneTable, WorldInv, WTypeOK
<1>2. \A p \in Ids : objs[p] \in RoleObj =>
         objs'[p] \in RoleObj /\ objs'[p].role = objs[p].role
  BY <1>1 DEF OneTable
<1>3. WTypeOK'
  BY <1>1 DEF OneTable, AroundTable, WTypeOK
<1>4. HeapOK'
  BY <1>2, HeapStep, IdFacts DEF OneTable
<1>5. IdleTables'
  BY <1>1 DEF OneTable, WorldInv, IdleTables, TableOK
<1>6. QED BY <1>3, <1>4, <1>5 DEF WorldInv

LEMMA NoTableStep ==
  ASSUME WorldInv, objs' = objs, AroundTable(0)
  PROVE  WorldInv'
<1>1. WTypeOK' /\ IdleTables'
  BY DEF AroundTable, WorldInv, WTypeOK, IdleTables, TableOK
<1>2. HeapOK'
  BY HeapStep, IdFacts
<1>3. QED BY <1>1, <1>2 DEF WorldInv

\* Most steps leave most of it alone.
LEMMA Untouched ==
  ASSUME WorldInv
  PROVE  /\ UNCHANGED role_id_to_role =>
              /\ role_id_to_role' \in [Roles -> IdOrNil]
              /\ \A r \in Roles : role_id_to_role'[r] \in {0, role_id_to_role[r]}
         /\ UNCHANGED session_id_to_role =>
              /\ session_id_to_role' \in [Ids -> IdOrNil]
              /\ \A s \in Ids : session_id_to_role'[s] \in {0, session_id_to_role[s]}
         /\ UNCHANGED last_session_id =>
              last_session_id' \in IdOrNil /\ last_session_id <= last_session_id'
         /\ UNCHANGED last_opera_id => last_opera_id' \in IdOrNil
         /\ UNCHANGED wcalls => wcalls' \subseteq WorldCbs
         /\ UNCHANGED aborted => aborted' \subseteq AbortLines
BY ConstantsAssumption DEF WorldInv, WTypeOK, IdOrNil

LEMMA UntouchedWorld ==
  ASSUME WorldInv, UNCHANGED worldVars PROVE WorldInv'
BY Untouched, NoTableStep DEF worldVars, AroundTable

-----------------------------------------------------------------------------
(* Changes of a role table. *)

LEMMA TableDetached ==
  ASSUME NEW role \in RoleObj, NEW state \in RoleStates
  PROVE  /\ Detached(role, state) \in RoleObj
         /\ Detached(role, state).role = role.role
         /\ Detached(role, state).state = state
         /\ TableOK(Detached(role, state))
BY IdFacts DEF Detached, RoleObj, TableOK

LEMMA TableUpdates ==
  ASSUME NEW role \in RoleObj
  PROVE  /\ \A state \in RoleStates \ {"idle"} :
               LET new == [role EXCEPT !.state = state] IN
               new \in RoleObj /\ new.role = role.role /\ TableOK(new)
         /\ \A t \in Tokens :
               LET new == [role EXCEPT !.token = t] IN
               new \in RoleObj /\ new.role = role.role /\ (TableOK(role) => TableOK(new))
         /\ LET new == [role EXCEPT !.cached = None] IN
            new \in RoleObj /\ new.role = role.role /\ (TableOK(role) => TableOK(new))
BY DEF RoleObj, TableOK

-----------------------------------------------------------------------------
(* launch_role *)

LEMMA LaunchAbsentStep ==
  ASSUME WorldInv, NEW c \in Clients, NEW r \in Roles, NEW in, NEW rsp \in LaunchRsps,
         LaunchAbsent(in, rsp, c, r)
  PROVE  WorldInv'
<1>1. CASE UNCHANGED worldVars
  BY <1>1, UntouchedWorld
<1>2. CASE ~ UNCHANGED worldVars
  <2> DEFINE s == last_session_id + 1
  <2>1. PICK g \in Games :
          /\ UNCHANGED <<last_opera_id, aborted>>
          /\ s \in Ids
          /\ last_session_id' = s
          /\ objs' = [objs EXCEPT ![s] =
                 [role |-> r, state |-> "launch", session |-> s, gate |-> c,
                  token |-> TokenOf[c], cached |-> rsp, game |-> g, operas |-> {}]]
          /\ role_id_to_role' = [role_id_to_role EXCEPT ![r] = s]
          /\ session_id_to_role' = [session_id_to_role EXCEPT ![s] = s]
          /\ wcalls' = wcalls \cup {LaunchCb(s, r)}
    BY <1>2 DEF LaunchAbsent
  <2> DEFINE new == [role |-> r, state |-> "launch", session |-> s, gate |-> c,
                     token |-> TokenOf[c], cached |-> rsp, game |-> g, operas |-> {}]
  <2>2. last_session_id \in Int /\ \A i \in Ids : i \in Int
    BY ConstantsAssumption DEF WorldInv, WTypeOK, IdOrNil, Ids
  <2>3. s \in Ids /\ s \in IdOrNil
    BY <2>1, IdFacts
  <2>4. new \in RoleObj /\ new.role = r /\ TableOK(new)
    BY <2>3 DEF RoleObj, RoleStates, Tokens, TableOK
  <2>5. LaunchCb(s, r) \in WorldCbs /\ LaunchCb(s, r)[1] = "_rpc_rsp_launch_role"
    BY <2>3 DEF WorldCbs, LaunchCb
  <2> HIDE DEF new, s
  <2>6. WTypeOK'
    BY <2>1, <2>3, <2>4, <2>5 DEF WorldInv, WTypeOK, new
  <2>7. objs'[s] = new /\ \A o \in Ids : o # s => objs'[o] = objs[o]
    BY <2>1, <2>3 DEF WorldInv, WTypeOK, new
  <2>8. ASSUME NEW q \in Roles, role_id_to_role'[q] # 0
        PROVE  /\ objs'[role_id_to_role'[q]] \in RoleObj
               /\ objs'[role_id_to_role'[q]].role = q
               /\ role_id_to_role'[q] <= last_session_id'
    <3>1. CASE q = r
      <4>1. role_id_to_role'[q] = s /\ last_session_id' = s /\ s \in Int
        BY <2>1, <2>2, <2>3, <3>1 DEF WorldInv, WTypeOK
      <4>2. QED BY <2>4, <2>7, <3>1, <4>1
    <3>2. CASE q # r
      <4>1. role_id_to_role'[q] = role_id_to_role[q]
        BY <2>1, <3>2 DEF WorldInv, WTypeOK
      <4>2. /\ role_id_to_role[q] \in Ids
            /\ objs[role_id_to_role[q]] \in RoleObj
            /\ objs[role_id_to_role[q]].role = q
            /\ role_id_to_role[q] <= last_session_id
        BY <2>8, <4>1, IdFacts DEF WorldInv, WTypeOK, HeapOK, Lives, RoleOf
      <4>3. role_id_to_role[q] # s /\ role_id_to_role[q] <= last_session_id'
        BY <2>1, <2>2, <4>2 DEF s
      <4>4. QED BY <2>7, <4>1, <4>2, <4>3
    <3>3. QED BY <3>1, <3>2
  <2>9. ASSUME NEW i \in Ids, session_id_to_role'[i] # 0
        PROVE  objs'[session_id_to_role'[i]] \in RoleObj
    <3>1. session_id_to_role'[i] = s \/ session_id_to_role'[i] = session_id_to_role[i]
      BY <2>1, <2>9 DEF WorldInv, WTypeOK
    <3>2. session_id_to_role'[i] # s => objs[session_id_to_role'[i]] \in RoleObj
      BY <2>9, <3>1 DEF WorldInv, HeapOK
    <3>3. session_id_to_role'[i] \in Ids
      BY <2>6, <2>9, IdFacts DEF WTypeOK
    <3>4. QED BY <2>4, <2>7, <3>2, <3>3
  <2>10. ASSUME NEW cb \in wcalls'
         PROVE  /\ cb[1] = "launch_client_change" => objs'[cb[2]] \in RoleObj
                /\ cb[1] = "_reconnect_role_game_change_client_cb" => objs'[cb[4]] \in RoleObj
    <3>1. CASE cb \in wcalls
      <4>1. /\ cb[1] = "launch_client_change" => cb[2] \in Ids
            /\ cb[1] = "_reconnect_role_game_change_client_cb" => cb[4] \in Ids
        BY <3>1, WorldCbKinds DEF WorldInv, WTypeOK
      <4>2. QED BY <2>4, <2>7, <3>1, <4>1 DEF WorldInv, HeapOK
    <3>2. CASE cb = LaunchCb(s, r)
      BY <2>5, <3>2
    <3>3. QED BY <2>1, <2>10, <3>1, <3>2
  <2>11. HeapOK'
    BY <2>8, <2>9, <2>10 DEF HeapOK, Lives, RoleOf
  <2>12. IdleTables'
    BY <2>4, <2>7 DEF WorldInv, IdleTables
  <2>13. QED BY <2>6, <2>11, <2>12 DEF WorldInv
<1>3. QED BY <1>1, <1>2

LEMMA LaunchIdleStep ==
  ASSUME WorldInv, NEW c \in Clients, NEW r \in Roles, NEW in, NEW rsp,
         LaunchIdle(in, rsp, c, r)
  PROVE  WorldInv'
<1> DEFINE o == role_id_to_role[r]
           s == last_session_id + 2
           new == [objs[o] EXCEPT !.state = "using", !.session = s,
                                  !.gate = c, !.token = TokenOf[c]]
<1>1. o \in Ids /\ objs[o] \in RoleObj /\ RoleOf(r) = objs[o]
  BY Lookup DEF LaunchIdle
<1>2. s \in Ids /\ s \in IdOrNil /\ last_session_id <= s
  BY NextId DEF LaunchIdle, WorldInv, WTypeOK
<1>3. new \in RoleObj /\ new.role = objs[o].role /\ TableOK(new)
  BY <1>1, <1>2 DEF RoleObj, RoleStates, Tokens, TableOK
<1>4. objs' = [objs EXCEPT ![o] = new]
  BY DEF LaunchIdle
<1>5. AroundTable(o)
  <2> DEFINE index == Unmap(session_id_to_role, {RoleOf(r).session})
  <2>1. /\ index \in [Ids -> IdOrNil]
        /\ \A i \in Ids : index[i] \in {0, session_id_to_role[i]}
    BY UnmapType DEF WorldInv, WTypeOK
  <2>2. session_id_to_role' = [index EXCEPT ![s] = o]
    BY DEF LaunchIdle
  <2> HIDE DEF index
  <2>3. /\ session_id_to_role' \in [Ids -> IdOrNil]
        /\ \A i \in Ids : session_id_to_role'[i] \in {0, session_id_to_role[i], o}
    BY <1>1, <2>1, <2>2, IdFacts
  <2>4. last_session_id' \in IdOrNil /\ last_session_id <= last_session_id'
    BY <1>2 DEF LaunchIdle
  <2>5. QED BY <2>3, <2>4, Untouched DEF LaunchIdle, AroundTable
<1>6. QED BY <1>1, <1>3, <1>4, <1>5, OneTableStep DEF OneTable

LEMMA LaunchUsingStep ==
  ASSUME WorldInv, NEW c \in Clients, NEW r \in Roles, NEW in, NEW rsp,
         LaunchUsing(in, rsp, c, r)
  PROVE  WorldInv'
<1> DEFINE o == role_id_to_role[r]
           old == RoleOf(r).session
<1>1. o \in Ids /\ objs[o] \in RoleObj /\ RoleOf(r) = objs[o] /\ objs[o].state = "using"
  BY Lookup DEF LaunchUsing
<1>2. UNCHANGED <<role_id_to_role, last_opera_id, wcalls, aborted>>
  BY DEF LaunchUsing
<1>3. CASE /\ objs' = [objs EXCEPT ![o].token = TokenOf[c]]
           /\ session_id_to_role' = [session_id_to_role EXCEPT ![old] = o]
           /\ UNCHANGED last_session_id
  <2> DEFINE new == [objs[o] EXCEPT !.token = TokenOf[c]]
  <2>1. TokenOf[c] \in Tokens
    BY DEF Tokens
  <2>2. new \in RoleObj /\ new.role = objs[o].role /\ TableOK(new)
    BY <1>1, <2>1 DEF RoleObj, TableOK
  <2>3. objs' = [objs EXCEPT ![o] = new]
    BY <1>3
  <2>4. /\ session_id_to_role' \in [Ids -> IdOrNil]
        /\ \A i \in Ids : session_id_to_role'[i] \in {0, session_id_to_role[i], o}
    BY <1>1, <1>3, IdFacts DEF WorldInv, WTypeOK
  <2>5. AroundTable(o)
    BY <1>2, <1>3, <2>4, Untouched DEF AroundTable
  <2>6. QED BY <1>1, <2>2, <2>3, <2>5, OneTableStep DEF OneTable
<1>4. CASE LET s == last_session_id + 1
           IN /\ s \in Ids
              /\ last_session_id' = s
              /\ objs' = [objs EXCEPT ![o].session = s, ![o].gate = c,
                                      ![o].token = TokenOf[c]]
              /\ session_id_to_role' = [Unmap(session_id_to_role, {old}) EXCEPT ![s] = o]
  <2> DEFINE s == last_session_id + 1
             new == [objs[o] EXCEPT !.session = s, !.gate = c, !.token = TokenOf[c]]
             index == Unmap(session_id_to_role, {old})
  <2>1. s \in Ids /\ s \in IdOrNil /\ last_session_id <= s /\ TokenOf[c] \in Tokens
    BY <1>4, NextId DEF WorldInv, WTypeOK, Tokens
  <2>2. new \in RoleObj /\ new.role = objs[o].role /\ TableOK(new)
    BY <1>1, <2>1 DEF RoleObj, TableOK
  <2>3. objs' = [objs EXCEPT ![o] = new]
    BY <1>4
  <2>4. /\ index \in [Ids -> IdOrNil]
        /\ \A i \in Ids : index[i] \in {0, session_id_to_role[i]}
    BY UnmapType DEF WorldInv, WTypeOK
  <2>5. session_id_to_role' = [index EXCEPT ![s] = o] /\ last_session_id' = s
    BY <1>4
  <2> HIDE DEF index, s
  <2>6. /\ session_id_to_role' \in [Ids -> IdOrNil]
        /\ \A i \in Ids : session_id_to_role'[i] \in {0, session_id_to_role[i], o}
    BY <1>1, <2>4, <2>5, IdFacts
  <2>7. AroundTable(o)
    BY <1>2, <2>1, <2>5, <2>6, Untouched DEF AroundTable
  <2>8. QED BY <1>1, <2>2, <2>3, <2>7, OneTableStep DEF OneTable
<1>5. QED BY <1>3, <1>4 DEF LaunchUsing

LEMMA LaunchLaunchingStep ==
  ASSUME WorldInv, NEW c \in Clients, NEW r \in Roles, NEW in, NEW rsp \in LaunchRsps,
         LaunchLaunching(in, rsp, c, r)
  PROVE  WorldInv'
<1> DEFINE o == role_id_to_role[r]
           old == RoleOf(r).session
<1>1. o \in Ids /\ objs[o] \in RoleObj /\ RoleOf(r) = objs[o] /\ objs[o].state = "launch"
  BY Lookup DEF LaunchLaunching
<1>2. UNCHANGED <<role_id_to_role, last_opera_id, wcalls>>
  BY DEF LaunchLaunching
<1>3. CASE /\ objs' = [objs EXCEPT ![o].token = TokenOf[c]]
           /\ session_id_to_role' = [session_id_to_role EXCEPT ![old] = o]
           /\ UNCHANGED <<last_session_id, aborted>>
  <2> DEFINE new == [objs[o] EXCEPT !.token = TokenOf[c]]
  <2>1. TokenOf[c] \in Tokens
    BY DEF Tokens
  <2>2. new \in RoleObj /\ new.role = objs[o].role /\ TableOK(new)
    BY <1>1, <2>1 DEF RoleObj, TableOK
  <2>3. objs' = [objs EXCEPT ![o] = new]
    BY <1>3
  <2>4. /\ session_id_to_role' \in [Ids -> IdOrNil]
        /\ \A i \in Ids : session_id_to_role'[i] \in {0, session_id_to_role[i], o}
    BY <1>1, <1>3, IdFacts DEF WorldInv, WTypeOK
  <2>5. AroundTable(o)
    BY <1>2, <1>3, <2>4, Untouched DEF AroundTable
  <2>6. QED BY <1>1, <2>2, <2>3, <2>5, OneTableStep DEF OneTable
<1>4. CASE /\ aborted' = aborted \cup {157}
           /\ UNCHANGED <<objs, last_session_id, session_id_to_role>>
  <2>1. aborted' \subseteq AbortLines
    BY <1>4 DEF AbortLines, WorldInv, WTypeOK
  <2>2. AroundTable(0)
    BY <1>2, <1>4, <2>1, Untouched DEF AroundTable
  <2>3. QED BY <1>4, <2>2, NoTableStep
<1>5. CASE LET s == last_session_id + 1
           IN /\ s \in Ids
              /\ last_session_id' = s
              /\ objs' = [objs EXCEPT ![o].cached = rsp, ![o].session = s]
              /\ aborted' = aborted \cup {162}
              /\ UNCHANGED session_id_to_role
  <2> DEFINE s == last_session_id + 1
             new == [objs[o] EXCEPT !.cached = rsp, !.session = s]
  <2>1. s \in Ids /\ s \in IdOrNil /\ last_session_id <= s
    BY <1>5, NextId DEF WorldInv, WTypeOK
  <2>2. new \in RoleObj /\ new.role = objs[o].role /\ TableOK(new)
    BY <1>1, <2>1 DEF RoleObj, TableOK
  <2>3. objs' = [objs EXCEPT ![o] = new]
    BY <1>5
  <2>4. aborted' \subseteq AbortLines
    BY <1>5 DEF AbortLines, WorldInv, WTypeOK
  <2>5. last_session_id' = s
    BY <1>5
  <2> HIDE DEF s
  <2>6. AroundTable(o)
    BY <1>2, <1>5, <2>1, <2>4, <2>5, Untouched DEF AroundTable
  <2>7. QED BY <1>1, <2>2, <2>3, <2>6, OneTableStep DEF OneTable
<1>6. QED BY <1>3, <1>4, <1>5 DEF LaunchLaunching

LEMMA LaunchRoleStep ==
  ASSUME WorldInv, NEW c \in Clients, NEW r \in Roles, NEW in, NEW rsp \in LaunchRsps,
         LaunchRole(in, rsp, c, r)
  PROVE  WorldInv'
BY LaunchAbsentStep, LaunchIdleStep, LaunchUsingStep, LaunchLaunchingStep, UntouchedWorld
DEF LaunchRole, LaunchReleasing

-----------------------------------------------------------------------------
(* The answer to launch_role, and release *)

LEMMA FailActionStep ==
  ASSUME WorldInv, NEW o \in Ids, objs[o] \in RoleObj, NEW in, NEW err,
         FailAction(o, in, err), wcalls' \subseteq wcalls,
         UNCHANGED <<last_session_id, last_opera_id>>
  PROVE  WorldInv'
<1> DEFINE new == [objs[o] EXCEPT !.cached = None]
<1>1. wcalls' \subseteq WorldCbs /\ \A cb \in wcalls' : cb \in wcalls
  BY DEF WorldInv, WTypeOK
<1>2. aborted' \subseteq AbortLines
  BY DEF FailAction, AbortLines, WorldInv, WTypeOK
<1>3. CASE UNCHANGED <<objs, session_id_to_role, role_id_to_role>>
  <2>1. AroundTable(0)
    BY <1>1, <1>2, <1>3, Untouched DEF AroundTable
  <2>2. QED BY <1>3, <2>1, NoTableStep
<1>4. CASE objs' = [objs EXCEPT ![o].cached = None]
  <2>1. objs' = [objs EXCEPT ![o] = new]
    BY <1>4
  <2>2. new \in RoleObj /\ new.role = objs[o].role /\ TableOK(new)
    BY TableUpdates DEF WorldInv, IdleTables
  <2>3. CASE UNCHANGED <<session_id_to_role, role_id_to_role>>
    <3>1. AroundTable(o)
      BY <1>1, <1>2, <2>3, Untouched DEF AroundTable
    <3>2. QED BY <2>1, <2>2, <3>1, OneTableStep DEF OneTable
  <2>4. CASE /\ session_id_to_role' = Unmap(session_id_to_role, {objs[o].session})
             /\ role_id_to_role' = Unmap(role_id_to_role, {objs[o].role})
    <3>1. /\ session_id_to_role' \in [Ids -> IdOrNil]
          /\ \A s \in Ids : session_id_to_role'[s] \in {0, session_id_to_role[s]}
          /\ role_id_to_role' \in [Roles -> IdOrNil]
          /\ \A r \in Roles : role_id_to_role'[r] \in {0, role_id_to_role[r]}
      BY <2>4, UnmapType DEF WorldInv, WTypeOK
    <3>2. AroundTable(o)
      BY <1>1, <1>2, <3>1, Untouched DEF AroundTable
    <3>3. QED BY <2>1, <2>2, <3>2, OneTableStep DEF OneTable
  <2>5. QED BY <1>4, <2>3, <2>4, <1>3 DEF FailAction
<1>5. QED BY <1>3, <1>4 DEF FailAction

\* A release, begun in a heap whose tables are as good as before.
LEMMA TryReleaseStep ==
  ASSUME WorldInv, NEW r \in Roles, Lives(r), NEW calls \in SUBSET wcalls,
         NEW heap \in [Ids -> RoleObj \cup {None}],
         \A p \in Ids : \/ heap[p] = objs[p]
                        \/ /\ heap[p] \in RoleObj /\ TableOK(heap[p])
                           /\ objs[p] \in RoleObj => heap[p].role = objs[p].role,
         TryReleaseRole(heap, calls, r),
         session_id_to_role' \in [Ids -> IdOrNil],
         \A s \in Ids : session_id_to_role'[s] \in {0, session_id_to_role[s]},
         UNCHANGED <<role_id_to_role, last_session_id, aborted>>
  PROVE  WorldInv'
<1> DEFINE o == role_id_to_role[r]
           opera == last_opera_id + 1
           new == [heap[o] EXCEPT !.state = "releasing", !.operas = @ \cup {opera}]
<1>1. o \in Ids /\ objs[o] \in RoleObj /\ heap[o] \in RoleObj
  BY Lookup
<1>2. opera \in Ids /\ last_opera_id' = opera /\ opera \in IdOrNil
  BY IdFacts DEF TryReleaseRole
<1>3. new \in RoleObj /\ new.role = objs[o].role /\ TableOK(new)
  BY <1>1, <1>2 DEF RoleObj, RoleStates, TableOK
<1>4. objs' = [heap EXCEPT ![o] = new]
  BY DEF TryReleaseRole, Releasing
<1> HIDE DEF new
<1>5. objs' \in [Ids -> RoleObj \cup {None}] /\ objs'[o] = new
      /\ \A p \in Ids : p # o => objs'[p] = heap[p]
  BY <1>1, <1>3, <1>4
<1>6. \A p \in Ids : objs[p] \in RoleObj =>
         objs'[p] \in RoleObj /\ objs'[p].role = objs[p].role
  BY <1>3, <1>5
<1>7. wcalls' = calls \cup {ReleaseCb(r, opera)}
  BY DEF TryReleaseRole
<1>8. ReleaseCb(r, opera) \in WorldCbs
  BY <1>2 DEF WorldCbs
<1>9. Captures(ReleaseCb(r, opera), 0)
  BY DEF Captures, ReleaseCb
<1> HIDE DEF opera
<1>10. wcalls' \subseteq WorldCbs
  BY <1>7, <1>8 DEF WorldInv, WTypeOK
<1>11. AroundTable(0)
  BY <1>2, <1>7, <1>9, <1>10, Untouched DEF AroundTable
<1>12. HeapOK'
  BY <1>6, <1>11, HeapStep, IdFacts
<1>13. IdleTables'
  BY <1>3, <1>5 DEF WorldInv, IdleTables
<1>14. WTypeOK'
  BY <1>5, <1>11 DEF AroundTable, WTypeOK
<1>15. QED BY <1>12, <1>13, <1>14 DEF WorldInv

\* The same in the heap as it is.
LEMMA TryReleaseHere ==
  ASSUME WorldInv, NEW r \in Roles, Lives(r), NEW calls \in SUBSET wcalls,
         TryReleaseRole(objs, calls, r),
         UNCHANGED <<role_id_to_role, session_id_to_role, last_session_id, aborted>>
  PROVE  WorldInv'
<1>1. objs \in [Ids -> RoleObj \cup {None}]
  BY DEF WorldInv, WTypeOK
<1>2. /\ session_id_to_role' \in [Ids -> IdOrNil]
      /\ \A s \in Ids : session_id_to_role'[s] \in {0, session_id_to_role[s]}
  BY Untouched
<1>3. QED BY <1>1, <1>2, TryReleaseStep

\* A handler that only drops calls, adds some that capture no table but o,
\* or dies.
LEMMA CallsOnly ==
  ASSUME WorldInv, NEW o \in IdOrNil, o # 0 => objs[o] \in RoleObj,
         wcalls' \subseteq WorldCbs, \A cb \in wcalls' : cb \in wcalls \/ Captures(cb, o),
         aborted' \subseteq AbortLines,
         UNCHANGED <<objs, role_id_to_role, session_id_to_role, last_session_id, last_opera_id>>
  PROVE  WorldInv'
<1>1. AroundTable(o)
  BY Untouched DEF AroundTable
<1>2. WTypeOK' /\ IdleTables'
  BY <1>1 DEF AroundTable, WorldInv, WTypeOK, IdleTables, TableOK
<1>3. HeapOK'
  BY <1>1, HeapStep
<1>4. QED BY <1>2, <1>3 DEF WorldInv

LEMMA RpcRspLaunchRoleStep ==
  ASSUME WorldInv, NEW s \in Ids, NEW r \in Roles, NEW in, NEW err,
         RpcRspLaunchRole(in, s, r, err)
  PROVE  WorldInv'
<1> DEFINE calls == wcalls \ {LaunchCb(s, r)}
           o == role_id_to_role[r]
<1>1. s # 0 /\ UNCHANGED last_session_id /\ calls \in SUBSET wcalls
  BY IdFacts DEF RpcRspLaunchRole
<1>2. SessionOf(r) = s => /\ Lives(r) /\ o \in Ids
                          /\ objs[o] \in RoleObj /\ RoleOf(r) = objs[o]
  BY <1>1, Lookup DEF SessionOf
<1>3. aborted' \subseteq AbortLines
  BY DEF RpcRspLaunchRole, FailAction, AbortLines, WorldInv, WTypeOK
<1>4. CASE /\ wcalls' = calls
           /\ UNCHANGED <<objs, role_id_to_role, session_id_to_role, last_opera_id>>
  BY <1>1, <1>3, <1>4, CallsOnly, IdFacts DEF WorldInv, WTypeOK
<1>5. CASE /\ SessionOf(r) = s
           /\ TryReleaseRole(objs, calls, r)
           /\ UNCHANGED <<role_id_to_role, session_id_to_role, aborted>>
  BY <1>1, <1>2, <1>5, TryReleaseHere
<1>6. CASE /\ SessionOf(r) = s
           /\ wcalls' = calls \cup {ChangeCb(o)}
           /\ UNCHANGED <<objs, role_id_to_role, session_id_to_role, last_opera_id, aborted>>
  <2>1. ChangeCb(o) \in WorldCbs
    BY <1>2, <1>6 DEF WorldCbs
  <2>2. Captures(ChangeCb(o), o)
    BY DEF Captures, ChangeCb
  <2>3. wcalls' \subseteq WorldCbs /\ \A cb \in wcalls' : cb \in wcalls \/ Captures(cb, o)
    BY <1>6, <2>1, <2>2 DEF WorldInv, WTypeOK
  <2>4. QED BY <1>1, <1>2, <1>3, <1>6, <2>3, CallsOnly, IdFacts
<1>7. CASE /\ SessionOf(r) = s
           /\ wcalls' = calls
           /\ FailAction(o, in, err)
           /\ UNCHANGED last_opera_id
  BY <1>1, <1>2, <1>7, FailActionStep
<1>8. QED BY <1>4, <1>5, <1>6, <1>7 DEF RpcRspLaunchRole

LEMMA LaunchClientChangedStep ==
  ASSUME WorldInv, NEW o \in Ids, NEW in, NEW err, LaunchClientChanged(in, o, err)
  PROVE  WorldInv'
<1>1. objs[o] \in RoleObj
  <2>1. ChangeCb(o) \in wcalls /\ ChangeCb(o)[1] = "launch_client_change" /\ ChangeCb(o)[2] = o
    BY DEF LaunchClientChanged, ChangeCb
  <2>2. QED BY <2>1 DEF WorldInv, HeapOK
<1>2. /\ wcalls' \subseteq wcalls /\ wcalls' \subseteq WorldCbs
      /\ UNCHANGED <<last_session_id, last_opera_id>>
  BY DEF LaunchClientChanged, WorldInv, WTypeOK
<1>3. CASE FailAction(o, in, "refused")
  BY <1>1, <1>2, <1>3, FailActionStep
<1>4. ASSUME NEW new, objs' = [objs EXCEPT ![o] = new], new \in RoleObj,
             new.role = objs[o].role, TableOK(new), aborted' \subseteq AbortLines,
             UNCHANGED <<role_id_to_role, session_id_to_role>>
      PROVE  WorldInv'
  <2>1. AroundTable(o)
    BY <1>2, <1>4, Untouched DEF AroundTable
  <2>2. QED BY <1>1, <1>4, <2>1, OneTableStep DEF OneTable
<1>5. CASE /\ objs' = [objs EXCEPT ![o].state = "using", ![o].cached = None]
           /\ UNCHANGED <<role_id_to_role, session_id_to_role, aborted>>
  <2> DEFINE new == [objs[o] EXCEPT !.state = "using", !.cached = None]
  <2>1. new \in RoleObj /\ new.role = objs[o].role /\ TableOK(new)
    BY <1>1 DEF RoleObj, RoleStates, TableOK
  <2>2. objs' = [objs EXCEPT ![o] = new] /\ aborted' \subseteq AbortLines
    BY <1>5 DEF WorldInv, WTypeOK
  <2>3. QED BY <1>4, <1>5, <2>1, <2>2
<1>6. CASE /\ objs' = [objs EXCEPT ![o].state = "using"]
           /\ aborted' = aborted \cup {229}
           /\ UNCHANGED <<role_id_to_role, session_id_to_role>>
  <2> DEFINE new == [objs[o] EXCEPT !.state = "using"]
  <2>1. new \in RoleObj /\ new.role = objs[o].role /\ TableOK(new)
    BY <1>1 DEF RoleObj, RoleStates, TableOK
  <2>2. objs' = [objs EXCEPT ![o] = new] /\ aborted' \subseteq AbortLines
    BY <1>6 DEF WorldInv, WTypeOK, AbortLines
  <2>3. QED BY <1>4, <1>6, <2>1, <2>2
<1>7. QED BY <1>3, <1>5, <1>6 DEF LaunchClientChanged

LEMMA OnFrameStep ==
  ASSUME WorldInv, NEW r \in Roles, OnFrame(r)
  PROVE  WorldInv'
<1>1. wcalls \in SUBSET wcalls
  OBVIOUS
<1>2. QED BY <1>1, TryReleaseHere DEF OnFrame

LEMMA RpcRspTryReleaseRoleStep ==
  ASSUME WorldInv, NEW r \in Roles, NEW opera \in Ids, NEW in, NEW err,
         RpcRspTryReleaseRole(in, r, opera, err)
  PROVE  WorldInv'
<1> DEFINE calls == wcalls \ {ReleaseCb(r, opera)}
           o == role_id_to_role[r]
<1>1. UNCHANGED last_session_id /\ calls \in SUBSET wcalls
  BY DEF RpcRspTryReleaseRole
<1>2. aborted' \subseteq AbortLines
  BY DEF RpcRspTryReleaseRole, AbortLines, WorldInv, WTypeOK
<1>3. CASE /\ wcalls' = calls
           /\ UNCHANGED <<objs, role_id_to_role, session_id_to_role, last_opera_id>>
  BY <1>1, <1>2, <1>3, CallsOnly, IdFacts DEF WorldInv, WTypeOK
<1>4. CASE /\ Lives(r)
           /\ TryReleaseRole(objs, calls, r)
           /\ UNCHANGED <<role_id_to_role, session_id_to_role, aborted>>
  BY <1>1, <1>4, TryReleaseHere
<1>5. CASE /\ Lives(r)
           /\ objs' = [objs EXCEPT ![o].state = "released"]
           /\ session_id_to_role' = Unmap(session_id_to_role, {RoleOf(r).session})
           /\ role_id_to_role' = Unmap(role_id_to_role, {r})
           /\ wcalls' = calls
           /\ UNCHANGED <<last_opera_id, aborted>>
  <2> DEFINE new == [objs[o] EXCEPT !.state = "released"]
  <2>1. o \in Ids /\ objs[o] \in RoleObj
    BY <1>5, Lookup
  <2>2. "released" \in RoleStates \ {"idle"}
    BY DEF RoleStates
  <2>3. new \in RoleObj /\ new.role = objs[o].role /\ TableOK(new)
    BY <2>1, <2>2, TableUpdates
  <2>4. objs' = [objs EXCEPT ![o] = new]
    BY <1>5
  <2>5. /\ session_id_to_role' \in [Ids -> IdOrNil]
        /\ \A s \in Ids : session_id_to_role'[s] \in {0, session_id_to_role[s]}
        /\ role_id_to_role' \in [Roles -> IdOrNil]
        /\ \A q \in Roles : role_id_to_role'[q] \in {0, role_id_to_role[q]}
    BY <1>5, UnmapType DEF WorldInv, WTypeOK
  <2>6. wcalls' \subseteq WorldCbs /\ \A cb \in wcalls' : cb \in wcalls
    BY <1>5 DEF WorldInv, WTypeOK
  <2>7. AroundTable(o)
    BY <1>1, <1>5, <2>5, <2>6, Untouched DEF AroundTable
  <2>8. QED BY <2>1, <2>3, <2>4, <2>7, OneTableStep DEF OneTable
<1>6. QED BY <1>3, <1>4, <1>5 DEF RpcRspTryReleaseRole

-----------------------------------------------------------------------------
(* The end of a session, and reconnecting *)

LEMMA ClientQuitStep ==
  ASSUME WorldInv, NEW s \in IdOrNil, NEW in, ClientQuit(in, s)
  PROVE  WorldInv'
<1> DEFINE o == IF s = 0 THEN 0 ELSE session_id_to_role[s]
<1>1. UNCHANGED <<last_session_id, last_opera_id, wcalls>>
  BY DEF ClientQuit
<1>2. o # 0 => o \in Ids /\ objs[o] \in RoleObj
  BY Lookup, IdFacts
<1>3. aborted' \subseteq AbortLines
  <2>1. aborted' \in {aborted, aborted \cup {244}, aborted \cup {257}}
    BY DEF ClientQuit
  <2>2. QED BY <2>1 DEF AbortLines, WorldInv, WTypeOK
<1>4. wcalls' \subseteq WorldCbs /\ \A cb \in wcalls' : cb \in wcalls
  BY <1>1 DEF WorldInv, WTypeOK
<1>5. CASE UNCHANGED <<objs, role_id_to_role, session_id_to_role>>
  BY <1>1, <1>3, <1>4, <1>5, CallsOnly, IdFacts
<1>6. CASE /\ o # 0
           /\ \E state \in RoleStates : objs' = [objs EXCEPT ![o] = Detached(objs[o], state)]
           /\ session_id_to_role' = Unmap(session_id_to_role, {objs[o].session})
           /\ \/ UNCHANGED role_id_to_role
              \/ role_id_to_role' = Unmap(role_id_to_role, {objs[o].role})
  <2>1. PICK state \in RoleStates : objs' = [objs EXCEPT ![o] = Detached(objs[o], state)]
    BY <1>6
  <2>2. /\ Detached(objs[o], state) \in RoleObj
        /\ Detached(objs[o], state).role = objs[o].role
        /\ TableOK(Detached(objs[o], state))
    BY <1>2, <1>6, TableDetached
  <2>3. /\ session_id_to_role' \in [Ids -> IdOrNil]
        /\ \A i \in Ids : session_id_to_role'[i] \in {0, session_id_to_role[i]}
        /\ role_id_to_role' \in [Roles -> IdOrNil]
        /\ \A q \in Roles : role_id_to_role'[q] \in {0, role_id_to_role[q]}
    BY <1>6, UnmapType, Untouched DEF WorldInv, WTypeOK
  <2>4. AroundTable(o)
    BY <1>1, <1>3, <1>4, <2>3, Untouched DEF AroundTable
  <2>5. QED BY <1>2, <1>6, <2>1, <2>2, <2>4, OneTableStep DEF OneTable
<1>7. o # 0 => objs[o].state \in RoleStates /\ {"idle", "launch"} \subseteq RoleStates
  BY <1>2 DEF RoleObj, RoleStates
<1>8. QED BY <1>2, <1>5, <1>6, <1>7 DEF ClientQuit, WorldInv, WTypeOK

LEMMA LogoutRoleStep ==
  ASSUME WorldInv, NEW s \in IdOrNil, NEW r \in Roles, NEW in, NEW rsp,
         LogoutRole(in, rsp, s, r)
  PROVE  WorldInv'
<1> DEFINE o == IF s = 0 THEN 0 ELSE session_id_to_role[s]
           new == Detached(objs[o], objs[o].state)
           cleared == [objs EXCEPT ![o] = Detached(@, @.state)]
<1>1. UNCHANGED <<role_id_to_role, last_session_id>>
  BY DEF LogoutRole
<1>2. o # 0 => o \in Ids /\ objs[o] \in RoleObj
  BY Lookup, IdFacts
<1>3. CASE UNCHANGED <<objs, session_id_to_role, last_opera_id, wcalls>>
  <2>1. aborted' \subseteq AbortLines
    <3>1. aborted' \in {aborted, aborted \cup {340}}
      BY DEF LogoutRole
    <3>2. QED BY <3>1 DEF AbortLines, WorldInv, WTypeOK
  <2>2. wcalls' \subseteq WorldCbs /\ \A cb \in wcalls' : cb \in wcalls
    BY <1>3 DEF WorldInv, WTypeOK
  <2>3. QED BY <1>1, <1>3, <2>1, <2>2, CallsOnly, IdFacts
<1>4. CASE /\ o # 0
           /\ session_id_to_role' = Unmap(session_id_to_role, {objs[o].session})
           /\ \/ Lives(r) /\ TryReleaseRole(cleared, wcalls, r)
              \/ objs' = cleared /\ UNCHANGED <<last_opera_id, wcalls>>
           /\ UNCHANGED aborted
  <2>1. objs[o].state \in RoleStates
    BY <1>2, <1>4 DEF RoleObj
  <2>2. new \in RoleObj /\ new.role = objs[o].role /\ TableOK(new)
    BY <1>2, <1>4, <2>1, TableDetached
  <2>3. cleared = [objs EXCEPT ![o] = new]
    OBVIOUS
  <2>4. /\ session_id_to_role' \in [Ids -> IdOrNil]
        /\ \A i \in Ids : session_id_to_role'[i] \in {0, session_id_to_role[i]}
    BY <1>4, UnmapType DEF WorldInv, WTypeOK
  <2>5. CASE Lives(r) /\ TryReleaseRole(cleared, wcalls, r)
    <3>1. cleared \in [Ids -> RoleObj \cup {None}]
      BY <2>2, <2>3 DEF WorldInv, WTypeOK
    <3>2. \A p \in Ids : \/ cleared[p] = objs[p]
                         \/ /\ cleared[p] \in RoleObj /\ TableOK(cleared[p])
                            /\ cleared[p].role = objs[p].role
      BY <2>2, <2>3 DEF WorldInv, WTypeOK
    <3>3. wcalls \in SUBSET wcalls
      OBVIOUS
    <3> HIDE DEF cleared
    <3>4. QED BY <1>1, <1>4, <2>4, <2>5, <3>1, <3>2, <3>3, TryReleaseStep
  <2>6. CASE objs' = cleared /\ UNCHANGED <<last_opera_id, wcalls>>
    <3>1. AroundTable(o)
      BY <1>1, <1>4, <2>4, <2>6, Untouched DEF AroundTable
    <3>2. QED BY <1>2, <1>4, <2>2, <2>3, <2>6, <3>1, OneTableStep DEF OneTable
  <2>7. QED BY <1>4, <2>5, <2>6
<1>5. QED BY <1>3, <1>4 DEF LogoutRole

LEMMA ReconnectRoleStep ==
  ASSUME WorldInv, NEW c \in Clients, NEW n \in CallIds, NEW r \in Roles, NEW in,
         ReconnectRole(in, GateCb("reconnect", c, n, r), c, r)
  PROVE  WorldInv'
<1> DEFINE o == role_id_to_role[r]
           s == last_opera_id + 1
           cb == ReconnectCb(GateCb("reconnect", c, n, r), s, o)
           new == [objs[o] EXCEPT !.state = "using", !.session = s, !.gate = c]
<1>1. UNCHANGED <<role_id_to_role, last_session_id, aborted>>
  BY DEF ReconnectRole
<1>2. CASE UNCHANGED <<objs, session_id_to_role, last_opera_id, wcalls>>
  BY <1>1, <1>2, UntouchedWorld DEF worldVars
<1>3. CASE /\ Lives(r) /\ s \in Ids
           /\ last_opera_id' = s
           /\ objs' = [objs EXCEPT ![o].state = "using", ![o].session = s, ![o].gate = c]
           /\ session_id_to_role' = [session_id_to_role EXCEPT ![s] = o]
           /\ wcalls' = wcalls \cup {cb}
  <2>1. o \in Ids /\ o \in IdOrNil /\ objs[o] \in RoleObj
    BY <1>3, Lookup, IdFacts
  <2>2. s \in Ids /\ s \in IdOrNil /\ last_opera_id' = s
    BY <1>3, IdFacts
  <2>3. new \in RoleObj /\ new.role = objs[o].role /\ TableOK(new)
    BY <2>1, <2>2 DEF RoleObj, RoleStates, TableOK
  <2>4. objs' = [objs EXCEPT ![o] = new]
    BY <1>3
  <2>5. cb \in WorldCbs /\ Captures(cb, o)
    BY <2>1, <2>2 DEF WorldCbs, Captures, ReconnectCb
  <2>6. /\ session_id_to_role' \in [Ids -> IdOrNil]
        /\ \A i \in Ids : session_id_to_role'[i] \in {0, session_id_to_role[i], o}
    BY <1>3, <2>1, <2>2 DEF WorldInv, WTypeOK
  <2> HIDE DEF cb, s
  <2>7. wcalls' \subseteq WorldCbs /\ \A x \in wcalls' : x \in wcalls \/ Captures(x, o)
    BY <1>3, <2>5 DEF WorldInv, WTypeOK
  <2>8. AroundTable(o)
    BY <1>1, <2>2, <2>6, <2>7, Untouched DEF AroundTable
  <2>9. QED BY <2>1, <2>3, <2>4, <2>8, OneTableStep DEF OneTable
<1>4. QED BY <1>2, <1>3 DEF ReconnectRole

LEMMA ReconnectClientChangedStep ==
  ASSUME WorldInv, NEW rsp, NEW s \in Ids, NEW o \in Ids, NEW in, NEW err,
         ReconnectClientChanged(in, rsp, s, o, err)
  PROVE  WorldInv'
<1> DEFINE state == IF objs[o].state = "using" THEN "idle" ELSE objs[o].state
           new == Detached(objs[o], state)
<1>1. objs[o] \in RoleObj
  <2> DEFINE cb == ReconnectCb(rsp, s, o)
  <2>1. /\ cb \in wcalls /\ cb[4] = o
        /\ cb[1] = "_reconnect_role_game_change_client_cb"
    BY DEF ReconnectClientChanged, ReconnectCb
  <2>2. QED BY <2>1 DEF WorldInv, HeapOK
<1>2. /\ wcalls' \subseteq WorldCbs /\ \A cb \in wcalls' : cb \in wcalls
      /\ UNCHANGED <<role_id_to_role, last_session_id, last_opera_id, aborted>>
  BY DEF ReconnectClientChanged, WorldInv, WTypeOK
<1>3. CASE UNCHANGED <<objs, session_id_to_role>>
  BY <1>2, <1>3, CallsOnly, IdFacts DEF WorldInv, WTypeOK
<1>4. CASE /\ objs' = [objs EXCEPT ![o] = Detached(@, IF @.state = "using" THEN "idle"
                                                      ELSE @.state)]
           /\ session_id_to_role' = Unmap(session_id_to_role, {s})
  <2>1. state \in RoleStates
    BY <1>1 DEF RoleObj, RoleStates
  <2>2. new \in RoleObj /\ new.role = objs[o].role /\ TableOK(new)
    BY <1>1, <2>1, TableDetached
  <2>3. objs' = [objs EXCEPT ![o] = new]
    BY <1>4
  <2>4. /\ session_id_to_role' \in [Ids -> IdOrNil]
        /\ \A i \in Ids : session_id_to_role'[i] \in {0, session_id_to_role[i]}
    BY <1>4, UnmapType DEF WorldInv, WTypeOK
  <2>5. AroundTable(o)
    BY <1>2, <2>4, Untouched DEF AroundTable
  <2>6. QED BY <1>1, <2>2, <2>3, <2>5, OneTableStep DEF OneTable
<1>5. QED BY <1>3, <1>4 DEF ReconnectClientChanged

-----------------------------------------------------------------------------
(* The whole system *)

LEMMA WorldCallbackStep ==
  ASSUME WorldInv, NEW cb, NEW in, NEW err, WorldCallback(in, cb, err)
  PROVE  WorldInv'
BY RpcRspLaunchRoleStep, LaunchClientChangedStep, RpcRspTryReleaseRoleStep,
   ReconnectClientChangedStep
DEF WorldCallback

LEMMA WorldStep ==
  ASSUME WorldInv, [Next]_vars PROVE WorldInv'
<1>1. CASE WorldLaunchRole
  <2>1. \A c \in Clients, n \in CallIds, r \in Roles : GateCb("launch", c, n, r) \in LaunchRsps
    BY DEF LaunchRsps
  <2>2. QED BY <1>1, <2>1, LaunchRoleStep DEF WorldLaunchRole
<1>2. CASE WorldReconnectRole
  BY <1>2, ReconnectRoleStep DEF WorldReconnectRole
<1>3. CASE WorldLogoutRole
  BY <1>3, LogoutRoleStep DEF WorldLogoutRole
<1>4. CASE WorldClientQuit
  BY <1>4, ClientQuitStep DEF WorldClientQuit
<1>5. CASE WorldAnswered
  BY <1>5, WorldCallbackStep DEF WorldAnswered
<1>6. CASE WorldIgnores
  BY <1>6, UntouchedWorld DEF WorldIgnores
<1>7. CASE WorldOnFrame
  BY <1>7, OnFrameStep DEF WorldOnFrame
<1>8. CASE WorldExpire
  BY <1>8, WorldCallbackStep DEF WorldExpire
<1>9. CASE UNCHANGED worldVars
  BY <1>9, UntouchedWorld
<1>10. CASE GateClientStep \/ GateAnswered \/ GateIgnores \/ GateKicks \/ GateExpire
  BY <1>9, <1>10
  DEF GateClientStep, GateAnswered, GateIgnores, GateKicks, GateExpire, GateRuns
<1>11. CASE GameStep \/ Break
  BY <1>9, <1>11 DEF GameStep, Break
<1>12. CASE UNCHANGED vars
  BY <1>9, <1>12 DEF vars, worldVars
<1>13. QED
  BY <1>1, <1>2, <1>3, <1>4, <1>5, <1>6, <1>7, <1>8, <1>10, <1>11, <1>12 DEF Next, World_Step

LEMMA WorldInit ==
  ASSUME WInit PROVE WorldInv
<1>1. objs \in [Ids -> RoleObj \cup {None}] /\ WTypeOK
  BY IdFacts DEF WInit, WTypeOK
<1>2. HeapOK
  BY DEF WInit, HeapOK, Lives
<1>3. IdleTables
  BY NilAssumption DEF WInit, IdleTables
<1>4. QED BY <1>1, <1>2, <1>3 DEF WorldInv

\* The game services and the fault budget.
GamesInv == MTypeOK /\ faults \in 0..MaxFault

LEMMA GamesInit ==
  ASSUME MInit, NetInit PROVE GamesInv
BY ConstantsAssumption DEF MInit, NetInit, GamesInv, MTypeOK, Absent, GameRole

LEMMA GameRoleStep ==
  ASSUME MTypeOK, NEW g \in Games, NEW r \in Roles, NEW new \in GameRole,
         roles' = [roles EXCEPT ![g][r] = new]
  PROVE  roles' \in [Games -> [Roles -> GameRole]]
<1>1. roles[g] \in [Roles -> GameRole]
  BY DEF MTypeOK
<1>2. [roles[g] EXCEPT ![r] = new] \in [Roles -> GameRole]
  BY <1>1
<1>3. roles' = [roles EXCEPT ![g] = [roles[g] EXCEPT ![r] = new]]
  OBVIOUS
<1>4. QED BY <1>2, <1>3 DEF MTypeOK

LEMMA GamesStep ==
  ASSUME GamesInv, [Next]_vars PROVE GamesInv'
<1>1. faults' \in 0..MaxFault
  <2>1. faults' = faults \/ (faults < MaxFault /\ faults' = faults + 1)
    <3>1. CASE World_Step \/ GateClientStep \/ GateAnswered \/ GateIgnores \/ GateKicks
                 \/ GameStep
      BY <3>1 DEF World_Step, GateClientStep, GateAnswered, GateIgnores, GateKicks, GameStep
    <3>2. CASE WorldExpire \/ GateExpire
      BY <3>2 DEF WorldExpire, GateExpire, SpendFault
    <3>3. CASE Break
      BY <3>3 DEF Break, Disconnect
    <3>4. QED BY <3>1, <3>2, <3>3 DEF Next, vars
  <2>2. QED BY <2>1, ConstantsAssumption DEF GamesInv
<1> SUFFICES MTypeOK'
  BY <1>1 DEF GamesInv
<1>2. ASSUME UNCHANGED gameVars PROVE MTypeOK'
  BY <1>2 DEF gameVars, GamesInv, MTypeOK
<1>3. MTypeOK /\ Absent \in GameRole
  BY DEF GamesInv, Absent, GameRole
<1>4. CASE GameLaunchRole
  <2>1. PICK g \in Games, r \in Roles, s \in Ids :
          LuanchRole(<<World, g>>, g, LaunchCb(s, r), r)
    BY <1>4 DEF GameLaunchRole
  <2>2. CASE ~ UNCHANGED gameVars
    <3> DEFINE load == <<LaunchCb(s, r), r>>
               new == [roles[g][r] EXCEPT !.state = "load_from_db"]
    <3>1. new \in GameRole
      BY <1>3, <2>1 DEF MTypeOK, GameRole
    <3>2. roles' = [roles EXCEPT ![g][r] = new]
      BY <2>1, <2>2 DEF LuanchRole
    <3>3. loads' = [loads EXCEPT ![g] = @ \cup {load}] /\ load[2] \in Roles
      BY <2>1, <2>2 DEF LuanchRole
    <3>4. roles' \in [Games -> [Roles -> GameRole]]
      BY <1>3, <2>1, <3>1, <3>2, GameRoleStep
    <3> HIDE DEF load
    <3>5. QED BY <1>3, <2>1, <3>3, <3>4 DEF MTypeOK
  <2>3. QED BY <1>2, <2>2
<1>5. CASE GameDbRsp
  <2>1. PICK g \in Games : \E load \in loads[g] : DbRspLaunchRole(g, load[1], load[2])
    BY <1>5 DEF GameDbRsp
  <2>2. PICK load \in loads[g] : DbRspLaunchRole(g, load[1], load[2])
    BY <2>1
  <2>3. load[2] \in Roles
    BY <1>3, <2>1, <2>2 DEF MTypeOK
  <2> DEFINE r == load[2]
             new == [roles[g][r] EXCEPT !.state = "in_game"]
  <2>4. new \in GameRole
    <3>1. r \in Roles
      BY <2>3
    <3> HIDE DEF r
    <3>2. roles[g][r] \in GameRole
      BY <1>3, <2>1, <3>1 DEF MTypeOK
    <3>3. QED BY <3>2 DEF GameRole
  <2>5. \/ UNCHANGED roles
        \/ roles' = [roles EXCEPT ![g][r] = Absent]
        \/ roles' = [roles EXCEPT ![g][r] = new]
    BY <2>2 DEF DbRspLaunchRole
  <2>6. roles' \in [Games -> [Roles -> GameRole]]
    BY <1>3, <2>1, <2>3, <2>4, <2>5, GameRoleStep DEF MTypeOK
  <2>7. \E gone : loads' = [loads EXCEPT ![g] = @ \ gone]
    BY <2>2 DEF DbRspLaunchRole
  <2>8. QED BY <1>3, <2>1, <2>6, <2>7 DEF MTypeOK
<1>6. CASE GameClientChange
  <2>1. PICK g \in Games, r \in Roles, c \in Clients \cup {None} :
          /\ roles' = IF roles[g][r].state = "absent" THEN roles
                      ELSE [roles EXCEPT ![g][r].gate = c]
          /\ UNCHANGED loads
    BY <1>6 DEF GameClientChange, ClientChange
  <2> DEFINE new == [roles[g][r] EXCEPT !.gate = c]
  <2>2. new \in GameRole
    BY <1>3, <2>1 DEF MTypeOK, GameRole
  <2>3. roles' = roles \/ roles' = [roles EXCEPT ![g][r] = new]
    BY <2>1
  <2>4. roles' \in [Games -> [Roles -> GameRole]]
    BY <1>3, <2>1, <2>2, <2>3, GameRoleStep DEF MTypeOK
  <2>5. QED BY <1>3, <2>1, <2>4 DEF MTypeOK
<1>7. CASE GameReleaseRole
  <2>1. PICK g \in Games, r \in Roles : roles' = [roles EXCEPT ![g][r] = Absent]
                                        /\ UNCHANGED loads
    BY <1>7 DEF GameReleaseRole, ReleaseRole
  <2>2. roles' \in [Games -> [Roles -> GameRole]]
    BY <1>3, <2>1, GameRoleStep
  <2>3. QED BY <1>3, <2>1, <2>2 DEF MTypeOK
<1>8. CASE World_Step \/ WorldExpire \/ GateIgnores \/ Break
  BY <1>2, <1>8 DEF World_Step, WorldExpire, GateIgnores, Break
<1>9. CASE GateClientStep \/ GateKicks
  BY <1>2, <1>9 DEF GateClientStep, GateKicks
<1>10. CASE GateAnswered \/ GateExpire
  BY <1>2, <1>10 DEF GateAnswered, GateExpire, GateRuns
<1>11. CASE UNCHANGED vars
  BY <1>2, <1>11 DEF vars, gameVars
<1>12. QED
  BY <1>4, <1>5, <1>6, <1>7, <1>8, <1>9, <1>10, <1>11 DEF GameStep, Next

SystemInv == GateInv /\ WorldInv /\ GamesInv /\ clash \in BOOLEAN

LEMMA SystemInvariant == HSpec => []SystemInv
<1>1. HInit => SystemInv
  BY GateInit, WorldInit, GamesInit DEF HInit, Init, SystemInv
<1>2. SystemInv /\ [HNext]_hvars => SystemInv'
  <2>1. ASSUME SystemInv, [HNext]_hvars PROVE clash' \in BOOLEAN
    BY <2>1 DEF SystemInv, HNext, hvars
  <2>2. QED BY <2>1, GateStep, WorldStep, GamesStep DEF SystemInv, HNext, hvars
<1>3. QED BY <1>1, <1>2, PTL DEF HSpec

\* The state keeps its types, and no index and no closure of the world leads
\* to a role table that is not there or is another role's
\* (manage_role_logic.lua and its callbacks).
THEOREM TypeCorrect == HSpec => []TypeOK
<1>1. SystemInv => TypeOK
  BY DEF SystemInv, GateInv, WorldInv, GamesInv, TypeOK, RoleTypeOK
<1>2. QED BY <1>1, SystemInvariant, PTL

\* An idle role has neither a session nor a client, whatever calls expire and
\* whatever order answers come in (manage_role_logic.lua: client_quit,
\* reconnect_role and its callback).
THEOREM IdleRolesDetached == HSpec => []IdleDetached
<1>1. SystemInv => IdleDetached
  BY Lookup DEF SystemInv, WorldInv, IdleTables, TableOK, IdleDetached, Idle
<1>2. QED BY <1>1, SystemInvariant, PTL

-----------------------------------------------------------------------------
(* The links. *)

\* The links hold sequences of messages.
Queues ==
  /\ net = [l \in Links |-> net[l]]
  /\ \A l \in Links : net[l] \in Seq(ToSet(net[l]))

\* A step that takes a message from a link finds one there.
Takes(in) == in \in Links => net[in] # <<>>

LEMMA NoLinkIsNone == Takes(NoLink)
BY ConstantsAssumption DEF Takes, Links, NoLink

\* What a step does to the links: all that is there was there before or is
\* sent by me, and all but the head of link in stays.
LEMMA Delivered ==
  ASSUME Queues, NEW in, NEW me, NEW S, NEW outs \in Seq(S), Deliver(in, me, outs), Takes(in)
  PROVE  /\ Queues'
         /\ \A l \in Links : \A i \in DOMAIN net'[l] :
              \/ \E j \in DOMAIN net[l] : net'[l][i] = net[l][j]
              \/ l[1] = me /\ \E j \in DOMAIN outs : outs[j].to = l[2] /\ net'[l][i] = outs[j]
<1> DEFINE Old(l) == IF l = in THEN Tail(net[l]) ELSE net[l]
           New(l) == IF l[1] = me THEN SentTo(outs, l[2]) ELSE <<>>
<1>1. net' = [l \in Links |-> Old(l) \o New(l)]
  BY DEF Deliver
<1>2. \A l \in Links : net'[l] = Old(l) \o New(l)
  BY <1>1
<1>3. net' = [l \in Links |-> net'[l]]
  BY <1>1
<1>4. ASSUME NEW l \in Links
      PROVE  /\ net'[l] \in Seq(ToSet(net'[l]))
             /\ \A i \in DOMAIN net'[l] :
                  \/ \E j \in DOMAIN net[l] : net'[l][i] = net[l][j]
                  \/ l[1] = me /\ \E j \in DOMAIN outs : outs[j].to = l[2] /\ net'[l][i] = outs[j]
  <2> DEFINE T == ToSet(net[l]) \cup S
             a == Old(l)
             b == New(l)
  <2>1. net[l] \in Seq(ToSet(net[l]))
    BY DEF Queues
  <2>2. /\ a \in Seq(ToSet(net[l]))
        /\ \A i \in DOMAIN a : \E j \in DOMAIN net[l] : a[i] = net[l][j]
    <3>1. CASE l = in
      <4>1. net[l] # <<>> /\ a = Tail(net[l])
        BY <3>1 DEF Takes
      <4>2. /\ Tail(net[l]) \in Seq(ToSet(net[l]))
            /\ \A i \in DOMAIN Tail(net[l]) : i + 1 \in DOMAIN net[l] /\ Tail(net[l])[i] = net[l][i + 1]
        BY <2>1, <4>1, TailOf
      <4> QED BY <4>1, <4>2
    <3>2. CASE l # in
      <4>1. a = net[l]
        BY <3>2
      <4> QED BY <2>1, <4>1
    <3> QED BY <3>1, <3>2
  <2>3. /\ b \in Seq(S)
        /\ \A i \in DOMAIN b : l[1] = me /\ \E j \in DOMAIN outs : outs[j].to = l[2] /\ b[i] = outs[j]
    <3>1. CASE l[1] = me
      <4>1. b = SentTo(outs, l[2])
        BY <3>1
      <4>2. /\ SentTo(outs, l[2]) \in Seq(S)
            /\ \A i \in DOMAIN SentTo(outs, l[2]) :
                 \E j \in DOMAIN outs : SentTo(outs, l[2])[i] = outs[j] /\ outs[j].to = l[2]
        BY SentToOf
      <4> QED BY <3>1, <4>1, <4>2
    <3>2. CASE l[1] # me
      <4>1. b = <<>>
        BY <3>2
      <4>2. <<>> \in Seq(S) /\ DOMAIN <<>> = {}
        OBVIOUS
      <4> QED BY <4>1, <4>2
    <3> QED BY <3>1, <3>2
  <2>4. net'[l] = a \o b
    BY <1>2
  <2> HIDE DEF a, b
  <2>5. a \in Seq(T) /\ b \in Seq(T)
    BY <2>2, <2>3
  <2>6. /\ a \o b \in Seq(T)
        /\ \A i \in DOMAIN (a \o b) :
              \/ i \in DOMAIN a /\ (a \o b)[i] = a[i]
              \/ \E j \in DOMAIN b : (a \o b)[i] = b[j]
    <3> HIDE DEF T
    <3> QED BY <2>5, ConcatOf
  <2> HIDE DEF T
  <2>7. net'[l] \in Seq(ToSet(net'[l]))
    BY <2>4, <2>6, OwnRange
  <2>8. ASSUME NEW i \in DOMAIN (a \o b)
        PROVE  \/ \E j \in DOMAIN net[l] : (a \o b)[i] = net[l][j]
               \/ l[1] = me /\ \E j \in DOMAIN outs : outs[j].to = l[2] /\ (a \o b)[i] = outs[j]
    <3>1. CASE i \in DOMAIN a /\ (a \o b)[i] = a[i]
      BY <2>2, <3>1
    <3>2. CASE \E j \in DOMAIN b : (a \o b)[i] = b[j]
      BY <2>3, <3>2
    <3> QED BY <2>6, <3>1, <3>2
  <2> QED BY <2>4, <2>7, <2>8
<1> QED BY <1>3, <1>4 DEF Queues

\* The messages of a step that sends at most three.
LEMMA FewOut ==
  ASSUME NEW a, NEW b, NEW c
  PROVE  /\ <<>> \in Seq({a}) /\ <<a>> \in Seq({a}) /\ <<a, b>> \in Seq({a, b})
         /\ <<a, b, c>> \in Seq({a, b, c})
         /\ <<>> \o <<a, b>> \in Seq({a, b, c}) /\ <<c>> \o <<a, b>> \in Seq({a, b, c})
OBVIOUS

\* The head of a link is one of its messages.
LEMMA HeadIn ==
  ASSUME Queues, NEW l \in Links, net[l] # <<>>
  PROVE  1 \in DOMAIN net[l] /\ Head(net[l]) = net[l][1]
BY TailOf DEF Queues

\* Sessions that a step names are named before it or by what it sends, S, alone.
LEMMA NamesGrow ==
  ASSUME Queues, NEW in, NEW me, NEW S, NEW outs \in Seq(S), Deliver(in, me, outs), Takes(in),
         NEW X, \A m \in S : \A i \in Ids : Names(m, i) => i \in X
  PROVE  Queues' /\ \A i \in Ids : Named(i)' => Named(i) \/ i \in X
<1>1. /\ Queues'
      /\ \A l \in Links : \A k \in DOMAIN net'[l] :
           \/ \E j \in DOMAIN net[l] : net'[l][k] = net[l][j]
           \/ \E j \in DOMAIN outs : net'[l][k] = outs[j]
  BY Delivered
<1>2. \A j \in DOMAIN outs : outs[j] \in S
  OBVIOUS
<1>3. ASSUME NEW i \in Ids, Named(i)', ~ Named(i) PROVE i \in X
  <2>0. PICK l \in Links : \E k \in DOMAIN net'[l] : Names(net'[l][k], i)
    BY <1>3 DEF Named
  <2>1. PICK k \in DOMAIN net'[l] : Names(net'[l][k], i)
    BY <2>0
  <2>2. \A j \in DOMAIN net[l] : ~ Names(net[l][j], i)
    BY <1>3, <2>1 DEF Named
  <2>3. PICK j \in DOMAIN outs : net'[l][k] = outs[j]
    BY <1>1, <2>1, <2>2
  <2>4. Names(outs[j], i) /\ outs[j] \in S
    BY <1>2, <2>1, <2>3
  <2> QED BY <2>4
<1> QED BY <1>1, <1>3

\* The step names no session but those of X that was not named before.
Gives(X) == Queues' /\ \A i \in Ids : Named(i)' => Named(i) \/ i \in X

Silent(m) == \A i \in Ids : ~ Names(m, i)

LEMMA SilentMessages ==
  /\ \A c : Silent(Kick(c))
  /\ \A g, r, c, cb : Silent(ChangeClient(g, r, c, cb))
  /\ \A g, args, cb : Silent(Call(g, "launch_role", args, cb))
  /\ \A r : Silent(ReleaseCall(r))
  /\ \A to, cb, err : Silent(Answer(to, cb, err, 0))
  /\ \A rsp, err, s, i : Names(Reply(rsp, err, s), i) => i = s
BY IdFacts DEF Silent, Names, Kick, ChangeClient, Call, ReleaseCall, Answer, Reply

LEMMA SendsNothing ==
  ASSUME Queues, NEW in, NEW me, Takes(in), Deliver(in, me, <<>>) PROVE Gives({})
<1> DEFINE S == {}
<1>1. PICK outs : outs \in Seq(S) /\ Deliver(in, me, outs)
  <2>1. <<>> \in Seq(S)
    OBVIOUS
  <2> HIDE DEF S
  <2> QED BY <2>1
<1>2. \A x \in S : \A i \in Ids : Names(x, i) => i \in {}
  OBVIOUS
<1> HIDE DEF S
<1> QED BY <1>1, <1>2, NamesGrow DEF Gives

LEMMA SendsSilent ==
  ASSUME Queues, NEW in, NEW me, Takes(in), NEW m, Silent(m), Deliver(in, me, <<m>>)
  PROVE  Gives({})
<1> DEFINE S == {m}
<1>1. PICK outs : outs \in Seq(S) /\ Deliver(in, me, outs)
  <2>1. <<m>> \in Seq(S)
    OBVIOUS
  <2> HIDE DEF S
  <2> QED BY <2>1
<1>2. PICK X : X = {}
  OBVIOUS
<1>3. \A x \in S : \A i \in Ids : Names(x, i) => i \in X
  BY DEF Silent
<1> HIDE DEF S
<1>4. Queues' /\ \A i \in Ids : Named(i)' => Named(i) \/ i \in X
  BY <1>1, <1>3, NamesGrow
<1> QED BY <1>2, <1>4 DEF Gives

LEMMA SendsReply ==
  ASSUME Queues, NEW in, NEW me, Takes(in), NEW rsp, NEW err, NEW s, NEW m, Silent(m),
         \/ Deliver(in, me, <<Reply(rsp, err, s)>>)
         \/ Deliver(in, me, <<Reply(rsp, err, s), m>>)
         \/ Deliver(in, me, <<m, Reply(rsp, err, s)>>)
         \/ \E r : Deliver(in, me, KickOf(r) \o <<Reply(rsp, err, s), m>>)
  PROVE  Gives({s})
<1>1. PICK a : a = Reply(rsp, err, s)
  OBVIOUS
<1>2. \A i : Names(a, i) => i = s
  BY <1>1, SilentMessages
<1>3. PICK c, r : /\ c = Kick(RoleOf(r).gate)
                  /\ \/ Deliver(in, me, <<a>>)
                     \/ Deliver(in, me, <<a, m>>)
                     \/ Deliver(in, me, <<m, a>>)
                     \/ Deliver(in, me, <<>> \o <<a, m>>)
                     \/ Deliver(in, me, <<c>> \o <<a, m>>)
  BY <1>1 DEF KickOf
<1>4. Silent(c)
  BY <1>3, SilentMessages
<1> DEFINE S == {a, m, c}
<1>5. PICK outs : outs \in Seq(S) /\ Deliver(in, me, outs)
  <2>1. /\ <<a>> \in Seq(S) /\ <<a, m>> \in Seq(S) /\ <<m, a>> \in Seq(S)
        /\ <<>> \o <<a, m>> \in Seq(S) /\ <<c>> \o <<a, m>> \in Seq(S)
    OBVIOUS
  <2> HIDE DEF S
  <2> QED BY <1>3, <2>1
<1>6. \A x \in S : \A i \in Ids : Names(x, i) => i \in {s}
  BY <1>2, <1>4 DEF Silent
<1> HIDE DEF S
<1> QED BY <1>5, <1>6, NamesGrow DEF Gives

-----------------------------------------------------------------------------
(***************************************************************************)
(* Sessions, as long as none is drawn that somebody holds.  What has been   *)
(* given out leads to no table but the one in use that has it: so no        *)
(* request that names a session reaches a table in launch, a table that is  *)
(* being released, or one that no role id leads to.                         *)
(***************************************************************************)
Tables == {o \in Ids : objs[o] \in RoleObj}

Alive(o) == role_id_to_role[objs[o].role] = o

\* Only a role in launch or in use has a session and a client, and only a role
\* in memory, or the table of a launch that failed; one in launch always has.
TablesSound ==
  \A o \in Tables :
    /\ o <= last_session_id
    /\ objs[o].state \in {"idle", "releasing", "released"} =>
         objs[o].session = 0 /\ objs[o].gate = None
    /\ ~ Alive(o) => objs[o].state = "launch" \/ objs[o].session = 0
    /\ Alive(o) /\ objs[o].state = "launch" =>
         objs[o].session # 0 /\ objs[o].gate # None /\ objs[o].cached # None

\* The calls of a launch, of a release and of a reconnect and the tables they
\* are about.
LaunchSound ==
  \A s \in Ids, r \in Roles :
    LaunchCb(s, r) \in wcalls => role_id_to_role[r] = s /\ objs[s].state = "launch"

ChangeSound ==
  \A o \in Ids : ChangeCb(o) \in wcalls =>
    Alive(o) /\ objs[o].state = "launch" /\ LaunchCb(o, objs[o].role) \notin wcalls

ReleaseSound ==
  \A r \in Roles, i \in Ids : ReleaseCb(r, i) \in wcalls =>
    /\ \A j \in Ids : ReleaseCb(r, j) \in wcalls => i = j
    /\ Lives(r) /\ RoleOf(r).state = "releasing"
    /\ i <= last_opera_id

ReconnectSound ==
  \A cb \in wcalls : cb[1] = "_reconnect_role_game_change_client_cb" =>
    objs[cb[4]].state # "launch" /\ cb[3] <= last_opera_id

\* A session leads to the role that has it, no two roles have the same.
IndexSound ==
  /\ \A s \in Ids, r \in Roles :
       session_id_to_role[s] # 0 /\ SessionOf(r) = s => session_id_to_role[s] = role_id_to_role[r]
  /\ \A q, r \in Roles : SessionOf(q) # 0 /\ SessionOf(q) = SessionOf(r) => q = r

GivenSound ==
  \A s \in Ids : GivenOut(s) =>
    /\ session_id_to_role[s] # 0 =>
         /\ objs[session_id_to_role[s]].session = s
         /\ objs[session_id_to_role[s]].state = "using"
    /\ \A r \in Roles : SessionOf(r) = s => RoleOf(r).state = "using"

Sound ==
  /\ TablesSound /\ LaunchSound /\ ChangeSound /\ ReleaseSound /\ ReconnectSound
  /\ IndexSound /\ GivenSound /\ aborted \subseteq {162}

LEMMA ClosuresDiffer ==
  /\ \A s, r, t, q : LaunchCb(s, r) = LaunchCb(t, q) => s = t /\ r = q
  /\ \A o, p : ChangeCb(o) = ChangeCb(p) => o = p
  /\ \A r, i, q, j : ReleaseCb(r, i) = ReleaseCb(q, j) => r = q /\ i = j
  /\ \A s, r : LaunchCb(s, r)[1] = "_rpc_rsp_launch_role"
  /\ \A o : ChangeCb(o)[1] = "launch_client_change"
  /\ \A r, i : ReleaseCb(r, i)[1] = "_rpc_rsp_try_release_role"
  /\ \A rsp, s, o : /\ ReconnectCb(rsp, s, o)[1] = "_reconnect_role_game_change_client_cb"
                    /\ ReconnectCb(rsp, s, o)[3] = s /\ ReconnectCb(rsp, s, o)[4] = o
BY DEF LaunchCb, ChangeCb, ReleaseCb, ReconnectCb

LEMMA ReconnectCbKind ==
  ASSUME NEW cb \in WorldCbs, cb[1] = "_reconnect_role_game_change_client_cb"
  PROVE  \E c \in Clients, n \in CallIds, r \in Roles, s \in Ids, o \in Ids :
           cb = ReconnectCb(GateCb("reconnect", c, n, r), s, o) /\ cb[3] = s /\ cb[4] = o
BY DEF WorldCbs, LaunchCb, ChangeCb, ReleaseCb, ReconnectCb

\* Facts about a role in memory and about its table.
LEMMA LivingRole ==
  ASSUME WorldInv, NEW r \in Roles, Lives(r)
  PROVE  /\ role_id_to_role[r] \in Tables /\ RoleOf(r) = objs[role_id_to_role[r]]
         /\ RoleOf(r) \in RoleObj /\ RoleOf(r).role = r
         /\ Alive(role_id_to_role[r]) /\ SessionOf(r) = RoleOf(r).session
         /\ RoleOf(r).session \in IdOrNil
BY Lookup DEF WorldInv, HeapOK, Lives, RoleOf, Tables, Alive, SessionOf, RoleObj

LEMMA AliveTable ==
  ASSUME WorldInv, NEW o \in Tables, Alive(o)
  PROVE  /\ objs[o].role \in Roles /\ Lives(objs[o].role)
         /\ role_id_to_role[objs[o].role] = o
BY IdFacts DEF Tables, Alive, Lives, RoleObj

LEMMA TablesAre ==
  ASSUME WorldInv
  PROVE  /\ \A s \in Ids : session_id_to_role[s] # 0 => session_id_to_role[s] \in Tables
         /\ \A o \in Ids : ChangeCb(o) \in wcalls => o \in Tables
         /\ \A cb \in wcalls : cb[1] = "_reconnect_role_game_change_client_cb" => cb[4] \in Tables
<1>1. \A s \in Ids : session_id_to_role[s] # 0 => session_id_to_role[s] \in Tables
  BY Lookup DEF Tables
<1>2. \A o \in Ids : ChangeCb(o) \in wcalls => o \in Tables
  <2>1. \A o : ChangeCb(o)[1] = "launch_client_change" /\ ChangeCb(o)[2] = o
    BY DEF ChangeCb
  <2> QED BY <2>1 DEF WorldInv, HeapOK, Tables
<1>3. \A cb \in wcalls : cb[1] = "_reconnect_role_game_change_client_cb" => cb[4] \in Tables
  BY WorldCbKinds DEF WorldInv, WTypeOK, HeapOK, Tables
<1> QED BY <1>1, <1>2, <1>3

-----------------------------------------------------------------------------
(* The shapes of a step, for the tables and the sessions. *)

CountersGrow == last_session_id <= last_session_id' /\ last_opera_id <= last_opera_id'

\* Only calls, and sessions given out, are forgotten.
Kept ==
  /\ UNCHANGED <<objs, role_id_to_role, session_id_to_role>>
  /\ CountersGrow
  /\ wcalls' \subseteq wcalls
  /\ \A i \in Ids : GivenOut(i)' => GivenOut(i)
  /\ aborted' \subseteq {162}

LEMMA NatCounters ==
  ASSUME WorldInv
  PROVE  /\ last_session_id \in Nat /\ last_opera_id \in Nat
         /\ \A i \in IdOrNil : i \in Nat
BY ConstantsAssumption DEF WorldInv, WTypeOK, IdOrNil

LEMMA KeptSound ==
  ASSUME WorldInv, WorldInv', Sound, Kept
  PROVE  Sound'
<1> USE DEF Sound, Kept
<1>1. TablesSound'
  <2>1. \A o \in Ids : o \in Nat
    BY ConstantsAssumption DEF Ids
  <2>2. last_session_id \in Nat /\ last_session_id' \in Nat
    BY NatCounters, ConstantsAssumption DEF WorldInv, WTypeOK, IdOrNil
  <2> QED BY <2>1, <2>2 DEF TablesSound, Tables, Alive, CountersGrow
<1>2. LaunchSound' /\ ChangeSound'
  BY DEF LaunchSound, ChangeSound, Alive
<1>3. /\ last_opera_id \in Nat /\ last_opera_id' \in Nat
      /\ \A cb \in wcalls : cb[1] = "_reconnect_role_game_change_client_cb" => cb[3] \in Ids
      /\ \A i \in Ids : i \in Nat
  <2>1. \A cb \in wcalls : cb[1] = "_reconnect_role_game_change_client_cb" => cb[3] \in Ids
    BY ReconnectCbKind DEF WorldInv, WTypeOK
  <2>2. last_opera_id \in Nat /\ last_opera_id' \in Nat
    BY ConstantsAssumption DEF WorldInv, WTypeOK, IdOrNil, Ids
  <2>3. \A i \in Ids : i \in Nat
    BY ConstantsAssumption DEF Ids
  <2> QED BY <2>1, <2>2, <2>3
<1>4. ReleaseSound'
  BY <1>3 DEF ReleaseSound, Lives, RoleOf, CountersGrow
<1>5. ReconnectSound'
  BY <1>3 DEF ReconnectSound, CountersGrow
<1>6. IndexSound'
  BY DEF IndexSound, SessionOf, Lives, RoleOf
<1>7. GivenSound'
  BY DEF GivenSound, SessionOf, Lives, RoleOf
<1> QED BY <1>1, <1>2, <1>4, <1>5, <1>6, <1>7

\* The step changes the table of role r to new; what it says of the calls it
\* leaves and of the sessions it takes, maps, and gives out.
CallsFollow(r, new) ==
  LET o == role_id_to_role[r] IN
  /\ \A s \in Ids, q \in Roles : LaunchCb(s, q) \in wcalls' =>
       LaunchCb(s, q) \in wcalls /\ (q = r => new.state = "launch")
  /\ \A p \in Ids : ChangeCb(p) \in wcalls' =>
       \/ p = o /\ new.state = "launch" /\ LaunchCb(o, r) \notin wcalls'
       \/ p # o /\ ChangeCb(p) \in wcalls
  /\ \A q \in Roles, i \in Ids : ReleaseCb(q, i) \in wcalls' =>
       \/ /\ q = r /\ new.state = "releasing" /\ i <= last_opera_id'
          /\ \A j \in Ids : ReleaseCb(q, j) \in wcalls' => i = j
       \/ q # r /\ ReleaseCb(q, i) \in wcalls
  /\ \A cb \in wcalls' : cb[1] = "_reconnect_role_game_change_client_cb" =>
       \/ cb \in wcalls
       \/ cb[4] = o /\ new.state # "launch" /\ cb[3] <= last_opera_id'

SessionsFollow(r, new) ==
  LET o == role_id_to_role[r]
      old == objs[o]
  IN
  /\ new.session \in {0, old.session} \/ ~ Held(new.session)
  /\ \A i \in Ids : \/ session_id_to_role'[i] \in {0, session_id_to_role[i]}
                    \/ i = new.session /\ session_id_to_role'[i] = o
  /\ old.state = "using" /\ old.session # 0 /\ new.session # old.session =>
       session_id_to_role'[old.session] = 0
  /\ \A i \in Ids : GivenOut(i)' =>
       \/ GivenOut(i)
       \/ i = new.session /\ new.state = "using"
       \/ ~ Held(i) /\ i # new.session

Changed(r, new) ==
  LET o == role_id_to_role[r]
      old == objs[o]
  IN
  /\ Lives(r) /\ new \in RoleObj /\ new.role = r
  /\ objs' = [objs EXCEPT ![o] = new]
  /\ UNCHANGED role_id_to_role
  /\ CountersGrow
  /\ aborted' \subseteq {162}
  /\ new.state = "launch" => /\ old.state = "launch" /\ new.session # 0
                             /\ new.gate # None /\ new.cached # None
  /\ new.state \in {"idle", "releasing", "released"} => new.session = 0 /\ new.gate = None
  /\ CallsFollow(r, new)
  /\ SessionsFollow(r, new)

LEMMA ChangedTables ==
  ASSUME WorldInv, NEW r \in Roles, NEW new, Changed(r, new)
  PROVE  /\ Tables' = Tables
         /\ role_id_to_role[r] \in Tables
         /\ objs'[role_id_to_role[r]] = new
         /\ \A p \in Tables : p # role_id_to_role[r] => objs'[p] = objs[p]
         /\ \A p \in Tables : Alive(p)' = Alive(p)
         /\ \A q \in Roles : Lives(q)' = Lives(q)
         /\ \A q \in Roles : q # r => SessionOf(q)' = SessionOf(q)
         /\ \A q \in Roles : q # r /\ Lives(q) =>
              RoleOf(q)' = RoleOf(q) /\ role_id_to_role[q] # role_id_to_role[r]
         /\ RoleOf(r)' = new /\ SessionOf(r)' = new.session
<1> DEFINE o == role_id_to_role[r]
<1>1. /\ objs' = [objs EXCEPT ![o] = new] /\ role_id_to_role' = role_id_to_role
      /\ new \in RoleObj /\ new.role = r /\ Lives(r)
  BY DEF Changed
<1>2. o \in Tables /\ objs[o].role = r
  BY <1>1, LivingRole
<1>3. objs'[o] = new /\ \A p \in Ids : p # o => objs'[p] = objs[p]
  BY <1>1, <1>2 DEF WorldInv, WTypeOK, Tables
<1> HIDE DEF o
<1>4. Tables' = Tables /\ \A p \in Tables : Alive(p)' = Alive(p)
  BY <1>1, <1>2, <1>3 DEF Tables, Alive
<1>5. \A q \in Roles : q # r /\ Lives(q) => role_id_to_role[q] # o
  BY <1>2, LivingRole
<1>6. \A q \in Roles : Lives(q) => role_id_to_role[q] \in Ids
  BY LivingRole DEF Tables
<1>7. \A q \in Roles : Lives(q)' = Lives(q)
  BY <1>1 DEF Lives
<1>8. \A q \in Roles : q # r /\ Lives(q) => RoleOf(q)' = RoleOf(q)
  BY <1>1, <1>3, <1>5, <1>6 DEF RoleOf
<1>9. RoleOf(r)' = new
  BY <1>1, <1>3 DEF RoleOf, o
<1>10. /\ \A q \in Roles : q # r => SessionOf(q)' = SessionOf(q)
       /\ SessionOf(r)' = new.session
  BY <1>1, <1>7, <1>8, <1>9 DEF SessionOf
<1>11. \A p \in Tables : p # o => objs'[p] = objs[p]
  BY <1>3 DEF Tables
<1> QED BY <1>2, <1>3, <1>4, <1>5, <1>7, <1>8, <1>9, <1>10, <1>11 DEF o

LEMMA ChangedSound ==
  ASSUME WorldInv, WorldInv', Sound, NEW r \in Roles, NEW new, Changed(r, new)
  PROVE  Sound'
<1> DEFINE o == role_id_to_role[r]
           old == objs[o]
<1>1. /\ UNCHANGED role_id_to_role /\ CountersGrow
      /\ new \in RoleObj /\ new.role = r /\ Lives(r) /\ aborted' \subseteq {162}
      /\ new.state = "launch" => /\ old.state = "launch" /\ new.session # 0
                                 /\ new.gate # None /\ new.cached # None
      /\ new.state \in {"idle", "releasing", "released"} => new.session = 0 /\ new.gate = None
  BY DEF Changed
<1>2. /\ Tables' = Tables /\ o \in Tables /\ objs'[o] = new
      /\ \A p \in Tables : p # o => objs'[p] = objs[p]
      /\ \A p \in Tables : Alive(p)' = Alive(p)
      /\ \A q \in Roles : Lives(q)' = Lives(q)
      /\ \A q \in Roles : q # r => SessionOf(q)' = SessionOf(q)
      /\ \A q \in Roles : q # r /\ Lives(q) => RoleOf(q)' = RoleOf(q) /\ role_id_to_role[q] # o
      /\ RoleOf(r)' = new /\ SessionOf(r)' = new.session
  BY ChangedTables
<1>3. /\ RoleOf(r) = old /\ SessionOf(r) = old.session /\ Alive(o) /\ old \in RoleObj
      /\ old.role = r
  BY <1>1, LivingRole
<1>4. /\ TablesSound /\ LaunchSound /\ ChangeSound /\ ReleaseSound /\ ReconnectSound
      /\ IndexSound /\ GivenSound
  BY DEF Sound
<1>5. CallsFollow(r, new) /\ SessionsFollow(r, new)
  BY DEF Changed
<1>6. /\ Tables \subseteq Ids /\ \A i \in Ids : i \in Nat /\ i # 0
      /\ last_session_id \in Nat /\ last_session_id' \in Nat
      /\ last_opera_id \in Nat /\ last_opera_id' \in Nat
      /\ \A cb \in wcalls : cb[1] = "_reconnect_role_game_change_client_cb" => cb[3] \in Nat
  <2>1. \A i \in Ids : i \in Nat /\ i # 0
    BY ConstantsAssumption DEF Ids
  <2>2. \A cb \in wcalls : cb[1] = "_reconnect_role_game_change_client_cb" => cb[3] \in Ids
    BY ReconnectCbKind DEF WorldInv, WTypeOK
  <2> QED BY <2>1, <2>2, NatCounters, ConstantsAssumption DEF WorldInv, WTypeOK, IdOrNil, Tables
<1>7. /\ \A s \in Ids, q \in Roles : LaunchCb(s, q) \in wcalls => Lives(q) /\ s \in Tables /\ s = role_id_to_role[q]
      /\ \A p \in Ids : ChangeCb(p) \in wcalls => p \in Tables
      /\ \A cb \in wcalls : cb[1] = "_reconnect_role_game_change_client_cb" => cb[4] \in Tables
      /\ \A s \in Ids : session_id_to_role[s] # 0 => session_id_to_role[s] \in Tables
  <2>1. \A s \in Ids, q \in Roles : LaunchCb(s, q) \in wcalls => Lives(q) /\ s = role_id_to_role[q]
    BY <1>4, <1>6 DEF LaunchSound, Lives
  <2>2. \A s \in Ids, q \in Roles : LaunchCb(s, q) \in wcalls => s \in Tables
    BY <2>1, LivingRole
  <2> QED BY <2>1, <2>2, TablesAre
<1>8. RoleOf(r) = old /\ old.role = r /\ SessionOf(r) = old.session
  BY <1>3
<1> HIDE DEF o, old
<1>9. TablesSound'
  <2> SUFFICES ASSUME NEW p \in Tables
      PROVE  /\ p <= last_session_id'
             /\ objs'[p].state \in {"idle", "releasing", "released"} =>
                  objs'[p].session = 0 /\ objs'[p].gate = None
             /\ ~ Alive(p)' => objs'[p].state = "launch" \/ objs'[p].session = 0
             /\ Alive(p)' /\ objs'[p].state = "launch" =>
                  objs'[p].session # 0 /\ objs'[p].gate # None /\ objs'[p].cached # None
    BY <1>2 DEF TablesSound
  <2>1. p <= last_session_id'
    BY <1>1, <1>4, <1>6 DEF TablesSound, CountersGrow
  <2>2. CASE p = o
    BY <1>1, <1>2, <1>3, <2>1, <2>2
  <2>3. CASE p # o
    BY <1>2, <1>4, <2>1, <2>3 DEF TablesSound
  <2> QED BY <2>2, <2>3
<1>10. LaunchSound'
  <2> SUFFICES ASSUME NEW s \in Ids, NEW q \in Roles, LaunchCb(s, q) \in wcalls'
      PROVE  role_id_to_role'[q] = s /\ objs'[s].state = "launch"
    BY ClosuresDiffer DEF LaunchSound
  <2>1. /\ LaunchCb(s, q) \in wcalls /\ (q = r => new.state = "launch")
        /\ role_id_to_role[q] = s /\ objs[s].state = "launch" /\ Lives(q) /\ s \in Tables
    BY <1>4, <1>5, <1>7 DEF CallsFollow, LaunchSound
  <2> QED BY <1>1, <1>2, <2>1 DEF o
<1>11. ChangeSound'
  <2> SUFFICES ASSUME NEW p \in Ids, ChangeCb(p) \in wcalls'
      PROVE  /\ Alive(p)' /\ objs'[p].state = "launch"
             /\ LaunchCb(p, objs'[p].role) \notin wcalls'
    BY DEF ChangeSound, Alive
  <2>1. CASE p = o
    <3>1. new.state = "launch" /\ LaunchCb(o, r) \notin wcalls'
      BY <1>5, <2>1 DEF CallsFollow, o
    <3> QED BY <1>1, <1>2, <1>3, <2>1, <3>1
  <2>2. CASE p # o
    <3>1. ChangeCb(p) \in wcalls
      BY <1>5, <2>2 DEF CallsFollow, o
    <3>2. /\ p \in Tables /\ Alive(p) /\ objs[p].state = "launch"
          /\ LaunchCb(p, objs[p].role) \notin wcalls
      BY <1>4, <1>7, <3>1 DEF ChangeSound
    <3>3. objs[p].role \in Roles
      BY <3>2, AliveTable
    <3>4. LaunchCb(p, objs[p].role) \notin wcalls'
      BY <1>5, <3>2, <3>3 DEF CallsFollow
    <3> QED BY <1>2, <2>2, <3>2, <3>4
  <2> QED BY <2>1, <2>2
<1>12. ReleaseSound'
  <2> SUFFICES ASSUME NEW q \in Roles, NEW i \in Ids, ReleaseCb(q, i) \in wcalls'
      PROVE  /\ \A j \in Ids : ReleaseCb(q, j) \in wcalls' => i = j
             /\ Lives(q)' /\ RoleOf(q)'.state = "releasing" /\ i <= last_opera_id'
    BY DEF ReleaseSound
  <2>1. CASE q = r
    <3>1. /\ new.state = "releasing" /\ i <= last_opera_id'
          /\ \A j \in Ids : ReleaseCb(q, j) \in wcalls' => i = j
      BY <1>5, <2>1 DEF CallsFollow
    <3> QED BY <1>1, <1>2, <2>1, <3>1
  <2>2. CASE q # r
    <3>1. \A j \in Ids : ReleaseCb(q, j) \in wcalls' => ReleaseCb(q, j) \in wcalls
      BY <1>5, <2>2 DEF CallsFollow
    <3>2. /\ \A j \in Ids : ReleaseCb(q, j) \in wcalls => i = j
          /\ Lives(q) /\ RoleOf(q).state = "releasing" /\ i <= last_opera_id
      BY <1>4, <3>1 DEF ReleaseSound
    <3>3. i <= last_opera_id'
      BY <1>1, <1>6, <3>2 DEF CountersGrow
    <3> QED BY <1>2, <2>2, <3>1, <3>2, <3>3
  <2> QED BY <2>1, <2>2
<1>13. ReconnectSound'
  <2> SUFFICES ASSUME NEW cb \in wcalls', cb[1] = "_reconnect_role_game_change_client_cb"
      PROVE  objs'[cb[4]].state # "launch" /\ cb[3] <= last_opera_id'
    BY DEF ReconnectSound
  <2>1. CASE cb \in wcalls
    <3>1. objs[cb[4]].state # "launch" /\ cb[3] <= last_opera_id /\ cb[4] \in Tables
      BY <1>4, <1>7, <2>1 DEF ReconnectSound
    <3>2. cb[3] <= last_opera_id'
      BY <1>1, <1>6, <2>1, <3>1 DEF CountersGrow
    <3>3. objs'[cb[4]].state # "launch"
      <4>1. CASE cb[4] = o
        BY <1>1, <1>2, <3>1, <4>1 DEF old
      <4>2. CASE cb[4] # o
        BY <1>2, <3>1, <4>2
      <4> QED BY <4>1, <4>2
    <3> QED BY <3>2, <3>3
  <2>2. CASE cb \notin wcalls
    BY <1>2, <1>5, <2>2 DEF CallsFollow, o
  <2> QED BY <2>1, <2>2
<1>14. /\ new.session \in {0, old.session} \/ ~ Held(new.session)
       /\ \A i \in Ids : \/ session_id_to_role'[i] \in {0, session_id_to_role[i]}
                         \/ i = new.session /\ session_id_to_role'[i] = o
       /\ old.state = "using" /\ old.session # 0 /\ new.session # old.session =>
            session_id_to_role'[old.session] = 0
       /\ \A i \in Ids : GivenOut(i)' =>
            \/ GivenOut(i)
            \/ i = new.session /\ new.state = "using"
            \/ ~ Held(i) /\ i # new.session
  BY <1>5 DEF SessionsFollow, o, old
<1>15. \A i \in Ids : ~ Held(i) =>
         /\ session_id_to_role[i] = 0 /\ ~ GivenOut(i) /\ \A q \in Roles : SessionOf(q) # i
  BY DEF Held
<1>16. /\ \A s \in Ids, q \in Roles :
            session_id_to_role[s] # 0 /\ SessionOf(q) = s => session_id_to_role[s] = role_id_to_role[q]
       /\ \A p, q \in Roles : SessionOf(p) # 0 /\ SessionOf(p) = SessionOf(q) => p = q
  BY <1>4 DEF IndexSound
<1>17. IndexSound'
  <2>1. ASSUME NEW s \in Ids, NEW q \in Roles, session_id_to_role'[s] # 0, SessionOf(q)' = s
        PROVE  session_id_to_role'[s] = role_id_to_role'[q]
    <3>1. CASE q = r
      <4>1. s = new.session
        BY <1>2, <2>1, <3>1
      <4>2. CASE session_id_to_role'[s] = o
        BY <1>1, <3>1, <4>2 DEF o
      <4>3. CASE session_id_to_role'[s] = session_id_to_role[s]
        <5>1. s = old.session
          BY <1>6, <1>14, <1>15, <2>1, <4>1, <4>3
        <5> QED BY <1>1, <1>8, <1>16, <2>1, <3>1, <4>3, <5>1
      <4> QED BY <1>14, <2>1, <4>2, <4>3
    <3>2. CASE q # r
      <4>1. SessionOf(q) = s
        BY <1>2, <2>1, <3>2
      <4>2. ~ (s = new.session)
        BY <1>6, <1>8, <1>14, <1>15, <1>16, <3>2, <4>1
      <4> QED BY <1>1, <1>14, <1>16, <2>1, <4>1, <4>2
    <3> QED BY <3>1, <3>2
  <2>2. ASSUME NEW q \in Roles, q # r, SessionOf(q)' = SessionOf(r)', SessionOf(r)' # 0
        PROVE  FALSE
    <3>1. SessionOf(q) = new.session /\ new.session # 0
      BY <1>2, <2>2
    <3>2. new.session \in Ids
      BY <1>1, IdFacts, <3>1 DEF RoleObj
    <3> QED BY <1>8, <1>14, <1>15, <1>16, <2>2, <3>1, <3>2
  <2>3. ASSUME NEW p \in Roles, NEW q \in Roles, SessionOf(p)' = SessionOf(q)', SessionOf(q)' # 0
        PROVE  p = q
    <3>1. CASE p = r \/ q = r
      BY <2>2, <2>3, <3>1
    <3>2. CASE p # r /\ q # r
      BY <1>2, <1>16, <2>3, <3>2
    <3> QED BY <3>1, <3>2
  <2> QED BY <2>1, <2>3 DEF IndexSound
<1>18. GivenSound'
  <2> SUFFICES ASSUME NEW i \in Ids, GivenOut(i)'
      PROVE  /\ session_id_to_role'[i] # 0 =>
                  /\ objs'[session_id_to_role'[i]].session = i
                  /\ objs'[session_id_to_role'[i]].state = "using"
             /\ \A q \in Roles : SessionOf(q)' = i => RoleOf(q)'.state = "using"
    BY DEF GivenSound
  <2>0. new.state \in {"launch", "using"} \/ new.session = 0
    BY <1>1 DEF RoleObj, RoleStates
  <2>1. CASE GivenOut(i)
    <3>1. /\ session_id_to_role[i] # 0 =>
               /\ objs[session_id_to_role[i]].session = i
               /\ objs[session_id_to_role[i]].state = "using"
          /\ \A q \in Roles : SessionOf(q) = i => RoleOf(q).state = "using"
      BY <1>4, <2>1 DEF GivenSound
    <3>2. i = new.session => i = old.session
      BY <1>6, <1>14, <1>15, <2>1
    <3>3. i = new.session => old.state = "using" /\ new.state = "using"
      BY <1>1, <1>6, <1>8, <2>0, <3>1, <3>2
    <3>4. ASSUME NEW q \in Roles, SessionOf(q)' = i PROVE RoleOf(q)'.state = "using"
      <4>1. CASE q = r
        BY <1>2, <3>3, <3>4, <4>1
      <4>2. CASE q # r
        <5>1. SessionOf(q) = i
          BY <1>2, <3>4, <4>2
        <5>2. Lives(q)
          BY <1>6, <5>1 DEF SessionOf
        <5> QED BY <1>2, <3>1, <4>2, <5>1, <5>2
      <4> QED BY <4>1, <4>2
    <3>5. ASSUME session_id_to_role'[i] # 0
          PROVE  /\ objs'[session_id_to_role'[i]].session = i
                 /\ objs'[session_id_to_role'[i]].state = "using"
      <4>1. CASE i = new.session /\ session_id_to_role'[i] = o
        BY <1>2, <3>3, <4>1
      <4>2. CASE session_id_to_role'[i] = session_id_to_role[i]
        <5>1. session_id_to_role[i] \in Tables
          BY <1>7, <3>5, <4>2
        <5>2. CASE session_id_to_role[i] # o
          BY <1>2, <3>1, <3>5, <4>2, <5>1, <5>2
        <5>3. CASE session_id_to_role[i] = o
          <6>1. old.session = i /\ old.state = "using"
            BY <1>2, <1>6, <3>1, <5>3, <3>5, <4>2 DEF old
          <6>2. new.session = i
            BY <1>6, <1>14, <3>5, <6>1
          <6> QED BY <1>2, <3>3, <4>2, <5>3, <6>2
        <5> QED BY <5>2, <5>3
      <4> QED BY <1>14, <3>5, <4>1, <4>2
    <3> QED BY <3>4, <3>5
  <2>2. CASE ~ GivenOut(i) /\ i = new.session /\ new.state = "using"
    <3>1. \A q \in Roles : q # r => SessionOf(q) # i
      BY <1>6, <1>8, <1>14, <1>15, <1>16, <2>2
    <3>2. \A q \in Roles : SessionOf(q)' = i => RoleOf(q)'.state = "using"
      BY <1>2, <2>2, <3>1
    <3>3. ASSUME session_id_to_role'[i] # 0 PROVE session_id_to_role'[i] = o
      <4>1. CASE session_id_to_role'[i] = session_id_to_role[i]
        <5>1. i = old.session
          BY <1>6, <1>14, <1>15, <2>2, <3>3, <4>1
        <5> QED BY <1>8, <1>16, <3>3, <4>1, <5>1 DEF o
      <4> QED BY <1>14, <3>3, <4>1
    <3> QED BY <1>2, <2>2, <3>2, <3>3
  <2>3. CASE ~ GivenOut(i) /\ ~ Held(i) /\ i # new.session
    <3>1. session_id_to_role'[i] = 0
      BY <1>14, <1>15, <2>3
    <3>2. \A q \in Roles : SessionOf(q)' # i
      BY <1>2, <1>15, <2>3
    <3> QED BY <3>1, <3>2
  <2> QED BY <1>14, <2>1, <2>2, <2>3
<1> QED BY <1>1, <1>9, <1>10, <1>11, <1>12, <1>13, <1>17, <1>18 DEF Sound

\* Role r leaves the main index, and its table becomes new: that of a failed
\* launch, or of a role released.
Removed(r, new) ==
  LET o == role_id_to_role[r]
      old == objs[o]
  IN
  /\ Lives(r) /\ new \in RoleObj /\ new.role = r
  /\ objs' = [objs EXCEPT ![o] = new]
  /\ role_id_to_role' = [role_id_to_role EXCEPT ![r] = 0]
  /\ CountersGrow
  /\ aborted' \subseteq {162}
  /\ \/ old.state = "launch" /\ new.state = "launch"
     \/ new.state = "released" /\ new.session = 0 /\ new.gate = None
        /\ old.state = "releasing"
  /\ wcalls' \subseteq wcalls
  /\ \A s \in Ids : LaunchCb(s, r) \notin wcalls' /\ ReleaseCb(r, s) \notin wcalls'
  /\ ChangeCb(o) \notin wcalls'
  /\ \A i \in Ids : session_id_to_role'[i] \in {0, session_id_to_role[i]}
  /\ \A i \in Ids : GivenOut(i)' => GivenOut(i)

LEMMA RemovedSound ==
  ASSUME WorldInv, WorldInv', Sound, NEW r \in Roles, NEW new, Removed(r, new)
  PROVE  Sound'
<1> DEFINE o == role_id_to_role[r]
           old == objs[o]
<1>1. /\ role_id_to_role' = [role_id_to_role EXCEPT ![r] = 0] /\ CountersGrow
      /\ objs' = [objs EXCEPT ![o] = new]
      /\ new \in RoleObj /\ new.role = r /\ Lives(r) /\ aborted' \subseteq {162}
      /\ wcalls' \subseteq wcalls
      /\ \/ old.state = "launch" /\ new.state = "launch"
         \/ /\ new.state = "released" /\ new.session = 0 /\ new.gate = None
            /\ old.state = "releasing"
      /\ \A s \in Ids : LaunchCb(s, r) \notin wcalls' /\ ReleaseCb(r, s) \notin wcalls'
      /\ ChangeCb(o) \notin wcalls'
      /\ \A i \in Ids : session_id_to_role'[i] \in {0, session_id_to_role[i]}
      /\ \A i \in Ids : GivenOut(i)' => GivenOut(i)
  BY DEF Removed
<1>2. /\ old \in RoleObj /\ old.role = r /\ o \in Tables /\ o # 0 /\ o \in Ids
  BY <1>1, LivingRole DEF Lives, Tables
<1>3. /\ TablesSound /\ LaunchSound /\ ChangeSound /\ ReleaseSound /\ ReconnectSound
      /\ IndexSound /\ GivenSound
  BY DEF Sound
<1>4. /\ objs'[o] = new /\ \A p \in Ids : p # o => objs'[p] = objs[p]
      /\ role_id_to_role'[r] = 0
      /\ \A q \in Roles : q # r => role_id_to_role'[q] = role_id_to_role[q]
  BY <1>1, <1>2 DEF WorldInv, WTypeOK
<1>5. \A i \in Ids : i \in Nat /\ i # 0
  BY ConstantsAssumption DEF Ids
<1>6. \A q \in Roles : q # r /\ Lives(q) => role_id_to_role[q] # o /\ role_id_to_role[q] \in Ids
  BY <1>2, LivingRole DEF Tables
<1> HIDE DEF o, old
<1>7. Tables' = Tables /\ Tables \subseteq Ids
  BY <1>1, <1>2, <1>4 DEF Tables
<1>8. \A p \in Tables : Alive(p)' => Alive(p) /\ p # o
  BY <1>1, <1>2, <1>4, <1>5, <1>7 DEF Alive, Tables, RoleObj
<1>9. \A p \in Tables : p # o /\ Alive(p) => Alive(p)'
  <2> SUFFICES ASSUME NEW p \in Tables, p # o, Alive(p) PROVE Alive(p)'
    OBVIOUS
  <2>1. objs[p].role \in Roles /\ role_id_to_role[objs[p].role] = p
    BY AliveTable
  <2>2. objs[p].role # r
    BY <2>1 DEF o
  <2> QED BY <1>4, <1>7, <2>1, <2>2 DEF Alive
<1>10. /\ ~ Lives(r)' /\ SessionOf(r)' = 0
       /\ \A q \in Roles : q # r => Lives(q)' = Lives(q) /\ SessionOf(q)' = SessionOf(q)
       /\ \A q \in Roles : q # r /\ Lives(q) => RoleOf(q)' = RoleOf(q)
  <2>1. /\ ~ Lives(r)' /\ \A q \in Roles : q # r => Lives(q)' = Lives(q)
    BY <1>4 DEF Lives
  <2>2. \A q \in Roles : q # r /\ Lives(q) => RoleOf(q)' = RoleOf(q)
    BY <1>4, <1>6 DEF RoleOf
  <2> QED BY <2>1, <2>2 DEF SessionOf
<1>11. TablesSound'
  <2> SUFFICES ASSUME NEW p \in Tables
      PROVE  /\ p <= last_session_id'
             /\ objs'[p].state \in {"idle", "releasing", "released"} =>
                  objs'[p].session = 0 /\ objs'[p].gate = None
             /\ ~ Alive(p)' => objs'[p].state = "launch" \/ objs'[p].session = 0
             /\ Alive(p)' /\ objs'[p].state = "launch" =>
                  objs'[p].session # 0 /\ objs'[p].gate # None /\ objs'[p].cached # None
    BY <1>7 DEF TablesSound
  <2>1. p <= last_session_id'
    <3>1. p <= last_session_id /\ p \in Nat
      BY <1>3, <1>5, <1>7 DEF TablesSound
    <3>2. last_session_id \in Nat /\ last_session_id' \in Nat
      BY NatCounters, ConstantsAssumption DEF WorldInv, WTypeOK, IdOrNil
    <3> QED BY <1>1, <3>1, <3>2 DEF CountersGrow
  <2>2. CASE p = o
    BY <1>1, <1>4, <1>8, <2>1, <2>2
  <2>3. CASE p # o
    BY <1>3, <1>4, <1>7, <1>8, <1>9, <2>1, <2>3 DEF TablesSound
  <2> QED BY <2>2, <2>3
<1>12. LaunchSound'
  <2> SUFFICES ASSUME NEW s \in Ids, NEW q \in Roles, LaunchCb(s, q) \in wcalls'
      PROVE  role_id_to_role'[q] = s /\ objs'[s].state = "launch"
    BY DEF LaunchSound
  <2>1. role_id_to_role[q] = s /\ objs[s].state = "launch" /\ q # r
    BY <1>1, <1>3 DEF LaunchSound
  <2>2. Lives(q)
    BY <1>5, <2>1 DEF Lives
  <2> QED BY <1>4, <1>6, <2>1, <2>2
<1>13. ChangeSound'
  <2> SUFFICES ASSUME NEW p \in Ids, ChangeCb(p) \in wcalls'
      PROVE  /\ Alive(p)' /\ objs'[p].state = "launch"
             /\ LaunchCb(p, objs'[p].role) \notin wcalls'
    BY DEF ChangeSound, Alive
  <2>1. p # o /\ ChangeCb(p) \in wcalls
    BY <1>1
  <2>2. /\ Alive(p) /\ objs[p].state = "launch" /\ LaunchCb(p, objs[p].role) \notin wcalls
        /\ p \in Tables
    BY <1>3, <2>1, TablesAre DEF ChangeSound
  <2> QED BY <1>1, <1>4, <1>9, <2>1, <2>2
<1>14. ReleaseSound'
  <2> SUFFICES ASSUME NEW q \in Roles, NEW i \in Ids, ReleaseCb(q, i) \in wcalls'
      PROVE  /\ \A j \in Ids : ReleaseCb(q, j) \in wcalls' => i = j
             /\ Lives(q)' /\ RoleOf(q)'.state = "releasing" /\ i <= last_opera_id'
    BY DEF ReleaseSound
  <2>1. q # r /\ ReleaseCb(q, i) \in wcalls
    BY <1>1
  <2>2. /\ \A j \in Ids : ReleaseCb(q, j) \in wcalls => i = j
        /\ Lives(q) /\ RoleOf(q).state = "releasing" /\ i <= last_opera_id
    BY <1>3, <2>1 DEF ReleaseSound
  <2>3. i <= last_opera_id'
    <3>1. last_opera_id \in Nat /\ last_opera_id' \in Nat /\ i \in Nat
      BY <1>5, NatCounters, ConstantsAssumption DEF WorldInv, WTypeOK, IdOrNil
    <3> QED BY <1>1, <2>2, <3>1 DEF CountersGrow
  <2> QED BY <1>1, <1>10, <2>1, <2>2, <2>3
<1>15. ReconnectSound'
  <2> SUFFICES ASSUME NEW cb \in wcalls', cb[1] = "_reconnect_role_game_change_client_cb"
      PROVE  objs'[cb[4]].state # "launch" /\ cb[3] <= last_opera_id'
    BY DEF ReconnectSound
  <2>1. cb \in wcalls /\ objs[cb[4]].state # "launch" /\ cb[3] <= last_opera_id /\ cb[4] \in Tables
    BY <1>1, <1>3, TablesAre DEF ReconnectSound
  <2>2. cb[3] <= last_opera_id'
    <3>1. last_opera_id \in Nat /\ last_opera_id' \in Nat
      BY NatCounters, ConstantsAssumption DEF WorldInv, WTypeOK, IdOrNil
    <3>2. cb[3] \in Ids
      BY <2>1, ReconnectCbKind DEF WorldInv, WTypeOK
    <3> QED BY <1>1, <1>5, <2>1, <3>1, <3>2 DEF CountersGrow
  <2>3. CASE cb[4] = o
    BY <1>1, <1>4, <2>1, <2>2, <2>3 DEF old
  <2>4. CASE cb[4] # o
    BY <1>4, <1>7, <2>1, <2>2, <2>4
  <2> QED BY <2>3, <2>4
<1>16. IndexSound'
  <2>1. \A s \in Ids, q \in Roles :
          session_id_to_role'[s] # 0 /\ SessionOf(q)' = s => session_id_to_role'[s] = role_id_to_role'[q]
    <3> SUFFICES ASSUME NEW s \in Ids, NEW q \in Roles, session_id_to_role'[s] # 0, SessionOf(q)' = s
        PROVE  session_id_to_role'[s] = role_id_to_role'[q]
      OBVIOUS
    <3>1. q # r
      BY <1>5, <1>10
    <3> QED BY <1>1, <1>3, <1>4, <1>10, <3>1 DEF IndexSound
  <2>2. \A p, q \in Roles : SessionOf(p)' # 0 /\ SessionOf(p)' = SessionOf(q)' => p = q
    BY <1>3, <1>10 DEF IndexSound
  <2> QED BY <2>1, <2>2 DEF IndexSound
<1>17. GivenSound'
  <2> SUFFICES ASSUME NEW i \in Ids, GivenOut(i)'
      PROVE  /\ session_id_to_role'[i] # 0 =>
                  /\ objs'[session_id_to_role'[i]].session = i
                  /\ objs'[session_id_to_role'[i]].state = "using"
             /\ \A q \in Roles : SessionOf(q)' = i => RoleOf(q)'.state = "using"
    BY DEF GivenSound
  <2>1. /\ session_id_to_role[i] # 0 =>
             /\ objs[session_id_to_role[i]].session = i
             /\ objs[session_id_to_role[i]].state = "using"
        /\ \A q \in Roles : SessionOf(q) = i => RoleOf(q).state = "using"
    BY <1>1, <1>3 DEF GivenSound
  <2>2. ASSUME session_id_to_role'[i] # 0
        PROVE  /\ objs'[session_id_to_role'[i]].session = i
               /\ objs'[session_id_to_role'[i]].state = "using"
    <3>1. session_id_to_role'[i] = session_id_to_role[i]
      BY <1>1, <2>2
    <3>2. session_id_to_role[i] \in Tables
      BY <2>2, <3>1, TablesAre
    <3>3. session_id_to_role[i] # o
      BY <1>1, <2>1, <2>2, <3>1 DEF old
    <3> QED BY <1>4, <1>7, <2>1, <2>2, <3>1, <3>2, <3>3
  <2>3. ASSUME NEW q \in Roles, SessionOf(q)' = i PROVE RoleOf(q)'.state = "using"
    <3>1. q # r
      BY <1>5, <1>10, <2>3
    <3>2. SessionOf(q) = i /\ Lives(q)
      BY <1>5, <1>10, <2>3, <3>1 DEF SessionOf
    <3> QED BY <1>10, <2>1, <3>1, <3>2
  <2> QED BY <2>2, <2>3
<1> QED BY <1>1, <1>11, <1>12, <1>13, <1>14, <1>15, <1>16, <1>17 DEF Sound

\* A table is made for role r, under a session s that nobody holds, and a
\* game service is called to load the role.
Created(r, s, new) ==
  /\ ~ Lives(r) /\ s \in Ids /\ last_session_id < s /\ ~ Held(s)
  /\ new \in RoleObj /\ new.role = r /\ new.state = "launch" /\ new.session = s
  /\ new.gate # None /\ new.cached # None
  /\ objs' = [objs EXCEPT ![s] = new]
  /\ role_id_to_role' = [role_id_to_role EXCEPT ![r] = s]
  /\ session_id_to_role' = [session_id_to_role EXCEPT ![s] = s]
  /\ wcalls' = wcalls \cup {LaunchCb(s, r)}
  /\ last_session_id' = s
  /\ UNCHANGED <<last_opera_id, aborted>>
  /\ \A i \in Ids : GivenOut(i)' => GivenOut(i)

LEMMA CreatedSound ==
  ASSUME WorldInv, WorldInv', Sound, NEW r \in Roles, NEW s, NEW new, Created(r, s, new)
  PROVE  Sound'
<1>1. /\ ~ Lives(r) /\ s \in Ids /\ last_session_id < s /\ ~ Held(s)
      /\ new \in RoleObj /\ new.role = r /\ new.state = "launch" /\ new.session = s
      /\ new.gate # None /\ new.cached # None
      /\ objs' = [objs EXCEPT ![s] = new]
      /\ role_id_to_role' = [role_id_to_role EXCEPT ![r] = s]
      /\ session_id_to_role' = [session_id_to_role EXCEPT ![s] = s]
      /\ wcalls' = wcalls \cup {LaunchCb(s, r)}
      /\ last_session_id' = s
      /\ last_opera_id' = last_opera_id /\ aborted' = aborted
      /\ \A i \in Ids : GivenOut(i)' => GivenOut(i)
  BY DEF Created
<1>2. \A i \in Ids : i \in Nat /\ i # 0
  BY ConstantsAssumption DEF Ids
<1>3. /\ TablesSound /\ LaunchSound /\ ChangeSound /\ ReleaseSound /\ ReconnectSound
      /\ IndexSound /\ GivenSound /\ aborted \subseteq {162}
  BY DEF Sound
<1>4. /\ objs'[s] = new /\ \A p \in Ids : p # s => objs'[p] = objs[p]
      /\ role_id_to_role'[r] = s
      /\ \A q \in Roles : q # r => role_id_to_role'[q] = role_id_to_role[q]
      /\ session_id_to_role'[s] = s
      /\ \A i \in Ids : i # s => session_id_to_role'[i] = session_id_to_role[i]
  BY <1>1 DEF WorldInv, WTypeOK
<1>5. /\ Tables \subseteq Ids /\ s \notin Tables
      /\ \A p \in Tables : p <= last_session_id /\ p # s
  <2>1. \A p \in Tables : p <= last_session_id /\ p \in Nat
    BY <1>2, <1>3 DEF TablesSound, Tables
  <2>2. \A p \in Tables : ~ (last_session_id < p)
    BY <2>1, NatCounters
  <2> QED BY <1>1, <2>1, <2>2 DEF Tables
<1>6. Tables' = Tables \cup {s}
  BY <1>1, <1>4 DEF Tables
<1>7. role_id_to_role[r] = 0
  BY <1>1 DEF Lives
<1>8. \A q \in Roles : Lives(q) => q # r /\ role_id_to_role[q] # s /\ role_id_to_role[q] \in Ids
  BY <1>1, <1>5, LivingRole
<1>9. \A p \in Tables : Alive(p)' = Alive(p) /\ objs'[p] = objs[p]
  <2> SUFFICES ASSUME NEW p \in Tables PROVE Alive(p)' = Alive(p) /\ objs'[p] = objs[p]
    OBVIOUS
  <2>1. objs'[p] = objs[p] /\ p # s /\ p # 0 /\ objs[p].role \in Roles
    BY <1>2, <1>4, <1>5 DEF Tables, RoleObj
  <2> QED BY <1>4, <1>7, <2>1 DEF Alive
<1>10. Alive(s)'
  BY <1>1, <1>4 DEF Alive
<1>11. /\ Lives(r)' /\ RoleOf(r)' = new /\ SessionOf(r)' = s
       /\ \A q \in Roles : q # r => Lives(q)' = Lives(q) /\ SessionOf(q)' = SessionOf(q)
       /\ \A q \in Roles : Lives(q) => RoleOf(q)' = RoleOf(q)
  <2>1. /\ Lives(r)' /\ \A q \in Roles : q # r => Lives(q)' = Lives(q)
    BY <1>1, <1>2, <1>4 DEF Lives
  <2>2. RoleOf(r)' = new /\ \A q \in Roles : Lives(q) => RoleOf(q)' = RoleOf(q)
    BY <1>4, <1>8 DEF RoleOf
  <2> QED BY <1>1, <2>1, <2>2 DEF SessionOf
<1>12. TablesSound'
  <2> SUFFICES ASSUME NEW p \in Tables'
      PROVE  /\ p <= last_session_id'
             /\ objs'[p].state \in {"idle", "releasing", "released"} =>
                  objs'[p].session = 0 /\ objs'[p].gate = None
             /\ ~ Alive(p)' => objs'[p].state = "launch" \/ objs'[p].session = 0
             /\ Alive(p)' /\ objs'[p].state = "launch" =>
                  objs'[p].session # 0 /\ objs'[p].gate # None /\ objs'[p].cached # None
    BY DEF TablesSound
  <2>1. CASE p = s
    BY <1>1, <1>2, <1>4, <1>10, <2>1
  <2>2. CASE p \in Tables
    <3>1. p <= last_session_id'
      BY <1>1, <1>2, <1>5, <2>2, NatCounters
    <3> QED BY <1>3, <1>9, <2>2, <3>1 DEF TablesSound
  <2> QED BY <1>6, <2>1, <2>2
<1>13. \A t \in Ids, q \in Roles : LaunchCb(t, q) \in wcalls =>
          role_id_to_role[q] = t /\ objs[t].state = "launch" /\ t # s /\ q # r
  <2> SUFFICES ASSUME NEW t \in Ids, NEW q \in Roles, LaunchCb(t, q) \in wcalls
      PROVE  role_id_to_role[q] = t /\ objs[t].state = "launch" /\ t # s /\ q # r
    OBVIOUS
  <2>1. role_id_to_role[q] = t /\ objs[t].state = "launch"
    BY <1>3 DEF LaunchSound
  <2> QED BY <1>2, <1>8, <2>1 DEF Lives
<1>14. LaunchSound'
  <2> SUFFICES ASSUME NEW t \in Ids, NEW q \in Roles, LaunchCb(t, q) \in wcalls'
      PROVE  role_id_to_role'[q] = t /\ objs'[t].state = "launch"
    BY DEF LaunchSound
  <2>1. CASE LaunchCb(t, q) \in wcalls
    BY <1>4, <1>13, <2>1
  <2>2. CASE LaunchCb(t, q) = LaunchCb(s, r)
    BY <1>1, <1>4, <2>2, ClosuresDiffer
  <2> QED BY <1>1, <2>1, <2>2
<1>15. ChangeSound'
  <2> SUFFICES ASSUME NEW p \in Ids, ChangeCb(p) \in wcalls'
      PROVE  /\ Alive(p)' /\ objs'[p].state = "launch"
             /\ LaunchCb(p, objs'[p].role) \notin wcalls'
    BY DEF ChangeSound, Alive
  <2>1. ChangeCb(p) # LaunchCb(s, r)
    BY DEF ChangeCb, LaunchCb
  <2>2. /\ ChangeCb(p) \in wcalls /\ Alive(p) /\ objs[p].state = "launch"
        /\ LaunchCb(p, objs[p].role) \notin wcalls /\ p \in Tables
    BY <1>1, <1>3, <2>1, TablesAre DEF ChangeSound
  <2>3. LaunchCb(p, objs[p].role) # LaunchCb(s, r)
    BY <1>5, <2>2, ClosuresDiffer
  <2> QED BY <1>1, <1>9, <2>2, <2>3
<1>16. ReleaseSound'
  <2>1. \A q \in Roles, i \in Ids : ReleaseCb(q, i) \in wcalls' => ReleaseCb(q, i) \in wcalls
    BY <1>1 DEF ReleaseCb, LaunchCb
  <2>2. \A q \in Roles : Lives(q) => Lives(q)' /\ RoleOf(q)' = RoleOf(q)
    BY <1>8, <1>11
  <2> QED BY <1>1, <1>3, <2>1, <2>2 DEF ReleaseSound
<1>17. ReconnectSound'
  <2> SUFFICES ASSUME NEW cb \in wcalls', cb[1] = "_reconnect_role_game_change_client_cb"
      PROVE  objs'[cb[4]].state # "launch" /\ cb[3] <= last_opera_id'
    BY DEF ReconnectSound
  <2>1. cb \in wcalls
    BY <1>1 DEF LaunchCb
  <2>2. cb[4] \in Tables
    BY <2>1, TablesAre
  <2> QED BY <1>1, <1>3, <1>9, <2>1, <2>2 DEF ReconnectSound
<1>18. /\ session_id_to_role[s] = 0 /\ ~ GivenOut(s) /\ \A q \in Roles : SessionOf(q) # s
  BY <1>1 DEF Held
<1>19. IndexSound'
  <2>1. ASSUME NEW i \in Ids, NEW q \in Roles, session_id_to_role'[i] # 0, SessionOf(q)' = i
        PROVE  session_id_to_role'[i] = role_id_to_role'[q]
    <3>1. CASE q = r
      BY <1>4, <1>11, <2>1, <3>1
    <3>2. CASE q # r
      <4>1. SessionOf(q) = i /\ i # s
        BY <1>11, <1>18, <2>1, <3>2
      <4> QED BY <1>3, <1>4, <2>1, <3>2, <4>1 DEF IndexSound
    <3> QED BY <3>1, <3>2
  <2>2. \A p, q \in Roles : SessionOf(p)' # 0 /\ SessionOf(p)' = SessionOf(q)' => p = q
    BY <1>3, <1>11, <1>18 DEF IndexSound
  <2> QED BY <2>1, <2>2 DEF IndexSound
<1>20. GivenSound'
  <2> SUFFICES ASSUME NEW i \in Ids, GivenOut(i)'
      PROVE  /\ session_id_to_role'[i] # 0 =>
                  /\ objs'[session_id_to_role'[i]].session = i
                  /\ objs'[session_id_to_role'[i]].state = "using"
             /\ \A q \in Roles : SessionOf(q)' = i => RoleOf(q)'.state = "using"
    BY DEF GivenSound
  <2>1. GivenOut(i) /\ i # s
    BY <1>1, <1>18
  <2>2. /\ session_id_to_role[i] # 0 =>
             /\ objs[session_id_to_role[i]].session = i
             /\ objs[session_id_to_role[i]].state = "using"
        /\ \A q \in Roles : SessionOf(q) = i => RoleOf(q).state = "using"
    BY <1>3, <2>1 DEF GivenSound
  <2>3. session_id_to_role'[i] # 0 =>
          /\ objs'[session_id_to_role'[i]].session = i
          /\ objs'[session_id_to_role'[i]].state = "using"
    BY <1>4, <1>9, <2>1, <2>2, TablesAre
  <2>4. ASSUME NEW q \in Roles, SessionOf(q)' = i PROVE RoleOf(q)'.state = "using"
    <3>1. q # r /\ SessionOf(q) = i
      BY <1>11, <2>1, <2>4
    <3>2. Lives(q)
      BY <1>2, <3>1 DEF SessionOf
    <3> QED BY <1>11, <2>2, <3>1, <3>2
  <2> QED BY <2>3, <2>4
<1> QED BY <1>1, <1>3, <1>12, <1>14, <1>15, <1>16, <1>17, <1>19, <1>20 DEF Sound

\* A step of the world leaves the tables and the sessions sound when it has
\* one of these shapes.
Follows ==
  /\ Queues'
  /\ \/ Kept
     \/ \E r \in Roles, new \in RoleObj : Changed(r, new) \/ Removed(r, new)
     \/ \E r \in Roles, s \in Ids, new \in RoleObj : Created(r, s, new)

LEMMA FollowsSound ==
  ASSUME WorldInv, WorldInv', Sound, Follows PROVE Sound'
BY KeptSound, ChangedSound, RemovedSound, CreatedSound DEF Follows

\* What a step of the world gives out: what it names, and what a new
\* reconnect is about to.
LEMMA GivenFollows ==
  ASSUME UNCHANGED clients, NEW X, Gives(X), NEW Y,
         \A cb \in wcalls' \ wcalls :
           cb[1] = "_reconnect_role_game_change_client_cb" => cb[3] \in Y
  PROVE  \A i \in Ids : GivenOut(i)' => GivenOut(i) \/ i \in X \/ i \in Y
<1> SUFFICES ASSUME NEW i \in Ids, GivenOut(i)' PROVE GivenOut(i) \/ i \in X \/ i \in Y
  OBVIOUS
<1>1. ClientHas(i)' = ClientHas(i)
  BY DEF ClientHas
<1>2. Named(i)' => Named(i) \/ i \in X
  BY DEF Gives
<1>3. Reconnects(i)' => Reconnects(i) \/ i \in Y
  BY DEF Reconnects
<1> QED BY <1>1, <1>2, <1>3 DEF GivenOut

\* No call of a launch is out for a role that is not in launch, no call of a
\* release for one that is not being released.
LEMMA NoCalls ==
  ASSUME WorldInv, Sound, NEW r \in Roles, Lives(r)
  PROVE  /\ RoleOf(r).state # "launch" =>
              /\ \A s \in Ids : LaunchCb(s, r) \notin wcalls
              /\ ChangeCb(role_id_to_role[r]) \notin wcalls
         /\ RoleOf(r).state # "releasing" => \A i \in Ids : ReleaseCb(r, i) \notin wcalls
<1>1. role_id_to_role[r] \in Ids /\ RoleOf(r) = objs[role_id_to_role[r]]
  BY Lookup
<1> QED BY <1>1 DEF Sound, LaunchSound, ChangeSound, ReleaseSound

\* A change after which there are only calls there were.
LEMMA CallsShrink ==
  ASSUME WorldInv, Sound, NEW r \in Roles, Lives(r), NEW new,
         wcalls' \subseteq wcalls,
         LET o == role_id_to_role[r] IN
         \/ RoleOf(r).state = "launch" /\ new.state = "launch"
         \/ RoleOf(r).state \in {"idle", "using"}
         \/ /\ RoleOf(r).state = "launch" /\ ChangeCb(o) \notin wcalls'
            /\ \A s \in Ids : LaunchCb(s, r) \notin wcalls'
  PROVE  CallsFollow(r, new)
<1> DEFINE o == role_id_to_role[r]
<1>1. o \in Ids /\ RoleOf(r) = objs[o] /\ objs[o].role = r
  BY LivingRole DEF Tables
<1>2. \A i \in Ids : ReleaseCb(r, i) \notin wcalls
  BY NoCalls
<1>3. RoleOf(r).state # "launch" =>
        ChangeCb(o) \notin wcalls /\ \A s \in Ids : LaunchCb(s, r) \notin wcalls
  BY NoCalls
<1>4. ChangeCb(o) \in wcalls => LaunchCb(o, r) \notin wcalls
  BY <1>1 DEF Sound, ChangeSound
<1> QED BY <1>2, <1>3, <1>4 DEF CallsFollow

\* try_release_role, on the heap as the handler left it: role r, which has no
\* other call out, has lost its client.
LEMMA TryReleases ==
  ASSUME WorldInv, Sound, NEW r \in Roles, Lives(r), NEW heap, NEW mid \in RoleObj, NEW calls,
         heap = [objs EXCEPT ![role_id_to_role[r]] = mid],
         mid.role = r, mid.session = 0, mid.gate = None,
         calls \subseteq wcalls,
         \A s \in Ids : LaunchCb(s, r) \notin calls /\ ReleaseCb(r, s) \notin calls,
         ChangeCb(role_id_to_role[r]) \notin calls,
         TryReleaseRole(heap, calls, r)
  PROVE  /\ \E new \in RoleObj :
              /\ objs' = [objs EXCEPT ![role_id_to_role[r]] = new]
              /\ new.role = r /\ new.state = "releasing" /\ new.session = 0 /\ new.gate = None
              /\ CallsFollow(r, new)
         /\ last_opera_id <= last_opera_id'
         /\ \A cb \in wcalls' \ wcalls : cb[1] # "_reconnect_role_game_change_client_cb"
<1> DEFINE o == role_id_to_role[r]
           opera == last_opera_id + 1
           new == [mid EXCEPT !.state = "releasing", !.operas = @ \cup {opera}]
<1>1. o \in Ids /\ objs \in [Ids -> RoleObj \cup {None}]
  BY Lookup DEF WorldInv, WTypeOK
<1>2. opera \in Ids /\ last_opera_id' = opera /\ wcalls' = calls \cup {ReleaseCb(r, opera)}
  BY DEF TryReleaseRole
<1>3. /\ new \in RoleObj /\ new.role = r /\ new.state = "releasing" /\ new.session = 0
      /\ new.gate = None
  BY <1>2 DEF RoleObj, RoleStates
<1>4. objs' = [objs EXCEPT ![o] = new]
  <2>1. objs' = [heap EXCEPT ![o].state = "releasing", ![o].operas = @ \cup {opera}]
    BY DEF TryReleaseRole, Releasing
  <2>2. heap[o] = mid
    BY <1>1
  <2>3. objs' = [heap EXCEPT ![o] = new]
    BY <2>1, <2>2
  <2> QED BY <2>3
<1>5. last_opera_id \in Nat /\ opera \in Nat /\ last_opera_id <= opera
  BY NatCounters
<1> HIDE DEF new, opera
<1>6. CallsFollow(r, new)
  <2>1. \A s \in Ids, q \in Roles : LaunchCb(s, q) \in wcalls' => LaunchCb(s, q) \in calls
    BY <1>2 DEF LaunchCb, ReleaseCb
  <2>2. \A p \in Ids : ChangeCb(p) \in wcalls' => ChangeCb(p) \in calls
    BY <1>2 DEF ChangeCb, ReleaseCb
  <2>3. \A cb \in wcalls' : cb[1] = "_reconnect_role_game_change_client_cb" => cb \in calls
    BY <1>2 DEF ReleaseCb
  <2>4. \A q \in Roles, i \in Ids : ReleaseCb(q, i) \in wcalls' =>
          ReleaseCb(q, i) \in calls \/ (q = r /\ i = opera)
    BY <1>2, ClosuresDiffer
  <2>5. opera <= last_opera_id'
    BY <1>2, <1>5
  <2>6. \A q \in Roles, i \in Ids : ReleaseCb(q, i) \in wcalls' =>
          \/ /\ q = r /\ i <= last_opera_id'
             /\ \A j \in Ids : ReleaseCb(q, j) \in wcalls' => i = j
          \/ q # r /\ ReleaseCb(q, i) \in wcalls
    BY <2>4, <2>5
  <2> QED BY <1>3, <2>1, <2>2, <2>3, <2>6 DEF CallsFollow
<1>7. \A cb \in wcalls' \ wcalls : cb[1] # "_reconnect_role_game_change_client_cb"
  BY <1>2 DEF ReleaseCb
<1> QED BY <1>2, <1>3, <1>4, <1>5, <1>6, <1>7

\* What is drawn is not held, in a step that does not set clash.
LEMMA FreshDrawn ==
  ASSUME ~ DrewHeld, NEW s \in Ids, last_session_id < s, s <= last_session_id'
  PROVE  ~ Held(s)
BY DEF DrewHeld, Draws

LEMMA FreshReconnect ==
  ASSUME ~ DrewHeld, NEW s \in Ids, NEW cb \in wcalls' \ wcalls,
         cb[1] = "_reconnect_role_game_change_client_cb", cb[3] = s
  PROVE  ~ Held(s)
BY DEF DrewHeld, Draws

\* A handler that changes no table, and only drops calls.
LEMMA KeepsTables ==
  ASSUME WorldInv, Sound, UNCHANGED clients, NEW X, Gives(X), \A i \in Ids : i \in X => GivenOut(i),
         UNCHANGED <<objs, role_id_to_role, session_id_to_role, last_session_id, last_opera_id>>,
         wcalls' \subseteq wcalls, aborted' = aborted
  PROVE  Follows
<1>1. CountersGrow
  BY NatCounters DEF CountersGrow
<1>2. \A cb \in wcalls' \ wcalls : cb[1] = "_reconnect_role_game_change_client_cb" => cb[3] \in {}
  OBVIOUS
<1>3. \A i \in Ids : GivenOut(i)' => GivenOut(i)
  BY <1>2, GivenFollows
<1> QED BY <1>1, <1>3 DEF Follows, Kept, Gives, Sound

\* The table of role r changes: what becomes of the rest, which session the
\* role takes, and which the step gives out.
Alters(r, new) ==
  /\ Lives(r) /\ new \in RoleObj /\ new.role = r
  /\ objs' = [objs EXCEPT ![role_id_to_role[r]] = new]
  /\ UNCHANGED role_id_to_role
  /\ CountersGrow
  /\ aborted' \subseteq {162}
  /\ new.state = "launch" => /\ RoleOf(r).state = "launch" /\ new.session # 0
                             /\ new.gate # None /\ new.cached # None
  /\ new.state \in {"idle", "releasing", "released"} => new.session = 0 /\ new.gate = None
  /\ CallsFollow(r, new)

TakesSession(r, new) ==
  /\ new.session \in {0, RoleOf(r).session} \/ ~ Held(new.session)
  /\ \A i \in Ids : \/ session_id_to_role'[i] \in {0, session_id_to_role[i]}
                    \/ i = new.session /\ session_id_to_role'[i] = role_id_to_role[r]
  /\ RoleOf(r).state = "using" /\ RoleOf(r).session # 0 /\ new.session # RoleOf(r).session =>
       session_id_to_role'[RoleOf(r).session] = 0

GivesOut(new, X) ==
  \A i \in Ids : i \in X => \/ GivenOut(i)
                            \/ i = new.session /\ new.state = "using"
                            \/ ~ Held(i) /\ i # new.session

LEMMA ChangesTable ==
  ASSUME UNCHANGED clients, NEW X, Gives(X), NEW r \in Roles, NEW new,
         Alters(r, new), TakesSession(r, new), GivesOut(new, X),
         \A cb \in wcalls' \ wcalls :
            cb[1] = "_reconnect_role_game_change_client_cb" => cb[3] \in X
  PROVE  Follows
<1>1. \A i \in Ids : GivenOut(i)' => GivenOut(i) \/ i \in X
  BY GivenFollows
<1>2. RoleOf(r) = objs[role_id_to_role[r]]
  BY DEF RoleOf
<1>3. SessionsFollow(r, new)
  BY <1>1, <1>2 DEF SessionsFollow, TakesSession, GivesOut
<1>4. Changed(r, new)
  BY <1>2, <1>3 DEF Changed, Alters
<1>5. Queues' /\ new \in RoleObj
  BY DEF Alters, Gives
<1> QED BY <1>4, <1>5 DEF Follows

LEMMA LaunchAbsentFollows ==
  ASSUME WorldInv, Sound, Queues, UNCHANGED clients, ~ DrewHeld, NEW in, Takes(in),
         NEW c \in Clients, NEW r \in Roles, NEW rsp \in LaunchRsps, LaunchAbsent(in, rsp, c, r)
  PROVE  Follows
<1>1. CASE Deliver(in, World, <<Reply(rsp, "refused", 0)>>) /\ UNCHANGED worldVars
  <2>1. Silent(Reply(rsp, "refused", 0))
    BY SilentMessages DEF Reply
  <2>2. Gives({})
    BY <1>1, <2>1, SendsSilent
  <2>3. \A i \in Ids : i \in {} => GivenOut(i)
    OBVIOUS
  <2> QED BY <1>1, <2>2, <2>3, KeepsTables DEF worldVars
<1>2. ASSUME NEW g \in Games, NEW s, s = last_session_id + 1, s \in Ids, ~ Lives(r),
             last_session_id' = s,
             objs' = [objs EXCEPT ![s] =
                [role |-> r, state |-> "launch", session |-> s, gate |-> c,
                 token |-> TokenOf[c], cached |-> rsp, game |-> g, operas |-> {}]],
             role_id_to_role' = [role_id_to_role EXCEPT ![r] = s],
             session_id_to_role' = [session_id_to_role EXCEPT ![s] = s],
             wcalls' = wcalls \cup {LaunchCb(s, r)},
             Deliver(in, World, <<Call(g, "launch_role", <<r>>, LaunchCb(s, r))>>),
             UNCHANGED <<last_opera_id, aborted>>
      PROVE  Follows
  <2> DEFINE new == [role |-> r, state |-> "launch", session |-> s, gate |-> c,
                     token |-> TokenOf[c], cached |-> rsp, game |-> g, operas |-> {}]
  <2>1. last_session_id < s /\ s <= last_session_id'
    BY <1>2, NatCounters
  <2>2. ~ Held(s)
    BY <1>2, <2>1, FreshDrawn
  <2>3. new \in RoleObj
    BY <1>2, IdFacts DEF RoleObj, RoleStates, Tokens
  <2>4. new.gate # None /\ new.cached # None
    <3>1. c # None
      BY ConstantsAssumption
    <3>2. rsp # None
      BY NilAssumption
    <3> QED BY <3>1, <3>2
  <2>5. new.role = r /\ new.state = "launch" /\ new.session = s /\ objs' = [objs EXCEPT ![s] = new]
    BY <1>2
  <2>6. Gives({})
    BY <1>2, SilentMessages, SendsSilent
  <2>7. \A i \in Ids : GivenOut(i)' => GivenOut(i)
    <3>1. \A cb \in wcalls' \ wcalls : cb[1] = "_reconnect_role_game_change_client_cb" => cb[3] \in {}
      BY <1>2 DEF LaunchCb
    <3>2. PICK Y : Y = {}
      OBVIOUS
    <3> QED BY <2>6, <3>1, <3>2, GivenFollows
  <2> HIDE DEF new
  <2>8. Created(r, s, new)
    BY <1>2, <2>1, <2>2, <2>3, <2>4, <2>5, <2>7 DEF Created
  <2> QED BY <1>2, <2>3, <2>6, <2>8 DEF Follows, Gives
<1> QED BY <1>1, <1>2 DEF LaunchAbsent

LEMMA LaunchReleasingFollows ==
  ASSUME WorldInv, Sound, Queues, UNCHANGED clients, NEW in, Takes(in),
         NEW c, NEW r, NEW rsp, LaunchReleasing(in, rsp, c, r)
  PROVE  Follows
<1>1. Silent(Reply(rsp, "refused", 0))
  BY SilentMessages DEF Reply
<1>2. Gives({})
  BY <1>1, SendsSilent DEF LaunchReleasing
<1>3. \A i \in Ids : i \in {} => GivenOut(i)
  OBVIOUS
<1> QED BY <1>2, <1>3, KeepsTables DEF LaunchReleasing, worldVars

LEMMA LaunchIdleFollows ==
  ASSUME WorldInv, Sound, Queues, UNCHANGED clients, ~ DrewHeld, NEW in, Takes(in),
         NEW c \in Clients, NEW r \in Roles, NEW rsp \in LaunchRsps, LaunchIdle(in, rsp, c, r)
  PROVE  Follows
<1> DEFINE o == role_id_to_role[r]
           old == objs[o]
           answered == last_session_id + 1
           s == last_session_id + 2
           new == [old EXCEPT !.state = "using", !.session = s, !.gate = c,
                              !.token = TokenOf[c]]
           change == ChangeClient(RoleOf(r).game, r, c, NoCb)
<1>1. /\ Lives(r) /\ RoleOf(r).state = "idle" /\ s \in Ids /\ last_session_id' = s
      /\ objs' = [objs EXCEPT ![o].state = "using", ![o].session = s,
                              ![o].gate = c, ![o].token = TokenOf[c]]
      /\ session_id_to_role' = [Unmap(session_id_to_role, {RoleOf(r).session}) EXCEPT ![s] = o]
      /\ Deliver(in, World, <<Reply(rsp, "ok", answered), change>>)
      /\ UNCHANGED <<role_id_to_role, last_opera_id, wcalls, aborted>>
  BY DEF LaunchIdle
<1>2. old \in RoleObj /\ old.role = r /\ RoleOf(r) = old
  BY <1>1, LivingRole
<1>3. /\ new \in RoleObj /\ new.role = r /\ new.session = s /\ new.state = "using"
      /\ objs' = [objs EXCEPT ![o] = new]
  BY <1>1, <1>2, IdFacts DEF RoleObj, RoleStates, Tokens
<1>4. /\ last_session_id < s /\ s <= last_session_id' /\ CountersGrow
      /\ last_session_id < answered /\ answered <= last_session_id' /\ answered # s
  BY <1>1, NatCounters DEF CountersGrow
<1>5. answered \in Ids
  BY <1>1, <1>4, NatCounters, ConstantsAssumption DEF Ids
<1>6. ~ Held(s) /\ ~ Held(answered)
  BY <1>1, <1>4, <1>5, FreshDrawn
<1>7. \A i \in Ids : \/ session_id_to_role'[i] \in {0, session_id_to_role[i]}
                     \/ i = s /\ session_id_to_role'[i] = o
  BY <1>1, UnmapType DEF WorldInv, WTypeOK
<1> HIDE DEF answered, s, new, old, o
<1>8. Silent(change)
  BY SilentMessages
<1> HIDE DEF change
<1>9. PICK X : X = {answered} /\ Gives(X)
  BY <1>1, <1>8, SendsReply
<1>10. CallsFollow(r, new)
  BY <1>1, CallsShrink
<1>11. aborted' \subseteq {162}
  BY <1>1 DEF Sound
<1>12. Alters(r, new)
  BY <1>1, <1>3, <1>4, <1>10, <1>11 DEF Alters, o
<1>13. TakesSession(r, new)
  BY <1>1, <1>3, <1>6, <1>7 DEF TakesSession, o
<1>14. GivesOut(new, X)
  BY <1>3, <1>4, <1>6, <1>9 DEF GivesOut
<1> QED BY <1>1, <1>9, <1>12, <1>13, <1>14, ChangesTable

LEMMA LaunchUsingFollows ==
  ASSUME WorldInv, Sound, Queues, UNCHANGED clients, ~ DrewHeld, NEW in, Takes(in),
         NEW c \in Clients, NEW r \in Roles, NEW rsp \in LaunchRsps, LaunchUsing(in, rsp, c, r)
  PROVE  Follows
<1> DEFINE o == role_id_to_role[r]
           old == objs[o]
           change == ChangeClient(RoleOf(r).game, r, c, NoCb)
<1>1. /\ Lives(r) /\ RoleOf(r).state = "using"
      /\ UNCHANGED <<role_id_to_role, last_opera_id, wcalls, aborted>>
  BY DEF LaunchUsing
<1>2. old \in RoleObj /\ old.role = r /\ RoleOf(r) = old /\ TokenOf[c] \in Tokens
  BY <1>1, LivingRole DEF Tokens
<1>3. Silent(change)
  BY SilentMessages
<1>4. /\ aborted' \subseteq {162} /\ \A new : CallsFollow(r, new)
      /\ last_session_id \in Nat /\ last_opera_id \in Nat
  BY <1>1, CallsShrink, NatCounters DEF Sound
<1>5. CASE /\ objs' = [objs EXCEPT ![o].token = TokenOf[c]]
           /\ session_id_to_role' = [session_id_to_role EXCEPT ![old.session] = o]
           /\ Deliver(in, World, <<Reply(rsp, "refused", 0), change>>)
           /\ UNCHANGED last_session_id
  <2> DEFINE new == [old EXCEPT !.token = TokenOf[c]]
  <2>1. /\ new \in RoleObj /\ new.role = r /\ new.session = old.session /\ new.state = "using"
        /\ objs' = [objs EXCEPT ![o] = new]
    BY <1>1, <1>2, <1>5 DEF RoleObj
  <2>2. \A i \in Ids : \/ session_id_to_role'[i] \in {0, session_id_to_role[i]}
                       \/ i = old.session /\ session_id_to_role'[i] = o
    BY <1>5 DEF WorldInv, WTypeOK
  <2> HIDE DEF new, old, o, change
  <2>3. PICK X : X = {0} /\ Gives(X)
    BY <1>3, <1>5, SendsReply
  <2>4. CountersGrow
    BY <1>1, <1>4, <1>5 DEF CountersGrow
  <2>5. Alters(r, new)
    BY <1>1, <1>4, <1>5, <2>1, <2>4 DEF Alters, o
  <2>6. TakesSession(r, new)
    BY <1>2, <2>1, <2>2 DEF TakesSession, o
  <2>7. GivesOut(new, X)
    BY <2>3, IdFacts DEF GivesOut
  <2> QED BY <1>1, <2>3, <2>5, <2>6, <2>7, ChangesTable
<1>6. ASSUME NEW s, s = last_session_id + 1, s \in Ids, last_session_id' = s,
             objs' = [objs EXCEPT ![o].session = s, ![o].gate = c, ![o].token = TokenOf[c]],
             session_id_to_role' = [Unmap(session_id_to_role, {old.session}) EXCEPT ![s] = o],
             Deliver(in, World, KickOf(r) \o <<Reply(rsp, "ok", s), change>>)
      PROVE  Follows
  <2> DEFINE new == [old EXCEPT !.session = s, !.gate = c, !.token = TokenOf[c]]
  <2>1. /\ new \in RoleObj /\ new.role = r /\ new.session = s /\ new.state = "using"
        /\ objs' = [objs EXCEPT ![o] = new]
    BY <1>1, <1>2, <1>6, IdFacts DEF RoleObj
  <2>2. last_session_id < s /\ s <= last_session_id' /\ CountersGrow
    BY <1>1, <1>4, <1>6 DEF CountersGrow
  <2>3. ~ Held(s)
    BY <1>6, <2>2, FreshDrawn
  <2>4. \A i \in Ids : \/ session_id_to_role'[i] \in {0, session_id_to_role[i]}
                       \/ i = s /\ session_id_to_role'[i] = o
    BY <1>6, UnmapType DEF WorldInv, WTypeOK
  <2>5. old.session # 0 /\ s # old.session => session_id_to_role'[old.session] = 0
    BY <1>2, <1>6, IdFacts DEF WorldInv, WTypeOK, Unmap, RoleObj
  <2> HIDE DEF new, old, o, change
  <2>6. PICK X : X = {s} /\ Gives(X)
    BY <1>3, <1>6, SendsReply
  <2>7. Alters(r, new)
    BY <1>1, <1>4, <2>1, <2>2 DEF Alters, o
  <2>8. TakesSession(r, new)
    BY <1>2, <2>1, <2>3, <2>4, <2>5 DEF TakesSession, o
  <2>9. GivesOut(new, X)
    BY <2>1, <2>6 DEF GivesOut
  <2> QED BY <1>1, <2>6, <2>7, <2>8, <2>9, ChangesTable
<1> QED BY <1>2, <1>5, <1>6 DEF LaunchUsing

LEMMA LaunchLaunchingFollows ==
  ASSUME WorldInv, Sound, Queues, UNCHANGED clients, ~ DrewHeld, NEW in, Takes(in),
         NEW c \in Clients, NEW r \in Roles, NEW rsp \in LaunchRsps, LaunchLaunching(in, rsp, c, r)
  PROVE  Follows
<1> DEFINE o == role_id_to_role[r]
           old == objs[o]
<1>1. /\ Lives(r) /\ RoleOf(r).state = "launch"
      /\ UNCHANGED <<role_id_to_role, last_opera_id, wcalls>>
  BY DEF LaunchLaunching
<1>2. /\ old \in RoleObj /\ old.role = r /\ RoleOf(r) = old /\ TokenOf[c] \in Tokens
      /\ o \in Tables /\ Alive(o)
  BY <1>1, LivingRole DEF Tokens
<1>3. old.session # 0 /\ old.gate # None /\ old.cached # None
  BY <1>1, <1>2 DEF Sound, TablesSound
<1>4. /\ aborted \subseteq {162} /\ \A new : new.state = "launch" => CallsFollow(r, new)
      /\ last_session_id \in Nat /\ last_opera_id \in Nat
  BY <1>1, CallsShrink, NatCounters DEF Sound
<1>5. \A e : Silent(Reply(e, "refused", 0))
  BY SilentMessages DEF Reply
<1>6. CASE /\ objs' = [objs EXCEPT ![o].token = TokenOf[c]]
           /\ session_id_to_role' = [session_id_to_role EXCEPT ![old.session] = o]
           /\ Deliver(in, World, <<Reply(rsp, "refused", 0)>>)
           /\ UNCHANGED <<last_session_id, aborted>>
  <2> DEFINE new == [old EXCEPT !.token = TokenOf[c]]
  <2>1. /\ new \in RoleObj /\ new.role = r /\ new.session = old.session /\ new.state = "launch"
        /\ new.gate = old.gate /\ new.cached = old.cached
        /\ objs' = [objs EXCEPT ![o] = new]
    BY <1>1, <1>2, <1>6 DEF RoleObj
  <2>2. \A i \in Ids : \/ session_id_to_role'[i] \in {0, session_id_to_role[i]}
                       \/ i = old.session /\ session_id_to_role'[i] = o
    BY <1>6 DEF WorldInv, WTypeOK
  <2> HIDE DEF new, old, o
  <2>3. PICK X : X = {} /\ Gives(X)
    BY <1>5, <1>6, SendsSilent
  <2>4. CountersGrow
    BY <1>1, <1>4, <1>6 DEF CountersGrow
  <2>5. Alters(r, new)
    BY <1>1, <1>3, <1>4, <1>6, <2>1, <2>4 DEF Alters, o
  <2>6. TakesSession(r, new)
    BY <1>1, <1>2, <2>1, <2>2 DEF TakesSession, o
  <2>7. GivesOut(new, X)
    BY <2>3 DEF GivesOut
  <2> QED BY <1>1, <2>3, <2>5, <2>6, <2>7, ChangesTable
<1>7. ASSUME NEW s, s = last_session_id + 1, s \in Ids, last_session_id' = s,
             objs' = [objs EXCEPT ![o].cached = rsp, ![o].session = s],
             aborted' = aborted \cup {162},
             Deliver(in, World, <<Reply(old.cached, "refused", 0)>>),
             UNCHANGED session_id_to_role
      PROVE  Follows
  <2> DEFINE new == [old EXCEPT !.cached = rsp, !.session = s]
  <2>1. /\ new \in RoleObj /\ new.role = r /\ new.session = s /\ new.state = "launch"
        /\ new.gate = old.gate /\ new.cached = rsp
        /\ objs' = [objs EXCEPT ![o] = new]
    BY <1>1, <1>2, <1>7, IdFacts DEF RoleObj
  <2>2. last_session_id < s /\ s <= last_session_id' /\ CountersGrow
    BY <1>1, <1>4, <1>7 DEF CountersGrow
  <2>3. ~ Held(s)
    BY <1>7, <2>2, FreshDrawn
  <2>4. rsp # None /\ s # 0
    BY <1>7, NilAssumption, IdFacts
  <2> HIDE DEF new, old, o
  <2>5. PICK X : X = {} /\ Gives(X)
    BY <1>5, <1>7, SendsSilent
  <2>6. Alters(r, new)
    BY <1>1, <1>3, <1>4, <1>7, <2>1, <2>2, <2>4 DEF Alters, o
  <2>7. TakesSession(r, new)
    BY <1>1, <1>2, <1>7, <2>1, <2>3 DEF TakesSession, o
  <2>8. GivesOut(new, X)
    BY <2>5 DEF GivesOut
  <2> QED BY <1>1, <2>5, <2>6, <2>7, <2>8, ChangesTable
<1> QED BY <1>2, <1>3, <1>6, <1>7 DEF LaunchLaunching

LEMMA LaunchRoleFollows ==
  ASSUME WorldInv, Sound, Queues, UNCHANGED clients, ~ DrewHeld, NEW in, Takes(in),
         NEW c \in Clients, NEW r \in Roles, NEW rsp \in LaunchRsps, LaunchRole(in, rsp, c, r)
  PROVE  Follows
BY LaunchAbsentFollows, LaunchReleasingFollows, LaunchIdleFollows, LaunchUsingFollows,
   LaunchLaunchingFollows
DEF LaunchRole

\* A launch that fails: fail_action has an answer to give and a session to
\* forget, and the role is gone.
LEMMA FailActionFollows ==
  ASSUME WorldInv, Sound, Queues, UNCHANGED clients, NEW in, Takes(in), NEW err,
         NEW r \in Roles, Lives(r), RoleOf(r).state = "launch",
         wcalls' \subseteq wcalls, ChangeCb(role_id_to_role[r]) \notin wcalls',
         \A s \in Ids : LaunchCb(s, r) \notin wcalls',
         UNCHANGED <<last_session_id, last_opera_id>>,
         FailAction(role_id_to_role[r], in, err)
  PROVE  Follows
<1> DEFINE o == role_id_to_role[r]
           old == objs[o]
           new == [old EXCEPT !.cached = None]
<1>1. old \in RoleObj /\ old.role = r /\ RoleOf(r) = old /\ o \in Tables /\ Alive(o)
  BY LivingRole
<1>2. old.session # 0 /\ old.gate # None /\ old.cached # None
  BY <1>1 DEF Sound, TablesSound
<1>3. /\ objs' = [objs EXCEPT ![o].cached = None]
      /\ Deliver(in, World, <<Reply(old.cached, err, 0)>>)
      /\ session_id_to_role' = Unmap(session_id_to_role, {old.session})
      /\ role_id_to_role' = Unmap(role_id_to_role, {r})
      /\ UNCHANGED aborted
  BY <1>1, <1>2 DEF FailAction
<1>4. /\ new \in RoleObj /\ new.role = r /\ new.state = "launch"
      /\ objs' = [objs EXCEPT ![o] = new]
  BY <1>1, <1>3 DEF RoleObj
<1>5. role_id_to_role' = [role_id_to_role EXCEPT ![r] = 0]
  BY <1>3 DEF Unmap, WorldInv, WTypeOK
<1>6. \A i \in Ids : session_id_to_role'[i] \in {0, session_id_to_role[i]}
  BY <1>3, UnmapType DEF WorldInv, WTypeOK
<1>7. Silent(Reply(old.cached, err, 0))
  BY SilentMessages DEF Reply
<1> HIDE DEF new, old, o
<1>8. PICK X : X = {} /\ Gives(X)
  BY <1>3, <1>7, SendsSilent
<1>9. \A i \in Ids : GivenOut(i)' => GivenOut(i)
  <2>1. \A cb \in wcalls' \ wcalls : cb[1] = "_reconnect_role_game_change_client_cb" => cb[3] \in X
    OBVIOUS
  <2> QED BY <1>8, <2>1, GivenFollows
<1>10. \A i \in Ids : ReleaseCb(r, i) \notin wcalls'
  BY NoCalls
<1>11. CountersGrow /\ aborted' \subseteq {162}
  BY <1>3, NatCounters DEF CountersGrow, Sound
<1>12. Removed(r, new)
  BY <1>1, <1>4, <1>5, <1>6, <1>9, <1>10, <1>11 DEF Removed, o, old
<1> QED BY <1>4, <1>8, <1>12 DEF Follows, Gives

LEMMA RpcRspLaunchRoleFollows ==
  ASSUME WorldInv, Sound, Queues, UNCHANGED clients, NEW in, Takes(in),
         NEW s \in Ids, NEW r \in Roles, NEW err, RpcRspLaunchRole(in, s, r, err)
  PROVE  Follows
<1> DEFINE o == role_id_to_role[r]
           old == objs[o]
           calls == wcalls \ {LaunchCb(s, r)}
<1>1. LaunchCb(s, r) \in wcalls /\ UNCHANGED last_session_id
  BY DEF RpcRspLaunchRole
<1>2. o = s /\ Lives(r) /\ old.state = "launch"
  BY <1>1, IdFacts DEF Sound, LaunchSound, Lives
<1>3. /\ old \in RoleObj /\ old.role = r /\ RoleOf(r) = old /\ o \in Tables /\ Alive(o)
      /\ SessionOf(r) = old.session
  BY <1>2, LivingRole
<1>4. old.session # 0 /\ old.gate # None /\ old.cached # None
  BY <1>2, <1>3 DEF Sound, TablesSound
<1>5. ChangeCb(o) \notin wcalls /\ \A t \in Ids : LaunchCb(t, r) \notin calls
  <2>1. ChangeCb(o) \notin wcalls
    BY <1>1, <1>2, <1>3 DEF Sound, ChangeSound
  <2>2. \A t \in Ids : LaunchCb(t, r) \in wcalls => t = s
    BY <1>2 DEF Sound, LaunchSound
  <2> QED BY <2>1, <2>2
<1>6. CASE /\ wcalls' = calls
           /\ Deliver(in, World, <<Reply(old.cached, "refused", 0)>>)
           /\ UNCHANGED <<objs, role_id_to_role, session_id_to_role, last_opera_id, aborted>>
  <2>1. Silent(Reply(old.cached, "refused", 0))
    BY SilentMessages DEF Reply
  <2>2. Gives({})
    BY <1>6, <2>1, SendsSilent
  <2>3. \A i \in Ids : i \in {} => GivenOut(i)
    OBVIOUS
  <2>4. wcalls' \subseteq wcalls
    BY <1>6
  <2> HIDE DEF calls
  <2> QED BY <1>1, <1>6, <2>2, <2>3, <2>4, KeepsTables
<1>7. CASE /\ wcalls' = calls \cup {ChangeCb(o)}
           /\ Deliver(in, World, <<ChangeClient(old.game, r, old.gate, ChangeCb(o))>>)
           /\ UNCHANGED <<objs, role_id_to_role, session_id_to_role, last_opera_id, aborted>>
  <2>1. Silent(ChangeClient(old.game, r, old.gate, ChangeCb(o)))
    BY SilentMessages
  <2>2. objs' = [objs EXCEPT ![o] = old]
    <3>1. objs = [objs EXCEPT ![o] = objs[o]]
      BY DEF WorldInv, WTypeOK
    <3> QED BY <1>7, <3>1
  <2>3. CallsFollow(r, old)
    <3>1. /\ \A t \in Ids, q \in Roles : LaunchCb(t, q) \in wcalls' => LaunchCb(t, q) \in wcalls
          /\ \A q \in Roles, i \in Ids : ReleaseCb(q, i) \in wcalls' => ReleaseCb(q, i) \in wcalls
          /\ \A cb \in wcalls' : cb[1] = "_reconnect_role_game_change_client_cb" => cb \in wcalls
      BY <1>7 DEF LaunchCb, ReleaseCb, ChangeCb
    <3>2. LaunchCb(o, r) \notin wcalls'
      BY <1>2, <1>7 DEF LaunchCb, ChangeCb
    <3>3. \A p \in Ids : ChangeCb(p) \in wcalls' => p = o \/ ChangeCb(p) \in wcalls
      BY <1>7, ClosuresDiffer
    <3>4. \A i \in Ids : ReleaseCb(r, i) \notin wcalls
      BY <1>2, <1>3, NoCalls
    <3> QED BY <1>2, <1>5, <3>1, <3>2, <3>3, <3>4 DEF CallsFollow
  <2>4. \A cb \in wcalls' \ wcalls : cb[1] # "_reconnect_role_game_change_client_cb"
    BY <1>7 DEF ChangeCb
  <2>5. CountersGrow /\ aborted' \subseteq {162}
    BY <1>1, <1>7, NatCounters DEF CountersGrow, Sound
  <2>6. UNCHANGED <<role_id_to_role, session_id_to_role>>
    BY <1>7
  <2>7. PICK X : X = {} /\ Gives(X)
    BY <1>7, <2>1, SendsSilent
  <2> HIDE DEF calls, old, o
  <2>8. Alters(r, old)
    BY <1>2, <1>3, <1>4, <2>2, <2>3, <2>5, <2>6 DEF Alters, o
  <2>9. TakesSession(r, old)
    BY <1>2, <1>3, <2>6 DEF TakesSession, o
  <2>10. GivesOut(old, X)
    BY <2>7 DEF GivesOut
  <2> QED BY <2>4, <2>7, <2>8, <2>9, <2>10, ChangesTable
<1>8. CASE wcalls' = calls /\ FailAction(o, in, err) /\ UNCHANGED last_opera_id
  <2>1. ChangeCb(o) \notin wcalls' /\ \A t \in Ids : LaunchCb(t, r) \notin wcalls'
    BY <1>5, <1>8
  <2>2. wcalls' \subseteq wcalls
    BY <1>8
  <2> HIDE DEF calls
  <2> QED BY <1>1, <1>2, <1>3, <1>8, <2>1, <2>2, FailActionFollows
<1> QED BY <1>2, <1>3, <1>4, <1>6, <1>7, <1>8 DEF RpcRspLaunchRole

LEMMA LaunchClientChangedFollows ==
  ASSUME WorldInv, Sound, Queues, UNCHANGED clients, NEW in, Takes(in),
         NEW o \in Ids, NEW err, LaunchClientChanged(in, o, err)
  PROVE  Follows
<1> DEFINE old == objs[o]
           r == old.role
<1>1. ChangeCb(o) \in wcalls /\ wcalls' = wcalls \ {ChangeCb(o)}
      /\ UNCHANGED <<last_session_id, last_opera_id>>
  BY DEF LaunchClientChanged
<1>2. Alive(o) /\ o \in Tables /\ old.state = "launch" /\ LaunchCb(o, r) \notin wcalls
  BY <1>1, TablesAre DEF Sound, ChangeSound
<1>3. r \in Roles /\ Lives(r) /\ role_id_to_role[r] = o
  BY <1>2, AliveTable
<1>4. old \in RoleObj /\ RoleOf(r) = old
  BY <1>3, LivingRole
<1>5. old.session # 0 /\ old.gate # None /\ old.cached # None
  BY <1>2 DEF Sound, TablesSound
<1>6. ChangeCb(o) \notin wcalls' /\ \A t \in Ids : LaunchCb(t, r) \notin wcalls'
  <2>1. \A t \in Ids : LaunchCb(t, r) \in wcalls => t = o
    BY <1>3 DEF Sound, LaunchSound
  <2> QED BY <1>1, <1>2, <2>1
<1>7. wcalls' \subseteq wcalls
  BY <1>1
<1>8. CASE /\ objs' = [objs EXCEPT ![o].state = "using", ![o].cached = None]
           /\ Deliver(in, World, <<Reply(old.cached, "ok", old.session)>>)
           /\ UNCHANGED <<role_id_to_role, session_id_to_role, aborted>>
  <2> DEFINE new == [old EXCEPT !.state = "using", !.cached = None]
             s == old.session
             rsp == old.cached
  <2>1. /\ new \in RoleObj /\ new.role = r /\ new.session = s /\ new.state = "using"
        /\ objs' = [objs EXCEPT ![o] = new]
    BY <1>4, <1>8 DEF RoleObj, RoleStates
  <2>2. CountersGrow /\ aborted' \subseteq {162}
    BY <1>1, <1>8, NatCounters DEF CountersGrow, Sound
  <2>3. UNCHANGED <<role_id_to_role, session_id_to_role>>
    BY <1>8
  <2>4. PICK X : X = {s} /\ Gives(X)
    <3>1. Silent(Kick(0))
      BY SilentMessages
    <3> HIDE DEF s, rsp
    <3> QED BY <1>8, <3>1, SendsReply DEF s, rsp
  <2>5. s = RoleOf(r).session
    BY <1>4
  <2> HIDE DEF new, old, r, s
  <2>6. CallsFollow(r, new)
    BY <1>2, <1>3, <1>4, <1>6, <1>7, CallsShrink
  <2>7. Alters(r, new)
    BY <1>3, <2>1, <2>2, <2>3, <2>6 DEF Alters
  <2>8. TakesSession(r, new)
    BY <1>2, <1>4, <2>1, <2>3, <2>5 DEF TakesSession
  <2>9. GivesOut(new, X)
    BY <2>1, <2>4 DEF GivesOut
  <2> QED BY <1>3, <1>7, <2>4, <2>7, <2>8, <2>9, ChangesTable
<1>9. ASSUME NEW e, FailAction(o, in, e) PROVE Follows
  <2> HIDE DEF old, r
  <2> QED BY <1>1, <1>2, <1>3, <1>4, <1>6, <1>7, <1>9, FailActionFollows
<1> QED BY <1>5, <1>8, <1>9 DEF LaunchClientChanged

\* Where a session that has been given out leads.
LEMMA GivenTable ==
  ASSUME WorldInv, Sound, NEW s \in Ids, GivenOut(s), session_id_to_role[s] # 0
  PROVE  LET o == session_id_to_role[s]
             r == objs[o].role
         IN /\ o \in Tables /\ objs[o].session = s /\ objs[o].state = "using"
            /\ r \in Roles /\ Lives(r) /\ role_id_to_role[r] = o /\ RoleOf(r) = objs[o]
<1> DEFINE o == session_id_to_role[s]
<1>1. o \in Tables /\ objs[o].session = s /\ objs[o].state = "using" /\ s # 0
  BY TablesAre, IdFacts DEF Sound, GivenSound
<1>2. Alive(o)
  BY <1>1 DEF Sound, TablesSound
<1> QED BY <1>1, <1>2, AliveTable DEF RoleOf

LEMMA ClientQuitFollows ==
  ASSUME WorldInv, Sound, Queues, UNCHANGED clients, NEW in, Takes(in),
         NEW s \in IdOrNil, s # 0 => GivenOut(s), ClientQuit(in, s)
  PROVE  Follows
<1> DEFINE o == IF s = 0 THEN 0 ELSE session_id_to_role[s]
           old == objs[o]
           r == old.role
<1>1. UNCHANGED <<last_session_id, last_opera_id, wcalls>>
  BY DEF ClientQuit
<1>2. CASE o = 0
  <2>1. Deliver(in, World, <<>>) /\ UNCHANGED <<objs, role_id_to_role, session_id_to_role, aborted>>
    BY <1>2 DEF ClientQuit
  <2>2. Gives({})
    BY <2>1, SendsNothing
  <2>3. \A i \in Ids : i \in {} => GivenOut(i)
    OBVIOUS
  <2> QED BY <1>1, <2>1, <2>2, <2>3, KeepsTables
<1>3. CASE o # 0
  <2>1. s # 0 /\ s \in Ids /\ o = session_id_to_role[s] /\ GivenOut(s)
    BY <1>3, IdFacts
  <2>2. /\ o \in Tables /\ old.session = s /\ old.state = "using"
        /\ r \in Roles /\ Lives(r) /\ role_id_to_role[r] = o /\ RoleOf(r) = old
    BY <1>3, <2>1, GivenTable
  <2>3. /\ objs' = [objs EXCEPT ![o] = Detached(@, "idle")]
        /\ session_id_to_role' = Unmap(session_id_to_role, {s})
        /\ Deliver(in, World, <<ChangeClient(old.game, r, None, NoCb)>>)
        /\ UNCHANGED <<role_id_to_role, aborted>>
    BY <1>3, <2>1, <2>2 DEF ClientQuit
  <2> DEFINE new == Detached(old, "idle")
  <2>4. /\ new \in RoleObj /\ new.role = r /\ new.session = 0 /\ new.gate = None
        /\ new.state = "idle" /\ objs' = [objs EXCEPT ![o] = new]
    BY <2>2, <2>3, IdFacts DEF Detached, Tables, RoleObj, RoleStates
  <2>5. /\ \A i \in Ids : session_id_to_role'[i] \in {0, session_id_to_role[i]}
        /\ session_id_to_role'[s] = 0
    BY <2>1, <2>3 DEF Unmap, WorldInv, WTypeOK
  <2>6. Silent(ChangeClient(old.game, r, None, NoCb))
    BY SilentMessages
  <2> HIDE DEF new, old, r, o
  <2>7. PICK X : X = {} /\ Gives(X)
    BY <2>3, <2>6, SendsSilent
  <2>8. CountersGrow /\ aborted' \subseteq {162}
    BY <1>1, <2>3, NatCounters DEF CountersGrow, Sound
  <2>9. CallsFollow(r, new)
    BY <1>1, <2>2, CallsShrink
  <2>10. Alters(r, new)
    BY <2>2, <2>3, <2>4, <2>8, <2>9 DEF Alters
  <2>11. TakesSession(r, new)
    BY <2>2, <2>4, <2>5 DEF TakesSession
  <2>12. GivesOut(new, X)
    BY <2>7 DEF GivesOut
  <2> QED BY <1>1, <2>2, <2>7, <2>10, <2>11, <2>12, ChangesTable
<1> QED BY <1>2, <1>3

\* A handler that calls for the release of role r, on the heap as it left it.
LEMMA ReleasesFollow ==
  ASSUME WorldInv, Sound, UNCHANGED clients, NEW X, Gives(X), \A i \in Ids : i \notin X,
         NEW r \in Roles, Lives(r), NEW heap, NEW mid \in RoleObj, NEW calls,
         heap = [objs EXCEPT ![role_id_to_role[r]] = mid],
         mid.role = r, mid.session = 0, mid.gate = None,
         calls \subseteq wcalls,
         \A s \in Ids : LaunchCb(s, r) \notin calls /\ ReleaseCb(r, s) \notin calls,
         ChangeCb(role_id_to_role[r]) \notin calls,
         TryReleaseRole(heap, calls, r),
         UNCHANGED <<role_id_to_role, last_session_id, aborted>>,
         \A i \in Ids : session_id_to_role'[i] \in {0, session_id_to_role[i]},
         RoleOf(r).state = "using" /\ RoleOf(r).session # 0 =>
            session_id_to_role'[RoleOf(r).session] = 0
  PROVE  Follows
<1>1. /\ \E new \in RoleObj :
           /\ objs' = [objs EXCEPT ![role_id_to_role[r]] = new]
           /\ new.role = r /\ new.state = "releasing" /\ new.session = 0 /\ new.gate = None
           /\ CallsFollow(r, new)
      /\ last_opera_id <= last_opera_id'
      /\ \A cb \in wcalls' \ wcalls : cb[1] # "_reconnect_role_game_change_client_cb"
  BY TryReleases
<1>2. PICK new \in RoleObj :
           /\ objs' = [objs EXCEPT ![role_id_to_role[r]] = new]
           /\ new.role = r /\ new.state = "releasing" /\ new.session = 0 /\ new.gate = None
           /\ CallsFollow(r, new)
  BY <1>1
<1>3. CountersGrow /\ aborted' \subseteq {162}
  BY <1>1, NatCounters DEF CountersGrow, Sound
<1>4. Alters(r, new)
  BY <1>2, <1>3 DEF Alters
<1>5. TakesSession(r, new)
  BY <1>2 DEF TakesSession
<1>6. GivesOut(new, X)
  BY DEF GivesOut
<1> QED BY <1>1, <1>4, <1>5, <1>6, ChangesTable

LEMMA LogoutRoleFollows ==
  ASSUME WorldInv, Sound, Queues, UNCHANGED clients, NEW in, Takes(in), NEW rsp,
         NEW s \in IdOrNil, s # 0 => GivenOut(s), NEW r \in Roles, LogoutRole(in, rsp, s, r)
  PROVE  Follows
<1> DEFINE o == IF s = 0 THEN 0 ELSE session_id_to_role[s]
           old == objs[o]
<1>1. UNCHANGED <<role_id_to_role, last_session_id>>
  BY DEF LogoutRole
<1>2. \A e : Silent(Reply(rsp, e, 0))
  BY SilentMessages DEF Reply
<1>3. CASE /\ \E e : Deliver(in, World, <<Reply(rsp, e, 0)>>)
           /\ UNCHANGED <<objs, session_id_to_role, last_opera_id, wcalls, aborted>>
  <2>1. PICK e : Deliver(in, World, <<Reply(rsp, e, 0)>>)
    BY <1>3
  <2>2. PICK m : m = Reply(rsp, e, 0) /\ Silent(m)
    BY <1>2
  <2>3. Gives({})
    BY <2>1, <2>2, SendsSilent
  <2>4. \A i \in Ids : i \in {} => GivenOut(i)
    OBVIOUS
  <2> QED BY <1>1, <1>3, <2>3, <2>4, KeepsTables
<1>4. CASE o # 0 /\ old.role = r
  <2>1. s # 0 /\ s \in Ids /\ o = session_id_to_role[s] /\ GivenOut(s)
    BY <1>4, IdFacts
  <2>2. /\ o \in Tables /\ old.session = s /\ old.state = "using"
        /\ Lives(r) /\ role_id_to_role[r] = o /\ RoleOf(r) = old
    BY <1>4, <2>1, GivenTable
  <2> DEFINE mid == Detached(old, old.state)
             heap == [objs EXCEPT ![o] = mid]
  <2>3. heap = [objs EXCEPT ![o] = Detached(@, @.state)]
    OBVIOUS
  <2>4. /\ session_id_to_role' = Unmap(session_id_to_role, {s})
        /\ TryReleaseRole(heap, wcalls, r)
        /\ Deliver(in, World, <<ReleaseCall(r), Reply(rsp, "ok", 0)>>)
        /\ UNCHANGED aborted
    BY <1>4, <2>1, <2>2, <2>3 DEF LogoutRole
  <2>5. /\ mid \in RoleObj /\ mid.role = r /\ mid.session = 0 /\ mid.gate = None
    BY <1>4, <2>2, IdFacts DEF Detached, Tables, RoleObj, RoleStates
  <2>6. /\ \A i \in Ids : session_id_to_role'[i] \in {0, session_id_to_role[i]}
        /\ session_id_to_role'[s] = 0
    BY <2>1, <2>4 DEF Unmap, WorldInv, WTypeOK
  <2>7. /\ \A i \in Ids : LaunchCb(i, r) \notin wcalls /\ ReleaseCb(r, i) \notin wcalls
        /\ ChangeCb(role_id_to_role[r]) \notin wcalls
    BY <2>2, NoCalls
  <2>8. Silent(ReleaseCall(r))
    BY SilentMessages
  <2>9. PICK m : m = ReleaseCall(r) /\ Silent(m)
    BY <2>8
  <2>10. PICK X : X = {0} /\ Gives(X)
    BY <2>4, <2>9, SendsReply
  <2>11. \A i \in Ids : i \notin X
    BY <2>10, IdFacts
  <2>12. heap = [objs EXCEPT ![role_id_to_role[r]] = mid]
    BY <2>2
  <2> HIDE DEF mid, heap, old, o
  <2> QED BY <1>1, <2>2, <2>4, <2>5, <2>6, <2>7, <2>10, <2>11, <2>12, ReleasesFollow
<1>5. CASE o # 0 /\ old.role # r
  BY <1>3, <1>5 DEF LogoutRole
<1>6. CASE o = 0
  BY <1>3, <1>6 DEF LogoutRole
<1> QED BY <1>4, <1>5, <1>6

LEMMA OnFrameFollows ==
  ASSUME WorldInv, Sound, Queues, UNCHANGED clients, NEW r \in Roles, OnFrame(r)
  PROVE  Follows
<1>1. /\ Lives(r) /\ RoleOf(r).state = "idle" /\ TryReleaseRole(objs, wcalls, r)
      /\ Deliver(NoLink, World, <<ReleaseCall(r)>>)
      /\ UNCHANGED <<role_id_to_role, session_id_to_role, last_session_id, aborted>>
  BY DEF OnFrame
<1>2. /\ RoleOf(r) \in RoleObj /\ RoleOf(r).role = r /\ RoleOf(r) = objs[role_id_to_role[r]]
      /\ role_id_to_role[r] \in Ids
  BY <1>1, LivingRole DEF Tables
<1>3. RoleOf(r).session = 0 /\ RoleOf(r).gate = None
  BY <1>1, <1>2 DEF WorldInv, IdleTables, TableOK
<1>4. objs = [objs EXCEPT ![role_id_to_role[r]] = RoleOf(r)]
  BY <1>2 DEF WorldInv, WTypeOK
<1>5. /\ \A i \in Ids : LaunchCb(i, r) \notin wcalls /\ ReleaseCb(r, i) \notin wcalls
      /\ ChangeCb(role_id_to_role[r]) \notin wcalls
  BY <1>1, NoCalls
<1>6. Silent(ReleaseCall(r))
  BY SilentMessages
<1>7. PICK X : X = {} /\ Gives(X)
  BY <1>1, <1>6, NoLinkIsNone, SendsSilent
<1>8. \A i \in Ids : i \notin X
  BY <1>7
<1> QED BY <1>1, <1>2, <1>3, <1>4, <1>5, <1>7, <1>8, ReleasesFollow

LEMMA RpcRspTryReleaseRoleFollows ==
  ASSUME WorldInv, Sound, Queues, UNCHANGED clients, NEW in, Takes(in),
         NEW r \in Roles, NEW opera \in Ids, NEW err, RpcRspTryReleaseRole(in, r, opera, err)
  PROVE  Follows
<1> DEFINE o == role_id_to_role[r]
           old == objs[o]
           calls == wcalls \ {ReleaseCb(r, opera)}
<1>1. ReleaseCb(r, opera) \in wcalls /\ UNCHANGED last_session_id
  BY DEF RpcRspTryReleaseRole
<1>2. /\ Lives(r) /\ RoleOf(r).state = "releasing"
      /\ \A j \in Ids : ReleaseCb(r, j) \in wcalls => opera = j
  BY <1>1 DEF Sound, ReleaseSound
<1>3. /\ old \in RoleObj /\ old.role = r /\ RoleOf(r) = old /\ o \in Tables /\ o \in Ids
  BY <1>2, LivingRole DEF Tables
<1>4. old.session = 0 /\ old.gate = None
  BY <1>2, <1>3 DEF Sound, TablesSound
<1>5. /\ \A i \in Ids : LaunchCb(i, r) \notin calls /\ ReleaseCb(r, i) \notin calls
      /\ ChangeCb(o) \notin calls /\ calls \subseteq wcalls
  BY <1>2, NoCalls
<1>6. CASE /\ wcalls' = calls
           /\ Deliver(in, World, <<>>)
           /\ UNCHANGED <<objs, role_id_to_role, session_id_to_role, last_opera_id, aborted>>
  <2>1. Gives({})
    BY <1>6, SendsNothing
  <2>2. \A i \in Ids : i \in {} => GivenOut(i)
    OBVIOUS
  <2>3. wcalls' \subseteq wcalls
    BY <1>6
  <2> HIDE DEF calls
  <2> QED BY <1>1, <1>6, <2>1, <2>2, <2>3, KeepsTables
<1>7. CASE /\ TryReleaseRole(objs, calls, r)
           /\ Deliver(in, World, <<ReleaseCall(r)>>)
           /\ UNCHANGED <<role_id_to_role, session_id_to_role, aborted>>
  <2>1. objs = [objs EXCEPT ![role_id_to_role[r]] = old]
    BY <1>3 DEF WorldInv, WTypeOK
  <2>2. Silent(ReleaseCall(r))
    BY SilentMessages
  <2>3. PICK X : X = {} /\ Gives(X)
    BY <1>7, <2>2, SendsSilent
  <2>4. \A i \in Ids : i \notin X
    BY <2>3
  <2>5. ~ (RoleOf(r).state = "using")
    BY <1>2
  <2>6. ChangeCb(role_id_to_role[r]) \notin calls
    BY <1>5
  <2>7. \A i \in Ids : session_id_to_role'[i] \in {0, session_id_to_role[i]}
    BY <1>7
  <2> HIDE DEF calls, old, o
  <2> QED BY <1>1, <1>2, <1>3, <1>4, <1>5, <1>7, <2>1, <2>3, <2>4, <2>5, <2>6, <2>7, ReleasesFollow
<1>8. CASE /\ objs' = [objs EXCEPT ![o].state = "released"]
           /\ session_id_to_role' = Unmap(session_id_to_role, {old.session})
           /\ role_id_to_role' = Unmap(role_id_to_role, {r})
           /\ wcalls' = calls
           /\ Deliver(in, World, <<>>)
           /\ UNCHANGED <<last_opera_id, aborted>>
  <2> DEFINE new == [old EXCEPT !.state = "released"]
  <2>1. /\ new \in RoleObj /\ new.role = r /\ new.state = "released"
        /\ new.session = 0 /\ new.gate = None /\ objs' = [objs EXCEPT ![o] = new]
    BY <1>3, <1>4, <1>8 DEF RoleObj, RoleStates
  <2>2. role_id_to_role' = [role_id_to_role EXCEPT ![r] = 0]
    BY <1>8 DEF Unmap, WorldInv, WTypeOK
  <2>3. \A i \in Ids : session_id_to_role'[i] \in {0, session_id_to_role[i]}
    BY <1>8, UnmapType DEF WorldInv, WTypeOK
  <2>4. wcalls' \subseteq wcalls
    BY <1>5, <1>8
  <2>5. PICK X : X = {} /\ Gives(X)
    BY <1>8, SendsNothing
  <2>6. \A i \in Ids : GivenOut(i)' => GivenOut(i)
    <3>1. \A cb \in wcalls' \ wcalls : cb[1] = "_reconnect_role_game_change_client_cb" => cb[3] \in X
      BY <2>4
    <3> QED BY <2>5, <3>1, GivenFollows
  <2>7. CountersGrow /\ aborted' \subseteq {162}
    BY <1>1, <1>8, NatCounters DEF CountersGrow, Sound
  <2>8. /\ \A i \in Ids : LaunchCb(i, r) \notin wcalls' /\ ReleaseCb(r, i) \notin wcalls'
        /\ ChangeCb(o) \notin wcalls'
    BY <1>5, <1>8
  <2>9. old.state = "releasing"
    BY <1>2, <1>3
  <2> HIDE DEF new, old, o, calls
  <2>10. Removed(r, new)
    BY <1>2, <2>1, <2>2, <2>3, <2>4, <2>6, <2>7, <2>8, <2>9 DEF Removed, o, old
  <2> QED BY <2>1, <2>5, <2>10 DEF Follows, Gives
<1> QED BY <1>2, <1>3, <1>6, <1>7, <1>8 DEF RpcRspTryReleaseRole

LEMMA ReconnectRoleFollows ==
  ASSUME WorldInv, Sound, Queues, UNCHANGED clients, ~ DrewHeld, NEW in, Takes(in),
         NEW c \in Clients, NEW r \in Roles, NEW rsp, ReconnectRole(in, rsp, c, r)
  PROVE  Follows
<1> DEFINE o == role_id_to_role[r]
           old == objs[o]
           s == last_opera_id + 1
           cb == ReconnectCb(rsp, s, o)
           change == ChangeClient(RoleOf(r).game, r, c, cb)
<1>1. UNCHANGED <<role_id_to_role, last_session_id, aborted>>
  BY DEF ReconnectRole
<1>2. CASE /\ Deliver(in, World, <<>>)
           /\ UNCHANGED <<objs, session_id_to_role, last_opera_id, wcalls>>
  <2>1. Gives({})
    BY <1>2, SendsNothing
  <2>2. \A i \in Ids : i \in {} => GivenOut(i)
    OBVIOUS
  <2> QED BY <1>1, <1>2, <2>1, <2>2, KeepsTables
<1>3. CASE /\ Lives(r) /\ RoleOf(r).state = "idle" /\ s \in Ids /\ last_opera_id' = s
           /\ objs' = [objs EXCEPT ![o].state = "using", ![o].session = s, ![o].gate = c]
           /\ session_id_to_role' = [session_id_to_role EXCEPT ![s] = o]
           /\ wcalls' = wcalls \cup {cb}
           /\ Deliver(in, World, <<change>>)
  <2> DEFINE new == [old EXCEPT !.state = "using", !.session = s, !.gate = c]
  <2>1. old \in RoleObj /\ old.role = r /\ RoleOf(r) = old
    BY <1>3, LivingRole
  <2>2. /\ new \in RoleObj /\ new.role = r /\ new.session = s /\ new.state = "using"
        /\ objs' = [objs EXCEPT ![o] = new]
    BY <1>3, <2>1, IdFacts DEF RoleObj, RoleStates
  <2>3. cb[1] = "_reconnect_role_game_change_client_cb" /\ cb[3] = s /\ cb[4] = o
    BY ClosuresDiffer
  <2>4. /\ last_opera_id < s /\ s <= last_opera_id' /\ CountersGrow
        /\ aborted' \subseteq {162}
    BY <1>1, <1>3, NatCounters DEF CountersGrow, Sound
  <2>5. cb \notin wcalls
    <3>1. cb \in wcalls => s <= last_opera_id
      BY <2>3 DEF Sound, ReconnectSound
    <3> QED BY <2>4, <3>1, NatCounters
  <2>6. ~ Held(s)
    <3> HIDE DEF s, cb
    <3> QED BY <1>3, <2>3, <2>5, FreshReconnect
  <2>7. \A i \in Ids : \/ session_id_to_role'[i] \in {0, session_id_to_role[i]}
                       \/ i = s /\ session_id_to_role'[i] = o
    BY <1>3 DEF WorldInv, WTypeOK
  <2>8. Silent(change)
    BY SilentMessages
  <2>9. CallsFollow(r, new)
    <3>1. /\ \A t \in Ids, q \in Roles : LaunchCb(t, q) # cb
          /\ \A p \in Ids : ChangeCb(p) # cb
          /\ \A q \in Roles, i \in Ids : ReleaseCb(q, i) # cb
      BY ClosuresDiffer, <2>3
    <3>2. /\ \A i \in Ids : LaunchCb(i, r) \notin wcalls /\ ReleaseCb(r, i) \notin wcalls
          /\ ChangeCb(o) \notin wcalls
      BY <1>3, NoCalls
    <3> HIDE DEF cb, s, new
    <3> QED BY <1>3, <2>2, <2>3, <2>4, <3>1, <3>2 DEF CallsFollow
  <2> HIDE DEF new, old, o, s, change, cb
  <2>10. PICK X : X = {s} /\ Gives(X)
    <3>1. Gives({})
      BY <1>3, <2>8, SendsSilent
    <3> QED BY <3>1 DEF Gives
  <2>11. Alters(r, new)
    BY <1>1, <1>3, <2>2, <2>4, <2>9 DEF Alters, o
  <2>12. TakesSession(r, new)
    BY <1>3, <2>2, <2>6, <2>7 DEF TakesSession, o
  <2>13. GivesOut(new, X)
    BY <2>2, <2>10 DEF GivesOut
  <2>14. \A x \in wcalls' \ wcalls :
            x[1] = "_reconnect_role_game_change_client_cb" => x[3] \in X
    BY <1>3, <2>3, <2>10
  <2> QED BY <2>10, <2>11, <2>12, <2>13, <2>14, ChangesTable
<1> QED BY <1>2, <1>3 DEF ReconnectRole

LEMMA ReconnectClientChangedFollows ==
  ASSUME WorldInv, Sound, Queues, UNCHANGED clients, NEW in, Takes(in),
         NEW rsp, NEW s \in Ids, NEW o \in Ids, NEW err,
         ReconnectClientChanged(in, rsp, s, o, err)
  PROVE  Follows
<1> DEFINE cb == ReconnectCb(rsp, s, o)
           old == objs[o]
           r == old.role
<1>1. /\ cb \in wcalls /\ wcalls' = wcalls \ {cb}
      /\ UNCHANGED <<role_id_to_role, last_session_id, last_opera_id, aborted>>
  BY DEF ReconnectClientChanged
<1>2. cb[1] = "_reconnect_role_game_change_client_cb" /\ cb[3] = s /\ cb[4] = o
  BY ClosuresDiffer
<1>3. GivenOut(s) /\ o \in Tables /\ old.state # "launch"
  BY <1>1, <1>2, TablesAre DEF GivenOut, Reconnects, Sound, ReconnectSound
<1>4. wcalls' \subseteq wcalls
  BY <1>1
<1> HIDE DEF cb
<1>5. CASE /\ \E e : Deliver(in, World, <<Reply(rsp, e, 0)>>) \/ Deliver(in, World, <<Reply(rsp, e, s)>>)
           /\ UNCHANGED <<objs, session_id_to_role>>
  <2> PICK t \in {0, s} : \E e : Deliver(in, World, <<Reply(rsp, e, t)>>)
    BY <1>5
  <2>1. PICK e : Deliver(in, World, <<Reply(rsp, e, t)>>)
    OBVIOUS
  <2>2. Silent(Kick(0))
    BY SilentMessages
  <2>3. PICK X : X = {t} /\ Gives(X)
    BY <2>1, <2>2, SendsReply
  <2>4. \A i \in Ids : i \in X => GivenOut(i)
    BY <1>3, <2>3, IdFacts
  <2> QED BY <1>1, <1>4, <1>5, <2>3, <2>4, KeepsTables
<1>6. CASE /\ old.session = s
           /\ objs' = [objs EXCEPT ![o] = Detached(@, IF @.state = "using" THEN "idle" ELSE @.state)]
           /\ session_id_to_role' = Unmap(session_id_to_role, {s})
           /\ Deliver(in, World, <<Reply(rsp, "refused", 0)>>)
  <2>1. old.state = "using" /\ Alive(o)
    BY <1>3, <1>6, IdFacts DEF Sound, TablesSound, Tables, RoleObj, RoleStates
  <2>2. r \in Roles /\ Lives(r) /\ role_id_to_role[r] = o /\ RoleOf(r) = old
    BY <1>3, <2>1, AliveTable DEF RoleOf
  <2> DEFINE new == Detached(old, "idle")
  <2>3. /\ new \in RoleObj /\ new.role = r /\ new.session = 0 /\ new.gate = None
        /\ new.state = "idle" /\ objs' = [objs EXCEPT ![o] = new]
    BY <1>3, <1>6, <2>1, IdFacts DEF Detached, Tables, RoleObj, RoleStates
  <2>4. /\ \A i \in Ids : session_id_to_role'[i] \in {0, session_id_to_role[i]}
        /\ session_id_to_role'[s] = 0
    BY <1>6 DEF Unmap, WorldInv, WTypeOK
  <2>5. Silent(Reply(rsp, "refused", 0))
    BY SilentMessages DEF Reply
  <2> HIDE DEF new, r
  <2>6. PICK X : X = {} /\ Gives(X)
    BY <1>6, <2>5, SendsSilent
  <2>7. CountersGrow /\ aborted' \subseteq {162}
    BY <1>1, NatCounters DEF CountersGrow, Sound
  <2>8. CallsFollow(r, new)
    BY <1>1, <1>4, <2>1, <2>2, CallsShrink
  <2> HIDE DEF old
  <2>9. Alters(r, new)
    BY <1>1, <2>2, <2>3, <2>7, <2>8 DEF Alters
  <2>10. TakesSession(r, new)
    BY <1>6, <2>1, <2>2, <2>3, <2>4 DEF TakesSession
  <2>11. GivesOut(new, X)
    BY <2>6 DEF GivesOut
  <2> QED BY <1>4, <2>2, <2>6, <2>9, <2>10, <2>11, ChangesTable
<1> QED BY <1>5, <1>6 DEF ReconnectClientChanged

-----------------------------------------------------------------------------
(* The steps of the system, and the session invariant. *)

LEMMA SendsSilently ==
  ASSUME Queues, NEW in, NEW me, Takes(in), NEW S, \A m \in S : Silent(m),
         NEW outs \in Seq(S), Deliver(in, me, outs)
  PROVE  Gives({})
<1>1. PICK X : X = {}
  OBVIOUS
<1>2. \A x \in S : \A i \in Ids : Names(x, i) => i \in X
  BY DEF Silent
<1>3. Queues' /\ \A i \in Ids : Named(i)' => Named(i) \/ i \in X
  BY <1>2, NamesGrow
<1> QED BY <1>1, <1>3 DEF Gives

\* A step that leaves the world alone gives out what was given out before.
LEMMA OthersFollow ==
  ASSUME WorldInv, Sound, UNCHANGED worldVars, NEW X, Gives(X),
         \A i \in Ids : ClientHas(i)' \/ i \in X => GivenOut(i)
  PROVE  Follows
<1>1. UNCHANGED <<objs, role_id_to_role, session_id_to_role, last_session_id, last_opera_id,
                  wcalls, aborted>>
  BY DEF worldVars
<1>2. CountersGrow
  BY <1>1, NatCounters DEF CountersGrow
<1>3. ASSUME NEW i \in Ids, GivenOut(i)' PROVE GivenOut(i)
  <2>1. Reconnects(i)' = Reconnects(i)
    BY <1>1 DEF Reconnects
  <2>2. Named(i)' => Named(i) \/ i \in X
    BY DEF Gives
  <2> QED BY <1>3, <2>1, <2>2 DEF GivenOut
<1> QED BY <1>1, <1>2, <1>3 DEF Follows, Kept, Gives, Sound

LEMMA SameNet ==
  ASSUME Queues, UNCHANGED net PROVE Gives({})
BY DEF Gives, Queues, Named

\* The session of a message that arrives has been given out.
LEMMA ArrivesNamed ==
  ASSUME Queues, NEW a, NEW b, <<a, b>> \in Links, NEW m, Arrives(a, b, m),
         NEW s, Names(m, s)
  PROVE  GivenOut(s)
<1> DEFINE l == <<a, b>>
<1>1. net[l] # <<>> /\ Head(net[l]) = m
  BY DEF Arrives
<1>2. 1 \in DOMAIN net[l] /\ net[l][1] = m
  BY <1>1, HeadIn
<1> QED BY <1>2 DEF GivenOut, Named

LEMMA ClientKeepsSession ==
  ASSUME GTypeOK, NEW c \in Clients, NEW new, clients' = [clients EXCEPT ![c] = new], NEW s,
         new.session \in {0, clients[c].session, s}
  PROVE  \A i \in Ids : ClientHas(i)' => GivenOut(i) \/ i = s
<1>1. \A d \in Clients : clients'[d] = IF d = c THEN new ELSE clients[d]
  BY DEF GTypeOK
<1>2. \A i \in Ids : ClientHas(i)' => ClientHas(i) \/ i = s
  BY <1>1, IdFacts DEF ClientHas
<1> QED BY <1>2 DEF GivenOut

LEMMA GateClientFollows ==
  ASSUME GTypeOK, WorldInv, Sound, Queues, GateClientStep
  PROVE  Follows
<1>1. UNCHANGED worldVars
  BY DEF GateClientStep
<1>2. PICK c \in Clients :
          \/ OnNewCnn(c) \/ ReqUserLogin(c) \/ UserLoginOver(c)
          \/ \E r \in Roles : ReqLaunchRole(c, r) \/ ReqReconnect(c, r)
          \/ ReconnectAuthed(c) \/ ReqLogoutRole(c)
          \/ OnCloseCnn(c)
  BY DEF GateClientStep
<1> DEFINE old == clients[c]
           s == old.session
           keeps == \E new : clients' = [clients EXCEPT ![c] = new] /\ new.session \in {0, s}
<1>3. keeps
  <2>1. CASE OnNewCnn(c) \/ UserLoginOver(c)
    <3>1. PICK state : clients' = [clients EXCEPT ![c].state = state]
      BY <2>1 DEF OnNewCnn, UserLoginOver, Moves
    <3>2. PICK new : new = [old EXCEPT !.state = state]
      OBVIOUS
    <3>3. new.session = s
      BY <3>2 DEF GTypeOK, Client
    <3> QED BY <3>1, <3>2, <3>3
  <2>2. CASE ReqUserLogin(c)
    <3>1. PICK new : new = [old EXCEPT !.state = "Authing", !.rejoin = None]
      OBVIOUS
    <3>2. new.session = s
      BY <3>1 DEF GTypeOK, Client
    <3> QED BY <2>2, <3>1, <3>2 DEF ReqUserLogin
  <2>3. CASE \E r \in Roles : ReqReconnect(c, r)
    <3>1. PICK r \in Roles : ReqReconnect(c, r)
      BY <2>3
    <3>2. PICK new : new = [old EXCEPT !.state = "Authing", !.rejoin = r]
      OBVIOUS
    <3>3. new.session = s
      BY <3>2 DEF GTypeOK, Client
    <3> QED BY <3>1, <3>2, <3>3 DEF ReqReconnect
  <2>4. CASE ReconnectAuthed(c)
    <3>1. \/ \E state : clients' = [clients EXCEPT ![c].state = state]
          \/ clients' = [clients EXCEPT ![c].state = "Launch_Role", ![c].world = TRUE,
                                        ![c].n = @ + 1]
      BY <2>4 DEF ReconnectAuthed, Moves
    <3>2. CASE \E state : clients' = [clients EXCEPT ![c].state = state]
      <4>1. PICK state : clients' = [clients EXCEPT ![c].state = state]
        BY <3>2
      <4>2. PICK new : new = [old EXCEPT !.state = state]
        OBVIOUS
      <4>3. new.session = s
        BY <4>2 DEF GTypeOK, Client
      <4> QED BY <4>1, <4>2, <4>3
    <3>3. CASE clients' = [clients EXCEPT ![c].state = "Launch_Role", ![c].world = TRUE,
                                          ![c].n = @ + 1]
      <4>1. PICK new : new = [old EXCEPT !.state = "Launch_Role", !.world = TRUE, !.n = @ + 1]
        OBVIOUS
      <4>2. new.session = s
        BY <4>1 DEF GTypeOK, Client
      <4> QED BY <3>3, <4>1, <4>2
    <3> QED BY <3>1, <3>2, <3>3
  <2>5. CASE \E r \in Roles : ReqLaunchRole(c, r)
    <3>1. PICK new : new = [old EXCEPT !.state = "Launch_Role", !.world = TRUE, !.n = @ + 1]
      OBVIOUS
    <3>2. new.session = s
      BY <3>1 DEF GTypeOK, Client
    <3> QED BY <2>5, <3>1, <3>2 DEF ReqLaunchRole
  <2>6. CASE ReqLogoutRole(c)
    <3>1. PICK new : new = [old EXCEPT !.n = @ + 1]
      OBVIOUS
    <3>2. new.session = s
      BY <3>1 DEF GTypeOK, Client
    <3> QED BY <2>6, <3>1, <3>2 DEF ReqLogoutRole
  <2>7. CASE OnCloseCnn(c)
    <3>1. PICK new : new = [old EXCEPT !.state = "gone", !.session = 0, !.role = None,
                                       !.world = FALSE, !.rejoin = None, !.closing = FALSE]
      OBVIOUS
    <3>2. new.session = 0
      BY <3>1 DEF GTypeOK, Client
    <3> QED BY <2>7, <3>1, <3>2 DEF OnCloseCnn
  <2> QED BY <1>2, <2>1, <2>2, <2>3, <2>4, <2>5, <2>6, <2>7
<1>4. \A i \in Ids : ClientHas(i)' => GivenOut(i)
  <2>1. PICK new : clients' = [clients EXCEPT ![c] = new] /\ new.session \in {0, s}
    BY <1>3
  <2> HIDE DEF s, old
  <2>2. \A i \in Ids : ClientHas(i)' => GivenOut(i) \/ i = s
    BY <2>1, ClientKeepsSession DEF s, old
  <2>3. \A i \in Ids : i = s => GivenOut(i)
    BY DEF GivenOut, ClientHas, s, old
  <2> QED BY <2>2, <2>3
<1>5. \/ UNCHANGED net
      \/ \E m : /\ Deliver(NoLink, GateOf[c], <<m>>)
                /\ \A i \in Ids : Names(m, i) => i = s
  <2>1. CASE OnNewCnn(c) \/ ReqUserLogin(c) \/ UserLoginOver(c) \/ \E r \in Roles : ReqReconnect(c, r)
    BY <2>1 DEF OnNewCnn, ReqUserLogin, UserLoginOver, ReqReconnect, Moves
  <2>2. CASE ReconnectAuthed(c) \/ \E r \in Roles : ReqLaunchRole(c, r)
    <3>1. \/ UNCHANGED net
          \/ \E fn \in {"launch_role", "reconnect_role"} : \E r, cb :
                Deliver(NoLink, GateOf[c], <<Call(World, fn, <<r, c>>, cb)>>)
      BY <2>2 DEF ReconnectAuthed, ReqLaunchRole, CallsWorld, Moves
    <3>2. \A fn \in {"launch_role", "reconnect_role"} : \A r, cb, i :
             ~ Names(Call(World, fn, <<r, c>>, cb), i)
      BY DEF Names, Call
    <3> QED BY <3>1, <3>2
  <2>3. CASE ReqLogoutRole(c)
    <3>1. PICK r, cb : Deliver(NoLink, GateOf[c], <<Call(World, "logout_role", <<s, r>>, cb)>>)
      BY <2>3 DEF ReqLogoutRole, CallsWorld
    <3>2. \A i : Names(Call(World, "logout_role", <<s, r>>, cb), i) => i = s
      BY DEF Names, Call
    <3> QED BY <3>1, <3>2
  <2>4. CASE OnCloseCnn(c)
    <3>1. \/ UNCHANGED net
          \/ Deliver(NoLink, GateOf[c], <<Call(World, "client_quit", <<s>>, NoCb)>>)
      BY <2>4 DEF OnCloseCnn
    <3>2. \A i : Names(Call(World, "client_quit", <<s>>, NoCb), i) => i = s
      BY DEF Names, Call
    <3> QED BY <3>1, <3>2
  <2> QED BY <1>2, <2>1, <2>2, <2>3, <2>4
<1>6. \E X : Gives(X) /\ \A i \in Ids : i \in X => i = s
  <2>1. CASE UNCHANGED net
    <3>1. Gives({})
      BY <2>1, SameNet
    <3> QED BY <3>1
  <2>2. ASSUME NEW m, Deliver(NoLink, GateOf[c], <<m>>), \A i \in Ids : Names(m, i) => i = s
        PROVE  \E X : Gives(X) /\ \A i \in Ids : i \in X => i = s
    <3> DEFINE S == {m}
    <3>1. PICK outs : outs \in Seq(S) /\ Deliver(NoLink, GateOf[c], outs)
      <4>1. <<m>> \in Seq(S)
        OBVIOUS
      <4> HIDE DEF S
      <4> QED BY <2>2, <4>1
    <3>2. PICK X : X = {s}
      OBVIOUS
    <3>3. \A x \in S : \A i \in Ids : Names(x, i) => i \in X
      BY <2>2, <3>2
    <3> HIDE DEF S, s, old
    <3>4. Queues' /\ \A i \in Ids : Named(i)' => Named(i) \/ i \in X
      BY <3>1, <3>3, NamesGrow, NoLinkIsNone
    <3> QED BY <3>2, <3>4 DEF Gives
  <2> QED BY <1>5, <2>1, <2>2
<1>7. PICK X : Gives(X) /\ \A i \in Ids : i \in X => i = s
  BY <1>6
<1>8. \A i \in Ids : i \in X => GivenOut(i)
  BY <1>7 DEF GivenOut, ClientHas
<1> QED BY <1>1, <1>4, <1>7, <1>8, OthersFollow

LEMMA GateRunsFollows ==
  ASSUME GTypeOK, WorldInv, Sound, Queues, NEW cb \in gcalls, NEW err, NEW s, NEW in, Takes(in),
         s \in Ids => GivenOut(s), GateRuns(in, cb, err, s)
  PROVE  Follows
<1>1. UNCHANGED worldVars /\ Deliver(in, GateOf[cb[2]], <<>>)
  BY DEF GateRuns
<1>2. Gives({})
  BY <1>1, SendsNothing
<1>3. cb[2] \in Clients
  BY DEF GTypeOK, GateCbs, GateCb
<1> DEFINE c == cb[2]
           r == cb[4]
           old == clients[c]
<1>4. \/ UNCHANGED clients
      \/ clients' = [clients EXCEPT ![c].state = "In_Game", ![c].role = r, ![c].session = s]
      \/ clients' = [clients EXCEPT ![c].state = "Manage_Role"]
      \/ clients' = [clients EXCEPT ![c].state = IF @ = "Launch_Role" THEN "Manage_Role" ELSE @]
      \/ clients' = [clients EXCEPT ![c].state = "Manage_Role", ![c].world = FALSE,
                                    ![c].session = 0]
  BY DEF GateRuns, GateCallback, RspLaunchRole, RspReconnect, RspLogoutRole
<1>5. \E new : clients' = [clients EXCEPT ![c] = new] /\ new.session \in {0, old.session, s}
  <2>0. old \in Client
    BY <1>3 DEF GTypeOK
  <2>1. CASE UNCHANGED clients
    BY <2>1 DEF GTypeOK
  <2>2. CASE clients' = [clients EXCEPT ![c].state = "In_Game", ![c].role = r, ![c].session = s]
    <3>1. PICK new : new = [old EXCEPT !.state = "In_Game", !.role = r, !.session = s]
      OBVIOUS
    <3>2. new.session = s
      BY <2>0, <3>1 DEF Client
    <3> QED BY <2>2, <3>1, <3>2
  <2>3. CASE clients' = [clients EXCEPT ![c].state = "Manage_Role"]
    <3>1. PICK new : new = [old EXCEPT !.state = "Manage_Role"]
      OBVIOUS
    <3>2. new.session = old.session
      BY <2>0, <3>1 DEF Client
    <3> QED BY <2>3, <3>1, <3>2
  <2>4. CASE clients' = [clients EXCEPT ![c].state = IF @ = "Launch_Role" THEN "Manage_Role" ELSE @]
    <3>1. PICK new : new = [old EXCEPT !.state = IF @ = "Launch_Role" THEN "Manage_Role" ELSE @]
      OBVIOUS
    <3>2. new.session = old.session
      BY <2>0, <3>1 DEF Client
    <3> QED BY <2>4, <3>1, <3>2
  <2>5. CASE clients' = [clients EXCEPT ![c].state = "Manage_Role", ![c].world = FALSE,
                                        ![c].session = 0]
    <3>1. PICK new : new = [old EXCEPT !.state = "Manage_Role", !.world = FALSE, !.session = 0]
      OBVIOUS
    <3>2. new.session = 0
      BY <2>0, <3>1 DEF Client
    <3> QED BY <2>5, <3>1, <3>2
  <2> QED BY <1>4, <2>1, <2>2, <2>3, <2>4, <2>5
<1>6. \A i \in Ids : ClientHas(i)' => GivenOut(i)
  <2>1. PICK new : clients' = [clients EXCEPT ![c] = new] /\ new.session \in {0, old.session, s}
    BY <1>5
  <2>2. c \in Clients /\ new.session \in {0, clients[c].session, s}
    BY <1>3, <2>1
  <2> HIDE DEF r, c, old
  <2>3. \A d \in Clients : clients'[d].session \in {0, clients[d].session, s}
    BY <2>1, <2>2 DEF GTypeOK
  <2>4. \A i \in Ids : ClientHas(i)' => ClientHas(i) \/ i = s
    BY <2>3, IdFacts DEF ClientHas
  <2> QED BY <2>4 DEF GivenOut
<1>7. \A i \in Ids : i \in {} => GivenOut(i)
  OBVIOUS
<1> QED BY <1>1, <1>2, <1>6, <1>7, OthersFollow

LEMMA GatesFollow ==
  ASSUME GTypeOK, WorldInv, Sound, Queues, GateAnswered \/ GateIgnores \/ GateKicks \/ GateExpire
  PROVE  Follows
<1>1. CASE GateAnswered
  <2>1. PICK cb \in gcalls, err \in Errors, s \in IdOrNil :
          /\ Arrives(World, GateOf[cb[2]], Answer(GateOf[cb[2]], cb, err, s))
          /\ GateRuns(<<World, GateOf[cb[2]]>>, cb, err, s)
    BY <1>1 DEF GateAnswered
  <2>2. cb[2] \in Clients
    BY DEF GTypeOK, GateCbs, GateCb
  <2>3. <<World, GateOf[cb[2]]>> \in Links
    BY <2>2, ConstantsAssumption DEF Links
  <2>4. Takes(<<World, GateOf[cb[2]]>>)
    BY <2>1 DEF Takes, Arrives
  <2>5. PICK m : m = Answer(GateOf[cb[2]], cb, err, s) /\ Arrives(World, GateOf[cb[2]], m)
    BY <2>1
  <2>6. Names(m, s)
    BY <2>5 DEF Names, Answer
  <2>7. GivenOut(s)
    BY <2>3, <2>5, <2>6, ArrivesNamed
  <2> QED BY <2>1, <2>4, <2>7, GateRunsFollows
<1>2. CASE GateIgnores
  <2>1. PICK gate \in Gates :
          /\ net[<<World, gate>>] # <<>>
          /\ Deliver(<<World, gate>>, gate, <<>>)
    BY <1>2 DEF GateIgnores
  <2>2. Gives({})
    BY <2>1, SendsNothing DEF Takes
  <2>3. UNCHANGED clients /\ UNCHANGED worldVars
    BY <1>2 DEF GateIgnores, gateVars
  <2>4. \A i \in Ids : ClientHas(i)' \/ i \in {} => GivenOut(i)
    BY <2>3 DEF ClientHas, GivenOut
  <2> QED BY <2>2, <2>3, <2>4, OthersFollow
<1>3. CASE GateKicks
  <2>1. PICK c \in Clients : /\ Arrives(World, GateOf[c], Kick(c))
                             /\ OnKickClient(<<World, GateOf[c]>>, c)
    BY <1>3 DEF GateKicks
  <2>2. Gives({})
    BY <2>1, SendsNothing DEF Takes, Arrives, OnKickClient
  <2>3. \A d \in Clients : clients'[d].session = clients[d].session
    BY <2>1 DEF OnKickClient, GTypeOK, Client
  <2>4. \A i \in Ids : ClientHas(i)' \/ i \in {} => GivenOut(i)
    BY <2>3 DEF ClientHas, GivenOut
  <2>5. UNCHANGED worldVars
    BY <1>3 DEF GateKicks
  <2> QED BY <2>2, <2>4, <2>5, OthersFollow
<1>4. CASE GateExpire
  <2>1. PICK cb \in gcalls : GateRuns(NoLink, cb, "expired", 0)
    BY <1>4 DEF GateExpire
  <2>2. ~ (0 \in Ids)
    BY IdFacts
  <2> QED BY <2>1, <2>2, NoLinkIsNone, GateRunsFollows
<1> QED BY <1>1, <1>2, <1>3, <1>4

LEMMA GamesFollow ==
  ASSUME WorldInv, Sound, Queues, GameStep
  PROVE  Follows
<1>1. UNCHANGED worldVars /\ UNCHANGED clients
  BY DEF GameStep, gateVars
<1>2. \A cb, e : Silent(Answer(World, cb, e, 0))
  BY SilentMessages
<1>3. ASSUME NEW g, NEW in, Takes(in),
             \/ Deliver(in, g, <<>>)
             \/ \E cb, e : Deliver(in, g, <<Answer(World, cb, e, 0)>>)
             \/ \E cb, e, f : Deliver(in, g, <<>> \o <<Answer(World, cb, e, 0)>>)
             \/ \E cb, e, f : Deliver(in, g, <<Answer(World, cb, f, 0)>> \o <<Answer(World, cb, e, 0)>>)
      PROVE  Gives({})
  <2>1. PICK cb, e, f :
             \/ Deliver(in, g, <<>>)
             \/ Deliver(in, g, <<Answer(World, cb, e, 0)>>)
             \/ Deliver(in, g, <<>> \o <<Answer(World, cb, e, 0)>>)
             \/ Deliver(in, g, <<Answer(World, cb, f, 0)>> \o <<Answer(World, cb, e, 0)>>)
    BY <1>3
  <2>2. PICK a, b : /\ a = Answer(World, cb, e, 0) /\ b = Answer(World, cb, f, 0)
                    /\ Silent(a) /\ Silent(b)
    BY <1>2
  <2> DEFINE S == {a, b}
  <2>3. PICK outs : outs \in Seq(S) /\ Deliver(in, g, outs)
    <3>1. <<>> \in Seq(S) /\ <<a>> \in Seq(S) /\ <<>> \o <<a>> \in Seq(S) /\ <<b>> \o <<a>> \in Seq(S)
      OBVIOUS
    <3>2. \/ Deliver(in, g, <<>>)
          \/ Deliver(in, g, <<a>>)
          \/ Deliver(in, g, <<>> \o <<a>>)
          \/ Deliver(in, g, <<b>> \o <<a>>)
      BY <2>1, <2>2
    <3> HIDE DEF S
    <3> QED BY <3>1, <3>2
  <2>4. \A m \in S : Silent(m)
    BY <2>2
  <2> HIDE DEF S
  <2> QED BY <1>3, <2>3, <2>4, SendsSilently
<1>4. Gives({})
  <2>1. CASE GameLaunchRole
    <3>1. PICK g \in Games, r \in Roles, s \in Ids :
            /\ net[<<World, g>>] # <<>>
            /\ LuanchRole(<<World, g>>, g, LaunchCb(s, r), r)
      BY <2>1 DEF GameLaunchRole, Arrives
    <3>2. \/ Deliver(<<World, g>>, g, <<>>)
          \/ \E cb, e : Deliver(<<World, g>>, g, <<Answer(World, cb, e, 0)>>)
      BY <3>1 DEF LuanchRole
    <3>3. Takes(<<World, g>>)
      BY <3>1 DEF Takes
    <3> QED BY <1>3, <3>2, <3>3
  <2>2. CASE GameDbRsp
    <3>1. PICK g, cb, r : DbRspLaunchRole(g, cb, r)
      BY <2>2 DEF GameDbRsp
    <3>2. \/ Deliver(NoLink, g, <<>>)
          \/ \E e : Deliver(NoLink, g, <<Answer(World, cb, e, 0)>>)
          \/ \E e : Deliver(NoLink, g, <<>> \o <<Answer(World, cb, e, 0)>>)
          \/ \E e, f : Deliver(NoLink, g, <<Answer(World, cb, f, 0)>> \o <<Answer(World, cb, e, 0)>>)
      <4> DEFINE refusal == IF roles[g][r].state = "load_from_db" THEN <<>>
                            ELSE <<Answer(World, cb, "refused", 0)>>
      <4>1. \/ Deliver(NoLink, g, refusal)
            \/ \E e : Deliver(NoLink, g, refusal \o <<Answer(World, cb, e, 0)>>)
        BY <3>1 DEF DbRspLaunchRole
      <4>2. refusal = <<>> \/ refusal = <<Answer(World, cb, "refused", 0)>>
        OBVIOUS
      <4> HIDE DEF refusal
      <4> QED BY <4>1, <4>2
    <3> QED BY <1>3, <3>2, NoLinkIsNone
  <2>3. CASE GameClientChange
    <3>1. PICK g, cb : /\ net[<<World, g>>] # <<>>
                       /\ Deliver(<<World, g>>, g, <<Answer(World, cb, "ok", 0)>>)
      BY <2>3 DEF GameClientChange, ClientChange
    <3> QED BY <1>3, <3>1 DEF Takes
  <2>4. CASE GameReleaseRole
    <3>1. PICK g, cb : /\ net[<<World, g>>] # <<>>
                       /\ Deliver(<<World, g>>, g, <<Answer(World, cb, "ok", 0)>>)
      BY <2>4 DEF GameReleaseRole, ReleaseRole, Arrives
    <3> QED BY <1>3, <3>1 DEF Takes
  <2> QED BY <2>1, <2>2, <2>3, <2>4 DEF GameStep
<1>5. \A i \in Ids : ClientHas(i)' \/ i \in {} => GivenOut(i)
  BY <1>1 DEF ClientHas, GivenOut
<1> QED BY <1>1, <1>4, <1>5, OthersFollow

LEMMA BreakFollows ==
  ASSUME WorldInv, Sound, Queues, Break
  PROVE  Follows
<1>1. UNCHANGED worldVars /\ UNCHANGED clients
  BY DEF Break, gateVars
<1>2. PICK l \in Links : net' = [net EXCEPT ![l] = <<>>]
  BY DEF Break, Disconnect
<1>3. /\ net'[l] = <<>> /\ \A k \in Links : k # l => net'[k] = net[k]
      /\ net' = [k \in Links |-> net'[k]]
  BY <1>2 DEF Queues
<1>4. Queues'
  <2>1. <<>> \in Seq(ToSet(<<>>))
    OBVIOUS
  <2>2. net'[l] \in Seq(ToSet(net'[l]))
    BY <1>3, <2>1
  <2>3. \A k \in Links : k # l => net'[k] \in Seq(ToSet(net'[k]))
    BY <1>3 DEF Queues
  <2> QED BY <1>3, <2>2, <2>3 DEF Queues
<1>5. DOMAIN net'[l] = {}
  BY <1>3
<1>6. \A i \in Ids : Named(i)' => Named(i)
  BY <1>3, <1>5 DEF Named
<1>7. Gives({})
  BY <1>4, <1>6 DEF Gives
<1>8. \A i \in Ids : ClientHas(i)' \/ i \in {} => GivenOut(i)
  BY <1>1 DEF ClientHas, GivenOut
<1> QED BY <1>1, <1>7, <1>8, OthersFollow

LEMMA WorldCallbackFollows ==
  ASSUME WorldInv, Sound, Queues, UNCHANGED clients, NEW in, Takes(in), NEW cb, NEW err,
         WorldCallback(in, cb, err)
  PROVE  Follows
BY RpcRspLaunchRoleFollows, LaunchClientChangedFollows, RpcRspTryReleaseRoleFollows,
   ReconnectClientChangedFollows
DEF WorldCallback

LEMMA WorldFollows ==
  ASSUME WorldInv, Sound, Queues, ~ DrewHeld, World_Step \/ WorldExpire
  PROVE  Follows
<1>1. UNCHANGED clients
  BY DEF World_Step, WorldExpire, gateVars
<1>2. ASSUME NEW c \in Clients, NEW fn, NEW args, NEW cb, FromGate(c, fn, args, cb)
      PROVE  /\ Takes(<<GateOf[c], World>>)
             /\ \A s : fn = "logout_role" /\ args[1] = s => GivenOut(s)
  <2>1. Takes(<<GateOf[c], World>>)
    BY <1>2 DEF Takes, FromGate, Arrives
  <2>2. <<GateOf[c], World>> \in Links
    BY ConstantsAssumption DEF Links
  <2>3. PICK m : m = Call(World, fn, args, cb) /\ Arrives(GateOf[c], World, m)
    BY <1>2 DEF FromGate
  <2>4. \A s : fn = "logout_role" /\ args[1] = s => Names(m, s)
    BY <2>3 DEF Names, Call
  <2> QED BY <2>1, <2>2, <2>3, <2>4, ArrivesNamed
<1>3. CASE WorldLaunchRole
  <2>1. PICK c \in Clients, n \in CallIds, r \in Roles :
          /\ FromGate(c, "launch_role", <<r, c>>, GateCb("launch", c, n, r))
          /\ LaunchRole(<<GateOf[c], World>>, GateCb("launch", c, n, r), c, r)
    BY <1>3 DEF WorldLaunchRole
  <2>2. Takes(<<GateOf[c], World>>)
    BY <1>2, <2>1
  <2>3. GateCb("launch", c, n, r) \in LaunchRsps
    BY DEF LaunchRsps
  <2> QED BY <1>1, <2>1, <2>2, <2>3, LaunchRoleFollows
<1>4. CASE WorldReconnectRole
  <2>1. PICK c \in Clients, n \in CallIds, r \in Roles :
          /\ FromGate(c, "reconnect_role", <<r, c>>, GateCb("reconnect", c, n, r))
          /\ ReconnectRole(<<GateOf[c], World>>, GateCb("reconnect", c, n, r), c, r)
    BY <1>4 DEF WorldReconnectRole
  <2>2. Takes(<<GateOf[c], World>>)
    BY <1>2, <2>1
  <2> QED BY <1>1, <2>1, <2>2, ReconnectRoleFollows
<1>5. CASE WorldLogoutRole
  <2>1. PICK c \in Clients, n \in CallIds, r \in Roles, s \in IdOrNil :
          /\ FromGate(c, "logout_role", <<s, r>>, GateCb("logout", c, n, r))
          /\ LogoutRole(<<GateOf[c], World>>, GateCb("logout", c, n, r), s, r)
    BY <1>5 DEF WorldLogoutRole
  <2>2. Takes(<<GateOf[c], World>>) /\ GivenOut(s)
    <3>1. <<s, r>>[1] = s
      OBVIOUS
    <3> QED BY <1>2, <2>1, <3>1
  <2> QED BY <1>1, <2>1, <2>2, LogoutRoleFollows
<1>6. CASE WorldClientQuit
  <2>1. PICK gate \in Gates, s \in IdOrNil :
          /\ Arrives(gate, World, Call(World, "client_quit", <<s>>, NoCb))
          /\ ClientQuit(<<gate, World>>, s)
    BY <1>6 DEF WorldClientQuit
  <2>2. Takes(<<gate, World>>)
    BY <2>1 DEF Takes, Arrives
  <2>3. GivenOut(s)
    <3>1. <<gate, World>> \in Links
      BY DEF Links
    <3>2. PICK m : m = Call(World, "client_quit", <<s>>, NoCb) /\ Arrives(gate, World, m)
      BY <2>1
    <3>3. Names(m, s)
      BY <3>2 DEF Names, Call
    <3> QED BY <3>1, <3>2, <3>3, ArrivesNamed
  <2> QED BY <1>1, <2>1, <2>2, <2>3, ClientQuitFollows
<1>7. CASE WorldAnswered
  <2>1. PICK g \in Games, cb \in wcalls, err \in Errors :
          /\ Arrives(g, World, Answer(World, cb, err, 0))
          /\ WorldCallback(<<g, World>>, cb, err)
    BY <1>7 DEF WorldAnswered
  <2>2. Takes(<<g, World>>)
    BY <2>1 DEF Takes, Arrives
  <2> QED BY <1>1, <2>1, <2>2, WorldCallbackFollows
<1>8. CASE WorldIgnores
  <2>1. PICK g \in Games : net[<<g, World>>] # <<>> /\ Deliver(<<g, World>>, World, <<>>)
    BY <1>8 DEF WorldIgnores
  <2>2. Gives({})
    BY <2>1, SendsNothing DEF Takes
  <2>3. \A i \in Ids : ClientHas(i)' \/ i \in {} => GivenOut(i)
    BY <1>1 DEF ClientHas, GivenOut
  <2>4. UNCHANGED worldVars
    BY <1>8 DEF WorldIgnores
  <2> QED BY <2>2, <2>3, <2>4, OthersFollow
<1>9. CASE WorldOnFrame
  BY <1>1, <1>9, OnFrameFollows DEF WorldOnFrame
<1>10. CASE WorldExpire
  <2>1. PICK cb \in wcalls : WorldCallback(NoLink, cb, "expired")
    BY <1>10 DEF WorldExpire
  <2> QED BY <1>1, <2>1, NoLinkIsNone, WorldCallbackFollows
<1> QED
  BY <1>3, <1>4, <1>5, <1>6, <1>7, <1>8, <1>9, <1>10 DEF World_Step

LEMMA StepFollows ==
  ASSUME SystemInv, Sound, Queues, ~ DrewHeld, [Next]_vars
  PROVE  Follows
<1>1. GTypeOK /\ WorldInv
  BY DEF SystemInv, GateInv
<1>2. CASE UNCHANGED vars
  <2>1. UNCHANGED worldVars /\ UNCHANGED clients /\ UNCHANGED net
    BY <1>2 DEF vars, worldVars
  <2>2. Gives({})
    BY <2>1, SameNet
  <2>3. \A i \in Ids : ClientHas(i)' \/ i \in {} => GivenOut(i)
    BY <2>1 DEF ClientHas, GivenOut
  <2> QED BY <1>1, <2>1, <2>2, <2>3, OthersFollow
<1>3. CASE Next
  BY <1>1, <1>3, WorldFollows, GateClientFollows, GatesFollow, GamesFollow, BreakFollows DEF Next
<1> QED BY <1>2, <1>3

LEMMA SoundInit ==
  ASSUME Init, WorldInv PROVE Queues /\ Sound
<1>1. Queues
  <2>1. /\ net = [l \in Links |-> net[l]]
        /\ \A l \in Links : net[l] = <<>>
    BY DEF Init, NetInit
  <2>2. <<>> \in Seq(ToSet(<<>>))
    OBVIOUS
  <2>3. \A l \in Links : net[l] \in Seq(ToSet(net[l]))
    BY <2>1, <2>2
  <2> QED BY <2>1, <2>3 DEF Queues
<1>2. Tables = {}
  BY NilAssumption DEF Init, WInit, Tables
<1>3. TablesSound /\ LaunchSound /\ ChangeSound /\ ReleaseSound /\ ReconnectSound
  BY <1>2 DEF Init, WInit, TablesSound, LaunchSound, ChangeSound, ReleaseSound, ReconnectSound
<1>4. \A r \in Roles : SessionOf(r) = 0
  BY DEF Init, WInit, SessionOf, Lives
<1>5. \A s \in Ids : session_id_to_role[s] = 0 /\ s # 0
  BY IdFacts DEF Init, WInit
<1>6. IndexSound /\ GivenSound
  BY <1>4, <1>5 DEF IndexSound, GivenSound
<1>7. aborted \subseteq {162}
  BY DEF Init, WInit
<1> QED BY <1>1, <1>3, <1>6, <1>7 DEF Sound

SessionInv == SystemInv /\ (clash \/ (Queues /\ Sound))

LEMMA SessionInvariant == HSpec => []SessionInv
<1>1. HInit => SessionInv
  BY GateInit, WorldInit, GamesInit, SoundInit DEF HInit, Init, SystemInv, SessionInv
<1>2. SessionInv /\ [HNext]_hvars => SessionInv'
  <2> SUFFICES ASSUME SessionInv, [HNext]_hvars PROVE SessionInv'
    OBVIOUS
  <2>1. [Next]_vars /\ clash' \in BOOLEAN
    BY DEF SessionInv, SystemInv, HNext, hvars
  <2>2. SystemInv'
    BY <2>1, GateStep, WorldStep, GamesStep DEF SessionInv, SystemInv
  <2>3. CASE clash' \/ clash
    <3>1. clash' = clash \/ clash' = (clash \/ DrewHeld)
      BY DEF HNext, hvars
    <3> QED BY <2>2, <2>3, <3>1 DEF SessionInv, SystemInv
  <2>4. CASE ~ clash' /\ ~ clash /\ ~ DrewHeld
    <3>1. SystemInv /\ Queues /\ Sound
      BY <2>4 DEF SessionInv
    <3>2. Follows
      BY <2>1, <2>4, <3>1, StepFollows
    <3>3. Sound' /\ Queues'
      BY <2>2, <3>1, <3>2, FollowsSound DEF SystemInv, Follows
    <3> QED BY <2>2, <3>3 DEF SessionInv
  <2>5. CASE ~ clash' /\ ~ clash /\ UNCHANGED vars
    <3>1. SystemInv /\ Queues /\ Sound
      BY <2>5 DEF SessionInv
    <3>2. UNCHANGED worldVars /\ UNCHANGED clients /\ UNCHANGED net
      BY <2>5 DEF vars, worldVars
    <3>3. Gives({})
      BY <3>1, <3>2, SameNet
    <3>4. \A i \in Ids : ClientHas(i)' \/ i \in {} => GivenOut(i)
      BY <3>2 DEF ClientHas, GivenOut
    <3>5. Follows
      BY <3>1, <3>2, <3>3, <3>4, OthersFollow DEF SystemInv
    <3>6. Sound' /\ Queues'
      BY <2>2, <3>1, <3>5, FollowsSound DEF SystemInv, Follows
    <3> QED BY <2>2, <3>6 DEF SessionInv
  <2> QED BY <2>3, <2>4, <2>5 DEF HNext, hvars
<1>3. QED BY <1>1, <1>2, PTL DEF HSpec

\* While a launch is outstanding the role is in launch, in the table that the
\* call was made for, unless a session number was drawn that somebody held
\* (manage_role_logic.lua: the callback of line 226 looks at neither).
THEOREM LaunchStaysInCharge == HSpec => []LaunchInCharge
<1>1. SessionInv => LaunchInCharge
  <2> SUFFICES ASSUME SessionInv, ~ clash PROVE LaunchInCharge
    BY DEF LaunchInCharge
  <2>1. Sound /\ WorldInv
    BY DEF SessionInv, SystemInv
  <2>2. ASSUME NEW s \in Ids, NEW r \in Roles, LaunchCb(s, r) \in wcalls PROVE Launching(r)
    <3>1. role_id_to_role[r] = s /\ objs[s].state = "launch" /\ s # 0
      BY <2>1, <2>2, IdFacts DEF Sound, LaunchSound
    <3> QED BY <3>1 DEF Launching, Lives, RoleOf
  <2>3. \A o \in Ids : ChangeCb(o) \in wcalls =>
          role_id_to_role[objs[o].role] = o /\ objs[o].state = "launch"
    BY <2>1 DEF Sound, ChangeSound, Alive
  <2> QED BY <2>2, <2>3 DEF LaunchInCharge
<1>2. QED BY <1>1, SessionInvariant, PTL

\* A release under way is the only one of its role, which is in memory and
\* being released (manage_role_logic.lua: the callback of line 303 uses the
\* role without a nil check, and try_release_role is called from four places).
THEOREM ReleaseStaysInCharge == HSpec => []ReleaseInCharge
<1>1. SessionInv => ReleaseInCharge
  BY DEF SessionInv, Sound, ReleaseSound, ReleaseInCharge, BeingReleased
<1>2. QED BY <1>1, SessionInvariant, PTL

\* A role that is being released has neither a session nor a client, so no
\* request of a client reaches it (client_quit, assertion of line 257).
THEOREM ReleasingRolesDetached == HSpec => []ReleasingDetached
<1>1. SessionInv => ReleasingDetached
  <2> SUFFICES ASSUME SessionInv, ~ clash, NEW r \in Roles, BeingReleased(r)
      PROVE  RoleOf(r).session = 0 /\ RoleOf(r).gate = None
    BY DEF ReleasingDetached
  <2>1. Sound /\ WorldInv
    BY DEF SessionInv, SystemInv
  <2>2. role_id_to_role[r] \in Tables /\ RoleOf(r) = objs[role_id_to_role[r]]
    BY <2>1, LivingRole DEF BeingReleased
  <2> QED BY <2>1, <2>2 DEF Sound, TablesSound, BeingReleased
<1>2. QED BY <1>1, SessionInvariant, PTL

\* No handler of the world dies of a Lua error but launch_role when a client
\* takes over a launch (manage_role_logic.lua, line 162).
THEOREM WorldHandlersLive == HSpec => []OnlyTakeoverDies
<1>1. SessionInv => OnlyTakeoverDies
  BY DEF SessionInv, Sound, OnlyTakeoverDies
<1>2. QED BY <1>1, SessionInvariant, PTL

-----------------------------------------------------------------------------
(***************************************************************************)
(* The game services: a role is on a game service if and only if the world *)
(* has it there, up to what is under way between the two.  GameSound says  *)
(* what that is, role by role.  Every step of the world has one of the     *)
(* shapes Mutely, Tells, Launches, Releases and Forgets, and these, like   *)
(* the steps of the game services and the faults, leave it sound.          *)
(*                                                                         *)
(* Out(g) is what the world has sent game service g, Back(g) what that has *)
(* sent back.                                                              *)
(***************************************************************************)
Out(g)  == net[<<World, g>>]
Back(g) == net[<<g, World>>]

\* The shapes of a step of the world, for the links: it takes at most the
\* head of what came back, and sends the game services nothing, or m to g.
Heard == \A g \in Games : Back(g)' = Back(g) \/ (Back(g) # <<>> /\ Back(g)' = Tail(Back(g)))

Mute == Heard /\ \A g \in Games : Out(g)' = Out(g)

Says(g, m) ==
  Heard /\ Out(g)' = Append(Out(g), m) /\ \A h \in Games : h # g => Out(h)' = Out(h)

\* A link the world takes messages from, or none.
ToWorld(in) == in = NoLink \/ \E a : in = <<a, World>>

\* The links between the world and a game service are queues.
LEMMA GameLinks ==
  ASSUME Queues, NEW g \in Games
  PROVE  /\ g # World /\ <<World, g>> \in Links /\ <<g, World>> \in Links
         /\ Out(g) \in Seq(ToSet(Out(g))) /\ Back(g) \in Seq(ToSet(Back(g)))
<1>1. g # World /\ <<World, g>> \in Links /\ <<g, World>> \in Links
  BY ConstantsAssumption DEF Links
<1> QED BY <1>1 DEF Queues, Out, Back

\* What a step of the world does to the links of the game services: it takes the
\* head of at most one, and adds what it sends to each.
LEMMA WorldDelivers ==
  ASSUME Queues, NEW in, ToWorld(in), Takes(in), NEW outs, Deliver(in, World, outs)
  PROVE  /\ Heard
         /\ \A g \in Games : Out(g)' = Out(g) \o SentTo(outs, g)
<1> SUFFICES ASSUME NEW g \in Games
             PROVE  /\ Back(g)' = Back(g) \/ (Back(g) # <<>> /\ Back(g)' = Tail(Back(g)))
                    /\ Out(g)' = Out(g) \o SentTo(outs, g)
  BY DEF Heard
<1>1. /\ g # World /\ <<World, g>> \in Links /\ <<g, World>> \in Links
      /\ Out(g) \in Seq(ToSet(Out(g))) /\ Back(g) \in Seq(ToSet(Back(g)))
  BY GameLinks
<1>2. <<World, g>> # in
  BY <1>1, ConstantsAssumption DEF ToWorld, NoLink
<1>3. Out(g)' = Out(g) \o SentTo(outs, g)
  BY <1>1, <1>2 DEF Deliver, Out
<1>4. Back(g)' = (IF <<g, World>> = in THEN Tail(Back(g)) ELSE Back(g)) \o <<>>
  BY <1>1 DEF Deliver, Back
<1>5. <<g, World>> = in => Back(g) # <<>>
  BY <1>1 DEF Takes, Back
<1>6. CASE <<g, World>> = in
  <2>1. Tail(Back(g)) \in Seq(ToSet(Back(g)))
    BY <1>1, <1>5, <1>6
  <2>2. Back(g)' = Tail(Back(g)) \o <<>>
    BY <1>4, <1>6
  <2>3. Tail(Back(g)) \o <<>> = Tail(Back(g))
    BY <2>1
  <2> QED BY <1>3, <1>5, <1>6, <2>2, <2>3
<1>7. CASE <<g, World>> # in
  <2>1. Back(g)' = Back(g) \o <<>>
    BY <1>4, <1>7
  <2>2. Back(g) \o <<>> = Back(g)
    BY <1>1
  <2> QED BY <1>3, <2>1, <2>2
<1> QED BY <1>6, <1>7

\* What goes to the gates only.
LEMMA WorldMute ==
  ASSUME Queues, NEW in, ToWorld(in), Takes(in), NEW a, a.to \notin Games,
         NEW b, b.to \notin Games,
         \/ Deliver(in, World, <<>>) \/ Deliver(in, World, <<a>>)
         \/ Deliver(in, World, <<a, b>>)
  PROVE  Mute
<1>1. PICK outs : Deliver(in, World, outs) /\ outs \in {<<>>, <<a>>, <<a, b>>}
  OBVIOUS
<1>2. ASSUME NEW g \in Games PROVE SentTo(outs, g) = <<>>
  <2>1. a.to # g /\ b.to # g
    OBVIOUS
  <2>2. SentTo(<<>>, g) = <<>> /\ SentTo(<<a>>, g) = <<>> /\ SentTo(<<a, b>>, g) = <<>>
    BY <2>1, SentFew
  <2> QED BY <1>1, <2>2
<1>3. Heard /\ \A g \in Games : Out(g)' = Out(g) \o SentTo(outs, g)
  BY <1>1, WorldDelivers
<1>4. ASSUME NEW g \in Games PROVE Out(g)' = Out(g)
  <2>1. Out(g) \o <<>> = Out(g)
    BY GameLinks
  <2> QED BY <1>2, <1>3, <2>1
<1> QED BY <1>3, <1>4 DEF Mute

\* One message goes to game service g.
LEMMA WorldSays ==
  ASSUME Queues, NEW in, ToWorld(in), Takes(in), NEW a, a.to \notin Games,
         NEW b, b.to \notin Games, NEW g \in Games, NEW m, m.to = g,
         \/ Deliver(in, World, <<m>>) \/ Deliver(in, World, <<a, m>>)
         \/ Deliver(in, World, <<m, a>>) \/ Deliver(in, World, <<b, a, m>>)
  PROVE  Says(g, m)
<1>1. PICK outs : Deliver(in, World, outs) /\ outs \in {<<m>>, <<a, m>>, <<m, a>>, <<b, a, m>>}
  OBVIOUS
<1>2. \A h \in Games : SentTo(outs, h) = IF h = g THEN <<m>> ELSE <<>>
  <2> TAKE h \in Games
  <2>1. a.to # h /\ b.to # h /\ ((m.to = h) <=> (h = g))
    OBVIOUS
  <2>2. /\ SentTo(<<m>>, h) = IF m.to = h THEN <<m>> ELSE <<>>
        /\ SentTo(<<a, m>>, h) = IF m.to = h THEN <<m>> ELSE <<>>
        /\ SentTo(<<m, a>>, h) = IF m.to = h THEN <<m>> ELSE <<>>
        /\ SentTo(<<b, a, m>>, h) = IF m.to = h THEN <<m>> ELSE <<>>
    <3> HIDE <2>1
    <3>1. a.to # h /\ b.to # h
      BY <2>1
    <3>2. SentTo(<<m>>, h) = IF m.to = h THEN <<m>> ELSE <<>>
      BY ONLY SentFew
    <3>3. SentTo(<<a, m>>, h) = IF m.to = h THEN <<m>> ELSE <<>>
      BY ONLY <3>1, SentFew
    <3>4. SentTo(<<m, a>>, h) = IF m.to = h THEN <<m>> ELSE <<>>
      BY ONLY <3>1, SentFew
    <3>5. SentTo(<<b, a, m>>, h) = IF m.to = h THEN <<m>> ELSE <<>>
      BY ONLY <3>1, SentFew
    <3> QED BY <3>2, <3>3, <3>4, <3>5
  <2>3. SentTo(outs, h) = IF m.to = h THEN <<m>> ELSE <<>>
    BY <1>1, <2>2
  <2> QED BY <2>1, <2>3
<1>3. Heard /\ \A h \in Games : Out(h)' = Out(h) \o SentTo(outs, h)
  BY <1>1, WorldDelivers
<1>4. Out(g)' = Append(Out(g), m)
  <2>1. PICK s : s = Out(g) /\ s \in Seq(ToSet(s))
    BY GameLinks
  <2>2. s \o <<m>> = Append(s, m)
    BY <2>1
  <2>3. Out(g)' = Out(g) \o <<m>>
    BY <1>2, <1>3
  <2> QED BY <2>1, <2>2, <2>3
<1>5. ASSUME NEW h \in Games, h # g PROVE Out(h)' = Out(h)
  <2>1. Out(h) \o <<>> = Out(h)
    BY GameLinks
  <2> QED BY <1>2, <1>3, <1>5, <2>1
<1> QED BY <1>3, <1>4, <1>5 DEF Says

\* The calls about role r that are out: of a launch or of a release.
Aims(cb, r) == \E i \in Ids : cb = LaunchCb(i, r) \/ cb = ReleaseCb(r, i)
Current(cb, r) == cb \in wcalls /\ Aims(cb, r)

\* A request to load or to let go of role r.
Asks(m, r) == m.fn \in {"launch_role", "release_role"} /\ m.args[1] = r

\* The other calls to a game service, all of them client_change.
OtherCb(cb) == cb = NoCb \/ cb[1] \in {"launch_client_change", "_reconnect_role_game_change_client_cb"}

\* The world says that role r is on game service g, and has learnt from it
\* that the role is there.
Home(r, g) == Lives(r) /\ RoleOf(r).game = g
Settled(r, g) ==
  /\ Home(r, g)
  /\ RoleOf(r).state # "launch" \/ ChangeCb(role_id_to_role[r]) \in wcalls

\* The step handles the answer e to call cb.
Answered(cb, e) ==
  \E g \in Games : Back(g) # <<>> /\ Head(Back(g)) = Answer(World, cb, e, 0)

\* The step does not concern role p.
Untold(p) ==
  /\ role_id_to_role'[p] = role_id_to_role[p]
  /\ Lives(p) => /\ objs'[role_id_to_role[p]] = objs[role_id_to_role[p]]
                 /\ (ChangeCb(role_id_to_role[p]) \in wcalls') <=> (ChangeCb(role_id_to_role[p]) \in wcalls)
  /\ \A i \in Ids : /\ (LaunchCb(i, p) \in wcalls') <=> (LaunchCb(i, p) \in wcalls)
                    /\ (ReleaseCb(p, i) \in wcalls') <=> (ReleaseCb(p, i) \in wcalls)

OthersUntold(q) == \A p \in Roles : p # q => Untold(p)

\* A call about role q is over, if it is, because it expired or because this
\* step handles its answer.
EndsCalls(q) ==
  \A cb \in WorldCbs : Current(cb, q) =>
    Current(cb, q)' \/ faults' # 0 \/ \E e \in Errors : Answered(cb, e)

\* Role q stays where it is, and no call about it is made.
Turns(q) ==
  /\ \A cb \in WorldCbs : Current(cb, q)' => Current(cb, q)
  /\ EndsCalls(q)
  /\ \A g \in Games : Home(q, g)' <=> Home(q, g)
  /\ Lives(q) => ((RoleOf(q)'.state = "releasing") <=> (RoleOf(q).state = "releasing"))

\* Nothing is said to a game service.
Mutely ==
  /\ Mute
  /\ \A q \in Roles :
       /\ Turns(q)
       /\ \A g \in Games : Settled(q, g)' =>
             Settled(q, g) /\ (faults' # 0 \/ RoleOf(q)'.gate = RoleOf(q).gate)

\* The game service of role q is told its client.
Tells(q) ==
  \E g \in Games, c \in Clients \cup {None}, cb \in WorldCbs \cup {NoCb} :
    /\ Says(g, ChangeClient(g, q, c, cb)) /\ OtherCb(cb)
    /\ Home(q, g) /\ RoleOf(q)'.gate = c
    /\ Settled(q, g) \/ \E s \in Ids : LaunchCb(s, q) \in wcalls /\ Answered(LaunchCb(s, q), "ok")
    /\ Turns(q) /\ OthersUntold(q)

\* Game service g is asked to load role q.
Launches(q) ==
  \E g \in Games, s \in Ids :
    /\ Says(g, Call(g, "launch_role", <<q>>, LaunchCb(s, q)))
    /\ last_session_id < s /\ s <= last_session_id'
    /\ ~ Lives(q) /\ role_id_to_role'[q] = s /\ objs'[s].game = g /\ objs'[s].state = "launch"
    /\ ChangeCb(s) \notin wcalls'
    /\ \A cb \in WorldCbs : Current(cb, q)' <=> cb = LaunchCb(s, q)
    /\ OthersUntold(q)

\* Its game service is asked to let role q go.
Releases(q) ==
  \E g \in Games, k \in Ids :
    /\ Says(g, Call(g, "release_role", <<q>>, ReleaseCb(q, k)))
    /\ last_opera_id < k /\ k <= last_opera_id'
    /\ Home(q, g) /\ \A h \in Games : Home(q, h)' <=> Home(q, h)
    /\ RoleOf(q)'.state = "releasing"
    /\ RoleOf(q).state \in {"using", "idle"} \/ (RoleOf(q).state = "releasing" /\ faults' # 0)
    /\ \A cb \in WorldCbs : Current(cb, q)' <=> cb = ReleaseCb(q, k)
    /\ OthersUntold(q)

\* Role q leaves the main index: its launch failed or it is released.
Forgets(q) ==
  /\ Mute /\ ~ Lives(q)'
  /\ \A cb \in WorldCbs : ~ Current(cb, q)'
  /\ Lives(q)
  /\ \/ /\ RoleOf(q).state = "launch"
        /\ \/ faults' # 0
           \/ \E s \in Ids, e \in Errors :
                e # "ok" /\ LaunchCb(s, q) \in wcalls /\ Answered(LaunchCb(s, q), e)
     \/ /\ RoleOf(q).state = "releasing"
        /\ \E k \in Ids : ReleaseCb(q, k) \in wcalls /\ Answered(ReleaseCb(q, k), "ok")
  /\ OthersUntold(q)

WorldShapes ==
  /\ CountersGrow /\ faults <= faults'
  /\ Mutely \/ \E q \in Roles : Tells(q) \/ Launches(q) \/ Releases(q) \/ Forgets(q)

-----------------------------------------------------------------------------
\* What game service g, the world, and the links between them hold about role
\* r: calls are those about r that are out, place is where the world has the
\* role ("away" from g; "launching", until it has heard of g that the role is
\* there; "settled"; "releasing"), broken counts the expiries and broken
\* connections, out and back are what is under way to and from g, queries are
\* its database queries for r, state is the state of r on g.
Asked(out, r) == \E i \in DOMAIN out : Asks(out[i], r)

\* A role is loading as long as its one query runs.
Loading(queries, state) ==
  /\ \A a, b \in queries : a = b
  /\ (queries # {}) <=> (state = "load_from_db")

\* Only what is being released is asked to be let go.
ReleaseSent(r, place, out) ==
  \A i \in DOMAIN out : Asks(out[i], r) /\ out[i].fn = "release_role" => place = "releasing"

\* A role that has settled is not asked for or loading again, and is there
\* until it is released.
Holds(r, place, out, queries, state) ==
  place \in {"settled", "releasing"} =>
    /\ \A i \in DOMAIN out : Asks(out[i], r) => out[i].fn = "release_role"
    /\ queries = {}
    /\ place = "settled" => state = "in_game"

\* Only the last request about the role can be that of a call still out.
LastAsk(r, calls, out) ==
  \A i, j \in DOMAIN out : i < j /\ Asks(out[i], r) /\ Asks(out[j], r) => out[i].cb \notin calls

\* A call still out is known to no other game service than the role's.
AtHome(calls, place, out, back, queries) ==
  place = "away" =>
    /\ \A i \in DOMAIN out : out[i].cb \notin calls
    /\ \A i \in DOMAIN back : back[i].cb \notin calls
    /\ \A query \in queries : query[1] \notin calls

\* The query for a call still out is the last that was asked.
QueryLast(r, calls, out, queries) ==
  \A query \in queries : query[1] \in calls => ~ Asked(out, r)

\* And so is what its answer says.
AnswerLast(r, calls, out, back, queries, state) ==
  \A i \in DOMAIN back : back[i].cb \in calls /\ back[i].err = "ok" =>
    /\ ~ Asked(out, r) /\ queries = {}
    /\ state = IF back[i].cb[1] = "_rpc_rsp_launch_role" THEN "in_game" ELSE "absent"

\* Without expiries and broken connections a game service has only roles that
\* the world has there, and is asked for nothing but what is waited for.
Housed(r, calls, place, broken, out, back, queries, state) ==
  broken = 0 =>
    /\ state # "absent" => place # "away"
    /\ \A i \in DOMAIN out : Asks(out[i], r) => out[i].cb \in calls
    /\ \A query \in queries : query[1] \in calls
    /\ \A i \in DOMAIN back : back[i].cb \in calls /\ back[i].err # "ok" =>
         ~ Asked(out, r) /\ queries = {} /\ state = "absent"

Fits(r, calls, place, broken, out, back, queries, state) ==
  /\ Loading(queries, state)
  /\ ReleaseSent(r, place, out)
  /\ Holds(r, place, out, queries, state)
  /\ LastAsk(r, calls, out)
  /\ AtHome(calls, place, out, back, queries)
  /\ QueryLast(r, calls, out, queries)
  /\ AnswerLast(r, calls, out, back, queries, state)
  /\ Housed(r, calls, place, broken, out, back, queries, state)

\* What becomes of the links when nothing is added that is about role r: at
\* most the head of out is taken, and anything from back.
OutKeeps(r, calls, out, out2) ==
  \E d \in {0, 1} : \A i \in DOMAIN out2 :
    \/ i \in Int /\ i + d \in DOMAIN out /\ out2[i] = out[i + d]
    \/ ~ Asks(out2[i], r) /\ out2[i].cb \notin calls

BackKeeps(calls, back, back2) ==
  \A i \in DOMAIN back2 :
    (\E j \in DOMAIN back : back2[i] = back[j]) \/ back2[i].cb \notin calls

\* Calls that are over without a fault are no longer under way.
Over(calls, calls2, broken2, out, queries) ==
  broken2 = 0 => \A cb \in calls \ calls2 :
    (\A i \in DOMAIN out : out[i].cb # cb) /\ \A query \in queries : query[1] # cb

PlaceKeeps(r, place, place2, out, queries, state) ==
  \/ place2 = place
  \/ place = "settled" /\ place2 = "launching"
  \/ /\ place = "launching" /\ place2 = "settled"
     /\ ~ Asked(out, r) /\ queries = {} /\ state = "in_game"

\* Nothing happens that is about the role, but that calls are over.
LEMMA FitsKept ==
  ASSUME NEW r, NEW calls, NEW place, NEW broken, NEW out, NEW back, NEW queries, NEW state,
         NEW calls2, NEW place2, NEW broken2, NEW out2, NEW back2,
         Fits(r, calls, place, broken, out, back, queries, state),
         calls2 \subseteq calls, broken2 = 0 => broken = 0,
         Over(calls, calls2, broken2, out, queries),
         PlaceKeeps(r, place, place2, out, queries, state),
         OutKeeps(r, calls, out, out2), BackKeeps(calls, back, back2)
  PROVE  Fits(r, calls2, place2, broken2, out2, back2, queries, state)
<1>1. PICK d \in {0, 1} : \A i \in DOMAIN out2 :
        \/ i \in Int /\ i + d \in DOMAIN out /\ out2[i] = out[i + d]
        \/ ~ Asks(out2[i], r) /\ out2[i].cb \notin calls
  BY DEF OutKeeps
<1>2. \A i \in DOMAIN out2 : Asks(out2[i], r) => i \in Int /\ i + d \in DOMAIN out /\ out2[i] = out[i + d]
  BY <1>1
<1>3. \A i \in DOMAIN out2 : out2[i].cb \in calls => i + d \in DOMAIN out /\ out2[i] = out[i + d]
  BY <1>1
<1>4. Asked(out2, r) => Asked(out, r)
  BY <1>2 DEF Asked
<1>5. \A i \in DOMAIN back2 : back2[i].cb \in calls => \E j \in DOMAIN back : back2[i] = back[j]
  BY DEF BackKeeps
<1>6. Loading(queries, state)
  BY DEF Fits
<1>7. ReleaseSent(r, place2, out2)
  <2>1. SUFFICES ASSUME NEW i \in DOMAIN out2, Asks(out2[i], r), out2[i].fn = "release_role"
                 PROVE  place2 = "releasing"
    BY DEF ReleaseSent
  <2>2. i + d \in DOMAIN out /\ out2[i] = out[i + d]
    BY <1>2, <2>1
  <2>3. place = "releasing"
    BY <2>1, <2>2 DEF Fits, ReleaseSent
  <2> QED BY <2>3 DEF PlaceKeeps
<1>8. Holds(r, place2, out2, queries, state)
  <2>1. SUFFICES ASSUME place2 \in {"settled", "releasing"}
                 PROVE  /\ \A i \in DOMAIN out2 : Asks(out2[i], r) => out2[i].fn = "release_role"
                        /\ queries = {}
                        /\ place2 = "settled" => state = "in_game"
    BY DEF Holds
  <2>2. CASE place2 = place
    BY <1>2, <2>1, <2>2 DEF Fits, Holds
  <2>3. CASE place2 # place
    BY <1>4, <2>1, <2>3 DEF PlaceKeeps, Asked
  <2> QED BY <2>2, <2>3
<1>9. LastAsk(r, calls2, out2)
  <2>1. SUFFICES ASSUME NEW i \in DOMAIN out2, NEW j \in DOMAIN out2, i < j,
                        Asks(out2[i], r), Asks(out2[j], r)
                 PROVE  out2[i].cb \notin calls2
    BY DEF LastAsk
  <2>2. /\ i \in Int /\ i + d \in DOMAIN out /\ out2[i] = out[i + d]
        /\ j \in Int /\ j + d \in DOMAIN out /\ out2[j] = out[j + d]
    BY <1>2, <2>1
  <2>3. i + d < j + d
    BY <2>1, <2>2
  <2> QED BY <2>1, <2>2, <2>3 DEF Fits, LastAsk
<1>10. AtHome(calls2, place2, out2, back2, queries)
  BY <1>3, <1>5 DEF Fits, AtHome, PlaceKeeps
<1>11. QueryLast(r, calls2, out2, queries)
  BY <1>4 DEF Fits, QueryLast
<1>12. AnswerLast(r, calls2, out2, back2, queries, state)
  BY <1>4, <1>5 DEF Fits, AnswerLast
<1>13. Housed(r, calls2, place2, broken2, out2, back2, queries, state)
  <2>1. SUFFICES ASSUME broken2 = 0
                 PROVE  /\ state # "absent" => place2 # "away"
                        /\ \A i \in DOMAIN out2 : Asks(out2[i], r) => out2[i].cb \in calls2
                        /\ \A query \in queries : query[1] \in calls2
                        /\ \A i \in DOMAIN back2 : back2[i].cb \in calls2 /\ back2[i].err # "ok" =>
                             ~ Asked(out2, r) /\ queries = {} /\ state = "absent"
    BY DEF Housed
  <2>2. /\ state # "absent" => place # "away"
        /\ \A i \in DOMAIN out : Asks(out[i], r) => out[i].cb \in calls
        /\ \A query \in queries : query[1] \in calls
        /\ \A i \in DOMAIN back : back[i].cb \in calls /\ back[i].err # "ok" =>
             ~ Asked(out, r) /\ queries = {} /\ state = "absent"
    BY <2>1 DEF Fits, Housed
  <2>3. state # "absent" => place2 # "away"
    BY <2>2 DEF PlaceKeeps
  <2>4. \A i \in DOMAIN out : Asks(out[i], r) => out[i].cb \in calls2
    BY <2>1, <2>2 DEF Over
  <2>5. \A query \in queries : query[1] \in calls2
    BY <2>1, <2>2 DEF Over
  <2> QED BY <1>2, <1>4, <1>5, <2>2, <2>3, <2>4, <2>5
<1> QED BY <1>6, <1>7, <1>8, <1>9, <1>10, <1>11, <1>12, <1>13 DEF Fits

-----------------------------------------------------------------------------
(* The steps of the world that do concern role r, as seen from a game        *)
(* service.                                                                *)

\* A message is added to a link, behind the others.
Added(out, m, out2) ==
  /\ \A i \in DOMAIN out2 : \/ i \in DOMAIN out /\ out2[i] = out[i]
                            \/ out2[i] = m /\ \A j \in DOMAIN out2 : ~ (i < j)
  /\ \A i \in DOMAIN out : i \in DOMAIN out2 /\ out2[i] = out[i]

\* A call nobody has heard of yet.
Unheard(cb, out, back, queries) ==
  /\ \A i \in DOMAIN out : out[i].cb # cb
  /\ \A i \in DOMAIN back : back[i].cb # cb
  /\ \A query \in queries : query[1] # cb

\* Game service g is asked to load the role.
LEMMA FitsLaunched ==
  ASSUME NEW r, NEW broken, NEW out, NEW back, NEW queries, NEW state,
         NEW cb, NEW broken2, NEW m, NEW out2, NEW back2,
         Fits(r, {}, "away", broken, out, back, queries, state),
         broken2 = 0 => broken = 0,
         Unheard(cb, out, back, queries), Added(out, m, out2), BackKeeps({cb}, back, back2),
         m.fn = "launch_role", m.cb = cb
  PROVE  Fits(r, {cb}, "launching", broken2, out2, back2, queries, state)
<1>1. \A i \in DOMAIN back2 : back2[i].cb # cb
  BY DEF BackKeeps, Unheard
<1>2. Loading(queries, state) /\ \A query \in queries : query[1] # cb
  BY DEF Fits, Unheard
<1>3. ReleaseSent(r, "launching", out2)
  BY DEF Fits, ReleaseSent, Added
<1>4. LastAsk(r, {cb}, out2)
  <2>1. SUFFICES ASSUME NEW i \in DOMAIN out2, NEW j \in DOMAIN out2, i < j
                 PROVE  out2[i].cb # cb
    BY DEF LastAsk
  <2>2. i \in DOMAIN out /\ out2[i] = out[i]
    BY <2>1 DEF Added
  <2> QED BY <2>2 DEF Unheard
<1>5. Housed(r, {cb}, "launching", broken2, out2, back2, queries, state)
  <2>1. SUFFICES ASSUME broken2 = 0
                 PROVE  /\ \A i \in DOMAIN out2 : Asks(out2[i], r) => out2[i].cb = cb
                        /\ \A query \in queries : query[1] = cb
                        /\ \A i \in DOMAIN back2 : back2[i].cb # cb
    BY DEF Housed
  <2>2. /\ \A i \in DOMAIN out : ~ Asks(out[i], r)
        /\ queries = {}
    BY <2>1 DEF Fits, Housed
  <2>3. \A i \in DOMAIN out2 : Asks(out2[i], r) => out2[i].cb = cb
    BY <2>2 DEF Added
  <2> QED BY <1>1, <2>2, <2>3
<1>6. /\ Holds(r, "launching", out2, queries, state) /\ AtHome({cb}, "launching", out2, back2, queries)
      /\ QueryLast(r, {cb}, out2, queries) /\ AnswerLast(r, {cb}, out2, back2, queries, state)
  BY <1>1, <1>2 DEF Holds, AtHome, QueryLast, AnswerLast
<1> QED BY <1>2, <1>3, <1>4, <1>5, <1>6 DEF Fits

\* Another game service is asked to load the role, or to let it go.
LEMMA FitsElsewhere ==
  ASSUME NEW r, NEW calls, NEW broken, NEW out, NEW back, NEW queries, NEW state,
         NEW cb, NEW broken2, NEW back2,
         Fits(r, calls, "away", broken, out, back, queries, state),
         broken2 = 0 => broken = 0 /\ calls = {},
         Unheard(cb, out, back, queries), BackKeeps({cb}, back, back2)
  PROVE  Fits(r, {cb}, "away", broken2, out, back2, queries, state)
<1>1. \A i \in DOMAIN back2 : back2[i].cb # cb
  BY DEF BackKeeps, Unheard
<1>2. Loading(queries, state) /\ \A query \in queries : query[1] # cb
  BY DEF Fits, Unheard
<1>3. ReleaseSent(r, "away", out) /\ LastAsk(r, {cb}, out)
  BY DEF Fits, ReleaseSent, LastAsk, Unheard
<1>4. Housed(r, {cb}, "away", broken2, out, back2, queries, state)
  BY <1>1 DEF Fits, Housed
<1>5. /\ Holds(r, "away", out, queries, state) /\ AtHome({cb}, "away", out, back2, queries)
      /\ QueryLast(r, {cb}, out, queries) /\ AnswerLast(r, {cb}, out, back2, queries, state)
  BY <1>1, <1>2 DEF Holds, AtHome, QueryLast, AnswerLast, Unheard
<1> QED BY <1>2, <1>3, <1>4, <1>5 DEF Fits

\* Game service g is asked to let the role go.
LEMMA FitsReleased ==
  ASSUME NEW r, NEW calls, NEW place, NEW broken, NEW out, NEW back, NEW queries, NEW state,
         NEW cb, NEW broken2, NEW m, NEW out2, NEW back2,
         Fits(r, calls, place, broken, out, back, queries, state),
         place \in {"settled", "releasing"},
         broken2 = 0 => broken = 0 /\ calls = {} /\ place = "settled",
         Unheard(cb, out, back, queries), Added(out, m, out2), BackKeeps({cb}, back, back2),
         m.fn = "release_role", m.cb = cb
  PROVE  Fits(r, {cb}, "releasing", broken2, out2, back2, queries, state)
<1>1. \A i \in DOMAIN back2 : back2[i].cb # cb
  BY DEF BackKeeps, Unheard
<1>2. Loading(queries, state) /\ \A query \in queries : query[1] # cb
  BY DEF Fits, Unheard
<1>3. ReleaseSent(r, "releasing", out2)
  BY DEF ReleaseSent
<1>4. LastAsk(r, {cb}, out2)
  <2>1. SUFFICES ASSUME NEW i \in DOMAIN out2, NEW j \in DOMAIN out2, i < j
                 PROVE  out2[i].cb # cb
    BY DEF LastAsk
  <2>2. i \in DOMAIN out /\ out2[i] = out[i]
    BY <2>1 DEF Added
  <2> QED BY <2>2 DEF Unheard
<1>5. Holds(r, "releasing", out2, queries, state)
  <2>1. queries = {} /\ \A i \in DOMAIN out : Asks(out[i], r) => out[i].fn = "release_role"
    BY DEF Fits, Holds
  <2>2. \A i \in DOMAIN out2 : Asks(out2[i], r) => out2[i].fn = "release_role"
    BY <2>1 DEF Added
  <2> QED BY <2>1, <2>2 DEF Holds
<1>6. Housed(r, {cb}, "releasing", broken2, out2, back2, queries, state)
  <2>1. SUFFICES ASSUME broken2 = 0
                 PROVE  /\ \A i \in DOMAIN out2 : Asks(out2[i], r) => out2[i].cb = cb
                        /\ \A query \in queries : query[1] = cb
                        /\ \A i \in DOMAIN back2 : back2[i].cb # cb
    BY DEF Housed
  <2>2. /\ \A i \in DOMAIN out : ~ Asks(out[i], r)
        /\ queries = {}
    BY <2>1 DEF Fits, Housed
  <2>3. \A i \in DOMAIN out2 : Asks(out2[i], r) => out2[i].cb = cb
    BY <2>2 DEF Added
  <2> QED BY <1>1, <2>2, <2>3
<1>7. /\ AtHome({cb}, "releasing", out2, back2, queries)
      /\ QueryLast(r, {cb}, out2, queries) /\ AnswerLast(r, {cb}, out2, back2, queries, state)
  BY <1>1, <1>2 DEF AtHome, QueryLast, AnswerLast
<1> QED BY <1>2, <1>3, <1>4, <1>5, <1>6, <1>7 DEF Fits

\* The world gives up the role.
LEMMA FitsForgotten ==
  ASSUME NEW r, NEW calls, NEW place, NEW broken, NEW out, NEW back, NEW queries, NEW state,
         NEW broken2, NEW back2,
         Fits(r, calls, place, broken, out, back, queries, state),
         place = "releasing" => ~ Asked(out, r),
         broken2 = 0 => state = "absent" /\ queries = {} /\ ~ Asked(out, r)
  PROVE  Fits(r, {}, "away", broken2, out, back2, queries, state)
<1>1. ReleaseSent(r, "away", out)
  BY DEF Fits, ReleaseSent, Asked
<1>2. Housed(r, {}, "away", broken2, out, back2, queries, state)
  BY DEF Housed, Asked
<1> QED BY <1>1, <1>2 DEF Fits, Holds, LastAsk, AtHome, QueryLast, AnswerLast

-----------------------------------------------------------------------------
(* The steps of a game service that concern role r. *)

\* The head of a link is taken.
Taken(out, out2) ==
  /\ 1 \in DOMAIN out
  /\ \A i \in DOMAIN out2 : i \in Int /\ 1 < i + 1 /\ i + 1 \in DOMAIN out /\ out2[i] = out[i + 1]

\* A game service answers a.
Answers(back, a, back2) ==
  \A i \in DOMAIN back2 : (\E j \in DOMAIN back : back2[i] = back[j]) \/ back2[i] = a

\* What is left of Fits when the game service takes a request about role r off
\* the link.
LEMMA TakenFacts ==
  ASSUME NEW r, NEW calls, NEW place, NEW broken, NEW out, NEW back, NEW queries, NEW state, NEW out2,
         Fits(r, calls, place, broken, out, back, queries, state), Taken(out, out2),
         Asks(out[1], r)
  PROVE  /\ ReleaseSent(r, place, out2) /\ LastAsk(r, calls, out2)
         /\ out[1].cb \in calls => ~ Asked(out2, r) /\ place # "away"
         /\ \A i \in DOMAIN back : back[i].cb \in calls => back[i].err # "ok"
         /\ Asked(out2, r) => Asked(out, r)
         /\ \A i \in DOMAIN out2 : out2[i].cb \in calls => place # "away"
         /\ Asked(out, r)
<1>1. 1 \in DOMAIN out /\ \A i \in DOMAIN out2 : i \in Int /\ 1 < i + 1 /\ i + 1 \in DOMAIN out /\ out2[i] = out[i + 1]
  BY DEF Taken
<1>2. ReleaseSent(r, place, out2)
  BY <1>1 DEF Fits, ReleaseSent
<1>3. LastAsk(r, calls, out2)
  <2>1. SUFFICES ASSUME NEW i \in DOMAIN out2, NEW j \in DOMAIN out2, i < j,
                        Asks(out2[i], r), Asks(out2[j], r)
                 PROVE  out2[i].cb \notin calls
    BY DEF LastAsk
  <2>2. i + 1 < j + 1
    BY <1>1, <2>1
  <2> QED BY <1>1, <2>1, <2>2 DEF Fits, LastAsk
<1>4. out[1].cb \in calls => ~ Asked(out2, r)
  BY <1>1 DEF Fits, LastAsk, Asked
<1>5. out[1].cb \in calls => place # "away"
  BY <1>1 DEF Fits, AtHome
<1>6. Asked(out, r)
  BY <1>1 DEF Asked
<1>7. \A i \in DOMAIN back : back[i].cb \in calls => back[i].err # "ok"
  BY <1>6 DEF Fits, AnswerLast
<1>8. \A i \in DOMAIN out2 : out2[i].cb \in calls => place # "away"
  BY <1>1 DEF Fits, AtHome
<1> QED BY <1>2, <1>3, <1>4, <1>5, <1>6, <1>7, <1>8

\* luanch_role of a role that the game service does not have.
LEMMA FitsQueried ==
  ASSUME NEW r, NEW calls, NEW place, NEW broken, NEW out, NEW back, NEW queries, NEW out2,
         NEW query,
         Fits(r, calls, place, broken, out, back, queries, "absent"), Taken(out, out2),
         Asks(out[1], r), out[1].fn = "launch_role", query[1] = out[1].cb
  PROVE  Fits(r, calls, place, broken, out2, back, {query}, "load_from_db")
<1>1. /\ ReleaseSent(r, place, out2) /\ LastAsk(r, calls, out2)
      /\ out[1].cb \in calls => ~ Asked(out2, r) /\ place # "away"
      /\ \A i \in DOMAIN back : back[i].cb \in calls => back[i].err # "ok"
      /\ Asked(out2, r) => Asked(out, r)
      /\ \A i \in DOMAIN out2 : out2[i].cb \in calls => place # "away"
      /\ Asked(out, r)
  BY TakenFacts
<1>2. place \notin {"settled", "releasing"}
  BY DEF Fits, Holds, Taken
<1>3. Loading({query}, "load_from_db")
  BY DEF Loading
<1>4. Holds(r, place, out2, {query}, "load_from_db")
  BY <1>2 DEF Holds
<1>5. AtHome(calls, place, out2, back, {query})
  BY <1>1 DEF Fits, AtHome
<1>6. QueryLast(r, calls, out2, {query})
  BY <1>1 DEF QueryLast
<1>7. AnswerLast(r, calls, out2, back, {query}, "load_from_db")
  BY <1>1 DEF AnswerLast
<1>8. Housed(r, calls, place, broken, out2, back, {query}, "load_from_db")
  <2>1. SUFFICES ASSUME broken = 0
                 PROVE  /\ place # "away" /\ out[1].cb \in calls
                        /\ \A i \in DOMAIN out2 : Asks(out2[i], r) => out2[i].cb \in calls
                        /\ \A i \in DOMAIN back : back[i].cb \in calls => FALSE
    BY DEF Housed
  <2>2. out[1].cb \in calls /\ \A i \in DOMAIN out : Asks(out[i], r) => out[i].cb \in calls
    BY <2>1 DEF Fits, Housed, Taken
  <2>3. \A i \in DOMAIN out2 : Asks(out2[i], r) => out2[i].cb \in calls
    BY <2>2 DEF Taken
  <2>4. \A i \in DOMAIN back : back[i].cb \notin calls
    BY <1>1, <2>1 DEF Fits, Housed
  <2> QED BY <1>1, <2>2, <2>3, <2>4
<1> QED BY <1>1, <1>3, <1>4, <1>5, <1>6, <1>7, <1>8 DEF Fits

\* luanch_role of a role that the game service is loading: refused.
LEMMA FitsRefused ==
  ASSUME NEW r, NEW calls, NEW place, NEW broken, NEW out, NEW back, NEW queries, NEW out2, NEW back2, NEW a,
         Fits(r, calls, place, broken, out, back, queries, "load_from_db"), Taken(out, out2),
         Asks(out[1], r), a.cb = out[1].cb, a.err = "refused", Answers(back, a, back2)
  PROVE  Fits(r, calls, place, broken, out2, back2, queries, "load_from_db")
<1>1. /\ ReleaseSent(r, place, out2) /\ LastAsk(r, calls, out2)
      /\ out[1].cb \in calls => ~ Asked(out2, r) /\ place # "away"
      /\ \A i \in DOMAIN back : back[i].cb \in calls => back[i].err # "ok"
      /\ Asked(out2, r) => Asked(out, r)
      /\ \A i \in DOMAIN out2 : out2[i].cb \in calls => place # "away"
      /\ Asked(out, r)
  BY TakenFacts
<1>2. queries # {} /\ Loading(queries, "load_from_db")
  BY DEF Fits, Loading
<1>3. place \notin {"settled", "releasing"}
  BY <1>2 DEF Fits, Holds
<1>4. broken # 0
  BY <1>1, <1>2 DEF Fits, Housed, QueryLast
<1>5. AtHome(calls, place, out2, back2, queries)
  BY <1>1 DEF Fits, AtHome, Answers
<1>6. QueryLast(r, calls, out2, queries)
  BY <1>1 DEF Fits, QueryLast
<1>7. AnswerLast(r, calls, out2, back2, queries, "load_from_db")
  BY <1>1 DEF AnswerLast, Answers
<1> QED BY <1>1, <1>2, <1>3, <1>4, <1>5, <1>6, <1>7 DEF Fits, Holds, Housed

\* luanch_role of a role that is in game already, or release_role.
LEMMA FitsDone ==
  ASSUME NEW r, NEW calls, NEW place, NEW broken, NEW out, NEW back, NEW queries, NEW state, NEW state2,
         NEW out2, NEW back2, NEW a,
         Fits(r, calls, place, broken, out, back, queries, state), Taken(out, out2),
         Asks(out[1], r), a.cb = out[1].cb, a.err = "ok", Answers(back, a, back2),
         \/ /\ out[1].fn = "launch_role" /\ a.cb[1] = "_rpc_rsp_launch_role"
            /\ state = "in_game" /\ state2 = "in_game"
         \/ /\ out[1].fn = "release_role" /\ a.cb[1] # "_rpc_rsp_launch_role"
            /\ state2 = "absent"
  PROVE  Fits(r, calls, place, broken, out2, back2, queries, state2)
<1>1. /\ ReleaseSent(r, place, out2) /\ LastAsk(r, calls, out2)
      /\ out[1].cb \in calls => ~ Asked(out2, r) /\ place # "away"
      /\ \A i \in DOMAIN back : back[i].cb \in calls => back[i].err # "ok"
      /\ Asked(out2, r) => Asked(out, r)
      /\ \A i \in DOMAIN out2 : out2[i].cb \in calls => place # "away"
      /\ Asked(out, r)
  BY TakenFacts
<1>2. out[1].fn = "release_role" => place = "releasing"
  BY DEF Fits, ReleaseSent, Taken
<1>3. queries = {} /\ Loading(queries, state2)
  <2>1. CASE out[1].fn = "launch_role"
    BY <2>1 DEF Fits, Loading
  <2>2. CASE out[1].fn = "release_role"
    BY <1>2, <2>2 DEF Fits, Holds, Loading
  <2> QED BY <2>1, <2>2
<1>4. Holds(r, place, out2, queries, state2)
  <2>1. \A i \in DOMAIN out2 : place \in {"settled", "releasing"} /\ Asks(out2[i], r) => out2[i].fn = "release_role"
    BY DEF Fits, Holds, Taken
  <2> QED BY <1>2, <1>3, <2>1 DEF Holds
<1>5. AtHome(calls, place, out2, back2, queries)
  BY <1>1 DEF Fits, AtHome, Answers
<1>6. QueryLast(r, calls, out2, queries)
  BY <1>3 DEF QueryLast
<1>7. AnswerLast(r, calls, out2, back2, queries, state2)
  <2>1. SUFFICES ASSUME NEW i \in DOMAIN back2, back2[i].cb \in calls, back2[i].err = "ok"
                 PROVE  /\ ~ Asked(out2, r)
                        /\ state2 = IF back2[i].cb[1] = "_rpc_rsp_launch_role" THEN "in_game" ELSE "absent"
    BY <1>3 DEF AnswerLast
  <2>2. back2[i] = a
    BY <1>1, <2>1 DEF Answers
  <2> QED BY <1>1, <2>1, <2>2
<1>8. Housed(r, calls, place, broken, out2, back2, queries, state2)
  <2>1. SUFFICES ASSUME broken = 0
                 PROVE  /\ state2 # "absent" => place # "away"
                        /\ \A i \in DOMAIN out2 : Asks(out2[i], r) => out2[i].cb \in calls
                        /\ \A i \in DOMAIN back2 : back2[i].cb \in calls => back2[i].err = "ok"
    BY <1>3 DEF Housed
  <2>2. \A i \in DOMAIN out2 : Asks(out2[i], r) => out2[i].cb \in calls
    BY <2>1 DEF Fits, Housed, Taken
  <2>3. \A i \in DOMAIN back : back[i].cb \notin calls
    BY <1>1, <2>1 DEF Fits, Housed
  <2>4. state2 # "absent" => place # "away"
    BY <2>1 DEF Fits, Housed
  <2> QED BY <2>2, <2>3, <2>4 DEF Answers
<1> QED BY <1>1, <1>3, <1>4, <1>5, <1>6, <1>7, <1>8 DEF Fits

\* The database answers for the role.
LEMMA FitsLoaded ==
  ASSUME NEW r, NEW calls, NEW place, NEW broken, NEW out, NEW back, NEW queries, NEW state, NEW state2,
         NEW back2, NEW a, NEW query \in queries,
         Fits(r, calls, place, broken, out, back, queries, state),
         a.cb = query[1], a.cb[1] = "_rpc_rsp_launch_role", Answers(back, a, back2),
         \/ a.err = "ok" /\ state2 = "in_game"
         \/ a.err # "ok" /\ state2 = "absent"
  PROVE  Fits(r, calls, place, broken, out, back2, {}, state2)
<1>1. place \notin {"settled", "releasing"}
  BY DEF Fits, Holds
<1>2. \A i \in DOMAIN back : back[i].cb \in calls => back[i].err # "ok"
  BY DEF Fits, AnswerLast
<1>3. a.cb \in calls => ~ Asked(out, r) /\ place # "away"
  BY DEF Fits, QueryLast, AtHome
<1>4. Loading({}, state2)
  BY DEF Loading
<1>5. AtHome(calls, place, out, back2, {})
  BY <1>3 DEF Fits, AtHome, Answers
<1>6. AnswerLast(r, calls, out, back2, {}, state2)
  <2>1. SUFFICES ASSUME NEW i \in DOMAIN back2, back2[i].cb \in calls, back2[i].err = "ok"
                 PROVE  /\ ~ Asked(out, r)
                        /\ state2 = IF back2[i].cb[1] = "_rpc_rsp_launch_role" THEN "in_game" ELSE "absent"
    BY DEF AnswerLast
  <2>2. back2[i] = a
    BY <1>2, <2>1 DEF Answers
  <2> QED BY <1>3, <2>1, <2>2
<1>7. Housed(r, calls, place, broken, out, back2, {}, state2)
  <2>1. SUFFICES ASSUME broken = 0
                 PROVE  /\ state2 # "absent" => place # "away"
                        /\ \A i \in DOMAIN out : Asks(out[i], r) => out[i].cb \in calls
                        /\ \A i \in DOMAIN back2 : back2[i].cb \in calls /\ back2[i].err # "ok" =>
                             ~ Asked(out, r) /\ state2 = "absent"
    BY DEF Housed
  <2>2. /\ query[1] \in calls
        /\ \A i \in DOMAIN out : Asks(out[i], r) => out[i].cb \in calls
        /\ \A i \in DOMAIN back : back[i].cb \notin calls
    BY <1>2, <2>1 DEF Fits, Housed
  <2> QED BY <1>3, <2>2 DEF Answers
<1> QED BY <1>1, <1>4, <1>5, <1>6, <1>7 DEF Fits, ReleaseSent, LastAsk, Holds, QueryLast

-----------------------------------------------------------------------------
(***************************************************************************)
(* What the state says about role r on game service g, and the form of      *)
(* everything that is under way between it and the world.                  *)
(***************************************************************************)
CallsFor(r) == {cb \in wcalls : Aims(cb, r)}

QueriesFor(g, r) == {query \in loads[g] : query[2] = r}

Place(r, g) ==
  IF ~ Home(r, g) THEN "away"
  ELSE IF RoleOf(r).state = "releasing" THEN "releasing"
  ELSE IF Settled(r, g) THEN "settled" ELSE "launching"

GameSound(g, r) ==
  Fits(r, CallsFor(r), Place(r, g), faults, Out(g), Back(g), QueriesFor(g, r), roles[g][r].state)

LaunchOf(cb, n) == \E r \in Roles, i \in Ids : i <= n /\ cb = LaunchCb(i, r)
ReleaseOf(cb, n) == \E r \in Roles, i \in Ids : i <= n /\ cb = ReleaseCb(r, i)

IsRequest(m, g, s, k) ==
  \/ \E r \in Roles, i \in Ids : i <= s /\ m = Call(g, "launch_role", <<r>>, LaunchCb(i, r))
  \/ \E r \in Roles, i \in Ids : i <= k /\ m = Call(g, "release_role", <<r>>, ReleaseCb(r, i))
  \/ \E r \in Roles, c \in Clients \cup {None}, cb \in WorldCbs \cup {NoCb} :
       OtherCb(cb) /\ m = ChangeClient(g, r, c, cb)

IsAnswer(m, s, k) ==
  \E cb, e : /\ m = Answer(World, cb, e, 0) /\ e \in Errors
             /\ \/ LaunchOf(cb, s)
                \/ (ReleaseOf(cb, k) \/ OtherCb(cb)) /\ e = "ok"

IsQuery(query, s) == \E r \in Roles, i \in Ids : i <= s /\ query = <<LaunchCb(i, r), r>>

Formatted(g) ==
  /\ \A i \in DOMAIN Out(g) : IsRequest(Out(g)[i], g, last_session_id, last_opera_id)
  /\ \A i \in DOMAIN Back(g) : IsAnswer(Back(g)[i], last_session_id, last_opera_id)
  /\ \A query \in loads[g] : IsQuery(query, last_session_id)

GamesSound ==
  \A g \in Games : Formatted(g) /\ \A r \in Roles : GameSound(g, r)

\* A call about a role is about no other, and client_change calls are about none.
LEMMA AimsFacts ==
  /\ \A r \in Roles, i \in Ids : Aims(LaunchCb(i, r), r) /\ Aims(ReleaseCb(r, i), r)
  /\ \A cb, q, r, i : cb = LaunchCb(i, q) /\ Aims(cb, r) => q = r
  /\ \A cb, q, r, i : cb = ReleaseCb(q, i) /\ Aims(cb, r) => q = r
  /\ \A cb, r : OtherCb(cb) => ~ Aims(cb, r)
  /\ \A r, i : ~ OtherCb(LaunchCb(i, r)) /\ ~ OtherCb(ReleaseCb(r, i))
<1>1. \A r, i : /\ LaunchCb(i, r)[1] = "_rpc_rsp_launch_role"
                /\ ReleaseCb(r, i)[1] = "_rpc_rsp_try_release_role"
                /\ LaunchCb(i, r)[2] = i /\ LaunchCb(i, r)[3] = r
                /\ ReleaseCb(r, i)[2] = r /\ ReleaseCb(r, i)[3] = i
  BY DEF LaunchCb, ReleaseCb
<1>2. NoCb[1] = "nil"
  BY DEF NoCb
<1>3. \A r, i : ~ OtherCb(LaunchCb(i, r)) /\ ~ OtherCb(ReleaseCb(r, i))
  BY <1>1, <1>2 DEF OtherCb
<1>4. \A cb, r : OtherCb(cb) => ~ Aims(cb, r)
  BY <1>3 DEF Aims
<1>5. \A r \in Roles, i \in Ids : Aims(LaunchCb(i, r), r) /\ Aims(ReleaseCb(r, i), r)
  BY DEF Aims
<1>6. ASSUME NEW cb, NEW q, NEW r, NEW i, cb = LaunchCb(i, q), Aims(cb, r) PROVE q = r
  <2>1. PICK j \in Ids : cb = LaunchCb(j, r) \/ cb = ReleaseCb(r, j)
    BY <1>6 DEF Aims
  <2>2. cb[1] = "_rpc_rsp_launch_role" /\ cb[3] = q
    BY <1>1, <1>6
  <2> QED BY <1>1, <2>1, <2>2
<1>7. ASSUME NEW cb, NEW q, NEW r, NEW i, cb = ReleaseCb(q, i), Aims(cb, r) PROVE q = r
  <2>1. PICK j \in Ids : cb = LaunchCb(j, r) \/ cb = ReleaseCb(r, j)
    BY <1>7 DEF Aims
  <2>2. cb[1] = "_rpc_rsp_try_release_role" /\ cb[2] = q
    BY <1>1, <1>7
  <2> QED BY <1>1, <2>1, <2>2
<1> QED BY <1>3, <1>4, <1>5, <1>6, <1>7

\* The requests about a role are those of its calls.
LEMMA RequestKinds ==
  ASSUME NEW m, NEW g, NEW s, NEW k, IsRequest(m, g, s, k), NEW r \in Roles
  PROVE  /\ Asks(m, r) <=> Aims(m.cb, r)
         /\ Asks(m, r) /\ m.fn = "launch_role" =>
              \E i \in Ids : i <= s /\ m = Call(g, "launch_role", <<r>>, LaunchCb(i, r))
         /\ Asks(m, r) /\ m.fn = "release_role" =>
              \E i \in Ids : i <= k /\ m = Call(g, "release_role", <<r>>, ReleaseCb(r, i))
<1>1. ASSUME NEW q \in Roles, NEW i \in Ids, i <= s, m = Call(g, "launch_role", <<q>>, LaunchCb(i, q))
      PROVE  /\ Asks(m, r) <=> q = r
             /\ Aims(m.cb, r) <=> q = r
             /\ m.fn = "launch_role"
  <2>1. m.fn = "launch_role" /\ m.args[1] = q /\ m.cb = LaunchCb(i, q)
    BY <1>1 DEF Call
  <2> QED BY <2>1, AimsFacts DEF Asks
<1>2. ASSUME NEW q \in Roles, NEW i \in Ids, i <= k, m = Call(g, "release_role", <<q>>, ReleaseCb(q, i))
      PROVE  /\ Asks(m, r) <=> q = r
             /\ Aims(m.cb, r) <=> q = r
             /\ m.fn = "release_role"
  <2>1. m.fn = "release_role" /\ m.args[1] = q /\ m.cb = ReleaseCb(q, i)
    BY <1>2 DEF Call
  <2> QED BY <2>1, AimsFacts DEF Asks
<1>3. ASSUME NEW q, NEW c, NEW cb, OtherCb(cb), m = ChangeClient(g, q, c, cb)
      PROVE  ~ Asks(m, r) /\ ~ Aims(m.cb, r)
  <2>1. m.fn = "client_change" /\ m.cb = cb
    BY <1>3 DEF ChangeClient, Call
  <2> QED BY <1>3, <2>1, AimsFacts DEF Asks
<1>4. CASE \E q \in Roles, i \in Ids : i <= s /\ m = Call(g, "launch_role", <<q>>, LaunchCb(i, q))
  BY <1>1, <1>4
<1>5. CASE \E q \in Roles, i \in Ids : i <= k /\ m = Call(g, "release_role", <<q>>, ReleaseCb(q, i))
  BY <1>2, <1>5
<1>6. CASE \E q \in Roles, c \in Clients \cup {None}, cb \in WorldCbs \cup {NoCb} :
             OtherCb(cb) /\ m = ChangeClient(g, q, c, cb)
  BY <1>3, <1>6
<1> QED BY <1>4, <1>5, <1>6 DEF IsRequest

\* A call that is only now made has not been heard of.
LEMMA NewCallUnheard ==
  ASSUME WorldInv, NEW g \in Games, Formatted(g), NEW r \in Roles, NEW i \in Ids, NEW cb,
         \/ cb = LaunchCb(i, r) /\ last_session_id < i
         \/ cb = ReleaseCb(r, i) /\ last_opera_id < i
  PROVE  Unheard(cb, Out(g), Back(g), QueriesFor(g, r))
<1>1. last_session_id \in Nat /\ last_opera_id \in Nat /\ \A j \in Ids : j \in Nat
  BY NatCounters, IdFacts
<1>2. /\ \A q, j : LaunchCb(j, q) = cb => j = i /\ last_session_id < i
      /\ \A q, j : ReleaseCb(q, j) = cb => j = i /\ last_opera_id < i
      /\ ~ OtherCb(cb)
  <2>1. \A q, j : LaunchCb(j, q) # ReleaseCb(r, i) /\ ReleaseCb(q, j) # LaunchCb(i, r)
    BY DEF LaunchCb, ReleaseCb
  <2> QED BY <2>1, ClosuresDiffer, AimsFacts
<1>3. ASSUME NEW j \in DOMAIN Out(g) PROVE Out(g)[j].cb # cb
  <2>1. IsRequest(Out(g)[j], g, last_session_id, last_opera_id)
    BY DEF Formatted
  <2>2. \/ \E q \in Roles, n \in Ids : n <= last_session_id /\ Out(g)[j].cb = LaunchCb(n, q)
        \/ \E q \in Roles, n \in Ids : n <= last_opera_id /\ Out(g)[j].cb = ReleaseCb(q, n)
        \/ OtherCb(Out(g)[j].cb)
    <3>1. PICK m : m = Out(g)[j]
      OBVIOUS
    <3>2. \A a, b, c, d : Call(a, b, c, d).cb = d /\ ChangeClient(a, b, c, d).cb = d
      BY DEF Call, ChangeClient
    <3>3. CASE \E q \in Roles, n \in Ids : n <= last_session_id /\ m = Call(g, "launch_role", <<q>>, LaunchCb(n, q))
      <4>1. \E q \in Roles, n \in Ids : n <= last_session_id /\ m.cb = LaunchCb(n, q)
        BY <3>2, <3>3
      <4> QED BY <3>1, <4>1
    <3>4. CASE \E q \in Roles, n \in Ids : n <= last_opera_id /\ m = Call(g, "release_role", <<q>>, ReleaseCb(q, n))
      <4>1. \E q \in Roles, n \in Ids : n <= last_opera_id /\ m.cb = ReleaseCb(q, n)
        BY <3>2, <3>4
      <4> QED BY <3>1, <4>1
    <3>5. CASE \E q \in Roles, c \in Clients \cup {None}, d \in WorldCbs \cup {NoCb} :
                 OtherCb(d) /\ m = ChangeClient(g, q, c, d)
      <4>1. OtherCb(m.cb)
        BY <3>2, <3>5
      <4> QED BY <3>1, <4>1
    <3> QED BY <2>1, <3>1, <3>3, <3>4, <3>5 DEF IsRequest
  <2> QED BY <1>1, <1>2, <2>2
<1>4. ASSUME NEW j \in DOMAIN Back(g) PROVE Back(g)[j].cb # cb
  <2>1. IsAnswer(Back(g)[j], last_session_id, last_opera_id)
    BY DEF Formatted
  <2>2. \/ LaunchOf(Back(g)[j].cb, last_session_id) \/ ReleaseOf(Back(g)[j].cb, last_opera_id)
        \/ OtherCb(Back(g)[j].cb)
    <3>1. PICK m : m = Back(g)[j]
      OBVIOUS
    <3>2. \A a, b, c, d : Answer(a, b, c, d).cb = b
      BY DEF Answer
    <3> QED BY <2>1, <3>1, <3>2 DEF IsAnswer
  <2> QED BY <1>1, <1>2, <2>2 DEF LaunchOf, ReleaseOf
<1>5. ASSUME NEW query \in QueriesFor(g, r) PROVE query[1] # cb
  <2>1. IsQuery(query, last_session_id)
    BY DEF Formatted, QueriesFor
  <2> QED BY <1>1, <1>2, <2>1 DEF IsQuery
<1> QED BY <1>3, <1>4, <1>5 DEF Unheard

\* A role is at home on one game service alone.
LEMMA OnePlace ==
  /\ \A r, g, h : Place(r, g) # "away" /\ Place(r, h) # "away" => g = h
  /\ \A r, g : Place(r, g) # "away" <=> Home(r, g)
  /\ \A r, g : Place(r, g) = "releasing" <=> (Home(r, g) /\ RoleOf(r).state = "releasing")
  /\ \A r, g : Place(r, g) = "settled" <=> (Settled(r, g) /\ RoleOf(r).state # "releasing")
  /\ \A r, g : Place(r, g) \in {"away", "launching", "settled", "releasing"}
BY DEF Place, Home, Settled

\* What the world hears is taken from the links.
LEMMA HeardKeeps ==
  ASSUME Queues, Heard, NEW g \in Games, NEW calls PROVE BackKeeps(calls, Back(g), Back(g)')
<1>1. Back(g) \in Seq(ToSet(Back(g)))
  BY GameLinks
<1>2. CASE Back(g)' = Back(g)
  BY <1>2 DEF BackKeeps
<1>3. CASE Back(g) # <<>> /\ Back(g)' = Tail(Back(g))
  <2>1. \A i \in DOMAIN Tail(Back(g)) : i + 1 \in DOMAIN Back(g) /\ Tail(Back(g))[i] = Back(g)[i + 1]
    BY <1>1, <1>3, TailOf
  <2> QED BY <1>3, <2>1 DEF BackKeeps
<1> QED BY <1>2, <1>3 DEF Heard

\* What is said goes behind what is under way.
LEMMA SaysAdds ==
  ASSUME Queues, NEW g \in Games, NEW m, Says(g, m)
  PROVE  /\ Added(Out(g), m, Out(g)')
         /\ \A i \in DOMAIN Out(g)' :
              i \in Int /\ (Out(g)'[i] = m \/ (i \in DOMAIN Out(g) /\ Out(g)'[i] = Out(g)[i]))
<1>1. PICK s, t : s = Out(g) /\ t = Out(g)' /\ s \in Seq(ToSet(s)) /\ t = Append(s, m)
  BY GameLinks DEF Says
<1>2. Len(s) \in Nat /\ DOMAIN s = 1..Len(s) /\ DOMAIN t = 1..(Len(s) + 1)
      /\ (\A i \in 1..Len(s) : t[i] = s[i]) /\ t[Len(s) + 1] = m
  BY <1>1
<1>3. ASSUME NEW i \in DOMAIN t
      PROVE  /\ i \in Int
             /\ \/ i \in DOMAIN s /\ t[i] = s[i]
                \/ t[i] = m /\ \A j \in DOMAIN t : ~ (i < j)
  <2>1. i \in Int /\ (i \in 1..Len(s) \/ i = Len(s) + 1)
    BY <1>2
  <2>2. \A j \in 1..(Len(s) + 1) : ~ (Len(s) + 1 < j)
    BY <1>2
  <2>3. CASE i \in 1..Len(s)
    BY <1>2, <2>1, <2>3
  <2>4. CASE i = Len(s) + 1
    <3>1. t[i] = m /\ \A j \in DOMAIN t : ~ (i < j)
      BY ONLY <1>2, <2>2, <2>4
    <3> QED BY <2>1, <3>1
  <2> QED BY <2>1, <2>3, <2>4
<1>4. \A i \in DOMAIN s : i \in DOMAIN t /\ t[i] = s[i]
  BY <1>2
<1>5. Added(s, m, t)
  BY <1>3, <1>4 DEF Added
<1> QED BY <1>1, <1>3, <1>5

-----------------------------------------------------------------------------
(* The steps of the world keep what holds of the game services. *)

\* A step that asks nothing of the game service about role r keeps what is under
\* way about it.
LEMMA OutQuiet ==
  ASSUME Queues, NEW g \in Games, NEW r, NEW calls,
         \/ Out(g)' = Out(g)
         \/ \E m : Says(g, m) /\ ~ Asks(m, r) /\ m.cb \notin calls
  PROVE  OutKeeps(r, calls, Out(g), Out(g)')
<1>1. CASE Out(g)' = Out(g)
  <2>1. \A i \in DOMAIN Out(g) : i \in Int /\ i + 0 = i
    BY GameLinks
  <2> QED BY <1>1, <2>1 DEF OutKeeps
<1>2. CASE \E m : Says(g, m) /\ ~ Asks(m, r) /\ m.cb \notin calls
  <2>1. PICK m : Says(g, m) /\ ~ Asks(m, r) /\ m.cb \notin calls
    BY <1>2
  <2>2. \A i \in DOMAIN Out(g)' :
          i \in Int /\ i + 0 = i /\ (Out(g)'[i] = m \/ (i \in DOMAIN Out(g) /\ Out(g)'[i] = Out(g)[i]))
    <3>1. \A i \in DOMAIN Out(g)' :
            i \in Int /\ (Out(g)'[i] = m \/ (i \in DOMAIN Out(g) /\ Out(g)'[i] = Out(g)[i]))
      BY <2>1, SaysAdds
    <3>2. \A i \in Int : i + 0 = i
      OBVIOUS
    <3> QED BY <3>1, <3>2
  <2> QED BY <2>1, <2>2 DEF OutKeeps
<1> QED BY <1>1, <1>2

\* An answer to a call about role r comes from where the role is.
LEMMA AnsweredAtHome ==
  ASSUME Queues, GamesSound, NEW r \in Roles, NEW cb, Current(cb, r), NEW e, Answered(cb, e),
         NEW g \in Games
  PROVE  Place(r, g) # "away" =>
           \E i \in DOMAIN Back(g) : Back(g)[i].cb = cb /\ Back(g)[i].err = e
<1>1. PICK h \in Games : Back(h) # <<>> /\ Head(Back(h)) = Answer(World, cb, e, 0)
  BY DEF Answered
<1>2. 1 \in DOMAIN Back(h) /\ Head(Back(h)) = Back(h)[1]
  BY <1>1, HeadIn, GameLinks DEF Back
<1>3. Answer(World, cb, e, 0).cb = cb /\ Answer(World, cb, e, 0).err = e
  BY DEF Answer
<1>4. \E i \in DOMAIN Back(h) : Back(h)[i].cb = cb /\ Back(h)[i].err = e
  BY <1>1, <1>2, <1>3
<1>5. AtHome(CallsFor(r), Place(r, h), Out(h), Back(h), QueriesFor(h, r))
  BY DEF GamesSound, GameSound, Fits
<1>6. cb \in CallsFor(r)
  BY DEF Current, CallsFor
<1>7. Place(r, h) # "away"
  BY <1>4, <1>5, <1>6 DEF AtHome
<1> QED BY <1>4, <1>7, OnePlace

\* What the answer says of the state of the role there.
LEMMA AnsweredState ==
  ASSUME Queues, GamesSound, NEW r \in Roles, NEW cb, Current(cb, r), NEW e, Answered(cb, e),
         NEW g \in Games, Place(r, g) # "away", e = "ok" \/ faults = 0
  PROVE  /\ ~ Asked(Out(g), r) /\ QueriesFor(g, r) = {}
         /\ roles[g][r].state =
              IF e = "ok" /\ cb[1] = "_rpc_rsp_launch_role" THEN "in_game" ELSE "absent"
<1>1. PICK i \in DOMAIN Back(g) : Back(g)[i].cb = cb /\ Back(g)[i].err = e
  BY AnsweredAtHome
<1>2. cb \in CallsFor(r)
  BY DEF Current, CallsFor
<1>3. /\ AnswerLast(r, CallsFor(r), Out(g), Back(g), QueriesFor(g, r), roles[g][r].state)
      /\ Housed(r, CallsFor(r), Place(r, g), faults, Out(g), Back(g), QueriesFor(g, r), roles[g][r].state)
  BY DEF GamesSound, GameSound, Fits
<1>4. CASE e = "ok"
  BY <1>1, <1>2, <1>3, <1>4 DEF AnswerLast
<1>5. CASE e # "ok"
  BY <1>1, <1>2, <1>3, <1>5 DEF Housed
<1> QED BY <1>4, <1>5

\* The step does not concern role r.
LEMMA UntoldPlace ==
  ASSUME WorldInv, NEW r \in Roles, Untold(r), NEW g
  PROVE  CallsFor(r)' = CallsFor(r) /\ Place(r, g)' = Place(r, g)
<1>1. CallsFor(r)' = CallsFor(r)
  BY DEF Untold, CallsFor, Aims
<1>2. /\ Lives(r)' <=> Lives(r)
      /\ Lives(r) => /\ RoleOf(r)' = RoleOf(r)
                     /\ role_id_to_role'[r] = role_id_to_role[r]
                     /\ (ChangeCb(role_id_to_role[r]) \in wcalls') <=> (ChangeCb(role_id_to_role[r]) \in wcalls)
  BY DEF Untold, Lives, RoleOf
<1>3. Home(r, g)' <=> Home(r, g)
  BY <1>2 DEF Home
<1>4. Home(r, g) => (Settled(r, g)' <=> Settled(r, g))
  BY <1>2, <1>3 DEF Settled, Home
<1>5. Home(r, g) => RoleOf(r)'.state = RoleOf(r).state
  BY <1>2 DEF Home
<1> QED BY <1>1, <1>3, <1>4, <1>5 DEF Place

\* The facts about the counters of faults.
LEMMA FaultsFacts ==
  ASSUME GamesInv, GamesInv', faults <= faults'
  PROVE  faults' = 0 => faults = 0
BY ConstantsAssumption DEF GamesInv

\* Nothing that is said or done is about role r.
LEMMA UntoldKept ==
  ASSUME WorldInv, Queues, GamesSound, Heard, NEW r \in Roles, Untold(r), NEW g \in Games,
         UNCHANGED gameVars, faults' = 0 => faults = 0,
         \/ Out(g)' = Out(g)
         \/ \E m : Says(g, m) /\ ~ Asks(m, r) /\ m.cb \notin CallsFor(r)
  PROVE  GameSound(g, r)'
<1>1. CallsFor(r)' = CallsFor(r) /\ Place(r, g)' = Place(r, g)
  BY UntoldPlace
<1>2. OutKeeps(r, CallsFor(r), Out(g), Out(g)') /\ BackKeeps(CallsFor(r), Back(g), Back(g)')
  BY OutQuiet, HeardKeeps
<1>3. QueriesFor(g, r)' = QueriesFor(g, r) /\ roles'[g][r].state = roles[g][r].state
  BY DEF QueriesFor, gameVars
<1>4. Over(CallsFor(r), CallsFor(r), faults', Out(g), QueriesFor(g, r))
  BY DEF Over
<1>5. PlaceKeeps(r, Place(r, g), Place(r, g), Out(g), QueriesFor(g, r), roles[g][r].state)
  BY DEF PlaceKeeps
<1>6. GameSound(g, r)
  BY DEF GamesSound
<1>7. Fits(r, CallsFor(r), Place(r, g), faults', Out(g)', Back(g)', QueriesFor(g, r), roles[g][r].state)
  BY <1>2, <1>4, <1>5, <1>6, FitsKept DEF GameSound
<1> QED BY <1>1, <1>3, <1>7 DEF GameSound

\* Calls about role r that are over are no longer under way.
LEMMA EndedOver ==
  ASSUME WorldInv, Queues, GamesSound, NEW r \in Roles, NEW g \in Games, EndsCalls(r),
         faults' = 0 => faults = 0
  PROVE  Over(CallsFor(r), CallsFor(r)', faults', Out(g), QueriesFor(g, r))
<1> SUFFICES ASSUME faults' = 0, NEW cb \in CallsFor(r), cb \notin CallsFor(r)'
             PROVE  /\ \A i \in DOMAIN Out(g) : Out(g)[i].cb # cb
                    /\ \A query \in QueriesFor(g, r) : query[1] # cb
  BY DEF Over
<1>1. cb \in WorldCbs /\ Current(cb, r) /\ ~ Current(cb, r)'
  BY DEF CallsFor, Current, WorldInv, WTypeOK, Aims
<1>2. PICK e \in Errors : Answered(cb, e)
  BY <1>1 DEF EndsCalls
<1>3. CASE Place(r, g) = "away"
  BY <1>3 DEF GamesSound, GameSound, Fits, AtHome
<1>4. CASE Place(r, g) # "away"
  <2>1. ~ Asked(Out(g), r) /\ QueriesFor(g, r) = {}
    BY <1>1, <1>2, <1>4, AnsweredState
  <2>2. ASSUME NEW i \in DOMAIN Out(g), Out(g)[i].cb = cb PROVE FALSE
    <3>1. IsRequest(Out(g)[i], g, last_session_id, last_opera_id)
      BY DEF GamesSound, Formatted
    <3>2. Asks(Out(g)[i], r)
      BY <1>1, <2>2, <3>1, RequestKinds DEF Current
    <3> QED BY <2>1, <3>2 DEF Asked
  <2> QED BY <2>1, <2>2
<1> QED BY <1>3, <1>4

\* Role r stays where it is.
LEMMA TurnsKept ==
  ASSUME WorldInv, Queues, GamesSound, Heard, NEW r \in Roles, Turns(r), NEW g \in Games,
         UNCHANGED gameVars, faults' = 0 => faults = 0,
         \/ Out(g)' = Out(g)
         \/ \E m : Says(g, m) /\ ~ Asks(m, r) /\ m.cb \notin CallsFor(r),
         Settled(r, g)' => \/ Settled(r, g)
                           \/ \E s \in Ids : LaunchCb(s, r) \in wcalls /\ Answered(LaunchCb(s, r), "ok")
  PROVE  GameSound(g, r)'
<1>1. CallsFor(r)' \subseteq CallsFor(r)
  <2> SUFFICES ASSUME NEW cb \in CallsFor(r)' PROVE cb \in CallsFor(r)
    OBVIOUS
  <2>1. Current(cb, r)' /\ cb \in WorldCbs
    BY DEF CallsFor, Current, Aims, WorldCbs
  <2> QED BY <2>1 DEF Turns, CallsFor, Current
<1>2. OutKeeps(r, CallsFor(r), Out(g), Out(g)') /\ BackKeeps(CallsFor(r), Back(g), Back(g)')
  BY OutQuiet, HeardKeeps
<1>3. QueriesFor(g, r)' = QueriesFor(g, r) /\ roles'[g][r].state = roles[g][r].state
  BY DEF QueriesFor, gameVars
<1>4. Over(CallsFor(r), CallsFor(r)', faults', Out(g), QueriesFor(g, r))
  BY EndedOver DEF Turns
<1>5. PlaceKeeps(r, Place(r, g), Place(r, g)', Out(g), QueriesFor(g, r), roles[g][r].state)
  <2>1. /\ Home(r, g)' <=> Home(r, g)
        /\ Home(r, g) => ((RoleOf(r)'.state = "releasing") <=> (RoleOf(r).state = "releasing"))
    BY DEF Turns, Home
  <2>2. Settled(r, g)' => \/ Settled(r, g)
                          \/ /\ ~ Asked(Out(g), r) /\ QueriesFor(g, r) = {}
                             /\ roles[g][r].state = "in_game"
    <3>1. SUFFICES ASSUME NEW s \in Ids, LaunchCb(s, r) \in wcalls, Answered(LaunchCb(s, r), "ok"),
                          Settled(r, g)'
                   PROVE  /\ ~ Asked(Out(g), r) /\ QueriesFor(g, r) = {}
                          /\ roles[g][r].state = "in_game"
      OBVIOUS
    <3>2. Home(r, g)
      BY <2>1, <3>1 DEF Settled
    <3>3. Place(r, g) # "away"
      BY <3>2, OnePlace
    <3>4. Current(LaunchCb(s, r), r) /\ LaunchCb(s, r)[1] = "_rpc_rsp_launch_role"
      BY <3>1, AimsFacts, ClosuresDiffer DEF Current
    <3> QED BY <3>1, <3>3, <3>4, AnsweredState
  <2> QED BY <2>1, <2>2 DEF PlaceKeeps, Place
<1>6. GameSound(g, r)
  BY DEF GamesSound
<1>7. Fits(r, CallsFor(r)', Place(r, g)', faults', Out(g)', Back(g)', QueriesFor(g, r), roles[g][r].state)
  BY <1>1, <1>2, <1>4, <1>5, <1>6, FitsKept DEF GameSound
<1> QED BY <1>3, <1>7 DEF GameSound

\* The world has role q loaded.
LEMMA LaunchesKept ==
  ASSUME WorldInv, WorldInv', Sound, Queues, GamesSound, UNCHANGED gameVars,
         faults' = 0 => faults = 0, NEW q \in Roles, Launches(q), NEW g \in Games
  PROVE  GameSound(g, q)'
<1>1. PICK h \in Games, s \in Ids :
        /\ Says(h, Call(h, "launch_role", <<q>>, LaunchCb(s, q)))
        /\ last_session_id < s
        /\ ~ Lives(q) /\ role_id_to_role'[q] = s /\ objs'[s].game = h /\ objs'[s].state = "launch"
        /\ ChangeCb(s) \notin wcalls'
        /\ \A cb \in WorldCbs : Current(cb, q)' <=> cb = LaunchCb(s, q)
  BY DEF Launches
<1> DEFINE call == LaunchCb(s, q)
           m == Call(h, "launch_role", <<q>>, call)
<1>2. m.fn = "launch_role" /\ m.cb = call
  BY DEF Call
<1>3. CallsFor(q) = {}
  <2>1. \A i \in Ids : LaunchCb(i, q) \notin wcalls
    BY <1>1, IdFacts DEF Sound, LaunchSound, Lives
  <2>2. \A i \in Ids : ReleaseCb(q, i) \notin wcalls
    BY <1>1 DEF Sound, ReleaseSound
  <2> QED BY <2>1, <2>2 DEF CallsFor, Aims
<1>4. CallsFor(q)' = {call}
  <2>1. \A cb \in WorldCbs : cb \in wcalls' /\ Aims(cb, q) <=> cb = call
    BY <1>1 DEF Current, Aims
  <2>2. call \in WorldCbs
    BY DEF WorldCbs
  <2>3. wcalls' \subseteq WorldCbs
    BY DEF WorldInv, WTypeOK
  <2>4. \A cb : cb \in wcalls' /\ Aims(cb, q)' <=> cb = call
    <3>1. \A cb : Aims(cb, q)' <=> Aims(cb, q)
      BY DEF Aims
    <3> HIDE DEF call
    <3> QED BY <2>1, <2>2, <2>3, <3>1
  <2> HIDE DEF call
  <2> QED BY <2>4 DEF CallsFor
<1>5. Place(q, g) = "away"
  BY <1>1, OnePlace DEF Home
<1>6. Place(q, g)' = IF g = h THEN "launching" ELSE "away"
  <2>1. Lives(q)' /\ RoleOf(q)' = objs'[s]
    BY <1>1, IdFacts DEF Lives, RoleOf
  <2>2. Home(q, g)' <=> g = h
    BY <1>1, <2>1 DEF Home
  <2>3. ~ Settled(q, g)'
    BY <1>1, <2>1 DEF Settled
  <2> QED BY <1>1, <2>1, <2>2, <2>3 DEF Place
<1>7. QueriesFor(g, q)' = QueriesFor(g, q) /\ roles'[g][q].state = roles[g][q].state
  BY DEF QueriesFor, gameVars
<1>8. Unheard(call, Out(g), Back(g), QueriesFor(g, q))
  BY <1>1, NewCallUnheard DEF GamesSound
<1>9. BackKeeps({call}, Back(g), Back(g)')
  BY <1>1, HeardKeeps DEF Says
<1>10. Fits(q, {}, "away", faults, Out(g), Back(g), QueriesFor(g, q), roles[g][q].state)
  BY <1>3, <1>5 DEF GamesSound, GameSound
<1>11. Fits(q, {call}, Place(q, g)', faults', Out(g)', Back(g)', QueriesFor(g, q), roles[g][q].state)
  <2> HIDE DEF call
  <2>1. CASE g = h
    <3>1. Added(Out(g), m, Out(g)')
      BY <1>1, <2>1, SaysAdds DEF call
    <3> HIDE DEF m
    <3> QED BY <1>2, <1>6, <1>8, <1>9, <1>10, <2>1, <3>1, FitsLaunched
  <2>2. CASE g # h
    <3>1. Out(g)' = Out(g)
      BY <1>1, <2>2 DEF Says
    <3> QED BY <1>6, <1>8, <1>9, <1>10, <2>2, <3>1, FitsElsewhere
  <2> QED BY <2>1, <2>2
<1> QED BY <1>4, <1>7, <1>11 DEF GameSound

\* The world has role q released.
LEMMA ReleasesKept ==
  ASSUME WorldInv, WorldInv', Sound, Queues, GamesSound, UNCHANGED gameVars,
         faults' = 0 => faults = 0, NEW q \in Roles, Releases(q), NEW g \in Games
  PROVE  GameSound(g, q)'
<1>1. PICK h \in Games, k \in Ids :
        /\ Says(h, Call(h, "release_role", <<q>>, ReleaseCb(q, k)))
        /\ last_opera_id < k
        /\ Home(q, h) /\ \A p \in Games : Home(q, p)' <=> Home(q, p)
        /\ RoleOf(q)'.state = "releasing"
        /\ RoleOf(q).state \in {"using", "idle"} \/ (RoleOf(q).state = "releasing" /\ faults' # 0)
        /\ \A cb \in WorldCbs : Current(cb, q)' <=> cb = ReleaseCb(q, k)
  BY DEF Releases
<1> DEFINE call == ReleaseCb(q, k)
           m == Call(h, "release_role", <<q>>, call)
<1>2. m.fn = "release_role" /\ m.cb = call
  BY DEF Call
<1>3. faults' = 0 => CallsFor(q) = {}
  <2> SUFFICES ASSUME faults' = 0 PROVE CallsFor(q) = {}
    OBVIOUS
  <2>1. Lives(q) /\ RoleOf(q).state \in {"using", "idle"}
    BY <1>1 DEF Home
  <2> QED BY <2>1, NoCalls DEF CallsFor, Aims
<1>4. CallsFor(q)' = {call}
  <2>1. \A cb \in WorldCbs : cb \in wcalls' /\ Aims(cb, q) <=> cb = call
    BY <1>1 DEF Current, Aims
  <2>2. call \in WorldCbs
    BY DEF WorldCbs
  <2>3. wcalls' \subseteq WorldCbs
    BY DEF WorldInv, WTypeOK
  <2>4. \A cb : cb \in wcalls' /\ Aims(cb, q)' <=> cb = call
    <3>1. \A cb : Aims(cb, q)' <=> Aims(cb, q)
      BY DEF Aims
    <3> HIDE DEF call
    <3> QED BY <2>1, <2>2, <2>3, <3>1
  <2> HIDE DEF call
  <2> QED BY <2>4 DEF CallsFor
<1>5. g # h => Place(q, g) = "away" /\ Place(q, g)' = "away"
  <2>1. g # h => ~ Home(q, g)
    BY <1>1 DEF Home
  <2> QED BY <1>1, <2>1 DEF Place
<1>6. /\ Place(q, h) \in {"settled", "releasing"} /\ Place(q, h)' = "releasing"
      /\ faults' = 0 => Place(q, h) = "settled"
  <2>1. Settled(q, h)
    BY <1>1 DEF Settled
  <2> QED BY <1>1, <2>1 DEF Place
<1>7. QueriesFor(g, q)' = QueriesFor(g, q) /\ roles'[g][q].state = roles[g][q].state
  BY DEF QueriesFor, gameVars
<1>8. Unheard(call, Out(g), Back(g), QueriesFor(g, q))
  BY <1>1, NewCallUnheard DEF GamesSound
<1>9. BackKeeps({call}, Back(g), Back(g)')
  BY <1>1, HeardKeeps DEF Says
<1>10. Fits(q, CallsFor(q), Place(q, g), faults, Out(g), Back(g), QueriesFor(g, q), roles[g][q].state)
  BY DEF GamesSound, GameSound
<1>11. Fits(q, {call}, Place(q, g)', faults', Out(g)', Back(g)', QueriesFor(g, q), roles[g][q].state)
  <2> HIDE DEF call
  <2>1. CASE g = h
    <3>1. Added(Out(g), m, Out(g)')
      BY <1>1, <2>1, SaysAdds DEF call
    <3>2. /\ Place(q, g) \in {"settled", "releasing"} /\ Place(q, g)' = "releasing"
          /\ faults' = 0 => Place(q, g) = "settled"
      BY <1>6, <2>1
    <3> HIDE DEF m
    <3>3. Fits(q, {call}, "releasing", faults', Out(g)', Back(g)', QueriesFor(g, q), roles[g][q].state)
      BY <1>2, <1>3, <1>8, <1>9, <1>10, <3>1, <3>2, FitsReleased
    <3> QED BY <3>2, <3>3
  <2>2. CASE g # h
    <3>1. Out(g)' = Out(g)
      BY <1>1, <2>2 DEF Says
    <3>2. Place(q, g) = "away" /\ Place(q, g)' = "away"
      BY <1>5, <2>2
    <3>3. Fits(q, {call}, "away", faults', Out(g), Back(g)', QueriesFor(g, q), roles[g][q].state)
      BY <1>3, <1>8, <1>9, <1>10, <3>2, FitsElsewhere
    <3> QED BY <3>1, <3>2, <3>3
  <2> QED BY <2>1, <2>2
<1> QED BY <1>4, <1>7, <1>11 DEF GameSound

\* The world gives up role q.
LEMMA ForgetsKept ==
  ASSUME WorldInv, Sound, Queues, GamesSound, UNCHANGED gameVars,
         faults' = 0 => faults = 0, NEW q \in Roles, Forgets(q), NEW g \in Games
  PROVE  GameSound(g, q)'
<1>1. /\ Heard /\ Out(g)' = Out(g) /\ ~ Lives(q)' /\ Lives(q)
      /\ \A cb \in WorldCbs : ~ Current(cb, q)'
      /\ \/ /\ RoleOf(q).state = "launch"
            /\ \/ faults' # 0
               \/ \E s \in Ids, e \in Errors :
                    e # "ok" /\ LaunchCb(s, q) \in wcalls /\ Answered(LaunchCb(s, q), e)
         \/ /\ RoleOf(q).state = "releasing"
            /\ \E k \in Ids : ReleaseCb(q, k) \in wcalls /\ Answered(ReleaseCb(q, k), "ok")
  BY DEF Forgets, Mute
<1>2. CallsFor(q)' = {}
  <2>1. \A cb : Aims(cb, q)' => cb \in WorldCbs
    BY DEF Aims, WorldCbs
  <2>2. \A cb \in WorldCbs : ~ (cb \in wcalls' /\ Aims(cb, q)')
    BY <1>1 DEF Current
  <2> QED BY <2>1, <2>2 DEF CallsFor
<1>3. Place(q, g)' = "away"
  BY <1>1 DEF Place, Home
<1>4. QueriesFor(g, q)' = QueriesFor(g, q) /\ roles'[g][q].state = roles[g][q].state
  BY DEF QueriesFor, gameVars
<1>5. BackKeeps({}, Back(g), Back(g)')
  BY <1>1, HeardKeeps
<1>6. Fits(q, CallsFor(q), Place(q, g), faults, Out(g), Back(g), QueriesFor(g, q), roles[g][q].state)
  BY DEF GamesSound, GameSound
<1>7. Place(q, g) # "away" /\ (Place(q, g) = "releasing" \/ faults' = 0) =>
        roles[g][q].state = "absent" /\ QueriesFor(g, q) = {} /\ ~ Asked(Out(g), q)
  <2> SUFFICES ASSUME Place(q, g) # "away", Place(q, g) = "releasing" \/ faults' = 0
               PROVE  roles[g][q].state = "absent" /\ QueriesFor(g, q) = {} /\ ~ Asked(Out(g), q)
    OBVIOUS
  <2>1. CASE \E k \in Ids : ReleaseCb(q, k) \in wcalls /\ Answered(ReleaseCb(q, k), "ok")
    <3>1. PICK k \in Ids : ReleaseCb(q, k) \in wcalls /\ Answered(ReleaseCb(q, k), "ok")
      BY <2>1
    <3>2. Current(ReleaseCb(q, k), q) /\ ReleaseCb(q, k)[1] # "_rpc_rsp_launch_role"
      BY <3>1, AimsFacts, ClosuresDiffer DEF Current
    <3> QED BY <3>1, <3>2, AnsweredState
  <2>2. CASE RoleOf(q).state = "launch"
    <3>1. faults' = 0
      BY <2>2, OnePlace
    <3>2. faults = 0
      BY <3>1
    <3>3. CASE \E s \in Ids, e \in Errors :
                 e # "ok" /\ LaunchCb(s, q) \in wcalls /\ Answered(LaunchCb(s, q), e)
      <4>1. PICK s \in Ids, e \in Errors :
                 e # "ok" /\ LaunchCb(s, q) \in wcalls /\ Answered(LaunchCb(s, q), e)
        BY <3>3
      <4>2. Current(LaunchCb(s, q), q)
        BY <4>1, AimsFacts DEF Current
      <4> QED BY <3>2, <4>1, <4>2, AnsweredState
    <3>4. CASE RoleOf(q).state = "releasing"
      BY <2>2, <3>4
    <3> QED BY <1>1, <3>1, <3>3, <3>4
  <2> QED BY <1>1, <2>1, <2>2
<1>8. Place(q, g) = "away" /\ faults = 0 =>
        roles[g][q].state = "absent" /\ QueriesFor(g, q) = {} /\ ~ Asked(Out(g), q)
  BY <1>6 DEF Fits, Housed, Loading, AtHome, Asked
<1>9. Fits(q, {}, "away", faults', Out(g), Back(g)', QueriesFor(g, q), roles[g][q].state)
  <2> DEFINE gone == roles[g][q].state = "absent" /\ QueriesFor(g, q) = {} /\ ~ Asked(Out(g), q)
  <2>1. Place(q, g) = "releasing" => ~ Asked(Out(g), q)
    BY <1>7
  <2>2. faults' = 0 => gone
    BY <1>7, <1>8
  <2> QED BY <1>5, <1>6, <2>1, <2>2, FitsForgotten
<1> QED BY <1>1, <1>2, <1>3, <1>4, <1>9 DEF GameSound

\* The counters of ids grow.
LEMMA FormGrows ==
  ASSUME NEW s \in Nat, NEW k \in Nat, NEW s2 \in Nat, NEW k2 \in Nat, s <= s2, k <= k2, NEW g
  PROVE  /\ \A m : IsRequest(m, g, s, k) => IsRequest(m, g, s2, k2)
         /\ \A m : IsAnswer(m, s, k) => IsAnswer(m, s2, k2)
         /\ \A query : IsQuery(query, s) => IsQuery(query, s2)
<1>1. \A i \in Ids : (i <= s => i <= s2) /\ (i <= k => i <= k2)
  BY ConstantsAssumption DEF Ids
<1>2. \A cb : (LaunchOf(cb, s) => LaunchOf(cb, s2)) /\ (ReleaseOf(cb, k) => ReleaseOf(cb, k2))
  BY <1>1 DEF LaunchOf, ReleaseOf
<1>3. \A m : IsAnswer(m, s, k) => IsAnswer(m, s2, k2)
  BY <1>2 DEF IsAnswer
<1>4. \A query : IsQuery(query, s) => IsQuery(query, s2)
  BY <1>1 DEF IsQuery
<1>5. ASSUME NEW m, IsRequest(m, g, s, k) PROVE IsRequest(m, g, s2, k2)
  <2>1. CASE \E r \in Roles, i \in Ids : i <= s /\ m = Call(g, "launch_role", <<r>>, LaunchCb(i, r))
    <3>1. \E r \in Roles, i \in Ids : i <= s2 /\ m = Call(g, "launch_role", <<r>>, LaunchCb(i, r))
      BY <1>1, <2>1
    <3> QED BY <3>1 DEF IsRequest
  <2>2. CASE \E r \in Roles, i \in Ids : i <= k /\ m = Call(g, "release_role", <<r>>, ReleaseCb(r, i))
    <3>1. \E r \in Roles, i \in Ids : i <= k2 /\ m = Call(g, "release_role", <<r>>, ReleaseCb(r, i))
      BY <1>1, <2>2
    <3> QED BY <3>1 DEF IsRequest
  <2>3. CASE \E r \in Roles, c \in Clients \cup {None}, cb \in WorldCbs \cup {NoCb} :
               OtherCb(cb) /\ m = ChangeClient(g, r, c, cb)
    BY <2>3 DEF IsRequest
  <2> QED BY <1>5, <2>1, <2>2, <2>3 DEF IsRequest
<1> QED BY <1>3, <1>4, <1>5

\* The world takes answers, and says what has the form.
LEMMA WorldForms ==
  ASSUME WorldInv, WorldInv', Queues, NEW g \in Games, Formatted(g), Heard, CountersGrow,
         UNCHANGED gameVars,
         \/ Out(g)' = Out(g)
         \/ \E m : Says(g, m) /\ IsRequest(m, g, last_session_id', last_opera_id')
  PROVE  Formatted(g)'
<1> DEFINE s == last_session_id
           k == last_opera_id
           s2 == last_session_id'
           k2 == last_opera_id'
<1>1. s \in Nat /\ k \in Nat /\ s2 \in Nat /\ k2 \in Nat /\ s <= s2 /\ k <= k2
  <2>1. s2 \in Nat /\ k2 \in Nat
    BY ConstantsAssumption DEF WorldInv, WTypeOK, IdOrNil
  <2> QED BY <2>1, NatCounters DEF CountersGrow
<1>2. /\ \A m : IsRequest(m, g, s, k) => IsRequest(m, g, s2, k2)
      /\ \A m : IsAnswer(m, s, k) => IsAnswer(m, s2, k2)
      /\ \A query : IsQuery(query, s) => IsQuery(query, s2)
  <2> HIDE DEF s, k, s2, k2
  <2> QED BY <1>1, FormGrows
<1>3. \A i \in DOMAIN Out(g)' : IsRequest(Out(g)'[i], g, s2, k2)
  <2>1. CASE Out(g)' = Out(g)
    BY <1>2, <2>1 DEF Formatted
  <2>2. CASE \E m : Says(g, m) /\ IsRequest(m, g, s2, k2)
    <3>1. PICK m : Says(g, m) /\ IsRequest(m, g, s2, k2)
      BY <2>2
    <3>2. \A i \in DOMAIN Out(g)' : Out(g)'[i] = m \/ (i \in DOMAIN Out(g) /\ Out(g)'[i] = Out(g)[i])
      BY <3>1, SaysAdds
    <3> QED BY <1>2, <3>1, <3>2 DEF Formatted
  <2> QED BY <2>1, <2>2
<1>4. \A i \in DOMAIN Back(g)' : IsAnswer(Back(g)'[i], s2, k2)
  <2>1. \A i \in DOMAIN Back(g)' : \E j \in DOMAIN Back(g) : Back(g)'[i] = Back(g)[j]
    <3>1. BackKeeps({Back(g)'[i].cb : i \in DOMAIN Back(g)'}, Back(g), Back(g)')
      BY HeardKeeps
    <3> QED BY <3>1 DEF BackKeeps
  <2> QED BY <1>2, <2>1 DEF Formatted
<1>5. \A query \in loads'[g] : IsQuery(query, s2)
  BY <1>2 DEF Formatted, gameVars
<1> QED BY <1>3, <1>4, <1>5 DEF Formatted

\* Told its client, a game service is not asked for a role.
LEMMA TellsFacts ==
  ASSUME NEW g, NEW q \in Roles, NEW c \in Clients \cup {None}, NEW cb \in WorldCbs \cup {NoCb},
         OtherCb(cb), NEW s, NEW k
  PROVE  /\ \A r : /\ ~ Asks(ChangeClient(g, q, c, cb), r)
                   /\ ChangeClient(g, q, c, cb).cb \notin CallsFor(r)
         /\ IsRequest(ChangeClient(g, q, c, cb), g, s, k)
<1>1. ChangeClient(g, q, c, cb).cb = cb /\ ChangeClient(g, q, c, cb).fn = "client_change"
  BY DEF ChangeClient, Call
<1>2. \A r : cb \notin CallsFor(r)
  BY AimsFacts DEF CallsFor
<1> QED BY <1>1, <1>2 DEF Asks, IsRequest

\* Every step of the world keeps the game services sound.
LEMMA WorldGames ==
  ASSUME WorldInv, WorldInv', GamesInv, GamesInv', Sound, Queues, GamesSound,
         UNCHANGED gameVars, WorldShapes
  PROVE  GamesSound'
<1> SUFFICES ASSUME NEW g \in Games
             PROVE  Formatted(g)' /\ \A r \in Roles : GameSound(g, r)'
  BY DEF GamesSound
<1>1. CountersGrow /\ (faults' = 0 => faults = 0) /\ Formatted(g)
  BY FaultsFacts DEF WorldShapes, GamesSound
<1>2. CASE Mutely
  <2>1. Heard /\ Out(g)' = Out(g)
    BY <1>2 DEF Mutely, Mute
  <2>2. Formatted(g)'
    BY <1>1, <2>1, WorldForms
  <2>3. ASSUME NEW r \in Roles PROVE GameSound(g, r)'
    BY <1>1, <1>2, <2>1, TurnsKept DEF Mutely
  <2> QED BY <2>2, <2>3
<1>3. ASSUME NEW q \in Roles, Tells(q) PROVE Formatted(g)' /\ \A r \in Roles : GameSound(g, r)'
  <2>1. PICK h \in Games, c \in Clients \cup {None}, cb \in WorldCbs \cup {NoCb} :
          /\ Says(h, ChangeClient(h, q, c, cb)) /\ OtherCb(cb)
          /\ Home(q, h)
          /\ Settled(q, h) \/ \E s \in Ids : LaunchCb(s, q) \in wcalls /\ Answered(LaunchCb(s, q), "ok")
          /\ Turns(q) /\ OthersUntold(q)
    BY <1>3 DEF Tells
  <2>2. Heard
    BY <2>1 DEF Says
  <2>3. ASSUME NEW r
        PROVE  \/ Out(g)' = Out(g)
               \/ \E m : Says(g, m) /\ ~ Asks(m, r) /\ m.cb \notin CallsFor(r)
    <3>1. CASE g = h
      BY <2>1, <3>1, TellsFacts
    <3>2. CASE g # h
      BY <2>1, <3>2 DEF Says
    <3> QED BY <3>1, <3>2
  <2>4. \/ Out(g)' = Out(g)
        \/ \E m : Says(g, m) /\ IsRequest(m, g, last_session_id', last_opera_id')
    <3>1. CASE g = h
      BY <2>1, <3>1, TellsFacts
    <3>2. CASE g # h
      BY <2>1, <3>2 DEF Says
    <3> QED BY <3>1, <3>2
  <2>5. Formatted(g)'
    BY <1>1, <2>2, <2>4, WorldForms
  <2>6. GameSound(g, q)'
    <3>1. Settled(q, g)' => g = h
      <4>1. Settled(q, g)' => Home(q, g)
        BY <2>1 DEF Settled, Turns
      <4> QED BY <2>1, <4>1 DEF Home
    <3>2. Settled(q, g)' => \/ Settled(q, g)
                            \/ \E s \in Ids : LaunchCb(s, q) \in wcalls /\ Answered(LaunchCb(s, q), "ok")
      BY <2>1, <3>1
    <3> QED BY <1>1, <2>1, <2>2, <2>3, <3>2, TurnsKept
  <2>7. ASSUME NEW r \in Roles, r # q PROVE GameSound(g, r)'
    BY <1>1, <2>1, <2>2, <2>3, <2>7, UntoldKept DEF OthersUntold
  <2> QED BY <2>5, <2>6, <2>7
<1>4. ASSUME NEW q \in Roles, Launches(q) PROVE Formatted(g)' /\ \A r \in Roles : GameSound(g, r)'
  <2>1. PICK h \in Games, s \in Ids :
          /\ Says(h, Call(h, "launch_role", <<q>>, LaunchCb(s, q)))
          /\ s <= last_session_id' /\ OthersUntold(q)
    BY <1>4 DEF Launches
  <2>2. PICK m : m = Call(h, "launch_role", <<q>>, LaunchCb(s, q)) /\ Says(h, m) /\ Heard
    BY <2>1 DEF Says
  <2>3. IsRequest(m, h, last_session_id', last_opera_id')
    BY <2>1, <2>2 DEF IsRequest
  <2>4. ASSUME NEW r \in Roles, r # q PROVE ~ Asks(m, r) /\ m.cb \notin CallsFor(r)
    <3>1. m.args[1] = q /\ m.cb = LaunchCb(s, q)
      BY <2>2 DEF Call
    <3> QED BY <2>4, <3>1, AimsFacts DEF Asks, CallsFor
  <2>5. g # h => Out(g)' = Out(g)
    BY <2>2 DEF Says
  <2>6. Formatted(g)'
    BY <1>1, <2>2, <2>3, <2>5, WorldForms
  <2>7. ASSUME NEW r \in Roles, r # q PROVE GameSound(g, r)'
    <3>1. Untold(r)
      BY <2>1, <2>7 DEF OthersUntold
    <3>2. Out(g)' = Out(g) \/ Says(g, m)
      BY <2>2, <2>5
    <3> QED BY <1>1, <2>2, <2>4, <2>7, <3>1, <3>2, UntoldKept
  <2> QED BY <1>1, <1>4, <2>6, <2>7, LaunchesKept
<1>5. ASSUME NEW q \in Roles, Releases(q) PROVE Formatted(g)' /\ \A r \in Roles : GameSound(g, r)'
  <2>1. PICK h \in Games, k \in Ids :
          /\ Says(h, Call(h, "release_role", <<q>>, ReleaseCb(q, k)))
          /\ k <= last_opera_id' /\ OthersUntold(q)
    BY <1>5 DEF Releases
  <2>2. PICK m : m = Call(h, "release_role", <<q>>, ReleaseCb(q, k)) /\ Says(h, m) /\ Heard
    BY <2>1 DEF Says
  <2>3. IsRequest(m, h, last_session_id', last_opera_id')
    BY <2>1, <2>2 DEF IsRequest
  <2>4. ASSUME NEW r \in Roles, r # q PROVE ~ Asks(m, r) /\ m.cb \notin CallsFor(r)
    <3>1. m.args[1] = q /\ m.cb = ReleaseCb(q, k)
      BY <2>2 DEF Call
    <3> QED BY <2>4, <3>1, AimsFacts DEF Asks, CallsFor
  <2>5. g # h => Out(g)' = Out(g)
    BY <2>2 DEF Says
  <2>6. Formatted(g)'
    BY <1>1, <2>2, <2>3, <2>5, WorldForms
  <2>7. ASSUME NEW r \in Roles, r # q PROVE GameSound(g, r)'
    <3>1. Untold(r)
      BY <2>1, <2>7 DEF OthersUntold
    <3>2. Out(g)' = Out(g) \/ Says(g, m)
      BY <2>2, <2>5
    <3> QED BY <1>1, <2>2, <2>4, <2>7, <3>1, <3>2, UntoldKept
  <2> QED BY <1>1, <1>5, <2>6, <2>7, ReleasesKept
<1>6. ASSUME NEW q \in Roles, Forgets(q) PROVE Formatted(g)' /\ \A r \in Roles : GameSound(g, r)'
  <2>1. Heard /\ Out(g)' = Out(g) /\ OthersUntold(q)
    BY <1>6 DEF Forgets, Mute
  <2>2. Formatted(g)'
    BY <1>1, <2>1, WorldForms
  <2>3. ASSUME NEW r \in Roles, r # q PROVE GameSound(g, r)'
    BY <1>1, <2>1, <2>3, UntoldKept DEF OthersUntold
  <2> QED BY <1>1, <1>6, <2>2, <2>3, ForgetsKept
<1> QED BY <1>2, <1>3, <1>4, <1>5, <1>6 DEF WorldShapes

-----------------------------------------------------------------------------
(* The steps of the gates, and broken connections, leave the game services   *)
(* alone.                                                                  *)

\* The world has the same calls and places when its variables stay.
LEMMA WorldSame ==
  ASSUME UNCHANGED worldVars, NEW r, NEW g
  PROVE  CallsFor(r)' = CallsFor(r) /\ Place(r, g)' = Place(r, g)
BY DEF worldVars, CallsFor, Aims, Place, Home, Settled, Lives, RoleOf

\* What is under way may be lost.
LEMMA LinksLost ==
  ASSUME WorldInv, Queues, GamesSound, UNCHANGED worldVars, UNCHANGED gameVars,
         faults' = 0 => faults = 0,
         \A g \in Games : /\ Out(g)' = Out(g) \/ Out(g)' = <<>>
                          /\ Back(g)' = Back(g) \/ Back(g)' = <<>>
  PROVE  GamesSound'
<1> SUFFICES ASSUME NEW g \in Games
             PROVE  Formatted(g)' /\ \A r \in Roles : GameSound(g, r)'
  BY DEF GamesSound
<1>1. DOMAIN <<>> = {}
  OBVIOUS
<1>2. /\ \A i \in DOMAIN Out(g)' : i \in DOMAIN Out(g) /\ Out(g)'[i] = Out(g)[i]
      /\ \A i \in DOMAIN Back(g)' : i \in DOMAIN Back(g) /\ Back(g)'[i] = Back(g)[i]
  BY <1>1
<1>3. Formatted(g)'
  <2>1. Formatted(g) /\ loads' = loads /\ last_session_id' = last_session_id
        /\ last_opera_id' = last_opera_id
    BY DEF GamesSound, worldVars, gameVars
  <2> QED BY <1>2, <2>1 DEF Formatted
<1>4. ASSUME NEW r \in Roles PROVE GameSound(g, r)'
  <2>1. CallsFor(r)' = CallsFor(r) /\ Place(r, g)' = Place(r, g)
    BY WorldSame
  <2>2. QueriesFor(g, r)' = QueriesFor(g, r) /\ roles'[g][r].state = roles[g][r].state
    BY DEF QueriesFor, gameVars
  <2>3. OutKeeps(r, CallsFor(r), Out(g), Out(g)')
    <3>1. \A i \in DOMAIN Out(g)' : i \in Int /\ i + 0 = i
      BY <1>2, GameLinks
    <3> QED BY <1>2, <3>1 DEF OutKeeps
  <2>4. BackKeeps(CallsFor(r), Back(g), Back(g)')
    BY <1>2 DEF BackKeeps
  <2>5. /\ Over(CallsFor(r), CallsFor(r), faults', Out(g), QueriesFor(g, r))
        /\ PlaceKeeps(r, Place(r, g), Place(r, g), Out(g), QueriesFor(g, r), roles[g][r].state)
    BY DEF Over, PlaceKeeps
  <2>6. GameSound(g, r)
    BY DEF GamesSound
  <2>7. Fits(r, CallsFor(r), Place(r, g), faults', Out(g)', Back(g)', QueriesFor(g, r), roles[g][r].state)
    BY <2>3, <2>4, <2>5, <2>6, FitsKept DEF GameSound
  <2> QED BY <2>1, <2>2, <2>7 DEF GameSound
<1> QED BY <1>3, <1>4

\* What a gate sends and takes goes over other links.
LEMMA GateDelivers ==
  ASSUME Queues, NEW gate \in Gates, NEW in, NEW outs, Deliver(in, gate, outs),
         in = NoLink \/ in = <<World, gate>>, NEW g \in Games
  PROVE  Out(g)' = Out(g) /\ Back(g)' = Back(g)
<1>1. <<World, g>> \in Links /\ <<g, World>> \in Links
  BY GameLinks
<1>2. <<World, g>> # in /\ <<g, World>> # in /\ gate # World /\ gate # g
  BY ConstantsAssumption DEF NoLink
<1>3. net'[<<World, g>>] = net[<<World, g>>] \o <<>> /\ net'[<<g, World>>] = net[<<g, World>>] \o <<>>
  BY <1>1, <1>2 DEF Deliver
<1>4. Out(g) \o <<>> = Out(g) /\ Back(g) \o <<>> = Back(g)
  BY GameLinks
<1> QED BY <1>3, <1>4 DEF Out, Back

\* The steps of the gates, faults of the links, and stuttering lose at most what
\* is under way, and that only by a fault.
LEMMA GatesLinks ==
  ASSUME GTypeOK, GamesInv, GamesInv', Queues,
         \/ GateClientStep \/ GateAnswered \/ GateIgnores \/ GateKicks \/ GateExpire
         \/ Break \/ UNCHANGED vars
  PROVE  /\ UNCHANGED worldVars /\ UNCHANGED gameVars /\ (faults' = 0 => faults = 0)
         /\ \A g \in Games : \/ Out(g)' = Out(g) /\ Back(g)' = Back(g)
                            \/ /\ faults' # 0 /\ Out(g)' \in {Out(g), <<>>}
                               /\ Back(g)' \in {Back(g), <<>>}
<1>1. UNCHANGED worldVars /\ UNCHANGED gameVars
  BY DEF GateClientStep, GateAnswered, GateIgnores, GateKicks, GateExpire, Break, GateRuns,
         vars, worldVars, gameVars
<1>2. ASSUME NEW gate \in Gates, NEW in, NEW outs, Deliver(in, gate, outs),
             in = NoLink \/ in = <<World, gate>>
      PROVE  \A g \in Games : Out(g)' = Out(g) /\ Back(g)' = Back(g)
  BY <1>2, GateDelivers
<1>3. UNCHANGED net => \A g \in Games : Out(g)' = Out(g) /\ Back(g)' = Back(g)
  BY DEF Out, Back
<1>4. \A c \in Clients : GateOf[c] \in Gates
  BY ConstantsAssumption
<1>5. CASE GateClientStep
  <2>1. PICK c \in Clients :
          \/ OnNewCnn(c) \/ ReqUserLogin(c) \/ UserLoginOver(c)
          \/ \E r \in Roles : ReqLaunchRole(c, r) \/ ReqReconnect(c, r)
          \/ ReconnectAuthed(c) \/ ReqLogoutRole(c)
          \/ OnCloseCnn(c)
    BY <1>5 DEF GateClientStep
  <2>2. UNCHANGED net \/ \E outs : Deliver(NoLink, GateOf[c], outs)
    <3>1. CASE OnNewCnn(c) \/ ReqUserLogin(c) \/ UserLoginOver(c)
      BY <3>1 DEF OnNewCnn, ReqUserLogin, UserLoginOver, Moves
    <3>2. CASE \E r \in Roles : ReqLaunchRole(c, r) \/ ReqReconnect(c, r)
      BY <3>2 DEF ReqLaunchRole, ReqReconnect, CallsWorld
    <3>3. CASE ReconnectAuthed(c)
      BY <3>3 DEF ReconnectAuthed, Moves, CallsWorld
    <3>4. CASE ReqLogoutRole(c)
      BY <3>4 DEF ReqLogoutRole, CallsWorld
    <3>5. CASE OnCloseCnn(c)
      BY <3>5 DEF OnCloseCnn
    <3> QED BY <2>1, <3>1, <3>2, <3>3, <3>4, <3>5
  <2>3. \A g \in Games : Out(g)' = Out(g) /\ Back(g)' = Back(g)
    BY <1>2, <1>3, <1>4, <2>2
  <2>4. faults' = faults
    BY <1>5 DEF GateClientStep
  <2> QED BY <1>1, <2>3, <2>4
<1>6. CASE GateAnswered \/ GateExpire
  <2>1. PICK cb \in gcalls : \E in : /\ in = NoLink \/ in = <<World, GateOf[cb[2]]>>
                                     /\ Deliver(in, GateOf[cb[2]], <<>>)
    BY <1>6 DEF GateAnswered, GateExpire, GateRuns
  <2>2. cb[2] \in Clients
    BY DEF GTypeOK, GateCbs, GateCb
  <2>3. \A g \in Games : Out(g)' = Out(g) /\ Back(g)' = Back(g)
    BY <1>2, <1>4, <2>1, <2>2
  <2>4. faults <= faults'
    <3>1. faults \in Nat
      BY ConstantsAssumption DEF GamesInv
    <3>2. faults' = faults \/ faults' = faults + 1
      BY <1>6 DEF GateAnswered, GateExpire, SpendFault
    <3> QED BY <3>1, <3>2
  <2>5. faults' = 0 => faults = 0
    BY <2>4, FaultsFacts
  <2> QED BY <1>1, <2>3, <2>5
<1>7. CASE GateIgnores
  <2>1. PICK gate \in Gates : Deliver(<<World, gate>>, gate, <<>>)
    BY <1>7 DEF GateIgnores
  <2>2. \A g \in Games : Out(g)' = Out(g) /\ Back(g)' = Back(g)
    BY <1>2, <2>1
  <2>3. faults' = faults
    BY <1>7 DEF GateIgnores
  <2> QED BY <1>1, <2>2, <2>3
<1>8. CASE GateKicks
  <2>1. PICK c \in Clients : Deliver(<<World, GateOf[c]>>, GateOf[c], <<>>)
    BY <1>8 DEF GateKicks, OnKickClient
  <2>2. \A g \in Games : Out(g)' = Out(g) /\ Back(g)' = Back(g)
    BY <1>2, <1>4, <2>1
  <2>3. faults' = faults
    BY <1>8 DEF GateKicks
  <2> QED BY <1>1, <2>2, <2>3
<1>9. CASE Break
  <2>1. PICK l \in Links : net' = [net EXCEPT ![l] = <<>>] /\ faults' = faults + 1
    BY <1>9 DEF Break, Disconnect
  <2>2. ASSUME NEW k \in Links PROVE net'[k] = net[k] \/ net'[k] = <<>>
    BY <2>1 DEF Queues
  <2>3. \A g \in Games : Out(g)' \in {Out(g), <<>>} /\ Back(g)' \in {Back(g), <<>>}
    BY <2>2, GameLinks DEF Out, Back
  <2>4. faults' # 0
    BY <2>1, ConstantsAssumption DEF GamesInv
  <2> QED BY <1>1, <2>3, <2>4
<1>10. CASE UNCHANGED vars
  <2>1. UNCHANGED net /\ faults' = faults
    BY <1>10 DEF vars
  <2> QED BY <1>1, <1>3, <2>1
<1> QED BY <1>5, <1>6, <1>7, <1>8, <1>9, <1>10

\* So they keep the game services sound.
LEMMA GatesGames ==
  ASSUME GTypeOK, WorldInv, GamesInv, GamesInv', Queues, GamesSound,
         \/ GateClientStep \/ GateAnswered \/ GateIgnores \/ GateKicks \/ GateExpire
         \/ Break \/ UNCHANGED vars
  PROVE  GamesSound'
<1>1. \A g \in Games : Out(g)' \in {Out(g), <<>>} /\ Back(g)' \in {Back(g), <<>>}
  BY GatesLinks
<1> QED BY <1>1, GatesLinks, LinksLost

-----------------------------------------------------------------------------
(* The steps of the game services. *)

\* What a step of game service g does to the links: it takes a request or
\* not, and answers a or nothing.
GameMoves(g, a) ==
  /\ Out(g)' = Out(g) \/ Taken(Out(g), Out(g)')
  /\ Answers(Back(g), a, Back(g)')
  /\ \A h \in Games : h # g => Out(h)' = Out(h) /\ Back(h)' = Back(h)

\* What a game service takes off its link, whatever it answers.
LEMMA GameTakes ==
  ASSUME Queues, NEW g \in Games, NEW in, NEW outs, Deliver(in, g, outs),
         in = NoLink \/ (in = <<World, g>> /\ Out(g) # <<>>)
  PROVE  /\ \A h \in Games : h # g \/ in = NoLink => Out(h)' = Out(h)
         /\ in # NoLink => /\ Taken(Out(g), Out(g)')
                           /\ \A i \in DOMAIN Out(g) : i = 1 \/ \E j \in DOMAIN Out(g)' : j + 1 = i
<1>1. \A h \in Games : <<World, h>> \in Links /\ h # World
  BY GameLinks
<1>2. \A h \in Games : Out(h)' = (IF <<World, h>> = in THEN Tail(Out(h)) ELSE Out(h)) \o <<>>
  BY <1>1 DEF Deliver, Out
<1>3. \A h \in Games : Out(h) \o <<>> = Out(h)
  BY GameLinks
<1>4. \A h \in Games : h # g \/ in = NoLink => <<World, h>> # in
  BY ConstantsAssumption DEF NoLink
<1>5. ASSUME in = <<World, g>>, Out(g) # <<>>
      PROVE  /\ Taken(Out(g), Out(g)')
             /\ \A i \in DOMAIN Out(g) : i = 1 \/ \E j \in DOMAIN Out(g)' : j + 1 = i
  <2>1. PICK s : s = Out(g) /\ s \in Seq(ToSet(s)) /\ s # <<>>
    BY <1>5, GameLinks
  <2>2. /\ 1 \in DOMAIN s /\ Tail(s) \in Seq(ToSet(s))
        /\ \A i \in DOMAIN Tail(s) : i + 1 \in DOMAIN s /\ Tail(s)[i] = s[i + 1] /\ i \in Nat /\ i # 0
    BY <2>1, TailOf
  <2>3. Out(g)' = Tail(s)
    BY <1>2, <1>5, <2>1, <2>2
  <2>4. \A i \in Nat : i # 0 => i \in Int /\ 1 < i + 1
    OBVIOUS
  <2>5. Len(s) \in Nat /\ DOMAIN s = 1..Len(s) /\ DOMAIN Tail(s) = 1..(Len(s) - 1)
    BY <2>1
  <2>6. \A i \in 1..Len(s) : i # 1 => i - 1 \in 1..(Len(s) - 1) /\ (i - 1) + 1 = i
    BY <2>5
  <2> QED BY <2>1, <2>2, <2>3, <2>4, <2>5, <2>6 DEF Taken
<1> QED BY <1>2, <1>3, <1>4, <1>5

\* What a step of game service g does to the links, when it answers the world or
\* says nothing.
LEMMA GameDelivers ==
  ASSUME Queues, NEW g \in Games, NEW in, NEW a, a.to = World,
         Deliver(in, g, <<>>) \/ Deliver(in, g, <<a>>),
         in = NoLink \/ (in = <<World, g>> /\ Out(g) # <<>>)
  PROVE  /\ GameMoves(g, a)
         /\ in = NoLink => Out(g)' = Out(g)
         /\ in # NoLink => Taken(Out(g), Out(g)')
         /\ Deliver(in, g, <<>>) => Back(g)' = Back(g)
<1>1. \A h \in Games : /\ <<World, h>> \in Links /\ <<h, World>> \in Links /\ h # World
                       /\ <<h, World>> # in
  BY GameLinks, ConstantsAssumption DEF NoLink
<1>2. PICK outs : Deliver(in, g, outs) /\ outs \in {<<>>, <<a>>}
  OBVIOUS
<1>3. SentTo(outs, World) \in {<<>>, <<a>>}
  <2>1. SentTo(<<>>, World) = <<>> /\ SentTo(<<a>>, World) = <<a>>
    BY SentFew
  <2> QED BY <1>2, <2>1
<1>4. /\ \A h \in Games : h # g \/ in = NoLink => Out(h)' = Out(h)
      /\ in # NoLink => Taken(Out(g), Out(g)')
  BY <1>2, GameTakes
<1>5. \A h \in Games : Back(h)' = Back(h) \o (IF h = g THEN SentTo(outs, World) ELSE <<>>)
  BY <1>1, <1>2 DEF Deliver, Back
<1>6. \A h \in Games : Back(h) \o <<>> = Back(h)
  BY GameLinks
<1>7. \A h \in Games : h # g => Out(h)' = Out(h) /\ Back(h)' = Back(h)
  BY <1>4, <1>5, <1>6
<1>8. Answers(Back(g), a, Back(g)')
  <2>1. PICK b, t : b = Back(g) /\ t = SentTo(outs, World) /\ b \in Seq(ToSet(b))
    BY GameLinks
  <2>2. Back(g)' = b \o t
    BY <1>5, <2>1
  <2>3. \A i \in DOMAIN (b \o t) : (\E j \in DOMAIN b : (b \o t)[i] = b[j]) \/ (b \o t)[i] = a
    <3>1. CASE t = <<>>
      <4>1. b \o t = b
        BY <2>1, <3>1
      <4> QED BY <4>1
    <3>2. CASE t = <<a>>
      <4>1. b \o <<a>> = Append(b, a) /\ Len(b) \in Nat /\ DOMAIN b = 1..Len(b)
        BY <2>1
      <4>2. /\ DOMAIN Append(b, a) = 1..(Len(b) + 1)
            /\ \A i \in 1..Len(b) : Append(b, a)[i] = b[i]
            /\ Append(b, a)[Len(b) + 1] = a
        BY <2>1
      <4>3. \A i \in 1..(Len(b) + 1) : i \in 1..Len(b) \/ i = Len(b) + 1
        BY <4>1
      <4> QED BY <3>2, <4>1, <4>2, <4>3
    <3> QED BY <1>3, <2>1, <3>1, <3>2
  <2> QED BY <2>1, <2>2, <2>3 DEF Answers
<1>9. Deliver(in, g, <<>>) => Back(g)' = Back(g)
  <2>1. SUFFICES ASSUME Deliver(in, g, <<>>) PROVE Back(g)' = Back(g)
    OBVIOUS
  <2>2. Back(g)' = Back(g) \o SentTo(<<>>, World)
    BY <1>1, <2>1 DEF Deliver, Back
  <2> QED BY <1>6, <2>2, SentFew
<1> QED BY <1>4, <1>7, <1>8, <1>9 DEF GameMoves

\* A step of game service g that does not concern role r.
LEMMA GameOthers ==
  ASSUME Queues, GamesSound, UNCHANGED worldVars, faults' = faults,
         NEW g \in Games, NEW a, GameMoves(g, a), NEW h \in Games, NEW r \in Roles,
         h = g => a.cb \notin CallsFor(r),
         QueriesFor(h, r)' = QueriesFor(h, r), roles'[h][r].state = roles[h][r].state
  PROVE  GameSound(h, r)'
<1>1. CallsFor(r)' = CallsFor(r) /\ Place(r, h)' = Place(r, h)
  BY WorldSame
<1>2. OutKeeps(r, CallsFor(r), Out(h), Out(h)')
  <2>1. CASE Out(h)' = Out(h)
    BY <2>1, OutQuiet
  <2>2. CASE Taken(Out(h), Out(h)')
    BY <2>2 DEF Taken, OutKeeps
  <2> QED BY <2>1, <2>2 DEF GameMoves
<1>3. BackKeeps(CallsFor(r), Back(h), Back(h)')
  BY DEF GameMoves, Answers, BackKeeps
<1>4. /\ Over(CallsFor(r), CallsFor(r), faults', Out(h), QueriesFor(h, r))
      /\ PlaceKeeps(r, Place(r, h), Place(r, h), Out(h), QueriesFor(h, r), roles[h][r].state)
  BY DEF Over, PlaceKeeps
<1>5. GameSound(h, r)
  BY DEF GamesSound
<1>6. Fits(r, CallsFor(r), Place(r, h), faults', Out(h)', Back(h)', QueriesFor(h, r), roles[h][r].state)
  BY <1>2, <1>3, <1>4, <1>5, FitsKept DEF GameSound
<1> QED BY <1>1, <1>6 DEF GameSound

\* The forms, after a step of game service g.
LEMMA GameForms ==
  ASSUME GamesSound, UNCHANGED worldVars, NEW g \in Games, NEW a, GameMoves(g, a),
         IsAnswer(a, last_session_id, last_opera_id), NEW h \in Games,
         \A query \in loads'[h] : query \in loads[h] \/ IsQuery(query, last_session_id)
  PROVE  Formatted(h)'
<1>1. Formatted(h) /\ last_session_id' = last_session_id /\ last_opera_id' = last_opera_id
  BY DEF GamesSound, worldVars
<1>2. \A i \in DOMAIN Out(h)' : \E j \in DOMAIN Out(h) : Out(h)'[i] = Out(h)[j]
  BY DEF GameMoves, Taken
<1>3. \A i \in DOMAIN Back(h)' : (\E j \in DOMAIN Back(h) : Back(h)'[i] = Back(h)[j]) \/ Back(h)'[i] = a
  BY DEF GameMoves, Answers
<1> QED BY <1>1, <1>2, <1>3 DEF Formatted

\* The head of a request link.
LEMMA RequestHead ==
  ASSUME Queues, NEW g \in Games, NEW m, Arrives(World, g, m)
  PROVE  Out(g) # <<>> /\ 1 \in DOMAIN Out(g) /\ Out(g)[1] = m
BY HeadIn, GameLinks DEF Arrives, Out

\* luanch_role
LEMMA GameLaunches ==
  ASSUME GamesInv, Queues, GamesSound, UNCHANGED worldVars, faults' = faults, GameLaunchRole
  PROVE  GamesSound'
<1>1. PICK g \in Games, q \in Roles, s \in Ids :
        /\ Arrives(World, g, Call(g, "launch_role", <<q>>, LaunchCb(s, q)))
        /\ LuanchRole(<<World, g>>, g, LaunchCb(s, q), q)
  BY DEF GameLaunchRole
<1> DEFINE cb == LaunchCb(s, q)
           old == roles[g][q].state
<1>2. Out(g) # <<>> /\ 1 \in DOMAIN Out(g) /\ Out(g)[1] = Call(g, "launch_role", <<q>>, cb)
  BY <1>1, RequestHead
<1>3. Asks(Out(g)[1], q) /\ Out(g)[1].fn = "launch_role" /\ Out(g)[1].cb = cb
  BY <1>2 DEF Asks, Call
<1>4. s <= last_session_id
  <2>1. IsRequest(Out(g)[1], g, last_session_id, last_opera_id)
    BY <1>2 DEF GamesSound, Formatted
  <2>2. PICK i \in Ids : i <= last_session_id /\ Out(g)[1] = Call(g, "launch_role", <<q>>, LaunchCb(i, q))
    BY <1>3, <2>1, RequestKinds
  <2>3. LaunchCb(i, q) = cb
    BY <1>3, <2>2 DEF Call
  <2> QED BY <2>2, <2>3, ClosuresDiffer
<1>5. cb[1] = "_rpc_rsp_launch_role" /\ \A r \in Roles : r # q => cb \notin CallsFor(r)
  BY ClosuresDiffer, AimsFacts DEF CallsFor
<1>6. roles[g][q] \in GameRole /\ DOMAIN roles = Games /\ DOMAIN roles[g] = Roles /\ DOMAIN loads = Games
      /\ \A h \in Games : roles[h] \in [Roles -> GameRole]
  BY DEF GamesInv, MTypeOK
<1>7. old \in {"absent", "load_from_db", "in_game"}
  BY <1>6 DEF GameRole
<1>8. /\ Fits(q, CallsFor(q), Place(q, g), faults, Out(g), Back(g), QueriesFor(g, q), old)
      /\ CallsFor(q)' = CallsFor(q) /\ Place(q, g)' = Place(q, g)
  BY WorldSame DEF GamesSound, GameSound
<1>9. ASSUME NEW e, NEW a, a = Answer(World, cb, e, 0), e \in Errors, GameMoves(g, a),
             GameSound(g, q)',
             \A h \in Games, r \in Roles : h # g \/ r # q =>
               QueriesFor(h, r)' = QueriesFor(h, r) /\ roles'[h][r].state = roles[h][r].state,
             \A h \in Games : \A query \in loads'[h] : query \in loads[h] \/ IsQuery(query, last_session_id)
      PROVE  GamesSound'
  <2>1. a.cb = cb /\ IsAnswer(a, last_session_id, last_opera_id)
    BY <1>4, <1>9 DEF Answer, IsAnswer, LaunchOf
  <2>2. ASSUME NEW h \in Games PROVE Formatted(h)'
    BY <1>9, <2>1, GameForms
  <2>3. ASSUME NEW h \in Games, NEW r \in Roles, h # g \/ r # q PROVE GameSound(h, r)'
    BY <1>5, <1>9, <2>1, <2>3, GameOthers
  <2> QED BY <1>9, <2>2, <2>3 DEF GamesSound
<1>10. \A e : Answer(World, cb, e, 0).to = World /\ Answer(World, cb, e, 0).cb = cb
              /\ Answer(World, cb, e, 0).err = e
  BY DEF Answer
<1>11. CASE /\ old = "absent"
            /\ roles' = [roles EXCEPT ![g][q].state = "load_from_db"]
            /\ loads' = [loads EXCEPT ![g] = @ \cup {<<cb, q>>}]
            /\ Deliver(<<World, g>>, g, <<>>)
  <2>1. PICK a : a = Answer(World, cb, "ok", 0) /\ a.to = World
    BY <1>10
  <2>2. GameMoves(g, a) /\ Taken(Out(g), Out(g)') /\ Back(g)' = Back(g)
    <3>1. <<World, g>> # NoLink
      BY ConstantsAssumption DEF NoLink
    <3>2. PICK in : in = <<World, g>>
      OBVIOUS
    <3>3. in # NoLink /\ Deliver(in, g, <<>>)
      BY <1>11, <3>1, <3>2
    <3> HIDE DEF cb, old
    <3> QED BY <1>2, <2>1, <3>2, <3>3, GameDelivers
  <2>3. /\ roles'[g][q].state = "load_from_db"
        /\ \A h \in Games, r \in Roles : h # g \/ r # q => roles'[h][r].state = roles[h][r].state
    BY <1>6, <1>11
  <2>4. QueriesFor(g, q) = {}
    BY <1>8, <1>11 DEF Fits, Loading
  <2>5. QueriesFor(g, q)' = {<<cb, q>>}
    <3>1. loads'[g] = loads[g] \cup {<<cb, q>>} /\ <<cb, q>>[2] = q
      BY <1>6, <1>11
    <3> HIDE DEF cb
    <3> QED BY <2>4, <3>1 DEF QueriesFor
  <2>6. \A h \in Games, r \in Roles : h # g \/ r # q => QueriesFor(h, r)' = QueriesFor(h, r)
    <3>1. /\ \A h \in Games : h # g => loads'[h] = loads[h]
          /\ loads'[g] = loads[g] \cup {<<cb, q>>} /\ <<cb, q>>[2] = q
      BY <1>6, <1>11
    <3> HIDE DEF cb
    <3> QED BY <3>1 DEF QueriesFor
  <2>7. \A h \in Games : \A query \in loads'[h] : query \in loads[h] \/ IsQuery(query, last_session_id)
    <3>1. IsQuery(<<cb, q>>, last_session_id)
      BY <1>4 DEF IsQuery
    <3>2. \A h \in Games : loads'[h] = loads[h] \/ loads'[h] = loads[h] \cup {<<cb, q>>}
      BY <1>6, <1>11
    <3> HIDE DEF cb
    <3> QED BY <3>1, <3>2
  <2>8. GameSound(g, q)'
    <3>1. PICK query : query = <<cb, q>> /\ query[1] = cb
      <4> HIDE DEF cb
      <4>1. <<cb, q>>[1] = cb
        OBVIOUS
      <4> QED BY <4>1
    <3>2. Fits(q, CallsFor(q), Place(q, g), faults, Out(g)', Back(g), {query}, "load_from_db")
      <4> HIDE DEF cb
      <4> QED BY <1>3, <1>8, <1>11, <2>2, <3>1, FitsQueried
    <3> QED BY <1>8, <2>2, <2>3, <2>5, <3>1, <3>2 DEF GameSound
  <2>9. "ok" \in Errors
    BY DEF Errors
  <2> HIDE DEF cb, old
  <2> QED BY <1>9, <2>1, <2>2, <2>3, <2>6, <2>7, <2>8, <2>9 DEF cb
<1>12. ASSUME NEW e \in {"refused", "ok"}, Deliver(<<World, g>>, g, <<Answer(World, cb, e, 0)>>),
              UNCHANGED gameVars,
              \/ old = "load_from_db" /\ e = "refused"
              \/ old = "in_game" /\ e = "ok"
       PROVE  GamesSound'
  <2>1. PICK a : a = Answer(World, cb, e, 0) /\ a.to = World /\ a.cb = cb /\ a.err = e
    BY <1>10
  <2>2. GameMoves(g, a) /\ Taken(Out(g), Out(g)')
    BY <1>2, <1>12, <2>1, GameDelivers, GameLinks, ConstantsAssumption DEF NoLink
  <2>3. Answers(Back(g), a, Back(g)')
    BY <2>2 DEF GameMoves
  <2>4. \A h \in Games, r \in Roles : /\ QueriesFor(h, r)' = QueriesFor(h, r)
                                      /\ roles'[h][r].state = roles[h][r].state
    BY <1>12 DEF gameVars, QueriesFor
  <2>5. \A h \in Games : \A query \in loads'[h] : query \in loads[h]
    BY <1>12 DEF gameVars
  <2>6. Fits(q, CallsFor(q), Place(q, g), faults, Out(g)', Back(g)', QueriesFor(g, q), old)
    <3> HIDE DEF cb, old
    <3>1. CASE old = "load_from_db" /\ e = "refused"
      BY <1>3, <1>8, <2>1, <2>2, <2>3, <3>1, FitsRefused
    <3>2. CASE old = "in_game" /\ e = "ok"
      BY <1>3, <1>5, <1>8, <2>1, <2>2, <2>3, <3>2, FitsDone
    <3> QED BY <1>12, <3>1, <3>2
  <2>7. GameSound(g, q)'
    BY <1>8, <2>4, <2>6 DEF GameSound
  <2>8. e \in Errors
    BY DEF Errors
  <2> HIDE DEF cb, old
  <2> QED BY <1>9, <2>1, <2>2, <2>4, <2>5, <2>7, <2>8 DEF cb
<1>13. \/ /\ old = "absent"
          /\ roles' = [roles EXCEPT ![g][q].state = "load_from_db"]
          /\ loads' = [loads EXCEPT ![g] = @ \cup {<<cb, q>>}]
          /\ Deliver(<<World, g>>, g, <<>>)
       \/ /\ old = "load_from_db"
          /\ Deliver(<<World, g>>, g, <<Answer(World, cb, "refused", 0)>>)
          /\ UNCHANGED gameVars
       \/ /\ old = "in_game"
          /\ Deliver(<<World, g>>, g, <<Answer(World, cb, "ok", 0)>>)
          /\ UNCHANGED gameVars
  BY <1>1 DEF LuanchRole
<1> HIDE DEF cb, old
<1> QED BY <1>11, <1>12, <1>13

\* _db_rsp_launch_role: the role is still loading.
LEMMA GameLoads ==
  ASSUME GamesInv, Queues, GamesSound, UNCHANGED worldVars, faults' = faults, GameDbRsp
  PROVE  GamesSound'
<1>1. PICK g \in Games : \E load \in loads[g] : DbRspLaunchRole(g, load[1], load[2])
  BY DEF GameDbRsp
<1>2. PICK load \in loads[g] : DbRspLaunchRole(g, load[1], load[2])
  BY <1>1
<1>3. PICK q \in Roles, s \in Ids : s <= last_session_id /\ load = <<LaunchCb(s, q), q>>
  BY DEF GamesSound, Formatted, IsQuery
<1> DEFINE cb == LaunchCb(s, q)
           old == roles[g][q].state
<1>4. load = <<cb, q>> /\ load[1] = cb /\ load[2] = q /\ DbRspLaunchRole(g, cb, q)
  BY <1>2, <1>3
<1>5. cb[1] = "_rpc_rsp_launch_role" /\ \A r \in Roles : r # q => cb \notin CallsFor(r)
  BY ClosuresDiffer, AimsFacts DEF CallsFor
<1>6. roles[g][q] \in GameRole /\ DOMAIN roles = Games /\ DOMAIN roles[g] = Roles /\ DOMAIN loads = Games
      /\ \A h \in Games : roles[h] \in [Roles -> GameRole]
  BY DEF GamesInv, MTypeOK
<1>7. /\ Fits(q, CallsFor(q), Place(q, g), faults, Out(g), Back(g), QueriesFor(g, q), old)
      /\ CallsFor(q)' = CallsFor(q) /\ Place(q, g)' = Place(q, g)
  BY WorldSame DEF GamesSound, GameSound
<1>8. load \in QueriesFor(g, q)
  BY <1>4 DEF QueriesFor
<1>9. old = "load_from_db" /\ \A query \in QueriesFor(g, q) : query = load
  BY <1>7, <1>8 DEF Fits, Loading
<1>10. loads' = [loads EXCEPT ![g] = @ \ {load}]
  BY <1>4 DEF DbRspLaunchRole
<1>11. QueriesFor(g, q)' = {}
  BY <1>6, <1>9, <1>10 DEF QueriesFor
<1>12. \A h \in Games, r \in Roles : h # g \/ r # q => QueriesFor(h, r)' = QueriesFor(h, r)
  <2>1. /\ \A h \in Games : h # g => loads'[h] = loads[h]
        /\ loads'[g] = loads[g] \ {load}
    BY <1>6, <1>10
  <2>2. PICK x : x = load /\ x[2] = q
    BY <1>4
  <2> QED BY <2>1, <2>2 DEF QueriesFor
<1>13. \A h \in Games : \A query \in loads'[h] : query \in loads[h]
  BY <1>6, <1>10
<1>14. ASSUME NEW e \in {"refused", "ok"}, Deliver(NoLink, g, <<Answer(World, cb, e, 0)>>),
              \/ e = "refused" /\ roles' = [roles EXCEPT ![g][q] = Absent]
              \/ e = "ok" /\ roles' = [roles EXCEPT ![g][q].state = "in_game"]
       PROVE  GamesSound'
  <2>0. /\ Answer(World, cb, e, 0).to = World /\ Answer(World, cb, e, 0).cb = cb
        /\ Answer(World, cb, e, 0).err = e
    BY DEF Answer
  <2>1. PICK a : a = Answer(World, cb, e, 0) /\ a.to = World /\ a.cb = cb /\ a.err = e
    BY <2>0
  <2>2. GameMoves(g, a) /\ Out(g)' = Out(g)
    <3> HIDE DEF cb, old
    <3> QED BY <1>14, <2>1, GameDelivers
  <2>3. Answers(Back(g), a, Back(g)')
    BY <2>2 DEF GameMoves
  <2>4. /\ roles'[g][q].state = IF e = "ok" THEN "in_game" ELSE "absent"
        /\ \A h \in Games, r \in Roles : h # g \/ r # q => roles'[h][r].state = roles[h][r].state
    <3> HIDE DEF cb, old
    <3>0. Absent.state = "absent"
      BY DEF Absent
    <3>1. PICK x : x = Absent /\ x.state = "absent"
      BY <3>0
    <3>2. CASE e = "refused" /\ roles' = [roles EXCEPT ![g][q] = Absent]
      BY <1>6, <3>1, <3>2
    <3>3. CASE e = "ok" /\ roles' = [roles EXCEPT ![g][q].state = "in_game"]
      BY <1>6, <3>3
    <3> QED BY <1>14, <3>2, <3>3
  <2>5. GameSound(g, q)'
    <3> HIDE DEF cb, old
    <3>1. /\ a.cb = load[1] /\ a.cb[1] = "_rpc_rsp_launch_role"
          /\ \/ a.err = "ok" /\ roles'[g][q].state = "in_game"
             \/ a.err # "ok" /\ roles'[g][q].state = "absent"
      BY <1>4, <1>5, <1>14, <2>1, <2>4
    <3>2. Fits(q, CallsFor(q), Place(q, g), faults, Out(g), Back(g)', {}, roles'[g][q].state)
      BY <1>7, <1>8, <2>3, <3>1, FitsLoaded
    <3> QED BY <1>7, <1>11, <2>2, <3>2 DEF GameSound
  <2>6. IsAnswer(a, last_session_id, last_opera_id)
    <3>1. e \in Errors
      BY DEF Errors
    <3> QED BY <1>3, <2>1, <3>1 DEF IsAnswer, LaunchOf
  <2> HIDE DEF cb, old
  <2>7. ASSUME NEW h \in Games PROVE Formatted(h)'
    BY <1>13, <2>2, <2>6, GameForms
  <2>8. ASSUME NEW h \in Games, NEW r \in Roles, h # g \/ r # q PROVE GameSound(h, r)'
    BY <1>5, <1>12, <2>1, <2>2, <2>4, <2>8, GameOthers
  <2> QED BY <2>5, <2>7, <2>8 DEF GamesSound
<1>15. \/ /\ roles' = [roles EXCEPT ![g][q] = Absent]
          /\ Deliver(NoLink, g, <<Answer(World, cb, "refused", 0)>>)
       \/ /\ roles' = [roles EXCEPT ![g][q].state = "in_game"]
          /\ Deliver(NoLink, g, <<Answer(World, cb, "ok", 0)>>)
  <2>1. \A x : <<>> \o <<x>> = <<x>>
    OBVIOUS
  <2>2. \/ /\ roles' = [roles EXCEPT ![g][q] = Absent]
           /\ Deliver(NoLink, g, <<>> \o <<Answer(World, cb, "refused", 0)>>)
        \/ /\ roles' = [roles EXCEPT ![g][q].state = "in_game"]
           /\ Deliver(NoLink, g, <<>> \o <<Answer(World, cb, "ok", 0)>>)
    BY <1>4, <1>9 DEF DbRspLaunchRole
  <2> HIDE DEF cb, old
  <2> QED BY <2>1, <2>2
<1> HIDE DEF cb, old
<1> QED BY <1>14, <1>15

\* client_change
LEMMA GameChanges ==
  ASSUME GamesInv, Queues, GamesSound, UNCHANGED worldVars, faults' = faults, GameClientChange
  PROVE  GamesSound'
<1>1. PICK g \in Games, q \in Roles, c \in Clients \cup {None} :
        /\ Arrives(World, g, ChangeClient(g, q, c, Head(net[<<World, g>>]).cb))
        /\ ClientChange(<<World, g>>, g, Head(net[<<World, g>>]).cb, q, c)
  BY DEF GameClientChange
<1>2. PICK cb : cb = Head(net[<<World, g>>]).cb
  OBVIOUS
<1>3. Out(g) # <<>> /\ 1 \in DOMAIN Out(g) /\ Out(g)[1] = ChangeClient(g, q, c, cb)
  BY <1>1, <1>2, RequestHead
<1>4. Out(g)[1].fn = "client_change" /\ Out(g)[1].cb = cb
  BY <1>3 DEF ChangeClient, Call
<1>5. OtherCb(cb)
  <2>1. IsRequest(Out(g)[1], g, last_session_id, last_opera_id)
    BY <1>3 DEF GamesSound, Formatted
  <2>2. \A p, args, d : /\ Call(g, "launch_role", args, d).fn # "client_change"
                        /\ Call(g, "release_role", args, d).fn # "client_change"
                        /\ ChangeClient(g, p, args, d).cb = d
    BY DEF Call, ChangeClient
  <2>3. PICK m : m = Out(g)[1]
    OBVIOUS
  <2>4. ASSUME NEW p \in Roles, NEW s \in Ids, m = Call(g, "launch_role", <<p>>, LaunchCb(s, p))
        PROVE  FALSE
    BY <1>4, <2>2, <2>3, <2>4
  <2>5. ASSUME NEW p \in Roles, NEW i \in Ids, m = Call(g, "release_role", <<p>>, ReleaseCb(p, i))
        PROVE  FALSE
    BY <1>4, <2>2, <2>3, <2>5
  <2>6. PICK p \in Roles, b \in Clients \cup {None}, d \in WorldCbs \cup {NoCb} :
          OtherCb(d) /\ m = ChangeClient(g, p, b, d)
    <3>1. IsRequest(m, g, last_session_id, last_opera_id)
      BY <2>1, <2>3
    <3> HIDE DEF Out
    <3> QED BY <2>4, <2>5, <3>1 DEF IsRequest
  <2>7. m.cb = d
    BY <2>2, <2>6
  <2> QED BY <1>4, <2>3, <2>6, <2>7
<1>6. PICK a : a = Answer(World, cb, "ok", 0) /\ a.to = World /\ a.cb = cb /\ a.err = "ok"
  <2>1. /\ Answer(World, cb, "ok", 0).to = World /\ Answer(World, cb, "ok", 0).cb = cb
        /\ Answer(World, cb, "ok", 0).err = "ok"
    BY DEF Answer
  <2> QED BY <2>1
<1>7. /\ Deliver(<<World, g>>, g, <<a>>) /\ UNCHANGED loads
      /\ roles' = IF roles[g][q].state = "absent" THEN roles ELSE [roles EXCEPT ![g][q].gate = c]
  BY <1>1, <1>2, <1>6 DEF ClientChange
<1>8. GameMoves(g, a)
  BY <1>3, <1>6, <1>7, GameDelivers
<1>9. \A h \in Games, r \in Roles : /\ QueriesFor(h, r)' = QueriesFor(h, r)
                                    /\ roles'[h][r].state = roles[h][r].state
  BY <1>7 DEF GamesInv, MTypeOK, GameRole, QueriesFor
<1>10. IsAnswer(a, last_session_id, last_opera_id)
  BY <1>5, <1>6 DEF IsAnswer, Errors
<1>11. ASSUME NEW h \in Games PROVE Formatted(h)'
  BY <1>7, <1>8, <1>10, GameForms
<1>12. ASSUME NEW h \in Games, NEW r \in Roles PROVE GameSound(h, r)'
  <2>1. a.cb \notin CallsFor(r)
    BY <1>5, <1>6, AimsFacts DEF CallsFor
  <2> QED BY <1>8, <1>9, <2>1, GameOthers
<1> QED BY <1>11, <1>12 DEF GamesSound

\* release_role
LEMMA GameReleases ==
  ASSUME GamesInv, Queues, GamesSound, UNCHANGED worldVars, faults' = faults, GameReleaseRole
  PROVE  GamesSound'
<1>1. PICK g \in Games, q \in Roles, k \in Ids :
        /\ Arrives(World, g, Call(g, "release_role", <<q>>, ReleaseCb(q, k)))
        /\ ReleaseRole(<<World, g>>, g, ReleaseCb(q, k), q)
  BY DEF GameReleaseRole
<1> DEFINE cb == ReleaseCb(q, k)
<1>2. Out(g) # <<>> /\ 1 \in DOMAIN Out(g) /\ Out(g)[1] = Call(g, "release_role", <<q>>, cb)
  BY <1>1, RequestHead
<1>3. Asks(Out(g)[1], q) /\ Out(g)[1].fn = "release_role" /\ Out(g)[1].cb = cb
  BY <1>2 DEF Asks, Call
<1>4. k <= last_opera_id
  <2>1. IsRequest(Out(g)[1], g, last_session_id, last_opera_id)
    BY <1>2 DEF GamesSound, Formatted
  <2>2. PICK i \in Ids : i <= last_opera_id /\ Out(g)[1] = Call(g, "release_role", <<q>>, ReleaseCb(q, i))
    BY <1>3, <2>1, RequestKinds
  <2>3. ReleaseCb(q, i) = cb
    BY <1>3, <2>2 DEF Call
  <2> QED BY <2>2, <2>3, ClosuresDiffer
<1>5. cb[1] # "_rpc_rsp_launch_role" /\ \A r \in Roles : r # q => cb \notin CallsFor(r)
  BY ClosuresDiffer, AimsFacts DEF CallsFor
<1>6. /\ Fits(q, CallsFor(q), Place(q, g), faults, Out(g), Back(g), QueriesFor(g, q), roles[g][q].state)
      /\ CallsFor(q)' = CallsFor(q) /\ Place(q, g)' = Place(q, g)
  BY WorldSame DEF GamesSound, GameSound
<1>7. PICK a : a = Answer(World, cb, "ok", 0) /\ a.to = World /\ a.cb = cb /\ a.err = "ok"
  <2>1. /\ Answer(World, cb, "ok", 0).to = World /\ Answer(World, cb, "ok", 0).cb = cb
        /\ Answer(World, cb, "ok", 0).err = "ok"
    BY DEF Answer
  <2> QED BY <2>1
<1>8. /\ Deliver(<<World, g>>, g, <<a>>) /\ UNCHANGED loads
      /\ roles' = [roles EXCEPT ![g][q] = Absent]
  BY <1>1, <1>7 DEF ReleaseRole
<1> HIDE DEF cb
<1>9. GameMoves(g, a) /\ Taken(Out(g), Out(g)')
  <2>1. <<World, g>> # NoLink
    BY ConstantsAssumption DEF NoLink
  <2>2. PICK in : in = <<World, g>> /\ in # NoLink
    BY <2>1
  <2> QED BY <1>2, <1>7, <1>8, <2>2, GameDelivers
<1>10. Answers(Back(g), a, Back(g)')
  BY <1>9 DEF GameMoves
<1>11. /\ roles'[g][q].state = "absent"
       /\ \A h \in Games, r \in Roles : /\ QueriesFor(h, r)' = QueriesFor(h, r)
                                        /\ h # g \/ r # q => roles'[h][r].state = roles[h][r].state
  BY <1>8 DEF GamesInv, MTypeOK, Absent, QueriesFor
<1>12. GameSound(g, q)'
  <2>1. Fits(q, CallsFor(q), Place(q, g), faults, Out(g)', Back(g)', QueriesFor(g, q), "absent")
    BY <1>3, <1>5, <1>6, <1>7, <1>9, <1>10, FitsDone
  <2> QED BY <1>6, <1>11, <2>1 DEF GameSound
<1>13. IsAnswer(a, last_session_id, last_opera_id)
  BY <1>4, <1>7 DEF IsAnswer, Errors, ReleaseOf, cb
<1>14. ASSUME NEW h \in Games PROVE Formatted(h)'
  BY <1>8, <1>9, <1>13, GameForms
<1>15. ASSUME NEW h \in Games, NEW r \in Roles, h # g \/ r # q PROVE GameSound(h, r)'
  BY <1>5, <1>7, <1>9, <1>11, <1>15, GameOthers
<1> QED BY <1>12, <1>14, <1>15 DEF GamesSound

-----------------------------------------------------------------------------
(***************************************************************************)
(* What each handler of the world does has one of the shapes.              *)
(***************************************************************************)
WorldMoves == Mutely \/ \E q \in Roles : Tells(q) \/ Launches(q) \/ Releases(q) \/ Forgets(q)

\* The step runs the closure cb on the answer err: one that a game service
\* sent, or none came.
Handles(cb, err) ==
  err \in Errors /\ (Answered(cb, err) \/ (err = "expired" /\ faults' # 0))

\* The calls that a step about role q makes or ends.
Concerns(cb, q) ==
  \/ Aims(cb, q) \/ cb = ChangeCb(role_id_to_role[q])
  \/ cb[1] = "_reconnect_role_game_change_client_cb"

\* The step is about role q.
OnlyRole(q) ==
  /\ \A p \in Roles : p # q => role_id_to_role'[p] = role_id_to_role[p]
  /\ \A o \in Tables : o # role_id_to_role[q] => objs'[o] = objs[o]
  /\ \A cb : ((cb \in wcalls') <=> (cb \in wcalls)) \/ Concerns(cb, q)

\* The closures of the world by the function they run.
LEMMA ClosureKinds ==
  /\ \A s, r : LaunchCb(s, r)[1] = "_rpc_rsp_launch_role"
  /\ \A o : ChangeCb(o)[1] = "launch_client_change"
  /\ \A r, i : ReleaseCb(r, i)[1] = "_rpc_rsp_try_release_role"
  /\ \A rsp, s, o : ReconnectCb(rsp, s, o)[1] = "_reconnect_role_game_change_client_cb"
BY ClosuresDiffer

\* The functions that the calls about a role run.
LEMMA AimsKinds ==
  \A cb, r : Aims(cb, r) => cb[1] \in {"_rpc_rsp_launch_role", "_rpc_rsp_try_release_role"}
BY ClosureKinds DEF Aims

\* A step that touches the table and the calls of one role does not concern the
\* others.
LEMMA OthersStay ==
  ASSUME WorldInv, NEW q \in Roles, OnlyRole(q)
  PROVE  OthersUntold(q)
<1> SUFFICES ASSUME NEW p \in Roles, p # q PROVE Untold(p)
  BY DEF OthersUntold
<1>1. role_id_to_role'[p] = role_id_to_role[p]
  BY DEF OnlyRole
<1>2. ASSUME NEW i \in Ids
      PROVE  /\ (LaunchCb(i, p) \in wcalls') <=> (LaunchCb(i, p) \in wcalls)
             /\ (ReleaseCb(p, i) \in wcalls') <=> (ReleaseCb(p, i) \in wcalls)
  <2>1. \A cb : cb = LaunchCb(i, p) \/ cb = ReleaseCb(p, i) => ~ Concerns(cb, q)
    BY ClosureKinds, AimsFacts DEF Concerns
  <2> QED BY <2>1 DEF OnlyRole
<1>3. ASSUME Lives(p)
      PROVE  /\ objs'[role_id_to_role[p]] = objs[role_id_to_role[p]]
             /\ (ChangeCb(role_id_to_role[p]) \in wcalls') <=> (ChangeCb(role_id_to_role[p]) \in wcalls)
  <2>1. role_id_to_role[p] \in Tables /\ objs[role_id_to_role[p]].role = p
    BY <1>3, LivingRole
  <2>2. role_id_to_role[p] # role_id_to_role[q]
    <3>1. CASE Lives(q)
      BY <2>1, <3>1, LivingRole
    <3>2. CASE ~ Lives(q)
      BY <1>3, <3>2 DEF Lives
    <3> QED BY <3>1, <3>2
  <2>3. ~ Concerns(ChangeCb(role_id_to_role[p]), q)
    BY <2>2, ClosureKinds, ClosuresDiffer, AimsKinds DEF Concerns
  <2> QED BY <2>1, <2>2, <2>3 DEF OnlyRole
<1> QED BY <1>1, <1>2, <1>3 DEF Untold

\* A step that touches no table, and no calls but those of a reconnect, concerns no
\* role.
LEMMA AllStay ==
  ASSUME UNCHANGED <<objs, role_id_to_role>>,
         \A cb : \/ (cb \in wcalls') <=> (cb \in wcalls)
                 \/ cb[1] = "_reconnect_role_game_change_client_cb"
  PROVE  \A p \in Roles : Untold(p)
BY ClosureKinds DEF Untold

\* A role that a step does not concern stays where it is.
LEMMA UntoldTurns ==
  ASSUME NEW p \in Roles, Untold(p)
  PROVE  /\ Turns(p)
         /\ \A g \in Games : Settled(p, g)' => Settled(p, g) /\ RoleOf(p)'.gate = RoleOf(p).gate
<1>1. \A cb : Current(cb, p)' <=> Current(cb, p)
  BY DEF Untold, Current, Aims
<1>2. /\ Lives(p)' <=> Lives(p)
      /\ Lives(p) => /\ RoleOf(p)' = RoleOf(p)
                     /\ role_id_to_role'[p] = role_id_to_role[p]
                     /\ (ChangeCb(role_id_to_role[p]) \in wcalls') <=> (ChangeCb(role_id_to_role[p]) \in wcalls)
  BY DEF Untold, Lives, RoleOf
<1>3. \A g : Home(p, g)' <=> Home(p, g)
  BY <1>2 DEF Home
<1>4. \A g : Settled(p, g)' => Settled(p, g) /\ RoleOf(p)'.gate = RoleOf(p).gate
  BY <1>2 DEF Settled, Home
<1> QED BY <1>1, <1>2, <1>3, <1>4 DEF Turns, EndsCalls

\* The world says nothing and no role is concerned.
LEMMA AllMutely ==
  ASSUME Mute, \A p \in Roles : Untold(p) PROVE WorldMoves
BY UntoldTurns DEF WorldMoves, Mutely

\* The world says nothing and one role is concerned, which stays where it is.
LEMMA OneMutely ==
  ASSUME Mute, NEW q \in Roles, Turns(q), OthersUntold(q),
         \A g \in Games : Settled(q, g)' =>
            Settled(q, g) /\ (faults' # 0 \/ RoleOf(q)'.gate = RoleOf(q).gate)
  PROVE  WorldMoves
BY UntoldTurns DEF WorldMoves, Mutely, OthersUntold

\* The calls about role q that end do so because the step handles call cb.
LEMMA EndsOne ==
  ASSUME NEW q, NEW cb, NEW err, Handles(cb, err),
         \A d : Aims(d, q) /\ d \in wcalls => d \in wcalls' \/ d = cb
  PROVE  EndsCalls(q)
BY DEF EndsCalls, Current, Handles, Aims

\* No call about role q ends.
LEMMA EndsNone ==
  ASSUME NEW q, \A d : Aims(d, q) /\ d \in wcalls => d \in wcalls'
  PROVE  EndsCalls(q)
BY DEF EndsCalls, Current, Aims

\* Role q stays where it is when its table keeps its game service and neither
\* enters nor leaves a release.
LEMMA TurnsIf ==
  ASSUME NEW q \in Roles, Lives(q), NEW new,
         role_id_to_role'[q] = role_id_to_role[q], objs'[role_id_to_role[q]] = new,
         new.game = RoleOf(q).game, (new.state = "releasing") <=> (RoleOf(q).state = "releasing"),
         \A d : Aims(d, q) /\ d \in wcalls' => d \in wcalls,
         EndsCalls(q)
  PROVE  /\ Turns(q) /\ RoleOf(q)' = new /\ Lives(q)'
         /\ \A g : Home(q, g)' <=> Home(q, g)
<1>1. RoleOf(q)' = new /\ Lives(q)'
  BY DEF RoleOf, Lives
<1>2. \A g : Home(q, g)' <=> Home(q, g)
  BY <1>1 DEF Home
<1>3. \A cb : Current(cb, q)' => Current(cb, q)
  BY DEF Current, Aims
<1> QED BY <1>1, <1>2, <1>3 DEF Turns

\* What goes to the gates does not go to a game service.
LEMMA RepliesAway ==
  /\ \A rsp, e, s : rsp[2] \in Clients => Reply(rsp, e, s).to \notin Games
  /\ \A rsp \in LaunchRsps : rsp[2] \in Clients
  /\ \A fn, c, n, r : GateCb(fn, c, n, r)[2] = c
  /\ \A c \in Clients : Kick(c).to \notin Games
<1>1. \A c \in Clients : GateOf[c] \notin Games
  BY ConstantsAssumption
<1>2. \A rsp, e, s : Reply(rsp, e, s).to = GateOf[rsp[2]]
  BY DEF Reply, Answer
<1>3. \A c : Kick(c).to = GateOf[c]
  BY DEF Kick, Call
<1>4. \A fn, c, n, r : GateCb(fn, c, n, r)[2] = c
  BY DEF GateCb
<1>5. \A rsp \in LaunchRsps : rsp[2] \in Clients
  BY <1>4 DEF LaunchRsps
<1> QED BY <1>1, <1>2, <1>3, <1>4, <1>5

\* Only the answer to a launch can be an error.
LEMMA AnswersOk ==
  ASSUME Queues, GamesSound, NEW cb, cb[1] # "_rpc_rsp_launch_role", NEW err, Handles(cb, err),
         err # "ok"
  PROVE  faults' # 0
<1> SUFFICES ASSUME Answered(cb, err) PROVE FALSE
  BY DEF Handles
<1>1. PICK g \in Games : Back(g) # <<>> /\ Head(Back(g)) = Answer(World, cb, err, 0)
  BY DEF Answered
<1>2. 1 \in DOMAIN Back(g) /\ Head(Back(g)) = Back(g)[1]
  <2>1. <<g, World>> \in Links
    BY GameLinks
  <2> QED BY <1>1, <2>1, HeadIn DEF Back
<1>3. IsAnswer(Back(g)[1], last_session_id, last_opera_id)
  BY <1>2 DEF GamesSound, Formatted
<1>4. PICK d, e : /\ Back(g)[1] = Answer(World, d, e, 0)
                  /\ LaunchOf(d, last_session_id) \/ e = "ok"
  BY <1>3 DEF IsAnswer
<1>5. \A a, b : Answer(World, a, b, 0).cb = a /\ Answer(World, a, b, 0).err = b
  BY DEF Answer
<1>6. PICK m : m = Answer(World, d, e, 0) /\ m = Answer(World, cb, err, 0)
  BY <1>1, <1>2, <1>4
<1>7. d = cb /\ e = err
  BY <1>5, <1>6
<1> QED BY <1>4, <1>7, ClosureKinds DEF LaunchOf

\* launch_role
LEMMA LaunchAbsentMoves ==
  ASSUME WorldInv, Sound, Queues, NEW in, ToWorld(in), Takes(in),
         NEW c \in Clients, NEW r \in Roles, NEW rsp \in LaunchRsps, LaunchAbsent(in, rsp, c, r)
  PROVE  WorldMoves
<1>1. CASE Deliver(in, World, <<Reply(rsp, "refused", 0)>>) /\ UNCHANGED worldVars
  <2>1. PICK a : a = Reply(rsp, "refused", 0) /\ a.to \notin Games
    BY RepliesAway
  <2>2. Mute
    BY <1>1, <2>1, WorldMute
  <2> QED BY <1>1, <2>2, AllStay, AllMutely DEF worldVars
<1>2. ASSUME NEW g \in Games, NEW s, s = last_session_id + 1, s \in Ids, ~ Lives(r),
             last_session_id' = s,
             objs' = [objs EXCEPT ![s] =
                [role |-> r, state |-> "launch", session |-> s, gate |-> c,
                 token |-> TokenOf[c], cached |-> rsp, game |-> g, operas |-> {}]],
             role_id_to_role' = [role_id_to_role EXCEPT ![r] = s],
             wcalls' = wcalls \cup {LaunchCb(s, r)},
             Deliver(in, World, <<Call(g, "launch_role", <<r>>, LaunchCb(s, r))>>)
      PROVE  WorldMoves
  <2>1. Says(g, Call(g, "launch_role", <<r>>, LaunchCb(s, r)))
    <3>1. PICK m : m = Call(g, "launch_role", <<r>>, LaunchCb(s, r)) /\ m.to = g
      <4>1. Call(g, "launch_role", <<r>>, LaunchCb(s, r)).to = g
        BY DEF Call
      <4> QED BY <4>1
    <3>2. PICK a : a = Reply(rsp, "refused", 0) /\ a.to \notin Games
      BY RepliesAway
    <3> QED BY <1>2, <3>1, <3>2, WorldSays
  <2>2. last_session_id < s /\ s <= last_session_id' /\ s # 0
    BY <1>2, NatCounters, IdFacts
  <2>3. objs'[s].game = g /\ objs'[s].state = "launch" /\ role_id_to_role'[r] = s
    BY <1>2 DEF WorldInv, WTypeOK
  <2>4. s \notin Tables
    <3>1. s \in Tables => s <= last_session_id
      BY DEF Sound, TablesSound
    <3>2. last_session_id \in Nat /\ s \in Nat
      BY <1>2, NatCounters, IdFacts
    <3> QED BY <2>2, <3>1, <3>2
  <2>5. ChangeCb(s) \notin wcalls'
    <3>1. ChangeCb(s) \notin wcalls
      BY <1>2, <2>4, TablesAre
    <3> QED BY <1>2, <3>1, ClosureKinds
  <2>6. \A i \in Ids : LaunchCb(i, r) \notin wcalls /\ ReleaseCb(r, i) \notin wcalls
    BY <1>2, IdFacts DEF Sound, LaunchSound, ReleaseSound, Lives
  <2>7. \A cb \in WorldCbs : Current(cb, r)' <=> cb = LaunchCb(s, r)
    <3>1. \A cb : Aims(cb, r) => cb \notin wcalls
      BY <2>6 DEF Aims
    <3>2. Aims(LaunchCb(s, r), r)
      BY <1>2, AimsFacts
    <3> QED BY <1>2, <3>1, <3>2 DEF Current
  <2>8. OthersUntold(r)
    <3>1. \A o \in Tables : objs'[o] = objs[o]
      BY <1>2, <2>4 DEF WorldInv, WTypeOK, Tables
    <3>2. \A p \in Roles : p # r => role_id_to_role'[p] = role_id_to_role[p]
      BY <1>2 DEF WorldInv, WTypeOK
    <3>3. \A cb : ((cb \in wcalls') <=> (cb \in wcalls)) \/ Concerns(cb, r)
      BY <1>2, AimsFacts DEF Concerns
    <3> QED BY <3>1, <3>2, <3>3, OthersStay DEF OnlyRole
  <2>9. Launches(r)
    BY <1>2, <2>1, <2>2, <2>3, <2>5, <2>7, <2>8 DEF Launches
  <2> QED BY <2>9 DEF WorldMoves
<1> QED BY <1>1, <1>2 DEF LaunchAbsent

\* launch_role, of a role that is being released.
LEMMA LaunchReleasingMoves ==
  ASSUME Queues, NEW in, ToWorld(in), Takes(in),
         NEW c, NEW r, NEW rsp \in LaunchRsps, LaunchReleasing(in, rsp, c, r)
  PROVE  WorldMoves
<1>1. PICK a : a = Reply(rsp, "refused", 0) /\ a.to \notin Games
  BY RepliesAway
<1>2. Deliver(in, World, <<a>>) /\ UNCHANGED worldVars
  BY <1>1 DEF LaunchReleasing
<1>3. Mute
  BY <1>1, <1>2, WorldMute
<1> QED BY <1>2, <1>3, AllStay, AllMutely DEF worldVars

\* The client of role r, which stays in use or is taken into it, is told.
LEMMA TellsIf ==
  ASSUME WorldInv, Sound, NEW r \in Roles, Lives(r), RoleOf(r).state \in {"using", "idle"},
         NEW new, new.game = RoleOf(r).game, new.state \in {"using", "idle"},
         objs' = [objs EXCEPT ![role_id_to_role[r]] = new], UNCHANGED role_id_to_role,
         \A cb : ((cb \in wcalls') <=> (cb \in wcalls)) \/ cb[1] = "_reconnect_role_game_change_client_cb",
         new.gate \in Clients \cup {None},
         NEW cb \in WorldCbs \cup {NoCb}, OtherCb(cb),
         Says(new.game, ChangeClient(new.game, r, new.gate, cb))
  PROVE  WorldMoves
<1>1. /\ RoleOf(r) \in RoleObj /\ RoleOf(r) = objs[role_id_to_role[r]]
      /\ role_id_to_role[r] \in Ids /\ RoleOf(r).game \in Games
  BY LivingRole DEF Tables, RoleObj
<1>2. /\ objs'[role_id_to_role[r]] = new
      /\ \A o \in Tables : o # role_id_to_role[r] => objs'[o] = objs[o]
  BY <1>1 DEF WorldInv, WTypeOK, Tables
<1>3. \A d : Aims(d, r) => ((d \in wcalls') <=> (d \in wcalls))
  BY AimsKinds
<1>4. EndsCalls(r)
  BY <1>3, EndsNone
<1>5. Turns(r) /\ RoleOf(r)' = new
  BY <1>2, <1>3, <1>4, TurnsIf
<1>6. OthersUntold(r)
  BY <1>2, OthersStay DEF OnlyRole, Concerns
<1>7. Home(r, new.game) /\ Settled(r, new.game)
  BY DEF Home, Settled
<1>8. Tells(r)
  BY <1>1, <1>5, <1>6, <1>7 DEF Tells
<1> QED BY <1>8 DEF WorldMoves

\* A client_change without a callback is about no role.
LEMMA NoCbIsOther == OtherCb(NoCb) /\ NoCb \in WorldCbs \cup {NoCb}
BY DEF OtherCb

\* client_change goes to the game service it names.
LEMMA ChangesGo ==
  ASSUME NEW g, NEW r, NEW c, NEW cb PROVE ChangeClient(g, r, c, cb).to = g
BY DEF ChangeClient, Call

\* launch_role, of a role without a client.
LEMMA LaunchIdleMoves ==
  ASSUME WorldInv, Sound, Queues, NEW in, ToWorld(in), Takes(in),
         NEW c \in Clients, NEW r \in Roles, NEW rsp \in LaunchRsps, LaunchIdle(in, rsp, c, r)
  PROVE  WorldMoves
<1> DEFINE o == role_id_to_role[r]
           old == objs[o]
           s == last_session_id + 2
           new == [old EXCEPT !.state = "using", !.session = s, !.gate = c,
                              !.token = TokenOf[c]]
           change == ChangeClient(old.game, r, c, NoCb)
<1>1. /\ Lives(r) /\ RoleOf(r).state = "idle" /\ RoleOf(r) = old
      /\ objs' = [objs EXCEPT ![o].state = "using", ![o].session = s,
                              ![o].gate = c, ![o].token = TokenOf[c]]
      /\ Deliver(in, World, <<Reply(rsp, "ok", last_session_id + 1), change>>)
      /\ UNCHANGED <<role_id_to_role, wcalls>>
  BY DEF LaunchIdle, RoleOf
<1>2. old \in RoleObj /\ old.game \in Games
  BY <1>1, LivingRole DEF RoleObj
<1>3. /\ new.state = "using" /\ new.gate = c /\ new.game = old.game
      /\ objs' = [objs EXCEPT ![o] = new]
  BY <1>1, <1>2 DEF RoleObj
<1>4. change.to = old.game
  BY ChangesGo
<1>5. PICK a : a = Reply(rsp, "ok", last_session_id + 1) /\ a.to \notin Games
  BY RepliesAway
<1> HIDE DEF change, new, old, o, s
<1>6. Says(old.game, change)
  BY <1>1, <1>2, <1>4, <1>5, WorldSays
<1>7. Says(new.game, ChangeClient(new.game, r, new.gate, NoCb))
  BY <1>3, <1>6 DEF change
<1> QED BY <1>1, <1>3, <1>7, NoCbIsOther, TellsIf DEF o

\* A message in front of two others.
LEMMA ConcatFew ==
  ASSUME NEW x, NEW y, NEW z
  PROVE  <<>> \o <<x, y>> = <<x, y>> /\ <<z>> \o <<x, y>> = <<z, x, y>>
<1> DEFINE S == {x, y, z}
<1>1. <<z>> \in Seq(S) /\ <<x, y>> \in Seq(S) /\ <<z, x, y>> \in Seq(S)
  OBVIOUS
<1>2. /\ <<z>>[1] = z /\ Len(<<z>>) = 1
      /\ <<x, y>>[1] = x /\ <<x, y>>[2] = y /\ Len(<<x, y>>) = 2
      /\ <<z, x, y>>[1] = z /\ <<z, x, y>>[2] = x /\ <<z, x, y>>[3] = y /\ Len(<<z, x, y>>) = 3
  OBVIOUS
<1> HIDE DEF S
<1>3. <<>> \o <<x, y>> = <<x, y>>
  BY <1>1, ConcatEmptySeq
<1>4. PICK s \in Seq(S), t \in Seq(S), v \in Seq(S) :
        s = <<z>> /\ t = <<x, y>> /\ v = <<z, x, y>>
  BY <1>1
<1>5. PICK w : w = s \o t
  OBVIOUS
<1>6. /\ w \in Seq(S) /\ Len(w) = Len(s) + Len(t)
      /\ \A i \in 1 .. Len(s) + Len(t) : w[i] = IF i <= Len(s) THEN s[i] ELSE t[i - Len(s)]
  BY <1>5, ConcatProperties
<1>7. w \in Seq(S) /\ Len(w) = 3 /\ w[1] = z /\ w[2] = x /\ w[3] = y
  BY <1>2, <1>4, <1>6
<1>8. Len(v) = 3 /\ v[1] = z /\ v[2] = x /\ v[3] = y
  BY <1>2, <1>4
<1>9. \A i \in 1..3 : w[i] = v[i]
  <2>1. \A i \in 1..3 : i = 1 \/ i = 2 \/ i = 3
    OBVIOUS
  <2> QED BY <1>7, <1>8, <2>1
<1>10. w = [i \in 1..3 |-> w[i]]
  BY <1>7
<1>11. v = [i \in 1..3 |-> v[i]]
  BY <1>8
<1>12. w = v
  BY <1>9, <1>10, <1>11, Zenon
<1> QED BY <1>3, <1>4, <1>5, <1>12

\* launch_role, of a role that a client uses.
LEMMA LaunchUsingMoves ==
  ASSUME WorldInv, Sound, Queues, NEW in, ToWorld(in), Takes(in),
         NEW c \in Clients, NEW r \in Roles, NEW rsp \in LaunchRsps, LaunchUsing(in, rsp, c, r)
  PROVE  WorldMoves
<1> DEFINE o == role_id_to_role[r]
           old == objs[o]
           change == ChangeClient(old.game, r, c, NoCb)
<1>1. /\ Lives(r) /\ RoleOf(r).state = "using" /\ RoleOf(r) = old
      /\ UNCHANGED <<role_id_to_role, wcalls>>
  BY DEF LaunchUsing, RoleOf
<1>2. old \in RoleObj /\ old.game \in Games /\ old.gate \in Clients \cup {None}
  BY <1>1, LivingRole DEF RoleObj
<1>3. change.to = old.game
  BY ChangesGo
<1>4. CASE /\ old.gate = c
           /\ objs' = [objs EXCEPT ![o].token = TokenOf[c]]
           /\ Deliver(in, World, <<Reply(rsp, "refused", 0), change>>)
  <2> DEFINE new == [old EXCEPT !.token = TokenOf[c]]
  <2>1. /\ new.state = "using" /\ new.gate = c /\ new.game = old.game
        /\ objs' = [objs EXCEPT ![o] = new]
    BY <1>1, <1>2, <1>4 DEF RoleObj
  <2>2. PICK a : a = Reply(rsp, "refused", 0) /\ a.to \notin Games
    BY RepliesAway
  <2> HIDE DEF change, new, old, o
  <2>3. Says(old.game, change)
    BY <1>2, <1>3, <1>4, <2>2, WorldSays
  <2>4. Says(new.game, ChangeClient(new.game, r, new.gate, NoCb))
    BY <2>1, <2>3 DEF change
  <2> QED BY <1>1, <2>1, <2>4, NoCbIsOther, TellsIf DEF o
<1>5. ASSUME NEW s,
             objs' = [objs EXCEPT ![o].session = s, ![o].gate = c, ![o].token = TokenOf[c]],
             Deliver(in, World, KickOf(r) \o <<Reply(rsp, "ok", s), change>>)
      PROVE  WorldMoves
  <2> DEFINE new == [old EXCEPT !.session = s, !.gate = c, !.token = TokenOf[c]]
  <2>1. /\ new.state = "using" /\ new.gate = c /\ new.game = old.game
        /\ objs' = [objs EXCEPT ![o] = new]
    BY <1>1, <1>2, <1>5 DEF RoleObj
  <2>2. PICK a : a = Reply(rsp, "ok", s) /\ a.to \notin Games
    BY RepliesAway
  <2>3. PICK b : b = Kick(IF old.gate = None THEN c ELSE old.gate) /\ b.to \notin Games
    BY <1>2, RepliesAway
  <2> HIDE DEF change, new
  <2>4. KickOf(r) \o <<a, change>> \in {<<a, change>>, <<b, a, change>>}
    <3>1. \A x, y, z : <<>> \o <<x, y>> = <<x, y>> /\ <<z>> \o <<x, y>> = <<z, x, y>>
      BY ConcatFew
    <3>2. KickOf(r) = <<>> \/ KickOf(r) = <<b>>
      BY <1>1, <2>3 DEF KickOf
    <3> QED BY <3>1, <3>2
  <2> HIDE DEF old, o
  <2>5. Says(old.game, change)
    BY <1>2, <1>3, <1>5, <2>2, <2>3, <2>4, WorldSays
  <2>6. Says(new.game, ChangeClient(new.game, r, new.gate, NoCb))
    BY <2>1, <2>5 DEF change
  <2> QED BY <1>1, <2>1, <2>6, NoCbIsOther, TellsIf DEF o
<1> QED BY <1>1, <1>4, <1>5 DEF LaunchUsing

\* launch_role, of a role that is being launched.
LEMMA LaunchLaunchingMoves ==
  ASSUME WorldInv, Sound, Queues, NEW in, ToWorld(in), Takes(in),
         NEW c \in Clients, NEW r \in Roles, NEW rsp \in LaunchRsps, LaunchLaunching(in, rsp, c, r)
  PROVE  WorldMoves
<1> DEFINE o == role_id_to_role[r]
           old == objs[o]
<1>1. /\ Lives(r) /\ RoleOf(r).state = "launch" /\ RoleOf(r) = old
      /\ UNCHANGED <<role_id_to_role, wcalls>>
  BY DEF LaunchLaunching, RoleOf
<1>2. /\ old \in RoleObj /\ o \in Tables /\ Alive(o) /\ o \in Ids
  BY <1>1, LivingRole DEF Tables
<1>3. old.cached \in LaunchRsps
  BY <1>1, <1>2 DEF Sound, TablesSound, RoleObj
<1>4. old.cached # None
  BY <1>3, NilAssumption
<1>5. ASSUME NEW new, new.state = "launch", new.gate = old.gate, new.game = old.game,
             objs' = [objs EXCEPT ![o] = new],
             NEW e \in LaunchRsps, Deliver(in, World, <<Reply(e, "refused", 0)>>)
      PROVE  WorldMoves
  <2>1. PICK a : a = Reply(e, "refused", 0) /\ a.to \notin Games
    BY <1>5, RepliesAway
  <2>2. Mute
    BY <1>5, <2>1, WorldMute
  <2>3. /\ objs'[o] = new
        /\ \A p \in Tables : p # o => objs'[p] = objs[p]
    BY <1>2, <1>5 DEF WorldInv, WTypeOK, Tables
  <2>4. EndsCalls(r)
    BY <1>1, EndsNone
  <2>5. Turns(r) /\ RoleOf(r)' = new /\ \A g : Home(r, g)' <=> Home(r, g)
    BY <1>1, <1>5, <2>3, <2>4, TurnsIf
  <2>6. OthersUntold(r)
    BY <1>1, <2>3, OthersStay DEF OnlyRole
  <2>7. \A g \in Games : Settled(r, g)' => Settled(r, g) /\ RoleOf(r)'.gate = RoleOf(r).gate
    BY <1>1, <1>5, <2>5 DEF Settled
  <2> QED BY <2>2, <2>5, <2>6, <2>7, OneMutely
<1>6. CASE /\ objs' = [objs EXCEPT ![o].token = TokenOf[c]]
           /\ Deliver(in, World, <<Reply(rsp, "refused", 0)>>)
  <2>1. PICK new : new = [old EXCEPT !.token = TokenOf[c]]
    OBVIOUS
  <2>2. /\ new.state = "launch" /\ new.gate = old.gate /\ new.game = old.game
        /\ objs' = [objs EXCEPT ![o] = new]
    BY <1>1, <1>2, <1>6, <2>1 DEF RoleObj
  <2> HIDE DEF old, o
  <2> QED BY <1>5, <1>6, <2>2
<1>7. ASSUME NEW s,
             objs' = [objs EXCEPT ![o].cached = rsp, ![o].session = s],
             Deliver(in, World, <<Reply(old.cached, "refused", 0)>>)
      PROVE  WorldMoves
  <2>1. PICK new : new = [old EXCEPT !.cached = rsp, !.session = s]
    OBVIOUS
  <2>2. /\ new.state = "launch" /\ new.gate = old.gate /\ new.game = old.game
        /\ objs' = [objs EXCEPT ![o] = new]
    BY <1>1, <1>2, <1>7, <2>1 DEF RoleObj
  <2> HIDE DEF old, o
  <2> QED BY <1>3, <1>5, <1>7, <2>2
<1> QED BY <1>1, <1>4, <1>6, <1>7 DEF LaunchLaunching

\* launch_role
LEMMA LaunchRoleMoves ==
  ASSUME WorldInv, Sound, Queues, NEW in, ToWorld(in), Takes(in),
         NEW c \in Clients, NEW r \in Roles, NEW rsp \in LaunchRsps, LaunchRole(in, rsp, c, r)
  PROVE  WorldMoves
BY LaunchAbsentMoves, LaunchReleasingMoves, LaunchIdleMoves, LaunchUsingMoves,
   LaunchLaunchingMoves
DEF LaunchRole

\* A launch fails.
LEMMA FailActionMoves ==
  ASSUME WorldInv, Sound, Queues, NEW in, ToWorld(in), Takes(in), NEW err,
         NEW r \in Roles, Lives(r), RoleOf(r).state = "launch",
         FailAction(role_id_to_role[r], in, err),
         \A d : Aims(d, r) => d \notin wcalls',
         \A cb : ((cb \in wcalls') <=> (cb \in wcalls)) \/ Concerns(cb, r),
         \/ faults' # 0
         \/ \E s \in Ids, e \in Errors :
              e # "ok" /\ LaunchCb(s, r) \in wcalls /\ Answered(LaunchCb(s, r), e)
  PROVE  WorldMoves
<1> DEFINE o == role_id_to_role[r]
           old == objs[o]
<1>1. old \in RoleObj /\ old.role = r /\ RoleOf(r) = old /\ o \in Tables /\ Alive(o) /\ o \in Ids
  BY LivingRole DEF Tables
<1>2. old.session # 0 /\ old.cached \in LaunchRsps /\ old.cached # None
  BY <1>1 DEF Sound, TablesSound, RoleObj
<1>3. /\ objs' = [objs EXCEPT ![o].cached = None]
      /\ Deliver(in, World, <<Reply(old.cached, err, 0)>>)
      /\ role_id_to_role' = Unmap(role_id_to_role, {r})
  BY <1>1, <1>2 DEF FailAction
<1>4. PICK a : a = Reply(old.cached, err, 0) /\ a.to \notin Games
  BY <1>2, RepliesAway
<1>5. Mute
  <2> HIDE DEF old, o
  <2> QED BY <1>3, <1>4, WorldMute
<1>6. /\ role_id_to_role'[r] = 0
      /\ \A p \in Roles : p # r => role_id_to_role'[p] = role_id_to_role[p]
  BY <1>3 DEF Unmap, WorldInv, WTypeOK
<1>7. \A p \in Tables : p # o => objs'[p] = objs[p]
  BY <1>3 DEF WorldInv, WTypeOK, Tables
<1>8. OthersUntold(r)
  BY <1>6, <1>7, OthersStay DEF OnlyRole
<1>9. ~ Lives(r)' /\ \A cb \in WorldCbs : ~ Current(cb, r)'
  BY <1>6 DEF Lives, Current, Aims
<1>10. Forgets(r)
  BY <1>5, <1>8, <1>9 DEF Forgets
<1> QED BY <1>10 DEF WorldMoves

\* _rpc_rsp_launch_role
LEMMA RpcRspLaunchRoleMoves ==
  ASSUME WorldInv, Sound, Queues, NEW in, ToWorld(in), Takes(in),
         NEW s \in Ids, NEW r \in Roles, NEW err, RpcRspLaunchRole(in, s, r, err),
         Handles(LaunchCb(s, r), err)
  PROVE  WorldMoves
<1> DEFINE o == role_id_to_role[r]
           old == objs[o]
           calls == wcalls \ {LaunchCb(s, r)}
<1>1. LaunchCb(s, r) \in wcalls
  BY DEF RpcRspLaunchRole
<1>2. o = s /\ Lives(r) /\ old.state = "launch"
  BY <1>1, IdFacts DEF Sound, LaunchSound, Lives
<1>3. /\ old \in RoleObj /\ old.role = r /\ RoleOf(r) = old /\ o \in Tables /\ Alive(o)
      /\ SessionOf(r) = old.session /\ o \in Ids /\ old.game \in Games
  BY <1>2, LivingRole DEF Tables, RoleObj
<1>4. old.session # 0 /\ old.gate # None /\ old.gate \in Clients /\ old.cached \in LaunchRsps
      /\ old.cached # None
  BY <1>2, <1>3 DEF Sound, TablesSound, RoleObj
<1>5. \A d : Aims(d, r) => d \notin calls
  <2>1. \A t \in Ids : LaunchCb(t, r) \in wcalls => t = s
    BY <1>2 DEF Sound, LaunchSound
  <2>2. \A i \in Ids : ReleaseCb(r, i) \notin wcalls
    BY <1>2, <1>3, NoCalls
  <2> QED BY <2>1, <2>2 DEF Aims
<1>6. Concerns(LaunchCb(s, r), r)
  BY AimsFacts DEF Concerns
<1>7. CASE /\ wcalls' = calls
           /\ Deliver(in, World, <<Reply(old.cached, "refused", 0)>>)
           /\ UNCHANGED <<objs, role_id_to_role>>
  <2>1. PICK a : a = Reply(old.cached, "refused", 0) /\ a.to \notin Games
    BY <1>4, RepliesAway
  <2>2. Mute
    <3> HIDE DEF old, o
    <3> QED BY <1>7, <2>1, WorldMute
  <2>3. EndsCalls(r)
    <3>1. \A d : Aims(d, r) /\ d \in wcalls => d \in wcalls' \/ d = LaunchCb(s, r)
      BY <1>7
    <3> QED BY <3>1, EndsOne
  <2>4. Turns(r) /\ RoleOf(r)' = old /\ \A g : Home(r, g)' <=> Home(r, g)
    BY <1>2, <1>3, <1>7, <2>3, TurnsIf
  <2>5. OthersUntold(r)
    BY <1>6, <1>7, OthersStay DEF OnlyRole
  <2>6. ChangeCb(o) \in wcalls' => ChangeCb(o) \in wcalls
    BY <1>7
  <2>7. \A g \in Games : Settled(r, g)' => Settled(r, g) /\ RoleOf(r)'.gate = RoleOf(r).gate
    BY <1>3, <1>7, <2>4, <2>6 DEF Settled
  <2> QED BY <2>2, <2>4, <2>5, <2>7, OneMutely
<1>8. CASE /\ err = "ok"
           /\ wcalls' = calls \cup {ChangeCb(o)}
           /\ Deliver(in, World, <<ChangeClient(old.game, r, old.gate, ChangeCb(o))>>)
           /\ UNCHANGED <<objs, role_id_to_role>>
  <2>1. PICK m : m = ChangeClient(old.game, r, old.gate, ChangeCb(o)) /\ m.to = old.game
    BY ChangesGo
  <2>2. PICK a : a = Reply(old.cached, "refused", 0) /\ a.to \notin Games
    BY <1>4, RepliesAway
  <2>3. Says(old.game, m)
    <3> HIDE DEF old, o
    <3> QED BY <1>3, <1>8, <2>1, <2>2, WorldSays
  <2>4. EndsCalls(r)
    <3>1. \A d : Aims(d, r) /\ d \in wcalls => d \in wcalls' \/ d = LaunchCb(s, r)
      BY <1>8
    <3> QED BY <3>1, EndsOne
  <2>5. \A d : Aims(d, r) /\ d \in wcalls' => d \in wcalls
    BY <1>8, AimsKinds, ClosureKinds
  <2>6. Turns(r) /\ RoleOf(r)' = old
    BY <1>2, <1>3, <1>8, <2>4, <2>5, TurnsIf
  <2>7. \A cb : ((cb \in wcalls') <=> (cb \in wcalls)) \/ Concerns(cb, r)
    BY <1>6, <1>8 DEF Concerns
  <2>8. OthersUntold(r)
    BY <1>8, <2>7, OthersStay DEF OnlyRole
  <2>9. Answered(LaunchCb(s, r), "ok")
    BY <1>8 DEF Handles
  <2>10. ChangeCb(o) \in WorldCbs /\ OtherCb(ChangeCb(o))
    BY <1>3, ClosureKinds DEF WorldCbs, OtherCb
  <2>11. Home(r, old.game)
    BY <1>2, <1>3 DEF Home
  <2>12. Tells(r)
    <3> HIDE DEF calls
    <3>1. PICK g \in Games, c \in Clients \cup {None}, cb \in WorldCbs \cup {NoCb} :
            g = old.game /\ c = old.gate /\ cb = ChangeCb(o)
      BY <1>3, <1>4, <2>10
    <3> HIDE DEF old, o
    <3>2. Says(g, ChangeClient(g, r, c, cb)) /\ OtherCb(cb) /\ Home(r, g) /\ RoleOf(r)'.gate = c
      BY <2>1, <2>3, <2>6, <2>10, <2>11, <3>1
    <3> QED BY <1>1, <2>6, <2>8, <2>9, <3>2 DEF Tells
  <2> QED BY <2>12 DEF WorldMoves
<1>9. CASE err # "ok" /\ wcalls' = calls /\ FailAction(o, in, err)
  <2>1. \A cb : ((cb \in wcalls') <=> (cb \in wcalls)) \/ Concerns(cb, r)
    BY <1>6, <1>9
  <2>2. \/ faults' # 0
        \/ \E t \in Ids, e \in Errors :
             e # "ok" /\ LaunchCb(t, r) \in wcalls /\ Answered(LaunchCb(t, r), e)
    BY <1>1, <1>9 DEF Handles
  <2>3. \A d : Aims(d, r) => d \notin wcalls'
    BY <1>5, <1>9
  <2> HIDE DEF calls
  <2> QED BY <1>2, <1>3, <1>9, <2>1, <2>2, <2>3, FailActionMoves
<1> QED BY <1>2, <1>3, <1>4, <1>7, <1>8, <1>9 DEF RpcRspLaunchRole

\* The answer to the client_change of a launch.
LEMMA LaunchClientChangedMoves ==
  ASSUME WorldInv, Sound, Queues, GamesSound, NEW in, ToWorld(in), Takes(in),
         NEW o \in Ids, NEW err, LaunchClientChanged(in, o, err), Handles(ChangeCb(o), err)
  PROVE  WorldMoves
<1> DEFINE old == objs[o]
<1>0. PICK r : r = old.role
  OBVIOUS
<1>1. ChangeCb(o) \in wcalls /\ wcalls' = wcalls \ {ChangeCb(o)}
  BY DEF LaunchClientChanged
<1>2. Alive(o) /\ o \in Tables /\ old.state = "launch" /\ LaunchCb(o, r) \notin wcalls
  BY <1>0, <1>1, TablesAre DEF Sound, ChangeSound
<1>3. r \in Roles /\ Lives(r) /\ role_id_to_role[r] = o
  BY <1>0, <1>2, AliveTable
<1>4. old \in RoleObj /\ RoleOf(r) = old
  BY <1>3, LivingRole
<1>5. old.cached \in LaunchRsps /\ old.cached # None
  BY <1>2, <1>4 DEF Sound, TablesSound, RoleObj
<1>6. \A d : Aims(d, r) => d \notin wcalls
  <2>1. \A t \in Ids : LaunchCb(t, r) \notin wcalls
    BY <1>2, <1>3 DEF Sound, LaunchSound
  <2>2. \A i \in Ids : ReleaseCb(r, i) \notin wcalls
    BY <1>2, <1>3, <1>4, NoCalls
  <2> QED BY <2>1, <2>2 DEF Aims
<1>7. \A cb : ((cb \in wcalls') <=> (cb \in wcalls)) \/ Concerns(cb, r)
  BY <1>1, <1>3 DEF Concerns
<1>8. CASE /\ objs' = [objs EXCEPT ![o].state = "using", ![o].cached = None]
           /\ Deliver(in, World, <<Reply(old.cached, "ok", old.session)>>)
           /\ UNCHANGED role_id_to_role
  <2>1. PICK new : new = [old EXCEPT !.state = "using", !.cached = None]
    OBVIOUS
  <2>2. /\ new.state = "using" /\ new.gate = old.gate /\ new.game = old.game
        /\ objs'[o] = new /\ \A p \in Tables : p # o => objs'[p] = objs[p]
    BY <1>4, <1>8, <2>1 DEF RoleObj, WorldInv, WTypeOK, Tables
  <2>3. PICK a : a = Reply(old.cached, "ok", old.session) /\ a.to \notin Games
    BY <1>5, RepliesAway
  <2> HIDE DEF old
  <2>4. Mute
    BY <1>8, <2>3, WorldMute
  <2>5. EndsCalls(r) /\ \A d : Aims(d, r) /\ d \in wcalls' => d \in wcalls
    BY <1>1, <1>6, EndsNone
  <2>6. Turns(r) /\ RoleOf(r)' = new /\ \A g : Home(r, g)' <=> Home(r, g)
    BY <1>2, <1>3, <1>4, <1>8, <2>2, <2>5, TurnsIf
  <2>7. OthersUntold(r)
    BY <1>3, <1>7, <1>8, <2>2, OthersStay DEF OnlyRole
  <2>8. \A g \in Games : Settled(r, g)' => Settled(r, g) /\ RoleOf(r)'.gate = RoleOf(r).gate
    BY <1>1, <1>3, <1>4, <2>2, <2>6 DEF Settled
  <2> QED BY <1>3, <2>4, <2>6, <2>7, <2>8, OneMutely
<1>9. ASSUME NEW e, FailAction(o, in, e), err # "ok" PROVE WorldMoves
  <2>1. faults' # 0
    BY <1>9, ClosureKinds, AnswersOk
  <2>2. \A d : Aims(d, r) => d \notin wcalls'
    BY <1>1, <1>6
  <2> HIDE DEF old
  <2> QED BY <1>2, <1>3, <1>4, <1>7, <1>9, <2>1, <2>2, FailActionMoves
<1> QED BY <1>5, <1>8, <1>9 DEF LaunchClientChanged

\* client_quit
LEMMA ClientQuitMoves ==
  ASSUME WorldInv, Sound, Queues, NEW in, ToWorld(in), Takes(in),
         NEW s \in IdOrNil, s # 0 => GivenOut(s), ClientQuit(in, s)
  PROVE  WorldMoves
<1> DEFINE o == IF s = 0 THEN 0 ELSE session_id_to_role[s]
           old == objs[o]
<1>1. UNCHANGED wcalls
  BY DEF ClientQuit
<1>2. CASE o = 0
  <2>1. Deliver(in, World, <<>>) /\ UNCHANGED <<objs, role_id_to_role>>
    BY <1>2 DEF ClientQuit
  <2>2. Mute
    <3>1. PICK a : a = [to |-> World]
      OBVIOUS
    <3>2. a.to \notin Games
      BY <3>1, ConstantsAssumption
    <3> QED BY <2>1, <3>2, WorldMute
  <2> QED BY <1>1, <2>1, <2>2, AllStay, AllMutely
<1>3. CASE o # 0
  <2>1. s # 0 /\ s \in Ids /\ o = session_id_to_role[s] /\ GivenOut(s)
    BY <1>3, IdFacts
  <2>2. PICK r : r = old.role
    OBVIOUS
  <2>3. /\ o \in Tables /\ old.session = s /\ old.state = "using"
        /\ r \in Roles /\ Lives(r) /\ role_id_to_role[r] = o /\ RoleOf(r) = old
    BY <1>3, <2>1, <2>2, GivenTable
  <2>4. /\ objs' = [objs EXCEPT ![o] = Detached(@, "idle")]
        /\ Deliver(in, World, <<ChangeClient(old.game, r, None, NoCb)>>)
        /\ UNCHANGED role_id_to_role
    BY <1>3, <2>1, <2>2, <2>3 DEF ClientQuit
  <2>5. old \in RoleObj /\ old.game \in Games
    BY <2>3 DEF Tables, RoleObj
  <2>6. PICK new : new = Detached(old, "idle")
    OBVIOUS
  <2>7. /\ new.state = "idle" /\ new.gate = None /\ new.game = old.game
        /\ objs' = [objs EXCEPT ![o] = new]
    BY <2>4, <2>5, <2>6 DEF Detached, RoleObj
  <2>8. PICK m : m = ChangeClient(old.game, r, None, NoCb) /\ m.to = old.game
    BY ChangesGo
  <2> HIDE DEF old, o
  <2>9. Says(old.game, m)
    <3>1. PICK a : a = [to |-> World]
      OBVIOUS
    <3>2. a.to \notin Games
      BY <3>1, ConstantsAssumption
    <3> QED BY <2>4, <2>5, <2>8, <3>2, WorldSays
  <2>10. Says(new.game, ChangeClient(new.game, r, new.gate, NoCb))
    BY <2>7, <2>8, <2>9
  <2> QED BY <1>1, <2>3, <2>4, <2>7, <2>10, NoCbIsOther, TellsIf
<1> QED BY <1>2, <1>3

\* try_release_role, on the heap and the calls as the handler left them.
LEMMA ReleasesIf ==
  ASSUME WorldInv, NEW r \in Roles, Lives(r), NEW mid \in RoleObj, mid.game = RoleOf(r).game,
         NEW heap, heap = [objs EXCEPT ![role_id_to_role[r]] = mid],
         NEW calls, \A d : Aims(d, r) => d \notin calls,
         \A d : ((d \in calls) <=> (d \in wcalls)) \/ Aims(d, r),
         TryReleaseRole(heap, calls, r), UNCHANGED role_id_to_role,
         RoleOf(r).state \in {"using", "idle"} \/ (RoleOf(r).state = "releasing" /\ faults' # 0),
         Says(RoleOf(r).game, ReleaseCall(r))
  PROVE  WorldMoves
<1> DEFINE o == role_id_to_role[r]
<1>1. PICK k : k = last_opera_id + 1
  OBVIOUS
<1>2. k \in Ids /\ last_opera_id' = k /\ wcalls' = calls \cup {ReleaseCb(r, k)}
  BY <1>1 DEF TryReleaseRole
<1>3. RoleOf(r) \in RoleObj /\ o \in Ids /\ RoleOf(r).game \in Games
  BY LivingRole DEF Tables, RoleObj
<1>4. objs' = [heap EXCEPT ![o].state = "releasing", ![o].operas = @ \cup {k}]
  BY <1>1 DEF TryReleaseRole, Releasing
<1>5. heap[o] = mid /\ DOMAIN heap = Ids /\ \A p \in Ids : p # o => heap[p] = objs[p]
  BY <1>3 DEF WorldInv, WTypeOK
<1>6. objs'[o] = [mid EXCEPT !.state = "releasing", !.operas = @ \cup {k}]
  BY <1>3, <1>4, <1>5
<1>7. objs'[o].state = "releasing" /\ objs'[o].game = mid.game
  BY <1>6 DEF RoleObj
<1>8. \A p \in Tables : p # o => objs'[p] = objs[p]
  BY <1>4, <1>5 DEF Tables
<1>9. last_opera_id < k /\ k <= last_opera_id'
  BY <1>1, <1>2, NatCounters
<1>10. RoleOf(r)'.state = "releasing" /\ \A h \in Games : Home(r, h)' <=> Home(r, h)
  BY <1>7 DEF RoleOf, Home, Lives
<1>11. \A cb \in WorldCbs : Current(cb, r)' <=> cb = ReleaseCb(r, k)
  <2>1. Aims(ReleaseCb(r, k), r)
    BY <1>2, AimsFacts
  <2> QED BY <1>2, <2>1 DEF Current
<1>12. OthersUntold(r)
  <2>1. \A d : ((d \in wcalls') <=> (d \in wcalls)) \/ Concerns(d, r)
    BY <1>2, AimsFacts DEF Concerns
  <2> QED BY <1>8, <2>1, OthersStay DEF OnlyRole
<1>13. PICK g \in Games : g = RoleOf(r).game
  BY <1>3
<1>14. Says(g, Call(g, "release_role", <<r>>, ReleaseCb(r, k)))
  BY <1>1, <1>13 DEF ReleaseCall
<1>15. Home(r, g)
  BY <1>13 DEF Home
<1>16. Releases(r)
  BY <1>2, <1>9, <1>10, <1>11, <1>12, <1>14, <1>15 DEF Releases
<1> QED BY <1>16 DEF WorldMoves

\* release_role goes to the game service of the role.
LEMMA ReleaseGoes ==
  ASSUME WorldInv, NEW r \in Roles, Lives(r)
  PROVE  ReleaseCall(r).to = RoleOf(r).game /\ RoleOf(r).game \in Games
BY LivingRole DEF RoleObj, ReleaseCall, Call

\* logout_role
LEMMA LogoutRoleMoves ==
  ASSUME WorldInv, Sound, Queues, NEW in, ToWorld(in), Takes(in), NEW rsp, rsp[2] \in Clients,
         NEW s \in IdOrNil, s # 0 => GivenOut(s), NEW r \in Roles, LogoutRole(in, rsp, s, r)
  PROVE  WorldMoves
<1> DEFINE o == IF s = 0 THEN 0 ELSE session_id_to_role[s]
           old == objs[o]
<1>1. UNCHANGED role_id_to_role
  BY DEF LogoutRole
<1>2. CASE /\ \E e : Deliver(in, World, <<Reply(rsp, e, 0)>>)
           /\ UNCHANGED <<objs, wcalls>>
  <2>1. PICK e : Deliver(in, World, <<Reply(rsp, e, 0)>>)
    BY <1>2
  <2>2. PICK a : a = Reply(rsp, e, 0) /\ a.to \notin Games
    BY RepliesAway
  <2>3. Mute
    BY <2>1, <2>2, WorldMute
  <2> QED BY <1>1, <1>2, <2>3, AllStay, AllMutely
<1>3. CASE o # 0 /\ old.role = r
  <2>1. s # 0 /\ s \in Ids /\ o = session_id_to_role[s] /\ GivenOut(s)
    BY <1>3, IdFacts
  <2>2. /\ o \in Tables /\ old.session = s /\ old.state = "using"
        /\ Lives(r) /\ role_id_to_role[r] = o /\ RoleOf(r) = old
    BY <1>3, <2>1, GivenTable
  <2> DEFINE mid == Detached(old, old.state)
             heap == [objs EXCEPT ![o] = mid]
  <2>3. heap = [objs EXCEPT ![o] = Detached(@, @.state)]
    OBVIOUS
  <2>4. /\ TryReleaseRole(heap, wcalls, r)
        /\ Deliver(in, World, <<ReleaseCall(r), Reply(rsp, "ok", 0)>>)
    BY <1>3, <2>1, <2>2, <2>3 DEF LogoutRole
  <2>5. mid \in RoleObj /\ mid.game = old.game
    BY <1>3, <2>2, IdFacts DEF Detached, Tables, RoleObj, RoleStates
  <2>6. heap = [objs EXCEPT ![role_id_to_role[r]] = mid]
    BY <2>2
  <2>7. \A d : Aims(d, r) => d \notin wcalls
    BY <2>2, NoCalls DEF Aims
  <2>8. PICK a : a = Reply(rsp, "ok", 0) /\ a.to \notin Games
    BY RepliesAway
  <2>9. PICK m : m = ReleaseCall(r) /\ m.to = RoleOf(r).game
    BY <2>2, ReleaseGoes
  <2> HIDE DEF mid, heap, old, o
  <2>10. Says(RoleOf(r).game, ReleaseCall(r))
    BY <2>2, <2>4, <2>8, <2>9, ReleaseGoes, WorldSays
  <2> QED BY <1>1, <2>2, <2>4, <2>5, <2>6, <2>7, <2>10, ReleasesIf
<1>4. CASE o # 0 /\ old.role # r
  BY <1>2, <1>4 DEF LogoutRole
<1>5. CASE o = 0
  BY <1>2, <1>5 DEF LogoutRole
<1> QED BY <1>3, <1>4, <1>5

\* OnFrame
LEMMA OnFrameMoves ==
  ASSUME WorldInv, Sound, Queues, NEW r \in Roles, OnFrame(r)
  PROVE  WorldMoves
<1>1. /\ Lives(r) /\ RoleOf(r).state = "idle" /\ TryReleaseRole(objs, wcalls, r)
      /\ Deliver(NoLink, World, <<ReleaseCall(r)>>)
      /\ UNCHANGED role_id_to_role
  BY DEF OnFrame
<1>2. /\ RoleOf(r) \in RoleObj /\ RoleOf(r) = objs[role_id_to_role[r]]
      /\ role_id_to_role[r] \in Ids
  BY <1>1, LivingRole DEF Tables
<1>3. objs = [objs EXCEPT ![role_id_to_role[r]] = RoleOf(r)]
  BY <1>2 DEF WorldInv, WTypeOK
<1>4. \A d : Aims(d, r) => d \notin wcalls
  BY <1>1, NoCalls DEF Aims
<1>5. PICK m : m = ReleaseCall(r) /\ m.to = RoleOf(r).game
  BY <1>1, ReleaseGoes
<1>6. PICK a : a = [to |-> World]
  OBVIOUS
<1>7. a.to \notin Games
  BY <1>6, ConstantsAssumption
<1>8. Says(RoleOf(r).game, ReleaseCall(r))
  BY <1>1, <1>5, <1>7, ReleaseGoes, NoLinkIsNone, WorldSays DEF ToWorld
<1> QED BY <1>1, <1>2, <1>3, <1>4, <1>8, ReleasesIf

\* _rpc_rsp_try_release_role
LEMMA RpcRspTryReleaseRoleMoves ==
  ASSUME WorldInv, Sound, Queues, GamesSound, NEW in, ToWorld(in), Takes(in),
         NEW r \in Roles, NEW opera \in Ids, NEW err, RpcRspTryReleaseRole(in, r, opera, err),
         Handles(ReleaseCb(r, opera), err)
  PROVE  WorldMoves
<1> DEFINE o == role_id_to_role[r]
           old == objs[o]
           calls == wcalls \ {ReleaseCb(r, opera)}
<1>1. ReleaseCb(r, opera) \in wcalls
  BY DEF RpcRspTryReleaseRole
<1>2. /\ Lives(r) /\ RoleOf(r).state = "releasing"
      /\ \A j \in Ids : ReleaseCb(r, j) \in wcalls => opera = j
  BY <1>1 DEF Sound, ReleaseSound
<1>3. /\ old \in RoleObj /\ old.role = r /\ RoleOf(r) = old /\ o \in Tables /\ o \in Ids
  BY <1>2, LivingRole DEF Tables
<1>4. /\ \A d : Aims(d, r) => d \notin calls
      /\ \A d : ((d \in calls) <=> (d \in wcalls)) \/ Aims(d, r)
  <2>1. \A d : Aims(d, r) /\ d \in wcalls => d = ReleaseCb(r, opera)
    BY <1>2, NoCalls DEF Aims
  <2>2. Aims(ReleaseCb(r, opera), r)
    BY AimsFacts
  <2> QED BY <2>1, <2>2
<1>5. PICK a : a = [to |-> World]
  OBVIOUS
<1>6. a.to \notin Games
  BY <1>5, ConstantsAssumption
<1>7. CASE /\ wcalls' = calls
           /\ Deliver(in, World, <<>>)
           /\ UNCHANGED <<objs, role_id_to_role>>
  <2>1. Mute
    BY <1>6, <1>7, WorldMute
  <2>2. EndsCalls(r)
    <3>1. \A d : Aims(d, r) /\ d \in wcalls => d \in wcalls' \/ d = ReleaseCb(r, opera)
      BY <1>7
    <3> QED BY <3>1, EndsOne
  <2>3. Turns(r) /\ RoleOf(r)' = old /\ \A g : Home(r, g)' <=> Home(r, g)
    BY <1>2, <1>3, <1>7, <2>2, TurnsIf
  <2>4. OthersUntold(r)
    <3>1. \A d : ((d \in wcalls') <=> (d \in wcalls)) \/ Concerns(d, r)
      BY <1>4, <1>7 DEF Concerns
    <3> QED BY <1>7, <3>1, OthersStay DEF OnlyRole
  <2>5. \A g \in Games : Settled(r, g)' => Settled(r, g) /\ RoleOf(r)'.gate = RoleOf(r).gate
    BY <1>2, <1>3, <2>3 DEF Settled
  <2> QED BY <2>1, <2>3, <2>4, <2>5, OneMutely
<1>8. CASE /\ err # "ok"
           /\ TryReleaseRole(objs, calls, r)
           /\ Deliver(in, World, <<ReleaseCall(r)>>)
           /\ UNCHANGED role_id_to_role
  <2>1. objs = [objs EXCEPT ![role_id_to_role[r]] = old]
    BY <1>3 DEF WorldInv, WTypeOK
  <2>2. PICK m : m = ReleaseCall(r) /\ m.to = RoleOf(r).game
    BY <1>2, ReleaseGoes
  <2>3. Says(RoleOf(r).game, ReleaseCall(r))
    BY <1>2, <1>6, <1>8, <2>2, ReleaseGoes, WorldSays
  <2>4. faults' # 0
    BY <1>8, ClosureKinds, AnswersOk
  <2> HIDE DEF calls, old, o
  <2> QED BY <1>2, <1>3, <1>4, <1>8, <2>1, <2>3, <2>4, ReleasesIf
<1>9. CASE /\ err = "ok"
           /\ objs' = [objs EXCEPT ![o].state = "released"]
           /\ role_id_to_role' = Unmap(role_id_to_role, {r})
           /\ wcalls' = calls
           /\ Deliver(in, World, <<>>)
  <2>1. Mute
    BY <1>6, <1>9, WorldMute
  <2>2. /\ role_id_to_role'[r] = 0
        /\ \A p \in Roles : p # r => role_id_to_role'[p] = role_id_to_role[p]
    BY <1>9 DEF Unmap, WorldInv, WTypeOK
  <2>3. \A p \in Tables : p # o => objs'[p] = objs[p]
    BY <1>9 DEF WorldInv, WTypeOK, Tables
  <2>4. \A d : ((d \in wcalls') <=> (d \in wcalls)) \/ Concerns(d, r)
    BY <1>4, <1>9 DEF Concerns
  <2>5. OthersUntold(r)
    BY <2>2, <2>3, <2>4, OthersStay DEF OnlyRole
  <2>6. ~ Lives(r)' /\ \A cb \in WorldCbs : ~ Current(cb, r)'
    BY <1>4, <1>9, <2>2 DEF Lives, Current, Aims
  <2>7. Answered(ReleaseCb(r, opera), "ok")
    BY <1>9 DEF Handles
  <2>8. Forgets(r)
    BY <1>1, <1>2, <2>1, <2>5, <2>6, <2>7 DEF Forgets
  <2> QED BY <2>8 DEF WorldMoves
<1> QED BY <1>2, <1>3, <1>7, <1>8, <1>9 DEF RpcRspTryReleaseRole

\* reconnect_role
LEMMA ReconnectRoleMoves ==
  ASSUME WorldInv, Sound, Queues, NEW in, ToWorld(in), Takes(in),
         NEW c \in Clients, NEW r \in Roles, NEW rsp,
         \A s \in Ids, o \in Ids : ReconnectCb(rsp, s, o) \in WorldCbs,
         ReconnectRole(in, rsp, c, r)
  PROVE  WorldMoves
<1> DEFINE o == role_id_to_role[r]
           old == objs[o]
           s == last_opera_id + 1
<1>1. UNCHANGED role_id_to_role
  BY DEF ReconnectRole
<1>2. PICK a : a = [to |-> World]
  OBVIOUS
<1>3. a.to \notin Games
  BY <1>2, ConstantsAssumption
<1>4. CASE Deliver(in, World, <<>>) /\ UNCHANGED <<objs, wcalls>>
  <2>1. Mute
    BY <1>3, <1>4, WorldMute
  <2> QED BY <1>1, <1>4, <2>1, AllStay, AllMutely
<1>5. CASE /\ Lives(r) /\ RoleOf(r).state = "idle" /\ s \in Ids
           /\ objs' = [objs EXCEPT ![o].state = "using", ![o].session = s, ![o].gate = c]
           /\ wcalls' = wcalls \cup {ReconnectCb(rsp, s, o)}
           /\ Deliver(in, World, <<ChangeClient(RoleOf(r).game, r, c, ReconnectCb(rsp, s, o))>>)
  <2>1. old \in RoleObj /\ RoleOf(r) = old /\ o \in Ids /\ old.game \in Games
    BY <1>5, LivingRole DEF Tables, RoleObj
  <2>2. PICK new : new = [old EXCEPT !.state = "using", !.session = s, !.gate = c]
    OBVIOUS
  <2>3. /\ new.state = "using" /\ new.gate = c /\ new.game = old.game
        /\ objs' = [objs EXCEPT ![o] = new]
    BY <1>5, <2>1, <2>2 DEF RoleObj
  <2>4. PICK cb \in WorldCbs : cb = ReconnectCb(rsp, s, o)
    BY <1>5, <2>1
  <2>5. cb[1] = "_reconnect_role_game_change_client_cb" /\ OtherCb(cb)
    BY <2>4, ClosureKinds DEF OtherCb
  <2>6. PICK m : m = ChangeClient(old.game, r, c, cb) /\ m.to = old.game
    BY ChangesGo
  <2> HIDE DEF s
  <2>7. Says(old.game, m)
    BY <1>3, <1>5, <2>1, <2>4, <2>6, WorldSays
  <2>8. Says(new.game, ChangeClient(new.game, r, new.gate, cb))
    BY <2>3, <2>6, <2>7
  <2>9. \A d : ((d \in wcalls') <=> (d \in wcalls)) \/ d[1] = "_reconnect_role_game_change_client_cb"
    BY <1>5, <2>4, <2>5
  <2> HIDE DEF old
  <2> QED BY <1>1, <1>5, <2>1, <2>3, <2>4, <2>5, <2>8, <2>9, TellsIf
<1> QED BY <1>4, <1>5 DEF ReconnectRole

\* _reconnect_role_game_change_client_cb
LEMMA ReconnectClientChangedMoves ==
  ASSUME WorldInv, Sound, Queues, GamesSound, NEW in, ToWorld(in), Takes(in),
         NEW rsp, rsp[2] \in Clients, NEW s \in Ids, NEW o \in Ids, NEW err,
         ReconnectClientChanged(in, rsp, s, o, err), Handles(ReconnectCb(rsp, s, o), err)
  PROVE  WorldMoves
<1> DEFINE old == objs[o]
<1>1. PICK cb : cb = ReconnectCb(rsp, s, o)
  OBVIOUS
<1>2. cb \in wcalls /\ wcalls' = wcalls \ {cb} /\ UNCHANGED role_id_to_role
  BY <1>1 DEF ReconnectClientChanged
<1>3. cb[1] = "_reconnect_role_game_change_client_cb" /\ cb[3] = s /\ cb[4] = o
  BY <1>1, ClosuresDiffer
<1>4. o \in Tables /\ old.state # "launch"
  BY <1>2, <1>3, TablesAre DEF Sound, ReconnectSound
<1>5. \A d : ((d \in wcalls') <=> (d \in wcalls)) \/ d[1] = "_reconnect_role_game_change_client_cb"
  BY <1>2, <1>3
<1>6. ASSUME NEW e, NEW t, Deliver(in, World, <<Reply(rsp, e, t)>>) PROVE Mute
  <2>1. PICK a : a = Reply(rsp, e, t) /\ a.to \notin Games
    BY RepliesAway
  <2> QED BY <1>6, <2>1, WorldMute
<1>7. CASE UNCHANGED objs /\ Mute
  BY <1>2, <1>5, <1>7, AllStay, AllMutely
<1>8. CASE /\ old.session = s /\ ~ (err = "ok" /\ old.state = "using")
           /\ objs' = [objs EXCEPT ![o] = Detached(@, IF @.state = "using" THEN "idle" ELSE @.state)]
           /\ Mute
  <2>1. old.state = "using" /\ Alive(o)
    BY <1>4, <1>8, IdFacts DEF Sound, TablesSound, Tables, RoleObj, RoleStates
  <2>2. PICK r : r = old.role
    OBVIOUS
  <2>3. r \in Roles /\ Lives(r) /\ role_id_to_role[r] = o /\ RoleOf(r) = old
    BY <1>4, <2>1, <2>2, AliveTable DEF RoleOf
  <2>4. faults' # 0
    BY <1>1, <1>3, <1>8, <2>1, AnswersOk
  <2>5. PICK new : new = Detached(old, "idle")
    OBVIOUS
  <2>6. /\ new.state = "idle" /\ new.game = old.game
        /\ objs'[o] = new /\ \A p \in Tables : p # o => objs'[p] = objs[p]
    BY <1>4, <1>8, <2>1, <2>5 DEF Detached, Tables, RoleObj, WorldInv, WTypeOK
  <2>7. \A d : Aims(d, r) => ((d \in wcalls') <=> (d \in wcalls))
    BY <1>5, AimsKinds
  <2>8. EndsCalls(r)
    BY <2>7, EndsNone
  <2>9. Turns(r) /\ RoleOf(r)' = new /\ \A g : Home(r, g)' <=> Home(r, g)
    BY <1>2, <2>1, <2>3, <2>6, <2>7, <2>8, TurnsIf
  <2>10. OthersUntold(r)
    BY <1>2, <1>5, <2>3, <2>6, OthersStay DEF OnlyRole, Concerns
  <2>11. \A g \in Games : Settled(r, g)' => Settled(r, g)
    BY <2>1, <2>3, <2>9 DEF Settled
  <2> QED BY <1>8, <2>3, <2>4, <2>9, <2>10, <2>11, OneMutely
<1>9. \/ UNCHANGED objs /\ \E e, t : Deliver(in, World, <<Reply(rsp, e, t)>>)
      \/ /\ old.session = s /\ ~ (err = "ok" /\ old.state = "using")
         /\ objs' = [objs EXCEPT ![o] = Detached(@, IF @.state = "using" THEN "idle" ELSE @.state)]
         /\ \E e, t : Deliver(in, World, <<Reply(rsp, e, t)>>)
  BY DEF ReconnectClientChanged
<1> QED BY <1>6, <1>7, <1>8, <1>9

\* The callbacks of the world, for an answer or an expiry.
LEMMA WorldCallbackMoves ==
  ASSUME WorldInv, Sound, Queues, GamesSound, NEW in, ToWorld(in), Takes(in),
         NEW cb, NEW err, WorldCallback(in, cb, err), Handles(cb, err)
  PROVE  WorldMoves
<1>1. CASE \E s \in Ids, r \in Roles : cb = LaunchCb(s, r) /\ RpcRspLaunchRole(in, s, r, err)
  BY <1>1, RpcRspLaunchRoleMoves
<1>2. CASE \E o \in Ids : cb = ChangeCb(o) /\ LaunchClientChanged(in, o, err)
  BY <1>2, LaunchClientChangedMoves
<1>3. CASE \E r \in Roles, opera \in Ids :
             cb = ReleaseCb(r, opera) /\ RpcRspTryReleaseRole(in, r, opera, err)
  BY <1>3, RpcRspTryReleaseRoleMoves
<1>4. ASSUME NEW c \in Clients, NEW n \in CallIds, NEW r \in Roles, NEW s \in Ids, NEW o \in Ids,
             NEW rsp, rsp = GateCb("reconnect", c, n, r),
             cb = ReconnectCb(rsp, s, o), ReconnectClientChanged(in, rsp, s, o, err)
      PROVE  WorldMoves
  <2>1. rsp[2] \in Clients
    BY <1>4, RepliesAway
  <2> QED BY <1>4, <2>1, ReconnectClientChangedMoves
<1> QED BY <1>1, <1>2, <1>3, <1>4 DEF WorldCallback

\* Every step of the world has one of the shapes.
LEMMA WorldStepMoves ==
  ASSUME WorldInv, Sound, Queues, GamesInv, GamesSound, World_Step \/ WorldExpire
  PROVE  WorldMoves /\ faults <= faults'
<1>1. faults \in Nat /\ (faults' = faults \/ (WorldExpire /\ faults' = faults + 1))
  BY ConstantsAssumption DEF GamesInv, World_Step, WorldExpire, SpendFault
<1>2. faults <= faults'
  BY <1>1
<1>3. \A a : ToWorld(<<a, World>>)
  BY DEF ToWorld
<1>4. ASSUME NEW c \in Clients, NEW fn, NEW args, NEW cb, FromGate(c, fn, args, cb)
      PROVE  /\ Takes(<<GateOf[c], World>>)
             /\ \A s : fn = "logout_role" /\ args[1] = s => GivenOut(s)
  <2>1. Takes(<<GateOf[c], World>>)
    BY <1>4 DEF Takes, FromGate, Arrives
  <2>2. <<GateOf[c], World>> \in Links
    BY ConstantsAssumption DEF Links
  <2>3. PICK m : m = Call(World, fn, args, cb) /\ Arrives(GateOf[c], World, m)
    BY <1>4 DEF FromGate
  <2>4. \A s : fn = "logout_role" /\ args[1] = s => Names(m, s)
    BY <2>3 DEF Names, Call
  <2> QED BY <2>1, <2>2, <2>3, <2>4, ArrivesNamed
<1>5. CASE WorldLaunchRole
  <2>1. PICK c \in Clients, n \in CallIds, r \in Roles :
          /\ FromGate(c, "launch_role", <<r, c>>, GateCb("launch", c, n, r))
          /\ LaunchRole(<<GateOf[c], World>>, GateCb("launch", c, n, r), c, r)
    BY <1>5 DEF WorldLaunchRole
  <2>2. Takes(<<GateOf[c], World>>)
    BY <1>4, <2>1
  <2>3. GateCb("launch", c, n, r) \in LaunchRsps
    BY DEF LaunchRsps
  <2>4. PICK in, rsp : in = <<GateOf[c], World>> /\ rsp = GateCb("launch", c, n, r)
    OBVIOUS
  <2> QED BY <1>2, <1>3, <2>1, <2>2, <2>3, <2>4, LaunchRoleMoves
<1>6. CASE WorldReconnectRole
  <2>1. PICK c \in Clients, n \in CallIds, r \in Roles :
          /\ FromGate(c, "reconnect_role", <<r, c>>, GateCb("reconnect", c, n, r))
          /\ ReconnectRole(<<GateOf[c], World>>, GateCb("reconnect", c, n, r), c, r)
    BY <1>6 DEF WorldReconnectRole
  <2>2. Takes(<<GateOf[c], World>>)
    BY <1>4, <2>1
  <2>3. \A s \in Ids, o \in Ids : ReconnectCb(GateCb("reconnect", c, n, r), s, o) \in WorldCbs
    BY DEF WorldCbs
  <2>4. PICK in, rsp : in = <<GateOf[c], World>> /\ rsp = GateCb("reconnect", c, n, r)
    OBVIOUS
  <2> QED BY <1>2, <1>3, <2>1, <2>2, <2>3, <2>4, ReconnectRoleMoves
<1>7. CASE WorldLogoutRole
  <2>1. PICK c \in Clients, n \in CallIds, r \in Roles, s \in IdOrNil :
          /\ FromGate(c, "logout_role", <<s, r>>, GateCb("logout", c, n, r))
          /\ LogoutRole(<<GateOf[c], World>>, GateCb("logout", c, n, r), s, r)
    BY <1>7 DEF WorldLogoutRole
  <2>2. Takes(<<GateOf[c], World>>) /\ GivenOut(s)
    <3>1. <<s, r>>[1] = s
      OBVIOUS
    <3> QED BY <1>4, <2>1, <3>1
  <2>3. GateCb("logout", c, n, r)[2] \in Clients
    BY RepliesAway
  <2>4. PICK in, rsp : in = <<GateOf[c], World>> /\ rsp = GateCb("logout", c, n, r)
    OBVIOUS
  <2> QED BY <1>2, <1>3, <2>1, <2>2, <2>3, <2>4, LogoutRoleMoves
<1>8. CASE WorldClientQuit
  <2>1. PICK gate \in Gates, s \in IdOrNil :
          /\ Arrives(gate, World, Call(World, "client_quit", <<s>>, NoCb))
          /\ ClientQuit(<<gate, World>>, s)
    BY <1>8 DEF WorldClientQuit
  <2>2. Takes(<<gate, World>>)
    BY <2>1 DEF Takes, Arrives
  <2>3. GivenOut(s)
    <3>1. <<gate, World>> \in Links
      BY DEF Links
    <3>2. PICK m : m = Call(World, "client_quit", <<s>>, NoCb) /\ Arrives(gate, World, m)
      BY <2>1
    <3>3. Names(m, s)
      BY <3>2 DEF Names, Call
    <3> QED BY <3>1, <3>2, <3>3, ArrivesNamed
  <2> QED BY <1>2, <1>3, <2>1, <2>2, <2>3, ClientQuitMoves
<1>9. CASE WorldAnswered
  <2>1. PICK g \in Games, cb \in wcalls, err \in Errors :
          /\ Arrives(g, World, Answer(World, cb, err, 0))
          /\ WorldCallback(<<g, World>>, cb, err)
    BY <1>9 DEF WorldAnswered
  <2>2. Takes(<<g, World>>)
    BY <2>1 DEF Takes, Arrives
  <2>3. Handles(cb, err)
    BY <2>1 DEF Handles, Answered, Arrives, Back
  <2> QED BY <1>2, <1>3, <2>1, <2>2, <2>3, WorldCallbackMoves
<1>10. CASE WorldIgnores
  <2>1. PICK g \in Games : net[<<g, World>>] # <<>> /\ Deliver(<<g, World>>, World, <<>>)
    BY <1>10 DEF WorldIgnores
  <2>2. UNCHANGED worldVars
    BY <1>10 DEF WorldIgnores
  <2>3. PICK a : a = [to |-> World]
    OBVIOUS
  <2>4. a.to \notin Games
    BY <2>3, ConstantsAssumption
  <2>5. Mute
    BY <1>3, <2>1, <2>4, WorldMute DEF Takes
  <2> QED BY <1>2, <2>2, <2>5, AllStay, AllMutely DEF worldVars
<1>11. CASE WorldOnFrame
  BY <1>2, <1>11, OnFrameMoves DEF WorldOnFrame
<1>12. CASE WorldExpire
  <2>1. PICK cb \in wcalls : WorldCallback(NoLink, cb, "expired")
    BY <1>12 DEF WorldExpire
  <2>2. faults' # 0
    BY <1>1, <1>12 DEF WorldExpire, SpendFault
  <2>3. Handles(cb, "expired")
    BY <2>2 DEF Handles, Errors
  <2> QED BY <1>2, <2>1, <2>3, NoLinkIsNone, WorldCallbackMoves DEF ToWorld
<1> QED
  BY <1>5, <1>6, <1>7, <1>8, <1>9, <1>10, <1>11, <1>12 DEF World_Step

\* The counters of the world only grow.
LEMMA FollowsGrow ==
  ASSUME WorldInv, WorldInv', Follows PROVE CountersGrow
<1>1. last_session_id \in Nat /\ last_opera_id \in Nat
  BY NatCounters
<1>2. CASE Kept
  BY <1>2 DEF Kept
<1>3. CASE \E r \in Roles, new \in RoleObj : Changed(r, new) \/ Removed(r, new)
  BY <1>3 DEF Changed, Removed
<1>4. CASE \E r \in Roles, s \in Ids, new \in RoleObj : Created(r, s, new)
  <2>1. PICK r \in Roles, s \in Ids, new \in RoleObj : Created(r, s, new)
    BY <1>4
  <2>2. last_session_id < s /\ last_session_id' = s /\ last_opera_id' = last_opera_id
    BY <2>1 DEF Created
  <2> QED BY <1>1, <2>2, IdFacts DEF CountersGrow
<1> QED BY <1>2, <1>3, <1>4 DEF Follows

\* Every step keeps the game services sound, unless it draws a session number that
\* somebody held.
LEMMA GamesStepSound ==
  ASSUME SystemInv, SystemInv', Sound, Queues, GamesSound, ~ DrewHeld, [Next]_vars
  PROVE  GamesSound'
<1>1. GTypeOK /\ WorldInv /\ WorldInv' /\ GamesInv /\ GamesInv'
  BY DEF SystemInv, GateInv
<1>2. CASE World_Step \/ WorldExpire
  <2>1. CountersGrow
    BY <1>1, StepFollows, FollowsGrow
  <2>2. WorldMoves /\ faults <= faults'
    BY <1>1, <1>2, WorldStepMoves
  <2>3. WorldShapes
    BY <2>1, <2>2 DEF WorldShapes, WorldMoves
  <2>4. UNCHANGED gameVars
    BY <1>2 DEF World_Step, WorldExpire
  <2> QED BY <1>1, <2>3, <2>4, WorldGames
<1>3. CASE GameStep
  <2>1. UNCHANGED worldVars /\ faults' = faults
    BY <1>3 DEF GameStep
  <2> QED BY <1>1, <1>3, <2>1, GameLaunches, GameLoads, GameChanges, GameReleases DEF GameStep
<1>4. CASE \/ GateClientStep \/ GateAnswered \/ GateIgnores \/ GateKicks \/ GateExpire
           \/ Break \/ UNCHANGED vars
  BY <1>1, <1>4, GatesGames
<1> QED BY <1>2, <1>3, <1>4 DEF Next

\* Nothing is under way at first.
LEMMA GamesSoundInit ==
  ASSUME Init PROVE GamesSound
<1> SUFFICES ASSUME NEW g \in Games PROVE Formatted(g) /\ \A r \in Roles : GameSound(g, r)
  BY DEF GamesSound
<1>1. <<World, g>> \in Links /\ <<g, World>> \in Links
  BY DEF Links
<1>2. Out(g) = <<>> /\ Back(g) = <<>>
  BY <1>1 DEF Init, NetInit, Out, Back
<1>3. loads[g] = {} /\ wcalls = {} /\ \A r \in Roles : role_id_to_role[r] = 0 /\ roles[g][r] = Absent
  BY DEF Init, WInit, MInit
<1>4. Formatted(g)
  BY <1>2, <1>3 DEF Formatted
<1>5. ASSUME NEW r \in Roles PROVE GameSound(g, r)
  <2>1. CallsFor(r) = {} /\ QueriesFor(g, r) = {} /\ roles[g][r].state = "absent"
    BY <1>3 DEF CallsFor, QueriesFor, Absent
  <2>2. Place(r, g) = "away"
    BY <1>3 DEF Place, Home, Lives
  <2>3. Fits(r, {}, "away", faults, <<>>, <<>>, {}, "absent")
    BY DEF Fits, Loading, ReleaseSent, Holds, LastAsk, AtHome, QueryLast, AnswerLast, Housed
  <2> QED BY <1>2, <2>1, <2>2, <2>3 DEF GameSound
<1> QED BY <1>4, <1>5

\* A step before a session number is drawn that somebody held.
LEMMA UntilClash ==
  ASSUME [HNext]_hvars, ~ clash'
  PROVE  [Next]_vars /\ ~ clash /\ (~ DrewHeld \/ UNCHANGED vars)
<1>1. CASE HNext
  <2>1. Next /\ clash' = (clash \/ DrewHeld)
    BY <1>1 DEF HNext
  <2>2. ~ clash /\ ~ DrewHeld
    BY <2>1, Zenon
  <2> QED BY <2>1, <2>2, Zenon
<1>2. CASE UNCHANGED hvars
  <2>1. clash' = clash /\ UNCHANGED vars
    BY <1>2 DEF hvars
  <2> QED BY <2>1, Zenon
<1> QED BY <1>1, <1>2

GameInv == clash \/ GamesSound

\* The game services stay sound until a session number is drawn that somebody held.
LEMMA GameInvariant == HSpec => []GameInv
<1>1. HInit => GameInv
  BY GamesSoundInit DEF HInit, GameInv
<1>2. SessionInv /\ SessionInv' /\ GameInv /\ [HNext]_hvars => GameInv'
  <2> SUFFICES ASSUME SessionInv, SessionInv', GameInv, [HNext]_hvars, ~ clash' PROVE GamesSound'
    BY DEF GameInv
  <2>1. [Next]_vars /\ ~ clash /\ (~ DrewHeld \/ UNCHANGED vars)
    BY UntilClash
  <2>2. SystemInv /\ SystemInv' /\ Queues /\ Sound /\ GamesSound
    BY <2>1 DEF SessionInv, GameInv
  <2>3. CASE ~ DrewHeld
    BY <2>1, <2>2, <2>3, GamesStepSound
  <2>4. CASE UNCHANGED vars
    BY <2>2, <2>4, GatesGames DEF SystemInv, GateInv
  <2> QED BY <2>1, <2>3, <2>4
<1> QED BY <1>1, <1>2, SessionInvariant, PTL DEF HSpec

-----------------------------------------------------------------------------
(***************************************************************************)
(* Whom a game service serves: the last client_change about a settled role *)
(* that is under way to its game service, or if none is, the game service  *)
(* itself, has the client that the world has.                              *)
(***************************************************************************)
Changes(m, r) == m.fn = "client_change" /\ m.args[1] = r

Told(r, c, out, gate) ==
  \/ gate = c /\ \A i \in DOMAIN out : ~ Changes(out[i], r)
  \/ \E i \in DOMAIN out :
       /\ Changes(out[i], r) /\ out[i].args[2] = c
       /\ \A j \in DOMAIN out : Changes(out[j], r) => ~ (i < j)

ServesSound ==
  \A g \in Games, r \in Roles :
    Place(r, g) = "settled" => Told(r, RoleOf(r).gate, Out(g), roles[g][r].gate)

\* A message that is no change of the role's client is sent.
LEMMA ToldStill ==
  ASSUME NEW r, NEW c, NEW out, NEW gate, NEW m, NEW out2,
         Told(r, c, out, gate), Added(out, m, out2), ~ Changes(m, r)
  PROVE  Told(r, c, out2, gate)
<1>1. \A i \in DOMAIN out2 : Changes(out2[i], r) => i \in DOMAIN out /\ out2[i] = out[i]
  BY DEF Added
<1>2. \A i \in DOMAIN out : i \in DOMAIN out2 /\ out2[i] = out[i]
  BY DEF Added
<1> QED BY <1>1, <1>2 DEF Told

\* The first message is taken off the link and, if it is a change of the role's
\* client, obeyed.
LEMMA ToldTaken ==
  ASSUME NEW r, NEW c, NEW out, NEW gate, NEW out2, NEW gate2,
         Told(r, c, out, gate), Taken(out, out2),
         \A i \in DOMAIN out : i = 1 \/ \E j \in DOMAIN out2 : j + 1 = i,
         IF Changes(out[1], r) THEN gate2 = out[1].args[2] ELSE gate2 = gate
  PROVE  Told(r, c, out2, gate2)
<1>1. \A i \in DOMAIN out2 : i \in Int /\ i + 1 \in DOMAIN out /\ out2[i] = out[i + 1]
  BY DEF Taken
<1>2. CASE gate = c /\ \A i \in DOMAIN out : ~ Changes(out[i], r)
  <2>1. 1 \in DOMAIN out
    BY DEF Taken
  <2> QED BY <1>1, <1>2, <2>1 DEF Told
<1>3. ASSUME NEW i \in DOMAIN out, Changes(out[i], r), out[i].args[2] = c,
             \A j \in DOMAIN out : Changes(out[j], r) => ~ (i < j)
      PROVE  Told(r, c, out2, gate2)
  <2>1. CASE i = 1
    <3>1. \A j \in DOMAIN out2 : 1 < j + 1
      BY DEF Taken
    <3>2. \A j \in DOMAIN out2 : ~ Changes(out2[j], r)
      BY <1>1, <1>3, <2>1, <3>1
    <3>3. gate2 = c
      BY <1>3, <2>1
    <3> QED BY <3>2, <3>3 DEF Told
  <2>2. CASE i # 1
    <3>1. PICK k \in DOMAIN out2 : k + 1 = i
      BY <2>2
    <3>2. Changes(out2[k], r) /\ out2[k].args[2] = c
      BY <1>1, <1>3, <3>1
    <3>3. ASSUME NEW j \in DOMAIN out2, Changes(out2[j], r) PROVE ~ (k < j)
      <4>1. ~ (i < j + 1)
        BY <1>1, <1>3, <3>3
      <4>2. j \in Int /\ k \in Int
        BY <1>1
      <4> QED BY <3>1, <4>1, <4>2
    <3> QED BY <3>2, <3>3 DEF Told
  <2> QED BY <2>1, <2>2
<1> QED BY <1>2, <1>3 DEF Told

\* What is said is the last message under way.
LEMMA SaysLast ==
  ASSUME Queues, NEW g \in Games, NEW m, Says(g, m)
  PROVE  \E i \in DOMAIN Out(g)' : Out(g)'[i] = m /\ \A j \in DOMAIN Out(g)' : ~ (i < j)
<1>1. PICK s : s = Out(g) /\ s \in Seq(ToSet(s)) /\ Out(g)' = Append(s, m)
  BY GameLinks DEF Says
<1>2. /\ Len(s) \in Nat /\ DOMAIN Append(s, m) = 1..(Len(s) + 1)
      /\ Append(s, m)[Len(s) + 1] = m
  BY <1>1
<1>3. Len(s) + 1 \in 1..(Len(s) + 1) /\ \A j \in 1..(Len(s) + 1) : ~ (Len(s) + 1 < j)
  BY <1>2
<1> QED BY <1>1, <1>2, <1>3

\* A role that has settled had settled before, and has the same client, when the
\* step does not concern it.
LEMMA UntoldSettled ==
  ASSUME NEW g \in Games, NEW r \in Roles, Untold(r), Place(r, g)' = "settled"
  PROVE  Place(r, g) = "settled" /\ RoleOf(r)'.gate = RoleOf(r).gate
<1>1. Settled(r, g)' /\ RoleOf(r)'.state # "releasing"
  BY DEF Place
<1>2. Settled(r, g) /\ RoleOf(r)'.gate = RoleOf(r).gate /\ Turns(r)
  BY <1>1, UntoldTurns
<1>3. Home(r, g) /\ Lives(r)
  BY <1>2 DEF Settled, Home
<1>4. RoleOf(r).state # "releasing"
  BY <1>1, <1>2, <1>3 DEF Turns
<1> QED BY <1>2, <1>3, <1>4 DEF Place

\* Every step of the world that tells a game service of a role's client tells the
\* one it records, and no other changes it (manage_role_logic.lua, each handler).
LEMMA WorldServes ==
  ASSUME Queues, ServesSound, UNCHANGED gameVars, WorldShapes, faults' = 0
  PROVE  ServesSound'
<1> SUFFICES ASSUME NEW g \in Games, NEW r \in Roles, Place(r, g)' = "settled"
             PROVE  Told(r, RoleOf(r)'.gate, Out(g)', roles[g][r].gate)
  BY DEF ServesSound, gameVars
<1>1. ASSUME Untold(r), NEW m, ~ Changes(m, r), Out(g)' = Out(g) \/ Says(g, m)
      PROVE  Told(r, RoleOf(r)'.gate, Out(g)', roles[g][r].gate)
  <2>1. Told(r, RoleOf(r)'.gate, Out(g), roles[g][r].gate)
    BY <1>1, UntoldSettled DEF ServesSound
  <2>2. CASE Out(g)' = Out(g)
    BY <2>1, <2>2
  <2>3. CASE Says(g, m)
    <3>1. Added(Out(g), m, Out(g)')
      BY <2>3, SaysAdds
    <3> QED BY <1>1, <2>1, <3>1, ToldStill
  <2> QED BY <1>1, <2>2, <2>3
<1>2. Settled(r, g)' /\ Home(r, g)' /\ Lives(r)' /\ RoleOf(r)'.state # "releasing"
  BY DEF Place, Home, Settled
<1>3. \A h, q, c, cb : /\ ChangeClient(h, q, c, cb).fn = "client_change"
                       /\ ChangeClient(h, q, c, cb).args[1] = q
                       /\ ChangeClient(h, q, c, cb).args[2] = c
  BY DEF ChangeClient, Call
<1>4. \A h, q, cb : /\ ~ Changes(Call(h, "launch_role", <<q>>, cb), r)
                    /\ ~ Changes(Call(h, "release_role", <<q>>, cb), r)
  BY DEF Call, Changes
<1>5. CASE Mutely
  <2>1. Settled(r, g) /\ RoleOf(r)'.gate = RoleOf(r).gate /\ Turns(r) /\ Out(g)' = Out(g)
    BY <1>2, <1>5 DEF Mutely, Mute
  <2>2. Home(r, g) /\ Lives(r)
    BY <2>1 DEF Settled, Home
  <2>3. RoleOf(r).state # "releasing"
    BY <1>2, <2>1, <2>2 DEF Turns
  <2>4. Place(r, g) = "settled"
    BY <2>1, <2>2, <2>3 DEF Place
  <2> QED BY <2>1, <2>4 DEF ServesSound
<1>6. ASSUME NEW q \in Roles, Tells(q)
      PROVE  Told(r, RoleOf(r)'.gate, Out(g)', roles[g][r].gate)
  <2>1. PICK h \in Games, c \in Clients \cup {None}, cb \in WorldCbs \cup {NoCb} :
          /\ Says(h, ChangeClient(h, q, c, cb))
          /\ Home(q, h) /\ RoleOf(q)'.gate = c
          /\ Turns(q) /\ OthersUntold(q)
    BY <1>6 DEF Tells
  <2>2. PICK m : /\ m = ChangeClient(h, q, c, cb) /\ m.fn = "client_change"
                 /\ m.args[1] = q /\ m.args[2] = c /\ Says(h, m)
    BY <1>3, <2>1
  <2>3. CASE r = q
    <3>1. h = g
      BY <1>2, <2>1, <2>3 DEF Turns, Home
    <3>2. PICK i \in DOMAIN Out(g)' : Out(g)'[i] = m /\ \A j \in DOMAIN Out(g)' : ~ (i < j)
      BY <2>2, <3>1, SaysLast
    <3> QED BY <2>1, <2>2, <2>3, <3>2 DEF Told, Changes
  <2>4. CASE r # q
    <3>1. Untold(r) /\ ~ Changes(m, r)
      BY <2>1, <2>2, <2>4 DEF OthersUntold, Changes
    <3>2. Out(g)' = Out(g) \/ Says(g, m)
      BY <2>2 DEF Says
    <3> QED BY <1>1, <3>1, <3>2
  <2> QED BY <2>3, <2>4
<1>7. ASSUME NEW q \in Roles, Launches(q) \/ Releases(q)
      PROVE  Told(r, RoleOf(r)'.gate, Out(g)', roles[g][r].gate)
  <2>1. r # q
    <3>1. CASE Launches(q)
      <4>1. PICK s \in Ids : role_id_to_role'[q] = s /\ objs'[s].state = "launch" /\ ChangeCb(s) \notin wcalls'
        BY <3>1 DEF Launches
      <4> QED BY <1>2, <4>1 DEF Settled, RoleOf
    <3>2. CASE Releases(q)
      BY <1>2, <3>2 DEF Releases
    <3> QED BY <1>7, <3>1, <3>2
  <2>2. OthersUntold(q) /\ \E h \in Games : \E cb : \/ Says(h, Call(h, "launch_role", <<q>>, cb))
                                                    \/ Says(h, Call(h, "release_role", <<q>>, cb))
    BY <1>7 DEF Launches, Releases
  <2>3. PICK m : ~ Changes(m, r) /\ \E h \in Games : Says(h, m)
    BY <1>4, <2>2
  <2>4. Out(g)' = Out(g) \/ Says(g, m)
    BY <2>3 DEF Says
  <2> QED BY <1>1, <2>1, <2>2, <2>3, <2>4 DEF OthersUntold
<1>8. ASSUME NEW q \in Roles, Forgets(q)
      PROVE  Told(r, RoleOf(r)'.gate, Out(g)', roles[g][r].gate)
  <2>1. r # q
    BY <1>2, <1>8 DEF Forgets
  <2>2. Untold(r) /\ Out(g)' = Out(g)
    BY <1>8, <2>1 DEF Forgets, Mute, OthersUntold
  <2>3. PICK m : m = Call(g, "launch_role", <<q>>, NoCb) /\ ~ Changes(m, r)
    BY <1>4
  <2> QED BY <1>1, <2>2, <2>3
<1> QED BY <1>5, <1>6, <1>7, <1>8 DEF WorldShapes

\* A step of game service g that gives the settled roles the client of the message
\* it takes, if that changes theirs.
LEMMA ServesIf ==
  ASSUME Queues, ServesSound, UNCHANGED worldVars,
         NEW g \in Games, NEW in, NEW outs, Deliver(in, g, outs),
         in = NoLink \/ (in = <<World, g>> /\ Out(g) # <<>>),
         \A h \in Games, r \in Roles : Place(r, h) = "settled" =>
           IF in # NoLink /\ h = g /\ Changes(Out(g)[1], r)
           THEN roles'[h][r].gate = Out(g)[1].args[2]
           ELSE roles'[h][r].gate = roles[h][r].gate
  PROVE  ServesSound'
<1> SUFFICES ASSUME NEW h \in Games, NEW r \in Roles, Place(r, h)' = "settled"
             PROVE  Told(r, RoleOf(r)'.gate, Out(h)', roles'[h][r].gate)
  BY DEF ServesSound
<1>1. Place(r, h) = "settled" /\ RoleOf(r)' = RoleOf(r)
  BY WorldSame DEF worldVars, RoleOf
<1>2. Told(r, RoleOf(r).gate, Out(h), roles[h][r].gate)
  BY <1>1 DEF ServesSound
<1>3. CASE h # g \/ in = NoLink
  <2>1. Out(h)' = Out(h)
    BY <1>3, GameTakes
  <2>2. roles'[h][r].gate = roles[h][r].gate
    BY <1>1, <1>3
  <2> QED BY <1>1, <1>2, <2>1, <2>2
<1>4. CASE h = g /\ in # NoLink
  <2>1. Taken(Out(g), Out(g)') /\ \A i \in DOMAIN Out(g) : i = 1 \/ \E j \in DOMAIN Out(g)' : j + 1 = i
    BY <1>4, GameTakes
  <2>2. IF Changes(Out(g)[1], r) THEN roles'[g][r].gate = Out(g)[1].args[2]
        ELSE roles'[g][r].gate = roles[g][r].gate
    BY <1>1, <1>4
  <2> QED BY <1>1, <1>2, <1>4, <2>1, <2>2, ToldTaken
<1> QED BY <1>3, <1>4

\* Every step of a game service does: it obeys client_change, and neither loads
\* nor lets go of a role that has settled.
LEMMA GameServes ==
  ASSUME GamesInv, Queues, GamesSound, ServesSound, UNCHANGED worldVars, GameStep
  PROVE  ServesSound'
<1>1. /\ DOMAIN roles = Games
      /\ \A h \in Games : roles[h] \in [Roles -> GameRole]
  BY DEF GamesInv, MTypeOK
<1>2. ASSUME NEW h \in Games, NEW r \in Roles, Place(r, h) = "settled"
      PROVE  /\ \A i \in DOMAIN Out(h) : ~ Asks(Out(h)[i], r)
             /\ QueriesFor(h, r) = {} /\ roles[h][r].state = "in_game"
  <2>1. GameSound(h, r)
    BY DEF GamesSound
  <2>2. \A i \in DOMAIN Out(h) : Asks(Out(h)[i], r) => Out(h)[i].fn = "release_role"
    BY <1>2, <2>1 DEF GameSound, Fits, Holds
  <2>3. \A i \in DOMAIN Out(h) : Asks(Out(h)[i], r) => Out(h)[i].fn # "release_role"
    BY <1>2, <2>1 DEF GameSound, Fits, ReleaseSent
  <2>4. QueriesFor(h, r) = {} /\ roles[h][r].state = "in_game"
    BY <1>2, <2>1 DEF GameSound, Fits, Holds
  <2> QED BY <2>2, <2>3, <2>4
<1>3. \A g : <<World, g>> # NoLink
  BY ConstantsAssumption DEF NoLink
<1>4. CASE GameLaunchRole
  <2>1. PICK g \in Games, q \in Roles, s \in Ids :
          /\ Arrives(World, g, Call(g, "launch_role", <<q>>, LaunchCb(s, q)))
          /\ LuanchRole(<<World, g>>, g, LaunchCb(s, q), q)
    BY <1>4 DEF GameLaunchRole
  <2>2. Out(g) # <<>> /\ Out(g)[1].fn # "client_change"
    BY <2>1, RequestHead DEF Call
  <2>3. PICK outs : Deliver(<<World, g>>, g, outs)
    BY <2>1 DEF LuanchRole
  <2>4. \A h \in Games, r \in Roles : roles'[h][r].gate = roles[h][r].gate
    <3>1. PICK new : \/ roles' = roles
                     \/ /\ roles' = [roles EXCEPT ![g][q] = new]
                        /\ new = [roles[g][q] EXCEPT !.state = "load_from_db"]
      BY <2>1 DEF LuanchRole, gameVars
    <3>2. roles[g][q] \in GameRole
      BY <1>1
    <3>3. roles' = [roles EXCEPT ![g][q] = new] => new.gate = roles[g][q].gate \/ roles' = roles
      BY <3>1, <3>2 DEF GameRole
    <3> QED BY <1>1, <3>1, <3>3
  <2> QED BY <2>2, <2>3, <2>4, ServesIf DEF Changes
<1>5. CASE GameDbRsp
  <2>1. PICK g \in Games : \E load \in loads[g] : DbRspLaunchRole(g, load[1], load[2])
    BY <1>5 DEF GameDbRsp
  <2>2. PICK load \in loads[g] : DbRspLaunchRole(g, load[1], load[2])
    BY <2>1
  <2>3. PICK outs : Deliver(NoLink, g, outs)
    BY <2>2 DEF DbRspLaunchRole
  <2>4. ASSUME NEW h \in Games, NEW r \in Roles, Place(r, h) = "settled"
        PROVE  roles'[h][r].gate = roles[h][r].gate
    <3>1. h # g \/ r # load[2]
      BY <1>2, <2>4 DEF QueriesFor
    <3>2. PICK new : roles' = roles \/ roles' = [roles EXCEPT ![g][load[2]] = new]
      <4>1. \/ roles' = roles \/ roles' = [roles EXCEPT ![g][load[2]] = Absent]
            \/ roles' = [roles EXCEPT ![g][load[2]].state = "in_game"]
        BY <2>2 DEF DbRspLaunchRole
      <4> QED BY <4>1
    <3> QED BY <1>1, <3>1, <3>2
  <2> QED BY <2>3, <2>4, ServesIf
<1>6. CASE GameClientChange
  <2>1. PICK g \in Games, q \in Roles, c \in Clients \cup {None} :
          /\ Arrives(World, g, ChangeClient(g, q, c, Head(net[<<World, g>>]).cb))
          /\ ClientChange(<<World, g>>, g, Head(net[<<World, g>>]).cb, q, c)
    BY <1>6 DEF GameClientChange
  <2>2. PICK cb : cb = Head(net[<<World, g>>]).cb
    OBVIOUS
  <2>3. Out(g) # <<>> /\ Out(g)[1] = ChangeClient(g, q, c, cb)
    BY <2>1, <2>2, RequestHead
  <2>4. PICK m : m = Out(g)[1] /\ m.fn = "client_change" /\ m.args[1] = q /\ m.args[2] = c
    BY <2>3 DEF ChangeClient, Call
  <2>5. PICK outs : Deliver(<<World, g>>, g, outs)
    BY <2>1 DEF ClientChange
  <2>6. roles' = IF roles[g][q].state = "absent" THEN roles ELSE [roles EXCEPT ![g][q].gate = c]
    BY <2>1 DEF ClientChange
  <2>7. ASSUME NEW h \in Games, NEW r \in Roles, Place(r, h) = "settled"
        PROVE  IF h = g /\ r = q THEN roles'[h][r].gate = c ELSE roles'[h][r].gate = roles[h][r].gate
    <3>1. roles[h][r].state = "in_game" /\ roles[h][r] \in GameRole
      BY <1>1, <1>2, <2>7
    <3> QED BY <1>1, <2>6, <3>1 DEF GameRole
  <2>8. ASSUME NEW h \in Games, NEW r \in Roles, Place(r, h) = "settled"
        PROVE  IF <<World, g>> # NoLink /\ h = g /\ Changes(Out(g)[1], r)
               THEN roles'[h][r].gate = Out(g)[1].args[2]
               ELSE roles'[h][r].gate = roles[h][r].gate
    BY <1>3, <2>4, <2>7, <2>8 DEF Changes
  <2> QED BY <2>3, <2>5, <2>8, ServesIf
<1>7. CASE GameReleaseRole
  <2>1. PICK g \in Games, q \in Roles, k \in Ids :
          /\ Arrives(World, g, Call(g, "release_role", <<q>>, ReleaseCb(q, k)))
          /\ ReleaseRole(<<World, g>>, g, ReleaseCb(q, k), q)
    BY <1>7 DEF GameReleaseRole
  <2>2. /\ Out(g) # <<>> /\ Out(g)[1].fn = "release_role" /\ 1 \in DOMAIN Out(g)
        /\ Asks(Out(g)[1], q)
    BY <2>1, RequestHead DEF Call, Asks
  <2>3. PICK outs : Deliver(<<World, g>>, g, outs)
    BY <2>1 DEF ReleaseRole
  <2>4. roles' = [roles EXCEPT ![g][q] = Absent]
    BY <2>1 DEF ReleaseRole
  <2>5. ASSUME NEW h \in Games, NEW r \in Roles, Place(r, h) = "settled"
        PROVE  roles'[h][r].gate = roles[h][r].gate
    <3>1. h # g \/ r # q
      BY <1>2, <2>2, <2>5
    <3> QED BY <1>1, <2>4, <3>1
  <2> QED BY <2>2, <2>3, <2>5, ServesIf DEF Changes
<1> QED BY <1>4, <1>5, <1>6, <1>7 DEF GameStep

\* Every step leaves the game services with the right clients, unless a call
\* expires, a link breaks, or a session number is drawn that somebody held.
LEMMA ServesStepSound ==
  ASSUME SystemInv, SystemInv', Sound, Queues, GamesSound, ServesSound, faults' = 0,
         ~ DrewHeld, [Next]_vars
  PROVE  ServesSound'
<1>1. GTypeOK /\ WorldInv /\ WorldInv' /\ GamesInv /\ GamesInv'
  BY DEF SystemInv, GateInv
<1>2. CASE World_Step \/ WorldExpire
  <2>1. CountersGrow
    BY <1>1, StepFollows, FollowsGrow
  <2>2. WorldMoves /\ faults <= faults'
    BY <1>1, <1>2, WorldStepMoves
  <2>3. WorldShapes
    BY <2>1, <2>2 DEF WorldShapes, WorldMoves
  <2>4. UNCHANGED gameVars
    BY <1>2 DEF World_Step, WorldExpire
  <2> QED BY <2>3, <2>4, WorldServes
<1>3. CASE GameStep
  <2>1. UNCHANGED worldVars
    BY <1>3 DEF GameStep
  <2> QED BY <1>1, <1>3, <2>1, GameServes
<1>4. CASE \/ GateClientStep \/ GateAnswered \/ GateIgnores \/ GateKicks \/ GateExpire
           \/ Break \/ UNCHANGED vars
  <2>1. /\ UNCHANGED worldVars /\ roles' = roles
        /\ \A g \in Games : Out(g)' = Out(g)
    BY <1>1, <1>4, GatesLinks DEF gameVars
  <2>2. \A g \in Games, r \in Roles : Place(r, g)' = Place(r, g) /\ RoleOf(r)' = RoleOf(r)
    BY <2>1, WorldSame DEF worldVars, RoleOf
  <2> QED BY <2>1, <2>2 DEF ServesSound
<1> QED BY <1>2, <1>3, <1>4 DEF Next

ServesInv == clash \/ faults # 0 \/ ServesSound

\* They are right until then.
LEMMA ServesInvariant == HSpec => []ServesInv
<1>1. HInit => ServesInv
  BY DEF HInit, Init, WInit, ServesInv, ServesSound, Place, Home, Lives
<1>2. SessionInv /\ SessionInv' /\ GameInv /\ ServesInv /\ [HNext]_hvars => ServesInv'
  <2> SUFFICES ASSUME SessionInv, SessionInv', GameInv, ServesInv, [HNext]_hvars,
                      ~ clash', faults' = 0
               PROVE  ServesSound'
    BY DEF ServesInv
  <2>1. [Next]_vars /\ ~ clash /\ (~ DrewHeld \/ UNCHANGED vars)
    BY UntilClash
  <2>2. SystemInv /\ SystemInv' /\ Queues /\ Sound /\ GamesSound
    BY <2>1 DEF SessionInv, GameInv
  <2>3. faults = 0
    <3>1. GTypeOK /\ GamesInv /\ GamesInv' /\ WorldInv
      BY <2>2 DEF SystemInv, GateInv
    <3>2. CASE GameStep
      BY <3>2 DEF GameStep
    <3>3. CASE World_Step \/ WorldExpire
      <4>1. faults <= faults'
        BY <2>2, <3>1, <3>3, WorldStepMoves
      <4> QED BY <3>1, <4>1, FaultsFacts
    <3>4. CASE \/ GateClientStep \/ GateAnswered \/ GateIgnores \/ GateKicks \/ GateExpire
               \/ Break \/ UNCHANGED vars
      BY <2>2, <3>1, <3>4, GatesLinks
    <3> QED BY <2>1, <3>2, <3>3, <3>4 DEF Next
  <2>4. ServesSound
    BY <2>1, <2>3 DEF ServesInv
  <2>5. CASE ~ DrewHeld
    BY <2>1, <2>2, <2>4, <2>5, ServesStepSound
  <2>6. CASE UNCHANGED vars
    <3>1. \A g \in Games, r \in Roles : /\ Place(r, g)' = Place(r, g) /\ RoleOf(r)' = RoleOf(r)
                                        /\ Out(g)' = Out(g) /\ roles' = roles
      BY <2>6, WorldSame DEF vars, worldVars, gameVars, RoleOf, Out
    <3> QED BY <2>4, <3>1 DEF ServesSound
  <2> QED BY <2>1, <2>5, <2>6
<1> QED BY <1>1, <1>2, SessionInvariant, GameInvariant, PTL DEF HSpec

\* A role in use, or idle, is in game where the world thinks it is, also when
\* calls expire and links break, unless a session number was drawn that
\* somebody held (manage_role_logic.lua hands such a role to the next client
\* without asking the game service, lines 115 to 146 and 393).
THEOREM RolesHeldInGame == HSpec => []GameHoldsRole
<1>1. SessionInv /\ GameInv => GameHoldsRole
  <2> SUFFICES ASSUME SessionInv, GameInv, ~ clash, NEW r \in Roles, Using(r) \/ Idle(r)
               PROVE  roles[RoleOf(r).game][r].state = "in_game"
    BY DEF GameHoldsRole
  <2>1. WorldInv /\ GamesSound
    BY DEF SessionInv, SystemInv, GameInv
  <2>2. PICK g \in Games : g = RoleOf(r).game
    BY <2>1, LivingRole DEF Using, Idle, RoleObj
  <2>3. Place(r, g) = "settled"
    BY <2>2 DEF Using, Idle, Place, Home, Settled
  <2> QED BY <2>1, <2>2, <2>3 DEF GamesSound, GameSound, Fits, Holds
<1>2. QED BY <1>1, SessionInvariant, GameInvariant, PTL

\* When the database answers, the role it answers for is still loading: no
\* release and no second query came in between (game_role_mgr: the callback of
\* the query uses the role even when it is gone, line 145).
THEOREM LoadsUndisturbed == HSpec => []LoadUndisturbed
<1>1. GameInv => LoadUndisturbed
  <2> SUFFICES ASSUME GameInv, ~ clash, NEW g \in Games, NEW load \in loads[g]
               PROVE  roles[g][load[2]].state = "load_from_db"
    BY DEF LoadUndisturbed
  <2>1. GamesSound
    BY DEF GameInv
  <2>2. load[2] \in Roles
    BY <2>1 DEF GamesSound, Formatted, IsQuery
  <2>3. PICK r \in Roles : r = load[2]
    BY <2>2
  <2>4. load \in QueriesFor(g, r)
    BY <2>3 DEF QueriesFor
  <2> QED BY <2>1, <2>3, <2>4 DEF GamesSound, GameSound, Fits, Loading
<1>2. QED BY <1>1, GameInvariant, PTL

\* As long as no call expired and no link broke, a game service has no role but
\* those the world has there: no role lives on two game services
\* (manage_role_logic.lua chooses one at random for every launch).
THEOREM RolesHaveOneHome == HSpec => []OneHome
<1>1. GameInv => OneHome
  <2> SUFFICES ASSUME GameInv, ~ clash, faults = 0, NEW r \in Roles, NEW g \in Games,
                      roles[g][r].state # "absent"
               PROVE  Lives(r) /\ RoleOf(r).game = g
    BY DEF OneHome
  <2>1. Place(r, g) # "away"
    BY DEF GameInv, GamesSound, GameSound, Fits, Housed
  <2> QED BY <2>1 DEF Place, Home
<1>2. QED BY <1>1, GameInvariant, PTL

\* When all is quiet, and no call expired or link broke, a game service serves the
\* client the world has for the role, and none when the role is idle
\* (manage_role_logic.lua: launch_role and client_quit tell it without waiting
\* for the answer).
THEOREM GamesServeOwners == HSpec => []GameServesOwner
<1>1. SessionInv /\ ServesInv => GameServesOwner
  <2> SUFFICES ASSUME SessionInv, ServesInv, ~ clash, faults = 0, Quiet,
                      NEW r \in Roles, Using(r) \/ Idle(r)
               PROVE  roles[RoleOf(r).game][r].gate = RoleOf(r).gate
    BY DEF GameServesOwner
  <2>1. WorldInv /\ ServesSound /\ Queues
    BY DEF SessionInv, SystemInv, ServesInv
  <2>2. PICK g \in Games : g = RoleOf(r).game
    BY <2>1, LivingRole DEF Using, Idle, RoleObj
  <2>3. Place(r, g) = "settled"
    BY <2>2 DEF Using, Idle, Place, Home, Settled
  <2>4. Out(g) = <<>>
    BY <2>1, GameLinks DEF Quiet, Out
  <2>5. DOMAIN <<>> = {}
    OBVIOUS
  <2> QED BY <2>1, <2>2, <2>3, <2>4, <2>5 DEF ServesSound, Told
<1>2. QED BY <1>1, SessionInvariant, ServesInvariant, PTL
=============================================================================
