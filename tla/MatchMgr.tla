------------------------------ MODULE MatchMgr ------------------------------
(***************************************************************************)
(* The match service (services/match/service_logics): cells of roles that   *)
(* wait for mates, rooms that wait for their roles to confirm, and rooms    *)
(* that wait for the room service.                                         *)
(*                                                                         *)
(* A cell holds the one role that joined, its leader.  The check for rooms  *)
(* whose time to confirm is over compares the time since the last check     *)
(* with the time of the last check (room_mgr.lua:26), so it finds nothing   *)
(* after the service has started and no step stands for it: only the answer *)
(* of a role finishes a room.                                              *)
(***************************************************************************)
EXTENDS MatchNet

VARIABLES
  mroles,     \* role_mgr: session, game and room of a role
  cells,      \* id_to_cell
  waiting,    \* _wait_confirm_join_rooms
  accepted,   \* their confirm_join_results that are true
  confirmed,  \* _all_confirm_join_rooms
  mcalls      \* calls under way

matchVars == <<mroles, cells, waiting, accepted, confirmed, mcalls>>

ConfirmCb(k, s) == <<"notify_confirm_join_match", k, s>>

MInit ==
  /\ mroles = [r \in Roles |-> None]
  /\ cells = {} /\ waiting = {} /\ accepted = {} /\ confirmed = {}
  /\ mcalls = {}

Known(k) == {r \in RolesOf(k) : mroles[r] # None}
Forget(k) == mroles' = [r \in Roles |-> IF r \in RolesOf(k) THEN None ELSE mroles[r]]

-----------------------------------------------------------------------------
JoinMatch(g, s, cb) ==
  LET r  == RoleOf(s)
      ok == mroles[r] = None
  IN
  /\ mroles' = IF ok THEN [mroles EXCEPT ![r] = [session |-> s, game |-> g, room |-> None]]
                     ELSE mroles
  /\ cells' = IF ok THEN cells \cup {s} ELSE cells
  /\ Deliver(<<g, Match>>, Match, <<Answer(g, cb, ok)>>)
  /\ UNCHANGED <<waiting, accepted, confirmed, mcalls>>

\* A role may quit the cell that it leads.  The room it has been put in is looked
\* up without its id and not found.
QuitMatch(g, r) ==
  /\ cells' = IF mroles[r] # None /\ RoleOf(mroles[r].session) = r
              THEN cells \ {mroles[r].session} ELSE cells
  /\ mroles' = [mroles EXCEPT ![r] = None]
  /\ Deliver(<<g, Match>>, Match, <<>>)
  /\ UNCHANGED <<waiting, accepted, confirmed, mcalls>>

\* Two by two the cells become rooms.
Paired(pairs) ==
  /\ Cardinality(cells \ UNION pairs) <= 1
  /\ \A j, k \in pairs : j = k \/ j \cap k = {}

\* The rooms' roles that the service knows.
Asked(pairs) == {a \in pairs \X Roles : a[2] \in Known(a[1])}

\* Role r is put in room k.
InRoom(r, k) == [session |-> mroles[r].session, game |-> mroles[r].game, room |-> k]

\* Room by room, role by role, those that are known are put in and asked to
\* confirm.  A role that is put in two rooms stays in the last.
PutIn(order) ==
  \E last \in [Roles -> 0..Len(order)] :
    /\ \A r \in Roles :
         LET at == {i \in DOMAIN order : order[i][2] = r} IN
         IF at = {} THEN last[r] = 0 ELSE last[r] \in at /\ \A i \in at : i <= last[r]
    /\ mroles' = [r \in Roles |-> IF last[r] = 0 THEN mroles[r] ELSE InRoom(r, order[last[r]][1])]

AskCb(a) == ConfirmCb(a[1], mroles[a[2]].session)
Ask(a) == Call(mroles[a[2]].game, "notify_confirm_join_match", <<mroles[a[2]].session>>, AskCb(a))

UpdateLogic ==
  /\ Cardinality(cells) >= 2
  /\ \E pairs \in SUBSET kSubset(2, cells) :
       /\ Paired(pairs)
       /\ cells' = cells \ UNION pairs
       /\ waiting' = waiting \cup pairs
       /\ \E order \in SetToSeqs(Asked(pairs)) :
            /\ PutIn(order)
            /\ Deliver(NoLink, Match, [i \in DOMAIN order |-> Ask(order[i])])
            /\ mcalls' = mcalls \cup {AskCb(order[i]) : i \in DOMAIN order}
  /\ UNCHANGED <<accepted, confirmed>>

-----------------------------------------------------------------------------
(* A room is given up: its roles are told, which changes nothing on the     *)
(* games, that compare with a field that nothing assigns.                   *)
Terminate(in, k) ==
  /\ Forget(k)
  /\ Deliver(in, Match, <<>>)

\* A room whose roles have all accepted goes to a room service, if one is known.
\* The handler dies if one of its roles is gone.
ApplyRoom(in, cb, k) ==
  \/ /\ Terminate(in, k)
     /\ mcalls' = mcalls \ {cb}
     /\ UNCHANGED <<confirmed, aborted>>
  \/ /\ confirmed' = confirmed \cup {k}
     /\ IF Known(k) = RolesOf(k)
        THEN /\ mcalls' = (mcalls \ {cb}) \cup {ApplyCb(k)}
             /\ Deliver(in, Match, <<Call(Room, "apply_room",
                                         <<k, {mroles[r].session : r \in RolesOf(k)}>>, ApplyCb(k))>>)
             /\ UNCHANGED aborted
        ELSE /\ aborted' = aborted \cup {<<"room_mgr.lua:96", k>>}
             /\ mcalls' = mcalls \ {cb}
             /\ Deliver(in, Match, <<>>)
     /\ UNCHANGED mroles

\* Mutant: the answers of the room are kept.
TimeOverAnswersKept(in, cb, k) ==
  /\ waiting' = waiting \ {k}
  /\ Terminate(in, k)
  /\ mcalls' = mcalls \ {cb}
  /\ UNCHANGED <<accepted, confirmed, aborted>>

\* The time is over, as a role's answer shows, and not all had accepted.
TimeOver(in, cb, k) ==
  /\ waiting' = waiting \ {k}
  /\ accepted' = {a \in accepted : a[1] # k}
  /\ Terminate(in, k)
  /\ mcalls' = mcalls \ {cb}
  /\ UNCHANGED <<confirmed, aborted>>

\* The answer is counted in the room the role is in now.  A refusal does not
\* finish the room.
CountAnswer(in, cb, k, r, accept) ==
  LET yes == IF accept THEN accepted \cup {<<k, r>>} ELSE accepted \ {<<k, r>>} IN
  IF \A q \in RolesOf(k) : <<k, q>> \in yes
  THEN /\ waiting' = waiting \ {k}
       /\ accepted' = {a \in accepted : a[1] # k}
       /\ ApplyRoom(in, cb, k)
  ELSE /\ accepted' = yes
       /\ mcalls' = mcalls \ {cb}
       /\ Deliver(in, Match, <<>>)
       /\ UNCHANGED <<mroles, waiting, confirmed, aborted>>

CbNotifyConfirmJoinMatch(in, k, s, accept) ==
  LET cb   == ConfirmCb(k, s)
      role == mroles[RoleOf(s)]
  IN
  /\ cb \in mcalls
  /\ IF role # None /\ role.session = s /\ role.room \in waiting
     THEN TimeOver(in, cb, role.room) \/ CountAnswer(in, cb, role.room, RoleOf(s), accept)
     ELSE /\ mcalls' = mcalls \ {cb}
          /\ Deliver(in, Match, <<>>)
          /\ UNCHANGED <<mroles, waiting, accepted, confirmed, aborted>>
  /\ UNCHANGED cells

-----------------------------------------------------------------------------
\* Mutant: the roles are forgotten only when the room was made.
CbApplyRoomKeepsRefused(in, k, ok) ==
  /\ ApplyCb(k) \in mcalls
  /\ mcalls' = mcalls \ {ApplyCb(k)}
  /\ confirmed' = confirmed \ {k}
  /\ IF ok THEN Forget(k) ELSE UNCHANGED mroles
  /\ \E order \in SetToSeqs(Known(k)) :
       Deliver(in, Match,
               IF ok THEN [i \in DOMAIN order |->
                             Call(mroles[order[i]].game, "notify_match_succ",
                                  <<mroles[order[i]].session, k>>, NoCb)]
               ELSE <<>>)
  /\ UNCHANGED <<cells, waiting, accepted, aborted>>

\* Who is in a room of the room service is told so; all are forgotten.
CbApplyRoom(in, k, ok) ==
  /\ ApplyCb(k) \in mcalls
  /\ mcalls' = mcalls \ {ApplyCb(k)}
  /\ confirmed' = confirmed \ {k}
  /\ Forget(k)
  /\ \E order \in SetToSeqs(Known(k)) :
       Deliver(in, Match,
               IF ok THEN [i \in DOMAIN order |->
                             Call(mroles[order[i]].game, "notify_match_succ",
                                  <<mroles[order[i]].session, k>>, NoCb)]
               ELSE <<>>)
  /\ UNCHANGED <<cells, waiting, accepted, aborted>>
=============================================================================
