------------------------------ MODULE MatchNet ------------------------------
(***************************************************************************)
(* The services that bring roles together to a fight, and the links         *)
(* between them: the games, where roles live, the match service, the room   *)
(* service and the fight service.  As in RoleNet a link keeps its order, a  *)
(* call has a closure that names it, and a call may be given up by its      *)
(* caller although it will still be carried out.                            *)
(*                                                                         *)
(* Calls made without a callback, or with one that changes nothing, are     *)
(* not answered here.                                                      *)
(***************************************************************************)
EXTENDS Sending, FiniteSets, SequencesExt, FiniteSetsExt

CONSTANTS
  Roles,
  Games, Match, Room, Fight,  \* services
  None,
  MaxJoin,    \* roles ask for a match so often, at most
  MaxTrouble  \* roles released, requests to quit, calls given up, connections broken

ASSUME ServiceAssumption ==
  /\ Cardinality({Match, Room, Fight}) = 3 /\ Games \cap {Match, Room, Fight} = {}
  /\ None \notin Games \cup {Match, Room, Fight}
ASSUME RolesAssumption == IsFiniteSet(Roles)
ASSUME BoundAssumption == MaxJoin \in Nat /\ MaxTrouble \in Nat

\* The n-th uuid drawn, by a role that asks for a match: also the cell the match
\* service makes for it.
Sessions == Roles \X (1..MaxJoin)
RoleOf(s) == s[1]

\* A room is named by its two cells, at the match service, and at the room and
\* the fight service, which number their rooms and fights.  They may be of one
\* role: a cell stays when a room that its role has left ends and the role is
\* forgotten, and the role joins again.
Rooms == {{p[1], p[2]} : p \in {q \in Sessions \X Sessions : q[1][2] # q[2][2]}}
RolesOf(k) == {RoleOf(s) : s \in k}

ASSUME NoneAssumption == None \notin Sessions /\ \A k \in Rooms : k # None

Links ==
  (Games \X {Match, Room}) \cup ({Match, Room} \X Games)
    \cup {<<Match, Room>>, <<Room, Match>>, <<Room, Fight>>, <<Fight, Room>>}

VARIABLES
  net,
  trouble,  \* how much of it there was
  broken,   \* history: a connection broke
  aborted   \* history: where handlers died, and on what

netVars == <<net, trouble, broken, aborted>>

NoLink == <<None, None>>
NoCb   == <<"nil">>

\* The closure of the match service's call about room k.
ApplyCb(k) == <<"apply_room", k>>

Call(to, fn, args, cb) == [to |-> to, fn |-> fn, args |-> args, cb |-> cb]
Answer(to, cb, ok)     == [to |-> to, fn |-> "rsp", args |-> ok, cb |-> cb]

\* Service me takes the head of link in, if it is one, and sends outs.
Deliver(in, me, outs) ==
  net' = [l \in Links |->
            (IF l = in THEN Tail(net[l]) ELSE net[l])
              \o (IF l[1] = me THEN SentTo(outs, l[2]) ELSE <<>>)]

Trouble == trouble < MaxTrouble /\ trouble' = trouble + 1

Break(l) ==
  /\ Trouble
  /\ net[l] # <<>>
  /\ net' = [net EXCEPT ![l] = <<>>]
  /\ broken' = TRUE
  /\ UNCHANGED aborted

NetInit ==
  /\ net = [l \in Links |-> <<>>]
  /\ trouble = 0 /\ broken = FALSE /\ aborted = {}
=============================================================================
