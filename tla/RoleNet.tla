------------------------------- MODULE RoleNet -------------------------------
(***************************************************************************)
(* The zone network as the gate, world and game services of lxl_cpp see    *)
(* it: remote procedure calls (common/rpc) over one TCP connection per     *)
(* ordered pair of services (common/zone_service_mgr).  A connection keeps *)
(* the order of what is sent on it, so a link is a FIFO queue; requests    *)
(* and answers from one service to another share the link.                 *)
(*                                                                         *)
(* A request carries a callback: the closure its caller runs when the      *)
(* answer arrives.  A closure identifies its call (NextRpcUniqueId in the  *)
(* code), so the caller's req_list is a set of closures, and an answer     *)
(* whose closure is no longer in the list is ignored.                      *)
(***************************************************************************)
EXTENDS Sending, FiniteSets

CONSTANTS
    Roles,      \* role ids
    Clients,    \* client connections; a connection is a netid on its gate
    Gates,      \* gate services
    Games,      \* game services
    World,      \* the world service that owns the roles (role_id % count)
    GateOf,     \* the gate a connection was accepted by
    TokenOf,    \* the login token (auth_sn) the client of a connection holds
    None,       \* nil
    MaxId,      \* bound on the session and opera id counters
    MaxCall,    \* bound on the calls a gate makes for one client
    MaxFault    \* bound on the expired calls and the broken connections

ASSUME ConstantsAssumption ==
    /\ GateOf \in [Clients -> Gates]
    /\ None \notin Roles \cup Clients \cup Gates \cup Games \cup {World}
    /\ World \notin Gates \cup Games
    /\ Gates \cap Games = {}
    /\ MaxId \in Nat /\ MaxCall \in Nat /\ MaxFault \in Nat

Ids == 1..MaxId      \* values of a session or opera id; 0 stands for nil
IdOrNil == 0..MaxId

Links == ((Gates \cup Games) \X {World}) \cup ({World} \X (Gates \cup Games))

VARIABLES
    net,        \* what each link holds, in the order it was sent
    faults      \* expiries and disconnections so far

netVars == <<net, faults>>

NetInit ==
    /\ net = [l \in Links |-> <<>>]
    /\ faults = 0

(***************************************************************************)
(* One step of service me: it takes the head of link in (NoLink when the   *)
(* step is not the arrival of a message) and sends outs, in that order.    *)
(***************************************************************************)
NoLink == <<None, None>>

Deliver(in, me, outs) ==
    net' = [l \in Links |->
              (IF l = in THEN Tail(net[l]) ELSE net[l])
              \o (IF l[1] = me THEN SentTo(outs, l[2]) ELSE <<>>)]

\* Message m is the next one on the link from a to b.
Arrives(a, b, m) ==
    /\ net[<<a, b>>] # <<>>
    /\ Head(net[<<a, b>>]) = m

(***************************************************************************)
(* Messages.  GateCb is the closure of the n-th call a gate makes for      *)
(* client c about role r; it also names the rpc_rsp the callee answers.    *)
(***************************************************************************)
CallIds == 1..MaxCall
GateCb(fn, c, n, r) == <<fn, c, n, r>>
NoCb == <<"nil">>

Call(to, fn, args, cb) == [to |-> to, fn |-> fn, args |-> args, cb |-> cb]
Answer(to, cb, err, val) == [to |-> to, fn |-> "rsp", cb |-> cb, err |-> err, val |-> val]

\* What an answer reports; "expired" is the error the caller's own rpc
\* manager passes to a callback whose call it gave up.
Errors == {"ok", "refused", "expired"}

(***************************************************************************)
(* A connection breaks: what is in flight on the link is lost.             *)
(***************************************************************************)
Disconnect(l) ==
    /\ faults < MaxFault
    /\ net[l] # <<>>
    /\ net' = [net EXCEPT ![l] = <<>>]
    /\ faults' = faults + 1

\* A caller gives up a call (budgeted, because each one can be retried).
SpendFault ==
    /\ faults < MaxFault
    /\ faults' = faults + 1
=============================================================================
