------------------------------ MODULE RpcCalls ------------------------------
(***************************************************************************)
(* What a service may rely on when it calls another one: the contract of   *)
(* the rpc managers, without ids, deadlines, lists or messages.  RpcMgr    *)
(* implements it, and RoleNet abstracts the managers to it.                *)
(*                                                                         *)
(* The callback of a call runs at most once: with the answer the callee    *)
(* gave to this call, or as expired (the call may have been carried out    *)
(* all the same), or as failed (then it never reached the callee).  It may *)
(* also never run.                                                         *)
(*                                                                         *)
(* A service that was restarted counts its calls from one again, so it may *)
(* take the late answer to a call of its former self for the answer to a   *)
(* new one.                                                                *)
(***************************************************************************)
CONSTANTS Hosts, Calls, CallerOf

VARIABLES
    made,       \* calls made
    reached,    \* calls that reached their callee
    answered,   \* calls their callee answered
    over,       \* what each call's callback was run with, in order
    renewed     \* services that were restarted

vars == <<made, reached, answered, over, renewed>>

\* An outcome: how the callback ran, and the call whose answer it was given.
Ends(how) == {<<how, k>> : k \in Calls}
Outcomes == UNION {Ends(how) : how \in {"result", "error", "expired", "failed"}}

Init ==
    /\ made = {} /\ reached = {} /\ answered = {} /\ renewed = {}
    /\ over = [k \in Calls |-> <<>>]

Make ==
    /\ \E k \in Calls \ made : made' = made \cup {k}
    /\ UNCHANGED <<reached, answered, over, renewed>>

Reach ==
    /\ \E k \in made \ reached :
          /\ reached' = reached \cup {k}
          /\ answered' = answered \/ answered' = answered \cup {k}
    /\ UNCHANGED <<made, over, renewed>>

Answer ==
    /\ \E k \in reached \ answered : answered' = answered \cup {k}
    /\ UNCHANGED <<made, reached, over, renewed>>

MayEnd(k, o) ==
    \/ /\ o \in Ends("result") \cup Ends("error")
       /\ o[2] \in answered
       /\ o[2] = k \/ CallerOf[k] \in renewed
    \/ o = <<"expired", k>>
    \/ o = <<"failed", k>> /\ k \notin reached

\* The callbacks of some calls run, each for the first time.
Return ==
    /\ DOMAIN over' = Calls
    /\ \A k \in Calls :
          \/ over'[k] = over[k]
          \/ /\ k \in made /\ over[k] = <<>>
             /\ \E o \in Outcomes : over'[k] = <<o>> /\ MayEnd(k, o)
    /\ UNCHANGED <<made, reached, answered, renewed>>

Restart ==
    /\ \E h \in Hosts : renewed' = renewed \cup {h}
    /\ UNCHANGED <<made, reached, answered, over>>

Next == Make \/ Reach \/ Answer \/ Return \/ Restart

Spec == Init /\ [][Next]_vars
=============================================================================
