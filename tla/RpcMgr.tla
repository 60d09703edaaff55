------------------------------- MODULE RpcMgr -------------------------------
(***************************************************************************)
(* The rpc managers of the services (common/rpc): RpcMgrBase over the zone *)
(* network.  A manager keeps the calls it awaits in req_list under an id   *)
(* of its own counter, the requests it owes an answer in rsp_list, and the *)
(* callbacks of calls that could not be sent in delay_execute_fns, to be   *)
(* run by the next on_frame; every Check_Expired_Span, on_frame gives up   *)
(* calls.  A service calls over its own connection to the callee and is    *)
(* answered over the callee's connection to it.                            *)
(*                                                                         *)
(* Time is kept as the time left until a deadline and the time since the   *)
(* last check, both in units in which Check_Expired_Span is a small        *)
(* number.  What a callback calls or answers in its turn is a later step.  *)
(***************************************************************************)
EXTENDS Integers, Sequences

CONSTANTS
    Hosts,              \* services
    Calls,              \* the calls the services make, with who calls
    CallerOf,           \*   whom; every call has a callback
    CalleeOf,
    Check_Expired_Span, \* 15 s
    Default_Expire,     \* 30 s
    MaxFault            \* bound on breaks, restarts, late frames, lost frames

ASSUME RpcAssumption ==
    /\ CallerOf \in [Calls -> Hosts] /\ CalleeOf \in [Calls -> Hosts]
    /\ \A k \in Calls : CallerOf[k] # CalleeOf[k]
    /\ Check_Expired_Span \in Nat \ {0}
    /\ Default_Expire \in Nat /\ Check_Expired_Span < Default_Expire
    /\ MaxFault \in Nat

VARIABLES
    last_id,            \* Last_Rpc_Unique_Id of each service
    req_list,           \* calls awaited
    rsp_list,           \* requests not answered yet
    delay_execute_fns,  \* calls that failed, whose callbacks are to run
    since,              \* time since the last check, up to Check_Expired_Span
    up,                 \* connections over which messages can be sent
    net,                \* what is in flight on each connection, in order
    faults,             \* faults so far
    made, reached, answered, over, renewed,     \* history, as in RpcCalls
    failed,             \* history: calls that could not be sent
    lapsed              \* history: a check came late or was cut short

vars == <<last_id, req_list, rsp_list, delay_execute_fns, since, up, net, faults,
          made, reached, answered, over, renewed, failed, lapsed>>

Links == {l \in Hosts \X Hosts : l[1] # l[2]}

\* call and of name the call that a record or a message stems from; the code
\* knows only the id.
Req == [id : Nat, call : Calls, left : Nat]
Rsp == [id : Nat, from : Hosts, from_id : Nat, call : Calls]
Actions == {"result", "error", "postpone"}
Request == [fn : {"call"}, id : Nat, of : Calls]
Answer == [fn : Actions, id : Nat, of : Calls]

Contract == INSTANCE RpcCalls

TypeOK ==
    /\ last_id \in [Hosts -> Nat]
    /\ req_list \in [Hosts -> SUBSET Req]
    /\ rsp_list \in [Hosts -> SUBSET Rsp]
    /\ delay_execute_fns \in [Hosts -> SUBSET Calls]
    /\ since \in [Hosts -> 0..Check_Expired_Span]
    /\ up \in [Links -> BOOLEAN]
    /\ net \in [Links -> Seq(Request \cup Answer)]
    /\ faults \in 0..MaxFault
    /\ made \subseteq Calls /\ reached \subseteq Calls /\ answered \subseteq Calls
    /\ over \in [Calls -> Seq(Contract!Outcomes)]
    /\ renewed \subseteq Hosts
    /\ failed \subseteq Calls
    /\ lapsed \in BOOLEAN

\* No connection is open yet, and last_check_expired_ms is 0: the first
\* frame makes a check.
Init ==
    /\ last_id = [h \in Hosts |-> 0]
    /\ req_list = [h \in Hosts |-> {}]
    /\ rsp_list = [h \in Hosts |-> {}]
    /\ delay_execute_fns = [h \in Hosts |-> {}]
    /\ since = [h \in Hosts |-> Check_Expired_Span]
    /\ up = [l \in Links |-> FALSE]
    /\ net = [l \in Links |-> <<>>]
    /\ faults = 0
    /\ made = {} /\ reached = {} /\ answered = {}
    /\ over = [k \in Calls |-> <<>>]
    /\ renewed = {} /\ failed = {} /\ lapsed = FALSE

Fault == faults < MaxFault /\ faults' = faults + 1

\* over, once the callbacks of expired calls and of calls undone have run.
CalledBack(expired, undone) ==
    [k \in Calls |-> CASE k \in expired -> Append(over[k], <<"expired", k>>)
                       [] k \in undone -> Append(over[k], <<"failed", k>>)
                       [] OTHER -> over[k]]

\* queues with message m sent over link l, unless it is down; and the queues
\* with the next message of link l taken.
Sent(queues, l, m) == IF up[l] THEN [queues EXCEPT ![l] = Append(@, m)] ELSE queues
Received(l) == [net EXCEPT ![l] = Tail(@)]

-----------------------------------------------------------------------------
(* The caller. *)

\* A fresh id for the call.  (An operator marked "slip" is a variant the code
\* does not have: a mistake that one of the properties catches.)
NextRpcUniqueIdReused(h) ==                                     \* slip
    CHOOSE i \in 1..(last_id[h] + 1) : \A req \in req_list[h] : req.id # i
NextRpcUniqueId(h) == last_id[h] + 1

\* RpcMgrBase:call.  A call that cannot be sent has its callback run later.
Call(k) ==
    LET h == CallerOf[k]
        l == <<h, CalleeOf[k]>>
        id == NextRpcUniqueId(h)
    IN /\ k \notin made
       /\ made' = made \cup {k}
       /\ last_id' = [last_id EXCEPT ![h] = @ + 1]
       /\ net' = Sent(net, l, [fn |-> "call", id |-> id, of |-> k])
       /\ \/ /\ up[l]
             /\ req_list' = [req_list EXCEPT ![h] = @ \cup
                               {[id |-> id, call |-> k, left |-> Default_Expire]}]
             /\ UNCHANGED <<delay_execute_fns, failed>>
          \/ /\ ~ up[l]
             /\ delay_execute_fns' = [delay_execute_fns EXCEPT ![h] = @ \cup {k}]
             /\ failed' = failed \cup {k}
             /\ UNCHANGED req_list
       /\ UNCHANGED <<rsp_list, since, up, faults, reached, answered, over, renewed, lapsed>>

\* An answer that ends its call, rather than postpone its deadline.
SettlesAny(action) == TRUE                                      \* slip
Settles(action) == action # "postpone"

\* handle_rsp_msg: the answer to a call that is no longer awaited is ignored.
HandleRspMsg(l) ==
    LET h == l[2]
        msg == Head(net[l])
        reqs == {req \in req_list[h] : req.id = msg.id}
    IN /\ net[l] # <<>> /\ msg.fn \in Actions
       /\ net' = Received(l)
       /\ \/ reqs = {} /\ UNCHANGED <<req_list, over>>
          \/ \E req \in reqs :
                /\ ~ Settles(msg.fn)
                /\ req_list' = [req_list EXCEPT ![h] = (@ \ {req}) \cup
                                  {[req EXCEPT !.left = @ + Default_Expire]}]
                /\ UNCHANGED over
          \/ \E req \in reqs :
                /\ Settles(msg.fn)
                /\ req_list' = [req_list EXCEPT ![h] = @ \ {req}]
                /\ over' = [over EXCEPT ![req.call] = Append(@, <<msg.fn, msg.of>>)]
       /\ UNCHANGED <<last_id, rsp_list, delay_execute_fns, since, up, faults, made,
                      reached, answered, renewed, failed, lapsed>>

-----------------------------------------------------------------------------
(* The callee. *)

\* RpcMgrBase:respone to rsp of h, with queues and list as its caller left
\* them.  Every answer removes it from the list, a postponement too, and
\* forgets the callbacks the manager itself was to run (line 115 clears the
\* manager's list where the answered request's own is meant).
Respone(h, rsp, action, queues, list) ==
    /\ net' = Sent(queues, <<h, rsp.from>>, [fn |-> action, id |-> rsp.from_id, of |-> rsp.call])
    /\ rsp_list' = [list EXCEPT ![h] = @ \ {rsp}]
    /\ delay_execute_fns' = [delay_execute_fns EXCEPT ![h] = {}]
    /\ answered' = IF action = "postpone" THEN answered ELSE answered \cup {rsp.call}

\* handle_req_msg: the request gets an entry in rsp_list and is handed to its
\* process function, or refused when there is none of that name.
HandleReqMsg(l) ==
    LET h == l[2]
        msg == Head(net[l])
        id == NextRpcUniqueId(h)
        rsp == [id |-> id, from |-> l[1], from_id |-> msg.id, call |-> msg.of]
        list == [rsp_list EXCEPT ![h] = @ \cup {rsp}]
    IN /\ net[l] # <<>> /\ msg.fn = "call"
       /\ last_id' = [last_id EXCEPT ![h] = @ + 1]
       /\ reached' = reached \cup {msg.of}
       /\ \/ /\ net' = Received(l)
             /\ rsp_list' = list
             /\ UNCHANGED <<delay_execute_fns, answered>>
          \/ Respone(h, rsp, "error", Received(l), list)
       /\ UNCHANGED <<req_list, since, up, faults, made, over, renewed, failed, lapsed>>

\* A process function answers, at once or later (respone, report_error or
\* postpone_expire of RpcRsp).  One that dies never does.
Respond(h) ==
    /\ \E rsp \in rsp_list[h], action \in Actions : Respone(h, rsp, action, net, rsp_list)
    /\ UNCHANGED <<last_id, req_list, since, up, faults, made, reached, over, renewed,
                   failed, lapsed>>

-----------------------------------------------------------------------------
(* Frames, time and faults. *)

\* on_frame of h.  When a check is due it gives up calls: those whose
\* deadline is still ahead (req.expired_ms > now_ms), and only those.
Expired(req) == req.left > 0
CallsOf(reqs) == {req.call : req \in reqs}
Due(h) == since[h] = Check_Expired_Span
GivenUpOne(h) ==                                                \* slip
    IF Due(h) /\ \E req \in req_list[h] : Expired(req)
    THEN {CHOOSE req \in req_list[h] : Expired(req)} ELSE {}
GivenUp(h) == IF Due(h) THEN {req \in req_list[h] : Expired(req)} ELSE {}
Checked(h) == [since EXCEPT ![h] = IF @ = Check_Expired_Span THEN 0 ELSE @]

OnFrame(h) ==
    /\ Due(h) \/ delay_execute_fns[h] # {}
    /\ since' = Checked(h)
    /\ req_list' = [req_list EXCEPT ![h] = @ \ GivenUp(h)]
    /\ over' = CalledBack(CallsOf(GivenUp(h)), delay_execute_fns[h])
    /\ delay_execute_fns' = [delay_execute_fns EXCEPT ![h] = {}]
    /\ UNCHANGED <<last_id, rsp_list, up, net, faults, made, reached, answered, renewed,
                   failed, lapsed>>

\* A callback that is told its call expired dies of a Lua error, which ends
\* the frame: the calls not given up yet stay in the list.
OnFrameDies(h) ==
    /\ Fault /\ lapsed' = TRUE
    /\ Due(h)
    /\ \E given_up \in SUBSET GivenUp(h) \ {{}} :
          /\ req_list' = [req_list EXCEPT ![h] = @ \ given_up]
          /\ over' = CalledBack(CallsOf(given_up), {})
    /\ since' = Checked(h)
    /\ UNCHANGED <<last_id, rsp_list, delay_execute_fns, up, net, made, reached, answered,
                   renewed, failed>>

Passes ==
    /\ since' = [h \in Hosts |-> IF Due(h) THEN since[h] ELSE since[h] + 1]
    /\ req_list' = [h \in Hosts |->
          {[req EXCEPT !.left = IF @ = 0 THEN 0 ELSE @ - 1] : req \in req_list[h]}]
    /\ UNCHANGED <<last_id, rsp_list, delay_execute_fns, up, net, made, reached, answered,
                   over, renewed, failed>>

\* Time passes.  Frames are much closer to each other than checks, so a due
\* check is made before more time passes ...
Tick ==
    /\ \A h \in Hosts : ~ Due(h)
    /\ Passes
    /\ UNCHANGED <<faults, lapsed>>

\* ... unless a service is held up.
LateTick ==
    /\ \E h \in Hosts : Due(h)
    /\ Fault /\ lapsed' = TRUE
    /\ Passes

\* A connection is made, again and again (_on_frame_process_peer_connect).
Connect(l) ==
    /\ ~ up[l]
    /\ up' = [up EXCEPT ![l] = TRUE]
    /\ UNCHANGED <<last_id, req_list, rsp_list, delay_execute_fns, since, net, faults, made,
                   reached, answered, over, renewed, failed, lapsed>>

\* A connection breaks, and what is in flight on it is lost.
Break(l) ==
    /\ up[l] /\ Fault
    /\ up' = [up EXCEPT ![l] = FALSE]
    /\ net' = [net EXCEPT ![l] = <<>>]
    /\ UNCHANGED <<last_id, req_list, rsp_list, delay_execute_fns, since, made, reached,
                   answered, over, renewed, failed, lapsed>>

\* A service crashes and is started again under its name: its counter starts
\* from zero, while the other services still hold its old requests.
Restart(h) ==
    /\ Fault
    /\ last_id' = [last_id EXCEPT ![h] = 0]
    /\ req_list' = [req_list EXCEPT ![h] = {}]
    /\ rsp_list' = [rsp_list EXCEPT ![h] = {}]
    /\ delay_execute_fns' = [delay_execute_fns EXCEPT ![h] = {}]
    /\ since' = [since EXCEPT ![h] = Check_Expired_Span]
    /\ up' = [l \in Links |-> up[l] /\ h \notin {l[1], l[2]}]
    /\ net' = [l \in Links |-> IF h \in {l[1], l[2]} THEN <<>> ELSE net[l]]
    /\ renewed' = renewed \cup {h}
    /\ UNCHANGED <<made, reached, answered, over, failed, lapsed>>

Next ==
    \/ \E k \in Calls : Call(k)
    \/ \E l \in Links : HandleRspMsg(l) \/ HandleReqMsg(l) \/ Connect(l) \/ Break(l)
    \/ \E h \in Hosts : Respond(h) \/ OnFrame(h) \/ OnFrameDies(h) \/ Restart(h)
    \/ Tick \/ LateTick

Spec == Init /\ [][Next]_vars

\* Frames run and time passes; nothing else is certain to happen.
FairSpec == Spec /\ WF_vars(Tick) /\ \A h \in Hosts : WF_vars(OnFrame(h))

-----------------------------------------------------------------------------
Awaited(k) == \E req \in req_list[CallerOf[k]] : req.call = k

\* The managers keep the contract that services rely on: whatever breaks,
\* expires, is answered late or twice, a callback runs at most once, with
\* the answer to its own call (unless its service was restarted).
KeepsContract == Contract!Spec

\* on_frame gives up a call only before its deadline (line 170), so a call
\* still awaited at its deadline would be awaited forever.  None is, as long
\* as no frame is held up or dies: the check after the call takes it.
NoneForgotten ==
    ~ lapsed => \A h \in Hosts : \A req \in req_list[h] : req.left > 0

\* So every call awaited is answered or given up in the end.
AwaitedEnds == \A k \in Calls : Awaited(k) ~> (~ Awaited(k) \/ lapsed)

\* rpc_mgr_base.lua:83: the callback of a call that could not be sent is run
\* later, as if it had been: it is still to run until it has run.
FailedCallsReturn ==
    \A k \in failed : \/ k \in delay_execute_fns[CallerOf[k]] \/ over[k] # <<>>
                      \/ CallerOf[k] \in renewed
=============================================================================
