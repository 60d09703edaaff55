------------------------------ MODULE RpcProofs ------------------------------
(***************************************************************************)
(* Proofs about RpcMgr, for any services and calls and any number of       *)
(* faults: no awaited call passes its deadline, and the managers implement *)
(* the contract RpcCalls.                                                  *)
(*                                                                         *)
(* The contract rests on what the ids in flight mean.  A trace of a call   *)
(* (its request, the entry its callee keeps, its answer) carries an id of  *)
(* its caller; as long as the caller was not restarted, a call awaited     *)
(* under that id is the call the trace is of.                              *)
(***************************************************************************)
EXTENDS RpcMgr, SequenceTheorems, TLAPS

Msg == Request \cup Answer
Elements(q) == {q[i] : i \in 1..Len(q)}

LEMMA Queues ==
  ASSUME NEW S, NEW q \in Seq(S)
  PROVE  /\ Elements(q) \subseteq S
         /\ q # <<>> => /\ Tail(q) \in Seq(S) /\ Head(q) \in Elements(q)
                        /\ Elements(Tail(q)) \subseteq Elements(q)
         /\ \A m \in S : /\ Append(q, m) \in Seq(S)
                         /\ Elements(Append(q, m)) \subseteq Elements(q) \cup {m}
<1>1. Elements(q) \subseteq S
  BY DEF Elements
<1>2. ASSUME q # <<>>
      PROVE  /\ Tail(q) \in Seq(S) /\ Head(q) \in Elements(q)
             /\ Elements(Tail(q)) \subseteq Elements(q)
  BY <1>2 DEF Elements
<1>3. ASSUME NEW m \in S
      PROVE  /\ Append(q, m) \in Seq(S)
             /\ Elements(Append(q, m)) \subseteq Elements(q) \cup {m}
  BY DEF Elements
<1>4. QED BY <1>1, <1>2, <1>3

LEMMA NothingInTransit == Elements(<<>>) = {}
BY DEF Elements

LEMMA SentQueues ==
  ASSUME TypeOK, NEW queues \in [Links -> Seq(Msg)], NEW to \in Links, NEW m \in Msg
  PROVE  /\ Sent(queues, to, m) \in [Links -> Seq(Msg)]
         /\ \A l \in Links : Elements(Sent(queues, to, m)[l]) \subseteq
               Elements(queues[l]) \cup (IF l = to THEN {m} ELSE {})
<1>1. /\ Append(queues[to], m) \in Seq(Msg)
      /\ Elements(Append(queues[to], m)) \subseteq Elements(queues[to]) \cup {m}
  BY Queues
<1>2. QED BY <1>1 DEF Sent

LEMMA ReceivedQueues ==
  ASSUME TypeOK, NEW l \in Links, net[l] # <<>>
  PROVE  /\ Received(l) \in [Links -> Seq(Msg)]
         /\ Head(net[l]) \in Elements(net[l]) /\ Head(net[l]) \in Msg
         /\ \A k \in Links : Elements(Received(l)[k]) \subseteq Elements(net[k])
<1>1. net \in [Links -> Seq(Msg)]
  BY DEF TypeOK, Msg
<1>2. /\ Tail(net[l]) \in Seq(Msg) /\ Head(net[l]) \in Elements(net[l])
      /\ Elements(Tail(net[l])) \subseteq Elements(net[l])
      /\ Elements(net[l]) \subseteq Msg
  BY <1>1, Queues
<1>3. QED BY <1>1, <1>2 DEF Received

LEMMA LinkFacts ==
  /\ \A l \in Links : /\ l[1] \in Hosts /\ l[2] \in Hosts /\ l[1] # l[2]
                      /\ <<l[1], l[2]>> = l /\ <<l[2], l[1]>> \in Links
  /\ \A h, g \in Hosts : h # g => <<h, g>> \in Links
  /\ \A k \in Calls : /\ CallerOf[k] \in Hosts /\ CalleeOf[k] \in Hosts
                      /\ <<CallerOf[k], CalleeOf[k]>> \in Links
BY RpcAssumption DEF Links

-----------------------------------------------------------------------------
(* Types. *)

LEMMA TypeInit == Init => TypeOK
<1> SUFFICES ASSUME Init PROVE TypeOK
  OBVIOUS
<1>1. /\ <<>> \in Seq(Request \cup Answer) /\ <<>> \in Seq(Contract!Outcomes)
      /\ Check_Expired_Span \in 0..Check_Expired_Span /\ 0 \in 0..MaxFault
  BY RpcAssumption
<1>2. QED BY <1>1 DEF Init, TypeOK

\* What the callbacks of failed and expired calls leave.
LEMMA CalledBackType ==
  ASSUME TypeOK, NEW expired \in SUBSET Calls, NEW undone \in SUBSET Calls
  PROVE  CalledBack(expired, undone) \in [Calls -> Seq(Contract!Outcomes)]
<1> SUFFICES ASSUME NEW k \in Calls
             PROVE  /\ Append(over[k], <<"expired", k>>) \in Seq(Contract!Outcomes)
                    /\ Append(over[k], <<"failed", k>>) \in Seq(Contract!Outcomes)
                    /\ over[k] \in Seq(Contract!Outcomes)
  BY DEF CalledBack
<1>1. <<"expired", k>> \in Contract!Outcomes /\ <<"failed", k>> \in Contract!Outcomes
  BY DEF Contract!Outcomes, Contract!Ends
<1>2. over[k] \in Seq(Contract!Outcomes)
  BY DEF TypeOK
<1>3. QED BY <1>1, <1>2

\* What a call adds.
NewReq(k) == [id |-> last_id[CallerOf[k]] + 1, call |-> k, left |-> Default_Expire]
NewMsg(k) == [fn |-> "call", id |-> last_id[CallerOf[k]] + 1, of |-> k]
LinkOf(k) == <<CallerOf[k], CalleeOf[k]>>

LEMMA CallFacts ==
  ASSUME TypeOK, NEW k \in Calls, Call(k)
  PROVE  /\ CallerOf[k] \in Hosts /\ LinkOf(k) \in Links
         /\ NewMsg(k) \in Msg /\ NewReq(k) \in Req
         /\ k \notin made /\ made' = made \cup {k}
         /\ last_id' = [last_id EXCEPT ![CallerOf[k]] = @ + 1]
         /\ net' = Sent(net, LinkOf(k), NewMsg(k))
         /\ \/ /\ up[LinkOf(k)]
               /\ req_list' = [req_list EXCEPT ![CallerOf[k]] = @ \cup {NewReq(k)}]
               /\ delay_execute_fns' = delay_execute_fns /\ failed' = failed
            \/ /\ ~ up[LinkOf(k)]
               /\ delay_execute_fns' = [delay_execute_fns EXCEPT ![CallerOf[k]] = @ \cup {k}]
               /\ failed' = failed \cup {k} /\ req_list' = req_list
         /\ UNCHANGED <<rsp_list, since, up, faults, reached, answered, over, renewed, lapsed>>
<1>1. CallerOf[k] \in Hosts /\ LinkOf(k) \in Links
  BY LinkFacts DEF LinkOf
<1>2. last_id[CallerOf[k]] + 1 \in Nat
  BY <1>1 DEF TypeOK
<1>3. NewMsg(k) \in Msg /\ NewReq(k) \in Req
  BY <1>2, RpcAssumption DEF Msg, Request, Req, NewMsg, NewReq
<1>4. QED BY <1>1, <1>3 DEF Call, NextRpcUniqueId, LinkOf, NewMsg, NewReq

LEMMA CallType ==
  ASSUME TypeOK, NEW k \in Calls, Call(k)
  PROVE  TypeOK'
<1>1. net \in [Links -> Seq(Msg)]
  BY DEF TypeOK, Msg
<1>2. net' \in [Links -> Seq(Msg)]
  BY <1>1, CallFacts, SentQueues
<1>3. req_list' \in [Hosts -> SUBSET Req]
  <2>1. req_list \in [Hosts -> SUBSET Req]
    BY DEF TypeOK
  <2>2. QED BY <2>1, CallFacts
<1>4. delay_execute_fns' \in [Hosts -> SUBSET Calls]
  <2>1. delay_execute_fns \in [Hosts -> SUBSET Calls]
    BY DEF TypeOK
  <2>2. QED BY <2>1, CallFacts
<1>5. last_id' \in [Hosts -> Nat]
  <2>1. last_id \in [Hosts -> Nat]
    BY DEF TypeOK
  <2>2. QED BY <2>1, CallFacts
<1>6. made' \subseteq Calls /\ failed' \subseteq Calls
  <2>1. made \subseteq Calls /\ failed \subseteq Calls
    BY DEF TypeOK
  <2>2. QED BY <2>1, CallFacts
<1>7. UNCHANGED <<rsp_list, since, up, faults, reached, answered, over, renewed, lapsed>>
  BY CallFacts
<1>8. QED BY <1>2, <1>3, <1>4, <1>5, <1>6, <1>7 DEF TypeOK, Msg

LEMMA HandleRspMsgType ==
  ASSUME TypeOK, NEW l \in Links, HandleRspMsg(l)
  PROVE  TypeOK'
<1> DEFINE h == l[2]
           msg == Head(net[l])
<1>1. h \in Hosts /\ net[l] # <<>>
  BY LinkFacts DEF HandleRspMsg
<1>2. msg \in Msg /\ msg.fn \in Actions /\ net' \in [Links -> Seq(Msg)]
  BY <1>1, ReceivedQueues DEF HandleRspMsg
<1>3. msg.of \in Calls
  BY <1>2 DEF Msg, Request, Answer
<1>4. req_list' \in [Hosts -> SUBSET Req] /\ over' \in [Calls -> Seq(Contract!Outcomes)]
  <2>1. CASE UNCHANGED <<req_list, over>>
    BY <2>1 DEF TypeOK
  <2>2. ASSUME NEW req \in req_list[h],
               req_list' = [req_list EXCEPT ![h] = (@ \ {req}) \cup
                              {[req EXCEPT !.left = @ + Default_Expire]}],
               UNCHANGED over
        PROVE  <1>4!1 /\ <1>4!2
    <3>1. req \in Req
      BY <1>1 DEF TypeOK
    <3>2. [req EXCEPT !.left = @ + Default_Expire] \in Req
      BY <3>1, RpcAssumption DEF Req
    <3>3. QED BY <1>1, <2>2, <3>2 DEF TypeOK
  <2>3. ASSUME NEW req \in req_list[h], Settles(msg.fn),
               req_list' = [req_list EXCEPT ![h] = @ \ {req}],
               over' = [over EXCEPT ![req.call] = Append(@, <<msg.fn, msg.of>>)]
        PROVE  <1>4!1 /\ <1>4!2
    <3>1. req.call \in Calls
      BY <1>1 DEF TypeOK, Req
    <3>2. <<msg.fn, msg.of>> \in Contract!Outcomes
      BY <1>2, <1>3, <2>3 DEF Settles, Actions, Contract!Outcomes, Contract!Ends
    <3>3. over[req.call] \in Seq(Contract!Outcomes)
      BY <3>1 DEF TypeOK
    <3>4. Append(over[req.call], <<msg.fn, msg.of>>) \in Seq(Contract!Outcomes)
      BY <3>2, <3>3
    <3>5. QED BY <1>1, <2>3, <3>1, <3>4 DEF TypeOK
  <2>4. QED BY <2>1, <2>2, <2>3 DEF HandleRspMsg
<1>5. QED BY <1>2, <1>4 DEF TypeOK, HandleRspMsg, Msg

\* The entry a request gets, and the answer to one.
LEMMA ResponeType ==
  ASSUME TypeOK, NEW h \in Hosts, NEW rsp \in Rsp, rsp.from # h, NEW action \in Actions,
         NEW queues \in [Links -> Seq(Msg)], NEW list \in [Hosts -> SUBSET Rsp],
         Respone(h, rsp, action, queues, list)
  PROVE  /\ net' \in [Links -> Seq(Msg)]
         /\ rsp_list' \in [Hosts -> SUBSET Rsp]
         /\ delay_execute_fns' \in [Hosts -> SUBSET Calls]
         /\ answered' \subseteq Calls
<1> DEFINE to == <<h, rsp.from>>
           msg == [fn |-> action, id |-> rsp.from_id, of |-> rsp.call]
<1>1. rsp.from \in Hosts /\ rsp.from_id \in Nat /\ rsp.call \in Calls
  BY DEF Rsp
<1>2. to \in Links /\ msg \in Msg
  BY <1>1, LinkFacts DEF Msg, Answer
<1>3. net' = Sent(queues, to, msg)
  BY DEF Respone
<1> HIDE DEF to, msg
<1>4. net' \in [Links -> Seq(Msg)]
  BY <1>2, <1>3, SentQueues
<1>5. rsp_list' \in [Hosts -> SUBSET Rsp]
  BY DEF Respone
<1>6. delay_execute_fns' \in [Hosts -> SUBSET Calls]
  BY DEF Respone, TypeOK
<1>7. answered' \subseteq Calls
  BY <1>1 DEF Respone, TypeOK
<1>8. QED BY <1>4, <1>5, <1>6, <1>7

LEMMA HandleReqMsgType ==
  ASSUME TypeOK, NEW l \in Links, HandleReqMsg(l)
  PROVE  TypeOK'
<1> DEFINE h == l[2]
           msg == Head(net[l])
           id == last_id[h] + 1
           rsp == [id |-> id, from |-> l[1], from_id |-> msg.id, call |-> msg.of]
           list == [rsp_list EXCEPT ![h] = @ \cup {rsp}]
<1>1. h \in Hosts /\ l[1] \in Hosts /\ l[1] # h /\ net[l] # <<>>
  BY LinkFacts DEF HandleReqMsg
<1>2. msg \in Msg /\ Received(l) \in [Links -> Seq(Msg)] /\ id \in Nat
  BY <1>1, ReceivedQueues DEF TypeOK
<1>3. msg.of \in Calls /\ msg.id \in Nat
  BY <1>2 DEF Msg, Request, Answer
<1>4. rsp \in Rsp /\ rsp.from # h
  BY <1>1, <1>2, <1>3 DEF Rsp
<1>5. list \in [Hosts -> SUBSET Rsp]
  BY <1>4 DEF TypeOK
<1>6. /\ net' \in [Links -> Seq(Msg)]
      /\ rsp_list' \in [Hosts -> SUBSET Rsp]
      /\ delay_execute_fns' \in [Hosts -> SUBSET Calls]
      /\ answered' \subseteq Calls
  <2>1. CASE /\ net' = Received(l) /\ rsp_list' = list
             /\ UNCHANGED <<delay_execute_fns, answered>>
    BY <1>2, <1>5, <2>1 DEF TypeOK
  <2>2. CASE Respone(h, rsp, "error", Received(l), list)
    <3>1. "error" \in Actions
      BY DEF Actions
    <3> HIDE DEF rsp, list, h
    <3>2. QED BY <1>1, <1>2, <1>4, <1>5, <2>2, <3>1, ResponeType
  <2>3. QED BY <2>1, <2>2 DEF HandleReqMsg, NextRpcUniqueId
<1>7. last_id' \in [Hosts -> Nat] /\ reached' \subseteq Calls
  BY <1>1, <1>3 DEF TypeOK, HandleReqMsg
<1>8. QED BY <1>6, <1>7 DEF TypeOK, HandleReqMsg, Msg

LEMMA RespondType ==
  ASSUME TypeOK, NEW h \in Hosts, NEW rsp \in rsp_list[h], rsp.from # h, NEW action \in Actions,
         Respone(h, rsp, action, net, rsp_list),
         UNCHANGED <<last_id, req_list, since, up, faults, made, reached, over, renewed,
                     failed, lapsed>>
  PROVE  TypeOK'
<1>1. rsp \in Rsp /\ net \in [Links -> Seq(Msg)] /\ rsp_list \in [Hosts -> SUBSET Rsp]
  BY DEF TypeOK, Msg
<1>2. /\ net' \in [Links -> Seq(Msg)]
      /\ rsp_list' \in [Hosts -> SUBSET Rsp]
      /\ delay_execute_fns' \in [Hosts -> SUBSET Calls]
      /\ answered' \subseteq Calls
  BY <1>1, ResponeType
<1>3. QED BY <1>2 DEF TypeOK, Msg

\* Giving up calls.
LEMMA GivenUpType ==
  ASSUME TypeOK, NEW h \in Hosts, NEW given_up \in SUBSET req_list[h]
  PROVE  /\ CallsOf(given_up) \subseteq Calls
         /\ [req_list EXCEPT ![h] = @ \ given_up] \in [Hosts -> SUBSET Req]
         /\ Checked(h) \in [Hosts -> 0..Check_Expired_Span]
<1>1. CallsOf(given_up) \subseteq Calls
  BY DEF TypeOK, CallsOf, Req
<1>2. [req_list EXCEPT ![h] = @ \ given_up] \in [Hosts -> SUBSET Req]
  BY DEF TypeOK
<1>3. Checked(h) \in [Hosts -> 0..Check_Expired_Span]
  BY RpcAssumption DEF TypeOK, Checked
<1>4. QED BY <1>1, <1>2, <1>3

LEMMA OnFrameType ==
  ASSUME TypeOK, NEW h \in Hosts, OnFrame(h)
  PROVE  TypeOK'
<1>1. GivenUp(h) \in SUBSET req_list[h]
  BY DEF GivenUp
<1>2. delay_execute_fns[h] \in SUBSET Calls
  BY DEF TypeOK
<1>3. over' \in [Calls -> Seq(Contract!Outcomes)]
  BY <1>1, <1>2, GivenUpType, CalledBackType DEF OnFrame
<1>4. req_list' \in [Hosts -> SUBSET Req] /\ since' \in [Hosts -> 0..Check_Expired_Span]
  BY <1>1, GivenUpType DEF OnFrame
<1>5. delay_execute_fns' \in [Hosts -> SUBSET Calls]
  BY DEF TypeOK, OnFrame
<1>6. QED BY <1>3, <1>4, <1>5 DEF TypeOK, OnFrame

LEMMA OnFrameDiesType ==
  ASSUME TypeOK, NEW h \in Hosts, OnFrameDies(h)
  PROVE  TypeOK'
<1>1. PICK given_up \in SUBSET GivenUp(h) :
          /\ req_list' = [req_list EXCEPT ![h] = @ \ given_up]
          /\ over' = CalledBack(CallsOf(given_up), {})
  BY DEF OnFrameDies
<1>2. given_up \in SUBSET req_list[h]
  BY DEF GivenUp
<1>3. over' \in [Calls -> Seq(Contract!Outcomes)]
  BY <1>1, <1>2, GivenUpType, CalledBackType
<1>4. req_list' \in [Hosts -> SUBSET Req] /\ since' \in [Hosts -> 0..Check_Expired_Span]
  BY <1>1, <1>2, GivenUpType DEF OnFrameDies
<1>5. faults' \in 0..MaxFault
  BY RpcAssumption DEF TypeOK, OnFrameDies, Fault
<1>6. lapsed' \in BOOLEAN
  BY DEF OnFrameDies
<1>7. QED BY <1>3, <1>4, <1>5, <1>6 DEF TypeOK, OnFrameDies

LEMMA PassesType ==
  ASSUME TypeOK, Passes, faults' \in 0..MaxFault, lapsed' \in BOOLEAN
  PROVE  TypeOK'
<1>1. since' \in [Hosts -> 0..Check_Expired_Span]
  BY RpcAssumption DEF TypeOK, Passes, Due
<1>2. req_list' \in [Hosts -> SUBSET Req]
  <2>1. ASSUME NEW h \in Hosts, NEW req \in req_list[h]
        PROVE  [req EXCEPT !.left = IF @ = 0 THEN 0 ELSE @ - 1] \in Req
    <3>1. req \in Req
      BY DEF TypeOK
    <3>2. QED BY <3>1 DEF Req
  <2>2. QED BY <2>1 DEF Passes
<1>3. QED BY <1>1, <1>2 DEF TypeOK, Passes

LEMMA FaultType ==
  ASSUME TypeOK, Fault PROVE faults' \in 0..MaxFault
BY RpcAssumption DEF TypeOK, Fault

LEMMA LinkTypes ==
  ASSUME TypeOK, NEW l \in Links, Connect(l) \/ Break(l)
  PROVE  TypeOK'
<1>1. up' \in [Links -> BOOLEAN]
  BY DEF TypeOK, Connect, Break
<1>2. net' \in [Links -> Seq(Request \cup Answer)]
  <2>1. <<>> \in Seq(Request \cup Answer)
    OBVIOUS
  <2>2. QED BY <2>1 DEF TypeOK, Connect, Break
<1>3. faults' \in 0..MaxFault
  BY FaultType DEF TypeOK, Connect, Break
<1>4. QED BY <1>1, <1>2, <1>3 DEF TypeOK, Connect, Break

LEMMA RestartType ==
  ASSUME TypeOK, NEW h \in Hosts, Restart(h)
  PROVE  TypeOK'
<1>1. net' \in [Links -> Seq(Request \cup Answer)]
  <2>1. <<>> \in Seq(Request \cup Answer)
    OBVIOUS
  <2>2. QED BY <2>1 DEF TypeOK, Restart
<1>2. up' \in [Links -> BOOLEAN] /\ faults' \in 0..MaxFault
  BY FaultType DEF TypeOK, Restart
<1>3. /\ last_id' \in [Hosts -> Nat] /\ req_list' \in [Hosts -> SUBSET Req]
      /\ rsp_list' \in [Hosts -> SUBSET Rsp] /\ delay_execute_fns' \in [Hosts -> SUBSET Calls]
      /\ renewed' \subseteq Hosts
  BY DEF TypeOK, Restart
<1>4. since' \in [Hosts -> 0..Check_Expired_Span]
  BY RpcAssumption DEF TypeOK, Restart
<1>5. QED BY <1>1, <1>2, <1>3, <1>4 DEF TypeOK, Restart

-----------------------------------------------------------------------------
(* Deadlines. *)

\* No service owes an answer to itself.
FromOthers == \A h \in Hosts : \A rsp \in rsp_list[h] : rsp.from # h

\* A call made after the last check has all its time left, so the next check
\* comes before its deadline.
Timely ==
    ~ lapsed => \A h \in Hosts : \A req \in req_list[h] :
        Default_Expire <= req.left + since[h]

TimeInv == TypeOK /\ FromOthers /\ Timely

LEMMA TimeLeft ==
  ASSUME TimeInv, ~ lapsed, NEW h \in Hosts, NEW req \in req_list[h]
  PROVE  req.left \in Nat /\ since[h] \in 0..Check_Expired_Span /\ req.left > 0
<1>1. req \in Req /\ since[h] \in 0..Check_Expired_Span
  BY DEF TimeInv, TypeOK
<1>2. Default_Expire <= req.left + since[h]
  BY DEF TimeInv, Timely
<1>3. QED BY <1>1, <1>2, RpcAssumption DEF Req

\* A step that puts off no check and shortens no deadline.
LEMMA TimelyKept ==
  ASSUME TimeInv, TypeOK', lapsed' = lapsed,
         NEW h \in Hosts, NEW req \in req_list[h],
         NEW new, new.left \in Nat, new.left >= req.left, since'[h] = since[h]
  PROVE  ~ lapsed' => Default_Expire <= new.left + since'[h]
<1>1. req \in Req /\ since[h] \in 0..Check_Expired_Span
  BY DEF TimeInv, TypeOK
<1>2. ~ lapsed => Default_Expire <= req.left + since[h]
  BY DEF TimeInv, Timely
<1>3. QED BY <1>1, <1>2, RpcAssumption DEF Req

LEMMA SameCallsTimely ==
  ASSUME TimeInv, TypeOK', lapsed' = lapsed, since' = since,
         \A h \in Hosts : req_list'[h] \subseteq req_list[h]
  PROVE  Timely'
<1> SUFFICES ASSUME NEW h \in Hosts, NEW req \in req_list'[h]
             PROVE  ~ lapsed' => Default_Expire <= req.left + since'[h]
  BY DEF Timely
<1>1. req \in req_list[h] /\ req.left \in Nat
  BY DEF TypeOK, Req
<1>2. req.left >= req.left
  BY <1>1
<1>3. since'[h] = since[h]
  OBVIOUS
<1>4. QED BY <1>1, <1>2, <1>3, TimelyKept

LEMMA CallTime ==
  ASSUME TimeInv, NEW k \in Calls, Call(k)
  PROVE  TimeInv'
<1>1. TypeOK'
  BY CallType DEF TimeInv
<1>2. /\ CallerOf[k] \in Hosts /\ since' = since /\ lapsed' = lapsed /\ rsp_list' = rsp_list
      /\ \/ req_list' = req_list
         \/ req_list' = [req_list EXCEPT ![CallerOf[k]] = @ \cup {NewReq(k)}]
  BY CallFacts DEF TimeInv
<1>3. FromOthers'
  BY <1>2 DEF FromOthers, TimeInv
<1>4. ASSUME NEW h \in Hosts, NEW req \in req_list'[h]
      PROVE  ~ lapsed' => Default_Expire <= req.left + since'[h]
  <2>1. req \in req_list[h] \/ req = NewReq(k)
    <3>1. req_list \in [Hosts -> SUBSET Req]
      BY DEF TimeInv, TypeOK
    <3>2. CASE req_list' = [req_list EXCEPT ![CallerOf[k]] = @ \cup {NewReq(k)}]
      BY <1>2, <3>1, <3>2
    <3>3. CASE req_list' = req_list
      BY <3>3
    <3>4. QED BY <1>2, <3>2, <3>3
  <2>2. CASE req \in req_list[h]
    <3>1. req.left \in Nat
      BY <2>2 DEF TimeInv, TypeOK, Req
    <3>2. req.left >= req.left
      BY <3>1
    <3>3. since'[h] = since[h]
      BY <1>2
    <3>4. QED BY <1>1, <1>2, <2>2, <3>1, <3>2, <3>3, TimelyKept
  <2>3. CASE req = NewReq(k)
    <3>1. req.left = Default_Expire
      BY <2>3 DEF NewReq
    <3>2. since'[h] \in 0..Check_Expired_Span
      BY <1>1 DEF TypeOK
    <3>3. QED BY <3>1, <3>2, RpcAssumption
  <2>4. QED BY <2>1, <2>2, <2>3
<1>5. QED BY <1>1, <1>3, <1>4 DEF TimeInv, Timely

LEMMA HandleRspMsgTime ==
  ASSUME TimeInv, NEW l \in Links, HandleRspMsg(l)
  PROVE  TimeInv'
<1>1. TypeOK'
  BY HandleRspMsgType DEF TimeInv
<1>2. since' = since /\ lapsed' = lapsed /\ rsp_list' = rsp_list
  BY DEF HandleRspMsg
<1>3. FromOthers'
  BY <1>2 DEF FromOthers, TimeInv
<1>4. ASSUME NEW h \in Hosts, NEW req \in req_list'[h]
      PROVE  \E old \in req_list[h] : req = old \/ req = [old EXCEPT !.left = @ + Default_Expire]
  <2>1. req_list \in [Hosts -> SUBSET Req]
    BY DEF TimeInv, TypeOK
  <2>2. \/ req_list' = req_list
        \/ \E old \in req_list[l[2]] :
              req_list' = [req_list EXCEPT ![l[2]] = (@ \ {old}) \cup
                             {[old EXCEPT !.left = @ + Default_Expire]}]
        \/ \E old \in req_list[l[2]] : req_list' = [req_list EXCEPT ![l[2]] = @ \ {old}]
    BY DEF HandleRspMsg
  <2>3. CASE req_list' = req_list
    BY <2>3
  <2>4. ASSUME NEW old \in req_list[l[2]],
               req_list' = [req_list EXCEPT ![l[2]] = (@ \ {old}) \cup
                              {[old EXCEPT !.left = @ + Default_Expire]}]
        PROVE  \E old_req \in req_list[h] :
                 req = old_req \/ req = [old_req EXCEPT !.left = @ + Default_Expire]
    BY <2>1, <2>4
  <2>5. ASSUME NEW old \in req_list[l[2]], req_list' = [req_list EXCEPT ![l[2]] = @ \ {old}]
        PROVE  \E old_req \in req_list[h] :
                 req = old_req \/ req = [old_req EXCEPT !.left = @ + Default_Expire]
    BY <2>1, <2>5
  <2>6. QED BY <2>2, <2>3, <2>4, <2>5
<1>5. ASSUME NEW h \in Hosts, NEW req \in req_list'[h]
      PROVE  ~ lapsed' => Default_Expire <= req.left + since'[h]
  <2>1. PICK old \in req_list[h] : req = old \/ req = [old EXCEPT !.left = @ + Default_Expire]
    BY <1>4
  <2>2. old \in Req
    BY DEF TimeInv, TypeOK
  <2>3. req.left \in Nat /\ req.left >= old.left
    BY <2>1, <2>2, RpcAssumption DEF Req
  <2>4. since'[h] = since[h]
    BY <1>2
  <2>5. QED BY <1>1, <1>2, <2>3, <2>4, TimelyKept
<1>6. QED BY <1>1, <1>3, <1>5 DEF TimeInv, Timely

LEMMA HandleReqMsgTime ==
  ASSUME TimeInv, NEW l \in Links, HandleReqMsg(l)
  PROVE  TimeInv'
<1>1. TypeOK'
  BY HandleReqMsgType DEF TimeInv
<1>2. since' = since /\ lapsed' = lapsed /\ req_list' = req_list
  BY DEF HandleReqMsg
<1>3. Timely'
  BY <1>1, <1>2, SameCallsTimely
<1>4. ASSUME NEW h \in Hosts, NEW rsp \in rsp_list'[h]
      PROVE  rsp \in rsp_list[h] \/ (h = l[2] /\ rsp.from = l[1])
  BY <1>4 DEF HandleReqMsg, Respone, TimeInv, TypeOK
<1>5. FromOthers'
  BY <1>4, LinkFacts DEF FromOthers, TimeInv
<1>6. QED BY <1>1, <1>3, <1>5 DEF TimeInv

LEMMA RespondTime ==
  ASSUME TimeInv, NEW h \in Hosts, Respond(h)
  PROVE  TimeInv'
<1>1. PICK rsp \in rsp_list[h], action \in Actions : Respone(h, rsp, action, net, rsp_list)
  BY DEF Respond
<1>2. UNCHANGED <<last_id, req_list, since, up, faults, made, reached, over, renewed,
                  failed, lapsed>>
  BY DEF Respond
<1>3. TypeOK'
  BY <1>1, <1>2, RespondType DEF TimeInv, FromOthers
<1>4. Timely'
  BY <1>2, <1>3, SameCallsTimely
<1>5. FromOthers'
  BY <1>1 DEF FromOthers, TimeInv, Respone, TypeOK
<1>6. QED BY <1>3, <1>4, <1>5 DEF TimeInv

LEMMA OnFrameTime ==
  ASSUME TimeInv, NEW h \in Hosts, OnFrame(h)
  PROVE  TimeInv'
<1>1. TypeOK'
  BY OnFrameType DEF TimeInv
<1>2. FromOthers'
  BY DEF FromOthers, TimeInv, OnFrame
<1>3. lapsed' = lapsed
  BY DEF OnFrame
<1>4. Timely'
  <2>1. CASE Due(h)
    <3>1. ASSUME ~ lapsed PROVE req_list'[h] = {}
      <4>1. GivenUp(h) = req_list[h]
        BY <2>1, <3>1, TimeLeft DEF GivenUp, Expired
      <4>2. QED BY <4>1 DEF OnFrame, TimeInv, TypeOK
    <3>2. ASSUME NEW g \in Hosts, g # h PROVE req_list'[g] = req_list[g] /\ since'[g] = since[g]
      BY <3>2 DEF OnFrame, Checked, TimeInv, TypeOK
    <3>3. QED BY <1>3, <3>1, <3>2 DEF Timely, TimeInv
  <2>2. CASE ~ Due(h)
    <3>1. since' = since
      BY <2>2 DEF OnFrame, Checked, Due, TimeInv, TypeOK
    <3>2. \A g \in Hosts : req_list'[g] \subseteq req_list[g]
      BY DEF OnFrame, TimeInv, TypeOK
    <3>3. QED BY <1>1, <1>3, <3>1, <3>2, SameCallsTimely
  <2>3. QED BY <2>1, <2>2
<1>5. QED BY <1>1, <1>2, <1>4 DEF TimeInv

LEMMA OnFrameDiesTime ==
  ASSUME TimeInv, NEW h \in Hosts, OnFrameDies(h)
  PROVE  TimeInv'
<1>1. TypeOK'
  BY OnFrameDiesType DEF TimeInv
<1>2. FromOthers' /\ Timely'
  BY DEF FromOthers, Timely, TimeInv, OnFrameDies
<1>3. QED BY <1>1, <1>2 DEF TimeInv

LEMMA TickTime ==
  ASSUME TimeInv, Tick \/ LateTick
  PROVE  TimeInv'
<1>1. TypeOK'
  <2>1. CASE Tick
    BY <2>1, PassesType DEF Tick, TimeInv, TypeOK
  <2>2. CASE LateTick
    BY <2>2, PassesType, FaultType DEF LateTick, TimeInv
  <2>3. QED BY <2>1, <2>2
<1>2. FromOthers'
  BY DEF FromOthers, TimeInv, Tick, LateTick, Passes
<1>3. Timely'
  <2>1. CASE LateTick
    BY <2>1 DEF LateTick, Timely
  <2>2. CASE Tick
    <3> SUFFICES ASSUME ~ lapsed, NEW h \in Hosts, NEW new \in req_list'[h]
                 PROVE  Default_Expire <= new.left + since'[h]
      BY <2>2 DEF Tick, Timely
    <3>1. PICK req \in req_list[h] : new = [req EXCEPT !.left = IF @ = 0 THEN 0 ELSE @ - 1]
      BY <2>2 DEF Tick, Passes
    <3>2. req \in Req /\ req.left > 0 /\ since[h] \in 0..Check_Expired_Span
      BY TimeLeft DEF TimeInv, TypeOK
    <3>3. new.left = req.left - 1
      BY <3>1, <3>2 DEF Req
    <3>4. since'[h] = since[h] + 1
      BY <2>2 DEF Tick, Passes
    <3>5. Default_Expire <= req.left + since[h]
      BY DEF TimeInv, Timely
    <3>6. QED BY <3>2, <3>3, <3>4, <3>5, RpcAssumption DEF Req
  <2>3. QED BY <2>1, <2>2
<1>4. QED BY <1>1, <1>2, <1>3 DEF TimeInv

LEMMA LinksTime ==
  ASSUME TimeInv, NEW l \in Links, Connect(l) \/ Break(l)
  PROVE  TimeInv'
<1>1. TypeOK'
  BY LinkTypes DEF TimeInv
<1>2. FromOthers' /\ Timely'
  BY DEF FromOthers, Timely, TimeInv, Connect, Break
<1>3. QED BY <1>1, <1>2 DEF TimeInv

LEMMA RestartTime ==
  ASSUME TimeInv, NEW h \in Hosts, Restart(h)
  PROVE  TimeInv'
<1>1. TypeOK'
  BY RestartType DEF TimeInv
<1>2. FromOthers'
  BY DEF FromOthers, TimeInv, TypeOK, Restart
<1>3. Timely'
  <2>1. req_list'[h] = {} /\ lapsed' = lapsed
    BY DEF Restart, TimeInv, TypeOK
  <2>2. ASSUME NEW g \in Hosts, g # h PROVE req_list'[g] = req_list[g] /\ since'[g] = since[g]
    BY <2>2 DEF Restart, TimeInv, TypeOK
  <2>3. QED BY <2>1, <2>2 DEF Timely, TimeInv
<1>4. QED BY <1>1, <1>2, <1>3 DEF TimeInv

LEMMA TimeInvariant == Spec => []TimeInv
<1>1. Init => TimeInv
  BY TypeInit DEF TimeInv, FromOthers, Timely, Init
<1>2. TimeInv /\ [Next]_vars => TimeInv'
  <2> SUFFICES ASSUME TimeInv, [Next]_vars PROVE TimeInv'
    OBVIOUS
  <2>1. CASE UNCHANGED vars
    BY <2>1 DEF vars, TimeInv, TypeOK, FromOthers, Timely
  <2>2. CASE Next
    BY <2>2, CallTime, HandleRspMsgTime, HandleReqMsgTime, RespondTime, OnFrameTime,
       OnFrameDiesTime, TickTime, LinksTime, RestartTime DEF Next
  <2>3. QED BY <2>1, <2>2
<1>3. QED BY <1>1, <1>2, PTL DEF Spec

\* The variables of the managers keep their types; in particular the managers
\* run callbacks with outcomes that the contract knows.
THEOREM RpcTypes == Spec => []TypeOK
<1>1. TimeInv => TypeOK
  BY DEF TimeInv
<1>2. QED BY <1>1, TimeInvariant, PTL

\* on_frame gives up a call only while its deadline is ahead (line 170), and
\* no call awaited is past it while no frame is late and none dies.
THEOREM DeadlinesAhead == Spec => []NoneForgotten
<1>1. TimeInv => NoneForgotten
  BY TimeLeft DEF NoneForgotten
<1>2. QED BY <1>1, TimeInvariant, PTL

-----------------------------------------------------------------------------
(* What the ids in flight mean. *)

\* A trace with id id, addressed to or coming from service h, is of call k.
Fits(h, id, k) ==
    h \notin renewed => /\ id <= last_id[h]
                       /\ \A req \in req_list[h] : req.id = id => req.call = k

\* A message m in flight on link l.
MsgOK(l, m) ==
    /\ m.fn = "call" => /\ m.of \in made /\ \A h \in Hosts : m.of \notin delay_execute_fns[h]
                        /\ Fits(l[1], m.id, m.of)
    /\ m.fn # "call" => /\ Fits(l[2], m.id, m.of)
                        /\ m.fn # "postpone" => m.of \in answered

\* An answer owed.
OwedOK(rsp) == rsp.call \in reached /\ Fits(rsp.from, rsp.from_id, rsp.call)

\* A call awaited, or failed and to be reported, by service h: its callback has
\* not run, and it is in one place only.
AwaitedOK(h, req) ==
    /\ CallerOf[req.call] = h /\ req.call \in made /\ over[req.call] = <<>>
    /\ req.id <= last_id[h]
    /\ req.call \notin delay_execute_fns[h]
    /\ \A other \in req_list[h] : other.call = req.call => other = req
DelayedOK(h, k) == CallerOf[k] = h /\ k \in made \ reached /\ over[k] = <<>>

InTransitOK == \A l \in Links : \A m \in Elements(net[l]) : MsgOK(l, m)
AllOwed == \A h \in Hosts : \A rsp \in rsp_list[h] : OwedOK(rsp)
AllAwaited == \A h \in Hosts : \A req \in req_list[h] : AwaitedOK(h, req)
AllDelayed == \A h \in Hosts : \A k \in delay_execute_fns[h] : DelayedOK(h, k)
MadeFirst == reached \subseteq made /\ \A k \in Calls : over[k] # <<>> => k \in made

ContractInv == TimeInv /\ InTransitOK /\ AllOwed /\ AllAwaited /\ AllDelayed /\ MadeFirst

\* The shape of a step: nothing is taken back, calls that become delayed are
\* new, and so are the ids that a service comes to await.
Grows ==
    /\ made \subseteq made' /\ answered \subseteq answered' /\ reached \subseteq reached'
    /\ renewed \subseteq renewed'
    /\ \A h \in Hosts : \A k \in delay_execute_fns'[h] : k \in delay_execute_fns[h] \/ k \notin made
    /\ \A h \in Hosts :
          \/ h \in renewed'
          \/ /\ last_id[h] <= last_id'[h]
             /\ \A new \in req_list'[h] :
                   \/ new.id > last_id[h]
                   \/ \E req \in req_list[h] : new.id = req.id /\ new.call = req.call

LEMMA FitsKept ==
  ASSUME TypeOK, TypeOK', Grows, NEW h \in Hosts, NEW id \in Nat, NEW k, Fits(h, id, k)
  PROVE  Fits(h, id, k)'
<1> SUFFICES ASSUME h \notin renewed'
             PROVE  /\ id <= last_id'[h]
                    /\ \A req \in req_list'[h] : req.id = id => req.call = k
  BY DEF Fits
<1>1. /\ id <= last_id[h] /\ last_id[h] <= last_id'[h]
      /\ \A req \in req_list[h] : req.id = id => req.call = k
  BY DEF Grows, Fits
<1>2. last_id[h] \in Nat /\ last_id'[h] \in Nat
  BY DEF TypeOK
<1>3. ASSUME NEW new \in req_list'[h], new.id = id PROVE new.call = k
  <2>1. ~ (new.id > last_id[h])
    BY <1>1, <1>2, <1>3
  <2>2. PICK req \in req_list[h] : new.id = req.id /\ new.call = req.call
    BY <2>1 DEF Grows
  <2>3. QED BY <1>1, <1>3, <2>2
<1>4. QED BY <1>1, <1>2, <1>3

LEMMA MsgKept ==
  ASSUME TypeOK, TypeOK', Grows, NEW l \in Links, NEW m \in Msg, MsgOK(l, m)
  PROVE  MsgOK(l, m)'
<1>1. m.id \in Nat /\ l[1] \in Hosts /\ l[2] \in Hosts
  BY LinkFacts DEF Msg, Request, Answer
<1>2. CASE m.fn = "call"
  <2>1. Fits(l[1], m.id, m.of)'
    BY <1>1, <1>2, FitsKept DEF MsgOK
  <2>2. m.of \in made' /\ \A h \in Hosts : m.of \notin delay_execute_fns'[h]
    BY <1>2 DEF MsgOK, Grows
  <2>3. QED BY <1>2, <2>1, <2>2 DEF MsgOK
<1>3. CASE m.fn # "call"
  <2>1. Fits(l[2], m.id, m.of)'
    BY <1>1, <1>3, FitsKept DEF MsgOK
  <2>2. m.fn # "postpone" => m.of \in answered'
    BY <1>3 DEF MsgOK, Grows
  <2>3. QED BY <1>3, <2>1, <2>2 DEF MsgOK
<1>4. QED BY <1>2, <1>3

LEMMA InTransitKept ==
  ASSUME ContractInv, TypeOK', Grows,
         \A l \in Links : \A m \in Elements(net'[l]) : m \in Elements(net[l]) \/ MsgOK(l, m)'
  PROVE  InTransitOK'
<1> SUFFICES ASSUME NEW l \in Links, NEW m \in Elements(net'[l]) PROVE MsgOK(l, m)'
  BY DEF InTransitOK
<1>1. CASE m \in Elements(net[l])
  <2>1. TypeOK /\ MsgOK(l, m)
    BY <1>1 DEF ContractInv, TimeInv, InTransitOK
  <2>2. net[l] \in Seq(Msg)
    BY <2>1 DEF TypeOK, Msg
  <2>3. m \in Msg
    BY <1>1, <2>2, Queues
  <2>4. QED BY <2>1, <2>3, MsgKept
<1>2. QED BY <1>1

LEMMA OwedKept ==
  ASSUME ContractInv, TypeOK', Grows,
         \A h \in Hosts : \A rsp \in rsp_list'[h] : rsp \in rsp_list[h] \/ OwedOK(rsp)'
  PROVE  AllOwed'
<1> SUFFICES ASSUME NEW h \in Hosts, NEW rsp \in rsp_list'[h] PROVE OwedOK(rsp)'
  BY DEF AllOwed
<1>1. CASE rsp \in rsp_list[h]
  <2>1. TypeOK /\ OwedOK(rsp)
    BY <1>1 DEF ContractInv, TimeInv, AllOwed
  <2>2. rsp.from \in Hosts /\ rsp.from_id \in Nat
    BY <1>1, <2>1 DEF TypeOK, Rsp
  <2>3. Fits(rsp.from, rsp.from_id, rsp.call)'
    BY <2>1, <2>2, FitsKept DEF OwedOK
  <2>4. rsp.call \in reached'
    BY <2>1 DEF OwedOK, Grows
  <2>5. QED BY <2>3, <2>4 DEF OwedOK
<1>2. QED BY <1>1

\* What the invariant says of the calls a service waits for.
LEMMA AwaitedFacts ==
  ASSUME ContractInv, NEW h \in Hosts, NEW req \in req_list[h]
  PROVE  /\ req \in Req /\ req.call \in Calls /\ req.id \in Nat
         /\ CallerOf[req.call] = h /\ req.call \in made /\ over[req.call] = <<>>
         /\ req.id <= last_id[h]
         /\ \A g \in Hosts : req.call \notin delay_execute_fns[g]
         /\ \A g \in Hosts : \A other \in req_list[g] : other.call = req.call => other = req
<1>1. req \in Req /\ req.call \in Calls /\ req.id \in Nat
  BY DEF ContractInv, TimeInv, TypeOK, Req
<1>2. AwaitedOK(h, req)
  BY DEF ContractInv, AllAwaited
<1>3. ASSUME NEW g \in Hosts PROVE req.call \notin delay_execute_fns[g]
  <2>1. CASE g = h
    BY <1>2, <2>1 DEF AwaitedOK
  <2>2. CASE g # h
    BY <1>2, <2>2 DEF AwaitedOK, ContractInv, AllDelayed, DelayedOK
  <2>3. QED BY <2>1, <2>2
<1>4. ASSUME NEW g \in Hosts, NEW other \in req_list[g], other.call = req.call PROVE other = req
  <2>1. AwaitedOK(g, other)
    BY DEF ContractInv, AllAwaited
  <2>2. g = h
    BY <1>2, <1>4, <2>1 DEF AwaitedOK
  <2>3. QED BY <1>2, <1>4, <2>2 DEF AwaitedOK
<1>5. QED BY <1>1, <1>2, <1>3, <1>4 DEF AwaitedOK

LEMMA CallContract ==
  ASSUME ContractInv, NEW k \in Calls, Call(k)
  PROVE  ContractInv'
<1> DEFINE h == CallerOf[k]
<1>1. TimeInv /\ TypeOK /\ TimeInv' /\ TypeOK'
  BY CallTime DEF ContractInv, TimeInv
<1>2. /\ h \in Hosts /\ LinkOf(k) \in Links /\ NewMsg(k) \in Msg /\ NewReq(k) \in Req
      /\ k \notin made /\ made' = made \cup {k}
      /\ last_id' = [last_id EXCEPT ![h] = @ + 1]
      /\ net' = Sent(net, LinkOf(k), NewMsg(k))
      /\ \/ /\ up[LinkOf(k)]
            /\ req_list' = [req_list EXCEPT ![h] = @ \cup {NewReq(k)}]
            /\ delay_execute_fns' = delay_execute_fns
         \/ /\ ~ up[LinkOf(k)]
            /\ delay_execute_fns' = [delay_execute_fns EXCEPT ![h] = @ \cup {k}]
            /\ req_list' = req_list
      /\ UNCHANGED <<rsp_list, reached, answered, over, renewed>>
  BY <1>1, CallFacts
<1> HIDE DEF h
<1>3. last_id[h] \in Nat /\ last_id'[h] = last_id[h] + 1
  BY <1>1, <1>2 DEF TypeOK
<1>4. ASSUME NEW g \in Hosts, NEW req \in req_list'[g]
      PROVE  req \in req_list[g] \/ (g = h /\ req = NewReq(k) /\ up[LinkOf(k)])
  <2>1. req_list \in [Hosts -> SUBSET Req]
    BY <1>1 DEF TypeOK
  <2>2. CASE req_list' = [req_list EXCEPT ![h] = @ \cup {NewReq(k)}] /\ up[LinkOf(k)]
    BY <1>2, <2>1, <2>2
  <2>3. CASE req_list' = req_list
    BY <2>3
  <2>4. QED BY <1>2, <2>2, <2>3
<1>5. ASSUME NEW g \in Hosts, NEW d \in delay_execute_fns'[g]
      PROVE  d \in delay_execute_fns[g] \/ (g = h /\ d = k /\ ~ up[LinkOf(k)])
  <2>1. delay_execute_fns \in [Hosts -> SUBSET Calls]
    BY <1>1 DEF TypeOK
  <2>2. CASE delay_execute_fns' = [delay_execute_fns EXCEPT ![h] = @ \cup {k}] /\ ~ up[LinkOf(k)]
    BY <1>2, <2>1, <2>2
  <2>3. CASE delay_execute_fns' = delay_execute_fns
    BY <2>3
  <2>4. QED BY <1>2, <2>2, <2>3
<1>6. NewReq(k).id = last_id[h] + 1 /\ NewReq(k).call = k
      /\ NewMsg(k).id = last_id[h] + 1 /\ NewMsg(k).of = k /\ NewMsg(k).fn = "call"
      /\ LinkOf(k)[1] = h
  BY DEF NewReq, NewMsg, LinkOf, h
<1>7. \A g \in Hosts : last_id[g] \in Nat /\ last_id'[g] \in Nat /\ last_id[g] <= last_id'[g]
  BY <1>1, <1>2 DEF TypeOK
<1>8. \A g \in Hosts : k \notin delay_execute_fns[g] /\ \A req \in req_list[g] : req.call # k
  BY <1>2 DEF ContractInv, AllDelayed, DelayedOK, AllAwaited, AwaitedOK
<1>9. Grows
  <2>1. ASSUME NEW g \in Hosts, NEW new \in req_list'[g]
        PROVE  \/ new.id > last_id[g]
               \/ \E req \in req_list[g] : new.id = req.id /\ new.call = req.call
    BY <1>3, <1>4, <1>6
  <2>2. QED BY <1>2, <1>5, <1>7, <2>1 DEF Grows
<1>10. InTransitOK'
  <2>1. ASSUME NEW l \in Links, NEW m \in Elements(net'[l])
        PROVE  m \in Elements(net[l]) \/ (l = LinkOf(k) /\ m = NewMsg(k) /\ up[l])
    <3>1. net \in [Links -> Seq(Msg)]
      BY <1>1 DEF TypeOK, Msg
    <3>2. CASE up[LinkOf(k)]
      BY <1>1, <1>2, <3>1, <3>2, SentQueues
    <3>3. CASE ~ up[LinkOf(k)]
      BY <1>2, <3>3 DEF Sent
    <3>4. QED BY <3>2, <3>3
  <2>2. ASSUME NEW l \in Links, NEW m \in Elements(net'[l]),
               l = LinkOf(k), m = NewMsg(k), up[l]
        PROVE  MsgOK(l, m)'
    <3>1. m.of \in made' /\ \A g \in Hosts : m.of \notin delay_execute_fns'[g]
      BY <1>2, <1>5, <1>6, <1>8, <2>2
    <3>2. m.id <= last_id'[h]
      BY <1>3, <1>6, <2>2
    <3>3. \A req \in req_list'[h] : req.id = m.id => req.call = m.of
      <4>1. ASSUME NEW req \in req_list[h] PROVE req.id # last_id[h] + 1
        BY <1>2, <1>3, AwaitedFacts
      <4>2. QED BY <1>2, <1>4, <1>6, <2>2, <4>1
    <3>4. Fits(l[1], m.id, m.of)'
      BY <1>6, <2>2, <3>2, <3>3 DEF Fits
    <3>5. QED BY <1>6, <2>2, <3>1, <3>4 DEF MsgOK
  <2>3. QED BY <1>1, <1>9, <2>1, <2>2, InTransitKept
<1>11. AllOwed'
  BY <1>1, <1>2, <1>9, OwedKept
<1>12. AllAwaited'
  <2> SUFFICES ASSUME NEW g \in Hosts, NEW req \in req_list'[g] PROVE AwaitedOK(g, req)'
    BY DEF AllAwaited
  <2>1. CASE req \in req_list[g]
    <3>1. /\ CallerOf[req.call] = g /\ req.call \in made /\ over[req.call] = <<>>
          /\ req.id \in Nat /\ req.id <= last_id[g] /\ req.call \notin delay_execute_fns[g]
          /\ \A other \in req_list[g] : other.call = req.call => other = req
      BY <2>1, AwaitedFacts
    <3>2. req.id <= last_id'[g]
      BY <1>7, <3>1
    <3>3. req.call # k
      BY <1>2, <3>1
    <3>4. \A other \in req_list'[g] : other.call = req.call => other = req
      BY <1>4, <1>6, <3>1, <3>3
    <3>5. req.call \notin delay_execute_fns'[g]
      BY <1>5, <3>1, <3>3
    <3>6. QED BY <1>2, <3>1, <3>2, <3>4, <3>5 DEF AwaitedOK
  <2>2. CASE req \notin req_list[g]
    <3>1. g = h /\ req = NewReq(k) /\ up[LinkOf(k)]
      BY <1>4, <2>2
    <3>2. over'[k] = <<>> /\ k \in made'
      BY <1>2 DEF ContractInv, MadeFirst
    <3>3. k \notin delay_execute_fns'[g]
      BY <1>5, <1>8, <3>1
    <3>4. \A other \in req_list'[g] : other.call = k => other = req
      BY <1>4, <1>8, <3>1
    <3>5. last_id[h] + 1 <= last_id'[g]
      BY <1>3, <3>1
    <3>6. CallerOf[k] = g
      BY <3>1 DEF h
    <3>7. QED BY <1>6, <3>1, <3>2, <3>3, <3>4, <3>5, <3>6 DEF AwaitedOK
  <2>3. QED BY <2>1, <2>2
<1>13. AllDelayed'
  <2> SUFFICES ASSUME NEW g \in Hosts, NEW d \in delay_execute_fns'[g] PROVE DelayedOK(g, d)'
    BY DEF AllDelayed
  <2>1. CASE d \in delay_execute_fns[g]
    BY <1>2, <2>1 DEF ContractInv, AllDelayed, DelayedOK
  <2>2. CASE d \notin delay_execute_fns[g]
    <3>1. g = h /\ d = k
      BY <1>5, <2>2
    <3>2. CallerOf[k] = g
      BY <3>1 DEF h
    <3>3. QED BY <1>2, <3>1, <3>2 DEF ContractInv, MadeFirst, DelayedOK
  <2>3. QED BY <2>1, <2>2
<1>14. MadeFirst'
  BY <1>2 DEF ContractInv, MadeFirst
<1>15. QED BY <1>1, <1>10, <1>11, <1>12, <1>13, <1>14 DEF ContractInv

\* A step that makes no call keeps the invariant when what it sends and what
\* it comes to owe is right, and the calls still waited for have not run.
LEMMA StepContract ==
  ASSUME ContractInv, TimeInv', Grows, MadeFirst',
         \A l \in Links : \A m \in Elements(net'[l]) : m \in Elements(net[l]) \/ MsgOK(l, m)',
         \A h \in Hosts : \A rsp \in rsp_list'[h] : rsp \in rsp_list[h] \/ OwedOK(rsp)',
         \A h \in Hosts : \A new \in req_list'[h] :
            /\ last_id[h] <= last_id'[h]
            /\ \E req \in req_list[h] : /\ new.id = req.id /\ new.call = req.call
                                        /\ over'[req.call] = over[req.call]
            /\ \A other \in req_list'[h] : other.call = new.call => other = new,
         \A h \in Hosts : \A k \in delay_execute_fns'[h] :
            k \in delay_execute_fns[h] /\ k \notin reached' /\ over'[k] = over[k]
  PROVE  ContractInv'
<1>1. TypeOK /\ TypeOK'
  BY DEF ContractInv, TimeInv
<1>2. InTransitOK'
  BY <1>1, InTransitKept
<1>3. AllOwed'
  BY <1>1, OwedKept
<1>4. AllAwaited'
  <2> SUFFICES ASSUME NEW h \in Hosts, NEW new \in req_list'[h] PROVE AwaitedOK(h, new)'
    BY DEF AllAwaited
  <2>1. PICK req \in req_list[h] : /\ new.id = req.id /\ new.call = req.call
                                   /\ over'[req.call] = over[req.call]
    OBVIOUS
  <2>2. /\ req.id \in Nat /\ CallerOf[req.call] = h /\ req.call \in made
        /\ over[req.call] = <<>> /\ req.id <= last_id[h]
        /\ req.call \notin delay_execute_fns[h]
    BY AwaitedFacts
  <2>3. last_id[h] \in Nat /\ last_id'[h] \in Nat /\ last_id[h] <= last_id'[h]
    BY <1>1 DEF TypeOK
  <2>4. new.id <= last_id'[h]
    BY <2>1, <2>2, <2>3
  <2>5. new.call \in made' /\ new.call \notin delay_execute_fns'[h]
    BY <2>1, <2>2 DEF Grows
  <2>6. \A other \in req_list'[h] : other.call = new.call => other = new
    OBVIOUS
  <2>7. CallerOf[new.call] = h /\ over'[new.call] = <<>>
    BY <2>1, <2>2
  <2>8. QED BY <2>4, <2>5, <2>6, <2>7 DEF AwaitedOK
<1>5. AllDelayed'
  BY DEF ContractInv, AllDelayed, DelayedOK, Grows
<1>6. QED BY <1>2, <1>3, <1>4, <1>5 DEF ContractInv

LEMMA HandleRspMsgContract ==
  ASSUME ContractInv, NEW l \in Links, HandleRspMsg(l)
  PROVE  ContractInv'
<1> DEFINE h == l[2]
           msg == Head(net[l])
<1>1. TimeInv /\ TypeOK /\ TimeInv' /\ TypeOK'
  BY HandleRspMsgTime DEF ContractInv, TimeInv
<1>2. /\ h \in Hosts /\ net' = Received(l) /\ net[l] # <<>>
      /\ UNCHANGED <<last_id, rsp_list, delay_execute_fns, made, reached, answered, renewed>>
  BY LinkFacts DEF HandleRspMsg
<1>3. \A k \in Links : \A m \in Elements(net'[k]) : m \in Elements(net[k])
  BY <1>1, <1>2, ReceivedQueues
<1>4. req_list \in [Hosts -> SUBSET Req] /\ over \in [Calls -> Seq(Contract!Outcomes)]
      /\ last_id \in [Hosts -> Nat]
  BY <1>1 DEF TypeOK
<1>5. /\ \A g \in Hosts : \A new \in req_list'[g] :
            /\ \E req \in req_list[g] : /\ new.id = req.id /\ new.call = req.call
                                        /\ over'[req.call] = over[req.call]
            /\ \A other \in req_list'[g] : other.call = new.call => other = new
      /\ \A g \in Hosts : \A k \in delay_execute_fns[g] : over'[k] = over[k]
      /\ \A k \in Calls : over'[k] # <<>> => k \in made
  <2>1. CASE UNCHANGED <<req_list, over>>
    BY <2>1, AwaitedFacts DEF ContractInv, MadeFirst
  <2>2. ASSUME NEW req \in req_list[h],
               req_list' = [req_list EXCEPT ![h] = (@ \ {req}) \cup
                              {[req EXCEPT !.left = @ + Default_Expire]}],
               UNCHANGED over
        PROVE  <1>5
    <3> DEFINE late == [req EXCEPT !.left = @ + Default_Expire]
    <3>1. late.id = req.id /\ late.call = req.call
      BY <1>2, AwaitedFacts DEF Req
    <3>2. req_list'[h] = (req_list[h] \ {req}) \cup {late}
          /\ \A g \in Hosts : g # h => req_list'[g] = req_list[g]
      BY <1>2, <1>4, <2>2
    <3> HIDE DEF late, h
    <3>3. ASSUME NEW g \in Hosts, NEW new \in req_list'[g]
          PROVE  /\ \E old \in req_list[g] : new.id = old.id /\ new.call = old.call
                 /\ \A other \in req_list'[g] : other.call = new.call => other = new
      <4>1. CASE g # h
        BY <3>2, <4>1, AwaitedFacts
      <4>2. CASE g = h
        BY <1>2, <3>1, <3>2, <4>2, AwaitedFacts
      <4>3. QED BY <4>1, <4>2
    <3>4. QED BY <2>2, <3>3 DEF ContractInv, MadeFirst
  <2>3. ASSUME NEW req \in req_list[h],
               req_list' = [req_list EXCEPT ![h] = @ \ {req}],
               over' = [over EXCEPT ![req.call] = Append(@, <<msg.fn, msg.of>>)]
        PROVE  <1>5
    <3>1. req.call \in Calls /\ req.call \in made
          /\ \A g \in Hosts : /\ req.call \notin delay_execute_fns[g]
                              /\ \A other \in req_list[g] : other.call = req.call => other = req
      BY <1>2, AwaitedFacts
    <3>2. \A k : k # req.call => over'[k] = over[k]
      BY <1>4, <2>3
    <3>3. req_list'[h] = req_list[h] \ {req}
          /\ \A g \in Hosts : g # h => req_list'[g] = req_list[g]
      BY <1>2, <1>4, <2>3
    <3>4. ASSUME NEW g \in Hosts, NEW new \in req_list'[g]
          PROVE  /\ new \in req_list[g] /\ over'[new.call] = over[new.call]
                 /\ \A other \in req_list'[g] : other.call = new.call => other = new
      <4>1. new \in req_list[g] /\ req_list'[g] \subseteq req_list[g]
        BY <3>3
      <4>2. \A other \in req_list'[g] : other.call = new.call => other = new
        BY <4>1, AwaitedFacts
      <4>3. new # req
        <5>1. CASE g = h
          BY <3>3, <5>1
        <5>2. CASE g # h
          BY <1>2, <4>1, <5>2, AwaitedFacts
        <5>3. QED BY <5>1, <5>2
      <4>4. new.call # req.call
        BY <3>1, <4>1, <4>3
      <4>5. QED BY <3>2, <4>1, <4>2, <4>4
    <3>5. \A g \in Hosts : \A k \in delay_execute_fns[g] : over'[k] = over[k]
      BY <3>1, <3>2
    <3>6. \A k \in Calls : over'[k] # <<>> => k \in made
      BY <3>1, <3>2 DEF ContractInv, MadeFirst
    <3>7. QED BY <3>4, <3>5, <3>6
  <2>4. QED BY <2>1, <2>2, <2>3 DEF HandleRspMsg
<1>6. Grows
  <2>1. \A g \in Hosts : last_id[g] <= last_id'[g]
    BY <1>2, <1>4
  <2>2. \A g \in Hosts : \A new \in req_list'[g] :
          \E req \in req_list[g] : new.id = req.id /\ new.call = req.call
    BY <1>5
  <2>3. QED BY <1>2, <2>1, <2>2 DEF Grows
<1>7. MadeFirst'
  BY <1>2, <1>5 DEF ContractInv, MadeFirst
<1>8. \A g \in Hosts : last_id[g] <= last_id'[g]
  BY <1>2, <1>4
<1>9. \A g \in Hosts : \A k \in delay_execute_fns[g] : k \notin reached'
  BY <1>2 DEF ContractInv, AllDelayed, DelayedOK
<1>10. QED BY <1>1, <1>2, <1>3, <1>5, <1>6, <1>7, <1>8, <1>9, StepContract

\* An answer to rsp, which service h is right to owe.
LEMMA ResponeContract ==
  ASSUME ContractInv, TimeInv', Grows, NEW h \in Hosts, NEW rsp \in Rsp, rsp.from # h,
         NEW action \in Actions, OwedOK(rsp)',
         NEW queues \in [Links -> Seq(Msg)], NEW list \in [Hosts -> SUBSET Rsp],
         \A l \in Links : Elements(queues[l]) \subseteq Elements(net[l]),
         \A g \in Hosts : \A other \in list[g] : other \in rsp_list[g] \/ other = rsp,
         Respone(h, rsp, action, queues, list),
         \A g \in Hosts : \A k \in delay_execute_fns[g] : k \notin reached',
         UNCHANGED <<req_list, made, over, renewed>>, reached \subseteq reached',
         reached' \subseteq made, \A g \in Hosts : last_id[g] <= last_id'[g]
  PROVE  ContractInv'
<1> DEFINE to == <<h, rsp.from>>
           msg == [fn |-> action, id |-> rsp.from_id, of |-> rsp.call]
<1>1. TypeOK /\ TypeOK'
  BY DEF ContractInv, TimeInv
<1>2. rsp.from \in Hosts /\ rsp.from_id \in Nat /\ rsp.call \in Calls
  BY DEF Rsp
<1>3. to \in Links /\ msg \in Msg /\ net' = Sent(queues, to, msg)
  BY <1>2, LinkFacts DEF Msg, Answer, Respone
<1>4. msg.of = rsp.call /\ msg.id = rsp.from_id /\ msg.fn = action /\ to[2] = rsp.from
  OBVIOUS
<1>5. action # "call" /\ (action # "postpone" => rsp.call \in answered')
  BY DEF Actions, Respone
<1>6. MsgOK(to, msg)'
  <2>1. Fits(rsp.from, rsp.from_id, rsp.call)'
    BY DEF OwedOK
  <2> HIDE DEF to, msg
  <2>2. QED BY <1>4, <1>5, <2>1 DEF MsgOK
<1> HIDE DEF to, msg
<1>7. \A l \in Links : \A m \in Elements(net'[l]) : m \in Elements(net[l]) \/ MsgOK(l, m)'
  <2> SUFFICES ASSUME NEW l \in Links, NEW m \in Elements(net'[l])
               PROVE  m \in Elements(net[l]) \/ (l = to /\ m = msg)
    BY <1>6
  <2>1. Elements(net'[l]) \subseteq Elements(queues[l]) \cup (IF l = to THEN {msg} ELSE {})
    BY <1>1, <1>3, SentQueues
  <2>2. QED BY <2>1
<1>8. \A g \in Hosts : \A other \in rsp_list'[g] : other \in rsp_list[g] \/ OwedOK(other)'
  <2>1. \A g \in Hosts : rsp_list'[g] \subseteq list[g]
    BY DEF Respone
  <2>2. QED BY <2>1
<1>9. \A g \in Hosts : delay_execute_fns'[g] \subseteq delay_execute_fns[g]
  BY <1>1 DEF Respone, TypeOK
<1>10. \A g \in Hosts : \A new \in req_list'[g] :
          /\ last_id[g] <= last_id'[g]
          /\ \E req \in req_list[g] : /\ new.id = req.id /\ new.call = req.call
                                      /\ over'[req.call] = over[req.call]
          /\ \A other \in req_list'[g] : other.call = new.call => other = new
  BY AwaitedFacts
<1>11. MadeFirst'
  BY DEF ContractInv, MadeFirst
<1>12. \A g \in Hosts : \A k \in delay_execute_fns'[g] :
          k \in delay_execute_fns[g] /\ k \notin reached' /\ over'[k] = over[k]
  BY <1>9
<1>13. QED BY <1>7, <1>8, <1>10, <1>11, <1>12, StepContract

\* A step of a service that only counts ids, answers and forgets.
LEMMA CalleeGrows ==
  ASSUME ContractInv, UNCHANGED <<req_list, made, renewed>>,
         reached \subseteq reached', answered \subseteq answered',
         \A g \in Hosts : last_id[g] <= last_id'[g],
         \A g \in Hosts : delay_execute_fns'[g] \subseteq delay_execute_fns[g]
  PROVE  Grows
BY DEF Grows

LEMMA HandleReqMsgContract ==
  ASSUME ContractInv, NEW l \in Links, HandleReqMsg(l)
  PROVE  ContractInv'
<1> DEFINE h == l[2]
<1>1. TimeInv /\ TypeOK /\ TimeInv' /\ TypeOK'
  BY HandleReqMsgTime DEF ContractInv, TimeInv
<1>2. /\ h \in Hosts /\ l[1] \in Hosts /\ l[1] # h /\ net[l] # <<>>
      /\ last_id' = [last_id EXCEPT ![h] = @ + 1]
      /\ UNCHANGED <<req_list, made, over, renewed>>
  BY LinkFacts DEF HandleReqMsg
<1>3. PICK msg \in Msg :
        /\ msg = Head(net[l]) /\ msg \in Elements(net[l])
        /\ Received(l) \in [Links -> Seq(Msg)]
        /\ \A k \in Links : Elements(Received(l)[k]) \subseteq Elements(net[k])
  BY <1>1, <1>2, ReceivedQueues
<1>4. PICK id \in Nat : id = last_id[h] + 1
  BY <1>1, <1>2 DEF TypeOK
<1>5. /\ msg.of \in Calls /\ msg.id \in Nat /\ MsgOK(l, msg)
      /\ msg.fn = "call" /\ reached' = reached \cup {msg.of}
  BY <1>3 DEF Msg, Request, Answer, ContractInv, InTransitOK, HandleReqMsg
<1>6. /\ msg.of \in made /\ \A g \in Hosts : msg.of \notin delay_execute_fns[g]
      /\ Fits(l[1], msg.id, msg.of)
  BY <1>5 DEF MsgOK
<1>7. PICK rsp \in Rsp :
        /\ rsp = [id |-> id, from |-> l[1], from_id |-> msg.id, call |-> msg.of]
        /\ rsp.from = l[1] /\ rsp.from_id = msg.id /\ rsp.call = msg.of
  <2>1. [id |-> id, from |-> l[1], from_id |-> msg.id, call |-> msg.of] \in Rsp
    BY <1>2, <1>5 DEF Rsp
  <2>2. QED BY <2>1
<1> DEFINE list == [rsp_list EXCEPT ![h] = @ \cup {rsp}]
<1>8. \/ net' = Received(l) /\ rsp_list' = list /\ UNCHANGED <<delay_execute_fns, answered>>
      \/ Respone(h, rsp, "error", Received(l), list)
  BY <1>3, <1>4, <1>7 DEF HandleReqMsg, NextRpcUniqueId
<1>9. list \in [Hosts -> SUBSET Rsp] /\ rsp_list \in [Hosts -> SUBSET Rsp]
  BY <1>1 DEF TypeOK
<1>10. \A g \in Hosts : \A other \in list[g] : other \in rsp_list[g] \/ other = rsp
  BY <1>2, <1>9
<1> HIDE DEF h, list
<1>11. \A g \in Hosts : last_id[g] <= last_id'[g]
  BY <1>1, <1>2 DEF TypeOK
<1>12. reached \subseteq reached' /\ reached' \subseteq made
  BY <1>5, <1>6 DEF ContractInv, MadeFirst
<1>13. \A g \in Hosts : \A k \in delay_execute_fns[g] : k \notin reached'
  BY <1>5, <1>6 DEF ContractInv, AllDelayed, DelayedOK
<1>14. ASSUME Grows PROVE OwedOK(rsp)'
  <2>1. Fits(l[1], msg.id, msg.of)'
    BY <1>1, <1>2, <1>5, <1>6, <1>14, FitsKept
  <2>2. QED BY <1>5, <1>7, <2>1 DEF OwedOK
<1>15. CASE Respone(h, rsp, "error", Received(l), list)
  <2>1. answered \subseteq answered'
        /\ \A g \in Hosts : delay_execute_fns'[g] \subseteq delay_execute_fns[g]
    BY <1>1, <1>15 DEF Respone, TypeOK
  <2>2. Grows
    BY <1>2, <1>11, <1>12, <2>1, CalleeGrows
  <2>3. "error" \in Actions
    BY DEF Actions
  <2>4. QED BY <1>1, <1>2, <1>3, <1>7, <1>9, <1>10, <1>11, <1>12, <1>13, <1>14, <1>15,
               <2>2, <2>3, ResponeContract
<1>16. CASE /\ net' = Received(l) /\ rsp_list' = list
            /\ UNCHANGED <<delay_execute_fns, answered>>
  <2>1. Grows
    BY <1>2, <1>11, <1>12, <1>16, CalleeGrows
  <2>2. MadeFirst'
    BY <1>2, <1>12 DEF ContractInv, MadeFirst
  <2>3. \A k \in Links : \A m \in Elements(net'[k]) : m \in Elements(net[k])
    BY <1>3, <1>16
  <2>4. \A g \in Hosts : \A other \in rsp_list'[g] : other \in rsp_list[g] \/ OwedOK(other)'
    BY <1>10, <1>14, <1>16, <2>1
  <2>5. \A g \in Hosts : \A new \in req_list'[g] :
          /\ \E req \in req_list[g] : /\ new.id = req.id /\ new.call = req.call
                                      /\ over'[req.call] = over[req.call]
          /\ \A other \in req_list'[g] : other.call = new.call => other = new
    BY <1>2, AwaitedFacts
  <2>6. \A g \in Hosts : \A k \in delay_execute_fns'[g] :
          k \in delay_execute_fns[g] /\ k \notin reached' /\ over'[k] = over[k]
    BY <1>2, <1>13, <1>16
  <2>7. QED BY <1>1, <1>11, <2>1, <2>2, <2>3, <2>4, <2>5, <2>6, StepContract
<1>17. QED BY <1>15, <1>16, <1>8

LEMMA RespondContract ==
  ASSUME ContractInv, NEW h \in Hosts, Respond(h)
  PROVE  ContractInv'
<1>1. PICK rsp \in rsp_list[h], action \in Actions : Respone(h, rsp, action, net, rsp_list)
  BY DEF Respond
<1>2. UNCHANGED <<last_id, req_list, since, up, faults, made, reached, over, renewed,
                  failed, lapsed>>
  BY DEF Respond
<1>3. TimeInv /\ TypeOK /\ TimeInv' /\ TypeOK'
  BY RespondTime DEF ContractInv, TimeInv
<1>4. /\ rsp \in Rsp /\ rsp.from # h /\ rsp.from \in Hosts /\ rsp.from_id \in Nat
      /\ net \in [Links -> Seq(Msg)] /\ rsp_list \in [Hosts -> SUBSET Rsp]
  BY <1>3 DEF TimeInv, FromOthers, TypeOK, Rsp, Msg
<1>5. answered \subseteq answered'
      /\ \A g \in Hosts : delay_execute_fns'[g] \subseteq delay_execute_fns[g]
  BY <1>1, <1>3 DEF Respone, TypeOK
<1>6. \A g \in Hosts : last_id[g] <= last_id'[g]
  BY <1>2, <1>3 DEF TypeOK
<1>7. Grows
  BY <1>2, <1>5, <1>6, CalleeGrows
<1>8. OwedOK(rsp)'
  <2>1. OwedOK(rsp)
    BY DEF ContractInv, AllOwed
  <2>2. Fits(rsp.from, rsp.from_id, rsp.call)'
    BY <1>3, <1>4, <1>7, <2>1, FitsKept DEF OwedOK
  <2>3. QED BY <1>2, <2>1, <2>2 DEF OwedOK
<1>9. reached' \subseteq made /\ \A g \in Hosts : \A k \in delay_execute_fns[g] : k \notin reached'
  BY <1>2 DEF ContractInv, MadeFirst, AllDelayed, DelayedOK
<1>10. QED BY <1>1, <1>2, <1>3, <1>4, <1>6, <1>7, <1>8, <1>9, ResponeContract

\* A frame in which the callbacks of some awaited calls and of some failed
\* ones run.
LEMMA FrameContract ==
  ASSUME ContractInv, TimeInv', NEW h \in Hosts, NEW given_up \in SUBSET req_list[h],
         NEW undone \in SUBSET delay_execute_fns[h],
         req_list' = [req_list EXCEPT ![h] = @ \ given_up],
         delay_execute_fns' = [delay_execute_fns EXCEPT ![h] = @ \ undone],
         over' = CalledBack(CallsOf(given_up), undone),
         UNCHANGED <<last_id, rsp_list, net, made, reached, answered, renewed>>
  PROVE  ContractInv'
<1>1. TypeOK /\ TypeOK' /\ last_id \in [Hosts -> Nat]
  BY DEF ContractInv, TimeInv, TypeOK
<1>2. req_list \in [Hosts -> SUBSET Req] /\ delay_execute_fns \in [Hosts -> SUBSET Calls]
  BY <1>1 DEF TypeOK
<1>3. /\ req_list'[h] = req_list[h] \ given_up
      /\ delay_execute_fns'[h] = delay_execute_fns[h] \ undone
      /\ \A g \in Hosts : g # h => /\ req_list'[g] = req_list[g]
                                   /\ delay_execute_fns'[g] = delay_execute_fns[g]
  BY <1>2
<1>4. \A k \in Calls : k \notin CallsOf(given_up) /\ k \notin undone => over'[k] = over[k]
  BY DEF CalledBack
<1>5. \A k \in CallsOf(given_up) : \E req \in req_list[h] : req \in given_up /\ req.call = k
  BY DEF CallsOf
<1>6. ASSUME NEW g \in Hosts, NEW new \in req_list'[g]
      PROVE  /\ new \in req_list[g] /\ over'[new.call] = over[new.call]
             /\ \A other \in req_list'[g] : other.call = new.call => other = new
  <2>1. new \in req_list[g] /\ req_list'[g] \subseteq req_list[g]
    BY <1>3
  <2>2. /\ new.call \in Calls /\ \A i \in Hosts : new.call \notin delay_execute_fns[i]
        /\ \A i \in Hosts : \A other \in req_list[i] : other.call = new.call => other = new
        /\ CallerOf[new.call] = g
    BY <2>1, AwaitedFacts
  <2>3. new.call \notin undone
    BY <2>2
  <2>4. new.call \notin CallsOf(given_up)
    <3> SUFFICES ASSUME new.call \in CallsOf(given_up) PROVE FALSE
      OBVIOUS
    <3>1. PICK req \in req_list[h] : req \in given_up /\ req.call = new.call
      BY <1>5
    <3>2. req = new /\ CallerOf[req.call] = h
      BY <2>2, <3>1, AwaitedFacts
    <3>3. QED BY <1>3, <2>2, <3>1, <3>2
  <2>5. QED BY <1>4, <2>1, <2>2, <2>3, <2>4
<1>7. ASSUME NEW g \in Hosts, NEW k \in delay_execute_fns'[g]
      PROVE  k \in delay_execute_fns[g] /\ k \notin reached' /\ over'[k] = over[k]
  <2>1. k \in delay_execute_fns[g] /\ k \in Calls
    BY <1>2, <1>3
  <2>2. DelayedOK(g, k)
    BY <2>1 DEF ContractInv, AllDelayed
  <2>3. k \notin undone
    <3>1. CASE g = h
      BY <1>3, <3>1
    <3>2. CASE g # h
      <4>1. \A d \in undone : CallerOf[d] = h
        BY DEF ContractInv, AllDelayed, DelayedOK
      <4>2. QED BY <2>2, <3>2, <4>1 DEF DelayedOK
    <3>3. QED BY <3>1, <3>2
  <2>4. k \notin CallsOf(given_up)
    BY <1>5, <2>1, AwaitedFacts
  <2>5. QED BY <1>4, <2>1, <2>2, <2>3, <2>4 DEF DelayedOK
<1>8. \A k \in Calls : over'[k] # <<>> => k \in made
  <2>1. \A k \in CallsOf(given_up) : k \in made
    BY <1>5, AwaitedFacts
  <2>2. \A k \in undone : k \in made
    BY DEF ContractInv, AllDelayed, DelayedOK
  <2>3. QED BY <1>4, <2>1, <2>2 DEF ContractInv, MadeFirst
<1>9. MadeFirst'
  BY <1>8 DEF ContractInv, MadeFirst
<1>10. \A g \in Hosts : last_id[g] <= last_id'[g]
  BY <1>1
<1>11. Grows
  BY <1>3, <1>6, <1>10 DEF Grows
<1>12. QED BY <1>6, <1>7, <1>9, <1>10, <1>11, StepContract

LEMMA OnFrameContract ==
  ASSUME ContractInv, NEW h \in Hosts, OnFrame(h)
  PROVE  ContractInv'
<1>1. TimeInv' /\ delay_execute_fns \in [Hosts -> SUBSET Calls]
  BY OnFrameTime DEF ContractInv, TimeInv, TypeOK
<1>2. GivenUp(h) \in SUBSET req_list[h]
  BY DEF GivenUp
<1>3. /\ req_list' = [req_list EXCEPT ![h] = @ \ GivenUp(h)]
      /\ over' = CalledBack(CallsOf(GivenUp(h)), delay_execute_fns[h])
      /\ UNCHANGED <<last_id, rsp_list, net, made, reached, answered, renewed>>
  BY DEF OnFrame
<1>4. delay_execute_fns' = [delay_execute_fns EXCEPT ![h] = @ \ delay_execute_fns[h]]
  BY <1>1 DEF OnFrame
<1>5. QED BY <1>1, <1>2, <1>3, <1>4, FrameContract

LEMMA OnFrameDiesContract ==
  ASSUME ContractInv, NEW h \in Hosts, OnFrameDies(h)
  PROVE  ContractInv'
<1>1. TimeInv' /\ delay_execute_fns \in [Hosts -> SUBSET Calls]
  BY OnFrameDiesTime DEF ContractInv, TimeInv, TypeOK
<1>2. PICK given_up \in SUBSET GivenUp(h) :
         /\ req_list' = [req_list EXCEPT ![h] = @ \ given_up]
         /\ over' = CalledBack(CallsOf(given_up), {})
  BY DEF OnFrameDies
<1>3. given_up \in SUBSET req_list[h] /\ {} \in SUBSET delay_execute_fns[h]
  BY DEF GivenUp
<1>4. UNCHANGED <<last_id, rsp_list, net, made, reached, answered, renewed>>
  BY DEF OnFrameDies
<1>5. delay_execute_fns' = [delay_execute_fns EXCEPT ![h] = @ \ {}]
  BY <1>1 DEF OnFrameDies
<1>6. QED BY <1>1, <1>2, <1>3, <1>4, <1>5, FrameContract

LEMMA PassesContract ==
  ASSUME ContractInv, TimeInv', Passes
  PROVE  ContractInv'
<1>1. TypeOK /\ last_id \in [Hosts -> Nat]
  BY DEF ContractInv, TimeInv, TypeOK
<1>2. UNCHANGED <<last_id, rsp_list, delay_execute_fns, net, made, reached, answered, over, renewed>>
  BY DEF Passes
<1>3. ASSUME NEW h \in Hosts, NEW new \in req_list'[h]
      PROVE  \E req \in req_list[h] : /\ new.id = req.id /\ new.call = req.call
                                      /\ new = [req EXCEPT !.left = IF @ = 0 THEN 0 ELSE @ - 1]
  <2>1. PICK req \in req_list[h] : new = [req EXCEPT !.left = IF @ = 0 THEN 0 ELSE @ - 1]
    BY DEF Passes
  <2>2. req \in Req
    BY AwaitedFacts
  <2>3. QED BY <2>1, <2>2 DEF Req
<1>4. ASSUME NEW h \in Hosts, NEW new \in req_list'[h], NEW other \in req_list'[h],
             other.call = new.call
      PROVE  other = new
  <2>1. PICK req \in req_list[h] : /\ new.call = req.call
                                   /\ new = [req EXCEPT !.left = IF @ = 0 THEN 0 ELSE @ - 1]
    BY <1>3
  <2>2. PICK old \in req_list[h] : /\ other.call = old.call
                                   /\ other = [old EXCEPT !.left = IF @ = 0 THEN 0 ELSE @ - 1]
    BY <1>3
  <2>3. req = old
    BY <1>4, <2>1, <2>2, AwaitedFacts
  <2>4. QED BY <2>1, <2>2, <2>3
<1>5. \A h \in Hosts : last_id[h] <= last_id'[h]
  BY <1>1, <1>2
<1>6. Grows
  BY <1>2, <1>3, <1>5 DEF Grows
<1>7. MadeFirst'
  BY <1>2 DEF ContractInv, MadeFirst
<1>8. \A h \in Hosts : \A k \in delay_execute_fns'[h] :
         k \in delay_execute_fns[h] /\ k \notin reached' /\ over'[k] = over[k]
  BY <1>2 DEF ContractInv, AllDelayed, DelayedOK
<1>9. QED BY <1>2, <1>3, <1>4, <1>5, <1>6, <1>7, <1>8, StepContract

LEMMA LinksContract ==
  ASSUME ContractInv, NEW l \in Links, Connect(l) \/ Break(l)
  PROVE  ContractInv'
<1>1. TypeOK /\ last_id \in [Hosts -> Nat] /\ net \in [Links -> Seq(Msg)] /\ TimeInv'
  BY LinksTime DEF ContractInv, TimeInv, TypeOK, Msg
<1>2. UNCHANGED <<last_id, req_list, rsp_list, delay_execute_fns, made, reached, answered,
                  over, renewed>>
  BY DEF Connect, Break
<1>3. \A k \in Links : \A m \in Elements(net'[k]) : m \in Elements(net[k])
  BY <1>1, NothingInTransit DEF Connect, Break
<1>4. \A h \in Hosts : \A new \in req_list'[h] :
         /\ \E req \in req_list[h] : /\ new.id = req.id /\ new.call = req.call
                                     /\ over'[req.call] = over[req.call]
         /\ \A other \in req_list'[h] : other.call = new.call => other = new
  BY <1>2, AwaitedFacts
<1>5. \A h \in Hosts : last_id[h] <= last_id'[h]
  BY <1>1, <1>2
<1>6. Grows
  BY <1>2, <1>5 DEF Grows
<1>7. MadeFirst'
  BY <1>2 DEF ContractInv, MadeFirst
<1>8. \A h \in Hosts : \A k \in delay_execute_fns'[h] :
         k \in delay_execute_fns[h] /\ k \notin reached' /\ over'[k] = over[k]
  BY <1>2 DEF ContractInv, AllDelayed, DelayedOK
<1>9. QED BY <1>1, <1>2, <1>3, <1>4, <1>5, <1>6, <1>7, <1>8, StepContract

LEMMA RestartContract ==
  ASSUME ContractInv, NEW h \in Hosts, Restart(h)
  PROVE  ContractInv'
<1>1. TypeOK /\ last_id \in [Hosts -> Nat] /\ TimeInv'
  BY RestartTime DEF ContractInv, TimeInv, TypeOK
<1>2. /\ renewed' = renewed \cup {h}
      /\ UNCHANGED <<made, reached, answered, over>>
  BY DEF Restart
<1>3. /\ req_list'[h] = {} /\ rsp_list'[h] = {} /\ delay_execute_fns'[h] = {}
      /\ \A g \in Hosts : g # h => /\ req_list'[g] = req_list[g] /\ rsp_list'[g] = rsp_list[g]
                                   /\ delay_execute_fns'[g] = delay_execute_fns[g]
                                   /\ last_id'[g] = last_id[g]
  BY <1>1 DEF Restart, TypeOK
<1>4. \A k \in Links : \A m \in Elements(net'[k]) : m \in Elements(net[k])
  BY <1>1, NothingInTransit DEF Restart
<1>5. \A g \in Hosts : \A new \in req_list'[g] :
         /\ g # h /\ new \in req_list[g]
         /\ \E req \in req_list[g] : /\ new.id = req.id /\ new.call = req.call
                                     /\ over'[req.call] = over[req.call]
         /\ \A other \in req_list'[g] : other.call = new.call => other = new
  BY <1>2, <1>3, AwaitedFacts
<1>6. \A g \in Hosts : g # h => last_id[g] <= last_id'[g]
  BY <1>1, <1>3
<1>7. Grows
  BY <1>2, <1>3, <1>5, <1>6 DEF Grows
<1>8. MadeFirst'
  BY <1>2 DEF ContractInv, MadeFirst
<1>9. \A g \in Hosts : \A k \in delay_execute_fns'[g] :
         k \in delay_execute_fns[g] /\ k \notin reached' /\ over'[k] = over[k]
  BY <1>2, <1>3 DEF ContractInv, AllDelayed, DelayedOK
<1>10. \A g \in Hosts : \A rsp \in rsp_list'[g] : rsp \in rsp_list[g]
  BY <1>3
<1>11. QED BY <1>1, <1>4, <1>5, <1>6, <1>7, <1>8, <1>9, <1>10, StepContract

LEMMA ContractInvariant == Spec => []ContractInv
<1>1. Init => ContractInv
  <2> SUFFICES ASSUME Init PROVE ContractInv
    OBVIOUS
  <2>1. TimeInv
    BY TypeInit DEF TimeInv, FromOthers, Timely, Init
  <2>2. InTransitOK
    BY NothingInTransit DEF InTransitOK, Init
  <2>3. AllOwed /\ AllAwaited /\ AllDelayed /\ MadeFirst
    BY DEF AllOwed, AllAwaited, AllDelayed, MadeFirst, Init
  <2>4. QED BY <2>1, <2>2, <2>3 DEF ContractInv
<1>2. ContractInv /\ [Next]_vars => ContractInv'
  <2> SUFFICES ASSUME ContractInv, [Next]_vars PROVE ContractInv'
    OBVIOUS
  <2>1. CASE UNCHANGED vars
    BY <2>1 DEF vars, ContractInv, TimeInv, TypeOK, FromOthers, Timely, InTransitOK, MsgOK,
       Fits, AllOwed, OwedOK, AllAwaited, AwaitedOK, AllDelayed, DelayedOK, MadeFirst
  <2>2. CASE Tick \/ LateTick
    BY <2>2, TickTime, PassesContract DEF Tick, LateTick, ContractInv
  <2>3. CASE Next
    BY <2>2, <2>3, CallContract, HandleRspMsgContract, HandleReqMsgContract, RespondContract,
       OnFrameContract, OnFrameDiesContract, LinksContract, RestartContract DEF Next
  <2>4. QED BY <2>1, <2>3
<1>3. QED BY <1>1, <1>2, PTL DEF Spec

-----------------------------------------------------------------------------
(* The managers implement the contract. *)

SameContract == UNCHANGED <<made, reached, answered, over, renewed>>

LEMMA CallMakes ==
  ASSUME ContractInv, NEW k \in Calls, Call(k)
  PROVE  Contract!Make
BY CallFacts DEF ContractInv, TimeInv, Contract!Make

\* The answer that a callback is run with was given to its own call, unless
\* the caller was restarted.
LEMMA HandleRspMsgReturns ==
  ASSUME ContractInv, NEW l \in Links, HandleRspMsg(l)
  PROVE  Contract!Return \/ SameContract
<1> DEFINE h == l[2]
           msg == Head(net[l])
           reqs == {req \in req_list[h] : req.id = msg.id}
<1>1. TypeOK /\ over \in [Calls -> Seq(Contract!Outcomes)] /\ h \in Hosts
  BY LinkFacts DEF ContractInv, TimeInv, TypeOK
<1>2. /\ net[l] # <<>> /\ msg.fn \in Actions /\ UNCHANGED <<made, reached, answered, renewed>>
  BY DEF HandleRspMsg
<1>3. msg \in Msg /\ msg \in Elements(net[l])
  BY <1>1, <1>2, ReceivedQueues
<1>4. msg.of \in Calls /\ MsgOK(l, msg)
  BY <1>3 DEF Msg, Request, Answer, ContractInv, InTransitOK
<1>5. CASE over' = over
  BY <1>2, <1>5 DEF SameContract
<1>6. ASSUME NEW req \in reqs, Settles(msg.fn),
             over' = [over EXCEPT ![req.call] = Append(@, <<msg.fn, msg.of>>)]
      PROVE  Contract!Return
  <2> DEFINE o == <<msg.fn, msg.of>>
  <2>1. msg.fn \in {"result", "error"} /\ msg.fn # "call" /\ msg.fn # "postpone"
    BY <1>2, <1>6 DEF Actions, Settles
  <2>2. msg.of \in answered /\ Fits(h, msg.id, msg.of)
    BY <1>4, <2>1 DEF MsgOK
  <2>3. /\ req.call \in Calls /\ CallerOf[req.call] = h /\ req.call \in made
        /\ over[req.call] = <<>> /\ req.id = msg.id
    BY <1>1, <1>6, AwaitedFacts
  <2>4. msg.of = req.call \/ CallerOf[req.call] \in renewed
    BY <1>6, <2>2, <2>3 DEF Fits
  <2>5. o \in Contract!Outcomes /\ o \in Contract!Ends("result") \cup Contract!Ends("error")
    BY <1>4, <2>1 DEF Contract!Outcomes, Contract!Ends
  <2>6. Contract!MayEnd(req.call, o)
    BY <2>2, <2>4, <2>5 DEF Contract!MayEnd
  <2>7. over' = [over EXCEPT ![req.call] = <<o>>]
    <3>1. Append(over[req.call], o) = <<o>>
      BY <2>3
    <3>2. QED BY <1>6, <3>1
  <2> HIDE DEF o
  <2>8. DOMAIN over' = Calls /\ \A k \in Calls : over'[k] = IF k = req.call THEN <<o>> ELSE over[k]
    BY <1>1, <2>7
  <2>9. QED BY <1>2, <2>3, <2>5, <2>6, <2>8 DEF Contract!Return
<1>7. QED BY <1>5, <1>6 DEF HandleRspMsg

LEMMA HandleReqMsgReaches ==
  ASSUME ContractInv, NEW l \in Links, HandleReqMsg(l)
  PROVE  Contract!Reach \/ Contract!Answer \/ SameContract
<1>1. TypeOK /\ net[l] # <<>> /\ Head(net[l]).fn = "call"
  BY DEF ContractInv, TimeInv, HandleReqMsg
<1>2. PICK k \in made : /\ k = Head(net[l]).of
                        /\ reached' = reached \cup {k}
                        /\ answered' = answered \/ answered' = answered \cup {k}
  <2>1. Head(net[l]) \in Elements(net[l])
    BY <1>1, ReceivedQueues
  <2>2. Head(net[l]).of \in made
    BY <1>1, <2>1 DEF ContractInv, InTransitOK, MsgOK
  <2>3. QED BY <2>2 DEF HandleReqMsg, Respone
<1>3. UNCHANGED <<made, over, renewed>>
  BY DEF HandleReqMsg
<1>4. CASE k \notin reached
  BY <1>2, <1>3, <1>4 DEF Contract!Reach
<1>5. CASE k \in reached
  BY <1>2, <1>3, <1>5 DEF Contract!Answer, SameContract
<1>6. QED BY <1>4, <1>5

LEMMA RespondAnswers ==
  ASSUME ContractInv, NEW h \in Hosts, Respond(h)
  PROVE  Contract!Answer \/ SameContract
<1>1. PICK rsp \in rsp_list[h] : answered' = answered \/ answered' = answered \cup {rsp.call}
  BY DEF Respond, Respone
<1>2. rsp.call \in reached
  BY DEF ContractInv, AllOwed, OwedOK
<1>3. UNCHANGED <<made, reached, over, renewed>>
  BY DEF Respond
<1>4. QED BY <1>1, <1>2, <1>3 DEF Contract!Answer, SameContract

\* Callbacks run as expired or as failed in one frame.
LEMMA FrameReturns ==
  ASSUME ContractInv, NEW h \in Hosts, NEW given_up \in SUBSET req_list[h],
         NEW undone \in SUBSET delay_execute_fns[h],
         over' = CalledBack(CallsOf(given_up), undone),
         UNCHANGED <<made, reached, answered, renewed>>
  PROVE  Contract!Return
<1>1. \A k \in Calls : <<"expired", k>> \in Contract!Outcomes /\ <<"failed", k>> \in Contract!Outcomes
  BY DEF Contract!Outcomes, Contract!Ends
<1>2. DOMAIN over' = Calls
  BY DEF CalledBack
<1>3. ASSUME NEW k \in Calls
      PROVE  \/ over'[k] = over[k]
             \/ /\ k \in made /\ over[k] = <<>>
                /\ \E o \in Contract!Outcomes : over'[k] = <<o>> /\ Contract!MayEnd(k, o)
  <2>1. CASE k \in CallsOf(given_up)
    <3>1. k \in made /\ over[k] = <<>> /\ k \notin undone
      BY <2>1, AwaitedFacts DEF CallsOf
    <3>2. over'[k] = <<<<"expired", k>>>>
      <4>1. over'[k] = Append(<<>>, <<"expired", k>>)
        BY <2>1, <3>1 DEF CalledBack
      <4>2. QED BY <4>1
    <3>3. QED BY <1>1, <3>1, <3>2 DEF Contract!MayEnd
  <2>2. CASE k \notin CallsOf(given_up) /\ k \in undone
    <3>1. k \in made \ reached /\ over[k] = <<>>
      BY <2>2 DEF ContractInv, AllDelayed, DelayedOK
    <3>2. over'[k] = <<<<"failed", k>>>>
      <4>1. over'[k] = Append(<<>>, <<"failed", k>>)
        BY <2>2, <3>1 DEF CalledBack
      <4>2. QED BY <4>1
    <3>3. QED BY <1>1, <3>1, <3>2 DEF Contract!MayEnd
  <2>3. CASE k \notin CallsOf(given_up) /\ k \notin undone
    BY <2>3 DEF CalledBack
  <2>4. QED BY <2>1, <2>2, <2>3
<1>4. QED BY <1>2, <1>3 DEF Contract!Return

LEMMA FramesReturn ==
  ASSUME ContractInv, NEW h \in Hosts, OnFrame(h) \/ OnFrameDies(h)
  PROVE  Contract!Return
<1>1. CASE OnFrame(h)
  <2>1. GivenUp(h) \in SUBSET req_list[h]
    BY DEF GivenUp
  <2>2. QED BY <1>1, <2>1, FrameReturns DEF OnFrame
<1>2. CASE OnFrameDies(h)
  <2>1. PICK given_up \in SUBSET GivenUp(h) : over' = CalledBack(CallsOf(given_up), {})
    BY <1>2 DEF OnFrameDies
  <2>2. given_up \in SUBSET req_list[h] /\ {} \in SUBSET delay_execute_fns[h]
    BY DEF GivenUp
  <2>3. QED BY <1>2, <2>1, <2>2, FrameReturns DEF OnFrameDies
<1>3. QED BY <1>1, <1>2

\* Whatever breaks, expires, is answered late or twice: a callback runs at
\* most once, with the answer to its own call, as expired, or as failed, and
\* then the call never reached its callee.
THEOREM ContractKept == Spec => KeepsContract
<1>1. Init => Contract!Init
  BY DEF Init, Contract!Init
<1>2. ContractInv /\ [Next]_vars => [Contract!Next]_(Contract!vars)
  <2> SUFFICES ASSUME ContractInv, [Next]_vars
               PROVE  Contract!Next \/ SameContract
    BY DEF SameContract, Contract!vars
  <2>1. CASE UNCHANGED vars
    BY <2>1 DEF vars, SameContract
  <2>2. CASE \E h \in Hosts : Restart(h)
    BY <2>2 DEF Restart, Contract!Restart, Contract!Next
  <2>3. CASE Tick \/ LateTick \/ \E l \in Links : Connect(l) \/ Break(l)
    BY <2>3 DEF Tick, LateTick, Passes, Connect, Break, SameContract
  <2>4. CASE \E k \in Calls : Call(k)
    BY <2>4, CallMakes DEF Contract!Next
  <2>5. CASE \E l \in Links : HandleRspMsg(l) \/ HandleReqMsg(l)
    BY <2>5, HandleRspMsgReturns, HandleReqMsgReaches DEF Contract!Next
  <2>6. CASE \E h \in Hosts : Respond(h) \/ OnFrame(h) \/ OnFrameDies(h)
    BY <2>6, RespondAnswers, FramesReturn DEF Contract!Next
  <2>7. QED BY <2>1, <2>2, <2>3, <2>4, <2>5, <2>6 DEF Next
<1>3. QED BY <1>1, <1>2, ContractInvariant, PTL DEF Spec, KeepsContract, Contract!Spec
=============================================================================
