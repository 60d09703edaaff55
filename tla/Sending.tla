------------------------------- MODULE Sending -------------------------------
(***************************************************************************)
(* What a service sends in one step, sorted by the services it goes to     *)
(* (common/zone_service_mgr sends each message on the connection to its    *)
(* receiver, in the order of the calls).                                   *)
(***************************************************************************)
EXTENDS Integers, Sequences

\* The messages of outs that go to service d, in their order.
SentTo(outs, d) ==
  LET sent[i \in 0..Len(outs)] ==
        IF i = 0 THEN <<>>
        ELSE IF outs[i].to = d THEN Append(sent[i - 1], outs[i]) ELSE sent[i - 1]
  IN sent[Len(outs)]
=============================================================================
