------------------------------ MODULE NetStream ------------------------------
(***************************************************************************)
(* What a connection of the engine promises to its handler and its user,    *)
(* without threads, queues and descriptors: it opens once and closes once;  *)
(* between the two the handler is given what the peer sent, in order and    *)
(* without holes, and the peer is written what the user sent, in order and  *)
(* without holes, except that what was sent first may be lost altogether;   *)
(* closing waits for what was sent before.                                  *)
(* All of it is off once `broken', or (as to the end) once `over'.          *)
(***************************************************************************)
EXTENDS Integers, Sequences, SequencesExt

CONSTANTS Cnns, None

VARIABLES
  life,      \* what the handler has been told
  arrived,   \* how many chunks the peer has sent
  coming,    \* what the peer has sent and the handler has not been given
  got,       \* what the handler has been given
  sent,      \* how many messages the user has sent
  going,     \* what has been sent and not written
  wire,      \* what has been written
  closing,   \* how many messages had been sent when the user closed, or None
  hup,       \* connections whose peer has closed
  ended,     \* connections that have ended, whether the handler knows or not
  expired,   \* connections whose handler is gone
  over,      \* the network is shut down
  broken     \* a socket was closed for somebody else

vars == <<life, arrived, coming, got, sent, going, wire, closing, hup, ended, expired, over, broken>>

-----------------------------------------------------------------------------
Keep(c) == UNCHANGED <<life[c], arrived[c], coming[c], got[c], sent[c], going[c], wire[c]>>

Rest(s, t) == SubSeq(s, Len(t) + 1, Len(s))

Open(c) ==
  /\ life[c] = "none" /\ life'[c] = "open"
  /\ UNCHANGED <<arrived[c], coming[c], got[c], sent[c], going[c], wire[c]>>

\* Connecting failed, or was given up.
Fail(c) ==
  /\ life[c] = "none" /\ life'[c] \in {"none", "failed"}
  /\ coming'[c] = <<>>
  /\ UNCHANGED <<arrived[c], got[c], sent[c], going[c], wire[c]>>

PeerSends(c) ==
  /\ c \notin hup \cup ended
  /\ arrived'[c] = arrived[c] + 1
  /\ coming'[c] = Append(coming[c], <<c, arrived'[c]>>)
  /\ UNCHANGED <<life[c], got[c], sent[c], going[c], wire[c]>>

\* Some of what was coming is given to the handler.
Deliver(c) ==
  /\ life[c] = "open" /\ c \notin expired
  /\ coming[c] # <<>>
  /\ IsPrefix(got[c], got'[c])
  /\ coming[c] = Rest(got'[c], got[c]) \o coming'[c]
  /\ UNCHANGED <<life[c], arrived[c], sent[c], going[c], wire[c]>>

\* There is nobody to give it to.
Discard(c) ==
  /\ c \in expired
  /\ IsSuffix(coming'[c], coming[c])
  /\ UNCHANGED <<life[c], arrived[c], got[c], sent[c], going[c], wire[c]>>

Send(c) ==
  /\ life[c] = "open" /\ c \notin expired
  /\ sent'[c] = sent[c] + 1
  /\ going'[c] = Append(going[c], <<c, sent[c] + 1>>)
  /\ UNCHANGED <<life[c], arrived[c], coming[c], got[c], wire[c]>>

Transmit(c) ==
  /\ c \notin ended
  /\ IsPrefix(wire[c], wire'[c])
  /\ going[c] = Rest(wire'[c], wire[c]) \o going'[c]
  /\ UNCHANGED <<life[c], arrived[c], coming[c], got[c], sent[c]>>

\* What was sent first, or after the end, is lost.
Lose(c) ==
  /\ wire[c] = <<>> \/ c \in ended
  /\ going'[c] = <<>>
  /\ UNCHANGED <<life[c], arrived[c], coming[c], got[c], sent[c], wire[c]>>

\* The end comes because of the peer, or because of the user and then not
\* before what the user had sent.
End(c) ==
  /\ c \in ended' \ ended
  /\ c \in hup \/ over \/ (closing[c] # None /\ going[c] = <<>>)
  /\ going'[c] = <<>> \/ IsSuffix(going'[c], going[c])
  /\ IsPrefix(coming'[c], coming[c])
  /\ UNCHANGED <<life[c], arrived[c], got[c], sent[c], wire[c]>>

\* The handler is told last.
Close(c) ==
  /\ life[c] = "open" /\ c \in ended \ expired
  /\ coming[c] = <<>>
  /\ life'[c] = "closed"
  /\ UNCHANGED <<arrived[c], coming[c], got[c], sent[c], going[c], wire[c]>>

CnnNext(c) ==
  \/ c \notin ended' \ ended /\
       \/ Keep(c)
       \/ Open(c) \/ Fail(c)
       \/ PeerSends(c) \/ Deliver(c) \/ Discard(c)
       \/ Send(c) \/ Transmit(c) \/ Lose(c)
       \/ Close(c)
  \/ End(c)

Init ==
  /\ life = [c \in Cnns |-> "none"]
  /\ arrived = [c \in Cnns |-> 0]
  /\ coming = [c \in Cnns |-> <<>>] /\ got = [c \in Cnns |-> <<>>]
  /\ sent = [c \in Cnns |-> 0]
  /\ going = [c \in Cnns |-> <<>>] /\ wire = [c \in Cnns |-> <<>>]
  /\ closing = [c \in Cnns |-> None]
  /\ hup = {} /\ ended = {} /\ expired = {}
  /\ over = FALSE /\ broken = FALSE

Next == broken' \/ \A c \in Cnns : CnnNext(c) /\ (c \in ended => c \in ended')

Spec == Init /\ [][Next]_vars
=============================================================================
