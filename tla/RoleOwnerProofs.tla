--------------------------- MODULE RoleOwnerProofs ---------------------------
(***************************************************************************)
(* Of RoleSessions, for any clients, roles, gates and games: of two        *)
(* clients in game with the same role one is on its way out                *)
(* (OneClientPerRole).                                                     *)
(*                                                                         *)
(* The property is about the gates, what it needs is said of the world and *)
(* of the links: a client is in game with a role, or about to be, only as  *)
(* the client that the world has for the role, unless a message by which   *)
(* it leaves is on the link behind (OwnersSound).  That this stays so      *)
(* needs that a logout is answered once, to the client that waits for it   *)
(* (LogoutsSound), that a session of a role is with the client of that     *)
(* role alone (BearersSound), and that the answers which the world has     *)
(* cached name that client (AnswersSound).  Together they are Ordered.     *)
(***************************************************************************)
EXTENDS RoleProofs

\* Client c owns role r: it is the client the world has for it.
Owns(c, r) == Using(r) /\ RoleOf(r).gate = c
Gone(c) == clients[c].state = "gone"

\* The message by which client c learns that it leaves its role, and the one by
\* which it enters role r.
Parts(m, c) ==
  m = Kick(c) \/ (m.fn = "rsp" /\ m.err = "ok" /\ m.cb[1] = "logout" /\ m.cb[2] = c)
Grants(m, c, r) ==
  m.fn = "rsp" /\ m.err = "ok" /\ m.cb[1] # "logout" /\ m.cb[2] = c /\ m.cb[4] = r

\* Client c is in game with role r, or about to be, only as its owner, unless it is
\* about to leave it or gone.
Rightful(c, r) ==
  LET link == Out(GateOf[c]) IN
  /\ InGame(c, r) =>
       Owns(c, r) \/ clients[c].closing \/ \E i \in DOMAIN link : Parts(link[i], c)
  /\ \A i \in DOMAIN link : Grants(link[i], c, r) =>
       \/ Owns(c, r) \/ clients[c].closing \/ Gone(c)
       \/ \E j \in DOMAIN link : i < j /\ Parts(link[j], c)

OwnersSound == \A c \in Clients, r \in Roles : Rightful(c, r)

\* up and down hold every logout among calls at most once, as its request or as its
\* answer, and no other.
Pending(calls, up, down) ==
  /\ \A i \in DOMAIN up : up[i].cb[1] = "logout" =>
       /\ up[i].cb \in calls
       /\ \A j \in DOMAIN up : up[j].cb = up[i].cb => j = i
       /\ \A j \in DOMAIN down : down[j].cb # up[i].cb
  /\ \A i \in DOMAIN down : down[i].cb[1] = "logout" =>
       /\ down[i].cb \in calls
       /\ \A j \in DOMAIN down : down[j].cb = down[i].cb => j = i

CallsOf(g) == {cb \in gcalls : GateOf[cb[2]] = g}

LogoutsSound ==
  /\ \A g \in Gates : Pending(CallsOf(g), Back(g), Out(g))
  /\ \A cb \in gcalls : cb[3] <= clients[cb[2]].n

IsReconnect(cb) == cb[1] = "_reconnect_role_game_change_client_cb"

\* Client c has session s, or it is about to get it, or asks to give it up.
Bears(c, s) ==
  \/ clients[c].session = s
  \/ \E cb \in wcalls : IsReconnect(cb) /\ cb[2][2] = c /\ cb[3] = s
  \/ LET down == Out(GateOf[c]) IN
     \E i \in DOMAIN down : down[i].fn = "rsp" /\ down[i].val = s /\ down[i].cb[2] = c
  \/ LET up == Back(GateOf[c]) IN
     \E i \in DOMAIN up : up[i].fn = "logout_role" /\ up[i].args[1] = s /\ up[i].cb[2] = c

\* A gate reports that the client with session s is gone.
Quits(s) ==
  \E g \in Gates : \E i \in DOMAIN Back(g) : Back(g)[i].fn = "client_quit" /\ Back(g)[i].args[1] = s

BearersSound == \A r \in Roles : SessionOf(r) # 0 =>
  /\ \A c \in Clients : Bears(c, SessionOf(r)) => RoleOf(r).gate = c
  /\ Quits(SessionOf(r)) => RoleOf(r).gate \in Clients /\ Gone(RoleOf(r).gate)

AnswersSound ==
  /\ \A r \in Roles : Launching(r) => RoleOf(r).cached[2] = RoleOf(r).gate /\ RoleOf(r).cached[4] = r
  /\ \A cb \in wcalls : IsReconnect(cb) => objs[cb[4]].role = cb[2][4]

Ordered == OwnersSound /\ LogoutsSound /\ BearersSound /\ AnswersSound

-----------------------------------------------------------------------------
(* What a step does to a link. *)

\* b is a with the messages of S behind it, and with m alone.
After(a, b, S) ==
  /\ \A i \in DOMAIN a : i \in DOMAIN b /\ b[i] = a[i]
  /\ \A i \in DOMAIN b : i \in DOMAIN a \/ b[i] \in S
  /\ \A m \in S : \E i \in DOMAIN b : b[i] = m /\ \A k \in DOMAIN a : k < i

Adds(a, m, b) ==
  \E n : /\ n \notin DOMAIN a /\ DOMAIN b = DOMAIN a \cup {n} /\ b[n] = m
         /\ \A k \in DOMAIN a : k < n /\ b[k] = a[k]

\* b is a without its head.
Rest(a, b) ==
  /\ 1 \in DOMAIN a /\ Head(a) = a[1]
  /\ \A i \in DOMAIN b : i \in Nat /\ i # 0 /\ i + 1 \in DOMAIN a /\ b[i] = a[i + 1]
  /\ \A i \in DOMAIN a : i \in Nat /\ (i = 1 \/ (i - 1 \in DOMAIN b /\ b[i - 1] = a[i]))

LEMMA ConcatAfter ==
  ASSUME NEW T, NEW a \in Seq(T), NEW b \in Seq(T)
  PROVE  After(a, a \o b, {b[j] : j \in DOMAIN b})
<1>1. /\ Len(a) \in Nat /\ Len(b) \in Nat /\ DOMAIN a = 1..Len(a) /\ DOMAIN b = 1..Len(b)
      /\ DOMAIN (a \o b) = 1..(Len(a) + Len(b))
      /\ \A i \in 1..(Len(a) + Len(b)) : (a \o b)[i] = IF i <= Len(a) THEN a[i] ELSE b[i - Len(a)]
  OBVIOUS
<1>2. PICK c : c = a \o b
  OBVIOUS
<1>3. \A i \in DOMAIN a : i \in DOMAIN c /\ c[i] = a[i]
  BY <1>1, <1>2
<1>4. \A i \in DOMAIN c : i \in DOMAIN a \/ \E j \in DOMAIN b : c[i] = b[j]
  <2> TAKE i \in DOMAIN c
  <2>1. i \in 1..Len(a) \/ (~ (i <= Len(a)) /\ i - Len(a) \in 1..Len(b))
    BY <1>1, <1>2
  <2> QED BY <1>1, <1>2, <2>1
<1>5. \A j \in DOMAIN b : \E i \in DOMAIN c : c[i] = b[j] /\ \A k \in DOMAIN a : k < i
  <2> TAKE j \in DOMAIN b
  <2>1. /\ j + Len(a) \in 1..(Len(a) + Len(b)) /\ ~ (j + Len(a) <= Len(a))
        /\ (j + Len(a)) - Len(a) = j /\ \A k \in 1..Len(a) : k < j + Len(a)
    BY <1>1
  <2> QED BY <1>1, <1>2, <2>1
<1> QED BY <1>2, <1>3, <1>4, <1>5 DEF After

LEMMA AppendAdds ==
  ASSUME NEW T, NEW a \in Seq(T), NEW m
  PROVE  Adds(a, m, Append(a, m))
<1>1. /\ Len(a) \in Nat /\ DOMAIN a = 1..Len(a) /\ DOMAIN Append(a, m) = 1..(Len(a) + 1)
      /\ \A i \in 1..Len(a) : Append(a, m)[i] = a[i]
      /\ Append(a, m)[Len(a) + 1] = m
  OBVIOUS
<1>2. PICK n : n = Len(a) + 1
  OBVIOUS
<1>3. n \notin 1..Len(a) /\ 1..(Len(a) + 1) = 1..Len(a) \cup {n} /\ \A k \in 1..Len(a) : k < n
  BY <1>1, <1>2
<1> QED BY <1>1, <1>2, <1>3 DEF Adds

LEMMA AddsAfter ==
  ASSUME NEW a, NEW m, NEW b, Adds(a, m, b) PROVE After(a, b, {m})
BY DEF Adds, After

LEMMA TailRest ==
  ASSUME NEW T, NEW a \in Seq(T), a # <<>> PROVE Rest(a, Tail(a))
<1>1. /\ Len(a) \in Nat /\ Len(a) >= 1 /\ DOMAIN a = 1..Len(a) /\ a[1] = Head(a)
      /\ DOMAIN Tail(a) = 1..(Len(a) - 1)
      /\ \A i \in 1..(Len(a) - 1) : Tail(a)[i] = a[i + 1]
  OBVIOUS
<1>2. \A i \in 1..Len(a) : i \in Nat /\ (i = 1 \/ (i - 1 \in 1..(Len(a) - 1) /\ (i - 1) + 1 = i))
  BY <1>1
<1>3. \A i \in 1..(Len(a) - 1) : i \in Nat /\ i # 0 /\ i + 1 \in 1..Len(a)
  BY <1>1
<1>4. 1 \in 1..Len(a)
  BY <1>1
<1> QED BY <1>1, <1>2, <1>3, <1>4 DEF Rest

\* The links between the world and a gate are queues.
LEMMA GateLinks ==
  ASSUME Queues, NEW g \in Gates
  PROVE  /\ g # World /\ g \notin Games /\ <<World, g>> \in Links /\ <<g, World>> \in Links
         /\ Out(g) \in Seq(ToSet(Out(g))) /\ Back(g) \in Seq(ToSet(Back(g)))
<1>1. g # World /\ g \notin Games /\ <<World, g>> \in Links /\ <<g, World>> \in Links
  BY ConstantsAssumption DEF Links
<1> QED BY <1>1 DEF Queues, Out, Back

\* What a step of the world does to the links of the gates: the messages of S are
\* sent, and those on link in lose their head.
Sent(S) == \A g \in Gates : After(Out(g), Out(g)', {m \in S : m.to = g})
Heeds(in) ==
  \A g \in Gates : IF in = <<g, World>> THEN Rest(Back(g), Back(g)') ELSE Back(g)' = Back(g)

LEMMA WorldSends ==
  ASSUME Queues, NEW in, ToWorld(in), Takes(in), NEW S, NEW outs \in Seq(S),
         \A m \in S : \E j \in DOMAIN outs : outs[j] = m, Deliver(in, World, outs)
  PROVE  Sent(S) /\ Heeds(in)
<1> SUFFICES ASSUME NEW g \in Gates
             PROVE  /\ After(Out(g), Out(g)', {m \in S : m.to = g})
                    /\ IF in = <<g, World>> THEN Rest(Back(g), Back(g)') ELSE Back(g)' = Back(g)
  BY DEF Sent, Heeds
<1>1. /\ g # World /\ <<World, g>> \in Links /\ <<g, World>> \in Links
      /\ Out(g) \in Seq(ToSet(Out(g))) /\ Back(g) \in Seq(ToSet(Back(g)))
  BY GateLinks
<1>2. <<World, g>> # in
  BY <1>1, ConstantsAssumption DEF ToWorld, NoLink
<1>3. Out(g)' = Out(g) \o SentTo(outs, g)
  BY <1>1, <1>2 DEF Deliver, Out
<1>4. PICK new : new = SentTo(outs, g)
  OBVIOUS
<1>5. After(Out(g), Out(g)', {m \in S : m.to = g})
  <2>1. /\ new \in Seq(S)
        /\ \A i \in DOMAIN new : \E j \in DOMAIN outs : new[i] = outs[j] /\ outs[j].to = g
        /\ \A j \in DOMAIN outs : outs[j].to = g => \E i \in DOMAIN new : new[i] = outs[j]
    BY <1>4, SentToOf
  <2>2. \A j \in DOMAIN outs : outs[j] \in S
    OBVIOUS
  <2>3. {new[i] : i \in DOMAIN new} = {m \in S : m.to = g}
    BY <2>1, <2>2
  <2>4. PICK a : a = Out(g) /\ a \in Seq(ToSet(a))
    BY <1>1
  <2>5. After(a, a \o new, {new[i] : i \in DOMAIN new})
    <3> DEFINE T == ToSet(a) \cup S
    <3>1. a \in Seq(T) /\ new \in Seq(T)
      BY <2>1, <2>4
    <3> HIDE DEF T
    <3> QED BY <3>1, ConcatAfter
  <2> QED BY <1>3, <1>4, <2>3, <2>4, <2>5
<1>6. PICK b : b = Back(g) /\ b \in Seq(ToSet(b))
  BY <1>1
<1>7. Back(g)' = (IF <<g, World>> = in THEN Tail(b) ELSE b) \o <<>>
  BY <1>1, <1>6 DEF Deliver, Back
<1>8. CASE in = <<g, World>>
  <2>1. b # <<>>
    BY <1>1, <1>6, <1>8 DEF Takes, Back
  <2>2. Tail(b) \o <<>> = Tail(b)
    BY <1>6, <2>1
  <2>3. Rest(b, Tail(b))
    BY <1>6, <2>1, TailRest
  <2> QED BY <1>5, <1>6, <1>7, <1>8, <2>2, <2>3
<1>9. CASE in # <<g, World>>
  <2>1. b \o <<>> = b
    BY <1>6
  <2> QED BY <1>5, <1>6, <1>7, <1>9, <2>1
<1> QED BY <1>8, <1>9

\* The messages of a step that sends few.
LEMMA WorldSendsFew ==
  ASSUME Queues, NEW in, ToWorld(in), Takes(in)
  PROVE  /\ Deliver(in, World, <<>>) => Sent({}) /\ Heeds(in)
         /\ \A a : Deliver(in, World, <<a>>) => Sent({a}) /\ Heeds(in)
         /\ \A a, b : Deliver(in, World, <<a, b>>) => Sent({a, b}) /\ Heeds(in)
         /\ \A a, b, c : Deliver(in, World, <<a>> \o <<b, c>>) => Sent({a, b, c}) /\ Heeds(in)
<1>2. Deliver(in, World, <<>>) => Sent({}) /\ Heeds(in)
  <2>1. PICK outs, S : outs = <<>> /\ S = {}
    OBVIOUS
  <2>2. outs \in Seq(S) /\ \A m \in S : \E j \in DOMAIN outs : outs[j] = m
    BY <2>1
  <2>3. Deliver(in, World, outs) => Sent(S) /\ Heeds(in)
    BY <2>2, WorldSends
  <2> QED BY <2>1, <2>3
<1>3. ASSUME NEW a, Deliver(in, World, <<a>>) PROVE Sent({a}) /\ Heeds(in)
  <2>1. PICK outs, S : outs = <<a>> /\ S = {a}
    OBVIOUS
  <2>2. outs \in Seq(S) /\ 1 \in DOMAIN outs /\ outs[1] = a
    BY <2>1
  <2>3. \A m \in S : \E j \in DOMAIN outs : outs[j] = m
    BY <2>1, <2>2
  <2>4. Deliver(in, World, outs) => Sent(S) /\ Heeds(in)
    BY <2>2, <2>3, WorldSends
  <2> QED BY <1>3, <2>1, <2>4
<1>4. ASSUME NEW a, NEW b, Deliver(in, World, <<a, b>>) PROVE Sent({a, b}) /\ Heeds(in)
  <2>1. PICK outs, S : outs = <<a, b>> /\ S = {a, b}
    OBVIOUS
  <2>2. /\ outs \in Seq(S) /\ 1 \in DOMAIN outs /\ outs[1] = a
        /\ 2 \in DOMAIN outs /\ outs[2] = b
    BY <2>1
  <2>3. \A m \in S : \E j \in DOMAIN outs : outs[j] = m
    BY <2>1, <2>2
  <2>4. Deliver(in, World, outs) => Sent(S) /\ Heeds(in)
    BY <2>2, <2>3, WorldSends
  <2> QED BY <1>4, <2>1, <2>4
<1>5. ASSUME NEW a, NEW b, NEW c, Deliver(in, World, <<a>> \o <<b, c>>)
      PROVE  Sent({a, b, c}) /\ Heeds(in)
  <2>1. PICK outs, S : outs = <<a>> \o <<b, c>> /\ S = {a, b, c}
    OBVIOUS
  <2>2. /\ outs \in Seq(S) /\ 1 \in DOMAIN outs /\ outs[1] = a
        /\ 2 \in DOMAIN outs /\ outs[2] = b /\ 3 \in DOMAIN outs /\ outs[3] = c
    BY <2>1
  <2>3. \A m \in S : \E j \in DOMAIN outs : outs[j] = m
    BY <2>1, <2>2
  <2>4. Deliver(in, World, outs) => Sent(S) /\ Heeds(in)
    BY <2>2, <2>3, WorldSends
  <2> QED BY <1>5, <2>1, <2>4
<1> QED BY <1>2, <1>3, <1>4, <1>5

-----------------------------------------------------------------------------
(* Logouts under way. *)

LEMMA PendingStays ==
  ASSUME NEW calls, NEW up, NEW down, NEW up2, NEW down2, NEW S, Pending(calls, up, down),
         up2 = up \/ Rest(up, up2), After(down, down2, S), \A m \in S : m.cb[1] # "logout"
  PROVE  Pending(calls, up2, down2)
<1>1. \A i \in DOMAIN down2 : down2[i].cb[1] = "logout" => i \in DOMAIN down /\ down2[i] = down[i]
  BY DEF After
<1>2. CASE up2 = up
  BY <1>1, <1>2 DEF Pending
<1>3. CASE Rest(up, up2)
  <2>1. /\ \A i \in DOMAIN up2 : i \in Nat /\ i + 1 \in DOMAIN up /\ up2[i] = up[i + 1]
        /\ \A i, j \in DOMAIN up2 : i + 1 = j + 1 => i = j
    BY <1>3 DEF Rest
  <2>2. ASSUME NEW i \in DOMAIN up2, up2[i].cb[1] = "logout"
        PROVE  /\ up2[i].cb \in calls
               /\ \A j \in DOMAIN up2 : up2[j].cb = up2[i].cb => j = i
               /\ \A j \in DOMAIN down2 : down2[j].cb # up2[i].cb
    <3>1. /\ i + 1 \in DOMAIN up /\ up2[i] = up[i + 1] /\ up[i + 1].cb[1] = "logout"
      BY <2>1, <2>2
    <3>2. /\ up2[i].cb \in calls
          /\ \A j \in DOMAIN up : up[j].cb = up2[i].cb => j = i + 1
          /\ \A j \in DOMAIN down : down[j].cb # up2[i].cb
      BY <3>1 DEF Pending
    <3>3. \A j \in DOMAIN up2 : up2[j].cb = up2[i].cb => j = i
      BY <2>1, <3>2
    <3>4. \A j \in DOMAIN down2 : down2[j].cb # up2[i].cb
      BY <1>1, <2>2, <3>2
    <3> QED BY <3>2, <3>3, <3>4
  <2> QED BY <1>1, <2>2 DEF Pending
<1> QED BY <1>2, <1>3

LEMMA PendingAnswered ==
  ASSUME NEW calls, NEW up, NEW down, NEW up2, NEW down2, NEW m, Pending(calls, up, down),
         Rest(up, up2), up[1].cb[1] = "logout", Adds(down, m, down2), m.cb = up[1].cb
  PROVE  Pending(calls, up2, down2)
<1>1. /\ 1 \in DOMAIN up
      /\ \A i \in DOMAIN up2 : i \in Nat /\ i # 0 /\ i + 1 \in DOMAIN up /\ up2[i] = up[i + 1]
      /\ \A i, j \in DOMAIN up2 : (i + 1 = j + 1 => i = j) /\ i + 1 # 1
  BY DEF Rest
<1>2. PICK n : /\ n \notin DOMAIN down /\ DOMAIN down2 = DOMAIN down \cup {n} /\ down2[n] = m
               /\ \A k \in DOMAIN down : down2[k] = down[k]
  BY DEF Adds
<1>3. /\ m.cb \in calls /\ \A j \in DOMAIN up : up[j].cb = m.cb => j = 1
      /\ \A j \in DOMAIN down : down[j].cb # m.cb
  BY <1>1 DEF Pending
<1>4. ASSUME NEW i \in DOMAIN up2, up2[i].cb[1] = "logout"
      PROVE  /\ up2[i].cb \in calls
             /\ \A j \in DOMAIN up2 : up2[j].cb = up2[i].cb => j = i
             /\ \A j \in DOMAIN down2 : down2[j].cb # up2[i].cb
  <2>1. /\ i + 1 \in DOMAIN up /\ up2[i] = up[i + 1] /\ up[i + 1].cb[1] = "logout" /\ i + 1 # 1
    BY <1>1, <1>4
  <2>2. /\ up2[i].cb \in calls
        /\ \A j \in DOMAIN up : up[j].cb = up2[i].cb => j = i + 1
        /\ \A j \in DOMAIN down : down[j].cb # up2[i].cb
    BY <2>1 DEF Pending
  <2>3. m.cb # up2[i].cb
    BY <1>3, <2>1
  <2>4. \A j \in DOMAIN up2 : up2[j].cb = up2[i].cb => j = i
    BY <1>1, <2>2
  <2>5. \A j \in DOMAIN down2 : down2[j].cb # up2[i].cb
    BY <1>2, <2>2, <2>3
  <2> QED BY <2>2, <2>4, <2>5
<1>5. ASSUME NEW i \in DOMAIN down2, down2[i].cb[1] = "logout"
      PROVE  down2[i].cb \in calls /\ \A j \in DOMAIN down2 : down2[j].cb = down2[i].cb => j = i
  BY <1>2, <1>3, <1>5 DEF Pending
<1> QED BY <1>4, <1>5 DEF Pending

LEMMA PendingMade ==
  ASSUME NEW calls, NEW calls2, NEW up, NEW down, NEW up2, NEW m, Pending(calls, up, down),
         Adds(up, m, up2), calls \subseteq calls2,
         m.cb[1] = "logout" => m.cb \in calls2 /\ m.cb \notin calls
  PROVE  Pending(calls2, up2, down)
<1>1. PICK n : /\ n \notin DOMAIN up /\ DOMAIN up2 = DOMAIN up \cup {n} /\ up2[n] = m
               /\ \A k \in DOMAIN up : up2[k] = up[k]
  BY DEF Adds
<1>2. /\ \A i \in DOMAIN up : up[i].cb[1] = "logout" => up[i].cb # m.cb
      /\ \A i \in DOMAIN down : m.cb[1] = "logout" => down[i].cb # m.cb
  BY DEF Pending
<1> QED BY <1>1, <1>2 DEF Pending

LEMMA PendingTaken ==
  ASSUME NEW calls, NEW calls2, NEW up, NEW down, NEW down2, Pending(calls, up, down),
         Rest(down, down2), \A cb \in calls : cb = down[1].cb \/ cb \in calls2
  PROVE  Pending(calls2, up, down2)
<1>1. /\ 1 \in DOMAIN down
      /\ \A i \in DOMAIN down2 : i \in Nat /\ i # 0 /\ i + 1 \in DOMAIN down /\ down2[i] = down[i + 1]
      /\ \A i, j \in DOMAIN down2 : (i + 1 = j + 1 => i = j) /\ i + 1 # 1
  BY DEF Rest
<1>2. ASSUME NEW i \in DOMAIN up, up[i].cb[1] = "logout"
      PROVE  /\ up[i].cb \in calls2
             /\ \A j \in DOMAIN up : up[j].cb = up[i].cb => j = i
             /\ \A j \in DOMAIN down2 : down2[j].cb # up[i].cb
  BY <1>1, <1>2 DEF Pending
<1>3. ASSUME NEW i \in DOMAIN down2, down2[i].cb[1] = "logout"
      PROVE  down2[i].cb \in calls2 /\ \A j \in DOMAIN down2 : down2[j].cb = down2[i].cb => j = i
  <2>1. /\ i + 1 \in DOMAIN down /\ down2[i] = down[i + 1] /\ down[i + 1].cb[1] = "logout" /\ i + 1 # 1
    BY <1>1, <1>3
  <2>2. down2[i].cb \in calls /\ \A j \in DOMAIN down : down[j].cb = down2[i].cb => j = i + 1
    BY <2>1 DEF Pending
  <2>3. down[1].cb # down2[i].cb
    BY <1>1, <2>1, <2>2
  <2> QED BY <1>1, <2>2, <2>3
<1> QED BY <1>2, <1>3 DEF Pending

-----------------------------------------------------------------------------
(***************************************************************************)
(* A step of the world that sends S, as to who plays a role: whom it takes a *)
(* role from parts from it; whom it grants one owns it; a session that a    *)
(* role has now it had before, or nobody has heard of it, and whom it is    *)
(* told, or promised, is the client of the role.                           *)
(***************************************************************************)
Plays(S) ==
  /\ \A c \in Clients, q \in Roles :
       Owns(c, q) => Owns(c, q)' \/ Gone(c) \/ \E m \in S : m.to = GateOf[c] /\ Parts(m, c)
  /\ \A m \in S, c \in Clients, q \in Roles : Grants(m, c, q) => Owns(c, q)'
  /\ \A q \in Roles : SessionOf(q)' # 0 =>
       \/ SessionOf(q)' = SessionOf(q) /\ RoleOf(q)'.gate = RoleOf(q).gate
       \/ ~ GivenOut(SessionOf(q)')
  /\ \A m \in S, q \in Roles : m.fn = "rsp" /\ SessionOf(q)' # 0 /\ m.val = SessionOf(q)' =>
       RoleOf(q)'.gate = m.cb[2]
  /\ \A cb \in wcalls' \ wcalls, q \in Roles :
       IsReconnect(cb) /\ SessionOf(q)' # 0 /\ cb[3] = SessionOf(q)' => RoleOf(q)'.gate = cb[2][2]

LEMMA PlaysOwners ==
  ASSUME UNCHANGED clients, NEW S, Sent(S), Plays(S), OwnersSound PROVE OwnersSound'
<1> SUFFICES ASSUME NEW c \in Clients, NEW r \in Roles PROVE Rightful(c, r)'
  BY DEF OwnersSound
<1>1. PICK a, b, T : a = Out(GateOf[c]) /\ b = Out(GateOf[c])' /\ T = {m \in S : m.to = GateOf[c]}
  OBVIOUS
<1>2. After(a, b, T)
  BY <1>1, ConstantsAssumption DEF Sent
<1>3. InGame(c, r)' = InGame(c, r) /\ Gone(c)' = Gone(c) /\ clients'[c] = clients[c]
  BY DEF InGame, Gone
<1>4. /\ Owns(c, r) => Owns(c, r)' \/ Gone(c) \/ \E m \in T : Parts(m, c)
      /\ \A m \in T : Grants(m, c, r) => Owns(c, r)'
  BY <1>1 DEF Plays
<1>5. /\ InGame(c, r) => Owns(c, r) \/ clients[c].closing \/ \E i \in DOMAIN a : Parts(a[i], c)
      /\ \A i \in DOMAIN a : Grants(a[i], c, r) =>
           \/ Owns(c, r) \/ clients[c].closing \/ Gone(c)
           \/ \E j \in DOMAIN a : i < j /\ Parts(a[j], c)
  BY <1>1 DEF OwnersSound, Rightful
<1>6. /\ \A i \in DOMAIN a : i \in DOMAIN b /\ b[i] = a[i]
      /\ \A i \in DOMAIN b : i \in DOMAIN a \/ b[i] \in T
      /\ \A m \in T : \E i \in DOMAIN b : b[i] = m /\ \A k \in DOMAIN a : k < i
  BY <1>2 DEF After
<1>7. InGame(c, r) => ~ Gone(c)
  BY DEF InGame, Gone
<1>8. InGame(c, r) => Owns(c, r)' \/ clients[c].closing \/ \E i \in DOMAIN b : Parts(b[i], c)
  BY <1>4, <1>5, <1>6, <1>7
<1>9. ASSUME NEW i \in DOMAIN b, Grants(b[i], c, r)
      PROVE  \/ Owns(c, r)' \/ clients[c].closing \/ Gone(c)
             \/ \E j \in DOMAIN b : i < j /\ Parts(b[j], c)
  <2>1. CASE i \in DOMAIN a
    <3>1. \/ Owns(c, r) \/ clients[c].closing \/ Gone(c)
          \/ \E j \in DOMAIN a : i < j /\ Parts(a[j], c)
      BY <1>5, <1>6, <1>9, <2>1
    <3> QED BY <1>4, <1>6, <2>1, <3>1
  <2>2. CASE b[i] \in T
    BY <1>4, <1>9, <2>2
  <2> QED BY <1>6, <2>1, <2>2
<1> QED BY <1>1, <1>3, <1>8, <1>9 DEF Rightful

\* Whoever bears a session has been given it.
LEMMA BearsGiven ==
  ASSUME Queues, NEW s
  PROVE  (\A c \in Clients : Bears(c, s) => GivenOut(s)) /\ (Quits(s) => GivenOut(s))
<1>1. \A g \in Gates : <<World, g>> \in Links /\ <<g, World>> \in Links
  BY GateLinks
<1>2. ASSUME NEW c \in Clients, Bears(c, s) PROVE GivenOut(s)
  <2>1. GateOf[c] \in Gates
    BY ConstantsAssumption
  <2>2. CASE clients[c].session = s
    BY <2>2 DEF GivenOut, ClientHas
  <2>3. CASE \E cb \in wcalls : IsReconnect(cb) /\ cb[2][2] = c /\ cb[3] = s
    BY <2>3 DEF GivenOut, Reconnects, IsReconnect
  <2>4. CASE \E i \in DOMAIN Out(GateOf[c]) : Out(GateOf[c])[i].fn = "rsp" /\ Out(GateOf[c])[i].val = s
    BY <1>1, <2>1, <2>4 DEF GivenOut, Named, Names, Out
  <2>5. CASE \E i \in DOMAIN Back(GateOf[c]) :
               Back(GateOf[c])[i].fn = "logout_role" /\ Back(GateOf[c])[i].args[1] = s
    BY <1>1, <2>1, <2>5 DEF GivenOut, Named, Names, Back
  <2> QED BY <1>2, <2>2, <2>3, <2>4, <2>5 DEF Bears
<1>3. Quits(s) => GivenOut(s)
  BY <1>1 DEF Quits, GivenOut, Named, Names, Back
<1> QED BY <1>2, <1>3

LEMMA PlaysBearers ==
  ASSUME Queues, UNCHANGED clients, NEW S, Sent(S), NEW in, Heeds(in), Plays(S), BearersSound
  PROVE  BearersSound'
<1> SUFFICES ASSUME NEW r \in Roles, SessionOf(r)' # 0
             PROVE  /\ \A c \in Clients : Bears(c, SessionOf(r))' => RoleOf(r)'.gate = c
                    /\ Quits(SessionOf(r))' => RoleOf(r)'.gate \in Clients /\ Gone(RoleOf(r).gate)'
  BY DEF BearersSound
<1>1. PICK s, x : s = SessionOf(r)' /\ x = RoleOf(r)'.gate
  OBVIOUS
<1>2. \/ s = SessionOf(r) /\ x = RoleOf(r).gate
      \/ ~ GivenOut(s)
  BY <1>1 DEF Plays
<1>3. \A g \in Gates : \A i \in DOMAIN Back(g)' : \E j \in DOMAIN Back(g) : Back(g)'[i] = Back(g)[j]
  BY DEF Heeds, Rest
<1>4. ASSUME NEW c \in Clients, Bears(c, s)' PROVE Bears(c, s) \/ x = c
  <2>1. PICK g \in Gates : g = GateOf[c]
    BY ConstantsAssumption
  <2>2. CASE clients'[c].session = s
    BY <2>2 DEF Bears
  <2>3. CASE \E cb \in wcalls' : IsReconnect(cb) /\ cb[2][2] = c /\ cb[3] = s
    <3>1. PICK cb \in wcalls' : IsReconnect(cb) /\ cb[2][2] = c /\ cb[3] = s
      BY <2>3
    <3>2. CASE cb \in wcalls
      BY <3>1, <3>2 DEF Bears
    <3>3. CASE cb \notin wcalls
      BY <1>1, <3>1, <3>3 DEF Plays
    <3> QED BY <3>2, <3>3
  <2>4. CASE \E i \in DOMAIN Out(g)' : Out(g)'[i].fn = "rsp" /\ Out(g)'[i].val = s /\ Out(g)'[i].cb[2] = c
    <3>1. PICK i \in DOMAIN Out(g)' :
            Out(g)'[i].fn = "rsp" /\ Out(g)'[i].val = s /\ Out(g)'[i].cb[2] = c
      BY <2>4
    <3>2. (i \in DOMAIN Out(g) /\ Out(g)'[i] = Out(g)[i]) \/ Out(g)'[i] \in S
      BY <3>1 DEF Sent, After
    <3>3. CASE i \in DOMAIN Out(g) /\ Out(g)'[i] = Out(g)[i]
      BY <2>1, <3>1, <3>3 DEF Bears
    <3>4. CASE Out(g)'[i] \in S
      <4>1. PICK m \in S : m = Out(g)'[i]
        BY <3>4
      <4> QED BY <1>1, <3>1, <4>1 DEF Plays
    <3> QED BY <3>2, <3>3, <3>4
  <2>5. CASE \E i \in DOMAIN Back(g)' :
               Back(g)'[i].fn = "logout_role" /\ Back(g)'[i].args[1] = s /\ Back(g)'[i].cb[2] = c
    <3>1. PICK i \in DOMAIN Back(g)' :
               Back(g)'[i].fn = "logout_role" /\ Back(g)'[i].args[1] = s /\ Back(g)'[i].cb[2] = c
      BY <2>5
    <3>2. PICK j \in DOMAIN Back(g) : Back(g)'[i] = Back(g)[j]
      BY <1>3, <3>1
    <3> QED BY <2>1, <3>1, <3>2 DEF Bears
  <2> QED BY <1>4, <2>1, <2>2, <2>3, <2>4, <2>5 DEF Bears
<1>5. ASSUME Quits(s)' PROVE Quits(s)
  <2>1. PICK g \in Gates : \E i \in DOMAIN Back(g)' :
          Back(g)'[i].fn = "client_quit" /\ Back(g)'[i].args[1] = s
    BY <1>5 DEF Quits
  <2> QED BY <1>3, <2>1 DEF Quits
<1>6. Gone(x)' = Gone(x)
  BY DEF Gone
<1>7. CASE s = SessionOf(r) /\ x = RoleOf(r).gate
  BY <1>1, <1>4, <1>5, <1>6, <1>7 DEF BearersSound
<1>8. CASE ~ GivenOut(s)
  BY <1>1, <1>4, <1>5, <1>8, BearsGiven
<1> QED BY <1>2, <1>7, <1>8

-----------------------------------------------------------------------------
(***************************************************************************)
(* How a handler of the world meets Plays: it leaves every role but one     *)
(* alone, and of what it sends only the answer to the client of that role   *)
(* lets anybody in.                                                        *)
(***************************************************************************)
Aside(r) ==
  \A q \in Roles : q # r =>
    /\ role_id_to_role'[q] = role_id_to_role[q]
    /\ Lives(q) => objs'[role_id_to_role[q]] = objs[role_id_to_role[q]]

Mild(m) == m.fn = "rsp" => m.val = 0 /\ (m.err # "ok" \/ m.cb[1] = "logout")

Admits(m, r) ==
  /\ m.fn = "rsp" /\ m.cb[4] = r /\ Using(r)' /\ m.cb[2] = RoleOf(r)'.gate
  /\ m.val = SessionOf(r)' \/ (~ Held(m.val) /\ m.val # SessionOf(r)')

Rejoins(cb, r) ==
  /\ Lives(r)' /\ cb[4] = role_id_to_role'[r] /\ cb[2][4] = r
  /\ cb[3] = SessionOf(r)' /\ cb[2][2] = RoleOf(r)'.gate

Hands(r, S) ==
  /\ Aside(r)
  /\ \A m \in S : Mild(m) \/ Admits(m, r)
  /\ \A c \in Clients : Owns(c, r) =>
       Owns(c, r)' \/ Gone(c) \/ \E m \in S : m.to = GateOf[c] /\ Parts(m, c)
  /\ SessionOf(r)' # 0 =>
       \/ SessionOf(r)' = SessionOf(r) /\ RoleOf(r)'.gate = RoleOf(r).gate
       \/ ~ GivenOut(SessionOf(r)')
  /\ Launching(r)' => RoleOf(r)'.cached[2] = RoleOf(r)'.gate /\ RoleOf(r)'.cached[4] = r
  /\ \A cb \in wcalls' \ wcalls : IsReconnect(cb) => Rejoins(cb, r)

Leaves(S) ==
  /\ UNCHANGED <<objs, role_id_to_role>>
  /\ \A m \in S : Mild(m)
  /\ \A cb \in wcalls' \ wcalls : ~ IsReconnect(cb)

Steers == \E S : Sent(S) /\ (Leaves(S) \/ \E r \in Roles : Hands(r, S))

\* Nothing is said about a logout.
Tacit == \E S : Sent(S) /\ \A m \in S : m.cb[1] # "logout"

LEMMA AsideFacts ==
  ASSUME WorldInv, WorldInv', NEW r \in Roles, Aside(r), NEW q \in Roles, q # r
  PROVE  /\ SessionOf(q)' = SessionOf(q) /\ Lives(q)' = Lives(q)
         /\ Lives(q) => RoleOf(q)' = RoleOf(q)
         /\ \A c : Owns(c, q)' <=> Owns(c, q)
         /\ Launching(q)' <=> Launching(q)
<1>1. /\ role_id_to_role'[q] = role_id_to_role[q]
      /\ Lives(q) => objs'[role_id_to_role[q]] = objs[role_id_to_role[q]]
  BY DEF Aside
<1>2. Lives(q)' = Lives(q) /\ (Lives(q) => RoleOf(q)' = RoleOf(q))
  BY <1>1 DEF Lives, RoleOf
<1>3. (Using(q)' <=> Using(q)) /\ (Launching(q)' <=> Launching(q)) /\ (Using(q) => Lives(q))
  BY <1>2 DEF Using, Launching
<1>4. SessionOf(q)' = SessionOf(q)
  BY <1>2 DEF SessionOf
<1> QED BY <1>2, <1>3, <1>4 DEF Owns

LEMMA AsideIf ==
  ASSUME WorldInv, NEW r \in Roles,
         \A p \in Roles : p # r => role_id_to_role'[p] = role_id_to_role[p],
         \A o \in Tables : o # role_id_to_role[r] => objs'[o] = objs[o]
  PROVE  Aside(r)
<1> SUFFICES ASSUME NEW q \in Roles, q # r, Lives(q)
             PROVE  objs'[role_id_to_role[q]] = objs[role_id_to_role[q]]
  BY DEF Aside
<1>1. role_id_to_role[q] \in Tables /\ objs[role_id_to_role[q]].role = q
  BY LivingRole
<1>2. role_id_to_role[q] # role_id_to_role[r]
  <2> SUFFICES ASSUME role_id_to_role[q] = role_id_to_role[r] PROVE FALSE
    OBVIOUS
  <2>1. Lives(r)
    BY DEF Lives
  <2>2. objs[role_id_to_role[r]].role = r
    BY <2>1, LivingRole
  <2> QED BY <1>1, <2>2
<1> QED BY <1>1, <1>2

LEMMA HandsPlays ==
  ASSUME WorldInv, WorldInv', Sound', NEW r \in Roles, NEW S, Hands(r, S) PROVE Plays(S)
<1>1. Aside(r)
  BY DEF Hands
<1>2. \A q \in Roles : q # r =>
        /\ SessionOf(q)' = SessionOf(q) /\ (Lives(q) => RoleOf(q)' = RoleOf(q))
        /\ \A c : Owns(c, q)' <=> Owns(c, q)
  BY <1>1, AsideFacts
<1>3. \A q \in Roles : SessionOf(q)' # 0 /\ SessionOf(q)' = SessionOf(r)' => q = r
  BY DEF Sound, IndexSound
<1>4. \A q \in Roles : SessionOf(q) # 0 => Lives(q)
  BY DEF SessionOf
<1>5. \A c \in Clients, q \in Roles :
        Owns(c, q) => Owns(c, q)' \/ Gone(c) \/ \E m \in S : m.to = GateOf[c] /\ Parts(m, c)
  BY <1>2 DEF Hands
<1>6. ASSUME NEW m \in S, NEW c \in Clients, NEW q \in Roles, Grants(m, c, q) PROVE Owns(c, q)'
  <2>1. Admits(m, r)
    BY <1>6 DEF Hands, Mild, Grants
  <2> QED BY <1>6, <2>1 DEF Admits, Grants, Owns
<1>7. ASSUME NEW q \in Roles, SessionOf(q)' # 0
      PROVE  \/ SessionOf(q)' = SessionOf(q) /\ RoleOf(q)'.gate = RoleOf(q).gate
             \/ ~ GivenOut(SessionOf(q)')
  <2>1. CASE q = r
    BY <1>7, <2>1 DEF Hands
  <2>2. CASE q # r
    BY <1>2, <1>4, <1>7, <2>2
  <2> QED BY <2>1, <2>2
<1>8. ASSUME NEW m \in S, NEW q \in Roles, m.fn = "rsp", SessionOf(q)' # 0, m.val = SessionOf(q)'
      PROVE  RoleOf(q)'.gate = m.cb[2]
  <2>1. Admits(m, r)
    BY <1>8 DEF Hands, Mild
  <2>2. q = r
    <3>1. CASE m.val = SessionOf(r)'
      BY <1>3, <1>8, <3>1
    <3>2. CASE ~ Held(m.val)
      BY <1>2, <1>8, <3>2 DEF Held
    <3> QED BY <2>1, <3>1, <3>2 DEF Admits
  <2> QED BY <2>1, <2>2 DEF Admits
<1>9. ASSUME NEW cb \in wcalls' \ wcalls, NEW q \in Roles,
             IsReconnect(cb), SessionOf(q)' # 0, cb[3] = SessionOf(q)'
      PROVE  RoleOf(q)'.gate = cb[2][2]
  <2>1. Rejoins(cb, r)
    BY <1>9 DEF Hands
  <2>2. q = r
    BY <1>3, <1>9, <2>1 DEF Rejoins
  <2> QED BY <2>1, <2>2 DEF Rejoins
<1> QED BY <1>5, <1>6, <1>7, <1>8, <1>9 DEF Plays

LEMMA LeavesPlays ==
  ASSUME NEW S, Leaves(S) PROVE Plays(S)
<1>1. UNCHANGED <<objs, role_id_to_role>>
  BY DEF Leaves
<1>2. \A q \in Roles : /\ SessionOf(q)' = SessionOf(q) /\ RoleOf(q)' = RoleOf(q)
                       /\ \A c : Owns(c, q)' <=> Owns(c, q)
  BY <1>1 DEF SessionOf, RoleOf, Owns, Using, Lives
<1> QED BY <1>2 DEF Plays, Leaves, Mild, Grants

\* The tables of the world keep their roles.
LEMMA FollowsRoles ==
  ASSUME WorldInv, Sound, Follows, NEW o \in Tables
  PROVE  objs'[o].role = objs[o].role
<1>1. objs \in [Ids -> RoleObj \cup {None}] /\ o \in Ids
  BY DEF WorldInv, WTypeOK, Tables
<1>2. CASE Kept
  BY <1>2 DEF Kept
<1>3. CASE \E r \in Roles, new \in RoleObj : Changed(r, new) \/ Removed(r, new)
  <2>1. PICK r \in Roles, new \in RoleObj : Changed(r, new) \/ Removed(r, new)
    BY <1>3
  <2>2. Lives(r) /\ new.role = r /\ objs' = [objs EXCEPT ![role_id_to_role[r]] = new]
    BY <2>1 DEF Changed, Removed
  <2>3. RoleOf(r).role = r /\ RoleOf(r) = objs[role_id_to_role[r]]
    BY <2>2, LivingRole
  <2> QED BY <1>1, <2>2, <2>3
<1>4. CASE \E r \in Roles, s \in Ids, new \in RoleObj : Created(r, s, new)
  <2>1. PICK r \in Roles, s \in Ids, new \in RoleObj : Created(r, s, new)
    BY <1>4
  <2>2. objs' = [objs EXCEPT ![s] = new] /\ last_session_id < s
    BY <2>1 DEF Created
  <2>3. o <= last_session_id
    BY DEF Sound, TablesSound
  <2>4. last_session_id \in Nat /\ o \in Nat /\ s \in Nat
    BY <1>1, NatCounters, IdFacts
  <2>5. o # s
    BY <2>2, <2>3, <2>4
  <2> QED BY <1>1, <2>2, <2>5
<1> QED BY <1>2, <1>3, <1>4 DEF Follows

LEMMA SteersAnswers ==
  ASSUME WorldInv, WorldInv', Sound, Sound', Follows, Steers, AnswersSound PROVE AnswersSound'
<1>1. PICK S : Leaves(S) \/ \E r \in Roles : Hands(r, S)
  BY DEF Steers
<1>2. ASSUME NEW cb \in wcalls, IsReconnect(cb) PROVE objs'[cb[4]].role = cb[2][4]
  <2>1. cb[4] \in Tables
    BY <1>2, TablesAre DEF IsReconnect
  <2> QED BY <1>2, <2>1, FollowsRoles DEF AnswersSound
<1>3. CASE Leaves(S)
  <2>1. UNCHANGED <<objs, role_id_to_role>>
    BY <1>3 DEF Leaves
  <2>2. \A q \in Roles : RoleOf(q)' = RoleOf(q) /\ (Launching(q)' <=> Launching(q))
    BY <2>1 DEF RoleOf, Launching, Lives
  <2>3. \A cb \in wcalls' : IsReconnect(cb) => cb \in wcalls
    BY <1>3 DEF Leaves
  <2>4. \A q \in Roles : Launching(q)' => RoleOf(q)'.cached[2] = RoleOf(q)'.gate /\ RoleOf(q)'.cached[4] = q
    BY <2>2 DEF AnswersSound
  <2>5. \A cb \in wcalls' : IsReconnect(cb) => objs'[cb[4]].role = cb[2][4]
    BY <1>2, <2>3
  <2> QED BY <2>4, <2>5 DEF AnswersSound, IsReconnect
<1>4. CASE \E r \in Roles : Hands(r, S)
  <2>1. PICK r \in Roles : Hands(r, S)
    BY <1>4
  <2>2. Aside(r)
    BY <2>1 DEF Hands
  <2>3. ASSUME NEW q \in Roles, Launching(q)'
        PROVE  RoleOf(q)'.cached[2] = RoleOf(q)'.gate /\ RoleOf(q)'.cached[4] = q
    <3>1. CASE q = r
      BY <2>1, <2>3, <3>1 DEF Hands
    <3>2. CASE q # r
      <4>1. Launching(q) /\ RoleOf(q)' = RoleOf(q)
        BY <2>2, <2>3, <3>2, AsideFacts DEF Launching
      <4> QED BY <4>1 DEF AnswersSound
    <3> QED BY <3>1, <3>2
  <2>4. ASSUME NEW cb \in wcalls', IsReconnect(cb) PROVE objs'[cb[4]].role = cb[2][4]
    <3>1. CASE cb \in wcalls
      BY <1>2, <2>4, <3>1
    <3>2. CASE cb \notin wcalls
      <4>1. Rejoins(cb, r)
        BY <2>1, <2>4, <3>2 DEF Hands
      <4>2. Lives(r)' => RoleOf(r)'.role = r
        BY DEF WorldInv, HeapOK
      <4> QED BY <4>1, <4>2 DEF Rejoins, RoleOf
    <3> QED BY <3>1, <3>2
  <2> QED BY <2>3, <2>4 DEF AnswersSound, IsReconnect
<1> QED BY <1>1, <1>3, <1>4

LEMMA TacitLogouts ==
  ASSUME UNCHANGED <<clients, gcalls>>, Tacit, NEW in, Heeds(in), LogoutsSound PROVE LogoutsSound'
<1>1. ASSUME NEW g \in Gates PROVE Pending(CallsOf(g), Back(g), Out(g))'
  <2>1. PICK S : Sent(S) /\ \A m \in S : m.cb[1] # "logout"
    BY DEF Tacit
  <2>2. PICK T : T = {m \in S : m.to = g}
    OBVIOUS
  <2>3. After(Out(g), Out(g)', T) /\ \A m \in T : m.cb[1] # "logout"
    BY <2>1, <2>2 DEF Sent
  <2>4. Back(g)' = Back(g) \/ Rest(Back(g), Back(g)')
    BY DEF Heeds
  <2>5. CallsOf(g)' = CallsOf(g)
    BY DEF CallsOf
  <2>6. PICK calls, up, down, up2, down2 :
          /\ calls = CallsOf(g) /\ up = Back(g) /\ down = Out(g)
          /\ up2 = Back(g)' /\ down2 = Out(g)'
    OBVIOUS
  <2>7. Pending(calls, up, down)
    BY <2>6 DEF LogoutsSound
  <2>8. Pending(calls, up2, down2)
    BY <2>3, <2>4, <2>6, <2>7, PendingStays
  <2> QED BY <2>5, <2>6, <2>8
<1>2. \A cb \in gcalls' : cb[3] <= clients'[cb[2]].n
  BY DEF LogoutsSound
<1> QED BY <1>1, <1>2 DEF LogoutsSound

LEMMA SteersOrdered ==
  ASSUME WorldInv, WorldInv', Sound, Sound', Queues, Follows, UNCHANGED <<clients, gcalls>>,
         Ordered, Steers, NEW in, Heeds(in), Tacit \/ LogoutsSound'
  PROVE  Ordered'
<1>1. PICK S : Sent(S) /\ (Leaves(S) \/ \E r \in Roles : Hands(r, S))
  BY DEF Steers
<1>2. Plays(S)
  BY <1>1, HandsPlays, LeavesPlays
<1>3. OwnersSound'
  BY <1>1, <1>2, PlaysOwners DEF Ordered
<1>4. BearersSound'
  BY <1>1, <1>2, PlaysBearers DEF Ordered
<1>5. AnswersSound'
  BY SteersAnswers DEF Ordered
<1>6. LogoutsSound'
  BY TacitLogouts DEF Ordered
<1> QED BY <1>3, <1>4, <1>5, <1>6 DEF Ordered

LEMMA Replies ==
  /\ \A rsp, e, s : /\ Reply(rsp, e, s).fn = "rsp" /\ Reply(rsp, e, s).cb = rsp
                    /\ Reply(rsp, e, s).err = e /\ Reply(rsp, e, s).val = s
                    /\ Reply(rsp, e, s).to = GateOf[rsp[2]]
  /\ \A c : Kick(c).to = GateOf[c] /\ Kick(c).cb[1] = "nil" /\ Parts(Kick(c), c)
  /\ \A g, r, c, cb : ChangeClient(g, r, c, cb).cb = cb
  /\ \A fn, c, n, r : LET rsp == GateCb(fn, c, n, r) IN
                      rsp[1] = fn /\ rsp[2] = c /\ rsp[4] = r
  /\ NoCb[1] = "nil"
BY DEF Reply, Answer, Kick, Call, Parts, ChangeClient, GateCb, NoCb

LEMMA MildMessages ==
  /\ \A c : Mild(Kick(c))
  /\ \A g, r, c, cb : Mild(ChangeClient(g, r, c, cb))
  /\ \A g, args, cb : Mild(Call(g, "launch_role", args, cb))
  /\ \A r : Mild(ReleaseCall(r))
  /\ \A rsp, e : e # "ok" \/ rsp[1] = "logout" => Mild(Reply(rsp, e, 0))
BY DEF Mild, Kick, ChangeClient, Call, ReleaseCall, Reply, Answer

-----------------------------------------------------------------------------
(* The handlers of the world, when none of them has died and no call expired. *)

Handled(in) == Steers /\ Tacit /\ Heeds(in)

LEMMA HandledIf ==
  ASSUME NEW in, NEW S, Sent(S), Heeds(in), \A m \in S : m.cb[1] # "logout",
         Leaves(S) \/ \E r \in Roles : Hands(r, S)
  PROVE  Handled(in)
BY DEF Handled, Steers, Tacit

\* A handler that refuses, or sends nothing to the gates, and changes no table.
LEMMA LeavesHandled ==
  ASSUME Queues, NEW in, ToWorld(in), Takes(in), NEW m, Mild(m), m.cb[1] # "logout",
         Deliver(in, World, <<m>>) \/ Deliver(in, World, <<>>),
         UNCHANGED <<objs, role_id_to_role>>, \A cb \in wcalls' \ wcalls : ~ IsReconnect(cb)
  PROVE  Handled(in)
<1>1. CASE Deliver(in, World, <<m>>)
  <2>1. PICK S : S = {m} /\ Sent(S) /\ Heeds(in)
    BY <1>1, WorldSendsFew
  <2>2. Leaves(S) /\ \A k \in S : k.cb[1] # "logout"
    BY <2>1 DEF Leaves
  <2> QED BY <2>1, <2>2, HandledIf
<1>2. CASE Deliver(in, World, <<>>)
  <2>1. PICK S : S = {} /\ Sent(S) /\ Heeds(in)
    BY <1>2, WorldSendsFew
  <2>2. Leaves(S) /\ \A k \in S : k.cb[1] # "logout"
    BY <2>1 DEF Leaves
  <2> QED BY <2>1, <2>2, HandledIf
<1> QED BY <1>1, <1>2

\* A role that has a table before and after.
LEMMA TableTurns ==
  ASSUME WorldInv, NEW r \in Roles, Lives(r), NEW new,
         objs' = [objs EXCEPT ![role_id_to_role[r]] = new], UNCHANGED role_id_to_role
  PROVE  /\ Aside(r) /\ Lives(r)' /\ RoleOf(r)' = new
         /\ SessionOf(r)' = new.session /\ SessionOf(r) = RoleOf(r).session
         /\ Using(r)' <=> new.state = "using"
         /\ Launching(r)' <=> new.state = "launch"
         /\ \A c : (Owns(c, r)' <=> new.state = "using" /\ new.gate = c)
         /\ \A c : (Owns(c, r) <=> RoleOf(r).state = "using" /\ RoleOf(r).gate = c)
<1>1. role_id_to_role[r] \in Tables
  BY LivingRole
<1>2. objs'[role_id_to_role[r]] = new /\ \A o \in Tables : o # role_id_to_role[r] => objs'[o] = objs[o]
  BY <1>1 DEF Tables, WorldInv, WTypeOK
<1>3. Aside(r)
  BY <1>2, AsideIf
<1>4. Lives(r)' /\ RoleOf(r)' = new
  BY <1>2 DEF Lives, RoleOf
<1>5. SessionOf(r)' = new.session /\ SessionOf(r) = RoleOf(r).session
  BY <1>4 DEF SessionOf
<1> QED BY <1>3, <1>4, <1>5 DEF Using, Launching, Owns

\* A role that is no longer in memory.
LEMMA RoleForgotten ==
  ASSUME WorldInv, NEW r \in Roles, Lives(r), RoleOf(r).state # "using", NEW new,
         objs' = [objs EXCEPT ![role_id_to_role[r]] = new],
         role_id_to_role' = Unmap(role_id_to_role, {r}), wcalls' \subseteq wcalls,
         NEW S, \A m \in S : Mild(m)
  PROVE  Hands(r, S)
<1>1. role_id_to_role[r] \in Tables
  BY LivingRole
<1>2. \A o \in Tables : o # role_id_to_role[r] => objs'[o] = objs[o]
  BY <1>1 DEF Tables, WorldInv, WTypeOK
<1>3. /\ \A p \in Roles : p # r => role_id_to_role'[p] = role_id_to_role[p]
      /\ role_id_to_role'[r] = 0
  BY DEF Unmap, WorldInv, WTypeOK
<1>4. Aside(r)
  BY <1>2, <1>3, AsideIf
<1>5. ~ Lives(r)'
  BY <1>3 DEF Lives
<1>6. SessionOf(r)' = 0 /\ ~ Launching(r)' /\ \A c : ~ Owns(c, r)
  BY <1>5 DEF SessionOf, Launching, Owns, Using
<1> QED BY <1>4, <1>6 DEF Hands

LEMMA LaunchAbsentHands ==
  ASSUME WorldInv, Sound, Queues, ~ DrewHeld, NEW in, ToWorld(in), Takes(in),
         NEW c \in Clients, NEW n \in CallIds, NEW r \in Roles, NEW rsp, rsp = GateCb("launch", c, n, r),
         LaunchAbsent(in, rsp, c, r)
  PROVE  Handled(in)
<1>0. rsp[1] = "launch" /\ rsp[2] = c /\ rsp[4] = r
  BY Replies
<1>1. CASE Deliver(in, World, <<Reply(rsp, "refused", 0)>>) /\ UNCHANGED worldVars
  <2>1. PICK m : m = Reply(rsp, "refused", 0)
    OBVIOUS
  <2>2. Mild(m) /\ m.cb[1] # "logout"
    BY <1>0, <2>1, MildMessages, Replies
  <2>3. UNCHANGED <<objs, role_id_to_role>> /\ wcalls' = wcalls
    BY <1>1 DEF worldVars
  <2> QED BY <1>1, <2>1, <2>2, <2>3, LeavesHandled
<1>2. ASSUME NEW g \in Games, NEW s, s = last_session_id + 1, s \in Ids, ~ Lives(r),
             last_session_id' = s, NEW new,
             new.state = "launch", new.session = s, new.gate = c, new.cached = rsp,
             objs' = [objs EXCEPT ![s] = new],
             role_id_to_role' = [role_id_to_role EXCEPT ![r] = s],
             wcalls' = wcalls \cup {LaunchCb(s, r)},
             Deliver(in, World, <<Call(g, "launch_role", <<r>>, LaunchCb(s, r))>>)
      PROVE  Handled(in)
  <2>1. last_session_id < s /\ s <= last_session_id'
    BY <1>2, NatCounters
  <2>2. ~ Held(s)
    BY <1>2, <2>1, FreshDrawn
  <2>3. s \notin Tables
    <3>1. \A o \in Tables : o <= last_session_id /\ o \in Nat
      BY IdFacts DEF Sound, TablesSound, Tables
    <3> QED BY <2>1, <3>1, NatCounters
  <2>4. /\ \A o \in Tables : objs'[o] = objs[o]
        /\ objs'[s] = new /\ role_id_to_role'[r] = s /\ s # 0
        /\ \A p \in Roles : p # r => role_id_to_role'[p] = role_id_to_role[p]
    BY <1>2, <2>3, IdFacts DEF WorldInv, WTypeOK, Tables
  <2>5. Aside(r)
    BY <2>4, AsideIf
  <2>6. Lives(r)' /\ RoleOf(r)' = new /\ SessionOf(r)' = s /\ \A d : ~ Owns(d, r)
    BY <1>2, <2>4 DEF Lives, RoleOf, SessionOf, Owns, Using
  <2>7. PICK m : m = Call(g, "launch_role", <<r>>, LaunchCb(s, r))
    OBVIOUS
  <2>8. Mild(m) /\ m.cb[1] # "logout"
    BY <2>7, MildMessages DEF Call, LaunchCb
  <2>9. \A cb \in wcalls' \ wcalls : ~ IsReconnect(cb)
    BY <1>2 DEF IsReconnect, LaunchCb
  <2>10. PICK S : S = {m} /\ Sent(S) /\ Heeds(in)
    BY <1>2, <2>7, WorldSendsFew
  <2>11. ~ GivenOut(s)
    BY <2>2 DEF Held
  <2>12. Hands(r, S)
    BY <1>0, <1>2, <2>5, <2>6, <2>8, <2>9, <2>10, <2>11 DEF Hands
  <2> QED BY <2>8, <2>10, <2>12, HandledIf
<1>3. CASE \E g \in Games :
            LET s == last_session_id + 1 IN
            /\ s \in Ids
            /\ last_session_id' = s
            /\ objs' = [objs EXCEPT ![s] =
                   [role |-> r, state |-> "launch", session |-> s, gate |-> c,
                    token |-> TokenOf[c], cached |-> rsp, game |-> g, operas |-> {}]]
            /\ role_id_to_role' = [role_id_to_role EXCEPT ![r] = s]
            /\ wcalls' = wcalls \cup {LaunchCb(s, r)}
            /\ Deliver(in, World, <<Call(g, "launch_role", <<r>>, LaunchCb(s, r))>>)
  <2>1. PICK g \in Games, s \in Ids :
            /\ s = last_session_id + 1
            /\ last_session_id' = s
            /\ objs' = [objs EXCEPT ![s] =
                   [role |-> r, state |-> "launch", session |-> s, gate |-> c,
                    token |-> TokenOf[c], cached |-> rsp, game |-> g, operas |-> {}]]
            /\ role_id_to_role' = [role_id_to_role EXCEPT ![r] = s]
            /\ wcalls' = wcalls \cup {LaunchCb(s, r)}
            /\ Deliver(in, World, <<Call(g, "launch_role", <<r>>, LaunchCb(s, r))>>)
    BY <1>3
  <2>2. PICK new : new = [role |-> r, state |-> "launch", session |-> s, gate |-> c,
                    token |-> TokenOf[c], cached |-> rsp, game |-> g, operas |-> {}]
    OBVIOUS
  <2>3. new.state = "launch" /\ new.session = s /\ new.gate = c /\ new.cached = rsp
    BY <2>2
  <2>4. ~ Lives(r)
    BY DEF LaunchAbsent
  <2> QED BY <1>2, <2>1, <2>2, <2>3, <2>4
<1> QED BY <1>1, <1>3 DEF LaunchAbsent

LEMMA LaunchReleasingHands ==
  ASSUME Queues, NEW in, ToWorld(in), Takes(in), NEW c, NEW r, NEW rsp, rsp[1] # "logout",
         LaunchReleasing(in, rsp, c, r)
  PROVE  Handled(in)
<1>1. PICK m : m = Reply(rsp, "refused", 0)
  OBVIOUS
<1>2. Mild(m) /\ m.cb[1] # "logout"
  BY <1>1, MildMessages, Replies
<1>3. UNCHANGED <<objs, role_id_to_role>> /\ wcalls' = wcalls /\ Deliver(in, World, <<m>>)
  BY <1>1 DEF LaunchReleasing, worldVars
<1> QED BY <1>2, <1>3, LeavesHandled

LEMMA LaunchIdleHands ==
  ASSUME WorldInv, Sound, Queues, ~ DrewHeld, NEW in, ToWorld(in), Takes(in),
         NEW c \in Clients, NEW r \in Roles, NEW rsp, rsp[1] = "launch", rsp[2] = c, rsp[4] = r,
         LaunchIdle(in, rsp, c, r)
  PROVE  Handled(in)
<1>1. PICK t, s, a, b :
        /\ t = last_session_id + 1 /\ s = last_session_id + 2
        /\ a = Reply(rsp, "ok", t) /\ b = ChangeClient(RoleOf(r).game, r, c, NoCb)
  OBVIOUS
<1>2. /\ Lives(r) /\ RoleOf(r).state = "idle" /\ s \in Ids /\ last_session_id' = s
      /\ UNCHANGED <<role_id_to_role, wcalls>>
  BY <1>1 DEF LaunchIdle
<1>3. Deliver(in, World, <<a, b>>)
  BY <1>1 DEF LaunchIdle
<1>4. PICK new : new = [RoleOf(r) EXCEPT !.state = "using", !.session = s, !.gate = c, !.token = TokenOf[c]]
  OBVIOUS
<1>5. RoleOf(r) \in RoleObj /\ RoleOf(r) = objs[role_id_to_role[r]] /\ role_id_to_role[r] \in Ids
  BY <1>2, LivingRole DEF Tables
<1>6. /\ new.state = "using" /\ new.session = s /\ new.gate = c
      /\ objs' = [objs EXCEPT ![role_id_to_role[r]] = new]
  BY <1>1, <1>4, <1>5 DEF LaunchIdle, RoleObj, WorldInv, WTypeOK
<1>7. /\ last_session_id < s /\ s <= last_session_id' /\ last_session_id < t /\ t <= last_session_id'
      /\ t # s
  BY <1>1, <1>2, NatCounters
<1>8. t \in Ids
  BY <1>1, <1>2, <1>7, NatCounters, ConstantsAssumption DEF Ids
<1>9. ~ Held(s) /\ ~ Held(t)
  BY <1>2, <1>7, <1>8, FreshDrawn
<1>10. PICK S : S = {a, b} /\ Sent(S) /\ Heeds(in)
  BY <1>3, WorldSendsFew
<1>11. /\ Aside(r) /\ Lives(r)' /\ RoleOf(r)' = new /\ SessionOf(r)' = s /\ Using(r)'
       /\ ~ Launching(r)' /\ \A d : ~ Owns(d, r)
  BY <1>2, <1>6, TableTurns
<1>12. a.fn = "rsp" /\ a.cb = rsp /\ a.val = t /\ Mild(b) /\ b.cb[1] # "logout"
  BY <1>1, MildMessages, Replies
<1>13. Admits(a, r)
  BY <1>6, <1>7, <1>9, <1>11, <1>12 DEF Admits
<1>14. Hands(r, S)
  BY <1>2, <1>9, <1>10, <1>11, <1>12, <1>13 DEF Hands, Held
<1> QED BY <1>10, <1>12, <1>14, HandledIf

LEMMA LaunchUsingHands ==
  ASSUME WorldInv, Sound, Queues, ~ DrewHeld, NEW in, ToWorld(in), Takes(in),
         NEW c \in Clients, NEW r \in Roles, NEW rsp, rsp[1] = "launch", rsp[2] = c, rsp[4] = r,
         LaunchUsing(in, rsp, c, r)
  PROVE  Handled(in)
<1>1. PICK b : b = ChangeClient(RoleOf(r).game, r, c, NoCb)
  OBVIOUS
<1>2. /\ Lives(r) /\ RoleOf(r).state = "using" /\ UNCHANGED <<role_id_to_role, wcalls>>
  BY DEF LaunchUsing
<1>3. /\ RoleOf(r) \in RoleObj /\ RoleOf(r) = objs[role_id_to_role[r]]
      /\ role_id_to_role[r] \in Ids
  BY <1>2, LivingRole DEF Tables
<1>4. Mild(b) /\ b.cb[1] # "logout"
  BY <1>1, MildMessages, Replies
<1>5. CASE /\ objs' = [objs EXCEPT ![role_id_to_role[r]].token = TokenOf[c]]
           /\ Deliver(in, World, <<Reply(rsp, "refused", 0), b>>)
  <2>1. PICK new : new = [RoleOf(r) EXCEPT !.token = TokenOf[c]]
    OBVIOUS
  <2>2. /\ new.state = "using" /\ new.session = RoleOf(r).session /\ new.gate = RoleOf(r).gate
        /\ objs' = [objs EXCEPT ![role_id_to_role[r]] = new]
    BY <1>2, <1>3, <1>5, <2>1 DEF RoleObj, WorldInv, WTypeOK
  <2>3. PICK a : a = Reply(rsp, "refused", 0)
    OBVIOUS
  <2>4. PICK S : S = {a, b} /\ Sent(S) /\ Heeds(in)
    BY <1>5, <2>3, WorldSendsFew
  <2>5. Mild(a) /\ a.cb[1] # "logout"
    BY <2>3, MildMessages, Replies
  <2>6. /\ Aside(r) /\ RoleOf(r)' = new /\ ~ Launching(r)'
        /\ SessionOf(r)' = new.session /\ SessionOf(r) = RoleOf(r).session
        /\ \A d : (Owns(d, r)' <=> new.state = "using" /\ new.gate = d)
        /\ \A d : (Owns(d, r) <=> RoleOf(r).state = "using" /\ RoleOf(r).gate = d)
    BY <1>2, <2>2, TableTurns
  <2>7. Hands(r, S)
    BY <1>2, <1>4, <2>2, <2>4, <2>5, <2>6 DEF Hands
  <2> QED BY <1>4, <2>4, <2>5, <2>7, HandledIf
<1>6. ASSUME NEW s, s = last_session_id + 1, s \in Ids, last_session_id' = s,
             objs' = [objs EXCEPT ![role_id_to_role[r]].session = s, ![role_id_to_role[r]].gate = c,
                                  ![role_id_to_role[r]].token = TokenOf[c]],
             Deliver(in, World, KickOf(r) \o <<Reply(rsp, "ok", s), b>>)
      PROVE  Handled(in)
  <2>1. PICK new : new = [RoleOf(r) EXCEPT !.session = s, !.gate = c, !.token = TokenOf[c]]
    OBVIOUS
  <2>2. /\ new.state = "using" /\ new.session = s /\ new.gate = c
        /\ objs' = [objs EXCEPT ![role_id_to_role[r]] = new]
    BY <1>2, <1>3, <1>6, <2>1 DEF RoleObj, WorldInv, WTypeOK
  <2>3. last_session_id < s /\ s <= last_session_id'
    BY <1>6, NatCounters
  <2>4. ~ Held(s)
    BY <1>6, <2>3, FreshDrawn
  <2>5. PICK a, k : a = Reply(rsp, "ok", s) /\ k = Kick(RoleOf(r).gate)
    OBVIOUS
  <2>6. /\ a.fn = "rsp" /\ a.cb = rsp /\ a.val = s /\ a.cb[1] # "logout"
        /\ Mild(k) /\ k.cb[1] # "logout"
        /\ \A d : RoleOf(r).gate = d => k.to = GateOf[d] /\ Parts(k, d)
    BY <2>5, MildMessages, Replies
  <2>7. /\ Aside(r) /\ RoleOf(r)' = new /\ SessionOf(r)' = s /\ Using(r)'
        /\ ~ Launching(r)' /\ \A d : Owns(d, r) => RoleOf(r).gate = d
    BY <1>2, <2>2, TableTurns
  <2>8. Admits(a, r)
    BY <2>2, <2>6, <2>7 DEF Admits
  <2>9. \E S : /\ Sent(S) /\ Heeds(in) /\ S \subseteq {a, b, k}
               /\ RoleOf(r).gate \in Clients => k \in S
    <3>1. CASE RoleOf(r).gate = None
      <4>1. KickOf(r) \o <<a, b>> = <<a, b>>
        BY <3>1, ConcatFew DEF KickOf
      <4>2. Sent({a, b}) /\ Heeds(in)
        BY <1>6, <2>5, <4>1, WorldSendsFew
      <4> QED BY <3>1, <4>2, ConstantsAssumption
    <3>2. CASE RoleOf(r).gate # None
      <4>1. Deliver(in, World, <<k>> \o <<a, b>>)
        BY <1>6, <2>5, <3>2 DEF KickOf
      <4>2. Sent({k, a, b}) /\ Heeds(in)
        BY <4>1, WorldSendsFew
      <4> QED BY <4>2
    <3> QED BY <3>1, <3>2
  <2>10. PICK S : /\ Sent(S) /\ Heeds(in) /\ S \subseteq {a, b, k}
                  /\ RoleOf(r).gate \in Clients => k \in S
    BY <2>9
  <2>11. Hands(r, S)
    BY <1>2, <1>4, <2>4, <2>6, <2>7, <2>8, <2>10 DEF Hands, Held
  <2> QED BY <1>4, <2>6, <2>10, <2>11, HandledIf
<1> QED BY <1>1, <1>5, <1>6 DEF LaunchUsing

LEMMA LaunchLaunchingHands ==
  ASSUME WorldInv, Queues, AnswersSound, aborted' = {}, NEW in, ToWorld(in), Takes(in),
         NEW c \in Clients, NEW r \in Roles, NEW rsp, rsp[1] = "launch", LaunchLaunching(in, rsp, c, r)
  PROVE  Handled(in)
<1>1. /\ Lives(r) /\ RoleOf(r).state = "launch" /\ UNCHANGED <<role_id_to_role, wcalls>>
      /\ objs' = [objs EXCEPT ![role_id_to_role[r]].token = TokenOf[c]]
      /\ Deliver(in, World, <<Reply(rsp, "refused", 0)>>)
  BY DEF LaunchLaunching
<1>2. /\ RoleOf(r) \in RoleObj /\ RoleOf(r) = objs[role_id_to_role[r]]
      /\ role_id_to_role[r] \in Ids
  BY <1>1, LivingRole DEF Tables
<1>3. PICK new, a : new = [RoleOf(r) EXCEPT !.token = TokenOf[c]] /\ a = Reply(rsp, "refused", 0)
  OBVIOUS
<1>4. /\ new.state = "launch" /\ new.session = RoleOf(r).session /\ new.gate = RoleOf(r).gate
      /\ new.cached = RoleOf(r).cached
      /\ objs' = [objs EXCEPT ![role_id_to_role[r]] = new]
  BY <1>1, <1>2, <1>3 DEF RoleObj, WorldInv, WTypeOK
<1>5. PICK S : S = {a} /\ Sent(S) /\ Heeds(in)
  BY <1>1, <1>3, WorldSendsFew
<1>6. Mild(a) /\ a.cb[1] # "logout"
  BY <1>3, MildMessages, Replies
<1>7. /\ Aside(r) /\ RoleOf(r)' = new /\ \A d : ~ Owns(d, r)
      /\ SessionOf(r)' = new.session /\ SessionOf(r) = RoleOf(r).session
  BY <1>1, <1>4, TableTurns
<1>8. RoleOf(r).cached[2] = RoleOf(r).gate /\ RoleOf(r).cached[4] = r
  BY <1>1 DEF AnswersSound, Launching
<1>9. Hands(r, S)
  BY <1>1, <1>4, <1>5, <1>6, <1>7, <1>8 DEF Hands
<1> QED BY <1>5, <1>6, <1>9, HandledIf

LEMMA FailActionHands ==
  ASSUME WorldInv, Queues, aborted' = {}, NEW in, ToWorld(in), Takes(in), NEW err, err # "ok",
         NEW r \in Roles, Lives(r), RoleOf(r).state = "launch", wcalls' \subseteq wcalls,
         FailAction(role_id_to_role[r], in, err)
  PROVE  Handled(in)
<1>1. /\ RoleOf(r) \in RoleObj /\ RoleOf(r) = objs[role_id_to_role[r]] /\ RoleOf(r).role = r
      /\ role_id_to_role[r] \in Ids
  BY LivingRole DEF Tables
<1>2. /\ RoleOf(r).cached # None
      /\ objs' = [objs EXCEPT ![role_id_to_role[r]].cached = None]
      /\ role_id_to_role' = Unmap(role_id_to_role, {r})
      /\ Deliver(in, World, <<Reply(RoleOf(r).cached, err, 0)>>)
  BY <1>1 DEF FailAction
<1>3. PICK new, a : new = [RoleOf(r) EXCEPT !.cached = None] /\ a = Reply(RoleOf(r).cached, err, 0)
  OBVIOUS
<1>4. objs' = [objs EXCEPT ![role_id_to_role[r]] = new]
  BY <1>1, <1>2, <1>3 DEF WorldInv, WTypeOK
<1>5. RoleOf(r).cached[1] = "launch"
  BY <1>1, <1>2, Replies DEF RoleObj, LaunchRsps
<1>6. Mild(a) /\ a.cb[1] # "logout"
  BY <1>3, <1>5, MildMessages, Replies
<1>7. PICK S : S = {a} /\ Sent(S) /\ Heeds(in)
  BY <1>2, <1>3, WorldSendsFew
<1>8. Hands(r, S)
  BY <1>2, <1>4, <1>6, <1>7, RoleForgotten
<1> QED BY <1>6, <1>7, <1>8, HandledIf

LEMMA RpcRspLaunchRoleHands ==
  ASSUME WorldInv, Sound, Queues, aborted' = {}, NEW in, ToWorld(in), Takes(in),
         NEW s \in Ids, NEW r \in Roles, NEW err, RpcRspLaunchRole(in, s, r, err)
  PROVE  Handled(in)
<1>1. /\ LaunchCb(s, r) \in wcalls /\ role_id_to_role[r] = s /\ objs[s].state = "launch"
      /\ s # 0
  BY IdFacts DEF RpcRspLaunchRole, Sound, LaunchSound
<1>2. Lives(r) /\ RoleOf(r).state = "launch"
  BY <1>1 DEF Lives, RoleOf
<1>3. RoleOf(r) \in RoleObj
  BY <1>2, LivingRole
<1>4. ASSUME UNCHANGED <<objs, role_id_to_role>>, \A cb \in wcalls' \ wcalls : ~ IsReconnect(cb),
             NEW m, Mild(m), m.cb[1] # "logout",
             Deliver(in, World, <<m>>) \/ Deliver(in, World, <<>>)
      PROVE  Handled(in)
  BY <1>4, LeavesHandled
<1>5. CASE /\ wcalls' = wcalls \ {LaunchCb(s, r)} /\ UNCHANGED <<objs, role_id_to_role>>
           /\ \/ Deliver(in, World, <<>>)
              \/ /\ RoleOf(r).cached # None
                 /\ Deliver(in, World, <<Reply(RoleOf(r).cached, "refused", 0)>>)
  <2>1. CASE Deliver(in, World, <<>>)
    <3>1. PICK m : m = Kick(None)
      OBVIOUS
    <3>2. Mild(m) /\ m.cb[1] # "logout"
      BY <3>1, MildMessages, Replies
    <3> QED BY <1>4, <1>5, <2>1, <3>2
  <2>2. CASE /\ RoleOf(r).cached # None
             /\ Deliver(in, World, <<Reply(RoleOf(r).cached, "refused", 0)>>)
    <3>1. PICK m : m = Reply(RoleOf(r).cached, "refused", 0)
      OBVIOUS
    <3>2. RoleOf(r).cached[1] = "launch"
      BY <1>3, <2>2, Replies DEF RoleObj, LaunchRsps
    <3>3. Mild(m) /\ m.cb[1] # "logout"
      BY <3>1, <3>2, MildMessages, Replies
    <3> QED BY <1>4, <1>5, <2>2, <3>1, <3>3
  <2> QED BY <1>5, <2>1, <2>2
<1>6. CASE \E o \in {role_id_to_role[r]} :
             /\ wcalls' = (wcalls \ {LaunchCb(s, r)}) \cup {ChangeCb(o)}
             /\ Deliver(in, World, <<ChangeClient(RoleOf(r).game, r, RoleOf(r).gate, ChangeCb(o))>>)
             /\ UNCHANGED <<objs, role_id_to_role>>
  <2>1. PICK o : /\ wcalls' = (wcalls \ {LaunchCb(s, r)}) \cup {ChangeCb(o)}
             /\ Deliver(in, World, <<ChangeClient(RoleOf(r).game, r, RoleOf(r).gate, ChangeCb(o))>>)
             /\ UNCHANGED <<objs, role_id_to_role>>
    BY <1>6
  <2>2. PICK m : m = ChangeClient(RoleOf(r).game, r, RoleOf(r).gate, ChangeCb(o))
    OBVIOUS
  <2>3. Mild(m) /\ m.cb[1] # "logout"
    BY <2>2, MildMessages, Replies DEF ChangeCb
  <2>4. \A cb \in wcalls' \ wcalls : ~ IsReconnect(cb)
    BY <2>1 DEF IsReconnect, ChangeCb
  <2> QED BY <1>4, <2>1, <2>2, <2>3, <2>4
<1>7. CASE err # "ok" /\ wcalls' \subseteq wcalls /\ FailAction(role_id_to_role[r], in, err)
  BY <1>2, <1>7, FailActionHands
<1>8. \/ /\ wcalls' = wcalls \ {LaunchCb(s, r)} /\ UNCHANGED <<objs, role_id_to_role>>
         /\ \/ Deliver(in, World, <<>>)
            \/ /\ RoleOf(r).cached # None
               /\ Deliver(in, World, <<Reply(RoleOf(r).cached, "refused", 0)>>)
      \/ \E o \in {role_id_to_role[r]} :
             /\ wcalls' = (wcalls \ {LaunchCb(s, r)}) \cup {ChangeCb(o)}
             /\ Deliver(in, World, <<ChangeClient(RoleOf(r).game, r, RoleOf(r).gate, ChangeCb(o))>>)
             /\ UNCHANGED <<objs, role_id_to_role>>
      \/ err # "ok" /\ wcalls' = wcalls \ {LaunchCb(s, r)} /\ FailAction(role_id_to_role[r], in, err)
  BY <1>2 DEF RpcRspLaunchRole
<1> QED BY <1>5, <1>6, <1>7, <1>8

LEMMA LaunchClientChangedHands ==
  ASSUME WorldInv, Sound, Queues, GamesSound, AnswersSound, aborted' = {}, faults' = 0,
         NEW in, ToWorld(in), Takes(in),
         NEW o \in Ids, NEW err, LaunchClientChanged(in, o, err), Handles(ChangeCb(o), err)
  PROVE  Handled(in)
<1>1. ChangeCb(o) \in wcalls /\ wcalls' = wcalls \ {ChangeCb(o)}
  BY DEF LaunchClientChanged
<1>2. o \in Tables /\ Alive(o) /\ objs[o].state = "launch"
  BY <1>1, TablesAre DEF Sound, ChangeSound
<1>3. PICK r \in Roles : r = objs[o].role /\ Lives(r) /\ role_id_to_role[r] = o /\ RoleOf(r) = objs[o]
  BY <1>2, AliveTable DEF RoleOf
<1>4. RoleOf(r) \in RoleObj /\ RoleOf(r).cached # None /\ RoleOf(r).state = "launch"
  BY <1>2, <1>3, LivingRole DEF Sound, TablesSound
<1>5. err = "ok"
  <2>1. PICK cb : cb = ChangeCb(o) /\ cb[1] # "_rpc_rsp_launch_role"
    BY ClosuresDiffer
  <2> QED BY <2>1, AnswersOk
<1>6. PICK new, a : /\ new = [RoleOf(r) EXCEPT !.state = "using", !.cached = None]
                    /\ a = Reply(RoleOf(r).cached, "ok", RoleOf(r).session)
  OBVIOUS
<1>7. /\ objs' = [objs EXCEPT ![o].state = "using", ![o].cached = None]
      /\ Deliver(in, World, <<a>>) /\ UNCHANGED role_id_to_role
  BY <1>3, <1>4, <1>5, <1>6 DEF LaunchClientChanged
<1>8. /\ new.state = "using" /\ new.session = RoleOf(r).session /\ new.gate = RoleOf(r).gate
      /\ objs' = [objs EXCEPT ![role_id_to_role[r]] = new]
  BY <1>3, <1>4, <1>6, <1>7 DEF RoleObj, WorldInv, WTypeOK
<1>9. /\ RoleOf(r).cached[1] = "launch" /\ RoleOf(r).cached[2] = RoleOf(r).gate
      /\ RoleOf(r).cached[4] = r
  <2>1. RoleOf(r).cached[1] = "launch"
    BY <1>4, Replies DEF RoleObj, LaunchRsps
  <2> QED BY <1>3, <1>4, <2>1 DEF AnswersSound, Launching
<1>10. /\ Aside(r) /\ RoleOf(r)' = new /\ Using(r)' /\ ~ Launching(r)'
       /\ SessionOf(r)' = new.session /\ SessionOf(r) = RoleOf(r).session
       /\ \A d : ~ Owns(d, r)
  BY <1>3, <1>4, <1>7, <1>8, TableTurns
<1>11. a.fn = "rsp" /\ a.cb = RoleOf(r).cached /\ a.val = RoleOf(r).session
  BY <1>6, Replies
<1>12. Admits(a, r)
  BY <1>8, <1>9, <1>10, <1>11 DEF Admits
<1>13. PICK S : S = {a} /\ Sent(S) /\ Heeds(in)
  BY <1>7, WorldSendsFew
<1>14. Hands(r, S)
  BY <1>1, <1>8, <1>10, <1>12, <1>13 DEF Hands
<1> QED BY <1>9, <1>11, <1>13, <1>14, HandledIf

LEMMA ClientQuitHands ==
  ASSUME WorldInv, Sound, Queues, BearersSound, aborted' = {}, NEW in, ToWorld(in), Takes(in),
         NEW s \in IdOrNil, s # 0 => GivenOut(s) /\ Quits(s), ClientQuit(in, s)
  PROVE  Handled(in)
<1>1. wcalls' = wcalls
  BY DEF ClientQuit
<1>2. CASE Deliver(in, World, <<>>) /\ UNCHANGED <<objs, role_id_to_role>>
  <2>1. PICK m : m = Kick(None)
    OBVIOUS
  <2>2. Mild(m) /\ m.cb[1] # "logout"
    BY <2>1, MildMessages, Replies
  <2> QED BY <1>1, <1>2, <2>2, LeavesHandled
<1>3. CASE s # 0 /\ session_id_to_role[s] # 0
  <2>1. s \in Ids /\ GivenOut(s) /\ Quits(s)
    BY <1>3, IdFacts
  <2>2. PICK o, r : /\ o = session_id_to_role[s] /\ r = objs[o].role
                    /\ o \in Tables /\ objs[o].session = s /\ objs[o].state = "using"
                    /\ r \in Roles /\ Lives(r) /\ role_id_to_role[r] = o /\ RoleOf(r) = objs[o]
    BY <1>3, <2>1, GivenTable
  <2>3. PICK new, a : /\ new = Detached(RoleOf(r), "idle")
                      /\ a = ChangeClient(objs[o].game, objs[o].role, None, NoCb)
    OBVIOUS
  <2>4. /\ objs' = [objs EXCEPT ![o] = Detached(@, "idle")]
        /\ Deliver(in, World, <<a>>) /\ UNCHANGED role_id_to_role
    BY <1>3, <2>2, <2>3 DEF ClientQuit
  <2>5. /\ new.state = "idle" /\ new.session = 0
        /\ objs' = [objs EXCEPT ![role_id_to_role[r]] = new]
    BY <2>2, <2>3, <2>4 DEF Detached, Tables, RoleObj, WorldInv, WTypeOK
  <2>6. /\ Aside(r) /\ RoleOf(r)' = new /\ ~ Launching(r)'
        /\ SessionOf(r)' = new.session /\ SessionOf(r) = RoleOf(r).session
        /\ \A d : Owns(d, r) => RoleOf(r).gate = d
    BY <2>2, <2>4, <2>5, TableTurns
  <2>7. Gone(RoleOf(r).gate)
    BY <1>3, <2>1, <2>2, <2>6 DEF BearersSound
  <2>8. Mild(a) /\ a.cb[1] # "logout"
    BY <2>3, MildMessages, Replies
  <2>9. PICK S : S = {a} /\ Sent(S) /\ Heeds(in)
    BY <2>4, WorldSendsFew
  <2>10. Hands(r, S)
    BY <1>1, <2>2, <2>5, <2>6, <2>7, <2>8, <2>9 DEF Hands
  <2> QED BY <2>2, <2>8, <2>9, <2>10, HandledIf
<1> QED BY <1>2, <1>3 DEF ClientQuit

LEMMA OnFrameHands ==
  ASSUME WorldInv, Queues, NEW r \in Roles, OnFrame(r)
  PROVE  Handled(NoLink)
<1>1. /\ Lives(r) /\ RoleOf(r).state = "idle" /\ UNCHANGED role_id_to_role
      /\ objs' = Releasing(objs, r) /\ wcalls' = wcalls \cup {ReleaseCb(r, last_opera_id + 1)}
      /\ Deliver(NoLink, World, <<ReleaseCall(r)>>)
  BY DEF OnFrame, TryReleaseRole
<1>2. /\ RoleOf(r) \in RoleObj /\ RoleOf(r) = objs[role_id_to_role[r]] /\ role_id_to_role[r] \in Tables
      /\ RoleOf(r).session = 0
  BY <1>1, LivingRole DEF WorldInv, IdleTables, TableOK, Tables
<1>3. PICK new, a : /\ a = ReleaseCall(r)
                    /\ new = [RoleOf(r) EXCEPT !.state = "releasing", !.operas = @ \cup {last_opera_id + 1}]
  OBVIOUS
<1>4. /\ new.state = "releasing" /\ new.session = 0
      /\ objs' = [objs EXCEPT ![role_id_to_role[r]] = new]
  BY <1>1, <1>2, <1>3 DEF Releasing, RoleObj, Tables, WorldInv, WTypeOK
<1>5. /\ Aside(r) /\ ~ Launching(r)' /\ SessionOf(r)' = 0 /\ \A d : ~ Owns(d, r)
  BY <1>1, <1>4, TableTurns
<1>6. Mild(a) /\ a.cb[1] # "logout"
  BY <1>3, MildMessages DEF ReleaseCall, Call, ReleaseCb
<1>7. ToWorld(NoLink)
  BY DEF ToWorld
<1>8. PICK S : S = {a} /\ Sent(S) /\ Heeds(NoLink)
  BY <1>1, <1>3, <1>7, NoLinkIsNone, WorldSendsFew
<1>9. \A cb \in wcalls' \ wcalls : ~ IsReconnect(cb)
  BY <1>1 DEF IsReconnect, ReleaseCb
<1>10. Hands(r, S)
  BY <1>5, <1>6, <1>8, <1>9 DEF Hands
<1> QED BY <1>6, <1>8, <1>10, HandledIf

LEMMA RpcRspTryReleaseRoleHands ==
  ASSUME WorldInv, Sound, Queues, GamesSound, aborted' = {}, faults' = 0,
         NEW in, ToWorld(in), Takes(in), NEW r \in Roles, NEW opera \in Ids, NEW err,
         RpcRspTryReleaseRole(in, r, opera, err), Handles(ReleaseCb(r, opera), err)
  PROVE  Handled(in)
<1>1. err = "ok"
  <2>1. PICK cb : cb = ReleaseCb(r, opera) /\ cb[1] # "_rpc_rsp_launch_role"
    BY ClosuresDiffer
  <2> QED BY <2>1, AnswersOk
<1>2. wcalls' \subseteq wcalls /\ Deliver(in, World, <<>>)
  BY <1>1 DEF RpcRspTryReleaseRole
<1>3. CASE UNCHANGED <<objs, role_id_to_role>>
  <2>1. PICK m : m = Kick(None)
    OBVIOUS
  <2>2. Mild(m) /\ m.cb[1] # "logout"
    BY <2>1, MildMessages, Replies
  <2> QED BY <1>2, <1>3, <2>2, LeavesHandled
<1>4. CASE /\ Lives(r) /\ RoleOf(r).state = "releasing"
           /\ objs' = [objs EXCEPT ![role_id_to_role[r]].state = "released"]
           /\ role_id_to_role' = Unmap(role_id_to_role, {r})
  <2>1. PICK new : new = [RoleOf(r) EXCEPT !.state = "released"]
    OBVIOUS
  <2>2. RoleOf(r) = objs[role_id_to_role[r]] /\ role_id_to_role[r] \in Ids
    BY <1>4, LivingRole DEF Tables
  <2>3. objs' = [objs EXCEPT ![role_id_to_role[r]] = new]
    BY <1>4, <2>1, <2>2 DEF WorldInv, WTypeOK
  <2>4. PICK S : S = {} /\ Sent(S) /\ Heeds(in)
    BY <1>2, WorldSendsFew
  <2>5. RoleOf(r).state # "using" /\ \A m \in S : Mild(m)
    BY <1>4, <2>4
  <2>6. Hands(r, S)
    BY <1>2, <1>4, <2>3, <2>5, RoleForgotten
  <2> QED BY <2>4, <2>6, HandledIf
<1> QED BY <1>1, <1>3, <1>4 DEF RpcRspTryReleaseRole

LEMMA ReconnectRoleHands ==
  ASSUME WorldInv, Sound, Queues, ~ DrewHeld, NEW in, ToWorld(in), Takes(in),
         NEW c \in Clients, NEW r \in Roles, NEW rsp, rsp[1] = "reconnect", rsp[2] = c, rsp[4] = r,
         ReconnectRole(in, rsp, c, r)
  PROVE  Handled(in)
<1>1. UNCHANGED role_id_to_role
  BY DEF ReconnectRole
<1>2. CASE Deliver(in, World, <<>>) /\ UNCHANGED <<objs, wcalls>>
  <2>1. PICK m : m = Kick(None)
    OBVIOUS
  <2>2. Mild(m) /\ m.cb[1] # "logout"
    BY <2>1, MildMessages, Replies
  <2> QED BY <1>1, <1>2, <2>2, LeavesHandled
<1>3. ASSUME NEW o, o = role_id_to_role[r], NEW s, s = last_opera_id + 1, s \in Ids,
             Lives(r), RoleOf(r).state = "idle",
             objs' = [objs EXCEPT ![o].state = "using", ![o].session = s, ![o].gate = c],
             NEW cb, cb = ReconnectCb(rsp, s, o), wcalls' = wcalls \cup {cb},
             Deliver(in, World, <<ChangeClient(RoleOf(r).game, r, c, cb)>>)
      PROVE  Handled(in)
  <2>1. /\ RoleOf(r) \in RoleObj /\ RoleOf(r) = objs[o] /\ o \in Ids
    BY <1>3, LivingRole DEF Tables
  <2>2. PICK new, a : /\ new = [RoleOf(r) EXCEPT !.state = "using", !.session = s, !.gate = c]
                      /\ a = ChangeClient(RoleOf(r).game, r, c, cb)
    OBVIOUS
  <2>3. /\ new.state = "using" /\ new.session = s /\ new.gate = c
        /\ objs' = [objs EXCEPT ![role_id_to_role[r]] = new]
    BY <1>3, <2>1, <2>2 DEF RoleObj, WorldInv, WTypeOK
  <2>4. /\ Aside(r) /\ Lives(r)' /\ RoleOf(r)' = new /\ ~ Launching(r)'
        /\ SessionOf(r)' = s /\ \A d : ~ Owns(d, r)
    BY <1>1, <1>3, <2>3, TableTurns
  <2>5. /\ cb[1] = "_reconnect_role_game_change_client_cb" /\ cb[2] = rsp /\ cb[3] = s /\ cb[4] = o
    BY <1>3 DEF ReconnectCb
  <2>6. cb \notin wcalls
    <3>1. cb \in wcalls => s <= last_opera_id
      BY <2>5 DEF Sound, ReconnectSound
    <3>2. ~ (s <= last_opera_id)
      BY <1>3, NatCounters
    <3> QED BY <3>1, <3>2
  <2>7. ~ Held(s)
    BY <1>3, <2>5, <2>6, FreshReconnect
  <2>8. Mild(a) /\ a.cb[1] # "logout"
    BY <2>2, <2>5, MildMessages, Replies
  <2>9. PICK S : S = {a} /\ Sent(S) /\ Heeds(in)
    BY <1>3, <2>2, WorldSendsFew
  <2>10. Rejoins(cb, r)
    BY <1>1, <1>3, <2>3, <2>4, <2>5 DEF Rejoins
  <2>11. Hands(r, S)
    BY <1>3, <2>4, <2>7, <2>8, <2>9, <2>10 DEF Hands, Held
  <2> QED BY <2>8, <2>9, <2>11, HandledIf
<1>4. CASE \E o \in {role_id_to_role[r]}, s \in Ids :
             /\ s = last_opera_id + 1 /\ Lives(r) /\ RoleOf(r).state = "idle"
             /\ objs' = [objs EXCEPT ![o].state = "using", ![o].session = s, ![o].gate = c]
             /\ wcalls' = wcalls \cup {ReconnectCb(rsp, s, o)}
             /\ Deliver(in, World, <<ChangeClient(RoleOf(r).game, r, c, ReconnectCb(rsp, s, o))>>)
  BY <1>3, <1>4
<1>5. \/ Deliver(in, World, <<>>) /\ UNCHANGED <<objs, wcalls>>
      \/ \E o \in {role_id_to_role[r]}, s \in Ids :
             /\ s = last_opera_id + 1 /\ Lives(r) /\ RoleOf(r).state = "idle"
             /\ objs' = [objs EXCEPT ![o].state = "using", ![o].session = s, ![o].gate = c]
             /\ wcalls' = wcalls \cup {ReconnectCb(rsp, s, o)}
             /\ Deliver(in, World, <<ChangeClient(RoleOf(r).game, r, c, ReconnectCb(rsp, s, o))>>)
  BY DEF ReconnectRole
<1> QED BY <1>2, <1>4, <1>5

LEMMA ReconnectClientChangedHands ==
  ASSUME WorldInv, Sound, Queues, GamesSound, BearersSound, AnswersSound, faults' = 0,
         NEW in, ToWorld(in), Takes(in), NEW c \in Clients, NEW r \in Roles,
         NEW rsp, rsp[1] = "reconnect", rsp[2] = c, rsp[4] = r, NEW s \in Ids, NEW o \in Ids, NEW err,
         ReconnectClientChanged(in, rsp, s, o, err), Handles(ReconnectCb(rsp, s, o), err)
  PROVE  Handled(in)
<1>1. PICK cb : cb = ReconnectCb(rsp, s, o)
  OBVIOUS
<1>2. cb \in wcalls /\ wcalls' = wcalls \ {cb} /\ UNCHANGED role_id_to_role
  BY <1>1 DEF ReconnectClientChanged
<1>3. /\ cb[1] = "_reconnect_role_game_change_client_cb" /\ cb[2] = rsp /\ cb[3] = s /\ cb[4] = o
      /\ IsReconnect(cb)
  BY <1>1 DEF ReconnectCb, IsReconnect
<1>4. o \in Tables /\ objs[o].state # "launch" /\ objs[o].role = r
  BY <1>2, <1>3, TablesAre DEF Sound, ReconnectSound, AnswersSound
<1>5. err = "ok"
  BY <1>1, <1>3, AnswersOk
<1>6. CASE UNCHANGED objs /\ Deliver(in, World, <<Reply(rsp, "refused", 0)>>)
  <2>1. PICK m : m = Reply(rsp, "refused", 0)
    OBVIOUS
  <2>2. Mild(m) /\ m.cb[1] # "logout"
    BY <2>1, MildMessages, Replies
  <2> QED BY <1>2, <1>6, <2>1, <2>2, LeavesHandled
<1>7. CASE objs[o].session = s
  <2>1. s # 0 /\ Alive(o) /\ objs[o].state = "using"
    BY <1>4, <1>7, IdFacts DEF Sound, TablesSound, Tables, RoleObj, RoleStates
  <2>2. Lives(r) /\ role_id_to_role[r] = o /\ RoleOf(r) = objs[o] /\ objs[o] \in RoleObj
    BY <1>4, <2>1, AliveTable DEF RoleOf, Tables
  <2>3. UNCHANGED objs /\ Deliver(in, World, <<Reply(rsp, "ok", s)>>)
    BY <1>5, <1>7, <2>1 DEF ReconnectClientChanged
  <2>4. PICK new, a : new = RoleOf(r) /\ a = Reply(rsp, "ok", s)
    OBVIOUS
  <2>5. objs' = [objs EXCEPT ![role_id_to_role[r]] = new]
    BY <2>2, <2>3, <2>4 DEF WorldInv, WTypeOK
  <2>6. /\ Aside(r) /\ RoleOf(r)' = new /\ (Using(r)' <=> new.state = "using")
        /\ (Launching(r)' <=> new.state = "launch")
        /\ SessionOf(r)' = new.session /\ SessionOf(r) = RoleOf(r).session
        /\ \A d : (Owns(d, r)' <=> new.state = "using" /\ new.gate = d)
        /\ \A d : (Owns(d, r) <=> RoleOf(r).state = "using" /\ RoleOf(r).gate = d)
    BY <1>2, <2>2, <2>5, TableTurns
  <2>7. RoleOf(r).gate = c
    <3>1. Bears(c, s)
      BY <1>2, <1>3 DEF Bears
    <3> QED BY <1>7, <2>1, <2>2, <2>6, <3>1 DEF BearersSound
  <2>8. a.fn = "rsp" /\ a.cb = rsp /\ a.val = s /\ a.cb[1] # "logout"
    BY <2>4, Replies
  <2>9. Admits(a, r)
    BY <1>7, <2>1, <2>2, <2>4, <2>6, <2>7, <2>8 DEF Admits
  <2>10. PICK S : S = {a} /\ Sent(S) /\ Heeds(in)
    BY <2>3, <2>4, WorldSendsFew
  <2>11. Hands(r, S)
    BY <1>2, <2>1, <2>2, <2>4, <2>6, <2>9, <2>10 DEF Hands
  <2> QED BY <2>8, <2>10, <2>11, HandledIf
<1> QED BY <1>6, <1>7 DEF ReconnectClientChanged

\* A link gets the one message sent on it.
LEMMA LinkAdds ==
  ASSUME Queues, NEW in, NEW me, NEW to, <<me, to>> \in Links, <<me, to>> # in,
         NEW outs, NEW m, SentTo(outs, to) = <<m>>, Deliver(in, me, outs)
  PROVE  Adds(net[<<me, to>>], m, net'[<<me, to>>])
<1>1. PICK a : a = net[<<me, to>>] /\ a \in Seq(ToSet(a))
  BY DEF Queues
<1>2. net'[<<me, to>>] = a \o <<m>>
  BY <1>1 DEF Deliver
<1>3. a \o <<m>> = Append(a, m)
  BY <1>1
<1>4. Adds(a, m, Append(a, m))
  BY <1>1, AppendAdds
<1> QED BY <1>1, <1>2, <1>3, <1>4

\* logout_role: what happens to the role ...
LEMMA LogoutRoleSteers ==
  ASSUME WorldInv, Sound, Queues, BearersSound, aborted' = {}, NEW in, ToWorld(in), Takes(in),
         NEW c \in Clients, NEW r \in Roles, NEW rsp, rsp[1] = "logout", rsp[2] = c,
         NEW s \in IdOrNil, s # 0 => GivenOut(s) /\ Bears(c, s), LogoutRole(in, rsp, s, r)
  PROVE  Steers /\ Heeds(in)
<1>1. UNCHANGED role_id_to_role
  BY DEF LogoutRole
<1>2. ASSUME NEW e \in {"ok", "refused"}, Deliver(in, World, <<Reply(rsp, e, 0)>>),
             UNCHANGED <<objs, wcalls>>
      PROVE  Steers /\ Heeds(in)
  <2>1. PICK a : a = Reply(rsp, e, 0)
    OBVIOUS
  <2>2. PICK S : S = {a} /\ Sent(S) /\ Heeds(in)
    BY <1>2, <2>1, WorldSendsFew
  <2>3. Mild(a)
    BY <2>1, MildMessages
  <2> QED BY <1>1, <1>2, <2>2, <2>3 DEF Steers, Leaves
<1>3. CASE s # 0 /\ session_id_to_role[s] # 0 /\ objs[session_id_to_role[s]].role = r
  <2>1. s \in Ids /\ GivenOut(s) /\ Bears(c, s)
    BY <1>3, IdFacts
  <2>2. PICK o : /\ o = session_id_to_role[s] /\ r = objs[o].role
                 /\ o \in Tables /\ objs[o].session = s /\ objs[o].state = "using"
                 /\ Lives(r) /\ role_id_to_role[r] = o /\ RoleOf(r) = objs[o]
    BY <1>3, <2>1, GivenTable
  <2>3. PICK new, a, b :
          /\ new = [Detached(RoleOf(r), "releasing") EXCEPT !.operas = @ \cup {last_opera_id + 1}]
          /\ a = Reply(rsp, "ok", 0) /\ b = ReleaseCall(r)
    OBVIOUS
  <2>4. /\ objs' = Releasing([objs EXCEPT ![o] = Detached(@, @.state)], r)
        /\ wcalls' = wcalls \cup {ReleaseCb(r, last_opera_id + 1)}
        /\ Deliver(in, World, <<b, a>>)
    BY <1>3, <2>2, <2>3 DEF LogoutRole, TryReleaseRole
  <2>5. /\ new.state = "releasing" /\ new.session = 0
        /\ objs' = [objs EXCEPT ![role_id_to_role[r]] = new]
    BY <2>2, <2>3, <2>4 DEF Releasing, Detached, Tables, RoleObj, WorldInv, WTypeOK
  <2>6. /\ Aside(r) /\ RoleOf(r)' = new /\ ~ Launching(r)' /\ SessionOf(r)' = 0
        /\ SessionOf(r) = RoleOf(r).session /\ \A d : Owns(d, r) => RoleOf(r).gate = d
    BY <1>1, <2>2, <2>5, TableTurns
  <2>7. RoleOf(r).gate = c
    BY <2>1, <2>2, <2>6, IdFacts DEF BearersSound
  <2>8. Mild(a) /\ Mild(b) /\ a.to = GateOf[c] /\ Parts(a, c)
    BY <2>3, MildMessages, Replies DEF Parts
  <2>9. PICK S : S = {b, a} /\ Sent(S) /\ Heeds(in)
    BY <2>4, WorldSendsFew
  <2>10. \A cb \in wcalls' \ wcalls : ~ IsReconnect(cb)
    BY <2>4 DEF IsReconnect, ReleaseCb
  <2>11. Hands(r, S)
    BY <2>6, <2>7, <2>8, <2>9, <2>10 DEF Hands
  <2> QED BY <2>9, <2>11 DEF Steers
<1>4. \/ \E e \in {"ok", "refused"} : /\ Deliver(in, World, <<Reply(rsp, e, 0)>>)
                                      /\ UNCHANGED <<objs, wcalls>>
      \/ s # 0 /\ session_id_to_role[s] # 0 /\ objs[session_id_to_role[s]].role = r
  BY DEF LogoutRole
<1> QED BY <1>2, <1>3, <1>4

\* ... and to the logout, which is answered at once.
LEMMA LogoutRoleAnswers ==
  ASSUME WorldInv, Sound, Queues, LogoutsSound, aborted' = {}, UNCHANGED <<clients, gcalls>>,
         NEW g \in Gates, NEW in, in = <<g, World>>, Back(g) # <<>>, Heeds(in),
         NEW rsp, rsp[1] = "logout", GateOf[rsp[2]] = g, Head(Back(g)).cb = rsp,
         NEW s \in IdOrNil, s # 0 => GivenOut(s), NEW r \in Roles, LogoutRole(in, rsp, s, r)
  PROVE  LogoutsSound'
<1>1. \E e : \/ Deliver(in, World, <<Reply(rsp, e, 0)>>)
             \/ Lives(r) /\ Deliver(in, World, <<ReleaseCall(r), Reply(rsp, e, 0)>>)
  BY DEF LogoutRole
<1>2. PICK a, outs : /\ a.cb = rsp /\ a.to = g /\ Deliver(in, World, outs)
                     /\ outs = <<a>> \/ (Lives(r) /\ outs = <<ReleaseCall(r), a>>)
  <2>1. PICK e : \/ Deliver(in, World, <<Reply(rsp, e, 0)>>)
                 \/ Lives(r) /\ Deliver(in, World, <<ReleaseCall(r), Reply(rsp, e, 0)>>)
    BY <1>1
  <2>2. PICK a : a = Reply(rsp, e, 0)
    OBVIOUS
  <2>3. a.cb = rsp /\ a.to = g
    BY <2>2, Replies
  <2> QED BY <2>1, <2>2, <2>3
<1>3. \A h \in Gates : SentTo(outs, h) = IF h = g THEN <<a>> ELSE <<>>
  <2> TAKE h \in Gates
  <2>1. CASE outs = <<a>>
    BY <1>2, <2>1, SentFew
  <2>2. CASE Lives(r) /\ outs = <<ReleaseCall(r), a>>
    <3>1. PICK b : b = ReleaseCall(r)
      OBVIOUS
    <3>2. b.to \in Games
      BY <2>2, <3>1, ReleaseGoes
    <3>3. b.to # h
      BY <3>2, ConstantsAssumption
    <3> QED BY <1>2, <2>2, <3>1, <3>3, SentFew
  <2> QED BY <1>2, <2>1, <2>2
<1>4. ASSUME NEW h \in Gates PROVE Pending(CallsOf(h), Back(h), Out(h))'
  <2>1. /\ h # World /\ <<World, h>> \in Links /\ <<h, World>> \in Links
        /\ Out(h) \in Seq(ToSet(Out(h))) /\ <<World, h>> # in
    <3>1. h # World /\ <<World, h>> \in Links /\ <<h, World>> \in Links /\ Out(h) \in Seq(ToSet(Out(h)))
      BY GateLinks
    <3> QED BY <3>1
  <2>2. CallsOf(h)' = CallsOf(h)
    BY DEF CallsOf
  <2>3. PICK calls, up, down, up2, down2 :
          /\ calls = CallsOf(h) /\ up = Back(h) /\ down = Out(h)
          /\ up2 = Back(h)' /\ down2 = Out(h)'
    OBVIOUS
  <2>4. Pending(calls, up, down)
    BY <2>3 DEF LogoutsSound
  <2>5. CASE h = g
    <3>1. Adds(down, a, down2)
      BY <1>2, <1>3, <2>1, <2>3, <2>5, LinkAdds DEF Out
    <3>2. Rest(up, up2)
      BY <2>3, <2>5 DEF Heeds
    <3>3. up[1].cb = a.cb
      BY <1>2, <2>3, <2>5, <3>2 DEF Rest
    <3>4. Pending(calls, up2, down2)
      BY <1>2, <2>4, <3>1, <3>2, <3>3, PendingAnswered
    <3> QED BY <2>2, <2>3, <3>4
  <2>6. CASE h # g
    <3>1. Out(h)' = Out(h) \o <<>>
      BY <1>2, <1>3, <2>1, <2>6 DEF Deliver, Out
    <3>2. down2 = down
      BY <2>1, <2>3, <3>1
    <3>3. up2 = up
      BY <2>3, <2>6 DEF Heeds
    <3> QED BY <2>2, <2>3, <2>4, <3>2, <3>3
  <2> QED BY <2>5, <2>6
<1>5. \A cb \in gcalls' : cb[3] <= clients'[cb[2]].n
  BY DEF LogoutsSound
<1> QED BY <1>4, <1>5 DEF LogoutsSound

\* The callbacks of the world.
LEMMA WorldCallbackHands ==
  ASSUME WorldInv, Sound, Queues, GamesSound, BearersSound, AnswersSound,
         aborted' = {}, faults' = 0, NEW in, ToWorld(in), Takes(in),
         NEW cb, NEW err, WorldCallback(in, cb, err), Handles(cb, err)
  PROVE  Handled(in)
<1>1. CASE \E s \in Ids, r \in Roles : cb = LaunchCb(s, r) /\ RpcRspLaunchRole(in, s, r, err)
  BY <1>1, RpcRspLaunchRoleHands
<1>2. CASE \E o \in Ids : cb = ChangeCb(o) /\ LaunchClientChanged(in, o, err)
  BY <1>2, LaunchClientChangedHands
<1>3. CASE \E r \in Roles, opera \in Ids :
             cb = ReleaseCb(r, opera) /\ RpcRspTryReleaseRole(in, r, opera, err)
  BY <1>3, RpcRspTryReleaseRoleHands
<1>4. ASSUME NEW c \in Clients, NEW n \in CallIds, NEW r \in Roles, NEW s \in Ids, NEW o \in Ids,
             NEW rsp, rsp = GateCb("reconnect", c, n, r),
             cb = ReconnectCb(rsp, s, o), ReconnectClientChanged(in, rsp, s, o, err)
      PROVE  Handled(in)
  <2>1. rsp[1] = "reconnect" /\ rsp[2] = c /\ rsp[4] = r
    BY <1>4, Replies
  <2> QED BY <1>4, <2>1, ReconnectClientChangedHands
<1> QED BY <1>1, <1>2, <1>3, <1>4 DEF WorldCallback

\* A step of the world, with the message that a gate sent.
LEMMA WorldStepOrdered ==
  ASSUME WorldInv, WorldInv', Sound, Sound', Queues, GamesSound, Follows, ~ DrewHeld,
         aborted' = {}, faults' = 0, Ordered, World_Step
  PROVE  Ordered'
<1>1. UNCHANGED <<clients, gcalls>> /\ BearersSound /\ AnswersSound /\ LogoutsSound
  BY DEF World_Step, gateVars, Ordered
<1>2. \A a : ToWorld(<<a, World>>)
  BY DEF ToWorld
<1>3. ASSUME NEW in, Handled(in) PROVE Ordered'
  BY <1>1, <1>3, SteersOrdered DEF Handled
<1>4. ASSUME NEW c \in Clients, NEW fn, NEW args, NEW cb, FromGate(c, fn, args, cb)
      PROVE  /\ Takes(<<GateOf[c], World>>)
             /\ \A s : fn = "logout_role" /\ args[1] = s => GivenOut(s) /\ (cb[2] = c => Bears(c, s))
             /\ Back(GateOf[c]) # <<>> /\ Head(Back(GateOf[c])).cb = cb
  <2>1. Takes(<<GateOf[c], World>>)
    BY <1>4 DEF Takes, FromGate, Arrives
  <2>2. <<GateOf[c], World>> \in Links
    BY ConstantsAssumption DEF Links
  <2>3. PICK m : m = Call(World, fn, args, cb) /\ Arrives(GateOf[c], World, m)
    BY <1>4 DEF FromGate
  <2>4. \A s : fn = "logout_role" /\ args[1] = s => Names(m, s)
    BY <2>3 DEF Names, Call
  <2>5. /\ Back(GateOf[c]) # <<>> /\ Head(Back(GateOf[c])) = m
        /\ 1 \in DOMAIN Back(GateOf[c]) /\ Back(GateOf[c])[1] = m
    BY <2>2, <2>3, HeadIn DEF Arrives, Back
  <2>6. m.cb = cb /\ m.fn = fn /\ m.args = args
    BY <2>3 DEF Call
  <2>7. \A s : fn = "logout_role" /\ args[1] = s /\ cb[2] = c => Bears(c, s)
    BY <2>5, <2>6 DEF Bears
  <2> QED BY <2>1, <2>2, <2>3, <2>4, <2>5, <2>6, <2>7, ArrivesNamed
<1>5. CASE WorldLaunchRole
  <2>1. PICK c \in Clients, n \in CallIds, r \in Roles :
          /\ FromGate(c, "launch_role", <<r, c>>, GateCb("launch", c, n, r))
          /\ LaunchRole(<<GateOf[c], World>>, GateCb("launch", c, n, r), c, r)
    BY <1>5 DEF WorldLaunchRole
  <2>2. Takes(<<GateOf[c], World>>)
    BY <1>4, <2>1
  <2>3. PICK in, rsp : in = <<GateOf[c], World>> /\ rsp = GateCb("launch", c, n, r)
    OBVIOUS
  <2>4. rsp[1] = "launch" /\ rsp[2] = c /\ rsp[4] = r
    BY <2>3, Replies
  <2>5. LaunchRole(in, rsp, c, r) /\ ToWorld(in) /\ Takes(in)
    BY <1>2, <2>1, <2>2, <2>3
  <2>6. Handled(in)
    BY <1>1, <2>3, <2>4, <2>5, LaunchAbsentHands, LaunchReleasingHands, LaunchIdleHands,
       LaunchUsingHands, LaunchLaunchingHands DEF LaunchRole
  <2> QED BY <1>3, <2>6
<1>6. CASE WorldReconnectRole
  <2>1. PICK c \in Clients, n \in CallIds, r \in Roles :
          /\ FromGate(c, "reconnect_role", <<r, c>>, GateCb("reconnect", c, n, r))
          /\ ReconnectRole(<<GateOf[c], World>>, GateCb("reconnect", c, n, r), c, r)
    BY <1>6 DEF WorldReconnectRole
  <2>2. Takes(<<GateOf[c], World>>)
    BY <1>4, <2>1
  <2>3. PICK in, rsp : in = <<GateOf[c], World>> /\ rsp = GateCb("reconnect", c, n, r)
    OBVIOUS
  <2>4. rsp[1] = "reconnect" /\ rsp[2] = c /\ rsp[4] = r
    BY <2>3, Replies
  <2>5. Handled(in)
    BY <1>2, <2>1, <2>2, <2>3, <2>4, ReconnectRoleHands
  <2> QED BY <1>3, <2>5
<1>7. CASE WorldLogoutRole
  <2>1. PICK c \in Clients, n \in CallIds, r \in Roles, s \in IdOrNil :
          /\ FromGate(c, "logout_role", <<s, r>>, GateCb("logout", c, n, r))
          /\ LogoutRole(<<GateOf[c], World>>, GateCb("logout", c, n, r), s, r)
    BY <1>7 DEF WorldLogoutRole
  <2>2. PICK in, rsp, g : /\ in = <<GateOf[c], World>> /\ rsp = GateCb("logout", c, n, r)
                          /\ g = GateOf[c] /\ g \in Gates
    BY ConstantsAssumption
  <2>3. rsp[1] = "logout" /\ rsp[2] = c /\ rsp[4] = r
    BY <2>2, Replies
  <2>4. /\ Takes(in) /\ ToWorld(in) /\ GivenOut(s) /\ Bears(c, s)
        /\ Back(g) # <<>> /\ Head(Back(g)).cb = rsp
    <3>1. <<s, r>>[1] = s
      OBVIOUS
    <3> QED BY <1>2, <1>4, <2>1, <2>2, <2>3, <3>1
  <2>5. LogoutRole(in, rsp, s, r)
    BY <2>1, <2>2
  <2>6. Steers /\ Heeds(in)
    BY <1>1, <2>3, <2>4, <2>5, LogoutRoleSteers
  <2>7. LogoutsSound'
    BY <1>1, <2>2, <2>3, <2>4, <2>5, <2>6, LogoutRoleAnswers
  <2> QED BY <1>1, <2>6, <2>7, SteersOrdered
<1>8. CASE WorldClientQuit
  <2>1. PICK gate \in Gates, s \in IdOrNil :
          /\ Arrives(gate, World, Call(World, "client_quit", <<s>>, NoCb))
          /\ ClientQuit(<<gate, World>>, s)
    BY <1>8 DEF WorldClientQuit
  <2>2. Takes(<<gate, World>>) /\ <<gate, World>> \in Links
    BY <2>1 DEF Takes, Arrives, Links
  <2>3. PICK m : m = Call(World, "client_quit", <<s>>, NoCb) /\ Arrives(gate, World, m)
    BY <2>1
  <2>4. Names(m, s) /\ m.fn = "client_quit" /\ m.args[1] = s
    BY <2>3 DEF Names, Call
  <2>5. GivenOut(s)
    BY <2>2, <2>3, <2>4, ArrivesNamed
  <2>6. 1 \in DOMAIN Back(gate) /\ Back(gate)[1] = m
    BY <2>2, <2>3, HeadIn DEF Arrives, Back
  <2>7. Quits(s)
    BY <2>4, <2>6 DEF Quits
  <2>8. PICK in : in = <<gate, World>>
    OBVIOUS
  <2>9. Handled(in)
    BY <1>1, <1>2, <2>1, <2>2, <2>5, <2>7, <2>8, ClientQuitHands
  <2> QED BY <1>3, <2>9
<1>9. CASE WorldAnswered
  <2>1. PICK g \in Games, cb \in wcalls, err \in Errors :
          /\ Arrives(g, World, Answer(World, cb, err, 0))
          /\ WorldCallback(<<g, World>>, cb, err)
    BY <1>9 DEF WorldAnswered
  <2>2. Takes(<<g, World>>)
    BY <2>1 DEF Takes, Arrives
  <2>3. Handles(cb, err)
    BY <2>1 DEF Handles, Answered, Arrives, Back
  <2>4. PICK in : in = <<g, World>>
    OBVIOUS
  <2>5. Handled(in)
    BY <1>1, <1>2, <2>1, <2>2, <2>3, <2>4, WorldCallbackHands
  <2> QED BY <1>3, <2>5
<1>10. CASE WorldIgnores
  <2>1. PICK g \in Games : net[<<g, World>>] # <<>> /\ Deliver(<<g, World>>, World, <<>>)
    BY <1>10 DEF WorldIgnores
  <2>2. UNCHANGED <<objs, role_id_to_role>> /\ wcalls' = wcalls
    BY <1>10 DEF WorldIgnores, worldVars
  <2>3. PICK in, m : in = <<g, World>> /\ m = Kick(None)
    OBVIOUS
  <2>4. Mild(m) /\ m.cb[1] # "logout"
    BY <2>3, MildMessages, Replies
  <2>5. Takes(in) /\ ToWorld(in) /\ Deliver(in, World, <<>>)
    BY <1>2, <2>1, <2>3 DEF Takes
  <2>6. Handled(in)
    BY <2>2, <2>4, <2>5, LeavesHandled
  <2> QED BY <1>3, <2>6
<1>11. CASE WorldOnFrame
  BY <1>3, <1>11, OnFrameHands DEF WorldOnFrame
<1> QED
  BY <1>5, <1>6, <1>7, <1>8, <1>9, <1>10, <1>11 DEF World_Step

-----------------------------------------------------------------------------
(* The gates. *)

\* What the world has is what it had.
LEMMA WorldRests ==
  ASSUME UNCHANGED worldVars
  PROVE  /\ wcalls' = wcalls
         /\ \A r : SessionOf(r)' = SessionOf(r) /\ RoleOf(r)' = RoleOf(r) /\ Using(r)' = Using(r)
         /\ AnswersSound => AnswersSound'
BY DEF worldVars, SessionOf, RoleOf, Using, Lives, AnswersSound, Launching, IsReconnect

\* The links of the gates when one of them sends m, and when one takes a message.
LEMMA GateSends ==
  ASSUME Queues, NEW gate \in Gates, NEW m, m.to = World, Deliver(NoLink, gate, <<m>>)
  PROVE  /\ \A g \in Gates : Out(g)' = Out(g) /\ (g # gate => Back(g)' = Back(g))
         /\ Adds(Back(gate), m, Back(gate)')
<1>1. ASSUME NEW g \in Gates PROVE Out(g)' = Out(g) /\ (g # gate => Back(g)' = Back(g))
  <2>1. /\ <<World, g>> \in Links /\ <<g, World>> \in Links /\ g # World /\ gate # World
        /\ Out(g) \in Seq(ToSet(Out(g))) /\ Back(g) \in Seq(ToSet(Back(g)))
    BY <1>1, GateLinks
  <2>2. <<World, g>> # NoLink /\ <<g, World>> # NoLink
    BY <2>1, ConstantsAssumption DEF NoLink
  <2>3. Out(g)' = Out(g) \o <<>> /\ (g # gate => Back(g)' = Back(g) \o <<>>)
    BY <2>1, <2>2 DEF Deliver, Out, Back
  <2>4. Out(g) \o <<>> = Out(g) /\ Back(g) \o <<>> = Back(g)
    BY <2>1
  <2> QED BY <2>3, <2>4
<1>2. Adds(Back(gate), m, Back(gate)')
  <2>1. PICK outs : outs = <<m>> /\ Deliver(NoLink, gate, outs)
    OBVIOUS
  <2>2. SentTo(outs, World) = <<m>>
    BY <2>1, SentFew
  <2>3. <<gate, World>> \in Links
    BY GateLinks
  <2>4. <<gate, World>> # NoLink
    BY ConstantsAssumption DEF NoLink
  <2>5. Adds(net[<<gate, World>>], m, net'[<<gate, World>>])
    BY <2>1, <2>2, <2>3, <2>4, LinkAdds
  <2> QED BY <2>5 DEF Back
<1> QED BY <1>1, <1>2

LEMMA GateTakes ==
  ASSUME Queues, NEW gate \in Gates, Out(gate) # <<>>, Deliver(<<World, gate>>, gate, <<>>)
  PROVE  /\ \A g \in Gates : Back(g)' = Back(g) /\ (g # gate => Out(g)' = Out(g))
         /\ Rest(Out(gate), Out(gate)')
<1>1. ASSUME NEW g \in Gates
      PROVE  /\ Back(g)' = Back(g) /\ (g # gate => Out(g)' = Out(g))
             /\ g = gate => Rest(Out(g), Out(g)')
  <2>1. /\ <<World, g>> \in Links /\ <<g, World>> \in Links /\ g # World /\ gate # World
        /\ Out(g) \in Seq(ToSet(Out(g))) /\ Back(g) \in Seq(ToSet(Back(g)))
    BY <1>1, GateLinks
  <2>2. SentTo(<<>>, World) = <<>>
    BY SentFew
  <2>3. PICK a, b : /\ a = Out(g) /\ b = Back(g) /\ a \in Seq(ToSet(a)) /\ b \in Seq(ToSet(b))
    BY <2>1
  <2>4. <<g, World>> # <<World, gate>> /\ (<<World, g>> = <<World, gate>> <=> g = gate)
    BY <2>1
  <2>5. b \o <<>> = b /\ a \o <<>> = a
    BY <2>3
  <2>6. Back(g)' = b \o <<>>
    BY <2>1, <2>2, <2>3, <2>4 DEF Deliver, Back
  <2>7. Out(g)' = (IF g = gate THEN Tail(a) ELSE a) \o <<>>
    BY <2>1, <2>3, <2>4 DEF Deliver, Out
  <2>8. CASE g = gate
    <3>1. a # <<>>
      BY <2>3, <2>8
    <3>2. Tail(a) \o <<>> = Tail(a)
      BY <2>3, <3>1
    <3>3. Rest(a, Tail(a))
      BY <2>3, <3>1, TailRest
    <3> QED BY <2>3, <2>5, <2>6, <2>7, <2>8, <3>2, <3>3
  <2> QED BY <2>3, <2>5, <2>6, <2>7, <2>8
<1> QED BY <1>1

\* A client is rightful while its gate's messages are the same ...
LEMMA RightfulStays ==
  ASSUME NEW c \in Clients, NEW r, Rightful(c, r), Owns(c, r)' = Owns(c, r),
         Out(GateOf[c])' = Out(GateOf[c]),
         InGame(c, r)' => InGame(c, r), Gone(c) => Gone(c)',
         clients[c].closing => clients'[c].closing \/ Gone(c)'
  PROVE  Rightful(c, r)'
<1>1. InGame(c, r)' => ~ Gone(c)'
  BY DEF InGame, Gone
<1>2. PICK a : a = Out(GateOf[c])
  OBVIOUS
<1>3. InGame(c, r)' => Owns(c, r)' \/ clients'[c].closing \/ \E i \in DOMAIN a : Parts(a[i], c)
  BY <1>1, <1>2 DEF Rightful
<1>4. \A i \in DOMAIN a : Grants(a[i], c, r) =>
        \/ Owns(c, r)' \/ clients'[c].closing \/ Gone(c)'
        \/ \E j \in DOMAIN a : i < j /\ Parts(a[j], c)
  BY <1>2 DEF Rightful
<1> QED BY <1>2, <1>3, <1>4 DEF Rightful

\* ... and when the gate takes the next, unless by it the client enters the role
\* unasked, or does not leave when told.
LEMMA RightfulTaken ==
  ASSUME NEW c \in Clients, NEW r, Rightful(c, r), Owns(c, r)' = Owns(c, r),
         Rest(Out(GateOf[c]), Out(GateOf[c])'), Gone(c) => Gone(c)',
         clients[c].closing => clients'[c].closing \/ Gone(c)',
         InGame(c, r)' => \/ InGame(c, r) /\ ~ Parts(Out(GateOf[c])[1], c)
                         \/ Grants(Out(GateOf[c])[1], c, r) \/ clients'[c].closing
  PROVE  Rightful(c, r)'
<1>1. InGame(c, r)' => ~ Gone(c)'
  BY DEF InGame, Gone
<1>2. PICK a, b : a = Out(GateOf[c]) /\ b = Out(GateOf[c])'
  OBVIOUS
<1>3. /\ 1 \in DOMAIN a
      /\ \A i \in DOMAIN b : i \in Nat /\ i # 0 /\ i + 1 \in DOMAIN a /\ b[i] = a[i + 1]
      /\ \A i \in DOMAIN a : i \in Nat /\ (i = 1 \/ (i - 1 \in DOMAIN b /\ b[i - 1] = a[i]))
  BY <1>2 DEF Rest
<1>4. /\ InGame(c, r) => Owns(c, r) \/ clients[c].closing \/ \E i \in DOMAIN a : Parts(a[i], c)
      /\ \A i \in DOMAIN a : Grants(a[i], c, r) =>
           \/ Owns(c, r) \/ clients[c].closing \/ Gone(c)
           \/ \E j \in DOMAIN a : i < j /\ Parts(a[j], c)
  BY <1>2 DEF Rightful
<1>5. ASSUME InGame(c, r)'
      PROVE  Owns(c, r)' \/ clients'[c].closing \/ \E i \in DOMAIN b : Parts(b[i], c)
  <2>1. CASE InGame(c, r) /\ ~ Parts(a[1], c)
    BY <1>1, <1>3, <1>4, <1>5, <2>1
  <2>2. CASE Grants(a[1], c, r)
    <3>1. \A j \in DOMAIN a : 1 < j => j # 1
      BY <1>3
    <3> QED BY <1>1, <1>3, <1>4, <1>5, <2>2, <3>1
  <2> QED BY <1>2, <1>5, <2>1, <2>2
<1>6. ASSUME NEW i \in DOMAIN b, Grants(b[i], c, r)
      PROVE  \/ Owns(c, r)' \/ clients'[c].closing \/ Gone(c)'
             \/ \E j \in DOMAIN b : i < j /\ Parts(b[j], c)
  <2>1. i \in Nat /\ i # 0 /\ i + 1 \in DOMAIN a /\ b[i] = a[i + 1]
    BY <1>3, <1>6
  <2>2. CASE \E j \in DOMAIN a : i + 1 < j /\ Parts(a[j], c)
    <3>1. PICK j \in DOMAIN a : i + 1 < j /\ Parts(a[j], c)
      BY <2>2
    <3>2. j \in Nat /\ j # 1 /\ i < j - 1
      BY <1>3, <2>1, <3>1
    <3>3. j - 1 \in DOMAIN b /\ b[j - 1] = a[j]
      BY <1>3, <3>2
    <3> QED BY <3>1, <3>2, <3>3
  <2> QED BY <1>4, <1>6, <2>1, <2>2
<1> QED BY <1>2, <1>5, <1>6 DEF Rightful

\* Sessions stay with their clients.
LEMMA BearersStay ==
  ASSUME BearersSound, UNCHANGED worldVars, \A c \in Clients : Gone(c) => Gone(c)',
         \A c \in Clients : \A s \in Ids : Bears(c, s)' => Bears(c, s),
         \A s \in Ids : Quits(s)' => Quits(s) \/ \E c \in Clients : Bears(c, s) /\ Gone(c)',
         \A r \in Roles : SessionOf(r) # 0 => SessionOf(r) \in Ids
  PROVE  BearersSound'
<1> SUFFICES ASSUME NEW r \in Roles, SessionOf(r)' # 0
             PROVE  /\ \A c \in Clients : Bears(c, SessionOf(r))' => RoleOf(r)'.gate = c
                    /\ Quits(SessionOf(r))' => RoleOf(r)'.gate \in Clients /\ Gone(RoleOf(r).gate)'
  BY DEF BearersSound
<1>1. SessionOf(r)' = SessionOf(r) /\ RoleOf(r)' = RoleOf(r)
  BY WorldRests
<1>2. PICK s, x : s = SessionOf(r) /\ x = RoleOf(r).gate
  OBVIOUS
<1>3. /\ s \in Ids /\ \A c \in Clients : Bears(c, s) => x = c
      /\ Quits(s) => x \in Clients /\ Gone(x)
  BY <1>1, <1>2 DEF BearersSound
<1>4. (\A c \in Clients : Bears(c, s)' => x = c) /\ (Quits(s)' => x \in Clients /\ Gone(x)')
  BY <1>3
<1> QED BY <1>1, <1>2, <1>4

-----------------------------------------------------------------------------
(***************************************************************************)
(* A request of client c, or its end, leaves new as its Client; its gate   *)
(* says at most one thing to the world.                                    *)
(***************************************************************************)
Acts(c, new) ==
  LET old == clients[c] IN
  /\ clients' = [clients EXCEPT ![c] = new]
  /\ new.session \in {0, old.session}
  /\ new.state = "In_Game" => old.state = "In_Game" /\ new.role = old.role
  /\ old.state # "gone"
  /\ new.closing = old.closing \/ new.state = "gone"

Quiets(c, new) == UNCHANGED <<net, gcalls>> /\ new.n = clients[c].n
Requests(c, new, m) ==
  /\ Deliver(NoLink, GateOf[c], <<m>>)
  /\ m.to = World /\ m.fn # "client_quit" /\ m.cb[2] = c /\ m.cb[3] = new.n
  /\ m.fn = "logout_role" => m.args[1] = clients[c].session
  /\ new.n = clients[c].n + 1
  /\ gcalls' = gcalls \cup {m.cb}
Reports(c, new, m) ==
  /\ Deliver(NoLink, GateOf[c], <<m>>)
  /\ m = Call(World, "client_quit", <<clients[c].session>>, NoCb)
  /\ new.state = "gone" /\ new.n = clients[c].n /\ gcalls' = gcalls

LEMMA Called ==
  ASSUME NEW c \in Clients, NEW fn, NEW remote_fn \in {"launch_role", "reconnect_role", "logout_role"},
         NEW args, NEW r, CallsWorld(c, fn, remote_fn, args, r),
         remote_fn = "logout_role" => args[1] = clients[c].session,
         NEW new, new.n = clients[c].n + 1
  PROVE  \E m : Requests(c, new, m)
<1>1. PICK n : n = clients[c].n + 1
  OBVIOUS
<1>2. PICK m, cb : m = Call(World, remote_fn, args, cb) /\ cb = GateCb(fn, c, n, r)
  OBVIOUS
<1>3. gcalls' = gcalls \cup {cb} /\ Deliver(NoLink, GateOf[c], <<m>>)
  BY <1>1, <1>2 DEF CallsWorld
<1>4. cb[2] = c /\ cb[3] = n
  BY <1>2 DEF GateCb
<1>5. m.to = World /\ m.fn = remote_fn /\ m.cb = cb /\ m.args = args
  BY <1>2 DEF Call
<1> QED BY <1>1, <1>3, <1>4, <1>5 DEF Requests

LEMMA ClientActs ==
  ASSUME GTypeOK, GateClientStep
  PROVE  \E c \in Clients : \E new :
           /\ Acts(c, new)
           /\ Quiets(c, new) \/ \E m : Requests(c, new, m) \/ Reports(c, new, m)
<1>1. PICK c \in Clients :
          \/ OnNewCnn(c) \/ ReqUserLogin(c) \/ UserLoginOver(c)
          \/ \E r \in Roles : ReqLaunchRole(c, r) \/ ReqReconnect(c, r)
          \/ ReconnectAuthed(c) \/ ReqLogoutRole(c)
          \/ OnCloseCnn(c)
  BY DEF GateClientStep
<1>2. PICK old : old = clients[c] /\ old \in Client
  BY DEF GTypeOK
<1> DEFINE over == \E new : /\ Acts(c, new)
                            /\ Quiets(c, new) \/ \E m : Requests(c, new, m) \/ Reports(c, new, m)
<1>3. ASSUME NEW state \in {"Free", "Authing", "Manage_Role"}, Moves(c, state), old.state # "gone"
      PROVE  over
  <2>1. PICK new : new = [old EXCEPT !.state = state]
    OBVIOUS
  <2>2. /\ new.session = old.session /\ new.state # "In_Game" /\ new.closing = old.closing
        /\ new.n = old.n
    BY <1>2, <2>1 DEF Client
  <2>3. clients' = [clients EXCEPT ![c] = new] /\ UNCHANGED <<net, gcalls>>
    BY <1>2, <1>3, <2>1 DEF Moves
  <2>4. Acts(c, new) /\ Quiets(c, new)
    BY <1>2, <1>3, <2>2, <2>3 DEF Acts, Quiets
  <2> QED BY <2>4
<1>4. ASSUME NEW rejoin, clients' = [clients EXCEPT ![c].state = "Authing", ![c].rejoin = rejoin],
             UNCHANGED <<gcalls, net>>, old.state # "gone"
      PROVE  over
  <2>1. PICK new : new = [old EXCEPT !.state = "Authing", !.rejoin = rejoin]
    OBVIOUS
  <2>2. /\ new.session = old.session /\ new.state # "In_Game" /\ new.closing = old.closing
        /\ new.n = old.n
    BY <1>2, <2>1 DEF Client
  <2>3. clients' = [clients EXCEPT ![c] = new]
    BY <1>2, <1>4, <2>1
  <2>4. Acts(c, new) /\ Quiets(c, new)
    BY <1>2, <1>4, <2>2, <2>3 DEF Acts, Quiets
  <2> QED BY <2>4
<1>5. ASSUME NEW fn, NEW remote_fn \in {"launch_role", "reconnect_role"}, NEW r,
             clients' = [clients EXCEPT ![c].state = "Launch_Role", ![c].world = TRUE,
                                        ![c].n = @ + 1],
             CallsWorld(c, fn, remote_fn, <<r, c>>, r), old.state # "gone"
      PROVE  over
  <2>1. PICK new : new = [old EXCEPT !.state = "Launch_Role", !.world = TRUE, !.n = @ + 1]
    OBVIOUS
  <2>2. /\ new.session = old.session /\ new.state # "In_Game" /\ new.closing = old.closing
        /\ new.n = old.n + 1
    BY <1>2, <2>1 DEF Client
  <2>3. clients' = [clients EXCEPT ![c] = new]
    BY <1>2, <1>5, <2>1
  <2>4. PICK args : args = <<r, c>> /\ CallsWorld(c, fn, remote_fn, args, r)
    BY <1>5
  <2>5. \E m : Requests(c, new, m)
    BY <1>2, <2>2, <2>4, Called
  <2>6. Acts(c, new)
    BY <1>2, <1>5, <2>2, <2>3 DEF Acts
  <2> QED BY <2>5, <2>6
<1>6. CASE OnNewCnn(c) \/ UserLoginOver(c)
  BY <1>2, <1>3, <1>6 DEF OnNewCnn, UserLoginOver
<1>7. CASE ReqUserLogin(c) \/ \E r \in Roles : ReqReconnect(c, r)
  BY <1>2, <1>4, <1>7 DEF ReqUserLogin, ReqReconnect
<1>8. CASE \E r \in Roles : ReqLaunchRole(c, r)
  BY <1>2, <1>5, <1>8 DEF ReqLaunchRole
<1>9. CASE ReconnectAuthed(c)
  BY <1>2, <1>3, <1>5, <1>9 DEF ReconnectAuthed
<1>10. CASE ReqLogoutRole(c)
  <2>1. PICK new : new = [old EXCEPT !.n = @ + 1]
    OBVIOUS
  <2>2. /\ new.session = old.session /\ new.state = old.state /\ new.closing = old.closing
        /\ new.n = old.n + 1 /\ new.role = old.role
    BY <1>2, <2>1 DEF Client
  <2>3. clients' = [clients EXCEPT ![c] = new] /\ old.state = "In_Game"
    BY <1>2, <1>10, <2>1 DEF ReqLogoutRole
  <2>4. PICK args, r : /\ args = <<old.session, r>>
                       /\ CallsWorld(c, "logout", "logout_role", args, r)
    BY <1>2, <1>10 DEF ReqLogoutRole
  <2>5. args[1] = old.session
    BY <2>4
  <2>6. \E m : Requests(c, new, m)
    BY <1>2, <2>2, <2>4, <2>5, Called
  <2>7. Acts(c, new)
    BY <1>2, <2>2, <2>3 DEF Acts
  <2> QED BY <2>6, <2>7
<1>11. CASE OnCloseCnn(c)
  <2>1. PICK new : new = [old EXCEPT !.state = "gone", !.session = 0, !.role = None,
                                     !.world = FALSE, !.rejoin = None, !.closing = FALSE]
    OBVIOUS
  <2>2. new.session = 0 /\ new.state = "gone" /\ new.n = old.n
    BY <1>2, <2>1 DEF Client
  <2>3. clients' = [clients EXCEPT ![c] = new] /\ old.state # "gone" /\ UNCHANGED gcalls
    BY <1>2, <1>11, <2>1 DEF OnCloseCnn, Connected
  <2>4. PICK m : m = Call(World, "client_quit", <<old.session>>, NoCb)
    OBVIOUS
  <2>5. UNCHANGED net \/ Deliver(NoLink, GateOf[c], <<m>>)
    BY <1>2, <1>11, <2>4 DEF OnCloseCnn
  <2>6. Acts(c, new)
    BY <1>2, <2>2, <2>3 DEF Acts
  <2>7. Quiets(c, new) \/ Reports(c, new, m)
    BY <1>2, <2>2, <2>3, <2>4, <2>5 DEF Quiets, Reports
  <2> QED BY <2>6, <2>7
<1> HIDE DEF over
<1> QED BY <1>1, <1>6, <1>7, <1>8, <1>9, <1>10, <1>11

\* What a client asks for, or its end, leaves all in order.
LEMMA GateClientOrdered ==
  ASSUME GTypeOK, WorldInv, Queues, Ordered, GateClientStep
  PROVE  Ordered'
<1>0. PICK c \in Clients : \E new :
        /\ Acts(c, new)
        /\ Quiets(c, new) \/ \E m : Requests(c, new, m) \/ Reports(c, new, m)
  BY ClientActs
<1>1. PICK new : /\ Acts(c, new)
                 /\ Quiets(c, new) \/ \E m : Requests(c, new, m) \/ Reports(c, new, m)
  BY <1>0
<1>2. UNCHANGED worldVars
  BY DEF GateClientStep
<1>3. PICK old : old = clients[c] /\ old \in Client
  BY DEF GTypeOK
<1>4. /\ \A d \in Clients : clients'[d] = IF d = c THEN new ELSE clients[d]
      /\ new.session \in {0, old.session} /\ old.state # "gone"
      /\ new.state = "In_Game" => old.state = "In_Game" /\ new.role = old.role
      /\ new.closing = old.closing \/ new.state = "gone"
  BY <1>1, <1>3 DEF Acts, GTypeOK
<1>5. \A d \in Clients : GateOf[d] \in Gates
  BY ConstantsAssumption
<1>6. \/ Quiets(c, new)
      \/ \E m : /\ m.to = World /\ Deliver(NoLink, GateOf[c], <<m>>)
                /\ Requests(c, new, m) \/ Reports(c, new, m)
  BY <1>1 DEF Requests, Reports, Call
<1>7. \A g \in Gates : Out(g)' = Out(g)
  <2>1. CASE Quiets(c, new)
    BY <2>1 DEF Quiets, Out
  <2> QED BY <1>5, <1>6, <2>1, GateSends
<1>8. OwnersSound'
  <2> SUFFICES ASSUME NEW d \in Clients, NEW r \in Roles PROVE Rightful(d, r)'
    BY DEF OwnersSound
  <2>1. Owns(d, r)' = Owns(d, r)
    BY <1>2, WorldRests DEF Owns
  <2>2. /\ InGame(d, r)' => InGame(d, r)
        /\ Gone(d) => Gone(d)'
        /\ clients[d].closing => clients'[d].closing \/ Gone(d)'
    BY <1>3, <1>4 DEF InGame, Gone
  <2>3. Rightful(d, r) /\ Out(GateOf[d])' = Out(GateOf[d])
    BY <1>5, <1>7 DEF Ordered, OwnersSound
  <2> QED BY <2>1, <2>2, <2>3, RightfulStays
<1>9. ASSUME NEW g \in Gates, NEW i \in DOMAIN Back(g)'
      PROVE  \/ i \in DOMAIN Back(g) /\ Back(g)'[i] = Back(g)[i]
             \/ Requests(c, new, Back(g)'[i]) /\ g = GateOf[c]
             \/ Reports(c, new, Back(g)'[i]) /\ g = GateOf[c]
  <2>1. CASE Quiets(c, new)
    BY <1>9, <2>1 DEF Quiets, Back
  <2>2. CASE ~ Quiets(c, new)
    <3>1. PICK m : /\ m.to = World /\ Deliver(NoLink, GateOf[c], <<m>>)
                   /\ Requests(c, new, m) \/ Reports(c, new, m)
      BY <1>6, <2>2
    <3>2. IF g = GateOf[c] THEN Adds(Back(g), m, Back(g)') ELSE Back(g)' = Back(g)
      BY <1>5, <3>1, GateSends
    <3> QED BY <1>9, <3>1, <3>2 DEF Adds
  <2> QED BY <2>1, <2>2
<1>10. BearersSound'
  <2>1. ASSUME NEW d \in Clients, NEW s \in Ids, Bears(d, s)' PROVE Bears(d, s)
    <3>1. PICK g \in Gates : g = GateOf[d]
      BY <1>5
    <3>2. CASE clients'[d].session = s
      <4>1. clients[d].session = s
        BY <1>3, <1>4, <3>2, IdFacts
      <4> QED BY <4>1 DEF Bears
    <3>3. CASE \E cb \in wcalls' : IsReconnect(cb) /\ cb[2][2] = d /\ cb[3] = s
      BY <1>2, <3>3, WorldRests DEF Bears
    <3>4. CASE \E i \in DOMAIN Out(g)' : Out(g)'[i].fn = "rsp" /\ Out(g)'[i].val = s /\ Out(g)'[i].cb[2] = d
      BY <1>7, <3>1, <3>4 DEF Bears
    <3>5. CASE \E i \in DOMAIN Back(g)' :
                 Back(g)'[i].fn = "logout_role" /\ Back(g)'[i].args[1] = s /\ Back(g)'[i].cb[2] = d
      <4>1. PICK i \in DOMAIN Back(g)' :
                 Back(g)'[i].fn = "logout_role" /\ Back(g)'[i].args[1] = s /\ Back(g)'[i].cb[2] = d
        BY <3>5
      <4>2. PICK m : m = Back(g)'[i]
        OBVIOUS
      <4>3. CASE i \in DOMAIN Back(g) /\ m = Back(g)[i]
        BY <3>1, <4>1, <4>2, <4>3 DEF Bears
      <4>4. CASE Requests(c, new, m)
        <5>1. d = c /\ clients[c].session = s
          BY <4>1, <4>2, <4>4 DEF Requests
        <5> QED BY <5>1 DEF Bears
      <4>5. CASE Reports(c, new, m)
        BY <4>1, <4>2, <4>5 DEF Reports, Call
      <4> QED BY <1>9, <4>2, <4>3, <4>4, <4>5
    <3> QED BY <2>1, <3>1, <3>2, <3>3, <3>4, <3>5 DEF Bears
  <2>2. ASSUME NEW s \in Ids, Quits(s)' PROVE Quits(s) \/ \E d \in Clients : Bears(d, s) /\ Gone(d)'
    <3>0. PICK g \in Gates : \E i \in DOMAIN Back(g)' :
            Back(g)'[i].fn = "client_quit" /\ Back(g)'[i].args[1] = s
      BY <2>2 DEF Quits
    <3>1. PICK i \in DOMAIN Back(g)' : Back(g)'[i].fn = "client_quit" /\ Back(g)'[i].args[1] = s
      BY <3>0
    <3>2. PICK m : m = Back(g)'[i]
      OBVIOUS
    <3>3. CASE i \in DOMAIN Back(g) /\ m = Back(g)[i]
      BY <3>1, <3>2, <3>3 DEF Quits
    <3>4. CASE Requests(c, new, m)
      BY <3>1, <3>2, <3>4 DEF Requests
    <3>5. CASE Reports(c, new, m)
      <4>1. clients[c].session = s /\ new.state = "gone"
        BY <3>1, <3>2, <3>5 DEF Reports, Call
      <4> QED BY <1>4, <4>1 DEF Bears, Gone
    <3> QED BY <1>9, <3>1, <3>2, <3>3, <3>4, <3>5
  <2>3. \A d \in Clients : Gone(d) => Gone(d)'
    BY <1>3, <1>4 DEF Gone
  <2>4. \A r \in Roles : SessionOf(r) # 0 => SessionOf(r) \in Ids
    BY LivingRole, IdFacts DEF SessionOf, RoleObj
  <2> QED BY <1>2, <2>1, <2>2, <2>3, <2>4, BearersStay DEF Ordered
<1>11. LogoutsSound'
  <2>1. \A cb \in gcalls : cb[2] \in Clients /\ cb[3] <= clients[cb[2]].n /\ cb[3] \in Nat
    BY ConstantsAssumption DEF Ordered, LogoutsSound, GTypeOK, GateCbs, GateCb, CallIds
  <2>2. old.n \in Nat
    BY <1>3, ConstantsAssumption DEF Client
  <2>3. CASE Quiets(c, new)
    <3>1. \A g \in Gates : Back(g)' = Back(g) /\ Out(g)' = Out(g) /\ CallsOf(g)' = CallsOf(g)
      BY <2>3 DEF Quiets, Back, Out, CallsOf
    <3>2. \A cb \in gcalls' : cb[3] <= clients'[cb[2]].n
      BY <1>3, <1>4, <2>1, <2>3 DEF Quiets
    <3>3. ASSUME NEW g \in Gates PROVE Pending(CallsOf(g), Back(g), Out(g))'
      BY <3>1 DEF Ordered, LogoutsSound
    <3> QED BY <3>2, <3>3 DEF LogoutsSound
  <2>4. ASSUME NEW m, m.to = World, Deliver(NoLink, GateOf[c], <<m>>),
               Requests(c, new, m) \/ Reports(c, new, m)
        PROVE  LogoutsSound'
    <3>1. \/ /\ gcalls' = gcalls \cup {m.cb} /\ m.cb[2] = c /\ m.cb[3] = new.n /\ new.n = old.n + 1
          \/ gcalls' = gcalls /\ m.cb[1] # "logout" /\ new.n = old.n
      BY <1>3, <2>4 DEF Requests, Reports, Call, NoCb
    <3>2. old.n <= new.n /\ ~ (old.n + 1 <= old.n) /\ new.n <= new.n
      BY <2>2, <3>1
    <3>3. \A cb \in gcalls : cb[3] <= clients'[cb[2]].n
      <4> TAKE cb \in gcalls
      <4>1. cb[2] \in Clients /\ cb[3] <= clients[cb[2]].n /\ cb[3] \in Nat
        BY <2>1
      <4>2. CASE cb[2] = c
        <5>1. cb[3] <= old.n /\ clients'[cb[2]].n = new.n
          BY <1>3, <1>4, <4>1, <4>2
        <5>2. new.n \in Nat
          BY <2>2, <3>1
        <5>3. cb[3] <= new.n
          BY <2>2, <3>2, <4>1, <5>1, <5>2
        <5> QED BY <5>1, <5>3
      <4> QED BY <1>4, <4>1, <4>2
    <3>4. \A cb \in gcalls' : cb[3] <= clients'[cb[2]].n
      BY <1>4, <3>1, <3>2, <3>3
    <3>5. m.cb[1] = "logout" => m.cb \notin gcalls /\ m.cb \in gcalls' /\ m.cb[2] = c
      BY <1>3, <2>1, <3>1, <3>2
    <3>6. ASSUME NEW g \in Gates PROVE Pending(CallsOf(g), Back(g), Out(g))'
      <4>1. PICK calls, up, down, calls2, up2 :
              /\ calls = CallsOf(g) /\ up = Back(g) /\ down = Out(g)
              /\ calls2 = CallsOf(g)' /\ up2 = Back(g)'
        OBVIOUS
      <4>2. Pending(calls, up, down) /\ Out(g)' = down
        BY <1>7, <4>1 DEF Ordered, LogoutsSound
      <4>3. CASE g = GateOf[c]
        <5>1. Adds(up, m, up2)
          BY <1>5, <2>4, <4>1, <4>3, GateSends
        <5>2. calls \subseteq calls2
          BY <3>1, <4>1 DEF CallsOf
        <5>3. m.cb[1] = "logout" => m.cb \in calls2 /\ m.cb \notin calls
          BY <3>5, <4>1, <4>3 DEF CallsOf
        <5>4. Pending(calls2, up2, down)
          BY <4>2, <5>1, <5>2, <5>3, PendingMade
        <5> QED BY <4>1, <4>2, <5>4
      <4>4. CASE g # GateOf[c]
        <5>1. up2 = up
          BY <1>5, <2>4, <4>1, <4>4, GateSends
        <5>2. calls2 = calls
          BY <3>1, <4>1, <4>4 DEF CallsOf
        <5> QED BY <4>1, <4>2, <5>1, <5>2
      <4> QED BY <4>3, <4>4
    <3> QED BY <3>4, <3>6 DEF LogoutsSound
  <2> QED BY <1>6, <2>3, <2>4
<1>12. AnswersSound'
  BY <1>2, WorldRests DEF Ordered
<1> QED BY <1>8, <1>10, <1>11, <1>12 DEF Ordered

(***************************************************************************)
(* A gate takes message m, the next from the world.                        *)
(***************************************************************************)
GateHears(gate, m) ==
  /\ Out(gate) # <<>> /\ Out(gate)[1] = m /\ Deliver(<<World, gate>>, gate, <<>>)
  /\ \A d \in Clients :
       /\ Gone(d) => Gone(d)'
       /\ clients[d].closing => clients'[d].closing \/ Gone(d)'
       /\ clients'[d].n = clients[d].n
       /\ \A r \in Roles : InGame(d, r)' =>
            \/ InGame(d, r) /\ (GateOf[d] = gate => ~ Parts(m, d))
            \/ GateOf[d] = gate /\ (Grants(m, d, r) \/ clients'[d].closing)
       /\ \/ clients'[d].session \in {0, clients[d].session}
          \/ GateOf[d] = gate /\ m.fn = "rsp" /\ m.val = clients'[d].session /\ m.cb[2] = d
  /\ gcalls' \subseteq gcalls
  /\ \A cb \in gcalls : cb \in gcalls' \/ (cb = m.cb /\ GateOf[cb[2]] = gate)

LEMMA GateHearsOrdered ==
  ASSUME GTypeOK, WorldInv, Queues, Ordered, UNCHANGED worldVars, NEW gate \in Gates, NEW m, GateHears(gate, m)
  PROVE  Ordered'
<1>1. /\ \A g \in Gates : Back(g)' = Back(g) /\ (g # gate => Out(g)' = Out(g))
      /\ Rest(Out(gate), Out(gate)') /\ Out(gate)[1] = m
  BY GateTakes DEF GateHears
<1>2. \A d \in Clients : GateOf[d] \in Gates
  BY ConstantsAssumption
<1>3. OwnersSound'
  <2> SUFFICES ASSUME NEW d \in Clients, NEW r \in Roles PROVE Rightful(d, r)'
    BY DEF OwnersSound
  <2>1. Owns(d, r)' = Owns(d, r)
    BY WorldRests DEF Owns
  <2>2. Rightful(d, r)
    BY DEF Ordered, OwnersSound
  <2>3. Gone(d) => Gone(d)'
    BY DEF GateHears
  <2>4. clients[d].closing => clients'[d].closing \/ Gone(d)'
    BY DEF GateHears
  <2>5. InGame(d, r)' =>
          \/ InGame(d, r) /\ (GateOf[d] = gate => ~ Parts(m, d))
          \/ GateOf[d] = gate /\ (Grants(m, d, r) \/ clients'[d].closing)
    BY DEF GateHears
  <2>6. CASE GateOf[d] = gate
    <3>1. Rest(Out(GateOf[d]), Out(GateOf[d])') /\ Out(GateOf[d])[1] = m
      BY <1>1, <2>6
    <3> QED BY <2>1, <2>2, <2>3, <2>4, <2>5, <2>6, <3>1, RightfulTaken
  <2>7. CASE GateOf[d] # gate
    <3>1. Out(GateOf[d])' = Out(GateOf[d])
      BY <1>1, <1>2, <2>7
    <3> QED BY <2>1, <2>2, <2>3, <2>4, <2>5, <2>7, <3>1, RightfulStays
  <2> QED BY <2>6, <2>7
<1>4. \A g \in Gates : \A i \in DOMAIN Out(g)' : \E j \in DOMAIN Out(g) : Out(g)'[i] = Out(g)[j]
  BY <1>1 DEF Rest
<1>5. BearersSound'
  <2>1. ASSUME NEW d \in Clients, NEW s \in Ids, Bears(d, s)' PROVE Bears(d, s)
    <3>1. PICK g \in Gates : g = GateOf[d]
      BY <1>2
    <3>2. CASE clients'[d].session = s
      <4>1. clients[d].session = s \/ (g = gate /\ m.fn = "rsp" /\ m.val = s /\ m.cb[2] = d)
        BY <3>1, <3>2, IdFacts DEF GateHears
      <4>2. g = gate => 1 \in DOMAIN Out(g) /\ Out(g)[1] = m
        BY <1>1 DEF Rest
      <4> QED BY <3>1, <4>1, <4>2 DEF Bears
    <3>3. CASE \E cb \in wcalls' : IsReconnect(cb) /\ cb[2][2] = d /\ cb[3] = s
      BY <3>3, WorldRests DEF Bears
    <3>4. CASE \E i \in DOMAIN Out(g)' : Out(g)'[i].fn = "rsp" /\ Out(g)'[i].val = s /\ Out(g)'[i].cb[2] = d
      BY <1>4, <3>1, <3>4 DEF Bears
    <3>5. CASE \E i \in DOMAIN Back(g)' :
                 Back(g)'[i].fn = "logout_role" /\ Back(g)'[i].args[1] = s /\ Back(g)'[i].cb[2] = d
      BY <1>1, <3>1, <3>5 DEF Bears
    <3> QED BY <2>1, <3>1, <3>2, <3>3, <3>4, <3>5 DEF Bears
  <2>2. \A s \in Ids : Quits(s)' => Quits(s)
    BY <1>1 DEF Quits
  <2>3. \A d \in Clients : Gone(d) => Gone(d)'
    BY DEF GateHears
  <2>4. \A r \in Roles : SessionOf(r) # 0 => SessionOf(r) \in Ids
    BY LivingRole, IdFacts DEF SessionOf, RoleObj
  <2> QED BY <2>1, <2>2, <2>3, <2>4, BearersStay DEF Ordered
<1>6. LogoutsSound'
  <2>1. ASSUME NEW cb \in gcalls' PROVE cb[3] <= clients'[cb[2]].n
    <3>1. cb \in gcalls /\ cb[2] \in Clients
      BY <2>1 DEF GateHears, GTypeOK, GateCbs, GateCb
    <3> QED BY <3>1 DEF Ordered, LogoutsSound, GateHears
  <2>2. ASSUME NEW g \in Gates PROVE Pending(CallsOf(g), Back(g), Out(g))'
    <3>1. PICK calls, up, down, calls2, down2 :
            /\ calls = CallsOf(g) /\ up = Back(g) /\ down = Out(g)
            /\ calls2 = CallsOf(g)' /\ down2 = Out(g)'
      OBVIOUS
    <3>2. Pending(calls, up, down) /\ Back(g)' = up
      BY <1>1, <3>1 DEF Ordered, LogoutsSound
    <3>3. CASE g = gate
      <4>1. Rest(down, down2) /\ down[1] = m
        BY <1>1, <3>1, <3>3
      <4>2. \A cb \in calls : cb = down[1].cb \/ cb \in calls2
        BY <3>1, <3>3, <4>1 DEF GateHears, CallsOf
      <4>3. Pending(calls2, up, down2)
        BY <3>2, <4>1, <4>2, PendingTaken
      <4> QED BY <3>1, <3>2, <4>3
    <3>4. CASE g # gate
      <4>1. down2 = down
        BY <1>1, <3>1, <3>4
      <4>2. calls2 = calls
        BY <3>1, <3>4 DEF GateHears, CallsOf
      <4> QED BY <3>1, <3>2, <4>1, <4>2
    <3> QED BY <3>3, <3>4
  <2> QED BY <2>1, <2>2 DEF LogoutsSound
<1>7. AnswersSound'
  BY WorldRests DEF Ordered
<1> QED BY <1>3, <1>5, <1>6, <1>7 DEF Ordered

\* The answer to a call, and one to a call that is over.
LEMMA GateAnsweredOrdered ==
  ASSUME GTypeOK, WorldInv, Queues, Ordered, GateAnswered
  PROVE  Ordered'
<1>1. PICK cb \in gcalls, err \in Errors, s \in IdOrNil :
        /\ Arrives(World, GateOf[cb[2]], Answer(GateOf[cb[2]], cb, err, s))
        /\ GateRuns(<<World, GateOf[cb[2]]>>, cb, err, s)
  BY DEF GateAnswered
<1>2. PICK fn \in {"launch", "reconnect", "logout"}, c \in Clients, r \in Roles :
        cb[1] = fn /\ cb[2] = c /\ cb[4] = r
  BY DEF GTypeOK, GateCbs, GateCb
<1>3. PICK gate \in Gates : gate = GateOf[c]
  BY ConstantsAssumption
<1>4. PICK m : m = Answer(gate, cb, err, s)
  OBVIOUS
<1>5. m.fn = "rsp" /\ m.cb = cb /\ m.err = err /\ m.val = s
  BY <1>4 DEF Answer
<1>6. <<World, gate>> \in Links
  BY GateLinks
<1>7. Out(gate) # <<>> /\ Out(gate)[1] = m
  BY <1>1, <1>2, <1>3, <1>4, <1>6, HeadIn DEF Arrives, Out
<1>8. /\ UNCHANGED worldVars /\ Deliver(<<World, gate>>, gate, <<>>) /\ gcalls' = gcalls \ {cb}
      /\ GateCallback(fn, c, r, err, s)
  BY <1>1, <1>2, <1>3 DEF GateRuns
<1>9. PICK old : old = clients[c] /\ old \in Client
  BY DEF GTypeOK
<1>10. \/ clients' = clients /\ (fn = "logout" /\ err = "ok" => old.state # "In_Game")
       \/ /\ old.state # "gone" /\ fn # "logout" /\ err = "ok"
          /\ clients' = [clients EXCEPT ![c].state = "In_Game", ![c].role = r, ![c].session = s]
       \/ /\ old.state # "gone" /\ fn # "logout"
          /\ clients' = [clients EXCEPT ![c].state = "Manage_Role"]
       \/ /\ old.state # "gone" /\ fn # "logout"
          /\ clients' = [clients EXCEPT ![c].state = IF @ = "Launch_Role" THEN "Manage_Role" ELSE @]
       \/ /\ old.state # "gone"
          /\ clients' = [clients EXCEPT ![c].state = "Manage_Role", ![c].world = FALSE,
                                        ![c].session = 0]
  BY <1>8, <1>9 DEF GateCallback, RspLaunchRole, RspReconnect, RspLogoutRole, Connected
<1>11. \E new :
         /\ clients' = [clients EXCEPT ![c] = new]
         /\ new.closing = old.closing /\ new.n = old.n /\ (old.state = "gone" => new.state = "gone")
         /\ new.session \in {0, old.session, s}
         /\ new.state = "In_Game" =>
              \/ old.state = "In_Game" /\ new.role = old.role /\ ~ (fn = "logout" /\ err = "ok")
              \/ fn # "logout" /\ err = "ok" /\ new.role = r
  <2>1. CASE clients' = clients /\ (fn = "logout" /\ err = "ok" => old.state # "In_Game")
    BY <1>9, <2>1 DEF GTypeOK
  <2>2. CASE /\ old.state # "gone" /\ fn # "logout" /\ err = "ok"
             /\ clients' = [clients EXCEPT ![c].state = "In_Game", ![c].role = r, ![c].session = s]
    <3>1. PICK new : new = [old EXCEPT !.state = "In_Game", !.role = r, !.session = s]
      OBVIOUS
    <3>2. new.session = s /\ new.role = r /\ new.closing = old.closing /\ new.n = old.n
      BY <1>9, <3>1 DEF Client
    <3>3. clients' = [clients EXCEPT ![c] = new]
      BY <1>9, <2>2, <3>1
    <3> QED BY <2>2, <3>2, <3>3
  <2>3. CASE /\ old.state # "gone" /\ fn # "logout"
             /\ clients' = [clients EXCEPT ![c].state = "Manage_Role"]
    <3>1. PICK new : new = [old EXCEPT !.state = "Manage_Role"]
      OBVIOUS
    <3>2. /\ new.session = old.session /\ new.state = "Manage_Role" /\ new.closing = old.closing
          /\ new.n = old.n
      BY <1>9, <3>1 DEF Client
    <3>3. clients' = [clients EXCEPT ![c] = new]
      BY <1>9, <2>3, <3>1
    <3> QED BY <2>3, <3>2, <3>3
  <2>4. CASE /\ old.state # "gone" /\ fn # "logout"
             /\ clients' = [clients EXCEPT ![c].state = IF @ = "Launch_Role" THEN "Manage_Role" ELSE @]
    <3>1. PICK state : state = IF old.state = "Launch_Role" THEN "Manage_Role" ELSE old.state
      OBVIOUS
    <3>2. PICK new : new = [old EXCEPT !.state = state]
      OBVIOUS
    <3>3. /\ new.session = old.session /\ new.state = state /\ new.closing = old.closing
          /\ new.n = old.n /\ new.role = old.role
      BY <1>9, <3>2 DEF Client
    <3>4. clients' = [clients EXCEPT ![c] = new]
      BY <1>9, <2>4, <3>1, <3>2
    <3> QED BY <2>4, <3>1, <3>3, <3>4
  <2>5. CASE /\ old.state # "gone"
             /\ clients' = [clients EXCEPT ![c].state = "Manage_Role", ![c].world = FALSE,
                                           ![c].session = 0]
    <3>1. PICK new : new = [old EXCEPT !.state = "Manage_Role", !.world = FALSE, !.session = 0]
      OBVIOUS
    <3>2. /\ new.session = 0 /\ new.state = "Manage_Role" /\ new.closing = old.closing
          /\ new.n = old.n
      BY <1>9, <3>1 DEF Client
    <3>3. clients' = [clients EXCEPT ![c] = new]
      BY <1>9, <2>5, <3>1
    <3> QED BY <2>5, <3>2, <3>3
  <2> QED BY <1>10, <2>1, <2>2, <2>3, <2>4, <2>5
<1>12. PICK new :
         /\ clients' = [clients EXCEPT ![c] = new]
         /\ new.closing = old.closing /\ new.n = old.n /\ (old.state = "gone" => new.state = "gone")
         /\ new.session \in {0, old.session, s}
         /\ new.state = "In_Game" =>
              \/ old.state = "In_Game" /\ new.role = old.role /\ ~ (fn = "logout" /\ err = "ok")
              \/ fn # "logout" /\ err = "ok" /\ new.role = r
  BY <1>11
<1>13. \A d \in Clients : clients'[d] = IF d = c THEN new ELSE clients[d]
  BY <1>12 DEF GTypeOK
<1>14. /\ \A d \in Clients : Parts(m, d) => d = c /\ fn = "logout" /\ err = "ok"
       /\ fn # "logout" /\ err = "ok" => Grants(m, c, r)
  BY <1>2, <1>5 DEF Parts, Grants, Kick, Call
<1>15. GateHears(gate, m)
  <2>1. ASSUME NEW d \in Clients
        PROVE  /\ Gone(d) => Gone(d)'
               /\ clients[d].closing => clients'[d].closing \/ Gone(d)'
               /\ clients'[d].n = clients[d].n
               /\ \/ clients'[d].session \in {0, clients[d].session}
                  \/ GateOf[d] = gate /\ m.fn = "rsp" /\ m.val = clients'[d].session /\ m.cb[2] = d
    BY <1>2, <1>3, <1>5, <1>9, <1>12, <1>13 DEF Gone
  <2>2. ASSUME NEW d \in Clients, NEW q \in Roles, InGame(d, q)'
        PROVE  \/ InGame(d, q) /\ (GateOf[d] = gate => ~ Parts(m, d))
               \/ GateOf[d] = gate /\ (Grants(m, d, q) \/ clients'[d].closing)
    <3>1. CASE d = c
      BY <1>3, <1>9, <1>12, <1>13, <1>14, <2>2, <3>1 DEF InGame
    <3>2. CASE d # c
      BY <1>13, <1>14, <2>2, <3>2 DEF InGame
    <3> QED BY <3>1, <3>2
  <2>3. \A b \in gcalls : b \in gcalls' \/ (b = m.cb /\ GateOf[b[2]] = gate)
    BY <1>2, <1>3, <1>5, <1>8
  <2> QED BY <1>7, <1>8, <2>1, <2>2, <2>3 DEF GateHears
<1> QED BY <1>8, <1>15, GateHearsOrdered

LEMMA GateIgnoresOrdered ==
  ASSUME GTypeOK, WorldInv, Queues, Ordered, GateIgnores
  PROVE  Ordered'
<1>1. PICK gate \in Gates :
        /\ net[<<World, gate>>] # <<>> /\ Head(net[<<World, gate>>]).fn = "rsp"
        /\ Head(net[<<World, gate>>]).cb \notin gcalls
        /\ Deliver(<<World, gate>>, gate, <<>>)
  BY DEF GateIgnores
<1>2. UNCHANGED worldVars /\ UNCHANGED <<clients, gcalls>>
  BY DEF GateIgnores, gateVars
<1>3. <<World, gate>> \in Links
  BY GateLinks
<1>4. PICK m : m = Out(gate)[1]
  OBVIOUS
<1>5. Out(gate) # <<>> /\ 1 \in DOMAIN Out(gate) /\ m.fn = "rsp" /\ m.cb \notin gcalls
  BY <1>1, <1>3, <1>4, HeadIn DEF Out
<1>6. m.cb[1] # "logout"
  BY <1>4, <1>5 DEF Ordered, LogoutsSound, Pending, CallsOf
<1>7. \A d \in Clients : ~ Parts(m, d)
  BY <1>5, <1>6 DEF Parts, Kick, Call
<1>8. GateHears(gate, m)
  BY <1>1, <1>2, <1>4, <1>5, <1>7 DEF GateHears, Gone, InGame
<1> QED BY <1>2, <1>8, GateHearsOrdered

LEMMA GateKicksOrdered ==
  ASSUME GTypeOK, WorldInv, Queues, Ordered, GateKicks
  PROVE  Ordered'
<1>1. PICK c \in Clients : Arrives(World, GateOf[c], Kick(c)) /\ OnKickClient(<<World, GateOf[c]>>, c)
  BY DEF GateKicks
<1>2. UNCHANGED worldVars
  BY DEF GateKicks
<1>3. PICK gate \in Gates : gate = GateOf[c]
  BY ConstantsAssumption
<1>4. <<World, gate>> \in Links
  BY GateLinks
<1>5. PICK m : m = Kick(c)
  OBVIOUS
<1>6. Out(gate) # <<>> /\ Out(gate)[1] = m
  BY <1>1, <1>3, <1>4, <1>5, HeadIn DEF Arrives, Out
<1>7. PICK old : old = clients[c] /\ old \in Client
  BY DEF GTypeOK
<1>8. PICK new : new = [old EXCEPT !.closing = old.state # "gone"]
  OBVIOUS
<1>9. /\ new.state = old.state /\ new.role = old.role /\ new.session = old.session /\ new.n = old.n
      /\ new.closing = (old.state # "gone")
  BY <1>7, <1>8 DEF Client
<1>10. /\ clients' = [clients EXCEPT ![c] = new] /\ UNCHANGED gcalls
       /\ Deliver(<<World, gate>>, gate, <<>>)
  BY <1>1, <1>3, <1>7, <1>8 DEF OnKickClient
<1>11. \A d \in Clients : clients'[d] = IF d = c THEN new ELSE clients[d]
  BY <1>10 DEF GTypeOK
<1>12. \A d \in Clients : Parts(m, d) => d = c
  <2>1. m.args[1] = c /\ m.fn # "rsp"
    BY <1>5 DEF Kick, Call
  <2>2. \A d : Kick(d).args[1] = d
    BY DEF Kick, Call
  <2> QED BY <2>1, <2>2 DEF Parts
<1>13. GateHears(gate, m)
  BY <1>3, <1>6, <1>7, <1>9, <1>10, <1>11, <1>12 DEF GateHears, Gone, InGame
<1> QED BY <1>2, <1>13, GateHearsOrdered

\* A handler that died has died for good.
LEMMA AbortedGrows ==
  ASSUME World_Step PROVE aborted \subseteq aborted'
<1>1. ASSUME NEW in, NEW rsp, NEW c, NEW r, LaunchRole(in, rsp, c, r) PROVE aborted \subseteq aborted'
  BY <1>1 DEF LaunchRole, LaunchAbsent, LaunchReleasing, LaunchIdle, LaunchUsing, LaunchLaunching,
             worldVars
<1>2. ASSUME NEW in, NEW rsp, NEW c, NEW r, ReconnectRole(in, rsp, c, r) PROVE aborted \subseteq aborted'
  BY <1>2 DEF ReconnectRole, worldVars
<1>3. ASSUME NEW in, NEW rsp, NEW s, NEW r, LogoutRole(in, rsp, s, r) PROVE aborted \subseteq aborted'
  BY <1>3 DEF LogoutRole, worldVars
<1>4. ASSUME NEW in, NEW s, ClientQuit(in, s) PROVE aborted \subseteq aborted'
  BY <1>4 DEF ClientQuit, worldVars
<1>5. ASSUME NEW in, NEW s, NEW r, NEW err, RpcRspLaunchRole(in, s, r, err)
      PROVE  aborted \subseteq aborted'
  BY <1>5 DEF RpcRspLaunchRole, FailAction, worldVars
<1>6. ASSUME NEW in, NEW o, NEW err, LaunchClientChanged(in, o, err) PROVE aborted \subseteq aborted'
  BY <1>6 DEF LaunchClientChanged, FailAction, worldVars
<1>7. ASSUME NEW in, NEW r, NEW opera, NEW err, RpcRspTryReleaseRole(in, r, opera, err)
      PROVE  aborted \subseteq aborted'
  BY <1>7 DEF RpcRspTryReleaseRole, worldVars
<1>8. ASSUME NEW in, NEW rsp, NEW s, NEW o, NEW err, ReconnectClientChanged(in, rsp, s, o, err)
      PROVE  aborted \subseteq aborted'
  BY <1>8 DEF ReconnectClientChanged, worldVars
<1>9. ASSUME NEW r, OnFrame(r) PROVE aborted \subseteq aborted'
  BY <1>9 DEF OnFrame, worldVars
<1>10. WorldAnswered => aborted \subseteq aborted'
  BY <1>5, <1>6, <1>7, <1>8 DEF WorldAnswered, WorldCallback
<1>11. WorldIgnores => aborted \subseteq aborted'
  BY DEF WorldIgnores, worldVars
<1> QED BY <1>1, <1>2, <1>3, <1>4, <1>9, <1>10, <1>11
        DEF World_Step, WorldLaunchRole, WorldReconnectRole, WorldLogoutRole, WorldClientQuit,
            WorldOnFrame

\* A step that leaves the gates, the world and the links between them alone.
LEMMA ElsewhereOrdered ==
  ASSUME Ordered, UNCHANGED <<clients, gcalls>>, UNCHANGED worldVars,
         \A g \in Gates : Out(g)' = Out(g) /\ Back(g)' = Back(g)
  PROVE  Ordered'
<1>1. \A d \in Clients : GateOf[d] \in Gates
  BY ConstantsAssumption
<1>2. OwnersSound'
  <2> SUFFICES ASSUME NEW d \in Clients, NEW r \in Roles PROVE Rightful(d, r)'
    BY DEF OwnersSound
  <2>1. Owns(d, r)' = Owns(d, r)
    BY WorldRests DEF Owns
  <2>2. InGame(d, r)' = InGame(d, r) /\ Gone(d)' = Gone(d) /\ clients'[d].closing = clients[d].closing
    BY DEF InGame, Gone
  <2>3. Rightful(d, r) /\ Out(GateOf[d])' = Out(GateOf[d])
    BY <1>1 DEF Ordered, OwnersSound
  <2> QED BY <2>1, <2>2, <2>3, RightfulStays
<1>3. BearersSound'
  <2> SUFFICES ASSUME NEW r \in Roles, SessionOf(r)' # 0
               PROVE  /\ \A c \in Clients : Bears(c, SessionOf(r))' => RoleOf(r)'.gate = c
                      /\ Quits(SessionOf(r))' => RoleOf(r)'.gate \in Clients /\ Gone(RoleOf(r).gate)'
    BY DEF BearersSound
  <2>1. SessionOf(r)' = SessionOf(r) /\ RoleOf(r)' = RoleOf(r)
    BY WorldRests
  <2>2. PICK s, x : s = SessionOf(r) /\ x = RoleOf(r).gate
    OBVIOUS
  <2>3. /\ \A c \in Clients : Bears(c, s) => x = c
        /\ Quits(s) => x \in Clients /\ Gone(x)
    BY <2>1, <2>2 DEF Ordered, BearersSound
  <2>4. (Quits(s)' => Quits(s)) /\ (Gone(x) => Gone(x)')
    BY DEF Quits, Gone
  <2>5. \A c \in Clients : Bears(c, s)' => Bears(c, s)
    BY <1>1, WorldRests DEF Bears
  <2> QED BY <2>1, <2>2, <2>3, <2>4, <2>5
<1>4. LogoutsSound'
  <2>1. \A cb \in gcalls' : cb[3] <= clients'[cb[2]].n
    BY DEF Ordered, LogoutsSound
  <2>2. ASSUME NEW g \in Gates PROVE Pending(CallsOf(g), Back(g), Out(g))'
    <3>1. CallsOf(g)' = CallsOf(g)
      BY DEF CallsOf
    <3> QED BY <3>1 DEF Ordered, LogoutsSound
  <2> QED BY <2>1, <2>2 DEF LogoutsSound
<1>5. AnswersSound'
  BY WorldRests DEF Ordered
<1> QED BY <1>2, <1>3, <1>4, <1>5 DEF Ordered

LEMMA GameStepOrdered ==
  ASSUME Queues, Ordered, GameStep PROVE Ordered'
<1>1. UNCHANGED <<clients, gcalls>> /\ UNCHANGED worldVars
  BY DEF GameStep, gateVars
<1>2. \E h \in Games : \E in, outs : Deliver(in, h, outs) /\ (in = NoLink \/ in = <<World, h>>)
  <2>1. CASE GameLaunchRole
    BY <2>1 DEF GameLaunchRole, LuanchRole
  <2>2. CASE GameDbRsp
    BY <2>2 DEF GameDbRsp, DbRspLaunchRole
  <2>3. CASE GameClientChange
    BY <2>3 DEF GameClientChange, ClientChange
  <2>4. CASE GameReleaseRole
    BY <2>4 DEF GameReleaseRole, ReleaseRole
  <2> QED BY <2>1, <2>2, <2>3, <2>4 DEF GameStep
<1>3. PICK h \in Games : \E in, outs : Deliver(in, h, outs) /\ (in = NoLink \/ in = <<World, h>>)
  BY <1>2
<1>4. PICK in, outs : Deliver(in, h, outs) /\ (in = NoLink \/ in = <<World, h>>)
  BY <1>3
<1>5. ASSUME NEW g \in Gates PROVE Out(g)' = Out(g) /\ Back(g)' = Back(g)
  <2>1. /\ <<World, g>> \in Links /\ <<g, World>> \in Links /\ g # World
        /\ Out(g) \in Seq(ToSet(Out(g))) /\ Back(g) \in Seq(ToSet(Back(g)))
    BY GateLinks
  <2>2. h # World /\ h # g /\ <<World, g>> # in /\ <<g, World>> # in
    BY <1>4, ConstantsAssumption DEF NoLink
  <2>3. Out(g)' = Out(g) \o <<>> /\ Back(g)' = Back(g) \o <<>>
    BY <1>4, <2>1, <2>2 DEF Deliver, Out, Back
  <2>4. Out(g) \o <<>> = Out(g) /\ Back(g) \o <<>> = Back(g)
    BY <2>1
  <2> QED BY <2>3, <2>4
<1> QED BY <1>1, <1>5, ElsewhereOrdered

LEMMA OrderedInit ==
  ASSUME HInit PROVE Ordered
<1>1. \A g \in Gates : Out(g) = <<>> /\ Back(g) = <<>>
  BY ConstantsAssumption DEF HInit, Init, NetInit, Out, Back, Links
<1>2. DOMAIN <<>> = {}
  OBVIOUS
<1>3. \A c \in Clients : /\ clients[c].state = "none" /\ GateOf[c] \in Gates
  BY ConstantsAssumption DEF HInit, Init, GInit
<1>4. gcalls = {} /\ wcalls = {} /\ \A r \in Roles : ~ Lives(r) /\ SessionOf(r) = 0
  BY DEF HInit, Init, GInit, WInit, SessionOf, Lives
<1>5. OwnersSound
  BY <1>1, <1>2, <1>3 DEF OwnersSound, Rightful, InGame
<1>6. LogoutsSound
  BY <1>1, <1>2, <1>4 DEF LogoutsSound, Pending
<1>7. BearersSound /\ AnswersSound
  BY <1>4 DEF BearersSound, AnswersSound, Launching
<1> QED BY <1>5, <1>6, <1>7 DEF Ordered

\* Every step keeps the order, unless a call expires, a link breaks, a launch is taken
\* over, or a session number is drawn that somebody held.
LEMMA OrderedStep ==
  ASSUME SystemInv, SystemInv', Sound, Sound', Queues, GamesSound, Ordered, faults' = 0,
         aborted' = {}, ~ DrewHeld, Next
  PROVE  Ordered'
<1>1. GTypeOK /\ WorldInv /\ WorldInv' /\ faults \in Nat
  BY ConstantsAssumption DEF SystemInv, GateInv, GamesInv
<1>2. CASE World_Step
  <2>1. Follows
    BY StepFollows
  <2> QED BY <1>1, <1>2, <2>1, WorldStepOrdered
<1>3. CASE WorldExpire \/ GateExpire \/ Break
  <2>1. faults' = faults + 1
    BY <1>3 DEF WorldExpire, GateExpire, Break, SpendFault, Disconnect
  <2> QED BY <1>1, <2>1
<1>4. CASE GateClientStep
  BY <1>1, <1>4, GateClientOrdered
<1>5. CASE GateAnswered \/ GateIgnores \/ GateKicks
  BY <1>1, <1>5, GateAnsweredOrdered, GateIgnoresOrdered, GateKicksOrdered
<1>6. CASE GameStep
  BY <1>6, GameStepOrdered
<1> QED BY <1>2, <1>3, <1>4, <1>5, <1>6 DEF Next

OrderInv == clash \/ faults # 0 \/ aborted # {} \/ Ordered

LEMMA OrderInvariant == HSpec => []OrderInv
<1>1. HInit => OrderInv
  BY OrderedInit DEF OrderInv
<1>2. SessionInv /\ SessionInv' /\ GameInv /\ OrderInv /\ [HNext]_hvars => OrderInv'
  <2> SUFFICES ASSUME SessionInv, SessionInv', GameInv, OrderInv, [HNext]_hvars,
                      ~ clash', faults' = 0, aborted' = {}
               PROVE  Ordered'
    BY DEF OrderInv
  <2>1. [Next]_vars /\ ~ clash /\ (~ DrewHeld \/ UNCHANGED vars)
    BY UntilClash
  <2>2. SystemInv /\ SystemInv' /\ Queues /\ Sound /\ Sound' /\ GamesSound
    BY <2>1 DEF SessionInv, GameInv
  <2>3. faults \in Nat
    BY <2>2, ConstantsAssumption DEF SystemInv, GamesInv
  <2>4. CASE Next /\ ~ DrewHeld
    <3>1. faults = 0
      <4>1. CASE WorldExpire \/ GateExpire \/ Break
        <5>1. faults' = faults + 1
          BY <4>1 DEF WorldExpire, GateExpire, Break, SpendFault, Disconnect
        <5> QED BY <2>3, <5>1
      <4> QED BY <2>4, <4>1
              DEF Next, World_Step, GateClientStep, GateAnswered, GateIgnores, GateKicks, GameStep
    <3>2. aborted = {}
      <4>1. CASE World_Step
        BY <4>1, AbortedGrows
      <4>2. CASE WorldExpire \/ GateExpire \/ Break
        <5>1. faults' = faults + 1
          BY <4>2 DEF WorldExpire, GateExpire, Break, SpendFault, Disconnect
        <5> QED BY <2>3, <5>1
      <4>3. CASE GateClientStep \/ GateAnswered \/ GateIgnores \/ GateKicks \/ GameStep
        BY <4>3 DEF GateClientStep, GateAnswered, GateIgnores, GateKicks, GameStep, GateRuns, worldVars
      <4> QED BY <2>4, <4>1, <4>2, <4>3 DEF Next
    <3>3. Ordered
      BY <2>1, <3>1, <3>2 DEF OrderInv
    <3> QED BY <2>2, <2>4, <3>3, OrderedStep
  <2>5. CASE UNCHANGED vars
    <3>1. /\ UNCHANGED <<clients, gcalls>> /\ UNCHANGED worldVars
          /\ \A g \in Gates : Out(g)' = Out(g) /\ Back(g)' = Back(g)
      BY <2>5 DEF vars, worldVars, Out, Back
    <3>2. Ordered
      BY <2>1, <2>5 DEF OrderInv, vars
    <3> QED BY <3>1, <3>2, ElsewhereOrdered
  <2> QED BY <2>1, <2>4, <2>5
<1>3. QED BY <1>1, <1>2, SessionInvariant, GameInvariant, PTL DEF HSpec

\* Of two clients in game with the same role one is on its way out, as long as no call
\* expired, no link broke and no launch was taken over, until a session number is drawn
\* that somebody held (manage_role_logic.lua: launch_role and reconnect_role hand a role
\* to its new client before the old one has left, lines 115 and 393).
THEOREM ClientsOwnTheirRole == HSpec => []OneClientPerRole
<1>1. OrderInv => OneClientPerRole
  <2> SUFFICES ASSUME Ordered, NEW r \in Roles, NEW c \in Clients, NEW d \in Clients, c # d,
                      InGame(c, r), InGame(d, r)
               PROVE  IsLeaving(c) \/ IsLeaving(d)
    BY DEF OrderInv, OneClientPerRole
  <2>1. ASSUME NEW x \in Clients, InGame(x, r), ~ Owns(x, r) PROVE IsLeaving(x)
    BY <2>1 DEF Ordered, OwnersSound, Rightful, IsLeaving, Parts, Out
  <2>2. ~ Owns(c, r) \/ ~ Owns(d, r)
    BY DEF Owns
  <2> QED BY <2>1, <2>2
<1>2. QED BY <1>1, OrderInvariant, PTL
=============================================================================
