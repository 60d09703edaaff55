----------------------------- MODULE MatchProofs -----------------------------
(***************************************************************************)
(* Of MatchSystem, for any roles, games and bounds: the state keeps its     *)
(* types, the match service holds on to what it knows of a role only as     *)
(* long as it is matching it, and a role in a room is in a live one.        *)
(***************************************************************************)
EXTENDS MatchFight, SendingProofs, FiniteSetTheorems

\* A role is in its cell, or in a room that is a room of its, and the service
\* has kept the room.
Held ==
  \A r \in Roles :
    mroles[r] # None =>
      /\ RoleOf(mroles[r].session) = r
      /\ \/ mroles[r].session \in cells
         \/ r \in RolesOf(mroles[r].room) /\ mroles[r].room \in waiting \cup confirmed

\* The room service is yet to answer about a room that all have confirmed.
Sent == \A k \in confirmed : ApplyCb(k) \in mcalls \/ <<"room_mgr.lua:96", k>> \in aborted

Shape == mroles = [r \in Roles |-> mroles[r]] /\ IsFiniteSet(cells)

MatchInv == Shape /\ Held /\ Sent

-----------------------------------------------------------------------------
LEMMA CallbacksDiffer ==
  ASSUME NEW k, NEW j, NEW s
  PROVE  ConfirmCb(j, s) # ApplyCb(k)
<1>1. ConfirmCb(j, s)[1] # ApplyCb(k)[1]
  BY DEF ConfirmCb, ApplyCb
<1> QED BY <1>1

LEMMA ApplyCbsDiffer ==
  ASSUME NEW k, NEW j, ApplyCb(j) = ApplyCb(k)
  PROVE  j = k
<1>1. ApplyCb(j)[2] = j /\ ApplyCb(k)[2] = k
  BY DEF ApplyCb
<1> QED BY <1>1

LEMMA InitMatch == Init => MatchInv
<1> SUFFICES ASSUME Init PROVE MatchInv
  OBVIOUS
<1>1. IsFiniteSet({})
  BY FS_EmptySet
<1> QED BY <1>1 DEF Init, MInit, MatchInv, Shape, Held, Sent

\* Other services' steps, and handlers that die, leave the invariant alone.
LEMMA OthersKeep ==
  ASSUME MatchInv, UNCHANGED matchVars, aborted \subseteq aborted'
  PROVE  MatchInv'
BY DEF MatchInv, Shape, Held, Sent, matchVars

-----------------------------------------------------------------------------
LEMMA JoinKeeps ==
  ASSUME MatchInv, NEW g, NEW s, NEW cb, JoinMatch(g, s, cb), UNCHANGED aborted
  PROVE  MatchInv'
<1> DEFINE r == RoleOf(s)
           new == [session |-> s, game |-> g, room |-> None]
<1>1. CASE mroles[r] = None
  <2>1. cells' = cells \cup {s} /\ mroles' = [mroles EXCEPT ![r] = new]
    BY <1>1 DEF JoinMatch
  <2>2. IsFiniteSet(cells')
    BY <2>1, FS_AddElement DEF MatchInv, Shape
  <2>3. Shape'
    BY <2>1, <2>2 DEF MatchInv, Shape
  <2>4. Held'
    <3> SUFFICES ASSUME NEW q \in Roles, mroles'[q] # None
                 PROVE  /\ RoleOf(mroles'[q].session) = q
                        /\ \/ mroles'[q].session \in cells'
                           \/ q \in RolesOf(mroles'[q].room) /\ mroles'[q].room \in waiting' \cup confirmed'
      BY DEF Held
    <3>1. CASE q = r
      <4>1. mroles'[q] = new
        BY <2>1, <3>1 DEF MatchInv, Shape
      <4>2. new.session = s
        OBVIOUS
      <4> QED BY <2>1, <3>1, <4>1, <4>2
    <3>2. CASE q # r
      <4>1. mroles'[q] = mroles[q]
        BY <2>1, <3>2 DEF MatchInv, Shape
      <4> QED BY <2>1, <4>1 DEF MatchInv, Held, JoinMatch
    <3> QED BY <3>1, <3>2
  <2> QED BY <2>3, <2>4 DEF MatchInv, Sent, JoinMatch
<1>2. CASE mroles[r] # None
  BY <1>2, OthersKeep DEF JoinMatch, matchVars
<1> QED BY <1>1, <1>2

LEMMA QuitKeeps ==
  ASSUME MatchInv, NEW g, NEW r, QuitMatch(g, r), UNCHANGED aborted
  PROVE  MatchInv'
<1>1. mroles' = [mroles EXCEPT ![r] = None]
  BY DEF QuitMatch
<1>2. cells' \subseteq cells
  BY DEF QuitMatch
<1>3. Shape'
  BY <1>1, <1>2, FS_Subset DEF MatchInv, Shape
<1>4. Held'
  <2> SUFFICES ASSUME NEW q \in Roles, mroles'[q] # None
               PROVE  /\ RoleOf(mroles'[q].session) = q
                      /\ \/ mroles'[q].session \in cells'
                         \/ q \in RolesOf(mroles'[q].room) /\ mroles'[q].room \in waiting' \cup confirmed'
    BY DEF Held
  <2>1. q # r /\ mroles'[q] = mroles[q]
    BY <1>1 DEF MatchInv, Shape
  <2>2. RoleOf(mroles[q].session) = q
    BY <2>1 DEF MatchInv, Held
  <2>3. mroles[q].session \in cells => mroles[q].session \in cells'
    BY <2>1, <2>2 DEF QuitMatch
  <2> QED BY <2>1, <2>3 DEF MatchInv, Held, QuitMatch
<1> QED BY <1>3, <1>4 DEF MatchInv, Sent, QuitMatch

-----------------------------------------------------------------------------
\* An order of a finite set names every element.
LEMMA OrderCovers ==
  ASSUME NEW S, IsFiniteSet(S), NEW order \in SetToSeqs(S)
  PROVE  /\ DOMAIN order = 1..Cardinality(S)
         /\ \A i \in DOMAIN order : order[i] \in S
         /\ \A x \in S : \E i \in DOMAIN order : order[i] = x
<1> DEFINE D == 1..Cardinality(S)
<1>1. order \in [D -> S] /\ \A i, j \in D : i # j => order[i] # order[j]
  BY DEF SetToSeqs
<1>2. Cardinality(S) \in Nat
  BY FS_CardinalityType
<1>3. Cardinality(D) = Cardinality(S)
  <2>1. Cardinality(1..Cardinality(S)) =
          IF 1 > Cardinality(S) THEN 0 ELSE Cardinality(S) - 1 + 1
    BY <1>2, FS_Interval
  <2> QED BY <1>2, <2>1
<1>4. order \in Injection(D, S)
  BY <1>1 DEF Injection, IsInjective
<1>5. order \in Surjection(D, S)
  BY <1>3, <1>4, FS_Injection
<1> QED BY <1>1, <1>5 DEF Surjection

LEMMA AskedFinite ==
  ASSUME MatchInv, NEW pairs, pairs \subseteq kSubset(2, cells)
  PROVE  IsFiniteSet(Asked(pairs))
<1>1. IsFiniteSet(SUBSET cells)
  BY FS_SUBSET DEF MatchInv, Shape
<1>2. pairs \subseteq SUBSET cells
  BY DEF kSubset
<1>3. IsFiniteSet(pairs)
  BY <1>1, <1>2, FS_Subset
<1>4. IsFiniteSet(pairs \X Roles)
  BY <1>3, RolesAssumption, FS_Product
<1> QED BY <1>4, FS_Subset DEF Asked

LEMMA UpdateKeeps ==
  ASSUME MatchInv, UpdateLogic, UNCHANGED aborted
  PROVE  MatchInv'
<1>1. PICK pairs \in SUBSET kSubset(2, cells) :
        /\ cells' = cells \ UNION pairs
        /\ waiting' = waiting \cup pairs
        /\ \E order \in SetToSeqs(Asked(pairs)) :
             /\ PutIn(order)
             /\ mcalls' = mcalls \cup {AskCb(order[i]) : i \in DOMAIN order}
  BY DEF UpdateLogic
<1>2. PICK order \in SetToSeqs(Asked(pairs)) :
        /\ PutIn(order)
        /\ mcalls' = mcalls \cup {AskCb(order[i]) : i \in DOMAIN order}
  BY <1>1
<1>3. /\ DOMAIN order = 1..Cardinality(Asked(pairs))
      /\ \A i \in DOMAIN order : order[i] \in Asked(pairs)
      /\ \A x \in Asked(pairs) : \E i \in DOMAIN order : order[i] = x
  BY AskedFinite, OrderCovers
<1>4. PICK last \in [Roles -> 0..Len(order)] :
        /\ \A r \in Roles :
             LET at == {i \in DOMAIN order : order[i][2] = r} IN
             IF at = {} THEN last[r] = 0 ELSE last[r] \in at /\ \A i \in at : i <= last[r]
        /\ mroles' = [r \in Roles |-> IF last[r] = 0 THEN mroles[r] ELSE InRoom(r, order[last[r]][1])]
  BY <1>2 DEF PutIn
<1>5. Shape'
  BY <1>1, <1>4, FS_Subset DEF MatchInv, Shape
<1>6. confirmed' = confirmed
  BY DEF UpdateLogic
<1>7. Held'
  <2> SUFFICES ASSUME NEW r \in Roles, mroles'[r] # None
               PROVE  /\ RoleOf(mroles'[r].session) = r
                      /\ \/ mroles'[r].session \in cells'
                         \/ r \in RolesOf(mroles'[r].room) /\ mroles'[r].room \in waiting' \cup confirmed'
    BY DEF Held
  <2>1. CASE \A i \in DOMAIN order : order[i][2] # r
    <3>1. mroles'[r] = mroles[r]
      BY <1>4, <2>1
    <3>2. /\ RoleOf(mroles[r].session) = r
          /\ \/ mroles[r].session \in cells
             \/ r \in RolesOf(mroles[r].room) /\ mroles[r].room \in waiting \cup confirmed
      BY <3>1 DEF MatchInv, Held
    <3>3. ASSUME NEW k \in pairs, mroles[r].session \in k
          PROVE  FALSE
      <4>1. r \in Known(k)
        BY <3>1, <3>2, <3>3 DEF Known, RolesOf
      <4>2. <<k, r>> \in Asked(pairs)
        BY <4>1 DEF Asked
      <4>3. PICK i \in DOMAIN order : order[i] = <<k, r>>
        BY <1>3, <4>2
      <4> QED BY <2>1, <4>3
    <3>4. mroles[r].session \in cells => mroles[r].session \in cells'
      BY <1>1, <3>3
    <3> QED BY <1>1, <1>6, <3>1, <3>2, <3>4
  <2>2. CASE \E i \in DOMAIN order : order[i][2] = r
    <3>1. last[r] \in DOMAIN order /\ order[last[r]][2] = r
      BY <1>4, <2>2
    <3>2. last[r] # 0
      BY <1>3, <3>1
    <3>3. order[last[r]] \in Asked(pairs)
      BY <1>3, <3>1
    <3> DEFINE k == order[last[r]][1]
    <3>4. k \in pairs /\ r \in Known(k)
      BY <3>1, <3>3 DEF Asked
    <3>5. mroles'[r] = InRoom(r, k)
      BY <1>4, <3>2
    <3>6. mroles'[r].session = mroles[r].session /\ mroles'[r].room = k
      BY <3>5 DEF InRoom
    <3>7. mroles[r] # None /\ r \in RolesOf(k)
      BY <3>4 DEF Known
    <3>8. RoleOf(mroles[r].session) = r
      BY <3>7 DEF MatchInv, Held
    <3> HIDE DEF k
    <3> QED BY <1>1, <3>4, <3>6, <3>7, <3>8
  <2> QED BY <2>1, <2>2
<1>8. Sent'
  BY <1>2, <1>6 DEF MatchInv, Sent
<1> QED BY <1>5, <1>7, <1>8 DEF MatchInv

-----------------------------------------------------------------------------
\* When a room is dropped and its roles are forgotten, the others are held as
\* before.
LEMMA DropKeeps ==
  ASSUME MatchInv, NEW k, Forget(k), cells' = cells,
         waiting \ {k} \subseteq waiting', confirmed \ {k} \subseteq confirmed',
         Sent'
  PROVE  MatchInv'
<1>1. \A q \in Roles : mroles'[q] = IF q \in RolesOf(k) THEN None ELSE mroles[q]
  BY DEF Forget
<1>2. Shape'
  BY DEF Forget, MatchInv, Shape
<1>3. Held'
  BY <1>1 DEF MatchInv, Held
<1> QED BY <1>2, <1>3 DEF MatchInv

\* An answer of a role takes no call about a room back.
LEMMA SentStays ==
  ASSUME MatchInv, NEW j, NEW s, mcalls \ {ConfirmCb(j, s)} \subseteq mcalls',
         confirmed' \subseteq confirmed, aborted \subseteq aborted'
  PROVE  Sent'
BY CallbacksDiffer DEF MatchInv, Sent

LEMMA TimeOverKeeps ==
  ASSUME MatchInv, NEW in, NEW j, NEW s, NEW k, TimeOver(in, ConfirmCb(j, s), k),
         UNCHANGED cells
  PROVE  MatchInv'
<1>1. Sent'
  BY SentStays DEF TimeOver
<1> QED BY <1>1, DropKeeps DEF TimeOver, Terminate

LEMMA ApplyRoomKeeps ==
  ASSUME MatchInv, NEW in, NEW j, NEW s, NEW k, ApplyRoom(in, ConfirmCb(j, s), k),
         waiting' = waiting \ {k}, UNCHANGED cells
  PROVE  MatchInv'
<1>1. CASE Terminate(in, k) /\ mcalls' = mcalls \ {ConfirmCb(j, s)} /\ UNCHANGED <<confirmed, aborted>>
  <2>1. Sent'
    BY <1>1, SentStays
  <2> QED BY <1>1, <2>1, DropKeeps DEF Terminate
<1>2. CASE /\ confirmed' = confirmed \cup {k}
           /\ UNCHANGED mroles
           /\ mcalls \ {ConfirmCb(j, s)} \subseteq mcalls' /\ aborted \subseteq aborted'
           /\ ApplyCb(k) \in mcalls' \/ <<"room_mgr.lua:96", k>> \in aborted'
  <2>1. Sent'
    BY <1>2, CallbacksDiffer DEF MatchInv, Sent
  <2>2. waiting \cup confirmed \subseteq waiting' \cup confirmed'
    BY <1>2
  <2>3. Held' /\ Shape'
    BY <1>2, <2>2 DEF MatchInv, Held, Shape
  <2> QED BY <2>1, <2>3 DEF MatchInv
<1> QED BY <1>1, <1>2 DEF ApplyRoom

LEMMA CountAnswerKeeps ==
  ASSUME MatchInv, NEW in, NEW j, NEW s, NEW k, NEW r, NEW accept,
         CountAnswer(in, ConfirmCb(j, s), k, r, accept), UNCHANGED cells
  PROVE  MatchInv'
<1>1. CASE waiting' = waiting \ {k} /\ ApplyRoom(in, ConfirmCb(j, s), k)
  BY <1>1, ApplyRoomKeeps
<1>2. CASE mcalls' = mcalls \ {ConfirmCb(j, s)} /\ UNCHANGED <<mroles, waiting, confirmed, aborted>>
  <2>1. Sent'
    BY <1>2, SentStays
  <2> QED BY <1>2, <2>1 DEF MatchInv, Held, Shape
<1> QED BY <1>1, <1>2 DEF CountAnswer

LEMMA ConfirmKeeps ==
  ASSUME MatchInv, NEW in, NEW k, NEW s, NEW accept, CbNotifyConfirmJoinMatch(in, k, s, accept)
  PROVE  MatchInv'
<1>1. CASE \E j : TimeOver(in, ConfirmCb(k, s), j)
  BY <1>1, TimeOverKeeps DEF CbNotifyConfirmJoinMatch
<1>2. CASE \E j, r : CountAnswer(in, ConfirmCb(k, s), j, r, accept)
  BY <1>2, CountAnswerKeeps DEF CbNotifyConfirmJoinMatch
<1>3. CASE mcalls' = mcalls \ {ConfirmCb(k, s)} /\ UNCHANGED <<mroles, waiting, accepted, confirmed, aborted>>
  <2>1. Sent'
    BY <1>3, SentStays
  <2> QED BY <1>3, <2>1 DEF MatchInv, Held, Shape, CbNotifyConfirmJoinMatch
<1> QED BY <1>1, <1>2, <1>3 DEF CbNotifyConfirmJoinMatch

LEMMA ApplyAnswerKeeps ==
  ASSUME MatchInv, NEW in, NEW k, NEW ok, CbApplyRoom(in, k, ok)
  PROVE  MatchInv'
<1>1. /\ mcalls' = mcalls \ {ApplyCb(k)} /\ confirmed' = confirmed \ {k}
      /\ Forget(k) /\ UNCHANGED <<cells, waiting, aborted>>
  BY DEF CbApplyRoom
<1>2. Sent'
  BY <1>1, ApplyCbsDiffer DEF MatchInv, Sent
<1> QED BY <1>1, <1>2, DropKeeps

-----------------------------------------------------------------------------
LEMMA NextKeeps ==
  ASSUME MatchInv, Next
  PROVE  MatchInv'
<1>1. ASSUME NEW g \in Games, GameHandles(g)
      PROVE  MatchInv'
  <2>1. UNCHANGED matchVars /\ aborted \subseteq aborted'
    BY <1>1 DEF GameHandles, NotifyMatchSucc
  <2> QED BY <2>1, OthersKeep
<1>2. CASE MatchHandles
  <2>1. ASSUME NEW g \in Games, NEW s, NEW cb, JoinMatch(g, s, cb) /\ UNCHANGED aborted
        PROVE  MatchInv'
    BY <2>1, JoinKeeps
  <2>2. ASSUME NEW g \in Games, NEW r, QuitMatch(g, r) /\ UNCHANGED aborted
        PROVE  MatchInv'
    BY <2>2, QuitKeeps
  <2>3. ASSUME NEW l, NEW k, NEW s, NEW a, CbNotifyConfirmJoinMatch(l, k, s, a)
        PROVE  MatchInv'
    BY <2>3, ConfirmKeeps
  <2>4. ASSUME NEW l, NEW k, NEW a, CbApplyRoom(l, k, a)
        PROVE  MatchInv'
    BY <2>4, ApplyAnswerKeeps
  <2>5. CASE UNCHANGED <<matchVars, aborted>>
    BY <2>5, OthersKeep DEF matchVars
  <2> QED BY <1>2, <2>1, <2>2, <2>3, <2>4, <2>5 DEF MatchHandles
<1>3. CASE RoomHandles \/ FightHandles \/ GameSteps \/ FightUpdates
  <2>1. UNCHANGED matchVars /\ UNCHANGED aborted
    BY <1>3 DEF RoomHandles, FightHandles, GameSteps, FightUpdates
  <2> QED BY <2>1, OthersKeep
<1>4. CASE MatchUpdates
  BY <1>4, UpdateKeeps DEF MatchUpdates
<1>5. CASE RoomUpdates
  <2>1. UNCHANGED matchVars /\ aborted \subseteq aborted'
    BY <1>5 DEF RoomUpdates, CheckRemoveWaitRoleReadyExpireRooms
  <2> QED BY <2>1, OthersKeep
<1>6. CASE GiveUp
  <2>1. CASE UNCHANGED <<matchVars, aborted>>
    BY <2>1, OthersKeep DEF matchVars
  <2>2. ASSUME NEW k, NEW s, CbNotifyConfirmJoinMatch(NoLink, k, s, FALSE)
        PROVE  MatchInv'
    BY <2>2, ConfirmKeeps
  <2>3. ASSUME NEW k, CbApplyRoom(NoLink, k, FALSE)
        PROVE  MatchInv'
    BY <2>3, ApplyAnswerKeeps
  <2> QED BY <1>6, <2>1, <2>2, <2>3 DEF GiveUp
<1>7. CASE Breaks
  <2>1. UNCHANGED matchVars /\ UNCHANGED aborted
    BY <1>7 DEF Breaks, Break
  <2> QED BY <2>1, OthersKeep
<1> QED BY <1>1, <1>2, <1>3, <1>4, <1>5, <1>6, <1>7 DEF Next

\* A role that the match service knows is in its queue, in a room that waits for
\* its roles to confirm, or in one that the room service is asked about, or whose
\* handler died asking: it is refused as matching already only while it is
\* (match_mgr__process_rpc.lua:22-57, room_mgr.lua:38-160).
THEOREM RolesAreHeld == Spec => []RoleHeld
<1>1. Init => MatchInv
  BY InitMatch
<1>2. MatchInv /\ [Next]_vars => MatchInv'
  <2>1. ASSUME MatchInv, UNCHANGED vars
        PROVE  MatchInv'
    BY <2>1, OthersKeep DEF vars, netVars
  <2> QED BY <2>1, NextKeeps
<1>3. MatchInv => RoleHeld
  BY DEF MatchInv, Held, Sent, RoleHeld
<1> QED BY <1>1, <1>2, <1>3, PTL DEF Spec
-----------------------------------------------------------------------------
(* The links. *)

LEMMA Services ==
  /\ Match # Room /\ Match # Fight /\ Room # Fight
  /\ Match \notin Games /\ Room \notin Games /\ Fight \notin Games
  /\ None # Match /\ None # Room /\ None # Fight /\ None \notin Games
<1>1. ASSUME NEW a, NEW b
      PROVE  Cardinality({a, b}) # 3
  <2>1. IsFiniteSet({}) /\ Cardinality({}) = 0
    BY FS_EmptySet
  <2>2. IsFiniteSet({b}) /\ Cardinality({b}) = 1
    BY FS_Singleton
  <2>3. Cardinality({b} \cup {a}) = Cardinality({b}) \/ Cardinality({b} \cup {a}) = Cardinality({b}) + 1
    BY <2>2, FS_AddElement
  <2>4. {b} \cup {a} = {a, b}
    OBVIOUS
  <2> QED BY <2>2, <2>3, <2>4
<1>2. Match = Room => {Match, Room, Fight} = {Room, Fight}
  OBVIOUS
<1>3. Match = Fight => {Match, Room, Fight} = {Room, Fight}
  OBVIOUS
<1>4. Room = Fight => {Match, Room, Fight} = {Match, Fight}
  OBVIOUS
<1>5. Match # Room /\ Match # Fight /\ Room # Fight
  BY <1>1, <1>2, <1>3, <1>4, ServiceAssumption
<1> QED BY <1>5, ServiceAssumption

LEMMA LinksAre ==
  /\ \A g \in Games : {<<g, Match>>, <<g, Room>>, <<Match, g>>, <<Room, g>>} \subseteq Links
  /\ {<<Match, Room>>, <<Room, Match>>, <<Room, Fight>>, <<Fight, Room>>} \subseteq Links
  /\ NoLink \notin Links
BY Services DEF Links, NoLink

\* The links hold sequences of messages.
Queues ==
  /\ net = [l \in Links |-> net[l]]
  /\ \A l \in Links : net[l] \in Seq(ToSet(net[l]))

\* What a step does to the links: all but the head of link in stays, what me sends
\* is added.
LEMMA Delivered ==
  ASSUME Queues, NEW in, NEW me, NEW S, NEW outs \in Seq(S), Deliver(in, me, outs),
         in \in Links => net[in] # <<>>
  PROVE  /\ Queues'
         /\ \A l \in Links : \A i \in DOMAIN net'[l] :
              \/ l # in /\ i \in DOMAIN net[l] /\ net'[l][i] = net[l][i]
              \/ l = in /\ i \in Nat /\ i # 0 /\ i + 1 \in DOMAIN net[l] /\ net'[l][i] = net[l][i + 1]
              \/ l[1] = me /\ \E j \in DOMAIN outs : outs[j].to = l[2] /\ net'[l][i] = outs[j]
         /\ \A l \in Links : \A i \in DOMAIN net[l] :
              l # in \/ i # 1 => net[l][i] \in ToSet(net'[l])
         /\ \A l \in Links : \A j \in DOMAIN outs :
              l[1] = me /\ outs[j].to = l[2] => outs[j] \in ToSet(net'[l])
<1> DEFINE Old(l) == IF l = in THEN Tail(net[l]) ELSE net[l]
           New(l) == IF l[1] = me THEN SentTo(outs, l[2]) ELSE <<>>
<1>1. net' = [l \in Links |-> Old(l) \o New(l)]
  BY DEF Deliver
<1>2. \A l \in Links : net'[l] = Old(l) \o New(l)
  BY <1>1
<1>3. net' = [l \in Links |-> net'[l]]
  BY <1>1
<1>4. ASSUME NEW l \in Links
      PROVE  /\ net'[l] \in Seq(ToSet(net'[l]))
             /\ \A i \in DOMAIN net'[l] :
                  \/ l # in /\ i \in DOMAIN net[l] /\ net'[l][i] = net[l][i]
                  \/ l = in /\ i \in Nat /\ i # 0 /\ i + 1 \in DOMAIN net[l] /\ net'[l][i] = net[l][i + 1]
                  \/ l[1] = me /\ \E j \in DOMAIN outs : outs[j].to = l[2] /\ net'[l][i] = outs[j]
             /\ \A i \in DOMAIN net[l] : l # in \/ i # 1 => net[l][i] \in ToSet(net'[l])
             /\ \A j \in DOMAIN outs : l[1] = me /\ outs[j].to = l[2] => outs[j] \in ToSet(net'[l])
  <2> DEFINE T == ToSet(net[l]) \cup S
             a == Old(l)
             b == New(l)
  <2>1. net[l] \in Seq(ToSet(net[l]))
    BY DEF Queues
  <2>2. /\ a \in Seq(ToSet(net[l]))
        /\ \A i \in DOMAIN a :
             \/ l # in /\ i \in DOMAIN net[l] /\ a[i] = net[l][i]
             \/ l = in /\ i \in Nat /\ i # 0 /\ i + 1 \in DOMAIN net[l] /\ a[i] = net[l][i + 1]
        /\ \A i \in DOMAIN net[l] : l # in \/ i # 1 => \E j \in DOMAIN a : a[j] = net[l][i]
    <3>1. CASE l = in
      <4>1. net[l] # <<>> /\ a = Tail(net[l])
        BY <3>1
      <4>2. /\ Tail(net[l]) \in Seq(ToSet(net[l]))
            /\ \A i \in DOMAIN Tail(net[l]) :
                 i + 1 \in DOMAIN net[l] /\ Tail(net[l])[i] = net[l][i + 1] /\ i \in Nat /\ i # 0
            /\ \A i \in DOMAIN net[l] : i # 1 => \E j \in DOMAIN Tail(net[l]) : Tail(net[l])[j] = net[l][i]
        BY <2>1, <4>1, TailOf
      <4> QED BY <3>1, <4>1, <4>2
    <3>2. CASE l # in
      <4>1. a = net[l]
        BY <3>2
      <4> QED BY <2>1, <3>2, <4>1
    <3> QED BY <3>1, <3>2
  <2>3. /\ b \in Seq(S)
        /\ \A i \in DOMAIN b : l[1] = me /\ \E j \in DOMAIN outs : outs[j].to = l[2] /\ b[i] = outs[j]
        /\ \A j \in DOMAIN outs : l[1] = me /\ outs[j].to = l[2] => \E i \in DOMAIN b : b[i] = outs[j]
    <3>1. CASE l[1] = me
      <4>1. b = SentTo(outs, l[2])
        BY <3>1
      <4>2. /\ SentTo(outs, l[2]) \in Seq(S)
            /\ \A i \in DOMAIN SentTo(outs, l[2]) :
                 \E j \in DOMAIN outs : SentTo(outs, l[2])[i] = outs[j] /\ outs[j].to = l[2]
            /\ \A j \in DOMAIN outs :
                 outs[j].to = l[2] => \E i \in DOMAIN SentTo(outs, l[2]) : SentTo(outs, l[2])[i] = outs[j]
        BY SentToOf
      <4> QED BY <3>1, <4>1, <4>2
    <3>2. CASE l[1] # me
      <4>1. b = <<>>
        BY <3>2
      <4>2. <<>> \in Seq(S) /\ DOMAIN <<>> = {}
        OBVIOUS
      <4> QED BY <3>2, <4>1, <4>2
    <3> QED BY <3>1, <3>2
  <2>4. net'[l] = a \o b
    BY <1>2
  <2> HIDE DEF a, b
  <2>5. a \in Seq(T) /\ b \in Seq(T)
    BY <2>2, <2>3
  <2>6. /\ a \o b \in Seq(T)
        /\ \A i \in DOMAIN (a \o b) :
              \/ i \in DOMAIN a /\ (a \o b)[i] = a[i]
              \/ \E j \in DOMAIN b : (a \o b)[i] = b[j]
        /\ \A i \in DOMAIN a : i \in DOMAIN (a \o b) /\ (a \o b)[i] = a[i]
        /\ \A j \in DOMAIN b : \E i \in DOMAIN (a \o b) : (a \o b)[i] = b[j]
    <3> HIDE DEF T
    <3> QED BY <2>5, ConcatOf
  <2> HIDE DEF T
  <2>7. net'[l] \in Seq(ToSet(net'[l]))
    BY <2>4, <2>6, OwnRange
  <2>8. \A i \in DOMAIN net'[l] :
          \/ l # in /\ i \in DOMAIN net[l] /\ net'[l][i] = net[l][i]
          \/ l = in /\ i \in Nat /\ i # 0 /\ i + 1 \in DOMAIN net[l] /\ net'[l][i] = net[l][i + 1]
          \/ l[1] = me /\ \E j \in DOMAIN outs : outs[j].to = l[2] /\ net'[l][i] = outs[j]
    <3>1. ASSUME NEW i \in DOMAIN a
          PROVE  \/ l # in /\ i \in DOMAIN net[l] /\ a[i] = net[l][i]
                 \/ l = in /\ i \in Nat /\ i # 0 /\ i + 1 \in DOMAIN net[l] /\ a[i] = net[l][i + 1]
      BY <2>2
    <3>2. ASSUME NEW j \in DOMAIN b
          PROVE  l[1] = me /\ \E k \in DOMAIN outs : outs[k].to = l[2] /\ b[j] = outs[k]
      BY <2>3
    <3>3. ASSUME NEW i \in DOMAIN (a \o b)
          PROVE  \/ i \in DOMAIN a /\ (a \o b)[i] = a[i]
                 \/ \E j \in DOMAIN b : (a \o b)[i] = b[j]
      BY <2>6
    <3> QED BY <2>4, <3>1, <3>2, <3>3
  <2>9. \A i \in DOMAIN net[l] : l # in \/ i # 1 => net[l][i] \in ToSet(net'[l])
    BY <2>2, <2>4, <2>6 DEF ToSet
  <2>10. ASSUME NEW j \in DOMAIN outs, l[1] = me, outs[j].to = l[2]
         PROVE  outs[j] \in ToSet(net'[l])
    <3>1. PICK i \in DOMAIN b : b[i] = outs[j]
      BY <2>3, <2>10
    <3>2. PICK h \in DOMAIN (a \o b) : (a \o b)[h] = b[i]
      BY <2>6
    <3> QED BY <2>4, <3>1, <3>2 DEF ToSet
  <2> QED BY <2>7, <2>8, <2>9, <2>10
<1> HIDE DEF Old, New
<1> QED BY <1>3, <1>4 DEF Queues
-----------------------------------------------------------------------------
(* What the messages carry, and the types of the services' state.          *)

Carries(l, m) ==
  /\ m.fn \in {"join_match", "notify_confirm_join_match", "notify_match_succ"} => m.args[1] \in Sessions
  /\ m.fn = "notify_match_succ" => m.args[2] \in Rooms
  /\ m.fn \in {"notify_fight_start", "notify_end_room", "notify_terminate_room"} => m.args[2] \in Sessions
  /\ m.fn = "apply_room" => m.args[1] \in Rooms /\ m.args[2] \subseteq Sessions
  /\ m.fn = "apply_fight" => m.args[1] \in Rooms
  /\ m.fn = "rsp" /\ l[1] = Room /\ l[2] \in Games => m.args.started \in BOOLEAN

Carried == \A l \in Links : \A m \in ToSet(net[l]) : Carries(l, m)

GameTypes ==
  /\ objs \in Seq(ObjType) /\ in_game \in [Roles -> 0..Len(objs)]
  /\ drawn \in 0..MaxJoin
  /\ \A cb \in gcalls : cb[1] \in {"join", "bind"} /\ cb[2] \in DOMAIN objs

MatchTypes ==
  /\ mroles \in [Roles -> {None} \cup [session : Sessions, game : Games, room : {None} \cup Rooms]]
  /\ cells \subseteq Sessions /\ waiting \subseteq Rooms /\ confirmed \subseteq Rooms
  /\ accepted \subseteq waiting \X Roles
  /\ \A cb \in mcalls :
       /\ cb[1] \in {"notify_confirm_join_match", "apply_room"} /\ cb[2] \in Rooms
       /\ cb[1] = "notify_confirm_join_match" => cb[3] \in Sessions

RoomTypes ==
  /\ DOMAIN rooms \subseteq Rooms
  /\ \A k \in DOMAIN rooms :
       /\ rooms[k] \in [state : {"wait_roles_ready", "roles_ready", "fighting"},
                        members : SUBSET Sessions, bound : SUBSET (Roles \X Games)]
       /\ IsFiniteSet(rooms[k].bound)
       /\ \A b \in rooms[k].bound : \E s \in rooms[k].members : RoleOf(s) = b[1]
  /\ \A cb \in rcalls :
       /\ cb[1] \in {"apply_fight", "start_fight"} /\ cb[2] \in Rooms
       /\ cb[1] = "apply_fight" => cb[3] \subseteq Sessions

\* Sessions that ask for a match or wait in a cell have been drawn, each with a
\* number of its own.
Joining(s) == \E g \in Games : \E m \in ToSet(net[<<g, Match>>]) : m.fn = "join_match" /\ m.args[1] = s
InQueue(s) == Joining(s) \/ s \in cells
Numbered ==
  /\ \A s \in Sessions : InQueue(s) => s[2] <= drawn
  /\ \A s, t \in Sessions : InQueue(s) /\ InQueue(t) /\ s[2] = t[2] => s = t

TypesInv ==
  /\ Queues /\ Carried
  /\ GameTypes /\ MatchTypes /\ RoomTypes
  /\ fights \subseteq Rooms
  /\ trouble \in 0..MaxTrouble /\ broken \in BOOLEAN
  /\ Numbered

LEMMA HeadIn ==
  ASSUME Queues, NEW l \in Links, net[l] # <<>>
  PROVE  NextOn(l) \in ToSet(net[l]) /\ 1 \in DOMAIN net[l] /\ NextOn(l) = net[l][1]
<1>1. net[l] \in Seq(ToSet(net[l]))
  BY DEF Queues
<1>2. 1 \in DOMAIN net[l] /\ net[l][1] = Head(net[l])
  BY <1>1, TailOf
<1> QED BY <1>2 DEF NextOn, ToSet

\* The message a service takes.
LEMMA HeadCarries ==
  ASSUME Queues, Carried, NEW l \in Links, NEW fn, Takes(l, fn)
  PROVE  /\ net[l] # <<>> /\ NextOn(l) \in ToSet(net[l]) /\ NextOn(l).fn = fn
         /\ Carries(l, NextOn(l))
BY HeadIn DEF Takes, Carried

\* What is on the links after a step.
LEMMA Sent1 ==
  ASSUME Queues, NEW in, NEW me, NEW S, NEW outs \in Seq(S), Deliver(in, me, outs),
         in \in Links => net[in] # <<>>
  PROVE  /\ Queues'
         /\ \A l \in Links : \A m \in ToSet(net'[l]) :
              \/ m \in ToSet(net[l])
              \/ l[1] = me /\ m.to = l[2] /\ \E j \in DOMAIN outs : m = outs[j]
<1>1. Queues' /\ \A l \in Links : \A i \in DOMAIN net'[l] :
              \/ l # in /\ i \in DOMAIN net[l] /\ net'[l][i] = net[l][i]
              \/ l = in /\ i \in Nat /\ i # 0 /\ i + 1 \in DOMAIN net[l] /\ net'[l][i] = net[l][i + 1]
              \/ l[1] = me /\ \E j \in DOMAIN outs : outs[j].to = l[2] /\ net'[l][i] = outs[j]
  BY Delivered
<1>2. ASSUME NEW l \in Links, NEW m \in ToSet(net'[l])
      PROVE  \/ m \in ToSet(net[l])
             \/ l[1] = me /\ m.to = l[2] /\ \E j \in DOMAIN outs : m = outs[j]
  <2>1. PICK i \in DOMAIN net'[l] : m = net'[l][i]
    BY <1>2 DEF ToSet
  <2>2. \/ i \in DOMAIN net[l] /\ m = net[l][i]
        \/ i + 1 \in DOMAIN net[l] /\ m = net[l][i + 1]
        \/ l[1] = me /\ \E j \in DOMAIN outs : outs[j].to = l[2] /\ m = outs[j]
    BY <1>1, <2>1
  <2> QED BY <2>2 DEF ToSet
<1> QED BY <1>1, <1>2

LEMMA SentNone ==
  ASSUME Queues, NEW in, NEW me, Deliver(in, me, <<>>), in \in Links => net[in] # <<>>
  PROVE  /\ Queues'
         /\ \A l \in Links : \A m \in ToSet(net'[l]) : m \in ToSet(net[l])
<1>1. <<>> \in Seq({}) /\ DOMAIN <<>> = {}
  OBVIOUS
<1> QED BY <1>1, Sent1

LEMMA SentOne ==
  ASSUME Queues, NEW in, NEW me, NEW x, Deliver(in, me, <<x>>), in \in Links => net[in] # <<>>
  PROVE  /\ Queues'
         /\ \A l \in Links : \A m \in ToSet(net'[l]) :
              m \in ToSet(net[l]) \/ (l[1] = me /\ x.to = l[2] /\ m = x)
<1> DEFINE outs == <<x>>
<1>1. outs \in Seq({x}) /\ DOMAIN outs = {1} /\ outs[1] = x /\ Deliver(in, me, outs)
  OBVIOUS
<1> HIDE DEF outs
<1>2. /\ Queues'
      /\ \A l \in Links : \A m \in ToSet(net'[l]) :
           m \in ToSet(net[l]) \/ (l[1] = me /\ m.to = l[2] /\ \E j \in DOMAIN outs : m = outs[j])
  BY <1>1, Sent1
<1> QED BY <1>1, <1>2

\* Nothing but what is sent is to be looked at.
LEMMA CarriedStays ==
  ASSUME Carried, \A l \in Links : \A m \in ToSet(net'[l]) : m \in ToSet(net[l]) \/ Carries(l, m)
  PROVE  Carried'
BY DEF Carried, Carries

LEMMA NumberedStays ==
  ASSUME Numbered, drawn \in Nat, drawn' \in Nat, drawn <= drawn',
         \A s \in Sessions : InQueue(s)' => InQueue(s)
  PROVE  Numbered'
<1>1. \A s \in Sessions : s[2] \in Nat
  BY BoundAssumption DEF Sessions
<1>2. \A s \in Sessions : InQueue(s)' => s[2] <= drawn'
  BY <1>1 DEF Numbered
<1> QED BY <1>2 DEF Numbered

LEMMA JoiningStays ==
  ASSUME \A l \in Links : \A m \in ToSet(net'[l]) : m \in ToSet(net[l]) \/ m.fn # "join_match"
  PROVE  \A s : Joining(s)' => Joining(s)
<1>1. \A g \in Games : <<g, Match>> \in Links
  BY LinksAre
<1> QED BY <1>1 DEF Joining
\* A step sends what its messages may carry, and asks for no match.
Passed ==
  /\ Queues' /\ Carried'
  /\ \A l \in Links : \A m \in ToSet(net'[l]) : m \in ToSet(net[l]) \/ m.fn # "join_match"

LEMMA PassedNone ==
  ASSUME Queues, Carried, NEW in, NEW me, Deliver(in, me, <<>>), in \in Links => net[in] # <<>>
  PROVE  Passed
BY SentNone, CarriedStays DEF Passed

LEMMA PassedOne ==
  ASSUME Queues, Carried, NEW in, NEW me, NEW x, Deliver(in, me, <<x>>), in \in Links => net[in] # <<>>,
         x.fn # "join_match", \A l \in Links : l[1] = me /\ l[2] = x.to => Carries(l, x)
  PROVE  Passed
<1>1. /\ Queues'
      /\ \A l \in Links : \A m \in ToSet(net'[l]) :
           m \in ToSet(net[l]) \/ (l[1] = me /\ x.to = l[2] /\ m = x)
  BY SentOne
<1>2. Carried'
  BY <1>1, CarriedStays
<1> QED BY <1>1, <1>2 DEF Passed

LEMMA PassedSame ==
  ASSUME Queues, Carried, UNCHANGED net
  PROVE  Passed
BY DEF Passed, Queues, Carried, Carries, ToSet

LEMMA NoLinkIsNone == NoLink \in Links => net[NoLink] # <<>>
BY LinksAre

-----------------------------------------------------------------------------
(* Types of the games. *)

LEMMA ObjSet ==
  ASSUME GameTypes, NEW o \in DOMAIN objs, NEW x \in ObjType, objs' = [objs EXCEPT ![o] = x]
  PROVE  objs' \in Seq(ObjType) /\ Len(objs') = Len(objs) /\ DOMAIN objs' = DOMAIN objs
<1>1. objs \in Seq(ObjType)
  BY DEF GameTypes
<1> QED BY <1>1

LEMMA ObjIs ==
  ASSUME GameTypes
  PROVE  /\ DOMAIN objs = 1..Len(objs) /\ Len(objs) \in Nat
         /\ \A o \in DOMAIN objs : objs[o] \in ObjType
         /\ \A r \in Roles : in_game[r] # 0 => in_game[r] \in DOMAIN objs
<1>1. objs \in Seq(ObjType)
  BY DEF GameTypes
<1>2. DOMAIN objs = 1..Len(objs) /\ Len(objs) \in Nat /\ \A o \in DOMAIN objs : objs[o] \in ObjType
  BY <1>1
<1> QED BY <1>2 DEF GameTypes

\* Types are kept when one role's record changes.
LEMMA OneObj ==
  ASSUME GameTypes, NEW o \in DOMAIN objs, NEW x \in ObjType,
         objs' = objs \/ objs' = [objs EXCEPT ![o] = x],
         UNCHANGED in_game, drawn' \in 0..MaxJoin,
         \A cb \in gcalls' : cb \in gcalls \/ (cb[1] \in {"join", "bind"} /\ cb[2] \in DOMAIN objs)
  PROVE  GameTypes'
<1>1. objs' \in Seq(ObjType) /\ Len(objs') = Len(objs) /\ DOMAIN objs' = DOMAIN objs
  BY ObjSet DEF GameTypes
<1> QED BY <1>1 DEF GameTypes

LEMMA RolesOfSessions ==
  /\ \A s \in Sessions : s \in Roles \X (1..MaxJoin) /\ RoleOf(s) \in Roles /\ s[1] \in Roles /\ s[2] \in Nat
  /\ None \notin Sessions /\ \A k \in Rooms : k # None /\ k \subseteq Sessions /\ RolesOf(k) \subseteq Roles
BY NoneAssumption, BoundAssumption DEF Sessions, RoleOf, Rooms, RolesOf

LEMMA LaunchTypes ==
  ASSUME GameTypes, NEW r \in Roles, NEW g \in Games, Launch(r, g)
  PROVE  GameTypes'
<1>1. NewRole(r, g) \in ObjType
  BY DEF NewRole, ObjType
<1>2. /\ objs' = Append(objs, NewRole(r, g)) /\ in_game' = [in_game EXCEPT ![r] = Len(objs) + 1]
      /\ UNCHANGED <<drawn, gcalls>>
  BY DEF Launch
<1>3. objs' \in Seq(ObjType) /\ Len(objs') = Len(objs) + 1 /\ DOMAIN objs \subseteq DOMAIN objs' /\ Len(objs) \in Nat
  <2>1. objs \in Seq(ObjType)
    BY DEF GameTypes
  <2> DEFINE x == NewRole(r, g)
  <2> HIDE DEF x
  <2>2. \A y \in ObjType : /\ Append(objs, y) \in Seq(ObjType) /\ Len(Append(objs, y)) = Len(objs) + 1
                          /\ DOMAIN objs \subseteq DOMAIN Append(objs, y) /\ Len(objs) \in Nat
    BY <2>1
  <2> QED BY <1>1, <1>2, <2>2
<1>4. in_game' \in [Roles -> 0..Len(objs')]
  BY <1>2, <1>3 DEF GameTypes
<1> QED BY <1>2, <1>3, <1>4 DEF GameTypes

LEMMA ReleaseTypes ==
  ASSUME GameTypes, NEW r \in Roles, Release(r)
  PROVE  GameTypes'
<1>1. in_game' = [in_game EXCEPT ![r] = 0] /\ UNCHANGED <<objs, drawn, gcalls>>
  BY DEF Release
<1>2. Len(objs) \in Nat
  BY ObjIs
<1> QED BY <1>1, <1>2 DEF GameTypes

LEMMA QuitTypes ==
  ASSUME Queues, Carried, GameTypes, NEW r \in Roles, ReqQuitMatch(r)
  PROVE  GameTypes' /\ Passed
<1>1. GameTypes'
  BY DEF ReqQuitMatch, GameTypes
<1> DEFINE x == Call(Match, "quit_match", <<r>>, NoCb)
<1>2. Deliver(NoLink, objs[in_game[r]].game, <<x>>)
  BY DEF ReqQuitMatch
<1>3. x.fn = "quit_match"
  BY DEF Call
<1>4. \A l : Carries(l, x)
  BY <1>3 DEF Carries
<1> HIDE DEF x
<1> QED BY <1>1, <1>2, <1>3, <1>4, PassedOne, NoLinkIsNone

LEMMA CbJoinTypes ==
  ASSUME Queues, Carried, GameTypes, NEW in, in \in Links => net[in] # <<>>,
         NEW o \in DOMAIN objs, NEW s, NEW ok, CbJoinMatch(in, o, s, ok)
  PROVE  GameTypes' /\ Passed
<1>1. Passed
  BY PassedNone DEF CbJoinMatch
<1>2. objs' = objs \/ objs' = [objs EXCEPT ![o] = [objs[o] EXCEPT !.match = "matching"]]
  BY DEF CbJoinMatch
<1>3. [objs[o] EXCEPT !.match = "matching"] \in ObjType
  BY ObjIs DEF ObjType
<1>4. UNCHANGED <<in_game, drawn>> /\ gcalls' \subseteq gcalls
  BY DEF CbJoinMatch
<1>5. GameTypes'
  BY <1>2, <1>3, <1>4, OneObj DEF GameTypes
<1> QED BY <1>1, <1>5

LEMMA ConfirmAskTypes ==
  ASSUME Queues, Carried, GameTypes, NEW g \in Games, NEW s \in Sessions, NEW cb,
         net[<<Match, g>>] # <<>>, NotifyConfirmJoinMatch(g, s, cb)
  PROVE  GameTypes' /\ Passed
<1> DEFINE o == in_game[RoleOf(s)]
           ok == InGame(g, RoleOf(s), o) /\ objs[o].match = "matching" /\ objs[o].session = s
           x == Answer(Match, cb, ok)
<1>1. Deliver(<<Match, g>>, g, <<x>>)
  BY DEF NotifyConfirmJoinMatch
<1>2. x.fn = "rsp" /\ x.to = Match
  BY DEF Answer
<1>3. \A l : l[2] = x.to => Carries(l, x)
  BY <1>2, Services DEF Carries
<1>4. Passed
  <2> HIDE DEF x
  <2> QED BY <1>1, <1>2, <1>3, PassedOne
<1>5. CASE ok
  <2>1. o \in DOMAIN objs
    BY <1>5, ObjIs, RolesOfSessions DEF InGame
  <2>2. objs' = [objs EXCEPT ![o] = [objs[o] EXCEPT !.match = "wait_enter_room"]]
    BY <1>5 DEF NotifyConfirmJoinMatch
  <2>3. [objs[o] EXCEPT !.match = "wait_enter_room"] \in ObjType
    BY <2>1, ObjIs DEF ObjType
  <2>4. UNCHANGED <<in_game, drawn, gcalls>>
    BY DEF NotifyConfirmJoinMatch
  <2> HIDE DEF o
  <2> QED BY <1>4, <2>1, <2>2, <2>3, <2>4, OneObj DEF GameTypes
<1>6. CASE ~ok
  <2>1. UNCHANGED <<objs, in_game, drawn, gcalls>>
    BY <1>6 DEF NotifyConfirmJoinMatch
  <2> QED BY <1>4, <2>1 DEF GameTypes
<1> QED BY <1>5, <1>6

LEMMA SuccTypes ==
  ASSUME Queues, Carried, GameTypes, NEW g \in Games, NEW s \in Sessions, NEW k \in Rooms,
         net[<<Match, g>>] # <<>>, NotifyMatchSucc(g, s, k)
  PROVE  GameTypes' /\ Passed
<1> DEFINE o   == in_game[RoleOf(s)]
           obj == [objs[o] EXCEPT !.match = "free", !.session = None, !.room = "try_enter_room",
                                  !.room_session = s, !.room_id = k, !.binds = @ + 1]
           ok  == InGame(g, RoleOf(s), o) /\ objs[o].session = s /\ objs[o].match = "wait_enter_room"
           x   == BindCall(o, obj)
<1>1. UNCHANGED <<in_game, drawn>>
  BY DEF NotifyMatchSucc
<1>2. CASE ok
  <2>1. o \in DOMAIN objs
    BY <1>2, ObjIs, RolesOfSessions DEF InGame
  <2>2. objs' = [objs EXCEPT ![o] = obj] /\ gcalls' = gcalls \cup {BindCb(o, obj.binds)}
        /\ Deliver(<<Match, g>>, g, <<x>>)
    BY <1>2 DEF NotifyMatchSucc
  <2>3. obj \in ObjType
    <3>1. objs[o] \in ObjType
      BY <2>1, ObjIs
    <3>2. objs[o].binds + 1 \in Nat
      BY <3>1 DEF ObjType
    <3> HIDE DEF o
    <3> QED BY <3>1, <3>2 DEF ObjType
  <2>4. BindCb(o, obj.binds)[1] = "bind" /\ BindCb(o, obj.binds)[2] = o
    BY DEF BindCb
  <2>5. x.fn = "bind_room"
    BY DEF BindCall, Call
  <2>6. \A l : Carries(l, x)
    BY <2>5 DEF Carries
  <2> HIDE DEF o, obj, x
  <2>7. GameTypes'
    BY <1>1, <2>1, <2>2, <2>3, <2>4, OneObj DEF GameTypes
  <2>8. Passed
    BY <2>2, <2>5, <2>6, PassedOne
  <2> QED BY <2>7, <2>8
<1>3. CASE ~ok
  <2>1. UNCHANGED <<objs, gcalls>> /\ Deliver(<<Match, g>>, g, <<>>)
    BY <1>3 DEF NotifyMatchSucc
  <2> QED BY <1>1, <2>1, PassedNone DEF GameTypes
<1> QED BY <1>2, <1>3

LEMMA BindFailedTypes ==
  ASSUME Queues, Carried, GameTypes, NEW o, NEW n, BindFailed(o, n)
  PROVE  GameTypes' /\ Passed
BY PassedNone, NoLinkIsNone DEF BindFailed, GameTypes

LEMMA BindExpiredTypes ==
  ASSUME Queues, Carried, GameTypes, NEW o \in DOMAIN objs, NEW n, BindExpired(o, n)
  PROVE  GameTypes' /\ Passed
<1> DEFINE obj == [objs[o] EXCEPT !.binds = @ + 1]
           x   == BindCall(o, obj)
<1>1. CASE objs[o].room = "try_enter_room"
  <2>1. /\ objs' = [objs EXCEPT ![o] = obj]
        /\ gcalls' = (gcalls \ {BindCb(o, n)}) \cup {BindCb(o, obj.binds)}
        /\ Deliver(NoLink, obj.game, <<x>>)
        /\ UNCHANGED <<in_game, drawn>>
    BY <1>1 DEF BindExpired
  <2>2. obj \in ObjType
    BY ObjIs DEF ObjType
  <2>3. BindCb(o, obj.binds)[1] = "bind" /\ BindCb(o, obj.binds)[2] = o
    BY DEF BindCb
  <2>4. x.fn = "bind_room"
    BY DEF BindCall, Call
  <2>5. \A l : Carries(l, x)
    BY <2>4 DEF Carries
  <2> HIDE DEF obj, x
  <2>6. GameTypes'
    BY <2>1, <2>2, <2>3, OneObj DEF GameTypes
  <2>7. Passed
    BY <2>1, <2>4, <2>5, PassedOne, NoLinkIsNone
  <2> QED BY <2>6, <2>7
<1>2. CASE objs[o].room # "try_enter_room"
  BY <1>2, BindFailedTypes DEF BindExpired
<1> QED BY <1>1, <1>2

LEMMA CbBindTypes ==
  ASSUME Queues, Carried, GameTypes, NEW in, in \in Links => net[in] # <<>>,
         NEW o \in DOMAIN objs, NEW n, NEW rsp, rsp.started \in BOOLEAN, CbBindRoom(in, o, n, rsp)
  PROVE  GameTypes' /\ Passed
<1> DEFINE x == [objs[o] EXCEPT !.room = "in_room", !.started = rsp.started]
<1>1. Passed
  BY PassedNone DEF CbBindRoom
<1>2. objs' = objs \/ objs' = [objs EXCEPT ![o] = x]
  BY DEF CbBindRoom
<1>3. x \in ObjType
  BY ObjIs DEF ObjType
<1>4. UNCHANGED <<in_game, drawn>> /\ gcalls' \subseteq gcalls
  BY DEF CbBindRoom
<1> HIDE DEF x
<1>5. GameTypes'
  BY <1>2, <1>3, <1>4, OneObj DEF GameTypes
<1> QED BY <1>1, <1>5

LEMMA FightStartTypes ==
  ASSUME Queues, Carried, GameTypes, NEW g \in Games, NEW k, NEW s \in Sessions,
         net[<<Room, g>>] # <<>>, NotifyFightStart(g, k, s)
  PROVE  GameTypes' /\ Passed
<1> DEFINE o == in_game[RoleOf(s)]
           x == [objs[o] EXCEPT !.started = TRUE]
<1>1. Passed
  BY PassedNone DEF NotifyFightStart
<1>2. UNCHANGED <<in_game, drawn, gcalls>>
  BY DEF NotifyFightStart
<1>3. CASE Noticed(g, k, s)
  <2>1. o \in DOMAIN objs
    BY <1>3, ObjIs, RolesOfSessions DEF Noticed, InGame
  <2>2. objs' = [objs EXCEPT ![o] = x]
    BY <1>3 DEF NotifyFightStart
  <2>3. x \in ObjType
    BY <2>1, ObjIs DEF ObjType
  <2> HIDE DEF o, x
  <2> QED BY <1>1, <1>2, <2>1, <2>2, <2>3, OneObj DEF GameTypes
<1>4. CASE ~Noticed(g, k, s)
  BY <1>1, <1>2, <1>4 DEF NotifyFightStart, GameTypes
<1> QED BY <1>3, <1>4

LEMMA RoomOverTypes ==
  ASSUME Queues, Carried, GameTypes, NEW g \in Games, NEW k, NEW s \in Sessions,
         net[<<Room, g>>] # <<>>, NotifyEndOrTerminateRoom(g, k, s)
  PROVE  GameTypes' /\ Passed
<1> DEFINE o == in_game[RoleOf(s)]
           x == ResetRoom(objs[o])
<1>1. Passed
  BY PassedNone DEF NotifyEndOrTerminateRoom
<1>2. UNCHANGED <<in_game, drawn, gcalls>>
  BY DEF NotifyEndOrTerminateRoom
<1>3. CASE Noticed(g, k, s)
  <2>1. o \in DOMAIN objs
    BY <1>3, ObjIs, RolesOfSessions DEF Noticed, InGame
  <2>2. objs' = [objs EXCEPT ![o] = x]
    BY <1>3 DEF NotifyEndOrTerminateRoom
  <2>3. x \in ObjType
    BY <2>1, ObjIs DEF ObjType, ResetRoom
  <2> HIDE DEF o, x
  <2> QED BY <1>1, <1>2, <2>1, <2>2, <2>3, OneObj DEF GameTypes
<1>4. CASE ~Noticed(g, k, s)
  BY <1>1, <1>2, <1>4 DEF NotifyEndOrTerminateRoom, GameTypes
<1> QED BY <1>3, <1>4

\* A role that asks for a match draws a session that nobody has.
LEMMA JoinTypes ==
  ASSUME Queues, Carried, GameTypes, Numbered, NEW r \in Roles, ReqJoinMatch(r), UNCHANGED cells
  PROVE  GameTypes' /\ Queues' /\ Carried' /\ Numbered'
<1> DEFINE o == in_game[r]
           t == <<r, drawn + 1>>
           y == [objs[o] EXCEPT !.match = "joining", !.session = t]
           x == Call(Match, "join_match", <<t>>, JoinCb(o, t))
<1>1. /\ o # 0 /\ drawn < MaxJoin /\ drawn' = drawn + 1
      /\ gcalls' = gcalls \cup {JoinCb(o, t)}
      /\ Deliver(NoLink, objs[o].game, <<x>>)
      /\ UNCHANGED in_game
  BY DEF ReqJoinMatch
<1>2. objs' = [objs EXCEPT ![o] = y]
  BY DEF ReqJoinMatch
<1>3. drawn \in Nat /\ drawn' \in 0..MaxJoin /\ t \in Sessions /\ t[2] = drawn + 1
  BY <1>1, BoundAssumption DEF GameTypes, Sessions
<1>4. o \in DOMAIN objs
  BY <1>1, ObjIs
<1>5. y \in ObjType
  <2>1. objs[o] \in ObjType
    BY <1>4, ObjIs
  <2> HIDE DEF o, t
  <2> QED BY <1>3, <2>1 DEF ObjType
<1>6. JoinCb(o, t)[1] = "join" /\ JoinCb(o, t)[2] = o
  BY DEF JoinCb
<1>7. x.fn = "join_match" /\ x.args[1] = t
  BY DEF Call
<1>8. \A l : Carries(l, x)
  BY <1>3, <1>7 DEF Carries
<1> HIDE DEF o, t, x, y
<1>9. GameTypes'
  BY <1>1, <1>2, <1>3, <1>4, <1>5, <1>6, OneObj
<1>10. /\ Queues'
       /\ \A l \in Links : \A m \in ToSet(net'[l]) : m \in ToSet(net[l]) \/ m = x
  BY <1>1, SentOne, NoLinkIsNone
<1>11. Carried'
  BY <1>8, <1>10, CarriedStays
<1>12. \A u \in Sessions : InQueue(u)' => InQueue(u) \/ u = t
  <2>1. \A g \in Games : <<g, Match>> \in Links
    BY LinksAre
  <2> QED BY <1>7, <1>10, <2>1 DEF InQueue, Joining
<1>13. \A u \in Sessions : u[2] \in Nat
  BY RolesOfSessions
<1>14. \A u \in Sessions : InQueue(u) => u[2] <= drawn
  BY DEF Numbered
<1>15. \A u \in Sessions : InQueue(u)' => u[2] <= drawn'
  BY <1>1, <1>3, <1>12, <1>13, <1>14
<1>16. ASSUME NEW u \in Sessions, NEW v \in Sessions, InQueue(u)', InQueue(v)', u[2] = v[2]
       PROVE  u = v
  <2>1. CASE InQueue(u) /\ InQueue(v)
    BY <1>16, <2>1 DEF Numbered
  <2>2. \A w \in Sessions : InQueue(w) => w[2] # drawn + 1
    BY <1>3, <1>13, <1>14
  <2> QED BY <1>3, <1>12, <1>16, <2>1, <2>2
<1>17. Numbered'
  BY <1>15, <1>16 DEF Numbered
<1> QED BY <1>9, <1>10, <1>11, <1>17
-----------------------------------------------------------------------------
(* Types of the match service. *)

LEMMA PairOf ==
  ASSUME NEW k, IsFiniteSet(k), Cardinality(k) = 2
  PROVE  \E a, b : a # b /\ k = {a, b}
<1>1. k # {}
  BY FS_EmptySet
<1>2. PICK a : a \in k
  BY <1>1
<1>3. IsFiniteSet(k \ {a}) /\ Cardinality(k \ {a}) = 1
  BY <1>2, FS_RemoveElement
<1>4. PICK b : k \ {a} = {b}
  BY <1>3, FS_Singleton
<1> QED BY <1>2, <1>4

\* Cells are paired to rooms.
LEMMA PairsAreRooms ==
  ASSUME Numbered, IsFiniteSet(cells), cells \subseteq Sessions, NEW pairs \in SUBSET kSubset(2, cells)
  PROVE  pairs \subseteq Rooms
<1> SUFFICES ASSUME NEW k \in pairs PROVE k \in Rooms
  OBVIOUS
<1>1. k \subseteq cells /\ Cardinality(k) = 2
  BY DEF kSubset
<1>2. PICK a, b : a # b /\ k = {a, b}
  BY <1>1, FS_Subset, PairOf
<1>3. a \in Sessions /\ b \in Sessions /\ a[2] # b[2]
  BY <1>1, <1>2 DEF Numbered, InQueue
<1> DEFINE q == <<a, b>>
<1>4. q \in Sessions \X Sessions /\ q[1] = a /\ q[2] = b
  BY <1>3
<1>5. {q[1], q[2]} \in Rooms
  <2> HIDE DEF q
  <2> QED BY <1>3, <1>4 DEF Rooms
<1> QED BY <1>2, <1>4, <1>5

LEMMA NumberedKept ==
  ASSUME Numbered, GameTypes, Passed, cells' \subseteq cells, UNCHANGED drawn
  PROVE  Numbered'
<1>1. \A s : Joining(s)' => Joining(s)
  BY JoiningStays DEF Passed
<1>2. drawn \in Nat /\ drawn' = drawn
  BY BoundAssumption DEF GameTypes
<1> QED BY <1>1, <1>2, NumberedStays DEF InQueue

LEMMA RoleRecord ==
  ASSUME MatchTypes, NEW r \in Roles, mroles[r] # None
  PROVE  mroles[r] \in [session : Sessions, game : Games, room : {None} \cup Rooms]
BY DEF MatchTypes

LEMMA JoinMatchTypes ==
  ASSUME Queues, Carried, GameTypes, MatchTypes, Numbered, NEW g \in Games, NEW s \in Sessions, NEW cb,
         net[<<g, Match>>] # <<>>, Joining(s), JoinMatch(g, s, cb), UNCHANGED drawn
  PROVE  MatchTypes' /\ Passed /\ Numbered'
<1> DEFINE r == RoleOf(s)
           ok == mroles[r] = None
           x  == Answer(g, cb, ok)
           y  == [session |-> s, game |-> g, room |-> None]
<1>1. /\ mroles' = IF ok THEN [mroles EXCEPT ![r] = y] ELSE mroles
      /\ cells' = IF ok THEN cells \cup {s} ELSE cells
      /\ Deliver(<<g, Match>>, Match, <<x>>)
      /\ UNCHANGED <<waiting, accepted, confirmed, mcalls>>
  BY DEF JoinMatch
<1>2. x.fn = "rsp" /\ x.to = g
  BY DEF Answer
<1>3. \A l : l[1] = Match => Carries(l, x)
  BY <1>2, Services DEF Carries
<1>4. y \in [session : Sessions, game : Games, room : {None} \cup Rooms]
  OBVIOUS
<1> HIDE DEF x, y
<1>5. Passed
  BY <1>1, <1>2, <1>3, PassedOne
<1>6. MatchTypes'
  BY <1>1, <1>4 DEF MatchTypes
<1>7. \A u : Joining(u)' => Joining(u)
  BY <1>5, JoiningStays DEF Passed
<1>8. \A u \in Sessions : InQueue(u)' => InQueue(u)
  BY <1>1, <1>7 DEF InQueue
<1>9. drawn \in Nat /\ drawn' = drawn
  BY BoundAssumption DEF GameTypes
<1>10. Numbered'
  BY <1>8, <1>9, NumberedStays
<1> QED BY <1>5, <1>6, <1>10

LEMMA QuitMatchTypes ==
  ASSUME Queues, Carried, GameTypes, MatchTypes, Numbered, NEW g \in Games, NEW r,
         net[<<g, Match>>] # <<>>, QuitMatch(g, r), UNCHANGED drawn
  PROVE  MatchTypes' /\ Passed /\ Numbered'
<1>1. Passed
  BY PassedNone DEF QuitMatch
<1>2. /\ mroles' = [mroles EXCEPT ![r] = None] /\ cells' \subseteq cells
      /\ UNCHANGED <<waiting, accepted, confirmed, mcalls>>
  BY DEF QuitMatch
<1>3. MatchTypes'
  BY <1>2 DEF MatchTypes
<1> QED BY <1>1, <1>2, <1>3, NumberedKept

\* Messages sent one for each element of an ordered set.
LEMMA SentEach ==
  ASSUME NEW S, IsFiniteSet(S), NEW order \in SetToSeqs(S), NEW T, NEW outs,
         DOMAIN outs = DOMAIN order, outs = [i \in DOMAIN order |-> outs[i]],
         \A i \in DOMAIN order : outs[i] \in T
  PROVE  outs \in Seq(T)
<1>1. DOMAIN order = 1..Cardinality(S) /\ Cardinality(S) \in Nat
  BY OrderCovers, FS_CardinalityType
<1> DEFINE n == Cardinality(S)
<1>2. outs \in [1..n -> T] /\ n \in Nat
  BY <1>1
<1> HIDE DEF n
<1> QED BY <1>2

LEMMA PassedAll ==
  ASSUME Queues, Carried, NEW in, NEW me, NEW T, NEW outs \in Seq(T), Deliver(in, me, outs),
         in \in Links => net[in] # <<>>,
         \A x \in T : x.fn # "join_match" /\ \A l \in Links : l[1] = me /\ l[2] = x.to => Carries(l, x)
  PROVE  Passed
<1>1. /\ Queues'
      /\ \A l \in Links : \A m \in ToSet(net'[l]) :
              \/ m \in ToSet(net[l])
              \/ l[1] = me /\ m.to = l[2] /\ \E j \in DOMAIN outs : m = outs[j]
  BY Sent1
<1>2. \A j \in DOMAIN outs : outs[j] \in T
  OBVIOUS
<1>3. \A l \in Links : \A m \in ToSet(net'[l]) :
        m \in ToSet(net[l]) \/ (l[1] = me /\ l[2] = m.to /\ m \in T)
  BY <1>1, <1>2
<1>4. Carried'
  BY <1>3, CarriedStays
<1> QED BY <1>1, <1>3, <1>4 DEF Passed

LEMMA UpdateTypes ==
  ASSUME Queues, Carried, GameTypes, MatchTypes, Numbered, MatchInv, UpdateLogic, UNCHANGED drawn
  PROVE  MatchTypes' /\ Passed /\ Numbered'
<1>1. PICK pairs \in SUBSET kSubset(2, cells) :
        /\ cells' = cells \ UNION pairs
        /\ waiting' = waiting \cup pairs
        /\ \E order \in SetToSeqs(Asked(pairs)) :
             /\ PutIn(order)
             /\ Deliver(NoLink, Match, [i \in DOMAIN order |-> Ask(order[i])])
             /\ mcalls' = mcalls \cup {AskCb(order[i]) : i \in DOMAIN order}
  BY DEF UpdateLogic
<1>2. PICK order \in SetToSeqs(Asked(pairs)) :
        /\ PutIn(order)
        /\ Deliver(NoLink, Match, [i \in DOMAIN order |-> Ask(order[i])])
        /\ mcalls' = mcalls \cup {AskCb(order[i]) : i \in DOMAIN order}
  BY <1>1
<1>3. UNCHANGED <<accepted, confirmed>>
  BY DEF UpdateLogic
<1>4. pairs \subseteq Rooms
  BY PairsAreRooms DEF MatchInv, Shape, MatchTypes
<1>5. IsFiniteSet(Asked(pairs))
  BY AskedFinite
<1>6. \A i \in DOMAIN order : order[i] \in Asked(pairs)
  BY <1>5, OrderCovers
<1>7. ASSUME NEW a \in Asked(pairs)
      PROVE  /\ a[1] \in Rooms /\ a[2] \in Roles
             /\ mroles[a[2]] \in [session : Sessions, game : Games, room : {None} \cup Rooms]
  <2>1. a \in pairs \X Roles /\ a[2] \in Known(a[1])
    BY DEF Asked
  <2>2. a[1] \in pairs /\ a[2] \in Roles /\ mroles[a[2]] # None
    BY <2>1 DEF Known
  <2> QED BY <1>4, <2>2, RoleRecord
<1>8. \A a \in Asked(pairs) :
        /\ AskCb(a)[1] = "notify_confirm_join_match" /\ AskCb(a)[2] \in Rooms /\ AskCb(a)[3] \in Sessions
        /\ Ask(a).fn = "notify_confirm_join_match" /\ Ask(a).args[1] \in Sessions
  BY <1>7 DEF AskCb, ConfirmCb, Ask, Call
<1>9. Passed
  <2> DEFINE outs == [i \in DOMAIN order |-> Ask(order[i])]
             T == {Ask(a) : a \in Asked(pairs)}
  <2>1. outs \in Seq(T)
    <3>1. \A i \in DOMAIN order : outs[i] \in T
      BY <1>6
    <3>2. DOMAIN outs = DOMAIN order /\ outs = [i \in DOMAIN order |-> outs[i]]
      OBVIOUS
    <3> HIDE DEF outs, T
    <3> QED BY <1>5, <3>1, <3>2, SentEach
  <2>2. \A x \in T : x.fn = "notify_confirm_join_match" /\ x.args[1] \in Sessions
    BY <1>8
  <2>3. Deliver(NoLink, Match, outs)
    BY <1>2
  <2> HIDE DEF outs, T
  <2>4. \A x \in T : x.fn # "join_match" /\ \A l \in Links : Carries(l, x)
    BY <2>2 DEF Carries
  <2> QED BY <2>1, <2>3, <2>4, PassedAll, NoLinkIsNone
<1>10. PICK last \in [Roles -> 0..Len(order)] :
        /\ \A r \in Roles :
             LET at == {i \in DOMAIN order : order[i][2] = r} IN
             IF at = {} THEN last[r] = 0 ELSE last[r] \in at /\ \A i \in at : i <= last[r]
        /\ mroles' = [r \in Roles |-> IF last[r] = 0 THEN mroles[r] ELSE InRoom(r, order[last[r]][1])]
  BY <1>2 DEF PutIn
<1>11. ASSUME NEW r \in Roles
       PROVE  mroles'[r] \in {None} \cup [session : Sessions, game : Games, room : {None} \cup Rooms]
  <2>1. CASE last[r] = 0
    BY <1>10, <2>1 DEF MatchTypes
  <2>2. CASE last[r] # 0
    <3>1. last[r] \in DOMAIN order /\ order[last[r]][2] = r
      BY <1>10, <2>2
    <3>2. order[last[r]] \in Asked(pairs)
      BY <1>6, <3>1
    <3> DEFINE k == order[last[r]][1]
    <3>3. k \in Rooms /\ mroles[r] \in [session : Sessions, game : Games, room : {None} \cup Rooms]
      BY <1>7, <3>1, <3>2
    <3>4. mroles'[r] = InRoom(r, k)
      BY <1>10, <2>2
    <3> HIDE DEF k
    <3> QED BY <3>3, <3>4 DEF InRoom
  <2> QED BY <2>1, <2>2
<1>12. mroles' \in [Roles -> {None} \cup [session : Sessions, game : Games, room : {None} \cup Rooms]]
  BY <1>10, <1>11
<1>13. \A cb \in mcalls' : cb \in mcalls \/
         (cb[1] = "notify_confirm_join_match" /\ cb[2] \in Rooms /\ cb[3] \in Sessions)
  BY <1>2, <1>6, <1>8
<1>14. MatchTypes'
  <2>1. cells' \subseteq Sessions /\ waiting' \subseteq Rooms /\ confirmed' \subseteq Rooms /\ accepted' \subseteq waiting' \X Roles
    BY <1>1, <1>3, <1>4 DEF MatchTypes
  <2> QED BY <1>12, <1>13, <2>1 DEF MatchTypes
<1> QED BY <1>1, <1>9, <1>14, NumberedKept

LEMMA ForgetTypes ==
  ASSUME MatchTypes, NEW k, Forget(k)
  PROVE  mroles' \in [Roles -> {None} \cup [session : Sessions, game : Games, room : {None} \cup Rooms]]
BY DEF MatchTypes, Forget

LEMMA TimeOverTypes ==
  ASSUME Queues, Carried, MatchTypes, NEW in, in \in Links => net[in] # <<>>, NEW cb, NEW k,
         TimeOver(in, cb, k), UNCHANGED cells
  PROVE  MatchTypes' /\ Passed
<1>1. Passed
  BY PassedNone DEF TimeOver, Terminate
<1>2. /\ waiting' = waiting \ {k} /\ accepted' = {a \in accepted : a[1] # k}
      /\ mcalls' = mcalls \ {cb} /\ UNCHANGED <<confirmed, cells>> /\ Forget(k)
  BY DEF TimeOver, Terminate
<1>3. accepted' \subseteq waiting' \X Roles
  BY <1>2 DEF MatchTypes
<1>4. mroles' \in [Roles -> {None} \cup [session : Sessions, game : Games, room : {None} \cup Rooms]]
  BY <1>2, ForgetTypes
<1> QED BY <1>1, <1>2, <1>3, <1>4 DEF MatchTypes

\* A room that goes to the room service: what is left of it here.
LEMMA ApplyRoomTypes ==
  ASSUME Queues, Carried, MatchTypes, NEW in, in \in Links => net[in] # <<>>, NEW cb, NEW k \in Rooms,
         ApplyRoom(in, cb, k), waiting' = waiting \ {k}, accepted' \subseteq waiting' \X Roles, UNCHANGED cells
  PROVE  MatchTypes' /\ Passed
<1> DEFINE x == Call(Room, "apply_room", <<k, {mroles[r].session : r \in RolesOf(k)}>>, ApplyCb(k))
<1>1. CASE /\ Terminate(in, k) /\ mcalls' = mcalls \ {cb} /\ UNCHANGED <<confirmed, aborted>>
  <2>1. Passed
    BY <1>1, PassedNone DEF Terminate
  <2>2. mroles' \in [Roles -> {None} \cup [session : Sessions, game : Games, room : {None} \cup Rooms]]
    BY <1>1, ForgetTypes DEF Terminate
  <2> QED BY <1>1, <2>1, <2>2 DEF MatchTypes
<1>2. CASE /\ confirmed' = confirmed \cup {k} /\ UNCHANGED mroles
           /\ Known(k) = RolesOf(k)
           /\ mcalls' = (mcalls \ {cb}) \cup {ApplyCb(k)} /\ Deliver(in, Match, <<x>>)
  <2>1. \A r \in RolesOf(k) : mroles[r].session \in Sessions
    <3> TAKE r \in RolesOf(k)
    <3>1. r \in Roles /\ mroles[r] # None
      BY <1>2, RolesOfSessions DEF Known
    <3> QED BY <3>1, RoleRecord
  <2>2. x.fn = "apply_room" /\ x.args[1] = k /\ x.args[2] \subseteq Sessions
    BY <2>1 DEF Call
  <2>3. \A l : Carries(l, x)
    BY <2>2 DEF Carries
  <2>4. ApplyCb(k)[1] = "apply_room" /\ ApplyCb(k)[2] = k
    BY DEF ApplyCb
  <2> HIDE DEF x
  <2>5. Passed
    BY <1>2, <2>2, <2>3, PassedOne
  <2> QED BY <1>2, <2>4, <2>5 DEF MatchTypes
<1>3. CASE /\ confirmed' = confirmed \cup {k} /\ UNCHANGED mroles
           /\ mcalls' = mcalls \ {cb} /\ Deliver(in, Match, <<>>)
  <2>1. Passed
    BY <1>3, PassedNone
  <2> QED BY <1>3, <2>1 DEF MatchTypes
<1> QED BY <1>1, <1>2, <1>3 DEF ApplyRoom

LEMMA CountTypes ==
  ASSUME Queues, Carried, MatchTypes, NEW in, in \in Links => net[in] # <<>>, NEW cb,
         NEW k \in waiting, NEW r \in Roles, NEW accept, CountAnswer(in, cb, k, r, accept), UNCHANGED cells
  PROVE  MatchTypes' /\ Passed
<1> DEFINE yes == IF accept THEN accepted \cup {<<k, r>>} ELSE accepted \ {<<k, r>>}
<1>1. yes \subseteq waiting \X Roles /\ k \in Rooms
  BY DEF MatchTypes
<1>2. CASE /\ waiting' = waiting \ {k} /\ accepted' = {a \in accepted : a[1] # k}
           /\ ApplyRoom(in, cb, k)
  <2>1. accepted' \subseteq waiting' \X Roles
    BY <1>2 DEF MatchTypes
  <2> QED BY <1>1, <1>2, <2>1, ApplyRoomTypes
<1>3. CASE /\ accepted' = yes /\ mcalls' = mcalls \ {cb} /\ Deliver(in, Match, <<>>)
           /\ UNCHANGED <<mroles, waiting, confirmed>>
  <2>1. Passed
    BY <1>3, PassedNone
  <2> HIDE DEF yes
  <2> QED BY <1>1, <1>3, <2>1 DEF MatchTypes
<1> QED BY <1>2, <1>3 DEF CountAnswer

LEMMA ConfirmTypes ==
  ASSUME Queues, Carried, GameTypes, MatchTypes, Numbered, NEW in, in \in Links => net[in] # <<>>,
         NEW k, NEW s, NEW accept, CbNotifyConfirmJoinMatch(in, k, s, accept), UNCHANGED drawn
  PROVE  MatchTypes' /\ Passed /\ Numbered'
<1> DEFINE cb   == ConfirmCb(k, s)
           role == mroles[RoleOf(s)]
<1>1. cells' = cells /\ cb \in mcalls
  BY DEF CbNotifyConfirmJoinMatch
<1>2. RoleOf(s) \in Roles
  <2>1. cb[1] = "notify_confirm_join_match" /\ cb[3] = s
    BY DEF ConfirmCb
  <2> HIDE DEF cb
  <2>2. s \in Sessions
    BY <1>1, <2>1 DEF MatchTypes
  <2> QED BY <2>2, RolesOfSessions
<1>3. MatchTypes' /\ Passed
  <2>1. CASE TimeOver(in, cb, role.room)
    BY <1>1, <2>1, TimeOverTypes
  <2>2. CASE role.room \in waiting /\ CountAnswer(in, cb, role.room, RoleOf(s), accept)
    BY <1>1, <1>2, <2>2, CountTypes
  <2>3. CASE /\ mcalls' = mcalls \ {cb} /\ Deliver(in, Match, <<>>)
             /\ UNCHANGED <<mroles, waiting, accepted, confirmed, aborted>>
    <3>1. Passed
      BY <2>3, PassedNone
    <3> HIDE DEF cb
    <3> QED BY <1>1, <2>3, <3>1 DEF MatchTypes
  <2> QED BY <2>1, <2>2, <2>3 DEF CbNotifyConfirmJoinMatch
<1> QED BY <1>1, <1>3, NumberedKept

\* What is told of a room that was made.
Succ(k, r) == Call(mroles[r].game, "notify_match_succ", <<mroles[r].session, k>>, NoCb)

LEMMA ApplyAnswerTypes ==
  ASSUME Queues, Carried, GameTypes, MatchTypes, Numbered, NEW in, in \in Links => net[in] # <<>>,
         NEW k, NEW ok, CbApplyRoom(in, k, ok), UNCHANGED drawn
  PROVE  MatchTypes' /\ Passed /\ Numbered'
<1>1. /\ ApplyCb(k) \in mcalls /\ mcalls' = mcalls \ {ApplyCb(k)} /\ confirmed' = confirmed \ {k}
      /\ Forget(k) /\ UNCHANGED <<cells, waiting, accepted, aborted>>
  BY DEF CbApplyRoom
<1>2. k \in Rooms
  <2>1. ApplyCb(k)[2] = k
    BY DEF ApplyCb
  <2> QED BY <1>1, <2>1 DEF MatchTypes
<1>3. MatchTypes'
  BY <1>1, ForgetTypes DEF MatchTypes
<1>4. PICK order \in SetToSeqs(Known(k)) :
        Deliver(in, Match, IF ok THEN [i \in DOMAIN order |-> Succ(k, order[i])] ELSE <<>>)
  BY DEF CbApplyRoom, Succ
<1>5. Passed
  <2>1. CASE ~ok
    <3>1. Deliver(in, Match, <<>>)
      BY <1>4, <2>1
    <3> QED BY <3>1, PassedNone
  <2>2. CASE ok
    <3> DEFINE outs == [i \in DOMAIN order |-> Succ(k, order[i])]
               T == {Succ(k, r) : r \in Known(k)}
    <3>1. Known(k) \subseteq Roles /\ IsFiniteSet(Known(k))
      <4>1. Known(k) \subseteq Roles
        BY <1>2, RolesOfSessions DEF Known
      <4> QED BY <4>1, FS_Subset, RolesAssumption
    <3>2. outs \in Seq(T)
      <4>1. \A i \in DOMAIN order : outs[i] \in T
        BY <3>1, OrderCovers
      <4>2. DOMAIN outs = DOMAIN order /\ outs = [i \in DOMAIN order |-> outs[i]]
        OBVIOUS
      <4> HIDE DEF outs, T
      <4> QED BY <3>1, <4>1, <4>2, SentEach
    <3>3. ASSUME NEW r \in Known(k)
          PROVE  /\ Succ(k, r).fn = "notify_match_succ"
                 /\ Succ(k, r).args[1] \in Sessions /\ Succ(k, r).args[2] \in Rooms
      <4>1. mroles[r] # None /\ r \in Roles
        BY <3>1 DEF Known
      <4> QED BY <1>2, <4>1, RoleRecord DEF Succ, Call
    <3>4. Deliver(in, Match, outs)
      BY <1>4, <2>2
    <3>5. \A x \in T : x.fn # "join_match" /\ \A l \in Links : Carries(l, x)
      BY <3>3 DEF Carries
    <3> HIDE DEF outs, T
    <3> QED BY <3>2, <3>4, <3>5, PassedAll
  <2> QED BY <2>1, <2>2
<1> QED BY <1>1, <1>3, <1>5, NumberedKept
-----------------------------------------------------------------------------
(* Types of the room and the fight service. *)

RoomType ==
  [state : {"wait_roles_ready", "roles_ready", "fighting"},
   members : SUBSET Sessions, bound : SUBSET (Roles \X Games)]

RoomOK(room) ==
  /\ room \in RoomType /\ IsFiniteSet(room.bound)
  /\ \A b \in room.bound : \E s \in room.members : RoleOf(s) = b[1]

CallOK(cb) ==
  /\ cb[1] \in {"apply_fight", "start_fight"} /\ cb[2] \in Rooms
  /\ cb[1] = "apply_fight" => cb[3] \subseteq Sessions

LEMMA RoomTypesAre ==
  RoomTypes <=> /\ DOMAIN rooms \subseteq Rooms
                /\ \A k \in DOMAIN rooms : RoomOK(rooms[k])
                /\ \A cb \in rcalls : CallOK(cb)
BY DEF RoomTypes, RoomType, RoomOK, CallOK

LEMMA RoomTypesStay ==
  ASSUME RoomTypes, DOMAIN rooms' \subseteq Rooms,
         \A k \in DOMAIN rooms' : RoomOK(rooms'[k]),
         \A cb \in rcalls' : cb \in rcalls \/ CallOK(cb)
  PROVE  RoomTypes'
BY DEF RoomTypes, RoomType, RoomOK, CallOK

LEMMA RemovedTypes ==
  ASSUME RoomTypes, NEW k, rooms' = Without(k), rcalls' \subseteq rcalls
  PROVE  RoomTypes'
<1>1. DOMAIN rooms' \subseteq DOMAIN rooms /\ \A j \in DOMAIN rooms' : rooms'[j] = rooms[j]
  BY DEF Without
<1> QED BY <1>1, RoomTypesAre, RoomTypesStay

\* What a role of a room is told.
Notice(k, fn, b) == Call(b[2], fn, <<k, SessionIn(k, b[1])>>, NoCb)

LEMMA NoticesAre ==
  ASSUME RoomTypes, NEW k \in DOMAIN rooms, NEW fn, NEW outs \in Notices(k, fn)
  PROVE  /\ outs \in Seq({Notice(k, fn, b) : b \in rooms[k].bound})
         /\ \A b \in rooms[k].bound : \E i \in DOMAIN outs : outs[i] = Notice(k, fn, b)
         /\ \A b \in rooms[k].bound : SessionIn(k, b[1]) \in rooms[k].members /\ RoleOf(SessionIn(k, b[1])) = b[1]
         /\ rooms[k].members \subseteq Sessions
<1>1. RoomOK(rooms[k])
  BY RoomTypesAre
<1>2. IsFiniteSet(rooms[k].bound) /\ rooms[k].members \subseteq Sessions
  BY <1>1 DEF RoomOK, RoomType
<1>3. PICK order \in SetToSeqs(rooms[k].bound) : outs = [i \in DOMAIN order |-> Notice(k, fn, order[i])]
  BY DEF Notices, Notice
<1>4. /\ \A i \in DOMAIN order : order[i] \in rooms[k].bound
      /\ \A x \in rooms[k].bound : \E i \in DOMAIN order : order[i] = x
  BY <1>2, OrderCovers
<1>5. outs \in Seq({Notice(k, fn, b) : b \in rooms[k].bound})
  <2>1. \A i \in DOMAIN order : outs[i] \in {Notice(k, fn, b) : b \in rooms[k].bound}
    BY <1>3, <1>4
  <2>2. DOMAIN outs = DOMAIN order /\ outs = [i \in DOMAIN order |-> outs[i]]
    BY <1>3
  <2> QED BY <1>2, <2>1, <2>2, SentEach
<1>6. \A b \in rooms[k].bound : \E i \in DOMAIN outs : outs[i] = Notice(k, fn, b)
  BY <1>3, <1>4
<1>7. ASSUME NEW b \in rooms[k].bound
      PROVE  SessionIn(k, b[1]) \in rooms[k].members /\ RoleOf(SessionIn(k, b[1])) = b[1]
  <2>1. \E s \in rooms[k].members : RoleOf(s) = b[1]
    BY <1>1 DEF RoomOK
  <2> QED BY <2>1 DEF SessionIn
<1> QED BY <1>2, <1>5, <1>6, <1>7

LEMMA NoticesPass ==
  ASSUME Queues, Carried, RoomTypes, NEW k \in DOMAIN rooms,
         NEW fn \in {"notify_fight_start", "notify_end_room", "notify_terminate_room"},
         NEW outs \in Notices(k, fn), NEW in, in \in Links => net[in] # <<>>, Deliver(in, Room, outs)
  PROVE  Passed
<1> DEFINE T == {Notice(k, fn, b) : b \in rooms[k].bound}
<1>1. outs \in Seq(T) /\ \A b \in rooms[k].bound : SessionIn(k, b[1]) \in Sessions
  BY NoticesAre
<1>2. \A x \in T : x.fn = fn /\ x.args[2] \in Sessions
  BY <1>1 DEF Notice, Call
<1>3. \A x \in T : x.fn # "join_match" /\ \A l \in Links : Carries(l, x)
  BY <1>2 DEF Carries
<1> HIDE DEF T
<1> QED BY <1>1, <1>3, PassedAll

LEMMA ApplyTypes ==
  ASSUME Queues, Carried, RoomTypes, NEW k \in Rooms, NEW members, members \subseteq Sessions,
         net[<<Match, Room>>] # <<>>, OnApplyRoom(k, members)
  PROVE  RoomTypes' /\ Passed
<1> DEFINE x == Call(Fight, "apply_fight", <<k>>, FightCb(k, members))
           y == Answer(Match, ApplyCb(k), FALSE)
           cb == FightCb(k, members)
<1>1. CASE rcalls' = rcalls \cup {cb} /\ Deliver(<<Match, Room>>, Room, <<x>>) /\ UNCHANGED rooms
  <2>1. x.fn = "apply_fight" /\ x.args[1] = k
    BY DEF Call
  <2>2. \A l : Carries(l, x)
    BY <2>1 DEF Carries
  <2>3. cb[1] = "apply_fight" /\ cb[2] = k /\ cb[3] = members
    BY DEF FightCb
  <2> HIDE DEF x, cb
  <2>4. CallOK(cb)
    BY <2>3 DEF CallOK
  <2>5. RoomTypes'
    BY <1>1, <2>4, RoomTypesAre, RoomTypesStay
  <2>6. Passed
    BY <1>1, <2>1, <2>2, PassedOne
  <2> QED BY <2>5, <2>6
<1>2. CASE Deliver(<<Match, Room>>, Room, <<y>>) /\ UNCHANGED <<rooms, rcalls>>
  <2>1. y.fn = "rsp" /\ y.to = Match
    BY DEF Answer
  <2>2. \A l : l[2] = y.to => Carries(l, y)
    BY <2>1, Services DEF Carries
  <2> HIDE DEF y
  <2>3. Passed
    BY <1>2, <2>1, <2>2, PassedOne
  <2> QED BY <1>2, <2>3, RoomTypesAre, RoomTypesStay
<1> QED BY <1>1, <1>2 DEF OnApplyRoom

LEMMA RoomAdded ==
  ASSUME NEW k, NEW room, rooms' = With(k, room)
  PROVE  /\ DOMAIN rooms' = DOMAIN rooms \cup {k} /\ rooms'[k] = room
         /\ \A j \in DOMAIN rooms : j # k => rooms'[j] = rooms[j]
BY DEF With

LEMMA ApplyFightTypes ==
  ASSUME Queues, Carried, RoomTypes, NEW in, in \in Links => net[in] # <<>>, NEW k, NEW members, NEW ok,
         CbApplyFight(in, k, members, ok)
  PROVE  RoomTypes' /\ Passed
<1> DEFINE room == [state |-> "wait_roles_ready", members |-> members, bound |-> {}]
           y == Answer(Match, ApplyCb(k), ok)
<1>1. /\ FightCb(k, members) \in rcalls /\ rcalls' = rcalls \ {FightCb(k, members)}
      /\ rooms' = IF ok THEN With(k, room) ELSE rooms
      /\ Deliver(in, Room, <<y>>)
  BY DEF CbApplyFight
<1>2. y.fn = "rsp" /\ y.to = Match
  BY DEF Answer
<1>3. \A l : l[2] = y.to => Carries(l, y)
  BY <1>2, Services DEF Carries
<1>4. Passed
  <2> HIDE DEF y
  <2> QED BY <1>1, <1>2, <1>3, PassedOne
<1>5. k \in Rooms /\ members \subseteq Sessions
  <2> DEFINE cb == FightCb(k, members)
  <2>1. cb[1] = "apply_fight" /\ cb[2] = k /\ cb[3] = members
    BY DEF FightCb
  <2>2. CallOK(cb)
    BY <1>1, RoomTypesAre
  <2> HIDE DEF cb
  <2> QED BY <2>1, <2>2 DEF CallOK
<1>6. RoomOK(room)
  BY <1>5, FS_EmptySet DEF RoomOK, RoomType
<1> HIDE DEF room
<1>7. CASE ok
  <2>1. /\ DOMAIN rooms' = DOMAIN rooms \cup {k} /\ rooms'[k] = room
        /\ \A j \in DOMAIN rooms : j # k => rooms'[j] = rooms[j]
    BY <1>1, <1>7, RoomAdded
  <2>2. RoomTypes'
    BY <1>1, <1>5, <1>6, <2>1, RoomTypesAre, RoomTypesStay
  <2> QED BY <1>4, <2>2
<1>8. CASE ~ok
  BY <1>1, <1>4, <1>8, RoomTypesAre, RoomTypesStay
<1> QED BY <1>7, <1>8

LEMMA SentTwo ==
  ASSUME NEW a, NEW b
  PROVE  /\ <<a>> \o <<b>> \in Seq({a, b}) /\ DOMAIN (<<a>> \o <<b>>) = {1, 2}
         /\ (<<a>> \o <<b>>)[1] = a /\ (<<a>> \o <<b>>)[2] = b
         /\ <<a>> \o <<>> = <<a>>
OBVIOUS

LEMMA BindTypes ==
  ASSUME Queues, Carried, RoomTypes, NEW g \in Games, NEW k, NEW s, NEW cb,
         net[<<g, Room>>] # <<>>, OnBindRoom(g, k, s, cb)
  PROVE  RoomTypes' /\ Passed
<1>1. CASE k \in DOMAIN rooms /\ s \in rooms[k].members
  <2> DEFINE bound == {b \in rooms[k].bound : b[1] # RoleOf(s)} \cup {<<RoleOf(s), g>>}
             ready == rooms[k].state = "wait_roles_ready"
                        /\ \A m \in rooms[k].members : \E b \in bound : b[1] = RoleOf(m)
             x == BindRsp(g, cb, s, TRUE, rooms[k].state = "fighting")
             y == Call(Fight, "start_fight", <<k>>, StartCb(k))
             st == IF ready THEN "roles_ready" ELSE rooms[k].state
  <2>1. /\ rooms' = [rooms EXCEPT ![k].bound = bound, ![k].state = IF ready THEN "roles_ready" ELSE @]
        /\ rcalls' = IF ready THEN rcalls \cup {StartCb(k)} ELSE rcalls
        /\ Deliver(<<g, Room>>, Room, <<x>> \o IF ready THEN <<y>> ELSE <<>>)
    BY <1>1 DEF OnBindRoom
  <2>2. RoomOK(rooms[k]) /\ k \in Rooms
    BY <1>1, RoomTypesAre
  <2>3. s \in Sessions /\ RoleOf(s) \in Roles
    BY <1>1, <2>2, RolesOfSessions DEF RoomOK, RoomType
  <2>4. bound \subseteq Roles \X Games /\ IsFiniteSet(bound)
        /\ \A b \in bound : \E t \in rooms[k].members : RoleOf(t) = b[1]
    <3>1. IsFiniteSet({b \in rooms[k].bound : b[1] # RoleOf(s)})
      BY <2>2, FS_Subset DEF RoomOK
    <3>2. IsFiniteSet(bound)
      BY <3>1, FS_AddElement
    <3>3. rooms[k].bound \subseteq Roles \X Games
      BY <2>2 DEF RoomOK, RoomType
    <3> QED BY <1>1, <2>2, <2>3, <3>2, <3>3 DEF RoomOK
  <2>5. x.fn = "rsp" /\ x.args.started \in BOOLEAN
    BY DEF BindRsp, Answer
  <2>6. y.fn = "start_fight"
    BY DEF Call
  <2>7. \A l : Carries(l, x) /\ Carries(l, y)
    BY <2>5, <2>6 DEF Carries
  <2>8. StartCb(k)[1] = "start_fight" /\ StartCb(k)[2] = k
    BY DEF StartCb
  <2>9. /\ DOMAIN rooms' = DOMAIN rooms
        /\ \A j \in DOMAIN rooms : j # k => rooms'[j] = rooms[j]
        /\ rooms'[k] = [rooms[k] EXCEPT !.bound = bound, !.state = st]
    <3> HIDE DEF bound, ready
    <3> QED BY <1>1, <2>1
  <2> HIDE DEF bound, x, y
  <2>10. RoomOK(rooms'[k])
    <3>1. rooms[k] \in RoomType
      BY <2>2 DEF RoomOK
    <3>2. st \in {"wait_roles_ready", "roles_ready", "fighting"}
      <4> HIDE DEF ready
      <4> QED BY <3>1 DEF RoomType
    <3> HIDE DEF st, ready
    <3>3. rooms'[k] \in RoomType /\ rooms'[k].bound = bound /\ rooms'[k].members = rooms[k].members
      BY <2>4, <2>9, <3>1, <3>2 DEF RoomType
    <3> QED BY <2>4, <3>3 DEF RoomOK
  <2>11. RoomTypes'
    <3>1. CallOK(StartCb(k))
      BY <2>2, <2>8 DEF CallOK
    <3> HIDE DEF st, ready
    <3> QED BY <2>1, <2>9, <2>10, <3>1, RoomTypesAre, RoomTypesStay
  <2>12. Passed
    <3> HIDE DEF ready
    <3>1. CASE ready
      <4> DEFINE outs == <<x>> \o <<y>>
      <4>1. Deliver(<<g, Room>>, Room, outs) /\ outs \in Seq({x, y})
        BY <2>1, <3>1, SentTwo
      <4> HIDE DEF outs
      <4> QED BY <2>5, <2>6, <2>7, <4>1, PassedAll
    <3>2. CASE ~ready
      <4>1. Deliver(<<g, Room>>, Room, <<x>>)
        BY <2>1, <3>2, SentTwo
      <4> QED BY <2>5, <2>7, <4>1, PassedOne
    <3> QED BY <3>1, <3>2
  <2> QED BY <2>11, <2>12
<1>2. CASE ~(k \in DOMAIN rooms /\ s \in rooms[k].members)
  <2> DEFINE x == BindRsp(g, cb, s, FALSE, FALSE)
  <2>1. Deliver(<<g, Room>>, Room, <<x>>) /\ UNCHANGED <<rooms, rcalls>>
    BY <1>2 DEF OnBindRoom, roomVars
  <2>2. x.fn = "rsp" /\ x.args.started \in BOOLEAN
    BY DEF BindRsp, Answer
  <2>3. \A l : Carries(l, x)
    BY <2>2 DEF Carries
  <2> HIDE DEF x
  <2>4. Passed
    BY <2>1, <2>2, <2>3, PassedOne
  <2> QED BY <2>1, <2>4, RoomTypesAre, RoomTypesStay
<1> QED BY <1>1, <1>2

LEMMA StartTypes ==
  ASSUME Queues, Carried, RoomTypes, NEW in, in \in Links => net[in] # <<>>, NEW k, NEW ok, CbStartFight(in, k, ok)
  PROVE  RoomTypes' /\ Passed
<1>1. rcalls' \subseteq rcalls
  BY DEF CbStartFight
<1>2. CASE /\ k \in DOMAIN rooms /\ rooms' = [rooms EXCEPT ![k].state = "fighting"]
           /\ \E outs \in Notices(k, "notify_fight_start") : Deliver(in, Room, outs)
  <2>1. Passed
    BY <1>2, NoticesPass
  <2>2. /\ DOMAIN rooms' = DOMAIN rooms
        /\ \A j \in DOMAIN rooms : j # k => rooms'[j] = rooms[j]
        /\ rooms'[k] = [rooms[k] EXCEPT !.state = "fighting"]
    BY <1>2
  <2>3. RoomOK(rooms[k]) /\ DOMAIN rooms \subseteq Rooms
    BY <1>2, RoomTypesAre
  <2>4. rooms'[k] \in RoomType /\ rooms'[k].bound = rooms[k].bound /\ rooms'[k].members = rooms[k].members
    BY <2>2, <2>3 DEF RoomOK, RoomType
  <2>5. RoomOK(rooms'[k])
    BY <2>3, <2>4 DEF RoomOK
  <2>6. RoomTypes'
    BY <1>1, <2>2, <2>3, <2>5, RoomTypesAre, RoomTypesStay
  <2> QED BY <2>1, <2>6
<1>3. CASE /\ k \in DOMAIN rooms /\ rooms' = Without(k)
           /\ \E outs \in Notices(k, "notify_terminate_room") : Deliver(in, Room, outs)
  BY <1>1, <1>3, RemovedTypes, NoticesPass
<1>4. CASE Deliver(in, Room, <<>>) /\ UNCHANGED rooms
  BY <1>1, <1>4, PassedNone, RoomTypesAre, RoomTypesStay
<1> QED BY <1>2, <1>3, <1>4 DEF CbStartFight

LEMMA OverTypes ==
  ASSUME Queues, Carried, RoomTypes, net[<<Fight, Room>>] # <<>>, NEW k, NotifyFightBattleOver(k)
  PROVE  RoomTypes' /\ Passed
<1>1. UNCHANGED rcalls
  BY DEF NotifyFightBattleOver
<1>2. CASE /\ k \in DOMAIN rooms /\ rooms' = Without(k)
           /\ \E outs \in Notices(k, "notify_end_room") : Deliver(<<Fight, Room>>, Room, outs)
  BY <1>1, <1>2, RemovedTypes, NoticesPass
<1>3. CASE Deliver(<<Fight, Room>>, Room, <<>>) /\ UNCHANGED rooms
  BY <1>1, <1>3, PassedNone, RoomTypesAre, RoomTypesStay
<1> QED BY <1>2, <1>3 DEF NotifyFightBattleOver

LEMMA ExpiredTypes ==
  ASSUME Queues, Carried, RoomTypes, NEW k, CheckRemoveWaitRoleReadyExpireRooms(k)
  PROVE  RoomTypes' /\ Passed
<1>1. rooms' = Without(k) /\ UNCHANGED <<rcalls, net>>
  BY DEF CheckRemoveWaitRoleReadyExpireRooms
<1> QED BY <1>1, RemovedTypes, PassedSame

LEMMA FightTypes ==
  ASSUME Queues, Carried, fights \subseteq Rooms, FightHandles \/ FightUpdates
  PROVE  fights' \subseteq Rooms /\ Passed
<1> DEFINE l == <<Room, Fight>>
<1>1. l \in Links
  BY LinksAre
<1>2. ASSUME NEW cb, NEW ok, Deliver(l, Fight, <<Answer(Room, cb, ok)>>), net[l] # <<>>
      PROVE  Passed
  <2> DEFINE x == Answer(Room, cb, ok)
  <2>1. x.fn = "rsp" /\ x.to = Room
    BY DEF Answer
  <2>2. \A j : j[2] = Room => Carries(j, x)
    BY <2>1, Services DEF Carries
  <2>3. Deliver(l, Fight, <<x>>)
    BY <1>2
  <2> HIDE DEF x, l
  <2> QED BY <1>2, <2>1, <2>2, <2>3, PassedOne
<1>3. ASSUME NEW k, NEW cb, Takes(l, "apply_fight"), k = NextOn(l).args[1], OnApplyFight(k, cb)
      PROVE  fights' \subseteq Rooms /\ Passed
  <2>1. net[l] # <<>> /\ Carries(l, NextOn(l)) /\ NextOn(l).fn = "apply_fight"
    BY <1>1, <1>3, HeadCarries
  <2>2. k \in Rooms
    BY <1>3, <2>1 DEF Carries
  <2> QED BY <1>2, <1>3, <2>1, <2>2 DEF OnApplyFight
<1>4. ASSUME NEW k, NEW cb, Takes(l, "start_fight"), OnStartFight(k, cb)
      PROVE  fights' \subseteq Rooms /\ Passed
  <2>1. net[l] # <<>>
    BY <1>4 DEF Takes
  <2> QED BY <1>2, <1>4, <2>1 DEF OnStartFight
<1>5. ASSUME NEW k, CheckFightOver(k)
      PROVE  fights' \subseteq Rooms /\ Passed
  <2> DEFINE x == Call(Room, "notify_fight_battle_over", <<k>>, NoCb)
  <2>1. Deliver(NoLink, Fight, <<x>>) /\ fights' \subseteq Rooms
    BY <1>5 DEF CheckFightOver
  <2>2. x.fn = "notify_fight_battle_over"
    BY DEF Call
  <2>3. \A j : Carries(j, x)
    BY <2>2 DEF Carries
  <2> HIDE DEF x
  <2> QED BY <2>1, <2>2, <2>3, PassedOne, NoLinkIsNone
<1> HIDE DEF l
<1> QED BY <1>3, <1>4, <1>5 DEF FightHandles, FightUpdates, l
-----------------------------------------------------------------------------
(* Types of the whole. *)

LEMMA InitTypes == Init => TypesInv
<1> SUFFICES ASSUME Init PROVE TypesInv
  OBVIOUS
<1>1. net = [l \in Links |-> <<>>] /\ trouble = 0 /\ broken = FALSE
  BY DEF Init, NetInit
<1>2. \A l \in Links : net[l] = <<>> /\ ToSet(net[l]) = {}
  BY <1>1 DEF ToSet
<1>3. Queues /\ Carried
  <2>1. <<>> \in Seq({})
    OBVIOUS
  <2> QED BY <1>1, <1>2, <2>1 DEF Queues, Carried
<1>4. GameTypes
  <2>1. objs = <<>> /\ in_game = [r \in Roles |-> 0] /\ drawn = 0 /\ gcalls = {}
    BY DEF Init, GInit
  <2>2. <<>> \in Seq(ObjType) /\ Len(<<>>) = 0 /\ 0 \in 0..MaxJoin
    BY BoundAssumption
  <2> QED BY <2>1, <2>2 DEF GameTypes
<1>5. MatchTypes /\ cells = {}
  BY DEF Init, MInit, MatchTypes
<1>6. RoomTypes
  <2>1. rooms = <<>> /\ DOMAIN <<>> = {} /\ rcalls = {}
    BY DEF Init, RInit
  <2> QED BY <2>1, RoomTypesAre
<1>7. fights \subseteq Rooms
  BY DEF Init, FInit
<1>8. Numbered
  <2>1. \A s : ~InQueue(s)
    BY <1>2, <1>5, LinksAre DEF InQueue, Joining
  <2> QED BY <2>1 DEF Numbered
<1>9. trouble \in 0..MaxTrouble
  <2>1. trouble = 0
    BY <1>1
  <2> QED BY <2>1, BoundAssumption
<1>10. broken \in BOOLEAN
  BY <1>1, Zenon
<1> QED BY <1>3, <1>4, <1>5, <1>6, <1>7, <1>8, <1>9, <1>10 DEF TypesInv

LEMMA TroubleTypes ==
  ASSUME TypesInv, Trouble \/ UNCHANGED trouble
  PROVE  trouble' \in 0..MaxTrouble
BY BoundAssumption DEF TypesInv, Trouble

LEMMA GameHandlesTypes ==
  ASSUME TypesInv, NEW g \in Games, GameHandles(g)
  PROVE  GameTypes' /\ Passed /\ UNCHANGED drawn
<1> USE DEF TypesInv
<1> DEFINE l == <<Match, g>>
           j == <<Room, g>>
<1>1. l \in Links /\ j \in Links
  BY LinksAre
<1>2. ASSUME Takes(l, "notify_confirm_join_match"), NEW s, s = NextOn(l).args[1], NEW cb, NotifyConfirmJoinMatch(g, s, cb)
      PROVE  GameTypes' /\ Passed /\ UNCHANGED drawn
  <2>1. net[l] # <<>> /\ s \in Sessions
    BY <1>1, <1>2, HeadCarries DEF Carries
  <2> QED BY <1>2, <2>1, ConfirmAskTypes DEF NotifyConfirmJoinMatch
<1>3. ASSUME Takes(l, "notify_match_succ"), NotifyMatchSucc(g, NextOn(l).args[1], NextOn(l).args[2])
      PROVE  GameTypes' /\ Passed /\ UNCHANGED drawn
  <2>1. net[l] # <<>> /\ NextOn(l).args[1] \in Sessions /\ NextOn(l).args[2] \in Rooms
    BY <1>1, <1>3, HeadCarries DEF Carries
  <2> QED BY <1>3, <2>1, SuccTypes DEF NotifyMatchSucc
<1>4. ASSUME Takes(l, "rsp"), NEW cb \in gcalls, NEW ok, CbJoinMatch(l, cb[2], cb[3], ok)
      PROVE  GameTypes' /\ Passed /\ UNCHANGED drawn
  <2>1. net[l] # <<>> /\ cb[2] \in DOMAIN objs
    BY <1>4 DEF Takes, GameTypes
  <2> QED BY <1>4, <2>1, CbJoinTypes DEF CbJoinMatch
<1>5. ASSUME NEW i \in {l, j}, Ignores(i, gcalls), UNCHANGED gameVars
      PROVE  GameTypes' /\ Passed /\ UNCHANGED drawn
  <2>1. net[i] # <<>> /\ Deliver(i, i[2], <<>>)
    BY <1>5 DEF Ignores, Takes
  <2> QED BY <1>5, <2>1, PassedNone DEF gameVars, GameTypes
<1>6. ASSUME Takes(j, "notify_fight_start"), NEW k, NEW s, s = NextOn(j).args[2], NotifyFightStart(g, k, s)
      PROVE  GameTypes' /\ Passed /\ UNCHANGED drawn
  <2>1. net[j] # <<>> /\ s \in Sessions
    BY <1>1, <1>6, HeadCarries DEF Carries
  <2> QED BY <1>6, <2>1, FightStartTypes DEF NotifyFightStart
<1>7. ASSUME Takes(j, "notify_end_room") \/ Takes(j, "notify_terminate_room"), NEW k, NEW s, s = NextOn(j).args[2],
             NotifyEndOrTerminateRoom(g, k, s)
      PROVE  GameTypes' /\ Passed /\ UNCHANGED drawn
  <2>1. net[j] # <<>> /\ s \in Sessions
    BY <1>1, <1>7, HeadCarries DEF Carries
  <2> QED BY <1>7, <2>1, RoomOverTypes DEF NotifyEndOrTerminateRoom
<1>8. ASSUME Takes(j, "rsp"), NEW cb \in gcalls, CbBindRoom(j, cb[2], cb[3], NextOn(j).args)
      PROVE  GameTypes' /\ Passed /\ UNCHANGED drawn
  <2>1. net[j] # <<>> /\ NextOn(j).args.started \in BOOLEAN
    BY <1>1, <1>8, HeadCarries DEF Carries
  <2>2. cb[2] \in DOMAIN objs
    BY DEF GameTypes
  <2>3. UNCHANGED drawn
    BY <1>8 DEF CbBindRoom
  <2> DEFINE rsp == NextOn(j).args
             o == cb[2]
             n == cb[3]
  <2>4. CbBindRoom(j, o, n, rsp) /\ o \in DOMAIN objs /\ rsp.started \in BOOLEAN
    BY <1>8, <2>1, <2>2
  <2> HIDE DEF rsp, o, n, j
  <2>5. GameTypes' /\ Passed
    BY <2>1, <2>4, CbBindTypes
  <2> QED BY <2>3, <2>5
<1> HIDE DEF l, j, TypesInv
<1> QED BY <1>2, <1>3, <1>4, <1>5, <1>6, <1>7, <1>8 DEF GameHandles, l, j

LEMMA MatchHandlesTypes ==
  ASSUME TypesInv, MatchInv, MatchHandles
  PROVE  MatchTypes' /\ Passed /\ Numbered'
<1> USE DEF TypesInv
<1>0. UNCHANGED drawn
  BY DEF MatchHandles, gameVars
<1>1. \A g \in Games : <<g, Match>> \in Links /\ <<Room, Match>> \in Links
  BY LinksAre
<1>2. ASSUME NEW g \in Games, Takes(<<g, Match>>, "join_match"), NEW s, s = NextOn(<<g, Match>>).args[1],
             NEW cb, JoinMatch(g, s, cb)
      PROVE  MatchTypes' /\ Passed /\ Numbered'
  <2> DEFINE m == NextOn(<<g, Match>>)
  <2>1. /\ net[<<g, Match>>] # <<>> /\ s \in Sessions
        /\ m \in ToSet(net[<<g, Match>>]) /\ m.fn = "join_match" /\ m.args[1] = s
    BY <1>1, <1>2, HeadCarries DEF Carries
  <2>2. Joining(s)
    BY <2>1 DEF Joining
  <2> QED BY <1>0, <1>2, <2>1, <2>2, JoinMatchTypes
<1>3. ASSUME NEW g \in Games, Takes(<<g, Match>>, "quit_match"), NEW r, QuitMatch(g, r)
      PROVE  MatchTypes' /\ Passed /\ Numbered'
  BY <1>0, <1>3, QuitMatchTypes DEF Takes
<1>4. ASSUME NEW l, net[l] # <<>>, NEW k, NEW s, NEW accept, CbNotifyConfirmJoinMatch(l, k, s, accept)
      PROVE  MatchTypes' /\ Passed /\ Numbered'
  BY <1>0, <1>4, ConfirmTypes
<1>5. ASSUME NEW l, net[l] # <<>>, NEW k, NEW ok, CbApplyRoom(l, k, ok)
      PROVE  MatchTypes' /\ Passed /\ Numbered'
  BY <1>0, <1>5, ApplyAnswerTypes
<1>6. ASSUME NEW l, Ignores(l, mcalls), UNCHANGED matchVars
      PROVE  MatchTypes' /\ Passed /\ Numbered'
  <2>1. net[l] # <<>> /\ Deliver(l, l[2], <<>>)
    BY <1>6 DEF Ignores, Takes
  <2>2. Passed
    BY <2>1, PassedNone
  <2> QED BY <1>0, <1>6, <2>2, NumberedKept DEF matchVars, MatchTypes
<1> HIDE DEF TypesInv
<1> QED BY <1>2, <1>3, <1>4, <1>5, <1>6 DEF MatchHandles, Takes

LEMMA RoomHandlesTypes ==
  ASSUME TypesInv, RoomHandles
  PROVE  RoomTypes' /\ Passed
<1> USE DEF TypesInv
<1> DEFINE a == <<Match, Room>>
           f == <<Fight, Room>>
<1>1. a \in Links /\ f \in Links
  BY LinksAre
<1>2. ASSUME Takes(a, "apply_room"), OnApplyRoom(NextOn(a).args[1], NextOn(a).args[2])
      PROVE  RoomTypes' /\ Passed
  <2>1. net[a] # <<>> /\ NextOn(a).args[1] \in Rooms /\ NextOn(a).args[2] \subseteq Sessions
    BY <1>1, <1>2, HeadCarries DEF Carries
  <2> QED BY <1>2, <2>1, ApplyTypes
<1>3. ASSUME NEW g \in Games, Takes(<<g, Room>>, "bind_room"), NEW k, NEW s, NEW cb, OnBindRoom(g, k, s, cb)
      PROVE  RoomTypes' /\ Passed
  BY <1>3, BindTypes DEF Takes
<1>4. ASSUME NEW k, NEW members, NEW ok, Takes(f, "rsp"), CbApplyFight(f, k, members, ok)
      PROVE  RoomTypes' /\ Passed
  BY <1>4, ApplyFightTypes DEF Takes
<1>5. ASSUME NEW k, NEW ok, Takes(f, "rsp"), CbStartFight(f, k, ok)
      PROVE  RoomTypes' /\ Passed
  BY <1>5, StartTypes DEF Takes
<1>6. ASSUME Ignores(f, rcalls), UNCHANGED roomVars
      PROVE  RoomTypes' /\ Passed
  <2>1. net[f] # <<>> /\ Deliver(f, f[2], <<>>)
    BY <1>6 DEF Ignores, Takes
  <2> QED BY <1>6, <2>1, PassedNone, RoomTypesAre, RoomTypesStay DEF roomVars
<1>7. ASSUME NEW k, Takes(f, "notify_fight_battle_over"), NotifyFightBattleOver(k)
      PROVE  RoomTypes' /\ Passed
  BY <1>7, OverTypes DEF Takes
<1> HIDE DEF TypesInv, a, f
<1> QED BY <1>2, <1>3, <1>4, <1>5, <1>6, <1>7 DEF RoomHandles, a, f

LEMMA GameStepsTypes ==
  ASSUME TypesInv, GameSteps
  PROVE  GameTypes' /\ Queues' /\ Carried' /\ Numbered' /\ trouble' \in 0..MaxTrouble
<1> USE DEF TypesInv
<1>1. UNCHANGED cells
  BY DEF GameSteps, matchVars
<1>2. ASSUME GameTypes', Passed, UNCHANGED drawn
      PROVE  Numbered' /\ Queues' /\ Carried'
  BY <1>1, <1>2, NumberedKept DEF Passed
<1>3. ASSUME NEW r \in Roles, ReqJoinMatch(r), UNCHANGED trouble
      PROVE  GameTypes' /\ Queues' /\ Carried' /\ Numbered' /\ trouble' \in 0..MaxTrouble
  BY <1>1, <1>3, JoinTypes, TroubleTypes
<1>4. ASSUME NEW r \in Roles, ReqQuitMatch(r)
      PROVE  GameTypes' /\ Queues' /\ Carried' /\ Numbered' /\ trouble' \in 0..MaxTrouble
  <2>1. UNCHANGED drawn /\ Trouble
    BY <1>4 DEF ReqQuitMatch
  <2> QED BY <1>2, <1>4, <2>1, QuitTypes, TroubleTypes
<1>5. ASSUME NEW r \in Roles, Release(r)
      PROVE  GameTypes' /\ Queues' /\ Carried' /\ Numbered' /\ trouble' \in 0..MaxTrouble
  <2>1. UNCHANGED <<drawn, net>> /\ Trouble
    BY <1>5 DEF Release
  <2> QED BY <1>2, <1>5, <2>1, ReleaseTypes, PassedSame, TroubleTypes
<1>6. ASSUME NEW r \in Roles, NEW g \in Games, Launch(r, g), UNCHANGED trouble
      PROVE  GameTypes' /\ Queues' /\ Carried' /\ Numbered' /\ trouble' \in 0..MaxTrouble
  <2>1. UNCHANGED <<drawn, net>>
    BY <1>6 DEF Launch
  <2> QED BY <1>2, <1>6, <2>1, LaunchTypes, PassedSame, TroubleTypes
<1> HIDE DEF TypesInv
<1> QED BY <1>3, <1>4, <1>5, <1>6 DEF GameSteps

LEMMA GiveUpTypes ==
  ASSUME TypesInv, GiveUp
  PROVE  /\ GameTypes' /\ MatchTypes' /\ RoomTypes' /\ Passed /\ Numbered'
<1> USE DEF TypesInv
<1>1. CASE UNCHANGED <<matchVars, roomVars>> /\ \E cb \in gcalls :
             \/ cb[1] = "join" /\ CbJoinMatch(NoLink, cb[2], cb[3], FALSE)
             \/ cb[1] = "bind" /\ (BindFailed(cb[2], cb[3]) \/ BindExpired(cb[2], cb[3]))
  <2>1. MatchTypes' /\ RoomTypes' /\ UNCHANGED cells
    BY <1>1, RoomTypesAre, RoomTypesStay DEF matchVars, roomVars, MatchTypes
  <2>2. PICK cb \in gcalls :
             \/ cb[1] = "join" /\ CbJoinMatch(NoLink, cb[2], cb[3], FALSE)
             \/ cb[1] = "bind" /\ (BindFailed(cb[2], cb[3]) \/ BindExpired(cb[2], cb[3]))
    BY <1>1
  <2>3. cb[2] \in DOMAIN objs
    BY DEF GameTypes
  <2>4. GameTypes' /\ Passed
    <3> DEFINE o == cb[2]
               n == cb[3]
    <3>1. o \in DOMAIN objs /\ (CbJoinMatch(NoLink, o, n, FALSE) \/ BindFailed(o, n) \/ BindExpired(o, n))
      BY <2>2, <2>3
    <3> HIDE DEF o, n
    <3> QED BY <3>1, CbJoinTypes, BindFailedTypes, BindExpiredTypes, NoLinkIsNone
  <2>5. UNCHANGED drawn
    BY <2>2 DEF CbJoinMatch, BindFailed, BindExpired
  <2> QED BY <2>1, <2>4, <2>5, NumberedKept
<1>2. CASE UNCHANGED <<gameVars, roomVars>> /\ \E cb \in mcalls :
             \/ /\ cb[1] = "notify_confirm_join_match"
                /\ CbNotifyConfirmJoinMatch(NoLink, cb[2], cb[3], FALSE)
             \/ cb[1] = "apply_room" /\ CbApplyRoom(NoLink, cb[2], FALSE)
  <2>1. GameTypes' /\ RoomTypes' /\ UNCHANGED drawn
    BY <1>2, RoomTypesAre, RoomTypesStay DEF gameVars, roomVars, GameTypes
  <2>2. PICK k, s : CbNotifyConfirmJoinMatch(NoLink, k, s, FALSE) \/ CbApplyRoom(NoLink, k, FALSE)
    BY <1>2
  <2>3. MatchTypes' /\ Passed /\ Numbered'
    BY <2>1, <2>2, ConfirmTypes, ApplyAnswerTypes, NoLinkIsNone
  <2> QED BY <2>1, <2>3
<1>3. CASE UNCHANGED <<gameVars, matchVars, aborted>> /\ \E cb \in rcalls :
             \/ cb[1] = "apply_fight" /\ CbApplyFight(NoLink, cb[2], cb[3], FALSE)
             \/ cb[1] = "start_fight" /\ CbStartFight(NoLink, cb[2], FALSE)
  <2>1. GameTypes' /\ MatchTypes' /\ UNCHANGED <<drawn, cells>>
    BY <1>3 DEF gameVars, matchVars, GameTypes, MatchTypes
  <2>2. PICK k, members : CbApplyFight(NoLink, k, members, FALSE) \/ CbStartFight(NoLink, k, FALSE)
    BY <1>3
  <2>3. RoomTypes' /\ Passed
    BY <2>2, ApplyFightTypes, StartTypes, NoLinkIsNone
  <2> QED BY <2>1, <2>3, NumberedKept
<1> HIDE DEF TypesInv
<1> QED BY <1>1, <1>2, <1>3 DEF GiveUp

LEMMA BreakPasses ==
  ASSUME Queues, Carried, NEW l \in Links, Break(l)
  PROVE  Passed /\ \A i \in Links : \A m \in ToSet(net'[i]) : m \in ToSet(net[i])
<1>1. net' = [net EXCEPT ![l] = <<>>]
  BY DEF Break
<1>2. net' = [i \in Links |-> net'[i]] /\ \A i \in Links : net'[i] = IF i = l THEN <<>> ELSE net[i]
  BY <1>1 DEF Queues
<1>3. <<>> \in Seq(ToSet(<<>>)) /\ ToSet(<<>>) = {}
  BY DEF ToSet
<1>4. Queues'
  BY <1>2, <1>3 DEF Queues
<1>5. \A i \in Links : \A m \in ToSet(net'[i]) : m \in ToSet(net[i])
  BY <1>2, <1>3
<1> QED BY <1>4, <1>5, CarriedStays DEF Passed

\* Which step may ask for a match, and what else is as it was.
LEMMA TypesStep ==
  ASSUME TypesInv, GameTypes', MatchTypes', RoomTypes', fights' \subseteq Rooms,
         Passed, Numbered', trouble' \in 0..MaxTrouble, broken' \in BOOLEAN
  PROVE  TypesInv'
BY DEF TypesInv, Passed

LEMMA TypesKept ==
  ASSUME TypesInv, MatchInv, Next
  PROVE  TypesInv'
<1>1. ASSUME UNCHANGED gameVars PROVE GameTypes' /\ UNCHANGED drawn
  BY <1>1 DEF TypesInv, gameVars, GameTypes
<1>2. ASSUME UNCHANGED matchVars PROVE MatchTypes' /\ UNCHANGED cells
  BY <1>2 DEF TypesInv, matchVars, MatchTypes
<1>3. ASSUME UNCHANGED roomVars PROVE RoomTypes'
  BY <1>3, RoomTypesAre, RoomTypesStay DEF TypesInv, roomVars
<1>4. ASSUME UNCHANGED <<fights, broken>> PROVE fights' \subseteq Rooms /\ broken' \in BOOLEAN
  BY <1>4 DEF TypesInv
<1>5. ASSUME GameTypes', Passed, UNCHANGED <<cells, drawn>> PROVE Numbered'
  BY <1>5, NumberedKept DEF TypesInv
<1>6. ASSUME NEW g \in Games, GameHandles(g)
      PROVE  TypesInv'
  <2>1. GameTypes' /\ Passed /\ UNCHANGED drawn
    BY <1>6, GameHandlesTypes
  <2>2. UNCHANGED <<matchVars, roomVars, fights, trouble, broken>>
    BY <1>6 DEF GameHandles
  <2> QED BY <1>2, <1>3, <1>4, <1>5, <2>1, <2>2, TroubleTypes, TypesStep
<1>7. CASE MatchHandles
  <2>1. MatchTypes' /\ Passed /\ Numbered'
    BY <1>7, MatchHandlesTypes
  <2>2. UNCHANGED <<gameVars, roomVars, fights, trouble, broken>>
    BY <1>7 DEF MatchHandles
  <2> QED BY <1>1, <1>3, <1>4, <2>1, <2>2, TroubleTypes, TypesStep
<1>8. CASE RoomHandles
  <2>1. RoomTypes' /\ Passed
    BY <1>8, RoomHandlesTypes
  <2>2. UNCHANGED <<gameVars, matchVars, fights, trouble, broken>>
    BY <1>8 DEF RoomHandles
  <2> QED BY <1>1, <1>2, <1>4, <1>5, <2>1, <2>2, TroubleTypes, TypesStep
<1>9. CASE FightHandles \/ FightUpdates
  <2>1. fights' \subseteq Rooms /\ Passed
    BY <1>9, FightTypes DEF TypesInv
  <2>2. UNCHANGED <<gameVars, matchVars, roomVars, trouble, broken>>
    BY <1>9 DEF FightHandles, FightUpdates
  <2>3. broken' \in BOOLEAN
    BY <2>2 DEF TypesInv
  <2> QED BY <1>1, <1>2, <1>3, <1>5, <2>1, <2>2, <2>3, TroubleTypes, TypesStep
<1>10. CASE GameSteps
  <2>1. GameTypes' /\ Queues' /\ Carried' /\ Numbered' /\ trouble' \in 0..MaxTrouble
    BY <1>10, GameStepsTypes
  <2>2. UNCHANGED <<matchVars, roomVars, fights, broken>>
    BY <1>10 DEF GameSteps
  <2> QED BY <1>2, <1>3, <1>4, <2>1, <2>2 DEF TypesInv
<1>11. CASE MatchUpdates
  <2>1. UNCHANGED <<gameVars, roomVars, fights, trouble, broken>> /\ UpdateLogic
    BY <1>11 DEF MatchUpdates
  <2>2. MatchTypes' /\ Passed /\ Numbered'
    BY <1>1, <2>1, UpdateTypes DEF TypesInv
  <2> QED BY <1>1, <1>3, <1>4, <2>1, <2>2, TroubleTypes, TypesStep
<1>12. CASE RoomUpdates
  <2>1. UNCHANGED <<gameVars, matchVars, fights, trouble, broken>>
    BY <1>12 DEF RoomUpdates
  <2>2. PICK k \in DOMAIN rooms : CheckRemoveWaitRoleReadyExpireRooms(k)
    BY <1>12 DEF RoomUpdates
  <2>3. RoomTypes' /\ Passed
    BY <2>2, ExpiredTypes DEF TypesInv
  <2> QED BY <1>1, <1>2, <1>4, <1>5, <2>1, <2>3, TroubleTypes, TypesStep
<1>13. CASE GiveUp
  <2>1. GameTypes' /\ MatchTypes' /\ RoomTypes' /\ Passed /\ Numbered'
    BY <1>13, GiveUpTypes
  <2>2. UNCHANGED <<broken, fights>> /\ Trouble
    BY <1>13 DEF GiveUp
  <2> QED BY <1>4, <2>1, <2>2, TroubleTypes, TypesStep
<1>14. CASE Breaks
  <2>1. PICK l \in Links : Break(l)
    BY <1>14 DEF Breaks
  <2>2. Passed
    BY <2>1, BreakPasses DEF TypesInv
  <2>3. UNCHANGED <<gameVars, matchVars, roomVars, fights>>
    BY <1>14 DEF Breaks
  <2>4. Trouble /\ broken' = TRUE
    BY <2>1 DEF Break
  <2>5. fights' \subseteq Rooms /\ broken' \in BOOLEAN
    BY <2>3, <2>4 DEF TypesInv
  <2> QED BY <1>1, <1>2, <1>3, <1>5, <2>2, <2>3, <2>4, <2>5, TroubleTypes, TypesStep
<1> QED BY <1>6, <1>7, <1>8, <1>9, <1>10, <1>11, <1>12, <1>13, <1>14 DEF Next

LEMMA TypesAndMatchKept ==
  ASSUME TypesInv, MatchInv, [Next]_vars
  PROVE  TypesInv' /\ MatchInv'
<1>1. ASSUME TypesInv, MatchInv, UNCHANGED vars
      PROVE  TypesInv' /\ MatchInv'
  <2>1. MatchInv'
    BY <1>1, OthersKeep DEF vars, netVars
  <2>2. UNCHANGED <<net, trouble, broken, gameVars, matchVars, roomVars, fights>>
    BY <1>1 DEF vars, netVars
  <2>3. Passed
    BY <1>1, <2>2, PassedSame DEF TypesInv
  <2>4. GameTypes' /\ MatchTypes'
    BY <1>1, <2>2 DEF TypesInv, gameVars, matchVars, GameTypes, MatchTypes
  <2>5. RoomTypes'
    BY <1>1, <2>2, RoomTypesAre, RoomTypesStay DEF TypesInv, roomVars
  <2>6. Numbered'
    BY <1>1, <2>2, <2>3, <2>4, NumberedKept DEF TypesInv, gameVars, matchVars
  <2>7. fights' \subseteq Rooms /\ trouble' \in 0..MaxTrouble /\ broken' \in BOOLEAN
    BY <1>1, <2>2 DEF TypesInv
  <2> QED BY <1>1, <2>1, <2>3, <2>4, <2>5, <2>6, <2>7, TypesStep
<1> QED BY <1>1, TypesKept, NextKeeps

\* The services' state has its types (services/match, services/room,
\* services/fight, role_modules of services/game), whatever messages cross: also a
\* room of one role, which an instance as small as TLC's never makes.
THEOREM MatchTypesKept == Spec => []TypeOK
<1>1. Init => TypesInv /\ MatchInv
  BY InitTypes, InitMatch
<1>2. TypesInv /\ MatchInv /\ [Next]_vars => TypesInv' /\ MatchInv'
  BY TypesAndMatchKept
<1>3. TypesInv => TypeOK
  BY DEF TypesInv, TypeOK, GameTypes, MatchTypes, RoomTypes
<1> QED BY <1>1, <1>2, <1>3, PTL DEF Spec

-----------------------------------------------------------------------------
(* A room is made once. *)

Asks    == {<<g, Match>> : g \in Games}
Applies == {<<Match, Room>>}

\* No two calls of fn on links L are about the same.
Once(L, fn) ==
  \A l, j \in L : \A i \in DOMAIN net[l] : \A h \in DOMAIN net[j] :
    net[l][i].fn = fn /\ net[j][h].fn = fn /\ net[l][i].args[1] = net[j][h].args[1] => l = j /\ i = h

\* Is there a call of fn about a on links L?
Calls(L, fn, a) == \E l \in L : \E m \in ToSet(net[l]) : m.fn = fn /\ m.args[1] = a

\* A step makes no such call, and what it takes was the only one.
StillOnce(L, fn, in) ==
  /\ Once(L, fn)'
  /\ \A a : Calls(L, fn, a)' => Calls(L, fn, a)
  /\ \A a : in \in L /\ Takes(in, fn) /\ a = NextOn(in).args[1] => ~Calls(L, fn, a)'

LEMMA OnceKept ==
  ASSUME Queues, NEW L \in SUBSET Links, NEW fn, Once(L, fn), NEW in, in \in Links => net[in] # <<>>,
         NEW me, NEW S, NEW outs \in Seq(S), Deliver(in, me, outs),
         \A x \in S : x.fn = fn => \A l \in L : ~(l[1] = me /\ l[2] = x.to)
  PROVE  StillOnce(L, fn, in)
<1> DEFINE Was(l, i) == IF l = in THEN i + 1 ELSE i
<1>1. \A l \in Links : \A i \in DOMAIN net'[l] :
        \/ l # in /\ i \in DOMAIN net[l] /\ net'[l][i] = net[l][i]
        \/ l = in /\ i \in Nat /\ i # 0 /\ i + 1 \in DOMAIN net[l] /\ net'[l][i] = net[l][i + 1]
        \/ l[1] = me /\ \E j \in DOMAIN outs : outs[j].to = l[2] /\ net'[l][i] = outs[j]
  BY Delivered
<1>2. \A j \in DOMAIN outs : outs[j] \in S
  OBVIOUS
<1>3. ASSUME NEW l \in L, NEW i \in DOMAIN net'[l], net'[l][i].fn = fn
      PROVE  /\ Was(l, i) \in DOMAIN net[l] /\ net'[l][i] = net[l][Was(l, i)]
             /\ l = in => i \in Nat /\ i # 0
  <2>1. ~(l[1] = me /\ \E j \in DOMAIN outs : outs[j].to = l[2] /\ net'[l][i] = outs[j])
    BY <1>2, <1>3
  <2> QED BY <1>1, <2>1
<1>4. ASSUME NEW l \in L, NEW j \in L, NEW i \in DOMAIN net'[l], NEW h \in DOMAIN net'[j],
             net'[l][i].fn = fn, net'[j][h].fn = fn, net'[l][i].args[1] = net'[j][h].args[1]
      PROVE  l = j /\ i = h
  <2>1. l = j /\ Was(l, i) = Was(j, h)
    <3> HIDE DEF Was
    <3> QED BY <1>3, <1>4 DEF Once
  <2> QED BY <1>3, <1>4, <2>1
<1>5. ASSUME NEW a, Calls(L, fn, a)'
      PROVE  \E l \in L : \E i \in DOMAIN net'[l] : net'[l][i].fn = fn /\ net'[l][i].args[1] = a
  BY <1>5 DEF Calls, ToSet
<1>6. ASSUME NEW a, Calls(L, fn, a)'
      PROVE  Calls(L, fn, a)
  <2>0. PICK l \in L : \E i \in DOMAIN net'[l] : net'[l][i].fn = fn /\ net'[l][i].args[1] = a
    BY <1>5, <1>6
  <2>1. PICK i \in DOMAIN net'[l] : net'[l][i].fn = fn /\ net'[l][i].args[1] = a
    BY <2>0
  <2>2. Was(l, i) \in DOMAIN net[l] /\ net'[l][i] = net[l][Was(l, i)]
    BY <1>3, <2>1
  <2> HIDE DEF Was
  <2>3. net'[l][i] \in ToSet(net[l])
    BY <2>2 DEF ToSet
  <2> QED BY <2>1, <2>3 DEF Calls
<1>7. ASSUME NEW a, in \in L, Takes(in, fn), a = NextOn(in).args[1], Calls(L, fn, a)'
      PROVE  FALSE
  <2>0. PICK l \in L : \E i \in DOMAIN net'[l] : net'[l][i].fn = fn /\ net'[l][i].args[1] = a
    BY <1>5, <1>7
  <2>1. PICK i \in DOMAIN net'[l] : net'[l][i].fn = fn /\ net'[l][i].args[1] = a
    BY <2>0
  <2>2. /\ Was(l, i) \in DOMAIN net[l] /\ net'[l][i] = net[l][Was(l, i)]
        /\ l = in => i \in Nat /\ i # 0
    BY <1>3, <2>1
  <2>3. 1 \in DOMAIN net[in] /\ NextOn(in) = net[in][1] /\ NextOn(in).fn = fn
    BY <1>7, HeadIn DEF Takes
  <2>4. l = in /\ Was(l, i) = 1
    <3> HIDE DEF Was
    <3> QED BY <1>7, <2>1, <2>2, <2>3 DEF Once
  <2> QED BY <2>2, <2>4
<1>8. Once(L, fn)'
  BY <1>4 DEF Once
<1> QED BY <1>6, <1>7, <1>8 DEF StillOnce

LEMMA OnceKeptOne ==
  ASSUME Queues, NEW L \in SUBSET Links, NEW fn, Once(L, fn), NEW in, in \in Links => net[in] # <<>>,
         NEW me, NEW x, Deliver(in, me, <<x>>), x.fn # fn \/ \A l \in L : ~(l[1] = me /\ l[2] = x.to)
  PROVE  StillOnce(L, fn, in)
<1> DEFINE outs == <<x>>
           S == {x}
<1>1. outs \in Seq(S) /\ Deliver(in, me, outs)
  OBVIOUS
<1> HIDE DEF outs
<1>2. \A z \in S : z.fn = fn => \A l \in L : ~(l[1] = me /\ l[2] = z.to)
  OBVIOUS
<1> HIDE DEF S
<1> QED BY <1>1, <1>2, OnceKept

\* One message is sent once.
LEMMA SentAlone ==
  ASSUME NEW x, NEW d
  PROVE  SentTo(<<x>>, d) = IF x.to = d THEN <<x>> ELSE <<>>
<1> DEFINE outs == <<x>>
<1>1. Len(outs) = 1 /\ outs[1] = x
  OBVIOUS
<1> HIDE DEF outs
<1>2. PICK f : /\ SentTo(outs, d) = f[Len(outs)]
               /\ \A i \in 0..Len(outs) :
                    f[i] = IF i = 0 THEN <<>>
                           ELSE IF outs[i].to = d THEN Append(f[i - 1], outs[i]) ELSE f[i - 1]
  BY <1>1, SentToIs
<1>3. f[0] = <<>> /\ f[1] = IF x.to = d THEN Append(f[0], x) ELSE f[0]
  BY <1>1, <1>2
<1>4. Append(<<>>, x) = <<x>>
  OBVIOUS
<1>5. SentTo(outs, d) = IF x.to = d THEN <<x>> ELSE <<>>
  BY <1>1, <1>2, <1>3, <1>4
<1> QED BY <1>5 DEF outs

LEMMA AppendOf ==
  ASSUME NEW S, NEW a \in Seq(S), NEW x
  PROVE  /\ \A i \in DOMAIN (a \o <<x>>) :
              \/ i \in DOMAIN a /\ (a \o <<x>>)[i] = a[i]
              \/ i = Len(a) + 1 /\ (a \o <<x>>)[i] = x
         /\ a \o <<>> = a
<1>1. /\ Len(a) \in Nat /\ DOMAIN a = 1..Len(a) /\ Len(<<x>>) = 1 /\ <<x>>[1] = x
      /\ a \in Seq(S \cup {x}) /\ <<x>> \in Seq(S \cup {x}) /\ a \o <<>> = a
  OBVIOUS
<1> DEFINE b == <<x>>
<1>2. /\ DOMAIN (a \o b) = 1..(Len(a) + Len(b))
      /\ \A i \in 1..(Len(a) + Len(b)) : (a \o b)[i] = IF i <= Len(a) THEN a[i] ELSE b[i - Len(a)]
  <2>1. a \in Seq(S \cup {x}) /\ b \in Seq(S \cup {x})
    BY <1>1
  <2> HIDE DEF b
  <2> QED BY <2>1
<1>3. \A i \in 1..(Len(a) + 1) : (i <= Len(a) /\ i \in 1..Len(a)) \/ (i = Len(a) + 1 /\ ~(i <= Len(a)) /\ i - Len(a) = 1)
  BY <1>1
<1>4. Len(b) = 1 /\ b[1] = x
  BY <1>1
<1> HIDE DEF b
<1>5. \A i \in DOMAIN (a \o b) :
              \/ i \in DOMAIN a /\ (a \o b)[i] = a[i]
              \/ i = Len(a) + 1 /\ (a \o b)[i] = x
  BY <1>1, <1>2, <1>3, <1>4
<1> QED BY <1>1, <1>5 DEF b

\* A call about what none is about is the only one.
LEMMA OnceAdded ==
  ASSUME Queues, NEW L \in SUBSET Links, NEW fn, Once(L, fn), \A l, j \in L : l[1] = j[1] => l = j,
         NEW in, in \notin L, NEW me, NEW x, Deliver(in, me, <<x>>), ~Calls(L, fn, x.args[1])
  PROVE  Once(L, fn)'
<1>1. ASSUME NEW l \in L
      PROVE  \A i \in DOMAIN net'[l] :
               \/ i \in DOMAIN net[l] /\ net'[l][i] = net[l][i]
               \/ l[1] = me /\ i = Len(net[l]) + 1 /\ net'[l][i] = x
  <2>1. net[l] \in Seq(ToSet(net[l])) /\ l # in
    BY DEF Queues
  <2>2. net'[l] = net[l] \o (IF l[1] = me THEN SentTo(<<x>>, l[2]) ELSE <<>>)
    BY <2>1 DEF Deliver
  <2>3. net'[l] = net[l] \o <<>> \/ (l[1] = me /\ net'[l] = net[l] \o <<x>>)
    BY <2>2, SentAlone
  <2> QED BY <2>1, <2>3, AppendOf
<1>2. ASSUME NEW l \in L, NEW i \in DOMAIN net[l], net[l][i].fn = fn
      PROVE  net[l][i].args[1] # x.args[1]
  BY <1>2 DEF Calls, ToSet
<1> QED BY <1>1, <1>2 DEF Once

LEMMA OnceBroken ==
  ASSUME Queues, NEW L \in SUBSET Links, NEW fn, Once(L, fn), NEW in \in Links, Break(in)
  PROVE  Once(L, fn)'
<1>1. \A l \in Links : net'[l] = <<>> \/ net'[l] = net[l]
  BY DEF Break, Queues
<1>2. \A l \in Links : \A i \in DOMAIN net'[l] : i \in DOMAIN net[l] /\ net'[l][i] = net[l][i]
  BY <1>1
<1> QED BY <1>2 DEF Once

-----------------------------------------------------------------------------
(* Where two cells are on their way to a room. *)

Applied(k)    == Calls(Applies, "apply_room", k)
FightAsked(k) == \E cb \in rcalls : cb[1] = "apply_fight" /\ cb[2] = k
Roomed(k)     == k \in waiting \/ Applied(k) \/ FightAsked(k) \/ k \in DOMAIN rooms

Onces == Once(Asks, "join_match") /\ Once(Applies, "apply_room")

\* A role that asks for a match is not in its cell yet.
Apart == \A s \in cells : ~Joining(s)

\* The sessions of a room are out of the queue.
Placed == \A k \in Rooms : Roomed(k) => \A s \in k : s[2] <= drawn /\ ~InQueue(s)

\* A room is at one place.
Stages ==
  /\ \A k \in waiting : ~Applied(k) /\ ~FightAsked(k) /\ k \notin DOMAIN rooms
  /\ \A k : Applied(k) => ~FightAsked(k) /\ k \notin DOMAIN rooms
  /\ \A k : FightAsked(k) => k \notin DOMAIN rooms
  /\ \A a, b \in rcalls : a[1] = "apply_fight" /\ b[1] = "apply_fight" /\ a[2] = b[2] => a = b

\* A role has one session in a room.
OneEach(M) == \A s, t \in M : RoleOf(s) = RoleOf(t) => s = t
Mates ==
  /\ \A m \in ToSet(net[<<Match, Room>>]) : m.fn = "apply_room" => OneEach(m.args[2])
  /\ \A cb \in rcalls : cb[1] = "apply_fight" => OneEach(cb[3])
  /\ \A k \in DOMAIN rooms : OneEach(rooms[k].members)

StageInv == Onces /\ Apart /\ Placed /\ Stages /\ Mates

LEMMA AsksAre ==
  /\ Asks \in SUBSET Links /\ Applies \in SUBSET Links
  /\ \A l \in Asks : l[1] \in Games /\ l[2] = Match
  /\ \A l \in Applies : l = <<Match, Room>> /\ l[1] = Match
  /\ \A l, j \in Asks : l[1] = j[1] => l = j
  /\ \A s : Joining(s) <=> Calls(Asks, "join_match", s)
  /\ \A k : Applied(k) <=> \E m \in ToSet(net[<<Match, Room>>]) : m.fn = "apply_room" /\ m.args[1] = k
<1>1. Asks \in SUBSET Links /\ Applies \in SUBSET Links
  BY LinksAre DEF Asks, Applies
<1>2. /\ \A l \in Asks : l[1] \in Games /\ l[2] = Match
      /\ \A l \in Applies : l = <<Match, Room>> /\ l[1] = Match
      /\ \A l, j \in Asks : l[1] = j[1] => l = j
  BY DEF Asks, Applies
<1>3. \A s : Joining(s) <=> Calls(Asks, "join_match", s)
  BY DEF Asks, Joining, Calls
<1>4. \A k : Applied(k) <=> \E m \in ToSet(net[<<Match, Room>>]) : m.fn = "apply_room" /\ m.args[1] = k
  BY DEF Applies, Applied, Calls
<1> QED BY <1>1, <1>2, <1>3, <1>4

\* A step asks for no match and takes no room to the room service.
NetQuiet ==
  /\ Onces'
  /\ \A s : Joining(s)' => Joining(s)
  /\ \A k : Applied(k)' => Applied(k)
  /\ \A m \in ToSet(net'[<<Match, Room>>]) : m \in ToSet(net[<<Match, Room>>]) \/ m.fn # "apply_room"

LEMMA JoiningIs == \A s : Joining(s)' <=> Calls(Asks, "join_match", s)'
BY DEF Joining, Calls, Asks

LEMMA QuietSent ==
  ASSUME Queues, Onces, NEW in, in \in Links => net[in] # <<>>,
         NEW me, NEW S, NEW outs \in Seq(S), Deliver(in, me, outs),
         \A x \in S : (x.fn = "join_match" => me \notin Games) /\ (x.fn = "apply_room" => me # Match)
  PROVE  NetQuiet
<1>1. Once(Asks, "join_match")' /\ \A a : Calls(Asks, "join_match", a)' => Calls(Asks, "join_match", a)
  <2>1. \A x \in S : x.fn = "join_match" => \A l \in Asks : ~(l[1] = me /\ l[2] = x.to)
    BY AsksAre
  <2>2. Asks \in SUBSET Links /\ Once(Asks, "join_match")
    BY AsksAre DEF Onces
  <2> QED BY <2>1, <2>2, OnceKept DEF StillOnce
<1>2. Once(Applies, "apply_room")' /\ \A a : Calls(Applies, "apply_room", a)' => Calls(Applies, "apply_room", a)
  <2>1. \A x \in S : x.fn = "apply_room" => \A l \in Applies : ~(l[1] = me /\ l[2] = x.to)
    BY AsksAre
  <2>2. Applies \in SUBSET Links /\ Once(Applies, "apply_room")
    BY AsksAre DEF Onces
  <2> QED BY <2>1, <2>2, OnceKept DEF StillOnce
<1>3. ASSUME NEW m \in ToSet(net'[<<Match, Room>>]), m.fn = "apply_room"
      PROVE  m \in ToSet(net[<<Match, Room>>])
  <2>1. \A l \in Links : \A n \in ToSet(net'[l]) :
              \/ n \in ToSet(net[l])
              \/ l[1] = me /\ n.to = l[2] /\ \E j \in DOMAIN outs : n = outs[j]
    BY Sent1
  <2>2. <<Match, Room>> \in Links /\ \A j \in DOMAIN outs : outs[j] \in S
    BY LinksAre
  <2> QED BY <1>3, <2>1, <2>2
<1> QED BY <1>1, <1>2, <1>3, AsksAre, JoiningIs DEF NetQuiet, Onces, Applied

LEMMA QuietNone ==
  ASSUME Queues, Onces, NEW in, in \in Links => net[in] # <<>>, NEW me, Deliver(in, me, <<>>)
  PROVE  NetQuiet
<1> DEFINE outs == <<>>
<1>1. outs \in Seq({}) /\ Deliver(in, me, outs)
  OBVIOUS
<1> HIDE DEF outs
<1>2. \A x \in {} : (x.fn = "join_match" => me \notin Games) /\ (x.fn = "apply_room" => me # Match)
  OBVIOUS
<1> QED BY <1>1, <1>2, QuietSent

LEMMA QuietOne ==
  ASSUME Queues, Onces, NEW in, in \in Links => net[in] # <<>>, NEW me, NEW x, Deliver(in, me, <<x>>),
         x.fn = "join_match" => me \notin Games, x.fn = "apply_room" => me # Match
  PROVE  NetQuiet
<1> DEFINE outs == <<x>>
<1>1. outs \in Seq({x}) /\ Deliver(in, me, outs)
  OBVIOUS
<1> HIDE DEF outs
<1>2. \A z \in {x} : (z.fn = "join_match" => me \notin Games) /\ (z.fn = "apply_room" => me # Match)
  OBVIOUS
<1> QED BY <1>1, <1>2, QuietSent

LEMMA QuietSame ==
  ASSUME Onces, UNCHANGED net
  PROVE  NetQuiet
<1>1. Onces'
  BY DEF Onces, Once
<1>2. \A s : Joining(s)' => Joining(s)
  BY DEF Joining
<1>3. \A k : Applied(k)' => Applied(k)
  BY DEF Applied, Calls
<1> QED BY <1>1, <1>2, <1>3 DEF NetQuiet

LEMMA QuietBroken ==
  ASSUME Queues, Carried, Onces, NEW l \in Links, Break(l)
  PROVE  NetQuiet
<1>1. \A i \in Links : \A m \in ToSet(net'[i]) : m \in ToSet(net[i])
  BY BreakPasses
<1>2. Onces'
  BY OnceBroken, AsksAre DEF Onces
<1> QED BY <1>1, <1>2, AsksAre, LinksAre DEF NetQuiet, Joining, Applied, Calls, Applies

\* What is known of cells and rooms does not grow.
LEMMA StageKept ==
  ASSUME StageInv, NetQuiet, UNCHANGED drawn, cells' \subseteq cells, waiting' \subseteq waiting,
         \A cb \in rcalls' : cb \in rcalls \/ cb[1] # "apply_fight",
         DOMAIN rooms' \subseteq DOMAIN rooms,
         \A k \in DOMAIN rooms' : rooms'[k].members = rooms[k].members
  PROVE  StageInv'
<1>1. \A k : FightAsked(k)' => FightAsked(k)
  BY DEF FightAsked
<1>2. \A k : Roomed(k)' => Roomed(k)
  BY <1>1 DEF Roomed, NetQuiet
<1>3. \A s : InQueue(s)' => InQueue(s)
  BY DEF InQueue, NetQuiet
<1>4. Apart'
  BY DEF StageInv, Apart, NetQuiet
<1>5. Placed'
  BY <1>2, <1>3 DEF StageInv, Placed
<1>6. Stages'
  BY <1>1 DEF StageInv, Stages, NetQuiet
<1>7. Mates'
  BY DEF StageInv, Mates, NetQuiet, OneEach
<1> QED BY <1>4, <1>5, <1>6, <1>7 DEF StageInv, NetQuiet

\* A role asks for a match with a session that is nowhere yet.
LEMMA JoinStages ==
  ASSUME TypesInv, StageInv, NEW r \in Roles, ReqJoinMatch(r), UNCHANGED <<matchVars, roomVars>>
  PROVE  StageInv'
<1> DEFINE o == in_game[r]
           t == <<r, drawn + 1>>
           x == Call(Match, "join_match", <<t>>, JoinCb(o, t))
<1>1. /\ drawn < MaxJoin /\ drawn' = drawn + 1
      /\ Deliver(NoLink, objs[o].game, <<x>>)
  BY DEF ReqJoinMatch
<1>2. drawn \in Nat /\ t \in Sessions /\ t[2] = drawn + 1
  BY <1>1, BoundAssumption DEF TypesInv, GameTypes, Sessions
<1>3. x.fn = "join_match" /\ x.args[1] = t /\ x.to = Match
  BY DEF Call
<1>4. \A s \in Sessions : s[2] \in Nat
  BY RolesOfSessions
<1>5. ~InQueue(t)
  <2>1. InQueue(t) => t[2] <= drawn
    BY <1>2 DEF TypesInv, Numbered
  <2> HIDE DEF t
  <2> QED BY <1>2, <2>1
<1>6. \A k \in Rooms : Roomed(k) => t \notin k
  <2> SUFFICES ASSUME NEW k \in Rooms, Roomed(k), t \in k PROVE FALSE
    OBVIOUS
  <2>1. t[2] <= drawn
    BY DEF StageInv, Placed
  <2> HIDE DEF t
  <2> QED BY <1>2, <2>1
<1>7. UNCHANGED <<cells, waiting, rooms, rcalls>>
  BY DEF matchVars, roomVars
<1>8. Queues /\ Once(Asks, "join_match") /\ Once(Applies, "apply_room") /\ NoLink \notin Links
  BY LinksAre DEF TypesInv, StageInv, Onces
<1>20. objs[o].game \in Games
  <2>1. o \in DOMAIN objs
    BY ObjIs DEF ReqJoinMatch, TypesInv
  <2> QED BY <2>1, ObjIs DEF TypesInv, ObjType
<1> HIDE DEF o, t, x
<1>9. Once(Asks, "join_match")'
  <2>1. ~Calls(Asks, "join_match", x.args[1])
    BY <1>3, <1>5, AsksAre DEF InQueue
  <2>2. Asks \in SUBSET Links /\ NoLink \notin Asks
    BY <1>8, AsksAre
  <2> QED BY <1>1, <1>8, <2>1, <2>2, AsksAre, OnceAdded
<1>10. Queues' /\ \A l \in Links : \A m \in ToSet(net'[l]) :
              m \in ToSet(net[l]) \/ (l[1] = objs[o].game /\ x.to = l[2] /\ m = x)
  BY <1>1, <1>8, SentOne
<1>11. Once(Applies, "apply_room")'
  <2>1. <<x>> \in Seq({x}) /\ x.fn # "apply_room"
    BY <1>3
  <2>2. Applies \in SUBSET Links
    BY AsksAre
  <2> QED BY <1>1, <1>8, <2>1, <2>2, OnceKeptOne DEF StillOnce
<1>12. \A m \in ToSet(net'[<<Match, Room>>]) : m \in ToSet(net[<<Match, Room>>]) \/ m.fn # "apply_room"
  BY <1>3, <1>10, LinksAre
<1>13. \A k : Applied(k)' => Applied(k)
  BY <1>12 DEF Applied, Calls, Applies
<1>14. \A s : Joining(s)' => Joining(s) \/ s = t
  BY <1>3, <1>10, LinksAre DEF Joining
<1>15. Apart'
  BY <1>5, <1>7, <1>14 DEF Apart, StageInv, InQueue
<1>16. Placed'
  <2> SUFFICES ASSUME NEW k \in Rooms, Roomed(k)', NEW s \in k
               PROVE  s[2] <= drawn' /\ ~InQueue(s)'
    BY DEF Placed
  <2>1. Roomed(k)
    BY <1>7, <1>13 DEF Roomed, FightAsked
  <2>2. s[2] <= drawn /\ ~InQueue(s) /\ s # t
    BY <1>6, <2>1 DEF Placed, StageInv
  <2>3. s \in Sessions
    BY RolesOfSessions
  <2>4. s[2] <= drawn'
    BY <1>1, <1>2, <1>4, <2>2, <2>3
  <2> QED BY <1>7, <1>14, <2>2, <2>4 DEF InQueue
<1>17. Stages'
  BY <1>7, <1>13 DEF Stages, StageInv, FightAsked
<1>18. Mates'
  BY <1>7, <1>12 DEF Mates, StageInv, OneEach
<1> QED BY <1>9, <1>11, <1>15, <1>16, <1>17, <1>18 DEF StageInv, Onces

\* What roles and rooms say to each other.
Talk == UNION {{<<Room, g>>, <<g, Room>>} : g \in Games}

\* A step in which neither is taken or sent.
Elsewhere == \A l \in Talk : ToSet(net'[l]) = ToSet(net[l])

LEMMA TalkIs ==
  /\ Talk \in SUBSET Links /\ NoLink \notin Talk
  /\ <<Room, Match>> \notin Talk /\ <<Match, Room>> \notin Talk
  /\ <<Fight, Room>> \notin Talk /\ <<Room, Fight>> \notin Talk
  /\ \A g \in Games : <<Room, g>> \in Talk /\ <<g, Room>> \in Talk
                      /\ <<g, Match>> \notin Talk /\ <<Match, g>> \notin Talk
  /\ \A l \in Talk : (l[1] = Room /\ l[2] \in Games) \/ (l[2] = Room /\ l[1] \in Games)
<1>1. \A l \in Talk : \E g \in Games : l = <<Room, g>> \/ l = <<g, Room>>
  BY DEF Talk
<1>2. \A g \in Games : <<Room, g>> \in Talk /\ <<g, Room>> \in Talk
  BY DEF Talk
<1>3. Talk \in SUBSET Links /\ \A l \in Talk : (l[1] = Room /\ l[2] \in Games) \/ (l[2] = Room /\ l[1] \in Games)
  <2>1. \A g \in Games : <<Room, g>> \in Links /\ <<g, Room>> \in Links
    BY LinksAre
  <2>2. Talk \in SUBSET Links
    BY <1>1, <2>1
  <2>3. \A l \in Talk : (l[1] = Room /\ l[2] \in Games) \/ (l[2] = Room /\ l[1] \in Games)
    BY <1>1
  <2> QED BY <2>2, <2>3
<1>4. ASSUME NEW a, NEW b, <<a, b>> \in Talk
      PROVE  (a = Room /\ b \in Games) \/ (b = Room /\ a \in Games)
  <2>1. <<a, b>>[1] = a /\ <<a, b>>[2] = b
    OBVIOUS
  <2> DEFINE l == <<a, b>>
  <2> HIDE DEF l
  <2>2. (l[1] = Room /\ l[2] \in Games) \/ (l[2] = Room /\ l[1] \in Games)
    BY <1>3, <1>4 DEF l
  <2> QED BY <2>1, <2>2 DEF l
<1>5. NoLink \notin Talk
  BY <1>4, Services DEF NoLink
<1> QED BY <1>2, <1>3, <1>4, <1>5, Services

LEMMA ElsewhereSent ==
  ASSUME Queues, NEW in, in \in Links => net[in] # <<>>, in \notin Talk,
         NEW me, me # Room, NEW S, NEW outs \in Seq(S), Deliver(in, me, outs),
         \A x \in S : x.to = Room => me \notin Games
  PROVE  Elsewhere
<1> SUFFICES ASSUME NEW l \in Talk PROVE ToSet(net'[l]) = ToSet(net[l])
  BY DEF Elsewhere
<1>1. l \in Links /\ l # in
  BY TalkIs
<1>2. \A m \in ToSet(net'[l]) : m \in ToSet(net[l]) \/ (l[1] = me /\ m.to = l[2] /\ \E j \in DOMAIN outs : m = outs[j])
  BY <1>1, Sent1
<1>3. \A j \in DOMAIN outs : outs[j] \in S
  OBVIOUS
<1>4. \A m \in ToSet(net'[l]) : m \in ToSet(net[l])
  BY <1>2, <1>3, TalkIs
<1>5. \A i \in DOMAIN net[l] : net[l][i] \in ToSet(net'[l])
  BY <1>1, Delivered
<1>6. \A m \in ToSet(net[l]) : m \in ToSet(net'[l])
  BY <1>5 DEF ToSet
<1> QED BY <1>4, <1>6

LEMMA MatchSent ==
  ASSUME Queues, Onces, NEW in, in \in Links => net[in] # <<>>, in \notin Talk,
         NEW S, NEW outs \in Seq(S), Deliver(in, Match, outs), \A x \in S : x.fn # "apply_room"
  PROVE  NetQuiet /\ Elsewhere
BY QuietSent, ElsewhereSent, Services

LEMMA MatchSentNone ==
  ASSUME Queues, Onces, NEW in, in \in Links => net[in] # <<>>, in \notin Talk, Deliver(in, Match, <<>>)
  PROVE  NetQuiet /\ Elsewhere
<1> DEFINE outs == <<>>
<1>1. outs \in Seq({}) /\ Deliver(in, Match, outs)
  OBVIOUS
<1> HIDE DEF outs
<1>2. \A x \in {} : x.fn # "apply_room"
  OBVIOUS
<1> QED BY <1>1, <1>2, MatchSent

LEMMA StagesUse ==
  ASSUME TypesInv, StageInv
  PROVE  Queues /\ Carried /\ Onces /\ MatchTypes /\ RoomTypes /\ GameTypes
BY DEF TypesInv, StageInv

LEMMA StageKeptThere ==
  ASSUME StageInv, NetQuiet, UNCHANGED <<drawn, roomVars>>, cells' \subseteq cells, waiting' \subseteq waiting
  PROVE  StageInv'
BY StageKept DEF roomVars

LEMMA JoinMatchStages ==
  ASSUME TypesInv, StageInv, NEW g \in Games, NEW s \in Sessions, NEW cb,
         Takes(<<g, Match>>, "join_match"), s = NextOn(<<g, Match>>).args[1],
         JoinMatch(g, s, cb), UNCHANGED <<drawn, roomVars>>
  PROVE  StageInv' /\ Elsewhere
<1> DEFINE l == <<g, Match>>
           x == Answer(g, cb, mroles[RoleOf(s)] = None)
<1>1. Deliver(l, Match, <<x>>) /\ cells' \subseteq cells \cup {s} /\ UNCHANGED waiting
  BY DEF JoinMatch
<1>2. x.fn = "rsp" /\ x.to = g
  BY DEF Answer
<1>3. l \in Asks /\ l \in Links /\ net[l] # <<>> /\ l \notin Talk
  BY LinksAre, TalkIs DEF Takes, Asks
<1>4. Takes(l, "join_match") /\ s = NextOn(l).args[1]
  OBVIOUS
<1> HIDE DEF l, x
<1>5. NetQuiet /\ Elsewhere
  <2>1. <<x>> \in Seq({x})
    OBVIOUS
  <2> QED BY <1>1, <1>2, <1>3, <2>1, StagesUse, MatchSent
<1>6. Joining(s) /\ ~Joining(s)'
  <2>1. <<x>> \in Seq({x})
    OBVIOUS
  <2>2. Queues /\ Asks \in SUBSET Links /\ Once(Asks, "join_match") /\ x.fn # "join_match"
    BY <1>2, AsksAre, StagesUse DEF Onces
  <2>3. ~Calls(Asks, "join_match", s)'
    BY <1>1, <1>3, <1>4, <2>2, OnceKeptOne DEF StillOnce
  <2>4. NextOn(l) \in ToSet(net[l]) /\ NextOn(l).fn = "join_match"
    BY <1>3, <1>4, HeadCarries, StagesUse
  <2>5. Calls(Asks, "join_match", s)
    BY <1>3, <1>4, <2>4 DEF Calls
  <2> QED BY <1>4, <2>3, <2>5, AsksAre, JoiningIs
<1>7. \A u : InQueue(u)' => InQueue(u)
  BY <1>1, <1>5, <1>6 DEF InQueue, NetQuiet
<1>8. Apart'
  BY <1>1, <1>5, <1>6 DEF Apart, StageInv, NetQuiet
<1>9. UNCHANGED <<rooms, rcalls>>
  BY DEF roomVars
<1>10. Placed'
  BY <1>1, <1>5, <1>7, <1>9 DEF Placed, StageInv, NetQuiet, Roomed, FightAsked
<1>11. Stages'
  BY <1>1, <1>5, <1>9 DEF Stages, StageInv, NetQuiet, FightAsked
<1>12. Mates'
  BY <1>5, <1>9 DEF Mates, StageInv, NetQuiet, OneEach
<1> QED BY <1>5, <1>8, <1>10, <1>11, <1>12 DEF StageInv, NetQuiet

LEMMA QuitMatchStages ==
  ASSUME TypesInv, StageInv, NEW g \in Games, NEW r, net[<<g, Match>>] # <<>>, QuitMatch(g, r),
         UNCHANGED <<drawn, roomVars>>
  PROVE  StageInv' /\ Elsewhere
<1>1. Deliver(<<g, Match>>, Match, <<>>) /\ cells' \subseteq cells /\ UNCHANGED waiting
  BY DEF QuitMatch
<1>2. NetQuiet /\ Elsewhere
  BY <1>1, StagesUse, TalkIs, MatchSentNone
<1> QED BY <1>1, <1>2, StageKeptThere

\* Cells that become rooms were in none.
LEMMA UpdateStages ==
  ASSUME TypesInv, MatchInv, StageInv, UpdateLogic, UNCHANGED <<drawn, roomVars>>
  PROVE  StageInv' /\ Elsewhere
<1>1. PICK pairs \in SUBSET kSubset(2, cells) :
        /\ cells' = cells \ UNION pairs
        /\ waiting' = waiting \cup pairs
        /\ \E order \in SetToSeqs(Asked(pairs)) :
             Deliver(NoLink, Match, [i \in DOMAIN order |-> Ask(order[i])])
  BY DEF UpdateLogic
<1>2. PICK order \in SetToSeqs(Asked(pairs)) :
        Deliver(NoLink, Match, [i \in DOMAIN order |-> Ask(order[i])])
  BY <1>1
<1>3. NetQuiet /\ Elsewhere
  <2> DEFINE outs == [i \in DOMAIN order |-> Ask(order[i])]
             T == {Ask(a) : a \in Asked(pairs)}
  <2>1. IsFiniteSet(Asked(pairs))
    BY AskedFinite
  <2>2. outs \in Seq(T)
    <3>1. \A i \in DOMAIN order : outs[i] \in T
      BY <2>1, OrderCovers
    <3>2. DOMAIN outs = DOMAIN order /\ outs = [i \in DOMAIN order |-> outs[i]]
      OBVIOUS
    <3> HIDE DEF outs, T
    <3> QED BY <2>1, <3>1, <3>2, SentEach
  <2>3. \A x \in T : x.fn # "apply_room"
    BY DEF Ask, Call
  <2>4. Deliver(NoLink, Match, outs)
    BY <1>2
  <2> HIDE DEF outs, T
  <2> QED BY <2>2, <2>3, <2>4, MatchSent, StagesUse, NoLinkIsNone, TalkIs
<1>4. \A u : InQueue(u)' => InQueue(u)
  BY <1>1, <1>3 DEF InQueue, NetQuiet
<1>5. UNCHANGED <<rooms, rcalls>>
  BY DEF roomVars
<1>6. ASSUME NEW k \in pairs
      PROVE  /\ k \in Rooms /\ ~Applied(k) /\ ~FightAsked(k) /\ k \notin DOMAIN rooms
             /\ \A s \in k : s \in Sessions /\ s[2] <= drawn /\ s \in cells
  <2>1. k \subseteq cells /\ Cardinality(k) = 2
    BY DEF kSubset
  <2>2. k \in Rooms
    BY PairsAreRooms, StagesUse DEF MatchInv, Shape, MatchTypes, TypesInv
  <2>3. \A s \in k : s \in Sessions /\ s \in cells /\ InQueue(s)
    BY <2>1, StagesUse DEF MatchTypes, InQueue
  <2>4. \A s \in k : s[2] <= drawn
    BY <2>3 DEF TypesInv, Numbered
  <2>5. PICK s : s \in k
    BY <2>1, FS_EmptySet
  <2>6. ~Roomed(k)
    BY <2>2, <2>3, <2>5 DEF StageInv, Placed
  <2> QED BY <2>2, <2>3, <2>4, <2>6 DEF Roomed
<1>7. Apart'
  BY <1>1, <1>3 DEF Apart, StageInv, NetQuiet
<1>8. Placed'
  <2> SUFFICES ASSUME NEW k \in Rooms, Roomed(k)', NEW s \in k
               PROVE  s[2] <= drawn' /\ ~InQueue(s)'
    BY DEF Placed
  <2>1. CASE k \in pairs
    <3>1. s[2] <= drawn /\ s \in cells
      BY <1>6, <2>1
    <3>2. ~Joining(s)' /\ s \notin cells'
      BY <1>1, <1>3, <2>1, <3>1 DEF StageInv, Apart, NetQuiet
    <3> QED BY <3>1, <3>2 DEF InQueue
  <2>2. CASE k \notin pairs
    <3>1. Roomed(k)
      BY <1>1, <1>3, <1>5, <2>2 DEF Roomed, FightAsked, NetQuiet
    <3> QED BY <1>4, <3>1 DEF StageInv, Placed
  <2> QED BY <2>1, <2>2
<1>9. Stages'
  BY <1>1, <1>3, <1>5, <1>6 DEF Stages, StageInv, NetQuiet, FightAsked
<1>10. Mates'
  BY <1>3, <1>5 DEF Mates, StageInv, NetQuiet, OneEach
<1> QED BY <1>3, <1>7, <1>8, <1>9, <1>10 DEF StageInv, NetQuiet

\* A room whose roles have confirmed is taken to the room service, once.
LEMMA ApplyRoomStages ==
  ASSUME TypesInv, MatchInv, StageInv, NEW in, in \in Links => net[in] # <<>>, in \notin Talk,
         in # <<Match, Room>>, NEW cb, NEW k \in waiting, ApplyRoom(in, cb, k),
         waiting' = waiting \ {k}, UNCHANGED <<cells, drawn, roomVars>>
  PROVE  StageInv' /\ Elsewhere
<1> DEFINE M == {mroles[r].session : r \in RolesOf(k)}
           x == Call(Room, "apply_room", <<k, M>>, ApplyCb(k))
<1>1. CASE Deliver(in, Match, <<>>)
  BY <1>1, MatchSentNone, StagesUse, StageKeptThere
<1>2. CASE Known(k) = RolesOf(k) /\ Deliver(in, Match, <<x>>)
  <2>1. x.fn = "apply_room" /\ x.args[1] = k /\ x.args[2] = M /\ x.to = Room
    BY DEF Call
  <2>2. OneEach(M)
    <3>1. \A r \in RolesOf(k) : RoleOf(mroles[r].session) = r
      <4> TAKE r \in RolesOf(k)
      <4>1. r \in Roles
        BY StagesUse, RolesOfSessions DEF MatchTypes
      <4>2. mroles[r] # None
        BY <1>2 DEF Known
      <4> QED BY <4>1, <4>2 DEF MatchInv, Held
    <3> QED BY <3>1 DEF OneEach
  <2>3. k \in Rooms /\ ~Applied(k) /\ ~FightAsked(k) /\ k \notin DOMAIN rooms
    BY StagesUse DEF MatchTypes, StageInv, Stages
  <2> HIDE DEF x, M
  <2>4. <<x>> \in Seq({x}) /\ Queues /\ Onces
    BY StagesUse
  <2>5. Elsewhere
    BY <1>2, <2>4, ElsewhereSent, Services
  <2>6. Once(Asks, "join_match")' /\ \A s : Joining(s)' => Joining(s)
    <3>1. Asks \in SUBSET Links /\ Once(Asks, "join_match") /\ x.fn # "join_match"
      BY <2>1, <2>4, AsksAre DEF Onces
    <3>2. \A s : Calls(Asks, "join_match", s)' => Calls(Asks, "join_match", s)
      BY <1>2, <2>4, <3>1, OnceKeptOne DEF StillOnce
    <3>3. Once(Asks, "join_match")'
      BY <1>2, <2>4, <3>1, OnceKeptOne DEF StillOnce
    <3> QED BY <3>2, <3>3, AsksAre, JoiningIs
  <2>7. Once(Applies, "apply_room")'
    <3>1. /\ Applies \in SUBSET Links /\ Once(Applies, "apply_room") /\ in \notin Applies
          /\ \A l, j \in Applies : l[1] = j[1] => l = j
      BY <2>4, AsksAre DEF Onces
    <3>2. ~Calls(Applies, "apply_room", x.args[1])
      BY <2>1, <2>3 DEF Applied
    <3> QED BY <1>2, <2>4, <3>1, <3>2, OnceAdded
  <2>8. \A m \in ToSet(net'[<<Match, Room>>]) : m \in ToSet(net[<<Match, Room>>]) \/ m = x
    BY <1>2, <2>4, SentOne, LinksAre
  <2>9. \A j : Applied(j)' => Applied(j) \/ j = k
    BY <2>1, <2>8 DEF Applied, Calls, Applies
  <2>10. \A s : InQueue(s)' => InQueue(s)
    BY <2>6 DEF InQueue
  <2>11. UNCHANGED <<rooms, rcalls, cells, drawn>>
    BY DEF roomVars
  <2>12. Apart'
    BY <2>6, <2>11 DEF StageInv, Apart
  <2>13. Placed'
    BY <2>9, <2>10, <2>11 DEF StageInv, Placed, Roomed, FightAsked
  <2>14. Stages'
    BY <2>3, <2>9, <2>11 DEF StageInv, Stages, FightAsked
  <2>15. Mates'
    BY <2>1, <2>2, <2>8, <2>11 DEF StageInv, Mates, OneEach
  <2> QED BY <2>5, <2>6, <2>7, <2>12, <2>13, <2>14, <2>15 DEF StageInv, Onces
<1> QED BY <1>1, <1>2 DEF ApplyRoom, Terminate

LEMMA ConfirmStages ==
  ASSUME TypesInv, MatchInv, StageInv, NEW in, in \in Links => net[in] # <<>>, in \notin Talk,
         in # <<Match, Room>>, NEW k, NEW s, NEW accept, CbNotifyConfirmJoinMatch(in, k, s, accept),
         UNCHANGED <<drawn, roomVars>>
  PROVE  StageInv' /\ Elsewhere
<1> DEFINE cb == ConfirmCb(k, s)
           j  == mroles[RoleOf(s)].room
<1>1. UNCHANGED cells
  BY DEF CbNotifyConfirmJoinMatch
<1>2. ASSUME Deliver(in, Match, <<>>), waiting' \subseteq waiting
      PROVE  StageInv' /\ Elsewhere
  BY <1>1, <1>2, MatchSentNone, StagesUse, StageKeptThere
<1>3. ASSUME j \in waiting, CountAnswer(in, cb, j, RoleOf(s), accept)
      PROVE  StageInv' /\ Elsewhere
  <2>1. CASE ApplyRoom(in, cb, j) /\ waiting' = waiting \ {j}
    BY <1>1, <1>3, <2>1, ApplyRoomStages
  <2>2. CASE Deliver(in, Match, <<>>) /\ UNCHANGED waiting
    BY <1>2, <2>2
  <2> QED BY <1>3, <2>1, <2>2 DEF CountAnswer
<1>4. ASSUME TimeOver(in, cb, j)
      PROVE  StageInv' /\ Elsewhere
  BY <1>2, <1>4 DEF TimeOver, Terminate
<1> QED BY <1>2, <1>3, <1>4 DEF CbNotifyConfirmJoinMatch

LEMMA ApplyAnswerStages ==
  ASSUME TypesInv, MatchInv, StageInv, NEW in, in \in Links => net[in] # <<>>, in \notin Talk,
         NEW k, NEW ok, CbApplyRoom(in, k, ok), UNCHANGED <<drawn, roomVars>>
  PROVE  StageInv' /\ Elsewhere
<1>1. UNCHANGED <<cells, waiting>> /\ ApplyCb(k) \in mcalls
  BY DEF CbApplyRoom
<1>2. k \in Rooms
  <2>1. ApplyCb(k)[2] = k
    BY DEF ApplyCb
  <2> QED BY <1>1, <2>1, StagesUse DEF MatchTypes
<1>3. PICK order \in SetToSeqs(Known(k)) :
        Deliver(in, Match, IF ok THEN [i \in DOMAIN order |-> Succ(k, order[i])] ELSE <<>>)
  BY DEF CbApplyRoom, Succ
<1>4. NetQuiet /\ Elsewhere
  <2>1. CASE ~ok
    <3>1. Deliver(in, Match, <<>>)
      BY <1>3, <2>1
    <3> QED BY <3>1, MatchSentNone, StagesUse
  <2>2. CASE ok
    <3> DEFINE outs == [i \in DOMAIN order |-> Succ(k, order[i])]
               T == {Succ(k, r) : r \in Known(k)}
    <3>1. IsFiniteSet(Known(k))
      <4>1. Known(k) \subseteq Roles
        BY <1>2, RolesOfSessions DEF Known
      <4> QED BY <4>1, FS_Subset, RolesAssumption
    <3>2. outs \in Seq(T)
      <4>1. \A i \in DOMAIN order : outs[i] \in T
        BY <3>1, OrderCovers
      <4>2. DOMAIN outs = DOMAIN order /\ outs = [i \in DOMAIN order |-> outs[i]]
        OBVIOUS
      <4> HIDE DEF outs, T
      <4> QED BY <3>1, <4>1, <4>2, SentEach
    <3>3. \A x \in T : x.fn # "apply_room"
      BY DEF Succ, Call
    <3>4. Deliver(in, Match, outs)
      BY <1>3, <2>2
    <3> HIDE DEF outs, T
    <3> QED BY <3>2, <3>3, <3>4, MatchSent, StagesUse
  <2> QED BY <2>1, <2>2
<1> QED BY <1>1, <1>4, StageKeptThere

LEMMA MatchHandlesStages ==
  ASSUME TypesInv, MatchInv, StageInv, MatchHandles
  PROVE  StageInv' /\ Elsewhere
<1>1. UNCHANGED <<drawn, roomVars>>
  BY DEF MatchHandles, gameVars
<1>2. ASSUME NEW g \in Games, Takes(<<g, Match>>, "join_match"), NEW s, s = NextOn(<<g, Match>>).args[1],
             NEW cb, JoinMatch(g, s, cb)
      PROVE  StageInv' /\ Elsewhere
  <2>1. s \in Sessions
    BY <1>2, HeadCarries, LinksAre, StagesUse DEF Carries
  <2> QED BY <1>1, <1>2, <2>1, JoinMatchStages
<1>3. ASSUME NEW g \in Games, Takes(<<g, Match>>, "quit_match"), NEW r, QuitMatch(g, r)
      PROVE  StageInv' /\ Elsewhere
  BY <1>1, <1>3, QuitMatchStages DEF Takes
<1>4. ASSUME NEW g \in Games, net[<<g, Match>>] # <<>>, NEW k, NEW s, NEW accept,
             CbNotifyConfirmJoinMatch(<<g, Match>>, k, s, accept)
      PROVE  StageInv' /\ Elsewhere
  <2>1. <<g, Match>> # <<Match, Room>>
    BY Services
  <2> QED BY <1>1, <1>4, <2>1, TalkIs, ConfirmStages
<1>5. ASSUME net[<<Room, Match>>] # <<>>, NEW k, NEW ok, CbApplyRoom(<<Room, Match>>, k, ok)
      PROVE  StageInv' /\ Elsewhere
  BY <1>1, <1>5, TalkIs, ApplyAnswerStages
<1>6. ASSUME NEW l, l \notin Talk, l[2] = Match, Ignores(l, mcalls), UNCHANGED matchVars
      PROVE  StageInv' /\ Elsewhere
  <2>1. net[l] # <<>> /\ Deliver(l, Match, <<>>)
    BY <1>6 DEF Ignores, Takes
  <2>2. NetQuiet /\ Elsewhere
    BY <1>6, <2>1, MatchSentNone, StagesUse
  <2> QED BY <1>1, <1>6, <2>2, StageKeptThere DEF matchVars
<1> QED BY <1>2, <1>3, <1>4, <1>5, <1>6, TalkIs DEF MatchHandles, Takes

-----------------------------------------------------------------------------
(* The room service's part in it. *)

LEMMA RoomSent ==
  ASSUME Queues, Onces, NEW in, in \in Links => net[in] # <<>>,
         NEW S, NEW outs \in Seq(S), Deliver(in, Room, outs)
  PROVE  NetQuiet
BY QuietSent, Services

\* A step of a room that there is.
LEMMA RoomKept ==
  ASSUME StageInv, NetQuiet, UNCHANGED <<cells, waiting, drawn>>,
         \A cb \in rcalls' : cb \in rcalls \/ cb[1] # "apply_fight",
         DOMAIN rooms' \subseteq DOMAIN rooms,
         \A k \in DOMAIN rooms' : rooms'[k].members = rooms[k].members
  PROVE  StageInv'
BY StageKept

LEMMA OnApplyStages ==
  ASSUME TypesInv, StageInv, Takes(<<Match, Room>>, "apply_room"), NEW k, NEW members,
         k = NextOn(<<Match, Room>>).args[1], members = NextOn(<<Match, Room>>).args[2],
         OnApplyRoom(k, members), UNCHANGED <<cells, waiting, drawn>>
  PROVE  StageInv'
<1> DEFINE l == <<Match, Room>>
           cb == FightCb(k, members)
           x == Call(Fight, "apply_fight", <<k>>, cb)
           y == Answer(Match, ApplyCb(k), FALSE)
<1>1. UNCHANGED rooms /\ rcalls' \subseteq rcalls \cup {cb} /\ (Deliver(l, Room, <<x>>) \/ Deliver(l, Room, <<y>>))
  BY DEF OnApplyRoom
<1>2. x.fn # "apply_room" /\ y.fn # "apply_room"
  BY DEF Call, Answer
<1>3. cb[1] = "apply_fight" /\ cb[2] = k /\ cb[3] = members
  BY DEF FightCb
<1>4. l \in Links /\ l \in Applies /\ net[l] # <<>>
  BY LinksAre DEF Takes, Applies
<1>5. Takes(l, "apply_room") /\ k = NextOn(l).args[1] /\ members = NextOn(l).args[2]
  OBVIOUS
<1>6. NextOn(l) \in ToSet(net[l]) /\ NextOn(l).fn = "apply_room"
  BY <1>4, <1>5, HeadCarries, StagesUse
<1>7. Applied(k) /\ OneEach(members)
  BY <1>4, <1>5, <1>6 DEF Applied, Calls, StageInv, Mates
<1> HIDE DEF x, y, cb
<1>8. PICK z \in {x, y} : Deliver(l, Room, <<z>>)
  BY <1>1
<1>9. <<z>> \in Seq({z})
  OBVIOUS
<1>10. NetQuiet
  BY <1>4, <1>8, <1>9, StagesUse, RoomSent
<1>11. ~Applied(k)'
  <2>1. Queues /\ Applies \in SUBSET Links /\ Once(Applies, "apply_room") /\ z.fn # "apply_room"
    BY <1>2, AsksAre, StagesUse DEF Onces
  <2> HIDE DEF l
  <2>2. ~Calls(Applies, "apply_room", k)'
    BY <1>4, <1>5, <1>8, <2>1, OnceKeptOne DEF StillOnce
  <2>3. Applied(k)' <=> Calls(Applies, "apply_room", k)'
    BY DEF Applied
  <2> QED BY <1>5, <2>2, <2>3
<1>12. \A j : FightAsked(j)' => FightAsked(j) \/ j = k
  BY <1>1, <1>3 DEF FightAsked
<1>13. ~FightAsked(k) /\ k \notin DOMAIN rooms /\ k \notin waiting /\ k \in Rooms
  <2>1. k \in Rooms
    BY <1>4, <1>5, <1>6, HeadCarries, StagesUse DEF Carries
  <2> QED BY <1>7, <2>1 DEF StageInv, Stages
<1>14. Apart'
  BY <1>10 DEF StageInv, Apart, NetQuiet
<1>15. Placed'
  <2>1. \A j : Roomed(j)' => Roomed(j)
    BY <1>1, <1>7, <1>10, <1>12 DEF Roomed, NetQuiet
  <2>2. \A s : InQueue(s)' => InQueue(s)
    BY <1>10 DEF InQueue, NetQuiet
  <2> QED BY <2>1, <2>2 DEF StageInv, Placed
<1>16. Stages'
  <2>1. ASSUME NEW a \in rcalls', NEW b \in rcalls', a[1] = "apply_fight", b[1] = "apply_fight", a[2] = b[2]
        PROVE  a = b
    <3>1. CASE a \in rcalls /\ b \in rcalls
      BY <2>1, <3>1 DEF StageInv, Stages
    <3>2. \A c \in rcalls : c[1] = "apply_fight" => c[2] # k
      BY <1>13 DEF FightAsked
    <3> QED BY <1>1, <1>3, <2>1, <3>1, <3>2
  <2>2. \A j \in waiting' : ~Applied(j)' /\ ~FightAsked(j)' /\ j \notin DOMAIN rooms'
    BY <1>1, <1>10, <1>12, <1>13 DEF StageInv, Stages, NetQuiet
  <2>3. \A j : Applied(j)' => ~FightAsked(j)' /\ j \notin DOMAIN rooms'
    BY <1>1, <1>10, <1>11, <1>12 DEF StageInv, Stages, NetQuiet
  <2>4. \A j : FightAsked(j)' => j \notin DOMAIN rooms'
    BY <1>1, <1>12, <1>13 DEF StageInv, Stages
  <2> QED BY <2>1, <2>2, <2>3, <2>4 DEF Stages
<1>17. Mates'
  <2>1. \A m \in ToSet(net'[<<Match, Room>>]) : m.fn = "apply_room" => OneEach(m.args[2])
    BY <1>10 DEF NetQuiet, StageInv, Mates
  <2>2. \A c \in rcalls' : c[1] = "apply_fight" => OneEach(c[3])
    BY <1>1, <1>3, <1>7 DEF StageInv, Mates
  <2> QED BY <1>1, <2>1, <2>2 DEF StageInv, Mates, OneEach
<1> QED BY <1>10, <1>14, <1>15, <1>16, <1>17 DEF StageInv, NetQuiet

LEMMA ApplyFightStages ==
  ASSUME TypesInv, StageInv, NEW in, in \in Links => net[in] # <<>>, NEW k, NEW members, NEW ok,
         CbApplyFight(in, k, members, ok), UNCHANGED <<cells, waiting, drawn>>
  PROVE  StageInv' /\ k \notin DOMAIN rooms
<1> DEFINE cb == FightCb(k, members)
           room == [state |-> "wait_roles_ready", members |-> members, bound |-> {}]
           y == Answer(Match, ApplyCb(k), ok)
<1>1. /\ cb \in rcalls /\ rcalls' = rcalls \ {cb}
      /\ rooms' = IF ok THEN With(k, room) ELSE rooms
      /\ Deliver(in, Room, <<y>>)
  BY DEF CbApplyFight
<1>2. cb[1] = "apply_fight" /\ cb[2] = k /\ cb[3] = members
  BY DEF FightCb
<1>3. room.members = members
  OBVIOUS
<1> HIDE DEF cb, room, y
<1>4. <<y>> \in Seq({y})
  OBVIOUS
<1>5. NetQuiet
  BY <1>1, <1>4, StagesUse, RoomSent
<1>6. FightAsked(k) /\ OneEach(members)
  BY <1>1, <1>2 DEF FightAsked, StageInv, Mates
<1>7. k \notin DOMAIN rooms /\ ~Applied(k) /\ k \notin waiting
  BY <1>6 DEF StageInv, Stages
<1>8. \A j : FightAsked(j)' => FightAsked(j) /\ j # k
  BY <1>1, <1>2 DEF FightAsked, StageInv, Stages
<1>9. CASE ok
  <2>1. /\ DOMAIN rooms' = DOMAIN rooms \cup {k} /\ rooms'[k] = room
        /\ \A j \in DOMAIN rooms : j # k => rooms'[j] = rooms[j]
    BY <1>1, <1>9, RoomAdded
  <2>2. Apart'
    BY <1>5 DEF StageInv, Apart, NetQuiet
  <2>3. Placed'
    <3>1. \A j : Roomed(j)' => Roomed(j)
      BY <1>5, <1>6, <1>8, <2>1 DEF Roomed, NetQuiet
    <3>2. \A s : InQueue(s)' => InQueue(s)
      BY <1>5 DEF InQueue, NetQuiet
    <3> QED BY <3>1, <3>2 DEF StageInv, Placed
  <2>4. Stages'
    <3>1. \A a, b \in rcalls' : a[1] = "apply_fight" /\ b[1] = "apply_fight" /\ a[2] = b[2] => a = b
      BY <1>1 DEF StageInv, Stages
    <3>2. \A j \in waiting' : ~Applied(j)' /\ ~FightAsked(j)' /\ j \notin DOMAIN rooms'
      BY <1>5, <1>7, <1>8, <2>1 DEF StageInv, Stages, NetQuiet
    <3>3. \A j : Applied(j)' => ~FightAsked(j)' /\ j \notin DOMAIN rooms'
      BY <1>5, <1>7, <1>8, <2>1 DEF StageInv, Stages, NetQuiet
    <3>4. \A j : FightAsked(j)' => j \notin DOMAIN rooms'
      BY <1>8, <2>1 DEF StageInv, Stages
    <3> QED BY <3>1, <3>2, <3>3, <3>4 DEF Stages
  <2>5. Mates'
    <3>1. \A m \in ToSet(net'[<<Match, Room>>]) : m.fn = "apply_room" => OneEach(m.args[2])
      BY <1>5 DEF NetQuiet, StageInv, Mates
    <3>2. \A c \in rcalls' : c[1] = "apply_fight" => OneEach(c[3])
      BY <1>1 DEF StageInv, Mates
    <3>3. \A j \in DOMAIN rooms' : OneEach(rooms'[j].members)
      BY <1>3, <1>6, <2>1 DEF StageInv, Mates
    <3> QED BY <3>1, <3>2, <3>3 DEF Mates, OneEach
  <2> QED BY <1>5, <1>7, <2>2, <2>3, <2>4, <2>5 DEF StageInv, NetQuiet
<1>10. CASE ~ok
  <2>1. rooms' = rooms /\ rcalls' \subseteq rcalls
    BY <1>1, <1>10
  <2> QED BY <1>5, <1>7, <2>1, RoomKept
<1> QED BY <1>9, <1>10

LEMMA BindRoomStages ==
  ASSUME TypesInv, StageInv, NEW g \in Games, net[<<g, Room>>] # <<>>, NEW k, NEW s, NEW cb,
         OnBindRoom(g, k, s, cb), UNCHANGED <<cells, waiting, drawn>>
  PROVE  StageInv'
<1>1. CASE k \in DOMAIN rooms /\ s \in rooms[k].members
  <2> DEFINE bound == {b \in rooms[k].bound : b[1] # RoleOf(s)} \cup {<<RoleOf(s), g>>}
             ready == rooms[k].state = "wait_roles_ready"
                        /\ \A m \in rooms[k].members : \E b \in bound : b[1] = RoleOf(m)
             x == BindRsp(g, cb, s, TRUE, rooms[k].state = "fighting")
             y == Call(Fight, "start_fight", <<k>>, StartCb(k))
             outs == <<x>> \o IF ready THEN <<y>> ELSE <<>>
  <2>1. /\ rooms' = [rooms EXCEPT ![k].bound = bound, ![k].state = IF ready THEN "roles_ready" ELSE @]
        /\ rcalls' = IF ready THEN rcalls \cup {StartCb(k)} ELSE rcalls
        /\ Deliver(<<g, Room>>, Room, outs)
    BY <1>1 DEF OnBindRoom
  <2>2. outs \in Seq({x, y})
    <3> HIDE DEF x, y, ready
    <3>1. <<x>> \in Seq({x, y}) /\ <<y>> \in Seq({x, y})
      OBVIOUS
    <3> QED BY <3>1, SentTwo
  <2>3. rooms[k] \in RoomType
    BY <1>1, RoomTypesAre, StagesUse DEF RoomOK
  <2> HIDE DEF outs, x, y, bound, ready
  <2>4. NetQuiet
    BY <2>1, <2>2, StagesUse, RoomSent
  <2>5. DOMAIN rooms' = DOMAIN rooms /\ \A j \in DOMAIN rooms : rooms'[j].members = rooms[j].members
    BY <1>1, <2>1, <2>3 DEF RoomType
  <2>6. StartCb(k)[1] # "apply_fight"
    BY DEF StartCb
  <2>7. \A c \in rcalls' : c \in rcalls \/ c[1] # "apply_fight"
    BY <2>1, <2>6
  <2> QED BY <2>4, <2>5, <2>7, RoomKept
<1>2. CASE ~(k \in DOMAIN rooms /\ s \in rooms[k].members)
  <2> DEFINE x == BindRsp(g, cb, s, FALSE, FALSE)
  <2>1. Deliver(<<g, Room>>, Room, <<x>>) /\ UNCHANGED <<rooms, rcalls>>
    BY <1>2 DEF OnBindRoom, roomVars
  <2> HIDE DEF x
  <2>2. <<x>> \in Seq({x})
    OBVIOUS
  <2> QED BY <2>1, <2>2, StagesUse, RoomSent, RoomKept
<1> QED BY <1>1, <1>2

LEMMA StartStages ==
  ASSUME TypesInv, StageInv, NEW in, in \in Links => net[in] # <<>>, NEW k, NEW ok, CbStartFight(in, k, ok),
         UNCHANGED <<cells, waiting, drawn>>
  PROVE  StageInv'
<1>1. rcalls' \subseteq rcalls
  BY DEF CbStartFight
<1>2. ASSUME k \in DOMAIN rooms, NEW fn, NEW outs \in Notices(k, fn), Deliver(in, Room, outs)
      PROVE  NetQuiet
  BY <1>2, NoticesAre, StagesUse, RoomSent
<1>3. ASSUME Deliver(in, Room, <<>>)
      PROVE  NetQuiet
  <2>1. <<>> \in Seq({})
    OBVIOUS
  <2> QED BY <1>3, <2>1, StagesUse, RoomSent
<1>4. CASE /\ k \in DOMAIN rooms /\ rooms' = [rooms EXCEPT ![k].state = "fighting"]
           /\ \E outs \in Notices(k, "notify_fight_start") : Deliver(in, Room, outs)
  <2>1. rooms[k] \in RoomType
    BY <1>4, RoomTypesAre, StagesUse DEF RoomOK
  <2>2. DOMAIN rooms' = DOMAIN rooms /\ \A j \in DOMAIN rooms : rooms'[j].members = rooms[j].members
    BY <1>4, <2>1 DEF RoomType
  <2> QED BY <1>1, <1>2, <1>4, <2>2, RoomKept
<1>5. CASE /\ k \in DOMAIN rooms /\ rooms' = Without(k)
           /\ \E outs \in Notices(k, "notify_terminate_room") : Deliver(in, Room, outs)
  <2>1. DOMAIN rooms' \subseteq DOMAIN rooms /\ \A j \in DOMAIN rooms' : rooms'[j] = rooms[j]
    BY <1>5 DEF Without
  <2> QED BY <1>1, <1>2, <1>5, <2>1, RoomKept
<1>6. CASE Deliver(in, Room, <<>>) /\ UNCHANGED rooms
  BY <1>1, <1>3, <1>6, RoomKept
<1> QED BY <1>4, <1>5, <1>6 DEF CbStartFight

LEMMA OverStages ==
  ASSUME TypesInv, StageInv, net[<<Fight, Room>>] # <<>>, NEW k, NotifyFightBattleOver(k),
         UNCHANGED <<cells, waiting, drawn>>
  PROVE  StageInv'
<1>1. UNCHANGED rcalls
  BY DEF NotifyFightBattleOver
<1>2. CASE /\ k \in DOMAIN rooms /\ rooms' = Without(k)
           /\ \E outs \in Notices(k, "notify_end_room") : Deliver(<<Fight, Room>>, Room, outs)
  <2>1. DOMAIN rooms' \subseteq DOMAIN rooms /\ \A j \in DOMAIN rooms' : rooms'[j] = rooms[j]
    BY <1>2 DEF Without
  <2>2. NetQuiet
    BY <1>2, NoticesAre, StagesUse, RoomSent
  <2> QED BY <1>1, <2>1, <2>2, RoomKept
<1>3. CASE Deliver(<<Fight, Room>>, Room, <<>>) /\ UNCHANGED rooms
  <2>1. <<>> \in Seq({})
    OBVIOUS
  <2> QED BY <1>1, <1>3, <2>1, StagesUse, RoomSent, RoomKept
<1> QED BY <1>2, <1>3 DEF NotifyFightBattleOver

LEMMA ExpiredStages ==
  ASSUME TypesInv, StageInv, NEW k, CheckRemoveWaitRoleReadyExpireRooms(k), UNCHANGED <<cells, waiting, drawn>>
  PROVE  StageInv'
<1>1. rooms' = Without(k) /\ UNCHANGED <<rcalls, net>>
  BY DEF CheckRemoveWaitRoleReadyExpireRooms
<1>2. DOMAIN rooms' \subseteq DOMAIN rooms /\ \A j \in DOMAIN rooms' : rooms'[j] = rooms[j]
  BY <1>1 DEF Without
<1> QED BY <1>1, <1>2, QuietSame, StagesUse, RoomKept

LEMMA RoomHandlesStages ==
  ASSUME TypesInv, StageInv, RoomHandles
  PROVE  StageInv'
<1>1. UNCHANGED <<cells, waiting, drawn>>
  BY DEF RoomHandles, gameVars, matchVars
<1> DEFINE a == <<Match, Room>>
           f == <<Fight, Room>>
<1>2. ASSUME Takes(a, "apply_room"), OnApplyRoom(NextOn(a).args[1], NextOn(a).args[2])
      PROVE  StageInv'
  BY <1>1, <1>2, OnApplyStages
<1>3. ASSUME NEW g \in Games, Takes(<<g, Room>>, "bind_room"), NEW k, NEW s, NEW cb, OnBindRoom(g, k, s, cb)
      PROVE  StageInv'
  BY <1>1, <1>3, BindRoomStages DEF Takes
<1>4. ASSUME NEW k, NEW members, NEW ok, Takes(f, "rsp"), CbApplyFight(f, k, members, ok)
      PROVE  StageInv'
  BY <1>1, <1>4, ApplyFightStages DEF Takes
<1>5. ASSUME NEW k, NEW ok, Takes(f, "rsp"), CbStartFight(f, k, ok)
      PROVE  StageInv'
  BY <1>1, <1>5, StartStages DEF Takes
<1>6. ASSUME Ignores(f, rcalls), UNCHANGED roomVars
      PROVE  StageInv'
  <2>1. net[f] # <<>> /\ Deliver(f, Room, <<>>) /\ <<>> \in Seq({}) /\ UNCHANGED <<rooms, rcalls>>
    BY <1>6 DEF Ignores, Takes, roomVars
  <2> QED BY <1>1, <2>1, StagesUse, RoomSent, RoomKept
<1>7. ASSUME NEW k, Takes(f, "notify_fight_battle_over"), NotifyFightBattleOver(k)
      PROVE  StageInv'
  BY <1>1, <1>7, OverStages DEF Takes
<1> HIDE DEF a, f
<1> QED BY <1>2, <1>3, <1>4, <1>5, <1>6, <1>7 DEF RoomHandles, a, f

-----------------------------------------------------------------------------
(* Whose sessions are whose, and what is asked and answered about them. *)

\* A session that was a role's, and is about no match any more.
Assigned(s) == s \in Sessions /\ s[2] <= drawn /\ \A p \in DOMAIN objs : objs[p].session # s

\* The session of a match is its game role's alone, the session of a room too.
SessionsOwned ==
  \A o \in DOMAIN objs :
    /\ objs[o].session # None =>
         /\ RoleOf(objs[o].session) = objs[o].role /\ objs[o].session[2] <= drawn
         /\ \A p \in DOMAIN objs :
              (objs[p].session = objs[o].session => p = o) /\ objs[p].room_session # objs[o].session
    /\ objs[o].room_session # None =>
         /\ RoleOf(objs[o].room_session) = objs[o].role /\ objs[o].room_session[2] <= drawn
         /\ \A p \in DOMAIN objs : objs[p].room_session = objs[o].room_session => p = o

RoomsNamed  == \A o \in DOMAIN objs : objs[o].room # "free" => objs[o].room_session # None
RolesInGame == \A r \in Roles : in_game[r] # 0 => objs[in_game[r]].role = r

\* A call to be bound to a room is of the game role whose session it names.
BindOK(g, m) ==
  /\ m.cb[2] \in DOMAIN objs /\ objs[m.cb[2]].game = g /\ Assigned(m.args[2])
  /\ \A p \in DOMAIN objs : objs[p].room_session = m.args[2] => p = m.cb[2] /\ objs[p].room_id = m.args[1]

RspOK(g, m) ==
  /\ m.cb[2] \in DOMAIN objs /\ objs[m.cb[2]].game = g /\ Assigned(m.args.session)
  /\ m.args.bound \in BOOLEAN

Talked ==
  \A g \in Games :
    /\ \A m \in ToSet(net[<<g, Room>>]) : m.fn = "bind_room" => BindOK(g, m)
    /\ \A m \in ToSet(net[<<Room, g>>]) : m.fn = "rsp" => RspOK(g, m)

GameInv == SessionsOwned /\ RoomsNamed /\ RolesInGame /\ Talked

\* A game role is in its room, or told that it is.
Entered(o) ==
  \/ objs[o].room = "in_room"
  \/ \E m \in ToSet(net[<<Room, objs[o].game>>]) :
       m.fn = "rsp" /\ m.args.bound = TRUE /\ m.args.session = objs[o].room_session

LivesIn(o, k, s) == k \in DOMAIN rooms /\ s \in rooms[k].members /\ <<objs[o].role, objs[o].game>> \in rooms[k].bound

Told(o, k, s) == \E m \in ToSet(net[<<Room, objs[o].game>>]) : OverNotice(m, k, s)

InLive(o) ==
  \/ LivesIn(o, objs[o].room_id, objs[o].room_session)
  \/ Told(o, objs[o].room_id, objs[o].room_session)
  \/ <<"room_mgr.lua:41", objs[o].room_id>> \in aborted

LiveInv == ~broken => \A r \in Roles : in_game[r] # 0 /\ Entered(in_game[r]) => InLive(in_game[r])

LEMMA LiveIsEnough ==
  ASSUME GameInv, LiveInv
  PROVE  InLiveRoom
<1> SUFFICES ASSUME NEW r \in Roles, in_game[r] # 0, objs[in_game[r]].room = "in_room", ~broken
             PROVE  LET o == in_game[r]
                        k == objs[o].room_id
                        s == objs[o].room_session
                        g == objs[o].game
                    IN
                      \/ k \in DOMAIN rooms /\ s \in rooms[k].members /\ <<r, g>> \in rooms[k].bound
                      \/ \E m \in ToSet(net[<<Room, g>>]) : OverNotice(m, k, s)
                      \/ <<"room_mgr.lua:41", k>> \in aborted
  BY DEF InLiveRoom
<1>1. InLive(in_game[r]) /\ objs[in_game[r]].role = r
  BY DEF LiveInv, Entered, GameInv, RolesInGame
<1> QED BY <1>1 DEF InLive, LivesIn, Told

-----------------------------------------------------------------------------
(* Game roles keep their names. *)

LEMMA ObjChanged ==
  ASSUME GameTypes, NEW o \in DOMAIN objs, NEW y, objs' = [objs EXCEPT ![o] = y]
  PROVE  DOMAIN objs' = DOMAIN objs /\ objs'[o] = y /\ \A p \in DOMAIN objs : p # o => objs'[p] = objs[p]
OBVIOUS

SameNames ==
  /\ DOMAIN objs' = DOMAIN objs
  /\ \A p \in DOMAIN objs :
       /\ objs'[p].role = objs[p].role /\ objs'[p].game = objs[p].game
       /\ objs'[p].session = objs[p].session
       /\ objs'[p].room_session = objs[p].room_session /\ objs'[p].room_id = objs[p].room_id

\* What has been assigned is assigned to the same.
NamesStay ==
  /\ DOMAIN objs \subseteq DOMAIN objs' /\ \A p \in DOMAIN objs : objs'[p].game = objs[p].game
  /\ \A s : Assigned(s) =>
       /\ s[2] <= drawn'
       /\ \A p \in DOMAIN objs' :
            /\ objs'[p].session # s
            /\ objs'[p].room_session = s =>
                 p \in DOMAIN objs /\ objs[p].room_session = s /\ objs'[p].room_id = objs[p].room_id

LEMMA AssignedStay ==
  ASSUME NamesStay
  PROVE  /\ \A s : Assigned(s) => Assigned(s)'
         /\ \A g, m : BindOK(g, m) => BindOK(g, m)'
         /\ \A g, m : RspOK(g, m) => RspOK(g, m)'
<1>1. \A s : Assigned(s) => Assigned(s)'
  BY DEF NamesStay, Assigned
<1>2. ASSUME NEW g, NEW m, BindOK(g, m) PROVE BindOK(g, m)'
  <2>1. Assigned(m.args[2]) /\ Assigned(m.args[2])'
    BY <1>1, <1>2 DEF BindOK
  <2>2. m.cb[2] \in DOMAIN objs' /\ objs'[m.cb[2]].game = g
    BY <1>2 DEF BindOK, NamesStay
  <2>3. \A p \in DOMAIN objs' : objs'[p].room_session = m.args[2] => p = m.cb[2] /\ objs'[p].room_id = m.args[1]
    BY <1>2, <2>1 DEF BindOK, NamesStay
  <2> QED BY <2>1, <2>2, <2>3 DEF BindOK
<1>3. ASSUME NEW g, NEW m, RspOK(g, m) PROVE RspOK(g, m)'
  BY <1>1, <1>3 DEF RspOK, NamesStay
<1> QED BY <1>1, <1>2, <1>3

LEMMA SameNamesStay ==
  ASSUME SameNames, UNCHANGED drawn
  PROVE  NamesStay
BY DEF SameNames, NamesStay, Assigned

LEMMA OwnedStay ==
  ASSUME SessionsOwned, SameNames, UNCHANGED drawn
  PROVE  SessionsOwned'
BY DEF SessionsOwned, SameNames

\* What is said on the links of roles and rooms.
Says(l, m) ==
  /\ m.fn = "bind_room" /\ l[2] = Room => BindOK(l[1], m)'
  /\ m.fn = "rsp" /\ l[1] = Room => RspOK(l[2], m)'

LEMMA TalkedStays ==
  ASSUME Talked, NamesStay, \A l \in Talk : \A m \in ToSet(net'[l]) : m \in ToSet(net[l]) \/ Says(l, m)
  PROVE  Talked'
<1> SUFFICES ASSUME NEW g \in Games
             PROVE  /\ \A m \in ToSet(net'[<<g, Room>>]) : m.fn = "bind_room" => BindOK(g, m)'
                    /\ \A m \in ToSet(net'[<<Room, g>>]) : m.fn = "rsp" => RspOK(g, m)'
  BY DEF Talked
<1>1. <<g, Room>> \in Talk /\ <<Room, g>> \in Talk
  BY TalkIs
<1>2. ASSUME NEW m \in ToSet(net'[<<g, Room>>]), m.fn = "bind_room" PROVE BindOK(g, m)'
  <2>1. m \in ToSet(net[<<g, Room>>]) => BindOK(g, m)
    BY <1>2 DEF Talked
  <2>2. Says(<<g, Room>>, m) => BindOK(g, m)'
    BY <1>2 DEF Says
  <2> QED BY <1>1, <1>2, <2>1, <2>2, AssignedStay
<1>3. ASSUME NEW m \in ToSet(net'[<<Room, g>>]), m.fn = "rsp" PROVE RspOK(g, m)'
  <2>1. m \in ToSet(net[<<Room, g>>]) => RspOK(g, m)
    BY <1>3 DEF Talked
  <2>2. Says(<<Room, g>>, m) => RspOK(g, m)'
    BY <1>3 DEF Says
  <2> QED BY <1>1, <1>3, <2>1, <2>2, AssignedStay
<1> QED BY <1>2, <1>3

\* No role asks to be bound and none is answered.
TalkQuiet == \A l \in Talk : \A m \in ToSet(net'[l]) : m \in ToSet(net[l]) \/ m.fn \notin {"bind_room", "rsp"}

NoticesStay ==
  \A g \in Games : \A m \in ToSet(net[<<Room, g>>]) :
    m.fn \in {"notify_end_room", "notify_terminate_room"} => m \in ToSet(net'[<<Room, g>>])

RoomsStay ==
  \A k \in DOMAIN rooms :
    k \in DOMAIN rooms' /\ rooms'[k].members = rooms[k].members /\ rooms[k].bound \subseteq rooms'[k].bound

LEMMA ElsewhereIs == Elsewhere => TalkQuiet /\ NoticesStay
BY TalkIs DEF Elsewhere, TalkQuiet, NoticesStay

LEMMA GamesNames ==
  ASSUME TypesInv
  PROVE  /\ \A r \in Roles : in_game[r] # 0 => in_game[r] \in DOMAIN objs
         /\ \A o \in DOMAIN objs : objs[o] \in ObjType
         /\ \A o \in DOMAIN objs : objs[o].game \in Games /\ objs[o].role \in Roles
                                   /\ (objs[o].session = None \/ objs[o].session \in Sessions)
                                   /\ (objs[o].room_session = None \/ objs[o].room_session \in Sessions)
         /\ drawn \in Nat /\ None \notin Sessions
<1>1. GameTypes
  BY DEF TypesInv
<1>2. \A o \in DOMAIN objs : objs[o] \in ObjType
  BY <1>1, ObjIs
<1>3. \A o \in DOMAIN objs : objs[o].game \in Games /\ objs[o].role \in Roles
                                   /\ (objs[o].session = None \/ objs[o].session \in Sessions)
                                   /\ (objs[o].room_session = None \/ objs[o].room_session \in Sessions)
  BY <1>2 DEF ObjType
<1>4. drawn \in Nat
  BY <1>1, BoundAssumption DEF GameTypes
<1> QED BY <1>1, <1>2, <1>3, <1>4, ObjIs, RolesOfSessions

LEMMA SameGame ==
  ASSUME TypesInv, GameInv, SameNames, UNCHANGED drawn, RoomsNamed',
         \A r \in Roles : in_game'[r] \in {0, in_game[r]},
         \A l \in Talk : \A m \in ToSet(net'[l]) : m \in ToSet(net[l]) \/ Says(l, m)
  PROVE  GameInv'
<1>1. SessionsOwned'
  BY OwnedStay DEF GameInv
<1>2. Talked'
  BY SameNamesStay, TalkedStays DEF GameInv
<1>3. RolesInGame'
  BY GamesNames DEF GameInv, RolesInGame, SameNames
<1> QED BY <1>1, <1>2, <1>3 DEF GameInv

LEMMA QuietSays ==
  ASSUME TalkQuiet
  PROVE  \A l \in Talk : \A m \in ToSet(net'[l]) : m \in ToSet(net[l]) \/ Says(l, m)
BY DEF TalkQuiet, Says

SameFor(o) ==
  /\ objs'[o].role = objs[o].role /\ objs'[o].game = objs[o].game
  /\ objs'[o].room_session = objs[o].room_session /\ objs'[o].room_id = objs[o].room_id

EnteredBefore(o) == Entered(o)' => Entered(o)

\* The notice for a game role's room is still on its way.
TellsOn(o) ==
  \A k, s : k = objs[o].room_id /\ s = objs[o].room_session /\ Told(o, k, s) => Told(o, k, s)'

\* A step may bring game role q to a room: the others were there before.
LEMMA LiveBut ==
  ASSUME TypesInv, LiveInv, NEW q, UNCHANGED broken, aborted \subseteq aborted', RoomsStay,
         \A r \in Roles : in_game'[r] \in {0, in_game[r], q},
         \A r \in Roles : \A o : o = in_game[r] /\ o # 0 /\ o # q => SameFor(o) /\ EnteredBefore(o) /\ TellsOn(o),
         ~broken' /\ q # 0 /\ Entered(q)' => InLive(q)'
  PROVE  LiveInv'
<1> SUFFICES ASSUME ~broken', NEW r \in Roles, NEW o, o = in_game'[r], o # 0, o # q, Entered(o)'
             PROVE  InLive(o)'
  BY DEF LiveInv
<1>1. o = in_game[r] /\ SameFor(o) /\ EnteredBefore(o) /\ TellsOn(o)
  OBVIOUS
<1>2. InLive(o)
  BY <1>1 DEF LiveInv, EnteredBefore
<1>3. ASSUME NEW k, NEW s, LivesIn(o, k, s) PROVE LivesIn(o, k, s)'
  BY <1>1, <1>3 DEF LivesIn, RoomsStay, SameFor
<1> QED BY <1>1, <1>2, <1>3 DEF InLive, SameFor, TellsOn

\* No role is answered.
NoAnswer == \A g \in Games : \A m \in ToSet(net'[<<Room, g>>]) : m \in ToSet(net[<<Room, g>>]) \/ m.fn # "rsp"

LEMMA NoAnswerIs == TalkQuiet => NoAnswer
BY TalkIs DEF TalkQuiet, NoAnswer

LEMMA NotEntered ==
  ASSUME NEW o, objs[o].game \in Games, SameFor(o), objs'[o].room = objs[o].room, NoAnswer
  PROVE  EnteredBefore(o)
<1>1. \A m \in ToSet(net'[<<Room, objs[o].game>>]) : m.fn = "rsp" => m \in ToSet(net[<<Room, objs[o].game>>])
  BY DEF NoAnswer
<1> QED BY <1>1 DEF Entered, EnteredBefore, SameFor

LEMMA QuietFor ==
  ASSUME NEW o, objs[o].game \in Games, SameFor(o), objs'[o].room = objs[o].room, NoAnswer, NoticesStay
  PROVE  EnteredBefore(o) /\ TellsOn(o)
<1>1. TellsOn(o)
  BY DEF TellsOn, Told, NoticesStay, OverNotice, SameFor
<1> QED BY <1>1, NotEntered

LEMMA SameNamesFor ==
  ASSUME SameNames, NEW o \in DOMAIN objs
  PROVE  SameFor(o)
BY DEF SameNames, SameFor

\* A step that neither binds, moves nor tells a role.
LEMMA LiveKept ==
  ASSUME TypesInv, GameInv, LiveInv, SameNames, \A p \in DOMAIN objs : objs'[p].room = objs[p].room,
         UNCHANGED <<drawn, broken>>, \A r \in Roles : in_game'[r] \in {0, in_game[r]},
         TalkQuiet, NoticesStay, RoomsStay, aborted \subseteq aborted'
  PROVE  GameInv' /\ LiveInv'
<1>1. RoomsNamed'
  BY DEF GameInv, RoomsNamed, SameNames
<1>2. GameInv'
  BY <1>1, QuietSays, SameGame
<1>3. \A r \in Roles : \A o : o = in_game[r] /\ o # 0 /\ o # 0 => SameFor(o) /\ EnteredBefore(o) /\ TellsOn(o)
  <2> SUFFICES ASSUME NEW r \in Roles, NEW o, o = in_game[r], o # 0
               PROVE  SameFor(o) /\ EnteredBefore(o) /\ TellsOn(o)
    OBVIOUS
  <2>1. o \in DOMAIN objs /\ objs[o].game \in Games
    BY GamesNames
  <2> QED BY <2>1, SameNamesFor, NoAnswerIs, QuietFor
<1>4. \A r \in Roles : in_game'[r] \in {0, in_game[r], 0}
  OBVIOUS
<1>5. LiveInv'
  BY <1>3, <1>4, LiveBut
<1> QED BY <1>2, <1>5

\* What a step leaves on the links.
LEMMA HeadGone ==
  ASSUME Queues, NEW in, in \in Links => net[in] # <<>>, NEW me, NEW S, NEW outs \in Seq(S), Deliver(in, me, outs)
  PROVE  \A l \in Links : \A m \in ToSet(net[l]) : m \in ToSet(net'[l]) \/ (l = in /\ m = NextOn(in))
<1> TAKE l \in Links
<1> TAKE m \in ToSet(net[l])
<1>1. PICK i \in DOMAIN net[l] : m = net[l][i]
  BY DEF ToSet
<1>2. l # in \/ i # 1 => net[l][i] \in ToSet(net'[l])
  BY Delivered
<1>3. l = in => NextOn(in) = net[l][1]
  BY HeadIn
<1> QED BY <1>1, <1>2, <1>3

LEMMA HeadGoneNone ==
  ASSUME Queues, NEW in, in \in Links => net[in] # <<>>, NEW me, Deliver(in, me, <<>>)
  PROVE  /\ \A l \in Links : \A m \in ToSet(net[l]) : m \in ToSet(net'[l]) \/ (l = in /\ m = NextOn(in))
         /\ TalkQuiet
         /\ (\A g \in Games : in = <<Room, g>> => NextOn(in).fn \notin {"notify_end_room", "notify_terminate_room"})
              => NoticesStay
<1> DEFINE outs == <<>>
           S == {}
<1>1. outs \in Seq(S) /\ Deliver(in, me, outs)
  OBVIOUS
<1> HIDE DEF outs, S
<1>2. \A l \in Links : \A m \in ToSet(net[l]) : m \in ToSet(net'[l]) \/ (l = in /\ m = NextOn(in))
  BY <1>1, HeadGone
<1>3. TalkQuiet
  BY SentNone, TalkIs DEF TalkQuiet
<1>4. (\A g \in Games : in = <<Room, g>> => NextOn(in).fn \notin {"notify_end_room", "notify_terminate_room"})
         => NoticesStay
  BY <1>2, LinksAre DEF NoticesStay
<1> QED BY <1>2, <1>3, <1>4

-----------------------------------------------------------------------------
(* Steps of the games. *)

RoomsInv == StageInv /\ GameInv /\ LiveInv

\* What a step of a game leaves alone.
GameOnly == UNCHANGED <<matchVars, roomVars, broken>> /\ aborted \subseteq aborted'

LEMMA GameStages ==
  ASSUME RoomsInv, GameOnly, NetQuiet, UNCHANGED drawn
  PROVE  StageInv' /\ RoomsStay
<1>1. UNCHANGED <<cells, waiting, roomVars, rooms>>
  BY DEF GameOnly, matchVars, roomVars
<1>2. StageInv'
  BY <1>1, StageKeptThere DEF RoomsInv
<1> QED BY <1>1, <1>2 DEF RoomsStay

\* A step of which the rooms hear nothing, and the games nothing that counts.
LEMMA GameQuiet ==
  ASSUME TypesInv, RoomsInv, GameOnly, NetQuiet, TalkQuiet, NoticesStay,
         SameNames, \A p \in DOMAIN objs : objs'[p].room = objs[p].room, UNCHANGED drawn,
         \A r \in Roles : in_game'[r] \in {0, in_game[r]}
  PROVE  RoomsInv'
<1>1. StageInv' /\ RoomsStay
  BY GameStages
<1>2. GameInv' /\ LiveInv'
  BY <1>1, LiveKept DEF RoomsInv, GameOnly
<1> QED BY <1>1, <1>2 DEF RoomsInv

\* The head taken is no notice that a room has ended.
NoNotice(in) ==
  \A g \in Games : in = <<Room, g>> => NextOn(in).fn \notin {"notify_end_room", "notify_terminate_room"}

LEMMA NothingSaid ==
  ASSUME TypesInv, RoomsInv, NEW in, in \in Links => net[in] # <<>>, NoNotice(in), NEW me, Deliver(in, me, <<>>)
  PROVE  NetQuiet /\ TalkQuiet /\ NoticesStay
<1>1. Queues /\ Onces
  BY StagesUse DEF RoomsInv
<1> QED BY <1>1, QuietNone, HeadGoneNone DEF NoNotice

LEMMA NoticesGo ==
  ASSUME Queues, NEW in, in \in Links => net[in] # <<>>, NoNotice(in), NEW me, NEW x, Deliver(in, me, <<x>>)
  PROVE  NoticesStay
<1> DEFINE outs == <<x>>
           S == {x}
<1>1. outs \in Seq(S) /\ Deliver(in, me, outs)
  OBVIOUS
<1> HIDE DEF outs, S
<1>2. \A l \in Links : \A m \in ToSet(net[l]) : m \in ToSet(net'[l]) \/ (l = in /\ m = NextOn(in))
  BY <1>1, HeadGone
<1> QED BY <1>2, LinksAre DEF NoticesStay, NoNotice

\* A message for the match service.
LEMMA MatchHears ==
  ASSUME TypesInv, NEW in, in \in Links => net[in] # <<>>, NoNotice(in), NEW me,
         NEW x, Deliver(in, me, <<x>>), x.to = Match
  PROVE  TalkQuiet /\ NoticesStay
<1>1. Queues
  BY DEF TypesInv
<1>2. TalkQuiet
  <2>1. \A l \in Links : \A m \in ToSet(net'[l]) : m \in ToSet(net[l]) \/ (l[1] = me /\ x.to = l[2] /\ m = x)
    BY <1>1, SentOne
  <2> QED BY <2>1, TalkIs, Services DEF TalkQuiet
<1>3. NoticesStay
  BY <1>1, NoticesGo
<1> QED BY <1>2, <1>3

LEMMA MatchTold ==
  ASSUME TypesInv, RoomsInv, NEW in, in \in Links => net[in] # <<>>, NoNotice(in), NEW me,
         NEW x, Deliver(in, me, <<x>>), x.to = Match, x.fn \notin {"join_match", "apply_room"}
  PROVE  NetQuiet /\ TalkQuiet /\ NoticesStay
<1>1. Queues /\ Onces
  BY StagesUse DEF RoomsInv
<1> QED BY <1>1, QuietOne, MatchHears

LEMMA NobodySaid ==
  ASSUME RoomsInv, UNCHANGED net
  PROVE  NetQuiet /\ TalkQuiet /\ NoticesStay
<1>1. NetQuiet
  BY QuietSame DEF RoomsInv, StageInv
<1>2. TalkQuiet /\ NoticesStay
  BY DEF TalkQuiet, NoticesStay
<1> QED BY <1>1, <1>2

\* The record of one game role changes, but not its names.
LEMMA OneChanged ==
  ASSUME TypesInv, NEW o \in DOMAIN objs, NEW y,
         objs' = objs \/ objs' = [objs EXCEPT ![o] = y],
         y.role = objs[o].role, y.game = objs[o].game, y.session = objs[o].session,
         y.room_session = objs[o].room_session, y.room_id = objs[o].room_id
  PROVE  SameNames /\ \A p \in DOMAIN objs : p # o => objs'[p] = objs[p]
<1>1. CASE objs' = objs
  BY <1>1 DEF SameNames
<1>2. CASE objs' = [objs EXCEPT ![o] = y]
  BY <1>2, ObjChanged DEF SameNames, TypesInv
<1> QED BY <1>1, <1>2

LEMMA ObjFields ==
  ASSUME TypesInv, NEW o \in DOMAIN objs, NEW v
  PROVE  /\ \A y \in {[objs[o] EXCEPT !.match = v], [objs[o] EXCEPT !.started = v], [objs[o] EXCEPT !.binds = v]} :
              /\ y.role = objs[o].role /\ y.game = objs[o].game /\ y.session = objs[o].session
              /\ y.room_session = objs[o].room_session /\ y.room_id = objs[o].room_id /\ y.room = objs[o].room
         /\ LET y == [objs[o] EXCEPT !.room = "in_room", !.started = v] IN
              /\ y.role = objs[o].role /\ y.game = objs[o].game /\ y.session = objs[o].session
              /\ y.room_session = objs[o].room_session /\ y.room_id = objs[o].room_id /\ y.room = "in_room"
<1>1. objs[o] \in ObjType
  BY GamesNames
<1> QED BY <1>1 DEF ObjType

LEMMA CbJoinLive ==
  ASSUME TypesInv, RoomsInv, GameOnly, NEW in, in \in Links => net[in] # <<>>, NoNotice(in),
         NEW o \in DOMAIN objs, NEW s, NEW ok, CbJoinMatch(in, o, s, ok)
  PROVE  RoomsInv'
<1> DEFINE y == [objs[o] EXCEPT !.match = "matching"]
<1>1. /\ objs' = objs \/ objs' = [objs EXCEPT ![o] = y]
      /\ Deliver(in, objs[o].game, <<>>) /\ UNCHANGED <<in_game, drawn>>
  BY DEF CbJoinMatch
<1>2. /\ y.role = objs[o].role /\ y.game = objs[o].game /\ y.session = objs[o].session
      /\ y.room_session = objs[o].room_session /\ y.room_id = objs[o].room_id /\ y.room = objs[o].room
  BY ObjFields
<1> HIDE DEF y
<1>3. SameNames /\ \A p \in DOMAIN objs : objs'[p].room = objs[p].room
  <2>1. SameNames /\ \A p \in DOMAIN objs : p # o => objs'[p] = objs[p]
    BY <1>1, <1>2, OneChanged
  <2>2. objs'[o] = objs[o] \/ objs'[o] = y
    BY <1>1, ObjChanged DEF TypesInv
  <2> QED BY <1>2, <2>1, <2>2
<1>4. NetQuiet /\ TalkQuiet /\ NoticesStay
  BY <1>1, NothingSaid
<1> QED BY <1>1, <1>3, <1>4, GameQuiet

LEMMA ConfirmLive ==
  ASSUME TypesInv, RoomsInv, GameOnly, NEW g \in Games, NEW s \in Sessions, NEW cb,
         net[<<Match, g>>] # <<>>, NotifyConfirmJoinMatch(g, s, cb)
  PROVE  RoomsInv'
<1>1. PICK o : o = in_game[RoleOf(s)]
  OBVIOUS
<1> DEFINE ok == InGame(g, RoleOf(s), o) /\ objs[o].match = "matching" /\ objs[o].session = s
           x == Answer(Match, cb, ok)
           y == [objs[o] EXCEPT !.match = "wait_enter_room"]
<1>2. /\ Deliver(<<Match, g>>, g, <<x>>) /\ UNCHANGED <<in_game, drawn>>
      /\ objs' = IF ok THEN [objs EXCEPT ![o] = y] ELSE objs
  BY <1>1 DEF NotifyConfirmJoinMatch
<1>3. x.fn = "rsp" /\ x.to = Match
  BY DEF Answer
<1>4. ok => o \in DOMAIN objs
  BY <1>1, GamesNames, RolesOfSessions DEF InGame
<1> HIDE DEF ok, x
<1>5. SameNames /\ \A p \in DOMAIN objs : objs'[p].room = objs[p].room
  <2>1. CASE ok
    <3>1. /\ y.role = objs[o].role /\ y.game = objs[o].game /\ y.session = objs[o].session
          /\ y.room_session = objs[o].room_session /\ y.room_id = objs[o].room_id /\ y.room = objs[o].room
      BY <1>4, <2>1, ObjFields
    <3> HIDE DEF y
    <3>2. SameNames /\ \A p \in DOMAIN objs : p # o => objs'[p] = objs[p]
      BY <1>2, <1>4, <2>1, <3>1, OneChanged
    <3>3. objs'[o] = y
      BY <1>2, <1>4, <2>1, ObjChanged DEF TypesInv
    <3> QED BY <3>1, <3>2, <3>3
  <2>2. CASE ~ok
    BY <1>2, <2>2 DEF SameNames
  <2> QED BY <2>1, <2>2
<1>6. NoNotice(<<Match, g>>)
  BY Services DEF NoNotice
<1>7. NetQuiet /\ TalkQuiet /\ NoticesStay
  BY <1>2, <1>3, <1>6, MatchTold
<1> QED BY <1>2, <1>5, <1>7, GameQuiet

LEMMA FightStartLive ==
  ASSUME TypesInv, RoomsInv, GameOnly, NEW g \in Games, NEW k, NEW s \in Sessions,
         Takes(<<Room, g>>, "notify_fight_start"), NotifyFightStart(g, k, s)
  PROVE  RoomsInv'
<1>1. PICK o : o = in_game[RoleOf(s)]
  OBVIOUS
<1> DEFINE y == [objs[o] EXCEPT !.started = TRUE]
<1>2. /\ Deliver(<<Room, g>>, g, <<>>) /\ UNCHANGED <<in_game, drawn>>
      /\ objs' = IF Noticed(g, k, s) THEN [objs EXCEPT ![o] = y] ELSE objs
  BY <1>1 DEF NotifyFightStart
<1>4. Noticed(g, k, s) => o \in DOMAIN objs
  BY <1>1, GamesNames, RolesOfSessions DEF InGame, Noticed
<1>5. SameNames /\ \A p \in DOMAIN objs : objs'[p].room = objs[p].room
  <2>1. CASE Noticed(g, k, s)
    <3>1. /\ y.role = objs[o].role /\ y.game = objs[o].game /\ y.session = objs[o].session
          /\ y.room_session = objs[o].room_session /\ y.room_id = objs[o].room_id /\ y.room = objs[o].room
      BY <1>4, <2>1, ObjFields
    <3> HIDE DEF y
    <3>2. SameNames /\ \A p \in DOMAIN objs : p # o => objs'[p] = objs[p]
      BY <1>2, <1>4, <2>1, <3>1, OneChanged
    <3>3. objs'[o] = y
      BY <1>2, <1>4, <2>1, ObjChanged DEF TypesInv
    <3> QED BY <3>1, <3>2, <3>3
  <2>2. CASE ~Noticed(g, k, s)
    BY <1>2, <2>2 DEF SameNames
  <2> QED BY <2>1, <2>2
<1>6. NoNotice(<<Room, g>>) /\ net[<<Room, g>>] # <<>>
  BY DEF NoNotice, Takes
<1>7. NetQuiet /\ TalkQuiet /\ NoticesStay
  BY <1>2, <1>6, NothingSaid
<1> QED BY <1>2, <1>5, <1>7, GameQuiet

\* Nothing changes but what is on the links.
LEMMA IgnoredLive ==
  ASSUME TypesInv, RoomsInv, GameOnly, UNCHANGED <<objs, in_game, drawn>>,
         NetQuiet /\ TalkQuiet /\ NoticesStay
  PROVE  RoomsInv'
<1>1. SameNames
  BY DEF SameNames
<1> QED BY <1>1, GameQuiet

LEMMA ReleaseLive ==
  ASSUME TypesInv, RoomsInv, GameOnly, NEW r \in Roles, Release(r)
  PROVE  RoomsInv'
<1>1. in_game' = [in_game EXCEPT ![r] = 0] /\ UNCHANGED <<objs, drawn, net>>
  BY DEF Release
<1>2. SameNames
  BY <1>1 DEF SameNames
<1>3. \A q \in Roles : in_game'[q] \in {0, in_game[q]}
  BY <1>1 DEF TypesInv, GameTypes
<1> QED BY <1>1, <1>2, <1>3, NobodySaid, GameQuiet

LEMMA QuitLive ==
  ASSUME TypesInv, RoomsInv, GameOnly, NEW r \in Roles, ReqQuitMatch(r)
  PROVE  RoomsInv'
<1> DEFINE x == Call(Match, "quit_match", <<r>>, NoCb)
<1>1. Deliver(NoLink, objs[in_game[r]].game, <<x>>) /\ UNCHANGED <<objs, in_game, drawn>>
  BY DEF ReqQuitMatch
<1>2. x.fn = "quit_match" /\ x.to = Match
  BY DEF Call
<1>3. NoNotice(NoLink)
  BY LinksAre DEF NoNotice
<1> HIDE DEF x
<1>4. NetQuiet /\ TalkQuiet /\ NoticesStay
  BY <1>1, <1>2, <1>3, NoLinkIsNone, MatchTold
<1> QED BY <1>1, <1>4, IgnoredLive

-----------------------------------------------------------------------------
(* Steps that give sessions away. *)

\* A step of a game that may bring game role q to a room.
LEMMA GameChanged ==
  ASSUME TypesInv, RoomsInv, StageInv', RoomsStay, GameOnly,
         NamesStay, SessionsOwned', RoomsNamed', RolesInGame',
         \A l \in Talk : \A m \in ToSet(net'[l]) : m \in ToSet(net[l]) \/ Says(l, m),
         NEW q, \A r \in Roles : in_game'[r] \in {0, in_game[r], q},
         \A r \in Roles : \A o : o = in_game[r] /\ o # 0 /\ o # q => SameFor(o) /\ EnteredBefore(o) /\ TellsOn(o),
         q # 0 /\ Entered(q)' => InLive(q)'
  PROVE  RoomsInv'
<1>1. GameInv'
  BY TalkedStays DEF RoomsInv, GameInv
<1>2. LiveInv'
  BY LiveBut DEF RoomsInv, GameOnly
<1> QED BY <1>1, <1>2 DEF RoomsInv

\* What the links say about sessions.
LEMMA AnswersAre ==
  ASSUME TypesInv, RoomsInv, NEW g \in Games, NEW m \in ToSet(net[<<Room, g>>]), m.fn = "rsp"
  PROVE  RspOK(g, m) /\ m.args.session \in Sessions /\ m.args.session # None
<1>1. Talked
  BY DEF RoomsInv, GameInv
<1>2. RspOK(g, m)
  BY <1>1 DEF Talked
<1> QED BY <1>2, RolesOfSessions DEF RspOK, Assigned

LEMMA LaunchLive ==
  ASSUME TypesInv, RoomsInv, GameOnly, NEW r \in Roles, NEW g \in Games, Launch(r, g)
  PROVE  RoomsInv'
<1>1. PICK q : q = Len(objs) + 1
  OBVIOUS
<1> DEFINE y == NewRole(r, g)
<1>2. /\ in_game[r] = 0 /\ objs' = Append(objs, y) /\ in_game' = [in_game EXCEPT ![r] = q]
      /\ UNCHANGED <<drawn, net>>
  BY <1>1 DEF Launch
<1>3. y.role = r /\ y.game = g /\ y.session = None /\ y.room = "free" /\ y.room_session = None
  BY DEF NewRole
<1> HIDE DEF y
<1>4. /\ Len(objs) \in Nat /\ DOMAIN objs = 1..Len(objs) /\ DOMAIN objs' = DOMAIN objs \cup {q} /\ q \notin DOMAIN objs
      /\ objs'[q] = y /\ \A p \in DOMAIN objs : objs'[p] = objs[p] /\ p # q
  <2>1. objs \in Seq(ObjType)
    BY DEF TypesInv, GameTypes
  <2> QED BY <1>1, <1>2, <2>1
<1>5. NetQuiet /\ TalkQuiet /\ NoticesStay
  BY <1>2, NobodySaid
<1>6. StageInv' /\ RoomsStay
  BY <1>2, <1>5, GameStages
<1>7. NamesStay
  BY <1>2, <1>3, <1>4, GamesNames DEF NamesStay, Assigned
<1>8. SessionsOwned'
  <2> SUFFICES ASSUME NEW o \in DOMAIN objs'
               PROVE  /\ objs'[o].session # None =>
                           /\ RoleOf(objs'[o].session) = objs'[o].role /\ objs'[o].session[2] <= drawn'
                           /\ \A p \in DOMAIN objs' :
                                (objs'[p].session = objs'[o].session => p = o) /\ objs'[p].room_session # objs'[o].session
                      /\ objs'[o].room_session # None =>
                           /\ RoleOf(objs'[o].room_session) = objs'[o].role /\ objs'[o].room_session[2] <= drawn'
                           /\ \A p \in DOMAIN objs' : objs'[p].room_session = objs'[o].room_session => p = o
    BY DEF SessionsOwned
  <2>1. CASE o = q
    BY <1>3, <1>4, <2>1
  <2>2. CASE o \in DOMAIN objs
    <3>1. objs'[o] = objs[o] /\ UNCHANGED drawn
      BY <1>2, <1>4, <2>2
    <3>2. \A p \in DOMAIN objs' : p = q \/ (p \in DOMAIN objs /\ objs'[p] = objs[p])
      BY <1>4
    <3> QED BY <1>3, <1>4, <2>2, <3>1, <3>2 DEF RoomsInv, GameInv, SessionsOwned
  <2> QED BY <1>4, <2>1, <2>2
<1>9. RoomsNamed'
  BY <1>3, <1>4 DEF RoomsInv, GameInv, RoomsNamed
<1>10. \A j \in Roles : (j = r => in_game'[j] = q) /\ (j # r => in_game'[j] = in_game[j])
  BY <1>2 DEF TypesInv, GameTypes
<1>11. RolesInGame'
  BY <1>3, <1>4, <1>10, GamesNames DEF RoomsInv, GameInv, RolesInGame
<1>12. ~Entered(q)'
  <2>1. objs'[q].game = g /\ objs'[q].room = "free" /\ objs'[q].room_session = None
    BY <1>3, <1>4
  <2>2. \A m \in ToSet(net[<<Room, g>>]) : m.fn = "rsp" => m.args.session # None
    BY AnswersAre
  <2>3. ToSet(net'[<<Room, g>>]) = ToSet(net[<<Room, g>>])
    BY <1>2
  <2> QED BY <2>1, <2>2, <2>3 DEF Entered
<1>13. ASSUME NEW j \in Roles, NEW o, o = in_game[j], o # 0
       PROVE  SameFor(o) /\ EnteredBefore(o) /\ TellsOn(o)
  <2>1. o \in DOMAIN objs /\ objs[o].game \in Games
    BY <1>13, GamesNames
  <2>2. SameFor(o) /\ objs'[o].room = objs[o].room
    BY <1>4, <2>1 DEF SameFor
  <2> QED BY <1>5, <2>1, <2>2, NoAnswerIs, QuietFor
<1>14. \A j \in Roles : in_game'[j] \in {0, in_game[j], q}
  BY <1>10
<1>15. \A l \in Talk : \A m \in ToSet(net'[l]) : m \in ToSet(net[l]) \/ Says(l, m)
  BY <1>5, QuietSays
<1> QED BY <1>6, <1>7, <1>8, <1>9, <1>11, <1>12, <1>13, <1>14, <1>15, GameChanged

LEMMA JoinLive ==
  ASSUME TypesInv, RoomsInv, GameOnly, NEW r \in Roles, ReqJoinMatch(r)
  PROVE  RoomsInv'
<1>1. PICK o : o = in_game[r]
  OBVIOUS
<1>2. PICK t : t = <<r, drawn + 1>>
  OBVIOUS
<1> DEFINE x == Call(Match, "join_match", <<t>>, JoinCb(o, t))
           y == [objs[o] EXCEPT !.match = "joining", !.session = t]
<1>3. /\ o # 0 /\ drawn' = drawn + 1 /\ Deliver(NoLink, objs[o].game, <<x>>)
      /\ UNCHANGED in_game
  BY <1>1, <1>2 DEF ReqJoinMatch
<1>4. o \in DOMAIN objs /\ objs[o].role = r
  BY <1>1, <1>3, GamesNames DEF RoomsInv, GameInv, RolesInGame
<1>5. /\ y.role = objs[o].role /\ y.game = objs[o].game /\ y.session = t
      /\ y.room_session = objs[o].room_session /\ y.room_id = objs[o].room_id /\ y.room = objs[o].room
  <2>1. objs[o] \in ObjType
    BY <1>4, GamesNames
  <2> QED BY <2>1 DEF ObjType
<1>6. objs' = [objs EXCEPT ![o] = y]
  BY <1>1, <1>2 DEF ReqJoinMatch
<1>7. x.to = Match
  BY DEF Call
<1> HIDE DEF x, y
<1>8. DOMAIN objs' = DOMAIN objs /\ objs'[o] = y /\ \A p \in DOMAIN objs : p # o => objs'[p] = objs[p]
  BY <1>4, <1>6, ObjChanged DEF TypesInv
<1>9. RoleOf(t) = r /\ t[2] = drawn + 1 /\ drawn \in Nat
  BY <1>2, GamesNames DEF RoleOf
<1>10. NoNotice(NoLink)
  BY LinksAre DEF NoNotice
<1>11. TalkQuiet /\ NoticesStay
  BY <1>3, <1>7, <1>10, NoLinkIsNone, MatchHears
<1>12. StageInv' /\ RoomsStay
  <2>1. StageInv'
    BY JoinStages DEF RoomsInv, GameOnly
  <2> QED BY <2>1 DEF GameOnly, roomVars, RoomsStay
<1>13. \A s : s[2] <= drawn => s # t
  BY <1>9
<1>0. SessionsOwned
  BY DEF RoomsInv, GameInv
<1>14. ASSUME NEW p \in DOMAIN objs
       PROVE  /\ objs[p].session # None =>
                   objs[p].session # t /\ objs[p].session[2] \in Nat /\ objs[p].session[2] <= drawn
              /\ objs[p].room_session # None =>
                   objs[p].room_session # t /\ objs[p].room_session[2] \in Nat /\ objs[p].room_session[2] <= drawn
  BY <1>0, <1>13, GamesNames, RolesOfSessions DEF SessionsOwned
<1>15. t \in Sessions /\ t # None
  <2>1. drawn < MaxJoin
    BY DEF ReqJoinMatch
  <2>2. drawn + 1 \in 1..MaxJoin
    BY <2>1, <1>9, BoundAssumption
  <2> QED BY <1>2, <2>2, RolesOfSessions DEF Sessions
<1>16. NamesStay
  <2>1. \A s : Assigned(s) => s[2] \in Nat /\ s # t
    BY <1>13, RolesOfSessions DEF Assigned
  <2>2. \A s : Assigned(s) => s[2] <= drawn'
    BY <1>3, <1>9, <2>1 DEF Assigned
  <2>3. \A s : Assigned(s) => \A p \in DOMAIN objs' : objs'[p].session # s
    BY <1>5, <1>8, <2>1 DEF Assigned
  <2> QED BY <1>5, <1>8, <2>2, <2>3 DEF NamesStay
<1>17. \A p \in DOMAIN objs' : objs'[p].room_session = objs[p].room_session /\ objs'[p].role = objs[p].role
                               /\ objs'[p].room = objs[p].room
  BY <1>5, <1>8
<1>18. SessionsOwned'
  <2> SUFFICES ASSUME NEW e \in DOMAIN objs
               PROVE  /\ objs'[e].session # None =>
                           /\ RoleOf(objs'[e].session) = objs'[e].role /\ objs'[e].session[2] <= drawn'
                           /\ \A p \in DOMAIN objs :
                                (objs'[p].session = objs'[e].session => p = e) /\ objs'[p].room_session # objs'[e].session
                      /\ objs'[e].room_session # None =>
                           /\ RoleOf(objs'[e].room_session) = objs'[e].role /\ objs'[e].room_session[2] <= drawn'
                           /\ \A p \in DOMAIN objs : objs'[p].room_session = objs'[e].room_session => p = e
    BY <1>8 DEF SessionsOwned
  <2>1. ASSUME objs'[e].room_session # None
        PROVE  /\ RoleOf(objs'[e].room_session) = objs'[e].role /\ objs'[e].room_session[2] <= drawn'
               /\ \A p \in DOMAIN objs : objs'[p].room_session = objs'[e].room_session => p = e
    <3>1. objs[e].room_session # None /\ objs'[e].room_session = objs[e].room_session /\ objs'[e].role = objs[e].role
      BY <1>8, <1>17, <2>1
    <3>2. objs[e].room_session[2] <= drawn /\ objs[e].room_session[2] \in Nat
      BY <1>14, <3>1
    <3>3. objs[e].room_session[2] <= drawn'
      BY <1>3, <1>9, <3>2
    <3> QED BY <1>0, <1>8, <1>17, <3>1, <3>3 DEF SessionsOwned
  <2>2. CASE e = o
    <3>1. objs'[e].session = t /\ objs'[e].role = r
      BY <1>4, <1>5, <1>8, <2>2
    <3>2. ASSUME NEW p \in DOMAIN objs, p # o PROVE objs'[p].session # t
      <4>1. objs'[p].session = objs[p].session
        BY <1>8, <3>2
      <4> QED BY <1>14, <1>15, <4>1
    <3>3. ASSUME NEW p \in DOMAIN objs PROVE objs'[p].room_session # t
      <4>1. objs'[p].room_session = objs[p].room_session
        BY <1>8, <1>17
      <4> QED BY <1>14, <1>15, <4>1
    <3> QED BY <1>3, <1>9, <2>1, <2>2, <3>1, <3>2, <3>3
  <2>3. CASE e # o
    <3>1. objs'[e] = objs[e]
      BY <1>8, <2>3
    <3>2. ASSUME objs[e].session # None
          PROVE  objs[e].session[2] <= drawn' /\ objs[e].session # t
      <4>1. objs[e].session[2] <= drawn /\ objs[e].session[2] \in Nat
        BY <1>14, <3>2
      <4> QED BY <1>3, <1>9, <1>14, <3>2, <4>1
    <3>3. ASSUME objs[e].session # None
          PROVE  \A p \in DOMAIN objs :
                   (objs'[p].session = objs[e].session => p = e) /\ objs'[p].room_session # objs[e].session
      BY <1>5, <1>8, <1>17, <3>2, <3>3 DEF RoomsInv, GameInv, SessionsOwned
    <3> QED BY <2>1, <3>1, <3>2, <3>3 DEF RoomsInv, GameInv, SessionsOwned
  <2> QED BY <2>2, <2>3
<1>19. RoomsNamed' /\ RolesInGame'
  BY <1>3, <1>8, <1>17, GamesNames DEF RoomsInv, GameInv, RoomsNamed, RolesInGame
<1>20. ASSUME NEW j \in Roles, NEW e, e = in_game[j], e # 0
       PROVE  SameFor(e) /\ EnteredBefore(e) /\ TellsOn(e)
  <2>1. e \in DOMAIN objs /\ objs[e].game \in Games
    BY <1>20, GamesNames
  <2>2. SameFor(e) /\ objs'[e].room = objs[e].room
    BY <1>5, <1>8, <2>1 DEF SameFor
  <2> QED BY <1>11, <2>1, <2>2, NoAnswerIs, QuietFor
<1>21. \A j \in Roles : in_game'[j] \in {0, in_game[j], 0}
  BY <1>3
<1>22. \A l \in Talk : \A m \in ToSet(net'[l]) : m \in ToSet(net[l]) \/ Says(l, m)
  BY <1>11, QuietSays
<1> QED BY <1>12, <1>16, <1>18, <1>19, <1>20, <1>21, <1>22, GameChanged

\* A game role asks the room service to be bound.
LEMMA BindAsked ==
  ASSUME TypesInv, RoomsInv, NEW in, in \in Links => net[in] # <<>>, NoNotice(in), NEW g \in Games,
         NEW x, Deliver(in, g, <<x>>), x.to = Room, x.fn = "bind_room"
  PROVE  /\ NetQuiet /\ NoAnswer /\ NoticesStay
         /\ BindOK(g, x)' => \A l \in Talk : \A m \in ToSet(net'[l]) : m \in ToSet(net[l]) \/ Says(l, m)
<1>1. Queues /\ Onces
  BY StagesUse DEF RoomsInv
<1>2. NetQuiet /\ NoticesStay
  BY <1>1, QuietOne, NoticesGo
<1>3. \A l \in Talk : \A m \in ToSet(net'[l]) : m \in ToSet(net[l]) \/ (l[1] = g /\ m = x)
  BY <1>1, SentOne, TalkIs
<1>4. NoAnswer
  BY <1>3, TalkIs DEF NoAnswer
<1>5. ASSUME BindOK(g, x)', NEW l \in Talk, l[1] = g PROVE Says(l, x)
  BY <1>5 DEF Says
<1> QED BY <1>2, <1>3, <1>4, <1>5

LEMMA SuccLive ==
  ASSUME TypesInv, RoomsInv, GameOnly, NEW g \in Games, NEW s \in Sessions, NEW k \in Rooms,
         net[<<Match, g>>] # <<>>, NEW o, o = in_game[RoleOf(s)], InGame(g, RoleOf(s), o), objs[o].session = s,
         NEW x, x = BindCall(o, [objs[o] EXCEPT !.match = "free", !.session = None, !.room = "try_enter_room",
                                 !.room_session = s, !.room_id = k, !.binds = @ + 1]),
         Deliver(<<Match, g>>, g, <<x>>), UNCHANGED <<in_game, drawn>>,
         objs' = [objs EXCEPT ![o] = [objs[o] EXCEPT !.match = "free", !.session = None, !.room = "try_enter_room",
                                 !.room_session = s, !.room_id = k, !.binds = @ + 1]]
  PROVE  RoomsInv'
<1> DEFINE y == [objs[o] EXCEPT !.match = "free", !.session = None, !.room = "try_enter_room",
                                 !.room_session = s, !.room_id = k, !.binds = @ + 1]
<1>1. o \in DOMAIN objs /\ objs[o].game = g /\ objs[o].role = RoleOf(s) /\ o # 0
  BY GamesNames, RolesOfSessions DEF InGame, RoomsInv, GameInv, RolesInGame
<1>2. /\ y.role = objs[o].role /\ y.game = objs[o].game /\ y.session = None
      /\ y.room_session = s /\ y.room_id = k /\ y.room = "try_enter_room"
  <2>1. objs[o] \in ObjType
    BY <1>1, GamesNames
  <2> QED BY <2>1 DEF ObjType
<1>3. x = BindCall(o, y) /\ objs' = [objs EXCEPT ![o] = y]
  OBVIOUS
<1> HIDE DEF y
<1>4. x.to = Room /\ x.fn = "bind_room" /\ x.cb[2] = o /\ x.args[2] = s /\ x.args[1] = k
  BY <1>2, <1>3 DEF BindCall, Call, BindCb
<1>5. DOMAIN objs' = DOMAIN objs /\ objs'[o] = y /\ \A p \in DOMAIN objs : p # o => objs'[p] = objs[p]
  BY <1>1, <1>3, ObjChanged DEF TypesInv
<1>6. NoNotice(<<Match, g>>)
  BY Services DEF NoNotice
<1>7. /\ NetQuiet /\ NoAnswer /\ NoticesStay
      /\ BindOK(g, x)' => \A l \in Talk : \A m \in ToSet(net'[l]) : m \in ToSet(net[l]) \/ Says(l, m)
  <2>1. Deliver(<<Match, g>>, g, <<x>>)
    OBVIOUS
  <2> QED BY <1>4, <1>6, <2>1, BindAsked
<1>8. StageInv' /\ RoomsStay
  BY <1>7, GameStages
<1>9. SessionsOwned /\ s # None
  BY RolesOfSessions DEF RoomsInv, GameInv
<1>10. /\ s[2] <= drawn
       /\ \A p \in DOMAIN objs : (objs[p].session = s => p = o) /\ objs[p].room_session # s
  BY <1>1, <1>9 DEF SessionsOwned
<1>11. \A z : Assigned(z) => z # s /\ z # None
  BY <1>1, RolesOfSessions DEF Assigned
<1>12. NamesStay
  <2>1. ASSUME NEW z, Assigned(z), NEW p \in DOMAIN objs'
        PROVE  /\ objs'[p].session # z
               /\ objs'[p].room_session = z =>
                    p \in DOMAIN objs /\ objs[p].room_session = z /\ objs'[p].room_id = objs[p].room_id
    <3>1. CASE p = o
      BY <1>2, <1>5, <1>11, <2>1, <3>1
    <3>2. CASE p # o
      BY <1>5, <2>1, <3>2 DEF Assigned
    <3> QED BY <3>1, <3>2
  <2> QED BY <1>2, <1>5, <2>1 DEF NamesStay, Assigned
<1>13. SessionsOwned'
  <2> SUFFICES ASSUME NEW e \in DOMAIN objs
               PROVE  /\ objs'[e].session # None =>
                           /\ RoleOf(objs'[e].session) = objs'[e].role /\ objs'[e].session[2] <= drawn
                           /\ \A p \in DOMAIN objs :
                                (objs'[p].session = objs'[e].session => p = e) /\ objs'[p].room_session # objs'[e].session
                      /\ objs'[e].room_session # None =>
                           /\ RoleOf(objs'[e].room_session) = objs'[e].role /\ objs'[e].room_session[2] <= drawn
                           /\ \A p \in DOMAIN objs : objs'[p].room_session = objs'[e].room_session => p = e
    BY <1>5 DEF SessionsOwned
  <2>1. CASE e = o
    <3>1. \A p \in DOMAIN objs : objs'[p].room_session = s => p = o
      BY <1>5, <1>10
    <3> QED BY <1>1, <1>2, <1>5, <1>10, <2>1, <3>1
  <2>2. CASE e # o
    <3>1. objs'[e] = objs[e]
      BY <1>5, <2>2
    <3>2. objs[e].session # s /\ objs[e].room_session # s
      BY <1>10, <2>2
    <3>3. \A p \in DOMAIN objs : objs'[p] = objs[p] \/ (objs'[p].session = None /\ objs'[p].room_session = s)
      BY <1>2, <1>5
    <3> QED BY <1>9, <3>1, <3>2, <3>3 DEF SessionsOwned
  <2> QED BY <2>1, <2>2
<1>14. RoomsNamed' /\ RolesInGame'
  <2>1. RoomsNamed /\ RolesInGame
    BY DEF RoomsInv, GameInv
  <2> QED BY <1>2, <1>5, <1>9, <2>1, GamesNames DEF RoomsNamed, RolesInGame
<1>15. BindOK(g, x)'
  <2>1. Assigned(s)'
    <3>1. \A p \in DOMAIN objs' : objs'[p].session # s
      BY <1>2, <1>5, <1>9, <1>10
    <3> QED BY <1>10, <3>1 DEF Assigned
  <2>2. \A p \in DOMAIN objs' : objs'[p].room_session = s => p = o /\ objs'[p].room_id = k
    BY <1>2, <1>5, <1>10
  <2> QED BY <1>1, <1>2, <1>4, <1>5, <2>1, <2>2 DEF BindOK
<1>16. ~Entered(o)'
  <2>1. objs'[o].room = "try_enter_room" /\ objs'[o].game = g /\ objs'[o].room_session = s
    BY <1>1, <1>2, <1>5
  <2>2. ASSUME NEW m \in ToSet(net'[<<Room, g>>]), m.fn = "rsp" PROVE m.args.session # s
    <3>1. m \in ToSet(net[<<Room, g>>])
      BY <1>7, <2>2 DEF NoAnswer
    <3> QED BY <1>11, <2>2, <3>1, AnswersAre DEF RspOK
  <2> QED BY <2>1, <2>2 DEF Entered
<1>17. ASSUME NEW r \in Roles, NEW e, e = in_game[r], e # 0, e # o
       PROVE  SameFor(e) /\ EnteredBefore(e) /\ TellsOn(e)
  <2>1. e \in DOMAIN objs /\ objs[e].game \in Games
    BY <1>17, GamesNames
  <2>2. SameFor(e) /\ objs'[e].room = objs[e].room
    BY <1>5, <1>17, <2>1 DEF SameFor
  <2> QED BY <1>7, <2>1, <2>2, QuietFor
<1>18. \A r \in Roles : in_game'[r] \in {0, in_game[r], o}
  OBVIOUS
<1> QED BY <1>7, <1>8, <1>12, <1>13, <1>14, <1>15, <1>16, <1>17, <1>18, GameChanged

LEMMA NotifyMatchSuccLive ==
  ASSUME TypesInv, RoomsInv, GameOnly, NEW g \in Games, NEW s \in Sessions, NEW k \in Rooms,
         net[<<Match, g>>] # <<>>, NotifyMatchSucc(g, s, k)
  PROVE  RoomsInv'
<1>1. PICK o : o = in_game[RoleOf(s)]
  OBVIOUS
<1> DEFINE y == [objs[o] EXCEPT !.match = "free", !.session = None, !.room = "try_enter_room",
                                 !.room_session = s, !.room_id = k, !.binds = @ + 1]
           ok == (InGame(g, RoleOf(s), o) /\ objs[o].session = s) /\ objs[o].match = "wait_enter_room"
<1>2. PICK x : x = BindCall(o, y)
  OBVIOUS
<1>3. UNCHANGED <<in_game, drawn>>
  BY DEF NotifyMatchSucc
<1>4. CASE ok
  <2>1. objs' = [objs EXCEPT ![o] = y] /\ Deliver(<<Match, g>>, g, <<x>>)
    BY <1>1, <1>2, <1>4 DEF NotifyMatchSucc
  <2> QED BY <1>1, <1>2, <1>3, <1>4, <2>1, SuccLive
<1>5. CASE ~ok
  <2>1. UNCHANGED objs /\ Deliver(<<Match, g>>, g, <<>>)
    BY <1>1, <1>5 DEF NotifyMatchSucc
  <2>2. NoNotice(<<Match, g>>)
    BY Services DEF NoNotice
  <2> QED BY <1>3, <2>1, <2>2, NothingSaid, IgnoredLive
<1> QED BY <1>4, <1>5

LEMMA BindExpiredLive ==
  ASSUME TypesInv, RoomsInv, GameOnly, UNCHANGED aborted, NEW o \in DOMAIN objs, NEW n, BindExpired(o, n)
  PROVE  RoomsInv'
<1> DEFINE y == [objs[o] EXCEPT !.binds = @ + 1]
<1>0. NoNotice(NoLink)
  BY LinksAre DEF NoNotice
<1>1. CASE objs[o].room # "try_enter_room"
  <2>1. Deliver(NoLink, objs[o].game, <<>>) /\ UNCHANGED <<objs, in_game, drawn>>
    BY <1>1 DEF BindExpired, BindFailed
  <2> QED BY <1>0, <2>1, NoLinkIsNone, NothingSaid, IgnoredLive
<1>2. CASE objs[o].room = "try_enter_room"
  <2>1. PICK x : x = BindCall(o, y)
    OBVIOUS
  <2>2. PICK g \in Games : g = objs[o].game
    BY GamesNames
  <2>3. /\ y.role = objs[o].role /\ y.game = objs[o].game /\ y.session = objs[o].session
        /\ y.room_session = objs[o].room_session /\ y.room_id = objs[o].room_id /\ y.room = objs[o].room
    BY ObjFields
  <2>4. objs' = [objs EXCEPT ![o] = y] /\ Deliver(NoLink, g, <<x>>) /\ UNCHANGED <<in_game, drawn>>
    BY <1>2, <2>1, <2>2, <2>3 DEF BindExpired
  <2> HIDE DEF y
  <2>5. SameNames /\ \A p \in DOMAIN objs : objs'[p].room = objs[p].room
    <3>1. SameNames /\ \A p \in DOMAIN objs : p # o => objs'[p] = objs[p]
      BY <2>3, <2>4, OneChanged
    <3>2. objs'[o] = y
      BY <2>4, ObjChanged DEF TypesInv
    <3> QED BY <2>3, <3>1, <3>2
  <2>6. PICK s : s = objs[o].room_session
    OBVIOUS
  <2>7. x.to = Room /\ x.fn = "bind_room" /\ x.cb[2] = o /\ x.args[2] = s /\ x.args[1] = objs[o].room_id
    BY <2>1, <2>3, <2>6 DEF BindCall, Call, BindCb
  <2>8. /\ NetQuiet /\ NoAnswer /\ NoticesStay
        /\ BindOK(g, x)' => \A l \in Talk : \A m \in ToSet(net'[l]) : m \in ToSet(net[l]) \/ Says(l, m)
    BY <1>0, <2>4, <2>7, NoLinkIsNone, BindAsked
  <2>9. BindOK(g, x)
    <3>1. SessionsOwned /\ RoomsNamed
      BY DEF RoomsInv, GameInv
    <3>2. s # None /\ s \in Sessions
      BY <1>2, <2>6, <3>1, GamesNames DEF RoomsNamed
    <3>3. Assigned(s)
      BY <2>6, <3>1, <3>2 DEF SessionsOwned, Assigned
    <3>4. \A p \in DOMAIN objs : objs[p].room_session = s => p = o
      BY <2>6, <3>1, <3>2 DEF SessionsOwned
    <3> QED BY <2>2, <2>7, <3>3, <3>4 DEF BindOK
  <2>10. NamesStay /\ SessionsOwned' /\ BindOK(g, x)'
    BY <2>4, <2>5, <2>9, SameNamesStay, OwnedStay, AssignedStay DEF RoomsInv, GameInv
  <2>11. RoomsNamed' /\ RolesInGame'
    <3>1. RoomsNamed /\ RolesInGame
      BY DEF RoomsInv, GameInv
    <3> QED BY <2>4, <2>5, <3>1, GamesNames DEF RoomsNamed, RolesInGame, SameNames
  <2>12. StageInv' /\ RoomsStay
    BY <2>4, <2>8, GameStages
  <2>13. ASSUME NEW r \in Roles, NEW e, e = in_game[r], e # 0
         PROVE  SameFor(e) /\ EnteredBefore(e) /\ TellsOn(e)
    <3>1. e \in DOMAIN objs /\ objs[e].game \in Games
      BY <2>13, GamesNames
    <3> QED BY <2>5, <2>8, <3>1, SameNamesFor, QuietFor
  <2>14. \A r \in Roles : in_game'[r] \in {0, in_game[r], 0}
    BY <2>4
  <2> QED BY <2>8, <2>10, <2>11, <2>12, <2>13, <2>14, GameChanged
<1> QED BY <1>1, <1>2

LEMMA CbBindLive ==
  ASSUME TypesInv, RoomsInv, GameOnly, NEW g \in Games, Takes(<<Room, g>>, "rsp"),
         NEW m, m = NextOn(<<Room, g>>), NEW o, o = m.cb[2], NEW n, NEW rsp, rsp = m.args,
         CbBindRoom(<<Room, g>>, o, n, rsp)
  PROVE  RoomsInv'
<1> DEFINE y  == [objs[o] EXCEPT !.room = "in_room", !.started = rsp.started]
           ok == rsp.bound /\ (rsp.session = objs[o].room_session /\ objs[o].room = "try_enter_room")
<1>1. /\ net[<<Room, g>>] # <<>> /\ m \in ToSet(net[<<Room, g>>]) /\ m.fn = "rsp"
  <2>1. Queues /\ <<Room, g>> \in Links
    BY LinksAre DEF TypesInv
  <2> QED BY <2>1, HeadIn DEF Takes
<1>2. RspOK(g, m) /\ rsp.session \in Sessions /\ rsp.session # None
  BY <1>1, AnswersAre
<1>3. o \in DOMAIN objs /\ objs[o].game = g /\ rsp.bound \in BOOLEAN
  BY <1>2 DEF RspOK
<1>4. objs' = (IF ok THEN [objs EXCEPT ![o] = y] ELSE objs) /\ Deliver(<<Room, g>>, g, <<>>) /\ UNCHANGED <<in_game, drawn>>
  BY <1>3 DEF CbBindRoom
<1>5. /\ y.role = objs[o].role /\ y.game = objs[o].game /\ y.session = objs[o].session
      /\ y.room_session = objs[o].room_session /\ y.room_id = objs[o].room_id /\ y.room = "in_room"
  BY <1>3, ObjFields
<1>6. ok => rsp.bound = TRUE /\ rsp.session = objs[o].room_session
  BY <1>3
<1> HIDE DEF y, ok
<1>7. SameNames /\ \A p \in DOMAIN objs : p # o => objs'[p] = objs[p]
  BY <1>3, <1>4, <1>5, OneChanged
<1>8. objs'[o] = IF ok THEN y ELSE objs[o]
  BY <1>3, <1>4, ObjChanged DEF TypesInv
<1>9. NoNotice(<<Room, g>>)
  BY <1>1 DEF NoNotice
<1>10. NetQuiet /\ TalkQuiet /\ NoticesStay
  BY <1>1, <1>4, <1>9, NothingSaid
<1>11. StageInv' /\ RoomsStay
  BY <1>4, <1>10, GameStages
<1>12. NamesStay /\ SessionsOwned'
  BY <1>4, <1>7, SameNamesStay, OwnedStay DEF RoomsInv, GameInv
<1>13. RoomsNamed'
  <2>1. RoomsNamed
    BY DEF RoomsInv, GameInv
  <2> SUFFICES ASSUME NEW p \in DOMAIN objs, objs'[p].room # "free" PROVE objs'[p].room_session # None
    BY <1>7 DEF RoomsNamed, SameNames
  <2>2. objs'[p].room_session = objs[p].room_session
    BY <1>7 DEF SameNames
  <2>3. CASE p = o /\ ok
    BY <1>2, <1>6, <2>2, <2>3
  <2>4. CASE ~(p = o /\ ok)
    <3>1. objs'[p] = objs[p]
      BY <1>7, <1>8, <2>4
    <3> QED BY <2>1, <3>1 DEF RoomsNamed
  <2> QED BY <2>3, <2>4
<1>14. RolesInGame'
  <2>1. RolesInGame
    BY DEF RoomsInv, GameInv
  <2> QED BY <1>4, <1>7, <2>1, GamesNames DEF RolesInGame, SameNames
<1>15. ok => Entered(o)
  BY <1>1, <1>3, <1>6 DEF Entered
<1>16. ASSUME NEW r \in Roles, NEW e, e = in_game[r], e # 0
       PROVE  SameFor(e) /\ EnteredBefore(e) /\ TellsOn(e)
  <2>1. e \in DOMAIN objs /\ objs[e].game \in Games
    BY <1>16, GamesNames
  <2>2. SameFor(e)
    BY <1>7, <2>1, SameNamesFor
  <2>3. TellsOn(e)
    BY <1>10, <2>1, <2>2 DEF TellsOn, Told, NoticesStay, OverNotice, SameFor
  <2>4. CASE e = o /\ ok
    BY <1>15, <2>2, <2>3, <2>4 DEF EnteredBefore
  <2>5. CASE ~(e = o /\ ok)
    <3>1. objs'[e].room = objs[e].room
      BY <1>7, <1>8, <2>1, <2>5
    <3> QED BY <1>10, <2>1, <2>2, <3>1, NoAnswerIs, QuietFor
  <2> QED BY <2>4, <2>5
<1>17. \A r \in Roles : in_game'[r] \in {0, in_game[r], 0}
  BY <1>4
<1>18. \A l \in Talk : \A i \in ToSet(net'[l]) : i \in ToSet(net[l]) \/ Says(l, i)
  BY <1>10, QuietSays
<1> QED BY <1>11, <1>12, <1>13, <1>14, <1>16, <1>17, <1>18, GameChanged

\* A role that a notice finds in the room leaves it, and one that it does not find
\* is not in the room that the notice is about.
LEMMA RoomOverLive ==
  ASSUME TypesInv, RoomsInv, GameOnly, NEW g \in Games, NEW m, m = NextOn(<<Room, g>>),
         net[<<Room, g>>] # <<>>, m.fn \in {"notify_end_room", "notify_terminate_room"},
         NEW k, k = m.args[1], NEW s \in Sessions, s = m.args[2], NotifyEndOrTerminateRoom(g, k, s)
  PROVE  RoomsInv'
<1>1. PICK o : o = in_game[RoleOf(s)]
  OBVIOUS
<1> DEFINE y == ResetRoom(objs[o])
           ok == Noticed(g, k, s)
<1>2. /\ Deliver(<<Room, g>>, g, <<>>) /\ UNCHANGED <<in_game, drawn>>
      /\ objs' = IF ok THEN [objs EXCEPT ![o] = y] ELSE objs
  BY <1>1 DEF NotifyEndOrTerminateRoom
<1>3. Queues /\ Onces /\ SessionsOwned /\ RoomsNamed /\ RolesInGame /\ s # None
  BY StagesUse, RolesOfSessions DEF RoomsInv, GameInv
<1>4. NetQuiet
  BY <1>2, <1>3, QuietNone
<1>5. TalkQuiet /\ \A l \in Links : \A i \in ToSet(net[l]) : i \in ToSet(net'[l]) \/ (l = <<Room, g>> /\ i = m)
  <2>1. /\ \A l \in Links : \A i \in ToSet(net[l]) : i \in ToSet(net'[l]) \/ (l = <<Room, g>> /\ i = NextOn(<<Room, g>>))
        /\ TalkQuiet
    BY <1>2, <1>3, HeadGoneNone
  <2> QED BY <2>1
<1>6. StageInv' /\ RoomsStay
  BY <1>2, <1>4, GameStages
<1>7. \A l \in Talk : \A i \in ToSet(net'[l]) : i \in ToSet(net[l]) \/ Says(l, i)
  BY <1>5, QuietSays
\* The notice of a room that another game role is in is still there.
<1>8. ASSUME NEW e \in DOMAIN objs, SameFor(e),
             ~(objs[e].game = g /\ objs[e].room_id = k /\ objs[e].room_session = s)
      PROVE  TellsOn(e)
  <2> SUFFICES ASSUME NEW i \in ToSet(net[<<Room, objs[e].game>>]),
                      OverNotice(i, objs[e].room_id, objs[e].room_session)
               PROVE  i \in ToSet(net'[<<Room, objs[e].game>>])
    BY <1>8 DEF TellsOn, Told, SameFor, OverNotice
  <2>1. <<Room, objs[e].game>> \in Links
    BY GamesNames, LinksAre
  <2>2. i.args[1] = objs[e].room_id /\ i.args[2] = objs[e].room_session
    BY DEF OverNotice
  <2>3. <<Room, objs[e].game>> = <<Room, g>> => objs[e].game = g
    OBVIOUS
  <2> QED BY <1>5, <1>8, <2>1, <2>2, <2>3
<1>9. CASE ok
  <2>1. o \in DOMAIN objs /\ o # 0 /\ objs[o].game = g /\ objs[o].room_session = s
    BY <1>1, <1>9, GamesNames, RolesOfSessions DEF Noticed, InGame
  <2>2. /\ y.role = objs[o].role /\ y.game = objs[o].game /\ y.session = objs[o].session
        /\ y.room_session = None /\ y.room = "free"
    <3>1. objs[o] \in ObjType
      BY <2>1, GamesNames
    <3> QED BY <3>1 DEF ObjType, ResetRoom
  <2> HIDE DEF y
  <2>3. DOMAIN objs' = DOMAIN objs /\ objs'[o] = y /\ \A p \in DOMAIN objs : p # o => objs'[p] = objs[p]
    BY <1>2, <1>9, <2>1, ObjChanged DEF TypesInv
  <2>4. \A p \in DOMAIN objs : /\ objs'[p].session = objs[p].session /\ objs'[p].role = objs[p].role
                               /\ objs'[p].game = objs[p].game
                               /\ \/ objs'[p].room_session = None /\ objs'[p].room = "free"
                                  \/ objs'[p] = objs[p]
    BY <2>2, <2>3
  <2>5. NamesStay
    <3>1. \A z : Assigned(z) => z # None /\ z[2] <= drawn'
      BY <1>2, RolesOfSessions DEF Assigned
    <3> QED BY <2>3, <2>4, <3>1 DEF NamesStay, Assigned
  <2>6. SessionsOwned'
    <3> SUFFICES ASSUME NEW e \in DOMAIN objs
                 PROVE  /\ objs'[e].session # None =>
                             /\ RoleOf(objs'[e].session) = objs'[e].role /\ objs'[e].session[2] <= drawn
                             /\ \A p \in DOMAIN objs :
                                  (objs'[p].session = objs'[e].session => p = e) /\ objs'[p].room_session # objs'[e].session
                        /\ objs'[e].room_session # None =>
                             /\ RoleOf(objs'[e].room_session) = objs'[e].role /\ objs'[e].room_session[2] <= drawn
                             /\ \A p \in DOMAIN objs : objs'[p].room_session = objs'[e].room_session => p = e
      BY <1>2, <2>3 DEF SessionsOwned
    <3>1. ASSUME objs'[e].session # None
          PROVE  /\ RoleOf(objs'[e].session) = objs'[e].role /\ objs'[e].session[2] <= drawn
                 /\ \A p \in DOMAIN objs :
                      (objs'[p].session = objs'[e].session => p = e) /\ objs'[p].room_session # objs'[e].session
      BY <1>3, <2>4, <3>1 DEF SessionsOwned
    <3>2. ASSUME objs'[e].room_session # None
          PROVE  /\ RoleOf(objs'[e].room_session) = objs'[e].role /\ objs'[e].room_session[2] <= drawn
                 /\ \A p \in DOMAIN objs : objs'[p].room_session = objs'[e].room_session => p = e
      BY <1>3, <2>4, <3>2 DEF SessionsOwned
    <3> QED BY <3>1, <3>2
  <2>7. RoomsNamed' /\ RolesInGame'
    BY <1>2, <1>3, <2>3, <2>4, GamesNames DEF RoomsNamed, RolesInGame
  <2>8. ~Entered(o)'
    <3>1. objs'[o].room = "free" /\ objs'[o].room_session = None /\ objs'[o].game = g
      BY <2>1, <2>2, <2>3
    <3>2. ASSUME NEW i \in ToSet(net'[<<Room, g>>]), i.fn = "rsp" PROVE i.args.session # None
      <4>1. i \in ToSet(net[<<Room, g>>])
        BY <1>5, <3>2, NoAnswerIs DEF NoAnswer
      <4> QED BY <3>2, <4>1, AnswersAre
    <3> QED BY <3>1, <3>2 DEF Entered
  <2>9. ASSUME NEW r \in Roles, NEW e, e = in_game[r], e # 0, e # o
        PROVE  SameFor(e) /\ EnteredBefore(e) /\ TellsOn(e)
    <3>1. e \in DOMAIN objs /\ objs[e].game \in Games
      BY <2>9, GamesNames
    <3>2. SameFor(e) /\ objs'[e].room = objs[e].room
      BY <2>3, <2>9, <3>1 DEF SameFor
    <3>3. objs[e].room_session # s
      BY <1>3, <2>1, <2>9, <3>1 DEF SessionsOwned
    <3> QED BY <1>5, <1>8, <3>1, <3>2, <3>3, NoAnswerIs, NotEntered
  <2>10. \A r \in Roles : in_game'[r] \in {0, in_game[r], o}
    BY <1>2
  <2> QED BY <1>6, <1>7, <2>5, <2>6, <2>7, <2>8, <2>9, <2>10, GameChanged
<1>10. CASE ~ok
  <2>1. UNCHANGED <<objs, in_game, drawn>> /\ SameNames
    BY <1>2, <1>10 DEF SameNames
  <2>2. NamesStay /\ SessionsOwned'
    BY <1>3, <2>1, SameNamesStay, OwnedStay
  <2>3. RoomsNamed' /\ RolesInGame'
    BY <1>3, <2>1 DEF RoomsNamed, RolesInGame
  <2>4. ASSUME NEW r \in Roles, NEW e, e = in_game[r], e # 0
        PROVE  SameFor(e) /\ EnteredBefore(e) /\ TellsOn(e)
    <3>1. e \in DOMAIN objs /\ objs[e].game \in Games /\ objs[e].role = r
      BY <1>3, <2>4, GamesNames DEF RolesInGame
    <3>2. SameFor(e) /\ objs'[e].room = objs[e].room
      BY <2>1 DEF SameFor
    <3>3. objs[e].room_session = s => RoleOf(s) = r
      BY <1>3, <3>1 DEF SessionsOwned
    <3>4. ~(objs[e].game = g /\ objs[e].room_id = k /\ objs[e].room_session = s)
      BY <1>10, <2>4, <3>3 DEF Noticed, InGame
    <3> QED BY <1>5, <1>8, <3>1, <3>2, <3>4, NoAnswerIs, NotEntered
  <2>5. \A r \in Roles : in_game'[r] \in {0, in_game[r], 0}
    BY <2>1
  <2> QED BY <1>6, <1>7, <2>2, <2>3, <2>4, <2>5, GameChanged
<1> QED BY <1>9, <1>10

-----------------------------------------------------------------------------
(* Steps of the services. *)

\* What a step of a service leaves alone.
ServiceOnly == UNCHANGED <<gameVars, broken>> /\ aborted \subseteq aborted'

LEMMA ServiceNames ==
  ASSUME ServiceOnly
  PROVE  /\ UNCHANGED <<objs, in_game, drawn>> /\ SameNames
         /\ \A p \in DOMAIN objs : objs'[p].room = objs[p].room
         /\ \A o : SameFor(o)
BY DEF ServiceOnly, gameVars, SameNames, SameFor

\* A step that tells no role anything, and takes none out of a room.
LEMMA ServiceQuiet ==
  ASSUME TypesInv, RoomsInv, ServiceOnly, StageInv', RoomsStay, TalkQuiet, NoticesStay
  PROVE  RoomsInv'
<1>1. /\ UNCHANGED <<drawn, broken>> /\ SameNames
      /\ \A p \in DOMAIN objs : objs'[p].room = objs[p].room
      /\ \A r \in Roles : in_game'[r] \in {0, in_game[r]}
  BY ServiceNames DEF ServiceOnly
<1>2. GameInv' /\ LiveInv'
  BY <1>1, LiveKept DEF RoomsInv, ServiceOnly
<1> QED BY <1>2 DEF RoomsInv

LEMMA MatchLive ==
  ASSUME TypesInv, RoomsInv, ServiceOnly, UNCHANGED roomVars, StageInv', Elsewhere
  PROVE  RoomsInv'
<1>1. RoomsStay
  BY DEF RoomsStay, roomVars
<1> QED BY <1>1, ElsewhereIs, ServiceQuiet

\* What the room service sends, when no role is answered.
LEMMA RoomTells ==
  ASSUME TypesInv, NEW in, in \in Links => net[in] # <<>>, \A g \in Games : in # <<Room, g>>,
         NEW S, NEW outs \in Seq(S), Deliver(in, Room, outs), 
         \A x \in S : x.to \in Games => x.fn \notin {"bind_room", "rsp"}
  PROVE  TalkQuiet /\ NoticesStay
<1>1. Queues
  BY DEF TypesInv
<1>2. TalkQuiet
  <2> SUFFICES ASSUME NEW l \in Talk, NEW m \in ToSet(net'[l]), m \notin ToSet(net[l])
               PROVE  m.fn \notin {"bind_room", "rsp"}
    BY DEF TalkQuiet
  <2>1. l \in Links
    BY TalkIs
  <2>2. l[1] = Room /\ m.to = l[2] /\ \E j \in DOMAIN outs : m = outs[j]
    BY <1>1, <2>1, Sent1
  <2>3. m \in S /\ m.to \in Games
    BY <2>2, TalkIs, Services
  <2> QED BY <2>3
<1>3. NoticesStay
  BY <1>1, HeadGone, LinksAre DEF NoticesStay
<1> QED BY <1>2, <1>3

LEMMA RoomTellsNone ==
  ASSUME TypesInv, NEW in, in \in Links => net[in] # <<>>, \A g \in Games : in # <<Room, g>>,
         Deliver(in, Room, <<>>)
  PROVE  TalkQuiet /\ NoticesStay
<1> DEFINE outs == <<>>
           S == {}
<1>1. outs \in Seq(S) /\ Deliver(in, Room, outs)
  OBVIOUS
<1> HIDE DEF outs, S
<1>2. \A x \in S : x.to \in Games => x.fn \notin {"bind_room", "rsp"}
  BY DEF S
<1> QED BY <1>1, <1>2, RoomTells

LEMMA RoomTellsOne ==
  ASSUME TypesInv, NEW in, in \in Links => net[in] # <<>>, \A g \in Games : in # <<Room, g>>,
         NEW x, Deliver(in, Room, <<x>>), x.to \notin Games
  PROVE  TalkQuiet /\ NoticesStay
<1> DEFINE outs == <<x>>
           S == {x}
<1>1. outs \in Seq(S) /\ Deliver(in, Room, outs)
  OBVIOUS
<1> HIDE DEF outs
<1>2. \A z \in S : z.to \in Games => z.fn \notin {"bind_room", "rsp"}
  OBVIOUS
<1> HIDE DEF S
<1> QED BY <1>1, <1>2, RoomTells

LEMMA NoticesTell ==
  ASSUME TypesInv, NEW in, in \in Links => net[in] # <<>>, \A g \in Games : in # <<Room, g>>,
         NEW k \in DOMAIN rooms, NEW fn, fn \notin {"bind_room", "rsp"}, NEW outs \in Notices(k, fn),
         Deliver(in, Room, outs)
  PROVE  /\ TalkQuiet /\ NoticesStay
         /\ \A b \in rooms[k].bound : b[2] \in Games => Notice(k, fn, b) \in ToSet(net'[<<Room, b[2]>>])
<1> DEFINE T == {Notice(k, fn, b) : b \in rooms[k].bound}
<1>1. /\ outs \in Seq(T)
      /\ \A b \in rooms[k].bound : \E i \in DOMAIN outs : outs[i] = Notice(k, fn, b)
  BY NoticesAre DEF TypesInv
<1>2. \A b : Notice(k, fn, b).fn = fn /\ Notice(k, fn, b).to = b[2]
  BY DEF Notice, Call
<1>3. \A x \in T : x.to \in Games => x.fn \notin {"bind_room", "rsp"}
  BY <1>2
<1> HIDE DEF T
<1>4. TalkQuiet /\ NoticesStay
  BY <1>1, <1>3, RoomTells
<1>5. ASSUME NEW b \in rooms[k].bound, b[2] \in Games
      PROVE  Notice(k, fn, b) \in ToSet(net'[<<Room, b[2]>>])
  <2>1. PICK l \in Links : l = <<Room, b[2]>>
    BY <1>5, LinksAre
  <2>2. PICK i \in DOMAIN outs : outs[i] = Notice(k, fn, b)
    BY <1>1, <1>5
  <2>3. l[1] = Room /\ outs[i].to = l[2]
    BY <1>2, <2>1, <2>2
  <2>4. outs[i] \in ToSet(net'[l])
    BY <1>1, <2>3, Delivered DEF TypesInv
  <2> QED BY <2>1, <2>2, <2>4
<1> QED BY <1>4, <1>5

\* What is known of a game role that is in a room.
LEMMA InRoomIs ==
  ASSUME TypesInv, RoomsInv, NEW o \in DOMAIN objs, NEW k, NEW s, s = objs[o].room_session, LivesIn(o, k, s)
  PROVE  /\ k \in Rooms /\ s \in Sessions /\ s # None /\ RoleOf(s) = objs[o].role
         /\ \A t \in rooms[k].members : RoleOf(t) = objs[o].role => t = s
<1>1. k \in DOMAIN rooms /\ s \in rooms[k].members
  BY DEF LivesIn
<1>2. k \in Rooms /\ s \in Sessions
  <2>1. RoomOK(rooms[k]) /\ k \in Rooms
    BY <1>1, RoomTypesAre DEF TypesInv
  <2> QED BY <1>1, <2>1 DEF RoomOK, RoomType
<1>3. s # None /\ RoleOf(s) = objs[o].role
  BY <1>2, RolesOfSessions DEF RoomsInv, GameInv, SessionsOwned
<1>4. OneEach(rooms[k].members)
  BY <1>1 DEF RoomsInv, StageInv, Mates
<1> QED BY <1>1, <1>2, <1>3, <1>4 DEF OneEach

\* A step of the room service: who is in a room afterwards was there, or is now.
LEMMA RoomLive ==
  ASSUME TypesInv, RoomsInv, ServiceOnly, StageInv',
         \A l \in Talk : \A m \in ToSet(net'[l]) : m \in ToSet(net[l]) \/ Says(l, m),
         ~broken => \A o \in DOMAIN objs : Entered(o)' /\ (Entered(o) => InLive(o)) => InLive(o)'
  PROVE  RoomsInv'
<1>1. UNCHANGED <<objs, in_game, drawn, broken>> /\ SameNames
  BY ServiceNames DEF ServiceOnly
<1>2. GameInv'
  <2>1. RoomsNamed' /\ RolesInGame'
    BY <1>1 DEF RoomsInv, GameInv, RoomsNamed, RolesInGame
  <2>2. SessionsOwned' /\ NamesStay
    BY <1>1, OwnedStay, SameNamesStay DEF RoomsInv, GameInv
  <2>3. Talked'
    BY <2>2, TalkedStays DEF RoomsInv, GameInv
  <2> QED BY <2>1, <2>2, <2>3 DEF GameInv
<1>3. LiveInv'
  <2> SUFFICES ASSUME ~broken, NEW r \in Roles, NEW o, o = in_game[r], o # 0, Entered(o)'
               PROVE  InLive(o)'
    BY <1>1 DEF LiveInv
  <2>1. o \in DOMAIN objs
    BY GamesNames
  <2>2. Entered(o) => InLive(o)
    BY DEF RoomsInv, LiveInv
  <2> QED BY <2>1, <2>2
<1> QED BY <1>2, <1>3 DEF RoomsInv

\* A room that ends tells its roles.
LEMMA RemovedLive ==
  ASSUME TypesInv, RoomsInv, ServiceOnly, StageInv', NEW in, in \in Links => net[in] # <<>>,
         \A g \in Games : in # <<Room, g>>, NEW k \in DOMAIN rooms, rooms' = Without(k),
         NEW fn \in {"notify_end_room", "notify_terminate_room"}, NEW outs \in Notices(k, fn), Deliver(in, Room, outs)
  PROVE  RoomsInv'
<1>1. /\ TalkQuiet /\ NoticesStay
      /\ \A b \in rooms[k].bound : b[2] \in Games => Notice(k, fn, b) \in ToSet(net'[<<Room, b[2]>>])
  BY NoticesTell
<1>2. \A j \in DOMAIN rooms : j # k => j \in DOMAIN rooms' /\ rooms'[j] = rooms[j]
  BY DEF Without
<1>3. ASSUME NEW o \in DOMAIN objs, Entered(o)', Entered(o) => InLive(o)
      PROVE  InLive(o)'
  <2>1. objs[o].game \in Games /\ UNCHANGED objs /\ SameFor(o)
    BY GamesNames, ServiceNames
  <2>2. InLive(o)
    BY <1>1, <1>3, <2>1, NoAnswerIs, NotEntered DEF EnteredBefore
  <2>3. PICK j, s : j = objs[o].room_id /\ s = objs[o].room_session
    OBVIOUS
  <2>4. ASSUME Told(o, j, s) PROVE Told(o, j, s)'
    BY <1>1, <2>1, <2>4 DEF Told, NoticesStay, OverNotice
  <2>5. ASSUME LivesIn(o, j, s), j # k PROVE LivesIn(o, j, s)'
    BY <1>2, <2>1, <2>5 DEF LivesIn
  <2>6. ASSUME LivesIn(o, j, s), j = k PROVE Told(o, j, s)'
    <3>1. PICK b \in rooms[k].bound : b = <<objs[o].role, objs[o].game>>
      BY <2>6 DEF LivesIn
    <3>2. b[1] = objs[o].role /\ b[2] = objs[o].game
      BY <3>1
    <3>3. SessionIn(k, b[1]) = s
      <4>1. SessionIn(k, b[1]) \in rooms[k].members /\ RoleOf(SessionIn(k, b[1])) = b[1]
        BY NoticesAre DEF TypesInv
      <4> QED BY <2>3, <2>6, <3>2, <4>1, InRoomIs
    <3>4. PICK x : x = Notice(k, fn, b)
      OBVIOUS
    <3>5. x \in ToSet(net'[<<Room, objs[o].game>>])
      BY <1>1, <2>1, <3>2, <3>4
    <3>6. OverNotice(x, j, s)
      BY <2>6, <3>3, <3>4 DEF Notice, Call, OverNotice
    <3> QED BY <2>1, <3>5, <3>6 DEF Told, OverNotice
  <2> QED BY <2>1, <2>2, <2>3, <2>4, <2>5, <2>6 DEF InLive, ServiceOnly
<1> QED BY <1>1, <1>3, QuietSays, RoomLive

\* A room that ran out of time tells nobody.
LEMMA ExpiredLive ==
  ASSUME TypesInv, RoomsInv, ServiceOnly, StageInv', NEW k, CheckRemoveWaitRoleReadyExpireRooms(k)
  PROVE  RoomsInv'
<1>1. /\ rooms' = Without(k) /\ UNCHANGED net
      /\ rooms[k].bound # {} => <<"room_mgr.lua:41", k>> \in aborted'
  BY DEF CheckRemoveWaitRoleReadyExpireRooms
<1>2. \A j \in DOMAIN rooms : j # k => j \in DOMAIN rooms' /\ rooms'[j] = rooms[j]
  BY <1>1 DEF Without
<1>3. TalkQuiet /\ NoticesStay
  BY <1>1, NobodySaid
<1>4. ASSUME NEW o \in DOMAIN objs, Entered(o)', Entered(o) => InLive(o)
      PROVE  InLive(o)'
  <2>1. objs[o].game \in Games /\ UNCHANGED objs /\ SameFor(o)
    BY GamesNames, ServiceNames
  <2>2. InLive(o)
    BY <1>3, <1>4, <2>1, NoAnswerIs, NotEntered DEF EnteredBefore
  <2>3. PICK j, s : j = objs[o].room_id /\ s = objs[o].room_session
    OBVIOUS
  <2>4. ASSUME Told(o, j, s) PROVE Told(o, j, s)'
    BY <1>1, <2>1, <2>4 DEF Told, OverNotice
  <2>5. ASSUME LivesIn(o, j, s), j # k PROVE LivesIn(o, j, s)'
    BY <1>2, <2>1, <2>5 DEF LivesIn
  <2>6. ASSUME LivesIn(o, j, s), j = k PROVE <<"room_mgr.lua:41", j>> \in aborted'
    BY <1>1, <2>6 DEF LivesIn
  <2> QED BY <2>1, <2>2, <2>3, <2>4, <2>5, <2>6 DEF InLive, ServiceOnly
<1> QED BY <1>3, <1>4, QuietSays, RoomLive

\* A role is bound to a room, or is told that it is not.
LEMMA BindLive ==
  ASSUME TypesInv, RoomsInv, ServiceOnly, StageInv', NEW g \in Games, Takes(<<g, Room>>, "bind_room"),
         NEW m, m = NextOn(<<g, Room>>), NEW k, k = m.args[1], NEW s, s = m.args[2], NEW cb, cb = m.cb,
         OnBindRoom(g, k, s, cb)
  PROVE  RoomsInv'
<1> DEFINE in    == <<g, Room>>
           ok    == k \in DOMAIN rooms /\ s \in rooms[k].members
           bound == {b \in rooms[k].bound : b[1] # RoleOf(s)} \cup {<<RoleOf(s), g>>}
           ready == rooms[k].state = "wait_roles_ready"
                      /\ \A t \in rooms[k].members : \E b \in bound : b[1] = RoleOf(t)
           y     == Call(Fight, "start_fight", <<k>>, StartCb(k))
<1>1. /\ in \in Links /\ net[in] # <<>> /\ BindOK(g, m)
      /\ \A j \in Games : in # <<Room, j>>
  <2>1. in \in Links /\ Queues /\ Talked
    BY LinksAre DEF TypesInv, RoomsInv, GameInv
  <2>2. m \in ToSet(net[in]) /\ m.fn = "bind_room" /\ net[in] # <<>>
    BY <2>1, HeadIn DEF Takes
  <2>3. \A j \in Games : in # <<Room, j>>
    BY Services
  <2> QED BY <2>1, <2>2, <2>3 DEF Talked
<1>2. PICK x : /\ x.to = g /\ x.fn = "rsp" /\ x.cb = cb /\ x.args.session = s /\ x.args.bound = ok
               /\ ok => /\ rooms' = [rooms EXCEPT ![k].bound = bound, ![k].state = IF ready THEN "roles_ready" ELSE @]
                        /\ Deliver(in, Room, <<x>> \o IF ready THEN <<y>> ELSE <<>>)
               /\ ~ok => Deliver(in, Room, <<x>>) /\ UNCHANGED rooms
  <2>1. CASE ok
    <3> DEFINE x == BindRsp(g, cb, s, TRUE, rooms[k].state = "fighting")
    <3>1. x.to = g /\ x.fn = "rsp" /\ x.cb = cb /\ x.args.session = s /\ x.args.bound = TRUE
      BY DEF BindRsp, Answer
    <3>2. /\ rooms' = [rooms EXCEPT ![k].bound = bound, ![k].state = IF ready THEN "roles_ready" ELSE @]
          /\ Deliver(in, Room, <<x>> \o IF ready THEN <<y>> ELSE <<>>)
      BY <2>1 DEF OnBindRoom
    <3> HIDE DEF x, y, bound, ready
    <3> QED BY <2>1, <3>1, <3>2
  <2>2. CASE ~ok
    <3> DEFINE x == BindRsp(g, cb, s, FALSE, FALSE)
    <3>1. x.to = g /\ x.fn = "rsp" /\ x.cb = cb /\ x.args.session = s /\ x.args.bound = FALSE
      BY DEF BindRsp, Answer
    <3>2. Deliver(in, Room, <<x>>) /\ UNCHANGED rooms
      BY <2>2 DEF OnBindRoom, roomVars
    <3> HIDE DEF x
    <3> QED BY <2>2, <3>1, <3>2
  <2> QED BY <2>1, <2>2
<1>3. y.to = Fight /\ y.fn = "start_fight"
  BY DEF Call
<1>4. ok => RoomOK(rooms[k])
  BY RoomTypesAre DEF TypesInv
<1> HIDE DEF y, bound
<1>5. /\ \A j \in DOMAIN rooms : j \in DOMAIN rooms' /\ rooms'[j].members = rooms[j].members
      /\ \A j \in DOMAIN rooms : j # k => rooms'[j] = rooms[j]
      /\ ok => rooms'[k].bound = bound
  <2> HIDE DEF ready
  <2>1. CASE ok
    BY <1>2, <1>4, <2>1 DEF RoomOK, RoomType
  <2>2. CASE ~ok
    BY <1>2, <2>2
  <2> QED BY <2>1, <2>2
<1> HIDE DEF in, ready
<1>6. PICK outs \in Seq({x, y}) : Deliver(in, Room, outs)
  <2>1. <<x>> \in Seq({x, y}) /\ <<x>> \o <<>> = <<x>>
    OBVIOUS
  <2>2. <<x>> \o <<y>> \in Seq({x, y})
    BY SentTwo
  <2>3. CASE ok /\ ready
    <3>1. Deliver(in, Room, <<x>> \o <<y>>)
      BY <1>2, <2>3
    <3> QED BY <2>2, <3>1
  <2>4. CASE ~(ok /\ ready)
    <3>1. Deliver(in, Room, <<x>>)
      BY <1>2, <2>1, <2>4
    <3> QED BY <2>1, <3>1
  <2> QED BY <2>3, <2>4
<1>7. \A l \in Links : \A i \in ToSet(net'[l]) : i \in ToSet(net[l]) \/ (l[1] = Room /\ i.to = l[2] /\ i \in {x, y})
  <2>1. \A j \in DOMAIN outs : outs[j] \in {x, y}
    OBVIOUS
  <2>2. Queues
    BY DEF TypesInv
  <2>3. \A l \in Links : \A i \in ToSet(net'[l]) :
              i \in ToSet(net[l]) \/ (l[1] = Room /\ i.to = l[2] /\ \E j \in DOMAIN outs : i = outs[j])
    BY <1>1, <1>6, <2>2, Sent1
  <2> QED BY <2>1, <2>3
<1>8. \A l \in Talk : \A i \in ToSet(net'[l]) : i \in ToSet(net[l]) \/ (l[1] = Room /\ l[2] = g /\ i = x)
  <2> TAKE l \in Talk
  <2> TAKE i \in ToSet(net'[l])
  <2>1. l \in Links /\ (l[1] = Room => l[2] # Fight)
    BY TalkIs, Services
  <2>2. i \in ToSet(net[l]) \/ (l[1] = Room /\ i.to = l[2] /\ i \in {x, y})
    BY <1>7, <2>1
  <2> QED BY <1>2, <1>3, <2>1, <2>2
<1>9. NoticesStay
  <2>1. Queues
    BY DEF TypesInv
  <2>2. \A l \in Links : \A i \in ToSet(net[l]) : i \in ToSet(net'[l]) \/ (l = in /\ i = NextOn(in))
    BY <1>1, <1>6, <2>1, HeadGone
  <2>3. \A j \in Games : <<Room, j>> \in Links /\ <<Room, j>> # in
    BY <1>1, LinksAre
  <2> QED BY <2>2, <2>3 DEF NoticesStay
<1>10. UNCHANGED <<objs, drawn>>
  BY ServiceNames
<1>11. \A l \in Talk : \A i \in ToSet(net'[l]) : i \in ToSet(net[l]) \/ Says(l, i)
  <2>1. BindOK(g, m)'
    BY <1>1, <1>10, ServiceNames, SameNamesStay, AssignedStay
  <2>2. RspOK(g, x)'
    BY <1>2, <2>1 DEF BindOK, RspOK
  <2>3. ASSUME NEW l \in Talk, l[1] = Room, l[2] = g PROVE Says(l, x)
    BY <1>2, <2>2, <2>3 DEF Says
  <2> QED BY <1>8, <2>3
\* The game role whose session it is.
<1>12. PICK e \in DOMAIN objs : /\ objs[e].game = g
                                /\ \A p \in DOMAIN objs : objs[p].room_session = s => p = e /\ objs[p].room_id = k
  BY <1>1 DEF BindOK
<1>13. ASSUME NEW o \in DOMAIN objs, NEW j, j = objs[o].room_id, NEW t, t = objs[o].room_session, LivesIn(o, j, t)
       PROVE  LivesIn(o, j, t)'
  <2>1. j \in DOMAIN rooms' /\ t \in rooms'[j].members
    BY <1>5, <1>13 DEF LivesIn
  <2>2. CASE ~(ok /\ j = k)
    <3>1. rooms'[j] = rooms[j]
      BY <1>2, <1>5, <1>13, <2>2 DEF LivesIn
    <3> QED BY <1>10, <1>13, <2>1, <3>1 DEF LivesIn
  <2>3. CASE ok /\ j = k
    <3>1. <<objs[o].role, objs[o].game>> \in rooms[k].bound
      BY <1>13, <2>3 DEF LivesIn
    <3>2. CASE objs[o].role # RoleOf(s)
      <4>1. <<objs[o].role, objs[o].game>> \in bound
        BY <3>1, <3>2 DEF bound
      <4> QED BY <1>5, <1>10, <2>1, <2>3, <4>1 DEF LivesIn
    <3>3. CASE objs[o].role = RoleOf(s)
      <4>1. t = s
        BY <1>13, <2>3, <3>3, InRoomIs
      <4>2. o = e
        BY <1>12, <1>13, <4>1
      <4>3. <<objs[o].role, objs[o].game>> \in bound
        BY <1>12, <3>3, <4>2 DEF bound
      <4> QED BY <1>5, <1>10, <2>1, <2>3, <4>3 DEF LivesIn
    <3> QED BY <3>2, <3>3
  <2> QED BY <2>2, <2>3
<1>14. ASSUME NEW o \in DOMAIN objs, Entered(o)', ~Entered(o)
       PROVE  LivesIn(o, objs[o].room_id, objs[o].room_session)'
  <2>1. PICK i \in ToSet(net'[<<Room, objs[o].game>>]) :
              i.fn = "rsp" /\ i.args.bound = TRUE /\ i.args.session = objs[o].room_session
    BY <1>10, <1>14 DEF Entered
  <2>2. i \notin ToSet(net[<<Room, objs[o].game>>])
    BY <1>14, <2>1 DEF Entered
  <2>3. <<Room, objs[o].game>> \in Talk
    BY GamesNames, TalkIs
  <2>4. i = x
    BY <1>8, <2>1, <2>2, <2>3
  <2>5. ok /\ objs[o].room_session = s
    BY <1>2, <2>1, <2>4
  <2>6. o = e /\ objs[o].room_id = k /\ objs[o].game = g
    BY <1>12, <2>5
  <2>7. s \in Sessions /\ s # None
    BY <1>4, <2>5, RolesOfSessions DEF RoomOK, RoomType
  <2>8. objs[o].role = RoleOf(s)
    BY <2>5, <2>7 DEF RoomsInv, GameInv, SessionsOwned
  <2>9. <<objs[o].role, objs[o].game>> \in bound
    BY <2>6, <2>8 DEF bound
  <2> QED BY <1>5, <1>10, <2>5, <2>6, <2>9 DEF LivesIn
<1>15. ASSUME NEW o \in DOMAIN objs, Entered(o)', Entered(o) => InLive(o)
       PROVE  InLive(o)'
  <2>1. CASE ~Entered(o)
    BY <1>10, <1>14, <1>15, <2>1 DEF InLive
  <2>2. CASE Entered(o)
    <3>1. PICK j, t : j = objs[o].room_id /\ t = objs[o].room_session
      OBVIOUS
    <3>2. ASSUME Told(o, j, t) PROVE Told(o, j, t)'
      BY <1>9, <1>10, <3>2, GamesNames DEF Told, NoticesStay, OverNotice
    <3> QED BY <1>10, <1>13, <1>15, <2>2, <3>1, <3>2 DEF InLive, ServiceOnly
  <2> QED BY <2>1, <2>2
<1> QED BY <1>11, <1>15, RoomLive

LEMMA NotFromRoom ==
  /\ \A g, j \in Games : <<g, Room>> # <<Room, j>> /\ NoLink # <<Room, j>>
  /\ \A j \in Games : <<Match, Room>> # <<Room, j>> /\ <<Fight, Room>> # <<Room, j>> /\ <<Room, Match>> # <<Room, j>>
                      /\ <<Room, Fight>> # <<Room, j>>
BY Services DEF NoLink

LEMMA StartLive ==
  ASSUME TypesInv, RoomsInv, ServiceOnly, StageInv', NEW in, in \in Links => net[in] # <<>>,
         \A g \in Games : in # <<Room, g>>, NEW k, NEW ok, CbStartFight(in, k, ok)
  PROVE  RoomsInv'
<1>1. CASE /\ k \in DOMAIN rooms /\ rooms' = [rooms EXCEPT ![k].state = "fighting"]
           /\ \E outs \in Notices(k, "notify_fight_start") : Deliver(in, Room, outs)
  <2>1. RoomOK(rooms[k])
    BY <1>1, RoomTypesAre DEF TypesInv
  <2>2. RoomsStay
    BY <1>1, <2>1 DEF RoomOK, RoomType, RoomsStay
  <2>3. TalkQuiet /\ NoticesStay
    BY <1>1, NoticesTell
  <2> QED BY <2>2, <2>3, ServiceQuiet
<1>2. CASE /\ k \in DOMAIN rooms /\ rooms' = Without(k)
           /\ \E outs \in Notices(k, "notify_terminate_room") : Deliver(in, Room, outs)
  BY <1>2, RemovedLive
<1>3. CASE Deliver(in, Room, <<>>) /\ UNCHANGED rooms
  BY <1>3, RoomTellsNone, ServiceQuiet DEF RoomsStay
<1> QED BY <1>1, <1>2, <1>3 DEF CbStartFight

LEMMA OverLive ==
  ASSUME TypesInv, RoomsInv, ServiceOnly, StageInv', net[<<Fight, Room>>] # <<>>, NEW k, NotifyFightBattleOver(k)
  PROVE  RoomsInv'
<1>1. CASE /\ k \in DOMAIN rooms /\ rooms' = Without(k)
           /\ \E outs \in Notices(k, "notify_end_room") : Deliver(<<Fight, Room>>, Room, outs)
  BY <1>1, NotFromRoom, RemovedLive
<1>2. CASE Deliver(<<Fight, Room>>, Room, <<>>) /\ UNCHANGED rooms
  BY <1>2, NotFromRoom, RoomTellsNone, ServiceQuiet DEF RoomsStay
<1> QED BY <1>1, <1>2 DEF NotifyFightBattleOver

\* The room service hears of a room, and of its fight.
LEMMA ApplyLive ==
  ASSUME TypesInv, RoomsInv, ServiceOnly, StageInv', net[<<Match, Room>>] # <<>>, NEW k, NEW members,
         OnApplyRoom(k, members)
  PROVE  RoomsInv'
<1> DEFINE x == Call(Fight, "apply_fight", <<k>>, FightCb(k, members))
           y == Answer(Match, ApplyCb(k), FALSE)
<1>1. x.to = Fight /\ y.to = Match
  BY DEF Call, Answer
<1>2. UNCHANGED rooms /\ (Deliver(<<Match, Room>>, Room, <<x>>) \/ Deliver(<<Match, Room>>, Room, <<y>>))
  BY DEF OnApplyRoom
<1> HIDE DEF x, y
<1>3. TalkQuiet /\ NoticesStay
  BY <1>1, <1>2, NotFromRoom, Services, RoomTellsOne
<1> QED BY <1>2, <1>3, ServiceQuiet DEF RoomsStay

LEMMA ApplyFightLive ==
  ASSUME TypesInv, RoomsInv, ServiceOnly, StageInv', NEW in, in \in Links => net[in] # <<>>,
         \A g \in Games : in # <<Room, g>>, NEW k, k \notin DOMAIN rooms, NEW members, NEW ok,
         CbApplyFight(in, k, members, ok)
  PROVE  RoomsInv'
<1> DEFINE y == Answer(Match, ApplyCb(k), ok)
           room == [state |-> "wait_roles_ready", members |-> members, bound |-> {}]
<1>1. Deliver(in, Room, <<y>>) /\ rooms' = IF ok THEN With(k, room) ELSE rooms
  BY DEF CbApplyFight
<1>2. y.to = Match
  BY DEF Answer
<1> HIDE DEF y, room
<1>3. TalkQuiet /\ NoticesStay
  BY <1>1, <1>2, Services, RoomTellsOne
<1>4. RoomsStay
  <2>1. \A j \in DOMAIN rooms : j \in DOMAIN rooms' /\ rooms'[j] = rooms[j]
    BY <1>1, RoomAdded
  <2> QED BY <2>1 DEF RoomsStay
<1> QED BY <1>3, <1>4, ServiceQuiet

-----------------------------------------------------------------------------
(* The whole. *)

LEMMA GameHandlesLive ==
  ASSUME TypesInv, RoomsInv, NEW g \in Games, GameHandles(g)
  PROVE  RoomsInv'
<1> DEFINE l == <<Match, g>>
           j == <<Room, g>>
<1>1. l \in Links /\ j \in Links /\ Queues /\ Carried
  BY LinksAre DEF TypesInv
<1>2. NoNotice(l)
  BY Services DEF NoNotice
<1>3. UNCHANGED <<matchVars, roomVars, broken>>
  BY DEF GameHandles
<1>4. ASSUME UNCHANGED aborted PROVE GameOnly
  BY <1>3, <1>4 DEF GameOnly
<1>5. ASSUME Takes(l, "notify_confirm_join_match"), NEW s, s = NextOn(l).args[1], NEW cb,
             NotifyConfirmJoinMatch(g, s, cb), UNCHANGED aborted
      PROVE  RoomsInv'
  <2>1. net[l] # <<>> /\ s \in Sessions
    BY <1>1, <1>5, HeadCarries DEF Carries
  <2> QED BY <1>4, <1>5, <2>1, ConfirmLive
<1>6. ASSUME Takes(l, "notify_match_succ"), NEW s, s = NextOn(l).args[1], NEW k, k = NextOn(l).args[2],
             NotifyMatchSucc(g, s, k)
      PROVE  RoomsInv'
  <2>1. net[l] # <<>> /\ s \in Sessions /\ k \in Rooms
    BY <1>1, <1>6, HeadCarries DEF Carries
  <2>2. GameOnly
    <3>1. aborted \subseteq aborted'
      BY <1>6 DEF NotifyMatchSucc
    <3> QED BY <1>3, <3>1 DEF GameOnly
  <2> QED BY <1>6, <2>1, <2>2, NotifyMatchSuccLive
<1>7. ASSUME Takes(l, "rsp"), NEW cb \in gcalls, NEW ok, CbJoinMatch(l, cb[2], cb[3], ok), UNCHANGED aborted
      PROVE  RoomsInv'
  <2>1. net[l] # <<>> /\ cb[2] \in DOMAIN objs
    BY <1>7 DEF Takes, TypesInv, GameTypes
  <2> QED BY <1>2, <1>4, <1>7, <2>1, CbJoinLive
<1>8. ASSUME NEW i \in {l, j}, Ignores(i, gcalls), UNCHANGED <<gameVars, aborted>>
      PROVE  RoomsInv'
  <2>1. net[i] # <<>> /\ Deliver(i, i[2], <<>>) /\ UNCHANGED <<objs, in_game, drawn>> /\ NextOn(i).fn = "rsp"
    BY <1>8 DEF Ignores, Takes, gameVars
  <2>2. NoNotice(i)
    BY <2>1 DEF NoNotice
  <2> QED BY <1>4, <1>8, <2>1, <2>2, NothingSaid, IgnoredLive
<1>9. ASSUME Takes(j, "notify_fight_start"), NEW k, NEW s, s = NextOn(j).args[2], NotifyFightStart(g, k, s),
             UNCHANGED aborted
      PROVE  RoomsInv'
  <2>1. s \in Sessions
    BY <1>1, <1>9, HeadCarries DEF Carries
  <2> QED BY <1>4, <1>9, <2>1, FightStartLive
<1>10. ASSUME Takes(j, "notify_end_room") \/ Takes(j, "notify_terminate_room"), NEW m, m = NextOn(j),
              NEW k, k = m.args[1], NEW s, s = m.args[2], NotifyEndOrTerminateRoom(g, k, s), UNCHANGED aborted
       PROVE  RoomsInv'
  <2>1. net[j] # <<>> /\ m.fn \in {"notify_end_room", "notify_terminate_room"} /\ s \in Sessions
    BY <1>1, <1>10, HeadCarries DEF Carries
  <2> QED BY <1>4, <1>10, <2>1, RoomOverLive
<1>11. ASSUME Takes(j, "rsp"), NEW m, m = NextOn(j), NEW o, o = m.cb[2], NEW n, NEW rsp, rsp = m.args,
              CbBindRoom(j, o, n, rsp), UNCHANGED aborted
       PROVE  RoomsInv'
  BY <1>4, <1>11, CbBindLive
<1> DEFINE FromMatch ==
             \/ /\ Takes(l, "notify_confirm_join_match")
                /\ NotifyConfirmJoinMatch(g, NextOn(l).args[1], NextOn(l).cb)
                /\ UNCHANGED aborted
             \/ /\ Takes(l, "notify_match_succ")
                /\ NotifyMatchSucc(g, NextOn(l).args[1], NextOn(l).args[2])
             \/ /\ Takes(l, "rsp") /\ NextOn(l).cb \in gcalls
                /\ CbJoinMatch(l, NextOn(l).cb[2], NextOn(l).cb[3], NextOn(l).args)
                /\ UNCHANGED aborted
             \/ Ignores(l, gcalls) /\ UNCHANGED <<gameVars, aborted>>
           FromRoom ==
             /\ \/ /\ Takes(j, "notify_fight_start")
                   /\ NotifyFightStart(g, NextOn(j).args[1], NextOn(j).args[2])
                \/ /\ Takes(j, "notify_end_room") \/ Takes(j, "notify_terminate_room")
                   /\ NotifyEndOrTerminateRoom(g, NextOn(j).args[1], NextOn(j).args[2])
                \/ /\ Takes(j, "rsp")
                   /\ CbBindRoom(j, NextOn(j).cb[2], NextOn(j).cb[3], NextOn(j).args)
                \/ Ignores(j, gcalls) /\ UNCHANGED gameVars
             /\ UNCHANGED aborted
<1>12. FromMatch \/ FromRoom
  BY DEF GameHandles
<1> HIDE DEF l, j
<1>13. CASE FromMatch
  BY <1>5, <1>6, <1>7, <1>8, <1>13
<1>14. CASE FromRoom
  BY <1>8, <1>9, <1>10, <1>11, <1>14
<1> QED BY <1>12, <1>13, <1>14

\* Handlers that die are not forgotten.
LEMMA MatchAborts ==
  ASSUME NEW in, NEW k, NEW s, NEW accept,
         CbNotifyConfirmJoinMatch(in, k, s, accept) \/ CbApplyRoom(in, k, accept)
  PROVE  aborted \subseteq aborted'
BY DEF CbNotifyConfirmJoinMatch, CbApplyRoom, TimeOver, CountAnswer, ApplyRoom

LEMMA MatchHandlesLive ==
  ASSUME TypesInv, MatchInv, RoomsInv, MatchHandles
  PROVE  RoomsInv'
<1>1. StageInv' /\ Elsewhere
  BY MatchHandlesStages DEF RoomsInv
<1>2. aborted \subseteq aborted'
  BY MatchAborts DEF MatchHandles
<1>3. ServiceOnly /\ UNCHANGED roomVars
  BY <1>2 DEF MatchHandles, ServiceOnly
<1> QED BY <1>1, <1>3, MatchLive

LEMMA MatchUpdatesLive ==
  ASSUME TypesInv, MatchInv, RoomsInv, MatchUpdates
  PROVE  RoomsInv'
<1>1. UpdateLogic /\ UNCHANGED <<gameVars, roomVars, broken, aborted>>
  BY DEF MatchUpdates
<1>2. UNCHANGED drawn
  BY <1>1 DEF gameVars
<1>3. StageInv' /\ Elsewhere
  BY <1>1, <1>2, UpdateStages DEF RoomsInv
<1>4. ServiceOnly
  BY <1>1 DEF ServiceOnly
<1> QED BY <1>1, <1>3, <1>4, MatchLive

LEMMA RoomHandlesLive ==
  ASSUME TypesInv, RoomsInv, RoomHandles
  PROVE  RoomsInv'
<1>0. UNCHANGED <<cells, waiting, drawn>> /\ ServiceOnly
  BY DEF RoomHandles, gameVars, matchVars, ServiceOnly
<1>1. StageInv' /\ StageInv
  BY RoomHandlesStages DEF RoomsInv
<1> DEFINE a == <<Match, Room>>
           f == <<Fight, Room>>
<1>2. \A g \in Games : f # <<Room, g>>
  BY NotFromRoom
<1>3. ASSUME Takes(a, "apply_room"), NEW k, NEW members, OnApplyRoom(k, members)
      PROVE  RoomsInv'
  BY <1>0, <1>1, <1>3, ApplyLive DEF Takes
<1>4. ASSUME NEW g \in Games, NEW m, m = NextOn(<<g, Room>>), Takes(<<g, Room>>, "bind_room"),
             OnBindRoom(g, m.args[1], m.args[2], m.cb)
      PROVE  RoomsInv'
  BY <1>0, <1>1, <1>4, BindLive
<1>5. ASSUME NEW k, NEW members, NEW ok, Takes(f, "rsp"), CbApplyFight(f, k, members, ok)
      PROVE  RoomsInv'
  <2>1. net[f] # <<>>
    BY <1>5 DEF Takes
  <2>2. k \notin DOMAIN rooms
    BY <1>0, <1>1, <1>5, <2>1, ApplyFightStages
  <2> QED BY <1>0, <1>1, <1>2, <1>5, <2>1, <2>2, ApplyFightLive
<1>6. ASSUME NEW k, NEW ok, Takes(f, "rsp"), CbStartFight(f, k, ok)
      PROVE  RoomsInv'
  BY <1>0, <1>1, <1>2, <1>6, StartLive DEF Takes
<1>7. ASSUME Ignores(f, rcalls), UNCHANGED roomVars
      PROVE  RoomsInv'
  <2>1. net[f] # <<>> /\ Deliver(f, Room, <<>>) /\ UNCHANGED <<rooms, rcalls>>
    BY <1>7 DEF Ignores, Takes, roomVars
  <2>2. RoomsStay
    BY <2>1 DEF RoomsStay
  <2> QED BY <1>0, <1>1, <1>2, <2>1, <2>2, RoomTellsNone, ServiceQuiet
<1>8. ASSUME NEW k, Takes(f, "notify_fight_battle_over"), NotifyFightBattleOver(k)
      PROVE  RoomsInv'
  BY <1>0, <1>1, <1>8, OverLive DEF Takes
<1> HIDE DEF a, f
<1> QED BY <1>3, <1>4, <1>5, <1>6, <1>7, <1>8 DEF RoomHandles, a, f

LEMMA FightLive ==
  ASSUME TypesInv, RoomsInv, FightHandles \/ FightUpdates
  PROVE  RoomsInv'
<1> DEFINE l == <<Room, Fight>>
<1>1. UNCHANGED <<gameVars, matchVars, roomVars, broken, aborted>>
  BY DEF FightHandles, FightUpdates
<1>2. PICK in, x : /\ in \in {l, NoLink} /\ (in \in Links => net[in] # <<>>)
                   /\ Deliver(in, Fight, <<x>>) /\ x.fn \notin {"join_match", "apply_room"}
  <2>1. ASSUME NEW cb, NEW ok, net[l] # <<>>, Deliver(l, Fight, <<Answer(Room, cb, ok)>>)
        PROVE  \E in, x : /\ in \in {l, NoLink} /\ (in \in Links => net[in] # <<>>)
                          /\ Deliver(in, Fight, <<x>>) /\ x.fn \notin {"join_match", "apply_room"}
    <3>1. PICK x : x = Answer(Room, cb, ok)
      OBVIOUS
    <3>2. x.fn = "rsp"
      BY <3>1 DEF Answer
    <3> HIDE DEF l
    <3> QED BY <2>1, <3>1, <3>2
  <2>2. ASSUME NEW k, CheckFightOver(k)
        PROVE  \E in, x : /\ in \in {l, NoLink} /\ (in \in Links => net[in] # <<>>)
                          /\ Deliver(in, Fight, <<x>>) /\ x.fn \notin {"join_match", "apply_room"}
    <3>1. PICK x : x = Call(Room, "notify_fight_battle_over", <<k>>, NoCb)
      OBVIOUS
    <3>2. x.fn = "notify_fight_battle_over" /\ Deliver(NoLink, Fight, <<x>>)
      BY <2>2, <3>1 DEF Call, CheckFightOver
    <3> HIDE DEF l
    <3> QED BY <3>2, NoLinkIsNone
  <2> HIDE DEF l
  <2> QED BY <2>1, <2>2 DEF FightHandles, FightUpdates, OnApplyFight, OnStartFight, Takes, l
<1>3. Fight # Room /\ Fight \notin Games /\ Fight # Match /\ in \notin Talk
  BY <1>2, Services, TalkIs
<1>4. Queues /\ Onces
  BY StagesUse DEF RoomsInv
<1>5. NetQuiet
  BY <1>2, <1>3, <1>4, QuietOne
<1>6. Elsewhere
  <2> DEFINE outs == <<x>>
             S == {x}
  <2>1. outs \in Seq(S) /\ Deliver(in, Fight, outs)
    BY <1>2
  <2> HIDE DEF outs, S
  <2> QED BY <1>2, <1>3, <1>4, <2>1, ElsewhereSent
<1>7. StageInv'
  BY <1>1, <1>5, StageKeptThere DEF RoomsInv, gameVars, matchVars
<1>8. ServiceOnly
  BY <1>1 DEF ServiceOnly
<1> QED BY <1>1, <1>6, <1>7, <1>8, MatchLive

LEMMA RoomUpdatesLive ==
  ASSUME TypesInv, RoomsInv, RoomUpdates
  PROVE  RoomsInv'
<1>1. PICK k \in DOMAIN rooms : CheckRemoveWaitRoleReadyExpireRooms(k)
  BY DEF RoomUpdates
<1>2. UNCHANGED <<cells, waiting, drawn>>
  BY DEF RoomUpdates, gameVars, matchVars
<1>3. ServiceOnly
  BY <1>1 DEF RoomUpdates, ServiceOnly, CheckRemoveWaitRoleReadyExpireRooms
<1>4. StageInv'
  BY <1>1, <1>2, ExpiredStages DEF RoomsInv
<1> QED BY <1>1, <1>3, <1>4, ExpiredLive

LEMMA GameStepsLive ==
  ASSUME TypesInv, RoomsInv, GameSteps
  PROVE  RoomsInv'
<1>1. GameOnly
  BY DEF GameSteps, GameOnly
<1> QED BY <1>1, JoinLive, QuitLive, ReleaseLive, LaunchLive DEF GameSteps

LEMMA GiveUpLive ==
  ASSUME TypesInv, MatchInv, RoomsInv, GiveUp
  PROVE  RoomsInv'
<1>0. UNCHANGED broken /\ NoLink \notin Talk /\ NoLink # <<Match, Room>> /\ StageInv /\ NoNotice(NoLink)
      /\ \A g \in Games : NoLink # <<Room, g>>
  BY TalkIs, LinksAre DEF GiveUp, RoomsInv, NoNotice
<1>1. CASE UNCHANGED <<matchVars, roomVars, aborted>> /\ \E cb \in gcalls :
             \/ cb[1] = "join" /\ CbJoinMatch(NoLink, cb[2], cb[3], FALSE)
             \/ cb[1] = "bind" /\ (BindFailed(cb[2], cb[3]) \/ BindExpired(cb[2], cb[3]))
  <2>1. GameOnly
    BY <1>0, <1>1 DEF GameOnly
  <2>2. PICK cb \in gcalls :
             \/ cb[1] = "join" /\ CbJoinMatch(NoLink, cb[2], cb[3], FALSE)
             \/ cb[1] = "bind" /\ (BindFailed(cb[2], cb[3]) \/ BindExpired(cb[2], cb[3]))
    BY <1>1
  <2>3. PICK o, n : o = cb[2] /\ n = cb[3]
    OBVIOUS
  <2>4. o \in DOMAIN objs
    BY <2>3 DEF TypesInv, GameTypes
  <2>5. ASSUME BindFailed(o, n) PROVE RoomsInv'
    <3>1. Deliver(NoLink, objs[o].game, <<>>) /\ UNCHANGED <<objs, in_game, drawn>>
      BY <2>5 DEF BindFailed
    <3> QED BY <1>0, <2>1, <3>1, NoLinkIsNone, NothingSaid, IgnoredLive
  <2> QED BY <1>0, <1>1, <2>1, <2>2, <2>3, <2>4, <2>5, NoLinkIsNone, CbJoinLive, BindExpiredLive
<1>2. CASE UNCHANGED <<gameVars, roomVars>> /\ \E cb \in mcalls :
             \/ /\ cb[1] = "notify_confirm_join_match"
                /\ CbNotifyConfirmJoinMatch(NoLink, cb[2], cb[3], FALSE)
             \/ cb[1] = "apply_room" /\ CbApplyRoom(NoLink, cb[2], FALSE)
  <2>1. PICK k, s : CbNotifyConfirmJoinMatch(NoLink, k, s, FALSE) \/ CbApplyRoom(NoLink, k, FALSE)
    BY <1>2
  <2>2. UNCHANGED drawn
    BY <1>2 DEF gameVars
  <2>3. StageInv' /\ Elsewhere
    BY <1>0, <1>2, <2>1, <2>2, NoLinkIsNone, ConfirmStages, ApplyAnswerStages
  <2>4. ServiceOnly
    BY <1>0, <1>2, <2>1, MatchAborts DEF ServiceOnly
  <2> QED BY <1>2, <2>3, <2>4, MatchLive
<1>3. CASE UNCHANGED <<gameVars, matchVars, aborted>> /\ \E cb \in rcalls :
             \/ cb[1] = "apply_fight" /\ CbApplyFight(NoLink, cb[2], cb[3], FALSE)
             \/ cb[1] = "start_fight" /\ CbStartFight(NoLink, cb[2], FALSE)
  <2>1. PICK k, members : CbApplyFight(NoLink, k, members, FALSE) \/ CbStartFight(NoLink, k, FALSE)
    BY <1>3
  <2>2. UNCHANGED <<cells, waiting, drawn>> /\ ServiceOnly
    BY <1>0, <1>3 DEF gameVars, matchVars, ServiceOnly
  <2>3. CASE CbApplyFight(NoLink, k, members, FALSE)
    <3>1. StageInv' /\ k \notin DOMAIN rooms
      BY <1>0, <2>2, <2>3, NoLinkIsNone, ApplyFightStages
    <3> QED BY <1>0, <2>2, <2>3, <3>1, NoLinkIsNone, ApplyFightLive
  <2>4. CASE CbStartFight(NoLink, k, FALSE)
    <3>1. StageInv'
      BY <1>0, <2>2, <2>4, NoLinkIsNone, StartStages
    <3> QED BY <1>0, <2>2, <2>4, <3>1, NoLinkIsNone, StartLive
  <2> QED BY <2>1, <2>3, <2>4
<1> QED BY <1>1, <1>2, <1>3 DEF GiveUp

\* What is lost with a connection is not told any more.
LEMMA BreaksLive ==
  ASSUME TypesInv, RoomsInv, Breaks
  PROVE  RoomsInv'
<1>1. PICK l \in Links : Break(l)
  BY DEF Breaks
<1>2. UNCHANGED <<gameVars, matchVars, roomVars>> /\ broken' = TRUE
  BY <1>1 DEF Breaks, Break
<1>3. UNCHANGED <<objs, in_game, drawn, cells, waiting, rooms>> /\ SameNames
  BY <1>2 DEF gameVars, matchVars, roomVars, SameNames
<1>4. NetQuiet
  BY <1>1, StagesUse, QuietBroken DEF RoomsInv
<1>5. StageInv'
  BY <1>2, <1>3, <1>4, StageKeptThere DEF RoomsInv
<1>6. TalkQuiet
  <2>1. \A i \in Links : \A m \in ToSet(net'[i]) : m \in ToSet(net[i])
    BY <1>1, BreakPasses DEF TypesInv
  <2> QED BY <2>1, TalkIs DEF TalkQuiet
<1>7. GameInv'
  <2>1. RoomsNamed'
    BY <1>3 DEF RoomsInv, GameInv, RoomsNamed
  <2>2. \A r \in Roles : in_game'[r] \in {0, in_game[r]}
    BY <1>3
  <2> QED BY <1>3, <1>6, <2>1, <2>2, QuietSays, SameGame DEF RoomsInv
<1>8. LiveInv'
  BY <1>2 DEF LiveInv
<1> QED BY <1>5, <1>7, <1>8 DEF RoomsInv

LEMMA RoomsKept ==
  ASSUME TypesInv, MatchInv, RoomsInv, Next
  PROVE  RoomsInv'
BY GameHandlesLive, MatchHandlesLive, RoomHandlesLive, FightLive, GameStepsLive, MatchUpdatesLive,
   RoomUpdatesLive, GiveUpLive, BreaksLive DEF Next

LEMMA InitRooms == Init => RoomsInv
<1> SUFFICES ASSUME Init PROVE RoomsInv
  OBVIOUS
<1>1. /\ net = [l \in Links |-> <<>>] /\ objs = <<>> /\ in_game = [r \in Roles |-> 0] /\ DOMAIN objs = {}
      /\ cells = {} /\ waiting = {} /\ rooms = <<>> /\ DOMAIN rooms = {} /\ rcalls = {}
  BY DEF Init, NetInit, GInit, MInit, RInit
<1>2. \A l \in Links : net[l] = <<>> /\ ToSet(net[l]) = {} /\ DOMAIN net[l] = {}
  BY <1>1 DEF ToSet
<1>3. Onces
  BY <1>2, AsksAre DEF Onces, Once
<1>4. \A k : ~Applied(k) /\ ~FightAsked(k) /\ ~Roomed(k)
  BY <1>1, <1>2, AsksAre, LinksAre DEF FightAsked, Roomed
<1>5. Apart /\ Placed /\ Stages
  BY <1>1, <1>4 DEF Apart, Placed, Stages
<1>6. Mates
  BY <1>1, <1>2, LinksAre DEF Mates
<1>7. GameInv
  BY <1>1, <1>2, LinksAre DEF GameInv, SessionsOwned, RoomsNamed, RolesInGame, Talked
<1>8. LiveInv
  BY <1>1 DEF LiveInv
<1> QED BY <1>3, <1>5, <1>6, <1>7, <1>8 DEF RoomsInv, StageInv

\* A role that is in a room is in one the room service has and that will tell it of
\* the end, or is about to be told (role_room.lua:46-107,
\* room_mgr__process_rpc.lua:44-127): every message, every call given up and every
\* role released and launched again in between, with as many roles, games and
\* matches as there may be.
THEOREM RolesAreInLiveRooms == Spec => []InLiveRoom
<1> DEFINE Inv == TypesInv /\ MatchInv /\ RoomsInv
<1>1. Init => Inv
  BY InitTypes, InitMatch, InitRooms
<1>2. Inv /\ [Next]_vars => RoomsInv'
  <2>1. ASSUME TypesInv, RoomsInv, UNCHANGED vars
        PROVE  RoomsInv'
    <3>1. UNCHANGED <<net, broken, aborted, gameVars, matchVars, roomVars>>
      BY <2>1 DEF vars, netVars
    <3>2. GameOnly /\ UNCHANGED <<objs, in_game, drawn>>
      BY <3>1 DEF GameOnly, gameVars
    <3> QED BY <2>1, <3>1, <3>2, NobodySaid, IgnoredLive
  <2> QED BY <2>1, RoomsKept
<1>3. Inv /\ [Next]_vars => Inv'
  BY <1>2, TypesAndMatchKept
<1>4. Inv => InLiveRoom
  BY LiveIsEnough DEF RoomsInv
<1> QED BY <1>1, <1>3, <1>4, PTL DEF Spec
=============================================================================
