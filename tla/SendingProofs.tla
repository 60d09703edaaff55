---------------------------- MODULE SendingProofs ----------------------------
(***************************************************************************)
(* Facts about sequences of messages: what a service sends to another one,  *)
(* the rest of a link, and a link with something added.                    *)
(***************************************************************************)
EXTENDS Sending, SequencesExt, WellFoundedInduction, TLAPS

\* A set of numbers has a least one.
LEMMA LeastOf ==
  ASSUME NEW T \in SUBSET Nat, T # {}
  PROVE  \E x \in T : \A y \in T : x <= y
<1> DEFINE R == {ss \in Nat \X Nat : ss[1] < ss[2]}
<1>1. IsWellFoundedOn(R, Nat)
  BY NatLessThanWellFounded DEF OpToRel
<1>2. \E x \in T : \A y \in T : ~(<<y, x>> \in R)
  <2> HIDE DEF R
  <2> QED BY <1>1, WFMin
<1>3. PICK x \in T : \A y \in T : ~(<<y, x>> \in R)
  BY <1>2
<1>4. \A y \in T : x <= y
  <2> TAKE y \in T
  <2>1. x \in Nat /\ y \in Nat /\ ~(y < x)
    BY <1>3
  <2> QED BY <2>1
<1> QED BY <1>4

\* The function by which messages are sent to a service, as far as the n-th.
Sends(f, outs, d, n) ==
  f = [i \in 0..n |-> IF i = 0 THEN <<>>
                      ELSE IF outs[i].to = d THEN Append(f[i - 1], outs[i]) ELSE f[i - 1]]

\* The recursive function by which messages are sent to a service exists.
LEMMA SentExists ==
  ASSUME NEW outs, NEW d, NEW n \in Nat
  PROVE  \E f : Sends(f, outs, d, n)
<1> DEFINE Is(f, k) == Sends(f, outs, d, k)
           T == {k \in Nat : ~ \E f : Is(f, k)}
<1>1. SUFFICES ASSUME T # {} PROVE FALSE
  OBVIOUS
<1>2. PICK k \in T : \A j \in T : k <= j
  <2>1. T \in SUBSET Nat
    OBVIOUS
  <2> HIDE DEF T
  <2> QED BY <1>1, <2>1, LeastOf
<1>3. CASE k = 0
  <2>1. [j \in 0..0 |-> <<>>] = [i \in 0..0 |-> IF i = 0 THEN <<>>
          ELSE IF outs[i].to = d THEN Append([j \in 0..0 |-> <<>>][i - 1], outs[i])
          ELSE [j \in 0..0 |-> <<>>][i - 1]]
    BY \A i \in 0..0 : i = 0
  <2>2. \E f : Is(f, 0)
    BY <2>1 DEF Sends
  <2> HIDE DEF Is
  <2> QED BY <1>2, <1>3, <2>2
<1>4. CASE k # 0
  <2>1. k \in Nat /\ k - 1 \in Nat /\ ~(k <= k - 1)
    BY <1>4
  <2>2. k - 1 \notin T
    BY <1>2, <2>1
  <2>3. PICK f : Is(f, k - 1)
    BY <2>1, <2>2
  <2> DEFINE g == [i \in 0..k |-> IF i = k THEN (IF outs[k].to = d THEN Append(f[k - 1], outs[k]) ELSE f[k - 1])
                                 ELSE f[i]]
  <2>4. ASSUME NEW i \in 0..k
        PROVE  g[i] = IF i = 0 THEN <<>>
                      ELSE IF outs[i].to = d THEN Append(g[i - 1], outs[i]) ELSE g[i - 1]
    <3>1. CASE i = k
      <4>1. g[i] = IF outs[k].to = d THEN Append(f[k - 1], outs[k]) ELSE f[k - 1]
        BY <3>1
      <4>2. i # 0 /\ g[i - 1] = f[k - 1]
        BY <1>4, <2>1, <3>1
      <4> QED BY <3>1, <4>1, <4>2
    <3>2. CASE i # k
      <4>1. i \in 0..(k - 1) /\ g[i] = f[i]
        BY <2>1, <3>2
      <4>2. i # 0 => i - 1 \in 0..(k - 1) /\ g[i - 1] = f[i - 1]
        BY <2>1, <3>2
      <4>3. f[i] = IF i = 0 THEN <<>>
                   ELSE IF outs[i].to = d THEN Append(f[i - 1], outs[i]) ELSE f[i - 1]
        BY <2>3, <4>1 DEF Sends
      <4> HIDE DEF g
      <4> QED BY <4>1, <4>2, <4>3
    <3> QED BY <3>1, <3>2
  <2>5. Is(g, k)
    <3>1. g = [i \in 0..k |-> g[i]]
      OBVIOUS
    <3> HIDE DEF g
    <3> QED BY <2>4, <3>1 DEF Sends
  <2> QED BY <1>2, <2>5
<1> QED BY <1>3, <1>4

\* What is sent is its value at the last message.
LEMMA SentToIs ==
  ASSUME NEW outs, NEW d, Len(outs) \in Nat
  PROVE  \E f : /\ SentTo(outs, d) = f[Len(outs)]
               /\ \A i \in 0..Len(outs) :
                    f[i] = IF i = 0 THEN <<>>
                           ELSE IF outs[i].to = d THEN Append(f[i - 1], outs[i]) ELSE f[i - 1]
<1> DEFINE F == CHOOSE f : Sends(f, outs, d, Len(outs))
<1>1. Sends(F, outs, d, Len(outs))
  BY SentExists
<1>2. SentTo(outs, d) = F[Len(outs)]
  BY DEF SentTo, Sends
<1> HIDE DEF F
<1> QED BY <1>1, <1>2 DEF Sends

\* What is sent to a service is what is addressed to it.
LEMMA SentToOf ==
  ASSUME NEW S, NEW outs \in Seq(S), NEW d
  PROVE  /\ SentTo(outs, d) \in Seq(S)
         /\ \A i \in DOMAIN SentTo(outs, d) :
              \E j \in DOMAIN outs : SentTo(outs, d)[i] = outs[j] /\ outs[j].to = d
         /\ \A j \in DOMAIN outs :
              outs[j].to = d => \E i \in DOMAIN SentTo(outs, d) : SentTo(outs, d)[i] = outs[j]
<1>1. Len(outs) \in Nat /\ DOMAIN outs = 1..Len(outs) /\ \A i \in 1..Len(outs) : outs[i] \in S
  OBVIOUS
<1>2. PICK f : /\ SentTo(outs, d) = f[Len(outs)]
               /\ \A i \in 0..Len(outs) :
                    f[i] = IF i = 0 THEN <<>>
                           ELSE IF outs[i].to = d THEN Append(f[i - 1], outs[i]) ELSE f[i - 1]
  BY <1>1, SentToIs
<1> DEFINE Good(n) ==
             /\ f[n] \in Seq(S)
             /\ \A i \in DOMAIN f[n] : \E j \in 1..Len(outs) : f[n][i] = outs[j] /\ outs[j].to = d
             /\ \A j \in 1..n : outs[j].to = d => \E i \in DOMAIN f[n] : f[n][i] = outs[j]
           T == {n \in 0..Len(outs) : ~Good(n)}
<1>3. T = {}
  <2> SUFFICES ASSUME T # {} PROVE FALSE
    OBVIOUS
  <2>1. PICK n \in T : \A j \in T : n <= j
    <3>1. T \in SUBSET Nat
      BY <1>1
    <3> HIDE DEF T
    <3> QED BY <3>1, LeastOf
  <2>2. n \in 0..Len(outs) /\ ~Good(n)
    OBVIOUS
  <2>3. CASE n = 0
    <3>1. f[0] = <<>>
      BY <1>1, <1>2
    <3>2. <<>> \in Seq(S) /\ DOMAIN <<>> = {}
      OBVIOUS
    <3>3. 1..0 = {}
      OBVIOUS
    <3>4. Good(0)
      BY <3>1, <3>2, <3>3
    <3> QED BY <2>2, <2>3, <3>4
  <2>4. CASE n # 0
    <3>1. n - 1 \in 0..Len(outs) /\ ~(n <= n - 1) /\ n \in 1..Len(outs)
          /\ \A j \in 1..n : j = n \/ j \in 1..(n - 1)
      BY <1>1, <2>2, <2>4
    <3>2. n - 1 \notin T
      BY <2>1, <3>1
    <3>3. Good(n - 1)
      BY <3>1, <3>2
    <3>4. f[n] = IF outs[n].to = d THEN Append(f[n - 1], outs[n]) ELSE f[n - 1]
      BY <1>2, <2>2, <2>4
    <3>5. CASE outs[n].to # d
      <4>1. f[n] = f[n - 1]
        BY <3>4, <3>5
      <4>2. Good(n)
        BY <3>1, <3>3, <3>5, <4>1
      <4> QED BY <2>2, <4>2
    <3>6. CASE outs[n].to = d
      <4> DEFINE a == f[n - 1]
                 b == Append(a, outs[n])
      <4>1. f[n] = b
        BY <3>4, <3>6
      <4>2. outs[n] \in S /\ a \in Seq(S)
        BY <1>1, <3>1, <3>3
      <4>3. /\ b \in Seq(S) /\ Len(b) = Len(a) + 1 /\ Len(a) \in Nat
            /\ DOMAIN a = 1..Len(a) /\ DOMAIN b = 1..Len(b)
            /\ \A i \in 1..Len(a) : b[i] = a[i]
            /\ b[Len(a) + 1] = outs[n]
        <5> HIDE DEF a
        <5> QED BY <4>2
      <4>4. /\ \A i \in DOMAIN b : i \in DOMAIN a \/ i = Len(a) + 1
            /\ \A i \in DOMAIN a : i \in DOMAIN b /\ b[i] = a[i]
            /\ Len(a) + 1 \in DOMAIN b
        <5> HIDE DEF a, b
        <5> QED BY <4>3
      <4>5. \A i \in DOMAIN a : \E j \in 1..Len(outs) : a[i] = outs[j] /\ outs[j].to = d
        BY <3>3
      <4>6. \A j \in 1..(n - 1) : outs[j].to = d => \E i \in DOMAIN a : a[i] = outs[j]
        BY <3>3
      <4> HIDE DEF a, b
      <4>7. \A i \in DOMAIN b : \E j \in 1..Len(outs) : b[i] = outs[j] /\ outs[j].to = d
        BY <3>1, <3>6, <4>3, <4>4, <4>5
      <4>8. \A j \in 1..n : outs[j].to = d => \E i \in DOMAIN b : b[i] = outs[j]
        BY <3>1, <4>3, <4>4, <4>6
      <4>9. Good(n)
        BY <4>1, <4>3, <4>7, <4>8
      <4> QED BY <2>2, <4>9
    <3> QED BY <3>5, <3>6
  <2> QED BY <2>3, <2>4
<1>4. Good(Len(outs))
  <2>1. Len(outs) \in 0..Len(outs)
    BY <1>1
  <2> HIDE DEF Good
  <2> QED BY <1>3, <2>1
<1> HIDE DEF Good
<1>7. Good(Len(outs)) <=>
        /\ SentTo(outs, d) \in Seq(S)
        /\ \A i \in DOMAIN SentTo(outs, d) :
             \E j \in 1..Len(outs) : SentTo(outs, d)[i] = outs[j] /\ outs[j].to = d
        /\ \A j \in 1..Len(outs) :
             outs[j].to = d => \E i \in DOMAIN SentTo(outs, d) : SentTo(outs, d)[i] = outs[j]
  <2>1. f[Len(outs)] = SentTo(outs, d)
    BY <1>2
  <2> QED BY Zenon, <2>1 DEF Good
<1>5. \A j \in DOMAIN outs : outs[j].to = d => \E i \in DOMAIN SentTo(outs, d) : SentTo(outs, d)[i] = outs[j]
  BY Zenon, <1>1, <1>4, <1>7
<1>6. \A i \in DOMAIN SentTo(outs, d) :
        \E j \in DOMAIN outs : SentTo(outs, d)[i] = outs[j] /\ outs[j].to = d
  BY Zenon, <1>1, <1>4, <1>7
<1> QED BY <1>4, <1>5, <1>6, <1>7

\* A sequence is one over its own elements.
LEMMA OwnRange ==
  ASSUME NEW S, NEW s \in Seq(S)
  PROVE  s \in Seq(ToSet(s))
<1>1. Len(s) \in Nat /\ s \in [1..Len(s) -> S] /\ DOMAIN s = 1..Len(s)
  OBVIOUS
<1>2. s \in [1..Len(s) -> ToSet(s)]
  BY <1>1 DEF ToSet
<1> HIDE DEF ToSet
<1> QED BY <1>1, <1>2

\* Something is added to a link.
LEMMA ConcatOf ==
  ASSUME NEW S, NEW a \in Seq(S), NEW b \in Seq(S)
  PROVE  /\ a \o b \in Seq(S)
         /\ \A i \in DOMAIN (a \o b) :
              \/ i \in DOMAIN a /\ (a \o b)[i] = a[i]
              \/ \E j \in DOMAIN b : (a \o b)[i] = b[j]
         /\ \A i \in DOMAIN a : i \in DOMAIN (a \o b) /\ (a \o b)[i] = a[i]
         /\ \A j \in DOMAIN b : \E i \in DOMAIN (a \o b) : (a \o b)[i] = b[j]
<1>1. /\ Len(a) \in Nat /\ Len(b) \in Nat
      /\ DOMAIN a = 1..Len(a) /\ DOMAIN b = 1..Len(b)
      /\ DOMAIN (a \o b) = 1..(Len(a) + Len(b))
      /\ \A i \in 1..(Len(a) + Len(b)) : (a \o b)[i] = IF i <= Len(a) THEN a[i] ELSE b[i - Len(a)]
  OBVIOUS
<1>2. \A j \in 1..Len(b) : j + Len(a) \in 1..(Len(a) + Len(b)) /\ ~(j + Len(a) <= Len(a))
                           /\ (j + Len(a)) - Len(a) = j
  BY <1>1
<1>3. \A i \in 1..(Len(a) + Len(b)) : i \in 1..Len(a) \/ (~(i <= Len(a)) /\ i - Len(a) \in 1..Len(b))
  BY <1>1
<1>4. a \o b \in Seq(S)
  OBVIOUS
<1>5. \A i \in DOMAIN a : i \in DOMAIN (a \o b) /\ (a \o b)[i] = a[i]
  BY <1>1
<1>6. \A i \in DOMAIN (a \o b) :
        \/ i \in DOMAIN a /\ (a \o b)[i] = a[i]
        \/ \E j \in DOMAIN b : (a \o b)[i] = b[j]
  BY <1>1, <1>3
<1>7. ASSUME NEW j \in DOMAIN b
      PROVE  \E i \in DOMAIN (a \o b) : (a \o b)[i] = b[j]
  BY <1>1, <1>2
<1> QED BY <1>4, <1>5, <1>6, <1>7

\* The head of a link is taken.
LEMMA TailOf ==
  ASSUME NEW S, NEW s \in Seq(S), s # <<>>
  PROVE  /\ 1 \in DOMAIN s /\ s[1] = Head(s) /\ Tail(s) \in Seq(S)
         /\ \A i \in DOMAIN Tail(s) : i + 1 \in DOMAIN s /\ Tail(s)[i] = s[i + 1] /\ i \in Nat /\ i # 0
         /\ \A i \in DOMAIN s : i # 1 => \E j \in DOMAIN Tail(s) : Tail(s)[j] = s[i]
<1>1. /\ Len(s) \in Nat /\ Len(s) >= 1 /\ DOMAIN s = 1..Len(s) /\ s[1] = Head(s)
      /\ DOMAIN Tail(s) = 1..(Len(s) - 1) /\ Tail(s) \in Seq(S)
      /\ \A i \in 1..(Len(s) - 1) : Tail(s)[i] = s[i + 1]
  OBVIOUS
<1>2. \A i \in DOMAIN s : i # 1 => i - 1 \in 1..(Len(s) - 1) /\ (i - 1) + 1 = i
  BY <1>1
<1> QED BY <1>1, <1>2

\* What is sent to a service, of at most three messages.
LEMMA SentFew ==
  /\ \A d : SentTo(<<>>, d) = <<>>
  /\ \A a, d : SentTo(<<a>>, d) = IF a.to = d THEN <<a>> ELSE <<>>
  /\ \A a, b, d : a.to # d => SentTo(<<a, b>>, d) = IF b.to = d THEN <<b>> ELSE <<>>
  /\ \A a, b, d : b.to # d => SentTo(<<a, b>>, d) = IF a.to = d THEN <<a>> ELSE <<>>
  /\ \A a, b, c, d : a.to # d /\ b.to # d =>
       SentTo(<<a, b, c>>, d) = IF c.to = d THEN <<c>> ELSE <<>>
<1>1. ASSUME NEW x PROVE Append(<<>>, x) = <<x>>
  OBVIOUS
<1>2. ASSUME NEW d PROVE SentTo(<<>>, d) = <<>>
  <2>1. Len(<<>>) = 0 /\ 0 \in 0..0
    OBVIOUS
  <2>2. PICK f : SentTo(<<>>, d) = f[0] /\ \A i \in 0..0 : i = 0 => f[i] = <<>>
    BY <2>1, SentToIs
  <2> QED BY <2>1, <2>2
<1>3. ASSUME NEW a, NEW d PROVE SentTo(<<a>>, d) = IF a.to = d THEN <<a>> ELSE <<>>
  <2>1. Len(<<a>>) = 1 /\ 0 \in 0..1 /\ 1 \in 0..1 /\ <<a>>[1] = a /\ 1 - 1 = 0 /\ 1 # 0
    OBVIOUS
  <2>2. PICK f : /\ SentTo(<<a>>, d) = f[1]
                 /\ \A i \in 0..1 :
                      f[i] = IF i = 0 THEN <<>>
                             ELSE IF <<a>>[i].to = d THEN Append(f[i - 1], <<a>>[i]) ELSE f[i - 1]
    BY <2>1, SentToIs
  <2>3. f[0] = <<>>
    BY <2>1, <2>2
  <2>4. f[1] = IF a.to = d THEN Append(f[0], a) ELSE f[0]
    BY ONLY <2>1, <2>2
  <2> QED BY <1>1, <2>2, <2>3, <2>4
<1>4. ASSUME NEW a, NEW b, NEW d, a.to # d \/ b.to # d
      PROVE  SentTo(<<a, b>>, d) = IF a.to = d THEN <<a>> ELSE IF b.to = d THEN <<b>> ELSE <<>>
  <2>1. /\ Len(<<a, b>>) = 2 /\ 0 \in 0..2 /\ 1 \in 0..2 /\ 2 \in 0..2
        /\ <<a, b>>[1] = a /\ <<a, b>>[2] = b /\ 1 - 1 = 0 /\ 2 - 1 = 1 /\ 1 # 0 /\ 2 # 0
    OBVIOUS
  <2>2. PICK f : /\ SentTo(<<a, b>>, d) = f[2]
                 /\ \A i \in 0..2 :
                      f[i] = IF i = 0 THEN <<>>
                             ELSE IF <<a, b>>[i].to = d THEN Append(f[i - 1], <<a, b>>[i]) ELSE f[i - 1]
    BY <2>1, SentToIs
  <2>3. f[0] = <<>>
    BY <2>1, <2>2
  <2>4. f[1] = IF a.to = d THEN Append(f[0], a) ELSE f[0]
    BY ONLY <2>1, <2>2
  <2>5. f[2] = IF b.to = d THEN Append(f[1], b) ELSE f[1]
    BY ONLY <2>1, <2>2
  <2> QED BY <1>1, <1>4, <2>2, <2>3, <2>4, <2>5
<1>5. ASSUME NEW a, NEW b, NEW c, NEW d, a.to # d, b.to # d
      PROVE  SentTo(<<a, b, c>>, d) = IF c.to = d THEN <<c>> ELSE <<>>
  <2>1. /\ Len(<<a, b, c>>) = 3 /\ 0 \in 0..3 /\ 1 \in 0..3 /\ 2 \in 0..3 /\ 3 \in 0..3
        /\ <<a, b, c>>[1] = a /\ <<a, b, c>>[2] = b /\ <<a, b, c>>[3] = c
        /\ 1 - 1 = 0 /\ 2 - 1 = 1 /\ 3 - 1 = 2 /\ 1 # 0 /\ 2 # 0 /\ 3 # 0
    OBVIOUS
  <2>2. PICK f : /\ SentTo(<<a, b, c>>, d) = f[3]
                 /\ \A i \in 0..3 :
                      f[i] = IF i = 0 THEN <<>>
                             ELSE IF <<a, b, c>>[i].to = d THEN Append(f[i - 1], <<a, b, c>>[i]) ELSE f[i - 1]
    BY <2>1, SentToIs
  <2>3. f[0] = <<>>
    BY <2>1, <2>2
  <2>4. f[1] = IF a.to = d THEN Append(f[0], a) ELSE f[0]
    BY ONLY <2>1, <2>2
  <2>5. f[2] = IF b.to = d THEN Append(f[1], b) ELSE f[1]
    BY ONLY <2>1, <2>2
  <2>6. f[3] = IF c.to = d THEN Append(f[2], c) ELSE f[2]
    BY ONLY <2>1, <2>2
  <2> QED BY <1>1, <1>5, <2>2, <2>3, <2>4, <2>5, <2>6
<1>6. ASSUME NEW a, NEW b, NEW d, a.to # d PROVE SentTo(<<a, b>>, d) = IF b.to = d THEN <<b>> ELSE <<>>
  BY <1>4, <1>6
<1>7. ASSUME NEW a, NEW b, NEW d, b.to # d PROVE SentTo(<<a, b>>, d) = IF a.to = d THEN <<a>> ELSE <<>>
  BY <1>4, <1>7
<1> QED BY <1>2, <1>3, <1>5, <1>6, <1>7
=============================================================================
