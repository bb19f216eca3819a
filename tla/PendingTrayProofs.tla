-------------------------- MODULE PendingTrayProofs --------------------------
(***************************************************************************)
(* Proofs about PendingTray for any number of messages and any limit.      *)
(*                                                                         *)
(* The model filters its tray with a recursive function, so what a filter  *)
(* keeps is proved by induction (KeptInOrder).  The induction theorems of  *)
(* the library take an operator, which the provers cannot instantiate:     *)
(* InductionBySet states the same principle of a set, from the             *)
(* well-foundedness of the naturals.                                       *)
(*                                                                         *)
(* From there on a sequence is what it holds (Elems), without repetition   *)
(* (Distinct) and in which order (Rising): a message is in one place       *)
(* (Located), the engine has what it was handed (Handed), the drain in     *)
(* flight holds the row it drew as delivering (Passing), and whoever is    *)
(* handed over without a favour follows everything written before          *)
(* (Ordered).                                                              *)
(***************************************************************************)
EXTENDS PendingTray, FiniteSetTheorems, SequenceTheorems,
        WellFoundedInduction, TLAPS

Elems(s) == {s[i] : i \in DOMAIN s}

Distinct(s) == \A i, j \in DOMAIN s : s[i] = s[j] => i = j

(* What is not in F rises.                                                 *)
Rising(s, F) ==
  \A i, j \in DOMAIN s :
    i < j /\ s[i] \notin F /\ s[j] \notin F => s[i] < s[j]

Typed ==
  /\ tray \in Seq(Ids)
  /\ state \in [Ids -> {"none", "waiting", "delivering", "failed"}]
  /\ written \in 0 .. Written
  /\ drain \in DrainStates
  /\ passing \in 0 .. Written
  /\ lock \in Seq(LockUsers)
  /\ turn \in {"none", "starting", "running"}
  /\ cancelled \in BOOLEAN
  /\ gate \in BOOLEAN
  /\ queue \in SUBSET Ids
  /\ read \in SUBSET Ids
  /\ returned \in SUBSET Ids
  /\ handed \in Seq(Ids)
  /\ favoured \in SUBSET Ids

(* Only the steers that failed outgrow the limit.                          *)
Roomy == Cardinality(Elems(tray) \ favoured) <= PendingMax

InFlight == drain \in {"asked", "steering", "taken"}

Passing ==
  /\ Distinct(lock)
  /\ Drainer \in Elems(lock) <=> drain \in {"asked", "steering"}
  /\ InFlight => passing \in Elems(tray) /\ state[passing] = "delivering"
  /\ \A m \in Elems(tray) : state[m] = "delivering" => InFlight /\ passing = m

Gone == queue \cup read \cup returned

Steered(m) == Steerer(m) \in Elems(lock)

Located ==
  /\ Distinct(tray)
  /\ queue \cap read = {}
  /\ queue \cap returned = {}
  /\ read \cap returned = {}
  /\ \A m \in Ids : Steered(m) => m \notin Gone
  /\ \A m \in Elems(tray) :
       /\ ~Steered(m)
       /\ m \in Gone <=> drain = "taken" /\ passing = m
  /\ \A m \in Ids : m <= written <=> m \in Elems(tray) \/ Steered(m) \/ m \in Gone

Handed ==
  /\ Distinct(handed)
  /\ queue \subseteq Elems(handed)
  /\ read \subseteq Elems(handed)
  /\ Elems(handed) \subseteq Gone

Ordered ==
  /\ Rising(tray, favoured)
  /\ \A m \in Ids : Steered(m) => m \in favoured
  /\ InFlight /\ drain # "taken" /\ passing \notin favoured =>
       \A m \in Ids \ favoured : m < passing => m \in Elems(handed) \cup returned
  /\ HandedInOrder

IInv == Typed /\ Roomy /\ Passing /\ Located /\ Handed /\ Ordered

-----------------------------------------------------------------------------
(* Induction, and what a filter keeps.                                     *)

LEMMA LeastElement ==
  ASSUME NEW S \in SUBSET Nat, S # {}
  PROVE  \E m \in S : \A k \in S : m <= k
<1> DEFINE Below == {ss \in Nat \X Nat : ss[1] < ss[2]}
<1>1. IsWellFoundedOn(Below, Nat)
  BY NatLessThanWellFounded, Zenon DEF OpToRel
<1>2. PICK m \in S : \A k \in S : <<k, m>> \notin Below
  <2> HIDE DEF Below
  <2> QED
    BY <1>1, WFMin
<1>3. \A k \in S : ~(k < m)
  BY <1>2
<1> QED
  BY <1>3

LEMMA InductionBySet ==
  ASSUME NEW S, 0 \in S, \A n \in Nat : n \in S => n + 1 \in S
  PROVE  Nat \subseteq S
<1> SUFFICES ASSUME Nat \ S # {} PROVE FALSE
  OBVIOUS
<1>1. PICK m \in Nat \ S : \A k \in Nat \ S : m <= k
  BY LeastElement
<1>2. m # 0 /\ m - 1 \in Nat /\ m - 1 \notin Nat \ S
  BY <1>1
<1> QED
  BY <1>2

LEMMA KeptUnfolds ==
  ASSUME NEW T, NEW s \in Seq(T), NEW S
  PROVE  \E f : /\ f = [i \in 0 .. Len(s) |->
                        IF i = 0 THEN <<>>
                        ELSE IF s[i] \in S THEN Append(f[i - 1], s[i])
                        ELSE f[i - 1]]
                /\ Kept(s, S) = f[Len(s)]
<1> DEFINE Step(f, i) == IF i = 0 THEN <<>>
                         ELSE IF s[i] \in S THEN Append(f[i - 1], s[i])
                         ELSE f[i - 1]
           Defined == {n \in Nat : \E f : f = [i \in 0 .. n |-> Step(f, i)]}
<1>1. 0 \in Defined
  <2>1. [i \in 0 .. 0 |-> <<>>] = [i \in 0 .. 0 |-> Step([j \in 0 .. 0 |-> <<>>], i)]
    OBVIOUS
  <2> QED
    BY <2>1
<1>2. ASSUME NEW n \in Nat, n \in Defined PROVE n + 1 \in Defined
  <2>1. PICK f : f = [i \in 0 .. n |-> Step(f, i)]
    BY <1>2
  <2> DEFINE g == [i \in 0 .. n + 1 |-> Step(f, i)]
  <2>2. ASSUME NEW i \in 0 .. n + 1 PROVE Step(f, i) = Step(g, i)
    <3>1. CASE i = 0
      BY <3>1
    <3>2. CASE i # 0
      <4>1. i - 1 \in 0 .. n /\ i - 1 \in 0 .. n + 1
        BY <3>2
      <4>2. f[i - 1] = Step(f, i - 1)
        <5> HIDE DEF Step
        <5> QED BY <2>1, <4>1
      <4>3. g[i - 1] = Step(f, i - 1)
        <5> HIDE DEF Step
        <5> QED BY <4>1
      <4> QED
        BY <4>2, <4>3 
    <3> QED
      BY <3>1, <3>2
  <2>3. g = [i \in 0 .. n + 1 |-> Step(g, i)]
    <3> HIDE DEF Step
    <3> QED
      BY <2>2
  <2> HIDE DEF g, Step
  <2> QED
    BY <2>3
<1>3. Len(s) \in Defined
  <2> HIDE DEF Defined
  <2> QED
    BY <1>1, <1>2, InductionBySet, LenProperties
<1>4. PICK f : f = [i \in 0 .. Len(s) |-> Step(f, i)]
  <2> HIDE DEF Step
  <2> QED
    BY <1>3
<1> DEFINE c == CHOOSE f0 : f0 = [i \in 0 .. Len(s) |-> Step(f0, i)]
<1>5. c = [i \in 0 .. Len(s) |-> Step(c, i)]
  <2> HIDE DEF Step
  <2> QED
    BY <1>4, Zenon
<1>6. Kept(s, S) = c[Len(s)]
  BY Zenon DEF Kept
<1> QED
  BY <1>5, <1>6, Zenon
LEMMA KeptInOrder ==
  ASSUME NEW T, NEW s \in Seq(T), NEW S
  PROVE  /\ Kept(s, S) \in Seq(T)
         /\ \E h \in [1 .. Len(Kept(s, S)) -> 1 .. Len(s)] :
              /\ \A i \in 1 .. Len(Kept(s, S)) : Kept(s, S)[i] = s[h[i]] /\ s[h[i]] \in S
              /\ \A i, j \in 1 .. Len(Kept(s, S)) : i < j => h[i] < h[j]
              /\ \A k \in 1 .. Len(s) : s[k] \in S =>
                   \E i \in 1 .. Len(Kept(s, S)) : h[i] = k
<1>0. Len(s) \in Nat /\ s \in [1 .. Len(s) -> T]
  BY LenProperties
<1>1. PICK f : /\ f = [i \in 0 .. Len(s) |->
                        IF i = 0 THEN <<>>
                        ELSE IF s[i] \in S THEN Append(f[i - 1], s[i])
                        ELSE f[i - 1]]
               /\ Kept(s, S) = f[Len(s)]
  BY KeptUnfolds
<1>u. ASSUME NEW i \in 0 .. Len(s)
      PROVE  f[i] = IF i = 0 THEN <<>>
                    ELSE IF s[i] \in S THEN Append(f[i - 1], s[i])
                    ELSE f[i - 1]
  BY <1>1, Zenon
<1> DEFINE Picks(q, n, h) ==
             /\ h \in [1 .. Len(q) -> 1 .. n]
             /\ \A i \in 1 .. Len(q) : q[i] = s[h[i]] /\ s[h[i]] \in S
             /\ \A i, j \in 1 .. Len(q) : i < j => h[i] < h[j]
             /\ \A k \in 1 .. n : s[k] \in S => \E i \in 1 .. Len(q) : h[i] = k
           Right == {n \in Nat : n <= Len(s) => f[n] \in Seq(T) /\ \E h : Picks(f[n], n, h)}
<1>2. 0 \in Right
  <2>1. f[0] = <<>>
    BY <1>0, <1>u
  <2>2. <<>> \in Seq(T) /\ Len(<<>>) = 0
    BY EmptySeq
  <2>3. Picks(<<>>, 0, [i \in 1 .. 0 |-> i])
    BY <2>2
  <2> HIDE DEF Picks
  <2> QED
    BY <2>1, <2>2, <2>3
<1>3. ASSUME NEW n \in Nat, n \in Right PROVE n + 1 \in Right
  <2> SUFFICES ASSUME n + 1 <= Len(s)
               PROVE  f[n + 1] \in Seq(T) /\ \E h : Picks(f[n + 1], n + 1, h)
    OBVIOUS
  <2>1. n + 1 \in 0 .. Len(s) /\ n + 1 \in 1 .. Len(s) /\ n + 1 # 0 /\ n + 1 - 1 = n
    BY <1>0
  <2>2. f[n + 1] = IF s[n + 1] \in S THEN Append(f[n], s[n + 1]) ELSE f[n]
    BY <1>u, <2>1
  <2>3. f[n] \in Seq(T) /\ \E h : Picks(f[n], n, h)
    <3> HIDE DEF Picks
    <3> QED
      BY <1>3, <2>1, <1>0
  <2>4. PICK h : Picks(f[n], n, h)
    BY <2>3
  <2> DEFINE q == f[n]
  <2>5. Len(q) \in Nat /\ DOMAIN q = 1 .. Len(q)
    BY <2>3, LenProperties
  <2>6. CASE s[n + 1] \in S
    <3> DEFINE r == Append(q, s[n + 1])
               g == [i \in 1 .. Len(q) + 1 |-> IF i <= Len(q) THEN h[i] ELSE n + 1]
    <3>1. s[n + 1] \in T
      BY <1>0, <2>1
    <3>2. /\ r \in Seq(T)
          /\ Len(r) = Len(q) + 1
          /\ \A i \in 1 .. Len(q) : r[i] = q[i]
          /\ r[Len(q) + 1] = s[n + 1]
      BY <2>3, <3>1, AppendProperties
    <3> HIDE DEF r, q
    <3>3. /\ h \in [1 .. Len(q) -> 1 .. n]
          /\ \A i \in 1 .. Len(q) : q[i] = s[h[i]] /\ s[h[i]] \in S
          /\ \A i, j \in 1 .. Len(q) : i < j => h[i] < h[j]
          /\ \A k \in 1 .. n : s[k] \in S => \E i \in 1 .. Len(q) : h[i] = k
      BY <2>4 DEF q
    <3>4. g \in [1 .. Len(r) -> 1 .. n + 1]
      BY <3>2, <3>3, <2>5
    <3>5. \A i \in 1 .. Len(r) : r[i] = s[g[i]] /\ s[g[i]] \in S
      BY <3>2, <3>3, <2>5, <2>6
    <3>6. \A i, j \in 1 .. Len(r) : i < j => g[i] < g[j]
      BY <3>2, <3>3, <2>5
    <3>7. ASSUME NEW k \in 1 .. n + 1, s[k] \in S
          PROVE  \E i \in 1 .. Len(r) : g[i] = k
      <4>1. CASE k = n + 1
        <5>1. Len(q) + 1 \in 1 .. Len(r) /\ g[Len(q) + 1] = k
          BY <4>1, <3>2, <2>5
        <5> QED
          BY <5>1
      <4>2. CASE k # n + 1
        <5>1. k \in 1 .. n
          BY <4>2
        <5>2. PICK i \in 1 .. Len(q) : h[i] = k
          BY <3>3, <3>7, <5>1
        <5>3. i \in 1 .. Len(r) /\ g[i] = k
          BY <5>2, <3>2, <2>5
        <5> QED
          BY <5>3
      <4> QED
        BY <4>1, <4>2
    <3>8. Picks(r, n + 1, g)
      <4> HIDE DEF g
      <4> QED
        BY <3>4, <3>5, <3>6, <3>7
    <3>9. f[n + 1] = r
      BY <2>2, <2>6 DEF r, q
    <3> HIDE DEF Picks, g
    <3> QED
      BY <3>2, <3>8, <3>9
  <2>7. CASE s[n + 1] \notin S
    <3>1. f[n + 1] = q
      BY <2>2, <2>7
    <3>2. Picks(q, n + 1, h)
      <4> HIDE DEF q
      <4>1. /\ h \in [1 .. Len(q) -> 1 .. n]
            /\ \A i \in 1 .. Len(q) : q[i] = s[h[i]] /\ s[h[i]] \in S
            /\ \A i, j \in 1 .. Len(q) : i < j => h[i] < h[j]
            /\ \A k \in 1 .. n : s[k] \in S => \E i \in 1 .. Len(q) : h[i] = k
        BY <2>4 DEF q
      <4>2. h \in [1 .. Len(q) -> 1 .. n + 1]
        BY <4>1
      <4>3. \A k \in 1 .. n + 1 : s[k] \in S => k \in 1 .. n
        BY <2>7
      <4> QED
        BY <4>1, <4>2, <4>3
    <3> HIDE DEF Picks
    <3> QED
      BY <3>1, <3>2, <2>3
  <2> QED
    BY <2>6, <2>7
<1>4. Len(s) \in Right
  <2> HIDE DEF Right
  <2> QED
    BY <1>0, <1>2, <1>3, InductionBySet
<1>5. /\ f[Len(s)] \in Seq(T)
      /\ \E h : Picks(f[Len(s)], Len(s), h)
  <2> HIDE DEF Picks
  <2> QED
    BY <1>0, <1>4
<1>6. PICK h : Picks(Kept(s, S), Len(s), h)
  <2> HIDE DEF Picks
  <2> QED
    BY <1>1, <1>5
<1> QED
  BY <1>1, <1>5, <1>6
-----------------------------------------------------------------------------
(* What the operations on sequences do to what a sequence holds.           *)

LEMMA ElemsOfSeq ==
  ASSUME NEW T, NEW s \in Seq(T)
  PROVE  Elems(s) \in SUBSET T
<1> QED
  BY LenProperties DEF Elems

LEMMA ElemsOfEmpty ==
  Elems(<<>>) = {} /\ Distinct(<<>>) /\ \A F : Rising(<<>>, F)
<1> QED
  BY DEF Elems, Distinct, Rising

LEMMA AppendElems ==
  ASSUME NEW T, NEW s \in Seq(T), NEW x \in T
  PROVE  /\ Append(s, x) \in Seq(T)
         /\ Elems(Append(s, x)) = Elems(s) \cup {x}
         /\ Distinct(s) /\ x \notin Elems(s) => Distinct(Append(s, x))
<1>1. /\ Append(s, x) \in Seq(T)
      /\ Len(Append(s, x)) = Len(s) + 1
      /\ \A i \in 1 .. Len(s) : Append(s, x)[i] = s[i]
      /\ Append(s, x)[Len(s) + 1] = x
  BY AppendProperties
<1>2. /\ Len(s) \in Nat /\ DOMAIN s = 1 .. Len(s)
      /\ DOMAIN Append(s, x) = 1 .. Len(s) + 1
  BY <1>1, LenProperties
<1> DEFINE a == Append(s, x)
<1> HIDE DEF a
<1>3. Elems(a) = Elems(s) \cup {x}
  <2>1. ASSUME NEW i \in 1 .. Len(s) + 1 PROVE a[i] \in Elems(s) \cup {x}
    <3>1. i \in 1 .. Len(s) \/ i = Len(s) + 1
      BY <1>2
    <3> QED
      BY <3>1, <1>1, <1>2 DEF a, Elems
  <2>2. ASSUME NEW i \in 1 .. Len(s) PROVE s[i] \in Elems(a)
    <3>1. i \in 1 .. Len(s) + 1 /\ a[i] = s[i]
      BY <1>1, <1>2 DEF a
    <3> QED
      BY <3>1, <1>2 DEF a, Elems
  <2>3. x \in Elems(a)
    <3>1. Len(s) + 1 \in 1 .. Len(s) + 1 /\ a[Len(s) + 1] = x
      BY <1>1, <1>2 DEF a
    <3> QED
      BY <3>1, <1>2 DEF a, Elems
  <2>4. DOMAIN a = 1 .. Len(s) + 1
    BY <1>2 DEF a
  <2> QED
    BY <2>1, <2>2, <2>3, <2>4, <1>2 DEF Elems
<1>4. ASSUME Distinct(s), x \notin Elems(s) PROVE Distinct(a)
  <2>1. /\ DOMAIN a = 1 .. Len(s) + 1
        /\ \A i \in 1 .. Len(s) : a[i] = s[i] /\ s[i] # x
        /\ a[Len(s) + 1] = x
    BY <1>1, <1>2, <1>4 DEF a, Elems
  <2> QED
    BY <2>1, <1>2, <1>4 DEF Distinct
<1> QED
  BY <1>1, <1>3, <1>4 DEF a

LEMMA AppendRises ==
  ASSUME NEW s \in Seq(Nat), NEW x \in Nat, NEW F,
         Rising(s, F), \A k \in Elems(s) \ F : k < x
  PROVE  Rising(Append(s, x), F)
<1> DEFINE a == Append(s, x)
<1>1. /\ Len(s) \in Nat /\ DOMAIN s = 1 .. Len(s)
      /\ DOMAIN a = 1 .. Len(s) + 1
      /\ \A i \in 1 .. Len(s) : a[i] = s[i] /\ s[i] \in Elems(s)
      /\ a[Len(s) + 1] = x
  BY AppendProperties, LenProperties DEF Elems
<1> HIDE DEF a
<1> SUFFICES ASSUME NEW i \in 1 .. Len(s) + 1, NEW j \in 1 .. Len(s) + 1,
                    i < j, a[i] \notin F, a[j] \notin F
             PROVE  a[i] < a[j]
  BY <1>1 DEF a, Rising
<1>2. i \in 1 .. Len(s)
  BY <1>1
<1>3. CASE j = Len(s) + 1
  BY <1>1, <1>2, <1>3
<1>4. CASE j \in 1 .. Len(s)
  BY <1>1, <1>2, <1>4 DEF Rising
<1> QED
  BY <1>1, <1>3, <1>4

LEMMA ConsElems ==
  ASSUME NEW T, NEW s \in Seq(T), NEW x \in T
  PROVE  /\ <<x>> \o s \in Seq(T)
         /\ <<x>> \o s # <<>>
         /\ Head(<<x>> \o s) = x
         /\ Elems(<<x>> \o s) = Elems(s) \cup {x}
         /\ Distinct(s) /\ x \notin Elems(s) => Distinct(<<x>> \o s)
         /\ \A F : Rising(s, F) /\ x \in F => Rising(<<x>> \o s, F)
<1> DEFINE c == <<x>> \o s
<1>1. /\ c \in Seq(T)
      /\ Len(s) \in Nat /\ DOMAIN s = 1 .. Len(s)
      /\ DOMAIN c = 1 .. Len(s) + 1
      /\ c[1] = x
      /\ Len(c) = Len(s) + 1
      /\ \A i \in 1 .. Len(s) + 1 : i > 1 => c[i] = s[i - 1]
  <2>1. <<x>> \in Seq(T) /\ Len(<<x>>) = 1 /\ <<x>>[1] = x
    OBVIOUS
  <2> QED
    BY <2>1, ConcatProperties, LenProperties
<1>2. c # <<>> /\ Head(c) = x
  <2> HIDE DEF c
  <2>1. c # <<>>
    BY <1>1, EmptySeq
  <2> QED
    BY <1>1, <2>1
<1> HIDE DEF c
<1>3. \A i \in 1 .. Len(s) + 1 : i = 1 \/ i - 1 \in 1 .. Len(s)
  BY <1>1
<1>4. \A i \in 1 .. Len(s) : i + 1 \in 1 .. Len(s) + 1 /\ c[i + 1] = s[i]
  BY <1>1
<1>5. Elems(c) = Elems(s) \cup {x}
  <2>1. ASSUME NEW i \in 1 .. Len(s) + 1 PROVE c[i] \in Elems(s) \cup {x}
    <3>1. CASE i = 1
      BY <3>1, <1>1
    <3>2. CASE i # 1
      <4>1. i > 1 /\ i - 1 \in 1 .. Len(s)
        BY <3>2, <1>1
      <4> QED
        BY <4>1, <1>1 DEF Elems
    <3> QED
      BY <3>1, <3>2
  <2>2. ASSUME NEW i \in 1 .. Len(s) PROVE s[i] \in Elems(c)
    BY <1>1, <1>4 DEF Elems
  <2>3. x \in Elems(c)
    <3>1. 1 \in 1 .. Len(s) + 1
      BY <1>1
    <3> QED
      BY <3>1, <1>1 DEF Elems
  <2> QED
    BY <2>1, <2>2, <2>3, <1>1 DEF Elems
<1>6. ASSUME Distinct(s), x \notin Elems(s) PROVE Distinct(c)
  <2>1. \A i \in 1 .. Len(s) : s[i] # x
    BY <1>1, <1>6 DEF Elems
  <2> QED
    BY <2>1, <1>1, <1>3, <1>6 DEF Distinct
<1>7. ASSUME NEW F, Rising(s, F), x \in F PROVE Rising(c, F)
  <2> SUFFICES ASSUME NEW i \in 1 .. Len(s) + 1, NEW j \in 1 .. Len(s) + 1,
                      i < j, c[i] \notin F, c[j] \notin F
               PROVE  c[i] < c[j]
    BY <1>1 DEF Rising
  <2>1. i > 1 /\ j > 1 /\ i - 1 \in 1 .. Len(s) /\ j - 1 \in 1 .. Len(s) /\ i - 1 < j - 1
    BY <1>1, <1>7
  <2>2. c[i] = s[i - 1] /\ c[j] = s[j - 1]
    BY <1>1, <2>1
  <2> QED
    BY <2>1, <2>2, <1>1, <1>7 DEF Rising
<1> QED
  BY <1>1, <1>2, <1>5, <1>6, <1>7 DEF c

LEMMA TailElems ==
  ASSUME NEW T, NEW s \in Seq(T), s # <<>>
  PROVE  /\ Tail(s) \in Seq(T)
         /\ Head(s) \in Elems(s)
         /\ Distinct(s) => Distinct(Tail(s)) /\ Elems(Tail(s)) = Elems(s) \ {Head(s)}
<1> DEFINE t == Tail(s)
<1>1. /\ t \in Seq(T) /\ Len(s) \in Nat \ {0} /\ DOMAIN s = 1 .. Len(s)
      /\ DOMAIN t = 1 .. Len(s) - 1
      /\ \A i \in 1 .. Len(s) - 1 : t[i] = s[i + 1]
      /\ Head(s) = s[1]
  BY HeadTailProperties, LenProperties, EmptySeq
<1> HIDE DEF t
<1>2. Head(s) \in Elems(s)
  <2>1. 1 \in 1 .. Len(s)
    BY <1>1
  <2> QED
    BY <2>1, <1>1 DEF Elems
<1>3. \A i \in 1 .. Len(s) - 1 : i + 1 \in 1 .. Len(s) /\ i + 1 # 1
  BY <1>1
<1>4. \A i \in 1 .. Len(s) : i # 1 => i - 1 \in 1 .. Len(s) - 1 /\ t[i - 1] = s[i]
  BY <1>1
<1>5. ASSUME Distinct(s) PROVE Distinct(t)
  <2> SUFFICES ASSUME NEW i \in 1 .. Len(s) - 1, NEW j \in 1 .. Len(s) - 1, t[i] = t[j]
               PROVE  i = j
    BY <1>1 DEF Distinct
  <2>1. s[i + 1] = s[j + 1]
    BY <1>1
  <2>2. i + 1 = j + 1
    BY <2>1, <1>1, <1>3, <1>5 DEF Distinct
  <2> QED
    BY <2>2
<1>6. ASSUME Distinct(s) PROVE Elems(t) = Elems(s) \ {Head(s)}
  <2>1. ASSUME NEW i \in 1 .. Len(s) - 1 PROVE t[i] \in Elems(s) \ {Head(s)}
    <3>1. i + 1 \in DOMAIN s /\ 1 \in DOMAIN s /\ s[i + 1] # s[1]
      BY <1>1, <1>3, <1>6 DEF Distinct
    <3> QED
      BY <3>1, <1>1 DEF Elems
  <2>2. ASSUME NEW i \in 1 .. Len(s), s[i] # Head(s) PROVE s[i] \in Elems(t)
    BY <2>2, <1>1, <1>4 DEF Elems
  <2> QED
    BY <2>1, <2>2, <1>1 DEF Elems
<1> QED
  BY <1>1, <1>2, <1>5, <1>6 DEF t

LEMMA KeptElems ==
  ASSUME NEW T, NEW s \in Seq(T), NEW S
  PROVE  /\ Kept(s, S) \in Seq(T)
         /\ Elems(Kept(s, S)) = Elems(s) \cap S
         /\ Distinct(s) => Distinct(Kept(s, S))
         /\ \A F : Rising(s, F) => Rising(Kept(s, S), F)
<1> DEFINE k == Kept(s, S)
<1>1. k \in Seq(T)
  BY KeptInOrder
<1>2. PICK h \in [1 .. Len(k) -> 1 .. Len(s)] :
              /\ \A i \in 1 .. Len(k) : k[i] = s[h[i]] /\ s[h[i]] \in S
              /\ \A i, j \in 1 .. Len(k) : i < j => h[i] < h[j]
              /\ \A n \in 1 .. Len(s) : s[n] \in S =>
                   \E i \in 1 .. Len(k) : h[i] = n
  BY KeptInOrder
<1> HIDE DEF k
<1>3. /\ Len(s) \in Nat /\ DOMAIN s = 1 .. Len(s)
      /\ Len(k) \in Nat /\ DOMAIN k = 1 .. Len(k)
  BY <1>1, LenProperties
<1>4. Elems(k) = Elems(s) \cap S
  BY <1>2, <1>3 DEF Elems
<1>5. ASSUME Distinct(s) PROVE Distinct(k)
  <2> SUFFICES ASSUME NEW i \in 1 .. Len(k), NEW j \in 1 .. Len(k), k[i] = k[j]
               PROVE  i = j
    BY <1>3 DEF Distinct
  <2>1. h[i] = h[j]
    BY <1>2, <1>3, <1>5 DEF Distinct
  <2>2. ~(i < j) /\ ~(j < i)
    BY <1>2, <2>1
  <2> QED
    BY <2>2
<1>6. ASSUME NEW F, Rising(s, F) PROVE Rising(k, F)
  BY <1>2, <1>3, <1>6 DEF Rising
<1> QED
  BY <1>1, <1>4, <1>5, <1>6 DEF k

LEMMA HeadIsFirst ==
  ASSUME NEW s \in Seq(Nat), s # <<>>, NEW F, Rising(s, F), Head(s) \notin F
  PROVE  /\ Head(s) \in Elems(s)
         /\ \A k \in Elems(s) \ F : Head(s) <= k
<1>1. /\ Len(s) \in Nat \ {0} /\ DOMAIN s = 1 .. Len(s)
      /\ Head(s) = s[1]
      /\ s \in [1 .. Len(s) -> Nat]
  BY LenProperties, EmptySeq
<1>2. Head(s) \in Elems(s)
  BY TailElems
<1>3. ASSUME NEW i \in 1 .. Len(s), s[i] \notin F PROVE s[1] <= s[i]
  <2>1. 1 \in 1 .. Len(s) /\ s[1] \in Nat /\ s[i] \in Nat
    BY <1>1
  <2>2. CASE i = 1
    BY <2>1, <2>2
  <2>3. CASE i # 1
    BY <2>1, <2>3, <1>1, <1>3 DEF Rising
  <2> QED
    BY <2>2, <2>3
<1> QED
  BY <1>1, <1>2, <1>3 DEF Elems

LEMMA DistinctLen ==
  ASSUME NEW T, NEW s \in Seq(T), Distinct(s)
  PROVE  IsFiniteSet(Elems(s)) /\ Cardinality(Elems(s)) = Len(s)
<1>1. Len(s) \in Nat /\ DOMAIN s = 1 .. Len(s) /\ s \in [1 .. Len(s) -> T]
  BY LenProperties
<1>2. s \in Bijection(1 .. Len(s), Elems(s))
  BY <1>1 DEF Distinct, Elems, Bijection, Injection, Surjection, IsInjective
<1>3. ExistsBijection(1 .. Len(s), Elems(s))
  BY <1>2 DEF ExistsBijection
<1> QED
  BY <1>1, <1>3, FS_CountingElements, FS_NatBijection

-----------------------------------------------------------------------------
(* What the helpers of the model do to the invariant's parts.              *)

LEMMA IdsAreFinite == Ids \subseteq Nat /\ IsFiniteSet(Ids)
<1> QED
  BY TrayAssumption, FS_Interval DEF Ids

LEMMA UsersDiffer ==
  /\ \A m \in Ids : /\ Steerer(m) \in LockUsers
                    /\ Steerer(m) # Drainer
                    /\ Steerer(m) # Prompter
                    /\ Steerer(m) # Canceller
  /\ \A m, k \in Ids : Steerer(m) = Steerer(k) => m = k
  /\ Drainer \in LockUsers /\ Prompter \in LockUsers /\ Canceller \in LockUsers
  /\ Drainer # Prompter /\ Drainer # Canceller
<1> QED
  BY DEF Steerer, Drainer, Prompter, Canceller, LockUsers

LEMMA WithoutFacts ==
  ASSUME Typed, NEW m
  PROVE  /\ Without(m) \in Seq(Ids)
         /\ Elems(Without(m)) = Elems(tray) \ {m}
         /\ Distinct(tray) => Distinct(Without(m))
         /\ \A F : Rising(tray, F) => Rising(Without(m), F)
<1>1. tray \in Seq(Ids) /\ Elems(tray) \in SUBSET Ids
  BY ElemsOfSeq DEF Typed
<1> QED
  BY <1>1, KeptElems DEF Without

LEMMA UnlockFacts ==
  ASSUME Typed, Passing, NEW u, Holds(u), Unlock
  PROVE  /\ lock' \in Seq(LockUsers)
         /\ u \in Elems(lock)
         /\ Elems(lock') = Elems(lock) \ {u}
         /\ Distinct(lock')
<1>1. lock \in Seq(LockUsers) /\ lock # <<>> /\ Head(lock) = u
  BY DEF Typed, Holds
<1> QED
  BY <1>1, TailElems DEF Passing, Unlock

LEMMA QueueFacts ==
  ASSUME Typed, Passing, NEW u \in LockUsers, u \notin Elems(lock)
  PROVE  /\ Append(lock, u) \in Seq(LockUsers)
         /\ Elems(Append(lock, u)) = Elems(lock) \cup {u}
         /\ Distinct(Append(lock, u))
<1>1. lock \in Seq(LockUsers)
  BY DEF Typed
<1> QED
  BY <1>1, AppendElems DEF Passing

LEMMA TakenFacts ==
  ASSUME Typed, Handed, NEW m \in Ids, m \notin Gone, Taken(m)
  PROVE  /\ handed' \in Seq(Ids)
         /\ Elems(handed') = Elems(handed) \cup {m}
         /\ Distinct(handed')
<1>1. handed \in Seq(Ids) /\ m \notin Elems(handed)
  BY DEF Typed, Handed
<1> QED
  BY <1>1, AppendElems DEF Handed, Taken

LEMMA StillRoomy ==
  ASSUME Typed, Roomy, Elems(tray') \ favoured' \subseteq Elems(tray) \ favoured
  PROVE  Roomy'
<1> DEFINE A == Elems(tray) \ favoured
           B == Elems(tray') \ favoured'
<1>1. A \in SUBSET Ids
  BY ElemsOfSeq DEF Typed
<1>2. IsFiniteSet(A)
  BY <1>1, IdsAreFinite, FS_Subset
<1>3. B \in SUBSET A
  OBVIOUS
<1>4. IsFiniteSet(B) /\ Cardinality(B) <= Cardinality(A)
  <2> HIDE DEF A, B
  <2> QED
    BY <1>2, <1>3, FS_Subset
<1>5. Cardinality(A) \in Nat /\ Cardinality(B) \in Nat
  <2> HIDE DEF A, B
  <2> QED
    BY <1>2, <1>4, FS_CardinalityType
<1> QED
  BY <1>4, <1>5, TrayAssumption DEF Roomy

LEMMA StillInOrder ==
  ASSUME HandedInOrder, handed' = handed,
         favoured \subseteq favoured', returned \subseteq returned'
  PROVE  HandedInOrder'
<1> QED
  BY DEF HandedInOrder

LEMMA TakenInOrder ==
  ASSUME Typed, HandedInOrder, NEW m \in Ids, Taken(m),
         favoured' = favoured, returned' = returned,
         m \notin favoured =>
           \A k \in Ids \ favoured : k < m => k \in Elems(handed) \cup returned
  PROVE  HandedInOrder'
<1>1. /\ Len(handed) \in Nat /\ DOMAIN handed = 1 .. Len(handed)
      /\ DOMAIN handed' = 1 .. Len(handed) + 1
      /\ \A i \in 1 .. Len(handed) : handed'[i] = handed[i]
      /\ handed'[Len(handed) + 1] = m
  BY AppendProperties, LenProperties DEF Typed, Taken
<1> SUFFICES ASSUME NEW i \in 1 .. Len(handed) + 1, NEW k \in Ids \ favoured,
                    k < handed'[i], handed'[i] \notin favoured
             PROVE  k \in {handed'[j] : j \in 1 .. i - 1} \cup returned
  BY <1>1 DEF HandedInOrder
<1>2. CASE i = Len(handed) + 1
  <2>1. k \in Elems(handed) \cup returned
    BY <1>1, <1>2
  <2>2. Elems(handed) = {handed'[j] : j \in 1 .. i - 1}
    BY <1>1, <1>2 DEF Elems
  <2> QED
    BY <2>1, <2>2
<1>3. CASE i # Len(handed) + 1
  <2>1. i \in 1 .. Len(handed) /\ handed'[i] = handed[i]
    BY <1>1, <1>3
  <2>2. k \in {handed[j] : j \in 1 .. i - 1} \cup returned
    BY <1>1, <2>1 DEF HandedInOrder
  <2>3. \A j \in 1 .. i - 1 : handed'[j] = handed[j]
    BY <1>1, <2>1
  <2> QED
    BY <2>2, <2>3
<1> QED
  BY <1>2, <1>3

(* Whoever is at the head without a favour follows what was written before *)
(* it: that is no row any more, and a steer would have favoured it.        *)
LEMMA HeadFollows ==
  ASSUME Typed', Located', Handed', Rising(tray', favoured'),
         \A m \in Ids : Steered(m)' => m \in favoured',
         tray' # <<>>, Head(tray') \notin favoured'
  PROVE  \A m \in Ids \ favoured' :
           m < Head(tray') => m \in Elems(handed') \cup returned'
<1> SUFFICES ASSUME NEW m \in Ids \ favoured', m < Head(tray'), m \notin returned'
             PROVE  m \in Elems(handed')
  OBVIOUS
<1>1. tray' \in Seq(Nat) /\ written' \in Nat /\ Elems(tray') \in SUBSET Ids
  <2>1. tray' \in Seq(Ids) /\ Ids \subseteq Nat /\ written' \in Nat
    BY IdsAreFinite, TrayAssumption DEF Typed
  <2> QED
    BY <2>1, ElemsOfSeq, SeqMonotonic
<1>2. /\ Head(tray') \in Elems(tray')
      /\ \A k \in Elems(tray') \ favoured' : Head(tray') <= k
  BY <1>1, HeadIsFirst
<1>3. Head(tray') \in Ids /\ Head(tray') <= written'
  BY <1>1, <1>2 DEF Located
<1>4. m \in Nat /\ Head(tray') \in Nat
  BY <1>3, IdsAreFinite
<1>5. m \notin Elems(tray')
  BY <1>2, <1>4
<1>6. m <= written'
  BY <1>1, <1>3, <1>4
<1>7. m \in Gone'
  BY <1>5, <1>6 DEF Located
<1> QED
  BY <1>7 DEF Gone, Handed

(* The loop of drain draws the head as delivering and waits in the lock,   *)
(* or is over.                                                             *)
LEMMA LoopFacts ==
  ASSUME Typed, Distinct(lock), Drainer \notin Elems(lock),
         NEW t \in Seq(Ids),
         NEW s \in [Ids -> {"none", "waiting", "delivering", "failed"}],
         \A k \in Elems(t) : s[k] # "delivering",
         Loop(t, s)
  PROVE  /\ tray' = t
         /\ state' \in [Ids -> {"none", "waiting", "delivering", "failed"}]
         /\ drain' \in {"off", "asked"}
         /\ passing' \in 0 .. Written
         /\ lock' \in Seq(LockUsers)
         /\ Elems(lock') \ {Drainer} = Elems(lock)
         /\ Passing'
         /\ drain' = "asked" => tray' # <<>> /\ passing' = Head(tray')
<1>0. tray' = t /\ 0 \in 0 .. Written /\ Elems(t) \in SUBSET Ids
  BY TrayAssumption, ElemsOfSeq DEF Loop
<1>1. CASE t = <<>> \/ turn' = "running" \/ gate
  <2>1. drain' = "off" /\ passing' = 0 /\ state' = s /\ lock' = lock
    BY <1>1 DEF Loop
  <2>2. Passing'
    BY <1>0, <2>1 DEF Passing, InFlight
  <2> QED
    BY <1>0, <2>1, <2>2 DEF Typed
<1>2. CASE ~(t = <<>> \/ turn' = "running" \/ gate)
  <2>1. /\ drain' = "asked" /\ passing' = Head(t)
        /\ state' = [s EXCEPT ![Head(t)] = "delivering"]
        /\ lock' = Append(lock, Drainer)
        /\ t # <<>>
    BY <1>2 DEF Loop, HeadRow
  <2>2. Head(t) \in Elems(t) /\ Head(t) \in Ids
    BY <2>1, <1>0, TailElems
  <2>3. /\ lock' \in Seq(LockUsers)
        /\ Elems(lock') = Elems(lock) \cup {Drainer}
        /\ Distinct(lock')
    <3>1. lock \in Seq(LockUsers)
      BY DEF Typed
    <3> QED
      BY <2>1, <3>1, AppendElems, UsersDiffer
  <2>4. passing' \in 0 .. Written
    BY <2>1, <2>2, TrayAssumption DEF Ids
  <2>5. \A k \in Elems(t) : state'[k] = "delivering" <=> k = Head(t)
    BY <1>0, <2>1, <2>2
  <2>6. Passing'
    BY <1>0, <2>1, <2>2, <2>3, <2>5 DEF Passing, InFlight
  <2> QED
    BY <1>0, <2>1, <2>2, <2>3, <2>4, <2>6
<1> QED
  BY <1>1, <1>2

LEMMA InitInv == Init => IInv
<1> SUFFICES ASSUME Init PROVE IInv
  OBVIOUS
<1>1. Typed
  <2>1. <<>> \in Seq(Ids) /\ <<>> \in Seq(LockUsers) /\ 0 \in 0 .. Written
    BY EmptySeq, TrayAssumption
  <2> QED
    BY <2>1 DEF Init, Typed, DrainStates
<1>2. /\ Elems(tray) = {} /\ Distinct(tray) /\ Rising(tray, favoured)
      /\ Elems(lock) = {} /\ Distinct(lock)
      /\ Elems(handed) = {} /\ Distinct(handed)
  BY ElemsOfEmpty DEF Init
<1>3. Roomy
  BY <1>2, FS_EmptySet, TrayAssumption DEF Roomy
<1>4. Passing
  BY <1>2 DEF Init, Passing, InFlight
<1>5. Located
  BY <1>2, IdsAreFinite DEF Init, Located, Steered, Gone, Ids
<1>6. Handed
  BY <1>2 DEF Init, Handed, Gone
<1>7. Ordered
  BY <1>2 DEF Init, Ordered, Steered, InFlight, HandedInOrder
<1> QED
  BY <1>1, <1>3, <1>4, <1>5, <1>6, <1>7 DEF IInv

-----------------------------------------------------------------------------
(* The steps.                                                              *)

(* Who only takes or leaves the lock without a message disturbs nothing.   *)
LEMMA LockInv ==
  ASSUME IInv,
         UNCHANGED <<trayVars, drainVars, queue, read, returned, historyVars>>,
         turn' \in {"none", "starting", "running"},
         cancelled' \in BOOLEAN, gate' \in BOOLEAN,
         lock' \in Seq(LockUsers), Distinct(lock'),
         Drainer \in Elems(lock') <=> Drainer \in Elems(lock),
         \A m \in Ids : Steerer(m) \in Elems(lock') <=> Steerer(m) \in Elems(lock)
  PROVE  IInv'
<1> USE DEF IInv, trayVars, drainVars, historyVars
<1>1. Typed'
  BY DEF Typed
<1>2. Roomy' /\ Passing'
  BY DEF Roomy, Passing, InFlight
<1>3. Located'
  <2>1. Elems(tray) \in SUBSET Ids
    BY ElemsOfSeq DEF Typed
  <2> QED
    BY <2>1 DEF Located, Steered, Gone
<1>4. Handed'
  BY DEF Handed, Gone
<1>5. HandedInOrder'
  BY StillInOrder DEF Ordered
<1>6. Ordered'
  BY <1>5 DEF Ordered, Steered, InFlight
<1> QED
  BY <1>1, <1>2, <1>3, <1>4, <1>6

LEMMA DropInv ==
  ASSUME IInv, NEW S, S \subseteq {m \in Rows : AtRest(m)}, Drop(S)
  PROVE  IInv'
<1> USE DEF IInv, drainVars, historyVars
<1>1. Elems(tray) \in SUBSET Ids
  BY ElemsOfSeq DEF Typed
<1>2. S \subseteq Elems(tray) /\ \A m \in S : state[m] # "delivering"
  BY DEF AtRest, Rows, Elems
<1>3. /\ tray' \in Seq(Ids)
      /\ Elems(tray') = Elems(tray) \ S
      /\ Distinct(tray')
      /\ Rising(tray', favoured)
  BY <1>1, KeptElems DEF Drop, Typed, Located, Ordered
<1>4. \A m \in S : m \notin Gone
  BY <1>1, <1>2 DEF Located, Passing, InFlight
<1>5. Typed'
  BY <1>1, <1>2, <1>3 DEF Drop, Typed
<1>6. Roomy'
  BY <1>3, StillRoomy DEF Drop
<1>7. Passing'
  BY <1>1, <1>2, <1>3 DEF Drop, Passing, InFlight, Typed
<1>8. Located'
  BY <1>1, <1>2, <1>3, <1>4 DEF Drop, Located, Steered, Gone
<1>9. Handed'
  BY DEF Drop, Handed, Gone
<1>10. HandedInOrder'
  BY StillInOrder DEF Drop, Ordered
<1>11. Ordered'
  BY <1>3, <1>10 DEF Drop, Ordered, Steered, InFlight
<1> QED
  BY <1>5, <1>6, <1>7, <1>8, <1>9, <1>11

(* A message that is handed over by the drain, its row still drawn.        *)
LEMMA DrainTakenInv ==
  ASSUME IInv, Holds(Drainer), drain \in {"asked", "steering"}, drain' = "taken",
         Unlock, Taken(passing),
         \/ read' = read \cup {passing} /\ queue' = queue
         \/ queue' = queue \cup {passing} /\ read' = read,
         UNCHANGED <<trayVars, passing, turn, cancelled, gate, returned, favoured>>
  PROVE  IInv'
<1> USE DEF IInv, trayVars
<1>1. Elems(tray) \in SUBSET Ids /\ passing \in Elems(tray) /\ passing \in Ids
  BY ElemsOfSeq DEF Typed, Passing, InFlight
<1>2. passing \notin Gone /\ ~Steered(passing)
  BY <1>1 DEF Located
<1>3. /\ lock' \in Seq(LockUsers)
      /\ Elems(lock') = Elems(lock) \ {Drainer}
      /\ Distinct(lock')
  BY UnlockFacts
<1>4. \A m \in Ids : Steerer(m) \in Elems(lock') <=> Steerer(m) \in Elems(lock)
  BY <1>3, UsersDiffer
<1>5. /\ handed' \in Seq(Ids)
      /\ Elems(handed') = Elems(handed) \cup {passing}
      /\ Distinct(handed')
  BY <1>1, <1>2, TakenFacts
<1>6. Typed'
  BY <1>1, <1>3, <1>5 DEF Typed, DrainStates
<1>7. Roomy'
  BY DEF Roomy
<1>8. Passing'
  BY <1>3 DEF Passing, InFlight
<1>9. Located'
  <2>1. Gone' = Gone \cup {passing}
    BY DEF Gone
  <2>2. queue' \cap read' = {} /\ queue' \cap returned' = {} /\ read' \cap returned' = {}
    BY <1>2 DEF Located, Gone
  <2> QED
    BY <1>1, <1>2, <1>4, <2>1, <2>2 DEF Located, Steered
<1>10. Handed'
  BY <1>5 DEF Handed, Gone
<1>11. HandedInOrder'
  BY <1>1, TakenInOrder DEF Ordered, InFlight
<1>12. Ordered'
  BY <1>4, <1>11 DEF Ordered, Steered, InFlight
<1> QED
  BY <1>6, <1>7, <1>8, <1>9, <1>10, <1>12

LEMMA AcceptedInv == ASSUME IInv, PromptAccepted PROVE IInv'
<1> USE DEF IInv
<1>1. Elems(tray) \in SUBSET Ids /\ passing \in Elems(tray) /\ passing \in Ids
  BY ElemsOfSeq DEF PromptAccepted, Typed, Passing, InFlight
<1>2. passing \notin Gone /\ ~Steered(passing)
  BY <1>1 DEF PromptAccepted, Located
<1>3. /\ lock' \in Seq(LockUsers)
      /\ Elems(lock') = Elems(lock) \ {Drainer}
      /\ Distinct(lock')
  BY UnlockFacts DEF PromptAccepted
<1>4. \A m \in Ids : Steerer(m) \in Elems(lock') <=> Steerer(m) \in Elems(lock)
  BY <1>3, UsersDiffer
<1>5. /\ handed' \in Seq(Ids)
      /\ Elems(handed') = Elems(handed) \cup {passing}
      /\ Distinct(handed')
  BY <1>1, <1>2, TakenFacts DEF PromptAccepted
<1>6. /\ tray' \in Seq(Ids)
      /\ Elems(tray') = Elems(tray) \ {passing}
      /\ Distinct(tray')
      /\ Rising(tray', favoured)
  BY WithoutFacts DEF PromptAccepted, Located, Ordered
<1>7. Typed'
  BY <1>1, <1>3, <1>5, <1>6 DEF PromptAccepted, Typed, DrainStates, Marked
<1>8. Roomy'
  BY <1>6, StillRoomy DEF PromptAccepted
<1>9. Passing'
  BY <1>1, <1>3, <1>6 DEF PromptAccepted, Passing, InFlight, Typed, Marked
<1>10. Located'
  <2>1. Gone' = Gone \cup {passing} /\ written' = written /\ drain' = "turn"
    BY DEF PromptAccepted, Gone
  <2>2. queue' \cap read' = {} /\ queue' \cap returned' = {} /\ read' \cap returned' = {}
    BY <1>2 DEF PromptAccepted, Located, Gone
  <2>3. \A m \in Ids : Steered(m)' <=> Steered(m)
    BY <1>4 DEF Steered
  <2>4. \A m \in Elems(tray') : m \notin Gone'
    BY <1>1, <1>6, <2>1 DEF PromptAccepted, Located
  <2> QED
    BY <1>1, <1>2, <1>6, <2>1, <2>2, <2>3, <2>4 DEF Located
<1>11. Handed'
  BY <1>5 DEF PromptAccepted, Handed, Gone
<1>12. HandedInOrder'
  BY <1>1, TakenInOrder DEF PromptAccepted, Ordered, InFlight
<1>13. Ordered'
  BY <1>4, <1>6, <1>12 DEF PromptAccepted, Ordered, Steered, InFlight
<1> QED
  BY <1>7, <1>8, <1>9, <1>10, <1>11, <1>13

LEMMA RefusedInv == ASSUME IInv, PromptRefused PROVE IInv'
<1> USE DEF IInv, PromptRefused, trayVars, engineVars, historyVars
<1>1. lock \in Seq(LockUsers) /\ lock # <<>> /\ Head(lock) = Drainer
  BY DEF Typed, Holds
<1>2. /\ Tail(lock) \in Seq(LockUsers)
      /\ Elems(Tail(lock)) = Elems(lock) \ {Drainer}
      /\ Distinct(Tail(lock))
      /\ Drainer \in Elems(lock)
  BY <1>1, TailElems DEF Passing
<1>3. /\ lock' \in Seq(LockUsers)
      /\ Elems(lock') = Elems(lock)
      /\ Distinct(lock')
  <2> DEFINE rest == Tail(lock)
  <2>1. lock' = Append(rest, Drainer) /\ Drainer \in LockUsers
    BY UsersDiffer
  <2> HIDE DEF rest
  <2>2. Drainer \notin Elems(rest) /\ rest \in Seq(LockUsers) /\ Distinct(rest)
    BY <1>2 DEF rest
  <2>3. /\ Append(rest, Drainer) \in Seq(LockUsers)
        /\ Elems(Append(rest, Drainer)) = Elems(rest) \cup {Drainer}
        /\ Distinct(Append(rest, Drainer))
    BY <2>1, <2>2, AppendElems
  <2> QED
    BY <1>2, <2>1, <2>3 DEF rest
<1>4. Elems(tray) \in SUBSET Ids
  BY ElemsOfSeq DEF Typed
<1>5. Typed'
  BY <1>3 DEF Typed, DrainStates
<1>6. Roomy' /\ Passing'
  BY <1>3 DEF Roomy, Passing, InFlight
<1>7. Located'
  BY <1>3, <1>4 DEF Located, Steered, Gone
<1>8. Handed'
  BY DEF Handed, Gone
<1>9. HandedInOrder'
  BY StillInOrder DEF Ordered
<1>10. Ordered'
  BY <1>3, <1>9 DEF Ordered, Steered, InFlight
<1> QED
  BY <1>5, <1>6, <1>7, <1>8, <1>10

LEMMA DeliveryFailsInv == ASSUME IInv, DeliveryFails PROVE IInv'
<1> USE DEF IInv, DeliveryFails, engineVars, historyVars
<1>1. Elems(tray) \in SUBSET Ids /\ passing \in Elems(tray) /\ passing \in Ids
  BY ElemsOfSeq DEF Typed, Passing, InFlight
<1>2. /\ lock' \in Seq(LockUsers)
      /\ Elems(lock') = Elems(lock) \ {Drainer}
      /\ Distinct(lock')
  BY UnlockFacts
<1>3. \A m \in Ids : Steerer(m) \in Elems(lock') <=> Steerer(m) \in Elems(lock)
  BY <1>2, UsersDiffer
<1>4. Typed'
  BY <1>1, <1>2, TrayAssumption DEF Typed, DrainStates, FailedState, Marked
<1>5. Roomy'
  BY DEF Roomy
<1>6. Passing'
  BY <1>1, <1>2 DEF Passing, InFlight, Typed, FailedState, Marked
<1>7. Located'
  BY <1>1, <1>3 DEF Located, Steered, Gone
<1>8. Handed'
  BY DEF Handed, Gone
<1>9. HandedInOrder'
  BY StillInOrder DEF Ordered
<1>10. Ordered'
  BY <1>3, <1>9 DEF Ordered, Steered, InFlight
<1> QED
  BY <1>4, <1>5, <1>6, <1>7, <1>8, <1>10

(* A loop of drain over rows that are where the invariant wants them.      *)
LEMMA LoopInv ==
  ASSUME IInv, Drainer \notin Elems(lock),
         NEW t \in Seq(Ids), Distinct(t), Rising(t, favoured'),
         NEW s \in [Ids -> {"none", "waiting", "delivering", "failed"}],
         \A k \in Elems(t) : s[k] # "delivering" /\ k \notin Gone,
         Elems(t) \subseteq Elems(tray),
         \A k \in Elems(tray) \ Elems(t) : k \in Gone,
         favoured \subseteq favoured', favoured' \subseteq Ids,
         UNCHANGED <<written, queue, read, returned, gate, handed>>,
         turn' \in {"none", "starting", "running"}, cancelled' \in BOOLEAN,
         Loop(t, s)
  PROVE  IInv'
<1> USE DEF IInv
<1>1. /\ tray' = t
      /\ state' \in [Ids -> {"none", "waiting", "delivering", "failed"}]
      /\ drain' \in {"off", "asked"}
      /\ passing' \in 0 .. Written
      /\ lock' \in Seq(LockUsers)
      /\ Elems(lock') \ {Drainer} = Elems(lock)
      /\ Passing'
      /\ drain' = "asked" => tray' # <<>> /\ passing' = Head(tray')
  BY LoopFacts DEF Passing
<1>2. \A m \in Ids : Steered(m)' <=> Steered(m)
  BY <1>1, UsersDiffer DEF Steered
<1>3. Elems(tray) \in SUBSET Ids
  BY ElemsOfSeq DEF Typed
<1>4. Typed'
  BY <1>1 DEF Typed, DrainStates
<1>5. Roomy'
  BY <1>1, StillRoomy
<1>6. Located'
  BY <1>1, <1>2, <1>3 DEF Located, Gone
<1>7. Handed'
  BY DEF Handed, Gone
<1>8. HandedInOrder'
  BY StillInOrder DEF Ordered
<1>9. \A m \in Ids : Steered(m)' => m \in favoured'
  BY <1>2 DEF Ordered
<1>10. Ordered'
  BY <1>1, <1>4, <1>6, <1>7, <1>8, <1>9, HeadFollows DEF Ordered, InFlight
<1> QED
  BY <1>1, <1>4, <1>5, <1>6, <1>7, <1>10

LEMMA AcknowledgeInv == ASSUME IInv, Acknowledge PROVE IInv'
<1> USE DEF IInv, Acknowledge, engineVars
<1>1. Elems(tray) \in SUBSET Ids /\ passing \in Elems(tray) /\ passing \in Ids
  BY ElemsOfSeq DEF Typed, Passing, InFlight
<1> DEFINE t == Without(passing)
           s == Marked(passing, "none")
<1>2. /\ t \in Seq(Ids)
      /\ Elems(t) = Elems(tray) \ {passing}
      /\ Distinct(t)
      /\ Rising(t, favoured')
  BY WithoutFacts DEF Located, Ordered
<1>3. s \in [Ids -> {"none", "waiting", "delivering", "failed"}]
  BY DEF Typed, Marked
<1>4. Drainer \notin Elems(lock)
  BY DEF Passing
<1>5. \A k \in Elems(t) : s[k] # "delivering" /\ k \notin Gone
  BY <1>1, <1>2 DEF Passing, Located, Typed, Marked
<1>6. \A k \in Elems(tray) \ Elems(t) : k \in Gone
  BY <1>1, <1>2 DEF Located
<1>7. Loop(t, s)
  OBVIOUS
<1> HIDE DEF t, s
<1> QED
  BY <1>2, <1>3, <1>4, <1>5, <1>6, <1>7, LoopInv DEF Typed

(* The same rows, with no drain in flight or its turn over.                *)
LEMMA RowsLoopInv ==
  ASSUME IInv, ~InFlight,
         UNCHANGED <<written, queue, read, returned, gate, handed, favoured>>,
         turn' \in {"none", "starting", "running"}, cancelled' \in BOOLEAN,
         Loop(tray, state)
  PROVE  IInv'
<1> QED
  BY LoopInv DEF IInv, Typed, Passing, Located, Ordered, InFlight

LEMMA PromptSettlesInv == ASSUME IInv, PromptSettles PROVE IInv'
<1> QED
  BY RowsLoopInv
  DEF PromptSettles, RowsAfterTurn, InFlight, engineVars, IInv, Typed

LEMMA SettleInv == ASSUME IInv, Settle PROVE IInv'
<1> USE DEF IInv
<1>1. Elems(tray) \in SUBSET Ids
  BY ElemsOfSeq DEF Typed
<1>2. CASE drain # "turn" /\ drain = "off"
  BY <1>2, RowsLoopInv DEF Settle, OnSettled, StartDrain, InFlight, Typed
<1>3. CASE drain = "turn" \/ drain # "off"
  <2>1. /\ UNCHANGED <<trayVars, passing, lock, gate, queue, read, returned, handed, favoured>>
        /\ drain' = IF drain = "turn" THEN "turned" ELSE drain
        /\ turn' = "none" /\ cancelled' = FALSE
    BY <1>3 DEF Settle, OnSettled, StartDrain, trayVars
  <2> USE <2>1 DEF trayVars
  <2>2. Typed'
    BY DEF Typed, DrainStates
  <2>3. Roomy' /\ Passing'
    BY DEF Roomy, Passing, InFlight
  <2>4. Located'
    BY <1>1 DEF Located, Steered, Gone
  <2>5. Handed'
    BY DEF Handed, Gone
  <2>6. HandedInOrder'
    BY StillInOrder DEF Ordered
  <2>7. Ordered'
    BY <2>6 DEF Ordered, Steered, InFlight
  <2> QED
    BY <2>2, <2>3, <2>4, <2>5, <2>7
<1> QED
  BY <1>2, <1>3

LEMMA AddInv == ASSUME IInv, Add PROVE IInv'
<1> USE DEF IInv, Add, drainVars, engineVars, historyVars
<1>1. /\ Elems(tray) \in SUBSET Ids /\ tray \in Seq(Ids) /\ tray \in Seq(Nat)
      /\ written \in Nat /\ written' = written + 1 /\ written' \in Ids
  <2>1. written \in Nat /\ written' \in Ids
    BY TrayAssumption DEF Typed, Ids
  <2> QED
    BY <2>1, ElemsOfSeq, IdsAreFinite, SeqMonotonic DEF Typed
<1>2. \A k \in Elems(tray) : k \in Nat /\ k <= written
  BY <1>1, IdsAreFinite DEF Located
<1>3. written' \notin Elems(tray) /\ ~Steered(written') /\ written' \notin Gone
  BY <1>1 DEF Located
<1>4. /\ tray' \in Seq(Ids)
      /\ Elems(tray') = Elems(tray) \cup {written'}
      /\ Distinct(tray')
  BY <1>1, <1>3, AppendElems DEF Located
<1>5. Rising(tray', favoured)
  <2>1. \A k \in Elems(tray) \ favoured : k < written'
    BY <1>1, <1>2
  <2> QED
    BY <1>1, <2>1, AppendRises, IdsAreFinite DEF Ordered
<1>6. Typed'
  BY <1>1, <1>4, TrayAssumption DEF Typed, Marked, Ids
<1>7. Roomy'
  <2>1. IsFiniteSet(Elems(tray)) /\ Cardinality(Elems(tray)) = Len(tray)
    BY <1>1, DistinctLen DEF Located
  <2>2. /\ IsFiniteSet(Elems(tray'))
        /\ Cardinality(Elems(tray')) = Len(tray) + 1
    BY <1>3, <1>4, <2>1, FS_AddElement
  <2>3. /\ IsFiniteSet(Elems(tray') \ favoured')
        /\ Cardinality(Elems(tray') \ favoured') <= Cardinality(Elems(tray'))
    BY <2>2, FS_Subset
  <2>4. Cardinality(Elems(tray') \ favoured') \in Nat
    BY <2>3, FS_CardinalityType
  <2>5. Len(tray) \in Nat /\ Len(tray) < PendingMax
    BY <1>1, LenProperties DEF Room
  <2> QED
    BY <2>2, <2>3, <2>4, <2>5, TrayAssumption DEF Roomy
<1>8. Passing'
  BY <1>1, <1>3, <1>4 DEF Passing, InFlight, Typed, Marked
<1>9. Located'
  <2>1. \A m \in Ids : m <= written' <=> m <= written \/ m = written'
    BY <1>1, IdsAreFinite
  <2>2. UNCHANGED <<Gone, drain, passing>> /\ \A m \in Ids : Steered(m)' <=> Steered(m)
    BY DEF Gone, Steered
  <2>3. drain = "taken" => passing # written'
    BY <1>3 DEF Passing, InFlight
  <2> QED
    BY <1>1, <1>3, <1>4, <2>1, <2>2, <2>3 DEF Located
<1>10. Handed'
  BY DEF Handed, Gone
<1>11. HandedInOrder'
  BY StillInOrder DEF Ordered
<1>12. Ordered'
  BY <1>5, <1>11 DEF Ordered, Steered, InFlight
<1> QED
  BY <1>6, <1>7, <1>8, <1>9, <1>10, <1>12

LEMMA EditInv == ASSUME IInv, NEW m \in Ids, Edit(m) PROVE IInv'
<1> USE DEF IInv, Edit, drainVars, engineVars, historyVars
<1>1. Elems(tray) \in SUBSET Ids /\ m \in Elems(tray) /\ state[m] # "delivering"
  BY ElemsOfSeq DEF Typed, AtRest, Rows, Elems
<1>2. Typed'
  BY DEF Typed, Marked
<1>3. Roomy'
  BY DEF Roomy
<1>4. Passing'
  BY <1>1 DEF Passing, InFlight, Typed, Marked
<1>5. Located'
  BY <1>1 DEF Located, Steered, Gone
<1>6. Handed'
  BY DEF Handed, Gone
<1>7. HandedInOrder'
  BY StillInOrder DEF Ordered
<1>8. Ordered'
  BY <1>7 DEF Ordered, Steered, InFlight
<1> QED
  BY <1>2, <1>3, <1>4, <1>5, <1>6, <1>8

LEMMA SteerIdleInv == ASSUME IInv, NEW m \in Ids, SteerIdle(m) PROVE IInv'
<1> USE DEF IInv, SteerIdle, engineVars
<1>1. Elems(tray) \in SUBSET Ids /\ m \in Elems(tray) /\ state[m] # "delivering"
  BY ElemsOfSeq DEF Typed, AtRest, Rows, Elems
<1> DEFINE t == <<m>> \o Without(m)
<1>2. /\ t \in Seq(Ids)
      /\ Elems(t) = Elems(tray)
      /\ Distinct(t)
      /\ Rising(t, favoured')
  <2> DEFINE w == Without(m)
  <2>1. /\ w \in Seq(Ids)
        /\ Elems(w) = Elems(tray) \ {m}
        /\ Distinct(w)
        /\ Rising(w, favoured)
    BY WithoutFacts DEF Located, Ordered
  <2>2. Rising(w, favoured') /\ m \in favoured' /\ m \notin Elems(w)
    BY <2>1 DEF Rising
  <2> HIDE DEF w
  <2>3. /\ <<m>> \o w \in Seq(Ids)
        /\ Elems(<<m>> \o w) = Elems(w) \cup {m}
        /\ Distinct(<<m>> \o w)
        /\ Rising(<<m>> \o w, favoured')
    BY <2>1, <2>2, ConsElems
  <2> QED
    BY <1>1, <2>1, <2>3 DEF w
<1>3. StartDrain(t) /\ favoured' = favoured \cup {m}
  OBVIOUS
<1> HIDE DEF t
<1>4. CASE drain = "off"
  <2>1. Loop(t, state)
    BY <1>3, <1>4 DEF StartDrain
  <2>2. Drainer \notin Elems(lock)
    BY <1>4 DEF Passing
  <2>3. \A k \in Elems(t) : state[k] # "delivering" /\ k \notin Gone
    BY <1>2, <1>4 DEF Passing, InFlight, Located
  <2> QED
    BY <1>2, <1>3, <2>1, <2>2, <2>3, LoopInv DEF Typed
<1>5. CASE drain # "off"
  <2>1. tray' = t /\ UNCHANGED <<state, drain, passing, lock>>
    BY <1>3, <1>5 DEF StartDrain
  <2>2. Typed'
    BY <1>2, <2>1 DEF Typed
  <2>3. Roomy'
    BY <1>2, <2>1, StillRoomy
  <2>4. Passing'
    BY <1>2, <2>1 DEF Passing, InFlight
  <2>5. Located'
    BY <1>1, <1>2, <2>1 DEF Located, Steered, Gone
  <2>6. Handed'
    BY DEF Handed, Gone
  <2>7. HandedInOrder'
    BY StillInOrder DEF Ordered
  <2>8. Ordered'
    BY <1>2, <2>1, <2>7 DEF Ordered, Steered, InFlight
  <2> QED
    BY <2>2, <2>3, <2>4, <2>5, <2>6, <2>8
<1> QED
  BY <1>4, <1>5

LEMMA SteerRunningInv == ASSUME IInv, NEW m \in Ids, SteerRunning(m) PROVE IInv'
<1> USE DEF IInv, SteerRunning, drainVars, engineVars
<1>1. Elems(tray) \in SUBSET Ids /\ m \in Elems(tray) /\ state[m] # "delivering"
  BY ElemsOfSeq DEF Typed, AtRest, Rows, Elems
<1>2. ~Steered(m) /\ m \notin Gone
  BY <1>1 DEF Located, Passing, InFlight
<1>3. /\ tray' \in Seq(Ids)
      /\ Elems(tray') = Elems(tray) \ {m}
      /\ Distinct(tray')
      /\ Rising(tray', favoured)
  BY WithoutFacts DEF Located, Ordered
<1>4. /\ lock' \in Seq(LockUsers)
      /\ Elems(lock') = Elems(lock) \cup {Steerer(m)}
      /\ Distinct(lock')
  BY <1>2, UsersDiffer, QueueFacts DEF Steered
<1>5. \A k \in Ids : Steered(k)' <=> Steered(k) \/ k = m
  BY <1>4, UsersDiffer DEF Steered
<1>6. Typed'
  BY <1>3, <1>4 DEF Typed, Marked
<1>7. Roomy'
  BY <1>3, StillRoomy
<1>8. Passing'
  BY <1>1, <1>3, <1>4, UsersDiffer DEF Passing, InFlight, Typed, Marked
<1>9. Located'
  BY <1>1, <1>2, <1>3, <1>5 DEF Located, Gone
<1>10. Handed'
  BY DEF Handed, Gone
<1>11. HandedInOrder'
  BY StillInOrder DEF Ordered
<1>12. Ordered'
  <2>1. Rising(tray', favoured')
    BY <1>3 DEF Rising
  <2> QED
    BY <1>5, <1>11, <2>1 DEF Ordered, InFlight
<1> QED
  BY <1>6, <1>7, <1>8, <1>9, <1>10, <1>12

LEMMA SteerTakenInv == ASSUME IInv, NEW m \in Ids, SteerTaken(m) PROVE IInv'
<1> USE DEF IInv, SteerTaken, trayVars, drainVars
<1>1. Elems(tray) \in SUBSET Ids
  BY ElemsOfSeq DEF Typed
<1>2. /\ lock' \in Seq(LockUsers)
      /\ Steerer(m) \in Elems(lock)
      /\ Elems(lock') = Elems(lock) \ {Steerer(m)}
      /\ Distinct(lock')
  BY UnlockFacts
<1>3. \A k \in Ids : Steered(k)' <=> Steered(k) /\ k # m
  BY <1>2, UsersDiffer DEF Steered
<1>4. Steered(m) /\ m \notin Gone /\ m \notin Elems(tray) /\ m \in favoured
  BY <1>2 DEF Steered, Located, Ordered
<1>5. /\ handed' \in Seq(Ids)
      /\ Elems(handed') = Elems(handed) \cup {m}
      /\ Distinct(handed')
  BY <1>4, TakenFacts
<1>6. Typed'
  BY <1>2, <1>5 DEF Typed
<1>7. Roomy'
  BY DEF Roomy
<1>8. Passing'
  BY <1>2, UsersDiffer DEF Passing, InFlight
<1>9. Located'
  <2>1. Gone' = Gone \cup {m}
    BY DEF Gone
  <2>2. queue' \cap read' = {} /\ queue' \cap returned' = {} /\ read' \cap returned' = {}
    BY <1>4 DEF Located, Gone
  <2> QED
    BY <1>1, <1>3, <1>4, <2>1, <2>2 DEF Located
<1>10. Handed'
  BY <1>5 DEF Handed, Gone
<1>11. HandedInOrder'
  BY <1>4, TakenInOrder DEF Ordered
<1>12. Ordered'
  BY <1>3, <1>5, <1>11 DEF Ordered, InFlight
<1> QED
  BY <1>6, <1>7, <1>8, <1>9, <1>10, <1>12

LEMMA SteerFailsInv == ASSUME IInv, NEW m \in Ids, SteerFails(m) PROVE IInv'
<1> USE DEF IInv, SteerFails, drainVars, engineVars, historyVars
<1>1. Elems(tray) \in SUBSET Ids /\ tray \in Seq(Ids)
  BY ElemsOfSeq DEF Typed
<1>2. /\ lock' \in Seq(LockUsers)
      /\ Steerer(m) \in Elems(lock)
      /\ Elems(lock') = Elems(lock) \ {Steerer(m)}
      /\ Distinct(lock')
  BY UnlockFacts
<1>3. \A k \in Ids : Steered(k)' <=> Steered(k) /\ k # m
  BY <1>2, UsersDiffer DEF Steered
<1>4. Steered(m) /\ m \notin Gone /\ m \notin Elems(tray) /\ m \in favoured
  BY <1>2 DEF Steered, Located, Ordered
<1>5. /\ tray' \in Seq(Ids)
      /\ Elems(tray') = Elems(tray) \cup {m}
      /\ Distinct(tray')
      /\ Rising(tray', favoured)
  BY <1>1, <1>4, ConsElems DEF Located, Ordered
<1>6. Typed'
  BY <1>2, <1>5 DEF Typed, Marked
<1>7. Roomy'
  BY <1>4, <1>5, StillRoomy
<1>8. Passing'
  BY <1>1, <1>2, <1>4, <1>5, UsersDiffer DEF Passing, InFlight, Typed, Marked
<1>9. Located'
  <2>1. drain = "taken" => passing # m
    BY <1>4 DEF Passing, InFlight
  <2> QED
    BY <1>1, <1>3, <1>4, <1>5, <2>1 DEF Located, Gone
<1>10. Handed'
  BY DEF Handed, Gone
<1>11. HandedInOrder'
  BY StillInOrder DEF Ordered
<1>12. Ordered'
  BY <1>3, <1>5, <1>11 DEF Ordered, InFlight
<1> QED
  BY <1>6, <1>7, <1>8, <1>9, <1>10, <1>12

(* What the engine queued is read or handed back, all of it.               *)
LEMMA QueueEmptiedInv ==
  ASSUME IInv, queue' = {},
         \/ read' = read \cup queue /\ returned' = returned
         \/ returned' = returned \cup queue /\ read' = read,
         UNCHANGED <<trayVars, drainVars, lock, turn, cancelled, gate, historyVars>>
  PROVE  IInv'
<1> USE DEF IInv, trayVars, drainVars, historyVars
<1>1. Elems(tray) \in SUBSET Ids
  BY ElemsOfSeq DEF Typed
<1>2. Gone' = Gone
  BY DEF Gone
<1>3. Typed'
  BY DEF Typed
<1>4. Roomy' /\ Passing'
  BY DEF Roomy, Passing, InFlight
<1>5. Located'
  <2>1. queue' \cap read' = {} /\ queue' \cap returned' = {} /\ read' \cap returned' = {}
    BY DEF Located
  <2> QED
    BY <1>1, <1>2, <2>1 DEF Located, Steered
<1>6. Handed'
  BY <1>2 DEF Handed
<1>7. HandedInOrder'
  BY StillInOrder DEF Ordered
<1>8. Ordered'
  BY <1>7 DEF Ordered, Steered, InFlight
<1> QED
  BY <1>3, <1>4, <1>5, <1>6, <1>8

LEMMA FirstInLock ==
  ASSUME Typed, lock = <<>>, NEW u \in {Prompter, Canceller}, lock' = <<u>>
  PROVE  /\ lock' \in Seq(LockUsers)
         /\ Distinct(lock')
         /\ Elems(lock') = {u}
         /\ Elems(lock) = {}
<1>1. u \in LockUsers
  BY UsersDiffer
<1>2. lock' \in Seq(LockUsers) /\ DOMAIN lock' = {1} /\ lock'[1] = u
  BY <1>1
<1> QED
  BY <1>2, ElemsOfEmpty DEF Elems, Distinct

LEMMA FreedLock ==
  ASSUME Typed, Passing, NEW u \in {Prompter, Canceller}, Holds(u), Unlock
  PROVE  /\ lock' \in Seq(LockUsers)
         /\ Distinct(lock')
         /\ Drainer \in Elems(lock') <=> Drainer \in Elems(lock)
         /\ \A m \in Ids : Steerer(m) \in Elems(lock') <=> Steerer(m) \in Elems(lock)
<1> QED
  BY UnlockFacts, UsersDiffer

LEMMA NextInv == IInv /\ [Next]_vars => IInv'
<1> SUFFICES ASSUME IInv, [Next]_vars PROVE IInv'
  OBVIOUS
<1> USE DEF IInv
<1>0. ASSUME UNCHANGED <<trayVars, drainVars, lock, queue, read, returned, historyVars>>,
             turn' \in {"none", "starting", "running"},
             cancelled' \in BOOLEAN, gate' \in BOOLEAN
      PROVE  IInv'
  BY <1>0, LockInv DEF Typed, Passing
<1>1. ASSUME Add PROVE IInv'
  BY <1>1, AddInv
<1>2. ASSUME NEW m \in Ids, Edit(m) PROVE IInv'
  BY <1>2, EditInv
<1>3. ASSUME NEW m \in Ids, Remove(m) PROVE IInv'
  BY <1>3, DropInv DEF Remove, AtRest
<1>4. ASSUME Clear PROVE IInv'
  BY <1>4, DropInv DEF Clear, Droppable
<1>5. ASSUME NEW m \in Ids, SteerIdle(m) PROVE IInv'
  BY <1>5, SteerIdleInv
<1>6. ASSUME NEW m \in Ids, SteerRunning(m) PROVE IInv'
  BY <1>6, SteerRunningInv
<1>7. ASSUME DirectPrompt PROVE IInv'
  <2>1. Distinct(lock') /\ lock' \in Seq(LockUsers) /\ Elems(lock') = {Prompter} /\ Elems(lock) = {}
    BY <1>7, FirstInLock DEF DirectPrompt
  <2> QED
    BY <1>7, <2>1, LockInv, UsersDiffer DEF DirectPrompt, engineVars, Typed
<1>8. ASSUME DirectAnswered PROVE IInv'
  <2>1. turn' \in {"none", "starting", "running"}
    BY <1>8 DEF DirectAnswered, Typed
  <2> QED
    BY <1>8, <2>1, FreedLock, LockInv DEF DirectAnswered, Typed
<1>9. ASSUME Cancel PROVE IInv'
  <2>1. CASE lock = <<>>
    <3>1. Distinct(lock') /\ lock' \in Seq(LockUsers) /\ Elems(lock') = {Canceller} /\ Elems(lock) = {}
      BY <1>9, <2>1, FirstInLock DEF Cancel
    <3> QED
      BY <1>9, <3>1, LockInv, UsersDiffer DEF Cancel, Typed
  <2>2. CASE lock # <<>>
    BY <1>0, <1>9, <2>2 DEF Cancel, Typed
  <2> QED
    BY <2>1, <2>2
<1>10. ASSUME AbortDone PROVE IInv'
  BY <1>10, FreedLock, LockInv DEF AbortDone, engineVars, Typed
<1>11. ASSUME ClearQueue PROVE IInv'
  BY <1>11, QueueEmptiedInv DEF ClearQueue
<1>12. ASSUME Park \/ Unpark PROVE IInv'
  BY <1>0, <1>12 DEF Park, Unpark, engineVars, Typed
<1>13. ASSUME PromptAccepted PROVE IInv'
  BY <1>13, AcceptedInv
<1>14. ASSUME PromptCommanded PROVE IInv'
  BY <1>14, DrainTakenInv DEF PromptCommanded
<1>15. ASSUME PromptRefused PROVE IInv'
  BY <1>15, RefusedInv
<1>16. ASSUME DeliveryFails PROVE IInv'
  BY <1>16, DeliveryFailsInv
<1>17. ASSUME FallbackTaken PROVE IInv'
  BY <1>17, DrainTakenInv DEF FallbackTaken
<1>18. ASSUME Acknowledge PROVE IInv'
  BY <1>18, AcknowledgeInv
<1>19. ASSUME PromptSettles PROVE IInv'
  BY <1>19, PromptSettlesInv
<1>20. ASSUME NEW m \in Ids, SteerTaken(m) PROVE IInv'
  BY <1>20, SteerTakenInv
<1>21. ASSUME NEW m \in Ids, SteerFails(m) PROVE IInv'
  BY <1>21, SteerFailsInv
<1>22. ASSUME TurnStreams PROVE IInv'
  BY <1>0, <1>22 DEF TurnStreams, Typed
<1>23. ASSUME TurnBoundary PROVE IInv'
  BY <1>23, QueueEmptiedInv DEF TurnBoundary
<1>24. ASSUME Settle PROVE IInv'
  BY <1>24, SettleInv
<1>25. ASSUME UNCHANGED vars PROVE IInv'
  BY <1>0, <1>25 DEF vars, engineVars, Typed
<1> QED
  BY <1>1, <1>2, <1>3, <1>4, <1>5, <1>6, <1>7, <1>8, <1>9, <1>10, <1>11, <1>12,
     <1>13, <1>14, <1>15, <1>16, <1>17, <1>18, <1>19, <1>20, <1>21, <1>22,
     <1>23, <1>24, <1>25
  DEF Next, Person, DrainAnswered, SteerAnswered, Engine

-----------------------------------------------------------------------------
(* The theorems.                                                           *)

(* The inductive invariant holds of every behaviour.                       *)
THEOREM Invariance == Spec => []IInv
<1> QED
  BY InitInv, NextInv, PTL DEF Spec

(* Every variable keeps its type, and the tray outgrows PENDING_MAX by the *)
(* messages whose steer failed and by nothing else (pending.ts:71, 164):   *)
(* rows that no person steered never exceed the limit.                     *)
THEOREM TypeCorrect == Spec => []TypeOK
<1>1. IInv => TypeOK
  <2> SUFFICES ASSUME IInv PROVE TypeOK
    OBVIOUS
  <2> USE DEF IInv
  <2> DEFINE E == Elems(tray)
             U == E \ favoured
  <2>1. IsFiniteSet(E) /\ Cardinality(E) = Len(tray) /\ E \in SUBSET Ids
    BY DistinctLen, ElemsOfSeq DEF Typed, Located
  <2> HIDE DEF E
  <2>2. IsFiniteSet(favoured) /\ IsFiniteSet(U)
    BY <2>1, IdsAreFinite, FS_Subset DEF Typed
  <2> HIDE DEF U
  <2>3. /\ IsFiniteSet(U \cup favoured)
        /\ Cardinality(U \cup favoured) =
             Cardinality(U) + Cardinality(favoured) - Cardinality(U \cap favoured)
    BY <2>2, FS_Union
  <2>4. E \subseteq U \cup favoured /\ U \cap favoured = {}
    BY DEF U
  <2>5. Cardinality(E) <= Cardinality(U \cup favoured)
    BY <2>3, <2>4, FS_Subset
  <2>6. /\ Cardinality(U \cap favoured) = 0
        /\ Cardinality(U) \in Nat /\ Cardinality(favoured) \in Nat
    BY <2>2, <2>4, FS_EmptySet, FS_CardinalityType
  <2>7. Cardinality(U) <= PendingMax
    BY DEF Roomy, U, E
  <2>8. Len(tray) \in Nat
    BY LenProperties DEF Typed
  <2>9. Len(tray) <= PendingMax + Cardinality(favoured)
    BY <2>1, <2>3, <2>5, <2>6, <2>7, <2>8, TrayAssumption
  <2> QED
    BY <2>9 DEF Typed, TypeOK
<1> QED
  BY <1>1, Invariance, PTL

(* A written message is in exactly one place - the tray, a steer's hand,   *)
(* the engine's queue, a turn, or back with the person - whatever is       *)
(* refused, steered, dropped or drained at the same time (pending.ts:8-9). *)
THEOREM MessagesHaveOnePlace == Spec => []OnePlace
<1>1. IInv => OnePlace
  <2> SUFFICES ASSUME IInv PROVE OnePlace
    OBVIOUS
  <2> USE DEF IInv
  <2>1. Elems(tray) = Rows /\ \A m \in Ids : Steered(m) <=> InHand(m)
    BY DEF Elems, Rows, Steered, InHand
  <2>2. ASSUME NEW m \in Ids, m <= written
        PROVE  Cardinality(Places(m)) = 1
    <3>1. \E p : Places(m) = {p}
      BY <2>1, <2>2 DEF Located, Gone, Places, Passing, InFlight
    <3> QED
      BY <3>1, FS_Singleton
  <2>3. ASSUME NEW m \in Ids, ~(m <= written)
        PROVE  Cardinality(Places(m)) = 0
    <3>1. Places(m) = {}
      BY <2>1, <2>3 DEF Located, Gone, Places
    <3> QED
      BY <3>1, FS_EmptySet
  <2> QED
    BY <2>2, <2>3 DEF OnePlace, Located, Distinct
<1> QED
  BY <1>1, Invariance, PTL

(* No message reaches the engine twice (pending.ts:239-259).               *)
THEOREM MessagesAreHandedOnce == Spec => []HandedOnce
<1>1. IInv => HandedOnce
  BY DEF IInv, Handed, Distinct, HandedOnce
<1> QED
  BY <1>1, Invariance, PTL

(* Messages nobody steered reach the engine in the order of writing, with  *)
(* none left out but what the person took back (pending.ts:168-173).       *)
THEOREM MessagesKeepTheirOrder == Spec => []HandedInOrder
<1>1. IInv => HandedInOrder
  BY DEF IInv, Ordered
<1> QED
  BY <1>1, Invariance, PTL

(* A row is drawn as on its way exactly while the drain in flight hands it *)
(* over, so no row is left that can be neither edited nor removed          *)
(* (pending.ts:100, 123, 134, 230).                                        *)
THEOREM DrawnRowsAreOnTheirWay == Spec => []OnItsWay
<1>1. IInv => OnItsWay
  BY DEF IInv, Passing, InFlight, OnItsWay, Elems, Rows
<1> QED
  BY <1>1, Invariance, PTL

===============================================================================
