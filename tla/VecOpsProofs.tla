----------------------------- MODULE VecOpsProofs ----------------------------
(***************************************************************************)
(* What the loops of VecOps compute, for every vector.                     *)
(*                                                                         *)
(* The induction is on the length of the prefix the loop has seen.  It is  *)
(* carried by sets of naturals (SetInduction), which rests on the library  *)
(* theorem that every non-empty set of naturals has a least element.       *)
(***************************************************************************)
EXTENDS VecOps, WellFoundedInduction, TLAPS

(***************************************************************************)
(* Every non-empty set of naturals has a least member.                     *)
(***************************************************************************)
LEMMA LeastNumber ==
  ASSUME NEW T, T \subseteq Nat, T # {}
  PROVE  \E m \in T : \A k \in T : ~(k < m)
<1> DEFINE R == OpToRel(<, Nat)
<1>1. IsWellFoundedOn(R, Nat)
  BY NatLessThanWellFounded, Zenon DEF OpToRel
<1>2. \E x \in T : \A y \in T : ~ (<< y, x >> \in R)
  <2> HIDE DEF R
  <2> QED BY <1>1, WFMin
<1>3. QED BY <1>2 DEF OpToRel

(***************************************************************************)
(* Induction over the naturals, with the induction hypothesis as a set.    *)
(***************************************************************************)
LEMMA SetInduction ==
  ASSUME NEW S, 0 \in S, \A n \in Nat : n \in S => n + 1 \in S
  PROVE  \A n \in Nat : n \in S
<1> DEFINE T == { n \in Nat : n \notin S }
<1> SUFFICES ASSUME T # {} PROVE FALSE
  OBVIOUS
<1>1. PICK m \in T : \A k \in T : ~(k < m)
  <2>1. T \subseteq Nat
    OBVIOUS
  <2> HIDE DEF T
  <2> QED BY <2>1, LeastNumber
<1>2. m \in Nat /\ m # 0
  OBVIOUS
<1>3. m - 1 \in Nat /\ m - 1 \notin T
  BY <1>1, <1>2
<1>4. m - 1 \in S
  BY <1>3
<1> QED BY <1>2, <1>3, <1>4

(***************************************************************************)
(* The loop is well defined: a function with its recursion equation        *)
(* exists, so the one CHOOSE picks satisfies it.                           *)
(***************************************************************************)
LEMMA KeepLoopEquation ==
  ASSUME NEW X, NEW s \in Seq(X), NEW S
  PROVE  KeepLoop(s, S) =
           [i \in 0 .. Len(s) |->
              IF i = 0 THEN << >>
              ELSE IF s[i] \in S THEN Append(KeepLoop(s, S)[i - 1], s[i])
                                 ELSE KeepLoop(s, S)[i - 1]]
<1> DEFINE Body(f, i) == IF i = 0 THEN << >>
                         ELSE IF s[i] \in S THEN Append(f[i - 1], s[i]) ELSE f[i - 1]
           Defined == { n \in Nat : \E f : f = [i \in 0 .. n |-> Body(f, i)] }
<1>1. 0 \in Defined
  <2>1. [i \in 0 .. 0 |-> << >>] = [i \in 0 .. 0 |-> Body([j \in 0 .. 0 |-> << >>], i)]
    OBVIOUS
  <2> QED BY <2>1
<1>2. ASSUME NEW n \in Nat, n \in Defined PROVE n + 1 \in Defined
  <2>1. PICK f : f = [i \in 0 .. n |-> Body(f, i)]
    BY <1>2
  <2> DEFINE g == [i \in 0 .. n + 1 |->
                     IF i = n + 1
                     THEN (IF s[n + 1] \in S THEN Append(f[n], s[n + 1]) ELSE f[n])
                     ELSE f[i]]
  <2>2. \A i \in 0 .. n + 1 : g[i] = Body(g, i)
    <3> SUFFICES ASSUME NEW i \in 0 .. n + 1 PROVE g[i] = Body(g, i)
      OBVIOUS
    <3>1. CASE i = n + 1
      <4>1. g[n] = f[n]
        OBVIOUS
      <4> QED BY <3>1, <4>1
    <3>2. CASE i # n + 1
      <4>1. i \in 0 .. n
        BY <3>2
      <4>2. g[i] = f[i]
        BY <3>2
      <4>3. f[i] = Body(f, i)
        <5> HIDE DEF Body, g
        <5> QED BY <2>1, <4>1, Zenon
      <4>4. i # 0 => g[i - 1] = f[i - 1]
        BY <3>2
      <4> QED BY <4>2, <4>3, <4>4
    <3> QED BY <3>1, <3>2
  <2>3. g = [i \in 0 .. n + 1 |-> Body(g, i)]
    <3>1. g = [i \in 0 .. n + 1 |-> g[i]]
      OBVIOUS
    <3> HIDE DEF g
    <3> QED BY <2>2, <3>1
  <2> HIDE DEF g
  <2> QED BY <2>3, SMTT(30)
<1>3. Len(s) \in Defined
  <2>1. \A n \in Nat : n \in Defined
    <3> HIDE DEF Defined
    <3> QED BY <1>1, <1>2, SetInduction
  <2>2. Len(s) \in Nat
    OBVIOUS
  <2> HIDE DEF Defined
  <2> QED BY <2>1, <2>2
<1> QED BY <1>3 DEF KeepLoop

\* One turn of the loop.
LEMMA KeepLoopStep ==
  ASSUME NEW X, NEW s \in Seq(X), NEW S
  PROVE  /\ KeepLoop(s, S)[0] = << >>
         /\ \A i \in 1 .. Len(s) :
              KeepLoop(s, S)[i] = IF s[i] \in S THEN Append(KeepLoop(s, S)[i - 1], s[i])
                                                ELSE KeepLoop(s, S)[i - 1]
<1> DEFINE k == KeepLoop(s, S)
           body == [i \in 0 .. Len(s) |->
                      IF i = 0 THEN << >>
                      ELSE IF s[i] \in S THEN Append(k[i - 1], s[i]) ELSE k[i - 1]]
<1>1. k = body
  BY KeepLoopEquation
<1>2. Len(s) \in Nat
  OBVIOUS
<1> HIDE DEF k
<1>3. k[0] = << >>
  BY <1>1, <1>2
<1>4. \A i \in 1 .. Len(s) : k[i] = IF s[i] \in S THEN Append(k[i - 1], s[i]) ELSE k[i - 1]
  <2> SUFFICES ASSUME NEW i \in 1 .. Len(s)
               PROVE  body[i] = IF s[i] \in S THEN Append(k[i - 1], s[i]) ELSE k[i - 1]
    BY <1>1
  <2> QED BY <1>2
<1> QED BY <1>3, <1>4 DEF k

(***************************************************************************)
(* After n elements the output holds exactly the elements seen so far that *)
(* are in S, in an order that respects every relation the input respects.  *)
(***************************************************************************)
LEMMA KeepLoopInvariant ==
  ASSUME NEW X, NEW s \in Seq(X), NEW S, NEW R, OrderedBy(s, R)
  PROVE  \A n \in 0 .. Len(s) :
           /\ KeepLoop(s, S)[n] \in Seq(X)
           /\ Len(KeepLoop(s, S)[n]) <= n
           /\ Elements(KeepLoop(s, S)[n]) = { s[j] : j \in 1 .. n } \cap S
           /\ OrderedBy(KeepLoop(s, S)[n], R)
<1> DEFINE k == KeepLoop(s, S)
           Good(n) == /\ k[n] \in Seq(X)
                      /\ Len(k[n]) <= n
                      /\ Elements(k[n]) = { s[j] : j \in 1 .. n } \cap S
                      /\ OrderedBy(k[n], R)
           Holds == { n \in Nat : n <= Len(s) => Good(n) }
<1>0. k[0] = << >> /\ \A i \in 1 .. Len(s) :
        k[i] = IF s[i] \in S THEN Append(k[i - 1], s[i]) ELSE k[i - 1]
  BY KeepLoopStep
<1> Len(s) \in Nat
  OBVIOUS
<1> HIDE DEF k
<1>1. 0 \in Holds
  <2>1. Len(k[0]) = 0 /\ k[0] \in Seq(X)
    BY <1>0
  <2>2. Elements(k[0]) = {} /\ OrderedBy(k[0], R)
    BY <2>1 DEF Elements, OrderedBy
  <2>3. { s[j] : j \in 1 .. 0 } = {}
    OBVIOUS
  <2> QED BY <2>1, <2>2, <2>3
<1>2. ASSUME NEW n \in Nat, n \in Holds PROVE n + 1 \in Holds
  <2> SUFFICES ASSUME n + 1 <= Len(s) PROVE Good(n + 1)
    OBVIOUS
  <2>1. Good(n)
    BY <1>2
  <2>2. n + 1 \in 1 .. Len(s) /\ (n + 1) - 1 = n /\ s[n + 1] \in X
    OBVIOUS
  <2>3. { s[j] : j \in 1 .. n + 1 } = { s[j] : j \in 1 .. n } \cup { s[n + 1] }
    <3>1. \A j : j \in 1 .. n + 1 <=> j \in 1 .. n \/ j = n + 1
      OBVIOUS
    <3> QED BY <3>1, Zenon
  <2>4. CASE s[n + 1] \notin S
    <3>1. k[n + 1] = k[n]
      BY <1>0, <2>2, <2>4
    <3> QED BY <2>1, <2>3, <2>4, <3>1
  <2>5. CASE s[n + 1] \in S
    <3> DEFINE a == Append(k[n], s[n + 1])
    <3>1. k[n + 1] = a
      BY <1>0, <2>2, <2>5
    <3>2. /\ a \in Seq(X)
          /\ Len(a) = Len(k[n]) + 1
          /\ Len(k[n]) \in Nat
          /\ \A i \in 1 .. Len(k[n]) : a[i] = k[n][i]
          /\ a[Len(k[n]) + 1] = s[n + 1]
      BY <2>1, <2>2
    <3>3. Elements(a) = Elements(k[n]) \cup { s[n + 1] }
      <4>1. \A i : i \in 1 .. Len(a) <=> i \in 1 .. Len(k[n]) \/ i = Len(k[n]) + 1
        BY <3>2
      <4> HIDE DEF a
      <4> QED BY <3>2, <4>1, Zenon DEF Elements
    <3>4. OrderedBy(a, R)
      <4> SUFFICES ASSUME NEW i \in 1 .. Len(a), NEW j \in 1 .. Len(a), i < j
                   PROVE  << a[i], a[j] >> \in R
        BY DEF OrderedBy
      <4>1. i \in 1 .. Len(k[n]) /\ a[i] = k[n][i]
        BY <3>2
      <4>2. CASE j \in 1 .. Len(k[n])
        BY <2>1, <3>2, <4>1, <4>2 DEF OrderedBy
      <4>3. CASE j = Len(k[n]) + 1
        <5>1. a[i] \in Elements(k[n])
          BY <4>1 DEF Elements
        <5>2. PICK p \in 1 .. n : a[i] = s[p]
          BY <2>1, <5>1
        <5>3. p \in 1 .. Len(s) /\ p < n + 1
          BY <2>2
        <5>4. << s[p], s[n + 1] >> \in R
          BY <2>2, <5>3 DEF OrderedBy
        <5> QED BY <3>2, <4>3, <5>2, <5>4
      <4>4. j \in 1 .. Len(k[n]) \/ j = Len(k[n]) + 1
        BY <3>2
      <4> QED BY <4>2, <4>3, <4>4
    <3> HIDE DEF a
    <3> QED BY <2>1, <2>3, <2>5, <3>1, <3>2, <3>3, <3>4
  <2> QED BY <2>4, <2>5
<1>3. \A n \in Nat : n \in Holds
  <2> HIDE DEF Holds
  <2> QED BY <1>1, <1>2, SetInduction
<1>4. ASSUME NEW n \in 0 .. Len(s) PROVE Good(n)
  <2>1. n \in Nat /\ n <= Len(s)
    OBVIOUS
  <2> HIDE DEF Good
  <2> QED BY <1>3, <2>1
<1> QED BY <1>4 DEF k

(***************************************************************************)
(* The filtered vector: its elements are those of the input that pass the  *)
(* test, in the input's order.                                             *)
(***************************************************************************)
THEOREM KeepProperties ==
  ASSUME NEW X, NEW s \in Seq(X), NEW S, NEW R, OrderedBy(s, R)
  PROVE  /\ Keep(s, S) \in Seq(X)
         /\ Len(Keep(s, S)) <= Len(s)
         /\ Elements(Keep(s, S)) = Elements(s) \cap S
         /\ OrderedBy(Keep(s, S), R)
<1>1. Len(s) \in 0 .. Len(s)
  OBVIOUS
<1> QED BY <1>1, KeepLoopInvariant DEF Keep, Elements

-----------------------------------------------------------------------------
(* The loop only looks at its vector *)

\* Two tests that agree on the elements of a vector keep the same of them.
LEMMA KeepSame ==
  ASSUME NEW X, NEW s \in Seq(X), NEW S, NEW T, \A i \in 1 .. Len(s) : s[i] \in S <=> s[i] \in T
  PROVE  Keep(s, S) = Keep(s, T)
<1> DEFINE a == KeepLoop(s, S)
           b == KeepLoop(s, T)
           Same == { n \in Nat : n <= Len(s) => a[n] = b[n] }
<1>1. /\ a[0] = << >>
      /\ \A i \in 1 .. Len(s) : a[i] = IF s[i] \in S THEN Append(a[i - 1], s[i]) ELSE a[i - 1]
  BY KeepLoopStep
<1>2. /\ b[0] = << >>
      /\ \A i \in 1 .. Len(s) : b[i] = IF s[i] \in T THEN Append(b[i - 1], s[i]) ELSE b[i - 1]
  BY KeepLoopStep
<1> HIDE DEF a, b
<1>3. 0 \in Same
  BY <1>1, <1>2
<1>4. ASSUME NEW n \in Nat, n \in Same
      PROVE  n + 1 \in Same
  <2> SUFFICES ASSUME n + 1 <= Len(s)
               PROVE  a[n + 1] = b[n + 1]
    OBVIOUS
  <2>1. PICK j \in 1 .. Len(s) : j = n + 1
    OBVIOUS
  <2>2. j - 1 = n /\ a[n] = b[n]
    BY <1>4, <2>1
  <2>3. a[j] = b[j]
    BY <1>1, <1>2, <2>2
  <2> QED BY <2>1, <2>3
<1>5. Len(s) \in Same
  <2> HIDE DEF Same
  <2> QED BY <1>3, <1>4, SetInduction
<1> QED BY <1>5 DEF a, b, Keep

-----------------------------------------------------------------------------
(* Sums *)

\* The sum is well defined, as the filter loop is.
LEMMA SumLoopEquation ==
  ASSUME NEW s, Len(s) \in Nat
  PROVE  SumLoop(s) = [i \in 0 .. Len(s) |-> IF i = 0 THEN 0 ELSE SumLoop(s)[i - 1] + s[i]]
<1> DEFINE Body(f, i) == IF i = 0 THEN 0 ELSE f[i - 1] + s[i]
           Defined == { n \in Nat : \E f : f = [i \in 0 .. n |-> Body(f, i)] }
<1>1. 0 \in Defined
  <2>1. [i \in 0 .. 0 |-> 0] = [i \in 0 .. 0 |-> Body([j \in 0 .. 0 |-> 0], i)]
    OBVIOUS
  <2> QED BY <2>1
<1>2. ASSUME NEW n \in Nat, n \in Defined PROVE n + 1 \in Defined
  <2>1. PICK f : f = [i \in 0 .. n |-> Body(f, i)]
    BY <1>2
  <2> DEFINE g == [i \in 0 .. n + 1 |-> IF i = n + 1 THEN f[n] + s[n + 1] ELSE f[i]]
  <2>2. \A i \in 0 .. n + 1 : g[i] = Body(g, i)
    <3> SUFFICES ASSUME NEW i \in 0 .. n + 1 PROVE g[i] = Body(g, i)
      OBVIOUS
    <3>1. CASE i = n + 1
      <4>1. g[n] = f[n]
        OBVIOUS
      <4> QED BY <3>1, <4>1
    <3>2. CASE i # n + 1
      <4>1. i \in 0 .. n
        BY <3>2
      <4>2. g[i] = f[i]
        BY <3>2
      <4>3. f[i] = Body(f, i)
        <5> HIDE DEF Body, g
        <5> QED BY <2>1, <4>1, Zenon
      <4>4. i # 0 => g[i - 1] = f[i - 1]
        BY <3>2
      <4> QED BY <4>2, <4>3, <4>4
    <3> QED BY <3>1, <3>2
  <2>3. g = [i \in 0 .. n + 1 |-> Body(g, i)]
    <3>1. g = [i \in 0 .. n + 1 |-> g[i]]
      OBVIOUS
    <3> HIDE DEF g
    <3> QED BY <2>2, <3>1
  <2> HIDE DEF g
  <2> QED BY <2>3
<1>3. Len(s) \in Defined
  <2>1. \A n \in Nat : n \in Defined
    <3> HIDE DEF Defined
    <3> QED BY <1>1, <1>2, SetInduction
  <2> HIDE DEF Defined
  <2> QED BY <2>1
<1> QED BY <1>3 DEF SumLoop

\* One more number.
LEMMA SumLoopStep ==
  ASSUME NEW s, Len(s) \in Nat
  PROVE  /\ SumLoop(s)[0] = 0
         /\ \A i \in 1 .. Len(s) : SumLoop(s)[i] = SumLoop(s)[i - 1] + s[i]
<1> DEFINE sums == SumLoop(s)
<1>1. sums = [i \in 0 .. Len(s) |-> IF i = 0 THEN 0 ELSE sums[i - 1] + s[i]]
  BY SumLoopEquation
<1> HIDE DEF sums
<1>2. sums[0] = 0
  BY <1>1
<1>3. \A i \in 1 .. Len(s) : sums[i] = sums[i - 1] + s[i]
  BY <1>1
<1> QED BY <1>2, <1>3 DEF sums

\* Prefixes that agree have the same sum, an integer; natural numbers add up
\* to a natural number.
LEMMA SumLoopAgrees ==
  ASSUME NEW s, NEW t, Len(s) \in Nat, Len(t) \in Nat, NEW n \in Nat, n <= Len(s), n <= Len(t),
         \A k \in 1 .. n : s[k] \in Int /\ s[k] = t[k]
  PROVE  /\ SumLoop(s)[n] \in Int
         /\ SumLoop(s)[n] = SumLoop(t)[n]
         /\ (\A k \in 1 .. n : s[k] \in Nat) => SumLoop(s)[n] \in Nat
<1> DEFINE a == SumLoop(s)
           b == SumLoop(t)
           Fine == { i \in Nat : i <= n =>
                       /\ a[i] \in Int /\ a[i] = b[i]
                       /\ (\A k \in 1 .. n : s[k] \in Nat) => a[i] \in Nat }
<1>1. a[0] = 0 /\ \A i \in 1 .. Len(s) : a[i] = a[i - 1] + s[i]
  BY SumLoopStep
<1>2. b[0] = 0 /\ \A i \in 1 .. Len(t) : b[i] = b[i - 1] + t[i]
  BY SumLoopStep
<1> HIDE DEF a, b
<1>3. 0 \in Fine
  BY <1>1, <1>2
<1>4. ASSUME NEW i \in Nat, i \in Fine
      PROVE  i + 1 \in Fine
  <2> SUFFICES ASSUME i + 1 <= n
               PROVE  /\ a[i + 1] \in Int /\ a[i + 1] = b[i + 1]
                      /\ (\A k \in 1 .. n : s[k] \in Nat) => a[i + 1] \in Nat
    OBVIOUS
  <2>1. PICK j \in 1 .. n : j = i + 1
    OBVIOUS
  <2>2. a[i] \in Int /\ a[i] = b[i] /\ ((\A k \in 1 .. n : s[k] \in Nat) => a[i] \in Nat)
    BY <1>4
  <2>3. j \in 1 .. Len(s) /\ j \in 1 .. Len(t) /\ j - 1 = i
    BY <2>1
  <2>4. a[j] = a[i] + s[j] /\ b[j] = b[i] + t[j]
    BY <1>1, <1>2, <2>3
  <2>5. s[j] \in Int /\ s[j] = t[j] /\ ((\A k \in 1 .. n : s[k] \in Nat) => s[j] \in Nat)
    OBVIOUS
  <2> QED BY <2>1, <2>2, <2>4, <2>5
<1>5. n \in Fine
  <2> HIDE DEF Fine
  <2> QED BY <1>3, <1>4, SetInduction
<1> QED BY <1>5 DEF a, b

(***************************************************************************)
(* The sum of natural numbers is a natural number.                         *)
(***************************************************************************)
LEMMA SumOfNaturals ==
  ASSUME NEW s, Len(s) \in Nat, \A k \in 1 .. Len(s) : s[k] \in Nat
  PROVE  SumUp(s) \in Nat
BY SumLoopAgrees DEF SumUp

(***************************************************************************)
(* What a vector gains at its end its sum gains.                           *)
(***************************************************************************)
THEOREM SumGrows ==
  ASSUME NEW s, NEW t, Len(s) \in Nat, Len(t) = Len(s) + 1,
         \A k \in 1 .. Len(s) : s[k] \in Int /\ t[k] = s[k],
         t[Len(t)] \in Int
  PROVE  /\ SumUp(s) \in Int
         /\ SumUp(t) = SumUp(s) + t[Len(t)]
<1>1. SumLoop(s)[Len(s)] \in Int /\ SumLoop(s)[Len(s)] = SumLoop(t)[Len(s)]
  <2>1. PICK m \in Nat : m = Len(s)
    OBVIOUS
  <2>2. /\ m \in Nat /\ m <= Len(s) /\ m <= Len(t) /\ Len(s) \in Nat /\ Len(t) \in Nat
        /\ \A k \in 1 .. m : s[k] \in Int /\ s[k] = t[k]
    BY <2>1
  <2>3. SumLoop(s)[m] \in Int /\ SumLoop(s)[m] = SumLoop(t)[m]
    BY <2>2, SumLoopAgrees
  <2> QED BY <2>1, <2>3
<1>2. PICK n \in Nat : n = Len(t)
  OBVIOUS
<1>3. n \in 1 .. Len(t) /\ n - 1 = Len(s)
  BY <1>2
<1>4. SumLoop(t)[n] = SumLoop(t)[n - 1] + t[n]
  BY <1>2, <1>3, SumLoopStep
<1> QED BY <1>1, <1>2, <1>3, <1>4 DEF SumUp

\* The empty vector adds up to nothing.
LEMMA SumOfNone == ASSUME NEW s, Len(s) = 0 PROVE SumUp(s) = 0
BY SumLoopStep DEF SumUp

(***************************************************************************)
(* A sum in which one number is replaced changes by the difference.        *)
(***************************************************************************)
THEOREM SumReplaces ==
  ASSUME NEW s, NEW t, Len(s) \in Nat, Len(t) = Len(s), NEW p \in 1 .. Len(s),
         \A k \in 1 .. Len(s) : s[k] \in Int /\ t[k] \in Int,
         \A k \in 1 .. Len(s) : k # p => t[k] = s[k]
  PROVE  SumUp(s) \in Int /\ SumUp(t) = SumUp(s) + (t[p] - s[p])
<1> DEFINE a == SumLoop(s)
           b == SumLoop(t)
           Fine == { i \in Nat : i <= Len(s) =>
                       /\ a[i] \in Int
                       /\ b[i] = IF i < p THEN a[i] ELSE a[i] + (t[p] - s[p]) }
<1>1. a[0] = 0 /\ \A i \in 1 .. Len(s) : a[i] = a[i - 1] + s[i]
  BY SumLoopStep
<1>2. b[0] = 0 /\ \A i \in 1 .. Len(s) : b[i] = b[i - 1] + t[i]
  BY SumLoopStep
<1> HIDE DEF a, b
<1>3. 0 \in Fine
  BY <1>1, <1>2
<1>4. ASSUME NEW i \in Nat, i \in Fine
      PROVE  i + 1 \in Fine
  <2> SUFFICES ASSUME i + 1 <= Len(s)
               PROVE  /\ a[i + 1] \in Int
                      /\ b[i + 1] = IF i + 1 < p THEN a[i + 1] ELSE a[i + 1] + (t[p] - s[p])
    OBVIOUS
  <2>1. PICK j \in 1 .. Len(s) : j = i + 1
    OBVIOUS
  <2>2. a[i] \in Int /\ b[i] = IF i < p THEN a[i] ELSE a[i] + (t[p] - s[p])
    BY <1>4, <2>1
  <2>3. j - 1 = i
    BY <2>1
  <2>4. a[j] = a[i] + s[j] /\ b[j] = b[i] + t[j]
    BY <1>1, <1>2, <2>3
  <2>5. s[j] \in Int /\ t[j] \in Int /\ s[p] \in Int /\ t[p] \in Int /\ (j # p => t[j] = s[j])
    OBVIOUS
  <2>6. CASE j = p
    BY <2>1, <2>2, <2>4, <2>5, <2>6
  <2>7. CASE j # p
    BY <2>1, <2>2, <2>4, <2>5, <2>7
  <2> QED BY <2>6, <2>7
<1>5. Len(s) \in Fine
  <2> HIDE DEF Fine
  <2> QED BY <1>3, <1>4, SetInduction
<1> QED BY <1>5 DEF a, b, SumUp

=============================================================================
