----------------------------- MODULE Induction -----------------------------
(***************************************************************************)
(* Induction without a predicate as a parameter: on a set that holds 0 and *)
(* is closed under successor, and by the smallest member of a set.  A      *)
(* proof by induction defines the set of the numbers its claim holds for   *)
(* and hides that definition where it cites NatSetInduction.               *)
(***************************************************************************)
EXTENDS Integers, FiniteSetTheorems, TLAPS

LEMMA Smallest ==
  ASSUME NEW T \in SUBSET Nat, T # {}
  PROVE  \E m \in T : \A k \in T : m <= k
<1>1. PICK x \in T : \A y \in T : <<y, x>> \notin OpToRel(<, Nat)
  BY NatLessThanWellFounded, WFMin
<1>2. ASSUME NEW y \in Nat, y < x
      PROVE  <<y, x>> \in OpToRel(<, Nat)
  BY <1>2, Zenon DEF OpToRel
<1>3. \A y \in T : ~(y < x)
  BY <1>1, <1>2, Zenon
<1> QED BY <1>3

LEMMA NatSetInduction ==
  ASSUME NEW S, 0 \in S, \A n \in Nat : n \in S => n + 1 \in S
  PROVE  Nat \subseteq S
<1> SUFFICES ASSUME Nat \ S # {}
             PROVE  FALSE
  OBVIOUS
<1>1. PICK m \in Nat \ S : \A k \in Nat \ S : m <= k
  BY Smallest
<1>2. m - 1 \in Nat /\ m - 1 \in S
  BY <1>1
<1> QED BY <1>1, <1>2

(* A finite set with a strict total order can be listed in that order: the *)
(* place of a member is the number of members up to it.                    *)
LEMMA Enumeration ==
  ASSUME NEW S, IsFiniteSet(S), NEW R,
         \A a \in S : <<a, a>> \notin R,
         \A a, b, c \in S : <<a, b>> \in R /\ <<b, c>> \in R => <<a, c>> \in R,
         \A a, b \in S : a = b \/ <<a, b>> \in R \/ <<b, a>> \in R
  PROVE  \E f \in [1..Cardinality(S) -> S] :
           /\ \A a \in S : \E i \in 1..Cardinality(S) : f[i] = a
           /\ \A i, j \in 1..Cardinality(S) : i < j => <<f[i], f[j]>> \in R
<1> DEFINE UpTo(a) == {b \in S : b = a \/ <<b, a>> \in R}
           n == Cardinality(S)
           place == [a \in S |-> Cardinality(UpTo(a))]
<1>1. n \in Nat
  BY FS_CardinalityType
<1>2. ASSUME NEW a \in S
      PROVE  IsFiniteSet(UpTo(a)) /\ Cardinality(UpTo(a)) \in 1..n
  <2>1. IsFiniteSet(UpTo(a)) /\ Cardinality(UpTo(a)) <= n
    BY FS_Subset
  <2>2. UpTo(a) # {}
    OBVIOUS
  <2> HIDE DEF UpTo, n
  <2>3. Cardinality(UpTo(a)) \in Nat /\ Cardinality(UpTo(a)) # 0
    BY <2>1, <2>2, FS_CardinalityType, FS_EmptySet
  <2> QED BY <1>1, <2>1, <2>3 DEF n
<1>3. ASSUME NEW a \in S, NEW b \in S, <<a, b>> \in R
      PROVE  place[a] < place[b]
  <2>1. UpTo(a) \in SUBSET UpTo(b) /\ UpTo(a) # UpTo(b)
    <3>1. b \in UpTo(b) /\ b \notin UpTo(a)
      BY <1>3
    <3> QED BY <1>3, <3>1
  <2>2. Cardinality(UpTo(a)) <= Cardinality(UpTo(b)) /\ Cardinality(UpTo(a)) # Cardinality(UpTo(b))
    BY <1>2, <2>1, FS_Subset
  <2> HIDE DEF UpTo, n
  <2>3. Cardinality(UpTo(a)) \in Int /\ Cardinality(UpTo(b)) \in Int
    BY <1>1, <1>2
  <2> QED BY <2>2, <2>3
<1>4. place \in [S -> 1..n]
  BY <1>2
<1> HIDE DEF place
<1>5. \A a, b \in S : place[a] = place[b] => a = b
  <2> SUFFICES ASSUME NEW a \in S, NEW b \in S, a # b
               PROVE  place[a] # place[b]
    OBVIOUS
  <2>1. place[a] < place[b] \/ place[b] < place[a]
    BY <1>3
  <2>2. place[a] \in Int /\ place[b] \in Int
    BY <1>1, <1>4
  <2> QED BY <2>1, <2>2
<1>6. \A i \in 1..n : \E a \in S : place[a] = i
  <2>1. IsFiniteSet(1..n) /\ Cardinality(1..n) = n
    BY <1>1, FS_Interval
  <2>2. place \in Injection(S, 1..n)
    BY <1>4, <1>5 DEF Injection, IsInjective
  <2>3. place \in Surjection(S, 1..n)
    BY <2>1, <2>2, FS_Injection
  <2> QED BY <2>3 DEF Surjection
<1> DEFINE f == [i \in 1..n |-> CHOOSE a \in S : place[a] = i]
<1>7. \A i \in 1..n : f[i] \in S /\ place[f[i]] = i
  BY <1>6
<1>8. f \in [1..n -> S]
  BY <1>7
<1>9. ASSUME NEW a \in S
      PROVE  \E i \in 1..n : f[i] = a
  <2>1. place[a] \in 1..n
    BY <1>4
  <2> QED BY <1>5, <1>7, <2>1
<1>10. ASSUME NEW i \in 1..n, NEW j \in 1..n, i < j
       PROVE  <<f[i], f[j]>> \in R
  <2> HIDE DEF f
  <2>1. f[i] # f[j] /\ ~(place[f[j]] < place[f[i]])
    BY <1>1, <1>7, <1>10
  <2> QED BY <1>3, <1>7, <2>1
<1> QED BY <1>8, <1>9, <1>10

(* A function on 0..k that each step computes from the value before it     *)
(* exists, and two such functions agree.                                   *)
Follows(f, D, a, k, next) ==
  f \in [0..k -> D] /\ f[0] = a /\ \A n \in 1..k : f[n] = next[n][f[n - 1]]

LEMMA Recursion ==
  ASSUME NEW D, NEW a \in D, NEW k \in Nat, NEW next \in [1..k -> [D -> D]]
  PROVE  \E f : Follows(f, D, a, k, next)
<1> DEFINE Solves(f, m) == f[0] = a /\ \A n \in 1..m : f[n] = next[n][f[n - 1]]
           Solvable(m) == \E f \in [0..m -> D] : Solves(f, m)
           S == {m \in Nat : m <= k => Solvable(m)}
<1>1. 0 \in S
  <2>1. [n \in 0..0 |-> a] \in [0..0 -> D] /\ Solves([n \in 0..0 |-> a], 0)
    OBVIOUS
  <2> QED BY <2>1
<1>2. ASSUME NEW m \in Nat, m + 1 <= k, Solvable(m)
      PROVE  Solvable(m + 1)
  <2>1. PICK f \in [0..m -> D] : Solves(f, m)
    BY <1>2
  <2> DEFINE g == [n \in 0..(m + 1) |-> IF n <= m THEN f[n] ELSE next[m + 1][f[m]]]
  <2>2. next[m + 1] \in [D -> D] /\ f[m] \in D
    BY <1>2
  <2>3. g \in [0..(m + 1) -> D]
    BY <2>2
  <2>4. ASSUME NEW n \in 1..(m + 1)
        PROVE  g[n] = next[n][g[n - 1]]
    <3>1. CASE n = m + 1
      BY <3>1
    <3>2. CASE n # m + 1
      <4>1. n \in 1..m /\ n - 1 \in 0..m
        BY <3>2
      <4> QED BY <2>1, <4>1
    <3> QED BY <3>1, <3>2
  <2>5. g[0] = a
    BY <2>1
  <2> QED BY <2>3, <2>4, <2>5
<1>3. \A m \in Nat : m \in S => m + 1 \in S
  <2> HIDE DEF Solvable
  <2> QED BY <1>2
<1>4. k \in S
  <2> HIDE DEF S
  <2> QED BY <1>1, <1>3, NatSetInduction
<1> QED BY <1>4 DEF Follows

Agree(f, g, k) == f[0] = g[0] /\ \A n \in 1..k : f[n - 1] = g[n - 1] => f[n] = g[n]

LEMMA SameRecursion ==
  ASSUME NEW k \in Nat, NEW f, NEW g, Agree(f, g, k)
  PROVE  f[k] = g[k]
<1> DEFINE S == {m \in Nat : m <= k => f[m] = g[m]}
<1>1. 0 \in S
  BY DEF Agree
<1>2. \A m \in Nat : m \in S => m + 1 \in S
  <2> SUFFICES ASSUME NEW m \in Nat, m \in S, m + 1 <= k
               PROVE  f[m + 1] = g[m + 1]
    OBVIOUS
  <2>1. m + 1 \in 1..k /\ (m + 1) - 1 = m /\ f[m] = g[m]
    OBVIOUS
  <2> QED BY <2>1 DEF Agree
<1> HIDE DEF S
<1>3. Nat \subseteq S
  BY <1>1, <1>2, NatSetInduction
<1> QED BY <1>3 DEF S
=============================================================================
