------------------------------ MODULE Induction ------------------------------
(***************************************************************************)
(* The least and the greatest element of a finite set of integers, and     *)
(* induction and recursion over the natural numbers.                       *)
(***************************************************************************)
EXTENDS Integers, FiniteSets, FiniteSetTheorems, TLAPS

(***************************************************************************)
(* A finite set of integers has a least element.  Were there none, the     *)
(* number of smaller elements would map the n elements one to one into     *)
(* 1..n-1.                                                                 *)
(***************************************************************************)
LEMMA LeastInteger ==
  ASSUME NEW S, IsFiniteSet(S), S # {}, S \subseteq Int
  PROVE  \E x \in S : \A y \in S : x <= y
<1> DEFINE below(x) == {y \in S : y < x}
           rank == [x \in S |-> Cardinality(below(x))]
           n == Cardinality(S)
<1>1. n \in Nat /\ n > 0
  BY FS_CardinalityType, FS_EmptySet
<1>2. ASSUME NEW x \in S
      PROVE  /\ IsFiniteSet(below(x))
             /\ rank[x] \in Nat
             /\ rank[x] < n
  <2>1. IsFiniteSet(below(x)) /\ Cardinality(below(x)) <= n
        /\ (n = Cardinality(below(x)) => S = below(x))
    BY FS_Subset
  <2>2. x \notin below(x)
    OBVIOUS
  <2>3. Cardinality(below(x)) \in Nat
    BY <2>1, FS_CardinalityType
  <2> QED BY <1>1, <2>1, <2>2, <2>3
<1>3. ASSUME NEW x \in S, NEW y \in S, x < y
      PROVE  rank[x] < rank[y]
  <2>1. below(x) \subseteq below(y) /\ x \in below(y) /\ x \notin below(x)
    <3>1. x \in Int /\ y \in Int /\ \A z \in S : z \in Int
      OBVIOUS
    <3>2. \A z \in S : z < x => z < y
      BY <1>3, <3>1
    <3>3. ~(x < x)
      BY <3>1
    <3> QED BY <1>3, <3>2, <3>3
  <2>2. Cardinality(below(x)) <= Cardinality(below(y))
        /\ (Cardinality(below(y)) = Cardinality(below(x)) => below(y) = below(x))
    BY <1>2, <2>1, FS_Subset
  <2> QED BY <1>2, <2>1, <2>2
<1>4. SUFFICES ASSUME \A x \in S : \E y \in S : y < x
               PROVE  FALSE
  OBVIOUS
<1>5. ASSUME NEW x \in S PROVE rank[x] \in 1..(n - 1)
  <2>1. PICK y \in S : y < x
    BY <1>4
  <2>2. rank[y] < rank[x]
    BY <1>3, <2>1
  <2> QED BY <1>1, <1>2, <2>2
<1>6. IsFiniteSet(1..(n - 1)) /\ Cardinality(1..(n - 1)) = n - 1
  <2> HIDE DEF n
  <2>1. 1 \in Int /\ n - 1 \in Int /\ (1 > n - 1 => n - 1 = 0)
    BY <1>1
  <2> DEFINE top == n - 1
  <2>2. top \in Int
    BY <2>1
  <2>3. IsFiniteSet(1..top) /\ Cardinality(1..top) = IF 1 > top THEN 0 ELSE top - 1 + 1
    <3> HIDE DEF top
    <3> QED BY <2>2, FS_Interval
  <2> QED BY <2>1, <2>3
<1>7. rank \in [S -> 1..(n - 1)]
  BY <1>5
<1>8. \E x, y \in S : x # y /\ rank[x] = rank[y]
  <2> HIDE DEF rank, n
  <2>1. Cardinality(1..(n - 1)) < Cardinality(S)
    BY <1>1, <1>6 DEF n
  <2> QED BY <1>6, <1>7, <2>1, FS_PigeonHole
<1> HIDE DEF rank
<1> QED BY <1>1, <1>3, <1>5, <1>8

(***************************************************************************)
(* A finite set has an element with the least key.  FindLineN's walk rests *)
(* on it: it stops at the lowest of the records that satisfy its test.     *)
(***************************************************************************)
LEMMA LeastElement ==
  ASSUME NEW S, IsFiniteSet(S), S # {}, NEW key \in [S -> Int]
  PROVE  \E x \in S : \A y \in S : key[x] <= key[y]
<1> DEFINE K == {key[x] : x \in S}
<1>1. key \in Surjection(S, K)
  BY DEF Surjection
<1>2. IsFiniteSet(K)
  BY <1>1, FS_Surjection
<1>3. K # {} /\ K \subseteq Int
  OBVIOUS
<1>4. PICK k \in K : \A j \in K : k <= j
  BY <1>2, <1>3, LeastInteger
<1> QED BY <1>4

(***************************************************************************)
(* And one with the greatest.                                              *)
(***************************************************************************)
LEMMA GreatestInteger ==
  ASSUME NEW S, IsFiniteSet(S), S # {}, S \subseteq Int
  PROVE  \E x \in S : \A y \in S : y <= x
<1> DEFINE key == [x \in S |-> 0 - x]
<1>1. key \in [S -> Int]
  OBVIOUS
<1>2. PICK x \in S : \A y \in S : key[x] <= key[y]
  BY <1>1, LeastElement
<1>3. \A y \in S : 0 - x <= 0 - y /\ x \in Int /\ y \in Int
  BY <1>2
<1> QED
  BY <1>3

-----------------------------------------------------------------------------
(***************************************************************************)
(* Induction and recursion over the natural numbers.  The properties are   *)
(* sets and the bodies of the definitions functions, so that nothing is    *)
(* stated about operators.                                                 *)
(***************************************************************************)
LEMMA Induct ==
  ASSUME NEW S, 0 \in S, \A n \in Nat : n \in S => n + 1 \in S
  PROVE  Nat \subseteq S
<1> SUFFICES ASSUME NEW k \in Nat, k \notin S PROVE FALSE
  OBVIOUS
<1> DEFINE B == {n \in 0..k : n \notin S}
<1>1. IsFiniteSet(B) /\ B # {} /\ B \subseteq Int
  <2>1. k \in Int /\ 0 \in Int
    OBVIOUS
  <2>2. IsFiniteSet(0..k)
    BY <2>1, FS_Interval
  <2>3. B \subseteq 0..k /\ k \in B
    OBVIOUS
  <2>4. 0..k \subseteq Int
    OBVIOUS
  <2> HIDE DEF B
  <2>5. IsFiniteSet(B)
    BY <2>2, <2>3, FS_Subset
  <2> QED
    BY <2>3, <2>4, <2>5
<1>2. PICK x \in B : \A y \in B : x <= y
  BY <1>1, LeastInteger
<1>3. x \in Nat /\ x <= k /\ x # 0 /\ x \notin S
  OBVIOUS
<1>4. x - 1 \in Nat /\ x - 1 <= k /\ ~(x <= x - 1) /\ (x - 1) + 1 = x
  BY <1>3
<1>5. x - 1 \in S
  BY <1>2, <1>4
<1> QED
  BY <1>3, <1>4, <1>5

\* The same for the numbers below each number.
LEMMA InductBelow ==
  ASSUME NEW S, \A n \in Nat : (\A k \in Nat : k < n => k \in S) => n \in S
  PROVE  Nat \subseteq S
<1> DEFINE T == {n \in Nat : \A k \in Nat : k < n => k \in S}
<1>1. 0 \in T
  OBVIOUS
<1>2. ASSUME NEW n \in Nat, n \in T PROVE n + 1 \in T
  <2>1. n \in S
    BY <1>2
  <2>2. \A k \in Nat : k < n + 1 => k < n \/ k = n
    OBVIOUS
  <2> QED
    BY <2>1, <2>2, <1>2
<1>3. Nat \subseteq T
  <2> HIDE DEF T
  <2> QED
    BY <1>1, <1>2, Induct
<1> QED
  BY <1>3

\* A definition f = F[f] whose value at a place needs those at places of less
\* measure only defines a function.
Descending(D, V, m, F) ==
  /\ V # {} /\ m \in [D -> Nat] /\ F \in [[D -> V] -> [D -> V]]
  /\ \A f, g \in [D -> V] : \A x \in D :
       (\A y \in D : m[y] < m[x] => f[y] = g[y]) => F[f][x] = F[g][x]

LEMMA Recursion ==
  ASSUME NEW D, NEW V, NEW m, NEW F, Descending(D, V, m, F)
  PROVE  \E f \in [D -> V] : F[f] = f
<1> DEFINE Fs == [D -> V]
           Good(k) == {f \in Fs : \A x \in D : m[x] < k => F[f][x] = f[x]}
           S == {k \in Nat : Good(k) # {}}
           U == {n \in Nat : \A x \in D, k \in Nat : m[x] = n /\ n < k =>
                               \A f, g \in Good(k) : f[x] = g[x]}
<1>1. F \in [Fs -> Fs] /\ \A f \in Fs : F[f] \in Fs
  BY DEF Descending
<1>2. \A x \in D : m[x] \in Nat
  BY DEF Descending
<1>3. \A f, g \in Fs : \A x \in D :
        (\A y \in D : m[y] < m[x] => f[y] = g[y]) => F[f][x] = F[g][x]
  BY DEF Descending
<1>4. Fs # {}
  <2>1. PICK v \in V : TRUE
    BY DEF Descending
  <2>2. [x \in D |-> v] \in Fs
    OBVIOUS
  <2> QED
    BY <2>2
<1> HIDE DEF Fs
\* Approximations for every measure.
<1>5. 0 \in S
  BY <1>2, <1>4
<1>6. ASSUME NEW k \in Nat, k \in S PROVE k + 1 \in S
  <2>1. PICK f \in Good(k) : TRUE
    BY <1>6
  <2>2. f \in Fs /\ F[f] \in Fs /\ \A x \in D : m[x] < k => F[f][x] = f[x]
    BY <1>1
  <2>3. ASSUME NEW x \in D, m[x] < k + 1 PROVE F[F[f]][x] = F[f][x]
    <3>1. \A y \in D : m[y] < m[x] => m[y] < k
      BY <1>2, <2>3
    <3>2. \A y \in D : m[y] < m[x] => F[f][y] = f[y]
      BY <3>1, <2>2
    <3> QED
      BY <3>2, <2>2, <1>3
  <2>4. F[f] \in Good(k + 1)
    BY <2>2, <2>3
  <2> QED
    BY <2>4
<1>7. \A k \in Nat : Good(k) # {}
  <2>1. Nat \subseteq S
    <3> HIDE DEF S
    <3> QED
      BY <1>5, <1>6, Induct
  <2> QED
    BY <2>1
\* They agree where both are right.
<1>8. ASSUME NEW n \in Nat, \A j \in Nat : j < n => j \in U PROVE n \in U
  <2> SUFFICES ASSUME NEW x \in D, NEW k \in Nat, m[x] = n, n < k,
                      NEW f \in Good(k), NEW g \in Good(k)
               PROVE  f[x] = g[x]
    OBVIOUS
  <2>1. f \in Fs /\ g \in Fs /\ F[f][x] = f[x] /\ F[g][x] = g[x]
    OBVIOUS
  <2>2. ASSUME NEW y \in D, m[y] < n PROVE f[y] = g[y]
    <3>1. m[y] \in Nat /\ m[y] < k
      BY <1>2, <2>2
    <3>2. m[y] \in U
      BY <3>1, <2>2, <1>8
    <3> QED
      BY <3>1, <3>2
  <2>3. F[f][x] = F[g][x]
    BY <2>1, <2>2, <1>3
  <2> QED
    BY <2>1, <2>3
<1>9. Nat \subseteq U
  <2> HIDE DEF U
  <2> QED
    BY <1>8, InductBelow
<1>10. ASSUME NEW x \in D, NEW k \in Nat, m[x] < k, NEW f \in Good(k), NEW g \in Good(k)
       PROVE  f[x] = g[x]
  <2>1. m[x] \in U
    BY <1>2, <1>9
  <2> QED
    BY <2>1, <1>10
<1> DEFINE A(k) == CHOOSE f : f \in Good(k)
           h == [x \in D |-> A(m[x] + 1)[x]]
<1>11. \A k \in Nat : A(k) \in Good(k)
  BY <1>7
<1>12. h \in Fs
  <2> HIDE DEF A
  <2>1. ASSUME NEW x \in D PROVE A(m[x] + 1) \in Fs
    <3>1. m[x] + 1 \in Nat
      BY <1>2
    <3>2. A(m[x] + 1) \in Good(m[x] + 1)
      BY <3>1, <1>11
    <3> QED
      BY <3>2
  <2> QED
    BY <2>1 DEF Fs
<1>13. ASSUME NEW x \in D PROVE F[h][x] = h[x]
  <2> DEFINE g == A(m[x] + 1)
  <2>1. g \in Good(m[x] + 1) /\ h[x] = g[x]
    <3>1. m[x] + 1 \in Nat
      BY <1>2
    <3>2. A(m[x] + 1) \in Good(m[x] + 1)
      BY ONLY <3>1, <1>11
    <3>3. h[x] = A(m[x] + 1)[x]
      OBVIOUS
    <3> QED
      BY <3>2, <3>3
  <2>2. g \in Fs /\ F[g][x] = g[x]
    BY <1>2, <2>1
  <2>3. ASSUME NEW y \in D, m[y] < m[x] PROVE h[y] = g[y]
    <3>1. A(m[y] + 1) \in Good(m[y] + 1) /\ h[y] = A(m[y] + 1)[y]
      <4>1. m[y] + 1 \in Nat
        BY <1>2
      <4>2. A(m[y] + 1) \in Good(m[y] + 1)
        BY ONLY <4>1, <1>11
      <4>3. h[y] = A(m[y] + 1)[y]
        OBVIOUS
      <4> QED
        BY <4>2, <4>3
    <3>2. g \in Good(m[y] + 1)
      <4>1. \A z \in D : m[z] < m[y] + 1 => m[z] < m[x] + 1
        BY <1>2, <2>3
      <4> HIDE DEF g
      <4> QED
        BY <2>1, <4>1
    <3>3. m[y] < m[y] + 1 /\ m[y] + 1 \in Nat
      BY <1>2
    <3> HIDE DEF A, g, h
    <3>4. A(m[y] + 1)[y] = g[y]
      BY <3>1, <3>2, <3>3, <1>10
    <3> QED
      BY <3>1, <3>4
  <2> HIDE DEF A, g, h
  <2>4. F[h][x] = F[g][x]
    BY <2>2, <2>3, <1>3, <1>12
  <2> QED
    BY <2>1, <2>2, <2>4
<1>14. F[h] = h
  <2> HIDE DEF h
  <2>1. h \in [D -> V] /\ F[h] \in [D -> V]
    BY <1>1, <1>12 DEF Fs
  <2> QED
    BY <2>1, <1>13
<1> QED
  BY <1>12, <1>14 DEF Fs
=============================================================================
