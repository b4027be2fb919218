--------------------------- MODULE Machine_proofs ---------------------------
(***************************************************************************)
(* The interpreter on any image, for every size of word and of stack:      *)
(* words stay words, bytes bytes and the stack's cells words, and the      *)
(* pushes that the macros of vm.h guard do not write below the stack.      *)
(*                                                                         *)
(* First the arithmetic: powers of two (they count subsets), the sums of   *)
(* bytes and of bits, C's division; then one lemma for each instruction.   *)
(***************************************************************************)
EXTENDS Machine, Induction

\* A set of n elements has 2^n subsets; one more element doubles them.
LEMMA Power ==
  ASSUME NEW n \in Nat
  PROVE  2 ^ n \in Nat \ {0} /\ 2 ^ (n + 1) = 2 * 2 ^ n
<1> DEFINE A == SUBSET (1..n)
           B == {s \cup {n + 1} : s \in A}
           f == [s \in A |-> s \cup {n + 1}]
<1>1. \A k \in Nat : IsFiniteSet(1..k) /\ Cardinality(1..k) = k
  <2> SUFFICES ASSUME NEW k \in Nat PROVE IsFiniteSet(1..k) /\ Cardinality(1..k) = k
    OBVIOUS
  <2>1. 1 \in Int /\ k \in Int
    OBVIOUS
  <2> QED
    BY <2>1, FS_Interval
<1>2. \A k \in Nat : IsFiniteSet(SUBSET (1..k)) /\ Cardinality(SUBSET (1..k)) = 2 ^ k
  BY <1>1, FS_SUBSET
<1>3. IsFiniteSet(A) /\ Cardinality(A) = 2 ^ n
  BY <1>2
<1>4. n + 1 \notin 1..n /\ 1..(n + 1) = 1..n \cup {n + 1}
  OBVIOUS
<1>5. f \in Bijection(A, B)
  <2>1. \A s, t \in A : s \cup {n + 1} = t \cup {n + 1} => s = t
    BY <1>4
  <2>2. f \in [A -> B] /\ \A s \in A : f[s] = s \cup {n + 1}
    OBVIOUS
  <2>3. \A t \in B : \E s \in A : f[s] = t
    BY <2>2
  <2> HIDE DEF A, B, f
  <2>4. \A s, t \in A : f[s] = f[t] => s = t
    BY <2>1, <2>2
  <2> QED
    BY <2>2, <2>3, <2>4 DEF Bijection, Injection, Surjection, IsInjective
<1>6. IsFiniteSet(B) /\ Cardinality(B) = Cardinality(A)
  BY <1>3, <1>5, FS_Bijection DEF ExistsBijection
<1>7. A \cap B = {}
  BY <1>4
<1>8. SUBSET (1..(n + 1)) = A \cup B
  <2>1. ASSUME NEW s \in SUBSET (1..(n + 1)), s \notin A PROVE s \in B
    <3>1. n + 1 \in s /\ s \ {n + 1} \in A
      BY <1>4, <2>1
    <3>2. s = (s \ {n + 1}) \cup {n + 1}
      BY <3>1
    <3> QED
      BY <3>1, <3>2
  <2>2. A \subseteq SUBSET (1..(n + 1)) /\ B \subseteq SUBSET (1..(n + 1))
    BY <1>4
  <2> QED
    BY <2>1, <2>2
<1>9. Cardinality(A \cup B) = Cardinality(A) + Cardinality(B)
  <2>1. A \cap B = {} /\ Cardinality(A \cap B) = 0
    BY <1>7, FS_EmptySet
  <2> HIDE DEF A, B
  <2>2. Cardinality(A) \in Nat /\ Cardinality(B) \in Nat
    BY <1>3, <1>6, FS_CardinalityType
  <2>3. Cardinality(A \cup B) = Cardinality(A) + Cardinality(B) - Cardinality(A \cap B)
    BY <1>3, <1>6, FS_Union
  <2> QED
    BY <2>1, <2>2, <2>3
<1>10. A # {}
  OBVIOUS
<1>11. n + 1 \in Nat /\ Cardinality(SUBSET (1..(n + 1))) = 2 ^ (n + 1)
  BY <1>2
<1> HIDE DEF A, B, f
<1>12. Cardinality(A) \in Nat /\ Cardinality(A) # 0
  BY <1>3, <1>10, FS_CardinalityType, FS_EmptySet
<1>13. Cardinality(A \cup B) = 2 * Cardinality(A)
  BY <1>6, <1>9, <1>12
<1> QED
  BY <1>3, <1>8, <1>11, <1>12, <1>13

\* The sum over a finite set, by recursion on its subsets, is an integer.
LEMMA SumIsInt ==
  ASSUME NEW S, IsFiniteSet(S), NEW f \in [S -> Int]
  PROVE  SumFunction(f) \in Int
<1> DEFINE D == SUBSET S
           V == Int
           pick(s) == CHOOSE x \in s : TRUE
           F == [g \in [D -> V] |-> [s \in D |-> IF s = {} THEN 0 ELSE f[pick(s)] + g[s \ {pick(s)}]]]
           m == [s \in D |-> Cardinality(s)]
           iter == CHOOSE iter : iter = [s \in D |-> IF s = {} THEN 0 ELSE f[pick(s)] + iter[s \ {pick(s)}]]
<1>0. DOMAIN f = S
  OBVIOUS
<1>1. SumFunction(f) = iter[S]
  BY <1>0 DEF SumFunction, SumFunctionOnSet, FoldFunctionOnSet, MapThenFoldSet
<1>2. \A s \in D : IsFiniteSet(s) /\ Cardinality(s) \in Nat
  BY FS_Subset, FS_CardinalityType
<1>3. \A s \in D : s # {} => pick(s) \in s
  OBVIOUS
<1>4. \A s \in D : s # {} => s \ {pick(s)} \in D /\ m[s \ {pick(s)}] < m[s] /\ f[pick(s)] \in Int
  <2> SUFFICES ASSUME NEW s \in D, s # {}
               PROVE  s \ {pick(s)} \in D /\ m[s \ {pick(s)}] < m[s] /\ f[pick(s)] \in Int
    OBVIOUS
  <2> DEFINE x == pick(s)
  <2>1. x \in s /\ x \in S
    BY <1>3
  <2> HIDE DEF x
  <2>2. s \ {x} \in D
    OBVIOUS
  <2>3. Cardinality(s \ {x}) = Cardinality(s) - 1
    BY <1>2, <2>1, FS_RemoveElement
  <2>4. m[s] = Cardinality(s) /\ m[s \ {x}] = Cardinality(s \ {x})
    BY <2>2
  <2>5. m[s \ {x}] < m[s]
    <3> HIDE DEF m
    <3> QED
      BY <1>2, <2>3, <2>4
  <2> QED
    BY <2>1, <2>2, <2>5 DEF x
<1>5. m \in [D -> Nat]
  BY <1>2
<1> HIDE DEF m, pick
<1>6. F \in [[D -> V] -> [D -> V]]
  BY <1>4
<1>7. ASSUME NEW g \in [D -> V], NEW h \in [D -> V], NEW s \in D, \A t \in D : m[t] < m[s] => g[t] = h[t]
      PROVE  F[g][s] = F[h][s]
  BY <1>4, <1>7
<1> HIDE DEF F
<1>8. V # {}
  OBVIOUS
<1>9. Descending(D, V, m, F)
  BY <1>5, <1>6, <1>7, <1>8 DEF Descending
<1>10. PICK g \in [D -> V] : F[g] = g
  <2>1. \E g \in [D -> V] : F[g] = g
    <3> HIDE DEF D, V
    <3> QED
      BY ONLY <1>9, Recursion
  <2> QED
    BY <2>1
<1>11. g = [s \in D |-> IF s = {} THEN 0 ELSE f[pick(s)] + g[s \ {pick(s)}]]
  BY <1>10 DEF F
<1>12. iter = [s \in D |-> IF s = {} THEN 0 ELSE f[pick(s)] + iter[s \ {pick(s)}]]
  BY <1>11
<1> HIDE DEF iter
<1> DEFINE P == {n \in Nat : \A s \in D : m[s] = n => iter[s] \in Int}
<1>13. ASSUME NEW n \in Nat, \A k \in Nat : k < n => k \in P PROVE n \in P
  <2> SUFFICES ASSUME NEW s \in D, m[s] = n PROVE iter[s] \in Int
    OBVIOUS
  <2>1. CASE s = {}
    BY <1>12, <2>1
  <2>2. CASE s # {}
    <3>1. iter[s \ {pick(s)}] \in Int
      <4>1. m[s \ {pick(s)}] \in Nat /\ m[s \ {pick(s)}] < n /\ s \ {pick(s)} \in D
        BY <1>4, <1>5, <2>2
      <4>2. m[s \ {pick(s)}] \in P
        BY <4>1, <1>13
      <4> QED
        BY <4>1, <4>2
    <3>2. iter[s] = f[pick(s)] + iter[s \ {pick(s)}]
      BY <1>12, <2>2
    <3> QED
      BY <3>1, <3>2, <1>4, <2>2
  <2> QED
    BY <2>1, <2>2
<1>14. Nat \subseteq P
  <2> HIDE DEF P
  <2> QED
    BY <1>13, InductBelow
<1>15. S \in D /\ m[S] \in Nat
  BY <1>5
<1> QED
  BY <1>1, <1>14, <1>15

\* A word's range is even and holds every byte.
LEMMA Sizes ==
  /\ Modulus \in Nat /\ Half \in Nat /\ Modulus = 2 * Half /\ 256 <= Half
  /\ WordSize \in Nat /\ 2 <= WordSize
<1> DEFINE P == {k \in Nat : 256 <= 2 ^ (15 + k)}
<1>1. 0 \in P
  <2>1. 2 ^ 15 = 32768
    OBVIOUS
  <2> QED
    BY <2>1
<1>2. ASSUME NEW k \in Nat, k \in P PROVE k + 1 \in P
  <2>1. 15 + k \in Nat /\ 15 + (k + 1) = (15 + k) + 1
    OBVIOUS
  <2>2. 2 ^ ((15 + k) + 1) = 2 * 2 ^ (15 + k) /\ 2 ^ (15 + k) \in Nat
    BY ONLY <2>1, Power
  <2>3. 256 <= 2 ^ (15 + k)
    BY <1>2
  <2>4. 256 <= 2 ^ (15 + (k + 1))
    BY <2>1, <2>2, <2>3
  <2> QED
    BY <2>4
<1>3. Nat \subseteq P
  <2> HIDE DEF P
  <2> QED
    BY <1>1, <1>2, Induct
<1>4. WordSize \in Nat /\ 2 <= WordSize
  BY WordAssumption
<1>5. PICK n \in Nat : n = 8 * WordSize - 1 /\ n + 1 = 8 * WordSize /\ n - 15 \in Nat /\ 15 + (n - 15) = n
  BY <1>4
<1>6. 2 ^ n \in Nat /\ Modulus = 2 * 2 ^ n
  BY <1>5, Power DEF Modulus, Weight
<1>7. 256 <= 2 ^ n
  BY <1>3, <1>5
<1> QED
  BY <1>4, <1>6, <1>7 DEF Half

\* Whatever wraps around is a word.
LEMMA WrapIsWord ==
  ASSUME NEW n \in Int
  PROVE  Wrap(n) \in Word
<1>1. (n + Half) % Modulus \in 0..(Modulus - 1)
  BY Sizes
<1> QED
  BY <1>1, Sizes DEF Wrap, Word

\* C's division: the quotient of the amounts, and what it leaves.
LEMMA Division ==
  ASSUME NEW x \in Nat, NEW y \in Nat \ {0}
  PROVE  /\ x \div y \in 0..x /\ x % y \in 0..(y - 1)
         /\ y * (x \div y) = x - (x % y)
         /\ y # 1 /\ x # 0 => x \div y < x
<1>1. x % y \in 0..(y - 1) /\ x \div y \in Int /\ x = y * (x \div y) + (x % y)
  <2>1. x \in Int /\ y \in Int /\ y > 0
    OBVIOUS
  <2>2. x % y \in 0..(y - 1)
    BY <2>1
  <2>3. x \div y \in Int
    BY <2>1
  <2>4. \A u \in Int, m \in Nat : m > 0 => u = m * (u \div m) + (u % m)
    BY ONLY TRUE
  <2>5. x = y * (x \div y) + (x % y)
    BY <2>1, <2>4
  <2> QED
    BY <2>2, <2>3, <2>5
<1> DEFINE q == x \div y
           r == x % y
<1> HIDE DEF q, r
<1>2. q \in Int /\ r \in 0..(y - 1) /\ x = y * q + r
  BY <1>1 DEF q, r
<1>3. 0 <= q
  <2> SUFFICES ASSUME q <= -1 PROVE FALSE
    BY <1>2
  <2>1. y * q <= y * (-1)
    BY <1>2
  <2> QED
    BY <2>1, <1>2
<1>4. q <= y * q
  BY <1>2, <1>3
<1>5. y # 1 => 2 * q <= y * q
  BY <1>2, <1>3
<1> QED
  BY <1>1, <1>2, <1>3, <1>4, <1>5 DEF q, r

\* Division leaves the words only where the processor raises its signal.
LEMMA QuotientIsWord ==
  ASSUME NEW x \in Word, NEW y \in Word, y # 0, ~(x = -Half /\ y = -1)
  PROVE  Quotient(x, y) \in Word /\ x - y * Quotient(x, y) \in Word
<1> DEFINE a == Abs(x)
           b == Abs(y)
           q == a \div b
<1>1. x \in Int /\ y \in Int /\ -Half <= x /\ x < Half /\ -Half <= y /\ y < Half
  BY Sizes DEF Word
<1>2. a \in Nat /\ b \in Nat \ {0} /\ a <= Half /\ b <= Half
      /\ (x < 0 => a = -x) /\ (x >= 0 => a = x) /\ (y < 0 => b = -y) /\ (y >= 0 => b = y)
  BY <1>1, Sizes DEF Abs
<1> HIDE DEF a, b
<1>3. /\ q \in 0..a /\ a % b \in 0..(b - 1) /\ b * q = a - (a % b)
      /\ b # 1 /\ a # 0 => q < a
  BY <1>2, Division
<1>4. Quotient(x, y) = IF (x < 0) = (y < 0) THEN q ELSE -q
  BY DEF Quotient, a, b
<1> HIDE DEF q
<1>5. CASE (x < 0) = (y < 0)
  <2>1. q < Half
    BY <1>1, <1>2, <1>3, <1>5, Sizes
  <2>2. x >= 0 => y * q = b * q /\ x = a
    BY <1>1, <1>2, <1>3, <1>5
  <2>3. x < 0 => y * q = -(b * q) /\ x = -a
    BY <1>1, <1>2, <1>3, <1>5
  <2>4. x - y * q \in Word
    BY <2>2, <2>3, <1>1, <1>2, <1>3, Sizes DEF Word
  <2> QED
    BY <2>1, <2>4, <1>3, <1>4, <1>5, Sizes DEF Word
<1>6. CASE (x < 0) # (y < 0)
  <2>1. x >= 0 => y * (-q) = b * q /\ x = a
    BY <1>1, <1>2, <1>3, <1>6
  <2>2. x < 0 => y * (-q) = -(b * q) /\ x = -a
    BY <1>1, <1>2, <1>3, <1>6
  <2>3. x - y * (-q) \in Word
    BY <2>1, <2>2, <1>1, <1>2, <1>3, Sizes DEF Word
  <2>4. -q \in Word
    BY <1>2, <1>3, Sizes DEF Word
  <2> QED
    BY <2>3, <2>4, <1>4, <1>6
<1> QED
  BY <1>5, <1>6

LEMMA SumIsWord ==
  ASSUME NEW n \in Nat, NEW f \in [0..n -> Int]
  PROVE  Wrap(SumFunction(f)) \in Word
<1>1. 0 \in Int /\ n \in Int
  OBVIOUS
<1>2. IsFiniteSet(0..n)
  BY ONLY <1>1, FS_Interval
<1>3. SumFunction(f) \in Int
  BY <1>2, SumIsInt
<1> QED
  BY ONLY <1>3, WrapIsWord

\* Bits, and the operators that go through them.
LEMMA BitIsInt ==
  ASSUME NEW x \in Int, NEW k \in Nat
  PROVE  Bit(x, k) \in Int
<1>1. 2 ^ k \in Nat \ {0}
  BY Power
<1>2. \A m \in Nat \ {0} : (x \div m) % 2 \in Int
  OBVIOUS
<1> QED
  BY <1>1, <1>2 DEF Bit

LEMMA BitWiseIsWord ==
  ASSUME NEW x \in Int, NEW y \in Int
  PROVE  /\ BitWise(LAMBDA a, b : a * b, x, y) \in Word
         /\ BitWise(LAMBDA a, b : a + b - a * b, x, y) \in Word
         /\ BitWise(LAMBDA a, b : (a + b) % 2, x, y) \in Word
<1> DEFINE n == 8 * WordSize - 1
<1>1. n \in Nat
  BY Sizes
<1>2. \A k \in 0..n : k \in Nat /\ Bit(x, k) \in Int /\ Bit(y, k) \in Int /\ 2 ^ k \in Int
  <2> SUFFICES ASSUME NEW k \in 0..n
               PROVE  k \in Nat /\ Bit(x, k) \in Int /\ Bit(y, k) \in Int /\ 2 ^ k \in Int
    OBVIOUS
  <2>1. k \in Nat
    BY <1>1
  <2> QED
    BY <2>1, BitIsInt, Power
<1>3. [k \in 0..n |-> (Bit(x, k) * Bit(y, k)) * 2 ^ k] \in [0..n -> Int]
  BY <1>2
<1>4. [k \in 0..n |-> (Bit(x, k) + Bit(y, k) - Bit(x, k) * Bit(y, k)) * 2 ^ k] \in [0..n -> Int]
  BY <1>2
<1>5. [k \in 0..n |-> ((Bit(x, k) + Bit(y, k)) % 2) * 2 ^ k] \in [0..n -> Int]
  BY <1>2
<1>6. Wrap(SumFunction([k \in 0..n |-> (Bit(x, k) * Bit(y, k)) * 2 ^ k])) \in Word
  BY ONLY <1>1, <1>3, SumIsWord
<1>7. Wrap(SumFunction([k \in 0..n |-> (Bit(x, k) + Bit(y, k) - Bit(x, k) * Bit(y, k)) * 2 ^ k])) \in Word
  BY ONLY <1>1, <1>4, SumIsWord
<1>8. Wrap(SumFunction([k \in 0..n |-> ((Bit(x, k) + Bit(y, k)) % 2) * 2 ^ k])) \in Word
  BY ONLY <1>1, <1>5, SumIsWord
<1> QED
  BY <1>6, <1>7, <1>8 DEF BitWise

\* A right shift rounds down; a left shift drops what leaves the word.
LEMMA ShiftsAreWords ==
  ASSUME NEW x \in Word, NEW y \in Word
  PROVE  /\ Wrap((x % 2 ^ (8 * WordSize - ShiftCount(y))) * 2 ^ ShiftCount(y)) \in Word
         /\ x \div 2 ^ ShiftCount(y) \in Word
<1> DEFINE j == ShiftCount(y)
<1>1. x \in Int /\ y \in Int
  BY DEF Word
<1>2. \A u \in Int, m \in Nat : m > 0 => u % m \in 0..(m - 1)
  OBVIOUS
<1>3. j \in Nat /\ 8 * WordSize - j \in Nat
  <2>1. 8 * WordSize \in Nat /\ 8 * WordSize > 0
    BY Sizes
  <2>2. y % (8 * WordSize) \in 0..(8 * WordSize - 1)
    BY <1>1, <1>2, <2>1
  <2> QED
    BY <2>1, <2>2 DEF ShiftCount
<1> HIDE DEF j
<1>4. 2 ^ j \in Nat \ {0} /\ 2 ^ (8 * WordSize - j) \in Nat \ {0}
  BY <1>3, Power
<1>5. \A m \in Nat \ {0}, l \in Nat \ {0} : (x % m) * l \in Int
  BY <1>1
<1>6. \A m \in Nat \ {0} : x \div m \in Word
  <2> SUFFICES ASSUME NEW m \in Nat \ {0} PROVE x \div m \in Word
    OBVIOUS
  <2>1. \A u \in Int, l \in Nat : l > 0 => u = l * (u \div l) + (u % l) /\ u \div l \in Int
    OBVIOUS
  <2>2. m \in Nat /\ m > 0
    OBVIOUS
  <2>3. x = m * (x \div m) + (x % m) /\ x \div m \in Int /\ x % m \in 0..(m - 1)
    BY <1>1, <1>2, <2>1, <2>2
  <2> DEFINE q == x \div m
             r == x % m
  <2> HIDE DEF q, r
  <2>4. q \in Int /\ r \in 0..(m - 1) /\ x = m * q + r
    BY <2>3 DEF q, r
  <2>5. q >= 0 => q <= m * q
    BY <2>2, <2>4
  <2>6. q <= -1 => x <= q
    <3>1. q <= -1 => (m - 1) * q <= (m - 1) * (-1)
      BY <2>2, <2>4
    <3>2. m * q = (m - 1) * q + q
      BY <2>2, <2>4
    <3> QED
      BY <3>1, <3>2, <2>2, <2>4
  <2>7. -Half <= x /\ x < Half
    BY <1>1, Sizes DEF Word
  <2>8. q \in Word
    BY <1>1, <2>2, <2>4, <2>5, <2>6, <2>7, Sizes DEF Word
  <2> QED
    BY <2>8 DEF q
<1>7. Wrap((x % 2 ^ (8 * WordSize - j)) * 2 ^ j) \in Word
  BY <1>4, <1>5, WrapIsWord
<1> QED
  BY <1>4, <1>6, <1>7 DEF j

\* Whichever arm of Binary applies, its value is a word.
LEMMA BinaryIsWord ==
  ASSUME NEW o \in BinaryOps, NEW x \in Word, NEW y \in Word,
         o \in {OP_DIV, OP_REM} => ~(x = -Half /\ y = -1)
  PROVE  Binary(o, x, y) \in Word
<1>1. x \in Int /\ y \in Int /\ 0 \in Word /\ WordSize \in Int
  BY Sizes DEF Word
<1>2. /\ Wrap(x + y) \in Word /\ Wrap(x - y) \in Word /\ Wrap(x * y) \in Word
      /\ Wrap(x + y * WordSize) \in Word
  <2>1. x + y \in Int /\ x - y \in Int /\ x * y \in Int /\ x + y * WordSize \in Int
    BY <1>1
  <2> QED
    BY ONLY <2>1, WrapIsWord
<1>3. o \in {OP_DIV, OP_REM} /\ y # 0 => Quotient(x, y) \in Word /\ x - y * Quotient(x, y) \in Word
  BY QuotientIsWord
<1>4. o = OP_DIV => (IF y = 0 THEN 0 ELSE Quotient(x, y)) \in Word
  BY <1>1, <1>3
<1>5. o = OP_REM => (IF y = 0 THEN 0 ELSE x - y * Quotient(x, y)) \in Word
  BY <1>1, <1>3
<1>6. /\ Truth(x < y) \in Word /\ Truth(x <= y) \in Word /\ Truth(x = y) \in Word
      /\ Truth(x # y) \in Word /\ Truth(x >= y) \in Word /\ Truth(x > y) \in Word
  BY Sizes DEF Truth, VMTRUE, VMFALSE, Word
<1>7. o \in {OP_ADD, OP_SUB, OP_MUL, OP_DIV, OP_REM, OP_BAND, OP_BOR, OP_BXOR, OP_SHL,
            OP_SHR, OP_LT, OP_LE, OP_EQ, OP_NE, OP_GE, OP_GT, OP_INDEX}
  BY DEF BinaryOps, OP_ADD, OP_SUB, OP_MUL, OP_DIV, OP_REM, OP_BAND, OP_BOR, OP_BXOR, OP_SHL,
         OP_SHR, OP_LT, OP_LE, OP_EQ, OP_NE, OP_GE, OP_GT, OP_INDEX, OP_BNOT
<1> QED
  BY <1>2, <1>4, <1>5, <1>6, <1>7, BitWiseIsWord, ShiftsAreWords, <1>1, ZenonT(60) DEF Binary

LEMMA UnaryIsWord ==
  ASSUME NEW o \in UnaryOps, NEW x \in Word
  PROVE  Unary(o, x) \in Word
<1>1. x \in Int /\ -x \in Int
  BY Sizes DEF Word
<1>2. Wrap(-x) \in Word
  BY <1>1, WrapIsWord
<1>3. -x - 1 \in Word
  BY <1>1, Sizes DEF Word
<1>4. Truth(x = VMFALSE) \in Word
  BY Sizes DEF Truth, VMTRUE, VMFALSE, Word
<1>5. o \in {OP_NOT, OP_NEG, OP_BNOT}
  BY DEF UnaryOps
<1> QED
  BY <1>2, <1>3, <1>4, <1>5, ZenonT(60) DEF Unary

-----------------------------------------------------------------------------
(***************************************************************************)
(* The inductive invariant.  TypeOK needs that the image is one piece, so  *)
(* that an operand's bytes lie between its first and its last, and short   *)
(* enough for return addresses to be words; that frame pointers, which     *)
(* FRAME saves on the stack, are words; and that keys are bytes.  What is  *)
(* wild stopped at a step that is not defined.                             *)
(***************************************************************************)
Sized == \E n \in 0..(Half - 1) : DOMAIN code = 0..(n - 1)

Types ==
  /\ TypeOK
  /\ Sized
  /\ fp \in Word
  /\ input \in Seq(Byte)

WildUndefined == status = "wild" => ~Defined

IInv == Types /\ WildUndefined

\* vm_init.
LEMMA InitIInv == Init => IInv
<1> SUFFICES ASSUME Init PROVE IInv
  OBVIOUS
<1>1. PICK bytes \in Images : InitWith(bytes, 0)
  BY DEF Init
<1>2. PICK n \in 0..(Half - 1) : bytes \in [0..(n - 1) -> Byte]
  BY ImageAssumption
<1>3. code \in [Image -> Byte] /\ DOMAIN code = 0..(n - 1)
  BY <1>1, <1>2 DEF InitWith, Image
<1>4. StackSize \in Int /\ StackSize \in Word /\ 0 \in Int
  BY MachineAssumption, Sizes DEF Word
<1>5. tos \in Word /\ input \in Seq(Byte) /\ status = "running"
  BY <1>1, ImageAssumption DEF InitWith
<1>6. stack \in [Cells -> Word] /\ pc \in Int /\ sp \in Int /\ fp \in Word /\ fp \in Int
  BY <1>1, <1>4, <1>5 DEF InitWith
<1> QED
  BY <1>3, <1>5, <1>6 DEF IInv, Types, TypeOK, Sized, WildUndefined

\* The bytes of an instruction.
LEMMA Lengths ==
  ASSUME NEW o
  PROVE  /\ Length(o) \in Int /\ 1 <= Length(o)
         /\ o \in WordOperand => Length(o) = 1 + WordSize
         /\ o \in ByteOperand => Length(o) = 2
<1>1. WordOperand \cap ByteOperand = {}
  BY DEF WordOperand, ByteOperand, OP_BRT, OP_BRTSC, OP_BRF, OP_BRFSC, OP_BR, OP_LIT, OP_NATIVE,
         OP_SLIT, OP_LREF, OP_LSET, OP_FRAME, OP_TRAP, OP_CLEAN
<1>2. /\ o \in WordOperand => Length(o) = 1 + WordSize
      /\ o \in ByteOperand => Length(o) = 2
      /\ o \notin WordOperand /\ o \notin ByteOperand => Length(o) = 1
  BY <1>1, Zenon DEF Length
<1> QED
  BY <1>2, Sizes

\* The bytes of an address and the word they make.
LEMMA BytesAreWord ==
  ASSUME NEW m, NEW n \in Int, m \in [0..(n - 1) -> Byte],
         NEW a \in 0..(n - 1), a + WordSize - 1 \in 0..(n - 1)
  PROVE  Operand(m, a) \in Word /\ Native(m, a) \in Word
<1> DEFINE last == WordSize - 1
<1>1. last \in Nat /\ WordSize \in Nat
  BY Sizes
<1>2. \A k \in 0..last : Weight(k) \in Int
  <2> SUFFICES ASSUME NEW k \in 0..last PROVE Weight(k) \in Int
    OBVIOUS
  <2>1. 8 * k \in Nat
    BY <1>1
  <2> QED
    BY <2>1, Power DEF Weight
<1>3. \A k \in 0..last : m[a + WordSize - 1 - k] \in Int /\ m[a + k] \in Int
  <2>1. \A k \in 0..last : a + WordSize - 1 - k \in 0..(n - 1) /\ a + k \in 0..(n - 1)
    BY <1>1
  <2>2. \A i \in 0..(n - 1) : m[i] \in Int
    <3>1. \A i \in 0..(n - 1) : m[i] \in Byte
      BY Zenon
    <3>2. Byte \subseteq Int
      BY DEF Byte
    <3> QED
      BY <3>1, <3>2, Zenon
  <2> QED
    BY ONLY <2>1, <2>2
<1>4. [k \in 0..last |-> m[a + WordSize - 1 - k] * Weight(k)] \in [0..last -> Int]
  BY <1>2, <1>3
<1>5. [k \in 0..last |-> m[a + k] * Weight(k)] \in [0..last -> Int]
  BY <1>2, <1>3
<1>6. Wrap(SumFunction([k \in 0..last |-> m[a + WordSize - 1 - k] * Weight(k)])) \in Word
  BY ONLY <1>1, <1>4, SumIsWord
<1>7. Wrap(SumFunction([k \in 0..last |-> m[a + k] * Weight(k)])) \in Word
  BY ONLY <1>1, <1>5, SumIsWord
<1> QED
  BY <1>6, <1>7 DEF Operand, Native, Places

\* A word that is stored leaves an image of bytes.
LEMMA PokeIsImage ==
  ASSUME NEW m, m \in [DOMAIN m -> Byte], NEW a, NEW w \in Word
  PROVE  Poke(m, a, w) \in [DOMAIN m -> Byte]
<1>1. \A k \in Places : BytesOf(w)[k] \in Byte
  <2> SUFFICES ASSUME NEW k \in Places PROVE BytesOf(w)[k] \in Byte
    OBVIOUS
  <2>1. 8 * k \in Nat
    BY Sizes DEF Places
  <2>2. Weight(k) \in Nat \ {0}
    BY <2>1, Power DEF Weight
  <2>3. w % Modulus \in Int
    <3>1. w \in Int /\ Modulus \in Nat /\ Modulus > 0
      BY Sizes DEF Word
    <3> QED
      BY <3>1
  <2>4. \A u \in Int, l \in Nat \ {0} : (u \div l) % 256 \in 0..255
    OBVIOUS
  <2> QED
    BY <2>2, <2>3, <2>4 DEF BytesOf, Byte
<1> QED
  BY <1>1 DEF Poke

-----------------------------------------------------------------------------
\* What an instruction that is executed may count on.
LEMMA Executing ==
  ASSUME Types, NEW ops, Execute(ops)
  PROVE  /\ op \in ops /\ op \in Byte /\ pc \in Image /\ status = "running"
         /\ pc + Length(op) \in Int
         /\ op \in ByteOperand => arg \in Byte
         /\ op \in WordOperand => Operand(code, pc + 1) \in Word /\ Target \in Int
         /\ Touched \subseteq Cells
         /\ Addressed \subseteq Image
         /\ op \in {OP_DIV, OP_REM} => ~(stack[sp] = -Half /\ tos = -1)
<1>1. op \in ops /\ status = "running" /\ Fetched /\ Touched \subseteq Cells /\ Addressed \subseteq Image
      /\ (op \in {OP_DIV, OP_REM} => ~(stack[sp] = -Half /\ tos = -1))
  BY DEF Execute, Defined
<1>2. PICK n \in 0..(Half - 1) : DOMAIN code = 0..(n - 1)
  BY DEF Types, Sized
<1>3. n \in Int /\ code \in [0..(n - 1) -> Byte] /\ pc \in 0..(n - 1) /\ pc + Length(op) - 1 \in 0..(n - 1)
  BY <1>1, <1>2, Sizes DEF Types, TypeOK, Fetched, Image
<1>4. Length(op) \in Int /\ 1 <= Length(op)
      /\ (op \in WordOperand => Length(op) = 1 + WordSize) /\ (op \in ByteOperand => Length(op) = 2)
  BY Lengths
<1>5. op \in Byte /\ pc \in Image
  BY <1>1, <1>3 DEF op, Fetched
<1>6. op \in ByteOperand => arg \in Byte
  BY <1>3, <1>4 DEF arg
<1>7. op \in WordOperand => Operand(code, pc + 1) \in Word /\ Target \in Int
  <2> SUFFICES ASSUME op \in WordOperand PROVE Operand(code, pc + 1) \in Word /\ Target \in Int
    OBVIOUS
  <2>1. pc + 1 \in 0..(n - 1) /\ (pc + 1) + WordSize - 1 \in 0..(n - 1)
    BY <1>3, <1>4, Sizes
  <2>2. Operand(code, pc + 1) \in Word
    BY <1>3, <2>1, BytesAreWord
  <2>3. Operand(code, pc + 1) \in Int /\ pc \in Int
    BY <1>3, <2>2 DEF Word
  <2> QED
    BY <1>4, <2>2, <2>3 DEF Target
<1> QED
  BY <1>1, <1>3, <1>4, <1>5, <1>6, <1>7

\* The cells Touched names, one kind of instruction at a time.
LEMMA TouchedCells ==
  /\ PopsNow => sp \in Touched
  /\ op \in {OP_STORE, OP_STOREB} => sp + 1 \in Touched
  /\ op \in Pushes \/ trap = TRAP_GetChar => sp - 1 \in Touched
  /\ op \in {OP_LREF, OP_LSET} => fp + SignedByte(arg) \in Touched
  /\ op = OP_FRAME => sp - 1 \in Touched
  /\ op \in {OP_RETURN, OP_RETURNZ} => fp - 1 \in Touched
  BY Zenon DEF Touched

\* A step keeps the types if each variable does.
LEMMA Keeps ==
  ASSUME Types, code' \in [Image -> Byte], pc' \in Int, sp' \in Int, fp' \in Word, tos' \in Word,
         stack' \in [Cells -> Word], input' \in Seq(Byte), status' \in {"running", "halted", "aborted"}
  PROVE  IInv'
<1>1. DOMAIN code' = DOMAIN code
  BY DEF Image
<1>2. code' \in [Image' -> Byte]
  BY <1>1 DEF Image
<1>3. Sized'
  BY <1>1 DEF Types, Sized
<1>4. fp' \in Int
  BY Sizes DEF Word
<1>5. stack' \in [Cells' -> Word]
  BY DEF Cells
<1>6. WildUndefined'
  BY DEF WildUndefined
<1>7. TypeOK'
  BY <1>2, <1>4, <1>5 DEF TypeOK
<1> QED
  BY <1>3, <1>6, <1>7 DEF IInv, Types

\* The variables an instruction leaves alone.
LEMMA Unchanged ==
  ASSUME Types
  PROVE  /\ code \in [Image -> Byte] /\ pc \in Int /\ sp \in Int /\ fp \in Word /\ fp \in Int
         /\ tos \in Word /\ tos \in Int /\ stack \in [Cells -> Word] /\ input \in Seq(Byte)
         /\ \A c \in Cells : stack[c] \in Word
         /\ \A a \in Image : code[a] \in Byte
  BY Sizes DEF Types, TypeOK, Word

\* A push and a pop where the step's cells are.
LEMMA Pushed ==
  ASSUME Types, sp - 1 \in Cells, NEW v \in Word, Push(v)
  PROVE  sp' \in Int /\ tos' \in Word /\ stack' \in [Cells -> Word]
         /\ \A c \in Cells : stack'[c] \in Word
  BY Unchanged DEF Push

LEMMA Popped ==
  ASSUME Types, sp \in Cells, Pop
  PROVE  sp' \in Int /\ tos' \in Word /\ stack' \in [Cells -> Word]
  BY Unchanged DEF Pop

\* Operands, bytes and truth values are words.
LEMMA SmallWords ==
  /\ \A b \in Byte : b \in Word /\ SignedByte(b) \in Word /\ SignedByte(b) \in Int
  /\ 0 \in Word /\ -1 \in Word /\ 10 \in Word /\ VMFALSE \in Word
<1>1. \A b \in 0..255 : SignedByte(b) \in (-128)..255
  BY DEF SignedByte
<1>2. \A k \in (-128)..255 : k \in Word
  BY Sizes DEF Word
<1>3. \A b \in Byte : b \in (-128)..255 /\ SignedByte(b) \in (-128)..255
  <2>1. \A b \in 0..255 : b \in (-128)..255
    OBVIOUS
  <2> QED
    BY <1>1, <2>1 DEF Byte
<1>4. \A k \in (-128)..255 : k \in Int
  OBVIOUS
<1>5. {0, -1, 10} \subseteq (-128)..255 /\ VMFALSE = 0
  BY DEF VMFALSE
<1> QED
  BY <1>2, <1>3, <1>4, <1>5

-----------------------------------------------------------------------------
\* One lemma for each instruction.
LEMMA HaltKeeps == Types /\ Halt => IInv'
<1> SUFFICES ASSUME Types, Halt PROVE IInv'
  OBVIOUS
<1> QED
  BY Unchanged, Keeps DEF Halt

LEMMA BranchIfKeeps == Types /\ BranchIf => IInv'
<1> SUFFICES ASSUME Types, BranchIf PROVE IInv'
  OBVIOUS
<1>1. Execute({OP_BRT, OP_BRF}) /\ Pop /\ pc' \in {Target, pc + Length(op)}
      /\ UNCHANGED <<status, code, fp, input, out>>
  BY DEF BranchIf, KeepsMemory, KeepsFrame, NoIO
<1>2. op \in {OP_BRT, OP_BRF} /\ status = "running" /\ pc + Length(op) \in Int /\ Touched \subseteq Cells
      /\ (op \in WordOperand => Target \in Int)
  BY <1>1, Executing
<1>3. PopsNow /\ op \in WordOperand
  BY <1>2 DEF PopsNow, Pops, WordOperand
<1>4. sp \in Cells
  BY <1>2, <1>3, TouchedCells
<1> QED
  BY <1>1, <1>2, <1>3, <1>4, Popped, Unchanged, Keeps

LEMMA BranchShortCircuitKeeps == Types /\ BranchShortCircuit => IInv'
<1> SUFFICES ASSUME Types, BranchShortCircuit PROVE IInv'
  OBVIOUS
<1>1. Execute({OP_BRTSC, OP_BRFSC}) /\ UNCHANGED <<status, code, fp, input, out>>
      /\ IF (tos # VMFALSE) = (op = OP_BRTSC)
         THEN pc' = Target /\ UNCHANGED <<sp, tos, stack>>
         ELSE pc' = pc + Length(op) /\ Pop
  BY DEF BranchShortCircuit, KeepsMemory, KeepsFrame, NoIO
<1>2. op \in {OP_BRTSC, OP_BRFSC} /\ status = "running" /\ pc + Length(op) \in Int /\ Touched \subseteq Cells
      /\ (op \in WordOperand => Target \in Int)
  BY <1>1, Executing
<1>3. op \in WordOperand /\ OP_BRTSC # OP_BRFSC
  BY <1>2 DEF WordOperand, OP_BRTSC, OP_BRFSC
<1>4. CASE (tos # VMFALSE) = (op = OP_BRTSC)
  BY <1>1, <1>2, <1>3, <1>4, Unchanged, Keeps
<1>5. CASE (tos # VMFALSE) # (op = OP_BRTSC)
  <2>1. PopsNow
    BY <1>2, <1>3, <1>5 DEF PopsNow
  <2>2. sp \in Cells
    BY <1>2, <2>1, TouchedCells
  <2>3. pc' = pc + Length(op) /\ Pop
    BY <1>1, <1>5
  <2> QED
    BY <1>1, <1>2, <2>2, <2>3, Popped, Unchanged, Keeps
<1> QED
  BY <1>4, <1>5

LEMMA BranchKeeps == Types /\ Branch => IInv'
<1> SUFFICES ASSUME Types, Branch PROVE IInv'
  OBVIOUS
<1>1. Execute({OP_BR}) /\ pc' = Target /\ UNCHANGED <<sp, tos, stack, status, code, fp, input, out>>
  BY DEF Branch, KeepsMemory, KeepsFrame, NoIO
<1>2. op = OP_BR /\ status = "running" /\ (op \in WordOperand => Target \in Int)
  BY <1>1, Executing
<1>3. op \in WordOperand
  BY <1>2 DEF WordOperand
<1> QED
  BY <1>1, <1>2, <1>3, Unchanged, Keeps

LEMMA UnaryOpKeeps == Types /\ UnaryOp => IInv'
<1> SUFFICES ASSUME Types, UnaryOp PROVE IInv'
  OBVIOUS
<1>1. Execute(UnaryOps) /\ tos' = Unary(op, tos) /\ pc' = pc + Length(op)
      /\ UNCHANGED <<sp, stack, status, code, fp, input, out>>
  BY DEF UnaryOp, GoesOn, KeepsMemory, KeepsFrame, NoIO
<1>2. op \in UnaryOps /\ status = "running" /\ pc + Length(op) \in Int
  BY <1>1, Executing
<1>3. tos' \in Word
  BY <1>1, <1>2, UnaryIsWord, Unchanged
<1> QED
  BY <1>1, <1>2, <1>3, Unchanged, Keeps

LEMMA BinaryOpKeeps == Types /\ BinaryOp => IInv'
<1> SUFFICES ASSUME Types, BinaryOp PROVE IInv'
  OBVIOUS
<1>1. Execute(BinaryOps) /\ tos' = Binary(op, stack[sp], tos) /\ sp' = sp + 1 /\ pc' = pc + Length(op)
      /\ UNCHANGED <<stack, status, code, fp, input, out>>
  BY DEF BinaryOp, GoesOn, KeepsMemory, KeepsFrame, NoIO
<1>2. op \in BinaryOps /\ status = "running" /\ pc + Length(op) \in Int /\ Touched \subseteq Cells
      /\ (op \in {OP_DIV, OP_REM} => ~(stack[sp] = -Half /\ tos = -1))
  BY <1>1, Executing
<1>3. sp \in Cells
  BY <1>2, TouchedCells DEF PopsNow, Pops
<1>4. tos' \in Word
  BY <1>1, <1>2, <1>3, BinaryIsWord, Unchanged
<1> QED
  BY <1>1, <1>2, <1>4, Unchanged, Keeps

LEMMA LiteralKeeps == Types /\ Literal => IInv'
<1> SUFFICES ASSUME Types, Literal PROVE IInv'
  OBVIOUS
<1> DEFINE v == IF op = OP_LIT THEN Operand(code, pc + 1) ELSE SignedByte(arg)
<1>1. Execute({OP_LIT, OP_SLIT}) /\ Push(v) /\ pc' = pc + Length(op)
      /\ UNCHANGED <<status, code, fp, input, out>>
  BY DEF Literal, GoesOn, KeepsMemory, KeepsFrame, NoIO
<1>2. op \in {OP_LIT, OP_SLIT} /\ status = "running" /\ pc + Length(op) \in Int /\ Touched \subseteq Cells
      /\ (op \in ByteOperand => arg \in Byte) /\ (op \in WordOperand => Operand(code, pc + 1) \in Word)
  BY <1>1, Executing
<1>3. v \in Word
  BY <1>2, SmallWords DEF WordOperand, ByteOperand
<1>4. sp - 1 \in Cells
  BY <1>2, TouchedCells DEF Pushes
<1> HIDE DEF v
<1> QED
  BY <1>1, <1>2, <1>3, <1>4, Pushed, Unchanged, Keeps

\* The bytes a load takes.
LEMMA LoadsAddress ==
  /\ op = OP_LOAD => Addressed = tos..(tos + WordSize - 1)
  /\ op = OP_LOADB => Addressed = {tos}
<1>1. OP_LOAD \notin {OP_LOADB, OP_STOREB, OP_TRAP} /\ OP_LOADB \notin {OP_LOAD, OP_STORE, OP_TRAP}
      /\ TRAP_PrintStr # -1
  BY DEF OP_LOAD, OP_LOADB, OP_STORE, OP_STOREB, OP_TRAP, TRAP_PrintStr
<1>2. op \in {OP_LOAD, OP_LOADB} => trap # TRAP_PrintStr
  BY <1>1 DEF trap
<1> QED
  BY <1>1, <1>2, Zenon DEF Addressed

LEMMA LoadKeeps == Types /\ Load => IInv'
<1> SUFFICES ASSUME Types, Load PROVE IInv'
  OBVIOUS
<1>1. /\ Execute({OP_LOAD, OP_LOADB}) /\ pc' = pc + Length(op)
      /\ tos' = IF op = OP_LOAD THEN Native(code, tos) ELSE code[tos]
      /\ UNCHANGED <<sp, stack, status, code, fp, input, out>>
  BY DEF Load, GoesOn, KeepsMemory, KeepsFrame, NoIO
<1>2. op \in {OP_LOAD, OP_LOADB} /\ status = "running" /\ pc + Length(op) \in Int /\ Addressed \subseteq Image
  BY <1>1, Executing
<1>3. CASE op = OP_LOAD
  <2>1. Addressed = tos..(tos + WordSize - 1)
    BY <1>3, LoadsAddress
  <2>2. PICK n \in 0..(Half - 1) : DOMAIN code = 0..(n - 1)
    BY DEF Types, Sized
  <2>3. tos \in 0..(n - 1) /\ tos + WordSize - 1 \in 0..(n - 1)
    <3>1. tos \in tos..(tos + WordSize - 1) /\ tos + WordSize - 1 \in tos..(tos + WordSize - 1)
      BY Unchanged, Sizes
    <3> QED
      BY <1>2, <2>1, <2>2, <3>1 DEF Image
  <2>4. n \in Int /\ code \in [0..(n - 1) -> Byte]
    BY <2>2, Unchanged, Sizes DEF Image
  <2>5. Native(code, tos) \in Word
    BY <2>3, <2>4, BytesAreWord
  <2> QED
    BY <1>1, <1>2, <1>3, <2>5, Unchanged, Keeps
<1>4. CASE op = OP_LOADB
  <2>1. Addressed = {tos} /\ OP_LOAD # OP_LOADB
    BY <1>4, LoadsAddress DEF OP_LOAD, OP_LOADB
  <2>2. code[tos] \in Word
    BY <1>2, <2>1, Unchanged, SmallWords
  <2> QED
    BY <1>1, <1>2, <1>4, <2>1, <2>2, Unchanged, Keeps
<1> QED
  BY <1>2, <1>3, <1>4

LEMMA StoreKeeps == Types /\ Store => IInv'
<1> SUFFICES ASSUME Types, Store PROVE IInv'
  OBVIOUS
<1>1. /\ Execute({OP_STORE, OP_STOREB}) /\ pc' = pc + Length(op)
      /\ code' = IF op = OP_STORE THEN Poke(code, tos, stack[sp])
                                  ELSE [code EXCEPT ![tos] = stack[sp] % 256]
      /\ sp' = sp + 2 /\ tos' = stack[sp + 1]
      /\ UNCHANGED <<stack, status, fp, input, out>>
  BY DEF Store, GoesOn, KeepsFrame, NoIO
<1>2. op \in {OP_STORE, OP_STOREB} /\ status = "running" /\ pc + Length(op) \in Int /\ Touched \subseteq Cells
  BY <1>1, Executing
<1>3. sp \in Cells /\ sp + 1 \in Cells
  BY <1>2, TouchedCells DEF PopsNow, Pops
<1>4. stack[sp] \in Word /\ stack[sp + 1] \in Word /\ sp + 2 \in Int
  BY <1>3, Unchanged
<1>5. Poke(code, tos, stack[sp]) \in [Image -> Byte]
  BY <1>4, PokeIsImage, Unchanged DEF Image
<1>6. [code EXCEPT ![tos] = stack[sp] % 256] \in [Image -> Byte]
  <2>1. stack[sp] % 256 \in Byte
    <3>1. stack[sp] \in Int
      BY <1>4 DEF Word
    <3> QED
      BY <3>1 DEF Byte
  <2> QED
    BY <2>1, Unchanged
<1>7. code' \in [Image -> Byte]
  BY <1>1, <1>5, <1>6, Zenon
<1> QED
  BY <1>1, <1>2, <1>4, <1>7, Unchanged, Keeps

LEMMA LocalRefKeeps == Types /\ LocalRef => IInv'
<1> SUFFICES ASSUME Types, LocalRef PROVE IInv'
  OBVIOUS
<1> DEFINE v == stack'[fp + SignedByte(arg)]
<1>1. Execute({OP_LREF}) /\ Push(v) /\ pc' = pc + Length(op) /\ UNCHANGED <<status, code, fp, input, out>>
  BY DEF LocalRef, GoesOn, KeepsMemory, KeepsFrame, NoIO
<1>2. op = OP_LREF /\ status = "running" /\ pc + Length(op) \in Int /\ Touched \subseteq Cells
  BY <1>1, Executing
<1>3. sp - 1 \in Cells /\ fp + SignedByte(arg) \in Cells
  BY <1>2, TouchedCells DEF Pushes
<1>4. sp' = sp - 1 /\ stack' = [stack EXCEPT ![sp - 1] = tos] /\ tos' = v
  BY <1>1 DEF Push
<1>5. stack' \in [Cells -> Word] /\ sp' \in Int
  BY <1>3, <1>4, Unchanged
<1>6. v \in Word
  BY <1>3, <1>5
<1> HIDE DEF v
<1> QED
  BY <1>1, <1>2, <1>4, <1>5, <1>6, Unchanged, Keeps

LEMMA LocalSetKeeps == Types /\ LocalSet => IInv'
<1> SUFFICES ASSUME Types, LocalSet PROVE IInv'
  OBVIOUS
<1>1. /\ Execute({OP_LSET}) /\ pc' = pc + Length(op)
      /\ stack' = [stack EXCEPT ![fp + SignedByte(arg)] = tos]
      /\ sp' = sp + 1 /\ tos' = stack'[sp]
      /\ UNCHANGED <<status, code, fp, input, out>>
  BY DEF LocalSet, GoesOn, KeepsMemory, KeepsFrame, NoIO
<1>2. op = OP_LSET /\ status = "running" /\ pc + Length(op) \in Int /\ Touched \subseteq Cells
  BY <1>1, Executing
<1>3. sp \in Cells
  BY <1>2, TouchedCells DEF PopsNow, Pops
<1>4. stack' \in [Cells -> Word] /\ sp' \in Int
  <2>1. [stack EXCEPT ![fp + SignedByte(arg)] = tos] \in [Cells -> Word]
    BY Unchanged
  <2>2. sp + 1 \in Int
    BY Unchanged
  <2> QED
    BY <1>1, <2>1, <2>2
<1>5. tos' \in Word
  BY <1>1, <1>3, <1>4
<1> QED
  BY <1>1, <1>2, <1>4, <1>5, Unchanged, Keeps

LEMMA CallKeeps == Types /\ Call => IInv'
<1> SUFFICES ASSUME Types, Call PROVE IInv'
  OBVIOUS
<1>1. Execute({OP_CALL}) /\ pc' = tos /\ tos' = pc + 1
      /\ UNCHANGED <<sp, stack, status, code, fp, input, out>>
  BY DEF Call, KeepsMemory, KeepsFrame, NoIO
<1>2. status = "running" /\ pc \in Image
  BY <1>1, Executing
<1>3. PICK n \in 0..(Half - 1) : DOMAIN code = 0..(n - 1)
  BY DEF Types, Sized
<1>4. pc + 1 \in Word
  BY <1>2, <1>3, Sizes DEF Word, Image
<1> QED
  BY <1>1, <1>2, <1>4, Unchanged, Keeps

LEMMA FrameKeeps == Types /\ Frame => IInv'
<1> SUFFICES ASSUME Types, Frame PROVE IInv'
  OBVIOUS
<1>1. /\ Execute({OP_FRAME}) /\ fp' = sp /\ sp' = sp - arg /\ pc' = pc + Length(op)
      /\ stack' = [c \in Cells |-> IF c = sp - 1 THEN fp
                                   ELSE IF c \in (sp - arg)..(sp - 2) THEN 0
                                   ELSE stack[c]]
      /\ UNCHANGED <<tos, status, code, input, out>>
  BY DEF Frame, GoesOn, KeepsMemory, NoIO
<1>2. op = OP_FRAME /\ status = "running" /\ pc + Length(op) \in Int /\ Touched \subseteq Cells
      /\ (op \in ByteOperand => arg \in Byte)
  BY <1>1, Executing
<1>3. sp - 1 \in Cells /\ arg \in Byte
  BY <1>2, TouchedCells DEF ByteOperand
<1>4. sp \in Word /\ sp - arg \in Int
  BY <1>3, Unchanged, MachineAssumption, Sizes DEF Cells, Word, Byte
<1>5. stack' \in [Cells -> Word]
  <2>1. \A c \in Cells : (IF c = sp - 1 THEN fp ELSE IF c \in (sp - arg)..(sp - 2) THEN 0 ELSE stack[c]) \in Word
    BY Unchanged, SmallWords
  <2> QED
    BY <1>1, <2>1
<1> QED
  BY <1>1, <1>2, <1>4, <1>5, Unchanged, Keeps

LEMMA ReturnKeeps == Types /\ Return => IInv'
<1> SUFFICES ASSUME Types, Return PROVE IInv'
  OBVIOUS
<1>1. /\ Execute({OP_RETURN, OP_RETURNZ}) /\ sp' = fp /\ fp' = stack'[fp - 1]
      /\ IF op = OP_RETURNZ
         THEN stack' = [stack EXCEPT ![sp - 1] = tos] /\ pc' = tos /\ tos' = 0
         ELSE UNCHANGED <<stack, tos>> /\ pc' = stack[sp]
      /\ UNCHANGED <<status, code, input, out>>
  BY DEF Return, KeepsMemory, NoIO
<1>2. op \in {OP_RETURN, OP_RETURNZ} /\ status = "running" /\ Touched \subseteq Cells
  BY <1>1, Executing
<1>3. fp - 1 \in Cells
  BY <1>2, TouchedCells
<1>4. stack' \in [Cells -> Word] /\ tos' \in Word /\ pc' \in Word
  <2>1. CASE op = OP_RETURNZ
    BY <1>1, <2>1, Unchanged, SmallWords
  <2>2. CASE op = OP_RETURN
    <3>1. sp \in Cells /\ OP_RETURN # OP_RETURNZ
      BY <1>2, <2>2, TouchedCells DEF PopsNow, Pops, OP_RETURN, OP_RETURNZ
    <3> QED
      BY <1>1, <2>2, <3>1, Unchanged
  <2> QED
    BY <1>2, <2>1, <2>2
<1>5. fp' \in Word /\ pc' \in Int
  BY <1>1, <1>3, <1>4 DEF Word
<1> QED
  BY <1>1, <1>2, <1>4, <1>5, Unchanged, Keeps

LEMMA DropKeeps == Types /\ Drop => IInv'
<1> SUFFICES ASSUME Types, Drop PROVE IInv'
  OBVIOUS
<1>1. Execute({OP_DROP}) /\ Pop /\ pc' = pc + Length(op) /\ UNCHANGED <<status, code, fp, input, out>>
  BY DEF Drop, GoesOn, KeepsMemory, KeepsFrame, NoIO
<1>2. op = OP_DROP /\ status = "running" /\ pc + Length(op) \in Int /\ Touched \subseteq Cells
  BY <1>1, Executing
<1>3. sp \in Cells
  BY <1>2, TouchedCells DEF PopsNow, Pops
<1> QED
  BY <1>1, <1>2, <1>3, Popped, Unchanged, Keeps

LEMMA CleanKeeps == Types /\ Clean => IInv'
<1> SUFFICES ASSUME Types, Clean PROVE IInv'
  OBVIOUS
<1>1. Execute({OP_CLEAN}) /\ sp' = sp + arg /\ pc' = pc + Length(op)
      /\ UNCHANGED <<tos, stack, status, code, fp, input, out>>
  BY DEF Clean, GoesOn, KeepsMemory, KeepsFrame, NoIO
<1>2. op = OP_CLEAN /\ status = "running" /\ pc + Length(op) \in Int /\ (op \in ByteOperand => arg \in Byte)
  BY <1>1, Executing
<1>3. sp + arg \in Int
  <2>1. arg \in Byte /\ sp \in Int
    BY <1>2, Unchanged DEF ByteOperand
  <2> QED
    BY <2>1 DEF Byte
<1> QED
  BY <1>1, <1>2, <1>3, Unchanged, Keeps

LEMMA DupKeeps == Types /\ Dup => IInv'
<1> SUFFICES ASSUME Types, Dup PROVE IInv'
  OBVIOUS
<1>1. Execute({OP_DUP}) /\ Push(tos) /\ pc' = pc + Length(op) /\ UNCHANGED <<status, code, fp, input, out>>
  BY DEF Dup, GoesOn, KeepsMemory, KeepsFrame, NoIO
<1>2. op = OP_DUP /\ status = "running" /\ pc + Length(op) \in Int /\ Touched \subseteq Cells
  BY <1>1, Executing
<1>3. sp - 1 \in Cells
  BY <1>2, TouchedCells DEF Pushes
<1> QED
  BY <1>1, <1>2, <1>3, Pushed, Unchanged, Keeps

LEMMA NativeCodeKeeps == Types /\ NativeCode => IInv'
<1> SUFFICES ASSUME Types, NativeCode PROVE IInv'
  OBVIOUS
<1>1. Execute({OP_NATIVE}) /\ pc' = pc + Length(op)
      /\ UNCHANGED <<sp, tos, stack, status, code, fp, input, out>>
  BY DEF NativeCode, GoesOn, KeepsMemory, KeepsFrame, NoIO
<1>2. status = "running" /\ pc + Length(op) \in Int
  BY <1>1, Executing
<1> QED
  BY <1>1, <1>2, Unchanged, Keeps

LEMMA TrapGetCharKeeps == Types /\ TrapGetChar => IInv'
<1> SUFFICES ASSUME Types, TrapGetChar PROVE IInv'
  OBVIOUS
<1>1. Execute({OP_TRAP}) /\ trap = TRAP_GetChar /\ Push(NextChar(input)) /\ pc' = pc + Length(op)
      /\ input' = RestOf(input) /\ UNCHANGED <<status, code, fp>>
  BY DEF TrapGetChar, GoesOn, KeepsMemory, KeepsFrame
<1>2. status = "running" /\ pc + Length(op) \in Int /\ Touched \subseteq Cells
  BY <1>1, Executing
<1>3. sp - 1 \in Cells
  BY <1>1, <1>2, TouchedCells
<1>4. NextChar(input) \in Word /\ RestOf(input) \in Seq(Byte)
  <2>1. input \in Seq(Byte)
    BY Unchanged
  <2>2. input # <<>> => Head(input) \in Byte /\ Tail(input) \in Seq(Byte)
    BY <2>1
  <2> QED
    BY <2>1, <2>2, SmallWords DEF NextChar, RestOf
<1> QED
  BY <1>1, <1>2, <1>3, <1>4, Pushed, Unchanged, Keeps

LEMMA TrapPrintKeeps == Types /\ TrapPrint => IInv'
<1> SUFFICES ASSUME Types, TrapPrint PROVE IInv'
  OBVIOUS
<1>1. /\ Execute({OP_TRAP}) /\ trap \in {TRAP_PutChar, TRAP_PrintStr, TRAP_PrintInt}
      /\ Pop /\ pc' = pc + Length(op) /\ UNCHANGED <<status, code, fp, input>>
  BY DEF TrapPrint, GoesOn, KeepsMemory, KeepsFrame
<1>2. status = "running" /\ pc + Length(op) \in Int /\ Touched \subseteq Cells
  BY <1>1, Executing
<1>3. sp \in Cells
  BY <1>1, <1>2, TouchedCells DEF PopsNow
<1> QED
  BY <1>1, <1>2, <1>3, Popped, Unchanged, Keeps

LEMMA TrapLayoutKeeps == Types /\ TrapLayout => IInv'
<1> SUFFICES ASSUME Types, TrapLayout PROVE IInv'
  OBVIOUS
<1>1. Execute({OP_TRAP}) /\ pc' = pc + Length(op) /\ UNCHANGED <<sp, tos, stack, status, code, fp, input>>
  BY DEF TrapLayout, GoesOn, KeepsMemory, KeepsFrame
<1>2. status = "running" /\ pc + Length(op) \in Int
  BY <1>1, Executing
<1> QED
  BY <1>1, <1>2, Unchanged, Keeps

LEMMA AbortKeeps == Types /\ Abort => IInv'
<1> SUFFICES ASSUME Types, Abort PROVE IInv'
  OBVIOUS
<1> QED
  BY Unchanged, Keeps DEF Abort

\* Whether a step is defined depends on everything but the status.
LEMMA Rests ==
  ASSUME Types, UNCHANGED <<code, pc, sp, fp, tos, stack, input>>, ~Defined,
         status' \in {"running", "halted", "aborted", "wild"}
  PROVE  IInv'
<1>1. Types'
  BY DEF Types, TypeOK, Sized, Image, Cells
<1>2. Defined' = Defined
  BY DEF Defined, Fetched, Full, Touched, Addressed, PopsNow, Terminators, Image, Cells, op, arg, trap
<1>3. WildUndefined'
  BY <1>2 DEF WildUndefined
<1> QED
  BY <1>1, <1>3 DEF IInv

\* Every step of the interpreter keeps the invariant.
LEMMA NextIInv == IInv /\ [VmStep]_vmVars => IInv'
<1> SUFFICES ASSUME IInv, [VmStep]_vmVars PROVE IInv'
  OBVIOUS
<1>1. Types /\ WildUndefined
  BY DEF IInv
<1>2. CASE VmStep /\ ~Wild
  BY <1>1, <1>2, HaltKeeps, BranchIfKeeps, BranchShortCircuitKeeps, BranchKeeps, UnaryOpKeeps,
     BinaryOpKeeps, LiteralKeeps, LoadKeeps, StoreKeeps, LocalRefKeeps, LocalSetKeeps,
     CallKeeps, FrameKeeps, ReturnKeeps, DropKeeps, CleanKeeps, DupKeeps, NativeCodeKeeps,
     TrapGetCharKeeps, TrapPrintKeeps, TrapLayoutKeeps, AbortKeeps DEF VmStep
<1>3. CASE Wild
  BY <1>1, <1>3, Rests DEF Wild
<1>4. CASE UNCHANGED vmVars
  <2>1. CASE ~Defined
    <3>1. status' \in {"running", "halted", "aborted", "wild"}
      BY <1>1, <1>4 DEF vmVars, Types, TypeOK
    <3>2. UNCHANGED <<code, pc, sp, fp, tos, stack, input>>
      BY <1>4 DEF vmVars
    <3> QED
      BY <1>1, <2>1, <3>1, <3>2, Rests
  <2>2. CASE Defined
    <3>1. status \in {"running", "halted", "aborted"}
      BY <1>1, <2>2 DEF WildUndefined, Types, TypeOK
    <3> QED
      BY <1>1, <1>4, <3>1, Unchanged, Keeps DEF vmVars
  <2> QED
    BY <2>1, <2>2
<1> QED
  BY <1>2, <1>3, <1>4

-----------------------------------------------------------------------------
\* The invariant holds of every run of every image: vm_execute's cases and the
\* traps keep it.
THEOREM Invariant == Spec => []IInv
  BY InitIInv, NextIInv, PTL DEF Spec

\* Bytes stay bytes and words words through every opcode, whatever RUNBIN has
\* read from its file.
THEOREM TypeCorrect == Spec => []TypeOK
<1>1. IInv => TypeOK
  BY DEF IInv, Types
<1> QED
  BY Invariant, <1>1, PTL

\* A literal or a DUP touches the cell it pushes to, FRAME those it reserves.
LEMMA PushTouches ==
  /\ op \in {OP_LIT, OP_SLIT, OP_DUP} => Touched = {sp - 1}
  /\ op = OP_FRAME => Touched = (sp - arg)..(sp - 1) \cup {sp - 1}
  /\ op \in {OP_LIT, OP_SLIT, OP_DUP, OP_FRAME} => Addressed = {} /\ op \notin {OP_DIV, OP_REM}
<1>1. op \in {OP_LIT, OP_SLIT, OP_DUP, OP_FRAME} =>
        /\ ~PopsNow /\ trap = -1
        /\ op \notin {OP_LOAD, OP_STORE, OP_LOADB, OP_STOREB, OP_LREF, OP_LSET, OP_RETURN, OP_RETURNZ, OP_DIV, OP_REM}
        /\ op \in Pushes <=> op # OP_FRAME
  BY DEF trap, PopsNow, Pops, BinaryOps, Pushes, TRAP_PutChar, TRAP_PrintStr, TRAP_PrintInt, OP_LIT, OP_SLIT,
         OP_DUP, OP_FRAME, OP_LOAD, OP_STORE, OP_LOADB, OP_STOREB, OP_LREF, OP_LSET, OP_RETURN, OP_RETURNZ,
         OP_DIV, OP_REM, OP_TRAP, OP_ADD, OP_GT, OP_BNOT, OP_INDEX, OP_BRT, OP_BRF, OP_DROP, OP_BRTSC, OP_BRFSC
<1>2. TRAP_GetChar # -1 /\ TRAP_PrintStr # -1 /\ OP_FRAME \notin {OP_LIT, OP_SLIT, OP_DUP}
  BY DEF TRAP_GetChar, TRAP_PrintStr, OP_LIT, OP_SLIT, OP_DUP, OP_FRAME
<1>3. op \in {OP_LIT, OP_SLIT, OP_DUP} => Touched = {sp - 1}
  BY <1>1, <1>2 DEF Touched
<1>4. op = OP_FRAME => Touched = (sp - arg)..(sp - 1) \cup {sp - 1}
  BY <1>1, <1>2 DEF Touched
<1>5. op \in {OP_LIT, OP_SLIT, OP_DUP, OP_FRAME} => Addressed = {}
  BY <1>1, <1>2, Zenon DEF Addressed
<1> QED
  BY <1>1, <1>3, <1>4, <1>5

\* vm_cpush and vm_reserve: a push that is checked and still leaves the stack
\* leaves it at its top, because sp was above it already.
THEOREM PushesGuarded == Spec => []StackGuard
<1>1. IInv => StackGuard
  <2> SUFFICES ASSUME IInv, status = "wild", Fetched, Guarded PROVE sp > StackSize
    BY DEF StackGuard
  <2>1. ~Defined /\ Types
    BY DEF IInv, WildUndefined
  <2>2. ~Full /\ (op \notin {OP_DIV, OP_REM} => ~(Touched \subseteq Cells /\ Addressed \subseteq Image))
    BY <2>1 DEF Defined
  <2>3. sp \in Int /\ StackSize \in Nat
    BY <2>1, Unchanged, MachineAssumption
  <2>4. CASE op \in {OP_LIT, OP_SLIT, OP_DUP}
    <3>1. sp - 1 >= 0
      BY <2>2, <2>3, <2>4 DEF Full, Pushes
    <3>2. Touched = {sp - 1} /\ Addressed = {} /\ op \notin {OP_DIV, OP_REM}
      BY <2>4, PushTouches
    <3>3. sp - 1 \notin Cells
      BY <2>2, <3>2
    <3> QED
      BY <2>3, <3>1, <3>3 DEF Cells
  <2>5. CASE op = OP_FRAME /\ arg > 0
    <3>1. arg \in Byte
      <4>1. Length(op) = 2
        BY <2>5, Lengths DEF ByteOperand
      <4>2. pc + 1 \in Image
        BY <2>1, <4>1, Unchanged DEF Fetched
      <4> QED
        BY <2>1, <4>2, Unchanged DEF arg
    <3>2. Touched = (sp - arg)..(sp - 1) \cup {sp - 1} /\ Addressed = {} /\ op \notin {OP_DIV, OP_REM}
      BY <2>5, PushTouches
    <3>3. arg \in Nat /\ sp - arg >= 0
      BY <2>2, <2>3, <2>5, <3>1 DEF Full, Byte
    <3>4. PICK c \in Touched : c \notin Cells
      BY <2>2, <3>2
    <3>5. c \in Int /\ c >= 0 /\ c <= sp - 1
      BY <2>3, <2>5, <3>2, <3>3, <3>4
    <3> QED
      BY <2>3, <3>4, <3>5 DEF Cells
  <2> QED
    BY <2>4, <2>5 DEF Guarded
<1> QED
  BY Invariant, <1>1, PTL

\* A push, a FRAME and a RETURNZ write below sp.
LEMMA StepKeepsLive ==
  ASSUME IInv, VmStep, NEW c \in Cells, sp <= c, op # OP_LSET
  PROVE  stack'[c] = stack[c]
<1>1. sp \in Int /\ c \in Int /\ stack \in [Cells -> Word]
  BY MachineAssumption DEF IInv, Types, TypeOK, Cells
<1>2. c # sp - 1
  BY <1>1
<1>3. ASSUME NEW v, Push(v) PROVE stack'[c] = stack[c]
  BY <1>1, <1>2, <1>3 DEF Push
<1>4. ASSUME Pop PROVE stack'[c] = stack[c]
  BY <1>4 DEF Pop
<1>5. CASE Halt \/ Branch \/ UnaryOp \/ BinaryOp \/ Load \/ Store \/ Call \/ Clean \/ NativeCode
           \/ TrapLayout \/ Abort \/ Wild
  BY <1>5 DEF Halt, Branch, UnaryOp, BinaryOp, Load, Store, Call, Clean, NativeCode,
              TrapLayout, Abort, Wild
<1>6. CASE BranchIf \/ BranchShortCircuit \/ Drop \/ TrapPrint
  BY <1>4, <1>6 DEF BranchIf, BranchShortCircuit, Drop, TrapPrint
<1>7. CASE Literal \/ LocalRef \/ Dup \/ TrapGetChar
  BY <1>3, <1>7 DEF Literal, LocalRef, Dup, TrapGetChar
<1>8. CASE LocalSet
  BY <1>8 DEF LocalSet, Execute
<1>9. CASE Frame
  <2>1. arg \in Int
    <3>1. op = OP_FRAME /\ Fetched
      BY <1>9 DEF Frame, Execute, Defined
    <3>2. Length(op) = 2
      BY <3>1, Lengths DEF ByteOperand
    <3>3. Types
      BY DEF IInv
    <3>4. pc + 1 \in Image
      BY <3>1, <3>2, <3>3 DEF Fetched
    <3>5. arg \in Byte
      BY <3>3, <3>4, Unchanged DEF arg
    <3> QED
      BY <3>5 DEF Byte
  <2>2. c \notin (sp - arg)..(sp - 2)
    BY <1>1, <2>1
  <2> QED
    BY <1>2, <1>9, <2>2 DEF Frame
<1>10. CASE Return
  <2>1. stack' = stack \/ stack' = [stack EXCEPT ![sp - 1] = tos]
    BY <1>10 DEF Return
  <2> QED
    BY <1>1, <1>2, <2>1
<1> QED
  BY <1>5, <1>6, <1>7, <1>8, <1>9, <1>10 DEF VmStep

\* Whatever the image does, a value on the stack, an argument, a return
\* address or a saved frame pointer, is only changed by LSET: what the other
\* instructions write (vm_cpush, vm_reserve and the stores behind them) lies
\* below the top of the stack as they found it.
LiveCellsKept == [][\A c \in Cells : sp <= c /\ stack'[c] # stack[c] => op = OP_LSET]_vmVars

\* What is on the stack is only changed by LSET, in every run of every image.
THEOREM LiveKept == Spec => LiveCellsKept
<1>1. IInv /\ [VmStep]_vmVars =>
        [\A c \in Cells : sp <= c /\ stack'[c] # stack[c] => op = OP_LSET]_vmVars
  BY StepKeepsLive
<1> QED
  BY <1>1, Invariant, PTL DEF Spec, LiveCellsKept
=============================================================================
