-------------------------- MODULE Session_expansion --------------------------
(***************************************************************************)
(* For every set of programs and include files: what the compiler reads is *)
(* the expansion of the program (ReadsExpansion), although the one walks a *)
(* stack of files and the other is a recursive function.                   *)
(***************************************************************************)
EXTENDS Session_proofs, Induction

-----------------------------------------------------------------------------
(***************************************************************************)
(* Expand is well defined: an unfolding needs points that have more files  *)
(* behind them, or as many and fewer lines in front of them.               *)
(***************************************************************************)
Result == [read : Seq(Names \X Nat), seen : SUBSET DOMAIN Disk]

LEMMA TextFacts ==
  ASSUME program \in Programs, NEW name \in Names
  PROVE  Text(name) \in Seq(STRING) /\ Len(Text(name)) \in Nat
<1>1. Text(name) \in Seq(STRING)
  BY ProgramFacts, SourceAssumption DEF Text, Names
<1> QED
  BY <1>1

LEMMA LongestText ==
  ASSUME program \in Programs
  PROVE  \E L \in Nat : \A name \in Names : Len(Text(name)) <= L
<1> DEFINE len == [name \in Names |-> Len(Text(name))]
           K   == {len[name] : name \in Names}
<1>1. \A name \in Names : len[name] \in Nat
  BY TextFacts
<1>2. IsFiniteSet(Names)
  BY SourceAssumption, FS_AddElement DEF Names
<1>3. len \in Surjection(Names, K)
  BY DEF Surjection
<1>4. IsFiniteSet(K)
  BY <1>2, <1>3, FS_Surjection
<1>5. K # {} /\ K \subseteq Int
  <2>1. len["program"] \in K
    BY DEF Names
  <2>2. K \subseteq Int
    BY <1>1
  <2> QED
    BY <2>1, <2>2
<1>6. PICK L \in K : \A k \in K : k <= L
  BY <1>4, <1>5, GreatestInteger
<1>7. L \in Nat
  BY <1>1
<1>8. \A name \in Names : Len(Text(name)) <= L
  BY <1>6
<1> QED
  BY <1>7, <1>8

\* Unread files weigh more than unread lines.
LEMMA Lighter ==
  ASSUME NEW L \in Nat, NEW c \in Nat, NEW d \in Nat, NEW r \in Nat, NEW s \in Nat,
         (d <= c /\ r < s) \/ (d < c /\ r <= L)
  PROVE  d * (L + 1) + r < c * (L + 1) + s
<1>1. PICK k \in Nat : c = d + k /\ (d < c => k >= 1)
  <2>1. c - d \in Nat /\ c = d + (c - d) /\ (d < c => c - d >= 1)
    OBVIOUS
  <2> QED
    BY <2>1
<1>2. c * (L + 1) = d * (L + 1) + k * (L + 1)
  BY <1>1
<1>3. k * (L + 1) \in Nat /\ d * (L + 1) \in Nat
  OBVIOUS
<1>4. k >= 1 => k * (L + 1) >= L + 1
  <2> SUFFICES ASSUME k >= 1 PROVE k * (L + 1) >= L + 1
    OBVIOUS
  <2>1. k - 1 \in Nat /\ k * (L + 1) = (k - 1) * (L + 1) + (L + 1) /\ (k - 1) * (L + 1) \in Nat
    OBVIOUS
  <2> QED
    BY <2>1
<1> QED
  BY <1>1, <1>2, <1>3, <1>4

Weight(L, i) == IF i > L THEN 0 ELSE L + 1 - i

Measure(L) == [p \in Points |-> Cardinality(DOMAIN Disk \ p[3]) * (L + 1) + Weight(L, p[2])]

LEMMA PointFacts ==
  ASSUME NEW p \in Points
  PROVE  /\ p[1] \in Names /\ p[2] \in Nat /\ p[3] \subseteq DOMAIN Disk
         /\ p = <<p[1], p[2], p[3]>>
         /\ IsFiniteSet(DOMAIN Disk \ p[3]) /\ Cardinality(DOMAIN Disk \ p[3]) \in Nat
<1>1. p[1] \in Names /\ p[2] \in Nat /\ p[3] \subseteq DOMAIN Disk /\ p = <<p[1], p[2], p[3]>>
  BY DEF Points
<1>2. IsFiniteSet(DOMAIN Disk \ p[3])
  BY SourceAssumption, FS_Subset
<1> QED
  BY <1>1, <1>2, FS_CardinalityType

LEMMA MeasureFacts ==
  ASSUME NEW L \in Nat
  PROVE  /\ Measure(L) \in [Points -> Nat]
         /\ \A i \in Nat : Weight(L, i) \in Nat
         /\ Weight(L, 1) <= L
         /\ \A i \in Nat : i <= L => Weight(L, i + 1) < Weight(L, i)
<1>1. \A i \in Nat : Weight(L, i) \in Nat
  BY DEF Weight
<1>2. Weight(L, 1) <= L /\ \A i \in Nat : i <= L => Weight(L, i + 1) < Weight(L, i)
  BY DEF Weight
<1>3. ASSUME NEW p \in Points
      PROVE  Cardinality(DOMAIN Disk \ p[3]) * (L + 1) + Weight(L, p[2]) \in Nat
  <2>1. Cardinality(DOMAIN Disk \ p[3]) \in Nat /\ Weight(L, p[2]) \in Nat
    BY <1>1, PointFacts
  <2> QED
    BY <2>1
<1> QED
  BY <1>1, <1>2, <1>3 DEF Measure

\* The points an unfolding needs.
LEMMA NeedsLess ==
  ASSUME NEW L \in Nat, NEW p \in Points, NEW q \in Points,
         \/ p[3] \subseteq q[3] /\ q[2] = p[2] + 1 /\ p[2] <= L
         \/ q[2] = 1 /\ \E f \in DOMAIN Disk \ p[3] : q[3] = p[3] \cup {f}
  PROVE  Measure(L)[q] < Measure(L)[p]
<1> DEFINE c == Cardinality(DOMAIN Disk \ p[3])
           d == Cardinality(DOMAIN Disk \ q[3])
<1>1. /\ c \in Nat /\ d \in Nat /\ p[2] \in Nat /\ q[2] \in Nat
      /\ p[3] \subseteq DOMAIN Disk /\ q[3] \subseteq DOMAIN Disk
      /\ IsFiniteSet(DOMAIN Disk \ p[3])
  BY PointFacts
<1>2. Weight(L, p[2]) \in Nat /\ Weight(L, q[2]) \in Nat
  BY <1>1, MeasureFacts
<1>3. CASE p[3] \subseteq q[3] /\ q[2] = p[2] + 1 /\ p[2] <= L
  <2>1. DOMAIN Disk \ q[3] \subseteq DOMAIN Disk \ p[3]
    BY <1>3
  <2>2. d <= c
    BY <1>1, <2>1, FS_Subset
  <2>3. Weight(L, q[2]) < Weight(L, p[2])
    BY <1>1, <1>3, MeasureFacts
  <2> HIDE DEF c, d
  <2>4. d * (L + 1) + Weight(L, q[2]) < c * (L + 1) + Weight(L, p[2])
    BY <1>1, <1>2, <2>2, <2>3, Lighter
  <2> QED
    BY <2>4 DEF Measure, c, d
<1>4. CASE q[2] = 1 /\ \E f \in DOMAIN Disk \ p[3] : q[3] = p[3] \cup {f}
  <2>1. PICK f \in DOMAIN Disk \ p[3] : q[3] = p[3] \cup {f}
    BY <1>4
  <2> DEFINE P == DOMAIN Disk \ p[3]
             Q == DOMAIN Disk \ q[3]
  <2>2. Q \subseteq P /\ Q # P /\ IsFiniteSet(P)
    BY <1>1, <2>1
  <2>3. d <= c /\ d # c
    <3>1. Cardinality(Q) <= Cardinality(P) /\ (Cardinality(P) = Cardinality(Q) => P = Q)
      <4> HIDE DEF P, Q
      <4> QED
        BY <2>2, FS_Subset
    <3> QED
      BY <2>2, <3>1
  <2>4. d < c
    <3> HIDE DEF c, d
    <3> QED
      BY <1>1, <2>3
  <2>. Weight(L, q[2]) <= L
    BY <1>4, MeasureFacts
  <2> HIDE DEF c, d
  <2>5. d * (L + 1) + Weight(L, q[2]) < c * (L + 1) + Weight(L, p[2])
    BY <1>1, <1>2, <2>4, Lighter
  <2> QED
    BY <2>5 DEF Measure, c, d
<1> QED
  BY <1>3, <1>4

\* What an unfolding makes of its line.
Here(f, name, i, seen) ==
  LET line == Text(name)[i]
  IN IF line = "statement" THEN [read |-> <<<<name, i>>>>, seen |-> seen]
     ELSE IF line \in DOMAIN Disk \ seen THEN f[<<line, 1, seen \cup {line}>>]
     ELSE [read |-> <<>>, seen |-> seen]

LEMMA HereType ==
  ASSUME NEW f, NEW p \in Points, \A q \in Points : q[2] = 1 => f[q] \in Result
  PROVE  Here(f, p[1], p[2], p[3]) \in Result
<1> DEFINE line == Text(p[1])[p[2]]
<1>1. p[1] \in Names /\ p[2] \in Nat /\ p[3] \subseteq DOMAIN Disk
  BY PointFacts
<1>2. CASE line = "statement"
  <2>1. <<<<p[1], p[2]>>>> \in Seq(Names \X Nat)
    BY <1>1
  <2> QED
    BY <1>1, <1>2, <2>1 DEF Here, Result
<1>3. CASE line # "statement" /\ line \in DOMAIN Disk \ p[3]
  <2> DEFINE q == <<line, 1, p[3] \cup {line}>>
  <2>1. q \in Points /\ q[2] = 1
    BY <1>1, <1>3 DEF Points, Names
  <2> QED
    BY <1>3, <2>1 DEF Here
<1>4. CASE line # "statement" /\ line \notin DOMAIN Disk \ p[3]
  BY <1>1, <1>4 DEF Here, Result
<1> QED
  BY <1>2, <1>3, <1>4

LEMMA UnfoldType ==
  ASSUME NEW f \in [Points -> Result], NEW p \in Points
  PROVE  Unfold(f, p[1], p[2], p[3]) \in Result
<1>1. p[1] \in Names /\ p[2] \in Nat /\ p[3] \subseteq DOMAIN Disk
  BY PointFacts
<1>2. CASE p[2] > Len(Text(p[1]))
  BY <1>1, <1>2 DEF Unfold, Result
<1>3. CASE ~(p[2] > Len(Text(p[1])))
  <2> DEFINE here == Here(f, p[1], p[2], p[3])
             q    == <<p[1], p[2] + 1, p[3] \cup here.seen>>
             rest == f[q]
  <2>1. here \in Result
    BY HereType
  <2>2. q \in Points
    BY <1>1, <2>1 DEF Points, Result
  <2>3. rest \in Result
    BY <2>2
  <2>4. Unfold(f, p[1], p[2], p[3]) = [read |-> here.read \o rest.read, seen |-> rest.seen]
    BY ONLY <1>3 DEF Unfold, Here
  <2> HIDE DEF here, q, rest
  <2>5. here.read \o rest.read \in Seq(Names \X Nat)
    BY <2>1, <2>3 DEF Result
  <2> QED
    BY <2>3, <2>4, <2>5 DEF Result
<1> QED
  BY <1>2, <1>3

\* An unfolding depends on points of less measure only.
LEMMA Contracts ==
  ASSUME program \in Programs,
         NEW L \in Nat, \A name \in Names : Len(Text(name)) <= L,
         NEW f \in [Points -> Result], NEW g, NEW p \in Points,
         \A q \in Points : Measure(L)[q] < Measure(L)[p] => f[q] = g[q]
  PROVE  Unfold(f, p[1], p[2], p[3]) = Unfold(g, p[1], p[2], p[3])
<1> DEFINE line == Text(p[1])[p[2]]
<1>1. p[1] \in Names /\ p[2] \in Nat /\ p[3] \subseteq DOMAIN Disk
  BY PointFacts
<1>2. CASE p[2] > Len(Text(p[1]))
  BY <1>2 DEF Unfold
<1>3. CASE ~(p[2] > Len(Text(p[1])))
  <2>1. p[2] <= L
    BY <1>1, <1>3, TextFacts
  <2> DEFINE here == Here(f, p[1], p[2], p[3])
             there == Here(g, p[1], p[2], p[3])
             q    == <<p[1], p[2] + 1, p[3] \cup here.seen>>
  <2>2. here = there
    <3>1. CASE line # "statement" /\ line \in DOMAIN Disk \ p[3]
      <4> DEFINE r == <<line, 1, p[3] \cup {line}>>
      <4>1. r \in Points /\ r[2] = 1 /\ r[3] = p[3] \cup {line}
        BY <1>1, <3>1 DEF Points, Names
      <4>2. Measure(L)[r] < Measure(L)[p]
        <5> HIDE DEF r
        <5> QED
          BY <3>1, <4>1, NeedsLess
      <4> QED
        BY <3>1, <4>1, <4>2 DEF Here
    <3>2. CASE ~(line # "statement" /\ line \in DOMAIN Disk \ p[3])
      BY <3>2 DEF Here
    <3> QED
      BY <3>1, <3>2
  <2>3. here \in Result
    BY HereType
  <2>4. q \in Points /\ q[2] = p[2] + 1 /\ p[3] \subseteq q[3]
    BY <1>1, <2>3 DEF Points, Result
  <2>5. f[q] = g[q]
    <3> HIDE DEF q
    <3>1. Measure(L)[q] < Measure(L)[p]
      BY <2>1, <2>4, NeedsLess
    <3> QED
      BY <2>4, <3>1
  <2>6. Unfold(f, p[1], p[2], p[3]) = [read |-> here.read \o f[q].read, seen |-> f[q].seen]
    BY ONLY <1>3 DEF Unfold, Here
  <2>7. Unfold(g, p[1], p[2], p[3]) = [read |-> there.read \o g[<<p[1], p[2] + 1, p[3] \cup there.seen>>].read,
                                      seen |-> g[<<p[1], p[2] + 1, p[3] \cup there.seen>>].seen]
    BY ONLY <1>3 DEF Unfold, Here
  <2> HIDE DEF here, there
  <2> QED
    BY <2>2, <2>5, <2>6, <2>7
<1> QED
  BY <1>2, <1>3

LEMMA ExpandIs ==
  ASSUME program \in Programs
  PROVE  Expand = [p \in Points |-> Unfold(Expand, p[1], p[2], p[3])]
<1> DEFINE F == [f \in [Points -> Result] |-> [p \in Points |-> Unfold(f, p[1], p[2], p[3])]]
<1>1. PICK L \in Nat : \A name \in Names : Len(Text(name)) <= L
  BY LongestText
<1>2. Measure(L) \in [Points -> Nat]
  BY MeasureFacts
<1>3. F \in [[Points -> Result] -> [Points -> Result]]
  BY UnfoldType
<1>4. Result # {}
  <2>1. [read |-> <<>>, seen |-> {}] \in Result
    BY DEF Result
  <2> QED
    BY <2>1
<1>5. ASSUME NEW f \in [Points -> Result], NEW g \in [Points -> Result], NEW p \in Points,
             \A q \in Points : Measure(L)[q] < Measure(L)[p] => f[q] = g[q]
      PROVE  F[f][p] = F[g][p]
  <2>1. Unfold(f, p[1], p[2], p[3]) = Unfold(g, p[1], p[2], p[3])
    BY <1>1, <1>5, Contracts
  <2> QED
    BY <2>1
<1>6. \E f \in [Points -> Result] : F[f] = f
  <2> DEFINE m == Measure(L)
  <2> HIDE DEF F, m
  <2>1. m \in [Points -> Nat]
    BY <1>2 DEF m
  <2>2. Descending(Points, Result, m, F)
    BY <1>3, <1>4, <1>5, <2>1 DEF m, Descending
  <2> QED
    BY ONLY <2>2, Recursion
<1>7. PICK f : f = [p \in Points |-> Unfold(f, p[1], p[2], p[3])]
  BY <1>6
<1> QED
  BY <1>7, Zenon DEF Expand

\* An expansion is typed, and no file gets lost from `seen'.
LEMMA ExpandType ==
  ASSUME program \in Programs
  PROVE  \A p \in Points : Expand[p] \in Result /\ p[3] \subseteq Expand[p].seen
<1>1. PICK L \in Nat : \A name \in Names : Len(Text(name)) <= L
  BY LongestText
<1> DEFINE m == Measure(L)
           Good(p) == Expand[p] \in Result /\ p[3] \subseteq Expand[p].seen
           S == {n \in Nat : \A p \in Points : m[p] = n => Good(p)}
<1>2. m \in [Points -> Nat]
  BY MeasureFacts
<1>3. ASSUME NEW p \in Points, \A q \in Points : m[q] < m[p] => Good(q)
      PROVE  Good(p)
  <2> DEFINE line == Text(p[1])[p[2]]
             here == Here(Expand, p[1], p[2], p[3])
             q    == <<p[1], p[2] + 1, p[3] \cup here.seen>>
  <2>1. p[1] \in Names /\ p[2] \in Nat /\ p[3] \subseteq DOMAIN Disk
    BY PointFacts
  <2>2. Expand[p] = Unfold(Expand, p[1], p[2], p[3])
    BY ExpandIs
  <2>3. CASE p[2] > Len(Text(p[1]))
    <3>1. Expand[p] = [read |-> <<>>, seen |-> p[3]]
      BY <2>2, <2>3 DEF Unfold
    <3> QED
      BY <2>1, <3>1 DEF Result
  <2>4. CASE ~(p[2] > Len(Text(p[1])))
    <3>1. p[2] <= L
      BY <1>1, <2>1, <2>4, TextFacts
    <3>2. here \in Result
      <4>1. CASE line # "statement" /\ line \in DOMAIN Disk \ p[3]
        <5> DEFINE r == <<line, 1, p[3] \cup {line}>>
        <5>1. r \in Points /\ r[2] = 1 /\ r[3] = p[3] \cup {line}
          BY <2>1, <4>1 DEF Points, Names
        <5>2. Measure(L)[r] < Measure(L)[p]
          <6> HIDE DEF r
          <6> QED
            BY <4>1, <5>1, NeedsLess
        <5> QED
          BY <1>3, <4>1, <5>1, <5>2 DEF Here
      <4>2. CASE line = "statement"
        <5>1. <<<<p[1], p[2]>>>> \in Seq(Names \X Nat)
          BY <2>1
        <5> QED
          BY <2>1, <4>2, <5>1 DEF Here, Result
      <4>3. CASE line # "statement" /\ line \notin DOMAIN Disk \ p[3]
        BY <2>1, <4>3 DEF Here, Result
      <4> QED
        BY <4>1, <4>2, <4>3
    <3>3. q \in Points /\ q[2] = p[2] + 1 /\ p[3] \subseteq q[3]
      BY <2>1, <3>2 DEF Points, Result
    <3>4. Good(q)
      <4> HIDE DEF q
      <4>1. Measure(L)[q] < Measure(L)[p]
        BY <3>1, <3>3, NeedsLess
      <4> QED
        BY <1>3, <3>3, <4>1
    <3>5. Unfold(Expand, p[1], p[2], p[3]) = [read |-> here.read \o Expand[q].read, seen |-> Expand[q].seen]
      BY ONLY <2>4 DEF Unfold, Here
    <3> HIDE DEF here, q
    <3>6. here.read \o Expand[q].read \in Seq(Names \X Nat)
      BY <3>2, <3>4 DEF Result
    <3> QED
      BY <2>2, <3>3, <3>4, <3>5, <3>6 DEF Result
  <2> QED
    BY <2>3, <2>4
<1>4. Nat \subseteq S
  <2>1. ASSUME NEW n \in Nat, \A k \in Nat : k < n => k \in S PROVE n \in S
    <3> SUFFICES ASSUME NEW p \in Points, m[p] = n PROVE Good(p)
      OBVIOUS
    <3>1. \A q \in Points : m[q] < m[p] => Good(q)
      <4> HIDE DEF Good, m
      <4> QED
        BY <1>2, <2>1
    <3> QED
      BY <1>3, <3>1
  <2> HIDE DEF S
  <2> QED
    BY <2>1, InductBelow
<1> QED
  <2> HIDE DEF m, Good
  <2>1. \A p \in Points : Good(p)
    BY <1>2, <1>4
  <2> QED
    BY <2>1 DEF Good

LEMMA Concatenations ==
  ASSUME NEW A, NEW u \in Seq(A), NEW v \in Seq(A), NEW w \in Seq(A)
  PROVE  u \o v \in Seq(A) /\ (u \o v) \o w = u \o (v \o w) /\ <<>> \o u = u
OBVIOUS

LEMMA Union ==
  ASSUME NEW A, NEW B, A \subseteq B
  PROVE  A \cup B = B
OBVIOUS

LEMMA Fields ==
  ASSUME NEW e, NEW u, NEW v, e = [read |-> u, seen |-> v]
  PROVE  e.read = u /\ e.seen = v
OBVIOUS

LEMMA AppendIs ==
  ASSUME NEW A, NEW s \in Seq(A), NEW x \in A
  PROVE  Append(s, x) = s \o <<x>> /\ Append(s, x) \in Seq(A) /\ <<x>> \in Seq(A)
OBVIOUS

\* Expand at each kind of line.
LEMMA AtEnd ==
  ASSUME program \in Programs, NEW p \in Points, p[2] > Len(Text(p[1]))
  PROVE  Expand[p] = [read |-> <<>>, seen |-> p[3]]
<1>1. Expand[p] = Unfold(Expand, p[1], p[2], p[3])
  BY ExpandIs
<1> QED
  BY <1>1 DEF Unfold

LEMMA AtStatement ==
  ASSUME program \in Programs, NEW p \in Points, ~(p[2] > Len(Text(p[1]))),
         Text(p[1])[p[2]] = "statement"
  PROVE  LET q == <<p[1], p[2] + 1, p[3]>>
         IN /\ q \in Points
            /\ Expand[p].read = <<<<p[1], p[2]>>>> \o Expand[q].read
            /\ Expand[p].seen = Expand[q].seen
<1>1. Expand[p] = Unfold(Expand, p[1], p[2], p[3])
  BY ExpandIs
<1>2. <<p[1], p[2] + 1, p[3]>> \in Points
  BY DEF Points
<1>3. p[3] \cup p[3] = p[3]
  OBVIOUS
<1>4. Unfold(Expand, p[1], p[2], p[3]) =
        [read |-> <<<<p[1], p[2]>>>> \o Expand[<<p[1], p[2] + 1, p[3] \cup p[3]>>].read,
         seen |-> Expand[<<p[1], p[2] + 1, p[3] \cup p[3]>>].seen]
  BY DEF Unfold
<1>5. Expand[p] = [read |-> <<<<p[1], p[2]>>>> \o Expand[<<p[1], p[2] + 1, p[3]>>].read,
                   seen |-> Expand[<<p[1], p[2] + 1, p[3]>>].seen]
  BY ONLY <1>1, <1>3, <1>4, Zenon
<1>6. /\ Expand[p].read = <<<<p[1], p[2]>>>> \o Expand[<<p[1], p[2] + 1, p[3]>>].read
      /\ Expand[p].seen = Expand[<<p[1], p[2] + 1, p[3]>>].seen
  BY ONLY <1>5, Fields
<1> QED
  BY <1>2, <1>6

LEMMA AtSeen ==
  ASSUME program \in Programs, NEW p \in Points, ~(p[2] > Len(Text(p[1]))),
         Text(p[1])[p[2]] \in p[3], Text(p[1])[p[2]] # "statement"
  PROVE  LET q == <<p[1], p[2] + 1, p[3]>>
         IN /\ q \in Points
            /\ Expand[p].read = Expand[q].read
            /\ Expand[p].seen = Expand[q].seen
<1> DEFINE q == <<p[1], p[2] + 1, p[3]>>
<1>1. Expand[p] = Unfold(Expand, p[1], p[2], p[3])
  BY ExpandIs
<1>2. q \in Points
  BY DEF Points
<1>3. p[3] \cup p[3] = p[3]
  OBVIOUS
<1>4. Expand[q].read \in Seq(Names \X Nat)
  BY <1>2, ExpandType DEF Result
<1>5. Expand[p] = [read |-> <<>> \o Expand[q].read, seen |-> Expand[q].seen]
  BY <1>1, <1>3 DEF Unfold
<1> HIDE DEF q
<1>6. <<>> \o Expand[q].read = Expand[q].read
  BY <1>4
<1>7. Expand[p].read = Expand[q].read /\ Expand[p].seen = Expand[q].seen
  BY <1>5, <1>6
<1> QED
  BY <1>2, <1>7 DEF q

LEMMA AtInclude ==
  ASSUME program \in Programs, NEW p \in Points, ~(p[2] > Len(Text(p[1]))),
         NEW f \in DOMAIN Disk, Text(p[1])[p[2]] = f, f \notin p[3], f # "statement"
  PROVE  LET r == <<f, 1, p[3] \cup {f}>>
             q == <<p[1], p[2] + 1, Expand[r].seen>>
         IN /\ r \in Points /\ q \in Points
            /\ Expand[p].read = Expand[r].read \o Expand[q].read
            /\ Expand[p].seen = Expand[q].seen
<1> DEFINE r == <<f, 1, p[3] \cup {f}>>
           q == <<p[1], p[2] + 1, Expand[r].seen>>
<1>0. p[1] \in Names /\ p[2] \in Nat /\ p[3] \subseteq DOMAIN Disk
  BY PointFacts
<1>1. Expand[p] = Unfold(Expand, p[1], p[2], p[3])
  BY ExpandIs
<1>2. r \in Points /\ p[3] \subseteq r[3]
  BY <1>0 DEF Points, Names
<1>3. Expand[r].seen \in SUBSET DOMAIN Disk /\ p[3] \cup Expand[r].seen = Expand[r].seen
  <2> HIDE DEF r
  <2>1. Expand[r] \in Result /\ r[3] \subseteq Expand[r].seen
    BY <1>2, ExpandType
  <2>2. Expand[r].seen \in SUBSET DOMAIN Disk
    BY <2>1 DEF Result
  <2>3. p[3] \subseteq Expand[r].seen
    BY <1>2, <2>1
  <2> QED
    <3> DEFINE A == p[3]
               B == Expand[r].seen
    <3>1. A \subseteq B /\ B \in SUBSET DOMAIN Disk
      BY <2>2, <2>3
    <3>2. B \in SUBSET DOMAIN Disk /\ A \cup B = B
      <4> HIDE DEF A, B
      <4> QED
        BY ONLY <3>1, Union
    <3> QED
      BY ONLY <3>2
<1>4. q \in Points
  <2> DEFINE B == Expand[r].seen
  <2>1. B \in SUBSET DOMAIN Disk
    BY ONLY <1>3
  <2>2. p[2] + 1 \in Nat
    BY <1>0
  <2>3. <<p[1], p[2] + 1, B>> \in Points
    <3> HIDE DEF B
    <3> QED
      BY <1>0, <2>1, <2>2 DEF Points
  <2> QED
    BY ONLY <2>3
<1>5. Unfold(Expand, p[1], p[2], p[3]) =
        [read |-> Expand[r].read \o Expand[<<p[1], p[2] + 1, p[3] \cup Expand[r].seen>>].read,
         seen |-> Expand[<<p[1], p[2] + 1, p[3] \cup Expand[r].seen>>].seen]
  BY DEF Unfold
<1>6. Expand[p].read = Expand[r].read \o Expand[q].read /\ Expand[p].seen = Expand[q].seen
  <2>1. Expand[p] = [read |-> Expand[r].read \o Expand[q].read, seen |-> Expand[q].seen]
    BY ONLY <1>1, <1>3, <1>5, Zenon DEF q
  <2> HIDE DEF r, q
  <2> QED
    <3> DEFINE e == Expand[p]
               u == Expand[r].read \o Expand[q].read
               v == Expand[q].seen
    <3>1. e = [read |-> u, seen |-> v]
      BY ONLY <2>1
    <3>2. e.read = u /\ e.seen = v
      <4> HIDE DEF e, u, v
      <4> QED
        BY ONLY <3>1, Fields
    <3> QED
      BY ONLY <3>2
<1> QED
  BY <1>2, <1>4, <1>6

-----------------------------------------------------------------------------
(***************************************************************************)
(* The stack of files as a plan for what is still to be read: level 0 is   *)
(* the program, level k the k-th file; S[k] are the files that will have   *)
(* been included when level k goes on, T[k] is what follows it.            *)
(***************************************************************************)
Statement == Names \X Nat

Plan(E, name, at, n, S, T, included, done, whole) ==
  /\ S \in [0..n -> SUBSET DOMAIN Disk] /\ S[n] = included
  /\ T \in [0..n -> Seq(Statement)] /\ T[0] = <<>>
  /\ \A k \in 1..n : /\ S[k - 1] = E[<<name[k], at[k], S[k]>>].seen
                     /\ T[k] = E[<<name[k - 1], at[k - 1], S[k - 1]>>].read \o T[k - 1]
  /\ done \o (E[<<name[n], at[n], included>>].read \o T[n]) = whole

SameBelow(n, name, at, name2, at2) ==
  \A k \in 0..n : k < n => name2[k] = name[k] /\ at2[k] = at[k]

SameUpTo(n, name, at, name2, at2) ==
  \A k \in 0..n : name2[k] = name[k] /\ (k < n => at2[k] = at[k])

\* The topmost text goes on.
LEMMA PlanForward ==
  ASSUME NEW E, NEW name, NEW at, NEW n \in Nat, NEW S, NEW T, NEW included, NEW done, NEW whole,
         Plan(E, name, at, n, S, T, included, done, whole),
         NEW name2, NEW at2, NEW done2, SameBelow(n, name, at, name2, at2),
         E[<<name2[n], at2[n], included>>].seen = E[<<name[n], at[n], included>>].seen,
         done2 \o (E[<<name2[n], at2[n], included>>].read \o T[n]) = whole
  PROVE  Plan(E, name2, at2, n, S, T, included, done2, whole)
<1>1. ASSUME NEW k \in 1..n
      PROVE  /\ S[k - 1] = E[<<name2[k], at2[k], S[k]>>].seen
             /\ T[k] = E[<<name2[k - 1], at2[k - 1], S[k - 1]>>].read \o T[k - 1]
  <2>1. /\ S[k - 1] = E[<<name[k], at[k], S[k]>>].seen
        /\ T[k] = E[<<name[k - 1], at[k - 1], S[k - 1]>>].read \o T[k - 1]
        /\ S[n] = included
    BY DEF Plan
  <2>2. k - 1 \in 0..n /\ k - 1 < n /\ k \in 0..n /\ (k < n \/ k = n)
    OBVIOUS
  <2>3. name2[k - 1] = name[k - 1] /\ at2[k - 1] = at[k - 1]
    BY <2>2 DEF SameBelow
  <2>4. E[<<name2[k], at2[k], S[k]>>].seen = E[<<name[k], at[k], S[k]>>].seen
    BY <2>1, <2>2 DEF SameBelow
  <2> QED
    BY <2>1, <2>3, <2>4
<1> QED
  BY <1>1 DEF Plan

\* A file is put on the stack: what the level below has left comes after it.
LEMMA PlanPush ==
  ASSUME NEW E, NEW name, NEW at, NEW n \in Nat, NEW S, NEW T, NEW included, NEW done, NEW whole,
         Plan(E, name, at, n, S, T, included, done, whole),
         NEW f, included \cup {f} \subseteq DOMAIN Disk, NEW name2, NEW at2,
         SameUpTo(n, name, at, name2, at2),
         name2[n + 1] = f, at2[n + 1] = 1,
         NEW r, r = <<f, 1, included \cup {f}>>, NEW q, q = <<name[n], at2[n], E[r].seen>>,
         E[r].seen \subseteq DOMAIN Disk, E[r].read \in Seq(Statement), E[q].read \in Seq(Statement),
         done \in Seq(Statement),
         E[<<name[n], at[n], included>>].read = E[r].read \o E[q].read,
         E[<<name[n], at[n], included>>].seen = E[q].seen
  PROVE  \E S2, T2 : Plan(E, name2, at2, n + 1, S2, T2, included \cup {f}, done, whole)
<1> DEFINE S2 == [k \in 0..(n + 1) |-> IF k = n + 1 THEN included \cup {f}
                                      ELSE IF k = n THEN E[r].seen ELSE S[k]]
           T2 == [k \in 0..(n + 1) |-> IF k = n + 1 THEN E[q].read \o T[n] ELSE T[k]]
<1>1. /\ n + 1 \in Nat /\ 0 \in 0..(n + 1) /\ n \in 0..(n + 1) /\ n + 1 \in 0..(n + 1)
      /\ n + 1 # n /\ 0 # n + 1 /\ (n + 1) - 1 = n /\ 0 \in 0..n /\ n \in 0..n
      /\ \A k \in 0..(n + 1) : k \in 0..n \/ k = n + 1
      /\ \A k \in 1..(n + 1) : k \in 1..n \/ k = n + 1
      /\ \A k \in 1..n : /\ k \in 0..(n + 1) /\ k # n + 1 /\ k - 1 \in 0..(n + 1) /\ k - 1 # n + 1 /\ k - 1 # n
                         /\ k \in 0..n /\ k - 1 \in 0..n /\ k - 1 < n /\ (k < n \/ k = n)
  OBVIOUS
<1>2. /\ S \in [0..n -> SUBSET DOMAIN Disk] /\ S[n] = included
      /\ T \in [0..n -> Seq(Statement)] /\ T[0] = <<>>
      /\ done \o (E[<<name[n], at[n], included>>].read \o T[n]) = whole
  BY DEF Plan
<1>3. T[n] \in Seq(Statement) /\ E[q].read \o T[n] \in Seq(Statement)
  <2>1. T[n] \in Seq(Statement)
    BY <1>1, <1>2
  <2> QED
    BY <2>1, Concatenations
<1>4. /\ S2[n + 1] = included \cup {f} /\ S2[n] = E[r].seen
      /\ T2[n + 1] = E[q].read \o T[n] /\ T2[n] = T[n] /\ T2[0] = T[0]
      /\ \A k \in 0..n : T2[k] = T[k] /\ (k # n => S2[k] = S[k])
  <2>1. \A k \in 0..n : k \in 0..(n + 1) /\ k # n + 1
    OBVIOUS
  <2>2. \A k \in 0..n : T2[k] = T[k] /\ (k # n => S2[k] = S[k])
    BY <2>1
  <2>3. S2[n + 1] = included \cup {f} /\ T2[n + 1] = E[q].read \o T[n]
    BY <1>1
  <2>4. S2[n] = E[r].seen
    BY <1>1
  <2> HIDE DEF S2, T2
  <2> QED
    BY <1>1, <2>2, <2>3, <2>4
<1>5. S2 \in [0..(n + 1) -> SUBSET DOMAIN Disk] /\ T2 \in [0..(n + 1) -> Seq(Statement)]
  <2>1. \A k \in 0..(n + 1) : S2[k] \in SUBSET DOMAIN Disk
    BY <1>1, <1>2
  <2>2. \A k \in 0..(n + 1) : T2[k] \in Seq(Statement)
    BY <1>1, <1>2, <1>3
  <2> QED
    BY <2>1, <2>2
<1> HIDE DEF S2, T2
<1>6. ASSUME NEW k \in 1..(n + 1)
      PROVE  /\ S2[k - 1] = E[<<name2[k], at2[k], S2[k]>>].seen
             /\ T2[k] = E[<<name2[k - 1], at2[k - 1], S2[k - 1]>>].read \o T2[k - 1]
  <2>1. CASE k = n + 1
    <3>1. S2[n] = E[<<name2[n + 1], at2[n + 1], S2[n + 1]>>].seen
      BY <1>4
    <3>2. T2[n + 1] = E[<<name2[n], at2[n], S2[n]>>].read \o T2[n]
      BY <1>1, <1>4 DEF SameUpTo
    <3> QED
      BY <1>1, <2>1, <3>1, <3>2
  <2>2. CASE k \in 1..n
    <3>1. /\ S[k - 1] = E[<<name[k], at[k], S[k]>>].seen
          /\ T[k] = E[<<name[k - 1], at[k - 1], S[k - 1]>>].read \o T[k - 1]
      BY <2>2 DEF Plan
    <3>2. /\ S2[k - 1] = S[k - 1] /\ T2[k - 1] = T[k - 1] /\ T2[k] = T[k]
          /\ name2[k - 1] = name[k - 1] /\ at2[k - 1] = at[k - 1]
      BY <1>1, <1>4, <2>2 DEF SameUpTo
    <3>3. CASE k = n
      <4>1. E[<<name2[n], at2[n], S2[n]>>].seen = E[<<name[n], at[n], S[n]>>].seen
        BY <1>1, <1>2, <1>4 DEF SameUpTo
      <4> QED
        BY <3>1, <3>2, <3>3, <4>1
    <3>4. CASE k < n
      <4>1. name2[k] = name[k] /\ at2[k] = at[k] /\ S2[k] = S[k]
        <5>1. k \in 0..n /\ k # n
          BY <2>2, <3>4
        <5> QED
          BY <1>4, <3>4, <5>1 DEF SameUpTo
      <4> QED
        BY <3>1, <3>2, <4>1
    <3> QED
      BY <1>1, <2>2, <3>3, <3>4
  <2> QED
    BY <1>1, <2>1, <2>2
<1>7. done \o (E[<<name2[n + 1], at2[n + 1], included \cup {f}>>].read \o T2[n + 1]) = whole
  <2>1. done \o ((E[r].read \o E[q].read) \o T[n]) = whole
    <3>1. E[<<name[n], at[n], included>>].read = E[r].read \o E[q].read
      OBVIOUS
    <3> QED
      BY ONLY <1>2, <3>1, Zenon
  <2>2. (E[r].read \o E[q].read) \o T[n] = E[r].read \o (E[q].read \o T[n])
    <3>1. E[r].read \in Seq(Statement) /\ E[q].read \in Seq(Statement) /\ T[n] \in Seq(Statement)
      BY <1>3
    <3> DEFINE u == E[r].read
               v == E[q].read
               w == T[n]
    <3>2. u \in Seq(Statement) /\ v \in Seq(Statement) /\ w \in Seq(Statement)
      BY ONLY <3>1
    <3>3. (u \o v) \o w = u \o (v \o w)
      <4> HIDE DEF u, v, w
      <4> QED
        BY ONLY <3>2, Concatenations
    <3> QED
      BY ONLY <3>3
  <2> QED
    BY <1>4, <2>1, <2>2
<1>8. Plan(E, name2, at2, n + 1, S2, T2, included \cup {f}, done, whole)
  BY <1>1, <1>2, <1>4, <1>5, <1>6, <1>7 DEF Plan
<1> QED
  BY <1>8

\* The topmost file ends: what follows it is the level below.
LEMMA PlanPop ==
  ASSUME NEW E, NEW name, NEW at, NEW n \in Nat, n > 0,
         NEW S, NEW T, NEW included, NEW done, NEW whole,
         Plan(E, name, at, n, S, T, included, done, whole),
         E[<<name[n], at[n], included>>] = [read |-> <<>>, seen |-> included],
         NEW name2, NEW at2, SameBelow(n, name, at, name2, at2)
  PROVE  \E S2, T2 : Plan(E, name2, at2, n - 1, S2, T2, included, done, whole)
<1> DEFINE S2 == [k \in 0..(n - 1) |-> S[k]]
           T2 == [k \in 0..(n - 1) |-> T[k]]
<1>1. /\ n - 1 \in Nat /\ n - 1 \in 0..(n - 1) /\ n - 1 \in 0..n /\ n - 1 < n /\ 0 \in 0..(n - 1)
      /\ n \in 1..n /\ n \in 0..n
      /\ \A k \in 0..(n - 1) : k \in 0..n /\ k < n
      /\ \A k \in 1..(n - 1) : k \in 1..n /\ k \in 0..(n - 1) /\ k - 1 \in 0..(n - 1)
  OBVIOUS
<1>2. /\ S \in [0..n -> SUBSET DOMAIN Disk] /\ S[n] = included
      /\ T \in [0..n -> Seq(Statement)] /\ T[0] = <<>>
      /\ done \o (E[<<name[n], at[n], included>>].read \o T[n]) = whole
      /\ S[n - 1] = E[<<name[n], at[n], S[n]>>].seen
      /\ T[n] = E[<<name[n - 1], at[n - 1], S[n - 1]>>].read \o T[n - 1]
  BY <1>1 DEF Plan
<1>3. S2 \in [0..(n - 1) -> SUBSET DOMAIN Disk] /\ T2 \in [0..(n - 1) -> Seq(Statement)]
  BY <1>1, <1>2
<1>4. \A k \in 0..(n - 1) : S2[k] = S[k] /\ T2[k] = T[k] /\ name2[k] = name[k] /\ at2[k] = at[k]
  BY <1>1 DEF SameBelow
<1> HIDE DEF S2, T2
<1>5. ASSUME NEW k \in 1..(n - 1)
      PROVE  /\ S2[k - 1] = E[<<name2[k], at2[k], S2[k]>>].seen
             /\ T2[k] = E[<<name2[k - 1], at2[k - 1], S2[k - 1]>>].read \o T2[k - 1]
  <2>1. /\ S[k - 1] = E[<<name[k], at[k], S[k]>>].seen
        /\ T[k] = E[<<name[k - 1], at[k - 1], S[k - 1]>>].read \o T[k - 1]
    BY <1>1 DEF Plan
  <2>2. k \in 0..(n - 1) /\ k - 1 \in 0..(n - 1)
    BY <1>1
  <2> QED
    BY <1>4, <2>1, <2>2
<1>6. S2[n - 1] = included
  BY <1>1, <1>2, <1>4
<1>7. done \o (E[<<name2[n - 1], at2[n - 1], included>>].read \o T2[n - 1]) = whole
  <2>1. <<>> \o T[n] = T[n]
    <3>1. T[n] \in Seq(Statement)
      BY <1>1, <1>2
    <3> QED
      BY <3>1, Concatenations
  <2>2. done \o T[n] = whole
    <3>1. E[<<name[n], at[n], included>>].read = <<>>
      BY Fields
    <3> QED
      BY ONLY <1>2, <2>1, <3>1, Zenon
  <2>3. S[n - 1] = included
    BY <1>1, <1>4, <1>6
  <2> QED
    BY <1>1, <1>2, <1>4, <2>2, <2>3
<1>8. Plan(E, name2, at2, n - 1, S2, T2, included, done, whole)
  BY <1>1, <1>2, <1>3, <1>4, <1>5, <1>6, <1>7 DEF Plan
<1> QED
  BY <1>8

-----------------------------------------------------------------------------
(***************************************************************************)
(* The invariant: while a compilation is under way there is a plan, and a  *)
(* compilation that has ended has carried it out.                          *)
(***************************************************************************)
NameAt  == [k \in 0..Len(files) |-> IF k = 0 THEN "program" ELSE files[k].name]
PlaceAt == [k \in 0..Len(files) |-> IF k = 0 THEN position ELSE files[k].at]

Planned == \E S, T : Plan(Expand, NameAt, PlaceAt, Len(files), S, T, includedFiles, read, Expansion)

Following ==
  /\ read \in Seq(Statement)
  /\ "statement" \notin includedFiles
  /\ phase = "compile" => Planned
  /\ phase = "use" /\ failed # "now" => read = Expansion

LEMMA SameExpand ==
  ASSUME program' = program
  PROVE  Expand' = Expand
BY DEF Expand, Unfold, Text

LEMMA SameExpansion ==
  ASSUME program' = program
  PROVE  Expansion' = Expansion
BY SameExpand DEF Expansion

\* The line that is read is the one at the topmost level.
LEMMA CurrentPlace ==
  ASSUME Bounded
  PROVE  /\ Len(files) \in Nat
         /\ <<NameAt[Len(files)], PlaceAt[Len(files)], includedFiles>> \in Points
         /\ Text(NameAt[Len(files)]) = Lines /\ PlaceAt[Len(files)] = At
         /\ NameAt[Len(files)] = IF files = <<>> THEN "program" ELSE Top.name
<1>1. /\ files \in Seq(OnStack) /\ includedFiles \subseteq DOMAIN Disk /\ position \in Nat
      /\ program \in Programs
  BY LimitAssumption DEF Bounded, Stack, Counters, Images
<1> DEFINE n == Len(files)
<1>2. n \in Nat /\ n \in 0..n /\ 0 \in 0..n /\ (n = 0 <=> files = <<>>)
  BY <1>1
<1>3. CASE files = <<>>
  <2>1. NameAt[n] = "program" /\ PlaceAt[n] = position
    BY <1>2, <1>3 DEF NameAt, PlaceAt
  <2> QED
    BY <1>1, <1>2, <1>3, <2>1 DEF Points, Names, Text, Lines, At
<1>4. CASE files # <<>>
  <2>1. n # 0 /\ n \in 1..n
    BY <1>2, <1>4
  <2>2. NameAt[n] = Top.name /\ PlaceAt[n] = Top.at
    BY <1>2, <2>1 DEF NameAt, PlaceAt, Top
  <2>3. Top \in OnStack
    BY <1>1, <2>1 DEF Top
  <2>4. Top.name \in DOMAIN Disk /\ Top.at \in Nat /\ Top.name # "program"
    BY <1>1, <2>3, SourceAssumption DEF OnStack
  <2> QED
    BY <1>1, <1>2, <1>4, <2>2, <2>4 DEF Points, Names, Text, Lines, At
<1> QED
  BY <1>3, <1>4

\* What Advance does to the levels, and PushFile below the file it pushes.
LEMMA MovedPlaces ==
  ASSUME files \in Seq(OnStack), files # <<>>
  PROVE  /\ Moved \in Seq(OnStack) /\ Len(Moved) = Len(files)
         /\ \A k \in 1..Len(files) : /\ Moved[k].name = files[k].name
                                     /\ Moved[k].at = IF k = Len(files) THEN files[k].at + 1
                                                     ELSE files[k].at
<1> DEFINE n == Len(files)
           top == [files[n] EXCEPT !.at = @ + 1]
<1>1. n \in Nat /\ n \in 1..n /\ files[n] \in OnStack
  OBVIOUS
<1>2. top \in OnStack /\ top.name = files[n].name /\ top.at = files[n].at + 1
  BY <1>1 DEF OnStack
<1>3. Moved = [files EXCEPT ![n] = top]
  BY DEF Moved
<1> HIDE DEF top, n
<1>4. /\ Moved \in Seq(OnStack) /\ Len(Moved) = n
      /\ \A i \in 1..n : Moved[i] = IF i = n THEN top ELSE files[i]
  BY <1>1, <1>2, <1>3 DEF n
<1> QED
  BY <1>2, <1>4 DEF n

LEMMA AdvancePlaces ==
  ASSUME Bounded, Advance
  PROVE  /\ Len(files') = Len(files)
         /\ \A k \in 0..Len(files) : /\ NameAt'[k] = NameAt[k]
                                     /\ k < Len(files) => PlaceAt'[k] = PlaceAt[k]
         /\ PlaceAt'[Len(files)] = At + 1
<1> DEFINE n == Len(files)
<1>1. files \in Seq(OnStack) /\ n \in Nat /\ n \in 0..n
  BY DEF Bounded, Stack
<1>2. CASE files = <<>>
  <2>1. files' = <<>> /\ position' = position + 1 /\ n = 0
    BY <1>2 DEF Advance
  <2> QED
    BY <1>2, <2>1 DEF NameAt, PlaceAt, At
<1>3. CASE files # <<>>
  <2>1. files' = Moved /\ position' = position
    BY <1>3 DEF Advance, Moved
  <2>2. /\ Len(files') = n
        /\ \A k \in 1..n : /\ files'[k].name = files[k].name
                           /\ files'[k].at = IF k = n THEN files[k].at + 1 ELSE files[k].at
    BY <1>1, <1>3, <2>1, MovedPlaces
  <2>3. /\ NameAt' = [k \in 0..n |-> IF k = 0 THEN "program" ELSE files'[k].name]
        /\ PlaceAt' = [k \in 0..n |-> IF k = 0 THEN position' ELSE files'[k].at]
    BY <2>2 DEF NameAt, PlaceAt
  <2>4. n # 0 /\ n \in 1..n /\ \A k \in 0..n : k = 0 \/ k \in 1..n
    BY <1>1, <1>3
  <2>5. \A k \in 0..n : NameAt'[k] = NameAt[k]
    BY <2>2, <2>3, <2>4 DEF NameAt
  <2>6. \A k \in 0..n : k < n => PlaceAt'[k] = PlaceAt[k]
    <3> TAKE k \in 0..n
    <3> HAVE k < n
    <3>1. CASE k = 0
      BY <2>1, <2>3, <3>1 DEF PlaceAt
    <3>2. CASE k \in 1..n
      <4>1. k # n /\ k # 0
        BY <1>1, <3>2
      <4> QED
        BY <2>2, <2>3, <3>2, <4>1 DEF PlaceAt
    <3> QED
      BY <2>4, <3>1, <3>2
  <2>7. PlaceAt'[n] = At + 1
    BY <1>1, <1>3, <2>2, <2>3, <2>4 DEF At, Top
  <2> QED
    BY <2>2, <2>5, <2>6, <2>7
<1> QED
  BY <1>2, <1>3

LEMMA Appended ==
  ASSUME NEW A, NEW s \in Seq(A), NEW x
  PROVE  LET t == s \o <<x>>
         IN Len(t) = Len(s) + 1 /\ t[Len(s) + 1] = x /\ \A k \in 1..Len(s) : t[k] = s[k]
<1>1. s \in Seq(A \cup {x}) /\ <<x>> \in Seq(A \cup {x})
  OBVIOUS
<1> QED
  BY <1>1

LEMMA PushPlaces ==
  ASSUME Bounded, NEW f, PushFile(f)
  PROVE  /\ Len(files') = Len(files) + 1
         /\ \A k \in 0..Len(files) : /\ NameAt'[k] = NameAt[k]
                                     /\ k < Len(files) => PlaceAt'[k] = PlaceAt[k]
         /\ PlaceAt'[Len(files)] = At + 1
         /\ NameAt'[Len(files) + 1] = f /\ PlaceAt'[Len(files) + 1] = 1
<1> DEFINE n == Len(files)
           below == IF files = <<>> THEN files ELSE Moved
           pushed == [name |-> f, at |-> 1]
<1>1. /\ files \in Seq(OnStack) /\ n \in Nat /\ n \in 0..n
      /\ files' = below \o <<pushed>>
      /\ position' = IF files = <<>> THEN position + 1 ELSE position
  BY DEF Bounded, Stack, PushFile, Moved
<1>2. /\ below \in Seq(OnStack) /\ Len(below) = n
      /\ \A k \in 1..n : /\ below[k].name = files[k].name
                         /\ below[k].at = IF k = n THEN files[k].at + 1 ELSE files[k].at
  <2>1. CASE files = <<>>
    BY <1>1, <2>1
  <2>2. CASE files # <<>>
    BY <1>1, <2>2, MovedPlaces
  <2> QED
    BY <2>1, <2>2
<1>3. pushed.name = f /\ pushed.at = 1
  OBVIOUS
<1> HIDE DEF below, pushed
<1>4. Len(files') = n + 1 /\ files'[n + 1] = pushed /\ \A k \in 1..n : files'[k] = below[k]
  <2>1. below \in Seq(OnStack) /\ Len(below) = n
    BY <1>2
  <2> DEFINE t == below \o <<pushed>>
  <2>2. Len(t) = n + 1 /\ t[n + 1] = pushed /\ \A k \in 1..n : t[k] = below[k]
    <3> HIDE DEF n
    <3> QED
      BY <2>1, Appended
  <2> QED
    BY <1>1, <2>2
<1>5. /\ NameAt' = [k \in 0..(n + 1) |-> IF k = 0 THEN "program" ELSE files'[k].name]
      /\ PlaceAt' = [k \in 0..(n + 1) |-> IF k = 0 THEN position' ELSE files'[k].at]
  BY <1>4 DEF NameAt, PlaceAt
<1>6. /\ \A k \in 0..n : k \in 0..(n + 1) /\ (k = 0 \/ k \in 1..n)
      /\ n + 1 \in 0..(n + 1) /\ n + 1 # 0
      /\ (n = 0 <=> files = <<>>) /\ (n # 0 => n \in 1..n)
  BY <1>1
<1>7. \A k \in 0..n : NameAt'[k] = NameAt[k]
  BY <1>2, <1>4, <1>5, <1>6 DEF NameAt
<1>8. ASSUME NEW k \in 0..n, k < n PROVE PlaceAt'[k] = PlaceAt[k]
  <2>1. k # n /\ n # 0
    BY <1>1, <1>8
  <2>2. CASE k = 0
    BY <1>1, <1>5, <1>6, <2>1, <2>2 DEF PlaceAt
  <2>3. CASE k # 0
    <3>1. k \in 1..n
      BY <1>6, <2>3
    <3>2. PlaceAt'[k] = files'[k].at
      BY <1>5, <1>6, <2>3
    <3>3. PlaceAt[k] = files[k].at
      BY <2>3 DEF PlaceAt
    <3> QED
      BY <1>2, <1>4, <2>1, <3>1, <3>2, <3>3
  <2> QED
    BY <2>2, <2>3
<1>9. PlaceAt'[n] = At + 1
  <2>1. CASE files = <<>>
    BY <1>1, <1>5, <1>6, <2>1 DEF At
  <2>2. CASE files # <<>>
    <3>1. n # 0 /\ n \in 1..n /\ n \in 0..(n + 1)
      BY <1>1, <1>6, <2>2
    <3>2. PlaceAt'[n] = files'[n].at
      BY <1>5, <3>1
    <3>3. files'[n].at = files[n].at + 1
      BY <1>2, <1>4, <3>1
    <3> QED
      BY <2>2, <3>2, <3>3 DEF At, Top
  <2> QED
    BY <2>1, <2>2
<1>10. NameAt'[n + 1] = f /\ PlaceAt'[n + 1] = 1
  BY <1>3, <1>4, <1>5, <1>6
<1> QED
  BY <1>4, <1>7, <1>8, <1>9, <1>10

LEMMA PopPlaces ==
  ASSUME Bounded, PopFile
  PROVE  /\ Len(files) > 0 /\ Len(files') = Len(files) - 1
         /\ \A k \in 0..Len(files) :
              k < Len(files) => NameAt'[k] = NameAt[k] /\ PlaceAt'[k] = PlaceAt[k]
<1> DEFINE n == Len(files)
<1>1. /\ files \in Seq(OnStack) /\ files # <<>> /\ position' = position
      /\ files' = SubSeq(files, 1, Len(files) - 1)
  BY DEF PopFile, Bounded, Stack, Front
<1>2. /\ n \in Nat /\ n > 0 /\ Len(files') = n - 1
      /\ \A i \in 1..(n - 1) : files'[i] = files[i]
  BY <1>1, FrontOfFiles, FrontElements
<1>3. /\ NameAt' = [k \in 0..(n - 1) |-> IF k = 0 THEN "program" ELSE files'[k].name]
      /\ PlaceAt' = [k \in 0..(n - 1) |-> IF k = 0 THEN position' ELSE files'[k].at]
  BY <1>2 DEF NameAt, PlaceAt
<1>4. ASSUME NEW k \in 0..n, k < n PROVE NameAt'[k] = NameAt[k] /\ PlaceAt'[k] = PlaceAt[k]
  <2>1. k \in 0..(n - 1) /\ (k = 0 \/ k \in 1..(n - 1))
    BY <1>2, <1>4
  <2> QED
    BY <1>1, <1>2, <1>3, <2>1 DEF NameAt, PlaceAt
<1> QED
  BY <1>2, <1>4

(***************************************************************************)
(* The steps of a compilation.                                             *)
(***************************************************************************)
LEMMA PlanTypes ==
  ASSUME Bounded, read \in Seq(Statement),
         NEW p \in Points
  PROVE  Expand[p].read \in Seq(Statement) /\ Expand[p].seen \subseteq DOMAIN Disk
<1>1. Expand[p] \in Result
  BY ExpandType DEF Bounded, Images
<1> QED
  BY <1>1 DEF Result, Statement

\* A step that moves the topmost text on and leaves as much to be read as there
\* was, less what has been read in it.
Continues ==
  LET n == Len(files)
      p == <<NameAt[n], PlaceAt[n], includedFiles>>
      q == <<NameAt[n], PlaceAt[n] + 1, includedFiles>>
  IN /\ Expand[p].seen = Expand[q].seen
     /\ \A t \in Seq(Statement) : read' \o (Expand[q].read \o t) = read \o (Expand[p].read \o t)

LEMMA ForwardPlan ==
  ASSUME Bounded, Following, phase = "compile", program' = program, includedFiles' = includedFiles,
         Advance, Continues
  PROVE  Planned'
<1>0. /\ Len(files') = Len(files)
      /\ \A k \in 0..Len(files) : /\ NameAt'[k] = NameAt[k]
                                  /\ k < Len(files) => PlaceAt'[k] = PlaceAt[k]
      /\ PlaceAt'[Len(files)] = At + 1
  BY AdvancePlaces
<1>00. PICK n : n = Len(files)
  OBVIOUS
<1> DEFINE q == <<NameAt[n], PlaceAt[n] + 1, includedFiles>>
<1>1. PICK S, T : Plan(Expand, NameAt, PlaceAt, n, S, T, includedFiles, read, Expansion)
  BY <1>00 DEF Following, Planned
<1>2. n \in Nat /\ PlaceAt[n] = At
  BY <1>00, CurrentPlace
<1>3. /\ Len(files') = n
      /\ \A k \in 0..n : NameAt'[k] = NameAt[k] /\ (k < n => PlaceAt'[k] = PlaceAt[k])
      /\ PlaceAt'[n] = At + 1
  BY ONLY <1>0, <1>00, Zenon
<1>4. n \in 0..n /\ T[n] \in Seq(Statement)
  <2>1. n \in 0..n
    BY <1>2
  <2>2. T \in [0..n -> Seq(Statement)]
    BY ONLY <1>1 DEF Plan
  <2> QED
    BY <2>1, <2>2
<1>5. <<NameAt'[n], PlaceAt'[n], includedFiles>> = q
  BY <1>2, <1>3, <1>4
<1>6. read \o (Expand[<<NameAt[n], PlaceAt[n], includedFiles>>].read \o T[n]) = Expansion
  BY <1>1 DEF Plan
<1>7. read' \o (Expand[<<NameAt'[n], PlaceAt'[n], includedFiles>>].read \o T[n]) = Expansion
  <2>1. read' \o (Expand[q].read \o T[n]) = Expansion
    BY <1>00, <1>4, <1>6 DEF Continues
  <2> QED
    BY ONLY <1>5, <2>1, Zenon
<1>8. Expand[<<NameAt'[n], PlaceAt'[n], includedFiles>>].seen
        = Expand[<<NameAt[n], PlaceAt[n], includedFiles>>].seen
  <2>1. Expand[q].seen = Expand[<<NameAt[n], PlaceAt[n], includedFiles>>].seen
    BY <1>00 DEF Continues
  <2> QED
    BY ONLY <1>5, <2>1, Zenon
<1>9. \A k \in 0..n : k < n => NameAt'[k] = NameAt[k] /\ PlaceAt'[k] = PlaceAt[k]
  BY <1>3
<1> HIDE DEF q
<1>10. Plan(Expand, NameAt', PlaceAt', n, S, T, includedFiles, read', Expansion)
  <2>1. PICK name2, at2, done2, whole : /\ name2 = NameAt' /\ at2 = PlaceAt' /\ done2 = read'
                                        /\ whole = Expansion
    OBVIOUS
  <2>2. /\ Plan(Expand, NameAt, PlaceAt, n, S, T, includedFiles, read, whole)
        /\ n \in Nat /\ SameBelow(n, NameAt, PlaceAt, name2, at2)
        /\ Expand[<<name2[n], at2[n], includedFiles>>].seen
             = Expand[<<NameAt[n], PlaceAt[n], includedFiles>>].seen
        /\ done2 \o (Expand[<<name2[n], at2[n], includedFiles>>].read \o T[n]) = whole
    BY ONLY <1>1, <1>2, <1>7, <1>8, <1>9, <2>1, Zenon DEF SameBelow
  <2>3. Plan(Expand, name2, at2, n, S, T, includedFiles, done2, whole)
    BY ONLY <2>2, PlanForward
  <2> QED
    BY ONLY <2>1, <2>3, Zenon
<1>11. Expand' = Expand /\ Expansion' = Expansion
  BY SameExpand, SameExpansion
<1>12. Plan(Expand', NameAt', PlaceAt', Len(files'), S, T, includedFiles', read', Expansion')
  BY <1>3, <1>10, <1>11
<1> QED
  BY <1>12 DEF Planned

\* PushFile: the file, then what is left of the text that names it.
LEMMA PushPlan ==
  ASSUME Bounded, Following, NEW f, PushFile(f)
  PROVE  Planned'
<1>1. /\ phase = "compile" /\ More /\ program' = program /\ read' = read
      /\ Lines[At] = f /\ f \notin includedFiles /\ f \in DOMAIN Disk /\ f # "statement"
      /\ includedFiles' = includedFiles \cup {f}
      /\ program \in Programs
  BY DEF PushFile, Parsing, Bounded, Images
<1>2. /\ Len(files') = Len(files) + 1
      /\ \A k \in 0..Len(files) : NameAt'[k] = NameAt[k] /\ (k < Len(files) => PlaceAt'[k] = PlaceAt[k])
      /\ PlaceAt'[Len(files)] = At + 1
      /\ NameAt'[Len(files) + 1] = f /\ PlaceAt'[Len(files) + 1] = 1
  BY PushPlaces
<1>3. PICK n : n = Len(files)
  OBVIOUS
<1>4. PICK p : p = <<NameAt[n], PlaceAt[n], includedFiles>>
  OBVIOUS
<1>5. PICK r : r = <<f, 1, includedFiles \cup {f}>>
  OBVIOUS
<1>6. PICK q : q = <<NameAt[n], PlaceAt'[n], Expand[r].seen>>
  OBVIOUS
<1>7. PICK S, T : Plan(Expand, NameAt, PlaceAt, n, S, T, includedFiles, read, Expansion)
  BY <1>1, <1>3 DEF Following, Planned
<1>8. n \in Nat /\ p \in Points /\ Text(NameAt[n]) = Lines /\ PlaceAt[n] = At
  BY <1>3, <1>4, CurrentPlace
<1>9. /\ p[1] = NameAt[n] /\ p[2] = At /\ p[3] = includedFiles
      /\ ~(p[2] > Len(Text(p[1]))) /\ Text(p[1])[p[2]] = f /\ f \notin p[3]
  <2>1. p[1] = NameAt[n] /\ p[2] = At /\ p[3] = includedFiles
    BY <1>4, <1>8
  <2>2. At \in Nat /\ Len(Lines) \in Nat /\ At <= Len(Lines)
    <3>1. p[1] \in Names /\ p[2] \in Nat
      BY <1>8, PointFacts
    <3> QED
      BY <1>1, <1>8, <2>1, <3>1, TextFacts DEF More
  <2> QED
    BY <1>1, <1>8, <2>1, <2>2
<1>10. /\ r \in Points /\ q \in Points
       /\ Expand[p].read = Expand[r].read \o Expand[q].read
       /\ Expand[p].seen = Expand[q].seen
  <2>1. r = <<f, 1, p[3] \cup {f}>>
    BY <1>5, <1>9
  <2>2. q = <<p[1], p[2] + 1, Expand[r].seen>>
    BY <1>2, <1>3, <1>6, <1>9
  <2>3. /\ <<f, 1, p[3] \cup {f}>> \in Points
        /\ <<p[1], p[2] + 1, Expand[<<f, 1, p[3] \cup {f}>>].seen>> \in Points
        /\ Expand[p].read = Expand[<<f, 1, p[3] \cup {f}>>].read
                            \o Expand[<<p[1], p[2] + 1, Expand[<<f, 1, p[3] \cup {f}>>].seen>>].read
        /\ Expand[p].seen = Expand[<<p[1], p[2] + 1, Expand[<<f, 1, p[3] \cup {f}>>].seen>>].seen
    BY <1>1, <1>8, <1>9, AtInclude
  <2> QED
    BY ONLY <2>1, <2>2, <2>3, Zenon
<1>11. /\ Expand[r].seen \subseteq DOMAIN Disk /\ Expand[r].read \in Seq(Statement)
       /\ Expand[q].read \in Seq(Statement) /\ read \in Seq(Statement)
       /\ includedFiles \cup {f} \subseteq DOMAIN Disk
  <2>1. read \in Seq(Statement)
    BY DEF Following
  <2>2. includedFiles \subseteq DOMAIN Disk
    BY DEF Bounded, Stack
  <2> QED
    BY <1>1, <1>10, <2>1, <2>2, PlanTypes
<1>12. \E S2, T2 : Plan(Expand, NameAt', PlaceAt', n + 1, S2, T2, includedFiles \cup {f}, read, Expansion)
  <2>1. PICK name2, at2, whole : name2 = NameAt' /\ at2 = PlaceAt' /\ whole = Expansion
    OBVIOUS
  <2>2. /\ Plan(Expand, NameAt, PlaceAt, n, S, T, includedFiles, read, whole) /\ n \in Nat
        /\ includedFiles \cup {f} \subseteq DOMAIN Disk
        /\ SameUpTo(n, NameAt, PlaceAt, name2, at2)
        /\ name2[n + 1] = f /\ at2[n + 1] = 1
        /\ r = <<f, 1, includedFiles \cup {f}>> /\ q = <<NameAt[n], at2[n], Expand[r].seen>>
        /\ Expand[r].seen \subseteq DOMAIN Disk /\ Expand[r].read \in Seq(Statement)
        /\ Expand[q].read \in Seq(Statement) /\ read \in Seq(Statement)
        /\ Expand[<<NameAt[n], PlaceAt[n], includedFiles>>].read = Expand[r].read \o Expand[q].read
        /\ Expand[<<NameAt[n], PlaceAt[n], includedFiles>>].seen = Expand[q].seen
    BY ONLY <1>2, <1>3, <1>4, <1>5, <1>6, <1>7, <1>8, <1>10, <1>11, <2>1, Zenon
       DEF SameUpTo
  <2>3. \E S2, T2 : Plan(Expand, name2, at2, n + 1, S2, T2, includedFiles \cup {f}, read, whole)
    BY ONLY <2>2, PlanPush
  <2> QED
    BY ONLY <2>1, <2>3, Zenon
<1>13. Expand' = Expand /\ Expansion' = Expansion
  BY <1>1, SameExpand, SameExpansion
<1>14. Len(files') = n + 1
  BY <1>2, <1>3
<1>15. \E S2, T2 : Plan(Expand', NameAt', PlaceAt', Len(files'), S2, T2, includedFiles', read', Expansion')
  BY ONLY <1>1, <1>12, <1>13, <1>14, Zenon
<1> QED
  BY <1>15 DEF Planned

\* PopFile: nothing is left of the topmost file.
LEMMA PopPlan ==
  ASSUME Bounded, Following, PopFile
  PROVE  Planned'
<1>1. /\ phase = "compile" /\ ~More /\ program' = program /\ read' = read
      /\ includedFiles' = includedFiles /\ program \in Programs
  BY DEF PopFile, Bounded, Images
<1>2. /\ Len(files) > 0 /\ Len(files') = Len(files) - 1
      /\ \A k \in 0..Len(files) :
           k < Len(files) => NameAt'[k] = NameAt[k] /\ PlaceAt'[k] = PlaceAt[k]
  BY PopPlaces
<1>3. PICK n : n = Len(files)
  OBVIOUS
<1>4. PICK p : p = <<NameAt[n], PlaceAt[n], includedFiles>>
  OBVIOUS
<1>5. PICK S, T : Plan(Expand, NameAt, PlaceAt, n, S, T, includedFiles, read, Expansion)
  BY <1>1, <1>3 DEF Following, Planned
<1>6. n \in Nat /\ p \in Points /\ Text(NameAt[n]) = Lines /\ PlaceAt[n] = At
  BY <1>3, <1>4, CurrentPlace
<1>7. p[1] = NameAt[n] /\ p[2] = At /\ p[3] = includedFiles
  BY <1>4, <1>6
<1>8. Expand[p] = [read |-> <<>>, seen |-> p[3]]
  <2>1. p[1] \in Names /\ p[2] \in Nat
    BY <1>6, PointFacts
  <2>2. Len(Text(p[1])) \in Nat
    BY <1>1, <2>1, TextFacts
  <2>3. p[2] > Len(Text(p[1]))
    BY <1>1, <1>6, <1>7, <2>1, <2>2 DEF More
  <2> QED
    BY <1>1, <1>6, <2>3, AtEnd
<1>9. \E S2, T2 : Plan(Expand, NameAt', PlaceAt', n - 1, S2, T2, includedFiles, read, Expansion)
  <2>1. PICK name2, at2, whole : name2 = NameAt' /\ at2 = PlaceAt' /\ whole = Expansion
    OBVIOUS
  <2>2. /\ Plan(Expand, NameAt, PlaceAt, n, S, T, includedFiles, read, whole) /\ n \in Nat /\ n > 0
        /\ Expand[<<NameAt[n], PlaceAt[n], includedFiles>>] = [read |-> <<>>, seen |-> includedFiles]
        /\ SameBelow(n, NameAt, PlaceAt, name2, at2)
    BY ONLY <1>2, <1>3, <1>4, <1>5, <1>6, <1>7, <1>8, <2>1, Zenon DEF SameBelow
  <2>3. \E S2, T2 : Plan(Expand, name2, at2, n - 1, S2, T2, includedFiles, read, whole)
    BY ONLY <2>2, PlanPop
  <2> QED
    BY ONLY <2>1, <2>3, Zenon
<1>10. Expand' = Expand /\ Expansion' = Expansion
  BY <1>1, SameExpand, SameExpansion
<1>11. Len(files') = n - 1
  BY <1>2, <1>3
<1>12. \E S2, T2 : Plan(Expand', NameAt', PlaceAt', Len(files'), S2, T2, includedFiles', read', Expansion')
  BY ONLY <1>1, <1>9, <1>10, <1>11, Zenon
<1> QED
  BY <1>12 DEF Planned

\* A statement is read, or an INCLUDE of a file included before is passed over.
LEMMA StatementPlan ==
  ASSUME Bounded, Following, ParseStatement, used < Room
  PROVE  Planned' /\ read' \in Seq(Statement)
<1>1. /\ phase = "compile" /\ More /\ program' = program /\ includedFiles' = includedFiles /\ Advance
      /\ Lines[At] = "statement" /\ program \in Programs /\ read \in Seq(Statement)
      /\ read' = Append(read, <<IF files = <<>> THEN "program" ELSE Top.name, At>>)
  BY DEF ParseStatement, Parsing, Bounded, Images, Following
<1>2. PICK p : p = <<NameAt[Len(files)], PlaceAt[Len(files)], includedFiles>>
  OBVIOUS
<1>3. /\ p \in Points /\ p[1] = NameAt[Len(files)] /\ p[2] = PlaceAt[Len(files)] /\ p[3] = includedFiles
      /\ Text(p[1]) = Lines /\ p[2] = At /\ read' = Append(read, <<p[1], p[2]>>)
      /\ p[1] \in Names /\ p[2] \in Nat
  BY <1>1, <1>2, CurrentPlace, PointFacts
<1>4. ~(p[2] > Len(Text(p[1]))) /\ Text(p[1])[p[2]] = "statement"
  <2>1. Len(Text(p[1])) \in Nat
    BY <1>1, <1>3, TextFacts
  <2> QED
    BY <1>1, <1>3, <2>1 DEF More
<1>5. PICK q : q = <<p[1], p[2] + 1, p[3]>>
  OBVIOUS
<1>6. /\ q \in Points
      /\ Expand[p].read = <<<<p[1], p[2]>>>> \o Expand[q].read
      /\ Expand[p].seen = Expand[q].seen
  BY <1>1, <1>3, <1>4, <1>5, AtStatement
<1>7. PICK x : x = <<p[1], p[2]>> /\ x \in Statement
  <2>1. <<p[1], p[2]>> \in Statement
    BY <1>3 DEF Statement
  <2> QED
    BY ONLY <2>1, Zenon
<1>8. read' = read \o <<x>> /\ read' \in Seq(Statement) /\ <<x>> \in Seq(Statement)
  <2>1. read \in Seq(Statement) /\ read' = Append(read, x)
    BY <1>1, <1>3, <1>7, Zenon
  <2> QED
    <3>1. read \in Seq(Statement) /\ x \in Statement
      BY <1>7, <2>1
    <3>2. Append(read, x) = read \o <<x>> /\ Append(read, x) \in Seq(Statement) /\ <<x>> \in Seq(Statement)
      BY ONLY <3>1, AppendIs
    <3> QED
      BY ONLY <2>1, <3>2, Zenon
<1>9. ASSUME NEW t \in Seq(Statement)
      PROVE  read' \o (Expand[q].read \o t) = read \o (Expand[p].read \o t)
  <2> DEFINE v == Expand[q].read
  <2>1. v \in Seq(Statement)
    BY <1>1, <1>6, PlanTypes
  <2>2. Expand[p].read = <<x>> \o v
    BY <1>6, <1>7
  <2> HIDE DEF v
  <2>3. v \o t \in Seq(Statement)
    BY <2>1, Concatenations
  <2>4. (read \o <<x>>) \o (v \o t) = read \o (<<x>> \o (v \o t))
    BY <1>1, <1>8, <2>3, Concatenations
  <2>5. (<<x>> \o v) \o t = <<x>> \o (v \o t)
    BY <1>8, <2>1, Concatenations
  <2>6. read' \o (v \o t) = read \o (Expand[p].read \o t)
    BY ONLY <1>8, <2>2, <2>4, <2>5, Zenon
  <2> QED
    BY <2>6 DEF v
<1>10. Continues
  BY <1>2, <1>3, <1>5, <1>6, <1>9 DEF Continues
<1> QED
  BY <1>1, <1>8, <1>10, ForwardPlan

LEMMA AgainPlan ==
  ASSUME Bounded, Following, IncludeAgain
  PROVE  Planned'
<1>1. /\ phase = "compile" /\ More /\ program' = program /\ includedFiles' = includedFiles /\ Advance
      /\ Lines[At] \in includedFiles /\ Lines[At] # "statement" /\ program \in Programs /\ read' = read
  BY DEF IncludeAgain, Parsing, Bounded, Images, Following
<1>2. PICK p : p = <<NameAt[Len(files)], PlaceAt[Len(files)], includedFiles>>
  OBVIOUS
<1>3. /\ p \in Points /\ p[1] = NameAt[Len(files)] /\ p[2] = PlaceAt[Len(files)] /\ p[3] = includedFiles
      /\ Text(p[1]) = Lines /\ p[2] = At
      /\ p[1] \in Names /\ p[2] \in Nat
  BY <1>2, CurrentPlace, PointFacts
<1>4. /\ ~(p[2] > Len(Text(p[1]))) /\ Text(p[1])[p[2]] \in p[3] /\ Text(p[1])[p[2]] # "statement"
  <2>1. Len(Text(p[1])) \in Nat
    BY <1>1, <1>3, TextFacts
  <2> QED
    BY <1>1, <1>3, <2>1 DEF More
<1>5. PICK q : q = <<p[1], p[2] + 1, p[3]>>
  OBVIOUS
<1>6. Expand[p].read = Expand[q].read /\ Expand[p].seen = Expand[q].seen
  BY <1>1, <1>3, <1>4, <1>5, AtSeen
<1>7. Continues
  BY <1>1, <1>2, <1>3, <1>5, <1>6 DEF Continues
<1> QED
  BY <1>1, <1>7, ForwardPlan

\* compileProgram starts with the whole program before it.
LEMMA StartPlan ==
  ASSUME files' = <<>>, includedFiles' = {}, read' = <<>>, position' = 1, program' = program,
         program \in Programs
  PROVE  Planned'
<1> DEFINE S == [k \in 0..0 |-> {}]
           T == [k \in 0..0 |-> <<>>]
           p == <<"program", 1, {}>>
<1>1. Expand' = Expand /\ Expansion' = Expansion
  BY SameExpand, SameExpansion
<1>2. Len(files') = 0 /\ NameAt'[0] = "program" /\ PlaceAt'[0] = 1
  BY DEF NameAt, PlaceAt
<1>3. p \in Points
  BY DEF Points, Names
<1>4. Expand[p].read \in Seq(Statement)
  BY <1>3, ExpandType DEF Result, Statement
<1>5. <<>> \o (Expand[p].read \o <<>>) = Expand[p].read
  BY <1>4
<1>6. Plan(Expand, NameAt', PlaceAt', 0, S, T, {}, <<>>, Expansion)
  <2>1. S \in [0..0 -> SUBSET DOMAIN Disk] /\ S[0] = {} /\ T \in [0..0 -> Seq(Statement)] /\ T[0] = <<>>
    OBVIOUS
  <2>2. 1..0 = {}
    OBVIOUS
  <2>3. <<>> \o (Expand[<<NameAt'[0], PlaceAt'[0], {}>>].read \o T[0]) = Expansion
    BY <1>2, <1>5, <2>1 DEF Expansion
  <2> HIDE DEF S, T
  <2> QED
    BY <2>1, <2>2, <2>3 DEF Plan
<1>7. Plan(Expand', NameAt', PlaceAt', Len(files'), S, T, includedFiles', read', Expansion')
  BY ONLY <1>1, <1>2, <1>6, files' = <<>>, includedFiles' = {}, read' = <<>>, Zenon
<1> QED
  BY <1>7 DEF Planned

\* At the end of the program nothing is left.
LEMMA PlanDone ==
  ASSUME Bounded, Following, CompileEnds
  PROVE  read' = Expansion'
<1>1. /\ phase = "compile" /\ ~More /\ files = <<>> /\ program' = program /\ read' = read
      /\ program \in Programs /\ read \in Seq(Statement)
  BY DEF CompileEnds, Bounded, Images, Following, compileVars
<1>2. PICK p : p = <<NameAt[0], PlaceAt[0], includedFiles>>
  OBVIOUS
<1>3. Len(files) = 0
  BY <1>1
<1>4. PICK S, T : Plan(Expand, NameAt, PlaceAt, 0, S, T, includedFiles, read, Expansion)
  BY <1>1, <1>3 DEF Following, Planned
<1>5. /\ p \in Points /\ p[1] = NameAt[0] /\ p[2] = At /\ Text(p[1]) = Lines
      /\ p[1] \in Names /\ p[2] \in Nat
  BY <1>2, <1>3, CurrentPlace, PointFacts
<1>6. p[2] > Len(Text(p[1]))
  <2>1. Len(Text(p[1])) \in Nat
    BY <1>1, <1>5, TextFacts
  <2> QED
    BY <1>1, <1>5, <2>1 DEF More
<1>7. Expand[p].read = <<>>
  <2>1. Expand[p] = [read |-> <<>>, seen |-> p[3]]
    BY <1>1, <1>5, <1>6, AtEnd
  <2> QED
    BY <2>1, Fields
<1>8. read \o (<<>> \o <<>>) = Expansion
  BY <1>2, <1>4, <1>7 DEF Plan
<1>9. read = Expansion
  BY <1>1, <1>8
<1> QED
  BY <1>1, <1>9, SameExpansion

LEMMA IdleFollowing ==
  ASSUME Following, UNCHANGED <<includedFiles, read>>, phase' # "compile",
         phase' # "use" \/ failed' = "now"
  PROVE  Following'
BY DEF Following

LEMMA CompilingFollowing == Bounded /\ Following /\ Compiling => Following'
<1> SUFFICES ASSUME Bounded, Following, Compiling PROVE Following'
  OBVIOUS
<1>0. read \in Seq(Statement) /\ "statement" \notin includedFiles /\ program \in Programs
  BY DEF Following, Bounded, Images
<1>1. CASE CompileProgram
  <2>1. CASE Room < ContextSize
    BY <1>1, <2>1, IdleFollowing DEF CompileProgram, Jump, compileVars
  <2>2. CASE ~(Room < ContextSize)
    <3>1. /\ files' = <<>> /\ includedFiles' = {} /\ read' = <<>> /\ position' = 1
          /\ program' = program /\ phase' = "compile"
      BY <1>1, <2>2 DEF CompileProgram
    <3>2. Planned'
      BY <1>0, <3>1, StartPlan
    <3>3. read' \in Seq(Statement)
      BY <3>1
    <3> QED
      BY <3>1, <3>2, <3>3 DEF Following
  <2> QED
    BY <2>1, <2>2
<1>2. CASE ParseStatement
  <2>1. CASE used < Room
    <3>1. Planned' /\ read' \in Seq(Statement)
      BY <1>2, <2>1, StatementPlan
    <3>2. phase' = "compile" /\ includedFiles' = includedFiles
      BY <1>2, <2>1 DEF ParseStatement, Parsing
    <3> QED
      BY <1>0, <3>1, <3>2 DEF Following
  <2>2. CASE ~(used < Room)
    BY <1>2, <2>2, IdleFollowing DEF ParseStatement, OutOfMemory, Jump
  <2> QED
    BY <2>1, <2>2
<1>3. CASE ParseError
  BY <1>3, IdleFollowing DEF ParseError, Jump, compileVars
<1>4. CASE IncludeAgain
  <2>1. Planned'
    BY <1>4, AgainPlan
  <2>2. phase' = "compile" /\ UNCHANGED <<includedFiles, read>>
    BY <1>4 DEF IncludeAgain, Parsing
  <2> QED
    BY <1>0, <2>1, <2>2 DEF Following
<1>5. ASSUME NEW f \in FileNames, PushFile(f) PROVE Following'
  <2>1. Planned'
    BY <1>5, PushPlan
  <2>2. phase' = "compile" /\ read' = read /\ includedFiles' = includedFiles \cup {f} /\ f # "statement"
    BY <1>5 DEF PushFile, Parsing
  <2> QED
    BY <1>0, <2>1, <2>2 DEF Following
<1>6. ASSUME NEW f \in FileNames, PushFileFails(f) PROVE Following'
  BY <1>6, IdleFollowing DEF PushFileFails, Jump, compileVars
<1>7. CASE PopFile
  <2>1. Planned'
    BY <1>7, PopPlan
  <2>2. phase' = "compile" /\ UNCHANGED <<includedFiles, read>>
    BY <1>7 DEF PopFile
  <2> QED
    BY <1>0, <2>1, <2>2 DEF Following
<1>8. CASE CompileEnds
  <2>1. read' = Expansion'
    BY <1>8, PlanDone
  <2>2. phase' # "compile" /\ UNCHANGED <<includedFiles, read>>
    BY <1>8 DEF CompileEnds, OutOfMemory, Jump, compileVars
  <2> QED
    BY <1>0, <2>1, <2>2 DEF Following
<1>9. CASE Use \/ Write \/ UseGarbage \/ Restore
  <2>1. UNCHANGED <<includedFiles, read>> /\ phase' \notin {"compile", "use"}
    BY <1>9 DEF Use, Write, UseGarbage, Restore, compileVars
  <2> QED
    BY <2>1, IdleFollowing
<1> QED
  BY <1>1, <1>2, <1>3, <1>4, <1>5, <1>6, <1>7, <1>8, <1>9 DEF Compiling

LEMMA CommandsFollowing == Bounded /\ Following /\ Commands => Following'
<1> SUFFICES ASSUME Following, Commands PROVE Following'
  OBVIOUS
<1>1. UNCHANGED <<includedFiles, read>> /\ phase' \notin {"compile", "use"}
  BY DEF Commands, Edit, DoRunOrDump, DoSaveBin, DoRunBin, Start, compileVars
<1> QED
  BY <1>1, IdleFollowing

LEMMA HaltFollowing == Following /\ Halt => Following'
<1> SUFFICES ASSUME Following, Halt PROVE Following'
  OBVIOUS
<1>1. UNCHANGED <<includedFiles, read>> /\ phase' \notin {"compile", "use"}
  BY DEF Halt, compileVars
<1> QED
  BY <1>1, IdleFollowing

LEMMA NextFollowing == Bounded /\ Following /\ [Next]_vars => Following'
<1> SUFFICES ASSUME Bounded, Following, [Next]_vars PROVE Following'
  OBVIOUS
<1>1. CASE Next
  BY <1>1, CommandsFollowing, CompilingFollowing, HaltFollowing DEF Next
<1>2. CASE UNCHANGED vars
  <2>1. /\ UNCHANGED <<includedFiles, read, phase, failed, program>>
        /\ NameAt' = NameAt /\ PlaceAt' = PlaceAt /\ Len(files') = Len(files)
    BY <1>2 DEF vars, compileVars, NameAt, PlaceAt
  <2>2. Expand' = Expand /\ Expansion' = Expansion
    BY <2>1, SameExpand, SameExpansion
  <2>3. Planned' = Planned
    BY <2>1, <2>2 DEF Planned
  <2> QED
    BY <2>1, <2>2, <2>3 DEF Following
<1> QED
  BY <1>1, <1>2

LEMMA InitFollowing == Init => Following
BY DEF Init, Following

LEMMA PrefixOf ==
  ASSUME NEW A, NEW u \in Seq(A), NEW v \in Seq(A)
  PROVE  IsPrefix(u, u \o v)
<1> DEFINE w == u \o v
<1>1. Len(u) \in Nat /\ Len(u) <= Len(w) /\ \A i \in 1..Len(u) : w[i] = u[i]
  OBVIOUS
<1>2. SubSeq(u, 1, Len(u)) = SubSeq(w, 1, Len(u))
  OBVIOUS
<1> QED
  BY <1>1, <1>2 DEF IsPrefix

LEMMA FollowingReads == Bounded /\ Following => ReadsExpansion
<1> SUFFICES ASSUME Bounded, Following PROVE ReadsExpansion
  OBVIOUS
<1>1. ASSUME phase = "compile" PROVE IsPrefix(read, Expansion)
  <2>1. PICK n, p : n = Len(files) /\ p = <<NameAt[n], PlaceAt[n], includedFiles>>
    OBVIOUS
  <2>2. PICK S, T : Plan(Expand, NameAt, PlaceAt, n, S, T, includedFiles, read, Expansion)
    BY <1>1, <2>1 DEF Following, Planned
  <2>3. n \in Nat /\ n \in 0..n /\ p \in Points
    BY <2>1, CurrentPlace
  <2>4. T[n] \in Seq(Statement) /\ read \o (Expand[p].read \o T[n]) = Expansion
    BY <2>1, <2>2, <2>3 DEF Plan
  <2>5. Expand[p].read \in Seq(Statement) /\ read \in Seq(Statement)
    BY <2>3, PlanTypes DEF Following
  <2>6. Expand[p].read \o T[n] \in Seq(Statement)
    BY <2>4, <2>5, Concatenations
  <2>7. IsPrefix(read, read \o (Expand[p].read \o T[n]))
    BY <2>5, <2>6, PrefixOf
  <2> QED
    BY <2>4, <2>7
<1> QED
  BY <1>1 DEF ReadsExpansion, Following

\* ParseGetLine, PushFile and the list of names read the program with its
\* include files in place, each once, whatever files include each other; a
\* compilation without an error has read all of it.
THEOREM ReadsRight == Spec => []ReadsExpansion
<1>1. Init => Bounded /\ Following
  BY InitBounded, InitFollowing
<1>2. Bounded /\ Following /\ [Next]_vars => (Bounded /\ Following)'
  BY NextBounded, NextFollowing
<1> QED
  BY <1>1, <1>2, FollowingReads, PTL DEF Spec
=============================================================================
