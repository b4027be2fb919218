-------------------------- MODULE EditMemory_proofs --------------------------
(***************************************************************************)
(* The words of the workspace implement the records of module EditBuffer,  *)
(* for every workspace, every set of numbers and texts, every size of      *)
(* code: after any sequence of edits the walk that begins at `buffer'      *)
(* meets the records it should, and the words of each hold what they       *)
(* should.  What EditBuffer promises holds of the words, then, and         *)
(* ProgramText is what a user sees of them.                                *)
(***************************************************************************)
EXTENDS EditMemory, Induction, FiniteSetTheorems, TLAPS

\* The theorems about EditBuffer, said of the records in memory.
R == INSTANCE EditBuffer_proofs
       WITH lines <- Records, file <- <<>>, rest <- <<>>,
            number <- FirstNumber, Files <- {<<>>}

\* What they assume of the constants.
LEMMA Assumed ==
  /\ FreeSpace \in Nat /\ BufferTop \in Nat /\ FreeSpace <= BufferTop
  /\ Numbers \subseteq Nat /\ StrLen \in [Texts -> Nat]
  /\ {<<>>} \subseteq Seq(Texts)
  /\ ContextSize \in Nat /\ TreeSizes \subseteq Nat /\ CodeSizes \subseteq Nat
BY MemoryAssumption

-----------------------------------------------------------------------------
(***************************************************************************)
(* The walks.  S is the set of addresses of the records that tile the      *)
(* buffer; a walk from `buffer' meets these and no other.                  *)
(***************************************************************************)
Tiles(S) ==
  /\ buffer \in S \cup {BufferTop}
  /\ \A p \in S : /\ buffer <= p
                  /\ Length(p) \in Nat
                  /\ Length(p) > 0
                  /\ p + Length(p) \in S \cup {BufferTop}
  /\ \A p, q \in S : p < q => p + Length(p) <= q

LEMMA PlaceFacts ==
  /\ BufferTop \in Int
  /\ \A p \in Places : /\ p \in Int /\ p <= BufferTop
                       /\ p \in Words <=> p < BufferTop
                       /\ BufferTop - p \in Nat
BY MemoryAssumption DEF Places, Words

LEMMA BehindIs ==
  ASSUME NEW S \in SUBSET Words, Tiles(S), NEW p \in S
  PROVE  LeadsOn(p) /\ Behind(p) = p + Length(p) /\ Behind(p) \in S \cup {BufferTop}
         /\ p < Behind(p)
<1>1. p + Length(p) \in Places /\ p < p + Length(p) /\ Length(p) = (p + Length(p)) - p
  BY PlaceFacts DEF Tiles, Places
<1>2. LeadsOn(p)
  BY <1>1 DEF LeadsOn
<1> QED
  BY <1>1, <1>2 DEF Behind, Tiles

LEMMA BehindType ==
  ASSUME NEW p \in Places, p < BufferTop
  PROVE  Behind(p) \in Places /\ p < Behind(p)
<1>1. CASE LeadsOn(p)
  <2>1. PICK q \in Places : p < q /\ Length(p) = q - p
    BY <1>1 DEF LeadsOn
  <2>2. p + Length(p) = q
    BY <2>1, PlaceFacts
  <2> QED
    BY <1>1, <2>1, <2>2 DEF Behind
<1>2. CASE ~LeadsOn(p)
  BY <1>2 DEF Behind, Places
<1> QED
  BY <1>1, <1>2

\* Induction from the end of the buffer down, record by record.
LEMMA FromTheEnd ==
  ASSUME NEW S \in SUBSET Words, Tiles(S),
         NEW G, BufferTop \in G, \A p \in S : p + Length(p) \in G => p \in G
  PROVE  S \cup {BufferTop} \subseteq G
<1> DEFINE H == {n \in Nat : \A p \in S : BufferTop - p = n => p \in G}
<1>1. S \subseteq Places
  BY DEF Places
<1>2. ASSUME NEW n \in Nat, \A k \in Nat : k < n => k \in H PROVE n \in H
  <2> SUFFICES ASSUME NEW p \in S, BufferTop - p = n PROVE p \in G
    OBVIOUS
  <2>1. CASE p + Length(p) = BufferTop
    BY <2>1
  <2>2. CASE p + Length(p) \in S
    <3> DEFINE q == p + Length(p)
               k == BufferTop - q
    <3>1. q \in Int /\ p \in Int /\ BufferTop \in Int /\ q <= BufferTop /\ p < q
      BY <1>1, <2>2, PlaceFacts DEF Tiles
    <3>2. k \in Nat /\ k < n
      BY <3>1
    <3>3. k \in H
      BY <1>2, <3>2
    <3>4. q \in G
      BY <2>2, <3>3
    <3> QED
      BY <3>4
  <2> QED
    BY <2>1, <2>2 DEF Tiles
<1>3. Nat \subseteq H
  <2> HIDE DEF H
  <2> QED
    BY <1>2, InductBelow
<1>4. ASSUME NEW p \in S PROVE p \in G
  <2>1. BufferTop - p \in Nat
    BY <1>1, PlaceFacts
  <2>2. BufferTop - p \in H
    BY <2>1, <1>3
  <2> QED
    BY <2>2
<1> QED
  BY <1>4

(***************************************************************************)
(* A walk defines a function: it goes up.  Step(f, p) is what it does at p *)
(* when f says what it does behind p.                                      *)
(***************************************************************************)
LEMMA WalkExists ==
  ASSUME NEW V, V # {}, NEW F \in [[Places -> V] -> [Places -> V]],
         \A f, g \in [Places -> V], p \in Places :
           (p < BufferTop => f[Behind(p)] = g[Behind(p)]) => F[f][p] = F[g][p]
  PROVE  \E f \in [Places -> V] : F[f] = f
<1> DEFINE m == [p \in Places |-> BufferTop - p]
<1>1. m \in [Places -> Nat] /\ \A p \in Places : m[p] = BufferTop - p
  BY PlaceFacts
<1>2. ASSUME NEW f \in [Places -> V], NEW g \in [Places -> V], NEW p \in Places,
             \A q \in Places : m[q] < m[p] => f[q] = g[q]
      PROVE  F[f][p] = F[g][p]
  <2>1. ASSUME p < BufferTop PROVE f[Behind(p)] = g[Behind(p)]
    <3>1. Behind(p) \in Places /\ p < Behind(p)
      BY <2>1, BehindType
    <3>2. BufferTop - Behind(p) < BufferTop - p
      BY <3>1, PlaceFacts
    <3>3. m[Behind(p)] < m[p]
      <4> HIDE DEF m
      <4> QED
        BY <1>1, <3>1, <3>2
    <3> QED
      BY <1>2, <3>1, <3>3
  <2> QED
    BY <2>1
<1>3. Descending(Places, V, m, F)
  <2> HIDE DEF m
  <2> QED
    BY <1>1, <1>2 DEF Descending
<1> HIDE DEF m
<1> QED
  BY ONLY <1>3, Recursion

LEMMA VisitedUnfolds ==
  \E w : /\ w = [p \in Places |-> IF p >= BufferTop THEN {} ELSE {p} \cup w[Behind(p)]]
         /\ Visited = w[buffer]
<1> DEFINE V == SUBSET Words
           F == [f \in [Places -> V] |->
                  [p \in Places |-> IF p >= BufferTop THEN {} ELSE {p} \cup f[Behind(p)]]]
           w == CHOOSE w : w = [p \in Places |-> IF p >= BufferTop THEN {}
                                                 ELSE {p} \cup w[Behind(p)]]
<1>1. ASSUME NEW f \in [Places -> V] PROVE F[f] \in [Places -> V]
  <2>1. ASSUME NEW p \in Places, ~(p >= BufferTop) PROVE {p} \cup f[Behind(p)] \in V
    <3>1. p \in Words /\ p < BufferTop
      BY <2>1, PlaceFacts
    <3>2. Behind(p) \in Places
      BY <3>1, BehindType
    <3> QED
      BY <3>1, <3>2
  <2> QED
    BY <2>1
<1>2. F \in [[Places -> V] -> [Places -> V]]
  BY <1>1
<1>3. \A f, g \in [Places -> V], p \in Places :
        (p < BufferTop => f[Behind(p)] = g[Behind(p)]) => F[f][p] = F[g][p]
  <2> SUFFICES ASSUME NEW f \in [Places -> V], NEW g \in [Places -> V], NEW p \in Places,
                      p < BufferTop => f[Behind(p)] = g[Behind(p)]
               PROVE  F[f][p] = F[g][p]
    OBVIOUS
  <2>1. p >= BufferTop \/ p < BufferTop
    BY PlaceFacts
  <2> QED
    BY <2>1
<1>4. PICK g \in [Places -> V] : F[g] = g
  <2> HIDE DEF F
  <2>1. V # {}
    OBVIOUS
  <2> HIDE DEF V
  <2> QED
    BY <1>2, <1>3, <2>1, WalkExists
<1>5. g = [p \in Places |-> IF p >= BufferTop THEN {} ELSE {p} \cup g[Behind(p)]]
  BY <1>4
<1>6. w = [p \in Places |-> IF p >= BufferTop THEN {} ELSE {p} \cup w[Behind(p)]]
  BY <1>5
<1>7. Visited = w[buffer]
  BY DEF Visited
<1> QED
  BY <1>6, <1>7

(***************************************************************************)
(* A walk from `buffer' meets the records that tile the buffer.            *)
(***************************************************************************)
MeetsTiles == \A S \in SUBSET Words : Tiles(S) => Visited = S

LEMMA VisitedIs == MeetsTiles
<1> SUFFICES ASSUME NEW S \in SUBSET Words, Tiles(S) PROVE Visited = S
  BY DEF MeetsTiles
<1>1. PICK w : /\ w = [p \in Places |-> IF p >= BufferTop THEN {} ELSE {p} \cup w[Behind(p)]]
               /\ Visited = w[buffer]
  BY VisitedUnfolds
<1> DEFINE From(p) == {q \in S : p <= q}
           G == {p \in Places : w[p] = From(p)}
<1>2. \A p \in S : p \in Places /\ p \in Int /\ p < BufferTop
  BY PlaceFacts DEF Places
<1>3. BufferTop \in G
  <2>1. BufferTop \in Places /\ w[BufferTop] = {}
    BY <1>1, PlaceFacts DEF Places
  <2>2. From(BufferTop) = {}
    BY <1>2, PlaceFacts
  <2> QED
    BY <2>1, <2>2
<1>4. ASSUME NEW p \in S, p + Length(p) \in G PROVE p \in G
  <2> DEFINE b == p + Length(p)
  <2>1. Behind(p) = b /\ b \in S \cup {BufferTop} /\ p < b
    BY BehindIs
  <2>2. w[p] = {p} \cup w[b]
    <3>1. p \in Places /\ ~(p >= BufferTop)
      BY <1>2, PlaceFacts
    <3>2. w[p] = {p} \cup w[Behind(p)]
      BY <1>1, <3>1
    <3> QED
      BY <3>2, <2>1
  <2>3. b \in Int /\ p \in Int /\ \A q \in S : q \in Int
    BY <1>2, <2>1, PlaceFacts
  <2>4. \A q \in S : p < q => b <= q
    BY DEF Tiles
  <2>5. From(p) = {p} \cup From(b)
    <3>1. \A q \in S : p <= q <=> q = p \/ b <= q
      <4> HIDE DEF b
      <4> QED
        BY <2>1, <2>3, <2>4
    <3> HIDE DEF b
    <3> QED
      BY <3>1
  <2> QED
    BY <1>2, <1>4, <2>2, <2>5
<1>5. S \cup {BufferTop} \subseteq G
  <2> HIDE DEF G
  <2> QED
    BY <1>3, <1>4, FromTheEnd
<1>6. w[buffer] = From(buffer)
  BY <1>5 DEF Tiles
<1>7. From(buffer) = S
  BY DEF Tiles
<1> QED
  BY <1>1, <1>6, <1>7

\* The same in the next state.
LEMMA VisitedIsNext == MeetsTiles'
BY VisitedIs, PTL

(***************************************************************************)
(* FindLineN stops at the lowest record with a number that is not less, or *)
(* at the end.                                                             *)
(***************************************************************************)
Stops(S, n, p, at) ==
  /\ at \in S \cup {BufferTop}
  /\ p <= at
  /\ \A q \in S : p <= q /\ q < at => ~(n <= LineNumber(q))
  /\ at \in S => n <= LineNumber(at)

LEMMA FindLineNUnfolds ==
  ASSUME NEW n
  PROVE  \E w : /\ w = [p \in Places |-> IF p >= BufferTop THEN p
                                         ELSE IF n <= LineNumber(p) THEN p
                                         ELSE w[Behind(p)]]
                /\ FindLineN(n) = w[buffer]
<1> DEFINE V == Places
           F == [f \in [Places -> V] |->
                  [p \in Places |-> IF p >= BufferTop THEN p
                                    ELSE IF n <= LineNumber(p) THEN p
                                    ELSE f[Behind(p)]]]
           w == CHOOSE w : w = [p \in Places |-> IF p >= BufferTop THEN p
                                                 ELSE IF n <= LineNumber(p) THEN p
                                                 ELSE w[Behind(p)]]
<1>1. ASSUME NEW f \in [Places -> V] PROVE F[f] \in [Places -> V]
  <2>1. \A p \in Places : ~(p >= BufferTop) => f[Behind(p)] \in V
    BY BehindType, PlaceFacts
  <2> QED
    BY <2>1
<1>2. F \in [[Places -> V] -> [Places -> V]]
  BY <1>1
<1>3. \A f, g \in [Places -> V], p \in Places :
        (p < BufferTop => f[Behind(p)] = g[Behind(p)]) => F[f][p] = F[g][p]
  <2> SUFFICES ASSUME NEW f \in [Places -> V], NEW g \in [Places -> V], NEW p \in Places,
                      p < BufferTop => f[Behind(p)] = g[Behind(p)]
               PROVE  F[f][p] = F[g][p]
    OBVIOUS
  <2>1. p >= BufferTop \/ p < BufferTop
    BY PlaceFacts
  <2> QED
    BY <2>1
<1>4. PICK g \in [Places -> V] : F[g] = g
  <2> HIDE DEF F
  <2>1. V # {}
    BY DEF Places
  <2> HIDE DEF V
  <2> QED
    BY <1>2, <1>3, <2>1, WalkExists
<1>5. g = [p \in Places |-> IF p >= BufferTop THEN p
                            ELSE IF n <= LineNumber(p) THEN p
                            ELSE g[Behind(p)]]
  BY <1>4
<1>6. w = [p \in Places |-> IF p >= BufferTop THEN p
                            ELSE IF n <= LineNumber(p) THEN p
                            ELSE w[Behind(p)]]
  BY <1>5
<1>7. FindLineN(n) = w[buffer]
  BY DEF FindLineN
<1> QED
  BY <1>6, <1>7

LEMMA FindLineNStops ==
  ASSUME NEW S \in SUBSET Words, Tiles(S), NEW n
  PROVE  Stops(S, n, buffer, FindLineN(n))
<1>1. PICK w : /\ w = [p \in Places |-> IF p >= BufferTop THEN p
                                        ELSE IF n <= LineNumber(p) THEN p
                                        ELSE w[Behind(p)]]
               /\ FindLineN(n) = w[buffer]
  BY FindLineNUnfolds
<1> DEFINE G == {p \in Places : Stops(S, n, p, w[p])}
<1>2. \A p \in S : p \in Places /\ p \in Int /\ p < BufferTop
  BY PlaceFacts DEF Places
<1>3. BufferTop \in G
  <2>1. BufferTop \in Places /\ w[BufferTop] = BufferTop
    BY <1>1, PlaceFacts DEF Places
  <2> QED
    BY <1>2, <2>1, PlaceFacts DEF Stops
<1>4. ASSUME NEW p \in S, p + Length(p) \in G PROVE p \in G
  <2> DEFINE b == p + Length(p)
  <2>1. Behind(p) = b /\ b \in S \cup {BufferTop} /\ p < b
    BY BehindIs
  <2>2. w[p] = IF n <= LineNumber(p) THEN p ELSE w[b]
    <3>1. p \in Places /\ ~(p >= BufferTop)
      BY <1>2, PlaceFacts
    <3>2. w[p] = IF n <= LineNumber(p) THEN p ELSE w[Behind(p)]
      BY <1>1, <3>1
    <3> QED
      BY <3>2, <2>1
  <2>3. b \in Int /\ p \in Int /\ \A q \in S : q \in Int
    BY <1>2, <2>1, PlaceFacts
  <2>4. \A q \in S : p < q => b <= q
    BY DEF Tiles
  <2>5. Stops(S, n, b, w[b])
    BY <1>4
  <2> HIDE DEF b
  <2>6. CASE n <= LineNumber(p)
    <3>1. w[p] = p
      BY <2>2, <2>6
    <3>2. \A q \in S : ~(p <= q /\ q < p)
      BY <2>3
    <3>3. Stops(S, n, p, p)
      BY <2>3, <2>6, <3>2 DEF Stops
    <3> QED
      BY <1>2, <3>1, <3>3
  <2>7. CASE ~(n <= LineNumber(p))
    <3>1. w[p] = w[b]
      BY <2>2, <2>7
    <3>2. w[b] \in S \cup {BufferTop} /\ b <= w[b] /\ w[b] \in Int
      BY <2>5, <2>3, PlaceFacts DEF Stops
    <3>3. \A q \in S : p <= q => q = p \/ b <= q
      BY <2>3, <2>4
    <3>4. p <= w[b]
      BY <2>1, <2>3, <3>2
    <3>5. ASSUME NEW q \in S, p <= q, q < w[b] PROVE ~(n <= LineNumber(q))
      <4>1. CASE q = p
        BY <2>7, <4>1
      <4>2. CASE b <= q
        BY <2>5, <3>5, <4>2 DEF Stops
      <4> QED
        BY <3>3, <3>5, <4>1, <4>2
    <3>6. w[b] \in S => n <= LineNumber(w[b])
      BY <2>5 DEF Stops
    <3>7. Stops(S, n, p, w[b])
      BY <3>2, <3>4, <3>5, <3>6 DEF Stops
    <3> QED
      BY <1>2, <3>1, <3>7
  <2> QED
    BY <2>6, <2>7
<1>5. S \cup {BufferTop} \subseteq G
  <2> HIDE DEF G
  <2> QED
    BY <1>3, <1>4, FromTheEnd
<1>6. Stops(S, n, buffer, w[buffer])
  BY <1>5 DEF Tiles
<1> QED
  BY <1>1, <1>6

-----------------------------------------------------------------------------
(***************************************************************************)
(* Words and the records in them.                                          *)
(***************************************************************************)
LEMMA WordAt ==
  \A a \in Int : a \in Words <=> FreeSpace <= a /\ a < BufferTop /\ a % 4 = 0
BY MemoryAssumption DEF Words, WordSize

LEMMA Multiples ==
  \A a, b \in Int : a % 4 = 0 /\ b % 4 = 0 => (a + b) % 4 = 0 /\ (a - b) % 4 = 0
OBVIOUS

\* What a record with text t takes, and that its text fits in.
LEMMA LengthOf ==
  ASSUME NEW t \in Texts
  PROVE  /\ Align(SizeofLine + StrLen[t]) = R!LineLength(t)
         /\ StrLen[t] \in Nat
         /\ R!LineLength(t) \in Nat
         /\ R!LineLength(t) % 4 = 0
         /\ R!LineLength(t) >= 12 + StrLen[t]
<1>1. StrLen[t] \in Nat
  BY MemoryAssumption
<1>2. \A n \in Nat : LET k == 4 * ((n + 3) \div 4)
                     IN k \in Nat /\ k % 4 = 0 /\ k >= n
  OBVIOUS
<1> DEFINE n == 12 + StrLen[t]
           k == 4 * ((n + 3) \div 4)
<1>3. n \in Nat /\ n + 4 - 1 = n + 3
  BY <1>1
<1>4. k \in Nat /\ k % 4 = 0 /\ k >= n
  BY <1>2, <1>3
<1>5. R!LineLength(t) = k
  BY DEF R!LineLength, R!Align, R!SizeofLine
<1>6. Align(SizeofLine + StrLen[t]) = k
  BY <1>3 DEF Align, SizeofLine, WordSize
<1> QED
  BY <1>1, <1>4, <1>5, <1>6

(***************************************************************************)
(* The inductive invariant: the walk meets what looks like records, and    *)
(* these are as EditBuffer has them.                                       *)
(***************************************************************************)
MInv == TypeOK /\ R!IInv

LEMMA RecordFacts ==
  ASSUME MInv
  PROVE  \A p \in Visited : /\ RecordAt(p) \in Records
                            /\ p \in Words /\ p \in Nat /\ p % 4 = 0
                            /\ p + 4 \in Words /\ p + 8 \in Words
                            /\ LineNumber(p) \in Nat
                            /\ Text(p) \in Texts
                            /\ Length(p) \in Nat
                            /\ Length(p) = R!LineLength(Text(p))
                            /\ Length(p) >= 12
                            /\ Length(p) % 4 = 0
                            /\ buffer <= p
                            /\ p + Length(p) <= BufferTop
<1> SUFFICES ASSUME NEW p \in Visited
             PROVE  /\ RecordAt(p) \in Records
                    /\ p \in Words /\ p \in Nat /\ p % 4 = 0
                    /\ p + 4 \in Words /\ p + 8 \in Words
                    /\ LineNumber(p) \in Nat
                    /\ Text(p) \in Texts
                    /\ Length(p) \in Nat
                    /\ Length(p) = R!LineLength(Text(p))
                    /\ Length(p) >= 12
                    /\ Length(p) % 4 = 0
                    /\ buffer <= p
                    /\ p + Length(p) <= BufferTop
  OBVIOUS
<1>1. p \in Words /\ LineNumber(p) \in Nat /\ Text(p) \in Texts
  BY DEF MInv, TypeOK
<1>2. FreeSpace \in Nat /\ BufferTop \in Nat
  BY MemoryAssumption
<1>3. p \in Nat /\ p % 4 = 0 /\ FreeSpace <= p
  BY <1>1, <1>2 DEF Words, WordSize
<1>4. RecordAt(p) \in Records
  BY DEF Records
<1>5. /\ RecordAt(p).addr = p /\ RecordAt(p).num = LineNumber(p)
      /\ RecordAt(p).len = Length(p) /\ RecordAt(p).text = Text(p)
  BY DEF RecordAt
<1>6. R!InBuffer
  BY DEF MInv, R!IInv, R!Layout
<1>7. Length(p) = R!LineLength(Text(p)) /\ buffer <= p /\ p + Length(p) <= BufferTop
  BY <1>4, <1>5, <1>6 DEF R!InBuffer
<1>8. Length(p) \in Nat /\ Length(p) % 4 = 0 /\ Length(p) >= 12
  BY <1>1, <1>7, LengthOf
<1>9. p + 4 < BufferTop /\ p + 8 < BufferTop /\ (p + 4) % 4 = 0 /\ (p + 8) % 4 = 0
  BY <1>2, <1>3, <1>7, <1>8
<1>10. p + 4 \in Words /\ p + 8 \in Words
  BY <1>2, <1>3, <1>9, WordAt
<1> QED
  BY <1>1, <1>3, <1>4, <1>7, <1>8, <1>10

LEMMA BufferFacts ==
  ASSUME MInv
  PROVE  /\ Visited \in SUBSET Words
         /\ Tiles(Visited)
         /\ buffer \in Nat /\ buffer % 4 = 0
         /\ FreeSpace <= buffer /\ buffer <= BufferTop
         /\ nextLow \in Nat /\ FreeSpace <= nextLow
         /\ BufferTop \in Nat /\ BufferTop % 4 = 0 /\ FreeSpace \in Nat
         /\ DOMAIN mem = Words
         /\ IsFiniteSet(Visited)
<1>1. Visited \in SUBSET Words /\ buffer \in Places /\ DOMAIN mem = Words
  BY DEF MInv, TypeOK
<1>2. BufferTop \in Nat /\ BufferTop % 4 = 0 /\ FreeSpace \in Nat /\ FreeSpace <= BufferTop
  BY MemoryAssumption
<1>3. buffer \in Nat /\ buffer % 4 = 0 /\ FreeSpace <= buffer /\ buffer <= BufferTop
  BY <1>1, <1>2 DEF Places, Words, WordSize
<1>4. nextLow \in Nat /\ FreeSpace <= nextLow
  BY DEF MInv, TypeOK, R!IInv, R!HeapBelowBuffer
<1>5. R!Packed /\ R!Ordered
  BY DEF MInv, R!IInv, R!Layout
<1>6. \A a : R!IsBoundary(a) => a \in Visited \cup {BufferTop}
  <2> SUFFICES ASSUME NEW a, R!IsBoundary(a), a # BufferTop PROVE a \in Visited
    OBVIOUS
  <2>1. PICK l \in Records : l.addr = a
    BY DEF R!IsBoundary
  <2>2. PICK p \in Visited : l = RecordAt(p)
    BY DEF Records
  <2> QED
    BY <2>1, <2>2 DEF RecordAt
<1>7. buffer \in Visited \cup {BufferTop}
  BY <1>5, <1>6 DEF R!Packed
<1>8. ASSUME NEW p \in Visited PROVE p + Length(p) \in Visited \cup {BufferTop}
  <2>1. RecordAt(p) \in Records /\ RecordAt(p).addr = p /\ RecordAt(p).len = Length(p)
    BY RecordFacts DEF RecordAt
  <2>2. R!IsBoundary(p + Length(p))
    BY <1>5, <2>1 DEF R!Packed
  <2> QED
    BY <1>6, <2>2
<1>9. ASSUME NEW p \in Visited, NEW q \in Visited, p < q PROVE p + Length(p) <= q
  <2>1. /\ RecordAt(p) \in Records /\ RecordAt(p).addr = p /\ RecordAt(p).len = Length(p)
        /\ RecordAt(q) \in Records /\ RecordAt(q).addr = q /\ RecordAt(q).len = Length(q)
    BY RecordFacts DEF RecordAt
  <2>2. p \in Nat /\ q \in Nat /\ Length(p) \in Nat /\ Length(q) \in Nat
    BY RecordFacts
  <2>3. p + Length(p) <= q \/ q + Length(q) <= p \/ RecordAt(p) = RecordAt(q)
    BY <1>5, <2>1 DEF R!Ordered
  <2> QED
    BY <1>9, <2>1, <2>2, <2>3
<1>10. \A p \in Visited : buffer <= p /\ Length(p) \in Nat /\ Length(p) > 0
  BY RecordFacts
<1>11. Tiles(Visited)
  BY <1>7, <1>8, <1>9, <1>10 DEF Tiles
<1>12. IsFiniteSet(Visited)
  <2>1. IsFiniteSet(FreeSpace..(BufferTop - 1))
    BY <1>2, FS_Interval
  <2>2. Visited \subseteq FreeSpace..(BufferTop - 1)
    BY <1>1 DEF Words
  <2> QED
    BY <2>1, <2>2, FS_Subset
<1> QED
  BY <1>1, <1>2, <1>3, <1>4, <1>11, <1>12

(***************************************************************************)
(* The walk of FindLineN stops where EditBuffer says, and reports the      *)
(* record that EditBuffer finds.                                           *)
(***************************************************************************)
LEMMA FindsRecord ==
  ASSUME MInv, NEW n \in Nat
  PROVE  /\ FindLineN(n) = R!FindLineN(n)
         /\ FindLineN(n) \in Visited \cup {BufferTop}
         /\ R!Found(n) = IF Found(n) THEN {RecordAt(FindLineN(n))} ELSE {}
         /\ Found(n) => FindLineN(n) \in Visited
<1> DEFINE at == FindLineN(n)
           r  == R!FindLineN(n)
<1>1. Stops(Visited, n, buffer, at)
  BY BufferFacts, FindLineNStops
<1>2. R!StopsAt(n, r)
  BY Assumed, R!FindLineStops DEF MInv, R!IInv
<1>3. \A p \in Visited : /\ RecordAt(p) \in Records
                         /\ RecordAt(p).addr = p /\ RecordAt(p).num = LineNumber(p)
                         /\ p \in Int /\ LineNumber(p) \in Int /\ p < BufferTop
  <2>1. \A p \in Visited : RecordAt(p).addr = p /\ RecordAt(p).num = LineNumber(p)
    BY DEF RecordAt
  <2>2. \A p \in Words : p < BufferTop
    BY MemoryAssumption DEF Words
  <2> QED
    BY <2>1, <2>2, RecordFacts
<1>4. at \in Visited \cup {BufferTop} /\ r \in Visited \cup {BufferTop}
  <2>1. R!IsBoundary(r)
    BY <1>2 DEF R!StopsAt
  <2>2. r = BufferTop \/ \E l \in Records : l.addr = r
    BY <2>1 DEF R!IsBoundary
  <2>3. \A l \in Records : l.addr \in Visited
    BY <1>3 DEF Records
  <2> QED
    BY <1>1, <2>2, <2>3 DEF Stops
<1> HIDE DEF at, r
<1>5. at \in Int /\ r \in Int /\ at <= BufferTop /\ r <= BufferTop /\ BufferTop \in Int
  BY <1>3, <1>4, MemoryAssumption
<1>6. \A p \in Visited : IF p < r THEN LineNumber(p) < n ELSE n <= LineNumber(p)
  BY <1>2, <1>3 DEF R!StopsAt
<1>7. ~(at < r)
  <2> SUFFICES ASSUME at < r PROVE FALSE
    OBVIOUS
  <2>1. at \in Visited
    BY <1>3, <1>4, <1>5
  <2>2. n <= LineNumber(at)
    BY <1>1, <2>1 DEF Stops
  <2> QED
    BY <1>3, <1>6, <2>1, <2>2
<1>8. ~(r < at)
  <2> SUFFICES ASSUME r < at PROVE FALSE
    OBVIOUS
  <2>1. r \in Visited
    BY <1>3, <1>4, <1>5
  <2>2. buffer <= r
    BY <2>1, RecordFacts
  <2>3. ~(n <= LineNumber(r))
    BY <1>1, <2>1, <2>2 DEF Stops
  <2>4. ~(r < r)
    BY <1>5
  <2> QED
    BY <1>6, <2>1, <2>3, <2>4
<1>9. at = r
  BY <1>5, <1>7, <1>8
<1>10. Found(n) <=> at < BufferTop /\ LineNumber(at) = n
  BY DEF Found, at
<1>11. at < BufferTop <=> at \in Visited
  <2>1. ~(BufferTop < BufferTop)
    BY MemoryAssumption
  <2> QED
    BY <1>3, <1>4, <2>1
<1>12. R!Found(n) = {l \in Records : l.addr = at /\ l.num = n}
  BY <1>9 DEF R!Found, r
<1>13. \A l \in Records : l.addr = at => l = RecordAt(at)
  <2> SUFFICES ASSUME NEW l \in Records, l.addr = at PROVE l = RecordAt(at)
    OBVIOUS
  <2>1. PICK p \in Visited : l = RecordAt(p)
    BY DEF Records
  <2> QED
    BY <2>1, <1>3
<1>14. R!Found(n) = IF Found(n) THEN {RecordAt(at)} ELSE {}
  <2>1. CASE Found(n)
    <3>1. RecordAt(at) \in Records /\ RecordAt(at).addr = at /\ RecordAt(at).num = n
      BY <1>3, <1>10, <1>11, <2>1
    <3> QED
      BY <1>12, <1>13, <3>1, <2>1
  <2>2. CASE ~Found(n)
    <3> SUFFICES ASSUME NEW l \in Records, l.addr = at, l.num = n PROVE FALSE
      BY <1>12, <2>2
    <3>1. PICK p \in Visited : l = RecordAt(p)
      BY DEF Records
    <3> QED
      BY <1>3, <1>10, <1>11, <2>2, <3>1
  <2> QED
    BY <2>1, <2>2
<1> QED
  BY <1>4, <1>9, <1>10, <1>11, <1>14 DEF at, r

-----------------------------------------------------------------------------
(***************************************************************************)
(* What memmove leaves.  The records below `at' have gone down by `by'     *)
(* (or up), with their lengths; those from e on have stayed; what lies     *)
(* between is nothing, or one record that fills it.  Then these tile the   *)
(* buffer again, and the next walk meets them.                             *)
(***************************************************************************)
Moving(p, at, by) == IF p < at THEN p - by ELSE p

LEMMA Relaid ==
  ASSUME MInv, NEW at \in Int, NEW e \in Visited \cup {BufferTop}, NEW by \in Int,
         NEW New \in SUBSET {at - by},
         at \in Visited \cup {BufferTop}, at <= e, by % 4 = 0,
         FreeSpace <= buffer - by, at - by <= e,
         New = {} => at - by = e,
         New # {} => at - by < e /\ Length(at - by)' = e - (at - by),
         \A p \in Visited : p < at => Length(p - by)' = Length(p),
         \A p \in Visited : e <= p => Length(p)' = Length(p),
         buffer' = buffer - by
  PROVE  Visited' = {Moving(p, at, by) : p \in {q \in Visited : q < at \/ e <= q}} \cup New
         /\ Visited' \in SUBSET Words
<1> DEFINE old == {q \in Visited : q < at \/ e <= q}
           to(p) == Moving(p, at, by)
           S == {to(p) : p \in old} \cup New
           After(a) == a \in S \cup {BufferTop}
<1>1. \A p \in Visited : /\ p \in Int /\ p \in Words /\ p % 4 = 0
                         /\ Length(p) \in Int /\ Length(p) > 0
                         /\ buffer <= p /\ p + Length(p) <= BufferTop
  BY RecordFacts
<1>2. /\ Visited \in SUBSET Words /\ Tiles(Visited)
      /\ buffer \in Int /\ BufferTop \in Int /\ buffer <= BufferTop
      /\ FreeSpace \in Int /\ e \in Int
  BY <1>1, BufferFacts
<1>3. \A p \in Visited : /\ p + Length(p) \in Visited \cup {BufferTop}
                         /\ \A q \in Visited : p < q => p + Length(p) <= q
  BY <1>2 DEF Tiles
<1>4. e <= BufferTop /\ at <= BufferTop
  BY <1>1, <1>2
<1>5. \A p \in old : to(p) = (IF p < at THEN p - by ELSE p) /\ p \in Visited
  BY DEF Moving
\* Below `at' records end there at the latest.
<1>6. \A p \in Visited : p < at => p + Length(p) <= at
  BY <1>1, <1>2, <1>3
\* A boundary below `at' has moved, `at' itself to the end of what moved, and one from e on is where it was.
<1>7. ASSUME NEW a \in Visited \cup {BufferTop}, a < at PROVE After(a - by)
  <2>1. a \in old /\ to(a) = a - by
    BY <1>1, <1>2, <1>4, <1>7 DEF Moving
  <2> QED
    BY <2>1
<1>8. ASSUME NEW a \in Visited \cup {BufferTop}, e <= a PROVE After(a)
  <2>1. CASE a = BufferTop
    BY <2>1
  <2>2. CASE a \in Visited
    <3>1. a \in old /\ to(a) = a
      BY <1>1, <1>2, <1>8, <2>2 DEF Moving
    <3> QED
      BY <3>1
  <2> QED
    BY <2>1, <2>2
<1>9. After(at - by)
  <2>1. CASE New = {}
    <3>1. After(e)
      BY <1>2, <1>8
    <3> QED
      BY <2>1, <3>1
  <2>2. CASE New # {}
    BY <2>2
  <2> QED
    BY <2>1, <2>2
<1>10. ASSUME NEW a \in Visited \cup {BufferTop}, a <= at PROVE After(a - by)
  <2> HIDE DEF After
  <2>1. a < at \/ a = at
    BY <1>1, <1>2, <1>10
  <2> QED
    BY <1>7, <1>9, <2>1
\* Each record, its new place and length.
<1>11. ASSUME NEW x \in S
       PROVE  \/ \E p \in Visited : p < at /\ x = p - by /\ Length(x)' = Length(p)
              \/ New # {} /\ x = at - by /\ Length(x)' = e - x
              \/ \E p \in Visited : e <= p /\ x = p /\ Length(x)' = Length(p)
  <2>1. CASE x \in New
    BY <2>1
  <2>2. CASE \E p \in old : x = to(p)
    <3>1. PICK p \in old : x = to(p)
      BY <2>2
    <3>2. CASE p < at
      <4>1. x = p - by /\ p \in Visited
        BY <1>5, <3>1, <3>2
      <4> QED
        BY <3>2, <4>1
    <3>3. CASE ~(p < at)
      <4>1. x = p /\ p \in Visited /\ e <= p
        BY <1>5, <3>1, <3>3
      <4> QED
        BY <4>1
    <3> QED
      BY <3>2, <3>3
  <2> QED
    BY <2>1, <2>2
<1>12. ASSUME NEW x \in S
       PROVE  /\ x \in Int /\ buffer' <= x
              /\ Length(x)' \in Int /\ Length(x)' > 0
              /\ After(x + Length(x)')
              /\ FreeSpace <= x /\ x < BufferTop /\ x % 4 = 0
  <2> HIDE DEF After, S
  <2>1. CASE \E p \in Visited : p < at /\ x = p - by /\ Length(x)' = Length(p)
    <3>1. PICK p \in Visited : p < at /\ x = p - by /\ Length(x)' = Length(p)
      BY <2>1
    <3>2. /\ p \in Int /\ p % 4 = 0 /\ Length(p) \in Int /\ Length(p) > 0
          /\ buffer <= p /\ p + Length(p) <= at
          /\ p + Length(p) \in Visited \cup {BufferTop}
      BY <1>1, <1>3, <1>6, <3>1
    <3>3. After(p + Length(p) - by)
      BY <1>10, <3>2
    <3>4. x + Length(x)' = p + Length(p) - by
      BY <3>1, <3>2
    <3>5. x % 4 = 0
      BY <3>1, <3>2, Multiples
    <3> QED
      BY <1>2, <1>4, <3>1, <3>2, <3>3, <3>4, <3>5
  <2>2. CASE New # {} /\ x = at - by /\ Length(x)' = e - x
    <3>1. After(e)
      BY <1>2, <1>8
    <3>2. x \in Int /\ x + Length(x)' = e /\ Length(x)' \in Int /\ Length(x)' > 0
      BY <1>2, <2>2
    <3>3. at % 4 = 0 /\ buffer <= at
      BY <1>1, <1>2, BufferFacts
    <3>4. x % 4 = 0
      BY <2>2, <3>3, Multiples
    <3> QED
      BY <1>2, <1>4, <2>2, <3>1, <3>2, <3>3, <3>4
  <2>3. CASE \E p \in Visited : e <= p /\ x = p /\ Length(x)' = Length(p)
    <3>1. e <= x /\ x \in Visited /\ Length(x)' = Length(x)
      BY <2>3
    <3>2. /\ x \in Int /\ x % 4 = 0 /\ Length(x) \in Int /\ Length(x) > 0
          /\ x + Length(x) <= BufferTop
          /\ x + Length(x) \in Visited \cup {BufferTop}
      BY <1>1, <1>3, <3>1
    <3>3. After(x + Length(x))
      BY <1>2, <1>8, <3>1, <3>2
    <3>4. buffer <= at
      BY <1>1, <1>2
    <3> QED
      BY <1>2, <3>1, <3>2, <3>3, <3>4
  <2> QED
    BY <1>11, <2>1, <2>2, <2>3
<1>13. S \in SUBSET Words
  BY <1>12, WordAt
<1>14. buffer' \in S \cup {BufferTop}
  <2>1. buffer <= at
    BY <1>1, <1>2
  <2>2. buffer \in Visited \cup {BufferTop}
    BY <1>2 DEF Tiles
  <2>3. After(buffer - by)
    <3> HIDE DEF After
    <3> QED
      BY <1>10, <2>1, <2>2
  <2> QED
    BY <2>3
<1>15. ASSUME NEW x \in S, NEW y \in S, x < y
       PROVE  x + Length(x)' <= y
  <2>1. /\ x \in Int /\ y \in Int /\ Length(x)' \in Int /\ Length(y)' \in Int
    BY <1>12
  <2> DEFINE Low(z)  == \E p \in Visited : p < at /\ z = p - by /\ Length(z)' = Length(p)
             Mid(z)  == New # {} /\ z = at - by /\ Length(z)' = e - z
             High(z) == \E p \in Visited : e <= p /\ z = p /\ Length(z)' = Length(p)
  <2>2. (Low(x) \/ Mid(x) \/ High(x)) /\ (Low(y) \/ Mid(y) \/ High(y))
    BY <1>11
  <2>3. ASSUME NEW z \in S, Low(z) PROVE z + Length(z)' <= at - by
    BY <1>1, <1>6, <2>3
  <2>4. ASSUME NEW z \in S, High(z) PROVE e <= z
    BY <2>4
  <2>5. CASE Low(x) /\ Low(y)
    <3>1. PICK p \in Visited : p < at /\ x = p - by /\ Length(x)' = Length(p)
      BY <2>5
    <3>2. PICK q \in Visited : q < at /\ y = q - by /\ Length(y)' = Length(q)
      BY <2>5
    <3> QED
      BY <1>1, <1>3, <1>15, <3>1, <3>2
  <2>6. CASE High(x) /\ High(y)
    <3>1. x \in Visited /\ y \in Visited /\ Length(x)' = Length(x)
      BY <2>6
    <3> QED
      BY <1>3, <1>15, <3>1
  <2> HIDE DEF Low, High, S
  <2>7. CASE Low(x) /\ ~Low(y)
    <3>1. x + Length(x)' <= at - by
      BY <2>3, <2>7
    <3>2. at - by <= y
      BY <1>2, <2>1, <2>2, <2>4, <2>7
    <3> QED
      BY <2>1, <3>1, <3>2
  <2>8. CASE ~Low(x) /\ Low(y)
    <3>1. y < at - by
      <4>1. y + Length(y)' <= at - by /\ Length(y)' > 0
        BY <1>12, <2>3, <2>8
      <4> QED
        BY <2>1, <4>1
    <3>2. at - by <= x
      BY <1>2, <2>1, <2>2, <2>4, <2>8
    <3> QED
      BY <1>15, <2>1, <3>1, <3>2
  <2>9. CASE Mid(x) /\ High(y)
    BY <1>2, <2>1, <2>4, <2>9
  <2>10. CASE High(x) /\ Mid(y)
    <3>1. e <= x /\ y = at - by /\ y < e
      BY <2>4, <2>10
    <3> QED
      BY <1>2, <1>15, <2>1, <3>1
  <2>11. CASE Mid(x) /\ Mid(y)
    BY <1>15, <2>1, <2>11
  <2> QED
    BY <2>2, <2>5, <2>6, <2>7, <2>8, <2>9, <2>10, <2>11
<1>16. PICK T : T = S
  OBVIOUS
<1>17. Tiles(T)'
  <2> HIDE DEF S
  <2> QED
    BY <1>12, <1>14, <1>15, <1>16 DEF Tiles
<1>18. Visited' = T
  <2> HIDE DEF S
  <2> QED
    BY <1>13, <1>16, <1>17, VisitedIsNext DEF MeetsTiles
<1> QED
  BY <1>13, <1>16, <1>18

-----------------------------------------------------------------------------
(***************************************************************************)
(* BufAddLineN: memmove and the stores put the line into the records as    *)
(* EditBuffer does.                                                        *)
(***************************************************************************)
SpaceNeeded(n, t) ==
  IF Found(n) THEN Align(SizeofLine + StrLen[t]) - Length(FindLineN(n))
              ELSE Align(SizeofLine + StrLen[t])

LEMMA SpaceIs ==
  ASSUME MInv, NEW n \in Nat, NEW t \in Texts
  PROVE  /\ SpaceNeeded(n, t) = R!SpaceNeeded(n, t)
         /\ SpaceNeeded(n, t) \in Int
         /\ SpaceNeeded(n, t) % 4 = 0
<1> DEFINE at == FindLineN(n)
<1>1. /\ R!Found(n) = {} => R!SpaceNeeded(n, t) = R!LineLength(t)
      /\ \A l \in R!Found(n) : R!SpaceNeeded(n, t) = R!LineLength(t) - l.len
  BY Assumed, R!SpaceFacts DEF MInv, R!IInv
<1>2. R!Found(n) = IF Found(n) THEN {RecordAt(at)} ELSE {}
  BY FindsRecord
<1>3. /\ Align(SizeofLine + StrLen[t]) = R!LineLength(t)
      /\ R!LineLength(t) \in Int /\ R!LineLength(t) % 4 = 0
  BY LengthOf
<1>4. Found(n) => Length(at) \in Int /\ Length(at) % 4 = 0
  BY FindsRecord, RecordFacts
<1>5. RecordAt(at).len = Length(at)
  BY DEF RecordAt
<1>6. CASE Found(n)
  <2>1. SpaceNeeded(n, t) = R!LineLength(t) - Length(at)
    BY <1>3, <1>6 DEF SpaceNeeded
  <2>2. R!SpaceNeeded(n, t) = R!LineLength(t) - Length(at)
    BY <1>1, <1>2, <1>5, <1>6
  <2>3. Length(at) \in Int /\ Length(at) % 4 = 0
    BY <1>4, <1>6
  <2>4. R!LineLength(t) - Length(at) \in Int /\ (R!LineLength(t) - Length(at)) % 4 = 0
    <3>1. PICK x, y : x = R!LineLength(t) /\ y = Length(at)
      OBVIOUS
    <3>2. x \in Int /\ y \in Int /\ x % 4 = 0 /\ y % 4 = 0
      BY <1>3, <2>3, <3>1
    <3>3. x - y \in Int /\ (x - y) % 4 = 0
      BY ONLY <3>2, Multiples
    <3> QED
      BY <3>1, <3>3
  <2> QED
    BY <2>1, <2>2, <2>4
<1>7. CASE ~Found(n)
  BY <1>1, <1>2, <1>3, <1>7 DEF SpaceNeeded
<1> QED
  BY <1>6, <1>7

\* The end of the record that goes, or where the new one comes.
LEMMA HoleEnds ==
  ASSUME MInv, NEW n \in Nat
  PROVE  LET at == FindLineN(n)
             e  == IF Found(n) THEN at + Length(at) ELSE at
         IN /\ at \in Visited \cup {BufferTop} /\ e \in Visited \cup {BufferTop}
            /\ at \in Int /\ e \in Int /\ at <= e /\ e <= BufferTop /\ buffer <= at
            /\ at % 4 = 0
            /\ \A p \in Visited : (~Found(n) \/ p # at) <=> p < at \/ e <= p
            /\ \A p \in Visited : p < at => p + Length(p) <= at
<1> DEFINE at == FindLineN(n)
           e  == IF Found(n) THEN at + Length(at) ELSE at
<1>1. at \in Visited \cup {BufferTop} /\ (Found(n) => at \in Visited)
  BY FindsRecord
<1>2. /\ buffer \in Int /\ BufferTop \in Int /\ buffer <= BufferTop /\ BufferTop % 4 = 0
      /\ Tiles(Visited)
  BY BufferFacts
<1>3. \A p \in Visited : /\ p \in Int /\ p % 4 = 0 /\ buffer <= p
                         /\ Length(p) \in Int /\ Length(p) > 0
                         /\ p + Length(p) <= BufferTop
                         /\ p + Length(p) \in Visited \cup {BufferTop}
                         /\ \A q \in Visited : p < q => p + Length(p) <= q
  BY <1>2, RecordFacts DEF Tiles
<1> HIDE DEF at
<1>4. at \in Int /\ e \in Int /\ at <= e /\ e <= BufferTop /\ buffer <= at /\ at % 4 = 0
      /\ e \in Visited \cup {BufferTop}
  <2>1. CASE Found(n)
    <3>1. at \in Visited /\ e = at + Length(at)
      BY <1>1, <2>1
    <3> HIDE DEF e
    <3> QED
      BY <1>2, <1>3, <3>1
  <2>2. CASE ~Found(n)
    <3>1. e = at
      BY <2>2
    <3>2. CASE at = BufferTop
      BY <1>2, <3>1, <3>2
    <3>3. CASE at \in Visited
      <4>1. /\ at \in Int /\ at % 4 = 0 /\ buffer <= at
            /\ Length(at) \in Int /\ Length(at) > 0 /\ at + Length(at) <= BufferTop
        BY <1>3, <3>3
      <4>2. at <= BufferTop /\ at <= at
        BY ONLY <1>2, <4>1
      <4> QED
        BY <3>1, <3>3, <4>1, <4>2
    <3> QED
      BY <1>1, <3>2, <3>3
  <2> QED
    BY <2>1, <2>2
<1>5. \A p \in Visited : p < at => p + Length(p) <= at
  BY <1>1, <1>2, <1>3
<1>6. \A p \in Visited : (~Found(n) \/ p # at) <=> p < at \/ e <= p
  BY <1>1, <1>3, <1>4
<1> QED
  BY <1>1, <1>4, <1>5, <1>6 DEF at

\* The records but the one that goes.
LEMMA RecordsLeft ==
  ASSUME MInv, NEW n \in Nat
  PROVE  Records \ R!Found(n) = {RecordAt(p) : p \in {q \in Visited : ~Found(n) \/ q # FindLineN(n)}}
<1>1. R!Found(n) = IF Found(n) THEN {RecordAt(FindLineN(n))} ELSE {}
  BY FindsRecord
<1>2. \A p, q : RecordAt(p) = RecordAt(q) => p = q
  <2>1. \A p : RecordAt(p).addr = p
    BY DEF RecordAt
  <2> QED
    BY <2>1
<1>3. Records = {RecordAt(p) : p \in Visited}
  BY DEF Records
<1>4. CASE Found(n)
  BY <1>1, <1>2, <1>3, <1>4
<1>5. CASE ~Found(n)
  BY <1>1, <1>3, <1>5
<1> QED
  BY <1>4, <1>5

LEMMA SlidesRecord ==
  ASSUME NEW p, NEW at \in Int, NEW by \in Int
  PROVE  R!Slide(RecordAt(p), at, by) =
           [addr |-> Moving(p, at, by), num |-> LineNumber(p),
            len |-> Length(p), text |-> Text(p)]
BY DEF R!Slide, RecordAt, Moving

LEMMA PutsLine ==
  ASSUME MInv, NEW n \in Nat, NEW t \in Texts,
         buffer - SpaceNeeded(n, t) >= nextLow,
         mem' = Stored(Moved(mem, buffer - SpaceNeeded(n, t), buffer, FindLineN(n) - buffer),
                       FindLineN(n) - SpaceNeeded(n, t), n, Align(SizeofLine + StrLen[t]), t),
         buffer' = buffer - SpaceNeeded(n, t)
  PROVE  /\ R!PutLine(n, t)
         /\ Visited' \in SUBSET Words
         /\ DOMAIN mem' = Words
<1>0. PICK at, by, len, e :
         /\ at = FindLineN(n)
         /\ by = SpaceNeeded(n, t)
         /\ len = Align(SizeofLine + StrLen[t])
         /\ e = IF Found(n) THEN at + Length(at) ELSE at
  OBVIOUS
<1> DEFINE m   == Moved(mem, buffer - by, buffer, at - buffer)
           new == [addr |-> at - by, num |-> n, len |-> len, text |-> t]
<1>1. /\ at \in Visited \cup {BufferTop} /\ e \in Visited \cup {BufferTop}
      /\ at \in Int /\ e \in Int /\ at <= e /\ e <= BufferTop /\ buffer <= at
      /\ at % 4 = 0
      /\ \A p \in Visited : (~Found(n) \/ p # at) <=> p < at \/ e <= p
      /\ \A p \in Visited : p < at => p + Length(p) <= at
  BY <1>0, HoleEnds
<1>2. by = R!SpaceNeeded(n, t) /\ by \in Int /\ by % 4 = 0
  BY <1>0, SpaceIs
<1>3. len = R!LineLength(t) /\ len \in Int /\ StrLen[t] \in Int /\ StrLen[t] >= 0
      /\ len >= 12 + StrLen[t] /\ len % 4 = 0
  BY <1>0, LengthOf
<1>4. e = at - by + len
  <2>1. Found(n) => Length(at) \in Int
    BY <1>0, FindsRecord, RecordFacts
  <2>2. by = IF Found(n) THEN len - Length(at) ELSE len
    BY <1>0 DEF SpaceNeeded
  <2>3. CASE Found(n)
    <3>1. e = at + Length(at) /\ by = len - Length(at) /\ Length(at) \in Int
      BY <1>0, <2>1, <2>2, <2>3
    <3> QED
      BY <1>1, <1>3, <3>1
  <2>4. CASE ~Found(n)
    <3>1. e = at /\ by = len
      BY <1>0, <2>2, <2>4
    <3> QED
      BY <1>1, <1>3, <3>1
  <2> QED
    BY <2>3, <2>4
<1>5. /\ buffer \in Int /\ FreeSpace \in Int /\ nextLow \in Int /\ FreeSpace <= nextLow
      /\ BufferTop \in Int /\ nextLow <= buffer - by
  <2>1. nextLow \in Int /\ buffer \in Int
    BY BufferFacts
  <2> QED
    BY <1>0, <1>2, <2>1, BufferFacts
<1>6. mem' = Stored(m, at - by, n, len, t)
  BY <1>0
<1>7. R!FindLineN(n) = at
  BY <1>0, FindsRecord
<1>8. Records \ R!Found(n) = {RecordAt(p) : p \in {q \in Visited : ~Found(n) \/ q # at}}
  BY <1>0, RecordsLeft
<1>9. \A p \in Visited : /\ p \in Int /\ p % 4 = 0 /\ buffer <= p
                         /\ p \in Words /\ p + 4 \in Words /\ p + 8 \in Words
                         /\ Length(p) \in Int /\ Length(p) >= 12
                         /\ p + Length(p) <= BufferTop
  BY RecordFacts
\* memmove, and the stores behind it.
<1>10. \A a \in Words : m[a] = IF buffer - by <= a /\ a < (buffer - by) + (at - buffer)
                               THEN mem[buffer + a - (buffer - by)] ELSE mem[a]
  BY DEF Moved
<1>11. DOMAIN mem' = Words
  BY <1>6 DEF Stored
<1>12. \A a \in Words :
         mem'[a] = LET p == at - by IN
                   CASE a = p -> n
                     [] a = p + 4 -> len
                     [] a >= p + 8 /\ a <= p + 8 + StrLen[t] -> t
                     [] OTHER -> m[a]
  <2>1. 2 * WordSize = 8 /\ WordSize = 4
    BY DEF WordSize
  <2> HIDE DEF m
  <2> QED
    BY <1>6, <2>1 DEF Stored
<1>13. \A a \in Words : a < at - by => mem'[a] = m[a]
  <2> SUFFICES ASSUME NEW a \in Words, a < at - by PROVE mem'[a] = m[a]
    OBVIOUS
  <2>1. a \in Int /\ at - by \in Int
    BY <1>1, <1>2, WordAt, MemoryAssumption DEF Words
  <2> HIDE DEF m
  <2> QED
    BY <1>12, <2>1
<1>14. \A a \in Words : a >= e => mem'[a] = mem[a]
  <2> SUFFICES ASSUME NEW a \in Words, a >= e PROVE mem'[a] = mem[a]
    OBVIOUS
  <2>1. a \in Int /\ at - by \in Int
    BY <1>1, <1>2, MemoryAssumption DEF Words
  <2>2. a > at - by + 8 + StrLen[t] /\ a > at - by + 4 /\ a > at - by /\ ~(a < (buffer - by) + (at - buffer))
    BY <1>1, <1>2, <1>3, <1>4, <1>5, <2>1
  <2>3. m[a] = mem[a]
    BY <1>10, <2>2
  <2>4. mem'[a] = m[a]
    <3> HIDE DEF m
    <3> QED
      BY <1>1, <1>2, <1>3, <1>12, <2>1, <2>2
  <2> QED
    BY <2>3, <2>4
<1>15. ASSUME NEW p \in Visited, p < at, NEW f \in {0, 4, 8}
       PROVE  p - by + f \in Words /\ mem'[p - by + f] = mem[p + f]
  <2> DEFINE a == p - by + f
  <2>1. p \in Int /\ p % 4 = 0 /\ buffer <= p /\ Length(p) \in Int /\ Length(p) >= 12
        /\ p + Length(p) <= at /\ f \in Int /\ 0 <= f /\ f <= 8 /\ f % 4 = 0
    <3>1. f \in Int /\ 0 <= f /\ f <= 8 /\ f % 4 = 0
      OBVIOUS
    <3> QED
      BY <1>1, <1>9, <1>15, <3>1
  <2>2. a \in Int /\ a % 4 = 0
    <3>1. p - by \in Int /\ (p - by) % 4 = 0
      BY ONLY <1>2, <2>1, Multiples
    <3> QED
      BY ONLY <2>1, <3>1, Multiples
  <2>3. buffer - by <= a /\ a < at - by /\ FreeSpace <= a
    BY <1>1, <1>2, <1>5, <2>1
  <2>4. at \in Int /\ e \in Int /\ e <= BufferTop /\ by \in Int /\ len \in Int /\ len > 0
    BY <1>1, <1>2, <1>3
  <2>5. a \in Words
    <3>1. a < BufferTop
      <4> HIDE DEF a
      <4> QED
        BY ONLY <1>4, <1>5, <2>2, <2>3, <2>4
    <3> HIDE DEF a
    <3> QED
      BY ONLY <2>2, <2>3, <3>1, WordAt
  <2>6. (buffer - by) + (at - buffer) = at - by /\ buffer + a - (buffer - by) = p + f
    BY ONLY <1>5, <2>1, <2>4
  <2> HIDE DEF a
  <2>7. m[a] = mem[p + f]
    BY <1>10, <2>3, <2>5, <2>6
  <2>8. mem'[a] = m[a]
    BY <1>13, <2>3, <2>5
  <2> QED
    BY <2>5, <2>7, <2>8 DEF a
<1>16. /\ mem'[at - by] = n
       /\ mem'[(at - by) + 4] = len
       /\ mem'[(at - by) + 8] = t
  <2> DEFINE p == at - by
  <2>1. p \in Int /\ p % 4 = 0
    <3>1. at \in Int /\ at % 4 = 0 /\ by \in Int /\ by % 4 = 0
      BY <1>1, <1>2
    <3> QED
      BY ONLY <3>1, Multiples
  <2>2. FreeSpace <= p /\ p + 8 < BufferTop
    BY <1>1, <1>2, <1>3, <1>4, <1>5
  <2>3. (p + 4) % 4 = 0 /\ (p + 8) % 4 = 0
    BY <2>1
  <2>4. p \in Words /\ p + 4 \in Words /\ p + 8 \in Words
    BY <1>5, <2>1, <2>2, <2>3, WordAt
  <2>5. p + 8 <= p + 8 + StrLen[t]
    BY <1>3, <2>1
  <2> HIDE DEF p, m
  <2> QED
    BY <1>12, <2>1, <2>4, <2>5 DEF p
<1> HIDE DEF m
\* Fields of the records, in the next state.
<1>17. ASSUME NEW p \in Visited, p < at
       PROVE  LineNumber(p - by)' = LineNumber(p) /\ Length(p - by)' = Length(p)
              /\ Text(p - by)' = Text(p)
  <2>1. mem'[p - by + 0] = mem[p + 0] /\ mem'[p - by + 4] = mem[p + 4]
        /\ mem'[p - by + 8] = mem[p + 8]
    BY <1>15, <1>17
  <2>2. p - by + 0 = p - by /\ p + 0 = p
    BY <1>2, <1>9
  <2> QED
    BY <2>1, <2>2 DEF LineNumber, Length, Text, WordSize
<1>18. ASSUME NEW p \in Visited, e <= p
       PROVE  LineNumber(p)' = LineNumber(p) /\ Length(p)' = Length(p) /\ Text(p)' = Text(p)
  <2>1. p \in Words /\ p + 4 \in Words /\ p + 8 \in Words /\ p \in Int
    BY <1>9
  <2>2. p >= e /\ p + 4 >= e /\ p + 8 >= e
    BY <1>1, <1>18, <2>1
  <2>3. mem'[p] = mem[p] /\ mem'[p + 4] = mem[p + 4] /\ mem'[p + 8] = mem[p + 8]
    BY <1>14, <2>1, <2>2
  <2> QED
    BY <2>3 DEF LineNumber, Length, Text, WordSize
<1>19. LineNumber(at - by)' = n /\ Length(at - by)' = len /\ Text(at - by)' = t
  BY <1>16 DEF LineNumber, Length, Text, WordSize
<1>20. /\ Visited' = {Moving(p, at, by) : p \in {q \in Visited : q < at \/ e <= q}} \cup {at - by}
       /\ Visited' \in SUBSET Words
  <2>1. at - by < e /\ Length(at - by)' = e - (at - by) /\ at - by <= e
    BY <1>1, <1>2, <1>3, <1>4, <1>19
  <2>2. FreeSpace <= buffer - by
    BY <1>0, <1>2, <1>5
  <2>3. \A p \in Visited : p < at => Length(p - by)' = Length(p)
    BY <1>17
  <2>4. \A p \in Visited : e <= p => Length(p)' = Length(p)
    BY <1>18
  <2>5. buffer' = buffer - by
    BY <1>0
  <2>6. {at - by} # {} /\ {at - by} \in SUBSET {at - by}
    OBVIOUS
  <2> QED
    BY <1>1, <1>2, <2>1, <2>2, <2>3, <2>4, <2>5, <2>6, Relaid
<1>21. Records' = {R!Slide(l, at, by) : l \in Records \ R!Found(n)} \cup {new}
  <2> DEFINE old == {q \in Visited : q < at \/ e <= q}
  <2>1. Records \ R!Found(n) = {RecordAt(p) : p \in old}
    BY <1>1, <1>8
  <2>2. Records' = {RecordAt(x)' : x \in Visited'}
    BY DEF Records
  <2>3. ASSUME NEW p \in old PROVE RecordAt(Moving(p, at, by))' = R!Slide(RecordAt(p), at, by)
    <3>1. R!Slide(RecordAt(p), at, by) = [addr |-> Moving(p, at, by), num |-> LineNumber(p),
                                          len |-> Length(p), text |-> Text(p)]
      BY <1>1, <1>2, SlidesRecord
    <3>2. PICK x : x = Moving(p, at, by)
      OBVIOUS
    <3>3. LineNumber(x)' = LineNumber(p) /\ Length(x)' = Length(p) /\ Text(x)' = Text(p)
      <4>1. CASE p < at
        BY <1>17, <3>2, <4>1 DEF Moving
      <4>2. CASE ~(p < at)
        BY <1>18, <3>2, <4>2 DEF Moving
      <4> QED
        BY <4>1, <4>2
    <3>4. RecordAt(x)' = [addr |-> x, num |-> LineNumber(p), len |-> Length(p), text |-> Text(p)]
      BY <3>3 DEF RecordAt
    <3> QED
      BY <3>1, <3>2, <3>4
  <2>4. RecordAt(at - by)' = new
    BY <1>19 DEF RecordAt
  <2> HIDE DEF old
  <2> QED
    BY <1>20, <2>1, <2>2, <2>3, <2>4 DEF old
<1>22. R!PutLine(n, t)
  <2>1. buffer' = buffer - by
    BY <1>0
  <2> QED
    BY <1>2, <1>3, <1>7, <1>21, <2>1 DEF R!PutLine
<1> QED
  BY <1>11, <1>20, <1>22

(***************************************************************************)
(* BufDeleteLineN: memmove alone takes the line out of the records.        *)
(***************************************************************************)
LEMMA RemovesLine ==
  ASSUME MInv, NEW n \in Nat, Found(n),
         mem' = Moved(mem, buffer + Length(FindLineN(n)), buffer, FindLineN(n) - buffer),
         buffer' = buffer + Length(FindLineN(n))
  PROVE  /\ R!RemoveLine(n)
         /\ Visited' \in SUBSET Words
         /\ DOMAIN mem' = Words
         /\ buffer' <= BufferTop
<1>0. PICK at, len, e, by :
         /\ at = FindLineN(n)
         /\ len = Length(at)
         /\ e = at + len
         /\ by = 0 - len
  OBVIOUS
<1>1. /\ at \in Visited /\ e \in Visited \cup {BufferTop}
      /\ at \in Int /\ e \in Int /\ at <= e /\ e <= BufferTop /\ buffer <= at
      /\ \A p \in Visited : p # at <=> p < at \/ e <= p
      /\ \A p \in Visited : p < at => p + Length(p) <= at
  <2>1. at \in Visited
    BY <1>0, FindsRecord
  <2> QED
    BY <1>0, <2>1, HoleEnds
<1>2. \A p \in Visited : /\ p \in Int /\ p % 4 = 0 /\ buffer <= p
                         /\ p \in Words /\ p + 4 \in Words /\ p + 8 \in Words
                         /\ Length(p) \in Int /\ Length(p) >= 12 /\ Length(p) % 4 = 0
                         /\ p + Length(p) <= BufferTop
  BY RecordFacts
<1>3. len \in Int /\ len >= 12 /\ len % 4 = 0 /\ len > 0
  BY <1>0, <1>1, <1>2
<1>4. by \in Int /\ by % 4 = 0 /\ by = -len /\ \A x \in Int : x - by = x + len
  BY ONLY <1>0, <1>3
<1>5. /\ buffer \in Int /\ FreeSpace \in Int /\ FreeSpace <= buffer
      /\ BufferTop \in Int
  BY BufferFacts
<1>6. R!FindLineN(n) = at
  BY <1>0, FindsRecord
<1>7. R!Found(n) = {RecordAt(at)} /\ (CHOOSE l \in R!Found(n) : TRUE).len = len
  <2>1. R!Found(n) = {RecordAt(at)}
    BY <1>0, FindsRecord
  <2>2. RecordAt(at).len = len
    BY <1>0 DEF RecordAt
  <2> QED
    BY <2>1, <2>2
<1>8. Records \ R!Found(n) = {RecordAt(p) : p \in {q \in Visited : q # at}}
  BY <1>0, RecordsLeft
<1>9. /\ DOMAIN mem' = Words
      /\ \A a \in Words : mem'[a] = IF buffer + len <= a /\ a < (buffer + len) + (at - buffer)
                                    THEN mem[buffer + a - (buffer + len)] ELSE mem[a]
  BY <1>0 DEF Moved
<1>10. ASSUME NEW p \in Visited, p < at, NEW f \in {0, 4, 8}
       PROVE  mem'[p - by + f] = mem[p + f]
  <2>1. p \in Int /\ p % 4 = 0 /\ buffer <= p /\ Length(p) \in Int /\ Length(p) >= 12
        /\ p + Length(p) <= at /\ f \in Int /\ 0 <= f /\ f <= 8 /\ f % 4 = 0
    <3>1. f \in Int /\ 0 <= f /\ f <= 8 /\ f % 4 = 0
      OBVIOUS
    <3> QED
      BY <1>1, <1>2, <1>10, <3>1
  <2>2. PICK a : a = p - by + f
    OBVIOUS
  <2>3. a \in Int /\ a % 4 = 0 /\ a = p + len + f
    <3>1. p - by = p + len
      BY <1>4, <2>1
    <3>2. p + len \in Int /\ (p + len) % 4 = 0
      BY ONLY <1>3, <2>1, Multiples
    <3>3. p + len + f \in Int /\ (p + len + f) % 4 = 0
      BY ONLY <2>1, <3>2, Multiples
    <3> QED
      BY <2>2, <3>1, <3>3
  <2>4. buffer + len <= a /\ a < (buffer + len) + (at - buffer) /\ FreeSpace <= a
        /\ a < BufferTop /\ buffer + a - (buffer + len) = p + f
    <3>1. at \in Int /\ e \in Int /\ e <= BufferTop /\ e = at + len
      BY <1>0, <1>1
    <3> QED
      BY ONLY <1>3, <1>5, <2>1, <2>3, <3>1
  <2>5. a \in Words
    BY ONLY <2>3, <2>4, WordAt
  <2> QED
    BY <1>9, <2>2, <2>4, <2>5
<1>11. ASSUME NEW p \in Visited, p < at
       PROVE  LineNumber(p - by)' = LineNumber(p) /\ Length(p - by)' = Length(p)
              /\ Text(p - by)' = Text(p)
  <2>1. mem'[p - by + 0] = mem[p + 0] /\ mem'[p - by + 4] = mem[p + 4]
        /\ mem'[p - by + 8] = mem[p + 8]
    BY <1>10, <1>11
  <2>2. p - by + 0 = p - by /\ p + 0 = p
    BY <1>2, <1>4
  <2> QED
    BY <2>1, <2>2 DEF LineNumber, Length, Text, WordSize
<1>12. ASSUME NEW p \in Visited, e <= p
       PROVE  LineNumber(p)' = LineNumber(p) /\ Length(p)' = Length(p) /\ Text(p)' = Text(p)
  <2>1. p \in Words /\ p + 4 \in Words /\ p + 8 \in Words /\ p \in Int
    BY <1>2
  <2>2. \A a \in Words : a \in Int /\ e <= a => mem'[a] = mem[a]
    <3> SUFFICES ASSUME NEW a \in Words, a \in Int, e <= a PROVE mem'[a] = mem[a]
      OBVIOUS
    <3>1. ~(a < (buffer + len) + (at - buffer))
      BY <1>0, <1>1, <1>3, <1>5
    <3> QED
      BY <1>9, <3>1
  <2>3. e <= p + 4 /\ e <= p + 8
    BY <1>1, <1>12, <2>1
  <2>4. mem'[p] = mem[p] /\ mem'[p + 4] = mem[p + 4] /\ mem'[p + 8] = mem[p + 8]
    BY <1>12, <2>1, <2>2, <2>3
  <2> QED
    BY <2>4 DEF LineNumber, Length, Text, WordSize
<1>13. buffer' = buffer - by /\ FreeSpace <= buffer - by /\ buffer' <= BufferTop
  <2>1. buffer' = buffer + len
    BY <1>0
  <2>2. at \in Int /\ e \in Int /\ e <= BufferTop /\ e = at + len /\ buffer <= at
    BY <1>0, <1>1
  <2> QED
    BY <1>3, <1>4, <1>5, <2>1, <2>2
<1>14. /\ Visited' = {Moving(p, at, by) : p \in {q \in Visited : q < at \/ e <= q}} \cup {}
       /\ Visited' \in SUBSET Words
  <2>1. at - by = e /\ at - by <= e
    BY <1>0, <1>1, <1>4
  <2>2. \A p \in Visited : p < at => Length(p - by)' = Length(p)
    BY <1>11
  <2>3. \A p \in Visited : e <= p => Length(p)' = Length(p)
    BY <1>12
  <2>4. {} \in SUBSET {at - by} /\ at \in Visited \cup {BufferTop}
    BY <1>1
  <2> QED
    BY <1>1, <1>4, <1>13, <2>1, <2>2, <2>3, <2>4, Relaid
<1>15. Records' = {R!Slide(l, at, by) : l \in Records \ R!Found(n)}
  <2> DEFINE old == {q \in Visited : q < at \/ e <= q}
  <2>1. Records \ R!Found(n) = {RecordAt(p) : p \in old}
    BY <1>1, <1>8
  <2>2. Records' = {RecordAt(x)' : x \in Visited'}
    BY DEF Records
  <2>3. ASSUME NEW p \in old PROVE RecordAt(Moving(p, at, by))' = R!Slide(RecordAt(p), at, by)
    <3>1. R!Slide(RecordAt(p), at, by) = [addr |-> Moving(p, at, by), num |-> LineNumber(p),
                                          len |-> Length(p), text |-> Text(p)]
      BY <1>1, <1>4, SlidesRecord
    <3>2. PICK x : x = Moving(p, at, by)
      OBVIOUS
    <3>3. LineNumber(x)' = LineNumber(p) /\ Length(x)' = Length(p) /\ Text(x)' = Text(p)
      <4>1. CASE p < at
        BY <1>11, <3>2, <4>1 DEF Moving
      <4>2. CASE ~(p < at)
        BY <1>12, <3>2, <4>2 DEF Moving
      <4> QED
        BY <4>1, <4>2
    <3>4. RecordAt(x)' = [addr |-> x, num |-> LineNumber(p), len |-> Length(p), text |-> Text(p)]
      BY <3>3 DEF RecordAt
    <3> QED
      BY <3>1, <3>2, <3>4
  <2> HIDE DEF old
  <2> QED
    BY <1>14, <2>1, <2>2, <2>3 DEF old
<1>16. R!RemoveLine(n)
  <2>1. buffer' = buffer + len
    BY <1>0
  <2>2. Records' = {R!Slide(l, at, -len) : l \in Records \ R!Found(n)}
    BY <1>4, <1>15
  <2> QED
    BY <1>6, <1>7, <2>1, <2>2 DEF R!RemoveLine
<1> QED
  BY <1>9, <1>13, <1>14, <1>16

-----------------------------------------------------------------------------
(***************************************************************************)
(* Steps that leave the places of the records alone.                       *)
(***************************************************************************)
LEMMA SamePlaces ==
  ASSUME MInv, buffer' = buffer, \A p \in Visited : Length(p)' = Length(p)
  PROVE  Visited' = Visited
<1>1. PICK T : T = Visited
  OBVIOUS
<1>2. T \in SUBSET Words /\ Tiles(T)
  BY <1>1, BufferFacts
<1>3. Tiles(T)'
  BY <1>1, <1>2 DEF Tiles
<1> QED
  BY <1>1, <1>2, <1>3, VisitedIsNext DEF MeetsTiles

LEMMA SameWords ==
  ASSUME MInv, buffer' = buffer, \A a \in Words : buffer <= a => mem'[a] = mem[a]
  PROVE  Visited' = Visited /\ Records' = Records
<1>1. ASSUME NEW p \in Visited
      PROVE  LineNumber(p)' = LineNumber(p) /\ Length(p)' = Length(p) /\ Text(p)' = Text(p)
  <2>1. /\ p \in Words /\ p + 4 \in Words /\ p + 8 \in Words
        /\ buffer <= p /\ p \in Int /\ buffer \in Int
    BY RecordFacts, BufferFacts
  <2>2. buffer <= p + 4 /\ buffer <= p + 8
    BY <2>1
  <2>3. mem'[p] = mem[p] /\ mem'[p + 4] = mem[p + 4] /\ mem'[p + 8] = mem[p + 8]
    BY <2>1, <2>2
  <2> QED
    BY <2>3 DEF LineNumber, Length, Text, WordSize
<1>2. Visited' = Visited
  BY <1>1, SamePlaces
<1>3. \A p \in Visited : RecordAt(p)' = RecordAt(p)
  BY <1>1 DEF RecordAt
<1>4. Records' = {RecordAt(p)' : p \in Visited'}
  BY DEF Records
<1> QED
  BY <1>2, <1>3, <1>4 DEF Records

\* The Cardinality that EditBuffer's instance brings is the same.
LEMMA SameCardinality ==
  ASSUME NEW S
  PROVE  R!Cardinality(S) = Cardinality(S)
BY DEF Cardinality, R!Cardinality

\* DoRenum stores numbers and nothing else.
LEMMA Renumbers ==
  ASSUME MInv, DoRenum
  PROVE  R!DoRenum /\ Visited' = Visited /\ DOMAIN mem' = Words
<1> DEFINE renum(l) == [l EXCEPT !.num = R!FirstNumber + R!Increment *
                          Cardinality({k \in Records : k.addr < l.addr})]
           new(a) == FirstNumber + Increment * Cardinality({p \in Visited : p < a})
<1>1. mem' = [a \in Words |-> IF a \in Visited THEN new(a) ELSE mem[a]] /\ buffer' = buffer
  BY DEF DoRenum
<1>2. ASSUME NEW p \in Visited
      PROVE  LineNumber(p)' = new(p) /\ Length(p)' = Length(p) /\ Text(p)' = Text(p)
  <2>1. /\ p \in Words /\ p + 4 \in Words /\ p + 8 \in Words
        /\ p \in Int /\ Length(p) \in Int /\ Length(p) >= 12
    BY RecordFacts
  <2>2. \A q \in Visited : q \in Int /\ (p < q => p + Length(p) <= q)
    BY RecordFacts, BufferFacts DEF Tiles
  <2>3. p + 4 \notin Visited /\ p + 8 \notin Visited
    <3>1. p < p + 4 /\ p < p + 8 /\ ~(p + Length(p) <= p + 4) /\ ~(p + Length(p) <= p + 8)
      BY <2>1
    <3> QED
      BY <2>2, <3>1
  <2>4. mem'[p] = new(p) /\ mem'[p + 4] = mem[p + 4] /\ mem'[p + 8] = mem[p + 8]
    <3> HIDE DEF new
    <3> QED
      BY <1>1, <2>1, <2>3
  <2> QED
    BY <2>4 DEF LineNumber, Length, Text, WordSize
<1>3. Visited' = Visited
  BY <1>1, <1>2, SamePlaces
<1>4. Records' = {RecordAt(p)' : p \in Visited}
  BY <1>3 DEF Records
<1>5. ASSUME NEW p \in Visited
      PROVE  RecordAt(p)' = renum(RecordAt(p))
  <2>1. RecordAt(p).addr = p
    BY DEF RecordAt
  <2>2. Cardinality({k \in Records : k.addr < p}) = Cardinality({q \in Visited : q < p})
    <3> DEFINE A == {q \in Visited : q < p}
               B == {k \in Records : k.addr < p}
               f == [q \in A |-> RecordAt(q)]
    <3>1. IsFiniteSet(A)
      BY BufferFacts, FS_Subset
    <3>2. \A q : RecordAt(q).addr = q
      BY DEF RecordAt
    <3>3. f \in [A -> B]
      BY <3>2 DEF Records
    <3>4. \A q, r \in A : f[q] = f[r] => q = r
      BY <3>2
    <3>5. \A k \in B : \E q \in A : f[q] = k
      BY <3>2 DEF Records
    <3>6. ExistsBijection(A, B)
      <4> HIDE DEF A, B, f
      <4> QED
        BY <3>3, <3>4, <3>5 DEF ExistsBijection, Bijection, Injection, Surjection, IsInjective
    <3> HIDE DEF A, B, f
    <3>7. Cardinality(A) = Cardinality(B)
      BY <3>1, <3>6, FS_Bijection
    <3> QED
      BY <3>7 DEF A, B
  <2>3. RecordAt(p)' = [addr |-> p, num |-> new(p), len |-> Length(p), text |-> Text(p)]
    <3> HIDE DEF new
    <3> QED
      BY <1>2 DEF RecordAt
  <2>4. FirstNumber = R!FirstNumber /\ Increment = R!Increment
    BY DEF FirstNumber, Increment, R!FirstNumber, R!Increment
  <2> DEFINE c == Cardinality({q \in Visited : q < p})
  <2>5. RecordAt(p)' = [RecordAt(p) EXCEPT !.num = FirstNumber + Increment * c]
    <3> HIDE DEF c
    <3> QED
      BY <2>3 DEF RecordAt, c
  <2> HIDE DEF c
  <2> QED
    BY <2>1, <2>2, <2>4, <2>5 DEF c
<1>6. Records' = {renum(l) : l \in Records}
  <2> HIDE DEF renum
  <2> QED
    BY <1>4, <1>5 DEF Records
<1>7. {renum(l) : l \in Records} =
        {[l EXCEPT !.num = R!FirstNumber + R!Increment *
            R!Cardinality({k \in Records : k.addr < l.addr})] : l \in Records}
  <2>1. \A l \in Records : renum(l) = [l EXCEPT !.num = R!FirstNumber + R!Increment *
                               R!Cardinality({k \in Records : k.addr < l.addr})]
    BY SameCardinality
  <2> HIDE DEF renum
  <2> QED
    BY <2>1
<1>8. R!DoRenum
  <2> HIDE DEF renum
  <2> QED
    BY <1>6, <1>7 DEF DoRenum, R!DoRenum, R!fileVars
<1> QED
  BY <1>1, <1>3, <1>8


-----------------------------------------------------------------------------
(***************************************************************************)
(* The steps.  What EditBuffer keeps of the records gives the words their  *)
(* types back.                                                             *)
(***************************************************************************)
Worded == /\ Visited \in SUBSET Words
          /\ DOMAIN mem = Words
          /\ currentLine \in Places

LEMMA Retyped == R!IInv /\ Worded => TypeOK
<1> SUFFICES ASSUME R!IInv, Worded PROVE TypeOK
  OBVIOUS
<1>1. /\ Visited \in SUBSET Words /\ DOMAIN mem = Words /\ currentLine \in Places
  BY DEF Worded
<1>2. /\ R!TypeOK /\ R!InBuffer /\ R!Packed /\ R!HeapBelowBuffer
  BY DEF R!IInv, R!Layout
<1>3. \A p \in Visited : /\ RecordAt(p) \in Records
                         /\ RecordAt(p).addr = p /\ RecordAt(p).num = LineNumber(p)
                         /\ RecordAt(p).len = Length(p) /\ RecordAt(p).text = Text(p)
  BY DEF Records, RecordAt
<1>4. ASSUME NEW a, R!IsBoundary(a) PROVE a \in Visited \cup {BufferTop}
  <2>1. CASE a = BufferTop
    BY <2>1
  <2>2. CASE \E l \in Records : l.addr = a
    BY <1>3, <2>2 DEF Records
  <2> QED BY <1>4, <2>1, <2>2 DEF R!IsBoundary
<1>5. \A p \in Visited : LineNumber(p) \in Nat /\ Text(p) \in Texts
  <2>1. \A l \in Records : l \in R!Line
    BY <1>2 DEF R!TypeOK
  <2>2. \A l \in R!Line : l.num \in Nat /\ l.text \in Texts
    BY DEF R!Line
  <2> QED BY <1>3, <2>1, <2>2
<1>6. ASSUME NEW p \in Visited PROVE LeadsOn(p)
  <2>1. Length(p) = R!LineLength(Text(p))
    BY <1>2, <1>3, <1>6 DEF R!InBuffer
  <2>2. Length(p) \in Nat /\ Length(p) >= 12
    <3>1. R!LineLength(Text(p)) \in Nat /\ StrLen[Text(p)] \in Nat
          /\ R!LineLength(Text(p)) >= 12 + StrLen[Text(p)]
      BY <1>5, <1>6, LengthOf
    <3> QED BY ONLY <2>1, <3>1
  <2>3. R!IsBoundary(p + Length(p))
    BY <1>2, <1>3, <1>6 DEF R!Packed
  <2>4. p + Length(p) \in Places
    BY <1>1, <1>4, <2>3 DEF Places
  <2>5. p \in Int
    BY <1>1, <1>6, WordAt, PlaceFacts DEF Places
  <2>6. p < p + Length(p) /\ Length(p) = (p + Length(p)) - p
    BY ONLY <2>2, <2>5
  <2> QED BY <2>4, <2>6 DEF LeadsOn
<1>7. buffer \in Places
  BY <1>1, <1>2, <1>4 DEF R!Packed, Places
<1>8. nextLow \in Nat /\ (mode # "undefined" => nextLow \in FreeSpace..buffer)
  <2>1. nextLow \in Nat /\ buffer \in Nat
    BY <1>2 DEF R!TypeOK
  <2>2. FreeSpace <= nextLow /\ (mode # "undefined" => nextLow <= buffer)
    BY <1>2 DEF R!HeapBelowBuffer
  <2>3. FreeSpace \in Nat
    BY MemoryAssumption
  <2> QED BY ONLY <2>1, <2>2, <2>3
<1> QED BY <1>1, <1>5, <1>6, <1>7, <1>8 DEF TypeOK

LEMMA RetypedNext == R!IInv' /\ Worded' => TypeOK'
BY Retyped, PTL

\* No record is met when the buffer is empty.
LEMMA EmptyBuffer == buffer = BufferTop => Visited = {} /\ Records = {}
<1>1. buffer = BufferTop => Tiles({})
  BY DEF Tiles
<1> QED BY <1>1, VisitedIs DEF MeetsTiles, Records

LEMMA EmptyBufferNext == buffer' = BufferTop => Visited' = {} /\ Records' = {}
<1>1. (buffer = BufferTop)' => (Visited = {} /\ Records = {})'
  BY EmptyBuffer, PTL
<1> QED BY <1>1

\* The records depend on the words from `buffer' on alone.
LEMMA SameMemory ==
  ASSUME MInv, mem' = mem, buffer' = buffer
  PROVE  Visited' = Visited /\ Records' = Records
BY SameWords

LEMMA InitImplements == Init => R!Init /\ MInv
<1> SUFFICES ASSUME Init PROVE R!Init /\ MInv
  OBVIOUS
<1>1. Visited = {} /\ Records = {}
  BY EmptyBuffer DEF Init
<1>2. R!Init
  BY <1>1 DEF Init, R!Init, R!FirstNumber, FirstNumber
<1>3. R!IInv
  BY <1>2, Assumed, R!InitIInv
<1>4. Worded
  BY <1>1 DEF Init, Worded, Places
<1> QED BY <1>2, <1>3, <1>4, Retyped DEF MInv

LEMMA EnterLineImplements ==
  ASSUME MInv, NEW n \in Numbers, NEW t \in Texts, EnterLine(n, t)
  PROVE  R!EnterLine(n, t) /\ Worded'
<1>1. n \in Nat
  BY MemoryAssumption
<1>2. SpaceNeeded(n, t) = R!SpaceNeeded(n, t) /\ SpaceNeeded(n, t) \in Int
  BY <1>1, SpaceIs
<1>3. /\ Visited \in SUBSET Words /\ DOMAIN mem = Words
      /\ buffer \in Int /\ nextLow \in Int
  BY BufferFacts
<1>4. mode = "idle" /\ UNCHANGED <<currentLine, nextLow, mode, out>>
  BY DEF EnterLine
<1>5. currentLine' \in Places
  BY <1>4 DEF MInv, TypeOK
<1>6. /\ buffer - SpaceNeeded(n, t) < nextLow =>
           reply' = "out of edit buffer space" /\ UNCHANGED <<mem, buffer>>
      /\ ~(buffer - SpaceNeeded(n, t) < nextLow) =>
           /\ mem' = Stored(Moved(mem, buffer - SpaceNeeded(n, t), buffer, FindLineN(n) - buffer),
                            FindLineN(n) - SpaceNeeded(n, t), n, Align(SizeofLine + StrLen[t]), t)
           /\ buffer' = buffer - SpaceNeeded(n, t)
           /\ reply' = "OK"
  BY DEF EnterLine, BufAddLineN, SpaceNeeded
<1>7. R!Fits(n, t) <=> buffer - SpaceNeeded(n, t) >= nextLow
  BY <1>2 DEF R!Fits
<1>8. CASE buffer - SpaceNeeded(n, t) < nextLow
  <2>1. ~R!Fits(n, t)
    BY <1>2, <1>3, <1>7, <1>8
  <2>2. mem' = mem /\ buffer' = buffer /\ reply' = "out of edit buffer space"
    BY <1>6, <1>8
  <2>3. Visited' = Visited /\ Records' = Records
    BY <2>2, SameMemory
  <2> QED BY <1>3, <1>4, <1>5, <2>1, <2>2, <2>3
          DEF R!EnterLine, R!bufVars, R!fileVars, Worded
<1>9. CASE ~(buffer - SpaceNeeded(n, t) < nextLow)
  <2>1. buffer - SpaceNeeded(n, t) >= nextLow
    BY <1>2, <1>3, <1>9
  <2>2. /\ R!PutLine(n, t) /\ Visited' \in SUBSET Words /\ DOMAIN mem' = Words
    BY <1>1, <1>6, <1>9, <2>1, PutsLine
  <2> QED BY <1>4, <1>5, <1>6, <1>7, <1>9, <2>1, <2>2
          DEF R!EnterLine, R!fileVars, Worded
<1> QED BY <1>8, <1>9

LEMMA DeleteLineImplements ==
  ASSUME MInv, NEW n \in Numbers, DeleteLine(n)
  PROVE  R!DeleteLine(n) /\ Worded'
<1>1. n \in Nat
  BY MemoryAssumption
<1>2. Visited \in SUBSET Words /\ DOMAIN mem = Words
  BY BufferFacts
<1>3. mode = "idle" /\ UNCHANGED <<currentLine, nextLow, mode, out>>
  BY DEF DeleteLine
<1>4. currentLine' \in Places
  BY <1>3 DEF MInv, TypeOK
<1>5. R!Found(n) # {} <=> Found(n)
  BY <1>1, FindsRecord
<1>6. CASE ~Found(n)
  <2>1. mem' = mem /\ buffer' = buffer /\ reply' = "no line"
    BY <1>6 DEF DeleteLine, BufDeleteLineN
  <2>2. Visited' = Visited /\ Records' = Records
    BY <2>1, SameMemory
  <2> QED BY <1>2, <1>3, <1>4, <1>5, <1>6, <2>1, <2>2
          DEF R!DeleteLine, R!bufVars, R!fileVars, Worded
<1>7. CASE Found(n)
  <2>1. /\ mem' = Moved(mem, buffer + Length(FindLineN(n)), buffer, FindLineN(n) - buffer)
        /\ buffer' = buffer + Length(FindLineN(n))
        /\ reply' = "OK"
    BY <1>7 DEF DeleteLine, BufDeleteLineN
  <2>2. /\ R!RemoveLine(n) /\ Visited' \in SUBSET Words /\ DOMAIN mem' = Words
    BY <1>1, <1>7, <2>1, RemovesLine
  <2> QED BY <1>3, <1>4, <1>5, <1>7, <2>1, <2>2 DEF R!DeleteLine, R!fileVars, Worded
<1> QED BY <1>6, <1>7

LEMMA DoNewImplements ==
  ASSUME MInv, DoNew
  PROVE  R!DoNew /\ Worded'
<1>1. Visited' = {} /\ Records' = {}
  BY EmptyBufferNext DEF DoNew, BufNew
<1>2. DOMAIN mem' = Words
  BY BufferFacts DEF DoNew
<1>3. Worded'
  BY <1>1, <1>2 DEF DoNew, BufNew, Worded, Places
<1> QED BY <1>1, <1>3 DEF DoNew, BufNew, R!DoNew, R!BufNew, R!fileVars

\* The end of a process and the start of the next.
LEMMA UndefinedImplements ==
  ASSUME Undefined, DOMAIN mem' = Words
  PROVE  R!Undefined /\ Worded'
<1>1. Visited' = {} /\ Records' = {}
  BY EmptyBufferNext DEF Undefined, BufNew
<1>2. Worded'
  BY <1>1 DEF Undefined, BufNew, Worded, Places
<1> QED BY <1>1, <1>2 DEF Undefined, BufNew, R!Undefined, R!BufNew, R!fileVars

LEMMA NoRoomToCompileImplements ==
  ASSUME MInv, NoRoomToCompile
  PROVE  R!NoRoomToCompile /\ Worded'
<1>1. DOMAIN mem' = Words
  BY BufferFacts DEF NoRoomToCompile
<1> QED BY <1>1, UndefinedImplements DEF NoRoomToCompile, R!NoRoomToCompile

LEMMA OverrunImplements ==
  ASSUME MInv, Overrun
  PROVE  R!Overrun /\ Worded'
<1>1. DOMAIN mem' = Words
  BY DEF Overrun, Store
<1>2. R!Undefined /\ Worded'
  BY <1>1, UndefinedImplements DEF Overrun
<1>3. \E s \in CodeSizes, t \in TreeSizes :
        /\ nextLow + t + ContextSize <= buffer
        /\ nextLow + s + t + ContextSize > buffer
        /\ nextLow' = nextLow + s
  BY DEF Overrun, Store
<1> QED BY <1>2, <1>3 DEF Overrun, R!Overrun

LEMMA RestartImplements ==
  ASSUME Restart
  PROVE  R!Restart /\ Worded'
<1>1. Visited' = {} /\ Records' = {}
  BY EmptyBufferNext DEF Restart, BufNew
<1>2. Worded'
  BY <1>1 DEF Restart, BufNew, Worded, Places
<1> QED BY <1>1, <1>2 DEF Restart, BufNew, R!Restart, R!BufNew, R!FirstNumber, FirstNumber

LEMMA DoRenumImplements ==
  ASSUME MInv, DoRenum
  PROVE  R!DoRenum /\ Worded'
<1>1. R!DoRenum /\ Visited' = Visited /\ DOMAIN mem' = Words
  BY Renumbers
<1>2. Visited \in SUBSET Words /\ currentLine \in Places
  BY BufferFacts DEF MInv, TypeOK
<1>3. currentLine' = currentLine
  BY DEF DoRenum
<1> QED BY <1>1, <1>2, <1>3 DEF Worded

LEMMA StartReadingImplements ==
  ASSUME MInv, NEW cmd \in Readers, StartReading(cmd)
  PROVE  R!StartReading(cmd) /\ Worded'
<1>1. Visited' = Visited /\ Records' = Records
  BY SameMemory DEF StartReading
<1>2. Visited \in SUBSET Words /\ DOMAIN mem = Words /\ buffer \in Places
  BY BufferFacts DEF MInv, TypeOK
<1>3. Worded'
  BY <1>1, <1>2 DEF StartReading, Worded
<1> QED BY <1>1, <1>3 DEF StartReading, R!StartReading

\* Code that fits below the contexts ends below `buffer'.
LEMMA StoreCodeImplements ==
  ASSUME MInv, mode = "compile", StoreCode, buffer' = buffer
  PROVE  R!StoreCode /\ Visited' = Visited /\ Records' = Records /\ DOMAIN mem' = Words
<1>1. PICK s \in CodeSizes, t \in TreeSizes :
        nextLow + s + t + ContextSize <= buffer /\ Store(s)
  BY DEF StoreCode
<1>2. /\ s \in Nat /\ t \in Nat /\ ContextSize \in Nat
      /\ buffer \in Int /\ nextLow \in Int
  BY BufferFacts, MemoryAssumption
<1>3. R!StoreCode
  BY <1>1 DEF Store, R!StoreCode
<1>4. \A a \in Words : a \in Int
  BY PlaceFacts DEF Places
<1>5. \A a \in Words : buffer <= a => ~(a < nextLow + s)
  BY <1>1, <1>2, <1>4
<1>6. DOMAIN mem' = Words /\ \A a \in Words : buffer <= a => mem'[a] = mem[a]
  BY <1>1, <1>5 DEF Store
<1>7. Visited' = Visited /\ Records' = Records
  BY <1>6, SameWords
<1> QED BY <1>3, <1>6, <1>7

LEMMA StopReadingImplements ==
  ASSUME MInv, StopReading
  PROVE  R!StopReading /\ Worded'
<1>1. /\ Visited' = Visited /\ Records' = Records /\ DOMAIN mem' = Words
      /\ (mode = "compile" /\ R!StoreCode) \/ UNCHANGED nextLow
  <2>1. CASE mode = "compile" /\ StoreCode
    BY <2>1, StoreCodeImplements DEF StopReading
  <2>2. CASE UNCHANGED <<mem, nextLow>>
    BY <2>2, SameMemory, BufferFacts DEF StopReading
  <2> QED BY <2>1, <2>2 DEF StopReading
<1>2. Visited \in SUBSET Words /\ currentLine \in Places
  BY BufferFacts DEF MInv, TypeOK
<1>3. Worded'
  BY <1>1, <1>2 DEF StopReading, Worded
<1> QED BY <1>1, <1>3 DEF StopReading, Readers, R!StopReading, R!Readers, R!fileVars

\* BufGetLine reads a record.
LEMMA ReadsRecord ==
  ASSUME MInv, ReadLine
  PROVE  currentLine \in Visited
<1>1. currentLine \in Places /\ mode \in {"list", "compile"} /\ currentLine < BufferTop
  BY DEF MInv, TypeOK, ReadLine, Readers
<1>2. R!IsBoundary(currentLine)
  BY <1>1 DEF MInv, R!IInv, R!CursorOnLine, R!Readers
<1>3. PICK l \in Records : l.addr = currentLine
  BY <1>1, <1>2, PlaceFacts DEF R!IsBoundary
<1> QED BY <1>3 DEF Records, RecordAt

LEMMA ReadLineImplements ==
  ASSUME MInv, ReadLine
  PROVE  R!ReadLine /\ Worded'
<1>1. /\ Visited \in SUBSET Words /\ DOMAIN mem = Words /\ currentLine \in Places
      /\ buffer \in Int /\ nextLow \in Int
  BY BufferFacts DEF MInv, TypeOK
<1>2. /\ mode \in {"list", "compile"} /\ currentLine < BufferTop
      /\ out' = Append(out, [num |-> LineNumber(currentLine), text |-> Text(currentLine)])
      /\ currentLine' = currentLine + Length(currentLine)
      /\ UNCHANGED <<buffer, mode, reply>>
  BY DEF ReadLine, Readers
<1>3. currentLine \in Visited
  BY ReadsRecord
<1>4. /\ RecordAt(currentLine) \in Records
      /\ RecordAt(currentLine).addr = currentLine
      /\ RecordAt(currentLine).num = LineNumber(currentLine)
      /\ RecordAt(currentLine).len = Length(currentLine)
      /\ RecordAt(currentLine).text = Text(currentLine)
  BY <1>3 DEF Records, RecordAt
<1>5. currentLine' \in Places
  <2>1. currentLine + Length(currentLine) \in Visited \cup {BufferTop}
    BY <1>3, BufferFacts DEF Tiles
  <2> QED BY <1>1, <1>2, <2>1 DEF Places
<1>6. /\ Visited' = Visited /\ Records' = Records /\ DOMAIN mem' = Words
      /\ IF mode = "compile" THEN R!StoreCode ELSE UNCHANGED nextLow
  <2>1. CASE mode = "compile"
    BY <1>2, <2>1, StoreCodeImplements DEF ReadLine
  <2>2. CASE mode # "compile"
    BY <1>1, <1>2, <2>2, SameMemory DEF ReadLine
  <2> QED BY <2>1, <2>2
<1>8. Worded'
  BY <1>1, <1>5, <1>6 DEF Worded
<1>9. \E l \in Records :
        /\ l.addr = currentLine
        /\ out' = Append(out, [num |-> l.num, text |-> l.text])
        /\ <<>> = IF mode = "save" THEN Append(<<>>, l.text) ELSE <<>>
        /\ currentLine' = currentLine + l.len
  BY <1>2, <1>4
<1> QED BY <1>2, <1>6, <1>8, <1>9 DEF R!ReadLine, R!Readers

LEMMA StepImplements == MInv /\ [Next]_vars => [R!Next]_(R!vars) /\ MInv'
<1> SUFFICES ASSUME MInv, [Next]_vars PROVE [R!Next]_(R!vars) /\ MInv'
  OBVIOUS
<1>1. ASSUME [R!Next]_(R!vars), Worded' PROVE [R!Next]_(R!vars) /\ MInv'
  <2>1. R!IInv
    BY DEF MInv
  <2>2. R!IInv'
    BY <1>1, <2>1, Assumed, R!StepIInv
  <2>3. TypeOK'
    BY <1>1, <2>2, RetypedNext
  <2> QED BY <1>1, <2>2, <2>3 DEF MInv
<1>2. ASSUME NEW n \in Numbers, NEW t \in Texts, EnterLine(n, t)
      PROVE  [R!Next]_(R!vars) /\ Worded'
  BY <1>2, EnterLineImplements DEF R!Next
<1>3. ASSUME NEW n \in Numbers, DeleteLine(n)
      PROVE  [R!Next]_(R!vars) /\ Worded'
  BY <1>3, DeleteLineImplements DEF R!Next
<1>4. CASE DoNew
  BY <1>1, <1>4, DoNewImplements DEF R!Next
<1>5. CASE DoRenum
  BY <1>1, <1>5, DoRenumImplements DEF R!Next
<1>6. ASSUME NEW cmd \in Readers, StartReading(cmd)
      PROVE  [R!Next]_(R!vars) /\ Worded'
  <2>1. cmd \in R!Readers
    BY <1>6 DEF Readers, R!Readers
  <2> QED BY <1>6, <2>1, StartReadingImplements DEF R!Next
<1>7. CASE ReadLine
  BY <1>1, <1>7, ReadLineImplements DEF R!Next
<1>8. CASE StopReading
  BY <1>1, <1>8, StopReadingImplements DEF R!Next
<1>9. CASE UNCHANGED vars
  <2>1. Visited' = Visited /\ Records' = Records
    BY <1>9, SameMemory DEF vars
  <2>2. Worded'
    BY <1>9, <2>1, BufferFacts DEF vars, Worded, MInv, TypeOK
  <2>3. UNCHANGED R!vars
    BY <1>9, <2>1 DEF vars, R!vars
  <2> QED BY <1>1, <2>2, <2>3
<1>10. CASE NoRoomToCompile
  BY <1>1, <1>10, NoRoomToCompileImplements DEF R!Next
<1>11. CASE Overrun
  BY <1>1, <1>11, OverrunImplements DEF R!Next
<1>12. CASE Restart
  BY <1>1, <1>12, RestartImplements DEF R!Next
<1> QED BY <1>1, <1>2, <1>3, <1>4, <1>5, <1>6, <1>7, <1>8, <1>9, <1>10, <1>11, <1>12 DEF Next

-----------------------------------------------------------------------------
(***************************************************************************)
(* The walk by the lengths found in memory meets records and nothing else, *)
(* whatever was inserted, replaced, deleted or compiled (edit.c,           *)
(* FindLineN, and the memmove of BufAddLineN and BufDeleteLineN).          *)
(***************************************************************************)
THEOREM Invariance == Spec => []MInv
BY InitImplements, StepImplements, PTL DEF Spec

(***************************************************************************)
(* The addresses that the walks and the cursor use are words of the        *)
(* workspace, and every length met leads to the next record or to          *)
(* bufferTop (edit.c, FindLineN and BufGetLine).                           *)
(***************************************************************************)
THEOREM TypeCorrect == Spec => []TypeOK
<1>1. MInv => TypeOK
  BY DEF MInv
<1> QED BY <1>1, Invariance, PTL

\* BufGetLine goes up by the length it finds in memory and never past
\* bufferTop, so that LIST and the compiler reach the end: no edit and no
\* code stored by a compilation makes a length that stands still.
CursorAdvances ==
  [][ReadLine => currentLine < currentLine' /\ currentLine' <= BufferTop]_vars

(***************************************************************************)
(* BufGetLine always goes on and never past bufferTop: BufferTop minus the *)
(* cursor is what brings the loops of LIST and the compiler to their end   *)
(* (edit.c, BufGetLine).                                                   *)
(***************************************************************************)
THEOREM Advances == Spec => CursorAdvances
<1>1. ASSUME MInv, ReadLine
      PROVE  currentLine < currentLine' /\ currentLine' <= BufferTop
  <2>1. /\ currentLine \in Nat /\ Length(currentLine) \in Nat /\ Length(currentLine) >= 12
        /\ currentLine + Length(currentLine) <= BufferTop
    BY <1>1, ReadsRecord, RecordFacts
  <2>2. currentLine' = currentLine + Length(currentLine)
    BY <1>1 DEF ReadLine
  <2> QED BY ONLY <2>1, <2>2
<1>2. MInv /\ [Next]_vars
        => [ReadLine => currentLine < currentLine' /\ currentLine' <= BufferTop]_vars
  BY <1>1
<1> QED BY <1>2, Invariance, PTL DEF Spec, CursorAdvances

\* The words behave as the records of EditBuffer do, under the name R.
LEMMA Refines == Spec => R!Spec
BY InitImplements, StepImplements, Invariance, PTL DEF Spec, R!Spec

\* R, which brings the theorems, and Buffer, the specification that the run
\* checks, are one module with one substitution.
LEMMA SameSearch ==
  ASSUME NEW n, NEW t
  PROVE  /\ R!FindLineN(n) = Buffer!FindLineN(n)
         /\ R!Found(n) = Buffer!Found(n)
         /\ R!LineLength(t) = Buffer!LineLength(t)
         /\ R!SpaceNeeded(n, t) = Buffer!SpaceNeeded(n, t)
         /\ R!Fits(n, t) <=> Buffer!Fits(n, t)
<1>1. R!FindLineN(n) = Buffer!FindLineN(n)
  BY DEF R!FindLineN, R!Later, Buffer!FindLineN, Buffer!Later
<1>2. R!Found(n) = Buffer!Found(n)
  BY <1>1 DEF R!Found, Buffer!Found
<1>3. R!LineLength(t) = Buffer!LineLength(t)
  BY DEF R!LineLength, R!Align, R!SizeofLine,
         Buffer!LineLength, Buffer!Align, Buffer!SizeofLine
<1>4. R!SpaceNeeded(n, t) = Buffer!SpaceNeeded(n, t)
  BY <1>2, <1>3 DEF R!SpaceNeeded, Buffer!SpaceNeeded
<1> QED BY <1>1, <1>2, <1>3, <1>4 DEF R!Fits, Buffer!Fits

LEMMA SameEdits ==
  ASSUME NEW n, NEW t
  PROVE  /\ R!PutLine(n, t) <=> Buffer!PutLine(n, t)
         /\ R!RemoveLine(n) <=> Buffer!RemoveLine(n)
<1>1. /\ R!FindLineN(n) = Buffer!FindLineN(n)
      /\ R!Found(n) = Buffer!Found(n)
      /\ R!LineLength(t) = Buffer!LineLength(t)
      /\ R!SpaceNeeded(n, t) = Buffer!SpaceNeeded(n, t)
  BY SameSearch
<1>2. R!PutLine(n, t) <=> Buffer!PutLine(n, t)
  BY <1>1 DEF R!PutLine, Buffer!PutLine, R!Slide, Buffer!Slide
<1>3. R!RemoveLine(n) <=> Buffer!RemoveLine(n)
  BY <1>1 DEF R!RemoveLine, Buffer!RemoveLine, R!Slide, Buffer!Slide
<1> QED BY <1>2, <1>3

LEMMA SameInit == R!Init <=> Buffer!Init
BY DEF R!Init, Buffer!Init, R!FirstNumber, Buffer!FirstNumber

LEMMA SameNext == R!Next <=> Buffer!Next
<1> USE DEF R!Readers, Buffer!Readers, R!fileVars, Buffer!fileVars, R!bufVars, Buffer!bufVars,
            R!FirstNumber, Buffer!FirstNumber, R!Increment, Buffer!Increment
<1>1. ASSUME NEW n, NEW t PROVE R!EnterLine(n, t) <=> Buffer!EnterLine(n, t)
  <2>1. /\ R!Fits(n, t) <=> Buffer!Fits(n, t)
        /\ R!PutLine(n, t) <=> Buffer!PutLine(n, t)
    BY SameSearch, SameEdits
  <2> QED BY <2>1 DEF R!EnterLine, Buffer!EnterLine
<1>2. ASSUME NEW n PROVE R!DeleteLine(n) <=> Buffer!DeleteLine(n)
  <2>1. R!Found(n) = Buffer!Found(n)
    BY SameSearch
  <2>2. R!RemoveLine(n) <=> Buffer!RemoveLine(n)
    BY SameEdits
  <2> QED BY <2>1, <2>2 DEF R!DeleteLine, Buffer!DeleteLine
<1>3. R!DoNew <=> Buffer!DoNew
  BY DEF R!DoNew, Buffer!DoNew, R!BufNew, Buffer!BufNew
<1>4. R!DoRenum <=> Buffer!DoRenum
  <2>1. \A S : R!Cardinality(S) = Buffer!Cardinality(S)
    BY DEF R!Cardinality, Buffer!Cardinality
  <2> DEFINE below(l) == {m \in Records : m.addr < l.addr}
             renumR(l) == [l EXCEPT !.num = R!FirstNumber + R!Increment * R!Cardinality(below(l))]
             renumB(l) == [l EXCEPT !.num = Buffer!FirstNumber + Buffer!Increment
                                              * Buffer!Cardinality(below(l))]
  <2>2. \A l \in Records : renumR(l) = renumB(l)
    <3> HIDE DEF below
    <3> QED BY <2>1
  <2>3. {renumR(l) : l \in Records} = {renumB(l) : l \in Records}
    <3> HIDE DEF renumR, renumB
    <3> QED BY <2>2
  <2> QED BY <2>3 DEF R!DoRenum, Buffer!DoRenum
<1>5. ASSUME NEW cmd PROVE R!StartReading(cmd) <=> Buffer!StartReading(cmd)
  BY DEF R!StartReading, Buffer!StartReading
<1>6. R!ReadLine <=> Buffer!ReadLine
  BY DEF R!ReadLine, Buffer!ReadLine, R!StoreCode, Buffer!StoreCode
<1>7. R!StopReading <=> Buffer!StopReading
  BY DEF R!StopReading, Buffer!StopReading, R!StoreCode, Buffer!StoreCode
<1>8. R!StartLoad <=> Buffer!StartLoad
  BY DEF R!StartLoad, Buffer!StartLoad, R!BufNew, Buffer!BufNew
<1>9. R!LoadLine <=> Buffer!LoadLine
  BY SameSearch, SameEdits DEF R!LoadLine, Buffer!LoadLine
<1>10. R!StopLoad <=> Buffer!StopLoad
  BY DEF R!StopLoad, Buffer!StopLoad
<1>11. R!OpenFails <=> Buffer!OpenFails
  BY DEF R!OpenFails, Buffer!OpenFails
<1>12. R!Undefined <=> Buffer!Undefined
  BY DEF R!Undefined, Buffer!Undefined, R!BufNew, Buffer!BufNew
<1>13. /\ R!NoRoomToCompile <=> Buffer!NoRoomToCompile
       /\ R!Overrun <=> Buffer!Overrun
  BY <1>12 DEF R!NoRoomToCompile, Buffer!NoRoomToCompile, R!Overrun, Buffer!Overrun
<1>14. R!Restart <=> Buffer!Restart
  BY DEF R!Restart, Buffer!Restart, R!BufNew, Buffer!BufNew
<1> QED BY <1>1, <1>2, <1>3, <1>4, <1>5, <1>6, <1>7, <1>8, <1>9, <1>10, <1>11, <1>13, <1>14
        DEF R!Next, Buffer!Next

(***************************************************************************)
(* The memmove of BufAddLineN and BufDeleteLineN and the stores behind it  *)
(* leave the records that the edit means and no other, for every workspace *)
(* and every sequence of edits, readings and compilations: the words       *)
(* implement the records of EditBuffer (edit.c, BufAddLineN,               *)
(* BufDeleteLineN, DoRenum, BufGetLine).  Code that a compilation stores   *)
(* below its contexts disturbs no record; code that passes them may, and   *)
(* is the step Overrun of both.                                            *)
(***************************************************************************)
THEOREM Implements == Spec => ImplementsEditBuffer
<1>1. R!Spec => Buffer!Spec
  <2>1. [R!Next]_(R!vars) => [Buffer!Next]_(Buffer!vars)
    BY SameNext DEF R!vars, Buffer!vars
  <2> QED BY <2>1, SameInit, PTL DEF R!Spec, Buffer!Spec
<1> QED BY <1>1, Refines, PTL DEF ImplementsEditBuffer

(***************************************************************************)
(* In memory, too, the records tile the buffer in the order of their       *)
(* numbers (edit.c, FindLineN relies on it).                               *)
(***************************************************************************)
THEOREM LayoutCorrect == Spec => []R!Layout
<1>1. MInv => R!Layout
  BY DEF MInv, R!IInv
<1> QED BY <1>1, Invariance, PTL

(***************************************************************************)
(* What a user sees of the words is the map of module ProgramText: an edit *)
(* changes the line it names and no other, and LIST and RUN read each line *)
(* once, in order (edit.c, do_edit and BufGetLine).                        *)
(***************************************************************************)
THEOREM ImplementsText == Spec => R!ImplementsProgramText
BY Assumed, Refines, R!Implements, PTL
=============================================================================
