---------------------------- MODULE Blocks_proofs ----------------------------
(***************************************************************************)
(* For every depth of the block stack and every length of the programs.    *)
(***************************************************************************)
EXTENDS Blocks, Induction, FiniteSetTheorems, SequenceTheorems, TLAPS

-----------------------------------------------------------------------------
(* How a text and one more line nest. *)

LinesAt(L, d, kws) == {j \in DOMAIN L : L[j] \in kws /\ Inside(L, j) = d}
IsLast(S, h)       == h \in S /\ \A j \in S : j <= h

LEMMA LastIs ==
  ASSUME NEW S \in SUBSET Nat, NEW h, IsLast(S, h)
  PROVE  S # {} /\ LastOf(S) = h
<1> USE DEF IsLast
<1>1. h \in S /\ \A j \in S : j <= h
  OBVIOUS
<1>2. \A i \in S : (\A j \in S : j <= i) => i = h
  <2> SUFFICES ASSUME NEW i \in S, \A j \in S : j <= i PROVE i = h
    OBVIOUS
  <2>1. i <= h /\ h <= i /\ i \in Nat /\ h \in Nat
    BY <1>1
  <2> QED
    BY <2>1
<1>3. LastOf(S) \in S /\ \A j \in S : j <= LastOf(S)
  BY <1>1 DEF LastOf
<1> QED
  BY <1>1, <1>2, <1>3

LEMMA CountType ==
  ASSUME NEW T, NEW L \in Seq(T), NEW i \in Nat, NEW kws
  PROVE  Count(L, i, kws) \in Nat
<1>1. IsFiniteSet(1..(i - 1))
  BY FS_Interval
<1> QED
  BY <1>1, FS_Subset, FS_CardinalityType DEF Count

LEMMA CountBefore ==
  ASSUME NEW T, NEW L \in Seq(T), NEW kw \in T, NEW i \in 1..(Len(L) + 1), NEW kws
  PROVE  Count(Append(L, kw), i, kws) = Count(L, i, kws)
<1>1. \A j \in 1..(i - 1) : Append(L, kw)[j] = L[j]
  OBVIOUS
<1> QED
  BY <1>1 DEF Count

LEMMA CountStep ==
  ASSUME NEW T, NEW L \in Seq(T), NEW kw \in T, NEW kws
  PROVE  Count(Append(L, kw), Len(L) + 2, kws)
           = Count(L, Len(L) + 1, kws) + (IF kw \in kws THEN 1 ELSE 0)
<1> DEFINE M == Append(L, kw)
           A == {j \in 1..Len(L) : L[j] \in kws}
           B == {j \in 1..(Len(L) + 1) : M[j] \in kws}
<1>1. M[Len(L) + 1] = kw /\ \A j \in 1..Len(L) : M[j] = L[j]
  OBVIOUS
<1>2. IsFiniteSet(A)
  BY FS_Interval, FS_Subset
<1>3. Len(L) + 1 - 1 = Len(L) /\ Len(L) + 2 - 1 = Len(L) + 1
  OBVIOUS
<1>4. Count(L, Len(L) + 1, kws) = Cardinality(A) /\ Count(M, Len(L) + 2, kws) = Cardinality(B)
  BY <1>3 DEF Count
<1>5. Len(L) + 1 \notin A
  OBVIOUS
<1>6. Cardinality(A) \in Nat
  BY <1>2, FS_CardinalityType
<1> HIDE DEF A, B
<1>7. CASE kw \in kws
  <2>1. B = A \cup {Len(L) + 1}
    BY <1>1, <1>7 DEF A, B
  <2>2. Cardinality(B) = Cardinality(A) + 1
    BY <2>1, <1>2, <1>5, FS_AddElement
  <2> QED
    BY <2>2, <1>4, <1>7
<1>8. CASE kw \notin kws
  <2>1. B = A
    BY <1>1, <1>8 DEF A, B
  <2>2. Cardinality(B) = Cardinality(A) + 0
    BY <2>1, <1>6
  <2> QED
    BY <2>2, <1>4, <1>8
<1> QED
  BY <1>7, <1>8

LEMMA DepthType ==
  ASSUME NEW T, NEW L \in Seq(T), NEW i \in Nat
  PROVE  Depth(L, i) \in Int /\ Inside(L, i) \in Int
BY CountType DEF Depth, Inside

\* The lines that were there nest as they did.
LEMMA NestedBefore ==
  ASSUME NEW T, NEW L \in Seq(T), NEW kw \in T, NEW i \in 1..Len(L)
  PROVE  /\ Depth(Append(L, kw), i) = Depth(L, i)
         /\ Inside(Append(L, kw), i) = Inside(L, i)
<1>1. Append(L, kw)[i] = L[i] /\ i \in 1..(Len(L) + 1)
  OBVIOUS
<1>2. Depth(Append(L, kw), i) = Depth(L, i)
  BY <1>1, CountBefore DEF Depth
<1> QED
  BY <1>1, <1>2 DEF Inside

LEMMA HomeBefore ==
  ASSUME NEW T, NEW L \in Seq(T), NEW kw \in T, NEW i \in 1..Len(L), NEW kws
  PROVE  /\ Before(Append(L, kw), i, kws) = Before(L, i, kws)
         /\ Home(Append(L, kw), i, kws) = Home(L, i, kws)
<1>1. \A j \in 1..(i - 1) : j \in 1..Len(L) /\ Append(L, kw)[j] = L[j]
  OBVIOUS
<1>2. Before(Append(L, kw), i, kws) = Before(L, i, kws)
  BY <1>1, NestedBefore DEF Before
<1> QED
  BY <1>2 DEF Home

LEMMA HomeType ==
  ASSUME NEW T, NEW L \in Seq(T), NEW i \in 1..(Len(L) + 1), NEW kws
  PROVE  Home(L, i, kws) \in 0..(i - 1)
<1> DEFINE S == Before(L, i, kws)
<1>1. S \subseteq 1..(i - 1)
  BY DEF Before
<1>2. CASE S = {}
  BY <1>2 DEF Home
<1>3. CASE S # {}
  <2>0. i - 1 \in Int /\ S \subseteq Int
    BY <1>1
  <2>1. IsFiniteSet(1..(i - 1))
    BY <2>0, FS_Interval
  <2>2. IsFiniteSet(S)
    BY <1>1, <2>1, FS_Subset
  <2>3. \E h \in S : \A j \in S : j <= h
    BY <2>0, <2>2, <1>3, GreatestInteger
  <2>4. LastOf(S) \in S
    BY <2>3 DEF LastOf
  <2> QED
    BY <2>4, <1>1, <1>3 DEF Home
<1> QED
  BY <1>2, <1>3

LEMMA AllowedBefore ==
  ASSUME NEW T, NEW L \in Seq(T), NEW kw \in T, NEW i \in 1..Len(L), NEW max
  PROVE  Allowed(Append(L, kw), i, max) = Allowed(L, i, max)
<1> DEFINE M == Append(L, kw)
<1>1. M[i] = L[i] /\ Opener(M, i) = Opener(L, i) /\ Depth(M, i) = Depth(L, i)
      /\ Before(M, i, {"else"}) = Before(L, i, {"else"})
  BY HomeBefore, NestedBefore DEF Opener
<1>2. Opener(L, i) # 0 => M[Opener(L, i)] = L[Opener(L, i)]
  <2>1. Opener(L, i) \in 0..(i - 1)
    BY HomeType DEF Opener
  <2> QED
    BY <2>1
<1> QED
  BY <1>1, <1>2 DEF Allowed

\* The lines that line Len(L) + 1 lies right inside of.
LEMMA BeforeNew ==
  ASSUME NEW T, NEW L \in Seq(T), NEW kw \in T, NEW kws
  PROVE  /\ Depth(Append(L, kw), Len(L) + 1) = Depth(L, Len(L) + 1)
         /\ Before(Append(L, kw), Len(L) + 1, kws) = LinesAt(L, Depth(L, Len(L) + 1), kws)
<1> DEFINE M == Append(L, kw)
           N == Len(L) + 1
<1>1. Depth(M, N) = Depth(L, N)
  BY CountBefore DEF Depth
<1>2. \A j \in 1..Len(L) : M[j] = L[j] /\ Inside(M, j) = Inside(L, j)
  BY NestedBefore
<1>3. 1..(N - 1) = 1..Len(L) /\ DOMAIN L = 1..Len(L)
  OBVIOUS
<1> QED
  BY <1>1, <1>2, <1>3 DEF Before, LinesAt

\* And how deep those lie that will follow.
LEMMA DepthStep ==
  ASSUME NEW T, NEW L \in Seq(T), NEW kw \in T
  PROVE  Depth(Append(L, kw), Len(L) + 2)
           = Depth(L, Len(L) + 1) + (IF kw \in Opens THEN 1 ELSE 0)
                                  - (IF kw \in Closes THEN 1 ELSE 0)
<1>1. Count(L, Len(L) + 1, Opens) \in Nat /\ Count(L, Len(L) + 1, Closes) \in Nat
  BY CountType
<1> QED
  BY <1>1, CountStep DEF Depth

LEMMA LinesAtStep ==
  ASSUME NEW T, NEW L \in Seq(T), NEW kw \in T, NEW kws, NEW d
  PROVE  LinesAt(Append(L, kw), d, kws)
           = LinesAt(L, d, kws)
             \cup (IF kw \in kws /\ Inside(Append(L, kw), Len(L) + 1) = d THEN {Len(L) + 1} ELSE {})
<1> DEFINE M == Append(L, kw)
<1>1. \A j \in 1..Len(L) : M[j] = L[j] /\ Inside(M, j) = Inside(L, j)
  BY NestedBefore
<1>2. DOMAIN M = 1..(Len(L) + 1) /\ DOMAIN L = 1..Len(L) /\ M[Len(L) + 1] = kw
  OBVIOUS
<1>3. 1..(Len(L) + 1) = 1..Len(L) \cup {Len(L) + 1}
  OBVIOUS
<1> QED
  BY <1>1, <1>2, <1>3 DEF LinesAt

LEMMA InsideNew ==
  ASSUME NEW T, NEW L \in Seq(T), NEW kw \in T
  PROVE  Inside(Append(L, kw), Len(L) + 1)
           = IF kw \in Opens THEN Depth(L, Len(L) + 1) + 1
             ELSE IF kw \in Splits THEN Depth(L, Len(L) + 1) ELSE -1
BY BeforeNew DEF Inside

-----------------------------------------------------------------------------
(***************************************************************************)
(* The inductive invariant.  A block of the stack stands for the last line *)
(* that opened a block of its depth, and remembers the part it is in: the  *)
(* text tells both without a stack, and so the parser takes what the text  *)
(* allows and hangs a node where the text puts it.  Nothing of this is in  *)
(* the properties, which speak of the tree and of the text only.           *)
(***************************************************************************)
Slots      == {"body", "then", "else"}
BlockTypes == {"function", "if", "else", "for", "do"}
NodeTypes  == Opens \cup {"statement", "loop while", "loop until"}
Dos        == {"do", "do while", "do until"}
Text       == Keywords \cup {OneLineIf, "statement"}

NodeRecords     == [type : NodeTypes, line : Nat]
BlockRecords(l) == [type : BlockTypes, node : Nat, next : DOMAIN l]

\* The list a block of this type adds to.
Part(type) == IF type = "if" THEN "then" ELSE IF type = "else" THEN "else" ELSE "body"

Types ==
  /\ TypeOK
  /\ nodes \in Seq(NodeRecords)
  /\ blocks \in Seq(BlockRecords(list))
  /\ \A x \in DOMAIN list : x[1] \in DOMAIN nodes /\ x[2] \in Slots /\ x = <<x[1], x[2]>>
  /\ \A k \in DOMAIN blocks : blocks[k].next = <<blocks[k].node, Part(blocks[k].type)>>

\* A function is open in the second block or not at all.
Shape ==
  /\ blocks[1] = [type |-> "function", node |-> mainFunction, next |-> <<mainFunction, "body">>]
  /\ currentFunction # mainFunction => Len(blocks) >= 2
  /\ \A k \in DOMAIN blocks : k >= 2 =>
       (blocks[k].type = "function" <=> k = 2 /\ currentFunction # mainFunction)
  /\ \A j, k \in DOMAIN blocks : j < k => blocks[j].node < blocks[k].node

\* The nodes are in the order of their lines, one to a line.
NodeOrder ==
  /\ Len(nodes) >= 1 /\ nodes[1] = [type |-> "function", line |-> 0]
  /\ \A m, n \in DOMAIN nodes : m < n => nodes[m].line < nodes[n].line

\* An IF whose ELSE has not come has nothing in that part.
ElseFree ==
  \A k \in DOMAIN blocks : blocks[k].type = "if" =>
    /\ <<blocks[k].node, "else">> \in DOMAIN list
    /\ list[<<blocks[k].node, "else">>] = <<>>

AllHang == \A n \in DOMAIN nodes : nodes[n].type # "function" => \E x \in DOMAIN list : Hangs(n, x)

\* The function that is open has not come out.
NotYet == currentFunction # mainFunction => ~Contains(generated, currentFunction)

\* The stack is as high as the text is deep.
DepthIs(L, bs) ==
  /\ Depth(L, Len(L) + 1) = Len(bs) - 1
  /\ \A j \in DOMAIN L : L[j] \in Opens \cup Splits => Inside(L, j) >= 1

\* The line that opened block b, whose lines are at depth d, is of its kind.
Opened(L, ns, b, d) ==
  \E o \in Nat :
    /\ IsLast(LinesAt(L, d, Opens), o)
    /\ b.type \in {"function", "for"} => L[o] = b.type
    /\ b.type = "do" => L[o] \in Dos /\ ns[b.node].type = L[o]
    /\ b.type \in {"if", "else"} => L[o] = "if"
    /\ b.type = "if"   => \A j \in LinesAt(L, d, {"else"}) : j <= o
    /\ b.type = "else" => \E j \in LinesAt(L, d, {"else"}) : j > o

\* The part of the block that the parser is in is the one that came last, and
\* the block has the node of its opening, or of its last ELSE IF.
InPart(L, ns, b, d) ==
  \E h \in Nat :
    /\ IsLast(LinesAt(L, d, Opens \cup Splits), h)
    /\ b.type \in {"function", "for", "do"} => ns[b.node].line = h /\ L[h] \in Opens \ {"if"}
    /\ b.type \in {"if", "else"} => IsLast(LinesAt(L, d, {"if", "else if"}), ns[b.node].line)
    /\ b.type = "if"   => ns[b.node].line = h
    /\ b.type = "else" => L[h] = "else"

Follows(L, ns, bs) ==
  /\ DepthIs(L, bs)
  /\ \A k \in DOMAIN bs : k >= 2 => Opened(L, ns, bs[k], k - 1) /\ InPart(L, ns, bs[k], k - 1)

Tree == NodeOrder /\ ElseFree /\ AllHang /\ TreeMatchesText

IInv ==
  /\ Types
  /\ Shape
  /\ Tree
  /\ GeneratedOnce /\ NotYet
  /\ AcceptsNestedBlocks
  /\ status = "parsing" => Follows(lines, nodes, blocks)

-----------------------------------------------------------------------------
(***************************************************************************)
(* The steps of the parser, by what they do to the stack.                  *)
(***************************************************************************)

\* A loop's node becomes that of a loop with its test at the end.
Retypes(m, t) == nodes' = [nodes EXCEPT ![m] = [type |-> t, line |-> @.line]]

\* A line that opens a block, one more statement, the two that go on to the
\* next part of an IF, and a line that closes a block.
Opening(kw) ==
  /\ Node(kw)
  /\ list' = WithNode(IF kw = "function" THEN <<>> ELSE bptr.next,
                      IF kw = "if" THEN {"then", "else"} ELSE {"body"})
  /\ PushBlock(NewBlock(IF kw \in Dos THEN "do" ELSE kw, Slot(kw)))
  /\ IF kw = "function" THEN currentFunction = mainFunction /\ currentFunction' = New
                        ELSE currentFunction' = currentFunction
  /\ kw = "function" => bptr.type = "function"
  /\ generated' = generated

Simple ==
  /\ Node("statement")
  /\ list' = WithNode(bptr.next, {})
  /\ UNCHANGED <<blocks, currentFunction, generated>>

ElseIf ==
  /\ bptr.type = "if"
  /\ Node("if")
  /\ list' = WithNode(<<bptr.node, "else">>, {"then", "else"})
  /\ blocks' = Append(Front(blocks), NewBlock("if", "then"))
  /\ UNCHANGED <<currentFunction, generated>>

Else ==
  /\ bptr.type = "if"
  /\ blocks' = Append(Front(blocks),
                      [type |-> "else", node |-> bptr.node, next |-> <<bptr.node, "else">>])
  /\ UNCHANGED <<nodes, list, currentFunction, generated>>

Closing(kw) ==
  /\ Len(blocks) >= 2 /\ blocks' = Front(blocks)
  /\ \/ nodes' = nodes
     \/ /\ nodes[bptr.node].type = "do" /\ kw \in {"loop while", "loop until"}
        /\ Retypes(bptr.node, kw)
  /\ IF kw = "end function"
     THEN /\ currentFunction # mainFunction /\ bptr.type = "function"
          /\ generated' = Append(generated, currentFunction)
          /\ currentFunction' = mainFunction
     ELSE bptr.type # "function" /\ UNCHANGED <<generated, currentFunction>>
  /\ list' = list

Parses(kw) ==
  /\ status = "parsing" /\ status' = "parsing"
  /\ lines' = Append(lines, kw)
  /\ \/ kw \in Opens /\ Opening(kw)
     \/ kw = "statement" /\ Simple
     \/ kw = "else if" /\ ElseIf
     \/ kw = "else" /\ Else
     \/ kw \in Closes /\ Closing(kw)

LEMMA KeywordsApart ==
  /\ Keywords = Opens \cup Splits \cup Closes
  /\ Opens \cap Splits = {} /\ Opens \cap Closes = {} /\ Splits \cap Closes = {}
  /\ "statement" \notin Keywords /\ OneLineIf \notin Keywords
BY DEF Keywords, Opens, Splits, Closes, OneLineIf

LEMMA SeqElement ==
  ASSUME NEW T, NEW s \in Seq(T), NEW k \in 1..Len(s)
  PROVE  s[k] \in T
OBVIOUS

LEMMA TopOfStack ==
  ASSUME Types, Shape
  PROVE  /\ Len(blocks) \in Nat /\ Len(blocks) >= 1
         /\ MaxBlocks \in Nat /\ Len(blocks) <= MaxBlocks
         /\ Len(blocks) \in DOMAIN blocks /\ bptr = blocks[Len(blocks)]
         /\ bptr \in BlockRecords(list)
         /\ bptr.next \in DOMAIN list /\ bptr.next = <<bptr.node, Part(bptr.type)>>
         /\ bptr.node \in DOMAIN nodes
         /\ Len(blocks) = 1 => bptr.type = "function" /\ currentFunction = mainFunction
         /\ Len(blocks) >= 2 => (bptr.type = "function" <=> Len(blocks) = 2 /\ currentFunction # mainFunction)
<1>1. /\ Len(blocks) \in Nat /\ Len(blocks) >= 1 /\ Len(blocks) \in DOMAIN blocks
      /\ DOMAIN blocks = 1..Len(blocks)
      /\ MaxBlocks \in Nat /\ Len(blocks) <= MaxBlocks
  <2>1. Len(blocks) \in 1..MaxBlocks /\ DOMAIN blocks = 1..Len(blocks)
    BY DEF Types, TypeOK
  <2> QED
    BY <2>1, BlockAssumption
<1>2. bptr = blocks[Len(blocks)]
  BY DEF bptr, Last
<1>3. bptr \in BlockRecords(list)
  <2>1. blocks \in Seq(BlockRecords(list))
    BY DEF Types
  <2>2. Len(blocks) \in 1..Len(blocks)
    BY <1>1
  <2>3. blocks[Len(blocks)] \in BlockRecords(list)
    BY <2>1, <2>2, SeqElement
  <2> QED
    BY <1>2, <2>3
<1>4. bptr.next \in DOMAIN list /\ bptr.node = bptr.next[1] /\ bptr.next = <<bptr.node, Part(bptr.type)>>
  BY <1>1, <1>2 DEF Types, TypeOK
<1>5. bptr.node \in DOMAIN nodes
  <2>1. bptr.next[1] \in DOMAIN nodes
    BY <1>4 DEF Types
  <2> QED
    BY <2>1, <1>4
<1> QED
  BY <1>1, <1>2, <1>3, <1>4, <1>5 DEF Shape

\* WithNode, told list by list.
LEMMA NewLists ==
  ASSUME Types, NEW slots
  PROVE  \A x \in DOMAIN list : x \notin {New} \X slots
<1>1. New \notin DOMAIN nodes
  BY DEF Types, New
<1> QED
  BY <1>1 DEF Types

LEMMA ListsAfter ==
  ASSUME Types, NEW p, NEW slots, list' = WithNode(p, slots)
  PROVE  /\ DOMAIN list' = DOMAIN list \cup ({New} \X slots)
         /\ \A x \in DOMAIN list : list'[x] = IF x = p THEN Append(list[x], New) ELSE list[x]
         /\ \A x \in {New} \X slots : list'[x] = <<>>
<1> DEFINE N == {New} \X slots
<1>1. \A x \in DOMAIN list : x \notin N
  BY NewLists
<1>2. list' = [x \in DOMAIN list \cup N |->
                IF x \in N THEN <<>> ELSE IF x = p THEN Append(list[x], New) ELSE list[x]]
  BY DEF WithNode
<1> HIDE DEF N
<1>3. /\ DOMAIN list' = DOMAIN list \cup N
      /\ \A x \in DOMAIN list : list'[x] = IF x = p THEN Append(list[x], New) ELSE list[x]
      /\ \A x \in N : list'[x] = <<>>
  BY ONLY <1>1, <1>2
<1> QED
  BY <1>3 DEF N

LEMMA ListKept ==
  ASSUME Types, NEW p, NEW slots, list' = WithNode(p, slots), NEW x \in DOMAIN list, x # p
  PROVE  x \in DOMAIN list' /\ list'[x] = list[x]
<1> DEFINE N == {New} \X slots
<1>1. x \notin N
  BY NewLists
<1>2. list' = [y \in DOMAIN list \cup N |->
                IF y \in N THEN <<>> ELSE IF y = p THEN Append(list[y], New) ELSE list[y]]
  BY DEF WithNode
<1> HIDE DEF N
<1>3. x \in DOMAIN list \cup N
  OBVIOUS
<1>4. list'[x] = list[x]
  BY <1>1, <1>2, <1>3
<1>5. DOMAIN list' = DOMAIN list \cup N
  BY <1>2
<1> QED
  BY <1>3, <1>4, <1>5

\* What ParseElseIf makes of the empty ELSE part is what it would be to add to it.
LEMMA FillEmpty ==
  ASSUME Types, NEW e \in DOMAIN list, list[e] = <<>>, NEW slots \in SUBSET Slots
  PROVE  [WithNode(<<>>, slots) EXCEPT ![e] = <<New>>] = WithNode(e, slots)
<1> DEFINE N == {New} \X slots
           D == DOMAIN list \cup N
           F == WithNode(<<>>, slots)
           G == WithNode(e, slots)
<1>1. \A x \in DOMAIN list : x \notin N
  BY NewLists
<1>2. \A x \in DOMAIN list : x # <<>>
  BY DEF Types
<1>3. Append(list[e], New) = <<New>>
  OBVIOUS
<1>4. /\ F = [x \in D |-> F[x]] /\ G = [x \in D |-> G[x]]
      /\ \A x \in N : F[x] = <<>> /\ G[x] = <<>>
      /\ \A x \in DOMAIN list : F[x] = list[x] /\ (x # e => G[x] = list[x])
      /\ G[e] = <<New>>
  <2> HIDE DEF N
  <2> QED
    BY <1>1, <1>2, <1>3 DEF WithNode, N
<1> HIDE DEF F, G, N
<1>5. [F EXCEPT ![e] = <<New>>] = G
  BY <1>1, <1>4
<1> QED
  BY <1>5 DEF F, G

LEMMA RefusedIs ==
  /\ \A kw \in {"if", "for", "do", "do while", "do until"} : Refused(kw) <=> Len(blocks) = MaxBlocks
  /\ Refused("function")
       <=> currentFunction # mainFunction \/ bptr.type # "function" \/ Len(blocks) = MaxBlocks
  /\ Refused("end function") <=> currentFunction = mainFunction \/ bptr.type # "function"
  /\ \A kw \in {"else if", "else"} : Refused(kw) <=> bptr.type # "if"
  /\ Refused("end if") <=> bptr.type \notin {"if", "else"}
  /\ Refused("next") <=> bptr.type # "for"
  /\ Refused("loop") <=> bptr.type # "do"
  /\ \A kw \in {"loop while", "loop until"} :
       Refused(kw) <=> bptr.type # "do" \/ nodes[bptr.node].type # "do"
  /\ ~Refused("statement")
<1>1. \A kw \in {"if", "for", "do", "do while", "do until"} : Refused(kw) <=> Len(blocks) = MaxBlocks
  BY DEF Refused
<1>2. Refused("function")
       <=> currentFunction # mainFunction \/ bptr.type # "function" \/ Len(blocks) = MaxBlocks
  BY DEF Refused
<1>3. Refused("end function") <=> currentFunction = mainFunction \/ bptr.type # "function"
  BY DEF Refused
<1>4. \A kw \in {"else if", "else"} : Refused(kw) <=> bptr.type # "if"
  BY DEF Refused
<1>5. Refused("end if") <=> bptr.type \notin {"if", "else"}
  BY DEF Refused
<1>6. (Refused("next") <=> bptr.type # "for") /\ (Refused("loop") <=> bptr.type # "do")
  BY DEF Refused
<1>7. \A kw \in {"loop while", "loop until"} :
       Refused(kw) <=> bptr.type # "do" \/ nodes[bptr.node].type # "do"
  BY DEF Refused
<1>8. ~Refused("statement")
  BY DEF Refused
<1> QED
  BY <1>1, <1>2, <1>3, <1>4, <1>5, <1>6, <1>7, <1>8

LEMMA Steps == Types /\ Shape /\ ElseFree /\ Accepted => \E kw \in Text \ {OneLineIf} : Parses(kw) /\ ~Refused(kw)
<1> SUFFICES ASSUME Types, Shape, ElseFree, Accepted
             PROVE  \E kw \in Text \ {OneLineIf} : Parses(kw) /\ ~Refused(kw)
  OBVIOUS
<1>n. Len(blocks) # MaxBlocks <=> Len(blocks) < MaxBlocks
  BY TopOfStack
<1>s. Len(blocks) >= 2 \/ (bptr.type = "function" /\ currentFunction = mainFunction)
  <2>0. Len(blocks) \in Nat /\ Len(blocks) >= 1
    BY TopOfStack
  <2>1. Len(blocks) = 1 \/ Len(blocks) >= 2
    BY <2>0
  <2> QED
    BY <2>1, TopOfStack
<1>t. /\ "statement" \in Text \ {OneLineIf}
      /\ \A kw \in Keywords : kw \in Text \ {OneLineIf}
  BY DEF Text, Keywords, OneLineIf
<1>1. CASE ParseSimple
  <2>1. Parses("statement")
    BY <1>1 DEF ParseSimple, Line, Parses, Simple
  <2> QED
    BY <1>t, <2>1, RefusedIs
<1>2. CASE ParseFunction
  <2>1. Line("function") /\ Node("function") /\ ~Refused("function")
    BY <1>2, <1>n, RefusedIs DEF ParseFunction, PushBlock
  <2>2. Opening("function")
    BY <1>2, <2>1 DEF ParseFunction, Opening, Dos, Slot
  <2>3. Parses("function")
    BY <2>1, <2>2 DEF Parses, Line, Opens
  <2> QED
    BY <1>t, <2>1, <2>3 DEF Keywords
<1>3. CASE ParseEndFunction
  <2>1. Line("end function") /\ PopBlock /\ ~Refused("end function")
    BY <1>3, <1>n, RefusedIs DEF ParseEndFunction
  <2>2. Closing("end function")
    BY <1>3, <1>s, <2>1 DEF ParseEndFunction, Closing, PopBlock
  <2>3. Parses("end function")
    BY <2>1, <2>2 DEF Parses, Line, Closes
  <2> QED
    BY <1>t, <2>1, <2>3 DEF Keywords
<1>4. CASE ParseIf
  <2>1. Line("if") /\ Node("if") /\ ~Refused("if")
    BY <1>4, <1>n, RefusedIs DEF ParseIf, PushBlock
  <2>2. Opening("if")
    BY <1>4, <2>1 DEF ParseIf, Opening, Dos, Slot
  <2>3. Parses("if")
    BY <2>1, <2>2 DEF Parses, Line, Opens
  <2> QED
    BY <1>t, <2>1, <2>3 DEF Keywords
<1>5. CASE ParseElseIf
  <2>0. bptr.type = "if" /\ <<bptr.node, "else">> \in DOMAIN list /\ list[<<bptr.node, "else">>] = <<>>
    BY <1>5, TopOfStack DEF ParseElseIf, ElseFree, Types
  <2>2. [WithNode(<<>>, {"then", "else"}) EXCEPT ![<<bptr.node, "else">>] = <<New>>]
          = WithNode(<<bptr.node, "else">>, {"then", "else"})
    BY <2>0, FillEmpty DEF Slots
  <2>1. Parses("else if") /\ ~Refused("else if")
    BY <1>5, <1>n, RefusedIs, <2>2 DEF ParseElseIf, Line, Parses, ElseIf
  <2> QED
    BY <1>t, <2>1 DEF Keywords
<1>6. CASE ParseElse
  <2>1. Parses("else") /\ ~Refused("else")
    BY <1>6, <1>n, RefusedIs DEF ParseElse, Line, Parses, Else
  <2> QED
    BY <1>t, <2>1 DEF Keywords
<1>7. CASE ParseEndIf
  <2>1. Line("end if") /\ PopBlock /\ ~Refused("end if")
    BY <1>7, <1>n, RefusedIs DEF ParseEndIf
  <2>2. Closing("end if")
    BY <1>7, <1>s, <2>1 DEF ParseEndIf, Closing, PopBlock
  <2>3. Parses("end if")
    BY <2>1, <2>2 DEF Parses, Line, Closes
  <2> QED
    BY <1>t, <2>1, <2>3 DEF Keywords
<1>8. CASE ParseFor
  <2>1. Line("for") /\ Node("for") /\ ~Refused("for")
    BY <1>8, <1>n, RefusedIs DEF ParseFor, PushBlock
  <2>2. Opening("for")
    BY <1>8, <2>1 DEF ParseFor, Opening, Dos, Slot
  <2>3. Parses("for")
    BY <2>1, <2>2 DEF Parses, Line, Opens
  <2> QED
    BY <1>t, <2>1, <2>3 DEF Keywords
<1>9. CASE ParseNext
  <2>1. Line("next") /\ PopBlock /\ ~Refused("next")
    BY <1>9, <1>n, RefusedIs DEF ParseNext
  <2>2. Closing("next")
    BY <1>9, <1>s, <2>1 DEF ParseNext, Closing, PopBlock
  <2>3. Parses("next")
    BY <2>1, <2>2 DEF Parses, Line, Closes
  <2> QED
    BY <1>t, <2>1, <2>3 DEF Keywords
<1>10. ASSUME NEW kw \in {"do", "do while", "do until"}, ParseDo(kw)
       PROVE  \E k \in Text \ {OneLineIf} : Parses(k) /\ ~Refused(k)
  <2>1. Line(kw) /\ Node(kw) /\ ~Refused(kw)
    BY <1>10, <1>n, RefusedIs DEF ParseDo, PushBlock
  <2>2. Opening(kw)
    BY <1>10, <2>1 DEF ParseDo, Opening, Dos, Slot
  <2>3. Parses(kw)
    BY <2>1, <2>2 DEF Parses, Line, Opens
  <2> QED
    BY <1>t, <2>1, <2>3 DEF Keywords
<1>11. CASE ParseLoop
  <2>1. Line("loop") /\ PopBlock /\ ~Refused("loop")
    BY <1>11, <1>n, RefusedIs DEF ParseLoop
  <2>2. Closing("loop")
    BY <1>11, <1>s, <2>1 DEF ParseLoop, Closing, PopBlock
  <2>3. Parses("loop")
    BY <2>1, <2>2 DEF Parses, Line, Closes
  <2> QED
    BY <1>t, <2>1, <2>3 DEF Keywords
<1>12. ASSUME NEW kw \in {"loop while", "loop until"}, ParseLoopTest(kw)
       PROVE  \E k \in Text \ {OneLineIf} : Parses(k) /\ ~Refused(k)
  <2>1. Line(kw) /\ PopBlock /\ ~Refused(kw)
    BY <1>12, <1>n, RefusedIs DEF ParseLoopTest
  <2>2. Closing(kw)
    BY <1>12, <1>s, <2>1 DEF ParseLoopTest, Closing, PopBlock, Retypes
  <2>3. Parses(kw)
    BY <2>1, <2>2 DEF Parses, Line, Closes
  <2> QED
    BY <1>t, <2>1, <2>3 DEF Keywords
<1> QED
  BY <1>1, <1>2, <1>3, <1>4, <1>5, <1>6, <1>7, <1>8, <1>9, <1>10, <1>11, <1>12 DEF Accepted

-----------------------------------------------------------------------------
(* Types. *)

LEMMA FrontIs ==
  ASSUME NEW T, NEW s \in Seq(T), Len(s) >= 1
  PROVE  /\ Front(s) \in Seq(T) /\ Len(Front(s)) = Len(s) - 1
         /\ DOMAIN s = 1..Len(s) /\ DOMAIN Front(s) = 1..(Len(s) - 1)
         /\ \A k \in 1..(Len(s) - 1) : Front(s)[k] = s[k]
<1>1. Front(s) = [k \in 1..(Len(s) - 1) |-> s[k]]
  BY DEF Front
<1>2. Len(s) - 1 \in Nat /\ \A k \in 1..(Len(s) - 1) : s[k] \in T
  OBVIOUS
<1> QED
  BY <1>1, <1>2

LEMMA AppendIs ==
  ASSUME NEW T, NEW s \in Seq(T), NEW e
  PROVE  /\ DOMAIN s = 1..Len(s) /\ Len(s) \in Nat
         /\ e \in T => Append(s, e) \in Seq(T)
         /\ Len(Append(s, e)) = Len(s) + 1 /\ DOMAIN Append(s, e) = 1..(Len(s) + 1)
         /\ \A k \in 1..Len(s) : Append(s, e)[k] = s[k]
         /\ Append(s, e)[Len(s) + 1] = e
OBVIOUS

LEMMA LargerSeq ==
  ASSUME NEW S, NEW T, S \subseteq T, NEW s \in Seq(S)
  PROVE  s \in Seq(T)
OBVIOUS

\* A new node, and what was there.
LEMMA NodeAdded ==
  ASSUME Types, NEW t \in NodeTypes, Node(t)
  PROVE  /\ nodes' \in Seq(NodeRecords)
         /\ New \in Nat /\ New \notin DOMAIN nodes /\ DOMAIN nodes' = DOMAIN nodes \cup {New}
         /\ \A n \in DOMAIN nodes : nodes'[n] = nodes[n] /\ n \in 1..(New - 1)
         /\ nodes'[New].type = t /\ nodes'[New].line = Len(lines) + 1 /\ Len(nodes') = New
<1> DEFINE e == [type |-> t, line |-> Len(lines) + 1]
<1>1. nodes \in Seq(NodeRecords) /\ nodes' = Append(nodes, e) /\ Len(lines) + 1 \in Nat
  BY DEF Types, TypeOK, Node
<1>2. e \in NodeRecords /\ e.type = t /\ e.line = Len(lines) + 1
  BY <1>1 DEF NodeRecords
<1> HIDE DEF e
<1>3. /\ DOMAIN nodes = 1..Len(nodes) /\ Len(nodes) \in Nat
      /\ nodes' \in Seq(NodeRecords) /\ Len(nodes') = Len(nodes) + 1
      /\ DOMAIN nodes' = 1..(Len(nodes) + 1)
      /\ \A k \in 1..Len(nodes) : nodes'[k] = nodes[k]
      /\ nodes'[Len(nodes) + 1] = e
  BY <1>1, <1>2, AppendIs
<1>4. 1..(Len(nodes) + 1) = 1..Len(nodes) \cup {Len(nodes) + 1}
  BY <1>3
<1> QED
  BY <1>2, <1>3, <1>4 DEF New

\* The lists' part of Types.
ListType(l, ns) ==
  \A x \in DOMAIN l : /\ x[1] \in DOMAIN ns /\ x[2] \in Slots /\ x = <<x[1], x[2]>>
                      /\ l[x] \in Seq(DOMAIN ns)

LEMMA ListAdded ==
  ASSUME Types, NEW t \in NodeTypes, Node(t),
         NEW p, NEW slots \in SUBSET Slots, list' = WithNode(p, slots)
  PROVE  ListType(list', nodes') /\ DOMAIN list \subseteq DOMAIN list'
<1>1. /\ DOMAIN list' = DOMAIN list \cup ({New} \X slots)
      /\ \A x \in DOMAIN list : list'[x] = IF x = p THEN Append(list[x], New) ELSE list[x]
      /\ \A x \in {New} \X slots : list'[x] = <<>>
  BY ListsAfter
<1>2. DOMAIN nodes' = DOMAIN nodes \cup {New}
  BY NodeAdded
<1>3. ASSUME NEW x \in DOMAIN list
      PROVE  /\ x[1] \in DOMAIN nodes' /\ x[2] \in Slots /\ x = <<x[1], x[2]>>
             /\ list'[x] \in Seq(DOMAIN nodes')
  <2>1. list[x] \in Seq(DOMAIN nodes) /\ x[1] \in DOMAIN nodes /\ x[2] \in Slots /\ x = <<x[1], x[2]>>
    BY DEF Types, TypeOK
  <2>2. list[x] \in Seq(DOMAIN nodes')
    BY <2>1, <1>2, LargerSeq
  <2>3. Append(list[x], New) \in Seq(DOMAIN nodes')
    BY <2>2, <1>2, AppendIs
  <2> QED
    BY <2>1, <2>2, <2>3, <1>1, <1>2
<1>4. ASSUME NEW x \in {New} \X slots
      PROVE  /\ x[1] \in DOMAIN nodes' /\ x[2] \in Slots /\ x = <<x[1], x[2]>>
             /\ list'[x] \in Seq(DOMAIN nodes')
  <2>1. x[1] = New /\ x[2] \in Slots /\ x = <<x[1], x[2]>>
    OBVIOUS
  <2>2. <<>> \in Seq(DOMAIN nodes')
    OBVIOUS
  <2> QED
    BY <2>1, <2>2, <1>1, <1>2
<1> QED
  BY <1>1, <1>3, <1>4 DEF ListType

\* The blocks' part.
BlockType(b, l) ==
  b \in BlockRecords(l) /\ b.next = <<b.node, Part(b.type)>>

StackType(bs, l) ==
  /\ bs \in Seq(BlockRecords(l))
  /\ Len(bs) \in 1..MaxBlocks
  /\ \A k \in DOMAIN bs : bs[k].next = <<bs[k].node, Part(bs[k].type)>>

TypeParts ==
  /\ lines \in Seq(Text)
  /\ nodes \in Seq(NodeRecords)
  /\ \A n \in DOMAIN nodes : nodes[n].line \in 0..Len(lines)
  /\ ListType(list, nodes)
  /\ StackType(blocks, list)
  /\ currentFunction \in DOMAIN nodes
  /\ generated \in Seq(DOMAIN nodes)
  /\ status \in {"parsing", "error", "compiled"}

LEMMA TypesParts == Types <=> TypeParts
<1>1. Types => ListType(list, nodes)
  BY DEF Types, TypeOK, ListType
<1>2. Types => StackType(blocks, list)
  BY DEF Types, TypeOK, StackType
<1>3. ASSUME StackType(blocks, list), NEW k \in DOMAIN blocks
      PROVE  blocks[k].next \in DOMAIN list /\ blocks[k].node = blocks[k].next[1]
  <2> DEFINE R == BlockRecords(list)
  <2>1. blocks \in Seq(R) /\ k \in 1..Len(blocks)
    BY <1>3 DEF StackType
  <2>2. blocks[k] \in R
    BY <2>1, SeqElement
  <2>3. blocks[k].next = <<blocks[k].node, Part(blocks[k].type)>>
    BY <1>3 DEF StackType
  <2> QED
    BY <2>2, <2>3 DEF BlockRecords
<1>4. ASSUME ListType(list, nodes), NEW x \in DOMAIN list
      PROVE  /\ x[1] \in DOMAIN nodes /\ x[2] \in Slots /\ x = <<x[1], x[2]>>
             /\ list[x] \in Seq(DOMAIN nodes)
  BY <1>4 DEF ListType
<1> QED
  BY <1>1, <1>2, <1>3, <1>4 DEF Types, TypeOK, StackType, Text, TypeParts

LEMMA TypesPartsPrimed == Types' <=> TypeParts'
BY TypesParts, PTL

LEMMA StackGrows ==
  ASSUME NEW bs, NEW l, NEW m, DOMAIN l \subseteq DOMAIN m, StackType(bs, l)
  PROVE  StackType(bs, m)
<1>1. BlockRecords(l) \subseteq BlockRecords(m) /\ bs \in Seq(BlockRecords(l))
  BY DEF StackType, BlockRecords
<1>2. bs \in Seq(BlockRecords(m))
  BY <1>1, LargerSeq
<1> QED
  BY <1>2 DEF StackType

LEMMA StackPops ==
  ASSUME NEW bs, NEW l, StackType(bs, l)
  PROVE  /\ Len(bs) >= 2 => StackType(Front(bs), l)
         /\ \A b : BlockType(b, l) /\ Len(bs) < MaxBlocks => StackType(Append(bs, b), l)
         /\ \A b : BlockType(b, l) => StackType(Append(Front(bs), b), l)
<1> DEFINE R == BlockRecords(l)
<1>1. bs \in Seq(R) /\ Len(bs) \in Nat /\ Len(bs) >= 1 /\ Len(bs) <= MaxBlocks /\ MaxBlocks \in Nat
      /\ \A k \in DOMAIN bs : bs[k].next = <<bs[k].node, Part(bs[k].type)>>
  <2>1. Len(bs) \in 1..MaxBlocks /\ MaxBlocks \in Nat
    BY BlockAssumption DEF StackType
  <2> QED
    BY <2>1 DEF StackType
<1> DEFINE Fits(s) == s \in Seq(R) /\ \A k \in DOMAIN s : s[k].next = <<s[k].node, Part(s[k].type)>>
<1>2. ASSUME NEW s, Fits(s), NEW b, BlockType(b, l)
      PROVE  Fits(Append(s, b)) /\ Len(Append(s, b)) = Len(s) + 1
  <2>1. b \in R /\ b.next = <<b.node, Part(b.type)>>
    BY <1>2 DEF BlockType
  <2> HIDE DEF R
  <2>2. /\ Append(s, b) \in Seq(R) /\ Len(Append(s, b)) = Len(s) + 1
        /\ DOMAIN s = 1..Len(s) /\ Len(s) \in Nat
        /\ DOMAIN Append(s, b) = 1..(Len(s) + 1)
        /\ \A k \in 1..Len(s) : Append(s, b)[k] = s[k]
        /\ Append(s, b)[Len(s) + 1] = b
    BY <2>1, <1>2, AppendIs
  <2>3. \A k \in 1..(Len(s) + 1) : k \in 1..Len(s) \/ k = Len(s) + 1
    BY <2>2
  <2> QED
    BY <2>1, <2>2, <2>3, <1>2
<1>3. Fits(Front(bs)) /\ Len(Front(bs)) = Len(bs) - 1
  <2>1. /\ Front(bs) \in Seq(R) /\ Len(Front(bs)) = Len(bs) - 1
        /\ DOMAIN bs = 1..Len(bs) /\ DOMAIN Front(bs) = 1..(Len(bs) - 1)
        /\ \A k \in 1..(Len(bs) - 1) : Front(bs)[k] = bs[k]
    <3> HIDE DEF R
    <3> QED
      BY <1>1, FrontIs
  <2>2. 1..(Len(bs) - 1) \subseteq 1..Len(bs)
    BY <1>1
  <2> QED
    BY <2>1, <2>2, <1>1
<1>4. \A s : StackType(s, l) <=> Fits(s) /\ Len(s) \in 1..MaxBlocks
  BY DEF StackType
<1> HIDE DEF Fits
<1>5. Len(bs) >= 2 => Len(bs) - 1 \in 1..MaxBlocks
  BY <1>1
<1>6. ASSUME NEW b, BlockType(b, l) PROVE StackType(Append(Front(bs), b), l)
  <2>1. Fits(Append(Front(bs), b)) /\ Len(Append(Front(bs), b)) = Len(bs) - 1 + 1
    BY <1>2, <1>3, <1>6
  <2>2. Len(bs) - 1 + 1 \in 1..MaxBlocks
    BY <1>1
  <2> QED
    BY <2>1, <2>2, <1>4
<1>7. ASSUME NEW b, BlockType(b, l), Len(bs) < MaxBlocks PROVE StackType(Append(bs, b), l)
  <2>1. Fits(Append(bs, b)) /\ Len(Append(bs, b)) = Len(bs) + 1
    BY <1>2, <1>4, <1>7
  <2>2. Len(bs) + 1 \in 1..MaxBlocks
    BY <1>1, <1>7
  <2> QED
    BY <2>1, <2>2, <1>4
<1> QED
  BY <1>3, <1>4, <1>5, <1>6, <1>7

LEMMA NodeRetyped ==
  ASSUME Types, NEW kw \in {"loop while", "loop until"}, NEW m \in DOMAIN nodes, Retypes(m, kw)
  PROVE  /\ nodes' \in Seq(NodeRecords)
         /\ DOMAIN nodes' = DOMAIN nodes /\ Len(nodes') = Len(nodes)
         /\ nodes'[m].type = kw
         /\ \A n \in DOMAIN nodes : nodes'[n].line = nodes[n].line /\ (n # m => nodes'[n] = nodes[n])
<1> DEFINE e == [type |-> kw, line |-> nodes[m].line]
<1>1. nodes \in Seq(NodeRecords)
  BY DEF Types
<1>2. m \in 1..Len(nodes) /\ DOMAIN nodes = 1..Len(nodes)
  BY <1>1, AppendIs
<1>3. nodes[m] \in NodeRecords
  BY <1>1, <1>2, SeqElement
<1>4. e \in NodeRecords /\ e.line = nodes[m].line /\ e.type = kw
  BY <1>3 DEF NodeRecords, NodeTypes
<1>5. nodes' = [nodes EXCEPT ![m] = e]
  BY DEF Retypes
<1> HIDE DEF e
<1>6. /\ nodes' \in Seq(NodeRecords) /\ Len(nodes') = Len(nodes)
      /\ \A n \in 1..Len(nodes) : nodes'[n] = IF n = m THEN e ELSE nodes[n]
  BY <1>1, <1>2, <1>4, <1>5, ExceptSeq
<1>7. DOMAIN nodes' = DOMAIN nodes
  BY <1>5
<1> QED
  BY <1>2, <1>4, <1>6, <1>7

\* A step that adds a node.
LEMMA TypesGrow ==
  ASSUME Types, NEW kw \in Text, lines' = Append(lines, kw), NEW t \in NodeTypes, Node(t),
         NEW p, NEW slots \in SUBSET Slots, list' = WithNode(p, slots), StackType(blocks', list'),
         currentFunction' \in DOMAIN nodes \cup {New}, generated' = generated, status' = status
  PROVE  Types'
<1> DEFINE i == Len(lines) + 1
<1>1. TypeParts
  BY TypesParts
<1>2. lines' \in Seq(Text) /\ Len(lines') = i /\ i \in Nat /\ Len(lines) \in Nat
  BY <1>1, AppendIs DEF TypeParts
<1> HIDE DEF i
<1>3. /\ nodes' \in Seq(NodeRecords)
      /\ DOMAIN nodes' = DOMAIN nodes \cup {New}
      /\ \A n \in DOMAIN nodes : nodes'[n] = nodes[n]
      /\ nodes'[New].line = i
  BY <1>2, NodeAdded DEF i
<1>4. \A n \in DOMAIN nodes' : nodes'[n].line \in 0..Len(lines')
  <2>1. 0..Len(lines) \subseteq 0..Len(lines') /\ i \in 0..Len(lines')
    BY <1>2 DEF i
  <2>2. \A n \in DOMAIN nodes : nodes[n].line \in 0..Len(lines)
    BY <1>1 DEF TypeParts
  <2> QED
    BY <1>3, <2>1, <2>2
<1>5. ListType(list', nodes')
  BY ListAdded
<1>6. generated' \in Seq(DOMAIN nodes') /\ currentFunction' \in DOMAIN nodes'
  BY <1>1, <1>3, LargerSeq DEF TypeParts
<1>7. status' \in {"parsing", "error", "compiled"}
  BY <1>1 DEF TypeParts
<1> QED
  BY <1>2, <1>3, <1>4, <1>5, <1>6, <1>7, TypesPartsPrimed DEF TypeParts

\* A step that adds none, or turns a loop's node into another.
LEMMA TypesStay ==
  ASSUME Types, NEW kw \in Text, lines' = Append(lines, kw),
         \/ nodes' = nodes
         \/ \E m \in DOMAIN nodes, k \in {"loop while", "loop until"} : Retypes(m, k),
         list' = list, StackType(blocks', list'),
         currentFunction' \in DOMAIN nodes, generated' \in Seq(DOMAIN nodes),
         status' \in {"parsing", "error", "compiled"}
  PROVE  Types'
<1>1. TypeParts
  BY TypesParts
<1>2. lines' \in Seq(Text) /\ Len(lines') = Len(lines) + 1 /\ Len(lines) \in Nat
  BY <1>1, AppendIs DEF TypeParts
<1>3. /\ nodes' \in Seq(NodeRecords) /\ DOMAIN nodes' = DOMAIN nodes
      /\ \A n \in DOMAIN nodes : nodes'[n].line = nodes[n].line
  <2>1. CASE nodes' = nodes
    BY <2>1, <1>1 DEF TypeParts
  <2>2. ASSUME NEW m \in DOMAIN nodes, NEW k \in {"loop while", "loop until"}, Retypes(m, k)
        PROVE  /\ nodes' \in Seq(NodeRecords) /\ DOMAIN nodes' = DOMAIN nodes
               /\ \A n \in DOMAIN nodes : nodes'[n].line = nodes[n].line
    BY <2>2, NodeRetyped
  <2> QED
    BY <2>1, <2>2
<1>4. \A n \in DOMAIN nodes' : nodes'[n].line \in 0..Len(lines')
  <2>1. 0..Len(lines) \subseteq 0..Len(lines')
    BY ONLY <1>2
  <2> QED
    BY <1>1, <1>3, <2>1 DEF TypeParts
<1>5. ListType(list', nodes')
  BY <1>1, <1>3 DEF TypeParts, ListType
<1> QED
  BY <1>2, <1>3, <1>4, <1>5, TypesPartsPrimed DEF TypeParts

LEMMA NewBlockType ==
  ASSUME Types, NEW type \in BlockTypes, NEW slot \in Slots, slot = Part(type), NEW l,
         <<New, slot>> \in DOMAIN l
  PROVE  BlockType(NewBlock(type, slot), l)
<1>1. New \in Nat
  BY DEF Types, New
<1> QED
  BY <1>1 DEF BlockType, NewBlock, BlockRecords

LEMMA TypesStep ==
  ASSUME Types, Shape, ElseFree, NEW kw \in Text, Parses(kw)
  PROVE  Types'
<1>1. StackType(blocks, list) /\ currentFunction \in DOMAIN nodes /\ generated \in Seq(DOMAIN nodes)
  BY TypesParts DEF TypeParts
<1>2. /\ Len(blocks) \in Nat /\ Len(blocks) >= 1
      /\ bptr.node \in DOMAIN nodes /\ bptr.next \in DOMAIN list
  BY TopOfStack
<1>3. lines' = Append(lines, kw) /\ status' = status /\ status' \in {"parsing", "error", "compiled"}
  BY DEF Parses
<1>5. CASE kw \in Opens /\ Opening(kw)
  <2> DEFINE type == IF kw \in Dos THEN "do" ELSE kw
             p == IF kw = "function" THEN <<>> ELSE bptr.next
             slots == IF kw = "if" THEN {"then", "else"} ELSE {"body"}
  <2>1. /\ Node(kw) /\ list' = WithNode(p, slots)
        /\ Len(blocks) < MaxBlocks /\ blocks' = Append(blocks, NewBlock(type, Slot(kw)))
        /\ currentFunction' \in DOMAIN nodes \cup {New} /\ generated' = generated
    BY <1>1, <1>5 DEF Opening, PushBlock
  <2>2. /\ kw \in NodeTypes /\ slots \in SUBSET Slots /\ type \in BlockTypes
        /\ Slot(kw) \in slots /\ Slot(kw) = Part(type)
    BY <1>5 DEF NodeTypes, Slots, Opens, Slot, Part, BlockTypes, Dos
  <2> HIDE DEF type, p, slots
  <2>3. DOMAIN list' = DOMAIN list \cup ({New} \X slots)
    BY <2>1, ListsAfter
  <2>4. <<New, Slot(kw)>> \in DOMAIN list' /\ Slot(kw) \in Slots
    BY <2>2, <2>3
  <2>5. BlockType(NewBlock(type, Slot(kw)), list')
    BY <2>2, <2>4, NewBlockType
  <2>6. StackType(blocks, list')
    BY <1>1, <2>3, StackGrows
  <2>7. StackType(blocks', list')
    BY <2>1, <2>5, <2>6, StackPops
  <2> QED
    BY <1>3, <2>1, <2>2, <2>7, TypesGrow
<1>6. CASE kw = "statement" /\ Simple
  <2>1. /\ Node("statement") /\ list' = WithNode(bptr.next, {}) /\ blocks' = blocks
        /\ currentFunction' \in DOMAIN nodes \cup {New} /\ generated' = generated
    BY <1>1, <1>6 DEF Simple
  <2>2. "statement" \in NodeTypes /\ {} \in SUBSET Slots
    BY DEF NodeTypes
  <2>3. DOMAIN list \subseteq DOMAIN list'
    BY <2>1, <2>2, ListAdded
  <2>4. StackType(blocks', list')
    BY <1>1, <2>1, <2>3, StackGrows
  <2> QED
    BY <1>3, <2>1, <2>2, <2>4, TypesGrow
<1>7. CASE kw = "else if" /\ ElseIf
  <2> DEFINE slots == {"then", "else"}
             p == <<bptr.node, "else">>
  <2>1. /\ Node("if") /\ list' = WithNode(p, slots)
        /\ blocks' = Append(Front(blocks), NewBlock("if", "then"))
        /\ currentFunction' \in DOMAIN nodes \cup {New} /\ generated' = generated
    BY <1>1, <1>7 DEF ElseIf
  <2>2. "if" \in NodeTypes /\ slots \in SUBSET Slots /\ "if" \in BlockTypes /\ "then" \in Slots
        /\ "then" = Part("if") /\ "then" \in slots
    BY DEF NodeTypes, Slots, Opens, BlockTypes, Part
  <2> HIDE DEF p, slots
  <2>3. DOMAIN list' = DOMAIN list \cup ({New} \X slots)
    BY <2>1, ListsAfter
  <2>4. <<New, "then">> \in DOMAIN list'
    BY <2>2, <2>3
  <2>5. BlockType(NewBlock("if", "then"), list')
    BY <2>2, <2>4, NewBlockType
  <2>6. StackType(blocks, list')
    BY <1>1, <2>3, StackGrows
  <2>7. StackType(blocks', list')
    BY <2>1, <2>5, <2>6, StackPops
  <2> QED
    BY <1>3, <2>1, <2>2, <2>7, TypesGrow
<1>8. CASE kw = "else" /\ Else
  <2> DEFINE b == [type |-> "else", node |-> bptr.node, next |-> <<bptr.node, "else">>]
  <2>1. blocks' = Append(Front(blocks), b) /\ UNCHANGED <<nodes, list, currentFunction, generated>>
    BY <1>8 DEF Else
  <2>2. <<bptr.node, "else">> \in DOMAIN list
    BY <1>8, TopOfStack DEF Else, ElseFree
  <2>3. bptr.node \in Nat
    BY TopOfStack DEF BlockRecords
  <2>4. BlockType(b, list)
    BY <2>2, <2>3 DEF BlockType, BlockRecords, BlockTypes, Part
  <2> HIDE DEF b
  <2>5. StackType(blocks', list)
    BY <1>1, <2>1, <2>4, StackPops
  <2> QED
    BY <1>1, <1>3, <2>1, <2>5, TypesStay
<1>9. CASE kw \in Closes /\ Closing(kw)
  <2>1. /\ Len(blocks) >= 2 /\ blocks' = Front(blocks) /\ list' = list
        /\ \/ nodes' = nodes
           \/ \E m \in DOMAIN nodes, k \in {"loop while", "loop until"} : Retypes(m, k)
    BY <1>2, <1>9 DEF Closing
  <2>2. /\ mainFunction \in DOMAIN nodes
        /\ \/ generated' = generated /\ currentFunction' = currentFunction
           \/ generated' = Append(generated, currentFunction) /\ currentFunction' = mainFunction
    <3>1. mainFunction \in DOMAIN nodes
      BY <1>1, TypesParts DEF mainFunction, TypeParts
    <3> QED
      BY <3>1, <1>9 DEF Closing
  <2>3. generated' \in Seq(DOMAIN nodes) /\ currentFunction' \in DOMAIN nodes
    BY <1>1, <2>2, AppendIs
  <2>4. StackType(blocks', list')
    BY <1>1, <2>1, StackPops
  <2> QED
    BY <1>3, <2>1, <2>3, <2>4, TypesStay
<1> QED
  BY <1>5, <1>6, <1>7, <1>8, <1>9 DEF Parses

-----------------------------------------------------------------------------
(* The stack. *)

LEMMA PushIs ==
  ASSUME Types, NEW b, blocks' = Append(blocks, b)
  PROVE  /\ Len(blocks') = Len(blocks) + 1 /\ DOMAIN blocks' = 1..(Len(blocks) + 1)
         /\ \A k \in 1..Len(blocks) : blocks'[k] = blocks[k]
         /\ blocks'[Len(blocks) + 1] = b
BY AppendIs DEF Types

LEMMA PopIs ==
  ASSUME Types, Len(blocks) >= 1, blocks' = Front(blocks)
  PROVE  /\ Len(blocks') = Len(blocks) - 1 /\ DOMAIN blocks' = 1..(Len(blocks) - 1)
         /\ \A k \in 1..(Len(blocks) - 1) : blocks'[k] = blocks[k]
BY FrontIs DEF Types

LEMMA ReplaceIs ==
  ASSUME Types, Len(blocks) >= 1, Len(blocks) \in Nat, NEW b, blocks' = Append(Front(blocks), b)
  PROVE  /\ Len(blocks') = Len(blocks) /\ DOMAIN blocks' = 1..Len(blocks)
         /\ \A k \in 1..(Len(blocks) - 1) : blocks'[k] = blocks[k]
         /\ blocks'[Len(blocks)] = b
<1>1. /\ Front(blocks) \in Seq(BlockRecords(list)) /\ Len(Front(blocks)) = Len(blocks) - 1
      /\ \A k \in 1..(Len(blocks) - 1) : Front(blocks)[k] = blocks[k]
  BY FrontIs DEF Types
<1>2. /\ Len(blocks') = Len(blocks) - 1 + 1 /\ DOMAIN blocks' = 1..(Len(blocks) - 1 + 1)
      /\ \A k \in 1..(Len(blocks) - 1) : blocks'[k] = Front(blocks)[k]
      /\ blocks'[Len(blocks) - 1 + 1] = b
  BY <1>1, AppendIs
<1>3. Len(blocks) - 1 + 1 = Len(blocks)
  OBVIOUS
<1> QED
  BY <1>1, <1>2, <1>3

LEMMA NewBlockIs ==
  ASSUME NEW type, NEW slot
  PROVE  /\ NewBlock(type, slot).type = type /\ NewBlock(type, slot).node = New
         /\ NewBlock(type, slot).next = <<New, slot>>
BY DEF NewBlock

LEMMA BlockNodes ==
  ASSUME Types, NEW k \in DOMAIN blocks
  PROVE  /\ blocks[k].node \in DOMAIN nodes /\ blocks[k].node \in 1..(New - 1)
         /\ blocks[k].type \in BlockTypes /\ blocks[k].node \in Nat /\ New \in Nat
         /\ blocks[k].next = <<blocks[k].node, Part(blocks[k].type)>> /\ blocks[k].next \in DOMAIN list
<1>1. blocks[k].next \in DOMAIN list /\ blocks[k].node = blocks[k].next[1]
  BY DEF Types, TypeOK
<1>2. blocks[k].next[1] \in DOMAIN nodes
  BY <1>1 DEF Types
<1>3. DOMAIN nodes = 1..(New - 1) /\ New \in Nat
  <2>1. DOMAIN nodes = 1..Len(nodes) /\ Len(nodes) \in Nat
    BY AppendIs DEF Types
  <2> QED
    BY <2>1 DEF New
<1>4. blocks[k] \in BlockRecords(list)
  <2>1. DOMAIN blocks = 1..Len(blocks)
    BY AppendIs DEF Types
  <2> QED
    BY <2>1, SeqElement DEF Types
<1> QED
  BY <1>1, <1>2, <1>3, <1>4 DEF BlockRecords, Types

LEMMA ShapeStep ==
  ASSUME Types, Shape, ElseFree, NEW kw \in Text, Parses(kw)
  PROVE  Shape'
<1> DEFINE N == Len(blocks)
<1>1. N \in Nat /\ N >= 1 /\ DOMAIN blocks = 1..N /\ bptr = blocks[N] /\ N \in 1..N
  BY TopOfStack, AppendIs DEF Types
<1>2. N = 1 => bptr.type = "function" /\ currentFunction = mainFunction
  BY TopOfStack
<1>3. N >= 2 => (bptr.type = "function" <=> N = 2 /\ currentFunction # mainFunction)
  BY TopOfStack
<1>4. \A k \in 1..N : blocks[k].node < New
  <2>1. \A k \in 1..N : blocks[k].node \in 1..(New - 1) /\ New \in Nat
    BY <1>1, BlockNodes
  <2> QED
    BY <2>1
<1>5. /\ blocks[1] = [type |-> "function", node |-> mainFunction, next |-> <<mainFunction, "body">>]
      /\ currentFunction # mainFunction => N >= 2
      /\ \A k \in 1..N : k >= 2 => (blocks[k].type = "function" <=> k = 2 /\ currentFunction # mainFunction)
      /\ \A j, k \in 1..N : j < k => blocks[j].node < blocks[k].node
  BY <1>1 DEF Shape
<1>6. New # mainFunction
  BY <1>1, <1>4, BlockNodes DEF mainFunction
<1> HIDE DEF N
<1>7. CASE kw \in Opens /\ Opening(kw)
  <2> DEFINE type == IF kw \in Dos THEN "do" ELSE kw
             b == NewBlock(type, Slot(kw))
  <2>1. /\ blocks' = Append(blocks, b)
        /\ IF kw = "function" THEN currentFunction = mainFunction /\ currentFunction' = New
                              ELSE currentFunction' = currentFunction
        /\ kw = "function" => bptr.type = "function"
    BY <1>7 DEF Opening, PushBlock
  <2>2. b.type = type /\ b.node = New
    BY NewBlockIs
  <2>3. type = "function" <=> kw = "function"
    BY DEF Dos
  <2> HIDE DEF b, type
  <2>4. /\ Len(blocks') = N + 1 /\ DOMAIN blocks' = 1..(N + 1)
        /\ \A k \in 1..N : blocks'[k] = blocks[k]
        /\ blocks'[N + 1] = b
    BY <2>1, PushIs DEF N
  <2>5. \A k \in 1..(N + 1) : k \in 1..N \/ k = N + 1
    BY <1>1
  <2>6. \A j, k \in 1..(N + 1) : j < k => blocks'[j].node < blocks'[k].node
    <3> SUFFICES ASSUME NEW j \in 1..(N + 1), NEW k \in 1..(N + 1), j < k
                 PROVE  blocks'[j].node < blocks'[k].node
      OBVIOUS
    <3>1. j \in 1..N
      BY <1>1
    <3> QED
      BY <3>1, <2>2, <2>4, <2>5, <1>4, <1>5
  <2>7. currentFunction' # mainFunction => N + 1 >= 2
    BY <1>1
  <2>8. \A k \in 1..(N + 1) : k >= 2 =>
          (blocks'[k].type = "function" <=> k = 2 /\ currentFunction' # mainFunction)
    <3> SUFFICES ASSUME NEW k \in 1..(N + 1), k >= 2
                 PROVE  blocks'[k].type = "function" <=> k = 2 /\ currentFunction' # mainFunction
      OBVIOUS
    <3>1. CASE kw = "function"
      <4>1. N = 1 /\ k = 2
        BY <3>1, <2>1, <1>1, <1>3
      <4> QED
        BY <3>1, <4>1, <2>1, <2>2, <2>3, <2>4, <1>6
    <3>2. CASE kw # "function" /\ k = N + 1
      BY <3>2, <2>1, <2>2, <2>3, <2>4, <1>1, <1>2
    <3>3. CASE kw # "function" /\ k \in 1..N
      BY <3>3, <2>1, <2>4, <1>5
    <3> QED
      BY <3>1, <3>2, <3>3, <2>5
  <2>9. blocks'[1] = blocks[1]
    BY <2>4, <1>1
  <2> QED
    BY <2>4, <2>6, <2>7, <2>8, <2>9, <1>5 DEF Shape
<1>8. CASE kw = "statement" /\ Simple
  BY <1>8 DEF Simple, Shape
<1>9. ASSUME N >= 2, NEW b, blocks' = Append(Front(blocks), b), b.type # "function", bptr.type # "function",
             b.node = bptr.node \/ b.node = New, currentFunction' = currentFunction
      PROVE  Shape'
  <2>1. /\ Len(blocks') = N /\ DOMAIN blocks' = 1..N
        /\ \A k \in 1..(N - 1) : blocks'[k] = blocks[k]
        /\ blocks'[N] = b
    BY <1>1, <1>9, ReplaceIs DEF N
  <2>2. \A k \in 1..N : (k \in 1..(N - 1) \/ k = N)
    BY <1>1
  <2>3. \A j, k \in 1..N : j < k => blocks'[j].node < blocks'[k].node
    <3> SUFFICES ASSUME NEW j \in 1..N, NEW k \in 1..N, j < k
                 PROVE  blocks'[j].node < blocks'[k].node
      OBVIOUS
    <3>1. j \in 1..(N - 1)
      BY <1>1
    <3>2. CASE k = N
      <4>1. blocks[j].node < blocks[N].node /\ blocks[j].node < New
        BY <3>2, <1>1, <1>4, <1>5
      <4> QED
        BY <4>1, <3>1, <3>2, <2>1, <1>1, <1>9
    <3> QED
      BY <3>1, <3>2, <2>1, <2>2, <1>5
  <2>4. \A k \in 1..N : k >= 2 =>
          (blocks'[k].type = "function" <=> k = 2 /\ currentFunction' # mainFunction)
    <3> SUFFICES ASSUME NEW k \in 1..N, k >= 2
                 PROVE  blocks'[k].type = "function" <=> k = 2 /\ currentFunction' # mainFunction
      OBVIOUS
    <3>1. CASE k = N
      BY <3>1, <2>1, <1>3, <1>9
    <3>2. CASE k \in 1..(N - 1)
      BY <3>2, <2>1, <1>5, <1>9
    <3> QED
      BY <3>1, <3>2, <2>2
  <2>5. blocks'[1] = blocks[1]
    BY <2>1, <1>1, <1>9
  <2> QED
    BY <2>1, <2>3, <2>4, <2>5, <1>5, <1>9 DEF Shape
<1>10. CASE kw = "else if" /\ ElseIf
  <2>1. bptr.type = "if" /\ blocks' = Append(Front(blocks), NewBlock("if", "then"))
        /\ currentFunction' = currentFunction
    BY <1>10 DEF ElseIf
  <2>2. N >= 2
    BY <2>1, <1>1, <1>2
  <2> QED
    BY <2>1, <2>2, <1>9, NewBlockIs
<1>11. CASE kw = "else" /\ Else
  <2> DEFINE b == [type |-> "else", node |-> bptr.node, next |-> <<bptr.node, "else">>]
  <2>1. bptr.type = "if" /\ blocks' = Append(Front(blocks), b) /\ currentFunction' = currentFunction
    BY <1>11 DEF Else
  <2>2. N >= 2
    BY <2>1, <1>1, <1>2
  <2>3. b.type = "else" /\ b.node = bptr.node
    OBVIOUS
  <2> HIDE DEF b
  <2> QED
    BY <2>1, <2>2, <2>3, <1>9
<1>12. CASE kw \in Closes /\ Closing(kw)
  <2>1. /\ N >= 2 /\ blocks' = Front(blocks)
        /\ IF kw = "end function"
           THEN bptr.type = "function" /\ currentFunction # mainFunction /\ currentFunction' = mainFunction
           ELSE bptr.type # "function" /\ currentFunction' = currentFunction
    BY <1>12 DEF Closing, N
  <2>2. /\ Len(blocks') = N - 1 /\ DOMAIN blocks' = 1..(N - 1)
        /\ \A k \in 1..(N - 1) : blocks'[k] = blocks[k]
    BY <2>1, <1>1, PopIs DEF N
  <2>3. \A k \in 1..(N - 1) : k \in 1..N
    BY <1>1
  <2>4. \A j, k \in 1..(N - 1) : j < k => blocks'[j].node < blocks'[k].node
    BY <2>2, <2>3, <1>5
  <2>5. currentFunction' # mainFunction => N - 1 >= 2
    <3>1. currentFunction' # mainFunction => N # 2 /\ N >= 2
      BY <2>1, <1>3
    <3> QED
      BY <3>1, <1>1
  <2>6. \A k \in 1..(N - 1) : k >= 2 =>
          (blocks'[k].type = "function" <=> k = 2 /\ currentFunction' # mainFunction)
    <3> SUFFICES ASSUME NEW k \in 1..(N - 1), k >= 2
                 PROVE  blocks'[k].type = "function" <=> k = 2 /\ currentFunction' # mainFunction
      OBVIOUS
    <3>1. N # 2
      BY <1>1
    <3>2. currentFunction' = currentFunction
      BY <3>1, <2>1, <1>3
    <3> QED
      BY <3>2, <2>2, <2>3, <1>5
  <2>7. blocks'[1] = blocks[1]
    <3>0. N >= 2
      BY <2>1
    <3>1. 1 \in 1..(N - 1)
      BY <3>0, <1>1
    <3> QED
      BY <3>1, <2>2
  <2> QED
    BY <2>2, <2>4, <2>5, <2>6, <2>7, <1>5 DEF Shape
<1> QED
  BY <1>7, <1>8, <1>10, <1>11, <1>12 DEF Parses

-----------------------------------------------------------------------------
(* The nodes. *)

LEMMA NodesAfter ==
  ASSUME Types, Shape, NEW kw \in Text, Parses(kw)
  PROVE  \/ /\ kw \in Opens \cup {"statement", "else if"}
            /\ \E t \in NodeTypes : Node(t) /\ (t = "function" <=> kw = "function")
         \/ /\ kw \in Closes \cup {"else"} /\ list' = list
            /\ DOMAIN nodes' = DOMAIN nodes /\ Len(nodes') = Len(nodes)
            /\ \A n \in DOMAIN nodes :
                 /\ nodes'[n].line = nodes[n].line
                 /\ \/ nodes'[n] = nodes[n]
                    \/ /\ n = bptr.node /\ nodes[n].type = "do"
                       /\ nodes'[n].type \in {"loop while", "loop until"}
<1>1. CASE kw \in Opens /\ Opening(kw)
  BY <1>1 DEF Opening, NodeTypes
<1>2. CASE kw = "statement" /\ Simple
  BY <1>2 DEF Simple, NodeTypes
<1>3. CASE kw = "else if" /\ ElseIf
  BY <1>3 DEF ElseIf, NodeTypes, Opens
<1>4. CASE kw = "else" /\ Else
  BY <1>4 DEF Else
<1>5. CASE kw \in Closes /\ Closing(kw)
  <2>1. list' = list /\ (\/ nodes' = nodes
                         \/ /\ nodes[bptr.node].type = "do" /\ kw \in {"loop while", "loop until"}
                            /\ Retypes(bptr.node, kw))
    BY <1>5 DEF Closing
  <2>2. bptr.node \in DOMAIN nodes
    BY TopOfStack
  <2> QED
    BY <1>5, <2>1, <2>2, NodeRetyped
<1> QED
  BY <1>1, <1>2, <1>3, <1>4, <1>5 DEF Parses

LEMMA OrderStep ==
  ASSUME Types, Shape, NodeOrder, NEW kw \in Text, Parses(kw)
  PROVE  NodeOrder'
<1>1. /\ Len(nodes) >= 1 /\ nodes[1] = [type |-> "function", line |-> 0] /\ nodes[1].type = "function"
      /\ \A m, n \in DOMAIN nodes : m < n => nodes[m].line < nodes[n].line
  BY DEF NodeOrder
<1>2. DOMAIN nodes = 1..Len(nodes) /\ Len(nodes) \in Nat /\ Len(lines) \in Nat
      /\ \A n \in DOMAIN nodes : nodes[n].line \in 0..Len(lines)
  BY AppendIs, TypesParts DEF TypeParts
<1>3. ASSUME NEW t \in NodeTypes, Node(t)
      PROVE  NodeOrder'
  <2>1. /\ DOMAIN nodes' = DOMAIN nodes \cup {New} /\ Len(nodes') = New /\ New \in Nat
        /\ \A n \in DOMAIN nodes : nodes'[n] = nodes[n] /\ n \in 1..(New - 1)
        /\ nodes'[New].line = Len(lines) + 1
    BY <1>3, NodeAdded
  <2>2. 1 \in DOMAIN nodes /\ New >= 1
    BY <1>1, <1>2, <2>1
  <2>3. ASSUME NEW m \in DOMAIN nodes', NEW n \in DOMAIN nodes', m < n
        PROVE  nodes'[m].line < nodes'[n].line
    <3>1. m \in DOMAIN nodes
      <4>1. m # New
        <5>1. n <= New
          BY <2>1
        <5> QED
          BY <5>1, <2>1, <2>3
      <4> QED
        BY <4>1, <2>1
    <3>2. CASE n = New
      <4>1. nodes[m].line < Len(lines) + 1
        BY <3>1, <1>2
      <4> QED
        BY <3>1, <3>2, <4>1, <2>1
    <3>3. CASE n \in DOMAIN nodes
      BY <3>1, <3>3, <1>1, <2>1, <2>3
    <3> QED
      BY <3>2, <3>3, <2>1
  <2> QED
    BY <1>1, <2>1, <2>2, <2>3 DEF NodeOrder
<1>4. ASSUME DOMAIN nodes' = DOMAIN nodes, Len(nodes') = Len(nodes),
             \A n \in DOMAIN nodes :
                 /\ nodes'[n].line = nodes[n].line
                 /\ \/ nodes'[n] = nodes[n]
                    \/ n = bptr.node /\ nodes[n].type = "do"
      PROVE  NodeOrder'
  <2>1. nodes'[1] = nodes[1]
    BY <1>1, <1>2, <1>4
  <2> QED
    BY <2>1, <1>1, <1>4 DEF NodeOrder
<1> QED
  BY <1>3, <1>4, NodesAfter

\* The ELSE part of an IF that waits for it is not where the parser adds.
LEMMA ElseApart ==
  ASSUME Types, Shape, NEW k \in DOMAIN blocks, blocks[k].type = "if"
  PROVE  /\ <<blocks[k].node, "else">> # bptr.next
         /\ k # Len(blocks) => <<blocks[k].node, "else">> # <<bptr.node, "else">>
<1>1. /\ Len(blocks) \in Nat /\ DOMAIN blocks = 1..Len(blocks) /\ Len(blocks) \in DOMAIN blocks
      /\ bptr = blocks[Len(blocks)]
  BY TopOfStack, AppendIs DEF Types
<1>2. k # Len(blocks) => blocks[k].node # bptr.node
  <2>1. k # Len(blocks) => k < Len(blocks)
    BY <1>1
  <2>2. k # Len(blocks) => blocks[k].node < bptr.node
    BY <2>1, <1>1 DEF Shape
  <2>3. blocks[k].node \in Nat
    BY BlockNodes
  <2> QED
    BY <2>2, <2>3
<1>3. bptr.next = <<bptr.node, Part(bptr.type)>>
  BY TopOfStack
<1>4. k = Len(blocks) => Part(bptr.type) = "then"
  BY <1>1 DEF Part
<1> QED
  BY <1>2, <1>3, <1>4

LEMMA ElseFreeStep ==
  ASSUME Types, Shape, ElseFree, NEW kw \in Text, Parses(kw)
  PROVE  ElseFree'
<1> DEFINE N == Len(blocks)
           E(k) == <<blocks[k].node, "else">>
<1>1. N \in Nat /\ N >= 1 /\ DOMAIN blocks = 1..N /\ N \in 1..N /\ bptr = blocks[N]
  BY TopOfStack, AppendIs DEF Types
<1>2. \A k \in 1..N : blocks[k].type = "if" => E(k) \in DOMAIN list /\ list[E(k)] = <<>>
  BY <1>1 DEF ElseFree
<1>3. \A k \in 1..N : blocks[k].type = "if" =>
        /\ E(k) # bptr.next /\ E(k) # <<>>
        /\ k # N => E(k) # <<bptr.node, "else">>
  BY <1>1, ElseApart
<1>4. ASSUME NEW k \in 1..N, blocks[k].type = "if", NEW p, NEW slots, list' = WithNode(p, slots),
             p = bptr.next \/ p = <<>> \/ (p = <<bptr.node, "else">> /\ k # N)
      PROVE  E(k) \in DOMAIN list' /\ list'[E(k)] = <<>>
  <2>1. E(k) \in DOMAIN list /\ list[E(k)] = <<>> /\ E(k) # p
    BY <1>2, <1>3, <1>4
  <2>2. list' = WithNode(p, slots)
    BY <1>4
  <2> QED
    BY <2>1, <2>2, ListKept
<1> HIDE DEF N, E
<1>5. CASE kw \in Opens /\ Opening(kw)
  <2> DEFINE type == IF kw \in Dos THEN "do" ELSE kw
             p == IF kw = "function" THEN <<>> ELSE bptr.next
             slots == IF kw = "if" THEN {"then", "else"} ELSE {"body"}
             b == NewBlock(type, Slot(kw))
  <2>1. list' = WithNode(p, slots) /\ blocks' = Append(blocks, b)
    BY <1>5 DEF Opening, PushBlock
  <2>2. p = bptr.next \/ p = <<>>
    OBVIOUS
  <2>3. type = "if" => "else" \in slots
    BY DEF Dos
  <2>4. b.type = type /\ b.node = New
    BY NewBlockIs
  <2> HIDE DEF type, p, slots, b
  <2>5. /\ DOMAIN blocks' = 1..(N + 1)
        /\ \A k \in 1..N : blocks'[k] = blocks[k]
        /\ blocks'[N + 1] = b
    BY <2>1, PushIs DEF N
  <2>6. \A k \in 1..(N + 1) : k \in 1..N \/ k = N + 1
    BY <1>1
  <2>7. /\ DOMAIN list' = DOMAIN list \cup ({New} \X slots)
        /\ \A x \in {New} \X slots : list'[x] = <<>>
    BY <2>1, ListsAfter
  <2>8. type = "if" => <<New, "else">> \in DOMAIN list' /\ list'[<<New, "else">>] = <<>>
    BY <2>3, <2>7
  <2>9. \A k \in 1..N : blocks[k].type = "if" => E(k) \in DOMAIN list' /\ list'[E(k)] = <<>>
    BY <1>4, <2>1, <2>2
  <2> QED
    BY <2>4, <2>5, <2>6, <2>8, <2>9 DEF ElseFree, E
<1>6. CASE kw = "statement" /\ Simple
  <2>1. list' = WithNode(bptr.next, {}) /\ blocks' = blocks
    BY <1>6 DEF Simple
  <2>2. \A k \in 1..N : blocks[k].type = "if" => E(k) \in DOMAIN list' /\ list'[E(k)] = <<>>
    BY <1>4, <2>1
  <2> QED
    BY <2>1, <2>2, <1>1 DEF ElseFree, E
<1>7. CASE kw = "else if" /\ ElseIf
  <2> DEFINE b == NewBlock("if", "then")
             p == <<bptr.node, "else">>
             slots == {"then", "else"}
  <2>1. list' = WithNode(p, slots) /\ blocks' = Append(Front(blocks), b)
    BY <1>7 DEF ElseIf
  <2>2. b.node = New /\ "else" \in slots
    BY NewBlockIs
  <2> HIDE DEF b, p, slots
  <2>3. /\ DOMAIN blocks' = 1..N
        /\ \A k \in 1..(N - 1) : blocks'[k] = blocks[k]
        /\ blocks'[N] = b
    BY <2>1, <1>1, ReplaceIs DEF N
  <2>4. \A k \in 1..N : (k \in 1..(N - 1) /\ k # N) \/ k = N
    BY <1>1
  <2>5. /\ DOMAIN list' = DOMAIN list \cup ({New} \X slots)
        /\ \A x \in {New} \X slots : list'[x] = <<>>
    BY <2>1, ListsAfter
  <2>6. <<New, "else">> \in DOMAIN list' /\ list'[<<New, "else">>] = <<>>
    BY <2>2, <2>5
  <2>7. \A k \in 1..N : blocks[k].type = "if" /\ k # N => E(k) \in DOMAIN list' /\ list'[E(k)] = <<>>
    BY <1>4, <2>1 DEF p
  <2> QED
    BY <2>2, <2>3, <2>4, <2>6, <2>7 DEF ElseFree, E
<1>8. CASE kw = "else" /\ Else
  <2> DEFINE b == [type |-> "else", node |-> bptr.node, next |-> <<bptr.node, "else">>]
  <2>1. blocks' = Append(Front(blocks), b) /\ list' = list
    BY <1>8 DEF Else
  <2>2. b.type # "if"
    OBVIOUS
  <2> HIDE DEF b
  <2>3. /\ DOMAIN blocks' = 1..N
        /\ \A k \in 1..(N - 1) : blocks'[k] = blocks[k]
        /\ blocks'[N] = b
    BY <2>1, <1>1, ReplaceIs DEF N
  <2>4. \A k \in 1..N : k \in 1..(N - 1) \/ k = N
    BY <1>1
  <2> QED
    BY <2>1, <2>2, <2>3, <2>4, <1>2 DEF ElseFree, E
<1>9. CASE kw \in Closes /\ Closing(kw)
  <2>1. blocks' = Front(blocks) /\ list' = list
    BY <1>9 DEF Closing
  <2>2. /\ DOMAIN blocks' = 1..(N - 1)
        /\ \A k \in 1..(N - 1) : blocks'[k] = blocks[k]
    BY <2>1, <1>1, PopIs DEF N
  <2>3. \A k \in 1..(N - 1) : k \in 1..N
    BY <1>1
  <2> QED
    BY <2>1, <2>2, <2>3, <1>2 DEF ElseFree, E
<1> QED
  BY <1>5, <1>6, <1>7, <1>8, <1>9 DEF Parses

-----------------------------------------------------------------------------
(* The tree. *)

LEMMA PlaceBefore ==
  ASSUME lines \in Seq(Text), NEW kw \in Text, lines' = Append(lines, kw), NEW i \in 1..Len(lines)
  PROVE  Place(lines', i) = Place(lines, i)
<1> DEFINE h == Home(lines, i, Opens \cup Splits)
           f == Home(lines, i, {"if", "else if"})
<1>0. \A kws : Home(lines', i, kws) = Home(lines, i, kws)
  BY HomeBefore
<1>1. Home(lines', i, Opens \cup Splits) = h /\ Home(lines', i, {"if", "else if"}) = f
  BY <1>0
<1>2. lines'[i] = lines[i]
  OBVIOUS
<1>3. h # 0 => lines'[h] = lines[h]
  <2>1. h \in 0..(i - 1)
    BY HomeType
  <2> HIDE DEF h
  <2> QED
    BY <2>1
<1>4. CASE h = 0
  <2>1. Place(lines', i) = <<0, "body">>
    BY <1>1, <1>4 DEF Place
  <2>2. Place(lines, i) = <<0, "body">>
    BY <1>4 DEF Place
  <2> QED
    BY <2>1, <2>2
<1>5. CASE h # 0 /\ (lines[i] = "else if" \/ lines[h] = "else")
  <2>1. Place(lines', i) = <<f, "else">>
    BY <1>1, <1>2, <1>3, <1>5 DEF Place
  <2>2. Place(lines, i) = <<f, "else">>
    BY <1>5 DEF Place
  <2> QED
    BY <2>1, <2>2
<1>6. CASE h # 0 /\ ~(lines[i] = "else if" \/ lines[h] = "else")
  <2>1. Place(lines', i) = <<h, Slot(lines[h])>>
    BY <1>1, <1>2, <1>3, <1>6 DEF Place
  <2>2. Place(lines, i) = <<h, Slot(lines[h])>>
    BY <1>6 DEF Place
  <2> QED
    BY <2>1, <2>2
<1> QED
  BY <1>4, <1>5, <1>6

\* A step that hangs a node at p, or a function, which hangs nowhere.
LEMMA TreeGrow ==
  ASSUME Types, NodeOrder, AllHang, TreeMatchesText, status = "parsing", status' = "parsing",
         NEW kw \in Text, lines' = Append(lines, kw), NEW t \in NodeTypes, Node(t),
         NEW p, NEW slots \in SUBSET Slots, list' = WithNode(p, slots),
         \/ t = "function" /\ p = <<>>
         \/ /\ t # "function" /\ p \in DOMAIN list
            /\ <<nodes[p[1]].line, p[2]>> = Place(lines', Len(lines) + 1)
  PROVE  AllHang' /\ TreeMatchesText'
<1> DEFINE N == Len(lines)
<1>1. /\ DOMAIN nodes' = DOMAIN nodes \cup {New} /\ New \notin DOMAIN nodes
      /\ \A n \in DOMAIN nodes : nodes'[n] = nodes[n]
      /\ nodes'[New].type = t /\ nodes'[New].line = N + 1
  BY NodeAdded
<1>2. /\ N \in Nat /\ lines \in Seq(Text)
      /\ \A n \in DOMAIN nodes : nodes[n].line \in 0..N
      /\ \A x \in DOMAIN list : /\ x[1] \in DOMAIN nodes /\ x = <<x[1], x[2]>>
                                /\ list[x] \in Seq(DOMAIN nodes)
  BY TypesParts DEF TypeParts, ListType
<1>3. /\ DOMAIN list' = DOMAIN list \cup ({New} \X slots)
      /\ \A x \in DOMAIN list : list'[x] = IF x = p THEN Append(list[x], New) ELSE list[x]
      /\ \A x \in {New} \X slots : list'[x] = <<>> /\ x[1] = New
  BY ListsAfter
<1>4. /\ \A x \in DOMAIN list : \A j, k \in DOMAIN list[x] :
           j < k => nodes[list[x][j]].line < nodes[list[x][k]].line
      /\ \A n \in DOMAIN nodes, x \in DOMAIN list :
           Hangs(n, x) <=> /\ nodes[n].type # "function"
                           /\ <<nodes[x[1]].line, x[2]>> = Place(lines, nodes[n].line)
      /\ \A i \in DOMAIN lines :
           lines[i] \in Opens \cup {"else if", "statement"} /\ (status # "error" \/ i < Len(lines))
             => \E n \in DOMAIN nodes : nodes[n].line = i
  BY DEF TreeMatchesText
<1>5. \A m, n \in DOMAIN nodes : nodes[m].line = nodes[n].line => m = n
  <2> SUFFICES ASSUME NEW m \in DOMAIN nodes, NEW n \in DOMAIN nodes,
                      nodes[m].line = nodes[n].line, m # n
               PROVE  FALSE
    OBVIOUS
  <2>1. m < n \/ n < m
    BY AppendIs DEF Types
  <2>2. nodes[m].line < nodes[n].line \/ nodes[n].line < nodes[m].line
    BY <2>1 DEF NodeOrder
  <2> QED
    BY <2>2, <1>2
<1> HIDE DEF N
\* Where a node hangs after the step.
<1> DEFINE In(n, x) == \E k \in DOMAIN list'[x] : list'[x][k] = n
<1>6. \A x \in DOMAIN list, n \in DOMAIN nodes : In(n, x) <=> Hangs(n, x)
  <2> SUFFICES ASSUME NEW x \in DOMAIN list, NEW n \in DOMAIN nodes
               PROVE  In(n, x) <=> Hangs(n, x)
    OBVIOUS
  <2>1. CASE x # p
    BY <2>1, <1>3 DEF Hangs
  <2>2. CASE x = p
    <3>1. list'[x] = Append(list[x], New)
      BY <2>2, <1>3
    <3>2. /\ DOMAIN list[x] = 1..Len(list[x]) /\ Len(list[x]) \in Nat
          /\ DOMAIN list'[x] = 1..(Len(list[x]) + 1)
          /\ \A k \in 1..Len(list[x]) : list'[x][k] = list[x][k]
          /\ list'[x][Len(list[x]) + 1] = New
      BY <3>1, <1>2, AppendIs
    <3>3. \A k \in 1..(Len(list[x]) + 1) : k \in 1..Len(list[x]) \/ k = Len(list[x]) + 1
      BY <3>2
    <3>4. n # New
      BY <1>1
    <3>5. \A k \in 1..Len(list[x]) : k \in 1..(Len(list[x]) + 1)
      BY <3>2
    <3> QED
      BY <3>2, <3>3, <3>4, <3>5 DEF Hangs
  <2> QED
    BY <2>1, <2>2
<1>7. \A x \in DOMAIN list : In(New, x) <=> x = p
  <2> SUFFICES ASSUME NEW x \in DOMAIN list
               PROVE  In(New, x) <=> x = p
    OBVIOUS
  <2>0. DOMAIN list[x] = 1..Len(list[x]) /\ Len(list[x]) \in Nat
        /\ \A k \in DOMAIN list[x] : list[x][k] \in DOMAIN nodes
    BY <1>2, AppendIs, SeqElement
  <2>1. CASE x # p
    <3>1. list'[x] = list[x]
      BY <2>1, <1>3
    <3>2. \A k \in DOMAIN list'[x] : list'[x][k] # New
      BY <3>1, <2>0, <1>1
    <3> QED
      BY <3>2, <2>1
  <2>2. CASE x = p
    <3>1. list'[x] = Append(list[x], New)
      BY <2>2, <1>3
    <3>2. /\ DOMAIN list'[x] = 1..(Len(list[x]) + 1) /\ list'[x][Len(list[x]) + 1] = New
      BY <3>1, <1>2, AppendIs
    <3>3. Len(list[x]) + 1 \in 1..(Len(list[x]) + 1)
      BY <2>0
    <3>4. In(New, x)
      BY <3>2, <3>3
    <3> QED
      BY <2>2, <3>4
  <2> QED
    BY <2>1, <2>2
<1>8. \A x \in {New} \X slots : \A n : ~In(n, x)
  BY <1>3
<1> HIDE DEF In
\* The part that adds the node is of an earlier line.
<1>9. t # "function" =>
        \E m \in DOMAIN nodes : \E s : <<nodes[m].line, s>> = Place(lines', N + 1)
  <2>1. t # "function" => p[1] \in DOMAIN nodes /\ <<nodes[p[1]].line, p[2]>> = Place(lines', N + 1)
    BY <1>2 DEF N
  <2> QED
    BY <2>1
<1>10. \A n \in DOMAIN nodes : nodes[n].type # "function" =>
         \E m \in DOMAIN nodes : \E s : <<nodes[m].line, s>> = Place(lines, nodes[n].line)
  <2> SUFFICES ASSUME NEW n \in DOMAIN nodes, nodes[n].type # "function"
               PROVE  \E m \in DOMAIN nodes : \E s : <<nodes[m].line, s>> = Place(lines, nodes[n].line)
    OBVIOUS
  <2>1. PICK x \in DOMAIN list : Hangs(n, x)
    BY DEF AllHang
  <2>2. <<nodes[x[1]].line, x[2]>> = Place(lines, nodes[n].line) /\ x[1] \in DOMAIN nodes
    BY <2>1, <1>2, <1>4
  <2> QED
    BY <2>2
<1>11. \A n \in DOMAIN nodes : nodes[n].type # "function" =>
         Place(lines', nodes[n].line) = Place(lines, nodes[n].line)
  <2> SUFFICES ASSUME NEW n \in DOMAIN nodes, nodes[n].type # "function"
               PROVE  Place(lines', nodes[n].line) = Place(lines, nodes[n].line)
    OBVIOUS
  <2>1. nodes[1].line = 0 /\ nodes[1].type = "function" /\ 1 \in DOMAIN nodes
    BY AppendIs DEF NodeOrder, Types
  <2>2. nodes[n].line # 0
    BY <2>1, <1>5
  <2>3. nodes[n].line \in 1..N
    BY <2>2, <1>2
  <2> QED
    BY <2>3, <1>2, PlaceBefore DEF N
<1>12. AllHang'
  <2> SUFFICES ASSUME NEW n \in DOMAIN nodes', nodes'[n].type # "function"
               PROVE  \E x \in DOMAIN list' : In(n, x)
    BY DEF AllHang, Hangs, In
  <2>1. CASE n = New
    <3>1. p \in DOMAIN list
      BY <2>1, <1>1
    <3> QED
      BY <3>1, <2>1, <1>3, <1>7
  <2>2. CASE n \in DOMAIN nodes
    <3>1. PICK x \in DOMAIN list : Hangs(n, x)
      BY <2>2, <1>1 DEF AllHang
    <3> QED
      BY <3>1, <2>2, <1>3, <1>6
  <2> QED
    BY <2>1, <2>2, <1>1
<1>13. \A x \in DOMAIN list' : \A j, k \in DOMAIN list'[x] :
          j < k => nodes'[list'[x][j]].line < nodes'[list'[x][k]].line
  <2> SUFFICES ASSUME NEW x \in DOMAIN list', NEW j \in DOMAIN list'[x], NEW k \in DOMAIN list'[x], j < k
               PROVE  nodes'[list'[x][j]].line < nodes'[list'[x][k]].line
    OBVIOUS
  <2>1. x \in DOMAIN list
    BY <1>3
  <2>2. DOMAIN list[x] = 1..Len(list[x]) /\ Len(list[x]) \in Nat
        /\ \A i \in DOMAIN list[x] : list[x][i] \in DOMAIN nodes
    BY <2>1, <1>2, AppendIs, SeqElement
  <2>0. \A i, m \in DOMAIN list[x] :
          i < m => nodes'[list[x][i]].line < nodes'[list[x][m]].line
    <3>1. \A i, m \in DOMAIN list[x] : i < m => nodes[list[x][i]].line < nodes[list[x][m]].line
      BY <2>1, <1>4
    <3> QED
      BY <3>1, <2>2, <1>1
  <2>3. CASE x # p
    <3>1. list'[x] = list[x]
      BY <2>1, <2>3, <1>3
    <3> QED
      BY <3>1, <2>0
  <2>4. CASE x = p
    <3>1. list'[x] = Append(list[x], New)
      BY <2>1, <2>4, <1>3
    <3>2. /\ DOMAIN list'[x] = 1..(Len(list[x]) + 1)
          /\ \A i \in 1..Len(list[x]) : list'[x][i] = list[x][i]
          /\ list'[x][Len(list[x]) + 1] = New
      BY <3>1, <2>1, <1>2, AppendIs
    <3>3. j \in 1..Len(list[x])
      BY <3>2, <2>2
    <3>4. CASE k \in 1..Len(list[x])
      BY <3>2, <3>3, <3>4, <2>0, <2>2
    <3>5. CASE k = Len(list[x]) + 1
      <4>1. nodes'[list'[x][j]].line = nodes[list[x][j]].line /\ list[x][j] \in DOMAIN nodes
        BY <3>2, <3>3, <2>2, <1>1
      <4>2. nodes[list[x][j]].line < N + 1
        BY <4>1, <1>2
      <4>3. nodes'[list'[x][k]].line = N + 1
        BY <3>2, <3>5, <1>1
      <4> QED
        BY <4>1, <4>2, <4>3
    <3> QED
      BY <3>2, <3>4, <3>5, <2>2
  <2> QED
    BY <2>3, <2>4
<1>14. ASSUME NEW n \in DOMAIN nodes', NEW x \in DOMAIN list'
       PROVE  In(n, x) <=> /\ nodes'[n].type # "function"
                           /\ <<nodes'[x[1]].line, x[2]>> = Place(lines', nodes'[n].line)
  <2>1. CASE n \in DOMAIN nodes /\ x \in DOMAIN list
    <3>1. nodes'[n] = nodes[n] /\ nodes'[x[1]] = nodes[x[1]]
      BY <2>1, <1>1, <1>2
    <3> QED
      BY <3>1, <2>1, <1>4, <1>6, <1>11
  <2>2. CASE n \in DOMAIN nodes /\ x \in {New} \X slots
    <3>1. ~In(n, x) /\ x[1] = New
      BY <2>2, <1>3, <1>8
    <3>2. SUFFICES ASSUME nodes[n].type # "function",
                          <<N + 1, x[2]>> = Place(lines, nodes[n].line)
                   PROVE  FALSE
      BY <3>1, <2>2, <1>1, <1>11
    <3>3. PICK m \in DOMAIN nodes : \E s : <<nodes[m].line, s>> = Place(lines, nodes[n].line)
      BY <3>2, <2>2, <1>10
    <3>4. nodes[m].line = N + 1
      BY <3>2, <3>3
    <3> QED
      BY <3>4, <1>2
  <2>3. CASE n = New /\ x \in DOMAIN list
    <3>1. nodes'[x[1]] = nodes[x[1]] /\ x[1] \in DOMAIN nodes /\ x = <<x[1], x[2]>>
      BY <2>3, <1>1, <1>2
    <3>2. CASE t = "function"
      <4>1. p = <<>>
        BY <3>2
      <4>2. x # p
        BY <4>1, <2>3 DEF Types
      <4> QED
        BY <4>2, <3>2, <2>3, <1>1, <1>7
    <3>3. CASE t # "function"
      <4>1. p \in DOMAIN list /\ <<nodes[p[1]].line, p[2]>> = Place(lines', N + 1)
        BY <3>3 DEF N
      <4>2. p[1] \in DOMAIN nodes /\ p = <<p[1], p[2]>>
        BY <4>1, <1>2
      <4>3. <<nodes[x[1]].line, x[2]>> = <<nodes[p[1]].line, p[2]>> <=> x = p
        <5>1. <<nodes[x[1]].line, x[2]>> = <<nodes[p[1]].line, p[2]>>
                => x[1] = p[1] /\ x[2] = p[2]
          BY <3>1, <4>2, <1>5
        <5> QED
          BY <5>1, <3>1, <4>2
      <4> QED
        BY <4>1, <4>3, <3>1, <3>3, <2>3, <1>1, <1>7
    <3> QED
      BY <3>2, <3>3
  <2>4. CASE n = New /\ x \in {New} \X slots
    <3>1. ~In(n, x) /\ x[1] = New
      BY <2>4, <1>3, <1>8
    <3>2. SUFFICES ASSUME t # "function", <<N + 1, x[2]>> = Place(lines', N + 1)
                   PROVE  FALSE
      BY <3>1, <2>4, <1>1
    <3>3. PICK m \in DOMAIN nodes : \E s : <<nodes[m].line, s>> = Place(lines', N + 1)
      BY <3>2, <1>9
    <3>4. nodes[m].line = N + 1
      BY <3>2, <3>3
    <3> QED
      BY <3>4, <1>2
  <2> QED
    BY <2>1, <2>2, <2>3, <2>4, <1>1, <1>3
<1>15. \A i \in DOMAIN lines' :
          lines'[i] \in Opens \cup {"else if", "statement"} /\ (status' # "error" \/ i < Len(lines'))
            => \E n \in DOMAIN nodes' : nodes'[n].line = i
  <2>1. /\ DOMAIN lines' = 1..(N + 1) /\ DOMAIN lines = 1..N
        /\ \A i \in 1..N : lines'[i] = lines[i]
    BY <1>2, AppendIs DEF N
  <2>2. \A i \in 1..(N + 1) : i \in 1..N \/ i = N + 1
    BY <1>2
  <2>3. \A i \in 1..N : lines[i] \in Opens \cup {"else if", "statement"}
          => \E n \in DOMAIN nodes : nodes[n].line = i
    BY <2>1, <1>4
  <2>4. \E n \in DOMAIN nodes' : nodes'[n].line = N + 1
    BY <1>1
  <2>5. \A n \in DOMAIN nodes : n \in DOMAIN nodes' /\ nodes'[n].line = nodes[n].line
    BY <1>1
  <2> QED
    BY <2>1, <2>2, <2>3, <2>4, <2>5
<1> QED
  <2>1. \A n \in DOMAIN nodes', x \in DOMAIN list' :
          Hangs(n, x)' <=> /\ nodes'[n].type # "function"
                           /\ <<nodes'[x[1]].line, x[2]>> = Place(lines', nodes'[n].line)
    BY <1>14 DEF Hangs, In
  <2> QED
    BY <2>1, <1>12, <1>13, <1>15 DEF TreeMatchesText
=============================================================================
