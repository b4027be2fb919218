---------------------------- MODULE Blocks_nesting ----------------------------
(***************************************************************************)
(* That the stack follows the text, and the theorems of the parser.        *)
(***************************************************************************)
EXTENDS Blocks_proofs

\* How deep the lines are that the parser comes to.
Now == Len(blocks) - 1

LEMMA UpTo ==
  ASSUME NEW n \in Nat
  PROVE  /\ n + 1 \in Nat /\ n + 1 \in 1..(n + 1) /\ ~(n + 1 < n + 1)
         /\ \A j \in 1..n : j < n + 1
         /\ \A j \in 1..n : j # n => j < n
OBVIOUS

LEMMA Below ==
  ASSUME NEW n \in Nat, NEW i \in 1..(n + 1), i # n + 1
  PROVE  i \in 1..n
OBVIOUS

LEMMA DepthsApart ==
  ASSUME NEW n \in Nat, NEW k \in 1..n, k >= 2
  PROVE  k - 1 >= 1 /\ k - 1 # n - 1 + 1 /\ k - 1 # -1 /\ (k # n => k - 1 # n - 1)
OBVIOUS

\* What is known of the text from here on.
LEMMA TextIs ==
  ASSUME Types, NEW kw \in Text, lines' = Append(lines, kw)
  PROVE  /\ lines \in Seq(Text) /\ Len(lines) \in Nat /\ DOMAIN lines = 1..Len(lines)
         /\ DOMAIN lines' = 1..(Len(lines) + 1) /\ Len(lines') = Len(lines) + 1
         /\ \A j \in 1..Len(lines) : lines'[j] = lines[j]
         /\ lines'[Len(lines) + 1] = kw
BY TypesParts, AppendIs DEF TypeParts

\* The lines the new line lies right inside of.
LEMMA NewLine ==
  ASSUME Types, Follows(lines, nodes, blocks), NEW kw \in Text, lines' = Append(lines, kw), NEW kws
  PROVE  /\ Depth(lines', Len(lines) + 1) = Now
         /\ Before(lines', Len(lines) + 1, kws) = LinesAt(lines, Now, kws)
         /\ LinesAt(lines, Now, kws) \in SUBSET Nat
         /\ \A j \in LinesAt(lines, Now, kws) : j \in 1..Len(lines) /\ lines'[j] = lines[j] /\ lines[j] \in kws
<1>1. Depth(lines, Len(lines) + 1) = Now
  BY DEF Follows, DepthIs, Now
<1>2. \A j \in LinesAt(lines, Now, kws) : j \in 1..Len(lines) /\ lines'[j] = lines[j] /\ lines[j] \in kws
  BY TextIs DEF LinesAt
<1> QED
  BY <1>1, <1>2, TextIs, BeforeNew

\* In the main program there are none.
LEMMA NewLineOutside ==
  ASSUME Types, Follows(lines, nodes, blocks), NEW kw \in Text, lines' = Append(lines, kw),
         NEW kws \in SUBSET (Opens \cup Splits), Len(blocks) = 1
  PROVE  Home(lines', Len(lines) + 1, kws) = 0
<1>1. \A j \in DOMAIN lines : lines[j] \in Opens \cup Splits => Inside(lines, j) >= 1
  BY DEF Follows, DepthIs
<1>2. Now = 0
  BY DEF Now
<1>3. LinesAt(lines, Now, kws) = {}
  BY <1>1, <1>2 DEF LinesAt
<1> QED
  BY <1>3, NewLine DEF Home

LEMMA NewLineInside ==
  ASSUME Types, Follows(lines, nodes, blocks), NEW kw \in Text, lines' = Append(lines, kw),
         NEW kws, NEW h, IsLast(LinesAt(lines, Now, kws), h)
  PROVE  /\ Home(lines', Len(lines) + 1, kws) = h
         /\ h \in 1..Len(lines) /\ h # 0 /\ lines'[h] = lines[h] /\ lines[h] \in kws
<1>1. h \in LinesAt(lines, Now, kws)
  BY DEF IsLast
<1>2. h \in 1..Len(lines) /\ lines'[h] = lines[h] /\ lines[h] \in kws
  BY <1>1, NewLine
<1>3. LinesAt(lines, Now, kws) # {} /\ LastOf(LinesAt(lines, Now, kws)) = h
  BY NewLine, LastIs
<1> QED
  BY <1>2, <1>3, NewLine DEF Home

\* The block on top of the stack, and what the text says of it.
LEMMA TopFollows ==
  ASSUME Types, Shape, Follows(lines, nodes, blocks)
  PROVE  \/ Len(blocks) = 1 /\ bptr = blocks[1]
         \/ /\ Len(blocks) >= 2
            /\ Opened(lines, nodes, bptr, Now) /\ InPart(lines, nodes, bptr, Now)
<1>1. Len(blocks) \in Nat /\ Len(blocks) >= 1 /\ Len(blocks) \in DOMAIN blocks /\ bptr = blocks[Len(blocks)]
  BY TopOfStack
<1>2. Len(blocks) = 1 \/ Len(blocks) >= 2
  BY <1>1
<1> QED
  BY <1>1, <1>2 DEF Follows, Now

\* The list the parser adds to is where the text puts the new line.
LEMMA PlaceOfNew ==
  ASSUME Types, Shape, NodeOrder, Follows(lines, nodes, blocks),
         NEW kw \in Text, lines' = Append(lines, kw)
  PROVE  /\ kw # "else if" =>
              Place(lines', Len(lines) + 1) = <<nodes[bptr.node].line, Part(bptr.type)>>
         /\ kw = "else if" /\ bptr.type = "if" =>
              Place(lines', Len(lines) + 1) = <<nodes[bptr.node].line, "else">>
<1> DEFINE N == Len(lines) + 1
           h == Home(lines', N, Opens \cup Splits)
           f == Home(lines', N, {"if", "else if"})
<1>1. Place(lines', N) = IF h = 0 THEN <<0, "body">>
                         ELSE IF lines'[N] = "else if" \/ lines'[h] = "else" THEN <<f, "else">>
                         ELSE <<h, Slot(lines'[h])>>
  BY DEF Place
<1>2. lines'[N] = kw
  BY TextIs
<1>3. CASE Len(blocks) = 1 /\ bptr = blocks[1]
  <2>1. h = 0
    BY <1>3, NewLineOutside
  <2>2. bptr.type = "function" /\ bptr.node = 1
    BY <1>3 DEF Shape, mainFunction
  <2>3. nodes[1].line = 0
    BY DEF NodeOrder
  <2> HIDE DEF h, N
  <2> QED
    BY <1>1, <2>1, <2>2, <2>3 DEF Part, N
<1>4. CASE InPart(lines, nodes, bptr, Now)
  <2>0. PICK g \in Nat :
          /\ IsLast(LinesAt(lines, Now, Opens \cup Splits), g)
          /\ bptr.type \in {"function", "for", "do"}
               => nodes[bptr.node].line = g /\ lines[g] \in Opens \ {"if"}
          /\ bptr.type \in {"if", "else"}
               => IsLast(LinesAt(lines, Now, {"if", "else if"}), nodes[bptr.node].line)
          /\ bptr.type = "if"   => nodes[bptr.node].line = g
          /\ bptr.type = "else" => lines[g] = "else"
    BY <1>4 DEF InPart
  <2>1. h = g /\ h # 0 /\ lines'[h] = lines[h]
    BY <2>0, NewLineInside
  <2>2. bptr.type \in {"if", "else"} =>
          f = nodes[bptr.node].line /\ lines[f] \in {"if", "else if"}
    BY <2>0, NewLineInside
  <2>3. bptr.type \in BlockTypes
    BY TopOfStack DEF BlockRecords
  <2> HIDE DEF h, f, N
  <2>4. CASE bptr.type \in {"function", "for", "do"}
    <3>1. nodes[bptr.node].line = h /\ lines'[h] \in Opens \ {"if"}
      BY <2>0, <2>1, <2>4
    <3>2. Slot(lines'[h]) = "body" /\ lines'[h] # "else" /\ Part(bptr.type) = "body"
      BY <2>4, <3>1 DEF Slot, Opens, Part
    <3>3. kw # "else if" => Place(lines', N) = <<h, Slot(lines'[h])>>
      BY <1>1, <1>2, <2>1, <3>2
    <3> QED
      BY <2>4, <3>1, <3>2, <3>3 DEF N
  <2>5. CASE bptr.type = "if"
    <3>1. nodes[bptr.node].line = h /\ f = h /\ lines'[h] \in {"if", "else if"}
      BY <2>0, <2>1, <2>2, <2>5
    <3>2. Slot(lines'[h]) = "then" /\ lines'[h] # "else" /\ Part(bptr.type) = "then"
      BY <2>5, <3>1 DEF Slot, Part
    <3>3. Place(lines', N) = IF kw = "else if" THEN <<f, "else">> ELSE <<h, Slot(lines'[h])>>
      BY <1>1, <1>2, <2>1, <3>2
    <3> QED
      BY <2>5, <3>1, <3>2, <3>3 DEF N
  <2>6. CASE bptr.type = "else"
    <3>1. lines'[h] = "else" /\ f = nodes[bptr.node].line /\ Part(bptr.type) = "else"
      BY <2>0, <2>1, <2>2, <2>6 DEF Part
    <3>2. Place(lines', N) = <<f, "else">>
      BY <1>1, <2>1, <3>1
    <3> QED
      BY <2>6, <3>1, <3>2 DEF N
  <2> QED
    BY <2>3, <2>4, <2>5, <2>6 DEF BlockTypes
<1> QED
  BY <1>3, <1>4, TopFollows

\* The text allows the new line exactly if the parser takes it.
LEMMA AllowedNew ==
  ASSUME Types, Shape, Follows(lines, nodes, blocks),
         NEW kw \in Text \ {OneLineIf}, lines' = Append(lines, kw)
  PROVE  Allowed(lines', Len(lines) + 1, MaxBlocks) <=> ~Refused(kw)
<1> DEFINE N == Len(lines) + 1
           o == Opener(lines', N)
           else == Before(lines', N, {"else"})
<1>1. lines'[N] = kw /\ Depth(lines', N) + 1 = Len(blocks)
  <2>1. Depth(lines', N) = Now
    BY NewLine
  <2> QED
    BY <2>1, TextIs, TopOfStack DEF Now
<1>2. /\ kw = "function" => (Allowed(lines', N, MaxBlocks) <=> o = 0 /\ Len(blocks) < MaxBlocks)
      /\ kw \in Opens \ {"function"} => (Allowed(lines', N, MaxBlocks) <=> Len(blocks) < MaxBlocks)
      /\ kw \in Closes => (Allowed(lines', N, MaxBlocks) <=> o # 0 /\ kw \in Closers(lines'[o]))
      /\ kw \in Splits => (Allowed(lines', N, MaxBlocks)
                             <=> o # 0 /\ lines'[o] = "if" /\ ~\E j \in else : j > o)
      /\ kw = "statement" => Allowed(lines', N, MaxBlocks)
  <2> HIDE DEF N
  <2> QED
    BY <1>1, KeywordsApart DEF Allowed, Opens, Closes, Splits
<1>3. /\ Len(blocks) < MaxBlocks <=> Len(blocks) # MaxBlocks
      /\ Len(blocks) = 1 => bptr.type = "function" /\ currentFunction = mainFunction
      /\ Len(blocks) >= 2 => (bptr.type = "function" <=> Len(blocks) = 2 /\ currentFunction # mainFunction)
      /\ Len(blocks) >= 2 => Len(blocks) # 1
      /\ bptr.type \in BlockTypes
  <2>1. Len(blocks) \in Nat /\ MaxBlocks \in Nat /\ Len(blocks) <= MaxBlocks
    BY TopOfStack
  <2>2. Len(blocks) < MaxBlocks <=> Len(blocks) # MaxBlocks
    BY <2>1
  <2> QED
    BY <2>1, <2>2, TopOfStack DEF BlockRecords
<1>4. kw \in Opens \cup Closes \cup Splits \cup {"statement"}
  BY KeywordsApart DEF Text
\* What is open, as the text tells it.
<1>5. \/ Len(blocks) = 1 /\ o = 0
      \/ /\ Len(blocks) >= 2 /\ o # 0
         /\ bptr.type \in {"function", "for"} => lines'[o] = bptr.type
         /\ bptr.type = "do" => lines'[o] \in Dos /\ nodes[bptr.node].type = lines'[o]
         /\ bptr.type \in {"if", "else"} => lines'[o] = "if"
         /\ bptr.type = "if" => ~\E j \in else : j > o
         /\ bptr.type = "else" => \E j \in else : j > o
  <2>1. CASE Len(blocks) = 1
    BY <2>1, NewLineOutside DEF Opener
  <2>2. CASE Len(blocks) >= 2 /\ Opened(lines, nodes, bptr, Now)
    <3>0. PICK p \in Nat :
            /\ IsLast(LinesAt(lines, Now, Opens), p)
            /\ bptr.type \in {"function", "for"} => lines[p] = bptr.type
            /\ bptr.type = "do" => lines[p] \in Dos /\ nodes[bptr.node].type = lines[p]
            /\ bptr.type \in {"if", "else"} => lines[p] = "if"
            /\ bptr.type = "if"   => \A j \in LinesAt(lines, Now, {"else"}) : j <= p
            /\ bptr.type = "else" => \E j \in LinesAt(lines, Now, {"else"}) : j > p
      BY <2>2 DEF Opened
    <3>1. o = p /\ p # 0 /\ lines'[p] = lines[p]
      BY <3>0, NewLineInside DEF Opener
    <3>2. else = LinesAt(lines, Now, {"else"}) /\ else \in SUBSET Nat
      BY NewLine
    <3> HIDE DEF o, else, N
    <3>3. bptr.type = "if" => ~\E j \in else : j > o
      BY <3>0, <3>1, <3>2
    <3> QED
      BY <2>2, <3>0, <3>1, <3>2, <3>3
  <2> QED
    BY <2>1, <2>2, TopFollows
<1> HIDE DEF o, else, N
<1>6. CASE kw \in Opens
  <2>1. kw = "function" => (o = 0 <=> currentFunction = mainFunction /\ bptr.type = "function")
    BY <1>3, <1>5
  <2> QED
    BY <1>2, <1>3, <1>6, <2>1, RefusedIs DEF Opens, N
<1>7. CASE kw \in Closes
  <2>1. o # 0 => kw \in Closers(lines'[o]) <=>
          \/ lines'[o] = "function" /\ kw = "end function"
          \/ lines'[o] = "if" /\ kw = "end if"
          \/ lines'[o] = "for" /\ kw = "next"
          \/ lines'[o] = "do" /\ kw \in {"loop", "loop while", "loop until"}
          \/ lines'[o] \notin {"function", "if", "for", "do"} /\ kw = "loop"
    BY <1>7 DEF Closers, Closes
  <2>2. CASE Len(blocks) = 1 /\ o = 0
    <3>1. bptr.type = "function" /\ currentFunction = mainFunction
      BY <2>2, <1>3
    <3> QED
      BY <1>2, <1>7, <2>2, <3>1, RefusedIs DEF Closes, N
  <2>3. CASE Len(blocks) >= 2 /\ o # 0
    <3>1. bptr.type = "function" => currentFunction # mainFunction /\ lines'[o] = "function"
      BY <2>3, <1>3, <1>5
    <3>2. bptr.type = "for" => lines'[o] = "for"
      BY <2>3, <1>3, <1>5
    <3>3. bptr.type \in {"if", "else"} => lines'[o] = "if"
      BY <2>3, <1>3, <1>5
    <3>4. bptr.type = "do" => lines'[o] \in Dos /\ nodes[bptr.node].type = lines'[o]
      BY <2>3, <1>3, <1>5
    <3>5. Allowed(lines', N, MaxBlocks) <=> kw \in Closers(lines'[o])
      BY <1>2, <1>7, <2>3
    <3>6. kw \in Closers(lines'[o]) <=> ~Refused(kw)
      BY <1>3, <1>7, <2>1, <2>3, <3>1, <3>2, <3>3, <3>4, RefusedIs DEF Closes, BlockTypes, Dos
    <3> QED
      BY <3>5, <3>6 DEF N
  <2> QED
    BY <2>2, <2>3, <1>5
<1>8. CASE kw \in Splits
  <2>1. kw \in {"else if", "else"}
    BY <1>8 DEF Splits
  <2>2. o # 0 /\ lines'[o] = "if" /\ (~\E j \in else : j > o) <=> bptr.type = "if"
    BY <1>3, <1>5 DEF BlockTypes, Dos
  <2> QED
    BY <1>2, <1>8, <2>1, <2>2, RefusedIs DEF N
<1>9. CASE kw = "statement"
  BY <1>2, <1>9, RefusedIs DEF N
<1> QED
  BY <1>4, <1>6, <1>7, <1>8, <1>9

-----------------------------------------------------------------------------
(* The stack goes on to follow the text. *)

\* A block whose lines and whose node stay as they are.
LEMMA BlockKept ==
  ASSUME NEW L, NEW M, NEW ns, NEW ms, NEW b, NEW d,
         \A kws \in {Opens, Opens \cup Splits, {"else"}, {"if", "else if"}} :
           LinesAt(M, d, kws) = LinesAt(L, d, kws),
         \A j \in DOMAIN L : M[j] = L[j],
         ms[b.node].line = ns[b.node].line,
         b.type = "do" => ms[b.node].type = ns[b.node].type
  PROVE  /\ Opened(L, ns, b, d) => Opened(M, ms, b, d)
         /\ InPart(L, ns, b, d) => InPart(M, ms, b, d)
<1>1. /\ LinesAt(M, d, Opens) = LinesAt(L, d, Opens)
      /\ LinesAt(M, d, Opens \cup Splits) = LinesAt(L, d, Opens \cup Splits)
      /\ LinesAt(M, d, {"else"}) = LinesAt(L, d, {"else"})
      /\ LinesAt(M, d, {"if", "else if"}) = LinesAt(L, d, {"if", "else if"})
  OBVIOUS
<1>2. \A kws, j : IsLast(LinesAt(L, d, kws), j) => M[j] = L[j]
  BY DEF IsLast, LinesAt
<1>3. ASSUME Opened(L, ns, b, d)
      PROVE  Opened(M, ms, b, d)
  <2>1. PICK o \in Nat :
          /\ IsLast(LinesAt(L, d, Opens), o)
          /\ b.type \in {"function", "for"} => L[o] = b.type
          /\ b.type = "do" => L[o] \in Dos /\ ns[b.node].type = L[o]
          /\ b.type \in {"if", "else"} => L[o] = "if"
          /\ b.type = "if"   => \A j \in LinesAt(L, d, {"else"}) : j <= o
          /\ b.type = "else" => \E j \in LinesAt(L, d, {"else"}) : j > o
    BY <1>3 DEF Opened
  <2>2. M[o] = L[o]
    BY <1>2, <2>1
  <2> QED
    BY <1>1, <2>1, <2>2 DEF Opened
<1>4. ASSUME InPart(L, ns, b, d)
      PROVE  InPart(M, ms, b, d)
  <2>1. PICK h \in Nat :
          /\ IsLast(LinesAt(L, d, Opens \cup Splits), h)
          /\ b.type \in {"function", "for", "do"} => ns[b.node].line = h /\ L[h] \in Opens \ {"if"}
          /\ b.type \in {"if", "else"} => IsLast(LinesAt(L, d, {"if", "else if"}), ns[b.node].line)
          /\ b.type = "if"   => ns[b.node].line = h
          /\ b.type = "else" => L[h] = "else"
    BY <1>4 DEF InPart
  <2>2. M[h] = L[h]
    BY <1>2, <2>1
  <2> QED
    BY <1>1, <2>1, <2>2 DEF InPart
<1> QED
  BY <1>3, <1>4

\* What a new line is to the depths of the text.
LEMMA NewDepths ==
  ASSUME Types, Follows(lines, nodes, blocks), NEW kw \in Text, lines' = Append(lines, kw)
  PROVE  /\ Len(lines') = Len(lines) + 1
         /\ Depth(lines', Len(lines) + 2)
              = Now + (IF kw \in Opens THEN 1 ELSE 0) - (IF kw \in Closes THEN 1 ELSE 0)
         /\ Inside(lines', Len(lines) + 1)
              = IF kw \in Opens THEN Now + 1 ELSE IF kw \in Splits THEN Now ELSE -1
         /\ \A j \in 1..Len(lines) :
              lines[j] \in Opens \cup Splits => Inside(lines', j) >= 1
         /\ \A d, kws : LinesAt(lines', d, kws)
              = LinesAt(lines, d, kws)
                \cup (IF kw \in kws /\ Inside(lines', Len(lines) + 1) = d THEN {Len(lines) + 1} ELSE {})
<1>1. Depth(lines, Len(lines) + 1) = Now
  BY DEF Follows, DepthIs, Now
<1>2. lines \in Seq(Text) /\ DOMAIN lines = 1..Len(lines) /\ Len(lines') = Len(lines) + 1
  BY TextIs
<1>3. \A j \in 1..Len(lines) : Inside(lines', j) = Inside(lines, j)
  BY <1>2, NestedBefore
<1>4. \A j \in 1..Len(lines) : lines[j] \in Opens \cup Splits => Inside(lines', j) >= 1
  BY <1>2, <1>3 DEF Follows, DepthIs
<1>5. Depth(lines', Len(lines) + 2)
        = Now + (IF kw \in Opens THEN 1 ELSE 0) - (IF kw \in Closes THEN 1 ELSE 0)
  BY <1>1, <1>2, DepthStep
<1>6. Inside(lines', Len(lines) + 1)
        = IF kw \in Opens THEN Now + 1 ELSE IF kw \in Splits THEN Now ELSE -1
  BY <1>1, <1>2, InsideNew
<1>7. \A d, kws : LinesAt(lines', d, kws)
        = LinesAt(lines, d, kws)
          \cup (IF kw \in kws /\ Inside(lines', Len(lines) + 1) = d THEN {Len(lines) + 1} ELSE {})
  BY <1>2, LinesAtStep
<1> QED
  BY <1>2, <1>4, <1>5, <1>6, <1>7

\* The stack is as high as the text is deep.
LEMMA DepthGoesOn ==
  ASSUME Types, Shape, Follows(lines, nodes, blocks), NEW kw \in Text, Parses(kw)
  PROVE  DepthIs(lines', blocks')
<1>1. lines' = Append(lines, kw)
  BY DEF Parses
<1>2. Len(blocks) \in Nat /\ Len(blocks) >= 1 /\ (Len(blocks) = 1 => bptr.type = "function")
  BY TopOfStack
<1>3. \/ kw \in Opens /\ Opening(kw)
      \/ kw = "statement" /\ Simple
      \/ kw = "else if" /\ ElseIf
      \/ kw = "else" /\ Else
      \/ kw \in Closes /\ Closing(kw)
  BY DEF Parses
<1>t. /\ kw \in Opens => Len(blocks') = Len(blocks) + 1
      /\ kw \in Closes => Len(blocks') = Len(blocks) - 1
      /\ kw \notin Opens \cup Closes => Len(blocks') = Len(blocks)
  <2>1. CASE kw \in Opens /\ Opening(kw)
    <3>1. Len(blocks') = Len(blocks) + 1
      BY <2>1, PushIs DEF Opening, PushBlock
    <3> QED
      BY <2>1, <3>1, KeywordsApart
  <2>2. CASE kw = "statement" /\ Simple
    <3>1. blocks' = blocks
      BY <2>2 DEF Simple
    <3> QED
      BY <2>2, <3>1 DEF Opens, Closes
  <2>3. CASE (kw = "else if" /\ ElseIf) \/ (kw = "else" /\ Else)
    <3>1. \E b : blocks' = Append(Front(blocks), b)
      BY <2>3 DEF ElseIf, Else
    <3>2. Len(blocks') = Len(blocks)
      BY <3>1, <1>2, ReplaceIs
    <3>3. kw \in {"else if", "else"}
      BY <2>3
    <3> QED
      BY <3>3, <3>2 DEF Opens, Closes
  <2>4. CASE kw \in Closes /\ Closing(kw)
    <3>1. Len(blocks') = Len(blocks) - 1
      BY <2>4, <1>2, PopIs DEF Closing
    <3> QED
      BY <2>4, <3>1, KeywordsApart
  <2> QED
    BY <1>3, <2>1, <2>2, <2>3, <2>4
<1>a. kw \in Opens => kw \notin Closes
  BY KeywordsApart
<1>8. Len(blocks') - 1 = Now + (IF kw \in Opens THEN 1 ELSE 0) - (IF kw \in Closes THEN 1 ELSE 0)
  <2>1. Now \in Int /\ Now = Len(blocks) - 1
    BY <1>2 DEF Now
  <2>2. CASE kw \in Opens
    BY <2>1, <2>2, <1>2, <1>t, <1>a
  <2>3. CASE kw \in Closes
    BY <2>1, <2>3, <1>2, <1>t, <1>a
  <2>4. CASE kw \notin Opens \cup Closes
    BY <2>1, <2>4, <1>2, <1>t
  <2> QED
    BY <2>2, <2>3, <2>4
<1>4. kw \in Splits => Len(blocks) # 1
  BY <1>2, KeywordsApart DEF Parses, ElseIf, Else, Splits, Opens, Closes
<1>5. kw \in Opens \cup Splits => Inside(lines', Len(lines) + 1) >= 1
  <2>1. Inside(lines', Len(lines) + 1)
          = IF kw \in Opens THEN Now + 1 ELSE IF kw \in Splits THEN Now ELSE -1
    BY <1>1, NewDepths
  <2>2. Now \in Int /\ Now >= 0 /\ (kw \in Splits => Now >= 1)
    <3>1. Now = Len(blocks) - 1
      BY DEF Now
    <3> QED
      BY <3>1, <1>2, <1>4
  <2> QED
    BY <2>1, <2>2
<1>6. \A j \in DOMAIN lines' : lines'[j] \in Opens \cup Splits => Inside(lines', j) >= 1
  <2>1. /\ DOMAIN lines' = 1..(Len(lines) + 1) /\ Len(lines) \in Nat
        /\ \A j \in 1..Len(lines) : lines'[j] = lines[j]
        /\ lines'[Len(lines) + 1] = kw
    BY <1>1, TextIs
  <2>2. \A j \in 1..(Len(lines) + 1) : j \in 1..Len(lines) \/ j = Len(lines) + 1
    BY <2>1
  <2>3. \A j \in 1..Len(lines) : lines[j] \in Opens \cup Splits => Inside(lines', j) >= 1
    BY <1>1, NewDepths
  <2> QED
    BY <2>1, <2>2, <2>3, <1>5
<1>7. Depth(lines', Len(lines') + 1) = Len(blocks') - 1
  <2>1. Len(lines') + 1 = Len(lines) + 2
    BY <1>1, TextIs
  <2> QED
    BY <2>1, <1>1, <1>8, NewDepths
<1> QED
  BY <1>6, <1>7 DEF DepthIs

\* Which lines are of a depth, after the step.
LEMMA LinesAtNew ==
  ASSUME Types, Follows(lines, nodes, blocks), NEW kw \in Text, lines' = Append(lines, kw), NEW d, NEW kws
  PROVE  /\ Inside(lines', Len(lines) + 1) # d \/ kw \notin kws
               => LinesAt(lines', d, kws) = LinesAt(lines, d, kws)
         /\ Inside(lines', Len(lines) + 1) = d /\ kw \in kws
               => IsLast(LinesAt(lines', d, kws), Len(lines) + 1)
<1> DEFINE N == Len(lines) + 1
           I == Inside(lines', N)
           A == LinesAt(lines, d, kws)
           B == LinesAt(lines', d, kws)
<1>1. B = A \cup (IF kw \in kws /\ I = d THEN {N} ELSE {})
  BY NewDepths
<1>2. \A j \in B : j \in 1..N
  BY TextIs DEF LinesAt
<1>3. N \in Nat
  BY TextIs
<1> HIDE DEF N, I, A, B
<1>4. I # d \/ kw \notin kws => B = A
  BY <1>1
<1>5. I = d /\ kw \in kws => IsLast(B, N)
  BY <1>1, <1>2, <1>3 DEF IsLast
<1> QED
  BY <1>4, <1>5 DEF N, I, A, B

\* What the text says of a block at a depth the new line does not change.
LEMMA OtherDepth ==
  ASSUME Types, Follows(lines, nodes, blocks), NEW kw \in Text, lines' = Append(lines, kw),
         NEW d, Inside(lines', Len(lines) + 1) # d,
         NEW b, nodes'[b.node].line = nodes[b.node].line,
         b.type = "do" => nodes'[b.node].type = nodes[b.node].type
  PROVE  /\ Opened(lines, nodes, b, d) => Opened(lines', nodes', b, d)
         /\ InPart(lines, nodes, b, d) => InPart(lines', nodes', b, d)
<1>1. \A kws : LinesAt(lines', d, kws) = LinesAt(lines, d, kws)
  BY LinesAtNew
<1>2. \A j \in DOMAIN lines : lines'[j] = lines[j]
  BY TextIs
<1> QED
  BY <1>1, <1>2, BlockKept

LEMMA BlockOpens ==
  ASSUME Types, Follows(lines, nodes, blocks), NEW kw \in Opens, lines' = Append(lines, kw),
         NEW b, nodes'[b.node].type = kw, nodes'[b.node].line = Len(lines) + 1,
         b.type = IF kw \in Dos THEN "do" ELSE kw
  PROVE  /\ Opened(lines', nodes', b, Now + 1)
         /\ InPart(lines', nodes', b, Now + 1)
<1> DEFINE N == Len(lines) + 1
<1>1. kw \in Text
  BY KeywordsApart DEF Text
<1>2. DOMAIN lines' = 1..N /\ N \in Nat /\ N \in 1..N /\ lines'[N] = kw
  BY <1>1, TextIs
<1>3. Inside(lines', N) = Now + 1
  BY <1>1, NewDepths
<1> HIDE DEF N
<1>4. ASSUME NEW kws, kw \in kws
      PROVE  IsLast(LinesAt(lines', Now + 1, kws), N)
  BY <1>2, <1>3, <1>4 DEF IsLast, LinesAt
<1>5. \A j \in LinesAt(lines', Now + 1, {"else"}) : j <= N
  BY <1>2 DEF LinesAt
<1>6. b.type \in {"function", "if", "for", "do"}
  BY DEF Opens, Dos
<1>7. /\ b.type \in {"function", "for", "if"} => kw = b.type
      /\ b.type = "do" => kw \in Dos
  BY DEF Opens, Dos
<1>8. nodes'[b.node].type = kw /\ nodes'[b.node].line = N
  BY DEF N
<1>9. Opened(lines', nodes', b, Now + 1)
  <2>1. IsLast(LinesAt(lines', Now + 1, Opens), N)
    BY <1>4
  <2> QED
    BY <2>1, <1>2, <1>5, <1>6, <1>7, <1>8 DEF Opened
<1>10. InPart(lines', nodes', b, Now + 1)
  <2>1. IsLast(LinesAt(lines', Now + 1, Opens \cup Splits), N)
    BY <1>4
  <2>2. b.type = "if" => IsLast(LinesAt(lines', Now + 1, {"if", "else if"}), N)
    BY <1>4, <1>7
  <2>3. b.type # "if" => kw \in Opens \ {"if"}
    BY <1>6, <1>7 DEF Dos
  <2> QED
    BY <2>1, <2>2, <2>3, <1>2, <1>6, <1>8 DEF InPart
<1> QED
  BY <1>9, <1>10

\* The block of an IF goes on to its ELSE IF or ELSE.
LEMMA BlockSplits ==
  ASSUME Types, Follows(lines, nodes, blocks), NEW kw \in Splits, lines' = Append(lines, kw),
         NEW c, c.type = "if", Opened(lines, nodes, c, Now), InPart(lines, nodes, c, Now),
         NEW b,
         \/ kw = "else if" /\ b.type = "if" /\ nodes'[b.node].line = Len(lines) + 1
         \/ kw = "else" /\ b.type = "else" /\ nodes'[b.node].line = nodes[c.node].line
  PROVE  /\ Opened(lines', nodes', b, Now)
         /\ InPart(lines', nodes', b, Now)
<1> DEFINE N == Len(lines) + 1
           At(kws) == LinesAt(lines, Now, kws)
<1>1. kw \in Text /\ kw \notin Opens
  BY KeywordsApart DEF Text
<1>2. /\ DOMAIN lines' = 1..N /\ N \in Nat /\ N \in 1..N /\ lines'[N] = kw
      /\ \A j \in 1..Len(lines) : j < N /\ lines'[j] = lines[j]
  <2>1. /\ Len(lines) \in Nat /\ DOMAIN lines' = 1..N /\ lines'[N] = kw
        /\ \A j \in 1..Len(lines) : lines'[j] = lines[j]
    BY <1>1, TextIs
  <2>2. N \in Nat /\ N \in 1..N /\ \A j \in 1..Len(lines) : j < N
    <3>1. Len(lines) \in Nat
      BY <2>1
    <3> QED
      BY <3>1, UpTo
  <2> QED
    BY <2>1, <2>2
<1>3. Inside(lines', N) = Now
  BY <1>1, NewDepths
<1>4. /\ LinesAt(lines', Now, Opens) = At(Opens)
      /\ kw = "else if" => LinesAt(lines', Now, {"else"}) = At({"else"})
      /\ kw = "else" => LinesAt(lines', Now, {"if", "else if"}) = At({"if", "else if"})
  <2>1. kw = "else if" => kw \notin {"else"}
    OBVIOUS
  <2>2. kw = "else" => kw \notin {"if", "else if"}
    OBVIOUS
  <2> QED
    BY <1>1, <2>1, <2>2, LinesAtNew
<1>5. \A kws : \A j \in At(kws) : j \in 1..Len(lines)
  BY <1>1, NewLine
<1>6. PICK o \in Nat :
        /\ IsLast(At(Opens), o) /\ lines[o] = "if"
        /\ \A j \in At({"else"}) : j <= o
  BY DEF Opened
<1>7. IsLast(At({"if", "else if"}), nodes[c.node].line)
  BY DEF InPart
<1> HIDE DEF N, At
<1>8. o \in 1..Len(lines) /\ N > o /\ lines'[o] = "if"
  <2>1. o \in 1..Len(lines)
    BY <1>5, <1>6 DEF IsLast
  <2> QED
    BY <2>1, <1>2, <1>6
<1>9. ASSUME NEW kws, kw \in kws
      PROVE  IsLast(LinesAt(lines', Now, kws), N)
  BY <1>1, <1>3, <1>9, LinesAtNew DEF N
<1>10. IsLast(LinesAt(lines', Now, Opens \cup Splits), N)
  BY <1>9
<1>11. CASE kw = "else if" /\ b.type = "if" /\ nodes'[b.node].line = N
  <2>1. IsLast(LinesAt(lines', Now, {"if", "else if"}), N)
    BY <1>9, <1>11
  <2>2. Opened(lines', nodes', b, Now)
    BY <1>4, <1>6, <1>8, <1>11 DEF Opened
  <2> QED
    BY <2>1, <2>2, <1>2, <1>10, <1>11 DEF InPart
<1>12. CASE kw = "else" /\ b.type = "else" /\ nodes'[b.node].line = nodes[c.node].line
  <2>1. N \in LinesAt(lines', Now, {"else"})
    BY <1>9, <1>12 DEF IsLast
  <2>2. Opened(lines', nodes', b, Now)
    BY <2>1, <1>4, <1>6, <1>8, <1>12 DEF Opened
  <2> QED
    BY <2>2, <1>2, <1>4, <1>7, <1>10, <1>12 DEF InPart
<1> QED
  BY <1>11, <1>12 DEF N

LEMMA FollowsStep ==
  ASSUME Types, Shape, Follows(lines, nodes, blocks), NEW kw \in Text, Parses(kw)
  PROVE  Follows(lines', nodes', blocks')
<1> DEFINE N == Len(blocks)
           I == Inside(lines', Len(lines) + 1)
           Says(L, ns, b, d) == Opened(L, ns, b, d) /\ InPart(L, ns, b, d)
<1>1. lines' = Append(lines, kw)
  BY DEF Parses
<1>2. /\ N \in Nat /\ N >= 1 /\ DOMAIN blocks = 1..N /\ N \in 1..N /\ bptr = blocks[N]
  BY TopOfStack, AppendIs DEF Types
<1>n. Now = N - 1
  BY DEF Now
<1>3. I = IF kw \in Opens THEN Now + 1 ELSE IF kw \in Splits THEN Now ELSE -1
  BY <1>1, NewDepths
<1>i. \A k \in 1..N : k >= 2 =>
        /\ kw \notin Opens \cup Splits => I # k - 1
        /\ k # N /\ kw \notin Opens => I # k - 1
        /\ kw \in Opens => I # k - 1
  <2> SUFFICES ASSUME NEW k \in 1..N, k >= 2
               PROVE  /\ kw \notin Opens \cup Splits => I # k - 1
                      /\ k # N /\ kw \notin Opens => I # k - 1
                      /\ kw \in Opens => I # k - 1
    OBVIOUS
  <2>1. k - 1 >= 1 /\ k - 1 # N - 1 + 1 /\ k - 1 # -1 /\ (k # N => k - 1 # N - 1)
    BY <1>2, DepthsApart
  <2> HIDE DEF I
  <2> QED
    BY <2>1, <1>3, <1>n
<1>4. \A k \in 1..N : k >= 2 => Says(lines, nodes, blocks[k], k - 1)
  BY <1>2 DEF Follows
<1>5. \A k \in 1..N : blocks[k].node \in DOMAIN nodes
  BY <1>2, BlockNodes
<1>6. \A k \in 1..N : k # N => blocks[k].node # bptr.node
  <2> SUFFICES ASSUME NEW k \in 1..N, k # N
               PROVE  blocks[k].node # bptr.node
    OBVIOUS
  <2>1. k < N
    BY <1>2, UpTo
  <2>2. blocks[k].node < bptr.node
    BY <2>1, <1>2 DEF Shape
  <2>3. blocks[k].node \in Nat
    BY <1>2, BlockNodes
  <2> QED
    BY <2>2, <2>3
\* A block whose depth the line does not change, with the node as it was.
<1>7. ASSUME NEW k \in 1..N, k >= 2, I # k - 1,
             nodes'[blocks[k].node].line = nodes[blocks[k].node].line,
             blocks[k].type = "do" => nodes'[blocks[k].node].type = nodes[blocks[k].node].type
      PROVE  Says(lines', nodes', blocks[k], k - 1)
  <2>1. Opened(lines, nodes, blocks[k], k - 1) /\ InPart(lines, nodes, blocks[k], k - 1)
    BY <1>4, <1>7
  <2> QED
    BY <2>1, <1>1, <1>7, OtherDepth
<1>8. DepthIs(lines', blocks')
  BY DepthGoesOn
<1> SUFFICES ASSUME NEW k \in DOMAIN blocks', k >= 2
             PROVE  Says(lines', nodes', blocks'[k], k - 1)
  BY <1>8 DEF Follows
<1> HIDE DEF Says, I
<1>9. kw \in Opens \cup {"statement", "else if"} =>
        \A n \in DOMAIN nodes : nodes'[n] = nodes[n]
  BY NodesAfter, NodeAdded DEF Opens, Closes
<1>10. CASE kw \in Opens /\ Opening(kw)
  <2> DEFINE b == NewBlock(IF kw \in Dos THEN "do" ELSE kw, Slot(kw))
  <2>1. Node(kw) /\ blocks' = Append(blocks, b)
    BY <1>10 DEF Opening, PushBlock
  <2>2. b.node = New /\ b.type = IF kw \in Dos THEN "do" ELSE kw
    BY NewBlockIs
  <2> HIDE DEF b
  <2>3. nodes'[b.node].type = kw /\ nodes'[b.node].line = Len(lines) + 1
    BY <2>1, <2>2, <1>10, NodeAdded DEF NodeTypes
  <2>4. /\ DOMAIN blocks' = 1..(N + 1) /\ blocks'[N + 1] = b
        /\ \A j \in 1..N : blocks'[j] = blocks[j]
    BY <2>1, PushIs
  <2>5. CASE k = N + 1
    <3>1. Opened(lines', nodes', b, Now + 1) /\ InPart(lines', nodes', b, Now + 1)
      BY <2>2, <2>3, <1>1, <1>10, BlockOpens
    <3>2. k - 1 = Now + 1 /\ blocks'[k] = b
      BY <2>4, <2>5, <1>2, <1>n
    <3> QED
      BY <3>1, <3>2 DEF Says
  <2>6. CASE k \in 1..N
    <3>1. blocks'[k] = blocks[k]
      BY <2>4, <2>6
    <3>2. I # k - 1
      BY <2>6, <1>i, <1>10
    <3>3. nodes'[blocks[k].node] = nodes[blocks[k].node]
      BY <2>6, <1>5, <1>9, <1>10
    <3> QED
      BY <3>1, <3>2, <3>3, <2>6, <1>7
  <2>7. k \in 1..N \/ k = N + 1
    BY <2>4, <1>2
  <2> QED
    BY <2>5, <2>6, <2>7
<1>11. CASE kw = "statement" /\ Simple
  <2>1. blocks' = blocks /\ k \in 1..N
    BY <1>2, <1>11 DEF Simple
  <2>2. I # k - 1
    <3>1. kw \notin Opens \cup Splits
      BY <1>11 DEF Opens, Splits
    <3> QED
      BY <3>1, <2>1, <1>i
  <2>3. nodes'[blocks[k].node] = nodes[blocks[k].node]
    BY <2>1, <1>5, <1>9, <1>11
  <2> QED
    BY <2>1, <2>2, <2>3, <1>7
<1>12. ASSUME NEW b, blocks' = Append(Front(blocks), b), kw \in Splits, bptr.type = "if",
              \/ kw = "else if" /\ b.type = "if" /\ nodes'[b.node].line = Len(lines) + 1
              \/ kw = "else" /\ b.type = "else" /\ nodes'[b.node].line = nodes[bptr.node].line,
              \A n \in DOMAIN nodes : nodes'[n] = nodes[n]
       PROVE  Says(lines', nodes', blocks'[k], k - 1)
  <2>1. /\ DOMAIN blocks' = 1..N /\ blocks'[N] = b
        /\ \A j \in 1..(N - 1) : blocks'[j] = blocks[j]
    BY <1>2, <1>12, ReplaceIs
  <2>2. CASE k = N
    <3>1. Opened(lines, nodes, bptr, Now) /\ InPart(lines, nodes, bptr, Now)
      BY <2>2, <1>2, <1>n, <1>4 DEF Says
    <3>2. Opened(lines', nodes', b, Now) /\ InPart(lines', nodes', b, Now)
      BY <3>1, <1>1, <1>12, BlockSplits
    <3> QED
      BY <3>2, <2>1, <2>2, <1>n DEF Says
  <2>3. CASE k \in 1..(N - 1)
    <3>1. blocks'[k] = blocks[k] /\ k \in 1..N
      BY <2>1, <2>3, <1>2
    <3>n. k # N
      BY <2>3, <1>2
    <3>2. I # k - 1
      <4>1. kw \notin Opens
        BY <1>12, KeywordsApart
      <4> QED
        BY <4>1, <3>1, <3>n, <1>i
    <3>3. nodes'[blocks[k].node] = nodes[blocks[k].node]
      BY <3>1, <1>5, <1>12
    <3> QED
      BY <3>1, <3>2, <3>3, <1>7
  <2>4. k = N \/ k \in 1..(N - 1)
    BY <2>1, <1>2
  <2> QED
    BY <2>2, <2>3, <2>4
<1>13. CASE kw = "else if" /\ ElseIf
  <2>1. bptr.type = "if" /\ Node("if") /\ blocks' = Append(Front(blocks), NewBlock("if", "then"))
    BY <1>13 DEF ElseIf
  <2>2. NewBlock("if", "then").type = "if" /\ NewBlock("if", "then").node = New
    BY NewBlockIs
  <2>3. nodes'[New].line = Len(lines) + 1
    BY <2>1, NodeAdded DEF NodeTypes, Opens
  <2>4. kw \in Splits
    BY <1>13 DEF Splits
  <2> QED
    BY <2>1, <2>2, <2>3, <2>4, <1>9, <1>12, <1>13
<1>14. CASE kw = "else" /\ Else
  <2> DEFINE b == [type |-> "else", node |-> bptr.node, next |-> <<bptr.node, "else">>]
  <2>1. bptr.type = "if" /\ nodes' = nodes /\ blocks' = Append(Front(blocks), b)
    BY <1>14 DEF Else
  <2>2. b.type = "else" /\ b.node = bptr.node
    OBVIOUS
  <2> HIDE DEF b
  <2>3. kw \in Splits
    BY <1>14 DEF Splits
  <2> QED
    BY <2>1, <2>2, <2>3, <1>12, <1>14
<1>15. CASE kw \in Closes /\ Closing(kw)
  <2>1. /\ DOMAIN blocks' = 1..(N - 1)
        /\ \A j \in 1..(N - 1) : blocks'[j] = blocks[j]
    BY <1>2, <1>15, PopIs DEF Closing
  <2>2. blocks'[k] = blocks[k] /\ k \in 1..N /\ k # N
    BY <2>1, <1>2
  <2>3. I # k - 1
    <3>1. kw \notin Opens \cup Splits
      BY <1>15, KeywordsApart
    <3> QED
      BY <3>1, <2>2, <1>i
  <2>4. nodes'[blocks[k].node] = nodes[blocks[k].node]
    <3>1. blocks[k].node \in DOMAIN nodes /\ blocks[k].node # bptr.node
      BY <2>2, <1>5, <1>6
    <3>2. kw \notin Opens \cup {"statement", "else if"}
      BY <1>15 DEF Opens, Closes
    <3> QED
      BY <3>1, <3>2, NodesAfter
  <2> QED
    BY <2>2, <2>3, <2>4, <1>7
<1> QED
  BY <1>10, <1>11, <1>13, <1>14, <1>15 DEF Parses

-----------------------------------------------------------------------------
(* The tree goes on to say what the text says. *)

LEMMA PlacesKept ==
  ASSUME Types, NodeOrder, NEW kw \in Text, lines' = Append(lines, kw),
         NEW n \in DOMAIN nodes, nodes[n].type # "function"
  PROVE  Place(lines', nodes[n].line) = Place(lines, nodes[n].line)
<1>1. nodes[1].line = 0 /\ nodes[1].type = "function" /\ DOMAIN nodes = 1..Len(nodes)
      /\ 1 \in DOMAIN nodes
  BY AppendIs DEF NodeOrder, Types
<1>2. n # 1 /\ n \in 1..Len(nodes)
  BY <1>1
<1>3. 1 < n
  BY <1>2
<1>4. nodes[1].line < nodes[n].line
  BY <1>1, <1>3 DEF NodeOrder
<1>5. nodes[n].line \in 0..Len(lines) /\ lines \in Seq(Text)
  BY TypesParts DEF TypeParts
<1>6. nodes[n].line \in 1..Len(lines)
  BY <1>1, <1>4, <1>5
<1> QED
  BY <1>5, <1>6, PlaceBefore

\* A step that hangs no node: the line of none, or the one in error.
LEMMA TreeStays ==
  ASSUME Types, NodeOrder, AllHang, TreeMatchesText, status = "parsing",
         NEW kw \in Text, lines' = Append(lines, kw),
         kw \in Opens \cup {"else if", "statement"} => status' = "error",
         list' = list, DOMAIN nodes' = DOMAIN nodes,
         \A n \in DOMAIN nodes : /\ nodes'[n].line = nodes[n].line
                                 /\ nodes'[n].type = "function" <=> nodes[n].type = "function"
  PROVE  AllHang' /\ TreeMatchesText'
<1>1. \A n \in DOMAIN nodes : nodes[n].type # "function" =>
        Place(lines', nodes[n].line) = Place(lines, nodes[n].line)
  BY PlacesKept
<1>2. \A x \in DOMAIN list : x[1] \in DOMAIN nodes /\ list[x] \in Seq(DOMAIN nodes)
  BY TypesParts DEF TypeParts, ListType
<1>3. \A x \in DOMAIN list : \A j \in DOMAIN list[x] : list[x][j] \in DOMAIN nodes
  BY <1>2, AppendIs, SeqElement
<1>4. /\ \A x \in DOMAIN list : \A j, k \in DOMAIN list[x] :
           j < k => nodes[list[x][j]].line < nodes[list[x][k]].line
      /\ \A n \in DOMAIN nodes, x \in DOMAIN list :
           Hangs(n, x) <=> /\ nodes[n].type # "function"
                           /\ <<nodes[x[1]].line, x[2]>> = Place(lines, nodes[n].line)
      /\ \A i \in DOMAIN lines :
           lines[i] \in Opens \cup {"else if", "statement"} => \E n \in DOMAIN nodes : nodes[n].line = i
  BY DEF TreeMatchesText
<1> DEFINE In(n, x) == \E k \in DOMAIN list'[x] : list'[x][k] = n
<1>5. \A n, x : In(n, x) <=> Hangs(n, x)
  BY DEF Hangs
<1> HIDE DEF In
<1>6. AllHang'
  <2>1. \A n \in DOMAIN nodes' : nodes'[n].type # "function" => \E x \in DOMAIN list' : In(n, x)
    BY <1>5 DEF AllHang
  <2> QED
    BY <2>1 DEF AllHang, Hangs, In
<1>7. \A x \in DOMAIN list' : \A j, k \in DOMAIN list'[x] :
        j < k => nodes'[list'[x][j]].line < nodes'[list'[x][k]].line
  <2> SUFFICES ASSUME NEW x \in DOMAIN list, NEW j \in DOMAIN list[x], NEW k \in DOMAIN list[x], j < k
               PROVE  nodes'[list[x][j]].line < nodes'[list[x][k]].line
    OBVIOUS
  <2>1. nodes[list[x][j]].line < nodes[list[x][k]].line
    BY <1>4
  <2>2. list[x][j] \in DOMAIN nodes /\ list[x][k] \in DOMAIN nodes
    BY <1>3
  <2> QED
    BY <2>1, <2>2
<1>8. \A n \in DOMAIN nodes', x \in DOMAIN list' :
        In(n, x) <=> /\ nodes'[n].type # "function"
                     /\ <<nodes'[x[1]].line, x[2]>> = Place(lines', nodes'[n].line)
  BY <1>1, <1>2, <1>4, <1>5
<1>9. \A i \in DOMAIN lines' :
        lines'[i] \in Opens \cup {"else if", "statement"} /\ (status' # "error" \/ i < Len(lines'))
          => \E n \in DOMAIN nodes' : nodes'[n].line = i
  <2> SUFFICES ASSUME NEW i \in DOMAIN lines',
                      lines'[i] \in Opens \cup {"else if", "statement"},
                      status' # "error" \/ i < Len(lines')
               PROVE  \E n \in DOMAIN nodes' : nodes'[n].line = i
    OBVIOUS
  <2>0. /\ Len(lines) \in Nat /\ Len(lines') = Len(lines) + 1
        /\ DOMAIN lines' = 1..(Len(lines) + 1) /\ lines'[Len(lines) + 1] = kw
    BY TextIs
  <2>1. i # Len(lines) + 1
    <3> SUFFICES ASSUME i = Len(lines) + 1 PROVE FALSE
      OBVIOUS
    <3>1. kw \in Opens \cup {"else if", "statement"}
      BY <2>0
    <3>2. status' = "error"
      BY <3>1
    <3>3. ~(Len(lines) + 1 < Len(lines) + 1)
      BY <2>0, UpTo
    <3>4. ~(i < Len(lines'))
      BY <2>0, <3>3
    <3> QED
      BY <3>2, <3>4
  <2>3. i \in 1..Len(lines)
    BY <2>0, <2>1, Below
  <2>4. i \in DOMAIN lines /\ lines'[i] = lines[i]
    BY <2>3, TextIs
  <2>5. \E n \in DOMAIN nodes : nodes[n].line = i
    BY <2>4, <1>4
  <2> QED
    BY <2>5
<1> QED
  <2>1. \A n \in DOMAIN nodes', x \in DOMAIN list' :
          Hangs(n, x)' <=> /\ nodes'[n].type # "function"
                           /\ <<nodes'[x[1]].line, x[2]>> = Place(lines', nodes'[n].line)
    BY <1>8 DEF Hangs, In
  <2> QED
    BY <2>1, <1>6, <1>7, <1>9 DEF TreeMatchesText

LEMMA TreeStep ==
  ASSUME Types, Shape, NodeOrder, ElseFree, AllHang, TreeMatchesText,
         Follows(lines, nodes, blocks), NEW kw \in Text, Parses(kw)
  PROVE  AllHang' /\ TreeMatchesText'
<1>1. lines' = Append(lines, kw) /\ status = "parsing" /\ status' = "parsing"
  BY DEF Parses
<1>2. /\ bptr.next \in DOMAIN list /\ bptr.next[1] = bptr.node /\ bptr.next[2] = Part(bptr.type)
      /\ bptr.node \in DOMAIN nodes
  BY TopOfStack
<1>3. kw # "else if" =>
        <<nodes[bptr.next[1]].line, bptr.next[2]>> = Place(lines', Len(lines) + 1)
  BY <1>1, <1>2, PlaceOfNew
<1>4. CASE kw \in Opens /\ Opening(kw)
  <2> DEFINE p == IF kw = "function" THEN <<>> ELSE bptr.next
             slots == IF kw = "if" THEN {"then", "else"} ELSE {"body"}
  <2>1. Node(kw) /\ list' = WithNode(p, slots)
    BY <1>4 DEF Opening
  <2>2. slots \in SUBSET Slots /\ kw \in NodeTypes /\ kw # "else if"
    BY <1>4 DEF Slots, NodeTypes, Opens
  <2>3. IF kw = "function" THEN p = <<>> ELSE p = bptr.next
    OBVIOUS
  <2> HIDE DEF p, slots
  <2> QED
    BY <2>1, <2>2, <2>3, <1>1, <1>2, <1>3, TreeGrow
<1>5. CASE kw = "statement" /\ Simple
  <2>1. Node("statement") /\ list' = WithNode(bptr.next, {})
    BY <1>5 DEF Simple
  <2>2. {} \in SUBSET Slots /\ "statement" \in NodeTypes
    BY DEF NodeTypes
  <2> QED
    BY <2>1, <2>2, <1>1, <1>2, <1>3, <1>5, TreeGrow
<1>6. CASE kw = "else if" /\ ElseIf
  <2> DEFINE p == <<bptr.node, "else">>
             slots == {"then", "else"}
  <2>1. bptr.type = "if" /\ Node("if") /\ list' = WithNode(p, slots)
    BY <1>6 DEF ElseIf
  <2>2. slots \in SUBSET Slots /\ "if" \in NodeTypes /\ "if" # "function"
    BY DEF Slots, NodeTypes, Opens
  <2>3. p[1] = bptr.node /\ p[2] = "else"
    OBVIOUS
  <2>4. <<nodes[p[1]].line, p[2]>> = Place(lines', Len(lines) + 1)
    BY <2>1, <1>1, <1>6, PlaceOfNew
  <2>5. p \in DOMAIN list
    BY <2>1, TopOfStack DEF ElseFree
  <2> HIDE DEF p, slots
  <2> QED
    BY <2>1, <2>2, <2>4, <2>5, <1>1, TreeGrow
<1>7. CASE kw \in Closes \cup {"else"}
  <2>1. kw \notin Opens \cup {"statement", "else if"}
    BY <1>7 DEF Opens, Closes
  <2>2. /\ list' = list /\ DOMAIN nodes' = DOMAIN nodes
        /\ \A n \in DOMAIN nodes :
             /\ nodes'[n].line = nodes[n].line
             /\ nodes'[n].type = "function" <=> nodes[n].type = "function"
    BY <2>1, NodesAfter
  <2> QED
    BY <2>1, <2>2, <1>1, TreeStays
<1> QED
  BY <1>4, <1>5, <1>6, <1>7 DEF Parses

-----------------------------------------------------------------------------
(* What comes out, and which lines are taken. *)

LEMMA GeneratedStep ==
  ASSUME Types, Shape, GeneratedOnce, NotYet, NEW kw \in Text, Parses(kw)
  PROVE  GeneratedOnce' /\ NotYet'
<1>1. /\ generated \in Seq(DOMAIN nodes) /\ currentFunction \in DOMAIN nodes
      /\ mainFunction \in DOMAIN nodes
      /\ DOMAIN generated = 1..Len(generated) /\ Len(generated) \in Nat
      /\ \A j \in DOMAIN generated : generated[j] \in DOMAIN nodes
  <2>1. generated \in Seq(DOMAIN nodes) /\ currentFunction \in DOMAIN nodes
    BY TypesParts DEF TypeParts
  <2>2. 1 \in DOMAIN blocks /\ blocks[1].node = mainFunction
    BY TopOfStack, AppendIs DEF Shape, Types
  <2>3. mainFunction \in DOMAIN nodes
    BY <2>2, BlockNodes
  <2> QED
    BY <2>1, <2>3, AppendIs, SeqElement
<1>2. status = "parsing" /\ status' = "parsing"
  BY DEF Parses
<1>3. /\ \A j, k \in DOMAIN generated : generated[j] = generated[k] => j = k
      /\ \A n \in DOMAIN nodes :
           nodes[n].type = "function" /\ n \notin {currentFunction, mainFunction}
             => Contains(generated, n)
      /\ ~Contains(generated, mainFunction)
  BY <1>2 DEF GeneratedOnce
<1>4. currentFunction # mainFunction => ~Contains(generated, currentFunction)
  BY DEF NotYet
\* The nodes that are functions.
<1>5. \A n \in DOMAIN nodes : n \in DOMAIN nodes' /\ (nodes'[n].type = "function" => nodes[n].type = "function")
  <2>1. CASE kw \in Opens \cup {"statement", "else if"}
    BY <2>1, NodesAfter, NodeAdded DEF Opens, Closes
  <2>2. CASE kw \notin Opens \cup {"statement", "else if"}
    BY <2>2, NodesAfter
  <2> QED
    BY <2>1, <2>2
<1>6. \A n \in DOMAIN nodes' : n \in DOMAIN nodes \/ (n = New /\ (nodes'[n].type = "function" => kw = "function"))
  <2>1. CASE kw \in Opens \cup {"statement", "else if"}
    BY <2>1, NodesAfter, NodeAdded DEF Opens, Closes
  <2>2. CASE kw \notin Opens \cup {"statement", "else if"}
    BY <2>2, NodesAfter
  <2> QED
    BY <2>1, <2>2
<1>7. New \notin DOMAIN nodes
  BY AppendIs DEF Types, New
<1>8. CASE kw # "end function"
  <2>1. /\ generated' = generated
        /\ kw # "function" => currentFunction' = currentFunction
        /\ kw = "function" => currentFunction = mainFunction /\ currentFunction' = New
    BY <1>8 DEF Parses, Opening, Simple, ElseIf, Else, Closing, Opens, Closes
  <2>2. \A n \in DOMAIN nodes' :
          nodes'[n].type = "function" /\ n \notin {currentFunction', mainFunction}
            => Contains(generated', n)
    BY <2>1, <1>3, <1>5, <1>6
  <2>3. ~Contains(generated, New)
    BY <1>1, <1>7 DEF Contains
  <2>4. currentFunction' # mainFunction => ~Contains(generated', currentFunction')
    BY <2>1, <2>3, <1>4
  <2>5. (status' = "compiled") <=> Contains(generated', mainFunction)
    BY <2>1, <1>2, <1>3
  <2> QED
    BY <2>1, <2>2, <2>4, <2>5, <1>3 DEF GeneratedOnce, NotYet
<1>9. CASE kw = "end function"
  <2>1. /\ currentFunction # mainFunction /\ currentFunction' = mainFunction
        /\ generated' = Append(generated, currentFunction)
    BY <1>9 DEF Parses, Opening, Simple, ElseIf, Else, Closing, Opens, Closes
  <2> DEFINE N == Len(generated)
  <2>2. /\ Len(generated') = N + 1 /\ DOMAIN generated' = 1..(N + 1)
        /\ \A k \in 1..N : generated'[k] = generated[k]
        /\ generated'[N + 1] = currentFunction
    BY <2>1, <1>1, AppendIs
  <2>3. N \in Nat /\ \A k \in 1..(N + 1) : k \in 1..N \/ k = N + 1
    <3>1. N \in Nat
      BY <1>1
    <3> QED
      BY <3>1, Below
  <2>4. \A k \in 1..N : generated[k] # currentFunction
    BY <2>1, <1>4 DEF Contains
  <2>5. \A k \in 1..N : generated[k] # mainFunction
    BY <1>3 DEF Contains
  <2>6. N + 1 \in 1..(N + 1) /\ \A k \in 1..N : k \in 1..(N + 1)
    BY <2>3
  <2>7. \A n : Contains(generated', n) <=> Contains(generated, n) \/ n = currentFunction
    <3> HIDE DEF N
    <3> QED
      BY <2>2, <2>3, <2>6 DEF Contains, N
  <2>8. \A j, k \in DOMAIN generated' : generated'[j] = generated'[k] => j = k
    <3>1. DOMAIN generated = 1..N
      BY <1>1
    <3> HIDE DEF N
    <3> QED
      BY <3>1, <2>2, <2>3, <2>4, <1>3
  <2>9. \A n \in DOMAIN nodes' :
          nodes'[n].type = "function" /\ n \notin {currentFunction', mainFunction}
            => Contains(generated', n)
    BY <2>1, <2>7, <1>3, <1>5, <1>6, <1>9
  <2>10. (status' = "compiled") <=> Contains(generated', mainFunction)
    BY <2>1, <2>7, <1>2, <1>3
  <2> QED
    BY <2>1, <2>8, <2>9, <2>10 DEF GeneratedOnce, NotYet
<1> QED
  BY <1>8, <1>9

\* The lines that were there are allowed as they were.
LEMMA AllowedKept ==
  ASSUME Types, NEW kw \in Text, lines' = Append(lines, kw), AcceptsNestedBlocks, status = "parsing",
         (Allowed(lines', Len(lines) + 1, MaxBlocks) /\ kw # OneLineIf) <=> status' # "error"
  PROVE  AcceptsNestedBlocks'
<1> DEFINE N == Len(lines) + 1
<1>1. \A i \in 1..Len(lines) : Allowed(lines', i, MaxBlocks) = Allowed(lines, i, MaxBlocks)
  BY TextIs, AllowedBefore
<1>2. \A i \in 1..Len(lines) : Allowed(lines', i, MaxBlocks) /\ lines'[i] # OneLineIf
  BY <1>1, TextIs DEF AcceptsNestedBlocks
<1>3. /\ Len(lines) \in Nat /\ DOMAIN lines' = 1..N /\ Len(lines') = N /\ lines'[N] = kw
      /\ \A i \in 1..N : i # N => i \in 1..Len(lines)
  <2>1. Len(lines) \in Nat /\ DOMAIN lines' = 1..N /\ Len(lines') = N /\ lines'[N] = kw
    BY TextIs
  <2>2. \A i \in 1..N : i # N => i \in 1..Len(lines)
    BY <2>1, Below
  <2> QED
    BY <2>1, <2>2
<1> HIDE DEF N
<1>4. ASSUME NEW i \in 1..N
      PROVE  (Allowed(lines', i, MaxBlocks) /\ lines'[i] # OneLineIf) <=> ~(status' = "error" /\ i = N)
  <2>1. CASE i = N
    BY <2>1, <1>3 DEF N
  <2>2. CASE i # N
    BY <2>2, <1>2, <1>3
  <2> QED
    BY <2>1, <2>2
<1> QED
  BY <1>3, <1>4 DEF AcceptsNestedBlocks

-----------------------------------------------------------------------------
(* The invariant. *)

LEMMA InitTypes == Init => Types /\ Shape
<1> SUFFICES ASSUME Init PROVE Types /\ Shape
  OBVIOUS
<1> DEFINE f == [type |-> "function", line |-> 0]
           x == <<mainFunction, "body">>
           b == [type |-> "function", node |-> mainFunction, next |-> x]
<1>1. /\ lines = <<>> /\ nodes = <<f>> /\ blocks = <<b>> /\ generated = <<>>
      /\ DOMAIN list = {x} /\ list[x] = <<>>
      /\ currentFunction = 1 /\ status = "parsing" /\ mainFunction = 1
  BY DEF Init, mainFunction
<1>2. f \in NodeRecords /\ f.line = 0
  BY DEF NodeRecords, NodeTypes, Opens
<1>3. b.type = "function" /\ b.node = 1 /\ b.next = x /\ x[1] = 1 /\ x[2] = "body" /\ b \in BlockRecords(list)
  BY <1>1 DEF BlockRecords, BlockTypes
<1>4. Part("function") = "body" /\ "body" \in Slots /\ x = <<x[1], x[2]>> /\ x = <<b.node, "body">>
  BY <1>3 DEF Part, Slots
<1>5. Shape
  BY <1>1, <1>3 DEF Shape
<1> HIDE DEF f, b, x
<1>6. nodes \in Seq(NodeRecords) /\ DOMAIN nodes = {1} /\ nodes[1] = f
  BY <1>1, <1>2
<1>7. ListType(list, nodes)
  <2>1. <<>> \in Seq(DOMAIN nodes)
    OBVIOUS
  <2> QED
    BY <2>1, <1>1, <1>3, <1>4, <1>6 DEF ListType
<1>8. StackType(blocks, list)
  <2>1. blocks \in Seq(BlockRecords(list)) /\ Len(blocks) = 1 /\ DOMAIN blocks = {1} /\ blocks[1] = b
    BY <1>1, <1>3
  <2>2. 1 \in 1..MaxBlocks
    BY BlockAssumption
  <2> QED
    BY <2>1, <2>2, <1>3, <1>4 DEF StackType
<1>9. lines \in Seq(Text) /\ generated \in Seq(DOMAIN nodes) /\ 0 \in 0..Len(lines)
  BY <1>1
<1> QED
  BY <1>1, <1>2, <1>5, <1>6, <1>7, <1>8, <1>9, TypesParts DEF TypeParts

LEMMA InitRest == Init => /\ Tree /\ GeneratedOnce /\ NotYet /\ AcceptsNestedBlocks
                          /\ Follows(lines, nodes, blocks)
<1> SUFFICES ASSUME Init
             PROVE  /\ Tree /\ GeneratedOnce /\ NotYet /\ AcceptsNestedBlocks
                    /\ Follows(lines, nodes, blocks)
  OBVIOUS
<1> DEFINE f == [type |-> "function", line |-> 0]
           x == <<mainFunction, "body">>
<1>1. /\ lines = <<>> /\ nodes = <<f>> /\ generated = <<>>
      /\ Len(blocks) = 1 /\ DOMAIN blocks = {1} /\ blocks[1].type = "function"
      /\ DOMAIN list = {x} /\ list[x] = <<>>
      /\ currentFunction = 1 /\ status = "parsing" /\ mainFunction = 1
  BY DEF Init, mainFunction
<1>2. f.type = "function" /\ DOMAIN nodes = {1} /\ nodes[1] = f /\ Len(nodes) = 1 /\ DOMAIN lines = {}
  BY <1>1
<1>3. NodeOrder
  BY <1>2 DEF NodeOrder
<1> HIDE DEF f
<1>4. \A n : ~Hangs(n, x)
  BY <1>1 DEF Hangs
<1>5. TreeMatchesText /\ AllHang /\ ElseFree
  <2> HIDE DEF x
  <2>1. \A y \in DOMAIN list : \A j, k \in DOMAIN list[y] :
          j < k => nodes[list[y][j]].line < nodes[list[y][k]].line
    BY <1>1
  <2> QED
    BY <2>1, <1>1, <1>2, <1>4 DEF TreeMatchesText, AllHang, ElseFree
<1>6. GeneratedOnce /\ NotYet
  BY <1>1, <1>2 DEF GeneratedOnce, NotYet, Contains
<1>7. AcceptsNestedBlocks
  BY <1>2 DEF AcceptsNestedBlocks
<1>8. Follows(lines, nodes, blocks)
  <2>1. \A kws : Count(lines, 1, kws) = 0
    <3>1. \A kws : {j \in 1..(1 - 1) : lines[j] \in kws} = {}
      OBVIOUS
    <3> QED
      BY <3>1, FS_EmptySet DEF Count
  <2>2. Depth(lines, 1) = 0 /\ Len(lines) + 1 = 1
    BY <2>1, <1>1 DEF Depth
  <2>3. DepthIs(lines, blocks)
    BY <2>2, <1>1, <1>2 DEF DepthIs
  <2> QED
    BY <2>3, <1>1 DEF Follows
<1> QED
  BY <1>3, <1>5, <1>6, <1>7, <1>8 DEF Tree

LEMMA InvParses == IInv /\ (\E kw \in Text \ {OneLineIf} : Parses(kw) /\ ~Refused(kw)) => IInv'
<1> SUFFICES ASSUME IInv, NEW kw \in Text \ {OneLineIf}, Parses(kw), ~Refused(kw)
             PROVE  IInv'
  OBVIOUS
<1>1. lines' = Append(lines, kw) /\ status = "parsing" /\ status' = "parsing"
  BY DEF Parses
<1>2. /\ Types /\ Shape /\ NodeOrder /\ ElseFree /\ AllHang /\ TreeMatchesText
      /\ GeneratedOnce /\ NotYet /\ AcceptsNestedBlocks /\ Follows(lines, nodes, blocks)
  BY <1>1 DEF IInv, Tree
<1>3. Types' /\ Shape' /\ NodeOrder' /\ ElseFree'
  BY <1>2, TypesStep, ShapeStep, OrderStep, ElseFreeStep
<1>4. AllHang' /\ TreeMatchesText'
  BY <1>2, TreeStep
<1>5. GeneratedOnce' /\ NotYet'
  BY <1>2, GeneratedStep
<1>6. AcceptsNestedBlocks'
  <2>1. Allowed(lines', Len(lines) + 1, MaxBlocks)
    BY <1>1, <1>2, AllowedNew
  <2> QED
    BY <2>1, <1>1, <1>2, AllowedKept
<1>7. Follows(lines', nodes', blocks')
  BY <1>2, FollowsStep
<1> QED
  BY <1>3, <1>4, <1>5, <1>6, <1>7 DEF IInv, Tree

LEMMA InvError == ASSUME IInv, NEW kw \in Keywords \cup {OneLineIf}, ParseError(kw) PROVE IInv'
<1>1. /\ status = "parsing" /\ status' = "error" /\ lines' = Append(lines, kw)
      /\ kw = OneLineIf \/ Refused(kw)
      /\ UNCHANGED <<nodes, list, blocks, currentFunction, generated>>
  BY DEF ParseError
<1>2. /\ Types /\ Shape /\ NodeOrder /\ ElseFree /\ AllHang /\ TreeMatchesText
      /\ GeneratedOnce /\ NotYet /\ AcceptsNestedBlocks /\ Follows(lines, nodes, blocks)
  BY <1>1 DEF IInv, Tree
<1>3. kw \in Text
  BY DEF Text
<1>4. Types'
  <2>1. TypeParts
    BY <1>2, TypesParts
  <2>2. StackType(blocks', list') /\ generated' \in Seq(DOMAIN nodes) /\ currentFunction' \in DOMAIN nodes
    BY <2>1, <1>1 DEF TypeParts
  <2> QED
    BY <2>2, <1>1, <1>2, <1>3, TypesStay
<1>5. Shape' /\ NodeOrder' /\ ElseFree' /\ NotYet'
  BY <1>1, <1>2 DEF Shape, NodeOrder, ElseFree, NotYet
<1>6. AllHang' /\ TreeMatchesText'
  BY <1>1, <1>2, <1>3, TreeStays
<1>7. GeneratedOnce'
  BY <1>1, <1>2 DEF GeneratedOnce
<1>8. AcceptsNestedBlocks'
  <2>1. ~(Allowed(lines', Len(lines) + 1, MaxBlocks) /\ kw # OneLineIf)
    BY <1>1, <1>2, <1>3, AllowedNew
  <2> QED
    BY <2>1, <1>1, <1>2, <1>3, AllowedKept
<1> QED
  BY <1>1, <1>4, <1>5, <1>6, <1>7, <1>8 DEF IInv, Tree

LEMMA TreeSame ==
  ASSUME AllHang, TreeMatchesText, UNCHANGED <<lines, nodes, list>>,
         (status' = "error") <=> (status = "error")
  PROVE  AllHang' /\ TreeMatchesText'
<1>1. \A n, x : Hangs(n, x)' <=> Hangs(n, x)
  BY DEF Hangs
<1>2. lines' = lines /\ nodes' = nodes /\ list' = list
  OBVIOUS
<1>3. AllHang'
  BY <1>1, <1>2 DEF AllHang
<1>4. \A n \in DOMAIN nodes, x \in DOMAIN list :
        Hangs(n, x)' <=> /\ nodes[n].type # "function"
                         /\ <<nodes[x[1]].line, x[2]>> = Place(lines, nodes[n].line)
  BY <1>1 DEF TreeMatchesText
<1>5. TreeMatchesText'
  BY <1>2, <1>4 DEF TreeMatchesText
<1> QED
  BY <1>3, <1>5

LEMMA InvEnds == IInv /\ CompileEnds => IInv'
<1> SUFFICES ASSUME IInv, CompileEnds PROVE IInv'
  OBVIOUS
<1>1. /\ status = "parsing" /\ status' = "compiled" /\ generated' = Append(generated, mainFunction)
      /\ UNCHANGED <<lines, nodes, list, blocks, currentFunction>>
  BY DEF CompileEnds
<1>2. /\ Types /\ Shape /\ NodeOrder /\ ElseFree /\ AllHang /\ TreeMatchesText
      /\ GeneratedOnce /\ NotYet /\ AcceptsNestedBlocks
  BY <1>1 DEF IInv, Tree
<1>3. mainFunction \in DOMAIN nodes /\ TypeParts
  <2>1. 1 \in DOMAIN blocks /\ blocks[1].node = mainFunction
    BY <1>2, TopOfStack, AppendIs DEF Shape, Types
  <2> QED
    BY <2>1, <1>2, BlockNodes, TypesParts
<1>4. Types'
  <2>1. generated' \in Seq(DOMAIN nodes)
    BY <1>1, <1>3, AppendIs DEF TypeParts
  <2> QED
    BY <2>1, <1>1, <1>3, TypesPartsPrimed DEF TypeParts
<1>5. Shape' /\ NodeOrder' /\ ElseFree'
  BY <1>1, <1>2 DEF Shape, NodeOrder, ElseFree
<1>6. AllHang' /\ TreeMatchesText'
  BY <1>1, <1>2, TreeSame
<1>7. AcceptsNestedBlocks'
  BY <1>1, <1>2 DEF AcceptsNestedBlocks
<1>8. GeneratedOnce' /\ NotYet'
  <2> DEFINE N == Len(generated)
  <2>1. N \in Nat /\ generated \in Seq(DOMAIN nodes)
    BY <1>3, AppendIs DEF TypeParts
  <2>2. /\ Len(generated') = N + 1 /\ DOMAIN generated' = 1..(N + 1) /\ DOMAIN generated = 1..N
        /\ \A k \in 1..N : generated'[k] = generated[k]
        /\ generated'[N + 1] = mainFunction
    BY <2>1, <1>1, AppendIs
  <2>3. /\ \A k \in 1..(N + 1) : k \in 1..N \/ k = N + 1
        /\ N + 1 \in 1..(N + 1) /\ \A k \in 1..N : k \in 1..(N + 1)
    BY <2>1, Below
  <2>4. \A k \in 1..N : generated[k] # mainFunction
    BY <1>1, <1>2 DEF GeneratedOnce, Contains
  <2>5. \A n : Contains(generated', n) <=> Contains(generated, n) \/ n = mainFunction
    <3> HIDE DEF N
    <3> QED
      BY <2>2, <2>3 DEF Contains, N
  <2>6. \A j, k \in DOMAIN generated' : generated'[j] = generated'[k] => j = k
    <3>1. \A j, k \in 1..N : generated[j] = generated[k] => j = k
      BY <2>2, <1>2 DEF GeneratedOnce
    <3> HIDE DEF N
    <3> QED
      BY <3>1, <2>2, <2>3, <2>4
  <2> QED
    BY <2>5, <2>6, <1>1, <1>2 DEF GeneratedOnce, NotYet
<1> QED
  BY <1>1, <1>4, <1>5, <1>6, <1>7, <1>8 DEF IInv, Tree

LEMMA InvStutter == IInv /\ UNCHANGED vars => IInv'
<1> SUFFICES ASSUME IInv, UNCHANGED vars PROVE IInv'
  OBVIOUS
<1>1. UNCHANGED <<lines, nodes, list, blocks, currentFunction, generated, status>>
  BY DEF vars
<1>2. /\ Types /\ Shape /\ NodeOrder /\ ElseFree /\ AllHang /\ TreeMatchesText
      /\ GeneratedOnce /\ NotYet /\ AcceptsNestedBlocks
  BY DEF IInv, Tree
<1>3. Types'
  BY <1>1, <1>2, TypesParts, TypesPartsPrimed DEF TypeParts
<1>4. Shape' /\ NodeOrder' /\ ElseFree'
  BY <1>1, <1>2 DEF Shape, NodeOrder, ElseFree
<1>5. AllHang' /\ TreeMatchesText'
  BY <1>1, <1>2, TreeSame
<1>6. GeneratedOnce' /\ NotYet' /\ AcceptsNestedBlocks'
  BY <1>1, <1>2 DEF GeneratedOnce, NotYet, AcceptsNestedBlocks
<1>7. status' = "parsing" => Follows(lines', nodes', blocks')
  BY <1>1 DEF IInv
<1> QED
  BY <1>3, <1>4, <1>5, <1>6, <1>7 DEF IInv, Tree

\* The inductive invariant holds: the stack of blocks is at every moment the
\* nesting of the lines read so far.
THEOREM Invariant == Spec => []IInv
<1>1. Init => IInv
  BY InitTypes, InitRest DEF IInv
<1>2. IInv /\ [Next]_vars => IInv'
  <2> SUFFICES ASSUME IInv, [Next]_vars PROVE IInv'
    OBVIOUS
  <2>1. CASE Accepted
    <3>1. Types /\ Shape /\ ElseFree
      BY DEF IInv, Tree
    <3> QED
      BY <3>1, <2>1, Steps, InvParses
  <2>2. ASSUME NEW kw \in Keywords \cup {OneLineIf}, ParseError(kw) PROVE IInv'
    BY <2>2, InvError
  <2>3. CASE CompileEnds
    BY <2>3, InvEnds
  <2>4. CASE UNCHANGED vars
    BY <2>4, InvStutter
  <2> QED
    BY <2>1, <2>2, <2>3, <2>4 DEF Next
<1> QED
  BY <1>1, <1>2, PTL DEF Spec

\* The block stack stays between the main program's block and the end of
\* blockBuf (PushBlock, PopBlock), every block's list is one of its node, and
\* what is given to Generate is nodes of the tree.
THEOREM TypeCorrect == Spec => []TypeOK
<1>1. IInv => TypeOK
  BY DEF IInv, Types
<1> QED
  BY <1>1, Invariant, PTL

\* However deep the blocks lie, each statement hangs, once, in the part of the
\* block it was written in, in the order of the lines (AddStatement through
\* bptr->pNextStatement, and what ParseElse, ParseElseIf make of it).
THEOREM TreeCorrect == Spec => []TreeMatchesText
<1>1. IInv => TreeMatchesText
  BY DEF IInv, Tree
<1> QED
  BY <1>1, Invariant, PTL

\* The checks of the block on top, all that ParseEndFunction ... ParseLoopUntil
\* look at, take the programs whose blocks nest and no other.
THEOREM NestingCorrect == Spec => []AcceptsNestedBlocks
<1>1. IInv => AcceptsNestedBlocks
  BY DEF IInv
<1> QED
  BY <1>1, Invariant, PTL

\* Each function is given to Generate once, at its END FUNCTION, and the main
\* program when the text ends.
THEOREM GeneratedCorrect == Spec => []GeneratedOnce
<1>1. IInv => GeneratedOnce
  BY DEF IInv
<1> QED
  BY <1>1, Invariant, PTL
=============================================================================
