------------------------------- MODULE Blocks -------------------------------
(***************************************************************************)
(* The statement parser of parse.c: the block stack and the parse tree it  *)
(* builds, a line at a time.  A line is its statement's keyword; what it   *)
(* says besides (expressions, names, the variable NEXT does not check) is  *)
(* left out, and "statement" stands for those that add a node and no       *)
(* block: LET, a call, PRINT, RETURN, END.                                 *)
(*                                                                         *)
(* A node is a number, its lists of statements are sequences of nodes.  A  *)
(* pNextStatement is the list whose end it points at.                      *)
(***************************************************************************)
EXTENDS Nesting, SequencesExt

CONSTANTS MaxBlocks,    \* blocks in blockBuf
          MaxLines      \* a bound on the length of the programs

ASSUME BlockAssumption == MaxBlocks \in Nat \ {0} /\ MaxLines \in Nat

VARIABLES lines,        \* the lines parsed
          nodes,        \* node -> [type, line]: its nodeType, the line it is of
          list,         \* <<node, slot>> -> the statements in that list
          blocks,       \* the stack: [type, node, next]
          currentFunction,
          generated,    \* the function nodes given to Generate, in order
          status        \* "parsing", "error" or "compiled"

vars == <<lines, nodes, list, blocks, currentFunction, generated, status>>

mainFunction == 1

bptr == Last(blocks)

\* A new node of this line, at the end of list p.
New  == Len(nodes) + 1
Node(t) == nodes' = Append(nodes, [type |-> t, line |-> Len(lines) + 1])

\* The lists of a new node, empty; p is the list that gets the node.
WithNode(p, slots) ==
  [x \in DOMAIN list \cup ({New} \X slots) |->
     IF x \in {New} \X slots THEN <<>> ELSE IF x = p THEN Append(list[x], New) ELSE list[x]]

NewBlock(t, slot) == [type |-> t, node |-> New, next |-> <<New, slot>>]

\* Fault: the check comes one block late.
PushLate(b) == Len(blocks) <= MaxBlocks /\ blocks' = Append(blocks, b)

\* PushBlock and its check; the new block's pNextStatement is set by the caller.
PushBlock(b) == Len(blocks) < MaxBlocks /\ blocks' = Append(blocks, b)

PopBlock == blocks' = Front(blocks)

-----------------------------------------------------------------------------
\* Compile and StartFunction for the main function.
Init ==
  /\ lines = <<>>
  /\ nodes = <<[type |-> "function", line |-> 0]>>
  /\ list = [x \in {<<mainFunction, "body">>} |-> <<>>]
  /\ blocks = <<[type |-> "function", node |-> mainFunction, next |-> <<mainFunction, "body">>]>>
  /\ currentFunction = mainFunction
  /\ generated = <<>>
  /\ status = "parsing"

\* ParseStatement on a line that starts with kw.
Line(kw) ==
  /\ status = "parsing"
  /\ Len(lines) < MaxLines
  /\ lines' = Append(lines, kw)
  /\ UNCHANGED status

\* ParseLet, ParseImpliedLetOrFunctionCall, ParsePrint, ParseReturn, ParseEnd.
ParseSimple ==
  /\ Line("statement")
  /\ Node("statement")
  /\ list' = WithNode(bptr.next, {})
  /\ UNCHANGED <<blocks, currentFunction, generated>>

ParseFunction ==
  /\ Line("function")
  /\ currentFunction = mainFunction /\ bptr.type = "function"
  /\ Node("function")
  /\ list' = WithNode(<<>>, {"body"})
  /\ PushBlock(NewBlock("function", "body"))
  /\ currentFunction' = New
  /\ UNCHANGED generated

\* Fault: the parser stays in the function.
EndStays ==
  /\ Line("end function")
  /\ currentFunction # mainFunction /\ bptr.type = "function"
  /\ generated' = Append(generated, currentFunction)
  /\ PopBlock
  /\ UNCHANGED <<nodes, list, currentFunction>>

ParseEndFunction ==
  /\ Line("end function")
  /\ currentFunction # mainFunction /\ bptr.type = "function"
  /\ generated' = Append(generated, currentFunction)
  /\ PopBlock
  /\ currentFunction' = mainFunction
  /\ UNCHANGED <<nodes, list>>

ParseIf ==
  /\ Line("if")
  /\ Node("if")
  /\ list' = WithNode(bptr.next, {"then", "else"})
  /\ PushBlock(NewBlock("if", "then"))
  /\ UNCHANGED <<currentFunction, generated>>

\* Fault: the block keeps the first IF's node.
ElseIfKeepsNode ==
  /\ Line("else if")
  /\ bptr.type = "if"
  /\ Node("if")
  /\ list' = [WithNode(<<>>, {"then", "else"}) EXCEPT ![<<bptr.node, "else">>] = <<New>>]
  /\ blocks' = Append(Front(blocks), [bptr EXCEPT !.next = <<New, "then">>])
  /\ UNCHANGED <<currentFunction, generated>>

\* The new IF is the only statement of the ELSE part, and takes the block.
ParseElseIf ==
  /\ Line("else if")
  /\ bptr.type = "if"
  /\ Node("if")
  /\ list' = [WithNode(<<>>, {"then", "else"}) EXCEPT ![<<bptr.node, "else">>] = <<New>>]
  /\ blocks' = Append(Front(blocks), NewBlock("if", "then"))
  /\ UNCHANGED <<currentFunction, generated>>

\* Fault: the block is still an IF after its ELSE.
ElseStaysIf ==
  /\ Line("else")
  /\ bptr.type = "if"
  /\ blocks' = Append(Front(blocks), [bptr EXCEPT !.next = <<bptr.node, "else">>])
  /\ UNCHANGED <<nodes, list, currentFunction, generated>>

ParseElse ==
  /\ Line("else")
  /\ bptr.type = "if"
  /\ blocks' = Append(Front(blocks),
                      [type |-> "else", node |-> bptr.node, next |-> <<bptr.node, "else">>])
  /\ UNCHANGED <<nodes, list, currentFunction, generated>>

ParseEndIf ==
  /\ Line("end if")
  /\ bptr.type \in {"if", "else"}
  /\ PopBlock
  /\ UNCHANGED <<nodes, list, currentFunction, generated>>

ParseFor ==
  /\ Line("for")
  /\ Node("for")
  /\ list' = WithNode(bptr.next, {"body"})
  /\ PushBlock(NewBlock("for", "body"))
  /\ UNCHANGED <<currentFunction, generated>>

ParseNext ==
  /\ Line("next")
  /\ bptr.type = "for"
  /\ PopBlock
  /\ UNCHANGED <<nodes, list, currentFunction, generated>>

\* ParseDo, ParseDoWhile, ParseDoUntil.
ParseDo(kw) ==
  /\ Line(kw)
  /\ Node(kw)
  /\ list' = WithNode(bptr.next, {"body"})
  /\ PushBlock(NewBlock("do", "body"))
  /\ UNCHANGED <<currentFunction, generated>>

ParseLoop ==
  /\ Line("loop")
  /\ bptr.type = "do"
  /\ PopBlock
  /\ UNCHANGED <<nodes, list, currentFunction, generated>>

\* ParseLoopWhile, ParseLoopUntil: only one test per loop.
ParseLoopTest(kw) ==
  /\ Line(kw)
  /\ bptr.type = "do" /\ nodes[bptr.node].type = "do"
  /\ nodes' = [nodes EXCEPT ![bptr.node] = [type |-> kw, line |-> @.line]]
  /\ PopBlock
  /\ UNCHANGED <<list, currentFunction, generated>>

Accepted ==
  \/ ParseSimple
  \/ ParseFunction \/ ParseEndFunction
  \/ ParseIf \/ ParseElseIf \/ ParseElse \/ ParseEndIf
  \/ ParseFor \/ ParseNext
  \/ \E kw \in {"do", "do while", "do until"} : ParseDo(kw)
  \/ ParseLoop
  \/ \E kw \in {"loop while", "loop until"} : ParseLoopTest(kw)

\* Which lines the routines above turn down.
Refused(kw) ==
  CASE kw \in {"if", "for", "do", "do while", "do until"} -> Len(blocks) = MaxBlocks
    [] kw = "function" -> \/ currentFunction # mainFunction
                          \/ bptr.type # "function"
                          \/ Len(blocks) = MaxBlocks
    [] kw = "end function" -> currentFunction = mainFunction \/ bptr.type # "function"
    [] kw \in {"else if", "else"} -> bptr.type # "if"
    [] kw = "end if" -> bptr.type \notin {"if", "else"}
    [] kw = "next" -> bptr.type # "for"
    [] kw = "loop" -> bptr.type # "do"
    [] kw \in {"loop while", "loop until"} -> bptr.type # "do" \/ nodes[bptr.node].type # "do"
    [] OTHER -> FALSE

\* ParseIf on IF ... THEN with a statement behind it: the statement is parsed,
\* the block popped, and then Require(c, tkn, T_EOL) asks the statement's
\* first token to be the end of the line.
OneLineIf == "if then statement"

Keywords == {"function", "end function", "if", "else if", "else", "end if", "for", "next",
             "do", "do while", "do until", "loop", "loop while", "loop until"}

ParseError(kw) ==
  /\ status = "parsing" /\ Len(lines) < MaxLines
  /\ kw = OneLineIf \/ Refused(kw)
  /\ lines' = Append(lines, kw)
  /\ status' = "error"
  /\ UNCHANGED <<nodes, list, blocks, currentFunction, generated>>

\* Compile at the end of the source: it does not look at the blocks.
CompileEnds ==
  /\ status = "parsing"
  /\ generated' = Append(generated, mainFunction)
  /\ status' = "compiled"
  /\ UNCHANGED <<lines, nodes, list, blocks, currentFunction>>

Next ==
  \/ Accepted
  \/ \E kw \in Keywords \cup {OneLineIf} : ParseError(kw)
  \/ CompileEnds

Spec == Init /\ [][Next]_vars

-----------------------------------------------------------------------------
TypeOK ==
  /\ lines \in Seq(Keywords \cup {OneLineIf, "statement"})
  /\ \A n \in DOMAIN nodes : nodes[n].line \in 0..Len(lines)
  /\ \A x \in DOMAIN list : x[1] \in DOMAIN nodes /\ list[x] \in Seq(DOMAIN nodes)
  /\ Len(blocks) \in 1..MaxBlocks
  /\ \A i \in DOMAIN blocks : blocks[i].next \in DOMAIN list /\ blocks[i].node = blocks[i].next[1]
  /\ currentFunction \in DOMAIN nodes
  /\ generated \in Seq(DOMAIN nodes)
  /\ status \in {"parsing", "error", "compiled"}

\* The tree says what the text says: every statement hangs, once, in the part
\* of the block it was written in, and the statements of a list are in the
\* order of their lines; nothing else is in the tree.
Hangs(n, x) == \E k \in DOMAIN list[x] : list[x][k] = n

TreeMatchesText ==
  /\ \A x \in DOMAIN list : \A j, k \in DOMAIN list[x] :
       j < k => nodes[list[x][j]].line < nodes[list[x][k]].line
  /\ \A n \in DOMAIN nodes, x \in DOMAIN list :
       Hangs(n, x) <=> /\ nodes[n].type # "function"
                       /\ <<nodes[x[1]].line, x[2]>> = Place(lines, nodes[n].line)
  /\ \A i \in DOMAIN lines :
       lines[i] \in Opens \cup {"else if", "statement"} /\ (status # "error" \/ i < Len(lines))
         => \E n \in DOMAIN nodes : nodes[n].line = i

\* The parser takes the programs whose blocks nest, and only those: it turns
\* down a line exactly when the text before it does not allow it.
AcceptsNestedBlocks ==
  \A i \in DOMAIN lines :
    (Allowed(lines, i, MaxBlocks) /\ lines[i] # OneLineIf) <=> ~(status = "error" /\ i = Len(lines))

\* The code of a function comes out once, whole, before the main program's.
GeneratedOnce ==
  /\ \A j, k \in DOMAIN generated : generated[j] = generated[k] => j = k
  /\ \A n \in DOMAIN nodes :
       nodes[n].type = "function" /\ n \notin {currentFunction, mainFunction}
         => Contains(generated, n)
  /\ status = "compiled" <=> Contains(generated, mainFunction)
=============================================================================
