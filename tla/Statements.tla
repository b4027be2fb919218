----------------------------- MODULE Statements -----------------------------
(***************************************************************************)
(* The statements of src/compiler/parse.c with their names, expressions    *)
(* and data, and the inline assembler of assemble.c.                       *)
(*                                                                         *)
(* Each routine starts behind its keyword.  A statement goes to c.stmts    *)
(* with the function it is in; c.here is nextLow, c.cells the words that   *)
(* DIM and the implicit globals have put below it.  c.blocks is the stack  *)
(* up to bptr.  The lists that the nodes are in are left to module Blocks: *)
(* here they are one after the other, and what ends or splits a block is   *)
(* one of them.                                                            *)
(***************************************************************************)
EXTENDS Expressions

CONSTANTS FunctionSize, \* bytes of the code of a function
          MaxBlocks,    \* blocks in blockBuf
          HandlerName,  \* "printStr", "printInt", "printTab", "printNL" -> the name
          OpcodeTable   \* opcode_table: a set of [name, code, fmt]

ASSUME StatementAssumption == FunctionSize \in Nat \ {0} /\ MaxBlocks \in Nat \ {0}

Emit(c, statement) == [c EXCEPT !.stmts = Append(@, [in |-> c.currentFunction, s |-> statement])]

\* LETs, calls, RETURN and END; the lists have what is optional.
Let(l, r)   == [k |-> "let", l |-> l, r |-> r]
Call(e)     == [k |-> "callstmt", e |-> e]
Ret(es)     == [k |-> "return", es |-> es]
Asm(bytes)  == [k |-> "asm", bytes |-> bytes]
EndNode     == [k |-> "end"]

\* IF, FOR and DO, and what belongs to them: with their expressions, in order.
Part(k, es) == [k |-> k, es |-> es]

\* PushBlock and PopBlock; a DO has its test or not.
Block(type)  == [type |-> type, tested |-> FALSE]
bptr(c)      == Last(c.blocks)

PushBlock(c, b) == IF Len(c.blocks) >= MaxBlocks THEN ParseError(c, "statements too deeply nested")
                   ELSE [c EXCEPT !.blocks = Append(@, b)]
PopBlock(c)     == [c EXCEPT !.blocks = Front(@)]

InBlock(c, types) == bptr(c).type \in types

\* putdword.
PutCell(c, n) == [c EXCEPT !.cells = @ @@ (c.here :> n), !.here = @ + WordSize]

PutZeros(c, n) == FoldLeft(LAMBDA d, i : PutCell(d, 0), c, [i \in 1..n |-> i])

-----------------------------------------------------------------------------
ParseLet(c) ==
  On(ParsePrimary(c), LAMBDA l :
  On(FRequire(ResolveVariableRef(l, l.node), "="), LAMBDA d :
  On(ParseExpr(d), LAMBDA r : FRequire(Emit(r, Let(l.node, r.node)), "EOL"))))

\* Its first token has been read.
ParseImpliedLetOrFunctionCall(c) ==
  On(ParsePrimary(SaveToken(c)), LAMBDA l :
  On(GetToken(ResolveVariableRef(l, l.node)), LAMBDA g :
    IF g.tkn = "="
    THEN On(ParseExpr(g), LAMBDA r : FRequire(Emit(r, Let(l.node, r.node)), "EOL"))
    ELSE FRequire(Emit(SaveToken(g), Call(l.node)), "EOL")))

ParseReturn(c) ==
  On(GetToken(c), LAMBDA g :
    IF g.tkn = "EOL" THEN Emit(g, Ret(<<>>))
    ELSE On(ParseExpr(SaveToken(g)), LAMBDA r :
         On(FRequire(r, "EOL"), LAMBDA d : Emit(d, Ret(<<r.node>>)))))

ParseEnd(c) == FRequire(Emit(c, EndNode), "EOL")

-----------------------------------------------------------------------------
\* PRINT.
BuildHandlerCall(c, name, args) ==
  IF ~IsGlobal(c, HandlerName[name]) THEN ParseError(c, "print helper not defined")
  ELSE Emit(c, Call(Fn(Ref("global", HandlerName[name], "none"), args)))

RECURSIVE PrintItems(_, _, _)
PrintItems(c, dev, needNewline) ==
  On(GetToken(c), LAMBDA g :
    CASE g.tkn = "EOL" -> IF needNewline THEN BuildHandlerCall(g, "printNL", <<dev>>) ELSE g
      [] g.tkn = "," -> On(BuildHandlerCall(g, "printTab", <<dev>>), LAMBDA d :
                          PrintItems(d, dev, FALSE))
      [] g.tkn = ";" -> PrintItems(g, dev, FALSE)
      [] g.tkn = "STRING" ->
           On(BuildHandlerCall(AddString(g), "printStr", <<Str(g.token), dev>>), LAMBDA d :
             PrintItems(d, dev, TRUE))
      [] OTHER ->
           On(ParseExpr(SaveToken(g)), LAMBDA e :
           On(BuildHandlerCall(e, "printInt", <<e.node, dev>>), LAMBDA d :
             PrintItems(d, dev, TRUE))))

ParsePrint(c) ==
  On(GetToken(c), LAMBDA g :
    IF g.tkn = "#"
    THEN On(ParseExpr(g), LAMBDA e :
         On(FRequire(e, ","), LAMBDA d : PrintItems(d, e.node, TRUE)))
    ELSE PrintItems(SaveToken(g), Lit(0), TRUE))

-----------------------------------------------------------------------------
\* FUNCTION and END FUNCTION.
StartFunction(c, f) ==
  On(PushBlock(c, Block("function")), LAMBDA d :
    [d EXCEPT !.currentFunction = f, !.arguments = <<>>, !.locals = <<>>])

RECURSIVE Parameters(_)
Parameters(c) ==
  On(FRequire(c, "IDENTIFIER"), LAMBDA i :
  On(GetToken([i EXCEPT !.arguments = Append(@, SmallWord(i.token))]), LAMBDA g :
    IF g.tkn = "," THEN Parameters(g) ELSE Require(g, ")")))

ParameterList(c) ==
  On(GetToken(c), LAMBDA g :
    IF g.tkn # "(" THEN SaveToken(g)
    ELSE On(GetToken(g), LAMBDA h : IF h.tkn = ")" THEN h ELSE Parameters(SaveToken(h))))

\* Fault: a function that has its code may be defined again.
DefinesAgain(c, x) ==
  IF ~IsGlobal(c, x) THEN AddGlobal(c, x, "function", 0, FALSE)
  ELSE LET symbol == c.globals[FindGlobal(c, x)]
       IN IF symbol.class = "function" /\ symbol.type = "function" THEN c
          ELSE ParseError(c, "invalid definition of a forward referenced function")

\* The symbol of a function: new, or one that a call has made and nothing placed.
Defines(c, x) ==
  IF ~IsGlobal(c, x) THEN AddGlobal(c, x, "function", 0, FALSE)
  ELSE LET symbol == c.globals[FindGlobal(c, x)]
       IN IF symbol.class = "function" /\ symbol.type = "function" /\ ~symbol.placed THEN c
          ELSE ParseError(c, "invalid definition of a forward referenced function")

ParseFunction(c) ==
  IF InFunction(c) THEN ParseError(c, "nested function definitions not supported")
  ELSE IF ~InBlock(c, {"function"}) THEN ParseError(c, "function definition not allowed in another block")
  ELSE On(FRequire(c, "IDENTIFIER"), LAMBDA i :
       On(Defines(i, SmallWord(i.token)), LAMBDA d :
       On(ParameterList(StartFunction(d, SmallWord(i.token))), LAMBDA e : FRequire(e, "EOL"))))

\* What the statements of a function store to: the l-values of its LETs and the
\* control variables of its FORs.
Targets(c, f) ==
  {IF c.stmts[i].s.k = "let" THEN c.stmts[i].s.l ELSE c.stmts[i].s.es[1] :
     i \in {i \in DOMAIN c.stmts : c.stmts[i].in = f /\ c.stmts[i].s.k \in {"let", "for"}}}

\* The nodes that code_expr leaves a pv->fcn for.
IsLvalue(e) == e.k \in {"global", "local", "argument", "at"}

NullCall == "call of a null pointer"

\* code_statement_list.  code_lvalue reports a target that is no l-value, but
\* pv->fcn is then called to store all the same; code_global reports a store to
\* what is no variable, leaves it out and goes on.
CodeStatements(c, f) ==
  IF \E e \in Targets(c, f) : ~IsLvalue(e) THEN ParseError(c, NullCall)
  ELSE [c EXCEPT !.complaints = @ \cup
          {e.x : e \in {e \in Targets(c, f) :
                          e.k = "global" /\ c.globals[FindGlobal(c, e.x)].class # "variable"}}]

\* Generate puts the code of the function and places its symbol.
Generate(c) == On(CodeStatements(c, c.currentFunction), LAMBDA d :
  [d EXCEPT !.globals[FindGlobal(d, d.currentFunction)] = [@ EXCEPT !.placed = TRUE, !.value = d.here],
            !.events = Append(@, [k |-> "code", x |-> d.currentFunction,
                                  args |-> d.arguments, locals |-> d.locals]),
            !.here = @ + FunctionSize,
            !.bodies = Append(@, d.currentFunction)])

\* The rest of the line is not looked at.
ParseEndFunction(c) ==
  IF ~InFunction(c) THEN ParseError(c, "not in a function definition")
  ELSE IF ~InBlock(c, {"function"}) THEN ParseError(c, "function definition not complete")
  ELSE On(Generate(c), LAMBDA d : [PopBlock(d) EXCEPT !.currentFunction = mainFunction])

-----------------------------------------------------------------------------
\* DIM.  What ParseVariableDecl finds is in c.decl: [name, isArray, size].

\* Fault: an array of no cells.
EmptyArraySize(c, x) ==
  On(GetToken(c), LAMBDA g :
    IF g.tkn = "]" THEN [g EXCEPT !.decl = [name |-> x, isArray |-> TRUE, size |-> 0]]
    ELSE On(ParseExpr(SaveToken(g)), LAMBDA e :
           IF ~IsIntegerLit(e.node) THEN ParseError(e, "expecting a positive constant expression")
           ELSE IF e.node.n < 0 THEN ParseError(e, "expecting a positive constant expression")
           ELSE FRequire([e EXCEPT !.decl = [name |-> x, isArray |-> TRUE, size |-> e.node.n]], "]")))

ArraySize(c, x) ==
  On(GetToken(c), LAMBDA g :
    IF g.tkn = "]" THEN [g EXCEPT !.decl = [name |-> x, isArray |-> TRUE, size |-> 0]]
    ELSE On(ParseExpr(SaveToken(g)), LAMBDA e :
           IF ~IsIntegerLit(e.node) THEN ParseError(e, "expecting a positive constant expression")
           ELSE IF e.node.n <= 0 THEN ParseError(e, "expecting a positive constant expression")
           ELSE FRequire([e EXCEPT !.decl = [name |-> x, isArray |-> TRUE, size |-> e.node.n]], "]")))

ParseVariableDecl(c) ==
  On(FRequire(c, "IDENTIFIER"), LAMBDA i :
  On(GetToken(i), LAMBDA g :
    IF g.tkn = "[" THEN ArraySize(g, SmallWord(i.token))
    ELSE [SaveToken(g) EXCEPT !.decl = [name |-> SmallWord(i.token), isArray |-> FALSE, size |-> 1]]))

ParseScalarInitializer(c) ==
  On(ParseExpr(c), LAMBDA e :
    IF IsIntegerLit(e.node) THEN e ELSE ParseError(e, "expecting a constant expression"))

RECURSIVE NonBlank(_), ArrayLine(_, _), ArrayLines(_, _)

\* The first token that is not the end of a line.
NonBlank(c) ==
  On(GetToken(c), LAMBDA g :
    IF g.tkn # "EOL" THEN g
    ELSE On(ParseGetLine(g), LAMBDA d :
           IF d.more THEN NonBlank(d) ELSE ParseError(d, "unexpected end of file in initializers")))

\* The initializers of the current line; there is room for `size' more.
ArrayLine(c, size) ==
  On(ParseScalarInitializer(c), LAMBDA e :
    IF size <= 0 THEN ParseError(e, "too many initializers")
    ELSE On(GetToken(PutCell(e, e.node.n)), LAMBDA g :
           CASE g.tkn = "EOL" -> ArrayLines(g, size - 1)
             [] g.tkn = "}"   -> g
             [] g.tkn = ","   -> ArrayLine(g, size - 1)
             [] OTHER -> ParseError(g, "expecting a comma, right brace or end of line")))

ArrayLines(c, size) ==
  On(NonBlank(c), LAMBDA g : IF g.tkn = "}" THEN g ELSE ArrayLine(SaveToken(g), size))

ParseArrayInitializers(c, size) == On(FRequire(c, "{"), LAMBDA d : ArrayLines(d, size))

Initializers(c) ==
  On(GetToken(c), LAMBDA g :
    CASE g.tkn # "="                  -> SaveToken(PutZeros(g, c.decl.size))
      [] g.tkn = "=" /\ c.decl.isArray -> ParseArrayInitializers(g, c.decl.size)
      [] OTHER -> On(ParseScalarInitializer(g), LAMBDA e : PutCell(e, e.node.n)))

\* Fault: the address of what comes behind the cells.
AddressBehind(c, d) == d.here

\* The address is taken before the cells are put, and the symbol added behind them.
Address(c, d) == c.here

DimGlobal(c) ==
  On(Initializers(c), LAMBDA d :
    AddGlobal(d, c.decl.name, IF c.decl.isArray THEN "constant" ELSE "variable", Wrap(Address(c, d)), TRUE))

DimLocal(c) ==
  IF c.decl.isArray THEN ParseError(c, "local arrays are not supported")
  ELSE On(GetToken([c EXCEPT !.locals = Append(@, c.decl.name)]), LAMBDA g :
         IF g.tkn # "=" THEN SaveToken(g)
         ELSE On(ParseExpr(g), LAMBDA e : Emit(e, Let(Ref("local", c.decl.name, "integer"), e.node))))

RECURSIVE ParseDim(_)
ParseDim(c) ==
  On(ParseVariableDecl(c), LAMBDA v :
  On(IF InFunction(v) THEN DimLocal(v) ELSE DimGlobal(v), LAMBDA d :
  On(GetToken(d), LAMBDA g : IF g.tkn = "," THEN ParseDim(g) ELSE Require(g, "EOL"))))

-----------------------------------------------------------------------------
\* ASM: the lines up to END ASM.
WordBytes(n) == [i \in 1..WordSize |-> (n \div 256 ^ (WordSize - i)) % 256]

ParseIntegerConstant(c) ==
  On(ParseExpr(c), LAMBDA e :
    IF IsIntegerLit(e.node) THEN e ELSE ParseError(e, "expecting an integer constant expression"))

Operand(c, fmt) ==
  CASE fmt = "NONE" -> [c EXCEPT !.asm = <<>>]
    [] fmt \in {"BYTE", "SBYTE"} ->
         On(ParseIntegerConstant(c), LAMBDA e : [e EXCEPT !.asm = <<e.node.n % 256>>])
    [] fmt \in {"WORD", "NATIVE"} ->
         On(ParseIntegerConstant(c), LAMBDA e : [e EXCEPT !.asm = WordBytes(e.node.n)])
    [] OTHER -> ParseError(c, "instruction not currently supported")

Assemble(c, bytes) ==
  LET defs == {def \in OpcodeTable : SameWord(def.name, c.token)}
  IN IF defs = {} THEN ParseError(c, "undefined opcode")
     ELSE LET def == CHOOSE def \in defs : TRUE
          IN On(Operand(c, def.fmt), LAMBDA d :
                FRequire([d EXCEPT !.asm = bytes \o <<def.code>> \o @], "EOL"))

RECURSIVE AsmLines(_)
AsmLines(c) ==
  On(ParseGetLine(c), LAMBDA l :
    IF ~l.more THEN ParseError(l, "unexpected end of file in ASM statement")
    ELSE On(GetToken(l), LAMBDA g :
           CASE g.tkn = "END ASM"    -> g
             [] g.tkn = "EOL"        -> AsmLines(g)
             [] g.tkn = "IDENTIFIER" -> On(Assemble(g, c.asm), LAMBDA d : AsmLines(d))
             [] OTHER -> ParseError(g, "expected an assembly instruction opcode")))

ParseAsm(c) ==
  On(FRequire(c, "EOL"), LAMBDA d :
  On(AsmLines([d EXCEPT !.asm = <<>>]), LAMBDA e :
    FRequire([Emit(e, Asm(e.asm)) EXCEPT !.here = @ + Len(e.asm),
                                         !.events = Append(@, [k |-> "asm", bytes |-> e.asm])], "EOL")))

-----------------------------------------------------------------------------
\* The blocks.
Within(c, types) == IF InBlock(c, types) THEN c ELSE ParseError(c, "without a matching")

ParseElseIf(c) ==
  On(Within(c, {"if"}), LAMBDA d :
  On(ParseExpr(d), LAMBDA e :
  On(FRequire(Emit(e, Part("else if", <<e.node>>)), "THEN"), LAMBDA t : FRequire(t, "EOL"))))

ParseElse(c) ==
  On(Within(c, {"if"}), LAMBDA d :
    FRequire(Emit([d EXCEPT !.blocks = Append(Front(@), Block("else"))], Part("else", <<>>)), "EOL"))

ParseEndIf(c) ==
  On(Within(c, {"if", "else"}), LAMBDA d : FRequire(Emit(PopBlock(d), Part("end if", <<>>)), "EOL"))

\* The control variable is looked up, but is not made a variable by it.
ParseFor(c) ==
  On(PushBlock(c, Block("for")), LAMBDA d :
  On(FRequire(d, "IDENTIFIER"), LAMBDA i :
  On(GetSymbolRef(i, SmallWord(i.token)), LAMBDA var :
  On(FRequire(var, "="), LAMBDA q :
  On(ParseExpr(q), LAMBDA start :
  On(FRequire(start, "TO"), LAMBDA t :
  On(ParseExpr(t), LAMBDA end :
  On(GetToken(end), LAMBDA g :
    IF g.tkn = "STEP"
    THEN On(ParseExpr(g), LAMBDA step :
           FRequire(Emit(step, Part("for", <<var.node, start.node, end.node, step.node>>)), "EOL"))
    ELSE Require(Emit(g, Part("for", <<var.node, start.node, end.node>>)), "EOL")))))))))

\* Any name will do.
ParseNext(c) ==
  On(Within(c, {"for"}), LAMBDA d :
  On(FRequire(d, "IDENTIFIER"), LAMBDA i : FRequire(Emit(PopBlock(i), Part("next", <<>>)), "EOL")))

ParseDo(c) ==
  On(PushBlock(Emit(c, Part("do", <<>>)), Block("do")), LAMBDA d : FRequire(d, "EOL"))

\* ParseDoWhile and ParseDoUntil.
ParseDoTest(c) ==
  On(ParseExpr(c), LAMBDA e :
  On(PushBlock(Emit(e, Part(c.tkn, <<e.node>>)), [Block("do") EXCEPT !.tested = TRUE]), LAMBDA d :
    FRequire(d, "EOL")))

ParseLoop(c) ==
  On(Within(c, {"do"}), LAMBDA d : FRequire(Emit(PopBlock(d), Part("loop", <<>>)), "EOL"))

\* ParseLoopWhile and ParseLoopUntil.
ParseLoopTest(c) ==
  On(Within(c, {"do"}), LAMBDA d :
    IF bptr(d).tested THEN ParseError(d, "can't have a test at both the top and bottom of a loop")
    ELSE On(ParseExpr(d), LAMBDA e : FRequire(Emit(PopBlock(e), Part(c.tkn, <<e.node>>)), "EOL")))

RECURSIVE ParseStatement(_), ParseIf(_)

ParseStatement(c) ==
  CASE c.tkn = "REM"          -> c
    [] c.tkn = "FUNCTION"     -> ParseFunction(c)
    [] c.tkn = "END FUNCTION" -> ParseEndFunction(c)
    [] c.tkn = "DIM"          -> ParseDim(c)
    [] c.tkn = "LET"          -> ParseLet(c)
    [] c.tkn = "IF"           -> ParseIf(c)
    [] c.tkn = "ELSE"         -> ParseElse(c)
    [] c.tkn = "ELSE IF"      -> ParseElseIf(c)
    [] c.tkn = "END IF"       -> ParseEndIf(c)
    [] c.tkn = "FOR"          -> ParseFor(c)
    [] c.tkn = "NEXT"         -> ParseNext(c)
    [] c.tkn = "DO"           -> ParseDo(c)
    [] c.tkn \in {"DO WHILE", "DO UNTIL"}     -> ParseDoTest(c)
    [] c.tkn = "LOOP"         -> ParseLoop(c)
    [] c.tkn \in {"LOOP WHILE", "LOOP UNTIL"} -> ParseLoopTest(c)
    [] c.tkn = "RETURN"       -> ParseReturn(c)
    [] c.tkn = "PRINT"        -> ParsePrint(c)
    [] c.tkn = "END"          -> ParseEnd(c)
    [] c.tkn = "ASM"          -> ParseAsm(c)
    [] OTHER                  -> ParseImpliedLetOrFunctionCall(c)

\* A statement behind THEN is parsed, its block is closed, and then its first
\* token is asked to be the end of the line.
ParseIf(c) ==
  On(ParseExpr(c), LAMBDA e :
  On(FRequire(Emit(e, Part("if", <<e.node>>)), "THEN"), LAMBDA t :
  On(PushBlock(t, Block("if")), LAMBDA d :
  On(GetToken(d), LAMBDA g :
    IF g.tkn = "EOL" THEN g
    ELSE On(ParseStatement(g), LAMBDA s : ParseError(PopBlock(s), "Expecting"))))))
=============================================================================
