---------------------------- MODULE Expressions ----------------------------
(***************************************************************************)
(* The expression parser of src/compiler/parse.c and the symbol tables of  *)
(* symbols.c.  `c' is the ParseContext_t of module Scanner, with the       *)
(* symbols and strings in it; what a routine returns is left in c.node.    *)
(*                                                                         *)
(* A node has the type the parser gives it: "integer", "string",           *)
(* "function", or "none" where node->type is none of the context's types.  *)
(* References have the name of their symbol: a table is searched from its  *)
(* head, so a name means its first symbol for ever.                        *)
(***************************************************************************)
EXTENDS Scanner

CONSTANTS SymbolSize,   \* bytes of a Symbol_t in low memory, without its name
          StringSize    \* bytes of a String_t, without its characters

ASSUME SymbolAssumption == SymbolSize \in Nat \ {0} /\ StringSize \in Nat \ {0}

\* Parse tree nodes.
Lit(n)       == [k |-> "lit",  type |-> "integer", n |-> n]
Str(s)       == [k |-> "str",  type |-> "string",  s |-> s]
Ref(k, x, t) == [k |-> k,      type |-> t,         x |-> x]
Un(o, e)     == [k |-> "un",   type |-> "integer", o |-> o, e |-> e]
Bin(o, a, b) == [k |-> "bin",  type |-> "integer", o |-> o, a |-> a, b |-> b]
Fn(f, args)  == [k |-> "call", type |-> "integer", f |-> f, args |-> args]
At(a, i)     == [k |-> "at",   type |-> "none",    a |-> a, i |-> i]
List(k, es)  == [k |-> k,      type |-> "none",    es |-> es]

IsIntegerLit(e) == e.k = "lit"

Return(c, e) == [c EXCEPT !.node = e]

-----------------------------------------------------------------------------
\* Symbols: [name, class, type, placed, value].  mainFunction has no name.
mainFunction == <<>>

Indices(table, x) == {i \in DOMAIN table : table[i].name = x}

FindGlobal(c, x)  == Min(Indices(c.globals, x))
IsGlobal(c, x)    == Indices(c.globals, x) # {}
InFunction(c)     == c.currentFunction # mainFunction
IsLocal(c, x)     == InFunction(c) /\ Contains(c.locals, x)
IsArgument(c, x)  == InFunction(c) /\ Contains(c.arguments, x)

\* AddGlobal does not store its parameter `type': the symbol has the type that
\* low memory holds there, c.low from the compilation before.
TypeLeft(c) == IF Len(c.globals) < Len(c.low) THEN c.low[Len(c.globals) + 1] ELSE "none"

Align(n) == WordSize * ((n + WordSize - 1) \div WordSize)

\* c.events has what goes into low memory, in order; data goes before its symbol.
Event(k, x, value, end) == [k |-> k, x |-> x, value |-> value, end |-> end]

AddGlobal(c, x, class, value, placed) ==
  [c EXCEPT !.globals = Append(@, [name |-> x, class |-> class, type |-> TypeLeft(c),
                                   placed |-> placed, value |-> value]),
            !.events = Append(@, Event(class, x, value, c.here)),
            !.here = @ + Align(SymbolSize + Len(x))]

\* Fault: a name that is a function already becomes a variable.
ResolveAnyRef(c, e, class, type) ==
  IF e.k = "global"
  THEN [c EXCEPT !.globals[FindGlobal(c, e.x)] = [@ EXCEPT !.class = class, !.type = type]]
  ELSE c

\* ResolveVariableRef and ResolveFunctionRef, on a symbol not yet known.
ResolveRef(c, e, class, type) ==
  IF e.k = "global" /\ c.globals[FindGlobal(c, e.x)].class = "unknown"
  THEN [c EXCEPT !.globals[FindGlobal(c, e.x)] = [@ EXCEPT !.class = class, !.type = type]]
  ELSE c

ResolveVariableRef(c, e) == ResolveRef(c, e, "variable", "integer")
ResolveFunctionRef(c, e) == ResolveRef(c, e, "function", "function")

GlobalRef(c, x) ==
  LET symbol == c.globals[FindGlobal(c, x)]
  IN Return(c, IF symbol.class = "constant" THEN Lit(symbol.value)
               ELSE Ref("global", x, symbol.type))

GetSymbolRef(c, x) ==
  CASE IsLocal(c, x) -> Return(c, Ref("local", x, "integer"))
    [] ~IsLocal(c, x) /\ IsArgument(c, x) -> Return(c, Ref("argument", x, "integer"))
    [] OTHER -> IF IsGlobal(c, x) THEN GlobalRef(c, x)
                ELSE On(AddGlobal(c, x, "unknown", 0, FALSE), LAMBDA d : GlobalRef(d, x))

AddString(c) ==
  IF c.token \in c.strings THEN c
  ELSE [c EXCEPT !.strings = @ \cup {c.token},
                 !.events = Append(@, Event("string", c.token, c.here, c.here)),
                 !.here = @ + Align(StringSize + Len(c.token))]

-----------------------------------------------------------------------------
\* Operators and the constants folded by them.
DividesByZero(o, b) == o \in {OP_DIV, OP_REM} /\ b = 0

\* The smallest word by -1 raises a signal in the compiler itself.
Traps(o, a, b) == o \in {OP_DIV, OP_REM} /\ a = -Half /\ b = -1

Fold(c, o, a, b) ==
  CASE DividesByZero(o, b.n) -> ParseError(c, "division by zero in constant expression")
    [] Traps(o, a.n, b.n)    -> ParseError(c, "signal")
    [] OTHER -> Return(c, Lit(Binary(o, a.n, b.n)))

\* The types are those the operands got when they were parsed, before the
\* references are resolved here.
MakeBinaryOpNode(c, o, a, b) ==
  On(ResolveVariableRef(ResolveVariableRef(c, a), b), LAMBDA d :
    IF IsIntegerLit(a) /\ IsIntegerLit(b) THEN Fold(d, o, a, b)
    ELSE IF a.type # "integer" THEN ParseError(d, "Expecting left operand to be a numeric expression")
    ELSE IF b.type # "integer" THEN ParseError(d, "Expecting right operand to be a numeric expression")
    ELSE Return(d, Bin(o, a, b)))

MakeUnaryOpNode(c, o, e) ==
  On(ResolveVariableRef(c, e), LAMBDA d :
    IF IsIntegerLit(e) THEN Return(d, Lit(Unary(o, e.n)))
    ELSE IF e.type # "integer" THEN ParseError(d, "Expecting a numeric expression")
    ELSE Return(d, Un(o, e)))

\* The operators of ParseExpr3 to ParseExpr10, and those of ParseExpr11.
BinaryOperators ==
  <<"^" :> OP_BXOR,
    "|" :> OP_BOR,
    "&" :> OP_BAND,
    "=" :> OP_EQ @@ "<>" :> OP_NE,
    "<" :> OP_LT @@ "<=" :> OP_LE @@ ">=" :> OP_GE @@ ">" :> OP_GT,
    "<<" :> OP_SHL @@ ">>" :> OP_SHR,
    "+" :> OP_ADD @@ "-" :> OP_SUB,
    "*" :> OP_MUL @@ "/" :> OP_DIV @@ "MOD" :> OP_REM>>

UnaryOperators == "-" :> OP_NEG @@ "NOT" :> OP_NOT @@ "~" :> OP_BNOT

RECURSIVE ParseLevel(_, _), Junction(_, _, _), BinaryTail(_, _), ParsePrimary(_), Subscripts(_),
          Arguments(_, _, _)

\* ParseExpr and ParseExpr2: the operands of a chain of OR or AND.
JunctionTokens == <<"OR", "AND">>

Junction(c, k, es) ==
  On(GetToken(c), LAMBDA g :
    IF g.tkn = JunctionTokens[k]
    THEN On(ParseLevel(g, k + 1), LAMBDA r : Junction(r, k, Append(es, r.node)))
    ELSE Return(SaveToken(g), IF Len(es) = 1 THEN es[1] ELSE List(JunctionTokens[k], es)))

\* ParseExpr3 to ParseExpr10 behind their first operand.
BinaryTail(c, k) ==
  On(GetToken(c), LAMBDA g :
    IF g.tkn \in DOMAIN BinaryOperators[k - 2]
    THEN On(ParseLevel(g, k + 1), LAMBDA r :
         On(MakeBinaryOpNode(r, BinaryOperators[k - 2][g.tkn], c.node, r.node), LAMBDA d :
           BinaryTail(d, k)))
    ELSE SaveToken(g))

ParseExpr11(c) ==
  On(GetToken(c), LAMBDA g :
    LET unary == g.tkn \in DOMAIN UnaryOperators
    IN On(ParsePrimary(IF unary \/ g.tkn = "+" THEN g ELSE SaveToken(g)), LAMBDA p :
         IF unary THEN MakeUnaryOpNode(p, UnaryOperators[g.tkn], p.node) ELSE p))

\* ParseExpr is level 1, ParseExpr11 level 11.
ParseLevel(c, k) ==
  CASE k \in 1..2  -> On(ParseLevel(c, k + 1), LAMBDA l : Junction(l, k, <<l.node>>))
    [] k \in 3..10 -> On(ParseLevel(c, k + 1), LAMBDA l : BinaryTail(l, k))
    [] k = 11      -> ParseExpr11(c)

ParseExpr(c) == ParseLevel(c, 1)

ParseSimplePrimary(c) ==
  On(GetToken(c), LAMBDA g :
    CASE g.tkn = "(" -> On(ParseExpr(g), LAMBDA e : FRequire(e, ")"))
      [] g.tkn \in {"INTNUMBER", "UINTNUMBER"} -> Return(g, Lit(g.tokenValue))
      [] g.tkn = "STRING" -> Return(AddString(g), Str(g.token))
      [] g.tkn = "IDENTIFIER" -> GetSymbolRef(g, SmallWord(g.token))
      [] OTHER -> ParseError(g, "Expecting a primary expression"))

\* Fault: the arguments in the order of the source.
ArgumentsInOrder(c, f, args) ==
  On(ParseExpr(c), LAMBDA a :
  On(GetToken(a), LAMBDA g :
    IF g.tkn = "," THEN Arguments(g, f, Append(args, a.node))
    ELSE Return(Require(g, ")"), Fn(f, Append(args, a.node)))))

\* The last argument is the first of the list.
Arguments(c, f, args) ==
  On(ParseExpr(c), LAMBDA a :
  On(GetToken(a), LAMBDA g :
    IF g.tkn = "," THEN Arguments(g, f, <<a.node>> \o args)
    ELSE Return(Require(g, ")"), Fn(f, <<a.node>> \o args))))

ParseCall(c, f) ==
  On(GetToken(ResolveFunctionRef(c, f)), LAMBDA g :
    IF g.tkn = ")" THEN Return(g, Fn(f, <<>>)) ELSE Arguments(SaveToken(g), f, <<>>))

ParseArrayReference(c, a) ==
  On(ParseExpr(c), LAMBDA i : On(FRequire(i, "]"), LAMBDA d : Return(d, At(a, i.node))))

Subscripts(c) ==
  On(GetToken(c), LAMBDA g :
    CASE g.tkn = "[" -> On(ParseArrayReference(g, c.node), LAMBDA d : Subscripts(d))
      [] g.tkn = "(" -> On(ParseCall(g, c.node), LAMBDA d : Subscripts(d))
      [] OTHER -> SaveToken(g))

ParsePrimary(c) == On(ParseSimplePrimary(c), LAMBDA d : Subscripts(d))
=============================================================================
