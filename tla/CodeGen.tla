------------------------------ MODULE CodeGen ------------------------------
(***************************************************************************)
(* The code generator: src/compiler/generate.c with what parse.c and       *)
(* compile.c do to low memory.  A program is what the parser makes of the  *)
(* source: its `events', the definitions that go into low memory as they   *)
(* are parsed (data, symbols, strings, assembled instructions, functions), *)
(* and the parse trees of the main program, whose code comes last.         *)
(*                                                                         *)
(* Everything here is a function of the program: the generator's state is  *)
(* a record, and each code_ routine maps such a state to the next.         *)
(***************************************************************************)
EXTENDS Interpreter, SequencesExt

CONSTANT CodeLimit      \* a bound: the programs compiled are smaller than this

\* The fields of GenerateContext_t, the symbols and strings it refers to, and
\* lastReturn and generate_functions of generate.c.
Start ==
  [code      |-> <<>>,      \* low memory from codeBuf on
   last      |-> FALSE,     \* lastReturn
   value     |-> <<>>,      \* symbol -> its address or its chain
   placed    |-> {},        \* the symbols that have an address
   arrays    |-> {},        \* the SC_CONSTANT ones
   strings   |-> <<>>,      \* string -> its address
   functions |-> <<>>]      \* [start, end] of the code of each function

With(f, x, v) == [y \in DOMAIN f \cup {x} |-> IF y = x THEN v ELSE f[y]]

\* First c, then what is made of it: Step(c), for a c that Step uses often.
Then(c, Step(_)) == CHOOSE d \in {Step(x) : x \in {c}} : TRUE

CodeAddr(c) == Len(c.code)

PutByte(c, b) == [c EXCEPT !.code = Append(@, b % 256), !.last = (b = OP_RETURN)]

BigEndian(w)    == [k \in 1..WordSize |-> BytesOf(w)[WordSize - k]]
LittleEndian(w) == [k \in 1..WordSize |-> BytesOf(w)[k - 1]]

PutWord(c, w)  == [c EXCEPT !.code = @ \o BigEndian(w)]

PutDWord(c, w) == [c EXCEPT !.code = @ \o LittleEndian(w)]

ReadWord(c, a) == Operand([x \in 0..(CodeAddr(c) - 1) |-> c.code[x + 1]], a)

WriteWord(c, a, w) ==
  [c EXCEPT !.code = [i \in DOMAIN @ |-> IF i - a - 1 \in Places THEN BigEndian(w)[i - a]
                                                                   ELSE @[i]]]

-----------------------------------------------------------------------------
\* Chains: a place that waits for an address holds the place that waited
\* before it, and the first one holds zero.
RECURSIVE Fixup(_, _, _)
Fixup(c, chn, val) ==
  IF chn = 0 THEN c
  ELSE Then(ReadWord(c, chn), LAMBDA nxt :
       Then(WriteWord(c, chn, val), LAMBDA d : Fixup(d, nxt, val)))

RECURSIVE FixupBranch(_, _, _)
FixupBranch(c, chn, val) ==
  IF chn = 0 THEN c
  ELSE Then(ReadWord(c, chn), LAMBDA nxt :
       Then(WriteWord(c, chn, val - (chn + WordSize)), LAMBDA d : FixupBranch(d, nxt, val)))

\* Fault: only the last place of the chain gets the address.
PlaceOne(c, x, a) ==
  [(IF c.value[x] = 0 THEN c ELSE WriteWord(c, c.value[x], a))
     EXCEPT !.placed = @ \cup {x}, !.value[x] = a]

PlaceSymbol(c, x, a) ==
  [Fixup(c, c.value[x], a) EXCEPT !.placed = @ \cup {x}, !.value[x] = a]

\* OP_LIT and AddSymbolRef's answer: the address, or a new link of the chain.
SymbolRef(c, x) ==
  LET lit == PutWord(PutByte(c, OP_LIT), c.value[x])
  IN IF x \in c.placed THEN lit ELSE [lit EXCEPT !.value[x] = CodeAddr(c) + 1]

\* A branch to be fixed up, and one back to a place already known.
PutBranch(c, op_, chn) == PutWord(PutByte(c, op_), chn)
BranchBack(c, op_, a)  == PutWord(PutByte(c, op_), a - CodeAddr(c) - 1 - WordSize)

PutLit(c, n) == IF n \in -128..127 THEN PutByte(PutByte(c, OP_SLIT), n)
                                   ELSE PutWord(PutByte(c, OP_LIT), n)

-----------------------------------------------------------------------------
\* Trees.  In `f' a function has its argument names and its locals.
Lit(n)          == [k |-> "lit", n |-> n]
Str(s)          == [k |-> "str", s |-> s]
Var(x)          == [k |-> "var", x |-> x]
Un(o, e)        == [k |-> "un", o |-> o, e |-> e]
Bin(o, a, b)    == [k |-> "bin", o |-> o, a |-> a, b |-> b]
Fn(x, args)     == [k |-> "call", x |-> x, args |-> args]
At(x, i)        == [k |-> "at", x |-> x, i |-> i]
AnyOf(es)       == [k |-> "any", es |-> es]
AllOf(es)       == [k |-> "all", es |-> es]
Let(v, e)       == [k |-> "let", v |-> v, e |-> e]
If(e, a, b)     == [k |-> "if", e |-> e, a |-> a, b |-> b]
For(x, a, b, s, body) == [k |-> "for", x |-> x, a |-> a, b |-> b, s |-> s, body |-> body]
Do(test, e, body)     == [k |-> "do", test |-> test, e |-> e, body |-> body]
ReturnStmt(e)   == [k |-> "return", e |-> e]
ReturnNothing   == [k |-> "returnz"]
Asm(bytes)      == [k |-> "asm", bytes |-> bytes]
CallStmt(e)     == [k |-> "callstmt", e |-> e]
EndStmt         == [k |-> "end"]

NoFunction == [args |-> <<>>, locals |-> <<>>]

IsLocal(f, x)    == Contains(f.locals, x)
IsArgument(f, x) == Contains(f.args, x)

\* Fault: arguments counted from one.
ArgumentsFromOne(f, x) == IF IsLocal(f, x) THEN -1 - (SelectInSeq(f.locals, LAMBDA y : y = x) - 1)
                                           ELSE SelectInSeq(f.args, LAMBDA y : y = x)

\* LREF's and LSET's operand: a local lies at -1 - value, an argument at value.
LocalOffset(f, x) == IF IsLocal(f, x) THEN -1 - (SelectInSeq(f.locals, LAMBDA y : y = x) - 1)
                                      ELSE SelectInSeq(f.args, LAMBDA y : y = x) - 1

\* GetSymbolRef, and code_local or code_global with PV_LOAD.
LoadVar(c, f, x) ==
  IF IsLocal(f, x) \/ IsArgument(f, x)
    THEN PutByte(PutByte(c, OP_LREF), LocalOffset(f, x))
  ELSE IF x \in c.arrays THEN PutLit(c, c.value[x])
  ELSE PutByte(SymbolRef(c, x), OP_LOAD)

\* The same with PV_STORE.
StoreVar(c, f, x) ==
  IF IsLocal(f, x) \/ IsArgument(f, x)
    THEN PutByte(PutByte(c, OP_LSET), LocalOffset(f, x))
  ELSE PutByte(SymbolRef(c, x), OP_STORE)

RECURSIVE RValue(_, _, _), RValues(_, _, _), ShortCircuit(_, _, _, _, _)

\* code_call: the arguments, the function, and what takes the arguments off.
CodeCall(c, f, e) ==
  LET call == PutByte(Then(RValues(c, f, e.args), LAMBDA d : SymbolRef(d, e.x)), OP_CALL)
      argc == Len(e.args)
  IN CASE argc > 1 -> PutByte(PutByte(call, OP_CLEAN), argc)
       [] argc = 1 -> PutByte(call, OP_DROP)
       [] argc = 0 -> call

\* code_arrayref: the address of an element.
CodeElement(c, f, e) ==
  PutByte(Then(PutLit(c, c.value[e.x]), LAMBDA d : RValue(d, f, e.i)), OP_INDEX)

\* code_expr and code_rvalue of an expression.
RValue(c, f, e) ==
  CASE e.k = "lit"  -> PutLit(c, e.n)
    [] e.k = "str"  -> PutWord(PutByte(c, OP_LIT), c.strings[e.s])
    [] e.k = "var"  -> LoadVar(c, f, e.x)
    [] e.k = "un"   -> PutByte(RValue(c, f, e.e), e.o)
    [] e.k = "bin"  -> PutByte(Then(RValue(c, f, e.a), LAMBDA d : RValue(d, f, e.b)), e.o)
    [] e.k = "call" -> CodeCall(c, f, e)
    [] e.k = "at"   -> PutByte(CodeElement(c, f, e), OP_LOAD)
    [] e.k = "any"  -> Then(RValue(c, f, Head(e.es)),
                        LAMBDA d : ShortCircuit(d, f, OP_BRTSC, Tail(e.es), 0))
    [] e.k = "all"  -> Then(RValue(c, f, Head(e.es)),
                        LAMBDA d : ShortCircuit(d, f, OP_BRFSC, Tail(e.es), 0))

RValues(c, f, es) ==
  IF es = <<>> THEN c ELSE Then(RValue(c, f, Head(es)), LAMBDA d : RValues(d, f, Tail(es)))

\* code_shortcircuit: every branch but the last links to the one before.
ShortCircuit(c, f, op_, es, end) ==
  IF es = <<>> THEN FixupBranch(c, end, CodeAddr(c))
  ELSE Then(PutBranch(c, op_, end), LAMBDA branch :
       Then(RValue(branch, f, Head(es)), LAMBDA d :
         ShortCircuit(d, f, op_, Tail(es), CodeAddr(branch) - WordSize)))

RECURSIVE Statements(_, _, _)

CodeLet(c, f, s) ==
  Then(RValue(c, f, s.e), LAMBDA v :
    IF s.v.k = "at" THEN PutByte(CodeElement(v, f, s.v), OP_STORE) ELSE StoreVar(v, f, s.v.x))

CodeIf(c, f, s) ==
  Then(PutBranch(RValue(c, f, s.e), OP_BRF, 0), LAMBDA test :
  Then(PutBranch(Statements(test, f, s.a), OP_BR, 0), LAMBDA then :
  Then(FixupBranch(then, CodeAddr(test) - WordSize, CodeAddr(then)), LAMBDA nxt :
  Then(Statements(nxt, f, s.b), LAMBDA else :
    FixupBranch(else, CodeAddr(then) - WordSize, CodeAddr(else))))))

\* Fault: the branch back keeps the condition.
ForKeepsCondition(c, f, s) ==
  Then(PutBranch(RValue(c, f, s.a), OP_BR, 0), LAMBDA start :
  Then(Statements(start, f, s.body), LAMBDA body :
  Then(LoadVar(body, f, s.x), LAMBDA var :
  Then(PutByte(RValue(var, f, s.s), OP_ADD), LAMBDA step :
  Then(PutByte(FixupBranch(step, CodeAddr(start) - WordSize, CodeAddr(step)), OP_DUP), LAMBDA new :
  Then(StoreVar(new, f, s.x), LAMBDA update :
  Then(PutByte(RValue(update, f, s.b), OP_LE), LAMBDA test :
    BranchBack(test, OP_BRTSC, CodeAddr(start)))))))))

\* The start value stays on the stack until the update stores it.
CodeFor(c, f, s) ==
  Then(PutBranch(RValue(c, f, s.a), OP_BR, 0), LAMBDA start :
  Then(Statements(start, f, s.body), LAMBDA body :
  Then(LoadVar(body, f, s.x), LAMBDA var :
  Then(PutByte(RValue(var, f, s.s), OP_ADD), LAMBDA step :
  Then(PutByte(FixupBranch(step, CodeAddr(start) - WordSize, CodeAddr(step)), OP_DUP), LAMBDA new :
  Then(StoreVar(new, f, s.x), LAMBDA update :
  Then(PutByte(RValue(update, f, s.b), OP_LE), LAMBDA test :
    BranchBack(test, OP_BRT, CodeAddr(start)))))))))

\* DO WHILE and DO UNTIL jump to their test first.
CodeDoTest(c, f, s, op_) ==
  Then(PutBranch(c, OP_BR, 0), LAMBDA start :
  Then(Statements(start, f, s.body), LAMBDA body :
  Then(FixupBranch(body, CodeAddr(start) - WordSize, CodeAddr(body)), LAMBDA there :
  Then(RValue(there, f, s.e), LAMBDA test :
    BranchBack(test, op_, CodeAddr(start))))))

\* Fault: LOOP UNTIL goes on while the condition is true.
UntilAsWhile(c, f, s) ==
  Then(Statements(c, f, s.body), LAMBDA body :
  Then(IF s.test = "forever" THEN body ELSE RValue(body, f, s.e), LAMBDA test :
    BranchBack(test, IF s.test = "forever" THEN OP_BR ELSE OP_BRT, CodeAddr(c))))

\* The LOOP forms test at the bottom.
LoopBranch(test) == CASE test = "forever"    -> OP_BR
                      [] test = "loop while" -> OP_BRT
                      [] test = "loop until" -> OP_BRF

CodeLoop(c, f, s) ==
  Then(Statements(c, f, s.body), LAMBDA body :
  Then(IF s.test = "forever" THEN body ELSE RValue(body, f, s.e), LAMBDA test :
    BranchBack(test, LoopBranch(s.test), CodeAddr(c))))

CodeDo(c, f, s) == CASE s.test = "do while" -> CodeDoTest(c, f, s, OP_BRT)
                     [] s.test = "do until" -> CodeDoTest(c, f, s, OP_BRF)
                     [] OTHER -> CodeLoop(c, f, s)

\* code_expr of a statement; it has no case for END.
Statement(c, f, s) ==
  CASE s.k = "let"      -> CodeLet(c, f, s)
    [] s.k = "if"       -> CodeIf(c, f, s)
    [] s.k = "for"      -> CodeFor(c, f, s)
    [] s.k = "do"       -> CodeDo(c, f, s)
    [] s.k = "return"   -> PutByte(RValue(c, f, s.e), OP_RETURN)
    [] s.k = "returnz"  -> PutByte(c, OP_RETURNZ)
    [] s.k = "asm"      -> [c EXCEPT !.code = @ \o s.bytes]
    [] s.k = "callstmt" -> PutByte(RValue(c, f, s.e), OP_DROP)
    [] s.k = "end"      -> c

Statements(c, f, ss) ==
  IF ss # <<>> /\ CodeAddr(c) < CodeLimit
  THEN Then(Statement(c, f, Head(ss)), LAMBDA d : Statements(d, f, Tail(ss)))
  ELSE c

\* Fault: no cell for the saved frame pointer.
NO_F_SIZE == 0

\* code_function_definition: F_SIZE is 1, the saved frame pointer.
F_SIZE == 1

Body(c, f, ss) ==
  Then(PutByte(PutByte(c, OP_FRAME), F_SIZE + Len(f.locals)), LAMBDA d : Statements(d, f, ss))

EndBody(c, isMain) == IF isMain THEN PutByte(c, OP_HALT)
                      ELSE IF c.last THEN c ELSE PutByte(c, OP_RETURNZ)

Define(c, f, ss, isMain) ==
  Then(Body(c, f, ss), LAMBDA body :
  Then(EndBody(body, isMain), LAMBDA d :
    [d EXCEPT !.functions = Append(@, [start |-> CodeAddr(c), end |-> CodeAddr(d)])]))

-----------------------------------------------------------------------------
\* The parser's events.  A symbol or a string record takes space in the
\* image; what the interpreter never looks at is the byte Filler.
Filler == 255

Gap(c) == [c EXCEPT !.code = Append(@, Filler)]

\* AddGlobal at the first mention of a name.
Mention(x) == [k |-> "mention", x |-> x]
Dim(x, init, isArray) == [k |-> "dim", x |-> x, init |-> init, isArray |-> isArray]
Text(s) == [k |-> "text", s |-> s]
Assembled(bytes) == [k |-> "assembled", bytes |-> bytes]
Function(x, args, locals, body) ==
  [k |-> "function", x |-> x, f |-> [args |-> args, locals |-> locals], body |-> body]

PutDWords(c, ws) == FoldLeft(PutDWord, c, ws)

AddGlobal(c, x) == [Gap(c) EXCEPT !.value = With(@, x, 0)]

\* ParseDim outside a function.
DimGlobal(c, e) ==
  LET data == PutDWords(c, e.init)
  IN [Gap(data) EXCEPT !.value  = With(@, e.x, CodeAddr(c)),
                       !.placed = @ \cup {e.x},
                       !.arrays = IF e.isArray THEN @ \cup {e.x} ELSE @]

AddString(c, s) ==
  IF s \in DOMAIN c.strings THEN c
  ELSE [Gap(c) EXCEPT !.code = @ \o s \o <<0>>, !.strings = With(@, s, CodeAddr(c) + 1)]

Event(c, e) ==
  CASE e.k = "mention"   -> AddGlobal(c, e.x)
    [] e.k = "dim"       -> DimGlobal(c, e)
    [] e.k = "text"      -> AddString(c, e.s)
    [] e.k = "assembled" -> [c EXCEPT !.code = @ \o e.bytes]
    [] e.k = "function"  -> Then(Define(c, e.f, e.body, FALSE),
                                 LAMBDA d : PlaceSymbol(d, e.x, CodeAddr(c)))

RECURSIVE Events(_, _)
Events(c, es) ==
  IF es # <<>> /\ CodeAddr(c) < CodeLimit
  THEN Then(Event(c, Head(es)), LAMBDA d : Events(d, Tail(es)))
  ELSE c

\* Compile: the events, the main function, code_len, and only then the
\* variables that no DIM declares, which StoreVector puts behind the image.
Implicit(c, p) == SelectSeq(p.implicit, LAMBDA x : x \notin c.placed)

StoreImplicit(c, x) == Then(c, LAMBDA d : PlaceSymbol(PutDWord(d, 0), x, CodeAddr(d)))

Compile(p) ==
  Then(Events(Start, p.events), LAMBDA parsed :
  Then(Define(parsed, NoFunction, p.main, TRUE), LAMBDA main :
  Then(FoldLeft(StoreImplicit, main, Implicit(main, p)), LAMBDA whole :
    [image     |-> SubSeq(whole.code, 1, CodeAddr(main)),
     mainCode  |-> CodeAddr(parsed),
     functions |-> main.functions,
     symbols   |-> whole.value])))
=============================================================================
