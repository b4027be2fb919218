----------------------------- MODULE Toolchain -----------------------------
(***************************************************************************)
(* RUN from the characters of a program to what it prints: FrontEnd parses *)
(* the lines (Compile of compile.c), CodeGen makes an image of the trees   *)
(* and the low memory of the parser, and Interpreter runs that (DoRun of   *)
(* edit.c).  What the text should print is told from BasicText, which does *)
(* not parse, and BasicMeaning, which does not compile.                    *)
(*                                                                         *)
(* CodeGen knows data by name: an array that the parser has made its       *)
(* address is the name again, and its cells have addresses of their own.   *)
(***************************************************************************)
EXTENDS FrontEnd

CONSTANTS StackSize, Inputs, Junk, CodeLimit,       \* as in Interpreter and CodeGen
          Executed                                  \* the programs that RUN also executes

VARIABLES code, pc, sp, fp, tos, stack, input, out, status,         \* Interpreter
          meaning                   \* what the text should print for the input

machineVars == <<code, pc, sp, fp, tos, stack, input, out, status>>
runVars     == <<vars, machineVars, meaning>>

Machine == INSTANCE BasicMeaning

-----------------------------------------------------------------------------
\* The trees of the generator.  A name is a string, with what it is the name
\* of: a local may hide an argument, and both a global.
Spelt(x) == FoldLeft(LAMBDA a, ch : a \o ch, "", x)
Bytes(s) == [i \in DOMAIN s |-> Code[s[i]]]

GlobalName(x) == IF \E h \in DOMAIN HandlerName : HandlerName[h] = x
                 THEN CHOOSE h \in DOMAIN HandlerName : HandlerName[h] = x ELSE Spelt(x)

NameOf(k, x)   == IF k = "global" THEN GlobalName(x) ELSE k \o " " \o Spelt(x)
NodeName(e)    == NameOf(e.k, e.x)
NamesOf(k, xs) == [i \in DOMAIN xs |-> NameOf(k, xs[i])]

\* The array whose cells are at address n.
ArrayAt(n) == LET symbol == CHOOSE s \in ToSet(c.globals) : s.class = "constant" /\ s.value = n
              IN GlobalName(symbol.name)

RECURSIVE Node(_)
Node(e) ==
  CASE e.k = "lit"  -> Machine!Lit(e.n)
    [] e.k = "str"  -> Machine!Str(Bytes(e.s))
    [] e.k \in {"global", "local", "argument"} -> Machine!Var(NodeName(e))
    [] e.k = "un"   -> Machine!Un(e.o, Node(e.e))
    [] e.k = "bin"  -> Machine!Bin(e.o, Node(e.a), Node(e.b))
    [] e.k = "call" -> Machine!Fn(NodeName(e.f), [i \in DOMAIN e.args |-> Node(e.args[i])])
    [] e.k = "at"   -> Machine!At(ArrayAt(e.a.n), Node(e.i))
    [] e.k = "OR"   -> Machine!AnyOf([i \in DOMAIN e.es |-> Node(e.es[i])])
    [] e.k = "AND"  -> Machine!AllOf([i \in DOMAIN e.es |-> Node(e.es[i])])

\* The lists that the lines of a program end in (module Blocks): of ss, what
\* starts at i and goes on to the line that ends or splits the block.
Loops     == {"LOOP WHILE", "LOOP UNTIL", "loop"}
BlockEnds == Loops \cup {"else if", "else", "end if", "next"}
LoopTest(top, bottom) ==
  CASE top.k = "DO WHILE" -> "do while"
    [] top.k = "DO UNTIL" -> "do until"
    [] top.k = "do" /\ bottom.k = "LOOP WHILE" -> "loop while"
    [] top.k = "do" /\ bottom.k = "LOOP UNTIL" -> "loop until"
    [] OTHER -> "forever"

RECURSIVE StatementList(_, _), ElseList(_, _)

\* One statement that starts at i, and where the next one does.
StatementAt(ss, i) ==
  LET s    == ss[i]
      body == StatementList(ss, i + 1)
      else == ElseList(ss, body.at)
  IN CASE s.k = "let"      -> [s |-> Machine!Let(Node(s.l), Node(s.r)), at |-> i + 1]
       [] s.k = "callstmt" -> [s |-> Machine!CallStmt(Node(s.e)), at |-> i + 1]
       [] s.k = "return"   -> [s |-> IF s.es = <<>> THEN Machine!ReturnNothing
                                     ELSE Machine!ReturnStmt(Node(s.es[1])), at |-> i + 1]
       [] s.k = "asm"      -> [s |-> Machine!Asm(s.bytes), at |-> i + 1]
       [] s.k = "end"      -> [s |-> Machine!EndStmt, at |-> i + 1]
       [] s.k = "if"       -> [s |-> Machine!If(Node(s.es[1]), body.list, else.list), at |-> else.at + 1]
       [] s.k = "for"      ->
            [s |-> Machine!For(NodeName(s.es[1]), Node(s.es[2]), Node(s.es[3]),
                               IF Len(s.es) = 4 THEN Node(s.es[4]) ELSE Machine!Lit(1), body.list),
             at |-> body.at + 1]
       [] s.k \in {"do", "DO WHILE", "DO UNTIL"} ->
            LET tests == s.es \o ss[body.at].es
            IN [s |-> Machine!Do(LoopTest(s, ss[body.at]),
                                 IF tests = <<>> THEN Machine!Lit(0) ELSE Node(tests[1]), body.list),
                at |-> body.at + 1]

StatementList(ss, i) ==
  IF i > Len(ss) \/ (i <= Len(ss) /\ ss[i].k \in BlockEnds) THEN [list |-> <<>>, at |-> i]
  ELSE With(StatementAt(ss, i), LAMBDA first :
       With(StatementList(ss, first.at), LAMBDA rest :
         [list |-> <<first.s>> \o rest.list, at |-> rest.at]))

\* ELSE IF is an IF alone in the ELSE part.
ElseList(ss, i) ==
  CASE ss[i].k = "end if"  -> [list |-> <<>>, at |-> i]
    [] ss[i].k = "else"    -> StatementList(ss, i + 1)
    [] ss[i].k = "else if" ->
         With(StatementList(ss, i + 1), LAMBDA then :
         With(ElseList(ss, then.at), LAMBDA else :
           [list |-> <<Machine!If(Node(ss[i].es[1]), then.list, else.list)>>, at |-> else.at]))

\* The statements of a function, or of the main program.
Body(stmts, f) ==
  With(SelectSeq(stmts, LAMBDA s : s.in = f), LAMBDA own :
    StatementList([i \in DOMAIN own |-> own[i].s], 1).list)

-----------------------------------------------------------------------------
\* What the parser has put into low memory, as the generator's events.
CellsOf(e) == [k \in 1..((e.end - e.value) \div WordSize) |-> c.cells[e.value + (k - 1) * WordSize]]

LowMemory(e) ==
  CASE e.k = "string" -> Machine!Text(Bytes(e.x))
    [] e.k = "asm"    -> Machine!Assembled(e.bytes)
    [] e.k = "code"   -> Machine!Function(GlobalName(e.x), NamesOf("argument", e.args), NamesOf("local", e.locals), Body(c.stmts, e.x))
    [] e.k \in {"unknown", "function"}  -> Machine!Mention(GlobalName(e.x))
    [] e.k \in {"variable", "constant"} -> Machine!Dim(GlobalName(e.x), CellsOf(e), e.k = "constant")

CompiledText ==
  LET variables == SelectSeq(c.globals, LAMBDA s : s.class = "variable")
  IN [events   |-> [i \in DOMAIN c.events |-> LowMemory(c.events[i])],
      implicit |-> [i \in DOMAIN variables |-> GlobalName(variables[i].name)],
      main     |-> Body(c.stmts, mainFunction)]
-----------------------------------------------------------------------------
\* The same program as the text has it: its functions with the names in
\* brackets and those of their DIMs, its data with the values of theirs.
InOrder(S) == SetToSortSeq(S, <)
NamesAt(P, S) == LET at == InOrder(S) IN [k \in DOMAIN at |-> Name(P, at[k])]

FunctionText(P, stmts, i) ==
  LET mine(j) == Scope(P, j) = P.of[i]
      names   == {j \in Names(P) : mine(j)}
  IN Machine!Function(GlobalName(Name(P, i)),
       NamesOf("argument", NamesAt(P, {j \in names : IsParameter(P, j)})),
       NamesOf("local", NamesAt(P, {j \in names : IsDimmed(P, j)})),
       Body(stmts, Name(P, i)))

DataText(P, d) ==
  Machine!Dim(GlobalName(Name(P, d.at)), [k \in DOMAIN d.values |-> d.values[k].n],
              Is(P.T, d.at + 1, {"["}))

ProgramMeant ==
  With(TextOf(text), LAMBDA P :
  With(Meaning(P, Addresses).stmts, LAMBDA stmts :
    [events |-> SetToSeq(
                  {FunctionText(P, stmts, i) : i \in {i \in Names(P) : IsDefined(P, i)}}
                  \cup {DataText(P, d) : d \in Declares(P, Addresses)}),
     main   |-> Body(stmts, mainFunction)]))

-----------------------------------------------------------------------------
\* Before RUN nothing runs.
RunInit ==
  /\ Init
  /\ code = <<>> /\ pc = 0 /\ sp = 0 /\ fp = 0 /\ tos = 0 /\ stack = <<>>
  /\ input = <<>> /\ out = <<>> /\ status = "none"
  /\ meaning = <<>>

\* Compile, line by line; a second RUN of what is only compiled here.
Compiling ==
  /\ status = "none" /\ (phase = "compiled" => text \notin Executed)
  /\ Next
  /\ UNCHANGED <<machineVars, meaning>>

\* DoRun behind Compile: vm_init with the image, vm_execute from mainCode.
Start ==
  /\ status = "none" /\ phase = "compiled" /\ text \in Executed
  /\ \E compiled \in {Machine!Compile(CompiledText)}, keys \in Inputs, old \in Junk :
       /\ code' = [a \in 0..(Len(compiled.image) - 1) |-> compiled.image[a + 1]]
       /\ pc' = compiled.mainCode
       /\ sp' = StackSize /\ fp' = StackSize
       /\ tos' = old /\ stack' = [cell \in 0..(StackSize - 1) |-> old]
       /\ input' = keys /\ out' = <<>> /\ status' = "running"
       /\ meaning' = Machine!Prints(ProgramMeant, keys)
  /\ phase' = "executed"
  /\ UNCHANGED <<text, c, before>>

Running == Machine!VmStep /\ UNCHANGED <<vars, meaning>>

RunNext == Compiling \/ Start \/ Running

RunSpec == RunInit /\ [][RunNext]_runVars

-----------------------------------------------------------------------------
(* Every word stays in its range, and a program never prints more than its     *)
(* text means.                                                                 *)
RunTypeOK ==
  /\ TypeOK
  /\ status \in {"none", "running", "halted", "aborted", "wild"}
  /\ tos \in Machine!Word
  /\ \A cell \in DOMAIN stack : stack[cell] \in Machine!Word
  /\ Len(meaning) >= Len(out)

(* RUN prints what its text means: through parser, generator and machine names *)
(* find the cells and frame offsets of their declarations, whichever of a      *)
(* global, an argument and a local they are, operators take their operands in  *)
(* the order and strength of the text, arguments arrive in their places, and   *)
(* blocks become the branches that the lines ask for.                          *)
PrintsItsText ==
  status # "none" =>
    /\ status \in {"running", "halted"}
    /\ IsPrefix(out, meaning)
    /\ status = "halted" => out = meaning
=============================================================================
