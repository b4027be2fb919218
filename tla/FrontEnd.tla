------------------------------ MODULE FrontEnd ------------------------------
(***************************************************************************)
(* Compile of src/compiler/compile.c, from the characters of the lines of  *)
(* a program to its statements, symbols and cells: one step reads a line   *)
(* to its first token, one parses the statement.  RUN is typed twice, as   *)
(* the second one finds what the first left in low memory.                 *)
(* The texts of TokenTexts are only read, token by token.                  *)
(***************************************************************************)
EXTENDS BasicText

CONSTANTS Programs,     \* the programs: sequences of lines of characters
          TokenTexts,   \* the texts that are only scanned
          MainSize      \* bytes of the code of the main program

VARIABLES text,         \* the program in the editor
          c,            \* the ParseContext_t
          phase,        \* "lines", "statement", "tokens", or the outcome "compiled", "refused", "crashed"
          before        \* what the RUN before came to: <<>>, or its phase and c

vars == <<text, c, phase, before>>

\* The context of InitParseContext; low memory is as the RUN before has left it.
NewContext(lines, old) ==
  [line |-> <<>>, ptr |-> 1, rest |-> lines, more |-> TRUE, inComment |-> FALSE,
   ch |-> EOF, tkn |-> "NONE", savedToken |-> "NONE", token |-> <<>>, tokenValue |-> 0,
   error |-> "", ahead |-> <<>>, tokens |-> <<>>, node |-> Lit(0), asm |-> <<>>,
   decl |-> [name |-> <<>>, isArray |-> FALSE, size |-> 0],
   globals |-> <<>>, low |-> [i \in DOMAIN old.globals |-> old.globals[i].type], strings |-> {},
   currentFunction |-> mainFunction, arguments |-> <<>>, locals |-> <<>>, blocks |-> <<Block("function")>>,
   stmts |-> <<>>, complaints |-> {}, bodies |-> <<>>, events |-> <<>>, here |-> 0, cells |-> <<>>]

\* Fault: the global symbol table is not emptied.
StartWithSymbols(lines, old) == [NewContext(lines, old) EXCEPT !.globals = old.globals]

\* Compile up to its loop.
StartCompile(lines, old) == InitScan(NewContext(lines, old))

\* Low memory is zero when the program starts.
Fresh == [globals |-> <<>>]

Init ==
  /\ \/ text \in Programs /\ phase = "lines"
     \/ text \in TokenTexts /\ phase = "tokens"
  /\ c = StartCompile(text, Fresh)
  /\ before = <<>>

\* Compile's loop: the next line and its first token.  A ParseError ends it.
NextLine ==
  /\ phase = "lines" /\ c.rest # <<>>
  /\ c' = On(ParseGetLine(c), GetToken)
  /\ phase' = CASE c'.error # ""   -> "refused"
                [] c'.tkn = "EOL" /\ c'.error = "" -> "lines"
                [] OTHER -> "statement"
  /\ UNCHANGED <<text, before>>

\* ParseStatement, on a line that starts with one of the tokens; it leaves d.
Statement(tokens, d) ==
  /\ phase = "statement" /\ c.tkn \in tokens
  /\ c' = d
  /\ phase' = CASE c'.error = ""       -> "lines"
                [] c'.error = NullCall -> "crashed"
                [] OTHER               -> "refused"
  /\ UNCHANGED <<text, before>>

Keywords == {"REM", "FUNCTION", "END FUNCTION", "DIM", "LET", "RETURN", "PRINT", "END", "ASM",
             "IF", "ELSE", "ELSE IF", "END IF", "FOR", "NEXT",
             "DO", "DO WHILE", "DO UNTIL", "LOOP", "LOOP WHILE", "LOOP UNTIL"}

DoRem         == Statement({"REM"}, c)
DoFunction    == Statement({"FUNCTION"}, ParseFunction(c))
DoEndFunction == Statement({"END FUNCTION"}, ParseEndFunction(c))
DoDim         == Statement({"DIM"}, ParseDim(c))
DoLet         == Statement({"LET"}, ParseLet(c))
DoReturn      == Statement({"RETURN"}, ParseReturn(c))
DoPrint       == Statement({"PRINT"}, ParsePrint(c))
DoEnd         == Statement({"END"}, ParseEnd(c))
DoAsm         == Statement({"ASM"}, ParseAsm(c))
DoIf          == Statement({"IF"}, ParseIf(c))
DoElse        == Statement({"ELSE"}, ParseElse(c))
DoElseIf      == Statement({"ELSE IF"}, ParseElseIf(c))
DoEndIf       == Statement({"END IF"}, ParseEndIf(c))
DoFor         == Statement({"FOR"}, ParseFor(c))
DoNext        == Statement({"NEXT"}, ParseNext(c))
DoDo          == Statement({"DO"}, ParseDo(c))
DoDoTest      == Statement({"DO WHILE", "DO UNTIL"}, ParseDoTest(c))
DoLoop        == Statement({"LOOP"}, ParseLoop(c))
DoLoopTest    == Statement({"LOOP WHILE", "LOOP UNTIL"}, ParseLoopTest(c))
DoImplied     == Statement({c.tkn} \ Keywords, ParseImpliedLetOrFunctionCall(c))

\* The globals that no DIM has placed get their cells behind the main program.
PlaceImplicit(d) ==
  FoldLeft(LAMBDA e, i :
             IF e.globals[i].class = "variable" /\ ~e.globals[i].placed
             THEN PutCell([e EXCEPT !.globals[i] = [@ EXCEPT !.placed = TRUE, !.value = Wrap(e.here)]], 0)
             ELSE e,
           [d EXCEPT !.here = @ + MainSize], [i \in DOMAIN d.globals |-> i])

\* The main program is generated; what is left is in it or in a function without end.
CompileEnds ==
  /\ phase = "lines" /\ c.rest = <<>>
  /\ c' = On(CodeStatements(c, mainFunction), PlaceImplicit)
  /\ phase' = IF c'.error = "" THEN "compiled" ELSE "crashed"
  /\ UNCHANGED <<text, before>>

\* The second RUN, unless the first was the program's end.  The symbols lie where
\* they were; their types are still there.
RunAgain ==
  /\ phase \in {"compiled", "refused"} /\ before = <<>>
  /\ before' = <<[phase |-> phase, c |-> c]>>
  /\ c' = StartCompile(text, c)
  /\ phase' = "lines"
  /\ UNCHANGED text

\* GetToken, line after line.
ReadToken ==
  /\ phase = "tokens" /\ c.error = ""
  /\ \/ c.tkn \notin {"NONE", "EOL"} /\ c' = GetToken(c)
     \/ c.tkn \in {"NONE", "EOL"} /\ c.rest # <<>> /\ c' = On(ParseGetLine(c), GetToken)
  /\ UNCHANGED phase
  /\ UNCHANGED <<text, before>>

Next ==
  \/ NextLine \/ DoRem \/ DoFunction \/ DoEndFunction \/ DoDim \/ DoLet \/ DoReturn
  \/ DoPrint \/ DoEnd \/ DoAsm \/ DoImplied
  \/ DoIf \/ DoElse \/ DoElseIf \/ DoEndIf \/ DoFor \/ DoNext
  \/ DoDo \/ DoDoTest \/ DoLoop \/ DoLoopTest
  \/ CompileEnds \/ RunAgain \/ ReadToken

Spec == Init /\ [][Next]_vars

-----------------------------------------------------------------------------
\* Properties.
Symbol == [name : {c.globals[i].name : i \in DOMAIN c.globals}, placed : BOOLEAN, value : Word,
           class : {"unknown", "constant", "variable", "function"}, type : {"none", "integer", "function"}]

(* Every number is a VMVALUE: the tokens' values, the symbols' values and the  *)
(* cells; linePtr stays in the line.                                           *)
TypeOK ==
  /\ phase \in {"lines", "statement", "tokens", "compiled", "refused", "crashed", "executed"}       \* executed: in Toolchain
  /\ c.ptr \in 1..(Len(c.line) + 1)
  /\ c.tokenValue \in Word
  /\ c.globals \in Seq(Symbol)
  /\ ToSet(c.low) \subseteq {"none", "integer", "function"}
  /\ \A a \in DOMAIN c.cells : c.cells[a] \in Word

Ended == phase \in {"compiled", "refused", "crashed"}

FirstRun == before = <<>>

\* A read line is over: its last token has been asked for.
LineOver == phase = "tokens" /\ (c.tkn = "EOL" \/ c.error # "")

\* Without the end of the line, which may be asked for again.
Proper(ts) == SelectSeq(ts, LAMBDA t : t.tkn \notin {"EOL", "BAD"})

Asked(i) == Proper([k \in DOMAIN c.tokens[i] |->
                      [tkn |-> c.tokens[i][k].tkn, text |-> c.tokens[i][k].token, value |-> c.tokens[i][k].tokenValue]])

(* The scanner (GetToken1 and what it calls, with the look-ahead behind END,   *)
(* ELSE, DO and LOOP, UngetC and inComment) reads of each line the tokens that *)
(* it has once comments, which may go on over lines, are taken out, each as    *)
(* long as can be; a line that is left or compiled has been read to its end,   *)
(* unless it starts with REM or END FUNCTION.  Said of texts with no comment   *)
(* that starts in such a look-ahead and goes on behind the line: inComment     *)
(* outlives the look-ahead (CommentFlagInside), and the word before is lost.   *)
TokensOfText ==
  Ended \/ LineOver =>
    \E lines \in {LinesOf(text)} :
       (\A i \in DOMAIN c.tokens : ~lines[i].ahead) =>
       /\ \A i \in DOMAIN c.tokens :
            LET proper == Proper(lines[i].tokens)
            IN /\ IsPrefix(Asked(i), proper)
               /\ \/ Asked(i) = proper
                  \/ i = Len(c.tokens) /\ phase = "refused"
                  \/ proper[1].tkn \in Unread
       /\ phase = "tokens" => (c.error # "") = (Last(lines[Len(c.tokens)].tokens).tkn = "BAD")

(* compile.h says of inComment "inside of a slash/star comment": where it is   *)
(* set, linePtr is in a comment of the line.                                   *)
CommentFlagInside ==
  c.inComment /\ c.tokens # <<>> =>
    LET n  == Len(c.tokens)
        ms == Modes(c.line, IF n > 1 /\ LinesOf(text)[n - 1].opens THEN "block" ELSE "code")
    IN ms[c.ptr] \in {"block", "star"}

Addresses == [x \in {c.globals[i].name : i \in DOMAIN c.globals} |-> c.globals[FindGlobal(c, x)].value]

MeaningOfText == With(TextOf(text), LAMBDA P : Meaning(P, Addresses))

(* The first RUN of a text refuses it exactly if one of its statements has no  *)
(* reading: the one-token look-ahead of the statement and expression parsers,  *)
(* with what they find in the symbol tables by then, decides no more than the  *)
(* text does.  What is parsed is compiled exactly if no function that ends,    *)
(* and not the main program, stores to what has no address (the generator dies *)
(* of that), and the names it complains of are those that are no variables     *)
(* when their function ends, whatever they become behind it.                   *)
AcceptsExactly ==
  Ended /\ FirstRun =>
    \E meant \in {MeaningOfText} :
       /\ phase = meant.outcome
       /\ phase = "compiled" => c.complaints = meant.complaints

(* The statements the parser makes are those of the text: each expression with *)
(* the operators where their strength and the brackets put them, the arguments *)
(* of a call last one first, constants folded as the machine would compute     *)
(* them, and each name what its earlier mentions made of it.                   *)
TreesMatchText ==
  Ended /\ FirstRun =>
    \E meant \in {MeaningOfText.stmts} :
       IF phase = "refused" THEN IsPrefix(meant, c.stmts) ELSE c.stmts = meant

Implicit == {i \in DOMAIN c.globals : c.globals[i].class = "variable"}

(* What DIM declares is where its name leads: the cells at the address of the  *)
(* symbol have the initial values in order, through all their lines, and no    *)
(* cell belongs to two names.                                                  *)
DimCells ==
  phase = "compiled" =>
    \E P \in {TextOf(text)} : \E ds \in {Declares(P, Addresses)} :
    LET cell(i, k) == (c.globals[i].value + k * WordSize) % Modulus
    IN /\ \A d \in ds :
            LET x == Name(P, d.at)
            IN FirstOf(Mentions(P, x)).at = DeclarationEnd(P, d.at) =>
                 \A k \in DOMAIN d.values :
                   LET at == cell(FindGlobal(c, x), k - 1)
                   IN at \in DOMAIN c.cells /\ c.cells[at] = d.values[k].n
       /\ \A i \in Implicit : c.globals[i].placed /\ cell(i, 0) \in DOMAIN c.cells
       /\ Cardinality(DOMAIN c.cells) =
            MapThenSumSet(LAMBDA d : Len(d.values), ds)
              + Cardinality(Implicit) - Cardinality({d \in ds : ~Is(P.T, d.at + 1, {"["})})

(* No function gets code twice, and the one symbol that its calls find is the  *)
(* one whose code it is.                                                       *)
FunctionsDefinedOnce ==
  /\ IsInjective(c.bodies)
  /\ \A f \in ToSet(c.bodies) : LET symbol == c.globals[FindGlobal(c, f)]
                                IN symbol.class = "function" /\ symbol.placed

(* Once a global is a variable, a function or an array it is that to the end   *)
(* of the RUN, whatever the lines behind say of its name, and what has its     *)
(* place keeps it: a reference parsed before means the same as one parsed      *)
(* after.                                                                      *)
NamesKeepTheirKind ==
  [][before' = before =>
       \A i \in DOMAIN c.globals :
         LET old == c.globals[i]
             new == c'.globals[i]
         IN /\ new.name = old.name
            /\ old.class # "unknown" => new.class = old.class /\ new.type = old.type
            /\ old.placed => new = old]_vars

(* A program that RUN has compiled is compiled again by the next RUN, to the   *)
(* same functions and cells: types left in low memory can let a text pass that *)
(* was refused, but they stop none, nor do they kill the generator.  (After a  *)
(* crash of the generator there is no next RUN.)                               *)
AcceptedStaysAccepted ==
  Ended /\ ~FirstRun /\ before[1].phase = "compiled" =>
    /\ phase = "compiled"
    /\ c.bodies = before[1].c.bodies /\ c.cells = before[1].c.cells /\ c.here = before[1].c.here
    /\ Len(c.stmts) = Len(before[1].c.stmts)
=============================================================================
