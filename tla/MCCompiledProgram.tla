------------------------- MODULE MCCompiledProgram -------------------------
(* The programs of the runs. *)
EXTENDS CompiledProgram

\* A function that is only assembly, and the way the parser meets it.
AsmFunction(x, args, bytes) ==
  <<Mention(x), Assembled(bytes), Function(x, args, <<>>, <<Asm(bytes)>>)>>

\* io.bas
IoBas == AsmFunction("printStr", <<"str", "chn">>, <<OP_LREF, 1, OP_TRAP, TRAP_PrintStr>>)
      \o AsmFunction("printInt", <<"chn", "n">>, <<OP_LREF, 1, OP_TRAP, TRAP_PrintInt>>)
      \o AsmFunction("printTab", <<"chn">>, <<OP_TRAP, TRAP_PrintTab>>)
      \o AsmFunction("printNL", <<"chn">>, <<OP_TRAP, TRAP_PrintNL>>)

\* PRINT, as BuildHandlerCall builds it.
Terminal    == Lit(0)
PrintInt(e) == CallStmt(Fn("printInt", <<e, Terminal>>))
PrintStr(s) == CallStmt(Fn("printStr", <<Str(s), Terminal>>))
PrintTab    == CallStmt(Fn("printTab", <<Terminal>>))
PrintNL     == CallStmt(Fn("printNL", <<Terminal>>))

Program(events, main, deep) ==
  [events |-> IoBas \o events, implicit |-> <<>>, main |-> main, deep |-> deep]

Scalar(x, n) == Dim(x, <<n>>, FALSE)
Array(x, ns) == Dim(x, ns, TRUE)
V(x) == Var(x)
Plus(a, b) == Bin(OP_ADD, a, b)
Hi == <<72, 105>>

\* Every operator, on values of both signs and at the ends of the range.
Pairs == <<<<7, -2>>, <<-7, 2>>, <<-32768, 1>>, <<300, 300>>, <<5, 0>>>>
Try(x, ops) ==
  <<Mention(x),
    Function(x, <<"a", "b">>, <<>>,
      [j \in DOMAIN ops |-> PrintInt(IF ops[j] \in UnaryOps THEN Un(ops[j], V("a"))
                                                            ELSE Bin(ops[j], V("a"), V("b")))])>>
Operators == Program(
  Try("sums", <<OP_ADD, OP_SUB, OP_MUL, OP_DIV, OP_REM, OP_NEG>>) \o
  Try("bits", <<OP_BAND, OP_BOR, OP_BXOR, OP_SHL, OP_SHR, OP_BNOT, OP_NOT>>) \o
  Try("tests", <<OP_LT, OP_LE, OP_EQ, OP_NE, OP_GE, OP_GT>>) \o
  <<Mention("all"),
    Function("all", <<"a", "b">>, <<>>,
      <<CallStmt(Fn("sums", <<V("b"), V("a")>>)), CallStmt(Fn("bits", <<V("b"), V("a")>>)),
        CallStmt(Fn("tests", <<V("b"), V("a")>>))>>)>>,
  [i \in DOMAIN Pairs |-> CallStmt(Fn("all", <<Lit(Pairs[i][2]), Lit(Pairs[i][1])>>))],
  FALSE)

\* Loops in loops, with and without a turn, counting by a step.
Loops == Program(
  <<Scalar("k", 0), Text(Hi), Mention("loops"),
    Function("loops", <<"m", "n">>, <<"pad", "i", "j">>,
      <<For("i", Lit(1), V("n"), V("m"),
          <<For("j", V("i"), Lit(2), Lit(1), <<PrintInt(Plus(V("i"), V("j"))), PrintTab>>)>>),
        For("k", Lit(3), Lit(1), Lit(1), <<PrintStr(Hi)>>)>>),
    Mention("dos"),
    Function("dos", <<"m", "n">>, <<>>,
      <<Do("do while", Bin(OP_GT, V("n"), Lit(1)), <<Let(V("n"), Bin(OP_SUB, V("n"), Lit(1)))>>),
        Do("do until", Bin(OP_EQ, V("n"), Lit(3)),
           <<Let(V("n"), Plus(V("n"), Lit(1))), PrintInt(V("n"))>>),
        Do("loop while", Bin(OP_LT, V("n"), Lit(5)), <<Let(V("n"), Plus(V("n"), Lit(1)))>>),
        Do("loop until", Bin(OP_GE, V("n"), Lit(0)),
           <<Let(V("n"), Bin(OP_BAND, V("n"), Lit(-2)))>>),
        PrintInt(V("n")),
        Do("forever", Lit(0), <<If(Bin(OP_GT, V("n"), Lit(6)), <<ReturnNothing>>, <<>>),
                                Let(V("n"), Plus(V("n"), V("m")))>>)>>)>>,
  <<CallStmt(Fn("loops", <<Lit(3), Lit(2)>>)), CallStmt(Fn("dos", <<Lit(3), Lit(2)>>)), PrintInt(V("k")), PrintNL, EndStmt>>,
  FALSE)

\* Functions that use each other before they are defined, locals, recursion,
\* and RETURN out of loops.
Calls == Program(
  <<Mention("even"), Mention("odd"),
    Function("even", <<"n", "step">>, <<>>,
      <<If(Bin(OP_EQ, V("n"), Lit(0)), <<ReturnStmt(Lit(1))>>, <<>>),
        ReturnStmt(Fn("odd", <<V("step"), Bin(OP_SUB, V("n"), V("step"))>>))>>),
    Mention("first"),
    Function("odd", <<"n", "step">>, <<>>,
      <<If(Bin(OP_EQ, V("n"), Lit(0)), <<ReturnNothing>>,
           <<PrintInt(Fn("first", <<>>)),
             ReturnStmt(Plus(Fn("first", <<>>),
                             Fn("even", <<V("step"), Bin(OP_SUB, V("n"), V("step"))>>)))>>),
        Let(V("n"), Lit(9))>>),
    Function("first", <<>>, <<"pad", "x">>,
      <<Let(V("x"), Lit(300)),
        For("x", Lit(5), Lit(7), Lit(1),
          <<If(Bin(OP_GT, V("x"), Lit(5)), <<ReturnStmt(V("x"))>>, <<>>)>>)>>)>>,
  <<PrintInt(Fn("even", <<Lit(1), Lit(3)>>)), PrintInt(Fn("odd", <<Lit(1), Lit(1)>>)),
    CallStmt(Fn("first", <<>>)), PrintInt(Plus(Fn("first", <<>>), Fn("even", <<Lit(1), Lit(0)>>)))>>,
  FALSE)

\* Short circuits, arrays, strings used twice.
Conditions == Program(
  <<Scalar("i", 0), Array("t", <<0, 5, -1>>), Text(Hi), Mention("decide"),
    Function("decide", <<"chn", "k">>, <<>>,
      <<PrintInt(AnyOf(<<At("t", V("k")), V("k"), Lit(8)>>)),
        PrintInt(AllOf(<<At("t", V("k")), Bin(OP_LT, V("k"), Lit(2)), Lit(8)>>)),
        If(AnyOf(<<Bin(OP_EQ, V("k"), Lit(1)), AllOf(<<V("i"), At("t", V("k"))>>)>>),
           <<PrintStr(Hi)>>, <<If(V("i"), <<PrintNL>>, <<PrintTab>>)>>),
        Let(At("t", V("k")), Plus(Lit(1), V("k"))),
        PrintInt(At("t", V("i")))>>)>>,
  <<For("i", Lit(0), Lit(2), Lit(1), <<CallStmt(Fn("decide", <<V("i"), Terminal>>))>>),
    PrintStr(Hi)>>,
  FALSE)

\* Input and output by character.
Echo == Program(
  AsmFunction("readChar", <<>>, <<OP_TRAP, TRAP_GetChar, OP_RETURN>>) \o
  AsmFunction("putChar", <<"chn", "c">>, <<OP_LREF, 1, OP_TRAP, TRAP_PutChar, OP_TRAP, TRAP_PrintFlush>>) \o
  <<Mention("echo"),
    Function("echo", <<>>, <<"pad", "c">>,
      <<Let(V("c"), Fn("readChar", <<>>)),
        Do("do while", Bin(OP_GE, V("c"), Lit(0)),
           <<CallStmt(Fn("putChar", <<V("c"), Terminal>>)),
             Let(V("c"), Fn("readChar", <<>>))>>)>>)>>,
  <<CallStmt(Fn("echo", <<>>))>>,
  FALSE)

\* A function that calls itself without end.
Endless == Program(
  <<Mention("down"),
    Function("down", <<"n">>, <<"pad">>, <<ReturnStmt(Fn("down", <<V("n")>>))>>)>>,
  <<PrintInt(Lit(1)), CallStmt(Fn("down", <<Lit(1)>>))>>,
  TRUE)

\* test.bas: function bar(y) / return y + 1 / end function, and PRINT bar(12).
OneArgument == Program(
  <<Mention("bar"), Function("bar", <<"y">>, <<>>, <<ReturnStmt(Plus(V("y"), Lit(1)))>>)>>,
  <<PrintInt(Fn("bar", <<Lit(12)>>)), PrintInt(Fn("bar", <<Fn("bar", <<Lit(12)>>)>>))>>,
  FALSE)

\* The same kind of function, with a local.
FirstLocal == Program(
  <<Mention("f"),
    Function("f", <<"n", "m">>, <<"x", "y">>,
      <<Let(V("x"), V("n")), For("y", Lit(1), V("m"), Lit(1), <<PrintInt(V("y"))>>),
        ReturnStmt(V("x"))>>)>>,
  <<PrintInt(Fn("f", <<Lit(2), Lit(5)>>)), PrintInt(Fn("f", <<Lit(1), Lit(7)>>))>>,
  FALSE)

\* test.bas: variables that no DIM declares, a = 1 and b = 2, used after some
\* other work.
NoDim == [Program(
  <<Mention("a"), Mention("b"), Mention("tri"),
    Function("tri", <<"n", "m">>, <<>>,
      <<For("n", Lit(1), V("m"), Lit(1), <<PrintInt(V("n"))>>)>>)>>,
  <<CallStmt(Fn("tri", <<Lit(9), Lit(0)>>)), CallStmt(Fn("tri", <<Lit(2), Lit(0)>>)),
    Let(V("a"), Lit(1)), Let(V("b"), Lit(2)), PrintInt(Plus(V("a"), V("b")))>>,
  FALSE) EXCEPT !.implicit = <<"a", "b">>]

MCOneArgument == <<OneArgument>>
MCFirstLocal  == <<FirstLocal>>
MCNoDim       == <<NoDim>>

MCPrograms == <<Operators, Loops, Calls, Conditions, Echo, Endless>>
MCInputs == {<<>>, <<65, 13, 10>>}
MCJunk == {0, 7}
=============================================================================
