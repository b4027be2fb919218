---------------------------- MODULE MCToolchain ----------------------------
(* The programs of the run: texts that RUN parses, twice, and texts that it    *)
(* also executes.                                                              *)
EXTENDS MCFrontEnd, Toolchain

-----------------------------------------------------------------------------
Assembly(f, lines) == <<"function " \o f, "asm">> \o lines \o <<"end asm", "end function">>

\* io.bas, as far as a program needs it.
PrintIntAsm == Assembly("pi(c, n)", <<"lref 1", "trap 3">>)
PrintStr == Assembly("ps(s, c)", <<"lref 1", "trap 2">>)
PrintTab == Assembly("pt(c)", <<"trap 4">>)
PrintNL  == Assembly("pn(c)", <<"trap 5">>)

\* What a function with two arguments prints.
Calling(lines, call) == <<"function f(y, x)">> \o lines \o <<"end function", call>>

\* Binary operators side by side, on variables and on constants that are folded.
Operators == <<"+", "-", "*", "/", " mod ", "<<", ">>", "&", "^", "<", "=", "<>", ">=", " and ", " or ">>
Prints2(a, b) == "print 2" \o a \o "x" \o b \o "-3; 2" \o a \o "7" \o b \o "-3;"
OperatorTexts ==
  {Text(PrintIntAsm \o Calling([i \in DOMAIN Operators |-> Prints2(a, Operators[i])], "f(0, 7)")) :
     a \in ToSet(Operators)}

\* Well nested bodies of n parts.
RECURSIVE Bodies(_)
Bodies(n) ==
  IF n = 0 THEN {<<>>}
  ELSE UNION {
    {<<l>> \o b : l \in {"x = x + 1", "return x"}, b \in Bodies(n - 1)},
    UNION {{open[1] \o a \o open[2] \o b :
              open \in {<<<<"if x < 2 then">>, <<"end if">>>>,
                        <<<<"for y = x to 2 step x">>, <<"next y">>>>,
                        <<<<"do while x < 3", "x = x + 1">>, <<"loop">>>>,
                        <<<<"do">>, <<"x = x + 1", "loop until x >= 3">>>>},
              a \in Bodies(i), b \in Bodies(n - 1 - i)} : i \in 0..(n - 1)},
    UNION {{<<"if x = 1 then">> \o a \o <<"else if x - 2 then">> \o b \o <<"else", "print -x;", "end if">> :
              a \in Bodies(i), b \in Bodies(n - 1 - i)} : i \in 0..(n - 1)}}

BodyTexts == {Text(PrintIntAsm \o Calling(b \o <<"print x; y;">>, "print f(0, 1);")) : b \in Bodies(2)}

\* The same names for globals, arguments and locals.
ScopeTexts ==
  {Text(PrintIntAsm \o <<"dim x = 1, v = 2, z = 3", "function f" \o args, "print x; v; z;">> \o dim
            \o <<set, "print x; v; z;", "end function", "f(4, 5)", "print x; v; z;">>) :
     args \in {"(x, v)", "(v, x)", "(y, z)"}, set \in {"x = 8", "v = x", "z = -v"},
     dim \in {<<>>, <<"dim pad, x = 6, z = 7">>, <<"dim pad, v = x, x = v">>, <<"dim pad, v", "v = 9", "dim z = v">>}}

ProgramTexts == {
  Text(PrintIntAsm \o
    <<"dim x", "x = f(2, 3)", "function f(a, b)", "return g(a, 1) + g(b, a)", "end function",
      "function g(y, n)", "if y < 2 then", "return n", "end if", "return n + g(y - 1, n * 2)", "end function",
      "print f(3, 4); g(5, -1);">>),
  Text(PrintIntAsm \o PrintStr \o PrintTab \o PrintNL \o
    <<"dim t[3] = { 4, 5 // two of three", "6 }, i = 2", "print t[i], \"a\"; t[1] /* the", "second */ \"a\"",
      "t[0] = i : ">> \o <<"print">>),
  Text(PrintIntAsm \o PrintStr \o PrintTab \o PrintNL \o
    <<"dim t[3] = { 4, 5 // two of three", "6 }, i = 2", "print t[i], \"a\"; t[1] /* the", "second */ \"a\"",
      "let t[0] = i", "t[i] = t[0]", "for i = 0 to 2", "print t[i]; t[t[0]]", "next i", "end">>)}

MCExecuted == OperatorTexts \cup BodyTexts \cup ScopeTexts \cup ProgramTexts
AllPrograms == MCPrograms \cup MCExecuted
MCInputs == {<<>>}
MCJunk == {0}
=============================================================================
