----------------------------- MODULE MCFrontEnd -----------------------------
(* The texts of the run. *)
EXTENDS FrontEnd

Chars(s) == [i \in 1..Len(s) |-> SubSeq(s, i, i)]
Text(lines) == [i \in DOMAIN lines |-> Chars(lines[i])]

SmallLetters == Chars("abcdefghijklmnopqrstuvwxyz")
LargeLetters == Chars("ABCDEFGHIJKLMNOPQRSTUVWXYZ")

Words1 == {"and", "asm", "dim", "do", "else", "end", "for", "function", "if", "let", "loop", "mod", "next",
           "not", "or", "print", "rem", "return", "step", "then", "to", "until", "while"}
Upper1(w) == [i \in 1..Len(w) |-> LargeLetters[SelectInSeq(SmallLetters, LAMBDA x : x = SubSeq(w, i, i))]]
MCKtab == {[word |-> Chars(w), token |-> FoldLeft(LAMBDA a, b : a \o b, "", Upper1(w))] : w \in Words1}

\* The characters from the blank to the underscore.
Ascii == Chars(" !\"#$%&'()*+,-./0123456789:;<=>?@ABCDEFGHIJKLMNOPQRSTUVWXYZ[\\]^_")
MCCode == [ch \in ToSet(Ascii) |-> 31 + SelectInSeq(Ascii, LAMBDA x : x = ch)]
          @@ [ch \in ToSet(SmallLetters) |-> 96 + SelectInSeq(SmallLetters, LAMBDA x : x = ch)]
          @@ ("\n" :> 10 @@ "\t" :> 9 @@ "\r" :> 13)

MCHandlerName == ("printStr" :> Chars("ps")) @@ ("printInt" :> Chars("pi"))
                 @@ ("printTab" :> Chars("pt")) @@ ("printNL" :> Chars("pn"))

MCOpcodeTable == {[name |-> Chars("trap"), code |-> OP_TRAP, fmt |-> "BYTE"],
                  [name |-> Chars("add"), code |-> OP_ADD, fmt |-> "NONE"],
                  [name |-> Chars("lref"), code |-> OP_LREF, fmt |-> "SBYTE"],
                  [name |-> Chars("lit"), code |-> OP_LIT, fmt |-> "WORD"],
                  [name |-> Chars("br"), code |-> OP_BR, fmt |-> "BR"]}

-----------------------------------------------------------------------------
\* All short texts of a kind.
Of(S, lengths) == UNION {[1..n -> S] : n \in lengths}
Spaced(ws) == FoldLeft(LAMBDA a, b : a \o b \o " ", "", ws)

\* What may be said of a name, in every order.
NameTexts ==
  LET uses == {"x = 1", "x(1)", "dim x", "function x", "end function", "y = x + 1"}
  IN {Text(ls) : ls \in Of(uses, {3}) \cup Of(uses \cup {"dim x[2]", "return x", "x"}, 1..2)}

ExprTexts == {Text(<<"function f(y)", "x = " \o Spaced(ws)>>) :
                ws \in Of({"y", "2", "-", "*", "or", "(", ")"}, {3}) \cup Of({"y", "-", "*"}, {4})}

\* Initializers on one line and on two.
DimTexts ==
  {Text(<<"dim a[2] = {" \o Spaced(SubSeq(ws, 1, k)), Spaced(SubSeq(ws, k + 1, 3)), "x = a">>) :
     k \in {2, 3}, ws \in Of({"}", ",", "1", "2"}, {3})}

\* The handlers of PRINT as variables: the parser asks only that they are known.
P(lines) == Text(<<"dim ps, pi, pt, pn">> \o lines)

PrintTexts == {P(<<"print " \o Spaced(ws)>>) : ws \in Of({"1", "\"a\"", ",", ";", "-", "x", "#"}, 1..2)}

ParameterTexts == {Text(<<"function f " \o Spaced(ws), "x = a", "end function", "x = f(1)">>) :
                     ws \in Of({"(", ")", ",", "a"}, 0..3)}

\* Blocks and their lines, in every order; and what may be behind IF and FOR.
BlockTexts ==
  LET parts == {"if x then", "else", "end if", "for x = 1 to 2", "next x", "do", "loop while y", "function f"}
  IN {Text(ls) : ls \in Of(parts, {3})}
     \cup {Text(<<"x = 1", "if x then", l, "end if", "x = 2">>) : l \in parts \cup {"x = 1"}}

TestTexts ==
  {Text(<<"x = 1", w \o Spaced(ws)>>) : w \in {"if ", "for x = 1 "}, ws \in Of({"x", "then", "+", "to", "step 2"}, 1..3)}

\* The texts that are only scanned: tokens and their ends, comments that go on.
ShortTexts == {<<l>> : l \in Of({"a", "/", "*", "\"", "0", "x", "<", "="}, 1..3)}
CommentTexts ==
  {Text(<<FoldLeft(LAMBDA a, b : a \o b, "", ws), "b */ c">>) :
     ws \in Of({"end ", "x", "/*", "*/", "\"", "/"}, 1..3) \cup Of({"end ", "x", "/*", "*/"}, {4})}

-----------------------------------------------------------------------------
\* The other statements, and what the families miss.
Handlers == <<"function pi(n)", "asm", "lref 0", "end asm", "end function", "function pn", "end function">>

Mixed == {
  Text(<<"x = 1", "y = x + 2 * x", "f(x, 1)">>),
  P(<<"print 1; 2, 3">>), P(<<"print">>), P(<<"print ,">>), P(<<"print 1 2;">>), P(<<"print \"a\" + 2 \"b\"">>),
  P(<<"print #1, 2">>), P(<<"print #1 2">>), P(<<"print 1, )">>), P(<<"print x -1 x">>), P(<<"print -1 -1">>),
  P(<<"print \"a\" (1)">>), P(<<"print 1 \"a\"">>), P(<<"print 1 + \"a\"">>),
  Text(Handlers \o <<"print 1">>), Text(Handlers \o <<"print ,">>),
  Text(<<"print">>), Text(<<"print 1">>), Text(<<"dim pn", "print">>),
  Text(<<"function f(a, b)", "dim c = a, d", "let c = b + d", "return c * a", "end function", "x = f(1, 2)">>),
  Text(<<"function f()", "dim a[2]">>), Text(<<"function f", "f = 1", "end function  x = \"">>),
  Text(<<"function f(a", "x = 1">>), Text(<<"function f(a,)">>), Text(<<"function f(,)">>), Text(<<"function 1">>),
  Text(<<"x = f(1)", "function f(n)", "return n", "end function", "x = f(2)">>),
  Text(<<"dim a[3] = { 1, 2", "3 }, b = 7, c", "a[0] = a[1]", "b = a">>),
  Text(<<"dim a[2] = {1}, b[1] = { ", "", " 2", "", "}", "x = a + b">>),
  Text(<<"dim a[2] = {1", "2", "3}">>), Text(<<"dim a[] = {1}">>), Text(<<"dim a[]", "x = a">>),
  Text(<<"dim a[1 - 1]">>), Text(<<"dim a[a]">>), Text(<<"dim x = x">>), Text(<<"dim a = 70000, b = a">>),
  Text(<<"x = 1", "dim x = 2", "x = x + 1">>), Text(<<"dim x", "x = x + 1">>), Text(<<"x = y + 1">>),
  Text(<<"x = 1 / 0">>), Text(<<"x = -32768 / -1">>), Text(<<"x = 200 * 200">>), Text(<<"x = -7 mod 2">>),
  Text(<<"end">>), Text(<<"end x">>), Text(<<"rem \"", "x = 1">>), Text(<<"rem /* a", "x = 1">>),
  Text(<<"rem/* a", "x = 1", "*/ y = 1">>), Text(<<"x /* = ", "*/= 1 // 2">>), Text(<<"x = 'a' + 0x1f">>),
  Text(<<"x(1)", "function x", "end function", "function x", "end function">>),
  Text(<<"return", "return 1", "return x, 1">>), Text(<<"end function">>), Text(<<"function f", "function g">>),
  Text(<<"asm", "add", "", "lit 1 + 1", "end asm">>), Text(<<"asm", "add 1", "end asm">>), Text(<<"asm", "lit">>),
  Text(<<"asm x">>), Text(<<"asm", "br 1">>), Text(<<"asm", "foo", "end asm">>), Text(<<"asm", "end asm x">>),
  Text(<<"x = 1", "do while x < 3", "if x = 1 then", "x = 2", "else if x then", "x = x", "else", "dim y = 1",
         "end if", "loop", "x = y">>),
  Text(<<"x = 1", "do until x", "do", "loop until x + 1", "loop">>), Text(<<"do while 1", "loop while 1">>),
  Text(<<"function f(n)", "for n = n to 9 step n * 2", "do while n", "loop", "next x", "return n", "end function">>),
  Text(<<"for i = 1 to 2", "x = i + 1", "next i">>), Text(<<"i = 0", "for i = 1 to 2", "x = i + 1", "next i">>),
  Text(<<"dim a[2]", "for a = 1 to 2", "next">>), Text(<<"dim a[2]", "for a = 1 to 2", "next a">>),
  Text(<<"dim a[2]", "function f", "a = 1", "end function", "else">>), Text(<<"dim a[2]", "function f", "a = 1">>),
  Text(<<"function f", "for i = 1 to 2", "next i", "end function", "i = 0">>), Text(<<"function f", "f(1) = 2">>),
  Text(<<"for 1 = 1 to 2">>), Text(<<"next 1">>), Text(<<"do x">>),
  Text(<<"if 1 then x = 1", "y = x">>), Text(<<"if 1 then end if">>), Text(<<"if 1 then function f", "x(f)">>),
  Text(<<"if 1 then asm", "add", "end asm">>), Text(<<"if 1 then if 2 then", "x = 1">>), Text(<<"else if 1 then">>),
  Text(<<"if 1 then", "else if">>), Text(<<"if 1 then", "else 1">>), Text(<<"if 1 then", "end if 1">>),
  Text(<<"do", "loop x">>), Text(<<"do", "loop while">>), Text(<<"do until">>), Text(<<"if 1 then", "if 1 then", "do">>),
  Text(<<"function f", "do", "end function">>), Text(<<"do", "function f", "loop">>),
  Text(<<"do", "do", "do", "loop", "do", "x = 1", "loop", "loop", "loop">>), Text(<<"do", "do", "do", "do">>),
  Text(<<"function f", "do", "if 1 then", "else if 2 then", "for x = 1 to 2">>), Text(<<"do", "do", "do", "function f">>),
  <<Append(Chars("x = 1"), "\n"), Chars("y = x + 1")>>,
  Text(<<"f(1)(2)[3] = 4">>), Text(<<"(x) = 1", "y = x + 1">>), Text(<<"(x)(1)", "y = x">>), Text(<<"1">>)}

MCPrograms == NameTexts \cup ExprTexts \cup DimTexts \cup PrintTexts \cup ParameterTexts
              \cup BlockTexts \cup TestTexts \cup Mixed
MCTokenTexts == ShortTexts \cup CommentTexts
=============================================================================
