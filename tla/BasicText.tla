------------------------------ MODULE BasicText ------------------------------
(***************************************************************************)
(* What a program text means, told from the text as a whole and not by     *)
(* parsing it: comments are an automaton over its characters, a token is   *)
(* the longest one that starts at a place, the root of an expression is    *)
(* the last of its weakest operators outside brackets, and a name has the  *)
(* kind that the first of its mentions to say so gives it.                 *)
(***************************************************************************)
EXTENDS Statements

Nest == INSTANCE Nesting

\* A sequence whose elements TLC evaluates once.
Listed(seq) == <<>> \o seq

\* Op of the value v.
With(v, Op(_)) == CHOOSE r \in {Op(x) : x \in {v}} : TRUE

-----------------------------------------------------------------------------
\* Comments.
AfterChar(mode, ch) ==
  CASE mode \in {"code", "slash"} /\ ch = "\"" -> "string"
    [] mode \in {"code", "slash"} /\ ch = "'"  -> "quote"
    [] mode = "slash" /\ ch = "/" -> "line"
    [] mode = "slash" /\ ch = "*" -> "block"
    [] mode = "code"  /\ ch = "/" -> "slash"
    [] mode \in {"block", "star"} /\ ch = "*" -> "star"
    [] mode = "block" /\ ch # "*" -> "block"
    [] mode = "star"  /\ ch \notin {"*", "/"} -> "block"
    [] mode = "string" /\ ch = "\\" -> "escape"
    [] mode = "string" /\ ch \notin {"\\", "\""} -> "string"
    [] mode = "escape" -> "string"
    [] mode = "quote"  -> "char"
    [] mode = "line"   -> "line"
    [] OTHER -> "code"

\* The modes of a line that starts in `mode': the one before each character.
Modes(line, mode) ==
  FoldLeft(LAMBDA ms, ch : Append(ms, AfterChar(Last(ms), ch)), <<mode>>, line)

\* Whether character i is no part of a comment.
IsCode(ms, i) ==
  /\ ms[i] \notin {"line", "block", "star"}
  /\ ms[i + 1] \notin {"line", "block"}
  /\ ms[i + 1] = "slash" => i + 2 \in DOMAIN ms /\ ms[i + 2] \notin {"line", "block"}

CodeOf(line, ms) == Listed([j \in 1..Len(line) |-> IF IsCode(ms, j) THEN <<line[j]>> ELSE <<>>])

Opens(ms) == Last(ms) \in {"block", "star"}

-----------------------------------------------------------------------------
\* Tokens: [tkn, text, value].
Letters == IdentifierChars \ DigitChars

Prefixed(s, prefix, chars) ==
  Len(s) >= 2 /\ s[1] = "0" /\ Small(s[2]) = prefix /\ ToSet(SubSeq(s, 3, Len(s))) \subseteq chars

IsName(s)    == s[1] \in Letters /\ ToSet(s) \subseteq IdentifierChars
IsDecimal(s) == s[1] \in DigitChars /\ ToSet(s) \subseteq DigitChars \cup {"_"}
IsHex(s)     == Prefixed(s, "x", HexChars \cup {"_"})
IsBinary(s)  == Prefixed(s, "b", {"0", "1", "_"})
IsChar(s)    == Len(s) = 3 /\ s[1] = "'" /\ s[3] = "'"
IsString(s)  == /\ Len(s) >= 2 /\ s[1] = "\""
                /\ LET ms == Modes(s, "code")
                   IN Last(ms) = "code" /\ \A i \in 2..Len(s) : ms[i] # "code"
IsSymbol(s)  == \/ s \in {<<"<", "=">>, <<"<", ">">>, <<"<", "<">>, <<">", "=">>, <<">", ">">>}
                \/ Len(s) = 1 /\ s[1] \notin Letters \cup DigitChars \cup SpaceChars \cup {"\"", "'"}

IsLexeme(s) == IsName(s) \/ IsDecimal(s) \/ IsHex(s) \/ IsBinary(s) \/ IsChar(s) \/ IsString(s) \/ IsSymbol(s)

Plain(t) == [tkn |-> t, text |-> <<>>, value |-> 0]

NumberOf(s, base) ==
  LET digits == SelectSeq(s, LAMBDA ch : ch # "_")
  IN Wrap(MapThenSumSet(LAMBDA i : DigitValue[digits[i]] * base ^ (Len(digits) - i), DOMAIN digits))

Meant(ch) == CASE ch = "n" -> "\n" [] ch = "r" -> "\r" [] ch = "t" -> "\t" [] OTHER -> ch

\* The characters of a string: a backslash and the next one are one.
StringOf(s) ==
  LET ms == Modes(<<"\"">> \o s, "code")
  IN FlattenSeq([i \in DOMAIN s |-> IF ms[i + 1] = "escape" THEN <<Meant(s[i])>>
                                    ELSE IF s[i] = "\\" THEN <<>> ELSE <<s[i]>>])

NameToken(s) ==
  LET words == {k.token : k \in {k \in Ktab : SameWord(k.word, s)}}
  IN IF Len(s) > MAXTOKEN THEN Plain("BAD")
     ELSE IF words = {} THEN [Plain("IDENTIFIER") EXCEPT !.text = s]
     ELSE Plain(CHOOSE t \in words : TRUE)

StringToken1(s) ==
  IF Len(StringOf(s)) > MAXTOKEN THEN Plain("BAD") ELSE [Plain("STRING") EXCEPT !.text = StringOf(s)]

TokenOf(s) ==
  CASE IsName(s)    -> NameToken(s)
    [] IsHex(s)     -> [Plain("UINTNUMBER") EXCEPT !.value = NumberOf(SubSeq(s, 3, Len(s)), 16)]
    [] IsBinary(s)  -> [Plain("UINTNUMBER") EXCEPT !.value = NumberOf(SubSeq(s, 3, Len(s)), 2)]
    [] IsDecimal(s) -> [Plain("INTNUMBER") EXCEPT !.value = NumberOf(s, 10)]
    [] IsChar(s)    -> [Plain("INTNUMBER") EXCEPT !.value = Code[Meant(s[2])]]
    [] IsString(s)  -> StringToken1(Tail(Front(s)))
    [] IsSymbol(s)  -> Plain(FoldLeft(LAMBDA a, b : a \o b, "", s))

\* Where the longest lexeme that starts at i ends, 0 if there is none.
LexemeEnd(s, i) == Max({0} \cup {j \in i..Len(s) : IsLexeme(SubSeq(s, i, j))})

\* The tokens of a text without comments; after one that is none there are no more.
RECURSIVE Munch(_, _)
Munch(s, i) ==
  IF i > Len(s) THEN <<>>
  ELSE IF s[i] \in SpaceChars THEN Munch(s, i + 1)
  ELSE With(LexemeEnd(s, i), LAMBDA end :
         IF end = 0 THEN <<Plain("BAD")>>
         ELSE With(TokenOf(SubSeq(s, i, end)), LAMBDA t :
                IF t.tkn = "BAD" THEN <<t>> ELSE <<t>> \o Munch(s, end + 1)))

\* Two words that are one token.
RECURSIVE Joined(_)
Joined(ts) ==
  IF Len(ts) < 2 THEN ts
  ELSE IF ts[2].tkn \in Compound(ts[1].tkn)
  THEN <<Plain(ts[1].tkn \o " " \o ts[2].tkn)>> \o Joined(SubSeq(ts, 3, Len(ts)))
  ELSE <<ts[1]>> \o Joined(Tail(ts))

\* Whether a comment that goes on behind the line starts where the scanner looks
\* for the word behind END, ELSE, DO or LOOP: behind the space or the word there,
\* and that word is none of theirs.
OpensUnderLookAhead(s, ms) ==
  /\ Opens(ms)
  /\ Last(Joined(Munch(s, 1))) = Last(Munch(s, 1))
  /\ \E i \in DOMAIN s, n \in DOMAIN s :
       /\ i < n \/ n = Len(s)
       /\ Compound(Last(Munch(SubSeq(s, 1, i), 1)).tkn) # {}
       /\ ToSet(SubSeq(s, i + 1, n)) \subseteq SpaceChars
       /\ ToSet(SubSeq(s, n + 1, Len(s))) \subseteq IdentifierChars

\* The rest of the line behind these is not read.
Unread == {"REM", "END FUNCTION"}

\* Whether the word at the start of the line ends the reading of it.
IsUnread(s) ==
  \E i \in DOMAIN s : /\ s[i] \notin IdentifierChars
                      /\ LET ts == Joined(Munch(SubSeq(s, 1, i), 1))
                         IN ts # <<>> /\ Head(ts).tkn \in Unread

\* A line that starts in a comment or not: its tokens, whether the next does, and
\* whether that comment starts in a look-ahead.
LineOf(line, inside) ==
  With(Modes(line, IF inside THEN "block" ELSE "code"), LAMBDA ms :
  With(FlattenSeq(CodeOf(line, ms)), LAMBDA s :
  With(Joined(Munch(s, 1)), LAMBDA ts :
    [tokens |-> IF ts # <<>> /\ Last(ts).tkn = "BAD" THEN ts ELSE Append(ts, Plain("EOL")),
     opens  |-> Opens(ms) /\ ~IsUnread(s),
     ahead  |-> ts # <<>> /\ OpensUnderLookAhead(s, ms) /\ ~IsUnread(s)])))

\* The lines of a text.
LinesOf(text) ==
  FoldLeft(LAMBDA lines, line : Append(lines, LineOf(Terminated(line), lines # <<>> /\ Last(lines).opens)),
           <<>>, text)

-----------------------------------------------------------------------------
\* Statements: where each one is in the tokens T of the whole text.
Is(T, i, tkns)   == i \in DOMAIN T /\ T[i].tkn \in tkns
Count(T, lo, hi, tkns) == Cardinality({i \in lo..hi : Is(T, i, tkns)})

LineEnds(T, p)   == {q \in p..Len(T) : T[q].tkn \in {"EOL", "BAD"}}

\* The first of the places, if there is one.
FirstOr(S, otherwise) == IF S = {} THEN otherwise ELSE Min(S)

\* A statement goes on to the line of its last brace or of END ASM.
StatementEnds(T, p) ==
  {q \in LineEnds(T, p) : /\ Count(T, p, q, {"{"}) <= Count(T, p, q, {"}"})
                          /\ Is(T, p, {"ASM"}) => Count(T, p, q, {"END ASM"}) > 0}

RECURSIVE StatementsFrom(_, _)
StatementsFrom(T, p) ==
  IF p > Len(T) THEN <<>>
  ELSE With(FirstOr(StatementEnds(T, p), Len(T)), LAMBDA q :
         <<[lo |-> p, hi |-> q - 1]>> \o StatementsFrom(T, q + 1))

\* The statement that starts the function that statement j is in, 0 in none.
FunctionOf(T, ss, j) ==
  LET starts == {i \in 1..j : Is(T, ss[i].lo, {"FUNCTION"})}
      start  == IF starts = {} THEN 0 ELSE Max(starts)
  IN IF \E i \in start..(j - 1) : i > 0 /\ Is(T, ss[i].lo, {"END FUNCTION"}) THEN 0 ELSE start

\* The words of Nesting.
BlockWord ==
  "FUNCTION" :> "function" @@ "END FUNCTION" :> "end function" @@ "IF" :> "if" @@ "ELSE" :> "else"
  @@ "ELSE IF" :> "else if" @@ "END IF" :> "end if" @@ "FOR" :> "for" @@ "NEXT" :> "next" @@ "DO" :> "do"
  @@ "DO WHILE" :> "do while" @@ "DO UNTIL" :> "do until" @@ "LOOP" :> "loop"
  @@ "LOOP WHILE" :> "loop while" @@ "LOOP UNTIL" :> "loop until"

\* What is read of a text: its tokens, its statements, the function of each and
\* its keyword, and the statement that each token is in.
TextOf(text) ==
  With(LinesOf(text), LAMBDA lines :
  With(FlattenSeq([i \in DOMAIN lines |-> lines[i].tokens]), LAMBDA T :
  With(StatementsFrom(T, 1), LAMBDA ss :
    [T |-> T, ss |-> ss, fn |-> Listed([j \in DOMAIN ss |-> FunctionOf(T, ss, j)]),
     kw |-> Listed([j \in DOMAIN ss |-> IF Is(T, ss[j].lo, DOMAIN BlockWord) THEN BlockWord[T[ss[j].lo].tkn]
                                        ELSE "statement"]),
     of |-> Listed([i \in DOMAIN T |-> CHOOSE j \in DOMAIN ss : i \in ss[j].lo..(ss[j].hi + 1)])])))

-----------------------------------------------------------------------------
\* Names.  P is a TextOf.
Ends == {"IDENTIFIER", "INTNUMBER", "UINTNUMBER", "STRING", ")", "]"}

\* Whether place i is in no bracket that opens behind lo.
Outside(T, lo, i) ==
  Count(T, lo, i - 1, {"(", "[", "{"}) = Count(T, lo, i - 1, {")", "]", "}"})

Splits(T, lo, hi, tkns) == {i \in lo..hi : Is(T, i, tkns) /\ Outside(T, lo, i)}

Name(P, i)   == SmallWord(P.T[i].text)
Lo(P, i)     == P.ss[P.of[i]].lo
Hi(P, i)     == P.ss[P.of[i]].hi
Head1(P, i)  == P.T[Lo(P, i)].tkn
Scope(P, i)  == P.fn[P.of[i]]

Names(P) == {i \in DOMAIN P.T : P.T[i].tkn = "IDENTIFIER"}

\* A name between brackets only.
Wrapped(T, lo, hi, i) ==
  i - lo = hi - i /\ (\A j \in lo..(i - 1) : Is(T, j, {"("})) /\ (\A j \in (i + 1)..hi : Is(T, j, {")"}))

IsDimmed(P, i)  == Head1(P, i) = "DIM" /\ i > Lo(P, i) /\ (i = Lo(P, i) + 1 \/ Is(P.T, i - 1, {","}))
                     /\ Outside(P.T, Lo(P, i), i)
IsDefined(P, i) == Head1(P, i) = "FUNCTION" /\ i = Lo(P, i) + 1
IsParameter(P, i) == Head1(P, i) = "FUNCTION" /\ i > Lo(P, i) + 1
IsOpcode(P, i)  == Head1(P, i) = "ASM" /\ Is(P.T, i - 1, {"EOL"})

IsCalled(P, i) == \E n \in 0..(i - Lo(P, i)) : /\ Wrapped(P.T, i - n, i + n, i)
                                               /\ Is(P.T, i + n + 1, {"("})
                                               /\ n > 0 => ~Is(P.T, i - n - 1, Ends)

\* The lvalue of a LET, or what stands alone in a statement.
IsSet(P, i) ==
  LET lo == IF Head1(P, i) = "LET" THEN Lo(P, i) + 1 ELSE Lo(P, i)
  IN /\ Head1(P, i) \in {"LET", "IDENTIFIER", "("}
     /\ Wrapped(P.T, lo, FirstOr(Splits(P.T, lo, Hi(P, i), {"="}), Hi(P, i) + 1) - 1, i)

\* A DIM declares at its end outside functions, at the name in them.
DeclarationEnd(P, i) == FirstOr(Splits(P.T, i, Hi(P, i), {","}), Hi(P, i) + 1)

IsLocalAt(P, x, i) ==
  Scope(P, i) # 0 /\ \E j \in Names(P) : /\ j < i /\ IsDimmed(P, j) /\ Name(P, j) = x
                                         /\ Scope(P, j) = Scope(P, i)
IsArgumentAt(P, x, i) ==
  Scope(P, i) # 0 /\ \E j \in Names(P) : /\ IsParameter(P, j) /\ Name(P, j) = x
                                         /\ P.of[j] = Scope(P, i)

Read(P) == {i \in Names(P) : Head1(P, i) \notin Unread \cup {"FUNCTION", "NEXT"} /\ ~IsDimmed(P, i) /\ ~IsOpcode(P, i)}

\* The mentions of a global: where, and what they say of it.
Mentions(P, x) ==
  LET named == {i \in Names(P) : Name(P, i) = x}
  IN {[at |-> i, says |-> IF IsCalled(P, i) THEN "call" ELSE IF IsSet(P, i) THEN "set" ELSE "nothing"] :
        i \in {i \in named \cap Read(P) : ~IsLocalAt(P, x, i) /\ ~IsArgumentAt(P, x, i)}}
     \cup {[at |-> i, says |-> "def"] : i \in {i \in named : IsDefined(P, i)}}
     \cup {[at |-> DeclarationEnd(P, i), says |-> IF Is(P.T, i + 1, {"["}) THEN "array" ELSE "dim"] :
             i \in {i \in named : IsDimmed(P, i) /\ Scope(P, i) = 0}}

FirstOf(ms) == CHOOSE m \in ms : \A n \in ms : m.at <= n.at

\* What name x is at place p.  The first mention makes the symbol; one that
\* declares nothing leaves it open until a mention that sets or calls it.
KindAt(P, x, p) ==
  With({m \in Mentions(P, x) : m.at < p}, LAMBDA earlier :
    LET telling == {m \in earlier : m.says \in {"set", "call"}}
    IN IF earlier = {} THEN "new"
       ELSE IF FirstOf(earlier).says \in {"def", "dim", "array"} THEN FirstOf(earlier).says
       ELSE IF telling = {} THEN "open" ELSE FirstOf(telling).says)

\* The node of the name at place i.  An array is the address of its cells.
GlobalNode(x, kind, address) ==
  IF kind = "array" THEN Lit(IF x \in DOMAIN address THEN address[x] ELSE 0)
  ELSE Ref("global", x, CASE kind = "set" -> "integer" [] kind = "call" -> "function" [] OTHER -> "none")

NodeOf(P, address, i) ==
  With(Name(P, i), LAMBDA x :
    CASE IsLocalAt(P, x, i) -> Ref("local", x, "integer")
      [] ~IsLocalAt(P, x, i) /\ IsArgumentAt(P, x, i) -> Ref("argument", x, "integer")
      [] OTHER -> With(KindAt(P, x, i), LAMBDA kind : GlobalNode(x, kind, address)))

-----------------------------------------------------------------------------
\* Expressions: N is the node of each name.
Bad == [k |-> "bad", type |-> "bad"]

\* The operators from the weakest on.
Strengths == <<{"^"}, {"|"}, {"&"}, {"=", "<>"}, {"<", "<=", ">=", ">"}, {"<<", ">>"}, {"+", "-"},
               {"*", "/", "MOD"}>>

OpCode(t) == BinaryOperators[CHOOSE k \in DOMAIN BinaryOperators : t \in DOMAIN BinaryOperators[k]][t]

Combined(o, a, b) ==
  CASE a.k = "lit" /\ b.k = "lit" ->
         IF DividesByZero(o, b.n) \/ Traps(o, a.n, b.n) THEN Bad ELSE Lit(Binary(o, a.n, b.n))
    [] a.type = "integer" /\ b.type = "integer" /\ ~(a.k = "lit" /\ b.k = "lit") -> Bin(o, a, b)
    [] OTHER -> Bad

Turned(o, a) == IF a.k = "lit" THEN Lit(Unary(o, a.n)) ELSE IF a.type = "integer" THEN Un(o, a) ELSE Bad

AllGood(es) == \A i \in DOMAIN es : es[i] # Bad

\* The bracket that the last one closes.
Matching(T, lo, hi) ==
  FirstOr({j \in lo..(hi - 1) : /\ Count(T, j, hi, {"(", "["}) = Count(T, j, hi, {")", "]"})
                                /\ \A i \in (j + 1)..hi : Count(T, i, hi, {"(", "["}) < Count(T, i, hi, {")", "]"})}, 0)

\* The intervals between the places.
Parts(lo, hi, places) ==
  LET cuts == <<lo - 1>> \o SetToSortSeq(places, <) \o <<hi + 1>>
  IN [i \in 1..(Len(cuts) - 1) |-> [lo |-> cuts[i] + 1, hi |-> cuts[i + 1] - 1]]

RECURSIVE Expr(_, _, _, _), Primary(_, _, _, _)

Exprs(T, N, parts) == [i \in DOMAIN parts |-> Expr(T, N, parts[i].lo, parts[i].hi)]

Factor(T, N, lo, hi) ==
  CASE Is(T, lo, {"+"}) -> Primary(T, N, lo + 1, hi)
    [] Is(T, lo, DOMAIN UnaryOperators) ->
         With(Primary(T, N, lo + 1, hi), LAMBDA e : IF e = Bad THEN Bad ELSE Turned(UnaryOperators[T[lo].tkn], e))
    [] OTHER -> Primary(T, N, lo, hi)

\* What the brackets at open and hi make of what is before and between them.
Bracketed(T, N, lo, open, hi) ==
  CASE open = lo /\ T[lo].tkn = "(" /\ T[hi].tkn = ")" -> Expr(T, N, lo + 1, hi - 1)
    [] open > lo /\ T[open].tkn = "[" /\ T[hi].tkn = "]" ->
         With(<<Primary(T, N, lo, open - 1), Expr(T, N, open + 1, hi - 1)>>, LAMBDA ai :
           IF AllGood(ai) THEN At(ai[1], ai[2]) ELSE Bad)
    [] open > lo /\ T[open].tkn = "(" /\ T[hi].tkn = ")" ->
         With(<<Primary(T, N, lo, open - 1)>> \o
              (IF open + 1 = hi THEN <<>>
               ELSE Exprs(T, N, Parts(open + 1, hi - 1, Splits(T, open + 1, hi - 1, {","})))), LAMBDA fs :
           IF AllGood(fs) THEN Fn(fs[1], Reverse(Tail(fs))) ELSE Bad)
    [] OTHER -> Bad

Primary(T, N, lo, hi) ==
  CASE lo > hi -> Bad
    [] lo < hi -> With(Matching(T, lo, hi), LAMBDA open : Bracketed(T, N, lo, open, hi))
    [] lo = hi -> CASE T[lo].tkn \in {"INTNUMBER", "UINTNUMBER"} -> Lit(T[lo].value)
                    [] T[lo].tkn = "STRING"     -> Str(T[lo].text)
                    [] T[lo].tkn = "IDENTIFIER" -> N[lo]
                    [] OTHER -> Bad

\* OR and AND are of any number of operands.
Joining(T, N, lo, hi, t) ==
  With(Exprs(T, N, Parts(lo, hi, Splits(T, lo, hi, {t}))), LAMBDA es :
    IF AllGood(es) THEN List(t, es) ELSE Bad)

\* The place of the operator that an expression without OR and AND is of, or 0.
Binaries(T, lo, hi, k) == {i \in Splits(T, lo, hi, Strengths[k]) : i > lo /\ Is(T, i - 1, Ends)}

Root(T, lo, hi) ==
  With({k \in DOMAIN Strengths : Binaries(T, lo, hi, k) # {}}, LAMBDA levels :
    IF levels = {} THEN 0 ELSE Max(Binaries(T, lo, hi, Min(levels))))

Expr(T, N, lo, hi) ==
  CASE Splits(T, lo, hi, {"OR"}) # {} -> Joining(T, N, lo, hi, "OR")
    [] Splits(T, lo, hi, {"OR"}) = {} /\ Splits(T, lo, hi, {"AND"}) # {} -> Joining(T, N, lo, hi, "AND")
    [] OTHER ->
         With(Root(T, lo, hi), LAMBDA at :
           IF at = 0 THEN Factor(T, N, lo, hi)
           ELSE With(<<Expr(T, N, lo, at - 1), Expr(T, N, at + 1, hi)>>, LAMBDA ab :
                  IF AllGood(ab) THEN Combined(OpCode(T[at].tkn), ab[1], ab[2]) ELSE Bad))

-----------------------------------------------------------------------------
\* The statements.  A reading is what the lines put into c.stmts, or Wrong.
Wrong == <<Bad>>

Good(e, reading) == IF e = Bad THEN Wrong ELSE reading

\* R is a text and the nodes of its names: [P, N].
E(R, lo, hi)  == Expr(R.P.T, R.N, lo, hi)
Constant(R, lo, hi) == With(E(R, lo, hi), LAMBDA e : IF e.k = "lit" THEN <<e>> ELSE <<>>)

Assignment(R, lo, hi) ==
  With(FirstOr(Splits(R.P.T, lo, hi, {"="}), 0), LAMBDA eq :
    IF eq = 0 THEN Wrong
    ELSE With(<<Primary(R.P.T, R.N, lo, eq - 1), E(R, eq + 1, hi)>>, LAMBDA lr :
           IF AllGood(lr) THEN <<Let(lr[1], lr[2])>> ELSE Wrong))

Implied(R, lo, hi) ==
  IF Splits(R.P.T, lo, hi, {"="}) # {} THEN Assignment(R, lo, hi)
  ELSE With(Primary(R.P.T, R.N, lo, hi), LAMBDA e : Good(e, <<Call(e)>>))

Returned(R, lo, hi) ==
  IF lo > hi THEN <<Ret(<<>>)>> ELSE With(E(R, lo, hi), LAMBDA e : Good(e, <<Ret(<<e>>)>>))

\* PRINT.  An item starts behind a comma or semicolon, behind a string that is
\* one, and where a token that only starts an expression follows one that ends it.
Fresh1 == {"IDENTIFIER", "INTNUMBER", "UINTNUMBER", "STRING", "NOT", "~"}

ItemStarts(T, lo, hi) ==
  LET starts[i \in lo..(hi + 1)] ==
        \/ i = lo
        \/ /\ Outside(T, lo, i)
           /\ \/ Is(T, i - 1, {",", ";"})
              \/ Is(T, i, {",", ";"})
              \/ Is(T, i - 1, Ends) /\ Is(T, i, Fresh1)
              \/ Is(T, i - 1, {"STRING"}) /\ starts[i - 1]
  IN {i \in lo..hi : starts[i]}

\* The call of a handler, which has to be known at place p.
Handled(R, p, name, args) ==
  IF KindAt(R.P, HandlerName[name], p) = "new" THEN Wrong
  ELSE <<Call(Fn(Ref("global", HandlerName[name], "none"), args))>>

Item(R, item, dev) ==
  CASE Is(R.P.T, item.lo, {","}) -> Handled(R, item.hi, "printTab", <<dev>>)
    [] Is(R.P.T, item.lo, {";"}) -> <<>>
    [] OTHER -> With(E(R, item.lo, item.hi), LAMBDA e :
                  Good(e, Handled(R, item.hi + 1,
                                  IF Is(R.P.T, item.lo, {"STRING"}) THEN "printStr" ELSE "printInt", <<e, dev>>)))

ItemsOf(T, lo, hi) ==
  With(SetToSortSeq(ItemStarts(T, lo, hi), <) \o <<hi + 1>>, LAMBDA starts :
    [i \in 1..(Len(starts) - 1) |-> [lo |-> starts[i], hi |-> starts[i + 1] - 1]])

Items(R, lo, hi, dev) ==
  With(ItemsOf(R.P.T, lo, hi), LAMBDA items :
  With([i \in DOMAIN items |-> Item(R, items[i], dev)]
       \o IF lo <= hi /\ Is(R.P.T, hi, {",", ";"}) THEN <<>> ELSE <<Handled(R, hi + 1, "printNL", <<dev>>)>>,
       LAMBDA read : IF Contains(read, Wrong) THEN Wrong ELSE FlattenSeq(read)))

Printed(R, lo, hi) ==
  IF ~Is(R.P.T, lo, {"#"}) THEN Items(R, lo, hi, Lit(0))
  ELSE With(FirstOr(Splits(R.P.T, lo, hi, {","}), lo), LAMBDA comma :
       With(E(R, lo + 1, comma - 1), LAMBDA dev : IF dev = Bad THEN Wrong ELSE Items(R, comma + 1, hi, dev)))

\* FUNCTION.
MayDefine(P, i) ==
  LET x == Name(P, i)
  IN \/ KindAt(P, x, i) = "new"
     \/ KindAt(P, x, i) = "call" /\ ~\E m \in Mentions(P, x) : m.at < i /\ m.says = "def"

Defined(P, lo, hi) ==
  IF /\ Is(P.T, lo + 1, {"IDENTIFIER"}) /\ MayDefine(P, lo + 1)
     /\ \/ hi = lo + 1
        \/ Is(P.T, lo + 2, {"("}) /\ Is(P.T, hi, {")"}) /\ hi = lo + 3
        \/ /\ Is(P.T, lo + 2, {"("}) /\ Is(P.T, hi, {")"}) /\ (hi - lo) % 2 = 0
           /\ \A i \in (lo + 3)..(hi - 1) : Is(P.T, i, IF (i - lo) % 2 = 1 THEN {"IDENTIFIER"} ELSE {","})
  THEN <<>> ELSE Wrong

\* DIM.  The values a declaration gives its cells, or Wrong.
Values(R, parts) == [i \in DOMAIN parts |-> Constant(R, parts[i].lo, parts[i].hi)]

\* The intervals of the initializers in the braces at lo and hi: a comma or ends
\* of lines are between two of them.
Initial(T, lo, hi) ==
  LET eols == {i \in lo..hi : Is(T, i, {"EOL"})}
      separated(i) == Is(T, i - 1, {","}) /\ Outside(T, lo + 1, i - 1)
      first(i) == i - 1 \in eols \cup {lo} /\ i \notin eols \cup {hi}
  IN With({i \in (lo + 1)..hi : separated(i) \/ first(i)}, LAMBDA starts :
     With(SetToSortSeq(starts, <), LAMBDA ss :
       [i \in DOMAIN ss |->
          [lo |-> ss[i],
           hi |-> FirstOr({j \in ss[i]..hi : \/ j + 1 \in eols \cup {hi}
                                             \/ Is(T, j + 1, {","}) /\ Outside(T, lo + 1, j + 1)}, hi)]]))

ArrayValues(R, lo, hi, size) ==
  IF ~(Is(R.P.T, lo, {"{"}) /\ Is(R.P.T, hi, {"}"})) THEN Wrong
  ELSE With(Values(R, Initial(R.P.T, lo, hi)), LAMBDA values :
         IF Len(values) > size \/ Contains(values, <<>>) THEN Wrong ELSE FlattenSeq(values))

Zeros(n) == [i \in 1..n |-> Lit(0)]

ArrayDeclared(R, i, hi) ==
  With(FirstOr({j \in (i + 1)..hi : Is(R.P.T, j, {"]"}) /\ Outside(R.P.T, i, j + 1)}, 0), LAMBDA close :
  With(IF close = i + 2 THEN <<Lit(0)>> ELSE Constant(R, i + 2, close - 1), LAMBDA bound :
    IF close = 0 \/ bound = <<>> THEN Wrong
    ELSE IF close # i + 2 /\ bound[1].n <= 0 THEN Wrong
    ELSE IF close = hi THEN Zeros(bound[1].n)
    ELSE IF Is(R.P.T, close + 1, {"="}) THEN ArrayValues(R, close + 2, hi, bound[1].n) ELSE Wrong))

ScalarDeclared(R, i, hi) ==
  IF hi = i THEN Zeros(1)
  ELSE IF ~Is(R.P.T, i + 1, {"="}) THEN Wrong
  ELSE With(Constant(R, i + 2, hi), LAMBDA value : IF value = <<>> THEN Wrong ELSE value)

LocalDeclared(R, i, hi) ==
  IF hi = i THEN <<>>
  ELSE IF ~Is(R.P.T, i + 1, {"="}) THEN Wrong
  ELSE With(E(R, i + 2, hi), LAMBDA e : Good(e, <<Let(Ref("local", Name(R.P, i), "integer"), e)>>))

DeclaredAt(R, d) ==
  CASE ~Is(R.P.T, d.lo, {"IDENTIFIER"}) -> Wrong
    [] Is(R.P.T, d.lo, {"IDENTIFIER"}) /\ Scope(R.P, d.lo) # 0 -> LocalDeclared(R, d.lo, d.hi)
    [] OTHER -> IF Is(R.P.T, d.lo + 1, {"["}) THEN ArrayDeclared(R, d.lo, d.hi)
                ELSE ScalarDeclared(R, d.lo, d.hi)

\* What each declaration of a DIM says: its place and the values of the cells,
\* in functions the LET of the local.
Declared(R, lo, hi) ==
  With(Parts(lo, hi, Splits(R.P.T, lo, hi, {","})), LAMBDA ds :
    [i \in DOMAIN ds |-> [at |-> ds[i].lo, values |-> DeclaredAt(R, ds[i])]])

Dimmed(R, lo, hi) ==
  With(Declared(R, lo, hi), LAMBDA ds :
    IF lo > hi \/ \E i \in DOMAIN ds : ds[i].values = Wrong THEN Wrong
    ELSE IF Scope(R.P, lo) = 0 THEN <<>>
    ELSE FlattenSeq([i \in DOMAIN ds |-> ds[i].values]))

\* ASM: the lines between its own and END ASM.
NoCode == <<-1>>

Instruction(R, lo, hi) ==
  LET defs == {def \in OpcodeTable : SameWord(def.name, R.P.T[lo].text)}
      def  == CHOOSE d \in defs : TRUE
      n    == IF lo < hi THEN Constant(R, lo + 1, hi) ELSE <<>>
  IN CASE lo > hi -> <<>>
       [] lo <= hi /\ (~Is(R.P.T, lo, {"IDENTIFIER"}) \/ defs = {}) -> NoCode
       [] OTHER -> IF lo = hi /\ def.fmt = "NONE" THEN <<def.code>>
                   ELSE IF n = <<>> THEN NoCode
                   ELSE IF def.fmt \in {"BYTE", "SBYTE"} THEN <<def.code, n[1].n % 256>>
                   ELSE IF def.fmt \in {"WORD", "NATIVE"} THEN <<def.code>> \o WordBytes(n[1].n) ELSE NoCode

Assembled(R, lo, hi) ==
  With(Parts(lo + 1, hi, {i \in lo..hi : Is(R.P.T, i, {"EOL"})}), LAMBDA lines :
  With([i \in 2..(Len(lines) - 1) |-> Instruction(R, lines[i].lo, lines[i].hi)], LAMBDA code :
    IF \/ Len(lines) < 2 \/ lines[1].lo <= lines[1].hi
       \/ ~Is(R.P.T, hi, {"END ASM"}) \/ Last(lines).lo # hi
       \/ \E i \in DOMAIN code : code[i] = NoCode
    THEN Wrong ELSE <<Asm(FlattenSeq([i \in 1..(Len(lines) - 2) |-> code[i + 1]]))>>))

\* IF, ELSE IF and the tests of DO and LOOP: the test is between lo and hi.
Tested(R, lo, hi, word) == With(E(R, lo, hi), LAMBDA e : Good(e, <<Part(word, <<e>>)>>))

\* FOR, from the control variable on.
Counted(R, lo, hi) ==
  With(FirstOr(Splits(R.P.T, lo, hi, {"TO"}), 0), LAMBDA to :
  With(FirstOr(Splits(R.P.T, lo, hi, {"STEP"}), hi + 1), LAMBDA step :
    IF ~Is(R.P.T, lo, {"IDENTIFIER"}) \/ ~Is(R.P.T, lo + 1, {"="}) \/ to = 0 THEN Wrong
    ELSE With(<<R.N[lo], E(R, lo + 2, to - 1), E(R, to + 1, step - 1)>>
              \o (IF step > hi THEN <<>> ELSE <<E(R, step + 1, hi)>>), LAMBDA es :
           IF AllGood(es) THEN <<Part("for", es)>> ELSE Wrong)))

\* A line of a block; most have nothing behind their word.
BlockLine(R, lo, hi) ==
  LET kw   == R.P.T[lo].tkn
      word == BlockWord[kw]
  IN CASE kw \in {"IF", "ELSE IF"} -> IF Is(R.P.T, hi, {"THEN"}) THEN Tested(R, lo + 1, hi - 1, word) ELSE Wrong
       [] kw \in {"DO WHILE", "DO UNTIL", "LOOP WHILE", "LOOP UNTIL"} -> Tested(R, lo + 1, hi, kw)
       [] kw = "FOR"  -> Counted(R, lo + 1, hi)
       [] kw = "NEXT" -> IF hi = lo + 1 /\ Is(R.P.T, hi, {"IDENTIFIER"}) THEN <<Part(word, <<>>)>> ELSE Wrong
       [] OTHER       -> IF lo = hi THEN <<Part(word, <<>>)>> ELSE Wrong

Reading(R, j) ==
  LET lo == R.P.ss[j].lo
      hi == R.P.ss[j].hi
      kw == R.P.T[lo].tkn
  IN CASE lo > hi -> IF kw = "EOL" THEN <<>> ELSE Wrong
       [] lo <= hi /\ kw = "REM" -> <<>>
       [] OTHER -> IF ~Nest!Allowed(R.P.kw, j, MaxBlocks) THEN Wrong
                   ELSE IF kw \notin Unread /\ \E i \in lo..(hi + 1) : Is(R.P.T, i, {"BAD"}) THEN Wrong
                   ELSE CASE kw = "END FUNCTION" -> <<>>
                          [] kw = "FUNCTION" -> Defined(R.P, lo, hi)
                          [] kw = "DIM"      -> Dimmed(R, lo + 1, hi)
                          [] kw = "LET"      -> Assignment(R, lo + 1, hi)
                          [] kw = "RETURN"   -> Returned(R, lo + 1, hi)
                          [] kw = "PRINT"    -> Printed(R, lo + 1, hi)
                          [] kw = "END"      -> IF lo = hi THEN <<EndNode>> ELSE Wrong
                          [] kw = "ASM"      -> Assembled(R, lo, hi)
                          [] kw \in DOMAIN BlockWord \ {"FUNCTION", "END FUNCTION"} -> BlockLine(R, lo, hi)
                          [] OTHER           -> Implied(R, lo, hi)

\* The name of the function that statement j is in.
In(P, j) == IF P.fn[j] = 0 THEN mainFunction ELSE Name(P, P.ss[P.fn[j]].lo + 1)

\* Statement j, or what is behind the last one, has the generator code a function
\* or the main program; the statements of that.
Coded(P, j) ==
  CASE j > Len(P.ss) -> {i \in DOMAIN P.ss : P.fn[i] = 0}
    [] j <= Len(P.ss) /\ P.kw[j] = "end function" -> {i \in 1..(j - 1) : P.fn[i] = P.fn[j]}
    [] OTHER -> {}

\* What readings store to.
StoredTo(readings, S) ==
  UNION {{IF r.k = "let" THEN r.l ELSE r.es[1] : r \in {r \in ToSet(readings[i]) : r.k \in {"let", "for"}}} : i \in S}

\* Constants, arrays among them, and values that operators and calls make.
HasAddress(e) == e.k \notin {"lit", "str", "un", "bin", "call", "OR", "AND"}

\* The globals among them that are no variables at place p.
NoVariables(P, p, nodes) ==
  {x \in {e.x : e \in {e \in nodes : e.k = "global"}} : KindAt(P, x, p) \notin {"set", "dim"}}

\* What a text says: the readings up to the first wrong one, each with its
\* function; whether it is refused there, or what is coded before stores where
\* nothing can be, and the names that are stored to in vain.  The addresses of
\* its arrays are given.
Meaning(P, address) ==
  With([P |-> P, N |-> [i \in Read(P) |-> NodeOf(P, address, i)]], LAMBDA R :
  With(Listed([j \in DOMAIN P.ss |-> Reading(R, j)]), LAMBDA readings :
  With(FirstOr({j \in DOMAIN P.ss : readings[j] = Wrong}, Len(P.ss) + 2), LAMBDA wrong :
  With(Listed([j \in 1..Min({wrong - 1, Len(P.ss) + 1}) |-> StoredTo(readings, Coded(P, j))]), LAMBDA stored :
  With({j \in DOMAIN stored : \E e \in stored[j] : ~HasAddress(e)}, LAMBDA crashes :
  With(FirstOr(crashes, Min({wrong, Len(P.ss) + 1})), LAMBDA stop :
    [outcome |-> IF crashes # {} THEN "crashed" ELSE IF wrong <= Len(P.ss) THEN "refused" ELSE "compiled",
     complaints |-> UNION {NoVariables(P, IF j > Len(P.ss) THEN Len(P.T) + 1 ELSE P.ss[j].lo, stored[j]) :
                             j \in DOMAIN stored},
     stmts |-> FlattenSeq([j \in 1..(stop - 1) |->
                 [i \in DOMAIN readings[j] |-> [in |-> In(P, j), s |-> readings[j][i]]]])]))))))

\* What the DIMs outside functions declare.
Declares(P, address) ==
  With([P |-> P, N |-> [i \in Read(P) |-> NodeOf(P, address, i)]], LAMBDA R :
    UNION {ToSet(Declared(R, P.ss[j].lo + 1, P.ss[j].hi)) :
             j \in {j \in DOMAIN P.ss : Is(P.T, P.ss[j].lo, {"DIM"}) /\ Scope(P, P.ss[j].lo) = 0}})
=============================================================================
