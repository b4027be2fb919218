------------------------------ MODULE Scanner ------------------------------
(***************************************************************************)
(* The scanner: src/compiler/scan.c, character by character, and           *)
(* ParseGetLine, which ends each line with a newline.                      *)
(*                                                                         *)
(* `c' is the ParseContext_t.  A routine maps it to the next one; what it  *)
(* returns is left in c.ch (a character), c.tkn (a token) or c.more.  Once *)
(* ParseError has set c.error nothing more is done, as after its longjmp.  *)
(***************************************************************************)
EXTENDS Words, SequencesExt

CONSTANTS Ktab,         \* ktab: a set of [word, token]
          MAXTOKEN,
          Lower, Upper, \* the letters the texts use, in the same order
          Code          \* character -> its number

ASSUME ScannerAssumption == MAXTOKEN \in Nat /\ Len(Lower) = Len(Upper)

\* First c, then Step(c), unless c ended in an error.
On(c, Step(_)) == CHOOSE d \in {IF x.error = "" THEN Step(x) ELSE x : x \in {c}} : TRUE

ParseError(c, what) == [c EXCEPT !.error = what]

EOF == "EOF"

Digits == <<"0", "1", "2", "3", "4", "5", "6", "7", "8", "9">>
HexLetters == <<"a", "b", "c", "d", "e", "f">>

DigitChars      == ToSet(Digits)
IdentifierChars == ToSet(Lower \o Upper) \cup DigitChars \cup {"$", "%", "_"}
SpaceChars      == {" ", "\t", "\n", "\r"}

\* strcasecmp looks at the small letters.
SmallLetter == [ch \in ToSet(Upper) |-> Lower[SelectInSeq(Upper, LAMBDA u : u = ch)]]

Small(ch)      == IF ch \in DOMAIN SmallLetter THEN SmallLetter[ch] ELSE ch
SmallWord(w)   == [i \in DOMAIN w |-> Small(w[i])]
SameWord(v, w) == Len(v) = Len(w) /\ \A i \in DOMAIN v : Small(v[i]) = Small(w[i])

-----------------------------------------------------------------------------
\* Characters.
XGetC(c) == IF c.ptr > Len(c.line) THEN [c EXCEPT !.ch = EOF]
            ELSE [c EXCEPT !.ch = c.line[c.ptr], !.ptr = @ + 1]

UngetC(c) == [c EXCEPT !.ptr = @ - 1]

\* Fault: the star that opens the comment may close it.
CommentEndsAtOnce(c) == {e \in 2..Len(c.line) : e >= c.ptr /\ c.line[e - 1] = "*" /\ c.line[e] = "/"}

\* The end of the comment that c.ptr is in, EOF if it goes on behind the line.
CommentEnds(c) == {e \in (c.ptr + 1)..Len(c.line) : c.line[e - 1] = "*" /\ c.line[e] = "/"}

SkipComment(c) == IF CommentEnds(c) = {} THEN [c EXCEPT !.ptr = Len(c.line) + 1, !.ch = EOF]
                  ELSE [c EXCEPT !.ptr = Min(CommentEnds(c)) + 1, !.ch = "/"]

RECURSIVE GetChar(_)
GetChar(c) ==
  IF c.inComment
  THEN On(SkipComment(c), LAMBDA d :
         IF d.ch = EOF THEN d ELSE GetChar([d EXCEPT !.inComment = FALSE]))
  ELSE On(XGetC(c), LAMBDA d :
         IF d.ch # "/" THEN d
         ELSE On(XGetC(d), LAMBDA e :
                CASE e.ch = "/" -> [e EXCEPT !.ptr = Len(e.line) + 1, !.ch = EOF]
                  [] e.ch = "*" -> GetChar([e EXCEPT !.inComment = TRUE])
                  [] OTHER      -> [UngetC(e) EXCEPT !.ch = "/"]))

RECURSIVE SkipSpaces(_)
SkipSpaces(c) == On(GetChar(c), LAMBDA d : IF d.ch \in SpaceChars THEN SkipSpaces(d) ELSE d)

-----------------------------------------------------------------------------
\* Tokens.
Tkn(c, t) == [c EXCEPT !.tkn = t]

\* The wanted characters from here on; the dropped ones do not end them.
RECURSIVE Gather(_, _, _)
Gather(c, wanted, dropped) ==
  On(GetChar(c), LAMBDA d :
    CASE d.ch \in wanted  -> Gather([d EXCEPT !.token = Append(@, d.ch)], wanted, dropped)
      [] d.ch \in dropped -> Gather(d, wanted, dropped)
      [] OTHER            -> UngetC(d))

\* The character before has been read: it is the identifier's first.
IdentifierToken(c) ==
  On(Gather([c EXCEPT !.token = <<c.ch>>], IdentifierChars, {}), LAMBDA d :
    IF Len(d.token) > MAXTOKEN THEN ParseError(d, "Identifier too long")
    ELSE Tkn(d, IF \E k \in Ktab : SameWord(k.word, d.token)
                THEN (CHOOSE k \in Ktab : SameWord(k.word, d.token)).token ELSE "IDENTIFIER"))

HexChars == {ch \in IdentifierChars : ch \in DigitChars \/ Contains(HexLetters, Small(ch))}

DigitValue == [ch \in HexChars |-> SelectInSeq(Digits \o HexLetters, LAMBDA x : x = Small(ch)) - 1]

ValueOf(digits, base) ==
  Wrap(FoldLeft(LAMBDA v, ch : v * base + DigitValue[ch], 0, digits))

\* NumberToken, HexNumberToken and BinaryNumberToken.
Number(c, digits, base, t) ==
  On(Gather(c, digits, {"_"}), LAMBDA d :
    [Tkn(d, t) EXCEPT !.tokenValue = ValueOf(d.token, base)])

\* 0x and 0b; otherwise a decimal number that starts with 0.
ZeroToken(c) ==
  On(GetChar(c), LAMBDA d :
    CASE Small(d.ch) = "x" -> Number([d EXCEPT !.token = <<>>], HexChars, 16, "UINTNUMBER")
      [] Small(d.ch) = "b" -> Number([d EXCEPT !.token = <<>>], {"0", "1"}, 2, "UINTNUMBER")
      [] OTHER -> Number([UngetC(d) EXCEPT !.token = <<"0">>], DigitChars, 10, "INTNUMBER"))

LiteralChar(c) ==
  On(XGetC(c), LAMBDA d : [d EXCEPT !.ch = CASE @ = "n" -> "\n"
                                             [] @ = "r" -> "\r"
                                             [] @ = "t" -> "\t"
                                             [] @ = EOF -> "\\"
                                             [] OTHER   -> @])

RECURSIVE StringToken(_)
StringToken(c) ==
  On(XGetC(c), LAMBDA d :
    CASE d.ch = "\"" -> Tkn(d, "STRING")
      [] d.ch = EOF  -> ParseError(d, "unterminated string")
      [] d.ch \notin {"\"", EOF} /\ Len(d.token) = MAXTOKEN -> ParseError(d, "String too long")
      [] OTHER -> On(IF d.ch = "\\" THEN LiteralChar(d) ELSE d, LAMBDA e :
                    StringToken([e EXCEPT !.token = Append(@, e.ch)])))

CharToken(c) ==
  On(LiteralChar(c), LAMBDA d :
  On(XGetC(d), LAMBDA e :
    IF e.ch # "'" THEN ParseError(e, "Expecting a closing single quote")
    ELSE [Tkn(e, "INTNUMBER") EXCEPT !.token = <<d.ch>>, !.tokenValue = Code[d.ch]]))

\* < and > may start a token of two characters.
Second(ch) == IF ch = "<" THEN {"=", ">", "<"} ELSE {"=", ">"}

Digraph(c) ==
  On(GetChar(c), LAMBDA d :
    IF d.ch \in Second(c.ch) THEN Tkn(d, c.ch \o d.ch) ELSE Tkn(UngetC(d), c.ch))

\* The keywords that a second word may complete.
Compound(t) == CASE t = "ELSE" -> {"IF"}
                 [] t = "END"  -> {"FUNCTION", "SUB", "IF", "ASM"}
                 [] t \in {"DO", "LOOP"} -> {"WHILE", "UNTIL"}
                 [] OTHER -> {}

\* The look-ahead for that word; linePtr goes back if it is another one, but
\* inComment does not.
SecondWord(c) ==
  On(SkipSpaces(c), LAMBDA d :
  On(IF d.ch \in IdentifierChars THEN IdentifierToken(d) ELSE Tkn(d, "NONE"), LAMBDA e :
    IF e.tkn \in Compound(c.tkn) THEN Tkn(e, c.tkn \o " " \o e.tkn)
    ELSE [Tkn(e, c.tkn) EXCEPT !.ptr = c.ptr]))

Word1(c) == On(IdentifierToken(c), LAMBDA d : IF Compound(d.tkn) = {} THEN d ELSE SecondWord(d))

GetToken1(c) ==
  On(SkipSpaces(c), LAMBDA d :
    CASE d.ch = EOF  -> Tkn(d, "EOL")
      [] d.ch = "\"" -> StringToken([d EXCEPT !.token = <<>>])
      [] d.ch = "'"  -> CharToken(d)
      [] d.ch \in {"<", ">"} -> Digraph(d)
      [] d.ch = "0"  -> ZeroToken(d)
      [] d.ch \in DigitChars \ {"0"} -> Number([d EXCEPT !.token = <<d.ch>>], DigitChars, 10, "INTNUMBER")
      [] d.ch \in IdentifierChars \ DigitChars -> Word1(d)
      [] OTHER -> Tkn(d, d.ch))

\* GetToken1 looks at nothing but the line, linePtr and inComment, and nothing
\* else changes them: what it will return is found when the line is read, and
\* c.ahead has it in order.  The last one, the end or an error, comes for ever.
Token(c) == [tkn |-> c.tkn, error |-> c.error, ptr |-> c.ptr, inComment |-> c.inComment,
             token |-> IF c.tkn \in {"IDENTIFIER", "STRING"} THEN c.token ELSE <<>>,
             tokenValue |-> IF c.tkn \in {"INTNUMBER", "UINTNUMBER"} THEN c.tokenValue ELSE 0]

RECURSIVE Ahead(_)
Ahead(c) ==
  CHOOSE ts \in {IF d.tkn = "EOL" \/ d.error # "" THEN <<Token(d)>> ELSE <<Token(d)>> \o Ahead(d) :
                   d \in {GetToken1(c)}} : TRUE

\* The tokens that have been asked for are in c.tokens, line by line.
NextToken(c, t) ==
  [c EXCEPT !.tkn = t.tkn, !.error = t.error, !.ptr = t.ptr, !.inComment = t.inComment,
            !.token = t.token, !.tokenValue = t.tokenValue,
            !.ahead = IF Len(@) > 1 THEN Tail(@) ELSE @,
            !.tokens[Len(c.tokens)] = IF t.error = "" THEN Append(@, t) ELSE @]

GetToken(c) == IF c.savedToken # "NONE" THEN [Tkn(c, c.savedToken) EXCEPT !.savedToken = "NONE"]
               ELSE NextToken(c, Head(c.ahead))

SaveToken(c) == [c EXCEPT !.savedToken = c.tkn]

Require(c, t)  == IF c.tkn = t THEN c ELSE ParseError(c, "Expecting")
FRequire(c, t) == On(GetToken(c), LAMBDA d : Require(d, t))

-----------------------------------------------------------------------------
\* InitScan.
InitScan(c) == [c EXCEPT !.inComment = FALSE, !.savedToken = "NONE"]

\* ParseGetLine: the next of the lines left, ended by a newline.
Terminated(line) == IF line # <<>> /\ Last(line) = "\n" THEN line ELSE Append(line, "\n")

ParseGetLine(c) ==
  IF c.rest = <<>> THEN [c EXCEPT !.more = FALSE]
  ELSE On([c EXCEPT !.more = TRUE, !.line = Terminated(Head(c.rest)), !.rest = Tail(@), !.ptr = 1],
          LAMBDA d : [d EXCEPT !.ahead = Ahead(d), !.tokens = Append(@, <<>>)])
=============================================================================
