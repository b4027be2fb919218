------------------------------ MODULE Nesting ------------------------------
(***************************************************************************)
(* How the lines of a program nest, told from their keywords without a     *)
(* stack: how deep a line lies is the number of blocks opened before it    *)
(* less those closed.  `lines' is the sequence of the keywords.            *)
(***************************************************************************)
EXTENDS Integers, Sequences, FiniteSets

Opens  == {"function", "if", "for", "do", "do while", "do until"}
Closes == {"end function", "end if", "next", "loop", "loop while", "loop until"}
Splits == {"else if", "else"}

Count(lines, i, kws) == Cardinality({j \in 1..(i - 1) : lines[j] \in kws})
Depth(lines, i)      == Count(lines, i, Opens) - Count(lines, i, Closes)

\* The depth of the lines that follow line i, if it starts a part of a block.
Inside(lines, i) == IF lines[i] \in Opens THEN Depth(lines, i) + 1
                    ELSE IF lines[i] \in Splits THEN Depth(lines, i) ELSE -1

LastOf(S) == CHOOSE i \in S : \A j \in S : j <= i

\* The last of the lines before i, of these keywords, that line i lies right
\* inside of; 0 is the main function.
Before(lines, i, kws) == {j \in 1..(i - 1) : lines[j] \in kws /\ Inside(lines, j) = Depth(lines, i)}
Home(lines, i, kws)   == IF Before(lines, i, kws) = {} THEN 0 ELSE LastOf(Before(lines, i, kws))
Opener(lines, i)      == Home(lines, i, Opens)

\* What may close, or split, the block that line o opens.
Closers(o) ==
  CASE o = "function" -> {"end function"}
    [] o = "if"  -> {"end if", "else if", "else"}
    [] o = "for" -> {"next"}
    [] o = "do"  -> {"loop", "loop while", "loop until"}
    [] OTHER     -> {"loop"}

\* Whether the text allows line i after those before it, with room for `max'
\* blocks, the main program's among them.
Allowed(lines, i, max) ==
  LET o == Opener(lines, i)
  IN CASE lines[i] = "function" -> o = 0 /\ Depth(lines, i) + 1 < max
       [] lines[i] \in Opens \ {"function"} -> Depth(lines, i) + 1 < max
       [] lines[i] \in Closes -> o # 0 /\ lines[i] \in Closers(lines[o])
       [] lines[i] \in Splits -> /\ o # 0 /\ lines[o] = "if"
                                 /\ ~\E j \in Before(lines, i, {"else"}) : j > o
       [] OTHER -> TRUE

\* Where the node of line i belongs: the line of its parent, and the list.
Slot(kw) == IF kw \in {"if", "else if"} THEN "then" ELSE "body"
Place(lines, i) ==
  LET h == Home(lines, i, Opens \cup Splits)
      if == Home(lines, i, {"if", "else if"})
  IN IF h = 0 THEN <<0, "body">>
     ELSE IF lines[i] = "else if" \/ lines[h] = "else" THEN <<if, "else">>
     ELSE <<h, Slot(lines[h])>>
=============================================================================
