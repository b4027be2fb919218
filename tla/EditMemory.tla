----------------------------- MODULE EditMemory -----------------------------
(***************************************************************************)
(* The edit buffer on the words of the workspace: what FindLineN reads,    *)
(* what memmove copies and what BufAddLineN stores.  The walk goes from    *)
(* record to record by the lengths it finds in memory, so that a wrong     *)
(* copy or a wrong length shows as a wrong program.  The compiler's output *)
(* is stored in the same memory, from the bottom, and may go through to    *)
(* the records: what the program does then is undefined, as in EditBuffer. *)
(*                                                                         *)
(* The commands modelled are the ones that change or walk the records in   *)
(* different ways; LOAD and SAVE repeat them (module EditBuffer).          *)
(***************************************************************************)
EXTENDS Integers, Sequences, FiniteSets

CONSTANTS FreeSpace, BufferTop, Numbers, Texts, StrLen,
          ContextSize, TreeSizes, CodeSizes,
          Code          \* what a word of compiled code holds

\* Addresses count from the start of `workspace'; what is taken off its top is
\* rounded to words.
ASSUME MemoryAssumption ==
  /\ FreeSpace \in Nat
  /\ BufferTop \in Nat
  /\ FreeSpace <= BufferTop
  /\ BufferTop % 4 = 0
  /\ Numbers \subseteq Nat
  /\ StrLen \in [Texts -> Nat]
  /\ ContextSize \in Nat
  /\ TreeSizes \subseteq Nat
  /\ CodeSizes \subseteq Nat

VARIABLES mem,          \* the words from FreeSpace to BufferTop
          buffer, currentLine, nextLow, mode, out, reply

vars == <<mem, buffer, currentLine, nextLow, mode, out, reply>>

WordSize    == 4
SizeofLine  == 12
FirstNumber == 100
Increment   == 10

Align(n) == WordSize * ((n + WordSize - 1) \div WordSize)

Words  == {a \in FreeSpace..(BufferTop - 1) : a % WordSize = 0}
Places == Words \cup {BufferTop}

\* The fields of the Line_t at p; a text fills whole words here.
LineNumber(p) == mem[p]
Length(p)     == mem[p + WordSize]
Text(p)       == mem[p + 2 * WordSize]

\* Fault: a copy that goes up from the lowest word, over words it still needs.
CopiedUpwards(m, to, from, size) ==
  [a \in Words |-> IF ~(to <= a /\ a < to + size) THEN m[a]
                   ELSE IF to > from THEN m[from + ((a - to) % (to - from))]
                   ELSE m[from + a - to]]

\* memmove(to, from, size)
Moved(m, to, from, size) ==
  [a \in Words |-> IF to <= a /\ a < to + size THEN m[from + a - to] ELSE m[a]]

\* line->lineNumber = n; line->length = length; strcpy(line->text, t)
Stored(m, p, n, length, t) ==
  LET textEnd == p + 2 * WordSize + StrLen[t]    \* where the '\0' goes
  IN [a \in Words |-> CASE a = p -> n
                        [] a = p + WordSize -> length
                        [] a >= p + 2 * WordSize /\ a <= textEnd -> t
                        [] OTHER -> m[a]]

\* p + line->length.  The walks in the code would follow a wrong length
\* anywhere; here they end at it, and TypeOK says that they meet none.
LeadsOn(p) == \E q \in Places : p < q /\ Length(p) = q - p

Behind(p) == IF LeadsOn(p) THEN p + Length(p) ELSE BufferTop

\* FindLineN: the address of the first line with number n or more.
FindLineN(n) ==
  LET walk[p \in Places] ==
        IF p >= BufferTop THEN p
        ELSE IF n <= LineNumber(p) THEN p
        ELSE walk[Behind(p)]
  IN walk[buffer]

Found(n) == FindLineN(n) < BufferTop /\ LineNumber(FindLineN(n)) = n

\* Fault: the check forgets what the compiler holds.
AddLineInFreeSpace(n, t) ==
  LET newLength   == Align(SizeofLine + StrLen[t])
      line        == FindLineN(n)
      spaceNeeded == IF Found(n) THEN newLength - Length(line) ELSE newLength
      shifted     == Moved(mem, buffer - spaceNeeded, buffer, line - buffer)
  IN IF buffer - spaceNeeded < FreeSpace
     THEN /\ reply' = "out of edit buffer space"
          /\ UNCHANGED <<mem, buffer>>
     ELSE /\ mem' = Stored(shifted, line - spaceNeeded, n, newLength, t)
          /\ buffer' = buffer - spaceNeeded
          /\ reply' = "OK"

BufAddLineN(n, t) ==
  LET newLength   == Align(SizeofLine + StrLen[t])
      line        == FindLineN(n)
      spaceNeeded == IF Found(n) THEN newLength - Length(line) ELSE newLength
      shifted     == Moved(mem, buffer - spaceNeeded, buffer, line - buffer)
  IN IF buffer - spaceNeeded < nextLow
     THEN /\ reply' = "out of edit buffer space"
          /\ UNCHANGED <<mem, buffer>>
     ELSE /\ mem' = Stored(shifted, line - spaceNeeded, n, newLength, t)
          /\ buffer' = buffer - spaceNeeded
          /\ reply' = "OK"

BufDeleteLineN(n) ==
  LET line       == FindLineN(n)
      spaceFreed == Length(line)
  IN IF ~Found(n)
     THEN /\ reply' = "no line"
          /\ UNCHANGED <<mem, buffer>>
     ELSE /\ mem' = Moved(mem, buffer + spaceFreed, buffer, line - buffer)
          /\ buffer' = buffer + spaceFreed
          /\ reply' = "OK"

-----------------------------------------------------------------------------
\* The workspace is a static array: zeroes.
Init ==
  /\ mem = [a \in Words |-> 0]
  /\ buffer = BufferTop
  /\ currentLine = BufferTop
  /\ nextLow = FreeSpace
  /\ mode = "idle"
  /\ out = <<>>
  /\ reply = "OK"

EnterLine(n, t) ==
  /\ mode = "idle"
  /\ BufAddLineN(n, t)
  /\ UNCHANGED <<currentLine, nextLow, mode, out>>

DeleteLine(n) ==
  /\ mode = "idle"
  /\ BufDeleteLineN(n)
  /\ UNCHANGED <<currentLine, nextLow, mode, out>>

BufNew ==
  /\ buffer' = BufferTop
  /\ currentLine' = BufferTop

DoNew ==
  /\ mode = "idle"
  /\ BufNew
  /\ reply' = "OK"
  /\ UNCHANGED <<mem, nextLow, mode, out>>

\* The records that a walk from `buffer' meets.
Visited ==
  LET walk[p \in Places] ==
        IF p >= BufferTop THEN {} ELSE {p} \cup walk[Behind(p)]
  IN walk[buffer]

DoRenum ==
  /\ mode = "idle"
  /\ mem' = [a \in Words |->
               IF a \in Visited
               THEN FirstNumber + Increment * Cardinality({p \in Visited : p < a})
               ELSE mem[a]]
  /\ reply' = "OK"
  /\ UNCHANGED <<buffer, currentLine, nextLow, mode, out>>

Readers == {"list", "compile"}

\* No line can be counted on; see EditBuffer.
Undefined ==
  /\ mode' = "undefined"
  /\ BufNew
  /\ out' = <<>>
  /\ UNCHANGED reply

\* A new process, with a new workspace.
Restart ==
  /\ mode = "undefined"
  /\ mode' = "idle"
  /\ mem' = [a \in Words |-> 0]
  /\ BufNew
  /\ nextLow' = FreeSpace
  /\ out' = <<>>
  /\ reply' = "OK"

\* LIST, and compileProgram for RUN, start at the first line.
StartReading(cmd) ==
  /\ mode = "idle"
  /\ cmd = "compile" => FreeSpace + ContextSize <= buffer
  /\ mode' = cmd
  /\ currentLine' = buffer
  /\ nextLow' = IF cmd = "compile" THEN FreeSpace ELSE nextLow
  /\ reply' = "OK"
  /\ UNCHANGED <<mem, buffer, out>>

NoRoomToCompile ==
  /\ mode = "idle"
  /\ FreeSpace + ContextSize > buffer
  /\ nextLow' = FreeSpace
  /\ Undefined
  /\ UNCHANGED mem

\* The generator's stores of s bytes, wherever they end.
Store(s) ==
  /\ mem' = [a \in Words |-> IF nextLow <= a /\ a < nextLow + s THEN Code ELSE mem[a]]
  /\ nextLow' = nextLow + s

StoreCode ==
  \E s \in CodeSizes, t \in TreeSizes :
    /\ nextLow + s + t + ContextSize <= buffer
    /\ Store(s)

Overrun ==
  /\ mode = "compile"
  /\ \E s \in CodeSizes, t \in TreeSizes :
       /\ nextLow + t + ContextSize <= buffer
       /\ nextLow + s + t + ContextSize > buffer
       /\ Store(s)
  /\ Undefined

\* BufGetLine; the compiler may store code for the line.
ReadLine ==
  /\ mode \in Readers
  /\ currentLine < BufferTop
  /\ out' = Append(out, [num |-> LineNumber(currentLine), text |-> Text(currentLine)])
  /\ currentLine' = currentLine + Length(currentLine)
  /\ IF mode = "compile" THEN StoreCode ELSE UNCHANGED <<mem, nextLow>>
  /\ UNCHANGED <<buffer, mode, reply>>

StopReading ==
  /\ mode \in Readers
  /\ mode = "compile" \/ currentLine >= BufferTop
  /\ mode' = "idle"
  /\ out' = <<>>
  /\ (mode = "compile" /\ StoreCode) \/ UNCHANGED <<mem, nextLow>>
  /\ UNCHANGED <<buffer, currentLine, reply>>

Next ==
  \/ \E n \in Numbers, t \in Texts : EnterLine(n, t)
  \/ \E n \in Numbers : DeleteLine(n)
  \/ DoNew
  \/ DoRenum
  \/ \E cmd \in Readers : StartReading(cmd)
  \/ NoRoomToCompile
  \/ ReadLine
  \/ Overrun
  \/ Restart
  \/ StopReading

Spec == Init /\ [][Next]_vars

-----------------------------------------------------------------------------
\* The memory words at and above `buffer', and the cursor, are addresses a
\* walk can use: every length found on the way leads to another record or to
\* the end of the buffer.
TypeOK ==
  /\ buffer \in Places
  /\ currentLine \in Places
  /\ nextLow \in Nat
  /\ mode # "undefined" => nextLow \in FreeSpace..buffer
  /\ DOMAIN mem = Words
  /\ Visited \subseteq Words
  /\ \A p \in Visited : /\ LeadsOn(p)
                        /\ LineNumber(p) \in Nat
                        /\ Text(p) \in Texts

\* The word-level buffer implements the record-level one: the memmove of
\* BufAddLineN and BufDeleteLineN, and the stores that follow it, leave the
\* records the edit means and no other, also when the copied areas overlap.
\* Compiled code disturbs no record unless it goes through the contexts above
\* it, after which EditBuffer promises none.
RecordAt(p) == [addr |-> p, num |-> LineNumber(p), len |-> Length(p), text |-> Text(p)]

Records == {RecordAt(p) : p \in Visited}

Buffer == INSTANCE EditBuffer
            WITH lines <- Records, file <- <<>>, rest <- <<>>,
                 number <- FirstNumber, Files <- {<<>>}

ImplementsEditBuffer == Buffer!Spec

=============================================================================
