----------------------------- MODULE EditBuffer -----------------------------
(***************************************************************************)
(* The edit buffer of src/repl/edit.c.  Program lines are packed records   *)
(* at the top of the workspace, in [buffer, BufferTop), in the order of    *)
(* their numbers; a line that comes or goes slides the records below it.   *)
(* The compiler's output and the free space lie below `buffer', down to    *)
(* FreeSpace.                                                              *)
(*                                                                         *)
(* A compilation has its contexts and its parse tree right below `buffer'; *)
(* the generator stores code upwards and does not stop when it meets them. *)
(* What the program does after that is undefined (mode "undefined"), until *)
(* it is started again.  Compilations that the generator dies of, and what *)
(* a BASIC program does when it runs, are not in this module.              *)
(*                                                                         *)
(* A record is one element of the set `lines'; its place is its field      *)
(* `addr'.  Module EditMemory models the same operations on the words of   *)
(* the memory itself and implements this one.                              *)
(***************************************************************************)
EXTENDS Integers, Sequences, FiniteSets

CONSTANTS FreeSpace,    \* first byte the workspace heap can give away
          BufferTop,    \* first byte above the edit buffer
          Numbers,      \* the line numbers a user types
          Texts,        \* the texts a line can hold
          StrLen,       \* strlen of each text
          Files,        \* what the file on disk may hold at the start
          ContextSize,  \* what InitCompileContext takes, right below `buffer'
          TreeSizes,    \* what the parse tree may take below that
          CodeSizes     \* what the generator may store, for one line, from nextLow on

ASSUME WorkspaceAssumption ==
  /\ FreeSpace \in Nat
  /\ BufferTop \in Nat
  /\ FreeSpace <= BufferTop

ASSUME TextAssumption ==
  /\ Numbers \subseteq Nat
  /\ StrLen \in [Texts -> Nat]
  /\ Files \subseteq Seq(Texts)

ASSUME CompilerAssumption ==
  /\ ContextSize \in Nat
  /\ TreeSizes \subseteq Nat
  /\ CodeSizes \subseteq Nat

SizeofLine  == 12       \* sizeof(Line_t): number, length, text[1], padding
FirstNumber == 100      \* LOAD and RENUM start here
Increment   == 10       \* and go on in steps of this

\* (n + ALIGN_MASK) & ~ALIGN_MASK for words of four bytes
Align(n) == 4 * ((n + 3) \div 4)

LineLength(t) == Align(SizeofLine + StrLen[t])

Readers == {"list", "save", "compile"}

VARIABLES lines,        \* the records: [addr, num, len, text]
          buffer,       \* buf->buffer, the lowest record
          currentLine,  \* buf->currentLine, where BufGetLine reads next
          nextLow,      \* sys->nextLow, the end of what the compiler holds
          mode,         \* "idle", the command whose loop is under way, "undefined"
          out,          \* what BufGetLine has returned in this loop
          file,         \* the texts in the file on disk
          rest,         \* LOAD: the lines of the file not read yet
          number,       \* LOAD: lineNumber
          reply         \* the editor's answer to the last command

bufVars  == <<lines, buffer>>
fileVars == <<file, rest, number>>
vars     == <<lines, buffer, currentLine, nextLow, mode, out, file, rest,
              number, reply>>

-----------------------------------------------------------------------------
\* Fault: the search goes past the line itself.
LaterOnly(n) == {l \in lines : n < l.num}

\* FindLineN: the first record whose number is n or more, as an address.
Later(n) == {l \in lines : n <= l.num}

FindLineN(n) ==
  IF Later(n) = {} THEN BufferTop
  ELSE (CHOOSE l \in Later(n) : \A m \in Later(n) : l.addr <= m.addr).addr

\* The record FindLineN reports as "found": there is one or none.
Found(n) == {l \in lines : l.addr = FindLineN(n) /\ l.num = n}

\* memmove(buffer - by, buffer, at - buffer): the records below `at' move.
Slide(l, at, by) == IF l.addr < at THEN [l EXCEPT !.addr = @ - by] ELSE l

\* Fault: a line that replaces another is charged, and moved, in full.
SpaceForNew(n, t) == LineLength(t)

\* BufAddLineN up to its space check: what the line costs.
SpaceNeeded(n, t) ==
  LineLength(t) - (IF Found(n) = {} THEN 0 ELSE (CHOOSE l \in Found(n) : TRUE).len)

\* Faults: no check; a check that forgets what the compiler holds.
FitsAlways(n, t)    == TRUE
FitsFreeSpace(n, t) == buffer - SpaceNeeded(n, t) >= FreeSpace

Fits(n, t) == buffer - SpaceNeeded(n, t) >= nextLow

\* BufAddLineN after it: replace the line or insert it.
PutLine(n, t) ==
  LET at == FindLineN(n)
      by == SpaceNeeded(n, t)
  IN /\ lines' = {Slide(l, at, by) : l \in lines \ Found(n)} \cup
                 {[addr |-> at - by, num |-> n, len |-> LineLength(t), text |-> t]}
     /\ buffer' = buffer - by

\* BufDeleteLineN on a line that is there.
RemoveLine(n) ==
  LET at == FindLineN(n)
      by == (CHOOSE l \in Found(n) : TRUE).len
  IN /\ lines' = {Slide(l, at, -by) : l \in lines \ Found(n)}
     /\ buffer' = buffer + by

-----------------------------------------------------------------------------
\* BufInit: an empty buffer at the top of the workspace.
Init ==
  /\ lines = {}
  /\ buffer = BufferTop
  /\ currentLine = BufferTop
  /\ nextLow = FreeSpace
  /\ mode = "idle"
  /\ out = <<>>
  /\ file \in Files
  /\ rest = <<>>
  /\ number = FirstNumber
  /\ reply = "OK"

\* edit_workspace: a line number followed by a text.
EnterLine(n, t) ==
  /\ mode = "idle"
  /\ IF Fits(n, t)
     THEN PutLine(n, t) /\ reply' = "OK"
     ELSE UNCHANGED bufVars /\ reply' = "out of edit buffer space"
  /\ UNCHANGED <<currentLine, nextLow, mode, out, fileVars>>

\* edit_workspace: a line number alone.
DeleteLine(n) ==
  /\ mode = "idle"
  /\ IF Found(n) # {}
     THEN RemoveLine(n) /\ reply' = "OK"
     ELSE UNCHANGED bufVars /\ reply' = "no line"
  /\ UNCHANGED <<currentLine, nextLow, mode, out, fileVars>>

BufNew ==
  /\ lines' = {}
  /\ buffer' = BufferTop
  /\ currentLine' = BufferTop

DoNew ==
  /\ mode = "idle"
  /\ BufNew
  /\ reply' = "OK"
  /\ UNCHANGED <<nextLow, mode, out, fileVars>>

\* Fault: the number is stepped before it is used.
RenumFrom110 ==
  /\ mode = "idle"
  /\ lines' = {[l EXCEPT !.num = FirstNumber + Increment *
                   Cardinality({m \in lines : m.addr <= l.addr})] : l \in lines}
  /\ reply' = "OK"
  /\ UNCHANGED <<buffer, currentLine, nextLow, mode, out, fileVars>>

\* DoRenum numbers the records as it walks up the buffer.
DoRenum ==
  /\ mode = "idle"
  /\ lines' = {[l EXCEPT !.num = FirstNumber + Increment *
                   Cardinality({m \in lines : m.addr < l.addr})] : l \in lines}
  /\ reply' = "OK"
  /\ UNCHANGED <<buffer, currentLine, nextLow, mode, out, fileVars>>

\* Behind a store into the contexts or the parse tree, or a jump to a target
\* that is not set: the program may crash or go on, and no line can be
\* counted on.
Undefined ==
  /\ mode' = "undefined"
  /\ BufNew
  /\ out' = <<>>
  /\ UNCHANGED <<fileVars, reply>>

\* A new process; the file on disk is what outlives the old one.
Restart ==
  /\ mode = "undefined"
  /\ mode' = "idle"
  /\ BufNew
  /\ nextLow' = FreeSpace
  /\ out' = <<>>
  /\ rest' = <<>>
  /\ number' = FirstNumber
  /\ reply' = "OK"
  /\ UNCHANGED file

\* DoList, DoSave and compileProgram all start with BufSeekN(buf, 0); SAVE
\* has opened its file for writing, compileProgram has reset sys->nextLow and
\* found room for its contexts.
StartReading(cmd) ==
  /\ mode = "idle"
  /\ cmd = "compile" => FreeSpace + ContextSize <= buffer
  /\ mode' = cmd
  /\ currentLine' = buffer
  /\ nextLow' = IF cmd = "compile" THEN FreeSpace ELSE nextLow
  /\ file' = IF cmd = "save" THEN <<>> ELSE file
  /\ reply' = "OK"
  /\ UNCHANGED <<lines, buffer, out, rest, number>>

\* compileProgram without room for its contexts: system_allocate_high_memory
\* jumps before Compile has called setjmp.
NoRoomToCompile ==
  /\ mode = "idle"
  /\ FreeSpace + ContextSize > buffer
  /\ nextLow' = FreeSpace
  /\ Undefined

\* putcbyte, putcword, putdword and code_asm_statement below nextHigh.
StoreCode ==
  \E s \in CodeSizes, t \in TreeSizes :
    /\ nextLow + s + t + ContextSize <= buffer
    /\ nextLow' = nextLow + s

\* The same when the code does not fit below a parse tree that did:
\* GenerateFatal prints, and the store goes on into the tree, the contexts
\* and the lines.
Overrun ==
  /\ mode = "compile"
  /\ \E s \in CodeSizes, t \in TreeSizes :
       /\ nextLow + t + ContextSize <= buffer
       /\ nextLow + s + t + ContextSize > buffer
       /\ nextLow' = nextLow + s
  /\ Undefined

\* Fault: the cursor steps over the Line_t and not over the text behind it.
ReadHeader ==
  /\ mode \in Readers
  /\ currentLine < BufferTop
  /\ \E l \in lines :
       /\ l.addr = currentLine
       /\ out' = Append(out, [num |-> l.num, text |-> l.text])
       /\ file' = IF mode = "save" THEN Append(file, l.text) ELSE file
       /\ currentLine' = currentLine + SizeofLine
  /\ UNCHANGED <<lines, buffer, nextLow, mode, rest, number, reply>>

\* BufGetLine below bufferTop.  SAVE writes the line; the compiler may store
\* code for it (Overrun has the code that does not fit).
ReadLine ==
  /\ mode \in Readers
  /\ currentLine < BufferTop
  /\ \E l \in lines :
       /\ l.addr = currentLine
       /\ out' = Append(out, [num |-> l.num, text |-> l.text])
       /\ file' = IF mode = "save" THEN Append(file, l.text) ELSE file
       /\ currentLine' = currentLine + l.len
  /\ IF mode = "compile" THEN StoreCode ELSE UNCHANGED nextLow
  /\ UNCHANGED <<lines, buffer, mode, rest, number, reply>>

\* BufGetLine returns NULL at bufferTop, and the compiler stores the code of
\* the main program; a ParseError, or memory that runs out where it is
\* checked, ends a compilation anywhere.
StopReading ==
  /\ mode \in Readers
  /\ mode = "compile" \/ currentLine >= BufferTop
  /\ mode' = "idle"
  /\ out' = <<>>
  /\ (mode = "compile" /\ StoreCode) \/ UNCHANGED nextLow
  /\ UNCHANGED <<lines, buffer, currentLine, fileVars, reply>>

\* DoLoad, once the file is open.
StartLoad ==
  /\ mode = "idle"
  /\ mode' = "load"
  /\ BufNew
  /\ rest' = file
  /\ number' = FirstNumber
  /\ reply' = "OK"
  /\ UNCHANGED <<nextLow, out, file>>

\* Faults: only a line that fits takes a number; a line that does not fit is
\* tried again.
LoadNumbersFitting ==
  /\ mode = "load"
  /\ rest # <<>>
  /\ IF Fits(number, Head(rest))
     THEN PutLine(number, Head(rest)) /\ number' = number + Increment
     ELSE UNCHANGED <<bufVars, number>>
  /\ rest' = Tail(rest)
  /\ UNCHANGED <<currentLine, nextLow, mode, out, file, reply>>

LoadRetries ==
  /\ mode = "load"
  /\ rest # <<>>
  /\ Fits(number, Head(rest))
  /\ PutLine(number, Head(rest))
  /\ rest' = Tail(rest)
  /\ number' = number + Increment
  /\ UNCHANGED <<currentLine, nextLow, mode, out, file, reply>>

\* One turn of DoLoad's loop; it does not look at BufAddLineN's result.
LoadLine ==
  /\ mode = "load"
  /\ rest # <<>>
  /\ IF Fits(number, Head(rest)) THEN PutLine(number, Head(rest))
                                 ELSE UNCHANGED bufVars
  /\ rest' = Tail(rest)
  /\ number' = number + Increment
  /\ UNCHANGED <<currentLine, nextLow, mode, out, file, reply>>

StopLoad ==
  /\ mode = "load"
  /\ rest = <<>>
  /\ mode' = "idle"
  /\ number' = FirstNumber
  /\ UNCHANGED <<lines, buffer, currentLine, nextLow, out, file, rest, reply>>

\* DoLoad and DoSave without a name, or when fopen fails.
OpenFails ==
  /\ mode = "idle"
  /\ reply' = "error"
  /\ UNCHANGED <<lines, buffer, currentLine, nextLow, mode, out, fileVars>>

Next ==
  \/ \E n \in Numbers, t \in Texts : EnterLine(n, t)
  \/ \E n \in Numbers : DeleteLine(n)
  \/ DoNew
  \/ DoRenum
  \/ \E cmd \in Readers : StartReading(cmd)
  \/ NoRoomToCompile
  \/ ReadLine
  \/ Overrun
  \/ Restart
  \/ StopReading
  \/ StartLoad
  \/ LoadLine
  \/ StopLoad
  \/ OpenFails

Spec == Init /\ [][Next]_vars

\* The editor is one thread: a loop it has entered goes on by itself.  Nobody
\* need start the program again.
Fairness == WF_vars(ReadLine) /\ WF_vars(StopReading) /\ WF_vars(LoadLine) /\ WF_vars(StopLoad)

FairSpec == Spec /\ Fairness

-----------------------------------------------------------------------------
Line == [addr : Nat, num : Nat, len : Nat, text : Texts]

TypeOK ==
  /\ lines \subseteq Line
  /\ IsFiniteSet(lines)
  /\ buffer \in Nat
  /\ currentLine \in Nat
  /\ nextLow \in Nat
  /\ mode \in Readers \cup {"idle", "load", "undefined"}
  /\ out \in Seq([num : Nat, text : Texts])
  /\ file \in Seq(Texts)
  /\ rest \in Seq(Texts)
  /\ number \in Nat
  /\ reply \in {"OK", "no line", "out of edit buffer space", "error"}

\* Every record has the length its text needs and lies in the buffer.
InBuffer ==
  /\ buffer <= BufferTop
  /\ \A l \in lines : /\ l.len = LineLength(l.text)
                      /\ buffer <= l.addr
                      /\ l.addr + l.len <= BufferTop

\* Two records never overlap, and they lie in the order of their numbers.
Ordered ==
  \A l, m \in lines :
    \/ l = m
    \/ l.addr + l.len <= m.addr /\ l.num < m.num
    \/ m.addr + m.len <= l.addr /\ m.num < l.num

\* No gap: the walk from `buffer' by record lengths meets every record and
\* ends at BufferTop.
IsBoundary(a) == a = BufferTop \/ \E l \in lines : l.addr = a

Packed ==
  /\ IsBoundary(buffer)
  /\ \A l \in lines : IsBoundary(l.addr + l.len)

\* FindLineN, BufGetLine and DoRenum walk the buffer by adding lengths: that
\* is right only while the records tile it in the order of their numbers,
\* whatever lines were inserted, replaced by longer or shorter ones, deleted.
Layout == InBuffer /\ Ordered /\ Packed

\* A loop over the lines never reads from inside a record or from one that
\* has moved: the cursor is always on a boundary while a loop runs.
CursorOnLine == mode \in Readers => IsBoundary(currentLine)

\* Neither typing nor LOAD nor RENUM, after any compilations, puts a line on
\* memory that the last compilation took: BufAddLineN's check against
\* sys->nextLow.  Of the generator's own stores this says nothing: one that
\* passes the top of the heap leads to "undefined" (see CodeBelowHeapTop).
HeapBelowBuffer ==
  /\ FreeSpace <= nextLow
  /\ mode # "undefined" => nextLow <= buffer

\* What the test in putcbyte, "if (sys->nextLow >= sys->nextHigh)
\* GenerateFatal(c, "bytecode buffer overflow")", says of the program: code is
\* stored below the contexts only, and a compilation that would pass them
\* ends.  The code does not keep it.
CodeBelowHeapTop == [][mode = "compile" => nextLow' + ContextSize <= buffer]_vars

\* LIST, SAVE and the compiler get every line once, in increasing order:
\* what has been read comes first, what has not lies from the cursor on.
ReadInOrder ==
  mode \in Readers =>
    /\ \A i, j \in DOMAIN out : i < j => out[i].num < out[j].num
    /\ {out[i] : i \in DOMAIN out} =
         {[num |-> l.num, text |-> l.text] : l \in {m \in lines : m.addr < currentLine}}

\* LOAD puts the i-th line of the file at number 100 + 10*(i-1) or drops it,
\* and every line in the buffer is a line of the file at its place.
LoadPlacesLines ==
  mode = "load" =>
    \A l \in lines : \E i \in 1..(Len(file) - Len(rest)) :
      /\ l.num = FirstNumber + Increment * (i - 1)
      /\ l.text = file[i]

\* The editor implements ProgramText: whatever slides where in memory, a
\* command changes the entries it names and no other; only a compilation
\* whose memory runs out where nothing checks it may lose the program.
Program == [n \in {l.num : l \in lines} |-> (CHOOSE l \in lines : l.num = n).text]

Unread == IF mode \in Readers
          THEN {l.num : l \in {m \in lines : m.addr >= currentLine}}
          ELSE {}

Abstract == INSTANCE ProgramText WITH program <- Program, pending <- Unread

ImplementsProgramText == Abstract!Spec

\* A LIST, SAVE, LOAD or compilation, once started, comes to an end, or to
\* where its behaviour is undefined: no record length ever lets the walk stand
\* still.
LoopsEnd == mode # "idle" ~> mode \in {"idle", "undefined"}

=============================================================================
