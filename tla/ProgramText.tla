---------------------------- MODULE ProgramText ----------------------------
(***************************************************************************)
(* What the line editor promises its user: a program is a map from line    *)
(* numbers to texts.  Typing a numbered line sets or removes one entry,    *)
(* LIST, SAVE and the compiler read the entries in the order of their      *)
(* numbers, LOAD replaces the map by the lines of a file, RENUM keeps the  *)
(* order and changes the numbers.  A compilation may lose the program, by  *)
(* leaving the editor in a state that nothing is promised of; the file on  *)
(* disk is then still there.  Nothing here says how lines are stored;      *)
(* module EditBuffer implements it with packed records in the workspace.   *)
(***************************************************************************)
EXTENDS Integers, Sequences, FiniteSets

CONSTANTS Numbers,      \* the line numbers a user types
          Texts,        \* the texts a line can hold
          Files         \* what the file on disk may hold when the editor starts

FirstNumber == 100      \* number LOAD and RENUM give to the first line
Increment   == 10       \* and the distance to the next one

Readers == {"list", "save", "compile"}

VARIABLES program,      \* line number -> text, for the lines of the program
          mode,         \* "idle", the command whose loop is under way, "undefined"
          pending,      \* numbers of the lines the loop has still to read
          out,          \* the lines that loop has read, in order
          file,         \* the texts in the file on disk
          rest,         \* LOAD: the lines of the file not read yet
          number,       \* LOAD: the number of the next line
          reply         \* the editor's answer to the last command

vars == <<program, mode, pending, out, file, rest, number, reply>>

Empty == [n \in {} |-> "none"]

\* The number RENUM gives to line n: its position in the program decides.
Renumbered(n) ==
  FirstNumber + Increment * Cardinality({m \in DOMAIN program : m < n})

Init ==
  /\ program = Empty
  /\ mode = "idle"
  /\ pending = {}
  /\ out = <<>>
  /\ file \in Files
  /\ rest = <<>>
  /\ number = FirstNumber
  /\ reply = "OK"

Set(n, t) ==
  program' = [m \in DOMAIN program \cup {n} |-> IF m = n THEN t ELSE program[m]]

\* The user types a line number and a text; the editor may be out of space.
EnterLine(n, t) ==
  /\ mode = "idle"
  /\ \/ Set(n, t) /\ reply' = "OK"
     \/ UNCHANGED program /\ reply' = "out of edit buffer space"
  /\ UNCHANGED <<mode, pending, out, file, rest, number>>

\* The user types a line number alone.
DeleteLine(n) ==
  /\ mode = "idle"
  /\ program' = [m \in DOMAIN program \ {n} |-> program[m]]
  /\ reply' = IF n \in DOMAIN program THEN "OK" ELSE "no line"
  /\ UNCHANGED <<mode, pending, out, file, rest, number>>

New ==
  /\ mode = "idle"
  /\ program' = Empty
  /\ reply' = "OK"
  /\ UNCHANGED <<mode, pending, out, file, rest, number>>

Renum ==
  /\ mode = "idle"
  /\ program' = [k \in {Renumbered(n) : n \in DOMAIN program} |->
                   program[CHOOSE n \in DOMAIN program : Renumbered(n) = k]]
  /\ reply' = "OK"
  /\ UNCHANGED <<mode, pending, out, file, rest, number>>

\* A command that reads the program starts with every line still to read;
\* SAVE has just truncated its file.
StartReading(cmd) ==
  /\ mode = "idle"
  /\ mode' = cmd
  /\ pending' = DOMAIN program
  /\ file' = IF cmd = "save" THEN <<>> ELSE file
  /\ reply' = "OK"
  /\ UNCHANGED <<program, out, rest, number>>

\* The reader takes the line with the smallest number it has not read.
ReadLine ==
  /\ mode \in Readers
  /\ \E n \in pending :
       /\ \A m \in pending : n <= m
       /\ pending' = pending \ {n}
       /\ out' = Append(out, [num |-> n, text |-> program[n]])
       /\ file' = IF mode = "save" THEN Append(file, program[n]) ELSE file
  /\ UNCHANGED <<program, mode, rest, number, reply>>

\* The loop ends when nothing is left; only a compilation may end before.
StopReading ==
  /\ mode \in Readers
  /\ mode = "compile" \/ pending = {}
  /\ mode' = "idle"
  /\ pending' = {}
  /\ out' = <<>>
  /\ UNCHANGED <<program, file, rest, number, reply>>

\* A compilation without the memory it needs, at its start or later.
LoseProgram ==
  /\ mode \in {"idle", "compile"}
  /\ mode' = "undefined"
  /\ program' = Empty
  /\ pending' = {}
  /\ out' = <<>>
  /\ UNCHANGED <<file, rest, number, reply>>

\* The editor is started again.
Restart ==
  /\ mode = "undefined"
  /\ mode' = "idle"
  /\ program' = Empty
  /\ pending' = {}
  /\ out' = <<>>
  /\ rest' = <<>>
  /\ number' = FirstNumber
  /\ reply' = "OK"
  /\ UNCHANGED file

StartLoad ==
  /\ mode = "idle"
  /\ mode' = "load"
  /\ program' = Empty
  /\ rest' = file
  /\ number' = FirstNumber
  /\ reply' = "OK"
  /\ UNCHANGED <<pending, out, file>>

\* LOAD adds the next line of the file, or drops it when there is no room.
LoadLine ==
  /\ mode = "load"
  /\ rest # <<>>
  /\ Set(number, Head(rest)) \/ UNCHANGED program
  /\ rest' = Tail(rest)
  /\ number' = number + Increment
  /\ UNCHANGED <<mode, pending, out, file, reply>>

StopLoad ==
  /\ mode = "load"
  /\ rest = <<>>
  /\ mode' = "idle"
  /\ number' = FirstNumber
  /\ UNCHANGED <<program, pending, out, file, rest, reply>>

\* LOAD or SAVE of a file that cannot be opened.
OpenFails ==
  /\ mode = "idle"
  /\ reply' = "error"
  /\ UNCHANGED <<program, mode, pending, out, file, rest, number>>

Next ==
  \/ \E n \in Numbers, t \in Texts : EnterLine(n, t)
  \/ \E n \in Numbers : DeleteLine(n)
  \/ New
  \/ Renum
  \/ \E cmd \in Readers : StartReading(cmd)
  \/ ReadLine
  \/ StopReading
  \/ LoseProgram
  \/ Restart
  \/ StartLoad
  \/ LoadLine
  \/ StopLoad
  \/ OpenFails

Spec == Init /\ [][Next]_vars
=============================================================================
