--------------------------- MODULE Session_proofs ---------------------------
(***************************************************************************)
(* For every set of programs and include files, every amount of memory and *)
(* every limit on open files: the prompt reads the terminal.  The property *)
(* is not inductive: what Restore puts back is the global getLine, and     *)
(* that is right because compileProgram runs only with the terminal as the *)
(* source and because no jump from before Compile's setjmp comes back.     *)
(***************************************************************************)
EXTENDS Session, TLAPS

Phases == {"prompt", "init", "compile", "use", "executing", "restore", "undefined"}

\* Which source is in place in which phase, and when the saved one is right.
Saved ==
  /\ phase \in Phases
  /\ phase \in {"prompt", "init"} => source = "terminal"
  /\ phase \in {"compile", "use"} => sys_line
  /\ phase = "executing" /\ command # "RUN" => source = "terminal"
  /\ phase = "executing" /\ command = "RUN" => sys_line
  /\ sys_line /\ phase # "undefined" => getLine = "terminal"
  /\ phase # "undefined" => (errorTarget = "live" <=> phase = "compile")

LEMMA InitSaved == Init => Saved
BY DEF Init, Saved, Phases

\* The steps that touch none of what Saved speaks of.
LEMMA SameSaved ==
  ASSUME Saved, UNCHANGED <<sourceVars, phase, errorTarget>>,
         command' = command \/ phase # "executing"
  PROVE  Saved'
BY DEF Saved, Phases, sourceVars

\* A command that starts: at the prompt the target is not live.
LEMMA StartSaved ==
  ASSUME Saved, NEW cmd, NEW next \in {"init", "restore", "prompt", "executing", "undefined"},
         Start(cmd, next), next = "executing" => cmd = "RUNBIN", UNCHANGED <<sourceVars, errorTarget>>
  PROVE  Saved'
BY DEF Saved, Phases, Start, sourceVars

\* A jump out of a compilation, whose target is live.
LEMMA JumpSaved ==
  ASSUME Saved, phase = "compile", OutOfMemory, UNCHANGED sourceVars
  PROVE  Saved'
BY DEF Saved, Phases, OutOfMemory, Jump, sourceVars

\* The end of a command's work: on to Restore, or to nobody knows where.
LEMMA UseSaved ==
  ASSUME Saved, phase = "use", phase' \in {"executing", "restore", "undefined"},
         phase' = "executing" => command = "RUN",
         UNCHANGED <<sourceVars, errorTarget, command>>
  PROVE  Saved'
BY DEF Saved, Phases, sourceVars

LEMMA CommandsSaved == Saved /\ Commands => Saved'
<1> SUFFICES ASSUME Saved, Commands PROVE Saved'
  OBVIOUS
<1>1. CASE \E p \in Programs : Edit(p)
  BY <1>1, SameSaved DEF Edit
<1>2. CASE \E cmd \in {"RUN", "DUMP"} : DoRunOrDump(cmd)
  BY <1>2, StartSaved DEF DoRunOrDump
<1>3. CASE DoSaveBin
  BY <1>3, StartSaved DEF DoSaveBin
<1>4. CASE DoRunBin
  <2>1. CASE Start("RUNBIN", "prompt") /\ UNCHANGED <<sourceVars, errorTarget>>
    BY <2>1, StartSaved
  <2>2. CASE Start("RUNBIN", "undefined") /\ UNCHANGED <<sourceVars, errorTarget>>
    BY <2>2, StartSaved
  <2>3. CASE phase = "prompt" /\ UNCHANGED <<sourceVars, phase, errorTarget>>
    BY <2>3, SameSaved
  <2>4. CASE Start("RUNBIN", "executing") /\ UNCHANGED <<sourceVars, errorTarget>>
    BY <2>4, StartSaved
  <2> QED
    BY <1>4, <2>1, <2>2, <2>3, <2>4 DEF DoRunBin
<1> QED
  BY <1>1, <1>2, <1>3, <1>4 DEF Commands

LEMMA CompilingSaved == Saved /\ Compiling => Saved'
<1> SUFFICES ASSUME Saved, Compiling PROVE Saved'
  OBVIOUS
<1>1. CASE CompileProgram
  BY <1>1 DEF CompileProgram, Saved, Phases, Jump
<1>2. CASE ParseStatement
  <2>1. CASE used < Room
    BY <1>2, <2>1, SameSaved DEF ParseStatement
  <2>2. CASE ~(used < Room)
    BY <1>2, <2>2, JumpSaved DEF ParseStatement, Parsing
  <2> QED
    BY <2>1, <2>2
<1>3. CASE ParseError
  BY <1>3, JumpSaved DEF ParseError, Parsing, OutOfMemory
<1>4. CASE IncludeAgain
  BY <1>4, SameSaved DEF IncludeAgain
<1>5. ASSUME NEW f \in FileNames, PushFile(f) PROVE Saved'
  BY <1>5, SameSaved DEF PushFile
<1>6. ASSUME NEW f \in FileNames, PushFileFails(f) PROVE Saved'
  BY <1>6, JumpSaved DEF PushFileFails, Parsing, OutOfMemory
<1>7. CASE PopFile
  BY <1>7, SameSaved DEF PopFile
<1>8. CASE CompileEnds
  <2>1. CASE OutOfMemory
    BY <1>8, <2>1, JumpSaved DEF CompileEnds
  <2>2. CASE errorTarget' = "dead" /\ phase' = "use"
    BY <1>8, <2>2 DEF CompileEnds, Saved, Phases, sourceVars
  <2> QED
    BY <1>8, <2>1, <2>2 DEF CompileEnds
<1>9. CASE Use \/ Write \/ UseGarbage
  BY <1>9, UseSaved DEF Use, Write, UseGarbage
<1>10. CASE Restore
  BY <1>10 DEF Restore, Saved, Phases
<1> QED
  BY <1>1, <1>2, <1>3, <1>4, <1>5, <1>6, <1>7, <1>8, <1>9, <1>10 DEF Compiling

LEMMA HaltSaved == Saved /\ Halt => Saved'
BY DEF Halt, Saved, Phases, sourceVars

LEMMA NextSaved == Saved /\ [Next]_vars => Saved'
<1> SUFFICES ASSUME Saved, [Next]_vars PROVE Saved'
  OBVIOUS
<1>1. CASE Next
  BY <1>1, CommandsSaved, CompilingSaved, HaltSaved DEF Next
<1>2. CASE UNCHANGED vars
  BY <1>2, SameSaved DEF vars
<1> QED
  BY <1>1, <1>2

\* The source of lines at the prompt: whatever a command compiles, and however
\* it ends, compileProgram's and the commands' calls of system_set_main_source
\* leave the terminal in place.
THEOREM PromptSafe == Spec => []PromptReadsTerminal
<1>1. Saved => PromptReadsTerminal
  BY DEF Saved, PromptReadsTerminal
<1> QED
  BY InitSaved, NextSaved, <1>1, PTL DEF Spec

-----------------------------------------------------------------------------
(***************************************************************************)
(* The open files.  The sum in FilesAccounted is kept by every step that   *)
(* does not fail; what the proof needs besides is that the stack of files  *)
(* is a sequence and that a compilation is some command's.                 *)
(***************************************************************************)
OpenFile == [name : DOMAIN Disk, at : Int]

Stacked ==
  /\ handles \in Int
  /\ files \in Seq(OpenFile)
  /\ FilesAccounted

LEMMA InitStacked == Init => Stacked
BY DEF Init, Stacked, FilesAccounted

LEMMA SameStacked ==
  ASSUME Stacked, failed' = failed, UNCHANGED <<handles, files, phase, command>>
  PROVE  Stacked'
BY DEF Stacked, FilesAccounted

\* Once something has failed, nothing is claimed.
LEMMA FailedStacked ==
  ASSUME Stacked, failed' # "no", handles' \in Int, UNCHANGED files
  PROVE  Stacked'
BY DEF Stacked, FilesAccounted

LEMMA StartStacked ==
  ASSUME Stacked, NEW cmd, NEW next, Start(cmd, next), UNCHANGED files,
         \/ handles' = handles /\ (cmd # "SAVEBIN" \/ next # "init") /\ next # "compile" /\ next # "use"
         \/ handles' = handles + 1 /\ cmd = "SAVEBIN" /\ next = "init"
  PROVE  Stacked'
<1>1. phase = "prompt" /\ phase' = next /\ command' = cmd /\ (failed' = "no" => failed = "no")
  BY DEF Start
<1>2. failed = "no" => handles = 0
  BY <1>1 DEF Stacked, FilesAccounted
<1>3. CASE handles' = handles /\ (cmd # "SAVEBIN" \/ next # "init") /\ next # "compile" /\ next # "use"
  BY <1>1, <1>2, <1>3 DEF Stacked, FilesAccounted
<1>4. CASE handles' = handles + 1 /\ cmd = "SAVEBIN" /\ next = "init"
  BY <1>1, <1>2, <1>4 DEF Stacked, FilesAccounted
<1> QED
  BY <1>3, <1>4

LEMMA CommandsStacked == Stacked /\ Commands => Stacked'
<1> SUFFICES ASSUME Stacked, Commands PROVE Stacked'
  OBVIOUS
<1>1. CASE \E p \in Programs : Edit(p)
  BY <1>1, SameStacked DEF Edit, compileVars
<1>2. CASE \E cmd \in {"RUN", "DUMP"} : DoRunOrDump(cmd)
  BY <1>2, StartStacked DEF DoRunOrDump, compileVars
<1>3. CASE DoSaveBin
  BY <1>3, StartStacked DEF DoSaveBin, compileVars
<1>4. CASE DoRunBin
  <2>1. ASSUME NEW next \in {"prompt", "executing", "undefined"}, Start("RUNBIN", next),
               UNCHANGED <<compileVars, handles>>
        PROVE  Stacked'
    BY <2>1, StartStacked DEF compileVars
  <2>2. ASSUME failed' = "now", handles' = handles + 1, UNCHANGED compileVars
        PROVE  Stacked'
    <3>1. handles' \in Int
      BY <2>2 DEF Stacked
    <3> QED
      BY <2>2, <3>1, FailedStacked DEF compileVars
  <2> QED
    BY <1>4, <2>1, <2>2 DEF DoRunBin
<1> QED
  BY <1>1, <1>2, <1>3, <1>4 DEF Commands

\* A step in the topmost file leaves a stack of the same height.
LEMMA TopForward ==
  ASSUME files \in Seq(OpenFile), files # <<>>
  PROVE  LET moved == [files EXCEPT ![Len(files)].at = @ + 1]
         IN moved \in Seq(OpenFile) /\ Len(moved) = Len(files)
<1> DEFINE n == Len(files)
<1>1. n \in 1..n /\ n \in Nat
  OBVIOUS
<1>2. files[n] \in OpenFile
  BY <1>1
<1>3. [files[n] EXCEPT !.at = @ + 1] \in OpenFile
  BY <1>2 DEF OpenFile
<1>4. [files EXCEPT ![n] = [files[n] EXCEPT !.at = @ + 1]] \in Seq(OpenFile)
  BY <1>1, <1>3
<1>5. Len([files EXCEPT ![n] = [files[n] EXCEPT !.at = @ + 1]]) = n
  BY <1>1, <1>3
<1> QED
  BY <1>4, <1>5

LEMMA AdvanceFiles ==
  ASSUME Stacked, Advance
  PROVE  files' \in Seq(OpenFile) /\ Len(files') = Len(files)
BY TopForward DEF Stacked, Advance

\* The line counter of the topmost file is no part of the sum.
LEMMA AdvanceStacked ==
  ASSUME Stacked, Advance, failed' = failed, UNCHANGED <<handles, phase, command>>
  PROVE  Stacked'
<1>1. files' \in Seq(OpenFile) /\ Len(files') = Len(files)
  BY AdvanceFiles
<1> QED
  BY <1>1 DEF Stacked, FilesAccounted

LEMMA PushStacked ==
  ASSUME Stacked, NEW f, PushFile(f)
  PROVE  Stacked'
<1> DEFINE below == IF files = <<>> THEN files ELSE [files EXCEPT ![Len(files)].at = @ + 1]
           pushed == [name |-> f, at |-> 1]
<1>1. below \in Seq(OpenFile) /\ Len(below) = Len(files)
  BY TopForward DEF Stacked
<1>2. files' = below \o <<pushed>> /\ pushed \in OpenFile
  BY DEF PushFile, OpenFile
<1>3. files' \in Seq(OpenFile) /\ Len(files') = Len(files) + 1
  <2> HIDE DEF below, pushed
  <2> QED
    BY <1>1, <1>2
<1>4. phase = "compile" /\ handles' = handles + 1 /\ UNCHANGED <<phase, command, failed>>
  BY DEF PushFile, Parsing
<1> QED
  BY <1>3, <1>4 DEF Stacked, FilesAccounted

\* Closing the topmost file takes one from the stack.
LEMMA Shorter ==
  ASSUME NEW S, NEW s, NEW n \in Int, \A i \in 1..n : s[i] \in S, 0 <= n
  PROVE  SubSeq(s, 1, n) \in Seq(S) /\ Len(SubSeq(s, 1, n)) = n
OBVIOUS

LEMMA FrontOfFiles ==
  ASSUME NEW S, NEW s \in Seq(S), s # <<>>
  PROVE  SubSeq(s, 1, Len(s) - 1) \in Seq(S) /\ Len(SubSeq(s, 1, Len(s) - 1)) = Len(s) - 1
<1> DEFINE n == Len(s) - 1
<1>1. n \in Int /\ 0 <= n /\ \A i \in 1..n : s[i] \in S
  OBVIOUS
<1>2. SubSeq(s, 1, n) \in Seq(S) /\ Len(SubSeq(s, 1, n)) = n
  <2> HIDE DEF n
  <2> QED
    BY <1>1, Shorter
<1> QED
  BY <1>2

LEMMA PopStacked ==
  ASSUME Stacked, PopFile
  PROVE  Stacked'
<1>1. files' \in Seq(OpenFile) /\ Len(files') = Len(files) - 1
  <2>1. files \in Seq(OpenFile) /\ files # <<>> /\ files' = SubSeq(files, 1, Len(files) - 1)
    BY DEF Stacked, PopFile, Front
  <2> QED
    BY <2>1, FrontOfFiles
<1>2. phase = "compile" /\ handles' = handles - 1 /\ UNCHANGED <<phase, command, failed>>
  BY DEF PopFile
<1> QED
  BY <1>1, <1>2 DEF Stacked, FilesAccounted

LEMMA CompilingStacked == Stacked /\ Compiling => Stacked'
<1> SUFFICES ASSUME Stacked, Compiling PROVE Stacked'
  OBVIOUS
<1>1. CASE CompileProgram
  <2>1. CASE Room < ContextSize
    BY <1>1, <2>1, FailedStacked DEF CompileProgram, Jump, compileVars, Stacked
  <2>2. CASE ~(Room < ContextSize)
    <3>1. files' = <<>> /\ phase = "init" /\ phase' = "compile"
      BY <1>1, <2>2 DEF CompileProgram
    <3>2. UNCHANGED <<handles, command, failed>>
      BY <1>1, <2>2 DEF CompileProgram
    <3> QED
      BY <3>1, <3>2 DEF Stacked, FilesAccounted
  <2> QED
    BY <2>1, <2>2
<1>2. CASE ParseStatement
  <2>1. CASE used < Room
    BY <1>2, <2>1, AdvanceStacked DEF ParseStatement
  <2>2. CASE ~(used < Room)
    <3>1. files' \in Seq(OpenFile)
      BY <1>2, AdvanceFiles DEF ParseStatement
    <3>2. failed' = "now" \/ phase' = "undefined"
      BY <1>2, <2>2 DEF ParseStatement, OutOfMemory, Jump
    <3>3. UNCHANGED handles
      BY <1>2, <2>2 DEF ParseStatement
    <3> QED
      BY <3>1, <3>2, <3>3 DEF Stacked, FilesAccounted
  <2> QED
    BY <2>1, <2>2
<1>3. CASE ParseError
  BY <1>3, FailedStacked DEF ParseError, Jump, compileVars, Stacked
<1>4. CASE IncludeAgain
  BY <1>4, AdvanceStacked DEF IncludeAgain
<1>5. ASSUME NEW f \in FileNames, PushFile(f) PROVE Stacked'
  BY <1>5, PushStacked
<1>6. ASSUME NEW f \in FileNames, PushFileFails(f) PROVE Stacked'
  <2>1. handles' \in Int
    BY <1>6 DEF PushFileFails, Stacked
  <2> QED
    BY <1>6, <2>1, FailedStacked DEF PushFileFails, Jump, compileVars
<1>7. CASE PopFile
  BY <1>7, PopStacked
<1>8. CASE CompileEnds
  BY <1>8 DEF CompileEnds, OutOfMemory, Jump, Stacked, FilesAccounted, compileVars
<1>9. CASE Use \/ UseGarbage
  BY <1>9 DEF Use, UseGarbage, Stacked, FilesAccounted, compileVars
<1>10. CASE Write
  BY <1>10 DEF Write, Stacked, FilesAccounted, compileVars
<1>11. CASE Restore
  BY <1>11 DEF Restore, Stacked, FilesAccounted, compileVars
<1> QED
  BY <1>1, <1>2, <1>3, <1>4, <1>5, <1>6, <1>7, <1>8, <1>9, <1>10, <1>11 DEF Compiling

LEMMA HaltStacked == Stacked /\ Halt => Stacked'
BY DEF Halt, Stacked, FilesAccounted, compileVars

LEMMA NextStacked == Stacked /\ [Next]_vars => Stacked'
<1> SUFFICES ASSUME Stacked, [Next]_vars PROVE Stacked'
  OBVIOUS
<1>1. CASE Next
  BY <1>1, CommandsStacked, CompilingStacked, HaltStacked DEF Next
<1>2. CASE UNCHANGED vars
  BY <1>2, SameStacked DEF vars, compileVars
<1> QED
  BY <1>1, <1>2

\* PushFile, ParseGetLine and DoSaveBin close what they open, as long as
\* nothing has failed.
THEOREM FilesSafe == Spec => []FilesAccounted
<1>1. Stacked => FilesAccounted
  BY DEF Stacked
<1> QED
  BY InitStacked, NextStacked, <1>1, PTL DEF Spec

-----------------------------------------------------------------------------
(***************************************************************************)
(* Types and bounds.  That the counter of open files never becomes         *)
(* negative needs a bound that failures keep as well: at least the files   *)
(* on the stack, and SAVEBIN's own, are open.  That includedFiles stops    *)
(* files that include each other needs that it holds the stack.            *)
(***************************************************************************)
Owned == (IF phase = "compile" THEN Len(files) ELSE 0)
         + (IF command = "SAVEBIN" /\ phase \in {"init", "compile", "use"} THEN 1 ELSE 0)

NoneClosedTwice == handles >= Owned

NoFileTwice ==
  /\ \A i \in DOMAIN files : files[i].name \in includedFiles
  /\ \A i, j \in DOMAIN files : files[i].name = files[j].name => i = j

AtInFile(o) == o.at \in 1..(Len(Disk[o.name]) + 1)

OnStack == [name : includedFiles, at : Nat]

Stack ==
  /\ files \in Seq(OnStack)
  /\ \A i \in DOMAIN files : AtInFile(files[i])
  /\ \A i, j \in DOMAIN files : files[i].name = files[j].name => i = j
  /\ includedFiles \subseteq DOMAIN Disk

Flags ==
  /\ {source, getLine} \subseteq {"terminal", "edit", "null"}
  /\ sys_line \in BOOLEAN
  /\ errorTarget \in {"unset", "live", "dead"}
  /\ phase \in Phases
  /\ command \in {"none", "RUN", "DUMP", "SAVEBIN", "RUNBIN"}
  /\ failed \in {"no", "before", "now"}

Images ==
  /\ program \in Programs
  /\ generated \in Programs \cup {Unknown}
  /\ binary \in Programs \cup {Unknown}

Counters ==
  /\ position \in 1..(Workspace + 1)
  /\ used \in 0..(Workspace + ContextSize)
  /\ handles \in 0..MaxFiles

Bounded == Flags /\ Images /\ Counters /\ Stack /\ NoneClosedTwice

LEMMA BoundedTypeOK == Bounded => TypeOK /\ NoFileTwice
<1> SUFFICES ASSUME Bounded PROVE TypeOK /\ NoFileTwice
  OBVIOUS
<1>1. NoFileTwice
  <2>1. \A i \in DOMAIN files : files[i] \in OnStack
    BY DEF Bounded, Stack
  <2> QED BY <2>1 DEF Bounded, Stack, NoFileTwice, OnStack
<1>2. TypeOK
  BY DEF Bounded, Flags, Images, Counters, Stack, TypeOK, AtInFile, Phases
<1> QED BY <1>1, <1>2

LEMMA ProgramFacts ==
  ASSUME program \in Programs
  PROVE  /\ program \in Seq(STRING) /\ Len(program) \in Nat /\ Len(program) <= Workspace
         /\ Room \in Int /\ Room <= Workspace
<1>1. program \in Seq(STRING) /\ Len(program) <= Workspace /\ Workspace \in Nat
  BY SourceAssumption, LimitAssumption
<1>2. Len(program) \in Nat
  BY <1>1
<1> QED BY <1>1, <1>2 DEF Room

LEMMA InitBounded == Init => Bounded
<1> SUFFICES ASSUME Init PROVE Bounded
  OBVIOUS
<1>1. Stack
  BY DEF Init, Stack
<1>2. Counters
  BY LimitAssumption DEF Init, Counters
<1>3. NoneClosedTwice
  BY DEF Init, NoneClosedTwice, Owned
<1>4. Flags /\ Images
  BY DEF Init, Flags, Images, Phases
<1> QED BY <1>1, <1>2, <1>3, <1>4 DEF Bounded

(***************************************************************************)
(* Leaving the phase of a compilation, nothing more has to be open.        *)
(***************************************************************************)
LEMMA OwnedLess ==
  ASSUME NoneClosedTwice, Len(files) \in Nat, handles \in Nat, handles' \in Int,
         handles' >= handles, command' = command, phase \in Phases,
         \/ phase' \in {"prompt", "executing", "restore", "undefined"}
         \/ phase' = "use" /\ phase \in {"init", "compile"}
  PROVE  NoneClosedTwice'
<1> DEFINE own == command = "SAVEBIN" /\ phase \in {"init", "compile", "use"}
<1>1. own => handles >= 1
  <2>1. CASE phase = "compile"
    BY <2>1 DEF NoneClosedTwice, Owned
  <2>2. CASE phase # "compile"
    BY <2>2 DEF NoneClosedTwice, Owned
  <2> QED BY <2>1, <2>2
<1>2. CASE phase' \in {"prompt", "executing", "restore", "undefined"}
  <2>1. Owned' = 0
    <3>1. phase' # "compile" /\ phase' \notin {"init", "compile", "use"}
      BY <1>2
    <3>2. Owned' = 0 + 0
      BY <3>1 DEF Owned
    <3> QED BY <3>2
  <2> QED BY <2>1 DEF NoneClosedTwice
<1>3. CASE phase' = "use" /\ phase \in {"init", "compile"}
  <2>1. Owned' = IF command = "SAVEBIN" THEN 1 ELSE 0
    BY <1>3 DEF Owned
  <2> QED BY <1>1, <1>3, <2>1 DEF NoneClosedTwice
<1> QED BY <1>2, <1>3

\* A step that leaves the compilation alone.
LEMMA SameStack ==
  ASSUME Stack, UNCHANGED <<files, includedFiles>>
  PROVE  Stack'
BY DEF Stack, AtInFile, OnStack

LEMMA CommandsBounded == Bounded /\ Commands => Bounded'
<1> SUFFICES ASSUME Bounded, Commands PROVE Bounded'
  OBVIOUS
<1>0. Flags /\ Images /\ Counters /\ Stack /\ NoneClosedTwice /\ handles \in Nat /\ MaxFiles \in Nat
  BY LimitAssumption DEF Bounded, Counters
<1>1. phase = "prompt"
  BY DEF Commands, Edit, DoRunOrDump, DoSaveBin, DoRunBin, Start
<1>2. UNCHANGED compileVars
  BY DEF Commands, Edit, DoRunOrDump, DoSaveBin, DoRunBin
<1>3. Stack'
  BY <1>0, <1>2, SameStack DEF compileVars
<1>4. \/ handles' = handles
      \/ handles < MaxFiles /\ handles' = handles + 1
  <2>1. ASSUME NEW p \in Programs, Edit(p) PROVE handles' = handles
    BY <2>1 DEF Edit
  <2>2. ASSUME NEW cmd, DoRunOrDump(cmd) PROVE handles' = handles
    BY <2>2 DEF DoRunOrDump
  <2> QED BY <2>1, <2>2 DEF Commands, DoSaveBin, DoRunBin
<1>5. Counters'
  BY <1>0, <1>2, <1>4 DEF Counters, compileVars
<1>6. phase' # "compile"
      /\ (command' = "SAVEBIN" /\ phase' \in {"init", "compile", "use"} => handles' = handles + 1)
  BY <1>1 DEF Commands, Edit, DoRunOrDump, DoSaveBin, DoRunBin, Start
<1>7. NoneClosedTwice'
  BY <1>0, <1>4, <1>6 DEF NoneClosedTwice, Owned
<1>8. Flags'
  BY <1>0 DEF Flags, Phases, Commands, Edit, DoRunOrDump, DoSaveBin, DoRunBin, Start, sourceVars
<1>9. Images'
  BY <1>0 DEF Images, Commands, Edit, DoRunOrDump, DoSaveBin, DoRunBin, Start
<1> QED BY <1>3, <1>5, <1>7, <1>8, <1>9 DEF Bounded

(***************************************************************************)
(* ParseGetLine's step in the topmost file.                                *)
(***************************************************************************)
\* The topmost file with its line counter moved on.
Moved == [files EXCEPT ![Len(files)].at = @ + 1]

LEMMA MovedStack ==
  ASSUME Stack, files # <<>>, More
  PROVE  /\ Moved \in Seq(OnStack) /\ Len(Moved) = Len(files)
         /\ \A i \in 1..Len(files) : AtInFile(Moved[i]) /\ Moved[i].name = files[i].name
<1> DEFINE n == Len(files)
           top == [files[n] EXCEPT !.at = @ + 1]
<1>1. n \in Nat /\ n \in 1..n /\ files[n] \in OnStack
  BY DEF Stack
<1>2. AtInFile(files[n]) /\ files[n].name \in DOMAIN Disk
  BY <1>1 DEF Stack, OnStack
<1>3. Len(Disk[files[n].name]) \in Nat
  BY <1>2, SourceAssumption
<1>4. files[n].at <= Len(Disk[files[n].name])
  BY DEF More, At, Lines, Top
<1>5. /\ top \in OnStack /\ top.name = files[n].name /\ top.at = files[n].at + 1
  BY <1>1 DEF OnStack
<1>6. AtInFile(top)
  BY <1>1, <1>2, <1>3, <1>4, <1>5 DEF AtInFile
<1>7. Moved = [files EXCEPT ![n] = top]
  BY DEF Moved
<1> HIDE DEF top, n
<1>8. /\ Moved \in Seq(OnStack) /\ Len(Moved) = n
      /\ \A i \in 1..n : Moved[i] = IF i = n THEN top ELSE files[i]
  BY <1>1, <1>5, <1>7 DEF Stack, n
<1>9. \A i \in 1..n : AtInFile(files[i])
  BY DEF Stack, n
<1> QED BY <1>5, <1>6, <1>8, <1>9 DEF n

LEMMA AdvanceBounded ==
  ASSUME Bounded, Advance, Parsing, UNCHANGED includedFiles
  PROVE  Stack' /\ position' \in 1..(Workspace + 1) /\ Len(files') = Len(files)
<1>1. More /\ Stack /\ position \in 1..(Workspace + 1) /\ program \in Programs
  BY DEF Parsing, Bounded, Counters, Images
<1>2. CASE files = <<>>
  <2>1. position <= Len(program)
    BY <1>1, <1>2 DEF More, At, Lines
  <2>2. position' = position + 1 /\ UNCHANGED files
    BY <1>2 DEF Advance
  <2> QED BY <1>1, <2>1, <2>2, ProgramFacts, SameStack, LimitAssumption
<1>3. CASE files # <<>>
  <2>1. files' = Moved /\ position' = position
    BY <1>3 DEF Advance, Moved
  <2>2. /\ files' \in Seq(OnStack) /\ Len(files') = Len(files)
        /\ \A i \in 1..Len(files) : AtInFile(files'[i]) /\ files'[i].name = files[i].name
    BY <1>1, <1>3, <2>1, MovedStack
  <2>3. DOMAIN files = 1..Len(files) /\ DOMAIN files' = 1..Len(files)
    <3>1. files \in Seq(OnStack)
      BY <1>1 DEF Stack
    <3> QED BY <2>2, <3>1
  <2>4. Stack'
    BY <1>1, <2>2, <2>3 DEF Stack, AtInFile, OnStack
  <2> QED BY <1>1, <2>1, <2>2, <2>4
<1> QED BY <1>2, <1>3

(***************************************************************************)
(* PushFile: includedFiles holds the stack, so a file that is not in it is *)
(* not on it.                                                              *)
(***************************************************************************)
LEMMA PushBounded ==
  ASSUME Bounded, NEW f, PushFile(f)
  PROVE  Stack' /\ position' \in 1..(Workspace + 1) /\ Len(files') = Len(files) + 1
<1> DEFINE below  == IF files = <<>> THEN files ELSE Moved
           pushed == [name |-> f, at |-> 1]
           n      == Len(files)
           On     == [name : includedFiles', at : Nat]
<1>1. /\ More /\ Stack /\ position \in 1..(Workspace + 1) /\ program \in Programs
      /\ f \in DOMAIN Disk /\ f \notin includedFiles
      /\ includedFiles' = includedFiles \cup {f}
      /\ files' = below \o <<pushed>>
      /\ position' = IF files = <<>> THEN position + 1 ELSE position
  BY DEF PushFile, Parsing, Bounded, Counters, Images, Moved
<1>2. /\ below \in Seq(OnStack) /\ Len(below) = n /\ n \in Nat
      /\ \A i \in 1..n : AtInFile(below[i]) /\ below[i].name = files[i].name
                         /\ files[i].name \in includedFiles
  <2>1. files \in Seq(OnStack)
    BY <1>1 DEF Stack
  <2>2. \A i \in 1..n : files[i].name \in includedFiles /\ AtInFile(files[i])
    <3> TAKE i \in 1..n
    <3>1. i \in DOMAIN files /\ files[i] \in OnStack
      BY <2>1
    <3> QED BY <1>1, <3>1 DEF Stack, OnStack
  <2>3. CASE files = <<>>
    BY <2>1, <2>3
  <2>4. CASE files # <<>>
    BY <1>1, <2>1, <2>2, <2>4, MovedStack
  <2> QED BY <2>3, <2>4
<1>3. position' \in 1..(Workspace + 1)
  <2>1. files = <<>> => position <= Len(program)
    BY <1>1 DEF More, At, Lines
  <2> QED BY <1>1, <2>1, ProgramFacts, LimitAssumption
<1>4. AtInFile(pushed) /\ pushed \in On /\ pushed.name = f
  <2>1. Len(Disk[f]) \in Nat
    BY <1>1, SourceAssumption
  <2> QED BY <1>1, <2>1 DEF AtInFile
<1>5. below \in Seq(On)
  <2>1. OnStack \subseteq On
    BY <1>1 DEF OnStack
  <2> HIDE DEF below, On
  <2> QED BY <1>2, <2>1
<1> HIDE DEF below, pushed, On
<1>6. /\ files' \in Seq(On) /\ Len(files') = n + 1
      /\ files'[n + 1] = pushed
      /\ \A i \in 1..n : files'[i] = below[i]
  BY <1>1, <1>2, <1>4, <1>5
<1>7. DOMAIN files' = 1..(n + 1)
  BY <1>6
<1> HIDE DEF n
<1>8. \A i \in DOMAIN files' : AtInFile(files'[i])
  <2> TAKE i \in DOMAIN files'
  <2>1. i \in 1..n \/ i = n + 1
    BY <1>2, <1>7
  <2> QED BY <1>2, <1>4, <1>6, <2>1
<1>9. \A i, j \in DOMAIN files' : files'[i].name = files'[j].name => i = j
  <2> SUFFICES ASSUME NEW i \in 1..(n + 1), NEW j \in 1..(n + 1),
                      files'[i].name = files'[j].name
               PROVE  i = j
    BY <1>7
  <2>1. (i \in 1..n \/ i = n + 1) /\ (j \in 1..n \/ j = n + 1)
    BY <1>2
  <2>2. \A k \in 1..n : files'[k].name = files[k].name /\ files[k].name # f
    BY <1>1, <1>2, <1>6
  <2>3. \A k, m \in 1..n : files[k].name = files[m].name => k = m
    BY <1>1 DEF Stack, n
  <2>4. files'[n + 1].name = f
    BY <1>4, <1>6
  <2> QED BY <2>1, <2>2, <2>3, <2>4
<1>10. includedFiles' \subseteq DOMAIN Disk
  BY <1>1 DEF Stack
<1>11. Stack'
  BY <1>6, <1>8, <1>9, <1>10 DEF Stack, OnStack, On, AtInFile
<1> QED BY <1>3, <1>6, <1>11 DEF n

LEMMA FrontElements ==
  ASSUME NEW S, NEW s \in Seq(S), s # <<>>
  PROVE  \A i \in 1..(Len(s) - 1) : SubSeq(s, 1, Len(s) - 1)[i] = s[i]
OBVIOUS

LEMMA PopBounded ==
  ASSUME Bounded, PopFile
  PROVE  Stack' /\ Len(files') = Len(files) - 1 /\ Len(files) > 0
<1> DEFINE n == Len(files) - 1
<1>1. Stack /\ files \in Seq(OnStack) /\ files # <<>> /\ includedFiles' = includedFiles
      /\ files' = SubSeq(files, 1, Len(files) - 1)
  BY DEF PopFile, Bounded, Stack, Front
<1>2. n \in Nat /\ Len(files) = n + 1 /\ files' \in Seq(OnStack) /\ Len(files') = n
  BY <1>1, FrontOfFiles
<1>3. \A i \in 1..n : files'[i] = files[i] /\ i \in DOMAIN files
  BY <1>1, FrontElements
<1>4. DOMAIN files' = 1..n
  BY <1>2
<1> HIDE DEF n
<1>5. Stack'
  BY <1>1, <1>2, <1>3, <1>4 DEF Stack, OnStack, AtInFile
<1> QED BY <1>2, <1>5 DEF n

LEMMA CompilingBounded == Bounded /\ Compiling => Bounded'
<1> SUFFICES ASSUME Bounded, Compiling PROVE Bounded'
  OBVIOUS
<1>0. /\ Flags /\ Images /\ Counters /\ Stack /\ NoneClosedTwice
      /\ handles \in 0..MaxFiles /\ handles \in Nat /\ used \in 0..(Workspace + ContextSize)
      /\ Workspace \in Nat /\ ContextSize \in Nat /\ MaxFiles \in Nat
      /\ Room \in Int /\ Room <= Workspace /\ Len(files) \in Nat
  BY ProgramFacts, LimitAssumption DEF Bounded, Counters, Stack, Images
<1>1. CASE CompileProgram
  <2>1. Stack'
    <3>1. CASE Room < ContextSize
      BY <1>0, <1>1, <3>1, SameStack DEF CompileProgram, compileVars
    <3>2. CASE ~(Room < ContextSize)
      <4>1. files' = <<>> /\ includedFiles' = {}
        BY <1>1, <3>2 DEF CompileProgram
      <4> QED BY <4>1 DEF Stack
    <3> QED BY <3>1, <3>2
  <2>2. Counters'
    BY <1>0, <1>1 DEF CompileProgram, Counters, compileVars
  <2>3. Flags'
    BY <1>0, <1>1 DEF CompileProgram, Flags, Phases, Jump
  <2>4. Images'
    BY <1>0, <1>1 DEF CompileProgram, Images
  <2>5. NoneClosedTwice'
    <3>1. phase = "init" /\ handles' = handles /\ command' = command
      BY <1>1 DEF CompileProgram
    <3>2. CASE Room < ContextSize
      <4>1. phase' \in {"use", "undefined"}
        BY <1>1, <3>2 DEF CompileProgram, Jump
      <4> QED BY <1>0, <3>1, <4>1, OwnedLess DEF Phases
    <3>3. CASE ~(Room < ContextSize)
      <4>1. phase' = "compile" /\ files' = <<>> /\ Len(<<>>) = 0
        BY <1>1, <3>3 DEF CompileProgram
      <4>2. Owned' = IF command = "SAVEBIN" THEN 1 ELSE 0
        BY <3>1, <4>1 DEF Owned
      <4>3. command = "SAVEBIN" => handles >= 1
        BY <1>0, <3>1 DEF NoneClosedTwice, Owned
      <4> QED BY <1>0, <3>1, <4>2, <4>3 DEF NoneClosedTwice
    <3> QED BY <3>2, <3>3
  <2> QED BY <2>1, <2>2, <2>3, <2>4, <2>5 DEF Bounded
<1>2. CASE ParseStatement
  <2>1. Stack' /\ position' \in 1..(Workspace + 1) /\ Len(files') = Len(files)
    BY <1>2, AdvanceBounded DEF ParseStatement
  <2>2. Counters'
    BY <1>0, <1>2, <2>1 DEF ParseStatement, Counters
  <2>3. Flags'
    BY <1>0, <1>2 DEF ParseStatement, Flags, Phases, OutOfMemory, Jump, sourceVars
  <2>4. Images'
    BY <1>0, <1>2 DEF ParseStatement, Images
  <2>5. NoneClosedTwice'
    <3>1. phase = "compile" /\ handles' = handles /\ command' = command
          /\ phase' \in {"compile", "use", "undefined"}
      BY <1>2 DEF ParseStatement, Parsing, OutOfMemory, Jump
    <3>2. CASE phase' = "compile"
      BY <1>0, <2>1, <3>1, <3>2 DEF NoneClosedTwice, Owned
    <3>3. CASE phase' # "compile"
      BY <1>0, <3>1, <3>3, OwnedLess DEF Phases
    <3> QED BY <3>2, <3>3
  <2> QED BY <2>1, <2>2, <2>3, <2>4, <2>5 DEF Bounded
<1>3. CASE ParseError
  <2>1. phase = "compile" /\ UNCHANGED <<compileVars, handles, command, program, generated, binary>>
        /\ phase' \in {"use", "undefined"}
    BY <1>3 DEF ParseError, Parsing, Jump
  <2>2. Stack' /\ Counters' /\ Images'
    BY <1>0, <2>1, SameStack DEF compileVars, Counters, Images
  <2>3. Flags'
    BY <1>0, <1>3 DEF ParseError, Flags, Phases, Jump, sourceVars
  <2>4. NoneClosedTwice'
    BY <1>0, <2>1, OwnedLess DEF Phases
  <2> QED BY <2>2, <2>3, <2>4 DEF Bounded
<1>4. CASE IncludeAgain
  <2>1. Stack' /\ position' \in 1..(Workspace + 1) /\ Len(files') = Len(files)
    BY <1>4, AdvanceBounded DEF IncludeAgain
  <2>2. Counters' /\ Images' /\ Flags'
    BY <1>0, <1>4, <2>1 DEF IncludeAgain, Counters, Images, Flags, sourceVars
  <2>3. NoneClosedTwice'
    BY <1>0, <1>4, <2>1 DEF IncludeAgain, NoneClosedTwice, Owned
  <2> QED BY <2>1, <2>2, <2>3 DEF Bounded
<1>5. ASSUME NEW f \in FileNames, PushFile(f) PROVE Bounded'
  <2>1. Stack' /\ position' \in 1..(Workspace + 1) /\ Len(files') = Len(files) + 1
    BY <1>5, PushBounded
  <2>2. /\ phase = "compile" /\ handles < MaxFiles /\ handles' = handles + 1
        /\ used + 2 <= Room /\ used' = used + 2
        /\ UNCHANGED <<program, sourceVars, errorTarget, phase, command, generated, binary, failed>>
    BY <1>5 DEF PushFile, Parsing
  <2>3. Counters' /\ Images' /\ Flags'
    BY <1>0, <2>1, <2>2 DEF Counters, Images, Flags, sourceVars
  <2>4. NoneClosedTwice'
    BY <1>0, <2>1, <2>2 DEF NoneClosedTwice, Owned
  <2> QED BY <2>1, <2>3, <2>4 DEF Bounded
<1>6. ASSUME NEW f \in FileNames, PushFileFails(f) PROVE Bounded'
  <2>1. /\ phase = "compile" /\ phase' \in {"use", "undefined"}
        /\ \/ handles' = handles
           \/ handles < MaxFiles /\ handles' = handles + 1
        /\ UNCHANGED <<compileVars, program, sourceVars, command, generated, binary>>
    BY <1>6 DEF PushFileFails, Parsing, Jump
  <2>2. Stack' /\ Counters' /\ Images'
    BY <1>0, <2>1, SameStack DEF compileVars, Counters, Images
  <2>3. Flags'
    BY <1>0, <1>6 DEF PushFileFails, Flags, Phases, Jump, sourceVars
  <2>4. NoneClosedTwice'
    BY <1>0, <2>1, OwnedLess DEF Phases
  <2> QED BY <2>2, <2>3, <2>4 DEF Bounded
<1>7. CASE PopFile
  <2>1. Stack' /\ Len(files') = Len(files) - 1 /\ Len(files) > 0
    BY <1>7, PopBounded
  <2>2. /\ phase = "compile" /\ handles' = handles - 1
        /\ UNCHANGED <<program, sourceVars, errorTarget, phase, command, position, used,
                       generated, binary, failed>>
    BY <1>7 DEF PopFile
  <2>3. handles >= Len(files)
    BY <1>0, <2>2 DEF NoneClosedTwice, Owned
  <2>4. Counters' /\ Images' /\ Flags'
    BY <1>0, <2>1, <2>2, <2>3 DEF Counters, Images, Flags, sourceVars
  <2>5. NoneClosedTwice'
    BY <1>0, <2>1, <2>2 DEF NoneClosedTwice, Owned
  <2> QED BY <2>1, <2>4, <2>5 DEF Bounded
<1>8. CASE CompileEnds
  <2>1. /\ phase = "compile" /\ phase' \in {"use", "undefined"}
        /\ UNCHANGED <<program, sourceVars, command, compileVars, handles, binary>>
        /\ generated' = program /\ errorTarget' \in {errorTarget, "dead"}
        /\ failed' \in {failed, "now"}
    BY <1>8 DEF CompileEnds, OutOfMemory, Jump
  <2>2. Stack' /\ Counters' /\ Images'
    BY <1>0, <2>1, SameStack DEF compileVars, Counters, Images
  <2>3. Flags'
    BY <1>0, <2>1 DEF Flags, Phases, sourceVars
  <2>4. NoneClosedTwice'
    BY <1>0, <2>1, OwnedLess DEF Phases
  <2> QED BY <2>2, <2>3, <2>4 DEF Bounded
<1>9. CASE Use \/ UseGarbage \/ Restore
  <2>1. /\ phase \in {"use", "restore"}
        /\ phase' \in {"executing", "restore", "undefined", "prompt"}
        /\ UNCHANGED <<program, getLine, sys_line, errorTarget, command, compileVars, generated,
                       handles, binary, failed>>
        /\ source' \in {source, getLine}
    BY <1>9 DEF Use, UseGarbage, Restore, sourceVars
  <2>2. Stack' /\ Counters' /\ Images'
    BY <1>0, <2>1, SameStack DEF compileVars, Counters, Images
  <2>3. Flags'
    BY <1>0, <2>1 DEF Flags, Phases
  <2>4. NoneClosedTwice'
    BY <1>0, <2>1, OwnedLess DEF Phases
  <2> QED BY <2>2, <2>3, <2>4 DEF Bounded
<1>10. CASE Write
  <2>1. /\ phase = "use" /\ command = "SAVEBIN" /\ phase' = "restore"
        /\ UNCHANGED <<program, sourceVars, errorTarget, command, compileVars, generated>>
        /\ handles' = handles \/ handles' = handles - 1
        /\ binary' \in {binary, generated, Unknown}
        /\ failed' \in {failed, "now"}
    BY <1>10 DEF Write
  <2>2. handles >= 1
    BY <1>0, <2>1 DEF NoneClosedTwice, Owned
  <2>3. Stack' /\ Counters' /\ Images'
    BY <1>0, <2>1, <2>2, SameStack DEF compileVars, Counters, Images
  <2>4. Flags'
    BY <1>0, <2>1 DEF Flags, Phases, sourceVars
  <2>5. NoneClosedTwice'
    BY <1>0, <2>1, <2>2 DEF NoneClosedTwice, Owned
  <2> QED BY <2>3, <2>4, <2>5 DEF Bounded
<1> QED
  BY <1>1, <1>2, <1>3, <1>4, <1>5, <1>6, <1>7, <1>8, <1>9, <1>10 DEF Compiling

LEMMA HaltBounded == Bounded /\ Halt => Bounded'
<1> SUFFICES ASSUME Bounded, Halt PROVE Bounded'
  OBVIOUS
<1>1. /\ Flags /\ Images /\ Counters /\ Stack /\ NoneClosedTwice /\ Len(files) \in Nat
      /\ handles \in Nat
  BY LimitAssumption DEF Bounded, Counters, Stack
<1>2. /\ phase = "executing" /\ phase' \in {"restore", "prompt", "undefined"}
      /\ UNCHANGED <<program, sourceVars, errorTarget, command, compileVars, generated,
                     handles, binary, failed>>
  BY DEF Halt
<1>3. Stack' /\ Counters' /\ Images'
  BY <1>1, <1>2, SameStack DEF compileVars, Counters, Images
<1>4. Flags'
  BY <1>1, <1>2 DEF Flags, Phases, sourceVars
<1>5. NoneClosedTwice'
  BY <1>1, <1>2, OwnedLess DEF Phases
<1> QED
  BY <1>3, <1>4, <1>5 DEF Bounded

LEMMA NextBounded == Bounded /\ [Next]_vars => Bounded'
<1> SUFFICES ASSUME Bounded, [Next]_vars PROVE Bounded'
  OBVIOUS
<1>1. CASE Next
  BY <1>1, CommandsBounded, CompilingBounded, HaltBounded DEF Next
<1>2. CASE UNCHANGED vars
  BY <1>2, SameStack DEF vars, compileVars, sourceVars, Bounded, Flags, Images, Counters,
                         NoneClosedTwice, Owned
<1> QED
  BY <1>1, <1>2

\* Every variable keeps its type and its bound: no line is read beyond the end
\* of the program or of an include file (compile.c, ParseGetLine), memory is
\* only taken while there is some, and the count of open files stays within
\* its limits.
THEOREM TypeCorrect == Spec => []TypeOK
<1>1. Bounded => TypeOK
  BY BoundedTypeOK
<1> QED
  BY InitBounded, NextBounded, <1>1, PTL DEF Spec

\* However a compilation went, fclose is called only for files that are open:
\* PopFile's and DoSaveBin's counts never go below the files they have left.
THEOREM ClosesOnce == Spec => []NoneClosedTwice
<1>1. Bounded => NoneClosedTwice
  BY DEF Bounded
<1> QED
  BY InitBounded, NextBounded, <1>1, PTL DEF Spec

\* ParseInclude's list of names keeps a file from being on the stack twice:
\* files that include each other, or themselves, cannot nest for ever.
THEOREM IncludesOnce == Spec => []NoFileTwice
<1>1. Bounded => NoFileTwice
  BY BoundedTypeOK
<1> QED
  BY InitBounded, NextBounded, <1>1, PTL DEF Spec
=============================================================================
