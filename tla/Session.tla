------------------------------- MODULE Session -------------------------------
(***************************************************************************)
(* The commands of edit.c that compile: RUN, SAVEBIN, DUMP, and RUNBIN,    *)
(* with what they share across calls: the handler lines come from          *)
(* (system.c), the globals of edit.c that save it, the generator's context *)
(* in high memory, the jump target of vm_system_abort and ParseError, and  *)
(* the stack of include files of compile.c.                                *)
(*                                                                         *)
(* A line of source is "statement", "error" (one that ends in ParseError)  *)
(* or the name of a file to include.  Memory is counted in units: one for  *)
(* a line stored or a statement compiled, one for each record of PushFile, *)
(* ContextSize for the two contexts.  A statement is one that the          *)
(* generator can store code for (those it dies of are in FrontEnd).        *)
(***************************************************************************)
EXTENDS Integers, Sequences, FiniteSets, SequencesExt

CONSTANTS Programs,     \* what the edit buffer may hold: sequences of lines
          Disk,         \* include files: name -> lines
          Workspace,    \* units of memory
          MaxFiles,     \* FILEs the process may have open
          ContextSize   \* InitParseContext's and InitGenerateContext's units

ASSUME LimitAssumption == Workspace \in Nat /\ ContextSize \in Nat /\ MaxFiles \in Nat

\* Lines and files are told by their names, of which "program" is the edit
\* buffer's; the disk holds finitely many.  BufAddLineN lets no program be larger
\* than the workspace it lies in.
ASSUME SourceAssumption ==
  /\ Programs \subseteq Seq(STRING)
  /\ \A p \in Programs : Len(p) <= Workspace
  /\ IsFiniteSet(DOMAIN Disk) /\ "program" \notin DOMAIN Disk
  /\ \A f \in DOMAIN Disk : Disk[f] \in Seq(STRING)

VARIABLES program,      \* the lines in the edit buffer
          source,       \* sys_line->getLine: "terminal", "edit" or "null"
          getLine,      \* edit.c's global of that name
          sys_line,     \* is edit.c's global sys_line set?
          errorTarget,  \* sys->errorTarget: "unset", "live", "dead"
          phase,        \* where the command under way is
          command,
          position,     \* the line BufGetLine reads next
          files,        \* c->currentFile: the stack of [name, at]
          includedFiles,
          used,         \* units the compilation has taken
          generated,    \* what c->g->mainCode and code_len describe
          handles,      \* FILEs open
          binary,       \* what SAVEBIN has left on disk
          read,         \* statements parsed in this compilation
          failed        \* has anything failed: "no", "before", "now"

compileVars == <<position, files, includedFiles, used, read>>
sourceVars  == <<source, getLine, sys_line>>
vars == <<program, sourceVars, errorTarget, phase, command, compileVars,
          generated, handles, binary, failed>>

Room == Workspace - Len(program)

Unknown == <<"unknown">>        \* whatever the bytes of the memory are

-----------------------------------------------------------------------------
\* main, edit_workspace: the context's memory is zero, the globals are NULL.
Init ==
  /\ program \in Programs
  /\ source = "terminal"
  /\ getLine = "null"
  /\ sys_line = FALSE
  /\ errorTarget = "unset"
  /\ phase = "prompt"
  /\ command = "none"
  /\ position = 1
  /\ files = <<>>
  /\ includedFiles = {}
  /\ used = 0
  /\ generated = Unknown
  /\ handles = 0
  /\ binary = Unknown
  /\ read = <<>>
  /\ failed = "no"

\* The user edits the program (module EditBuffer).  The contexts of the last
\* compilation lie just below the lines: lines that take another space end up
\* on them, and the next contexts will lie elsewhere.
Edit(p) ==
  /\ phase = "prompt" /\ source = "terminal"
  /\ program' = p
  /\ generated' \in IF Len(p) = Len(program) THEN {generated, Unknown} ELSE {Unknown}
  /\ UNCHANGED <<sourceVars, errorTarget, phase, command, compileVars, handles, binary, failed>>

\* edit_workspace takes a command; what failed before is history.
Start(cmd, next) ==
  /\ phase = "prompt" /\ source = "terminal"
  /\ command' = cmd
  /\ phase' = next
  /\ failed' = IF failed = "now" THEN "before" ELSE failed

\* DoRun and DoDump go straight to compileProgram.
DoRunOrDump(cmd) ==
  /\ Start(cmd, "init")
  /\ UNCHANGED <<program, sourceVars, errorTarget, compileVars, generated, handles, binary>>

\* DoSaveBin opens its file first; when it cannot it still restores.
DoSaveBin ==
  \/ /\ handles < MaxFiles
     /\ Start("SAVEBIN", "init")
     /\ handles' = handles + 1
     /\ binary' = Unknown
     /\ UNCHANGED <<program, sourceVars, errorTarget, compileVars, generated>>
  \/ /\ Start("SAVEBIN", "restore")
     /\ UNCHANGED <<program, sourceVars, errorTarget, compileVars, generated, handles, binary>>

\* DoRunBin without its file, or as far as vm_execute; when vm_init finds no
\* memory there is no fclose; an image nobody saved does anything.
DoRunBin ==
  \/ /\ Start("RUNBIN", "prompt")
     /\ UNCHANGED <<program, sourceVars, errorTarget, compileVars, generated, handles, binary>>
  \/ /\ Start("RUNBIN", "executing")
     /\ handles < MaxFiles /\ binary # Unknown
     /\ UNCHANGED <<program, sourceVars, errorTarget, compileVars, generated, handles, binary>>
  \/ /\ phase = "prompt" /\ source = "terminal"
     /\ handles < MaxFiles
     /\ handles' = handles + 1
     /\ command' = "RUNBIN"
     /\ failed' = "now"
     /\ UNCHANGED phase
     /\ UNCHANGED <<program, sourceVars, errorTarget, compileVars, generated, binary>>
  \/ /\ Start("RUNBIN", "undefined")
     /\ handles < MaxFiles /\ binary = Unknown
     /\ UNCHANGED <<program, sourceVars, errorTarget, compileVars, generated, handles, binary>>

\* vm_system_abort and ParseError: longjmp(sys->errorTarget).  Compile's frame
\* returns; one that has returned before is undefined behaviour in C.
Jump ==
  /\ phase' = IF errorTarget = "live" THEN "use" ELSE "undefined"
  /\ errorTarget' = IF errorTarget = "live" THEN "dead" ELSE errorTarget
  /\ failed' = "now"

\* The parser and the symbols ask for their memory.  The generator does not: its
\* GenerateFatal prints, and what follows is stored over the parse tree.
OutOfMemory ==
  \/ Jump
  \/ phase' = "undefined" /\ UNCHANGED <<errorTarget, failed>>

\* Fault: the handler is saved after it has been replaced.
SaveReplaced ==
  /\ phase = "init"
  /\ sys_line' = TRUE
  /\ IF Room < ContextSize
     THEN /\ Jump
          /\ UNCHANGED <<source, getLine, compileVars>>
     ELSE /\ getLine' = "edit"
          /\ source' = "edit"
          /\ errorTarget' = "live"
          /\ phase' = "compile"
          /\ position' = 1
          /\ files' = <<>>
          /\ includedFiles' = {}
          /\ used' = ContextSize
          /\ read' = <<>>
          /\ UNCHANGED failed
  /\ UNCHANGED <<program, command, generated, handles, binary>>

\* compileProgram up to its call of Compile, and Compile's setjmp.
CompileProgram ==
  /\ phase = "init"
  /\ sys_line' = TRUE
  /\ IF Room < ContextSize
     THEN /\ Jump
          /\ UNCHANGED <<source, getLine, compileVars>>
     ELSE /\ getLine' = source
          /\ source' = "edit"
          /\ errorTarget' = "live"
          /\ phase' = "compile"
          /\ position' = 1
          /\ files' = <<>>
          /\ includedFiles' = {}
          /\ used' = ContextSize
          /\ read' = <<>>
          /\ UNCHANGED failed
  /\ UNCHANGED <<program, command, generated, handles, binary>>

-----------------------------------------------------------------------------
\* ParseGetLine: a line of the topmost include file, or of the program.
Top     == files[Len(files)]
Lines   == IF files = <<>> THEN program ELSE Disk[Top.name]
At      == IF files = <<>> THEN position ELSE Top.at
More    == At <= Len(Lines)

Advance ==
  IF files = <<>> THEN position' = position + 1 /\ UNCHANGED files
  ELSE files' = [files EXCEPT ![Len(files)].at = @ + 1] /\ UNCHANGED position

Parsing == phase = "compile" /\ More

ParseStatement ==
  /\ Parsing /\ Lines[At] = "statement"
  /\ Advance
  /\ IF used < Room
     THEN /\ used' = used + 1
          /\ read' = Append(read, <<IF files = <<>> THEN "program" ELSE Top.name, At>>)
          /\ UNCHANGED <<errorTarget, phase, failed>>
     ELSE /\ OutOfMemory
          /\ UNCHANGED <<used, read>>
  /\ UNCHANGED <<program, sourceVars, command, includedFiles, generated, handles, binary>>

ParseError ==
  /\ Parsing /\ Lines[At] = "error"
  /\ Jump
  /\ UNCHANGED <<program, sourceVars, command, compileVars, generated, handles, binary>>

\* Fault: the line is not consumed.
IncludeForever ==
  /\ Parsing /\ Lines[At] \in includedFiles
  /\ UNCHANGED vars

\* ParseInclude and PushFile.
IncludeAgain ==
  /\ Parsing /\ Lines[At] \in includedFiles
  /\ Advance
  /\ UNCHANGED <<program, sourceVars, errorTarget, phase, command, includedFiles, used, generated,
                 handles, binary, read, failed>>

\* Faults: the file is not recorded; the result of fopen is not looked at.
PushUnrecorded(f) ==
  /\ Parsing /\ Lines[At] = f /\ f \notin {"statement", "error"} \cup includedFiles
  /\ f \in DOMAIN Disk /\ handles < MaxFiles /\ used + 2 <= Room
  /\ files' = (IF files = <<>> THEN files ELSE [files EXCEPT ![Len(files)].at = @ + 1])
              \o <<[name |-> f, at |-> 1]>>
  /\ position' = IF files = <<>> THEN position + 1 ELSE position
  /\ used' = used + 2
  /\ handles' = handles + 1
  /\ UNCHANGED <<program, sourceVars, errorTarget, phase, command, includedFiles, generated, binary,
                 read, failed>>

PushUnopened(f) ==
  /\ Parsing /\ Lines[At] = f /\ f \notin {"statement", "error"} \cup includedFiles
  /\ f \in DOMAIN Disk /\ used + 2 <= Room
  /\ includedFiles' = includedFiles \cup {f}
  /\ files' = (IF files = <<>> THEN files ELSE [files EXCEPT ![Len(files)].at = @ + 1])
              \o <<[name |-> f, at |-> 1]>>
  /\ position' = IF files = <<>> THEN position + 1 ELSE position
  /\ used' = used + 2
  /\ handles' = handles + 1
  /\ UNCHANGED <<program, sourceVars, errorTarget, phase, command, generated, binary, read, failed>>

PushFile(f) ==
  /\ Parsing /\ Lines[At] = f /\ f \notin {"statement", "error"} \cup includedFiles
  /\ f \in DOMAIN Disk /\ handles < MaxFiles /\ used + 2 <= Room
  /\ includedFiles' = includedFiles \cup {f}
  /\ files' = (IF files = <<>> THEN files ELSE [files EXCEPT ![Len(files)].at = @ + 1])
              \o <<[name |-> f, at |-> 1]>>
  /\ position' = IF files = <<>> THEN position + 1 ELSE position
  /\ used' = used + 2
  /\ handles' = handles + 1
  /\ UNCHANGED <<program, sourceVars, errorTarget, phase, command, generated, binary, read, failed>>

\* No memory for the name, no file to open, or no memory once it is open.
PushFileFails(f) ==
  /\ Parsing /\ Lines[At] = f /\ f \notin {"statement", "error"} \cup includedFiles
  /\ ~(f \in DOMAIN Disk /\ handles < MaxFiles /\ used + 2 <= Room)
  /\ Jump
  /\ handles' = IF used + 1 = Room /\ f \in DOMAIN Disk /\ handles < MaxFiles
                THEN handles + 1 ELSE handles
  /\ UNCHANGED <<program, sourceVars, command, compileVars, generated, binary>>

\* Fault: the file is not closed.
PopUnclosed ==
  /\ phase = "compile" /\ ~More /\ files # <<>>
  /\ files' = Front(files)
  /\ UNCHANGED <<program, sourceVars, errorTarget, phase, command, position, includedFiles, used,
                 generated, handles, binary, read, failed>>

\* The end of an include file; the next turn reads from the one below.
PopFile ==
  /\ phase = "compile" /\ ~More /\ files # <<>>
  /\ files' = Front(files)
  /\ handles' = handles - 1
  /\ UNCHANGED <<program, sourceVars, errorTarget, phase, command, position, includedFiles, used,
                 generated, binary, read, failed>>

\* The end of the program: Generate, mainCode and code_len, then the implicitly
\* declared globals, for the last of which there may be no memory.
CompileEnds ==
  /\ phase = "compile" /\ ~More /\ files = <<>>
  /\ generated' = program
  /\ \/ /\ errorTarget' = "dead"
        /\ phase' = "use"
        /\ UNCHANGED failed
     \/ read # <<>> /\ OutOfMemory
  /\ UNCHANGED <<program, sourceVars, command, compileVars, handles, binary>>

-----------------------------------------------------------------------------
\* What follows compileProgram, whether or not it has compiled anything: RUN
\* executes if vm_init finds memory, DUMP writes its listing, SAVEBIN the image.
Use ==
  /\ phase = "use"
  /\ \/ command \in {"RUN", "DUMP"} /\ phase' = "restore"
     \/ command = "RUN" /\ phase' = "executing"
  /\ UNCHANGED <<program, sourceVars, errorTarget, command, compileVars, generated, handles,
                 binary, failed>>

\* vm_execute returns, if the BASIC program halts or is aborted; one that loops
\* for ever keeps it.  Its stores through subscripts may hit anything.
Halt ==
  /\ phase = "executing"
  /\ phase' \in {IF command = "RUN" THEN "restore" ELSE "prompt", "undefined"}
  /\ UNCHANGED <<program, sourceVars, errorTarget, command, compileVars, generated, handles,
                 binary, failed>>

\* When vm_init finds no memory there is no fclose.
Write ==
  /\ phase = "use" /\ command = "SAVEBIN"
  /\ \/ /\ binary' = IF failed = "now" THEN Unknown ELSE generated
        /\ handles' = handles - 1
        /\ UNCHANGED failed
     \/ /\ failed' = "now"
        /\ UNCHANGED <<binary, handles>>
  /\ phase' = "restore"
  /\ UNCHANGED <<program, sourceVars, errorTarget, command, compileVars, generated>>

\* Low memory is not what mainCode and code_len describe: anything may follow.
UseGarbage ==
  /\ phase = "use" /\ failed = "now"
  /\ phase' = "undefined"
  /\ UNCHANGED <<program, sourceVars, errorTarget, command, compileVars, generated, handles,
                 binary, failed>>

\* system_set_main_source(sys_line, getLine, getLineCookie)
Restore ==
  /\ phase = "restore"
  /\ IF sys_line THEN source' = getLine /\ phase' = "prompt"
                 ELSE phase' = "undefined" /\ UNCHANGED source
  /\ UNCHANGED <<program, getLine, sys_line, errorTarget, command, compileVars, generated, handles,
                 binary, failed>>

FileNames == UNION {{p[i] : i \in DOMAIN p} : p \in Programs \cup {Disk[f] : f \in DOMAIN Disk}}

Commands ==
  \/ \E p \in Programs : Edit(p)
  \/ \E cmd \in {"RUN", "DUMP"} : DoRunOrDump(cmd)
  \/ DoSaveBin
  \/ DoRunBin

Compiling ==
  \/ CompileProgram
  \/ ParseStatement \/ ParseError \/ IncludeAgain
  \/ \E f \in FileNames : PushFile(f) \/ PushFileFails(f)
  \/ PopFile \/ CompileEnds
  \/ Use \/ Write \/ UseGarbage \/ Restore

Next == Commands \/ Compiling \/ Halt

Spec == Init /\ [][Next]_vars

\* A command under way is the only thread: it goes on.  Nothing is said of the
\* program vm_execute runs.
FairSpec == Spec /\ WF_vars(Compiling)
-----------------------------------------------------------------------------
TypeOK ==
  /\ program \in Programs
  /\ {source, getLine} \subseteq {"terminal", "edit", "null"}
  /\ sys_line \in BOOLEAN
  /\ errorTarget \in {"unset", "live", "dead"}
  /\ phase \in {"prompt", "init", "compile", "use", "executing", "restore", "undefined"}
  /\ command \in {"none", "RUN", "DUMP", "SAVEBIN", "RUNBIN"}
  /\ position \in 1..(Workspace + 1)
  /\ \A i \in DOMAIN files : files[i].at \in 1..(Len(Disk[files[i].name]) + 1)
  /\ includedFiles \subseteq DOMAIN Disk
  /\ used \in 0..(Workspace + ContextSize)
  /\ generated \in Programs \cup {Unknown}
  /\ handles \in 0..MaxFiles
  /\ binary \in Programs \cup {Unknown}
  /\ failed \in {"no", "before", "now"}

\* compileProgram swaps the source of lines under the editor's feet; however
\* a command ends, the prompt reads the terminal again and not the program.
PromptReadsTerminal == phase = "prompt" => source = "terminal"

\* The text a program stands for: include files in place, each at its first
\* mention only, also when files include each other.  A point is a line of a
\* text and the files included before it; from there on to the end of that
\* text, `read' are the statements and `seen' the files included afterwards.
Text(name) == IF name = "program" THEN program ELSE Disk[name]
Names      == DOMAIN Disk \cup {"program"}
Points     == Names \X Nat \X SUBSET DOMAIN Disk

Unfold(expand, name, i, seen) ==
  IF i > Len(Text(name)) THEN [read |-> <<>>, seen |-> seen]
  ELSE LET line == Text(name)[i]
           here == IF line = "statement" THEN [read |-> <<<<name, i>>>>, seen |-> seen]
                   ELSE IF line \in DOMAIN Disk \ seen THEN expand[<<line, 1, seen \cup {line}>>]
                   ELSE [read |-> <<>>, seen |-> seen]
           rest == expand[<<name, i + 1, seen \cup here.seen>>]
       IN [read |-> here.read \o rest.read, seen |-> rest.seen]

Expand[p \in Points] == Unfold(Expand, p[1], p[2], p[3])

Expansion == Expand[<<"program", 1, {}>>].read

\* The compiler reads that text in that order, whatever files PushFile and
\* ParseGetLine stack, and a compilation without an error reads all of it.
ReadsExpansion ==
  /\ phase = "compile" => IsPrefix(read, Expansion)
  /\ phase = "use" /\ failed # "now" => read = Expansion

\* As long as nothing has failed, the open files are the include files being
\* read and SAVEBIN's own: none is left open or closed twice.
FilesAccounted ==
  failed = "no" /\ phase # "undefined" =>
    handles = (IF phase = "compile" THEN Len(files) ELSE 0)
              + (IF command = "SAVEBIN" /\ phase \in {"init", "compile", "use"} THEN 1 ELSE 0)

\* The compiler always ends, also with files that include themselves: a command
\* comes back to the prompt or hands over to the BASIC program it runs (which
\* may stay in vm_execute for ever), and one whose program has halted comes back,
\* unless C leaves undefined what it does.
CommandsEnd ==
  phase \in {"init", "compile", "use", "restore"} ~> phase \in {"prompt", "executing", "undefined"}
=============================================================================
