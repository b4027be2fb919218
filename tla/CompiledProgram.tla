-------------------------- MODULE CompiledProgram --------------------------
(***************************************************************************)
(* RUN: a program is compiled (Compile of compile.c) and its image and     *)
(* main code are given to the interpreter (vm_init, vm_execute), as DoRun  *)
(* of edit.c does.  The machine's steps are those of Interpreter, the code *)
(* it runs that of CodeGen, and BasicMeaning says what it should print.    *)
(***************************************************************************)
EXTENDS BasicMeaning

CONSTANT Programs       \* the programs that may be compiled, a sequence

VARIABLES chosen,       \* which of them this one is
          compiled,     \* what Compile makes of it
          listing,      \* where the debugger finds instructions in that
          meaning       \* what the program should print for the input

runVars == <<chosen, compiled, listing, meaning>>
vars    == <<vmVars, runVars>>

\* The operand format of opcode_table, as the bytes an instruction takes in
\* vmdebug_decode_instruction.
FMT_WORD  == {OP_LIT}
FMT_NATIVE == {OP_NATIVE}
FMT_BR    == {OP_BRT, OP_BRTSC, OP_BRF, OP_BRFSC, OP_BR}
FMT_BYTE  == {OP_FRAME, OP_CLEAN, OP_TRAP}
FMT_SBYTE == {OP_SLIT, OP_LREF, OP_LSET}

Decoded(o) == IF o \in FMT_WORD \cup FMT_NATIVE \cup FMT_BR THEN 1 + WordSize
              ELSE IF o \in FMT_BYTE \cup FMT_SBYTE THEN 2 ELSE 1

\* The image as the interpreter sees it.
Memory(bytes) == [a \in 0..(Len(bytes) - 1) |-> bytes[a + 1]]

\* vmdebug_decode_function, and DumpFunctions over all of them.
RECURSIVE DecodeFunction(_, _, _)
DecodeFunction(m, a, end) ==
  IF a >= end THEN {} ELSE {a} \cup DecodeFunction(m, a + Decoded(m[a]), end)

DumpFunctions(c) == UNION {DecodeFunction(Memory(c.image), r.start, r.end) : r \in ToSet(c.functions)}

\* DoRun: compileProgram, vm_init with a copy of the code_len bytes, vm_execute.
Init ==
  /\ chosen \in DOMAIN Programs
  /\ compiled = Compile(Programs[chosen])
  /\ listing = DumpFunctions(compiled)
  /\ InitWith(Memory(compiled.image), compiled.mainCode)
  /\ meaning = IF Programs[chosen].deep THEN <<>> ELSE Prints(Programs[chosen], input)

Next == VmStep /\ UNCHANGED runVars

Spec == Init /\ [][Next]_vars

\* vm_execute is a loop in one thread.
FairSpec == Spec /\ WF_vars(Next)

-----------------------------------------------------------------------------
\* The bytes of the variables and arrays: what a program may change.
Data ==
  UNION {LET e == Programs[chosen].events[i]
         IN compiled.symbols[e.x]..(compiled.symbols[e.x] + WordSize * Len(e.init) - 1) :
           i \in {j \in DOMAIN Programs[chosen].events : Programs[chosen].events[j].k = "dim"}}

TypeOK ==
  /\ Len(compiled.image) < CodeLimit
  /\ code \in [0..(Len(compiled.image) - 1) -> Byte]
  /\ pc \in Int /\ sp \in Int /\ fp \in Int
  /\ tos \in Word
  /\ stack \in [Cells -> Word]
  /\ input \in Seq(Int)
  /\ out \in Seq([chr : Byte] \cup [int : Word])
  /\ status \in {"running", "halted", "aborted", "wild"}

\* No compiled program fetches, loads or stores outside its image or touches
\* a cell outside the stack: the offsets code_local gives out, the chains
\* PlaceSymbol resolves and the branches fixupbranch patches are all inside.
NeverWild == status # "wild"

\* The code prints what the program means: at any time a part of it, in
\* order, and all of it once the program has halted.
PrintsItsMeaning ==
  ~Programs[chosen].deep =>
    /\ IsPrefix(out, meaning)
    /\ status = "halted" => out = meaning

\* Branches, calls and returns only land where the debugger's listing shows
\* an instruction, never on an operand, a string, a symbol or a variable.
PcOnInstruction == status = "running" => pc \in listing

\* The cells at F_FP hold the frame pointers of the callers: they lead from
\* the running function up to the frame vm_execute started with.
RECURSIVE LeadsUp(_)
LeadsUp(f) == f = StackSize \/ (f - 1 \in Cells /\ stack[f - 1] > f /\ LeadsUp(stack[f - 1]))

SavedFrames == status = "running" => sp <= fp /\ LeadsUp(fp)

\* Every statement leaves the stack as it found it, whatever arguments it
\* pushed, loops it left or functions it called: at HALT there is nothing on
\* it but the frame of the main program.
BalancedAtHalt == status = "halted" => fp = StackSize /\ sp = fp - F_SIZE

\* Code and variables share the image, but a program changes no byte of it
\* except those of the variables it declares.
OnlyDataChanges == \A a \in DOMAIN code \ Data : code[a] = compiled.image[a + 1]

\* A program with more calls than the stack holds is stopped by vm_abort, and
\* no other program is.
AbortsOnlyWhenDeep ==
  /\ status = "aborted" => Programs[chosen].deep
  /\ status = "halted" => ~Programs[chosen].deep

\* RETURN goes to the instruction after a call, in the frame of a caller.
ReturnsToCaller == [][Return => code[pc' - 1] = OP_CALL /\ fp < fp']_vars

\* The programs run to an end, HALT or vm_abort: no branch back is taken for
\* ever.
ComesToAnEnd == <>(status # "running")
=============================================================================
