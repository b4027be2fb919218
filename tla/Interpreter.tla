---------------------------- MODULE Interpreter ----------------------------
(***************************************************************************)
(* The byte-code interpreter: vm_execute of src/interpreter/vm.c with the  *)
(* stack macros of vm.h and the traps of vmtrap.c.                         *)
(*                                                                         *)
(* The code image is bytes and holds the program's variables too; operands *)
(* are big-endian, variables native.  The stack grows down and its top     *)
(* element is cached in `tos'.  C leaves what happens outside the image or *)
(* the stack undefined: such a step makes the machine `wild', and nothing  *)
(* is said of it from then on.                                             *)
(***************************************************************************)
EXTENDS Words, Sequences

CONSTANTS StackSize,    \* cells vm_init allocates
          Inputs,       \* what the user may type: sequences of characters
          Junk          \* what fresh memory and the cached top may hold

\* vm_init takes the size as a VMVALUE.
ASSUME MachineAssumption == StackSize \in 0..(Half - 1)

VARIABLES code,         \* i->code: address -> byte
          pc, sp, fp,   \* offsets from i->code and i->stack
          tos,
          stack,
          input,        \* characters still to be read
          out,          \* what has been printed
          status

vmVars == <<code, pc, sp, fp, tos, stack, input, out, status>>

WordOperand == {OP_BRT, OP_BRTSC, OP_BRF, OP_BRFSC, OP_BR, OP_LIT, OP_NATIVE}
ByteOperand == {OP_SLIT, OP_LREF, OP_LSET, OP_FRAME, OP_TRAP, OP_CLEAN}

\* The bytes of an instruction.
Length(op) == CASE op \in WordOperand -> 1 + WordSize
                [] op \in ByteOperand -> 2
                [] OTHER -> 1

\* The places of a word's bytes, and the word they make up: operands have the
\* high byte first, variables the low byte.
Places == 0..(WordSize - 1)

BytesOf(w) == [k \in Places |-> ((w % Modulus) \div Weight(k)) % 256]

Operand(m, a) == Wrap(SumFunction([k \in Places |-> m[a + WordSize - 1 - k] * Weight(k)]))
Native(m, a)  == Wrap(SumFunction([k \in Places |-> m[a + k] * Weight(k)]))

\* Fault: a byte too many.
PokeWide(m, a, w) == [x \in DOMAIN m |-> IF x - a \in Places THEN BytesOf(w)[x - a]
                                         ELSE IF x - a = WordSize THEN 0 ELSE m[x]]

\* The bytes of m with the word w stored at a.
Poke(m, a, w) == [x \in DOMAIN m |-> IF x - a \in Places THEN BytesOf(w)[x - a] ELSE m[x]]

SignedByte(b) == IF b < 128 THEN b ELSE b - 256

-----------------------------------------------------------------------------
\* What the step at pc touches, and whether C says what it does.
Image == DOMAIN code
Cells == 0..(StackSize - 1)

op  == code[pc]
arg == code[pc + 1]
trap == IF op = OP_TRAP THEN arg ELSE -1

TRAP_GetChar    == 0
TRAP_PutChar    == 1
TRAP_PrintStr   == 2
TRAP_PrintInt   == 3
TRAP_PrintTab   == 4
TRAP_PrintNL    == 5
TRAP_PrintFlush == 6

Pushes == {OP_LIT, OP_SLIT, OP_LREF, OP_DUP, OP_RETURNZ}

Pops == BinaryOps \cup {OP_BRT, OP_BRF, OP_STORE, OP_STOREB, OP_LSET, OP_RETURN, OP_DROP}

PopsNow == \/ op \in Pops
           \/ op = OP_BRTSC /\ tos = VMFALSE
           \/ op = OP_BRFSC /\ tos # VMFALSE
           \/ trap \in {TRAP_PutChar, TRAP_PrintStr, TRAP_PrintInt}

\* Fault: the check comes after the decrement it is for.
FullLate == \/ op \in Pushes /\ sp < 0
            \/ op = OP_FRAME /\ sp + 1 - arg < 0

\* vm_cpush and vm_reserve stop the program before they leave the stack.
Full == \/ op \in Pushes /\ sp - 1 < 0
        \/ op = OP_FRAME /\ sp - arg < 0

\* The end of the C string at a.
Terminators(a) == {e \in Image : a <= e /\ code[e] = 0}

Fetched == pc \in Image /\ pc + Length(op) - 1 \in Image

Touched ==      \* the stack cells, if not Full
  UNION {IF PopsNow THEN {sp} ELSE {},
         IF op \in {OP_STORE, OP_STOREB} THEN {sp + 1} ELSE {},
         IF op \in Pushes \/ trap = TRAP_GetChar THEN {sp - 1} ELSE {},
         IF op \in {OP_LREF, OP_LSET} THEN {fp + SignedByte(arg)} ELSE {},
         IF op = OP_FRAME THEN (sp - arg)..(sp - 1) \cup {sp - 1} ELSE {},
         IF op \in {OP_RETURN, OP_RETURNZ} THEN {fp - 1} ELSE {}}

Addressed ==    \* the bytes a load, a store or a string at tos takes
  CASE op \in {OP_LOAD, OP_STORE}   -> tos..(tos + WordSize - 1)
    [] op \in {OP_LOADB, OP_STOREB} -> {tos}
    [] trap = TRAP_PrintStr         -> IF Terminators(tos) = {} THEN {-1} ELSE {tos}
    [] OTHER -> {}

Defined ==
  /\ Fetched
  /\ ~Full => /\ Touched \subseteq Cells
              /\ Addressed \subseteq Image
              /\ op \in {OP_DIV, OP_REM} => ~(stack[sp] = -Half /\ tos = -1)

\* An instruction the machine can execute; what each of them leaves alone.
Execute(ops) ==
  /\ status = "running"
  /\ Defined
  /\ ~Full
  /\ op \in ops

KeepsMemory == UNCHANGED code
KeepsFrame  == UNCHANGED fp
NoIO        == UNCHANGED <<input, out>>
GoesOn      == pc' = pc + Length(op) /\ UNCHANGED status

Target == pc + Length(op) + Operand(code, pc + 1)

\* *--sp = tos, then tos = v
Push(v) == /\ sp' = sp - 1
           /\ stack' = [stack EXCEPT ![sp - 1] = tos]
           /\ tos' = v

\* tos = *sp++
Pop == sp' = sp + 1 /\ tos' = stack[sp] /\ UNCHANGED stack

-----------------------------------------------------------------------------
\* vm_init and the start of vm_execute: nothing sets the stack or tos.
InitWith(bytes, mainCode) ==
  /\ code = bytes
  /\ pc = mainCode
  /\ sp = StackSize
  /\ fp = StackSize
  /\ tos \in Junk
  /\ stack = [c \in Cells |-> tos]
  /\ input \in Inputs
  /\ out = <<>>
  /\ status = "running"

Halt ==
  /\ Execute({OP_HALT})
  /\ status' = "halted"
  /\ UNCHANGED <<code, pc, sp, fp, tos, stack, input, out>>

\* BRT and BRF drop the condition.
BranchIf ==
  /\ Execute({OP_BRT, OP_BRF})
  /\ pc' = IF (tos # VMFALSE) = (op = OP_BRT) THEN Target ELSE pc + Length(op)
  /\ Pop
  /\ UNCHANGED status /\ KeepsMemory /\ KeepsFrame /\ NoIO

\* BRTSC and BRFSC keep it when they branch.
BranchShortCircuit ==
  /\ Execute({OP_BRTSC, OP_BRFSC})
  /\ IF (tos # VMFALSE) = (op = OP_BRTSC)
     THEN pc' = Target /\ UNCHANGED <<sp, tos, stack>>
     ELSE pc' = pc + Length(op) /\ Pop
  /\ UNCHANGED status /\ KeepsMemory /\ KeepsFrame /\ NoIO

Branch ==
  /\ Execute({OP_BR})
  /\ pc' = Target
  /\ UNCHANGED <<sp, tos, stack, status>> /\ KeepsMemory /\ KeepsFrame /\ NoIO

UnaryOp ==
  /\ Execute(UnaryOps)
  /\ tos' = Unary(op, tos)
  /\ UNCHANGED <<sp, stack>> /\ GoesOn /\ KeepsMemory /\ KeepsFrame /\ NoIO

BinaryOp ==
  /\ Execute(BinaryOps)
  /\ tos' = Binary(op, stack[sp], tos)
  /\ sp' = sp + 1
  /\ UNCHANGED stack /\ GoesOn /\ KeepsMemory /\ KeepsFrame /\ NoIO

Literal ==
  /\ Execute({OP_LIT, OP_SLIT})
  /\ Push(IF op = OP_LIT THEN Operand(code, pc + 1) ELSE SignedByte(arg))
  /\ GoesOn /\ KeepsMemory /\ KeepsFrame /\ NoIO

Load ==
  /\ Execute({OP_LOAD, OP_LOADB})
  /\ tos' = IF op = OP_LOAD THEN Native(code, tos) ELSE code[tos]
  /\ UNCHANGED <<sp, stack>> /\ GoesOn /\ KeepsMemory /\ KeepsFrame /\ NoIO

\* The value lies under the address.
Store ==
  /\ Execute({OP_STORE, OP_STOREB})
  /\ code' = IF op = OP_STORE THEN Poke(code, tos, stack[sp])
                              ELSE [code EXCEPT ![tos] = stack[sp] % 256]
  /\ sp' = sp + 2
  /\ tos' = stack[sp + 1]
  /\ UNCHANGED stack /\ GoesOn /\ KeepsFrame /\ NoIO

\* The cell is read after the push.
LocalRef ==
  /\ Execute({OP_LREF})
  /\ Push(stack'[fp + SignedByte(arg)])
  /\ GoesOn /\ KeepsMemory /\ KeepsFrame /\ NoIO

\* The cell is written before the pop.
LocalSet ==
  /\ Execute({OP_LSET})
  /\ stack' = [stack EXCEPT ![fp + SignedByte(arg)] = tos]
  /\ sp' = sp + 1
  /\ tos' = stack'[sp]
  /\ GoesOn /\ KeepsMemory /\ KeepsFrame /\ NoIO

\* Fault: the return address is the call's own.
CallReturnsToCall ==
  /\ Execute({OP_CALL})
  /\ pc' = tos
  /\ tos' = pc
  /\ UNCHANGED <<sp, stack, status>> /\ KeepsMemory /\ KeepsFrame /\ NoIO

Call ==
  /\ Execute({OP_CALL})
  /\ pc' = tos
  /\ tos' = pc + 1
  /\ UNCHANGED <<sp, stack, status>> /\ KeepsMemory /\ KeepsFrame /\ NoIO

\* Fault: the frame pointer is not saved.
FrameUnsaved ==
  /\ Execute({OP_FRAME})
  /\ fp' = sp
  /\ sp' = sp - arg
  /\ stack' = [c \in Cells |-> IF c \in (sp - arg)..(sp - 1) THEN 0 ELSE stack[c]]
  /\ UNCHANGED tos /\ GoesOn /\ KeepsMemory /\ NoIO

\* The saved frame pointer goes into the first of the reserved cells.
Frame ==
  /\ Execute({OP_FRAME})
  /\ fp' = sp
  /\ sp' = sp - arg
  /\ stack' = [c \in Cells |-> IF c = sp - 1 THEN fp
                               ELSE IF c \in (sp - arg)..(sp - 2) THEN 0
                               ELSE stack[c]]
  /\ UNCHANGED tos /\ GoesOn /\ KeepsMemory /\ NoIO

\* Fault: the frame stays on the stack.
ReturnKeepsFrame ==
  /\ Execute({OP_RETURN, OP_RETURNZ})
  /\ IF op = OP_RETURNZ
     THEN stack' = [stack EXCEPT ![sp - 1] = tos] /\ pc' = tos /\ tos' = 0
     ELSE UNCHANGED <<stack, tos>> /\ pc' = stack[sp]
  /\ sp' = sp
  /\ fp' = stack'[fp - 1]
  /\ UNCHANGED status /\ KeepsMemory /\ NoIO

\* RETURNZ pushes the return address and falls through to RETURN.
Return ==
  /\ Execute({OP_RETURN, OP_RETURNZ})
  /\ IF op = OP_RETURNZ
     THEN stack' = [stack EXCEPT ![sp - 1] = tos] /\ pc' = tos /\ tos' = 0
     ELSE UNCHANGED <<stack, tos>> /\ pc' = stack[sp]
  /\ sp' = fp
  /\ fp' = stack'[fp - 1]
  /\ UNCHANGED status /\ KeepsMemory /\ NoIO

Drop ==
  /\ Execute({OP_DROP})
  /\ Pop
  /\ GoesOn /\ KeepsMemory /\ KeepsFrame /\ NoIO

Clean ==
  /\ Execute({OP_CLEAN})
  /\ sp' = sp + arg
  /\ UNCHANGED <<tos, stack>> /\ GoesOn /\ KeepsMemory /\ KeepsFrame /\ NoIO

Dup ==
  /\ Execute({OP_DUP})
  /\ Push(tos)
  /\ GoesOn /\ KeepsMemory /\ KeepsFrame /\ NoIO

NativeCode ==
  /\ Execute({OP_NATIVE})
  /\ UNCHANGED <<sp, tos, stack>> /\ GoesOn /\ KeepsMemory /\ KeepsFrame /\ NoIO

\* vm_putchar sends a carriage return before a newline.
Char(c) == [chr |-> c % 256]
Sent(c) == IF c = 10 THEN <<Char(13), Char(10)>> ELSE <<Char(c)>>

CString(a) == [k \in 1..(Min(Terminators(a)) - a) |-> Char(code[a + k - 1])]

\* vm_getchar: -1 at the end, a carriage return reads as a newline.
NextChar(keys) == IF keys = <<>> THEN -1 ELSE IF Head(keys) = 13 THEN 10 ELSE Head(keys)
RestOf(keys)   == IF keys = <<>> THEN keys ELSE Tail(keys)

TrapGetChar ==
  /\ Execute({OP_TRAP}) /\ trap = TRAP_GetChar
  /\ Push(NextChar(input))
  /\ input' = RestOf(input)
  /\ UNCHANGED out /\ GoesOn /\ KeepsMemory /\ KeepsFrame

\* The traps that print tos pop it.
TrapPrint ==
  /\ Execute({OP_TRAP}) /\ trap \in {TRAP_PutChar, TRAP_PrintStr, TRAP_PrintInt}
  /\ out' = out \o CASE trap = TRAP_PutChar  -> Sent(tos)
                     [] trap = TRAP_PrintStr -> CString(tos)
                     [] trap = TRAP_PrintInt -> <<[int |-> tos]>>
  /\ Pop
  /\ UNCHANGED input /\ GoesOn /\ KeepsMemory /\ KeepsFrame

TrapLayout ==
  /\ Execute({OP_TRAP}) /\ trap \in {TRAP_PrintTab, TRAP_PrintNL, TRAP_PrintFlush}
  /\ out' = out \o CASE trap = TRAP_PrintTab   -> Sent(9)
                     [] trap = TRAP_PrintNL    -> Sent(10)
                     [] trap = TRAP_PrintFlush -> <<>>
  /\ UNCHANGED <<sp, tos, stack, input>> /\ GoesOn /\ KeepsMemory /\ KeepsFrame

\* vm_abort, from vm_stack_overflow, an unknown opcode or an unknown trap.
Abort ==
  /\ status = "running"
  /\ Fetched
  /\ Full \/ op > OP_CLEAN \/ trap > TRAP_PrintFlush
  /\ status' = "aborted"
  /\ UNCHANGED <<code, pc, sp, fp, tos, stack, input, out>>

\* The step has no meaning in C.
Wild ==
  /\ status = "running"
  /\ ~Defined
  /\ status' = "wild"
  /\ UNCHANGED <<code, pc, sp, fp, tos, stack, input, out>>

VmStep ==
  \/ Halt \/ BranchIf \/ BranchShortCircuit \/ Branch
  \/ UnaryOp \/ BinaryOp \/ Literal \/ Load \/ Store
  \/ LocalRef \/ LocalSet \/ Call \/ Frame \/ Return
  \/ Drop \/ Clean \/ Dup \/ NativeCode
  \/ TrapGetChar \/ TrapPrint \/ TrapLayout
  \/ Abort \/ Wild
=============================================================================
