------------------------------ MODULE Machine ------------------------------
(***************************************************************************)
(* The interpreter alone on any image, as RUNBIN of edit.c gives it one    *)
(* from a file: DoRunBin looks at nothing in it before vm_execute.         *)
(***************************************************************************)
EXTENDS Interpreter

CONSTANT Images         \* what the file may hold: functions from addresses to bytes

\* An image is as long as a VMVALUE can count; keys are characters.
ASSUME ImageAssumption ==
  /\ \A m \in Images : \E n \in 0..(Half - 1) : m \in [0..(n - 1) -> Byte]
  /\ Inputs \subseteq Seq(Byte)
  /\ Junk \subseteq Word

Init == \E bytes \in Images : InitWith(bytes, 0)

Spec == Init /\ [][VmStep]_vmVars

-----------------------------------------------------------------------------
TypeOK ==
  /\ code \in [Image -> Byte]
  /\ pc \in Int /\ sp \in Int /\ fp \in Int
  /\ tos \in Word
  /\ stack \in [Cells -> Word]
  /\ status \in {"running", "halted", "aborted", "wild"}

\* vm_cpush and vm_reserve keep every push out of what lies below the stack:
\* whatever the image makes of sp, a literal, a DUP or a FRAME that is not
\* stopped by "stack overflow" writes below the stack only if CLEAN or a
\* bad frame pointer has moved sp past its top.
Guarded == op \in {OP_LIT, OP_SLIT, OP_DUP} \/ (op = OP_FRAME /\ arg > 0)

StackGuard == (status = "wild" /\ Fetched /\ Guarded) => sp > StackSize
=============================================================================
