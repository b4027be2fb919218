------------------------------- MODULE Words -------------------------------
(***************************************************************************)
(* VMVALUE, its arithmetic, and the opcodes: compile_types.h, the enum of  *)
(* vmopcodes.h and the operators of vm_execute.  The parser folds its      *)
(* constants with the same operators.                                      *)
(***************************************************************************)
EXTENDS Integers, FiniteSetsExt, Functions

CONSTANT WordSize       \* sizeof(VMVALUE)

\* A byte that is loaded does not become negative.
ASSUME WordAssumption == WordSize \in Nat \ {0, 1}

\* The k-th byte of a word counts 256^k.
Weight(k) == 2 ^ (8 * k)

Byte    == 0..255
Modulus == Weight(WordSize)
Half    == Modulus \div 2
Word    == (-Half)..(Half - 1)

\* Fault: arithmetic wider than VMVALUE.
NoWrap(n) == n

\* VMVALUE arithmetic wraps around.
Wrap(n) == ((n + Half) % Modulus) - Half

VMTRUE  == 1
VMFALSE == 0
Truth(b) == IF b THEN VMTRUE ELSE VMFALSE

OP_HALT    == 0
OP_BRT     == 1
OP_BRTSC   == 2
OP_BRF     == 3
OP_BRFSC   == 4
OP_BR      == 5
OP_NOT     == 6
OP_NEG     == 7
OP_ADD     == 8
OP_SUB     == 9
OP_MUL     == 10
OP_DIV     == 11
OP_REM     == 12
OP_BNOT    == 13
OP_BAND    == 14
OP_BOR     == 15
OP_BXOR    == 16
OP_SHL     == 17
OP_SHR     == 18
OP_LT      == 19
OP_LE      == 20
OP_EQ      == 21
OP_NE      == 22
OP_GE      == 23
OP_GT      == 24
OP_LIT     == 25
OP_SLIT    == 26
OP_LOAD    == 27
OP_LOADB   == 28
OP_STORE   == 29
OP_STOREB  == 30
OP_LREF    == 31
OP_LSET    == 32
OP_INDEX   == 33
OP_CALL    == 34
OP_FRAME   == 35
OP_RETURN  == 36
OP_DROP    == 37
OP_DUP     == 38
OP_NATIVE  == 39
OP_TRAP    == 40
OP_RETURNZ == 41
OP_CLEAN   == 42

\* C's division truncates towards zero.
Abs(n) == IF n < 0 THEN -n ELSE n
Quotient(x, y) == IF (x < 0) = (y < 0) THEN Abs(x) \div Abs(y) ELSE -(Abs(x) \div Abs(y))

Bit(n, k)    == (n \div 2 ^ k) % 2
BitWise(F(_, _), x, y) ==
  Wrap(SumFunction([k \in 0..(8 * WordSize - 1) |-> F(Bit(x, k), Bit(y, k)) * 2 ^ k]))

\* The processor takes a shift count modulo the width.
ShiftCount(n) == n % (8 * WordSize)

Binary(op, x, y) ==
  CASE op = OP_ADD  -> Wrap(x + y)
    [] op = OP_SUB  -> Wrap(x - y)
    [] op = OP_MUL  -> Wrap(x * y)
    [] op = OP_DIV  -> IF y = 0 THEN 0 ELSE Quotient(x, y)
    [] op = OP_REM  -> IF y = 0 THEN 0 ELSE x - y * Quotient(x, y)
    [] op = OP_BAND -> BitWise(LAMBDA a, b : a * b, x, y)
    [] op = OP_BOR  -> BitWise(LAMBDA a, b : a + b - a * b, x, y)
    [] op = OP_BXOR -> BitWise(LAMBDA a, b : (a + b) % 2, x, y)
    [] op = OP_SHL  -> Wrap((x % 2 ^ (8 * WordSize - ShiftCount(y))) * 2 ^ ShiftCount(y))
    [] op = OP_SHR  -> x \div 2 ^ ShiftCount(y)
    [] op = OP_LT   -> Truth(x < y)
    [] op = OP_LE   -> Truth(x <= y)
    [] op = OP_EQ   -> Truth(x = y)
    [] op = OP_NE   -> Truth(x # y)
    [] op = OP_GE   -> Truth(x >= y)
    [] op = OP_GT   -> Truth(x > y)
    [] op = OP_INDEX -> Wrap(x + y * WordSize)

BinaryOps == (OP_ADD..OP_GT \ {OP_BNOT}) \cup {OP_INDEX}

Unary(op, x) == CASE op = OP_NOT  -> Truth(x = VMFALSE)
                  [] op = OP_NEG  -> Wrap(-x)
                  [] op = OP_BNOT -> -x - 1

UnaryOps == {OP_NOT, OP_NEG, OP_BNOT}
=============================================================================
