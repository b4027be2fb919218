----------------------------- MODULE MCMachine -----------------------------
EXTENDS Machine, SequencesExt

\* Every image of three of these instructions. None of them can print in a loop, so
\* that the output, which is history, stays finite.
Instruction ==
  {<<OP_SLIT, 255>>, <<OP_LIT, 128, 0>>, <<OP_DUP>>, <<OP_DROP>>, <<OP_DIV>>, <<OP_NEG>>, <<OP_LOAD>>,
   <<OP_LOADB>>, <<OP_STORE>>, <<OP_STOREB>>, <<OP_NATIVE, 0, 0>>, <<OP_LREF, 255>>, <<OP_LSET, 254>>,
   <<OP_FRAME, 2>>, <<OP_CLEAN, 2>>, <<OP_RETURN>>, <<OP_RETURNZ>>, <<OP_CALL>>, <<OP_BRF, 255, 251>>,
   <<OP_BR, 0, 1>>,
   <<OP_TRAP, TRAP_GetChar>>, <<OP_TRAP, TRAP_PrintStr>>, <<OP_TRAP, TRAP_PrintFlush>>, <<OP_TRAP, 9>>, <<200>>, <<OP_HALT>>}

Memory(bytes) == [a \in 0..(Len(bytes) - 1) |-> bytes[a + 1]]

MCImages == {Memory(i \o j \o k) : i, j, k \in Instruction}
MCInputs == {<<13>>}
MCJunk == {1}
=============================================================================
