---------------------------- MODULE MCEditMemory ----------------------------
(***************************************************************************)
(* Twelve words above the compiler's context, as in MCEditBuffer: room for *)
(* two long lines or three short ones.                                     *)
(***************************************************************************)
EXTENDS EditMemory

CONSTANTS short, long, code

MCFreeSpace   == 8
MCBufferTop   == 56
MCNumbers     == {105, 200}
MCTexts       == {short, long}
MCStrLen      == [t \in MCTexts |-> IF t = short THEN 2 ELSE 9]
MCContextSize == 4
MCTreeSizes   == {0}
MCCodeSizes   == {13, 30}
=============================================================================
