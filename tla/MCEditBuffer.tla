---------------------------- MODULE MCEditBuffer ----------------------------
(***************************************************************************)
(* A workspace of 48 bytes above the compiler's context: room for two      *)
(* lines of the long text or three of the short one.                       *)
(***************************************************************************)
EXTENDS EditBuffer

CONSTANTS short, long   \* two texts: records of 16 and of 24 bytes

MCFreeSpace   == 8
MCBufferTop   == 56
MCNumbers     == {0, 105, 200}
MCTexts       == {short, long}
MCStrLen      == [t \in MCTexts |-> IF t = short THEN 2 ELSE 9]
MCFiles       == {<<>>, <<short, long, long, short>>}
\* A compilation that has the workspace to itself fits; with two long lines
\* its contexts do not; code of 13 bytes overruns after two or three lines.
MCContextSize == 4
MCTreeSizes   == {0, 8}
MCCodeSizes   == {0, 13}
=============================================================================
