SPECIFICATION Spec
CONSTANTS
  short = short
  long  = long
  code  = code
  Code <- code
  FreeSpace <- MCFreeSpace
  BufferTop <- MCBufferTop
  Numbers   <- MCNumbers
  Texts     <- MCTexts
  StrLen    <- MCStrLen
  ContextSize <- MCContextSize
  TreeSizes <- MCTreeSizes
  CodeSizes <- MCCodeSizes
INVARIANTS
  TypeOK
PROPERTIES
  ImplementsEditBuffer
