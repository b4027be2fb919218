SPECIFICATION Spec
CONSTANTS
  short = short
  long  = long
  FreeSpace <- MCFreeSpace
  BufferTop <- MCBufferTop
  Numbers   <- MCNumbers
  Texts     <- MCTexts
  StrLen    <- MCStrLen
  Files     <- MCFiles
  ContextSize <- MCContextSize
  TreeSizes <- MCTreeSizes
  CodeSizes <- MCCodeSizes
PROPERTY
  CodeBelowHeapTop
