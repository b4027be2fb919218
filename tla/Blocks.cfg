SPECIFICATION Spec
CONSTANTS
  MaxBlocks = 3
  MaxLines = 6
INVARIANTS
  TypeOK
  TreeMatchesText
  AcceptsNestedBlocks
  GeneratedOnce
CHECK_DEADLOCK FALSE
