SPECIFICATION FairSpec
CONSTANTS
  Programs <- MCPrograms
  Disk <- MCDisk
  Workspace = 16
  ContextSize = 2
  MaxFiles = 3
INVARIANTS
  TypeOK
  PromptReadsTerminal
  ReadsExpansion
  FilesAccounted
PROPERTIES
  CommandsEnd
CHECK_DEADLOCK FALSE
