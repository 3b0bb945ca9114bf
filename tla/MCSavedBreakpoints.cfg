SPECIFICATION Spec
CONSTANTS
  Line = {"first", "second", "puts"}
  Bare = {"puts"}
  CodeLine = {"decl"}
  Entry <- MCEntry
  FileOf <- MCFileOf
  Config <- MCConfig
  MaxCmd = 3
  MaxProc = 2
INVARIANTS TypeOK OnlyWhereAsked
PROPERTIES KeptThrough NoneRevived
