CONSTANTS
  Files <- MCFiles Names = {"v", "e"} Vars = {"v"} MaxKids = 2 Widths = {1, 2} NoFile = NoFile MaxCmd = 3 MaxProc = 4
CHECK_DEADLOCK FALSE
SPECIFICATION Spec
INVARIANTS TypeOK LayoutExact LinesFound ShownAsLeft
