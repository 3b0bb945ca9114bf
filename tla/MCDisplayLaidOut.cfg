CONSTANTS
  Files <- MCFiles Names = {"v", "e"} Vars = {"v"} MaxKids = 2 Widths = {1, 2} NoFile = NoFile MaxCmd = 2 MaxProc = 2
CHECK_DEADLOCK FALSE
SPECIFICATION Spec
INVARIANT EverythingLaidOut
