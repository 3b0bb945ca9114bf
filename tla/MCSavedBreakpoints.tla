-------------------------- MODULE MCSavedBreakpoints --------------------------
(* A function with two lines, a library function without line numbers and  *)
(* a declaration with interpreted code; the .config file has a breakpoint  *)
(* at the second line.                                                     *)
EXTENDS SavedBreakpoints

MCEntry == [p \in {"first", "second", "puts"} |-> IF p = "second" THEN "first" ELSE p]
MCFileOf == [p \in {"first", "second", "puts", "decl"} |->
               IF p = "puts" THEN "libc" ELSE "main.c"]
MCConfig == <<[at |-> "second", inactive |-> FALSE, code |-> FALSE]>>
==============================================================================
