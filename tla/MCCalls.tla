------------------------------- MODULE MCCalls -------------------------------
(***************************************************************************)
(* The program, 1 over and over, calls function h, 2 and 3; f, 4 and 5,    *)
(* which users call, calls h as well: when the target is stopped in h, h   *)
(* is entered again on the way.  6 is mprotect.  No function calls itself, *)
(* so the stack stays bounded.                                             *)
(***************************************************************************)
EXTENDS Calls

CONSTANTS u1, c1, c2, op, trap, hdl, segv

MCAddr == 1..6
MCOrig == [a \in MCAddr |-> op]
MCSucc == <<{1}, {3}, {3}, {5}, {5}, {6}>>
MCCallee == [a \in {1, 4} |-> 2]
MCFunc == <<"main", "h", "h", "f", "f", "mprotect">>
MCBp == {u1, c1, c2}
MCSig == {hdl, segv}

(* One signal has a handler; SIGSEGV kills. *)
MCState == [s \in MCSig |-> IF s = hdl THEN "CAUGHT" ELSE "DEFAULT"]
MCAttrs == [s \in MCSig |-> IF s = hdl THEN {"CONT", "ACCEPT"} ELSE {"ACCEPT"}]
==============================================================================
