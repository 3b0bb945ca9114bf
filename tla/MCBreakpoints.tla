---------------------------- MODULE MCBreakpoints ----------------------------
(* A small instance of Breakpoints: distinct opcodes tell the addresses    *)
(* apart, so an opcode written back to the wrong place is visible.         *)
EXTENDS Breakpoints, TLC

CONSTANTS a1, aL, aD, o1, o2

(* a1 is the first line of main, aL is in the dynamic linker, aD is a      *)
(* source line of a library that is mapped late.                           *)
MCOrig == (a1 :> o1) @@ (aL :> o2) @@ (aD :> o1)

Symmetry == Permutations(Bp \ {ExecBp})
==============================================================================
