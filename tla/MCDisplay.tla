------------------------------ MODULE MCDisplay ------------------------------
(***************************************************************************)
(* Two files, each with a variable and an expression to show, in a window  *)
(* that has room for one or for two names on a line.                       *)
(***************************************************************************)
EXTENDS Display

MCFiles == <<"a", "b">>
==============================================================================
