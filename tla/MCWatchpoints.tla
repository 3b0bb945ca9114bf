---------------------------- MODULE MCWatchpoints ----------------------------
(* Two areas on one page, one of which is too large for a debug register,  *)
(* and a machine with a single register.                                   *)
EXTENDS Watchpoints

MCPageOf == [p \in Place |-> "page"]
==============================================================================
