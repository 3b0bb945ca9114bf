------------------------------ MODULE MCTarget -------------------------------
(* A program of five instructions: the start of the dynamic linker 2, its  *)
(* r_brk 4, which is passed when an initialiser loads a library, and later *)
(* when main does, the entry 6, main 8 and a last one, which loops over    *)
(* r_brk or exits.  Opcodes are the addresses, so an opcode written back   *)
(* to the wrong place is visible.                                          *)
EXTENDS Target

Addrs(last) == {2, 4, 6, 8, last}

Program(last) ==
  [a \in Addrs(last) |-> CASE a = 2 -> {6}
                           [] a = 4 -> {8}
                           [] a = 6 -> {4, 8}
                           [] a = 8 -> {last}
                           [] a = last -> {4, Exit}]

(* All of two bytes. *)
MCAddr == Addrs(10)
MCOrig == [a \in MCAddr |-> a]
MCSucc == Program(10)

(* The one at 8 has a single byte: the pc behind its trap is that of the   *)
(* next.                                                                   *)
MCShortAddr == Addrs(9)
MCShortOrig == [a \in MCShortAddr |-> a]
MCShortSucc == Program(9)
==============================================================================
