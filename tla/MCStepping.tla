------------------------------ MODULE MCStepping -----------------------------
(***************************************************************************)
(* main calls the recursive f, g through a linkage stub and k, which has   *)
(* no source.  Like f's, a call without a result returns to the start of   *)
(* the next line.                                                          *)
(***************************************************************************)
EXTENDS Stepping

CONSTANTS u1, tmp, op, trap

(* 1-5 main, 6-11 f, 12 the stub, 13-15 g, 16-17 k, 18-20 the handler,     *)
(* 21 start.                                                               *)
MCAddr == 1..21
MCOrig == [a \in MCAddr |-> op]
MCKind == <<"push", "call", "call", "call", "ret",
            "push", "op", "call", "op", "op", "ret",
            "jmp", "push", "op", "ret", "push", "ret", "push", "op", "ret", "exit">>
MCSucc == [a \in MCAddr |->
             CASE a = 1 -> {2} [] a = 6 -> {7} [] a = 7 -> {8, 10} [] a = 9 -> {10}
               [] a = 10 -> {11} [] a = 13 -> {14} [] a = 14 -> {15} [] a = 16 -> {17}
               [] a = 18 -> {19} [] a = 19 -> {20} [] OTHER -> {}]
MCCallee == [a \in MCAddr |-> CASE a \in {2, 8} -> 6 [] a = 3 -> 12 [] a = 12 -> 13
                               [] a = 4 -> 16 [] OTHER -> a]
MCFunc == [a \in MCAddr |->
             CASE a \in 1..5 -> "main" [] a \in 6..11 -> "f" [] a = 12 -> "stub"
               [] a \in 13..15 -> "g" [] a \in 16..17 -> "k"
               [] a \in 18..20 -> "handler" [] OTHER -> "start"]
MCLine == <<10, 11, 12, 12, 13, 20, 21, 22, 23, 24, 24, 0, 30, 31, 31, 0, 0, 40, 41, 41, 0>>
MCLineStart == {1, 2, 3, 5, 6, 7, 8, 9, 10, 13, 14, 18, 19}
MCMinBpt == [f \in {"main", "f", "g", "handler"} |->
               CASE f = "main" -> 2 [] f = "f" -> 7 [] f = "g" -> 14 [] OTHER -> 19]
MCBp == {u1, tmp}
MCUserBp == {u1}
MCUserAddrs == {9, 14, 19}
==============================================================================
