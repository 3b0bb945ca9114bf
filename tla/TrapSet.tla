------------------------------- MODULE TrapSet -------------------------------
(***************************************************************************)
(* What the breakpoint list promises the rest of the debugger: a set of    *)
(* places in the program, the ones where a trap is wanted, and the ones    *)
(* that have it.  The process shows traps there and its own opcodes        *)
(* everywhere else, at every moment.  Nothing of the list is visible: not  *)
(* its order, its marks or its saved opcodes.                              *)
(***************************************************************************)
CONSTANTS Place,   \* the addresses of the program
          Linker,  \* where the dynamic linker reports to the debugger
          Trap,    \* the trap opcode
          Own      \* the program's own text

VARIABLES places,  \* where there is a breakpoint
          wanted,  \* where continuing the target puts in a trap
          armed,   \* where there is a trap
          text,    \* the text of the process
          alive    \* there is a process

vars == <<places, wanted, armed, text, alive>>

Patched(A) == [a \in Place |-> IF a \in A THEN Trap ELSE Own[a]]

Init ==
  /\ places = {} /\ wanted = {} /\ armed = {}
  /\ text = Own
  /\ alive = FALSE

(* Only a process can have traps. *)
Change(P, W, A) ==
  /\ places' = P /\ wanted' = W /\ armed' = A
  /\ text' = Patched(A)
  /\ A # {} => alive
  /\ UNCHANGED alive

(* A place is new; the linker's gets its trap at once. *)
Add(a) ==
  /\ a \notin places
  /\ \E W \in {wanted, wanted \union {a}} :
       \E A \in {armed, armed \union (W \intersect {a} \intersect {Linker})} : Change(places \union {a}, W, A)

(* Its trap goes with it. *)
Remove(a) == Change(places \ {a}, wanted \ {a}, armed \ {a})

(* Libraries were mapped elsewhere than before: places move, all but the   *)
(* linker's, before any of them has a trap.                                *)
Move ==
  /\ armed \subseteq {Linker}
  /\ Linker \in places' <=> Linker \in places
  /\ wanted' \subseteq places'
  /\ Change(places', wanted', armed)

(* A new process is run to a place, whether or not there is a breakpoint,  *)
(* before any other trap but the linker's is in.                           *)
Visit(a) == armed \subseteq {Linker} /\ Change(places, wanted, armed \union {a})

(* Activating or inactivating breakpoints leaves the process alone. *)
Choose == wanted' \subseteq places /\ Change(places, wanted', armed)

(* Continuing the target: every trap that is wanted is in. *)
ArmAll == Change(places, wanted, armed \union wanted)

(* Stepping it: none but the linker's is. *)
ArmLinker == Change(places, wanted, wanted \intersect {Linker})

Force(a) == a \in places /\ Change(places, wanted, armed \union {a})

Disarm(a) == Change(places, wanted, armed \ {a})

(* exec_to_lnum: none is wanted any more, then one, then all again. *)
DisableAll == Change(places, {}, {})

Enable ==
  /\ wanted \subseteq wanted' /\ wanted' \subseteq places
  /\ armed \subseteq armed' /\ armed' \subseteq armed \union wanted'
  /\ Change(places, wanted', armed')

Begin == ~alive /\ alive' = TRUE /\ text' = Own /\ UNCHANGED <<places, wanted, armed>>

End ==
  /\ alive /\ alive' = FALSE
  /\ armed' = {} /\ text' = Own
  /\ UNCHANGED <<places, wanted>>

Next ==
  \/ ArmAll \/ ArmLinker \/ DisableAll \/ Choose \/ Enable
  \/ \E a \in Place : Add(a) \/ Remove(a) \/ Force(a) \/ Disarm(a) \/ Visit(a)
  \/ Move
  \/ Begin \/ End

Spec == Init /\ [][Next]_vars
==============================================================================
