----------------------------- MODULE Breakpoints -----------------------------
(***************************************************************************)
(* The breakpoint component of ups: the table of bp.c driven by its        *)
(* callers, over a target process that starts, maps libraries, dies, is    *)
(* killed and is detached from.                                            *)
(*                                                                         *)
(* The callers' protocol:                                                  *)
(*   - add_breakpoint_object (obj_bpt.c), exec_to_lnum, jump_to_lnum       *)
(*     (exec.c) and dx_run_target_ss (trun_ss.c) look for a breakpoint at  *)
(*     the address and add one only when there is none;                    *)
(*   - the dynamic linker's breakpoint (ao_elflib.c) is added without      *)
(*     looking, once;                                                      *)
(*   - xp_execto (exec.c), which runs a new process to its entry and to    *)
(*     main, adds a breakpoint without looking, also where the user has    *)
(*     one, and recalculate_bpt_addrs (obj_bpt.c) moves all breakpoints of *)
(*     objects without looking: both while the process is being started,   *)
(*     when no breakpoint of the user's is in it yet;                      *)
(*   - breakpoints are disabled with set_enabled only inside exec_to_lnum  *)
(*     and jump_to_lnum, which enable all of them again before the user    *)
(*     gets control back.                                                  *)
(***************************************************************************)
EXTENDS BreakpointTable

CONSTANTS UserAddrs,   \* addresses of source lines, where users put breakpoints
          LinkerAddr,  \* r_debug.r_brk, where the dynamic linker reports a change
          StartAddrs,  \* where a new process is run to: its entry, the body of main
          ExecBp,      \* the structure of xp_execto's breakpoint, made and freed each time
          Junk         \* what malloc may leave in bp_code

ASSUME AddrAssumption ==
  /\ UserAddrs \subseteq Addr /\ LinkerAddr \in Addr /\ Junk \subseteq Code
  /\ StartAddrs \subseteq Addr \ Late   \* in the program itself
  /\ ExecBp \in Bp

VARIABLES t,         \* the breakpoint table
          alive,     \* ip_pid # 0
          attached,  \* ip_attached
          starting,  \* ptrace_create_child is under way
          released   \* the text of the process last detached from

vars == <<t, alive, attached, starting, released>>

(* The breakpoints of the list other than xp_execto's. *)
Listed(x) == x.live \ {ExecBp}

(* No exec_to_lnum or jump_to_lnum is under way. *)
Quiet == \A b \in t.live : t.enabled[b]

(* Breakpoint objects come, go and change when the user is in control, and *)
(* when a run restores the saved ones before it starts the process, which  *)
(* exec_to_lnum does with all breakpoints disabled.                        *)
Editing == ~starting /\ (Quiet \/ ~alive)

Init ==
  /\ t = EmptyTable
  /\ alive = FALSE
  /\ attached = FALSE
  /\ starting = FALSE
  /\ released = Orig

-----------------------------------------------------------------------------
(* Breakpoints come and go. *)

add_breakpoint_object(b, a, junk) ==
  /\ Editing
  /\ b \notin t.live
  /\ dx_addr_to_breakpoint(t, a) = {}
  /\ t' = dx_add_breakpoint(t, b, a, junk, "user")
  /\ UNCHANGED <<alive, attached, starting, released>>

(* The temporary breakpoint of exec_to_lnum, jump_to_lnum and              *)
(* dx_run_target_ss.                                                       *)
AddTemporary(b, a, junk) ==
  /\ ~starting
  /\ b \notin t.live
  /\ dx_addr_to_breakpoint(t, a) = {}
  /\ t' = dx_add_breakpoint(t, b, a, junk, "none")
  /\ UNCHANGED <<alive, attached, starting, released>>

(* elf_get_core_shlibs_info's breakpoint in the dynamic linker. *)
AddLinkerBreakpoint(b, junk) ==
  /\ alive
  /\ ExecBp \notin t.live
  /\ b \notin t.live
  /\ \A c \in t.live : ~t.solib[c]
  /\ t' = install_breakpoint(dx_add_breakpoint(t, b, LinkerAddr, junk, "solib"), b, FALSE)
  /\ UNCHANGED <<alive, attached, starting, released>>

RemoveBreakpoint(b) ==
  /\ ~starting
  /\ b \in t.live
  /\ ~t.solib[b]
  /\ t.user[b] => Editing
  /\ t' = dx_remove_breakpoint(t, b)
  /\ UNCHANGED <<alive, attached, starting, released>>

(* set_bpt_state: neither direction touches the process. *)
set_bpt_state(b, disable) ==
  /\ Editing
  /\ b \in t.live
  /\ t.user[b]
  /\ t' = [t EXCEPT !.inactive[b] = disable]
  /\ UNCHANGED <<alive, attached, starting, released>>

SetGlobal(on) ==
  /\ ~starting
  /\ Quiet
  /\ t' = [t EXCEPT !.global = on]
  /\ UNCHANGED <<alive, attached, starting, released>>

-----------------------------------------------------------------------------
(* ptrace_create_child: a new process runs to its entry, the addresses of  *)
(* the breakpoints are worked out again, and it runs on to main.           *)

(* Nothing looks whether the user has a breakpoint there.  (Without a      *)
(* process the installation fails and the breakpoint goes again.)          *)
xp_execto(a, junk) ==
  /\ starting
  /\ alive
  /\ ExecBp \notin t.live
  /\ t' = install_breakpoint(dx_add_breakpoint(t, ExecBp, a, junk, "none"), ExecBp, FALSE)
  /\ UNCHANGED <<alive, attached, starting, released>>

(* It came back from the wait, whether the process is still there or not. *)
ExecToEnds ==
  /\ ExecBp \in t.live
  /\ t' = dx_remove_breakpoint(t, ExecBp)
  /\ UNCHANGED <<alive, attached, starting, released>>

(* Where the lines may be now: libraries are mapped apart, so two lines do *)
(* not come to lie at one address.                                         *)
Relocations ==
  {move \in [UserAddrs -> UserAddrs] :
     \A a, c \in UserAddrs : move[a] = move[c] => a = c}

(* recalculate_bpt_addrs moves every breakpoint of an object to where its  *)
(* line now is, looking at nothing.  A temporary one stays, in text the    *)
(* loader gave to no other library.                                        *)
recalculate_bpt_addrs(move) ==
  /\ starting
  /\ ExecBp \notin t.live
  /\ \A b, c \in t.live : t.user[b] /\ ~t.user[c] => move[t.addr[b]] # t.addr[c]
  /\ t' = [t EXCEPT !.addr = [b \in Bp |-> IF b \in t.live /\ t.user[b]
                                           THEN move[t.addr[b]] ELSE t.addr[b]]]
  /\ UNCHANGED <<alive, attached, starting, released>>

Started ==
  /\ starting
  /\ ExecBp \notin t.live
  /\ starting' = FALSE
  /\ UNCHANGED <<t, alive, attached, released>>

-----------------------------------------------------------------------------
(* What the execution commands ask of the table. *)

InstallAll ==
  /\ alive /\ ~starting
  /\ t' = install_all_breakpoints(t)
  /\ UNCHANGED <<alive, attached, starting, released>>

(* CT_STEP in dx_run_target_ss. *)
PrepareStep ==
  /\ alive /\ ~starting
  /\ t' = install_solib_event_breakpoint(uninstall_all_breakpoints(t))
  /\ UNCHANGED <<alive, attached, starting, released>>

(* The stop breakpoint of dx_run_target_ss, forced in. *)
ForceInstall(b) ==
  /\ alive /\ ~starting
  /\ Quiet
  /\ b \in t.live
  /\ ~t.xp[b]
  /\ t' = install_breakpoint(t, b, TRUE)
  /\ UNCHANGED <<alive, attached, starting, released>>

(* Taking a breakpoint out to step over it, or because it was the stop     *)
(* breakpoint.                                                             *)
Uninstall(b) ==
  /\ alive
  /\ b \in t.live
  /\ t.xp[b]
  /\ t' = uninstall_breakpoint(t, b)
  /\ UNCHANGED <<alive, attached, starting, released>>

(* ao_restart_child_internal has stepped over the breakpoint it took out.  *)
(* A process that is being started meets only xp_execto's and the dynamic  *)
(* linker's.                                                               *)
PutBack(b) ==
  /\ alive
  /\ b \in t.live
  /\ ~t.xp[b]
  /\ starting => b = ExecBp \/ t.solib[b]
  /\ t' = install_breakpoint(t, b, FALSE)
  /\ UNCHANGED <<alive, attached, starting, released>>

DisableEvery ==
  /\ ~starting
  /\ t' = DisableAll(t)
  /\ UNCHANGED <<alive, attached, starting, released>>

Enable(b) ==
  /\ ~starting
  /\ b \in t.live
  /\ t' = EnableOne(t, b)
  /\ UNCHANGED <<alive, attached, starting, released>>

EnableEvery ==
  /\ ~starting
  /\ t' = EnableAll(t)
  /\ UNCHANGED <<alive, attached, starting, released>>

(* check_for_dynamic_libs asks can_install_all_breakpoints. *)
TestInstall ==
  /\ alive /\ ~starting
  /\ t' = TrialSwap(t)
  /\ UNCHANGED <<alive, attached, starting, released>>

-----------------------------------------------------------------------------
(* The life of the process. *)

Start ==
  /\ ~alive /\ ~starting
  /\ alive' = TRUE
  /\ attached' = FALSE
  /\ starting' = TRUE
  /\ t' = FreshText(t)
  /\ UNCHANGED released

Attach ==
  /\ ~alive /\ ~starting
  /\ Quiet
  /\ alive' = TRUE
  /\ attached' = TRUE
  /\ t' = FreshText(t)
  /\ UNCHANGED <<starting, released>>

(* SR_DIED in ptrace_wait_for_target. *)
Exit ==
  /\ alive
  /\ alive' = FALSE
  /\ t' = FreshText(mark_breakpoints_as_uninstalled(t))
  /\ UNCHANGED <<attached, starting, released>>

Kill ==
  /\ alive /\ ~starting
  /\ Quiet
  /\ alive' = FALSE
  /\ t' = FreshText(mark_breakpoints_as_uninstalled(uninstall_all_breakpoints(t)))
  /\ UNCHANGED <<attached, starting, released>>

(* A slip: the process is let go with its traps. *)
DetachLeavingTraps ==
  /\ alive /\ attached /\ ~starting /\ Quiet
  /\ released' = t.text
  /\ t' = FreshText(uninstall_all_breakpoints(t))
  /\ alive' = FALSE /\ attached' = FALSE
  /\ UNCHANGED starting

Detach ==
  /\ alive
  /\ attached
  /\ ~starting
  /\ Quiet
  /\ LET u == uninstall_all_breakpoints(t)
     IN  /\ released' = u.text
         /\ t' = FreshText(u)
  /\ alive' = FALSE
  /\ attached' = FALSE
  /\ UNCHANGED starting

MapLibrary(a) ==
  /\ alive
  /\ a \in Late \ t.mapped
  /\ t' = MapText(t, a)
  /\ UNCHANGED <<alive, attached, starting, released>>

-----------------------------------------------------------------------------
Next ==
  \/ \E b \in Bp \ {ExecBp}, a \in UserAddrs, junk \in Junk : add_breakpoint_object(b, a, junk)
  \/ \E b \in Bp \ {ExecBp}, a \in UserAddrs, junk \in Junk : AddTemporary(b, a, junk)
  \/ \E b \in Bp \ {ExecBp}, junk \in Junk : AddLinkerBreakpoint(b, junk)
  \/ \E b \in Bp : RemoveBreakpoint(b)
  \/ \E b \in Bp, disable \in BOOLEAN : set_bpt_state(b, disable)
  \/ \E on \in BOOLEAN : SetGlobal(on)
  \/ \E a \in StartAddrs, junk \in Junk : xp_execto(a, junk)
  \/ ExecToEnds
  \/ \E move \in Relocations : recalculate_bpt_addrs(move)
  \/ Started
  \/ InstallAll
  \/ PrepareStep
  \/ \E b \in Bp : ForceInstall(b)
  \/ \E b \in Bp : Uninstall(b)
  \/ \E b \in Bp : PutBack(b)
  \/ DisableEvery
  \/ \E b \in Bp : Enable(b)
  \/ EnableEvery
  \/ TestInstall
  \/ Start
  \/ Attach
  \/ Exit
  \/ Kill
  \/ Detach
  \/ \E a \in Late : MapLibrary(a)

Spec == Init /\ [][Next]_vars

-----------------------------------------------------------------------------
TypeOK ==
  /\ t \in Tables
  /\ alive \in BOOLEAN
  /\ attached \in BOOLEAN
  /\ starting \in BOOLEAN
  /\ released \in [Addr -> Code]

(* "We don't allow more than one breakpoint at a given address."           *)
(* (obj_bpt.c:1524): two breakpoints of the list share an address only     *)
(* while xp_execto, which does not look, has its own there, and then they  *)
(* are never both in the text, where the second one would save the trap of *)
(* the first as the program's opcode.                                      *)
UniqueAddresses ==
  \A b, c \in t.live :
    t.addr[b] = t.addr[c] /\ b # c => ExecBp \in {b, c} /\ ~(t.xp[b] /\ t.xp[c])

(* Every address of the process, except in libraries mapped late, holds    *)
(* the program's own opcode or, exactly where a breakpoint believes it is  *)
(* installed, a trap: no trap outlives its breakpoint and no breakpoint    *)
(* that counts as installed is missing from the text (bp.c, ao_tswap).     *)
TextIntegrity ==
  \A a \in Addr \ Late :
    t.text[a] = IF get_breakpoint_at_addr(t, a) # {} THEN BPT ELSE Orig[a]

(* bp_code is "the opcode that has been replaced" (bp.c:48): what          *)
(* uninstall_breakpoint will write back is the program's own opcode.       *)
SavedOpcode ==
  \A b \in t.live : t.xp[b] /\ t.addr[b] \notin Late => t.code[b] = Orig[t.addr[b]]

(* A process ups detached from runs on with its own text: ao_detach left   *)
(* no trap behind that nobody would handle.                                *)
DetachedClean == \A a \in Addr \ Late : released[a] = Orig[a]

(* With no process nothing is marked as installed, not even a disabled     *)
(* breakpoint, so enabling, disabling or removing a breakpoint never       *)
(* patches a process that is gone (set_enabled, dx_remove_breakpoint).     *)
NothingInstalledWithoutProcess ==
  ~alive => \A b \in Bp : ~t.xp[b] /\ ~t.installed[b]

(* The strengthening that makes these inductive, as a predicate of the     *)
(* table.  The flags of a breakpoint are tied to each other: a breakpoint  *)
(* in the text is enabled and marked, and one marked without being in the  *)
(* text waits, disabled, for exec_to_lnum to end.  Addresses are unique    *)
(* because lines and the dynamic linker are apart; while xp_execto's       *)
(* breakpoint is in the list the only other trap is the dynamic linker's.  *)
FlagsAgree(x) ==
  \A b \in Bp :
    /\ x.installed[b] => b \in x.live
    /\ x.xp[b] => x.enabled[b] /\ x.installed[b]
    /\ x.installed[b] /\ ~x.xp[b] => ~x.enabled[b] /\ ~UserDisabled(x, b)
    /\ x.user[b] => ~x.solib[b]

AddressesApart(x) ==
  /\ \A b, c \in Listed(x) : x.addr[b] = x.addr[c] => b = c
  /\ \A b \in Listed(x) : IF x.solib[b] THEN x.addr[b] = LinkerAddr
                                        ELSE x.addr[b] \in UserAddrs

ExecBpApart(x) ==
  ExecBp \in x.live =>
    /\ x.enabled[ExecBp] /\ ~x.user[ExecBp] /\ ~x.solib[ExecBp]
    /\ x.addr[ExecBp] \in StartAddrs \ {LinkerAddr}
    /\ \A b \in Bp : x.xp[b] => b = ExecBp \/ x.solib[b]

Sound(x) ==
  x \in Tables /\ FlagsAgree(x) /\ AddressesApart(x) /\ ExecBpApart(x) /\ TextAgrees(x)

(* ptrace_create_child hands the process over with no breakpoint of the    *)
(* user's in it and without its own.                                       *)
StartsClean ==
  /\ ExecBp \in t.live => starting
  /\ starting => \A b \in Bp : t.xp[b] => b = ExecBp \/ t.solib[b]

IndInv ==
  /\ Sound(t)
  /\ alive \in BOOLEAN /\ attached \in BOOLEAN /\ starting \in BOOLEAN
  /\ released \in [Addr -> Code]
  /\ StartsClean
  /\ NothingInstalledWithoutProcess
  /\ DetachedClean

(* What the table shows of itself, in the text that is there from the      *)
(* beginning: where breakpoints are, where a trap is wanted, where one is. *)
(* The breakpoint of xp_execto shows as its trap only.                     *)
Places(x) == {a \in Addr \ Late : \E b \in Listed(x) : x.addr[b] = a}
Wanted(x) ==
  {a \in Addr \ Late : \E b \in Listed(x) : x.addr[b] = a /\ x.enabled[b] /\ ~UserDisabled(x, b)}
Armed(x) == {a \in Addr \ Late : \E b \in x.live : x.addr[b] = a /\ x.xp[b]}
TextOf(x) == [a \in Addr \ Late |-> x.text[a]]

Abstract ==
  INSTANCE TrapSet WITH
    Place <- Addr \ Late, Linker <- LinkerAddr, Trap <- BPT, Own <- [a \in Addr \ Late |-> Orig[a]],
    places <- Places(t), wanted <- Wanted(t), armed <- Armed(t), text <- TextOf(t), alive <- alive

(* The list with its marks, forced and failed installations, disabled and  *)
(* enabled breakpoints and saved opcodes (bp.c) does nothing but what      *)
(* TrapSet allows: each operation changes traps only where it says, in     *)
(* particular continuing the target puts in every trap that is wanted.     *)
ImplementsTrapSet == Abstract!Spec
==============================================================================
