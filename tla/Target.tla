------------------------------- MODULE Target --------------------------------
(***************************************************************************)
(* Starting, continuing, stopping and letting go of a target process       *)
(* through ptrace: the Start, Cont, Stop, Attach, Detach and Kill commands *)
(* (exec.c), the RT_CONT loop of dx_run_target_ss (trun_ss.c),             *)
(* ao_restart_child (ao_target.c) and ptrace_wait_for_target (ao_ptrace.c) *)
(* over the breakpoint table of BreakpointTable, on Linux and x86.         *)
(*                                                                         *)
(* Two actors take turns with the debugger: the kernel, which runs the     *)
(* process and delivers signals, and the user, whose mouse raises SIGIO    *)
(* and may ask to Stop at any time.                                        *)
(***************************************************************************)
EXTENDS BreakpointTable, Integers, FiniteSets

CONSTANTS UserBp,      \* breakpoints of breakpoint objects
          LinkerBp,    \* the breakpoint ups puts in the dynamic linker
          TempBp,      \* the breakpoint xp_execto adds and removes
          NoBp,        \* no breakpoint is being stepped over
          UserAddrs,   \* where users put breakpoints
          LdAddr,      \* where exec leaves the pc: the start of ld.so
          EntryAddr,   \* xp_get_entryaddr
          LinkerAddr,  \* r_debug.r_brk
          MainAddr,    \* main_min_bpt_addr
          Exit,        \* the successor of an instruction that ends the process
          Succ,        \* Succ[a]: where the instruction at a may go
          Sig,         \* signals other than SIGTRAP
          ContSig,     \* SGH_CONT: the target is continued automatically
          CaughtSig,   \* the target has a handler (SGH_CAUGHT)
          AcceptSig,   \* SGH_ACCEPT: the target gets the signal
          FatalSig,    \* sig_is_fatal
          Deadly,      \* the target's action for the signal is to die
          AttachSig,   \* SIGSTOP, which an attached process stops with
          MaxSig,      \* bound: signals sent to the target
          MaxX         \* bound: X events while a command runs

ASSUME TargetAssumption ==
  /\ Bp = UserBp \union {LinkerBp, TempBp}
  /\ LinkerBp \notin UserBp /\ TempBp \notin UserBp /\ LinkerBp # TempBp /\ NoBp \notin Bp
  /\ Addr \subseteq Nat /\ Exit \in Nat \ Addr /\ 0 \notin Addr
  /\ UserAddrs \union {LdAddr, EntryAddr, LinkerAddr, MainAddr} \subseteq Addr
  /\ LinkerAddr \notin UserAddrs \union {MainAddr}   \* ld.so, not the program
  /\ Late = {}
  /\ Succ \in [Addr -> SUBSET (Addr \union {Exit})]
  /\ ContSig \union CaughtSig \union AcceptSig \union FatalSig \union Deadly \union {AttachSig} \subseteq Sig
  /\ Sig \intersect {"TRAP", "exit", "none"} = {}
  /\ MaxSig \in Nat /\ MaxX \in Nat

VARIABLES
  t,          \* the breakpoint table and the text of the process
  kern,       \* "none", "stopped", or running: "cont", "step"
  kpc,        \* the pc in the kernel's copy of the registers
  real,       \* history: the instruction the program itself would run next
  pend,       \* signals the process has not taken yet
  status,     \* what wait() will return: "none", "TRAP", a signal, "exit"
  pid,        \* ip_pid # 0
  attached,   \* ip_attached
  stopres,    \* ip_stopres
  lastsig,    \* ip_lastsig
  restart_pc, \* ip_restart_pc
  hit_solib,  \* xp_hit_solib_event
  ctl,        \* the point of control, see below
  caller,     \* whom xp_restart_child, or the first wait, returns to
  over,       \* the breakpoint ao_restart_child_internal is stepping over
  sig,        \* the signal to restart with
  ustop,      \* user_stopped_target
  press,      \* a press of Stop is queued
  told,       \* the instruction the last stop that was acted on was at
  nsig, nx

kernelVars == <<kern, kpc, real, pend, status>>
ipVars == <<pid, attached, stopres, lastsig, restart_pc, hit_solib>>
ctlVars == <<ctl, caller, over, sig, ustop, press>>
histVars == <<told, nsig, nx>>
vars == <<t, kernelVars, ipVars, ctlVars, histVars>>

(* Points of control.                                                      *)
(*   idle      the user has the debugger                                   *)
(*   loop      the top of the loop of dx_run_target_ss                     *)
(*   restart   the top of ao_restart_child_internal                        *)
(*   wait      in wait_with_intr, no status taken yet                      *)
(*   reaped    wait() has returned, its result not yet                     *)
(*   stepped   back from the single step over a breakpoint                 *)
(*   returned  ao_restart_child_internal, or the first wait, returned      *)
(*   execto    the top of xp_execto                                        *)
(*   linker    at the program's entry, before the libraries are looked at  *)
(*   created   back from xp_create_child, in dx_start                      *)
(*   panic     the debugger called panic()                                 *)
Points == {"idle", "loop", "restart", "wait", "reaped", "stepped", "returned",
           "execto", "linker", "created", "panic"}

(* Who waits for the target.                                               *)
(*   exec, attach   ptrace_create_child, ptrace_attach_to_process          *)
(*   entry, main    xp_execto, called by ptrace_create_child               *)
(*   run            dx_run_target_ss                                       *)
(*   libs           the same, called by check_for_dynamic_libs             *)
Callers == {"exec", "attach", "entry", "main", "run", "libs"}

Running == kern \in {"cont", "step"}
Waiting == ctl \in {"wait", "reaped"}

Init ==
  /\ \E S \in SUBSET UserBp : \E where \in [S -> UserAddrs], off \in SUBSET S :
        /\ \A b, c \in S : where[b] = where[c] => b = c
        /\ t = SessionList(S, {}, where, off, TRUE)
  /\ kern = "none" /\ kpc = 0 /\ real = 0 /\ pend = {} /\ status = "none"
  /\ pid = FALSE /\ attached = FALSE /\ stopres = "DIED" /\ lastsig = "none"
  /\ restart_pc = 0 /\ hit_solib = FALSE
  /\ ctl = "idle" /\ caller = "run" /\ over = NoBp /\ sig = "none"
  /\ ustop = FALSE /\ press = FALSE
  /\ told = 0 /\ nsig = 0 /\ nx = 0

-----------------------------------------------------------------------------
(* The kernel. *)

(* The process stops, or is gone, with the given wait() status. *)
Report(k, s) == kern' = k /\ status' = s

(* Run one instruction.  An address inside an instruction decodes to       *)
(* anything at all.                                                        *)
Execute ==
  /\ Running
  /\ IF kpc \in Addr /\ t.text[kpc] = BPT
     THEN kpc' = kpc + 1 /\ Report("stopped", "TRAP") /\ UNCHANGED <<real, told>>
     ELSE \E n \in IF kpc \in Addr THEN Succ[kpc] ELSE Addr \union {Exit} :
            /\ kpc' = n /\ real' = n /\ told' = 0
            /\ \/ n = Exit /\ Report("none", "exit")
               \/ n # Exit /\ kern = "cont" /\ UNCHANGED <<kern, status>>
               \/ n # Exit /\ kern = "step" /\ Report("stopped", "TRAP")
  /\ UNCHANGED <<t, pend, ipVars, ctlVars, nsig, nx>>

(* A pending signal stops a traced process before it runs on. *)
TakeSignal(s) ==
  /\ Running
  /\ s \in pend
  /\ pend' = pend \ {s}
  /\ Report("stopped", s)
  /\ UNCHANGED <<t, kpc, real, ipVars, ctlVars, histVars>>

SendSignal(s) ==
  /\ kern # "none"
  /\ nsig < MaxSig
  /\ pend' = pend \union {s}
  /\ nsig' = nsig + 1
  /\ UNCHANGED <<t, kern, kpc, real, status, ipVars, ctlVars, told, nx>>

(* SIGKILL from elsewhere, while the process runs or is stopped for the     *)
(* user to look at.                                                        *)
Killed ==
  /\ Running \/ (kern = "stopped" /\ ctl = "idle")
  /\ nsig < MaxSig
  /\ nsig' = nsig + 1
  /\ Report("none", "exit")
  /\ pend' = {}
  /\ UNCHANGED <<t, kpc, real, ipVars, ctlVars, told, nx>>

(* PTRACE_CONT and PTRACE_SINGLESTEP by way of e_ptrace: the pc is set     *)
(* first when get_restart_pc says so, which it does after SR_BPT only.     *)
(* (e_ptrace panics when the process is gone.)                             *)
(* A slip: the pc is left where the trap moved it. *)
ResumeWithoutPc(how, s) ==
  /\ kern # "none"
  /\ IF s \in Deadly THEN Report("none", "exit") ELSE kern' = how /\ UNCHANGED status
  /\ ustop' = FALSE
  /\ UNCHANGED <<kpc, real, pend>>

Resume(how, s) ==
  /\ kern # "none"
  /\ kpc' = IF stopres = "BPT" THEN restart_pc ELSE kpc
  /\ IF s \in Deadly THEN Report("none", "exit") ELSE kern' = how /\ UNCHANGED status
  /\ ustop' = FALSE
  /\ UNCHANGED <<real, pend>>

-----------------------------------------------------------------------------
(* ptrace_wait_for_target. *)

Reap ==
  /\ ctl = "wait"
  /\ status # "none" \/ kern = "none"   \* or ECHILD
  /\ ctl' = "reaped"
  /\ UNCHANGED <<t, kernelVars, ipVars, caller, over, sig, ustop, press, histVars>>

(* SIGIO: stop_target longjmps out of wait_with_intr, whether wait() had   *)
(* returned or not, and user_wants_stop looks for a press of Stop.         *)
Interrupt(stop) ==
  /\ Waiting
  /\ nx < MaxX
  /\ nx' = nx + 1
  /\ ctl' = "wait"
  /\ status' = IF ctl = "reaped" THEN "none" ELSE status
  /\ pend' = IF stop /\ kern # "none" THEN pend \union {"TRAP"} ELSE pend
  /\ ustop' = (ustop \/ stop)
  /\ UNCHANGED <<t, kern, kpc, real, ipVars, caller, over, sig, press, told, nsig>>

(* A press while the debugger is busy raises no SIGIO and stays queued. *)
PressStop ==
  /\ ctl \notin {"idle", "wait", "reaped", "panic"}
  /\ nx < MaxX
  /\ nx' = nx + 1
  /\ press' = TRUE
  /\ UNCHANGED <<t, kernelVars, ipVars, ctl, caller, over, sig, ustop, told, nsig>>

(* ptrace_update_regs: a trap has moved the pc past itself. *)
AtBreakpoint == get_breakpoint_at_addr(t, kpc - 1) # {}

StopReason ==
  IF status # "TRAP" THEN "SIG"
  ELSE IF ustop \/ press THEN "USER"
  ELSE IF AtBreakpoint THEN "BPT"
  ELSE "SSTEP"

ptrace_wait_for_target ==
  /\ ctl = "reaped"
  /\ press' = FALSE
  /\ ctl' = IF over = NoBp THEN "returned" ELSE "stepped"
  /\ status' = "none"
  /\ IF kern # "none"
     THEN /\ stopres' = StopReason
          /\ lastsig' = IF status = "TRAP" THEN "none" ELSE status
          /\ restart_pc' = IF AtBreakpoint THEN kpc - 1 ELSE kpc
          /\ UNCHANGED <<t, pid, pend>>
     ELSE /\ stopres' = "DIED"
          /\ lastsig' = "none"
          /\ restart_pc' = 0
          /\ t' = FreshText(mark_breakpoints_as_uninstalled(t))
          /\ pid' = FALSE
          /\ pend' = {}
  /\ ustop' = (ustop \/ press)
  /\ UNCHANGED <<kern, kpc, real, attached, hit_solib, caller, over, sig, histVars>>

-----------------------------------------------------------------------------
(* ao_restart_child, with CT_CONT. *)

Restart ==
  /\ ctl = "restart"
  /\ ctl' = "wait"
  /\ LET here == get_breakpoint_at_addr(t, restart_pc)
     IN  \/ /\ here = {}
            /\ Resume("cont", sig)
            /\ UNCHANGED <<t, over>>
         \/ /\ here # {}
            /\ over' = FirstOf(t, here)
            /\ t' = uninstall_breakpoint(t, over')
            /\ Resume("step", sig)
  /\ UNCHANGED <<ipVars, caller, sig, press, histVars>>

(* The process was killed behind the debugger's back: e_ptrace panics. *)
RestartGone ==
  /\ ctl = "restart"
  /\ kern = "none"
  /\ ctl' = "panic"
  /\ UNCHANGED <<t, kernelVars, ipVars, caller, over, sig, ustop, press, histVars>>

(* A slip: the breakpoint stepped over is forgotten. *)
ForgetBreakpoint ==
  /\ ctl = "stepped"
  /\ over' = NoBp
  /\ \/ /\ stopres # "SSTEP"
        /\ ctl' = "returned"
        /\ UNCHANGED <<sig, ustop, kernelVars>>
     \/ /\ stopres = "SSTEP"
        /\ ctl' = "wait"
        /\ sig' = "none"
        /\ Resume("cont", "none")
  /\ UNCHANGED <<t, ipVars, caller, press, histVars>>

(* xp_tswap panics when the process it should patch is gone; a disabled    *)
(* breakpoint is not put back and so not missed.                           *)
ReplaceBreakpoint ==
  /\ ctl = "stepped"
  /\ over' = NoBp
  /\ IF ~pid /\ ~UserDisabled(t, over)
     THEN ctl' = "panic" /\ UNCHANGED <<t, sig, ustop, kernelVars>>
     ELSE /\ t' = IF pid THEN install_breakpoint(t, over, FALSE) ELSE t
          /\ \/ /\ stopres # "SSTEP"
                /\ ctl' = "returned"
                /\ UNCHANGED <<sig, ustop, kernelVars>>
             \/ /\ stopres = "SSTEP"
                /\ ctl' = "wait"
                /\ sig' = "none"
                /\ Resume("cont", "none")
  /\ UNCHANGED <<ipVars, caller, press, histVars>>

(* The loop of ao_restart_child: a signal that does not stop the target,   *)
(* and has no handler in it, is passed on.                                 *)
PassOn == stopres = "SIG" /\ lastsig \in ContSig \ CaughtSig

Again ==
  /\ ctl = "returned"
  /\ caller \notin {"exec", "attach"}
  /\ PassOn
  /\ sig' = lastsig
  /\ ctl' = "restart"
  /\ UNCHANGED <<t, kernelVars, ipVars, caller, over, ustop, press, histVars>>

(* A slip: no caller expects a signal. *)
BackWithoutSignal(c) == ctl = "returned" /\ caller = c /\ stopres # "SIG"

(* ao_restart_child has returned to its caller. *)
Back(c) ==
  /\ ctl = "returned"
  /\ caller = c
  /\ c \notin {"exec", "attach"} => ~PassOn

(* The value of xp_hit_solib_event it leaves. *)
HitSolib ==
  IF stopres = "BPT"
  THEN LET here == get_breakpoint_at_addr(t, restart_pc)
       IN  here # {} /\ t.solib[FirstOf(t, here)]
  ELSE hit_solib

-----------------------------------------------------------------------------
(* The commands. *)

GoIdle == ctl' = "idle" /\ press' = FALSE /\ told' = restart_pc

(* Start, or Cont, without a process: vfork and execve, or a failure to.   *)
(* The process stops in the dynamic linker, before the program's entry.    *)
Start ==
  /\ ctl = "idle" /\ ~pid
  /\ \/ kpc' = LdAddr /\ real' = LdAddr /\ Report("stopped", "TRAP")
     \/ UNCHANGED <<kpc, real>> /\ Report("none", "exit")
  /\ pend' = {}
  /\ pid' = TRUE /\ attached' = FALSE
  /\ t' = FreshText(t)
  /\ ctl' = "wait" /\ caller' = "exec" /\ over' = NoBp /\ ustop' = FALSE
  /\ UNCHANGED <<stopres, lastsig, restart_pc, hit_solib, sig, press, told, nsig, nx>>

Attach(a) ==
  /\ ctl = "idle" /\ ~pid
  /\ kpc' = a /\ real' = a /\ Report("stopped", AttachSig)
  /\ pend' = {}
  /\ pid' = TRUE /\ attached' = TRUE
  /\ t' = FreshText(t)
  /\ ctl' = "wait" /\ caller' = "attach" /\ over' = NoBp /\ ustop' = FALSE
  /\ UNCHANGED <<stopres, lastsig, restart_pc, hit_solib, sig, press, told, nsig, nx>>

Attached ==
  /\ Back("attach")
  /\ GoIdle
  /\ UNCHANGED <<t, kernelVars, ipVars, caller, over, sig, ustop, nsig, nx>>

Cont ==
  /\ ctl = "idle" /\ pid
  /\ ctl' = "loop" /\ caller' = "run"
  /\ UNCHANGED <<t, kernelVars, ipVars, over, sig, ustop, press, told, nsig, nx>>

Kill ==
  /\ ctl = "idle" /\ pid
  /\ t' = FreshText(mark_breakpoints_as_uninstalled(uninstall_all_breakpoints(t)))
  /\ kern' = "none" /\ status' = "none" /\ pend' = {}
  /\ pid' = FALSE /\ stopres' = "DIED" /\ lastsig' = "none" /\ restart_pc' = 0
  /\ UNCHANGED <<kpc, real, attached, hit_solib, ctlVars, histVars>>

(* PTRACE_DETACH takes no pc: the process goes on from the kernel's. *)
Detach ==
  /\ ctl = "idle" /\ pid /\ attached
  /\ kern # "none"
  /\ t' = FreshText(uninstall_all_breakpoints(t))
  /\ kern' = "none" /\ status' = "none" /\ pend' = {}
  /\ pid' = FALSE /\ attached' = FALSE
  /\ UNCHANGED <<kpc, real, stopres, lastsig, restart_pc, hit_solib, ctlVars,
                 told, nsig, nx>>

DetachGone ==
  /\ ctl = "idle" /\ pid /\ attached
  /\ kern = "none"
  /\ ctl' = "panic"
  /\ t' = FreshText(uninstall_all_breakpoints(t))
  /\ UNCHANGED <<kernelVars, ipVars, caller, over, sig, ustop, press, histVars>>

(* set_bpt_state, between two commands. *)
SetState(b) ==
  /\ ctl = "idle"
  /\ b \in t.live
  /\ t' = [t EXCEPT !.inactive[b] = ~@]
  /\ UNCHANGED <<kernelVars, ipVars, ctlVars, histVars>>

-----------------------------------------------------------------------------
(* dx_start and ptrace_create_child. *)

(* xp_execto, up to its first restart: a breakpoint is added without       *)
(* looking for one at that address.  xp_tswap panics when the process is   *)
(* gone.                                                                   *)
xp_execto ==
  /\ ctl = "execto"
  /\ LET a == IF caller = "entry" THEN EntryAddr ELSE MainAddr
     IN  IF pid
         THEN /\ t' = install_breakpoint(dx_add_breakpoint(t, TempBp, a, NoCode, "none"),
                                         TempBp, FALSE)
              /\ ctl' = "restart"
         ELSE ctl' = "panic" /\ UNCHANGED t
  /\ sig' = "none"
  /\ UNCHANGED <<kernelVars, ipVars, caller, over, ustop, press, histVars>>

(* It restarts the target over signals, without passing them on. *)
IgnoreSignal ==
  /\ Back("entry") \/ Back("main")
  /\ stopres = "SIG" /\ lastsig \notin FatalSig
  /\ ctl' = "restart" /\ sig' = "none"
  /\ UNCHANGED <<t, kernelVars, ipVars, caller, over, ustop, press, histVars>>

(* A slip: xp_execto returns early when the target died. *)
ExecToEndsEarly(c) ==
  /\ Back(c)
  /\ ~(stopres = "SIG" /\ lastsig \notin FatalSig)
  /\ t' = IF stopres = "DIED" THEN t ELSE dx_remove_breakpoint(t, TempBp)
  /\ hit_solib' = HitSolib
  /\ UNCHANGED <<kernelVars, pid, attached, stopres, lastsig, restart_pc,
                 over, sig, ustop, press, histVars>>

(* The end of xp_execto. *)
ExecToEnds(c) ==
  /\ Back(c)
  /\ ~(stopres = "SIG" /\ lastsig \notin FatalSig)
  /\ t' = dx_remove_breakpoint(t, TempBp)
  /\ hit_solib' = HitSolib
  /\ UNCHANGED <<kernelVars, pid, attached, stopres, lastsig, restart_pc,
                 over, sig, ustop, press, histVars>>

Execed ==
  /\ Back("exec")
  /\ caller' = "entry"
  /\ ctl' = IF stopres = "SSTEP" THEN "execto" ELSE "created"
  /\ UNCHANGED <<t, kernelVars, ipVars, over, sig, ustop, press, histVars>>

AtEntry == ExecToEnds("entry") /\ ctl' = "linker" /\ UNCHANGED caller

(* elf_get_dynamic_shlib_info puts a breakpoint in the dynamic linker, in  *)
(* the first process only.                                                 *)
AddLinker ==
  /\ ctl = "linker"
  /\ t' = IF pid /\ LinkerBp \notin t.live
          THEN install_breakpoint(dx_add_breakpoint(t, LinkerBp, LinkerAddr, NoCode, "solib"),
                                  LinkerBp, FALSE)
          ELSE t
  /\ ctl' = "execto" /\ caller' = "main"
  /\ UNCHANGED <<kernelVars, ipVars, over, sig, ustop, press, histVars>>

AtMain ==
  /\ ExecToEnds("main")
  /\ ctl' = IF hit_solib' THEN "execto" ELSE "created"
  /\ UNCHANGED caller

(* dx_start, once xp_create_child has returned. *)
Started ==
  /\ ctl = "created"
  /\ caller' = "run"
  /\ \/ stopres = "DIED" /\ GoIdle /\ UNCHANGED t
     \/ stopres \notin {"DIED", "BPT"} /\ ctl' = "panic" /\ UNCHANGED <<t, press, told>>
     \/ /\ stopres = "BPT"
        /\ t' = install_all_breakpoints(t)
        /\ \/ get_breakpoint_at_addr(t', restart_pc) # {} /\ GoIdle
           \/ /\ get_breakpoint_at_addr(t', restart_pc) = {}
              /\ ctl' = "loop" /\ UNCHANGED <<press, told>>
  /\ UNCHANGED <<kernelVars, ipVars, over, sig, ustop, nsig, nx>>

-----------------------------------------------------------------------------
(* dx_run_target_ss, with RT_CONT. *)

(* A slip: the trap of a breakpoint is passed on as a signal. *)
RestartWithTrap == IF lastsig = "none" THEN "TRAP" ELSE lastsig

(* get_restart_sig *)
RestartSig == IF lastsig \in AcceptSig THEN lastsig ELSE "none"

RunLoop ==
  /\ ctl = "loop"
  /\ t' = install_all_breakpoints(t)
  /\ sig' = RestartSig
  /\ ctl' = "restart"
  /\ UNCHANGED <<kernelVars, ipVars, caller, over, ustop, press, histVars>>

(* execute_bp_code: a breakpoint without an object wants to stop, one that *)
(* is disabled does not, and the code of an object decides for the others. *)
WantsStop(b, answer) ==
  IF ~t.global THEN FALSE
  ELSE IF ~t.user[b] THEN TRUE
  ELSE ~t.inactive[b] /\ answer

(* Whether this stop ends the command.  (SR_BPT with no breakpoint at the  *)
(* pc is a panic, "bpt botch in rt": see TrapsAccountedFor.)               *)
Stops(answer) ==
  \/ stopres \in {"DIED", "USER"}
  \/ stopres = "SIG" /\ lastsig \notin ContSig
  \/ /\ stopres = "BPT"
     /\ WantsStop(FirstOf(t, get_breakpoint_at_addr(t, restart_pc)), answer)

BackInRun == Back("run") \/ Back("libs")

RunOn(answer) ==
  /\ BackInRun
  /\ ~Stops(answer)
  /\ ctl' = "loop"
  /\ hit_solib' = HitSolib
  /\ told' = IF stopres = "BPT" THEN restart_pc ELSE told
  /\ UNCHANGED <<t, kernelVars, pid, attached, stopres, lastsig, restart_pc,
                 caller, over, sig, ustop, press, nsig, nx>>

(* The end of a run, and check_for_dynamic_libs: a stop in the dynamic     *)
(* linker is the debugger's own affair and the target is continued.        *)
RunEnds(answer) ==
  /\ BackInRun
  /\ Stops(answer)
  /\ LET more == /\ stopres = "BPT" /\ HitSolib
                 /\ ~(caller = "libs" /\ press)
                 /\ can_install_all_breakpoints(t)
     IN  \/ /\ more
            /\ t' = TrialSwap(t)
            /\ ctl' = "loop" /\ caller' = "libs"
            /\ \E loaded \in BOOLEAN : hit_solib' = ~loaded   \* rescan_dynamic_solibs
            /\ told' = restart_pc
            /\ UNCHANGED press
         \/ /\ ~more
            /\ GoIdle
            /\ hit_solib' = (HitSolib /\ caller = "run")
            /\ UNCHANGED <<t, caller>>
  /\ UNCHANGED <<kernelVars, pid, attached, stopres, lastsig, restart_pc,
                 over, sig, ustop, nsig, nx>>

-----------------------------------------------------------------------------
Panicked == ctl = "panic" /\ UNCHANGED vars

Kernel == Execute \/ \E s \in Sig \union {"TRAP"} : TakeSignal(s)

Debugger ==
  \/ Reap \/ ptrace_wait_for_target \/ Restart \/ RestartGone \/ ReplaceBreakpoint \/ Again
  \/ Attached \/ Execed \/ xp_execto \/ IgnoreSignal \/ AtEntry \/ AddLinker \/ AtMain \/ Started
  \/ RunLoop
  \/ \E answer \in BOOLEAN : RunOn(answer) \/ RunEnds(answer)

Command ==
  \/ Start \/ Cont \/ Kill \/ Detach \/ DetachGone
  \/ \E a \in Addr : Attach(a)
  \/ \E b \in UserBp : SetState(b)

User == (\E stop \in BOOLEAN : Interrupt(stop)) \/ PressStop

Next ==
  \/ Kernel
  \/ (\E s \in Sig : SendSignal(s)) \/ Killed
  \/ Debugger
  \/ Command
  \/ User
  \/ Panicked

(* The processes run: the debugger when it has something to do and the     *)
(* target when it is running.                                              *)
Spec == Init /\ [][Next]_vars /\ WF_vars(Kernel) /\ WF_vars(Debugger)

-----------------------------------------------------------------------------
TypeOK ==
  /\ t \in Tables
  /\ kern \in {"none", "stopped", "cont", "step"}
  /\ kpc \in Nat /\ real \in Nat /\ restart_pc \in Nat /\ told \in Nat
  /\ pend \subseteq Sig \union {"TRAP"}
  /\ status \in Sig \union {"none", "TRAP", "exit"}
  /\ {pid, attached, hit_solib, ustop, press} \subseteq BOOLEAN
  /\ stopres \in {"DIED", "SIG", "USER", "BPT", "SSTEP"}
  /\ lastsig \in Sig \union {"none"} /\ sig \in Sig \union {"none"}
  /\ ctl \in Points /\ caller \in Callers /\ over \in Bp \union {NoBp}
  /\ nsig \in 0 .. MaxSig /\ nx \in 0 .. MaxX

(* ao_read_text_from_process panics "with no proc" (ao_ptrace.c:763): the  *)
(* debugger survives whatever its target does, dying included.             *)
NoPanic == ctl # "panic"

(* "You can stop the target running at any time by clicking on Stop"       *)
(* (ups.man:2010): while there is a target the debugger does not panic.    *)
PanicOnlyWhenGone == ctl = "panic" => ~pid \/ kern = "none"

(* "Set ... ip_restart_pc to the address the process should be restarted   *)
(* from" (ao_ptrace.c:281-284): the process only ever runs the instruction *)
(* its own program would run next; no stop, step over a breakpoint or      *)
(* restart skips one, repeats one, or resumes in the middle of one.        *)
ExecutesProgram == Running => kpc = real

(* "Cont makes the target process run until it hits a breakpoint or exits" *)
(* (ups.man:310): in a run for Cont, no instruction with a breakpoint that *)
(* is not disabled is run before the breakpoint was acted on.              *)
NoMissedBreakpoint ==
  Running /\ caller \in {"run", "libs"} /\ kpc \in Addr /\ t.text[kpc] # BPT =>
    \A b \in t.live : t.addr[b] = kpc /\ ~UserDisabled(t, b) => told = kpc

(* The three above as they hold: without the user's events the debugger    *)
(* panics over a dead target only, or when a fatal signal stopped it on    *)
(* its way to main ("xp not started properly", exec.c:650), and restarts,  *)
(* whatever signals come in, leave the program's execution as it is;       *)
(* without signals too, no breakpoint is missed.                           *)
UndisturbedRunsExact ==
  /\ nx = 0 => /\ PanicOnlyWhenGone \/ (stopres = "SIG" /\ lastsig \in FatalSig)
               /\ ExecutesProgram
  /\ nx = 0 /\ nsig = 0 => NoMissedBreakpoint

(* While the target runs for Cont, each breakpoint that is not disabled is *)
(* in its text, except the one it is just being stepped over, whatever     *)
(* signals and stops came between.                                         *)
BreakpointsArmed ==
  Running /\ caller \in {"run", "libs"} =>
    \A b \in t.live : ~UserDisabled(t, b) =>
      t.xp[b] \/ (kern = "step" /\ over = b /\ t.addr[b] = restart_pc)

(* A trap found at a stop belongs to a breakpoint of the list, so that     *)
(* dx_run_target_ss never panics with "bpt botch in rt", and the text has  *)
(* no other traps, whatever stopped the process and whenever it was        *)
(* restarted.                                                              *)
TrapsAccountedFor ==
  /\ \A a \in Addr : kern # "none" =>
       (t.text[a] = BPT <=> \E b \in t.live : t.xp[b] /\ t.addr[b] = a)
  /\ ctl = "returned" /\ stopres = "BPT" => get_breakpoint_at_addr(t, restart_pc) # {}

(* xp_execto's breakpoint does not outlive it: the user never finds it in  *)
(* the list, even when the target died or was stopped on its way to main.  *)
NoTemporaryLeft == ctl \in {"idle", "loop"} => TempBp \notin t.live

(* A stop of the target is noticed, and the target restarted or given to   *)
(* the user, as long as no X event comes in.                               *)
StopNoticed ==
  (kern = "stopped" /\ ctl # "idle")
    ~> (kern # "stopped" \/ ctl \in {"idle", "panic"} \/ nx > 0)
==============================================================================
