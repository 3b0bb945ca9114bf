-------------------------------- MODULE Calls --------------------------------
(***************************************************************************)
(* Functions called in the target and signals on their way to it.          *)
(* ao_call_func (ao_target.c) runs a function of the target for            *)
(* breakpoint code (execute_bp_code), for an expression of the display     *)
(* area (update_expr) and, by ao_set_protection, for a watchpoint; the     *)
(* table of obj_signal.c says which signals stop the target and which it   *)
(* gets.  Both meet in ip_lastsig, ip_stopres and ip_restart_pc, and in    *)
(* the loops of ao_restart_child and dx_run_target_ss.                     *)
(*                                                                         *)
(* An instruction is an address; it may call a function, and one of Rets   *)
(* returns to the address on top of the stack, in a function that          *)
(* ao_call_func called the one it pushed.  A trap is accounted for in the  *)
(* pc and waiting is one step, see Target; lines and stop_bp are those of  *)
(* Stepping, what is watched is that of Watchpoints.                       *)
(***************************************************************************)
EXTENDS BreakpointTable, Integers, Sequences

CONSTANTS
  UserBp,     \* breakpoints of breakpoint objects
  CallBp,     \* structures for the breakpoint ao_call_func adds
  NoBp,
  UserAddrs,  \* where users put breakpoints
  Entry,      \* where dx_start leaves a new process
  Succ,       \* Succ[a]: where a goes next, a call when it has returned
  Callee,     \* Callee[a]: the first address of what a call at a calls
  Rets,       \* the instructions that return
  Func,       \* Func[a]: the function a belongs to
  Callable,   \* the first addresses of functions users call
  Mprotect,   \* the first address of mprotect
  Sig,        \* signals
  Segv,       \* SIGSEGV, which a write to a protected page raises
  State,      \* State[s]: the target's own handling, xp_get_sigstate
  DflIgnore,  \* SGH_DFL_IGNORE or SGH_DFL_STOPS: not deadly by default
  InitAttrs,  \* Sigtab: a subset of {"CONT", "ACCEPT"} for each signal
  MaxEvents,  \* bound: signals, presses of Stop, changes of the signal table,
              \* and calls for users, of watched runs the first
  MaxProc     \* bound: processes

ASSUME CallsAssumption ==
  /\ Bp = UserBp \union CallBp /\ UserBp \intersect CallBp = {} /\ NoBp \notin Bp
  /\ Late = {} /\ UserAddrs \union Callable \union Rets \union {Entry, Mprotect} \subseteq Addr
  /\ Succ \in [Addr -> SUBSET Addr] /\ "none" \notin Sig /\ Segv \in Sig
  /\ \A a \in Addr : \A c \in Succ[a] : Func[c] = Func[a]   \* calls and returns leave it
  /\ DOMAIN Callee \subseteq Addr /\ \A a \in DOMAIN Callee : Callee[a] \in Addr
  /\ State \in [Sig -> {"CAUGHT", "IGNORED", "DEFAULT"}] /\ DflIgnore \subseteq Sig
  /\ InitAttrs \in [Sig -> SUBSET {"CONT", "ACCEPT"}]
  /\ {MaxEvents, MaxProc} \subseteq Nat

VARIABLES
  t,          \* the breakpoint table and the text of the process
  alive,      \* the process exists
  regs,       \* its registers: the pc, the calls on the stack, and whether
              \* the others are what the code at the pc expects in them
  ptrap,      \* a SIGTRAP sent to stop it is still to come
  restart_pc, \* ip_restart_pc
  stopres,    \* ip_stopres
  lastsig,    \* ip_lastsig
  attrs,      \* Sigtab
  ctl,        \* the point of control, see below
  rtype,      \* the command, CONT or STEP
  arrived,    \* stopres as the switch of dx_run_target_ss found it
  over,       \* the breakpoint ao_restart_child_internal steps over
  sig,        \* the signal to restart with
  wps,        \* emulated watchpoints: "on", "step" while their pages are
              \* writable for one step (check_wps), or "off"
  call,       \* the locals of ao_call_func, and how the call ended
  due,        \* history: signals the target stopped for and has not got
  hist,       \* history: what went wrong, see NoHist
  nev, nproc

ip == <<restart_pc, stopres, lastsig>>
counters == <<nev, nproc>>
vars == <<t, alive, regs, ptrap, ip, attrs, ctl, rtype, arrived, over, sig, wps, call, due,
          hist, counters>>

(* Points of control.                                                      *)
(*   idle      the user has the debugger                                   *)
(*   loop      the top of the loop of dx_run_target_ss                     *)
(*   restart   the top of ao_restart_child_internal                        *)
(*   step, cont, call   the process runs: one instruction, freely, or a    *)
(*             function for ao_call_func                                   *)
(*   returned  ao_restart_child_internal has returned                      *)
(*   called    ps_continue has returned to ao_call_func                    *)
(*   code      the interpreter runs breakpoint code                        *)
(*   check     a watched run goes on after the step with pages writable    *)
(*   leave     dx_run_target_ss is about to take its watchpoints out       *)
(*   panic     "assertion failed in dx_run_target"                         *)
(*   astray    the program ran with the registers of a function called: it *)
(*             does anything from here                                     *)
(*   wild      a trap was run that no breakpoint accounts for              *)
Points == {"idle", "loop", "restart", "step", "cont", "call", "returned", "called",
           "code", "check", "leave", "panic", "astray", "wild"}
Running == ctl \in {"step", "cont", "call"}

Fresh == [pc |-> Entry, stack |-> <<>>, own |-> TRUE]
NoCall == [origin |-> "none", addr |-> Entry, retpc |-> Entry, saved |-> Fresh, bp |-> NoBp,
           failed |-> FALSE]

(* short    a function was not over when the call was said to have worked: *)
(*          whether it can reach the function the target was stopped in    *)
(* lost     the target was restarted without a signal it was to get        *)
(* covered  a call was made while the target had a signal to get           *)
(* failed   a call failed after it had changed the target                  *)
(* leaked   the target died in a call                                      *)
(* asked    Stop was pressed during this command                           *)
(* beaten   the press was used up by a stop that does not end the command  *)
NoHist == [short |-> {}, lost |-> FALSE, covered |-> FALSE, failed |-> FALSE,
           leaked |-> FALSE, asked |-> FALSE, beaten |-> FALSE]

Init ==
  /\ \E S \in SUBSET UserBp : \E where \in [S -> UserAddrs] :
        /\ \A b, c \in S : where[b] = where[c] => b = c
        /\ t = SessionList(S, {p \in S \X S : where[p[1]] < where[p[2]]}, where, {}, TRUE)
  /\ alive = TRUE /\ regs = Fresh /\ ptrap = FALSE
  /\ restart_pc = Entry /\ stopres = "BPT" /\ lastsig = "none"
  /\ attrs = InitAttrs
  /\ ctl = "idle" /\ rtype = "CONT" /\ arrived = "BPT" /\ over = NoBp /\ sig = "none"
  /\ wps = "off" /\ call = NoCall /\ due = {} /\ hist = NoHist
  /\ nev = 0 /\ nproc = 1

(* One of the events that are bounded. *)
Event == nev < MaxEvents /\ nev' = nev + 1 /\ UNCHANGED nproc

-----------------------------------------------------------------------------
(* The signal table. *)

accept_signal(s) == "ACCEPT" \in attrs[s]
sig_stops_target(s) == "CONT" \notin attrs[s]
sig_kills_target_by_default(s) == s \notin DflIgnore

(* do_sig: the user toggles an attribute. *)
do_sig(s, attr) ==
  /\ ctl = "idle"
  /\ Event
  /\ attrs' = [attrs EXCEPT ![s] = IF attr \in @ THEN @ \ {attr} ELSE @ \union {attr}]
  /\ UNCHANGED <<t, alive, regs, ptrap, ip, ctl, rtype, arrived, over, sig, wps, call, due, hist>>

(* What a signal the target gets does to it. *)
Deadly(s) == s # "none" /\ State[s] = "DEFAULT" /\ sig_kills_target_by_default(s)

(* Whether dx_run_target_ss ends for a signal: a SIGSEGV in a watched run  *)
(* is taken for a write to a protected page.                               *)
WatchFault(s) == s = Segv /\ wps # "off"
SignalEnds(s) == ~WatchFault(s) /\ (Deadly(s) \/ sig_stops_target(s))

-----------------------------------------------------------------------------
(* The process. *)

(* SR_DIED in ptrace_wait_for_target. *)
Dies ==
  /\ alive' = FALSE /\ ptrap' = FALSE
  /\ t' = FreshText(mark_breakpoints_as_uninstalled(t))
  /\ stopres' = "DIED" /\ lastsig' = "none" /\ restart_pc' = Entry
  /\ ctl' = IF ctl = "call" THEN "called" ELSE "returned"
  /\ over' = NoBp

(* A single step over a breakpoint is followed by putting it back. *)
PutBack == IF over = NoBp \/ ctl # "step" THEN t ELSE install_breakpoint(t, over, FALSE)

(* A slip: ip_lastsig is not cleared at a stop for no signal. *)
StopsKeepingSignal(res, s) ==
  /\ stopres' = res /\ lastsig' = (IF s = "none" THEN lastsig ELSE s)
  /\ t' = PutBack
  /\ ctl' = IF ctl = "call" THEN "called" ELSE "returned"
  /\ over' = NoBp
  /\ UNCHANGED alive

(* The process stops. *)
Stops(res, s) ==
  /\ stopres' = res /\ lastsig' = s
  /\ t' = PutBack
  /\ ctl' = IF ctl = "call" THEN "called" ELSE "returned"
  /\ over' = NoBp
  /\ UNCHANGED alive

(* CT_CONT: not for Step, nor for the step of a watched run. *)
Continuing == rtype = "CONT" /\ wps # "step"

(* A single step is over, or seems to be: after one over a breakpoint the  *)
(* process is continued.                                                   *)
Stepped ==
  IF ctl = "step" /\ over # NoBp /\ Continuing
  THEN /\ stopres' = "SSTEP" /\ lastsig' = "none" /\ t' = PutBack
       /\ ctl' = "cont" /\ over' = NoBp /\ UNCHANGED alive
  ELSE Stops("SSTEP", "none")

(* One instruction. *)
Advance ==
  IF regs.pc \in Rets /\ regs.stack # <<>>
  THEN LET top == regs.stack[Len(regs.stack)]
       IN  regs' = [pc |-> top.ret, stack |-> SubSeq(regs.stack, 1, Len(regs.stack) - 1),
                    own |-> top.own]
  ELSE \E a \in Succ[regs.pc] :
         regs' = IF regs.pc \in DOMAIN Callee
                 THEN [pc |-> Callee[regs.pc],
                       stack |-> Append(regs.stack, [ret |-> a, own |-> regs.own]), own |-> regs.own]
                 ELSE [regs EXCEPT !.pc = a]

(* It may be a trap.  A SIGTRAP that is pending comes first. *)
Execute ==
  /\ Running /\ ~ptrap
  /\ \/ /\ t.text[regs.pc] = BPT
        /\ restart_pc' = regs.pc
        /\ UNCHANGED regs
        /\ IF get_breakpoint_at_addr(t, regs.pc) # {} THEN Stops("BPT", "none")
           ELSE ctl' = "wild" /\ UNCHANGED <<t, alive, stopres, lastsig, over>>
     \/ /\ t.text[regs.pc] # BPT
        /\ Advance
        /\ IF ~regs.own
           THEN ctl' = "astray" /\ UNCHANGED <<t, alive, ip, over>>
           ELSE IF ctl = "step"
           THEN restart_pc' = regs'.pc /\ Stepped
           ELSE UNCHANGED <<t, alive, ip, ctl, over>>
  /\ UNCHANGED <<ptrap, attrs, rtype, arrived, sig, wps, call, due, hist, counters>>

(* The SIGTRAP of an earlier Stop looks like the end of a single step. *)
StrayTrap ==
  /\ Running /\ ptrap
  /\ ptrap' = FALSE
  /\ restart_pc' = regs.pc
  /\ Stepped
  /\ UNCHANGED <<regs, attrs, rtype, arrived, sig, wps, call, due, hist, counters>>

Exit ==
  /\ Running
  /\ Dies
  /\ due' = {}
  /\ UNCHANGED <<regs, attrs, rtype, arrived, sig, wps, call, hist, counters>>

(* The process stops for a signal. *)
Signal(s) ==
  /\ Running
  /\ Event
  /\ restart_pc' = regs.pc
  /\ Stops("SIG", s)
  /\ due' = due \union {s}
  /\ UNCHANGED <<regs, ptrap, attrs, rtype, arrived, sig, wps, call, hist>>

(* The code of a breakpoint the target was stepped to has no say in        *)
(* whether the command ends.                                               *)
InSteppedCode == ctl = "call" /\ call.origin = "code" /\ arrived = "SSTEP"

(* The Stop button: the process is sent a SIGTRAP, and stops with it or    *)
(* with that of a trap or a step, and then it is still to come.            *)
Stop ==
  /\ Running
  /\ Event
  /\ restart_pc' = regs.pc
  /\ Stops("USER", "none")
  /\ ptrap' \in BOOLEAN
  /\ hist' = [hist EXCEPT !.asked = TRUE, !.beaten = @ \/ (InSteppedCode /\ rtype = "CONT")]
  /\ UNCHANGED <<regs, attrs, rtype, arrived, sig, wps, call, due>>

(* The status is that of another signal: the press is forgotten.           *)
StopWithSignal(s) ==
  /\ Running
  /\ Event
  /\ restart_pc' = regs.pc
  /\ Stops("SIG", s)
  /\ due' = due \union {s}
  /\ ptrap' \in BOOLEAN   \* the press may only have been seen after wait()
  /\ hist' = [hist EXCEPT !.asked = TRUE,
                          !.beaten = @ \/ (IF ctl = "call" THEN InSteppedCode
                                           ELSE ~SignalEnds(s))]
  /\ UNCHANGED <<regs, attrs, rtype, arrived, sig, wps, call>>

-----------------------------------------------------------------------------
(* ao_restart_child. *)

(* The pc is set for a process that stopped at a breakpoint. *)
ResumePc == IF stopres = "BPT" THEN [regs EXCEPT !.pc = restart_pc] ELSE regs

(* What became of the signals the target stopped for. *)
NoteSignals == [hist EXCEPT !.lost = @ \/ \E s \in due \ {sig} : accept_signal(s)]

Restart ==
  /\ ctl = "restart"
  /\ due' = {} /\ sig' = "none"
  /\ hist' = NoteSignals
  /\ IF Deadly(sig)
     THEN Dies /\ UNCHANGED regs
     ELSE LET here == get_breakpoint_at_addr(t, restart_pc)
          IN  /\ regs' = ResumePc /\ UNCHANGED ptrap
              /\ over' = IF here = {} THEN NoBp ELSE FirstOf(t, here)
              /\ t' = IF here = {} THEN t ELSE uninstall_breakpoint(t, over')
              /\ ctl' = IF here = {} /\ Continuing THEN "cont" ELSE "step"
              /\ UNCHANGED <<alive, ip>>
  /\ UNCHANGED <<attrs, rtype, arrived, wps, call, counters>>

(* Its loop restarts the target with every signal that is to continue it   *)
(* and has no handler in it.                                               *)
PassedOn == stopres = "SIG" /\ ~sig_stops_target(lastsig) /\ State[lastsig] # "CAUGHT"

Again ==
  /\ ctl = "returned"
  /\ PassedOn
  /\ sig' = lastsig
  /\ ctl' = "restart"
  /\ UNCHANGED <<t, alive, regs, ptrap, ip, attrs, rtype, arrived, over, wps, call, due, hist,
                 counters>>

-----------------------------------------------------------------------------
(* ao_call_func. *)

(* Who called it: breakpoint code, an expression, or ao_set_protection for *)
(* install_all_watchpoints, deactivate_all_watchpoints after a fault,      *)
(* activate_all_watchpoints after the step, and uninstall_all_watchpoints. *)
Origins == {"code", "expr", "watch", "fault", "again", "end"}

(* Where its caller goes on, and what became of the watchpoints. *)
AfterCall(who, worked) ==
  CASE who = "code" -> "code"
    [] who \in {"expr", "end"} -> "idle"
    [] who = "watch" -> IF worked THEN "loop" ELSE "idle"
    [] OTHER -> IF worked THEN "loop" ELSE "leave"

WpsAfter(who, worked) ==
  CASE who = "watch" -> IF worked THEN "on" ELSE "off"
    [] who = "again" /\ worked -> "on"
    [] who = "fault" /\ worked -> "step"
    [] who = "end" -> "off"
    [] OTHER -> wps

(* The registers are saved, the arguments and the return address written   *)
(* below a page of stack, and a breakpoint added where the function will   *)
(* return to, unless one is installed there.  Then the target runs.        *)
ao_call_func(who, a) ==
  /\ \/ \* something could not be written to the stack
        /\ call' = [NoCall EXCEPT !.failed = who = "code"]
        /\ ctl' = AfterCall(who, FALSE) /\ wps' = WpsAfter(who, FALSE)
        /\ UNCHANGED <<t, regs>>
     \/ /\ \/ /\ get_breakpoint_at_addr(t, restart_pc) # {}
              /\ call' = [origin |-> who, addr |-> a, retpc |-> restart_pc, saved |-> regs,
                          bp |-> NoBp, failed |-> FALSE]
              /\ UNCHANGED t
           \/ /\ get_breakpoint_at_addr(t, restart_pc) = {}
              /\ CallBp \ t.live # {}
              /\ LET b == CHOOSE c \in CallBp \ t.live : TRUE   \* they are all alike
                 IN  /\ call' = [origin |-> who, addr |-> a, retpc |-> restart_pc, saved |-> regs,
                                 bp |-> b, failed |-> FALSE]
                     /\ t' = install_breakpoint(
                               dx_add_breakpoint(t, b, restart_pc, NoCode, "none"), b, FALSE)
        /\ regs' = [pc |-> a, own |-> TRUE,
                    stack |-> Append(regs.stack, [ret |-> restart_pc, own |-> FALSE])]
        /\ ctl' = "call" /\ UNCHANGED wps
  /\ UNCHANGED <<alive, ptrap, ip, attrs, arrived, over, sig, due>>

(* The signals that are due when it is called. *)
Covering(h) == [h EXCEPT !.covered = @ \/ due # {}]

ao_set_protection(who) ==
  /\ ao_call_func(who, Mprotect)
  /\ hist' = Covering(hist)
  /\ UNCHANGED <<rtype, counters>>

(* Two slips: the address is not compared, or registers are not restored. *)
ReachedAnyBreakpoint == stopres = "BPT"
SavedNothing == regs

(* The function got back to where it was to return to. *)
CameBack == stopres = "BPT" /\ restart_pc = call.retpc
SavedRegs == call.saved

(* A slip: the breakpoint is only removed when the call worked. *)
WithoutCallBpIfBack ==
  IF CameBack /\ call.bp # NoBp THEN dx_remove_breakpoint(t, call.bp) ELSE t

(* The breakpoint is removed, unless the target died. *)
WithoutCallBp ==
  IF stopres # "DIED" /\ call.bp # NoBp THEN dx_remove_breakpoint(t, call.bp) ELSE t

(* Every set of functions that has f, and what its functions call, has g. *)
ClosedSets == {S \in SUBSET {Func[a] : a \in Addr} :
                 \A a \in DOMAIN Callee : Func[a] \in S => Func[Callee[a]] \in S}
Reaches(f, g) == \A S \in ClosedSets : f \in S => g \in S

(* deactivate_all_watchpoints is followed by xp_cancel_lastsig.            *)
EndCall ==
  /\ ctl = "called"
  /\ t' = WithoutCallBp
  /\ call' = [NoCall EXCEPT !.failed = call.origin = "code" /\ ~CameBack]
  /\ ctl' = AfterCall(call.origin, CameBack) /\ wps' = WpsAfter(call.origin, CameBack)
  /\ IF call.origin = "fault" /\ CameBack
     THEN lastsig' = "none" /\ due' = due \ {Segv}
     ELSE UNCHANGED <<lastsig, due>>
  /\ \/ /\ CameBack
        /\ regs' = SavedRegs /\ restart_pc' = call.retpc
        /\ hist' = [hist EXCEPT !.short =
                      IF Len(regs.stack) = Len(call.saved.stack) THEN @
                      ELSE @ \union {Reaches(Func[call.addr], Func[call.retpc])}]
     \/ /\ ~CameBack
        /\ hist' = [hist EXCEPT !.failed = TRUE, !.leaked = @ \/ (stopres = "DIED" /\ call.bp # NoBp)]
        /\ UNCHANGED <<regs, restart_pc>>
  /\ UNCHANGED <<alive, ptrap, stopres, attrs, rtype, arrived, over, sig, counters>>

-----------------------------------------------------------------------------
(* The commands. *)

Start ==
  /\ ctl = "idle" /\ ~alive
  /\ nproc < MaxProc /\ nproc' = nproc + 1
  /\ alive' = TRUE /\ regs' = Fresh /\ ptrap' = FALSE
  /\ t' = install_all_breakpoints(FreshText(t))
  /\ restart_pc' = Entry /\ stopres' = "BPT" /\ lastsig' = "none"
  /\ UNCHANGED <<attrs, ctl, rtype, arrived, over, sig, wps, call, due, hist, nev>>

Begin(r) ==
  /\ ctl = "idle" /\ alive
  /\ rtype' = r

NewCommand == [hist EXCEPT !.asked = FALSE, !.beaten = FALSE]

(* Cont, or Step.  install_all_watchpoints may first protect a page.       *)
Command(r) ==
  /\ Begin(r)
  /\ ctl' = "loop"
  /\ hist' = NewCommand
  /\ UNCHANGED <<t, alive, regs, ptrap, ip, attrs, arrived, over, sig, wps, call, due, counters>>

ContWithWatchpoint ==
  Begin("CONT") /\ Event /\ ao_call_func("watch", Mprotect) /\ hist' = Covering(NewCommand)

(* update_expr: an expression of the display area calls a function, when   *)
(* it is entered and after every stop.                                     *)
update_expr(a) ==
  Begin(rtype) /\ Event /\ ao_call_func("expr", a) /\ hist' = Covering(NewCommand)

-----------------------------------------------------------------------------
(* dx_run_target_ss. *)

(* Two slips: signals are never passed on, or the trap's is. *)
RestartNever == "none"
RestartWithTrap == IF lastsig = "none" THEN "TRAP" ELSE lastsig

get_restart_sig == IF lastsig # "none" /\ accept_signal(lastsig) THEN lastsig ELSE "none"

RunLoop ==
  /\ ctl = "loop"
  /\ t' = IF Continuing THEN install_all_breakpoints(t) ELSE uninstall_all_breakpoints(t)
  /\ sig' = get_restart_sig
  /\ ctl' = "restart"
  /\ UNCHANGED <<alive, regs, ptrap, ip, attrs, rtype, arrived, over, wps, call, due, hist, counters>>

(* Back from xp_restart_child. *)
Back == ctl = "returned" /\ ~PassedOn

(* The command's locals go away. *)
EndRun ==
  /\ ctl' = "leave" /\ call' = NoCall
  /\ rtype' = "CONT" /\ arrived' = "BPT" /\ UNCHANGED <<over, sig>>

(* A slip: only a signal or its death stops the target. *)
EndsIgnoringStop == stopres = "DIED" \/ (stopres = "SIG" /\ SignalEnds(lastsig))

Ends == stopres \in {"DIED", "USER"} \/ (stopres = "SIG" /\ SignalEnds(lastsig))

Leave ==
  /\ Back
  /\ Ends
  /\ EndRun
  /\ UNCHANGED <<t, alive, regs, ptrap, ip, attrs, wps, due, hist, counters>>

(* A fault in a watched run: for one step all pages are writable. *)
Fault ==
  /\ Back
  /\ stopres = "SIG" /\ WatchFault(lastsig)
  /\ \/ /\ wps = "on"
        /\ ao_set_protection("fault")
     \/ /\ wps = "step"   \* they are already, see FaultReported of Watchpoints
        /\ ctl' = "loop" /\ lastsig' = "none" /\ due' = due \ {Segv}
        /\ UNCHANGED <<t, alive, regs, ptrap, restart_pc, stopres, attrs, rtype, arrived, over, sig,
                       wps, call, hist, counters>>

(* The run goes on, after that step with a look at what is watched.        *)
Onward == IF wps = "step" THEN "check" ELSE "loop"

(* Nothing to stop for: a signal, or a step to where no breakpoint is.     *)
(* Step ends at the start of a line.                                       *)
Here ==
  IF stopres = "SSTEP" THEN dx_addr_to_breakpoint(t, restart_pc)
                       ELSE get_breakpoint_at_addr(t, restart_pc)

GoOn ==
  /\ Back
  /\ ~Ends
  /\ IF stopres = "SIG" THEN ~WatchFault(lastsig) ELSE Here = {}
  /\ \/ ctl' = Onward /\ UNCHANGED <<rtype, arrived, over, sig, call>>
     \/ rtype = "STEP" /\ EndRun
  /\ UNCHANGED <<t, alive, regs, ptrap, ip, attrs, wps, due, hist, counters>>

(* A change of what is watched stops the target; without one the pages are *)
(* protected again.                                                        *)
check_all_watchpoints ==
  /\ ctl = "check"
  /\ \/ EndRun /\ UNCHANGED <<t, alive, regs, ptrap, ip, attrs, wps, due, hist, counters>>
     \/ ao_set_protection("again")

(* The end of dx_run_target_ss: the pages are made writable.               *)
uninstall_all_watchpoints ==
  /\ ctl = "leave"
  /\ \/ wps = "on" /\ alive /\ ao_set_protection("end")
     \/ /\ ~(wps = "on" /\ alive)
        /\ ctl' = "idle" /\ wps' = "off"
        /\ UNCHANGED <<t, alive, regs, ptrap, ip, attrs, rtype, arrived, over, sig, call, due, hist,
                       counters>>

(* execute_bp_code: a breakpoint without an object stops the target, the   *)
(* code of an object is run.                                               *)
execute_bp_code ==
  /\ Back
  /\ stopres \in {"BPT", "SSTEP"} /\ Here # {}
  /\ arrived' = stopres
  /\ call' = [NoCall EXCEPT !.failed = ~t.user[FirstOf(t, Here)]]
  /\ ctl' = "code"
  /\ UNCHANGED <<t, alive, regs, ptrap, ip, attrs, rtype, over, sig, wps, due, hist, counters>>

CodeCalls(a) ==
  /\ ctl = "code" /\ ~call.failed
  /\ Event
  /\ ao_call_func("code", a)
  /\ hist' = Covering(hist)
  /\ UNCHANGED rtype

(* #stop, or the end of the code; a failure stops the target. *)
WantsStop == IF call.failed THEN {TRUE} ELSE BOOLEAN

(* A slip: a signal in a call is not expected. *)
StepStopsWithoutSignal == {"SSTEP", "BPT"}

(* "stopres is SR_SSTEP or SR_BPT or SR_SIG", when a step is to go on. *)
StepStops == {"SSTEP", "BPT", "SIG"}

CodeEnds ==
  /\ ctl = "code"
  /\ \E wants \in WantsStop :
       \/ /\ stopres = "DIED" \/ (arrived = "BPT" /\ wants)
          /\ EndRun
       \/ /\ stopres # "DIED" /\ ~(arrived = "BPT" /\ wants)
          /\ \/ /\ rtype = "STEP" /\ stopres \notin StepStops
                /\ ctl' = "panic" /\ UNCHANGED <<rtype, arrived, over, sig, call>>
             \/ /\ rtype = "CONT" \/ stopres \in StepStops
                /\ ctl' = Onward /\ call' = NoCall /\ arrived' = "BPT" /\ UNCHANGED <<rtype, over, sig>>
             \/ /\ rtype = "STEP" /\ stopres \in StepStops
                /\ EndRun
  /\ UNCHANGED <<t, alive, regs, ptrap, ip, attrs, wps, due, hist, counters>>

-----------------------------------------------------------------------------
Over == ctl \in {"panic", "astray", "wild"} /\ UNCHANGED vars

Proceed ==
  \/ Execute \/ StrayTrap \/ Exit
  \/ Restart \/ Again \/ EndCall \/ RunLoop \/ Leave \/ Fault \/ GoOn \/ execute_bp_code \/ CodeEnds
  \/ check_all_watchpoints \/ uninstall_all_watchpoints

Next ==
  \/ Proceed \/ Over
  \/ \E s \in Sig : Signal(s)
  \/ Stop
  \/ \E s \in Sig : StopWithSignal(s)
  \/ \E s \in Sig, attr \in {"CONT", "ACCEPT"} : do_sig(s, attr)
  \/ Start
  \/ \E r \in {"CONT", "STEP"} : Command(r)
  \/ ContWithWatchpoint
  \/ \E a \in Callable : update_expr(a)
  \/ \E a \in Callable : CodeCalls(a)

(* Debugger and process go on by themselves. *)
Fairness == []<>(ctl = "idle") \/ []<><<Proceed>>_vars

Spec == Init /\ [][Next]_vars /\ Fairness

-----------------------------------------------------------------------------
TypeOK ==
  /\ t \in Tables
  /\ alive \in BOOLEAN /\ ptrap \in BOOLEAN /\ wps \in {"off", "on", "step"}
  /\ regs.pc \in Addr /\ regs.stack \in Seq([ret : Addr, own : BOOLEAN]) /\ regs.own \in BOOLEAN
  /\ restart_pc \in Addr /\ stopres \in {"BPT", "SSTEP", "SIG", "USER", "DIED"}
  /\ lastsig \in Sig \union {"none"} /\ sig \in Sig \union {"none"}
  /\ attrs \in [Sig -> SUBSET {"CONT", "ACCEPT"}]
  /\ ctl \in Points /\ rtype \in {"CONT", "STEP"} /\ arrived \in {"BPT", "SSTEP"}
  /\ over \in Bp \union {NoBp} /\ call.bp \in CallBp \union {NoBp}

(* As long as every call came back to its return address, calls leave no   *)
(* trace: the program never runs with registers that a called function     *)
(* left, nor from a pc that is not its own (registers and ip_restart_pc    *)
(* are restored), whatever called, in whatever order.                      *)
CallsTransparent == ctl = "astray" => hist.failed

(* A call is only taken to have worked when the function returned, if no   *)
(* function it can call, itself included, is the one the target is stopped *)
(* in: breakpoints, signals and a Stop on the way never pass for the       *)
(* return.  (A nested activation of that function does: only the pc is     *)
(* compared.)                                                              *)
CallsRunToEnd == FALSE \notin hist.short

(* When the user has control the list holds the user's breakpoints only,   *)
(* no two at one address, and the text no trap without one: unless a       *)
(* target died in a call, which leaves its breakpoint in the list for ever *)
(* (ao_target.c:1428), the traps of later processes are accounted for.     *)
ListClean ==
  ~hist.leaked =>
    /\ ctl = "idle" => t.live \subseteq UserBp
    /\ ctl # "wild"
    /\ alive => \A a \in Addr : (t.text[a] = BPT) <=> (get_breakpoint_at_addr(t, a) # {})

(* A signal the target stopped for and is to accept is passed on when the  *)
(* target is restarted, unless a call was made in between: ao_call_func    *)
(* leaves ip_lastsig as its own stop set it, also when a watched run made  *)
(* the call by itself.                                                     *)
SignalsKept == hist.lost => hist.covered

(* A signal the target is restarted with is one it stopped for since it    *)
(* last ran: none is delivered twice, and a watchpoint's own never.        *)
SignalsNotRepeated == ctl = "restart" /\ sig # "none" => sig \in due

(* dx_run_target_ss fails its assertion only when Stop was pressed while a *)
(* step ran the code of a breakpoint; signals and breakpoints in the       *)
(* function called are dealt with.                                         *)
PanicOnlyOnStop == ctl = "panic" => hist.asked /\ arrived = "SSTEP"

(* Stop ends the command, also when it hits a call, unless a signal that   *)
(* the target is continued after comes at the same time (ao_ptrace.c:362), *)
(* or it hits a call of the code of a breakpoint the target was stepped    *)
(* to.                                                                     *)
StopHonoured == hist.asked ~> (hist.beaten \/ ctl \in {"idle", "panic", "astray", "wild"})
==============================================================================
