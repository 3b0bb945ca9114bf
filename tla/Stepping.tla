------------------------------ MODULE Stepping -------------------------------
(***************************************************************************)
(* Step, Next, Execute to here and Jump to here: the RT_STEP and RT_NEXT   *)
(* paths of the loop of dx_run_target_ss (trun_ss.c), exec_to_lnum and     *)
(* jump_to_lnum (exec.c), over a program with functions, lines, recursion, *)
(* procedure linkage stubs and a signal handler, with the breakpoints of   *)
(* BreakpointTable in its text.  Linux on x86: the return address is on    *)
(* top of the stack when a function is entered.                            *)
(*                                                                         *)
(* The program is a set of addresses, each an instruction:                 *)
(*   push  the first of a function, which makes the function's frame       *)
(*   op    goes to one of Succ                                             *)
(*   call  calls Callee                                                    *)
(*   jmp   a procedure linkage stub, goes to Callee                        *)
(*   ret   returns, from a signal handler too                              *)
(*   exit  ends the process                                                *)
(***************************************************************************)
EXTENDS BreakpointTable, Integers, Sequences

CONSTANTS
  UserBp,     \* breakpoints of breakpoint objects
  TempBp,     \* the breakpoint dx_run_target_ss or exec_to_lnum adds
  NoBp,
  UserAddrs,  \* lines users put breakpoints at
  DestAddrs,  \* lines users execute or jump to
  Kind,       \* Kind[a]: the instruction at a
  Succ,       \* Succ[a]: where an op goes
  Callee,     \* Callee[a]: the function a call or a jmp goes to
  Func,       \* Func[a]: the function a belongs to
  Line,       \* Line[a]: its source line, or 0 (ln_num)
  LineStart,  \* addresses a line begins at (ln_addr)
  MinBpt,     \* MinBpt[f]: get_min_bpt_addr
  PltFunc,    \* FU_PLT
  NoSource,   \* FU_NOSYM, or the source file is not there
  Main,       \* the address main is stopped at by dx_start
  Handler,    \* the target's handler of the signal
  StartRet,   \* where main returns to
  MaxDepth,   \* bound: frames on the stack
  MaxSig,     \* bound: signals
  MaxStop     \* bound: presses of Stop

ASSUME SteppingAssumption ==
  /\ Bp = UserBp \union {TempBp} /\ TempBp \notin UserBp /\ NoBp \notin Bp
  /\ Addr \subseteq Nat \ {0} /\ Late = {}
  /\ UserAddrs \union DestAddrs \subseteq LineStart /\ LineStart \subseteq Addr
  /\ Kind \in [Addr -> {"push", "op", "call", "jmp", "ret", "exit"}]
  /\ {Main, Handler, StartRet} \subseteq Addr
  /\ \A a \in Addr : Kind[a] = "call" => a + 1 \in Addr
  /\ \A a \in Addr : Func[a] \in PltFunc => Callee[a] \in Addr /\ MinBpt[Func[Callee[a]]] \in Addr
  /\ MaxDepth \in Nat /\ MaxSig \in Nat /\ MaxStop \in Nat

(* What makes the addresses a program: a function begins with a push, at   *)
(* its lowest address, or is a stub, and nothing but calls and stubs leads *)
(* to its first instruction.                                               *)
ASSUME ProgramAssumption ==
  /\ \A a \in Addr : Kind[a] = "push" =>
       \A q \in Succ[a] : Func[q] = Func[a] /\ q > a
  /\ \A a \in Addr : Kind[a] \in {"push", "op"} =>
       \A q \in Succ[a] : Kind[q] \notin {"push", "jmp"}
  /\ \A a \in Addr : Kind[a] = "call" =>
       /\ Kind[Callee[a]] \in {"push", "jmp"} /\ Kind[a + 1] \notin {"push", "jmp"}
       /\ Func[Callee[a]] = Func[a] => Callee[a] <= a
  /\ \A a \in Addr : Kind[a] = "jmp" => Kind[Callee[a]] \in {"push", "jmp"}

VARIABLES
  t,        \* the breakpoint table and the text of the process
  alive,    \* the process exists
  pc,       \* the pc ups shows: a trap has been accounted for
  stack,    \* return addresses, innermost last
  ctl,      \* the point of control, see below
  rtype,    \* the command: NEXT, STEP, EXECTO, JUMP
  L,        \* the locals of dx_run_target_ss
  over,     \* the breakpoint ao_restart_child_internal steps over
  stopres,  \* ip_stopres
  lastsig,  \* ip_lastsig # 0
  dest,     \* exec_to_lnum, jump_to_lnum: the address to get to
  sel,      \* their fp and cur_f, of the frame whose source is shown, and orig_pc
  home,     \* history: the frame and the line the command began in
  missed,   \* history: the command let the target run past where it ends
  nsig, nstop

machine == <<alive, pc, stack>>
hist == <<home, missed>>
vars == <<t, machine, ctl, rtype, L, over, stopres, lastsig, dest, sel, hist, nsig, nstop>>

(* Points of control.                                                      *)
(*   idle  the user has the debugger                                       *)
(*   loop  the top of the loop of dx_run_target_ss                         *)
(*   step  the process runs one instruction                                *)
(*   cont  the process runs                                                *)
(*   back  xp_restart_child has returned                                   *)
(*   end   after the loop                                                  *)
Points == {"idle", "loop", "step", "cont", "back", "end"}
Commands == {"NEXT", "STEP", "EXECTO", "JUMP"}
Stepped(r) == r \in {"NEXT", "STEP"}

-----------------------------------------------------------------------------
(* The machine.  The stack grows down; a function has pushed its frame     *)
(* pointer once it is past its first instruction.                          *)

Depth == Len(stack)
Frameless(a) == Kind[a] \in {"push", "jmp"}
HasFrame == ~Frameless(pc)
SpOf(a, d) == IF Frameless(a) THEN -(2 * d) ELSE -(2 * d) - 1
SP == SpOf(pc, Depth)

(* The frame pointer is the caller's until the function has set its own. *)
FP == IF ~HasFrame THEN -(2 * (Depth - 1)) - 1 ELSE -(2 * Depth) - 1

(* xp_get_base_sp: the stack pointer when main was reached. *)
BaseSp == SpOf(Main, 1)

(* The instruction at the pc, run without a trap there: the pc and the     *)
(* stack it leaves.  A call deeper than MaxDepth is not taken.             *)
RunInstruction(p, s) ==
  /\ CASE Kind[pc] \in {"push", "op"} ->
            /\ p \in {q \in Succ[pc] : Kind[q] = "call" => Depth < MaxDepth}
            /\ s = stack
       [] Kind[pc] = "call" -> p = Callee[pc] /\ s = Append(stack, pc + 1)
       [] Kind[pc] = "jmp"  -> p = Callee[pc] /\ s = stack
       [] Kind[pc] = "ret"  -> Depth > 0 /\ p = stack[Depth] /\ s = SubSeq(stack, 1, Depth - 1)
       [] OTHER -> FALSE

Places == {q \in Addr \X {stack, Append(stack, pc + 1), SubSeq(stack, 1, Depth - 1)} :
             RunInstruction(q[1], q[2])}

(* A signal is taken instead: the handler returns to the pc. *)
InHandler(p, s) == p = Handler /\ s = Append(stack, pc)

(* What must not be run past: the start of another line in the frame the   *)
(* command began in or in one of its callers; for exec_to_lnum the line    *)
(* it is to reach, unless in a recursive call.  (Nothing is asked of a     *)
(* command that began before the function had made its frame.)             *)
EndsHere ==
  /\ home.framed
  /\ \/ /\ Stepped(rtype)
        /\ pc \in LineStart
        /\ Depth <= home.depth
        /\ <<Func[pc], Line[pc]>> # <<home.func, home.line>>
     \/ /\ rtype = "EXECTO"
        /\ pc = dest
        /\ home.func = Func[dest] => Depth <= home.depth

(* The history of running the instruction at the pc.  A frame that has     *)
(* been returned from does not count any more, and none does once the      *)
(* stack pointer says that main has ended.                                 *)
Note ==
  /\ missed' = (missed \/ (home.moved /\ EndsHere))
  /\ home' = [home EXCEPT !.moved = TRUE,
                          !.depth = IF SP' > BaseSp THEN 0
                                    ELSE IF Len(stack') < @ THEN Len(stack') ELSE @]

NoLocals ==
  [cont_type |-> "STEP", stop_bp |-> NoBp, tmp_bp |-> FALSE, jsr_sp |-> 0, jsr_fp |-> 0,
   orig_f |-> Func[Main], orig_lnum |-> 0, f |-> Func[Main], pc |-> 0, sp |-> 0,
   plt_stop |-> FALSE]
NoSel == [fp |-> 0, func |-> Func[Main], pc |-> Main]
NoHome == [depth |-> 1, func |-> Func[Main], line |-> 0, framed |-> TRUE, moved |-> FALSE]

(* Stopped in main, with breakpoints at some lines, some of them inactive, *)
(* and breakpoints globally enabled or not.                                *)
Init ==
  /\ \E S \in SUBSET UserBp : \E where \in [S -> UserAddrs], off \in SUBSET S, on \in BOOLEAN :
        /\ \A b, c \in S : where[b] = where[c] => b = c
        /\ t = SessionList(S, {p \in S \X S : where[p[1]] < where[p[2]]}, where, off, on)
  /\ alive = TRUE /\ pc = Main /\ stack = <<StartRet>>
  /\ ctl = "idle" /\ rtype = "NEXT" /\ L = NoLocals /\ over = NoBp
  /\ stopres = "BPT" /\ lastsig = FALSE
  /\ dest = Main /\ sel = NoSel
  /\ home = NoHome /\ missed = FALSE /\ nsig = 0 /\ nstop = 0

(* A slip: the address to get to is cleared to no address. *)
GoIdleNoDest ==
  /\ ctl' = "idle" /\ L' = NoLocals /\ over' = NoBp
  /\ dest' = 0 /\ sel' = NoSel
  /\ home' = NoHome /\ missed' = FALSE

(* The command's locals go away. *)
GoIdle ==
  /\ ctl' = "idle" /\ L' = NoLocals /\ over' = NoBp
  /\ dest' = Main /\ sel' = NoSel
  /\ home' = NoHome /\ missed' = FALSE

-----------------------------------------------------------------------------
(* A slip: a breakpoint at the pc is not stepped over. *)
RestartOntoTrap ==
  /\ ctl = "loop"
  /\ over' = NoBp
  /\ t' = IF L.cont_type = "CONT" THEN install_all_breakpoints(t) ELSE uninstall_all_breakpoints(t)
  /\ ctl' = IF L.cont_type = "CONT" THEN "cont" ELSE "step"
  /\ UNCHANGED <<machine, rtype, L, stopres, lastsig, dest, sel, hist, nsig, nstop>>

(* ao_restart_child: the traps are put in, or for a single step taken out, *)
(* and a breakpoint at the pc is stepped over.                             *)
Restart ==
  /\ ctl = "loop"
  /\ \E u \in {IF L.cont_type = "CONT" THEN install_all_breakpoints(t)
                                       ELSE uninstall_all_breakpoints(t)} :
     LET here == get_breakpoint_at_addr(u, pc)
     IN  IF here # {}
         THEN /\ over' = FirstOf(u, here)
              /\ t' = uninstall_breakpoint(u, over')
              /\ ctl' = "step"
         ELSE /\ over' = NoBp
              /\ t' = u
              /\ ctl' = IF L.cont_type = "CONT" THEN "cont" ELSE "step"
  /\ UNCHANGED <<machine, rtype, L, stopres, lastsig, dest, sel, hist, nsig, nstop>>

(* The breakpoint stepped over goes back in, without force. *)
PutBack == IF over = NoBp THEN t ELSE install_breakpoint(t, over, FALSE)

(* SR_DIED: the breakpoint stepped over is not put back in a process that  *)
(* is gone (ups panics there, see Target; the command ends either way).    *)
ExitProcess ==
  /\ ctl \in {"step", "cont"}
  /\ t.text[pc] # BPT /\ ~lastsig
  /\ Kind[pc] = "exit" \/ (Kind[pc] = "ret" /\ Depth = 0)
  /\ alive' = FALSE
  /\ t' = FreshText(mark_breakpoints_as_uninstalled(t))
  /\ stopres' = "DIED" /\ ctl' = "back"
  /\ UNCHANGED <<pc, stack>>
  /\ Note
  /\ UNCHANGED <<rtype, L, over, lastsig, dest, sel, nsig, nstop>>

(* One instruction, or the entry to the signal handler, single stepped. *)
SingleStep ==
  /\ ctl = "step"
  /\ \/ /\ ~lastsig
        /\ \E place \in Places : pc' = place[1] /\ stack' = place[2]
        /\ Note
     \/ /\ lastsig
        /\ pc' = Handler /\ stack' = Append(stack, pc)
        /\ UNCHANGED hist
  /\ lastsig' = FALSE
  /\ t' = PutBack
  /\ stopres' = "SSTEP"
  /\ ctl' = IF over # NoBp /\ L.cont_type = "CONT" THEN "cont" ELSE "back"
  /\ UNCHANGED <<alive, rtype, L, over, dest, sel, nsig, nstop>>

Run ==
  /\ ctl = "cont"
  /\ \/ /\ lastsig
        /\ pc' = Handler /\ stack' = Append(stack, pc) /\ lastsig' = FALSE
        /\ UNCHANGED <<hist, ctl, stopres>>
     \/ /\ ~lastsig /\ t.text[pc] # BPT
        /\ \E place \in Places : pc' = place[1] /\ stack' = place[2]
        /\ Note
        /\ UNCHANGED <<lastsig, ctl, stopres>>
     \/ /\ ~lastsig /\ t.text[pc] = BPT
        /\ stopres' = "BPT" /\ ctl' = "back"
        /\ UNCHANGED <<hist, pc, stack, lastsig>>
  /\ UNCHANGED <<t, alive, rtype, L, over, dest, sel, nsig, nstop>>

(* The process stops for a signal it has a handler for, which is set to    *)
(* be accepted and not to stop the target (jump_to_lnum gives up then, and *)
(* is left out), or for the Stop button.                                   *)
Signal ==
  /\ ctl \in {"step", "cont"} /\ ~lastsig /\ rtype # "JUMP"
  /\ nsig < MaxSig /\ Depth < MaxDepth
  /\ nsig' = nsig + 1
  /\ stopres' = "SIG" /\ lastsig' = TRUE
  /\ t' = IF ctl = "step" THEN PutBack ELSE t
  /\ ctl' = "back"
  /\ UNCHANGED <<machine, rtype, L, over, dest, sel, hist, nstop>>

Stop ==
  /\ ctl \in {"step", "cont"} /\ ~lastsig
  /\ nstop < MaxStop
  /\ nstop' = nstop + 1
  /\ stopres' = "USER"
  /\ t' = IF ctl = "step" THEN PutBack ELSE t
  /\ ctl' = "back"
  /\ UNCHANGED <<machine, rtype, L, over, lastsig, dest, sel, hist, nsig>>

-----------------------------------------------------------------------------
(* The commands.  A frame is named by its depth; pc and frame pointer of   *)
(* one that is not the innermost come from the stack.                      *)

FramePc(d) == IF d = Depth THEN pc ELSE stack[d + 1]
FrameFp(d) == IF d = Depth THEN FP ELSE -(2 * d) - 1
AdjustedPc(d) == IF d = Depth THEN pc ELSE stack[d + 1] - 1

(* stop_bp: a breakpoint at a, added when there is none, put in by force. *)
WithStopBp(u, a) ==
  LET there == dx_addr_to_breakpoint(u, a)
      v == IF there = {} THEN dx_add_breakpoint(u, TempBp, a, NoCode, "none") ELSE u
      b == IF there = {} THEN TempBp ELSE FirstOf(u, there)
  IN  [table |-> IF v.xp[b] THEN v ELSE install_breakpoint(v, b, TRUE),
       bp |-> b, added |-> there = {}]

(* get_current_func: the command is about the frame whose source is shown. *)
SelectFrame(d) ==
  /\ sel' = [fp |-> FrameFp(d), func |-> Func[AdjustedPc(d)], pc |-> pc]
  /\ home' = [depth |-> d, func |-> Func[AdjustedPc(d)], line |-> Line[AdjustedPc(d)],
              framed |-> HasFrame /\ ~Frameless(FramePc(d)), moved |-> FALSE]
  /\ missed' = FALSE

(* Next or Step: to get to an outer frame the target first runs until it   *)
(* returns there.                                                          *)
StartStepping(r, d) ==
  /\ ctl = "idle" /\ alive
  /\ SelectFrame(d)
  /\ rtype' = r
  /\ LET outer == FrameFp(d) # FP
         s == WithStopBp(t, FramePc(d))
     IN  /\ t' = IF outer THEN s.table ELSE t
         /\ L' = [cont_type |-> IF outer THEN "CONT" ELSE "STEP",
                  stop_bp |-> IF outer THEN s.bp ELSE NoBp,
                  tmp_bp |-> outer /\ s.added,
                  jsr_sp |-> 0, jsr_fp |-> IF outer THEN FrameFp(d) ELSE 0,
                  orig_f |-> Func[AdjustedPc(d)], orig_lnum |-> Line[AdjustedPc(d)],
                  f |-> Func[AdjustedPc(d)], pc |-> FramePc(d), sp |-> SP, plt_stop |-> FALSE]
  /\ ctl' = "loop"
  /\ UNCHANGED <<machine, over, stopres, lastsig, dest, nsig, nstop>>

(* exec_to_lnum and jump_to_lnum put in one breakpoint and disable the     *)
(* others.                                                                 *)
OnlyBreakpoint(u, a) ==
  LET there == dx_addr_to_breakpoint(u, a)
      v == IF there = {} THEN dx_add_breakpoint(u, TempBp, a, NoCode, "none") ELSE u
      b == IF there = {} THEN TempBp ELSE FirstOf(u, there)
  IN  EnableOne(DisableAll(v), b)

Contd(tmp) ==
  [L EXCEPT !.cont_type = "CONT", !.stop_bp = NoBp, !.tmp_bp = tmp, !.plt_stop = FALSE]

exec_to_lnum(a, d) ==
  /\ ctl = "idle" /\ alive
  /\ SelectFrame(d)
  /\ rtype' = "EXECTO" /\ dest' = a
  /\ t' = OnlyBreakpoint(t, a)
  /\ L' = Contd(dx_addr_to_breakpoint(t, a) = {})
  /\ ctl' = "loop"
  /\ UNCHANGED <<machine, over, stopres, lastsig, nsig, nstop>>

(* jump_to_lnum sets the pc, to a line of whatever function, and           *)
(* continues, onto the breakpoint there.                                   *)
GoTo(u, a) ==
  /\ t' = install_all_breakpoints(OnlyBreakpoint(u, a))
  /\ L' = Contd(dx_addr_to_breakpoint(u, a) = {})
  /\ pc' = a
  /\ ctl' = "cont"

jump_to_lnum(a, d) ==
  /\ ctl = "idle" /\ alive
  /\ SelectFrame(d)
  /\ rtype' = "JUMP" /\ dest' = a
  /\ GoTo(t, a)
  /\ UNCHANGED <<alive, stack, over, stopres, lastsig, nsig, nstop>>

-----------------------------------------------------------------------------
(* The loop of dx_run_target_ss, after xp_restart_child. *)

Here == FirstOf(t, get_breakpoint_at_addr(t, pc))

(* execute_bp_code, for a breakpoint whose code does not decide. *)
execute_bp_code(b) == t.global /\ (t.user[b] => ~t.inactive[b])

(* While there is a stop_bp all other breakpoints are ignored. *)
StopNow ==
  \/ stopres \in {"DIED", "USER"}
  \/ /\ stopres = "BPT"
     /\ IF L.stop_bp = NoBp THEN execute_bp_code(Here)
                            ELSE Here = L.stop_bp /\ L.plt_stop

Leave ==
  /\ ctl = "back" /\ rtype # "JUMP"
  /\ StopNow
  /\ ctl' = "end"
  /\ UNCHANGED <<t, machine, rtype, L, over, stopres, lastsig, dest, sel, hist, nsig, nstop>>

(* RT_CONT, under exec_to_lnum: a signal, or a breakpoint that does not    *)
(* want to stop.                                                           *)
GoOn ==
  /\ ctl = "back" /\ rtype = "EXECTO"
  /\ ~StopNow
  /\ ctl' = "loop"
  /\ UNCHANGED <<t, machine, rtype, L, over, stopres, lastsig, dest, sel, hist, nsig, nstop>>

(* Two slips: the level is not looked at, or the frame itself does not     *)
(* count.                                                                  *)
AnyLevel == TRUE
LevelAbove == IF L.jsr_fp # 0 THEN FP > L.jsr_fp ELSE SP > L.jsr_sp

AtRightStackLevel == IF L.jsr_fp # 0 THEN FP >= L.jsr_fp ELSE SP >= L.jsr_sp

(* stop_bp was reached in the frame it was meant for. *)
Reached == stopres = "BPT" /\ Here = L.stop_bp /\ AtRightStackLevel

(* The locals once the state of the target has been read. *)
Observed ==
  [L EXCEPT !.f = Func[pc], !.pc = pc, !.sp = SP,
            !.plt_stop = IF stopres = "BPT" THEN FALSE ELSE @]

SteppedIntoFunc == SP < L.sp /\ (Func[pc] # L.f \/ pc <= L.pc)

(* Where to run to before stepping on, or 0: over a signal handler, to the *)
(* function a linkage stub leads to, or over a function.                   *)
ThroughStub == rtype = "STEP" /\ SteppedIntoFunc /\ Func[pc] \in PltFunc /\ stopres # "SIG"

RetAddr ==
  IF stopres = "SIG" THEN pc
  ELSE IF ThroughStub THEN MinBpt[Func[Callee[pc]]]
  ELSE IF SteppedIntoFunc /\ (rtype = "NEXT" \/ Func[pc] \in NoSource) THEN stack[Depth]
  ELSE 0

StepOn ==
  /\ ctl = "back" /\ Stepped(rtype)
  /\ ~StopNow
  /\ \/ \* off the end of main
        /\ SP > BaseSp
        /\ L' = [Observed EXCEPT !.f = L.f, !.cont_type = "CONT"]
        /\ ctl' = "loop" /\ UNCHANGED t
     \/ \* still inside the call
        /\ SP <= BaseSp
        /\ L.stop_bp # NoBp /\ ~Reached
        /\ L' = Observed
        /\ ctl' = "loop" /\ UNCHANGED t
     \/ /\ SP <= BaseSp
        /\ L.stop_bp = NoBp \/ Reached
        /\ LET out == IF Reached THEN uninstall_breakpoint(t, L.stop_bp) ELSE t
               u == IF Reached /\ L.tmp_bp THEN dx_remove_breakpoint(out, TempBp) ELSE out
               M == IF Reached THEN [Observed EXCEPT !.stop_bp = NoBp, !.jsr_sp = 0,
                                        !.tmp_bp = FALSE, !.cont_type = "STEP"]
                               ELSE Observed
               s == WithStopBp(u, RetAddr)
               newline == Line[pc] # 0 /\ <<Func[pc], Line[pc]>> # <<L.orig_f, L.orig_lnum>>
           IN  IF RetAddr # 0
               THEN /\ t' = s.table
                    /\ L' = [M EXCEPT !.stop_bp = s.bp, !.tmp_bp = s.added, !.jsr_sp = SP,
                                      !.cont_type = "CONT", !.plt_stop = ThroughStub,
                                      !.f = IF ThroughStub THEN Func[Callee[pc]] ELSE @]
                    /\ ctl' = "loop"
               ELSE /\ t' = u
                    /\ L' = IF newline /\ pc \notin LineStart /\ Func[pc] = L.orig_f
                            THEN [M EXCEPT !.orig_lnum = Line[pc]] ELSE M
                    /\ ctl' = IF newline /\ pc \in LineStart THEN "end" ELSE "loop"
  /\ UNCHANGED <<machine, rtype, over, stopres, lastsig, dest, sel, hist, nsig, nstop>>

(* A slip: the temporary breakpoint is left when Stop ended the command. *)
EndLeavingTemp ==
  /\ ctl = "end" /\ Stepped(rtype)
  /\ t' = IF L.tmp_bp /\ stopres # "USER" THEN dx_remove_breakpoint(t, TempBp) ELSE t
  /\ GoIdle
  /\ UNCHANGED <<machine, rtype, stopres, lastsig, nsig, nstop>>

(* The end of dx_run_target_ss. *)
EndStepping ==
  /\ ctl = "end" /\ Stepped(rtype)
  /\ t' = IF L.tmp_bp THEN dx_remove_breakpoint(t, TempBp) ELSE t
  /\ GoIdle
  /\ UNCHANGED <<machine, rtype, stopres, lastsig, nsig, nstop>>

(* exec_to_lnum goes on when it got to the line in an inner call of the    *)
(* function that is shown.                                                 *)
TooDeep == sel.func = Func[dest] /\ FP < sel.fp

Restored == EnableAll(IF L.tmp_bp THEN dx_remove_breakpoint(t, TempBp) ELSE t)

EndExecTo ==
  /\ ctl = "end" /\ rtype = "EXECTO"
  /\ \/ /\ stopres = "BPT" /\ TooDeep
        /\ ctl' = "loop" /\ UNCHANGED <<t, L, over, dest, sel, hist>>
     \/ /\ ~(stopres = "BPT" /\ TooDeep)
        /\ GoIdle /\ t' = Restored
  /\ UNCHANGED <<machine, rtype, stopres, lastsig, nsig, nstop>>

(* jump_to_lnum sets the pc once more when the frame is too deep; after    *)
(* Stop it goes back to where the target was.                              *)
EndJump ==
  /\ ctl = "back" /\ rtype = "JUMP"
  /\ \/ /\ stopres = "BPT" /\ TooDeep
        /\ pc' = dest /\ ctl' = "cont" /\ UNCHANGED <<t, L, over, dest, sel, hist>>
     \/ /\ stopres = "USER"
        /\ dest' = sel.pc
        /\ GoTo(IF L.tmp_bp THEN dx_remove_breakpoint(t, TempBp) ELSE t, sel.pc)
        /\ UNCHANGED <<over, sel, hist>>
     \/ /\ stopres # "USER" /\ ~(stopres = "BPT" /\ TooDeep)
        /\ GoIdle /\ t' = Restored /\ UNCHANGED pc
  /\ UNCHANGED <<alive, stack, rtype, stopres, lastsig, nsig, nstop>>

-----------------------------------------------------------------------------
Proceed ==
  \/ Restart \/ SingleStep \/ Run \/ ExitProcess
  \/ Leave \/ GoOn \/ StepOn \/ EndStepping \/ EndExecTo \/ EndJump

Next ==
  \/ Proceed
  \/ Signal
  \/ Stop
  \/ \E r \in {"NEXT", "STEP"}, d \in 1..Depth : StartStepping(r, d)
  \/ \E a \in DestAddrs, d \in 1..Depth : exec_to_lnum(a, d)
  \/ \E a \in DestAddrs, d \in 1..Depth : jump_to_lnum(a, d)

(* The debugger and the process go on by themselves; the user, signals and *)
(* the mouse need not.  This is WF_vars(Proceed), written out: Proceed is  *)
(* enabled in every state that is not idle.                                *)
Fairness == []<>(ctl = "idle") \/ []<><<Proceed>>_vars

Spec == Init /\ [][Next]_vars /\ Fairness

-----------------------------------------------------------------------------
TypeOK ==
  /\ t \in Tables
  /\ alive \in BOOLEAN /\ pc \in Addr /\ stack \in Seq(Addr)
  /\ ctl \in Points /\ rtype \in Commands
  /\ over \in Bp \union {NoBp} /\ L.stop_bp \in Bp \union {NoBp}
  /\ stopres \in {"SSTEP", "BPT", "SIG", "USER", "DIED"} /\ lastsig \in BOOLEAN
  /\ dest \in Addr /\ missed \in BOOLEAN

(* Next "never steps into called functions" (doc/ups.man:1928): when the   *)
(* loop ends of itself the target is in the frame the command began in or  *)
(* in a caller of it, whatever calls itself again and whatever signal      *)
(* handlers run.  (Not when Stop caught the target before the function it  *)
(* is in had made its frame: an outer frame is then taken for the current  *)
(* one.  Nor after main ended.  Nor when the command began in an outer     *)
(* frame and that has returned: jsr_fp still names it, and another call at *)
(* that level is taken for the right one.)                                 *)
NextStaysOut ==
  /\ ctl = "end" /\ rtype = "NEXT" /\ stopres \in {"SSTEP", "BPT"}
  /\ home.framed /\ home.depth > 0
  /\ L.jsr_fp # 0 => L.jsr_fp = -(2 * home.depth) - 1
  => Depth <= home.depth

(* Next and Step end at the first start of another line in that frame or   *)
(* its callers, exec_to_lnum at the line it was given: the target never    *)
(* runs past it.  This needs all breakpoints active, because a stop_bp     *)
(* that is an inactive breakpoint is not put back once it was stepped over *)
(* and a disabled one stops nothing (install_breakpoint, execute_bp_code), *)
(* and for Step that no signal resets plt_stop.                            *)
NoRunawayWhenActive ==
  missed => \/ ~t.global
            \/ \E b \in UserBp : t.inactive[b]
            \/ rtype = "STEP" /\ nsig > 0

(* "The code on the highlighted line is executed, and the highlighting     *)
(* moves on to the next line to be executed" (doc/ups.man:1906): the same  *)
(* of Next alone, whatever breakpoints there are.                          *)
NextEndsAtNextLine == ~(missed /\ rtype = "NEXT")

(* When the user has control again the list is as it was: the temporary    *)
(* breakpoint is gone, every breakpoint is enabled, and every trap in the  *)
(* text belongs to a breakpoint of the list, so the next command steps     *)
(* over it.                                                                *)
IdleClean ==
  ctl = "idle" =>
    /\ TempBp \notin t.live
    /\ \A b \in t.live : t.enabled[b]
    /\ \A a \in Addr : t.text[a] = IF get_breakpoint_at_addr(t, a) # {} THEN BPT ELSE Orig[a]

(* Every Step, Next and Execute to here comes to an end, in a program      *)
(* whose functions return.                                                 *)
CommandsEnd == (ctl # "idle" /\ rtype # "JUMP") ~> (ctl = "idle")
==============================================================================
