# A TLA+ model of ups's control over its target

`ups` is a source level debugger for C, C++ and Fortran under X11. What makes it
hard to get right is not its size but its position: it patches the text of
another process, restarts that process from a pc it computes itself, and hears
of it only through `wait()`, while the process runs, receives signals, is killed,
and while the user clicks on Stop. This project models that part - breakpoints,
the life of the target under `ptrace`, stepping, calls of target functions and
watchpoints - and two parts that carry state from one process to the next: the
display of variables and the saved breakpoints. It proves the breakpoint
component correct, and an implementation of an abstract set of traps, for every
number of breakpoints and every text; most of what it claims of the control of
the target, of calls, of stepping and of watchpoints, for every program, every
number of breakpoints, watchpoints and debug registers, and every number of
signals, Stops and failures; and all it claims of the saved breakpoints, for every
set of places and every file.

The build modelled is Linux on x86: `AO_USE_PTRACE`, `AO_ELF`, `BPT_PC_OFFSET`
of 1 (a trap leaves the pc one byte behind itself), `dx_run_target_ss` as the run
loop, and x86 debug registers. File names below are under `src/ups/` unless said
otherwise.

## 1. Inventory

| component | source | state | operations | interacts with |
|---|---|---|---|---|
| breakpoint list | bp.c | `Bphead`, per entry `bp_xp`, `bp_installed`, `bp_enabled`, `bp_code`, `bp_addr`, `bp_user_data`, `bp_solib_event` | add, remove, install, uninstall, enable, disable, move, the loops over all, the trial of `can_install_all_breakpoints` | patches the target with `ao_tswap`; asks obj_bpt.c whether a breakpoint is disabled |
| breakpoint objects | obj_bpt.c | `bd_inactive`, `want_save`, `global_bp_enabled`, interpreted code | add, remove, move, activate, edit, save, load, `execute_bp_code` | own entries of the list; state files |
| restart and patching | ao_target.c | `iproc_t`: `ip_stopres`, `ip_lastsig`, `ip_restart_pc`, `xp_hit_solib_event` | `ao_tswap`, `ao_restart_child`, `ao_detach`, `ao_set_protection`, `ao_call_func` | ao_ptrace.c, bp.c |
| ptrace control | ao_ptrace.c, ao_pt_regs.c | `ip_pid`, `ip_attached`, debug registers | create, attach, detach, kill, continue, step, wait | the kernel; SIGIO from the X connection |
| execution commands | exec.c | temporary breakpoints | Start, Cont, Stop, Kill, `xp_execto`, `dx_start`, `check_for_dynamic_libs`, `exec_to_lnum`, `jump_to_lnum` | all of the above |
| run loop | trun_ss.c | locals: `stop_bp`, `plt_stop`, `orig_fp`, `check_wps`, `emulated_wps`, `cont_type` | `dx_run_target_ss`: Cont, Step, Next | breakpoints, watchpoints, signals |
| watchpoints | wp.c, obj_wpt.c | `Wphead`, `wp_installed`, `wp_activated`, `wp_enabled`, `wp_val` | add, remove, install, activate, deactivate, uninstall, check | debug registers, page protection in the target |
| signal table | obj_signal.c | attributes of each signal | look up, change | `ao_restart_child`, the run loop |
| dynamic libraries | ao_elflib.c | link map, the linker's breakpoint | add, rescan | breakpoint list, `check_for_dynamic_libs` |
| Stop and X events | ui_menu.c, lib/libx11wn | queued events | `user_wants_stop`, the SIGIO abort function | `ptrace_wait_for_target` |
| variable display | va_state.c, va_menu.c, va_expr.c, obj_misc.c, obj_buildf.c, expr.c | `Vflist` with `been_displayed` and `user_changed_vars`; the objects under each file | add, delete, expand, collapse, hide, save, restore | object library; every stop, start and end of the target |
| object library | lib/libobj | the tree, the marks `OB_UPDATE_LPTRS`, the list of lines | add, remove, retype, sort, lay out | variable display and everything else shown |
| state files | config.c, obj_bpt.c, st_util.c | `/tmp/ups-state.PID`, the session's state file, the user's own, `.config` | save, restore, drop | breakpoints, variable display |
| C interpreter, symbol tables, source windows, menus, other libraries | xc_*, ci_*, ao_sym*, ui_*, src/lib | - | - | not modelled (section 8) |

Which behaviours are hard here:

* **The target runs while ups computes.** It may die, or be killed, between any
  two `ptrace` calls, and also while it is stopped.
* **Signals** stop the target at any instruction, including one that holds a
  trap not yet executed and one that is being stepped over.
* **SIGIO** interrupts `wait()` by `siglongjmp`, before or after the kernel has
  handed out the status.
* **State outlives processes.** Breakpoints and watchpoints carry flags that
  describe a process and are meant to be reset when it goes.
* **Failures are only reported**: `install_breakpoint` goes on after a failed
  `xp_tswap`, `dx_run_target_ss` ignores what `uninstall_all_watchpoints` returns.
* **Long legal sequences**: breakpoints are added by six callers, of which two look
  at nothing, are moved, disabled and forced in by others, and share the text of one
  process.
* **Nested runs**: the code of a breakpoint, an expression on the display and
  `mprotect` for a watchpoint call functions of the target in the middle of a
  run, and share `ip_stopres`, `ip_lastsig` and the breakpoint list with it.
* **Two copies of one truth**: what is shown is in the tree, in `Vflist` and in a
  file; breakpoints are in the list and in up to three files. Each start, stop
  and end of a process moves them from one to the other.

What makes each component correct: the text of the target is the program's with
traps exactly where the list says (breakpoints); the program executes its own
instructions and no breakpoint is missed (restart); stops are noticed and Stop is
honoured (waiting); a step ends where the next line begins and leaves the list as
it was (stepping); a called function leaves no trace (calls); no change of a
watched area goes unseen and nothing is left behind in the process (watchpoints);
what the user had on the display and among the breakpoints is there again in the
next process, and every object has its line (display, state files). `PROJECT.json` lists the hazards with the
lines where they bite and the properties aimed at each.

## 2. Modules

| module | what it is |
|---|---|
| `BreakpointTable` | bp.c and `ao_tswap` as operators on a table that holds the list and the text of the process. `Breakpoints`, `Target`, `Stepping` and `Calls` use it. |
| `TableProofs` | what each operation does to a table, as lemmas for the proofs below. |
| `Breakpoints` | the table driven by all its callers, over a process that starts, is attached to, maps libraries, exits, is killed and detached from. |
| `BreakpointsProofs` | the theorems about `Breakpoints`, for every value of the constants. |
| `TrapSet` | what the list promises: places, the ones where a trap is wanted, the ones that have it, and a text that shows nothing else. |
| `BreakpointsRefinement` | the proof that `Breakpoints` implements `TrapSet`. |
| `Target` | debugger, kernel and user as three actors: Start, Cont, Stop, Attach, Detach, Kill, on top of `BreakpointTable`. |
| `TargetProofs` | the theorems about `Target`. |
| `Watchpoints` | wp.c with its pointers, debug registers, page protection, and the watchpoint part of the run loop. |
| `WatchpointsProofs` | the theorems about `Watchpoints`. |
| `Stepping` | Step, Next, `exec_to_lnum` and `jump_to_lnum` over a program with a stack, on top of `BreakpointTable`. |
| `SteppingProofs` | the theorems about `Stepping`. |
| `Calls` | `ao_call_func` and its callers, watched runs among them, and the way of signals through the table of obj_signal.c, on top of `BreakpointTable`. |
| `CallsProofs` | the theorems about `Calls`. |
| `ObjTree` | lib/libobj: the tree, its marks and its incremental layout, as operators. |
| `Display` | global variables and expressions under source files, through the life of several processes, on top of `ObjTree`. |
| `SavedBreakpoints` | breakpoint objects and the files they go through. |
| `SavedBreakpointsProofs` | the theorems about `SavedBreakpoints`. |
| `MC...` | instances for TLC: a small program, opcodes that tell addresses apart, symmetry. |

### BreakpointTable and Breakpoints

A table is a record with one function per field of `struct breakpoint_s`, the
order of the list, and the text. A routine for one breakpoint is an operator from
a table to a table; a loop over the list is written as the table it leaves behind.
Two breakpoints at one address would make that depend on the order of the list,
so the order is kept (`before`): the first of two saves the opcode, the second
saves a trap. `malloc` leaves `bp_code` as it finds it; `dx_add_breakpoint` takes
that junk as a parameter.

Each caller of the list is an action of `Breakpoints`, and its look for an existing
breakpoint is a guard exactly where the code has one: `add_breakpoint_object`,
`exec_to_lnum`, `jump_to_lnum` and `dx_run_target_ss` look. The dynamic linker's
breakpoint is added without looking, but only once. `xp_execto` looks at nothing, and
neither does `recalculate_bpt_addrs`, which moves the breakpoints of all objects at
once to where their lines now are. Both belong to the start of a process
(`starting`, from `Start` to `Started`), in which no breakpoint of the user's is put
into the text; that the second of two breakpoints at one address then saves no trap as
an opcode is what `UniqueAddresses` says. `ExecBp` is the structure of `xp_execto`'s
breakpoint, which lives no longer than that function, and `StartAddrs` are the places
it is called for, the entry and the body of `main`, where users do put breakpoints.
`Relocations` are the ways lines may move: the loader maps libraries apart, so two
lines do not come to lie at one address.

`exec_to_lnum` and `jump_to_lnum` appear as the steps they take (add a temporary one,
disable all, enable one, run, enable all, remove); `Quiet` says that neither is under
way, which is when menus work. `exec_to_lnum` also restores the saved breakpoints
before it starts a process, with all others disabled (`Editing`).
`Late` are addresses in libraries that are mapped after the process started:
`xp_tswap` fails there until then.

`TrapSet` is the abstract specification: `Abstract` in `Breakpoints` maps the table
to its three sets and the text outside late libraries. `ArmAll` is the promise that
matters most: continuing the target puts in *every* trap that is wanted; and no
operation changes the text anywhere but at the places it says.

### Target

The state is the kernel's (`kern`, `kpc`, pending signals, the `wait` status),
ups's copy in `iproc_t` and `xp`, and ups's point of control `ctl` with the routine
that waits (`caller`). Each routine is cut exactly where it waits for the target
or asks X for events, since only there can another actor take a step that
matters; what lies between is one action.

* `Execute` runs one instruction or a trap. `Succ` is the program. When the pc is
  not at an instruction the result may be anything.
* `Reap` and `ptrace_wait_for_target` are the two halves of a wait, because
  `stop_target` can jump out in between: `Interrupt`.
* `Restart`, `ReplaceBreakpoint`, `Again` are `ao_restart_child`: take the
  breakpoint at the pc out, step, put it back, go on; pass SGH_CONT signals on.
* `Start` ... `Started` are `ptrace_create_child` and `dx_start`: `exec` leaves the
  process at the first instruction of the dynamic linker (`LdAddr`), from where it
  runs to the entry point, gets the linker's breakpoint, and runs to main over linker
  events.
* `RunLoop`, `RunOn`, `RunEnds` are `dx_run_target_ss` with `RT_CONT` and
  `check_for_dynamic_libs`.

`real` and `told` are history variables that properties need: the instruction the
program itself would run next, and the stop acted on last.

### Watchpoints

The list is modelled with its pointers, because `dx_remove_watchpoint` sets the
`wp_prev` of the next entry to that entry itself; a walk into freed memory makes
the state `wild`. Watchpoints that get no debug register have their page protected,
and a write there is stepped over with all pages unprotected. Reads and `mprotect`
may fail.

The loops over the list are written as what they leave behind. Each watchpoint in
turn takes the first free register, so the n-th of those that want one gets the
n-th free one (`Getting`); each in turn gives back the first register that holds
its area, so the n-th of those at an area gives back the n-th register with it
(`Giving`), which need not be the one it took. A loop that returns at a failure has
treated the watchpoints before it (`Before`). `unordered` (a watchpoint other than
the oldest was removed) and `stuck` (an `mprotect` failed) are history.

### Stepping

The program is a set of instructions that make frames, call, return and jump
through linkage stubs; the stack is the sequence of return addresses, and the
stack and frame pointers are computed from it, so that a function whose frame is
not made yet has its caller's frame pointer, as on x86. The actions cut
`dx_run_target_ss` where it restarts the target: `Restart` is the top of the loop,
`SingleStep` and `Run` the target, `StopNow`, `Leave`, `GoOn` and `StepOn` the switch
and what follows it. `L` holds the locals of the function (`stop_bp`, `orig_fp`,
`orig_sp`, `plt_stop` and the rest). `exec_to_lnum` and `jump_to_lnum` begin with all
their preparations and end with `EndExecTo` and `EndJump`.

`ProgramAssumption` says what makes the addresses a program: a function begins with a
push at its lowest address or is a stub, nothing but calls and stubs leads to the
first instruction of a function, and a function that calls itself goes back. The
program may otherwise be any.

`home` and `missed` are history: where the command began, and that it ran past the
place it should end at. The depth of `home` follows the frames that return, is 0 once
main has ended, and `framed` says that the frame was made when the command began.

### Calls

`ao_call_func` begins with its preparations (registers saved, breakpoint at the
return address added or found, pc moved) and ends with `EndCall`, which has all its
early returns. In between the target runs, with breakpoints, signals, Stop and death
as in any other run, and with functions that call functions: `Callee` has the calls of
the program, the stack their return addresses, and one who returns finds there whose
registers it will have. Called functions come from breakpoint code
(`execute_bp_code`, `CodeCalls`, `CodeEnds`), from an expression on the display
(`update_expr`) and from `ao_set_protection`, which a watched run calls four times: to
protect a page at its beginning (`ContWithWatchpoint`), to make it writable after a
fault (`Fault`), to protect it again after the step (`check_all_watchpoints`), and at
its end (`uninstall_all_watchpoints`). `call.origin` says which of them waits, and
`AfterCall` and `WpsAfter` where it goes on.

`Stop` is a press of the button that is reported with a SIGTRAP, `StopWithSignal` one
that another signal is reported with: the stop is then SR_SIG, and the press is
forgotten. In both the SIGTRAP that was sent may still be pending, and comes as a stop
of its own at the next restart (`StrayTrap`). `do_sig` changes the signal table.
`astray` is a program that runs with registers or from a pc that are not its own,
`wild` one that executes a trap no breakpoint owns, `panic` the failed assertion of the
run loop; the history in `hist` and `due` says how it came to that.

### ObjTree and Display

`redo_lptrs` walks the tree and either lays an object out or, when it is not marked,
takes the lines of its descendants over from the old list (`reclaim_lptrs`) and moves
them. Both are operators here, from a tree to a tree; a line is the set of objects
on it and its height. The marks are cleared as the code clears them, at the last
object of a line, and set up to the first marked ancestor.

`Display` drives that with the menus of the source files and of a file, names
clicked in the source, and what `refresh_target_display`, `rebuild_display`,
`save_target_state` and `restore_target_state` do at a start, stop, exit and kill.
Each action is a whole handler, since ups takes one event at a time. `kept` is what
the user last left each file showing; `excused` the files for which the code is
known to do something else (section 4).

### SavedBreakpoints

A breakpoint object is its place and three flags. `Through` is what Start, Attach,
a library scan and the reload of a source do: append the breakpoints to the
temporary file, remove all, read the whole file again. `Attach` has the two cases of
the menu, a pid and the blank for the last one; `AttachAnew` is either of them when the
program or its libraries have changed, so that the target is let go of, attached to
again by `attach_to_target` and restored a second time. `HandleAdd` is one line of a
file, with its removal of an earlier breakpoint at that line and its second attempt
at the start of the function; `read_config_file` reads a file line by line, as a
recursive function of the number of lines read. `asked` and `had` are history. `asked`
has the places the user or a file named and, when a file is read without replacing,
the first place of the function for each line that finds its place taken (`Retried`,
`Asks`).

## 3. Runs

| run | expects | what it shows |
|---|---|---|
| `breakpoints` | pass | `TypeOK`, `UniqueAddresses`, `TextIntegrity`, `SavedOpcode`, `DetachedClean`, `NothingInstalledWithoutProcess` under every order of operations; `ImplementsTrapSet` |
| `target` | pass | `TypeOK`, `UndisturbedRunsExact`, `BreakpointsArmed`, `TrapsAccountedFor`, `NoTemporaryLeft` with signals, deaths and X events anywhere; `StopNoticed` |
| `target_death` | violation of `NoPanic` | finding 1 |
| `target_stop_race` | violation of `ExecutesProgram` | finding 2 |
| `watchpoints` | pass | `TypeOK`, `AllSeenInFirstProcess`, `CleanWhenIdle`, `OwnFaultsOnly`, `ListSound`, `FaultReported` |
| `watchpoints_stale` | violation of `NoUnseenChange` | finding 3 |
| `stepping` | pass | `TypeOK`; Next ends no deeper than it began (`NextStaysOut`) and at the first new line (`NoRunawayWhenActive`); the list is left as it was (`IdleClean`); commands end (`CommandsEnd`) |
| `stepping_next` | violation of `NextEndsAtNextLine` | finding 4 |
| `calls` | pass | `TypeOK`, `CallsTransparent`, `CallsRunToEnd`, `ListClean`, `SignalsKept`, `SignalsNotRepeated`, `PanicOnlyOnStop`; `StopHonoured` |
| `display` | pass | `TypeOK`, `LayoutExact`, `LinesFound`, `ShownAsLeft` |
| `display_laid_out` | violation of `EverythingLaidOut` | finding 5 |
| `saved_breakpoints` | pass | `TypeOK`, `OnlyWhereAsked`, `KeptThrough`, `NoneRevived` |

Run one with `tlc -workers 2 -config MCTarget.cfg MCTarget`. Every property of a
passing run has a mutant: a definition marked "A slip" in the module that, put in
the place of the real one, must break the property.

Properties that do not hold as the documentation states them are stated as they
hold, with a condition that says what goes wrong otherwise; section 4 lists these
conditions.

### Bounds

* `breakpoints`: three breakpoints, so that a user's, a temporary one and the
  linker's exist together and the list has a middle, and that of `xp_execto`; three
  addresses, one of each kind (a line, where the process is also run to when it
  starts, a line of a late library, the linker's). Opcodes differ between
  the line and the linker, so writing back to the wrong place shows. The proofs
  below remove the bounds for everything this run checks. No counters.
* `target`: a program of five instructions that begins in the dynamic linker, passes
  the linker's breakpoint between entry and main (an initialiser that loads a library)
  or not, and after main, loops and may exit; an undisturbed start reaches main with and
  without a linker event on its way. One user breakpoint at main, where `xp_execto` puts
  its own as well, active or not. `MaxSig = 2`, so that a second signal can arrive in
  the step that restarts from the first; four signals, one that is passed on
  and handled, one that is passed on and deadly, one that `sig_is_fatal` knows, and
  the stop of an attach. The instruction at main has one byte, so that the pc just
  past its trap is that of the next instruction and stops at the two must be told
  apart; the two violations have instructions of two bytes only.
  `MaxX = 1` X event in a behaviour: the races all need a single one. The
  violations are reached with `MaxSig` and `MaxX` as small as they can be, which
  shows what each of them takes.
* `watchpoints`: two watchpoints, one debug register, two areas on one page of
  which only one suits a register: a watchpoint in the register, an emulated one,
  one for which no register is left and two on one page all occur. Two processes,
  for the state that survives the first; one failure.
* `stepping`: main calls a function that calls itself, one through a linkage stub
  and one without source; `MaxDepth = 4` has main, two levels of the recursion and a
  signal handler on the stack at once. One user breakpoint, at a return address in
  the recursion, in the function behind the stub or in the handler, active or not;
  one signal and one Stop, at any instruction. Commands are not counted.
* `calls`: a program that loops over the call of a function `h`, a function to call,
  `f`, which calls `h` as well, and `mprotect`: when the target is stopped in `h`, the
  call of `f` comes by the return address in a nested activation. One user breakpoint,
  in `h`, which both pass. `MaxEvents = 4` signals, presses of Stop, changes of the table,
  calls by users and watched runs, in any mixture and order; the calls a watched run
  makes by itself are not counted. Two signals, one with a handler and SIGSEGV, which
  is the program's own or a write to a protected page; two processes, for what a dead
  one leaves.
* `display`: two files, a variable and an expression in each, room for one or two
  names on a line (so that files share a line or not); three commands and four
  processes in any order. `display_laid_out` takes two commands and two processes.
* `saved_breakpoints`: a function with two lines (so that the second attempt of
  `handle_add_breakpoint_command` goes to a place of its own), one without line
  numbers, a declaration with code; a breakpoint in `.config`. Three commands and two
  starts, attaches, scans or reloads: the file then holds up to three states of one
  breakpoint.

Deadlock is not checked where something really ends: in `Target`, a wait status lost
to `siglongjmp` leaves ups waiting for ever; `Stepping` is the life of one process
and ends with it; `Calls` and `Display` end when their last process has and their
bounds are used up. `SavedBreakpoints` has a step `Done` for that. `panic`, `astray`
and `wild` are end states with a stuttering step of their own.

### Fairness

`Target`: weak fairness of `Kernel` and of `Debugger`. Both are processes that the
operating system runs when they can; nothing is assumed of the user, of other
processes, or of signals. `Watchpoints`: the debugger restarts the target, acts
on a fault, a Stop or a death (`Answer`, the steps of `TargetDied`, `UserStopped` and
`Faulted`), and a target whose next instruction faults runs it. Nothing is assumed about what else the program does. `Stepping` and `Calls`: the
debugger and the process go on by themselves when the user does not have the
debugger (`Proceed`); signals, Stop and commands need not come. `CommandsEnd` is about
a program whose functions return: the recursion is bounded by `MaxDepth`. `Display`
and `SavedBreakpoints` are sequential and state safety only.

## 4. Findings

1. `ao_restart_child_internal` puts the breakpoint back after the step without
   looking whether the target still exists: a program that exits in the step makes
   ups panic (ao_target.c:401, ao_ptrace.c:762).
2. A Stop that comes in with a trap makes the stop SR_USER, for which
   `get_restart_pc` returns no pc: the target resumes one byte past the breakpoint.
3. `wp_activated` survives the process: an emulated watchpoint is blind in the next
   one.
4. Next over a call to a place where the user has an inactive breakpoint: its trap
   is forced in, but once the target passed it in a deeper recursion it is put back
   without force, that is, not at all, and Next runs on (ao_target.c:401-404,
   trun_ss.c:420).
5. A file that has nothing under it any more, because it was collapsed or the target
   exited, keeps its mark when it shares its line with the next one; an object added
   under it later is never laid out (lib/libobj/o_lptrs.c:231). In the run the files are
   shown, an expression is entered and the target exits: in the next process the
   expression has no line.

`PROJECT.json` has each with the lines of the code and the line it contradicts.

### Conditions the properties need

Met while modelling; each is a condition of a property, or a remark of the module
that models it.

*Breakpoints.* `install_breakpoint` ignores that `xp_tswap` failed (bp.c:134-146): a
breakpoint in a library not mapped yet counts as installed with a `bp_code` that was
never set. `SavedOpcode` and the refinement are about text that is there from the
beginning. `xp_execto` puts its breakpoint on top of a user's, and
`recalculate_bpt_addrs` moves breakpoints without looking where to: `UniqueAddresses`
holds because of the order of things in `ptrace_create_child`, and of what the loader
does. Two lines do not come to lie at one address, and the address of a temporary
breakpoint, which is not moved, is not given to another library. `get_bpt_addr` looks a
line up in the function of the object; for C++ it compares the number of the line only
(st_util.c:702-705), so that two breakpoints on lines of one number in two files, of
which a header is one, would get one address. The model takes lines as they are.

*Target* (`UndisturbedRunsExact`: no X events, and for missed breakpoints no signals).
PTRACE_DETACH does not set the pc, so a process detached from at a breakpoint runs on
behind the trap (ao_ptrace.c:1097). A signal that is passed on automatically when the
pc is at a trap not executed yet makes the restart step over that breakpoint
(ao_target.c:397). SIGIO after `wait()` returned loses the status
(ao_ptrace.c:240-259). Stop while the target is started reaches the panic of `dx_start`
(exec.c:648), and so does a fatal signal on the way to main (exec.c:650). A pc one
byte past an installed breakpoint is taken for its trap (ao_pt_regs.c:388-391, `at_bpt`
in ao_ptrace.c:360): with breakpoints at 6, an instruction of one byte, and at 8, which
jumps to 7, the single step over the second ends at 7, is reported as a stop at 6, and
the target restarts there. The theorem has the condition `Spaced` for that: the
instruction just behind one of one byte where a breakpoint may be is reached from that
one only.

*Watchpoints.* Removal other than oldest first leaves a freed entry in the list
(`ListSound`, wp.c:81-82). `deactivate_all_watchpoints` returns at the first `mprotect`
that fails (wp.c:178): the page of a watchpoint before it is writable again, another one
on that page stays "activated" and is not protected at the next run
(`AllSeenInFirstProcess`; it takes three watchpoints on two pages). A fault of the program's own while a watchpoint is emulated
is stepped into for ever (`FaultReported`, trun_ss.c:228-249).

*Stepping* (`NoRunawayWhenActive`). Breakpoints are not stopped at while `stop_bp` is
set, in signal handlers for example. `exec_to_lnum` to a line with an inactive
breakpoint, or with all of them disabled, runs past it. A breakpoint hit in a signal
handler resets `plt_stop`, and a Step through a stub runs on. A command begun before
the function made its frame takes the caller's for its own (`NextStaysOut`). `jsr_fp` is
set for a command that begins in an outer frame and never cleared (trun_ss.c:117,
356-369): once that frame has returned, another call at its level is taken for the
right one, and Next may end in a deeper frame, where doc/ups.man:1928 has it never step
into called functions. `NextStaysOut` excepts this, and what happens after main ended.
A line that is entered in its middle replaces `orig_lnum` (trun_ss.c:434-437), so that
its start is passed when the target comes to it later; the program of the instance
has no such line.
`jump_to_lnum` to an outer frame goes on until Stop, and so has no part in
`CommandsEnd`.

*Calls.* A call of a function that can reach, itself or through what it calls, the
function the target is stopped in may be taken as finished in a nested activation of
that one, since only the pc is compared (`CallsRunToEnd`, ao_target.c:1438). The
registers are put back all the same, so that the program does not notice; the value is
not the function's, and what the function was still to do is not done. A call that does
not come back leaves the registers as they are (`CallsTransparent`). A target that dies
in a call leaves the call's breakpoint in the list (`ListClean`). A call resets
`ip_lastsig`: a signal that was due is lost, also when the call is one of `mprotect` in
the middle of a watched run (`SignalsKept`). A press of Stop that is reported with a
signal after which the target is continued is forgotten, and so is one in a call of the
code of a breakpoint that the target was stepped to (`StopHonoured`, `hist.beaten`).
A signal to be ignored and continued, without a handler, is delivered by
`ao_restart_child`, which does not ask `accept_signal` (ao_target.c:437-444); no
property is about that, it would only repeat the conditions of the code. Stop in a
call of breakpoint code during a Step reaches the assertion (`PanicOnlyOnStop`).

*Display* (`ShownAsLeft`). A file marked `been_displayed` is not restored at a start; a
start after an exit reads the state file of an earlier Kill; collapsed files come back
expanded.

*Saved breakpoints.* Breakpoints with `want_save` FALSE (loaded "NOT saved", or from
`.config`) vanish at the first start once the temporary file exists, and those with
code are saved all the same. A breakpoint removed after a start comes back with the
next start when the target ended on its own (`NoneRevived`). One in a function without
line numbers comes back in its oldest state (`KeptThrough`). Loading over existing
breakpoints without replacing them adds one at the function's start
(`OnlyWhereAsked`, obj_bpt.c:431-434).

## 5. Proofs

### Breakpoints

`BreakpointsProofs` proves, for any sets of breakpoints, addresses and opcodes:

| theorem | property |
|---|---|
| `Invariance` | the inductive invariant `IndInv` |
| `TypeCorrect` | `TypeOK` |
| `AddressesUnique` | `UniqueAddresses` |
| `TextIsIntact` | `TextIntegrity` |
| `OpcodesAreSaved` | `SavedOpcode` |
| `DetachLeavesNoTrap` | `DetachedClean` |
| `NothingInstalledWhenGone` | `NothingInstalledWithoutProcess` |

Assumptions: `TableAssumption` and `AddrAssumption` of the modules, and in each
theorem `LinkerApart`: the dynamic linker's `r_brk` is not the address of a source
line, nor where a new process is run to. It is needed because ao_elflib.c adds its breakpoint without looking for one
at the address; with a user's breakpoint there the second would save the first
one's trap.

`TextIntegrity` is not inductive. Uninstalling needs to know that `bp_code` is the
opcode (`SavedOpcode`); installing needs to know that no other breakpoint's trap
is at the address (`UniqueAddresses`), and that what counts as not installed is
not in the text. `enabled`, `installed` and `xp` are three flags whose combinations
matter: a disabled breakpoint that is marked `installed` is put in by enabling it.
`IndInv` therefore has the parts

* `FlagsAgree`: in the text implies enabled and marked; marked and not in the text
  implies disabled, and not by the user;
* `AddressesApart`: one breakpoint per address, but for that of `xp_execto`, and which
  kind lives where;
* `ExecBpApart`: while that one is in the list, it and the linker's are the only ones in
  the text;
* `TextAgrees`: a trap, and its saved opcode, where a breakpoint is in the text,
  and the program's own opcode everywhere else;
* `StartsClean`: it is in the list only while a process is started, and no breakpoint of
  the user's is in the text of such a process;
* the two properties about processes that are gone.

The first four are a predicate `Sound` of the table. Each operator of
`BreakpointTable` has a lemma that it preserves `Sound`; the loops share two, for
`SwapInSet` and `SwapOutSet`. One lemma per action of `Breakpoints` lifts these to
`IndInv`.

`BreakpointsRefinement` proves

| theorem | property |
|---|---|
| `Refinement` | `ImplementsTrapSet`, from `LinkerApart` |

on top of `IndInv`. In a sound table the text follows from the set of armed places
(`TextFromArmed`), so what remains to be shown of an operator of bp.c is how it
changes the places, the wanted and the armed ones: the lemmas named `...Sets`. The
lemmas named `...Step` turn these into steps of `TrapSet`, and `RefinementStep` goes
through the actions: operations on late addresses, and a trial of
`can_install_all_breakpoints`, are stutters. The invariant is needed throughout:
without `AddressesApart`, removing one breakpoint would leave its place wanted, and
without `FlagsAgree` enabling one would arm a place that is not wanted.

### The table

`TableProofs` has up to two lemmas for each operation of `BreakpointTable`: `...Fields`
says what the operation does to the fields of any table, `...Intact` that an `Intact`
table (marks that agree, traps at different addresses, a text that shows the traps and
nothing else) stays intact when no trap is put where there is one. `OneEach` is the
sufficient condition for the loops: no two breakpoints at one address. The proofs about
`Target`, `Stepping` and `Calls` see the list through these lemmas only.

### Target

| theorem of `TargetProofs` | property |
|---|---|
| `TargetTypeCorrect` | `TypeOK` |
| `NoForeignTraps` | `TrapsAccountedFor` |
| `AlwaysArmed` | `BreakpointsArmed` |
| `TemporaryRemoved` | `NoTemporaryLeft` |
| `RunsExact` | `UndisturbedRunsExact`, from `Spaced` |

The first four rest on one invariant. `WaitInv` says when the target runs: only while the
debugger waits, and no stop is left unfetched. `CallerInv` says which routine waits at
which point, and when a breakpoint is being stepped over. `ListInv` has the list: intact,
user's breakpoints apart, the breakpoint of `xp_execto` in it exactly while that runs,
and no traps but the debugger's own before `dx_start` installs the others, which is why
`xp_execto` may add one without looking for another at its address. `OverInv` is about
the breakpoint stepped over, `ArmedInv` about the others. None of the four properties is
inductive: `BreakpointsArmed`, for example, says nothing between two runs, where the
breakpoint stepped over is put back or the run ends.

`RunsExact` adds `ExactInv` (where the kernel's pc may be at each point, and what the stop
reason says about it) and `ToldInv`. Both hold only as long as no X event came in, and
they are where `Spaced` (section 4) is needed: after a single step there must be no trap
just before the pc.

Assumptions (`TargetAssumption`): the instructions of the program lead to instructions or
to its end; `r_brk` is in the dynamic linker, so neither a line nor main; no late
libraries, whose breakpoints are the subject of `Breakpoints`.

### Calls

| theorem of `CallsProofs` | property |
|---|---|
| `CallsTypeCorrect` | `TypeOK` |
| `RegistersRestored` | `CallsTransparent` |
| `CallsComplete` | `CallsRunToEnd` |
| `ListLeftClean` | `ListClean` |
| `SignalsPassedOn` | `SignalsKept` |
| `SignalsDeliveredOnce` | `SignalsNotRepeated` |
| `AssertionFailsOnStopOnly` | `PanicOnlyOnStop` |

A target that dies in a call leaves the call's breakpoint in the list, and with it two at
one address, so the table is not intact for ever. It is followed twice: `ListInv`, whatever
happened (every breakpoint that counts as installed has a trap, but the one stepped over),
and `Unleaked`, until a target died in a call. `CallInv` follows the stack: the function
called has not returned (`InFunction`), and then it and everything above it on the stack
are functions that it can reach by calls, or it is back at its return address, where there
is a trap. "Can reach" is said with sets that are closed under calls (`ClosedSets`), so
that no induction over chains of calls is needed. `Unfailed` says whose registers are
whose, in the registers and all frames of the stack, until a call failed. `SignalInv` has
`Uncovered`, what is due to the target until a call was made with a signal due, and
`LastSigDue`, which holds for ever: at a stop `ip_lastsig` is a signal that is due or none.
Assumptions (`CallsAssumption`): an instruction that does not call or return stays in its
function, and addresses are those of the text. Functions may call each other and
themselves in any way.

### Stepping

| theorem of `SteppingProofs` | property |
|---|---|
| `SteppingTypeCorrect` | `TypeOK` |
| `ListAsItWas` | `IdleClean` |
| `NextNeverStepsIn` | `NextStaysOut` |

`Types` has the locals of `dx_run_target_ss` as well: which breakpoint `stop_bp` is, is what
the loop leaves behind at its end. `TableInv` says that the temporary breakpoint is in the
list exactly while `L.tmp_bp` says so, that `stop_bp` is in the list, that only
`exec_to_lnum` and `jump_to_lnum` have breakpoints disabled, and that a stop at a trap is at
one of the list. Assumptions (`SteppingAssumption`): line starts, `main`, the handler, the
instruction after a call and what a linkage stub leads to are in the text.

`NextNeverStepsIn` needs to know where the target is at every restart in between, since
its loop sees a pc, two registers and a stop reason only. `LifeInv` says who is alive and
when a signal is due. `FollowInv` has `HomeInv` (`jsr_fp` does not name a frame inside
`home`) and, as long as the property's conditions hold (`Followed`), `Mode`, which is one
of two:

* `StepMode`: there is no `stop_bp`, the target is single stepped in the frame of `home`,
  and when a step has called a function the loop can tell (`SteppedIntoFunc`);
* `CallMode`: `stop_bp` is set. While its trap is in the text (`Armed`), the target is
  inside a call that returns to it (`Within`) or just back from it with a signal due
  (`Returned`), and the registers at the return are at a level that no deeper activation
  of the same function has (`Level`, `LevelTells`), so the trap is not taken for the right
  one in a recursion. Or the breakpoint was the user's and disabled, its trap is gone for
  good (finding 4), and the loop never again believes it is back.

One lemma says what an instruction can do to the stack (`Instructions`: it stays, calls or
returns), and `HomeGoesOn`, `CallGoesOn` and `HandlerGoesOn` carry the modes over an
instruction and the start of a handler; there is one lemma for each action of the loop.
`ProgramAssumption` (section 2) is what tells a call from a jump: without a push at the
lowest address of each function the loop's own test would not.

### Watchpoints

| theorem of `WatchpointsProofs` | property |
|---|---|
| `WatchpointsInvariance` | the inductive invariant `IndInv` |
| `WatchTypeCorrect` | `TypeOK` |
| `ListStaysSound` | `ListSound` |
| `IdleIsClean` | `CleanWhenIdle` |
| `FaultsAreOwn` | `OwnFaultsOnly` |
| `AllSeen` | `AllSeenInFirstProcess` |

`IndInv` has four parts. `ListInv` relates the pointers to the walk: the walk is a chain
(`Links`), each `wp_prev` leads to the entry before or to the entry itself (`Back`, the slip
of `dx_remove_watchpoint`), and to the entry before until `unordered`. Removing the oldest
only ever writes the `wp_prev` of `Wphead`, which nobody follows. `RunInv` says what each
point of control knows of the process. `CleanInv` is about what is in the process: each
register in use belongs to a watchpoint of its own (`Owned`, an injection), and each page
that is read-only to an activated one. `SeenInv` is the converse: each installed watchpoint
has a register of its own (`Served`), each activated one a protected page, and so each
enabled one is watched while the target runs (`Watching`). The injections are what the loops
preserve: watchpoints at one area exchange their registers when they are given back, so
"its own" is only a matter of numbers.

Two arguments replace inductions over data, which the provers cannot do. What the walk from
`Wphead` visits is shown by its least counterexample (`Least`), and that the n-th watchpoint
and the n-th register exist and are unique by counting predecessors (`Ranks`). Assumptions
(`WatchAssumption`): there are finitely many watchpoints and registers.

### Saved breakpoints

| theorem of `SavedBreakpointsProofs` | property |
|---|---|
| `Invariance` | the inductive invariant `Inv` |
| `TypeCorrect` | `TypeOK` |
| `AskedCorrect` | `OnlyWhereAsked` |
| `KeptCorrect` | `KeptThrough` |
| `RevivedCorrect` | `NoneRevived` |

`OnlyWhereAsked` is not inductive, because what the temporary file holds becomes objects at
the next start. `Inv` adds `Known`: the objects and the places of the temporary file were
asked for, and were there since the file was last emptied. `KeptCorrect` is about a whole
file that is read over an empty list: what the last line of a place says is what it has
afterwards, whatever the lines before it said (`Keeps`, `Back`). Such a fact is an induction
over the lines, which the prover does not have; it is shown by the least number of lines at
which it fails, and in the same way it is shown that the recursion of `read_config_file` has
a value at all. Files are written from a set in some order
(`SetToSeq`), so that each breakpoint has exactly one line in what a save appends.
Assumptions (`PlaceAssumption`): there are finitely many lines, and the first place of a
function is the first place of that function.

### What only TLC checks

* All liveness (`StopNoticed`, `FaultReported`, `CommandsEnd`, `StopHonoured`): the prover has
  no support for fairness.
* `NoRunawayWhenActive` of `Stepping`: it does not hold of every program, so it is a claim
  about the one of the instance. It fails when a line is entered in its middle; when a
  command began in an outer frame that has returned (both section 4); and when Step, after
  a command in an outer frame, steps into a function of one line that calls itself.
* `Display` and `ObjTree` (`TypeOK`, `LayoutExact`, `LinesFound`, `ShownAsLeft`): the layout
  walks trees by recursion and folds sequences of lines, and what such a walk computes for
  every tree needs induction over data.
* The violations: they are about one behaviour each.

## 6. What the models leave out of the code they model

* Killing is one step: uninstall, SIGKILL, wait. `dx_start` calls `xp_cont`, which
  enters `dx_run_target_ss` again; the inner run is the one modelled, and what the
  outer one does after it has no further effect.
* An area that cannot be read when watchpoints are checked is passed over, as the
  code passes it over; memory starts the same in each process.
* `wp_val` is set at the start of each run and not looked at between runs, so the
  model forgets it then.
* What an opcode is and how registers are read. In `Watchpoints` the outcome of
  `mprotect` in the target is success or failure; `Calls` has the call itself.
* What breakpoint code computes: it may call functions, and answer stop or continue.
* `Stepping` and `Calls` take a wait and its status as one step and the pc as already
  corrected for the trap: the races in between are those of `Target`. Watchpoints are
  installed for Cont only, so that Step and Next do not meet them. In `Calls` the pages of
  all emulated watchpoints are one, protected and made writable by one call.
* `Calls` starts a process stopped at its entry; how it gets there is in `Target`.
* Arguments of called functions are not copied; their registers are one flag, the
  program's own or not.
* Values, formats, members and pointers of variables, locals (`Vslist`), common blocks
  and untyped variables; names of files sort as given.
* Source lines do not move between a save and a load, and files can be written.
* Messages and windows.

## 7. Plan

Done: `BreakpointTable`, `Breakpoints` with their proofs and the refinement of
`TrapSet`; `Target`, `Watchpoints`, `Stepping`, `Calls` and `SavedBreakpoints` with the
proofs of section 5; `ObjTree` with `Display`.

Left:

1. What of `NoRunawayWhenActive` holds of every program: it needs a condition on how lines
   are entered, and an invariant that follows the lines of a function as `FollowInv` follows
   its frames.
2. The locals of stack frames on the display (`Vslist` and `Ftlist` of va_state.c).

## 8. Not modelled

The repository has some 195000 lines; what decides about processes, breakpoints,
watchpoints, signals and saved state is a few thousand of them, and those are what
the modules model. The rest cannot be modelled faithfully as a state machine of
small state, which is why the share of lines covered is small:

* generated data: `menudata.c`, `menus/`, the tables of the parsers;
* the user interface: layout, drawing, menus, editing and text windows (`ui_*.c`,
  `srcwin.c`, `tdr.c`, lib/libMen3, lib/libedit, lib/libx11wn): its results are pixels;
* the C interpreter and compiler (`ci_*`, `xc_*`): translation of one input into one
  output, for inputs no bounded set stands for;
* symbol tables and stack traces (`ao_sym*`, `ao_dwf*`, `ao_stab*`, `st_*`, `ao_stack.c`):
  parsing of object files and reading of memory, whose results are constants here;
* other ports: `trun_j.c`, `ao_procfs.c`, the gdb back end, and the parts of the files
  modelled that are for other machines than Linux on x86;
* reading and writing of data, core files and link maps: input and output.
