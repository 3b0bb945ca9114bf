----------------------------- MODULE Watchpoints -----------------------------
(***************************************************************************)
(* The watchpoints of ups: the list of wp.c with its pointers, the x86     *)
(* debug registers (ao_ptrace.c), their emulation by protecting pages      *)
(* (ao_set_protection in ao_target.c), and the part of dx_run_target_ss    *)
(* (trun_ss.c, RT_CONT) that installs, checks and uninstalls them around   *)
(* a run of the target.                                                    *)
(*                                                                         *)
(* The target is what watchpoints see of it: it writes to memory, faults   *)
(* on its own account, is stopped by the user, and exits.                  *)
(***************************************************************************)
EXTENDS Naturals, Sequences, FiniteSets, SequencesExt

CONSTANTS Wp,       \* watchpoint_t structures malloc can return
          Wphead,   \* the head of the list
          Reg,      \* the debug registers, numbers
          Place,    \* areas that can be watched
          Small,    \* those whose size and alignment suit a debug register
          PageOf,   \* PageOf[p]: the page of p
          Val,      \* contents of an area
          Nowhere,  \* a debug register that is not enabled
          MaxProc,  \* bound: processes started
          MaxFail   \* bound: failures of reads and of mprotect

ASSUME WatchAssumption ==
  /\ Wphead \notin Wp /\ IsFiniteSet(Wp)
  /\ Reg \subseteq Nat /\ IsFiniteSet(Reg)
  /\ Small \subseteq Place /\ Nowhere \notin Place /\ Place # {} /\ Val # {}
  /\ DOMAIN PageOf = Place
  /\ MaxProc \in Nat /\ MaxFail \in Nat

Page == {PageOf[p] : p \in Place}
Cell == Wp \union {Wphead}

VARIABLES
  x,         \* the list, and what of the process watchpoints touch, see Worlds
  alive,     \* target_process_exists
  ctl,       \* the point of control: "idle", "loop", "run", "stopped", "wild"
  stopres,   \* why the target stopped: "DIED", "USER", "SEGV", "WPT", "SSTEP", or "none"
  cont_type, \* CT_CONT or CT_STEP
  check_wps, \* the step is one over an instruction that hit a protected page
  emulated,  \* emulated_wps # 0
  own,       \* the next instruction of the target faults by itself
  unordered, \* history: a watchpoint other than the oldest was removed
  stuck,     \* history: an mprotect failed
  nproc, nfail

runVars == <<stopres, cont_type, check_wps, emulated>>
failVars == <<stuck, nfail>>
vars == <<x, alive, ctl, runVars, own, unordered, nproc, failVars>>

(* next and prev are wp_next and wp_prev; reg, prot and mem belong to the  *)
(* process: the place each debug register watches, the read-only pages and *)
(* the contents of memory.                                                 *)
Worlds ==
  [live : SUBSET Wp, next : [Cell -> Cell], prev : [Cell -> Cell],
   place : [Wp -> Place], enabled : [Wp -> BOOLEAN],
   installed : [Wp -> BOOLEAN], activated : [Wp -> BOOLEAN], val : [Wp -> Val],
   reg : [Reg -> Place \union {Nowhere}], prot : SUBSET Page, mem : [Place -> Val]]

NoPlace == CHOOSE p \in Place : TRUE
NoVal == CHOOSE v \in Val : TRUE

FreshProcess(y) ==
  [y EXCEPT !.reg = [r \in Reg |-> Nowhere], !.prot = {}, !.mem = [p \in Place |-> NoVal]]

Blank ==
  [live |-> {}, next |-> [c \in Cell |-> Wphead], prev |-> [c \in Cell |-> Wphead],
   place |-> [w \in Wp |-> NoPlace], enabled |-> [w \in Wp |-> FALSE],
   installed |-> [w \in Wp |-> FALSE], activated |-> [w \in Wp |-> FALSE],
   val |-> [w \in Wp |-> NoVal],
   reg |-> [r \in Reg |-> Nowhere], prot |-> {}, mem |-> [p \in Place |-> NoVal]]

Init ==
  /\ x = Blank
  /\ alive = FALSE /\ ctl = "idle" /\ stopres = "DIED"
  /\ cont_type = "CONT" /\ check_wps = FALSE /\ emulated = FALSE
  /\ own = FALSE /\ unordered = FALSE /\ stuck = FALSE /\ nproc = 0 /\ nfail = 0

-----------------------------------------------------------------------------
(* wp.c: the list. *)

(* The structures a loop from Wphead visits, up to one that was freed. *)
List(y) ==
  LET After(s) == y.next[IF s = <<>> THEN Wphead ELSE Last(s)]
      walk[n \in 0 .. Cardinality(Wp)] ==
        IF n = 0 THEN <<>>
        ELSE LET s == walk[n - 1] IN IF After(s) \in y.live THEN Append(s, After(s)) ELSE s
  IN  walk[Cardinality(Wp)]

(* The loop comes back to Wphead, so it has met no freed structure. *)
Walkable(y) == y.next[IF List(y) = <<>> THEN Wphead ELSE Last(List(y))] = Wphead

dx_add_watchpoint(y, w, p) ==
  [y EXCEPT !.live = @ \union {w},
            !.next = [@ EXCEPT ![w] = y.next[Wphead], ![Wphead] = w],
            !.prev = [@ EXCEPT ![w] = Wphead, ![y.next[Wphead]] = w],
            !.place[w] = p, !.enabled[w] = TRUE,
            !.installed[w] = FALSE, !.activated[w] = FALSE]

(* A slip: the structure before the removed one still points to it. *)
RemoveHalfway(y, w) ==
  [y EXCEPT !.live = @ \ {w}, !.prev[y.next[w]] = y.prev[w]]

(* The fields of a freed structure are never read: see Walkable. *)
dx_remove_watchpoint(y, w) ==
  LET n == y.next[w]
  IN  [y EXCEPT !.live = @ \ {w},
                !.next = [[@ EXCEPT ![y.prev[w]] = n] EXCEPT ![w] = Wphead],
                !.prev = [[@ EXCEPT ![n] = n] EXCEPT ![w] = Wphead],
                !.place[w] = NoPlace, !.enabled[w] = FALSE, !.val[w] = NoVal,
                !.installed[w] = FALSE, !.activated[w] = FALSE]

-----------------------------------------------------------------------------
(* What is done to the process.  A loop over the list is written as what   *)
(* it leaves behind.                                                       *)

Listed(y) == ToSet(List(y))

(* u comes before w in the list s. *)
Earlier(s, u, w) == \E i, j \in DOMAIN s : i < j /\ s[i] = u /\ s[j] = w

(* A loop that returns at the first failure has treated the watchpoints    *)
(* before it.                                                              *)
Before(s, todo, failing) ==
  {w \in todo : \A u \in todo \intersect failing : u # w /\ ~Earlier(s, u, w)}

OnPages(y, pages) == {w \in Wp : PageOf[y.place[w]] \in pages}

(* How many of S come first. *)
Nth(S, r) == Cardinality({q \in S : q < r})
Turn(s, S, w) == Cardinality({u \in S : Earlier(s, u, w)})

(* The pairs of a watchpoint of todo and the register it gets: of those    *)
(* whose area suits a register each takes the first that is not enabled.   *)
Getting(y, todo) ==
  LET s == List(y)
      free == {r \in Reg : y.reg[r] = Nowhere}
      fit == {w \in todo : y.place[w] \in Small}
  IN  {g \in fit \X free : Nth(free, g[2]) = Turn(s, fit, g[1])}

(* A slip: the page of the area and not the area is watched. *)
InstallPage(y, todo) ==
  LET got == Getting(y, todo)
  IN  [y EXCEPT
        !.reg = [r \in Reg |-> IF \E w \in todo : <<w, r>> \in got
                               THEN PageOf[y.place[CHOOSE w \in todo : <<w, r>> \in got]]
                               ELSE y.reg[r]],
        !.installed = [w \in Wp |-> y.installed[w] \/ \E r \in Reg : <<w, r>> \in got]]

(* ptrace_install_watchpoint, for each of todo in the order of the list. *)
ptrace_install_watchpoint(y, todo) ==
  LET got == Getting(y, todo)
  IN  [y EXCEPT
        !.reg = [r \in Reg |-> IF \E w \in todo : <<w, r>> \in got
                               THEN y.place[CHOOSE w \in todo : <<w, r>> \in got]
                               ELSE y.reg[r]],
        !.installed = [w \in Wp |-> y.installed[w] \/ \E r \in Reg : <<w, r>> \in got]]

(* The pairs of a watchpoint of todo and the register it gives up: of      *)
(* those with the same area each takes the first register that holds it.   *)
Giving(y, todo) ==
  LET s == List(y)
      holding(w) == {r \in Reg : y.reg[r] = y.place[w]}
      alike(w) == {u \in todo : y.place[u] = y.place[w]}
  IN  {g \in todo \X Reg :
         /\ y.place[g[1]] \in Small /\ y.reg[g[2]] = y.place[g[1]]
         /\ Nth(holding(g[1]), g[2]) = Turn(s, alike(g[1]), g[1])}

(* ptrace_uninstall_watchpoint, for each of todo in the order of the list. *)
ptrace_uninstall_watchpoint(y, todo) ==
  LET given == Giving(y, todo)
  IN  [y EXCEPT
        !.reg = [r \in Reg |-> IF \E w \in todo : <<w, r>> \in given THEN Nowhere ELSE y.reg[r]],
        !.installed = [w \in Wp |-> y.installed[w] /\ \A r \in Reg : <<w, r>> \notin given]]

Unprotected(y) == {w \in Listed(y) : y.enabled[w] /\ ~y.installed[w] /\ ~y.activated[w]}

(* A slip: the number of protected areas is not counted. *)
ActivateUncounted(y, badPages) ==
  [ok |-> TRUE, some |-> FALSE,
   y |-> [y EXCEPT !.prot = @ \union {PageOf[y.place[w]] : w \in Unprotected(y)},
                   !.activated = [w \in Wp |-> @[w] \/ w \in Unprotected(y)]]]

(* The pages of the set badPages cannot be protected. *)
activate_all_watchpoints(y, badPages) ==
  LET todo == Unprotected(y)
      done == Before(List(y), todo, OnPages(y, badPages))
  IN  [ok |-> done = todo, some |-> done # {},
       y |-> [y EXCEPT !.prot = @ \union {PageOf[y.place[w]] : w \in done},
                       !.activated = [w \in Wp |-> y.activated[w] \/ w \in done]]]

deactivate_all_watchpoints(y, badPages) ==
  LET done == Before(List(y), Listed(y), {w \in OnPages(y, badPages) : y.activated[w]})
  IN  [ok |-> done = Listed(y),
       y |-> [y EXCEPT !.prot = @ \ {PageOf[y.place[w]] : w \in {u \in done : y.activated[u]}},
                       !.activated = [w \in Wp |-> y.activated[w] /\ w \notin done]]]

(* The places of the set bad cannot be read: the watchpoint that fails has *)
(* been given its register by then.                                        *)
install_all_watchpoints(y, bad, badPages) ==
  LET todo == {w \in Listed(y) : y.enabled[w]}
      failing == {w \in todo : y.place[w] \in bad}
      read == Before(List(y), todo, failing)
      in == ptrace_install_watchpoint(y, {w \in todo : \A u \in failing : ~Earlier(List(y), u, w)})
      z == [in EXCEPT !.val = [w \in Wp |-> IF w \in read THEN y.mem[y.place[w]] ELSE y.val[w]]]
  IN  IF read = todo THEN activate_all_watchpoints(z, badPages)
      ELSE [ok |-> FALSE, some |-> FALSE, y |-> z]

(* A slip: the debug registers are left in use. *)
OnlyDeactivate(y, badPages) == deactivate_all_watchpoints(y, badPages).y

(* Its result is ignored: what it leaves behind when mprotect fails stays. *)
uninstall_all_watchpoints(y, badPages) ==
  LET d == deactivate_all_watchpoints(y, badPages)
  IN  IF d.ok THEN ptrace_uninstall_watchpoint(d.y, {w \in Listed(y) : y.installed[w]})
              ELSE d.y

(* A slip: only watchpoints in debug registers are compared. *)
CheckInstalled(y) ==
  \E w \in Listed(y) :
    y.enabled[w] /\ y.installed[w] /\ y.mem[y.place[w]] # y.val[w]

(* check_all_watchpoints returns one: a watched area has changed.  (One    *)
(* that can no longer be read has nothing to compare, and is passed over.) *)
check_all_watchpoints(y) ==
  \E w \in Listed(y) : y.enabled[w] /\ y.mem[y.place[w]] # y.val[w]

-----------------------------------------------------------------------------
(* The user between two runs (obj_wpt.c). *)

Idle == ctl = "idle" /\ Walkable(x)

Covered(p) == \E w \in x.live : x.place[w] = p

add_watchpoint_object(w, p) ==
  /\ Idle /\ w \notin x.live /\ ~Covered(p)
  /\ x' = dx_add_watchpoint(x, w, p)
  /\ UNCHANGED <<alive, ctl, runVars, own, unordered, nproc, failVars>>

Oldest(w) == List(x) # <<>> /\ Last(List(x)) = w

remove_watchpoint_object(w) ==
  /\ Idle /\ w \in x.live
  /\ x' = dx_remove_watchpoint(x, w)
  /\ unordered' = (unordered \/ ~Oldest(w))
  /\ UNCHANGED <<alive, ctl, runVars, own, nproc, failVars>>

(* Editing the address or the size of a watchpoint replaces it.  The new   *)
(* one may come to lie where there is one already.                         *)
move_wpt(w, u, p) ==
  /\ Idle /\ w \in x.live /\ u \notin x.live \ {w}
  /\ LET y == dx_remove_watchpoint(x, w)
     IN  IF Walkable(y) THEN x' = dx_add_watchpoint(y, u, p) /\ UNCHANGED ctl
                        ELSE ctl' = "wild" /\ x' = y
  /\ unordered' = (unordered \/ ~Oldest(w))
  /\ UNCHANGED <<alive, runVars, own, nproc, failVars>>

(* set_wpt_state and enable_all_watchpoints. *)
set_wpt_state(w, on) ==
  /\ Idle /\ w \in x.live
  /\ x' = [x EXCEPT !.enabled[w] = on]
  /\ UNCHANGED <<alive, ctl, runVars, own, unordered, nproc, failVars>>

(* Any use of a list that leads into freed memory: anything may happen. *)
FollowDangling ==
  /\ ctl = "idle" /\ ~Walkable(x)
  /\ ctl' = "wild"
  /\ UNCHANGED <<x, alive, runVars, own, unordered, nproc, failVars>>

-----------------------------------------------------------------------------
(* dx_run_target_ss with RT_CONT. *)

(* Reads of bad and mprotects of badPages fail, within the bound. *)
Failing(bad, badPages) ==
  /\ nfail' = nfail + Cardinality(bad) + Cardinality(badPages)
  /\ nfail' <= MaxFail
  /\ stuck' = (stuck \/ badPages # {})

(* The local variables of dx_run_target_ss are gone, and wp_val is not     *)
(* looked at before the next run has set it.                               *)
Return(y) ==
  /\ ctl' = "idle" /\ cont_type' = "CONT" /\ check_wps' = FALSE /\ emulated' = FALSE
  /\ x' = [y EXCEPT !.val = [w \in Wp |-> NoVal]]
  /\ UNCHANGED stopres

(* The end of the run: "If we installed watchpoints, remove them." *)
EndRun(y, badPages) == Return(uninstall_all_watchpoints(y, badPages))

BeginRun(some) ==
  /\ ctl' = "loop" /\ cont_type' = "CONT" /\ check_wps' = FALSE /\ emulated' = some
  /\ stopres' = "none"

(* With a process, SR_FAILED is returned at once. *)
Cont(bad, badPages) ==
  /\ Idle /\ alive
  /\ Failing(bad, badPages)
  /\ LET r == install_all_watchpoints(x, bad, badPages)
     IN  IF r.ok THEN x' = r.y /\ BeginRun(r.some) ELSE Return(r.y)
  /\ UNCHANGED <<alive, own, unordered, nproc>>

(* Without one, dx_start makes it.  It stops at once at a breakpoint in    *)
(* main, or is continued as by Cont; when that fails the watchpoints are   *)
(* installed once more before they are all uninstalled.                    *)
StartStops(badPages) ==
  /\ Idle /\ ~alive /\ nproc < MaxProc
  /\ Failing({}, badPages)
  /\ nproc' = nproc + 1
  /\ alive' = TRUE
  /\ x' = uninstall_all_watchpoints(FreshProcess(x), badPages)
  /\ UNCHANGED <<ctl, runVars, own, unordered>>

StartRuns(bad, badPages) ==
  /\ Idle /\ ~alive /\ nproc < MaxProc
  /\ Failing(bad, badPages)
  /\ nproc' = nproc + 1
  /\ alive' = TRUE
  /\ LET r == install_all_watchpoints(FreshProcess(x), bad, badPages)
     IN  IF r.ok THEN x' = r.y /\ BeginRun(r.some)
         ELSE EndRun(install_all_watchpoints(r.y, bad, badPages).y, badPages)
  /\ UNCHANGED <<own, unordered>>

(* The process is killed from the menu. *)
Kill ==
  /\ Idle /\ alive
  /\ x' = FreshProcess(x) /\ alive' = FALSE /\ own' = FALSE /\ stopres' = "DIED"
  /\ UNCHANGED <<ctl, cont_type, check_wps, emulated, unordered, nproc, failVars>>

Restart ==
  /\ ctl = "loop"
  /\ ctl' = "run"
  /\ UNCHANGED <<x, alive, runVars, own, unordered, nproc, failVars>>

(* The target is dead: its watchpoints are left as they are. *)
TargetDied ==
  /\ ctl = "stopped" /\ stopres = "DIED"
  /\ Return(FreshProcess(x))
  /\ alive' = FALSE /\ own' = FALSE
  /\ UNCHANGED <<unordered, nproc, failVars>>

UserStopped(badPages) ==
  /\ ctl = "stopped" /\ stopres = "USER"
  /\ Failing({}, badPages)
  /\ EndRun(x, badPages)
  /\ UNCHANGED <<alive, own, unordered, nproc>>

(* A slip: every fault is taken for one on a protected page. *)
FaultAlwaysEmulated(badPages) ==
  /\ ctl = "stopped" /\ stopres = "SEGV"
  /\ Failing({}, badPages)
  /\ ctl' = "loop" /\ x' = deactivate_all_watchpoints(x, badPages).y
  /\ cont_type' = "STEP" /\ check_wps' = TRUE /\ stopres' = "none"
  /\ UNCHANGED <<emulated, alive, own, unordered, nproc>>

(* SR_SIG with SIGSEGV.  A write to a protected page is stepped over with  *)
(* no page protected; other faults stop the target.                        *)
Faulted(badPages) ==
  /\ ctl = "stopped" /\ stopres = "SEGV"
  /\ Failing({}, badPages)
  /\ LET d == deactivate_all_watchpoints(x, badPages)
     IN  IF emulated /\ d.ok
         THEN /\ ctl' = "loop" /\ x' = d.y
              /\ cont_type' = "STEP" /\ check_wps' = TRUE /\ stopres' = "none"
              /\ UNCHANGED emulated
         ELSE EndRun(IF emulated THEN d.y ELSE x, badPages)
  /\ UNCHANGED <<alive, own, unordered, nproc>>

(* SR_WPT, or SR_SSTEP after such a step. *)
Watched(badPages) ==
  /\ ctl = "stopped" /\ stopres \in {"WPT", "SSTEP"}
  /\ Failing({}, badPages)
  /\ IF (stopres = "WPT" \/ check_wps) /\ check_all_watchpoints(x)
     THEN EndRun(x, badPages)
     ELSE IF check_wps
     THEN LET a == activate_all_watchpoints(x, badPages)
          IN  IF a.ok THEN /\ ctl' = "loop" /\ x' = a.y
                           /\ cont_type' = "CONT" /\ check_wps' = FALSE /\ stopres' = "none"
                           /\ UNCHANGED emulated
                      ELSE EndRun(a.y, badPages)
     ELSE ctl' = "loop" /\ stopres' = "none" /\ UNCHANGED <<x, cont_type, check_wps, emulated>>
  /\ UNCHANGED <<alive, own, unordered, nproc>>

-----------------------------------------------------------------------------
(* The target. *)

StopWith(why) == ctl' = "stopped" /\ stopres' = why

Targets == ctl = "run"

(* An instruction that writes v to p. *)
Write(p, v) ==
  /\ Targets /\ ~own
  /\ IF PageOf[p] \in x.prot
     THEN StopWith("SEGV") /\ UNCHANGED x
     ELSE /\ x' = [x EXCEPT !.mem[p] = v]
          /\ \/ (\E r \in Reg : x.reg[r] = p) /\ StopWith("WPT")
             \/ /\ \A r \in Reg : x.reg[r] # p
                /\ IF cont_type = "STEP" THEN StopWith("SSTEP") ELSE UNCHANGED <<ctl, stopres>>
  /\ UNCHANGED <<alive, cont_type, check_wps, emulated, own, unordered, nproc, failVars>>

(* An instruction that faults whatever the protection of watched pages is. *)
OwnFault ==
  /\ Targets
  /\ own' = TRUE
  /\ StopWith("SEGV")
  /\ UNCHANGED <<x, alive, cont_type, check_wps, emulated, unordered, nproc, failVars>>

(* The user clicks on Stop, or the target exits. *)
Disturb(why) ==
  /\ Targets
  /\ StopWith(why)
  /\ UNCHANGED <<x, alive, cont_type, check_wps, emulated, own, unordered, nproc, failVars>>

-----------------------------------------------------------------------------
FewOf(S) == {{}} \union {{s} : s \in S}

Debugger ==
  \/ Restart \/ TargetDied
  \/ \E badPages \in FewOf(Page) : UserStopped(badPages) \/ Faulted(badPages) \/ Watched(badPages)

Command ==
  \/ \E w \in Wp, p \in Place : add_watchpoint_object(w, p)
  \/ \E w \in Wp : remove_watchpoint_object(w)
  \/ \E w, u \in Wp, p \in Place : move_wpt(w, u, p)
  \/ \E w \in Wp, on \in BOOLEAN : set_wpt_state(w, on)
  \/ FollowDangling \/ Kill
  \/ \E bad \in FewOf(Place), badPages \in FewOf(Page) :
       Cont(bad, badPages) \/ StartRuns(bad, badPages)
  \/ \E badPages \in FewOf(Page) : StartStops(badPages)

Program ==
  \/ \E p \in Place, v \in Val : Write(p, v)
  \/ OwnFault
  \/ \E why \in {"USER", "DIED"} : Disturb(why)

Wild == ctl = "wild" /\ UNCHANGED vars

Next == Debugger \/ Command \/ Program \/ Wild

(* The steps of TargetDied, UserStopped and Faulted: only these leave such *)
(* a stop, and one of them always can.                                     *)
Answer ==
  ctl = "stopped" /\ stopres \in {"DIED", "USER", "SEGV"} /\ ctl' \in {"idle", "loop"}

(* The debugger restarts the target and acts on a fault, a Stop and a      *)
(* death, and a target that is at a faulting instruction runs it.          *)
Fairness ==
  /\ WF_vars(Restart)
  /\ WF_ctl(Answer)
  /\ WF_vars(own /\ OwnFault)

Spec == Init /\ [][Next]_vars /\ Fairness

-----------------------------------------------------------------------------
TypeOK ==
  /\ x \in Worlds
  /\ {alive, check_wps, emulated, own, unordered, stuck} \subseteq BOOLEAN
  /\ ctl \in {"idle", "loop", "run", "stopped", "wild"}
  /\ stopres \in {"none", "DIED", "USER", "SEGV", "WPT", "SSTEP"}
  /\ cont_type \in {"CONT", "STEP"}
  /\ nproc \in 0 .. MaxProc /\ nfail \in 0 .. MaxFail

(* "hardware watchpoints (where possible) and use of mprotect() to         *)
(* implement watchpoints when that fails" (CHANGES:111-113): while the     *)
(* target runs on, no watched area has changed since the run began, for a  *)
(* change would have stopped it.                                           *)
NoUnseenChange ==
  ctl = "run" /\ cont_type = "CONT" =>
    \A w \in x.live : x.enabled[w] => x.mem[x.place[w]] = x.val[w]

(* It holds of the first process: no order of register hits, faults on     *)
(* protected pages, steps and stops lets a change by, whatever registers   *)
(* an earlier run that could not read an area has left in use.  (Once      *)
(* mprotect has failed for one page, a watchpoint further on in the list   *)
(* may count as activated on a page that was made writable for another:    *)
(* deactivate_all_watchpoints, wp.c:178.)                                  *)
AllSeenInFirstProcess == nproc <= 1 /\ ~stuck => NoUnseenChange

(* "If we installed watchpoints, remove them." (trun_ss.c:445): whenever   *)
(* the user has a process, none of its debug registers is in use and none  *)
(* of its pages is read-only, whatever ended the run and whatever became   *)
(* of the watchpoints in between.                                          *)
CleanWhenIdle ==
  nfail = 0 /\ ctl = "idle" /\ alive =>
    x.prot = {} /\ \A r \in Reg : x.reg[r] = Nowhere

(* A fault the user is told of is the program's own: one caused by a page  *)
(* protected for a watchpoint never gets out of dx_run_target_ss.          *)
OwnFaultsOnly ==
  nfail = 0 /\ ctl = "idle" /\ alive /\ stopres = "SEGV" => own

(* The list is what the user made it, as long as watchpoints are removed   *)
(* oldest first, as `remove all' does: a walk from Wphead visits each      *)
(* watchpoint that was added and not removed, and no freed one.            *)
(* (dx_remove_watchpoint, wp.c:81-82, breaks it otherwise.)                *)
ListSound == ~unordered => Walkable(x) /\ Listed(x) = x.live

(* A fault of the program's own is told to the user, unless a watchpoint   *)
(* is emulated (then dx_run_target_ss steps into the fault for ever).      *)
FaultReported == own /\ ~emulated ~> ctl \in {"idle", "wild"}
==============================================================================
