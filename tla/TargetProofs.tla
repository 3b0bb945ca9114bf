---------------------------- MODULE TargetProofs -----------------------------
(***************************************************************************)
(* What the debugger keeps true of its target over every sequence of       *)
(* commands, signals, deaths and presses of Stop, proved of Target for any *)
(* program, any breakpoints and any number of signals and X events.        *)
(***************************************************************************)
EXTENDS Target, TableProofs

-----------------------------------------------------------------------------
(* The inductive invariant. *)

(* TypeOK, without the table. *)
Types ==
  /\ kern \in {"none", "stopped", "cont", "step"}
  /\ kpc \in Nat /\ real \in Nat /\ restart_pc \in Nat /\ told \in Nat
  /\ pend \subseteq Sig \union {"TRAP"}
  /\ status \in Sig \union {"none", "TRAP", "exit"}
  /\ pid \in BOOLEAN /\ attached \in BOOLEAN /\ hit_solib \in BOOLEAN
  /\ ustop \in BOOLEAN /\ press \in BOOLEAN
  /\ stopres \in {"DIED", "SIG", "USER", "BPT", "SSTEP"}
  /\ lastsig \in Sig \union {"none"} /\ sig \in Sig \union {"none"}
  /\ ctl \in Points /\ caller \in Callers /\ over \in Bp \union {NoBp}
  /\ nsig \in 0 .. MaxSig /\ nx \in 0 .. MaxX

(* The target runs only while the debugger waits for it, a stop that was   *)
(* not fetched is fetched before the debugger goes on, and a target that   *)
(* is gone is not restarted.                                               *)
WaitInv ==
  /\ Running => ctl = "wait" /\ status = "none"
  /\ kern = "stopped" => status # "exit"
  /\ kern = "stopped" /\ ~Waiting => status = "none"
  /\ ctl = "reaped" => status # "none" \/ kern = "none"
  /\ kern # "none" \/ Waiting => pid
  /\ ~pid => /\ ctl \notin {"loop", "restart"}
             /\ ctl \notin {"idle", "panic"} => stopres = "DIED"

(* Which caller waits at which point, and when a breakpoint is stepped     *)
(* over.                                                                   *)
CallerInv ==
  /\ ~Waiting /\ ctl # "stepped" => over = NoBp
  /\ ctl = "stepped" => over # NoBp
  /\ caller \in {"exec", "attach"} =>
       over = NoBp /\ ctl \in {"idle", "wait", "reaped", "returned", "panic"}
  /\ Running => caller \notin {"exec", "attach"}
  /\ caller \in {"exec", "entry", "main"} => ctl \notin {"idle", "loop"}
  /\ ctl = "loop" => caller \in {"run", "libs"}
  /\ ctl \in {"execto", "created"} => caller \in {"entry", "main"}
  /\ ctl = "linker" => caller = "entry"

StepPoints == {"restart", "wait", "reaped", "stepped", "returned"}

(* Where breakpoints go: lines, the entry, main and the dynamic linker. *)
BpAddrs == UserAddrs \union {EntryAddr, LinkerAddr, MainAddr}

(* A list the session can rely on: no two breakpoints of objects are at    *)
(* one address, and none is where the debugger puts its own in ld.so.      *)
Sound(x) ==
  /\ Intact(x)
  /\ \A b \in x.live : x.enabled[b]
  /\ \A b \in x.live \ {LinkerBp, TempBp} : x.addr[b] \in UserAddrs
  /\ \A b, c \in x.live \ {LinkerBp, TempBp} : x.addr[b] = x.addr[c] => b = c
  /\ LinkerBp \in x.live => x.addr[LinkerBp] = LinkerAddr
  /\ TempBp \in x.live => x.addr[TempBp] \in BpAddrs
  /\ \A b \in x.live : b \in {LinkerBp, TempBp} => ~x.user[b]

(* Until dx_start installs them, no trap but the debugger's own. *)
OwnTraps(x) ==
  \A b \in Bp : x.xp[b] => b = TempBp \/ (b = LinkerBp /\ caller = "main")

NoTraps(x) == \A b \in Bp : ~x.xp[b]

(* The breakpoint of xp_execto is in the list while that runs. *)
ListInv ==
  /\ Sound(t)
  /\ ctl # "panic" =>
       (TempBp \in t.live <=> caller \in {"entry", "main"} /\ ctl \in StepPoints)
  /\ ctl # "panic" /\ caller \in {"exec", "entry", "main"} => OwnTraps(t)
  /\ ~pid => NoTraps(t)

(* A breakpoint stepped over is out of the text, and alone at its address. *)
OverInv ==
  /\ over # NoBp => /\ over \in t.live /\ ~t.xp[over]
                    /\ \A c \in Bp : t.xp[c] => t.addr[c] # t.addr[over]
                    /\ caller \in {"entry", "main"} =>
                         over = TempBp \/ (over = LinkerBp /\ caller = "main")
  /\ ctl \in {"stepped", "returned"} /\ stopres = "BPT" =>
       get_breakpoint_at_addr(t, restart_pc) # {}

(* In a run for Cont every breakpoint that is not disabled is in the text, *)
(* except one that is stepped over.                                        *)
ArmedInv ==
  /\ caller \in {"run", "libs"} /\ ctl \in StepPoints /\ pid =>
       \A b \in t.live : ~UserDisabled(t, b) => t.xp[b] \/ b = over
  /\ Running /\ over # NoBp => kern = "step" /\ t.addr[over] = restart_pc
  /\ Running /\ over = NoBp => kern = "cont"

(* An instruction of one byte that may hold a breakpoint is the only way   *)
(* to the one behind it: ao_pt_regs.c:388-391 and at_bpt take a pc just    *)
(* past a trap for a stop at that trap, whichever way the target got there *)
Spaced == \A a \in Addr, b \in BpAddrs : b + 1 \in Succ[a] => a = b

(* Without the user's events: the pc is where the program is, or past the  *)
(* trap there, a stop says which, and only a single step, or exec, stops   *)
(* the target without a trap or a signal.  (A signal that comes in just    *)
(* past a breakpoint leaves restart_pc there, but the pc is not set then.) *)
ExactInv ==
  nx = 0 =>
    /\ ~ustop /\ ~press /\ "TRAP" \notin pend /\ stopres # "USER"
    /\ kern # "none" => real \in Addr
    /\ Running => kpc = real
    /\ kern = "stopped" /\ Waiting =>
         /\ status # "none"
         /\ \/ kpc = real /\ (status = "TRAP" => over # NoBp \/ caller = "exec")
            \/ /\ kpc = real + 1 /\ status = "TRAP" /\ caller \notin {"exec", "attach"}
               /\ get_breakpoint_at_addr(t, real) # {}
         /\ kpc = real /\ status = "TRAP" => ~AtBreakpoint
         /\ caller = "exec" => status = "TRAP"
    /\ kern = "stopped" /\ ~Waiting =>
         IF stopres = "BPT" THEN restart_pc = real ELSE kpc = real
    /\ ctl = "returned" /\ stopres = "SSTEP" => caller = "exec"
    /\ ctl = "returned" /\ caller = "exec" => stopres \in {"DIED", "SSTEP"}
    /\ ctl = "created" => stopres \in {"DIED", "BPT"} \/ (stopres = "SIG" /\ lastsig \in FatalSig)
    /\ ctl = "panic" => ~pid \/ kern = "none" \/ (stopres = "SIG" /\ lastsig \in FatalSig)

(* Without signals too: when the target is restarted for Cont, the user or *)
(* the code of the breakpoint has been told of the breakpoint at the pc.   *)
Undisturbed == nx = 0 /\ nsig = 0

ToldInv ==
  Undisturbed =>
    /\ pend = {}
    /\ Waiting /\ kern = "stopped" => status = "TRAP" \/ caller = "attach"
    /\ ctl \in {"stepped", "returned"} /\ stopres = "SIG" => caller = "attach"
    /\ ctl = "idle" /\ pid => told = restart_pc
    /\ ctl \in {"loop", "restart"} /\ caller \in {"run", "libs"} =>
         \/ told = restart_pc
         \/ \A b \in t.live : t.addr[b] = restart_pc => ~t.xp[b] /\ UserDisabled(t, b)
    /\ Running /\ caller \in {"run", "libs"} /\ over # NoBp /\ kpc = restart_pc => told = restart_pc

Inv == Types /\ WaitInv /\ CallerInv /\ ListInv /\ OverInv /\ ArmedInv

ExactlyInv == Spaced /\ Inv /\ ExactInv /\ ToldInv
-----------------------------------------------------------------------------
(* What the operations on the list do to a sound one. *)

(* Its fields, and what its marks say of a trap. *)
LEMMA SoundTypes ==
  ASSUME NEW x, Sound(x)
  PROVE  /\ Intact(x) /\ x \in Tables /\ x.live \subseteq Bp /\ x.addr \in [Bp -> Addr]
         /\ x.xp \in [Bp -> BOOLEAN] /\ x.text \in [Addr -> Code] /\ x.solib \in [Bp -> BOOLEAN]
         /\ TrapsApart(x)
         /\ \A b \in Bp : x.xp[b] => b \in x.live
         /\ {LinkerBp, TempBp} \subseteq Bp
BY TargetAssumption DEF Sound, Intact, Tables, MarksAgree

(* Only the traps change. *)
LEMMA SoundKept ==
  ASSUME NEW x, Sound(x), NEW y, Intact(y), y.live = x.live, y.addr = x.addr,
         y.enabled = x.enabled, y.user = x.user
  PROVE  Sound(y)
BY DEF Sound

(* The same, when the list itself is left alone. *)
LEMMA SoundSame ==
  ASSUME NEW x, Sound(x), NEW y, Intact(y), SameList(x, y), y.enabled = x.enabled
  PROVE  /\ Sound(y) /\ y.live = x.live /\ y.addr = x.addr
         /\ \A b \in Bp : UserDisabled(y, b) = UserDisabled(x, b)
<1>1. y.live = x.live /\ y.addr = x.addr /\ y.user = x.user
  BY DEF SameList
<1>2. Sound(y)
  BY <1>1, SoundKept
<1>3. \A b \in Bp : UserDisabled(y, b) = UserDisabled(x, b)
  BY SameListKeeps
<1> QED BY <1>1, <1>2, <1>3

(* The breakpoint that was stepped over goes back in. *)
LEMMA SoundInstall ==
  ASSUME NEW x, Sound(x), NEW b \in x.live, \A c \in Bp : x.xp[c] => x.addr[c] # x.addr[b]
  PROVE  LET y == install_breakpoint(x, b, FALSE)
         IN  /\ Sound(y) /\ y.live = x.live /\ y.addr = x.addr
             /\ \A c \in Bp : UserDisabled(y, c) = UserDisabled(x, c)
             /\ \A c \in Bp \ {b} : y.xp[c] = x.xp[c]
             /\ ~UserDisabled(x, b) => y.xp[b]
<1> DEFINE y == install_breakpoint(x, b, FALSE)
<1>0. x \in Tables /\ b \in Bp /\ Intact(x) /\ x.enabled[b]
  BY SoundTypes DEF Sound
<1>1. /\ y \in Tables /\ SameList(x, y) /\ y.enabled = x.enabled
      /\ \A c \in Bp \ {b} : y.xp[c] = x.xp[c] /\ y.installed[c] = x.installed[c]
      /\ ~UserDisabled(x, b) => y.xp[b]
  BY <1>0, InstallFields
<1>2. Intact(y)
  BY <1>0, InstallIntact
<1> HIDE DEF y
<1>3. /\ Sound(y) /\ y.live = x.live /\ y.addr = x.addr
      /\ \A c \in Bp : UserDisabled(y, c) = UserDisabled(x, c)
  BY <1>1, <1>2, SoundSame
<1> QED BY <1>1, <1>3 DEF y

(* It is taken out. *)
LEMMA SoundUninstall ==
  ASSUME NEW x, Sound(x), NEW b \in x.live, x.xp[b]
  PROVE  LET y == uninstall_breakpoint(x, b)
         IN  /\ Sound(y) /\ y.live = x.live /\ y.addr = x.addr
             /\ \A c \in Bp : UserDisabled(y, c) = UserDisabled(x, c)
             /\ \A c \in Bp \ {b} : y.xp[c] = x.xp[c]
             /\ ~y.xp[b]
             /\ \A c \in Bp : y.xp[c] => y.addr[c] # y.addr[b]
<1> DEFINE y == uninstall_breakpoint(x, b)
<1>0. x \in Tables /\ b \in Bp /\ Intact(x) /\ TrapsApart(x)
  BY SoundTypes
<1>1. /\ y \in Tables /\ SameList(x, y) /\ y.enabled = x.enabled
      /\ \A c \in Bp \ {b} : y.xp[c] = x.xp[c] /\ y.installed[c] = x.installed[c]
  BY <1>0, UninstallFields
<1>2. Intact(y) /\ ~y.xp[b]
  BY <1>0, UninstallIntact
<1> HIDE DEF y
<1>3. /\ Sound(y) /\ y.live = x.live /\ y.addr = x.addr
      /\ \A c \in Bp : UserDisabled(y, c) = UserDisabled(x, c)
  BY <1>1, <1>2, SoundSame
<1>4. \A c \in Bp : y.xp[c] => y.addr[c] # y.addr[b]
  BY <1>0, <1>1, <1>2, <1>3 DEF TrapsApart
<1> QED BY <1>1, <1>2, <1>3, <1>4 DEF y

(* All that are not disabled go in. *)
LEMMA SoundInstallAll ==
  ASSUME NEW x, Sound(x), TempBp \notin x.live
  PROVE  LET y == install_all_breakpoints(x)
         IN  /\ Sound(y) /\ y.live = x.live /\ y.addr = x.addr
             /\ \A c \in Bp : UserDisabled(y, c) = UserDisabled(x, c)
             /\ \A c \in x.live : y.xp[c] <=> x.xp[c] \/ ~UserDisabled(x, c)
<1> DEFINE y == install_all_breakpoints(x)
<1>0. /\ x \in Tables /\ Intact(x) /\ x.live \subseteq Bp
      /\ \A b \in x.live : x.enabled[b]
  BY SoundTypes DEF Sound
<1>1. OneEach(x)
  BY TargetAssumption DEF OneEach, Sound
<1>2. /\ SameList(x, y) /\ y.enabled = x.enabled
      /\ \A b \in Bp : y.xp[b] <=> x.xp[b] \/ (b \in x.live /\ ~x.xp[b] /\ ~UserDisabled(x, b) /\ x.enabled[b])
  BY <1>0, InstallAllFields
<1>3. Intact(y)
  BY <1>0, <1>1, InstallAllIntact
<1> HIDE DEF y
<1>4. /\ Sound(y) /\ y.live = x.live /\ y.addr = x.addr
      /\ \A c \in Bp : UserDisabled(y, c) = UserDisabled(x, c)
  BY <1>2, <1>3, SoundSame
<1>5. \A c \in x.live : y.xp[c] <=> x.xp[c] \/ ~UserDisabled(x, c)
  BY <1>0, <1>2
<1> QED BY <1>4, <1>5 DEF y

(* The process has died. *)
LEMMA SoundGone ==
  ASSUME NEW x, Sound(x)
  PROVE  LET y == FreshText(mark_breakpoints_as_uninstalled(x))
         IN  Sound(y) /\ y.live = x.live /\ y.addr = x.addr /\ NoTraps(y)
<1> DEFINE y == FreshText(mark_breakpoints_as_uninstalled(x))
<1>0. x \in Tables /\ Intact(x)
  BY SoundTypes
<1>1. y.enabled = x.enabled /\ y.live = x.live /\ y.addr = x.addr /\ y.user = x.user
  BY <1>0, GoneFields
<1>2. Intact(y) /\ \A b \in Bp : ~y.xp[b]
  BY <1>0, GoneIntact
<1> HIDE DEF y
<1>3. Sound(y)
  BY <1>1, <1>2, SoundKept
<1> QED BY <1>1, <1>2, <1>3 DEF y, NoTraps

(* A process begins. *)
LEMMA SoundFresh ==
  ASSUME NEW x, Sound(x), NoTraps(x)
  PROVE  LET y == FreshText(x)
         IN  Sound(y) /\ y.live = x.live /\ y.addr = x.addr /\ NoTraps(y)
<1> DEFINE y == FreshText(x)
<1>0. x \in Tables /\ Intact(x)
  BY SoundTypes
<1>1. /\ y.enabled = x.enabled /\ y.live = x.live /\ y.addr = x.addr /\ y.user = x.user
      /\ y.xp = x.xp
  BY <1>0, FreshFields
<1>2. Intact(y)
  BY <1>0, FreshIntact DEF NoTraps
<1> HIDE DEF y
<1>3. Sound(y)
  BY <1>1, <1>2, SoundKept
<1> QED BY <1>1, <1>3 DEF y, NoTraps

(* All come out: on Detach, and before Kill. *)
LEMMA SoundUninstallAll ==
  ASSUME NEW x, Sound(x)
  PROVE  LET y == uninstall_all_breakpoints(x)
         IN  Sound(y) /\ y.live = x.live /\ y.addr = x.addr /\ NoTraps(y)
<1> DEFINE y == uninstall_all_breakpoints(x)
<1>0. Intact(x)
  BY SoundTypes
<1>1. /\ Intact(y) /\ SameList(x, y) /\ y.enabled = x.enabled
      /\ \A b \in Bp : ~y.xp[b]
  BY <1>0, UninstallAllIntact
<1> HIDE DEF y
<1>2. Sound(y) /\ y.live = x.live /\ y.addr = x.addr
  BY <1>1, SoundSame
<1> QED BY <1>1, <1>2 DEF y, NoTraps

(* One of the debugger's own is added and installed. *)
LEMMA SoundOwn ==
  ASSUME NEW x, Sound(x), NEW b \in {LinkerBp, TempBp}, b \notin x.live, NEW a \in Addr,
         NEW owner \in {"solib", "none"}, b = LinkerBp => a = LinkerAddr, a \in BpAddrs,
         \A c \in Bp : x.xp[c] => x.addr[c] # a
  PROVE  LET y == install_breakpoint(dx_add_breakpoint(x, b, a, NoCode, owner), b, FALSE)
         IN  /\ Sound(y) /\ y.live = x.live \union {b}
             /\ \A c \in Bp \ {b} : y.xp[c] = x.xp[c]
<1> DEFINE w == dx_add_breakpoint(x, b, a, NoCode, owner)
           y == install_breakpoint(w, b, FALSE)
<1>0. /\ x \in Tables /\ Intact(x) /\ x.live \subseteq Bp /\ NoCode \in Code /\ b \in Bp
      /\ owner \in {"user", "solib", "none"} /\ owner # "user"
  BY SoundTypes, NoTypes
<1>1. /\ w.live = x.live \union {b} /\ ~w.xp[b] /\ w.enabled[b] /\ w.addr[b] = a
      /\ (w.user[b] <=> owner = "user")
      /\ \A c \in Bp \ {b} :
           /\ w.xp[c] = x.xp[c] /\ w.enabled[c] = x.enabled[c]
           /\ w.addr[c] = x.addr[c] /\ w.user[c] = x.user[c]
  BY <1>0, AddFields
<1>2. Intact(w)
  BY <1>0, AddIntact
<1> HIDE DEF w
<1>3. Sound(w)
  BY <1>0, <1>1, <1>2 DEF Sound
<1>4. \A c \in Bp : w.xp[c] => w.addr[c] # w.addr[b]
  BY <1>0, <1>1
<1>5. b \in w.live
  BY <1>1
<1>6. /\ Sound(y) /\ y.live = w.live
      /\ \A c \in Bp \ {b} : y.xp[c] = w.xp[c]
  BY <1>3, <1>4, <1>5, SoundInstall
<1> HIDE DEF y
<1> QED BY <1>1, <1>6 DEF w, y

(* That of xp_execto goes. *)
LEMMA SoundRemove ==
  ASSUME NEW x, Sound(x), TempBp \in x.live
  PROVE  LET y == dx_remove_breakpoint(x, TempBp)
         IN  /\ Sound(y) /\ y.live = x.live \ {TempBp} /\ ~y.xp[TempBp]
             /\ \A c \in Bp \ {TempBp} : y.xp[c] = x.xp[c]
<1> DEFINE y == dx_remove_breakpoint(x, TempBp)
<1>0. x \in Tables /\ Intact(x) /\ x.live \subseteq Bp /\ TempBp \in Bp
  BY SoundTypes
<1>1. /\ y.live = x.live \ {TempBp} /\ ~y.xp[TempBp]
      /\ \A c \in Bp \ {TempBp} :
           /\ y.xp[c] = x.xp[c] /\ y.enabled[c] = x.enabled[c]
           /\ y.addr[c] = x.addr[c] /\ y.user[c] = x.user[c]
  BY <1>0, RemoveFields
<1>2. Intact(y)
  BY <1>0, RemoveIntact
<1> HIDE DEF y
<1>3. Sound(y)
  BY <1>0, <1>1, <1>2 DEF Sound
<1> QED BY <1>1, <1>3 DEF y

(* can_install_all_breakpoints leaves no trap behind. *)
LEMMA SoundTrial ==
  ASSUME NEW x, Sound(x)
  PROVE  LET y == TrialSwap(x)
         IN  /\ Sound(y) /\ y.live = x.live /\ y.addr = x.addr /\ y.xp = x.xp
             /\ \A b \in Bp : UserDisabled(y, b) = UserDisabled(x, b)
<1> DEFINE y == TrialSwap(x)
<1>0. x \in Tables /\ Intact(x)
  BY SoundTypes
<1>1. /\ y.live = x.live /\ y.before = x.before /\ y.xp = x.xp /\ y.installed = x.installed
      /\ y.enabled = x.enabled /\ y.addr = x.addr /\ y.user = x.user /\ y.inactive = x.inactive
      /\ y.solib = x.solib /\ y.global = x.global /\ y.text = x.text /\ y.mapped = x.mapped
  BY <1>0 DEF TrialSwap, Tables
<1>2. y \in Tables /\ \A b \in Bp : x.xp[b] => y.code[b] = x.code[b]
  BY <1>0, TableTypes DEF TrialSwap, Tables
<1> HIDE DEF y
<1>3. MarksAgree(y) /\ TrapsApart(y)
  BY <1>0, <1>1 DEF Intact, MarksAgree, TrapsApart
<1>4. TextAgrees(y)
  BY <1>0, <1>1, <1>2 DEF Intact, TextAgrees
<1>5. Intact(y)
  BY <1>2, <1>3, <1>4 DEF Intact
<1>6. Sound(y)
  BY <1>1, <1>5, SoundKept
<1> QED BY <1>1, <1>6 DEF y, UserDisabled

(* The state of a breakpoint object is changed. *)
LEMMA SoundToggle ==
  ASSUME NEW x, Sound(x), NEW b \in Bp
  PROVE  LET y == [x EXCEPT !.inactive[b] = ~@]
         IN  Sound(y) /\ y.live = x.live /\ y.addr = x.addr /\ y.xp = x.xp
<1> DEFINE y == [x EXCEPT !.inactive[b] = ~@]
<1>0. x \in Tables /\ Intact(x)
  BY SoundTypes
<1>1. /\ y.live = x.live /\ y.xp = x.xp /\ y.installed = x.installed
      /\ y.enabled = x.enabled /\ y.addr = x.addr /\ y.user = x.user
      /\ y.text = x.text /\ y.mapped = x.mapped /\ y.code = x.code
  BY <1>0 DEF Tables
<1>2. y \in Tables
  BY <1>0 DEF Tables
<1> HIDE DEF y
<1>3. MarksAgree(y) /\ TrapsApart(y)
  BY <1>0, <1>1 DEF Intact, MarksAgree, TrapsApart
<1>4. TextAgrees(y)
  BY <1>0, <1>1 DEF Intact, TextAgrees
<1>5. Intact(y)
  BY <1>2, <1>3, <1>4 DEF Intact
<1>6. Sound(y)
  BY <1>1, <1>5, SoundKept
<1> QED BY <1>1, <1>6 DEF y
-----------------------------------------------------------------------------
(* Control. *)

(* Every step keeps what WaitInv says. *)
LEMMA WaitNext ==
  ASSUME Types, WaitInv, CallerInv, Next
  PROVE  WaitInv'
<1> USE TargetAssumption DEF WaitInv, Waiting, Running
<1>1. CASE Execute
  BY <1>1 DEF Execute, Report, ipVars, ctlVars, Types, CallerInv
<1>2. ASSUME NEW s \in Sig \union {"TRAP"}, TakeSignal(s)
      PROVE  WaitInv'
  BY <1>2 DEF TakeSignal, Report, ipVars, ctlVars, histVars, Types, CallerInv
<1>3. ASSUME NEW s \in Sig, SendSignal(s)
      PROVE  WaitInv'
  BY <1>3 DEF SendSignal, ipVars, ctlVars, Types, CallerInv
<1>4. CASE Killed
  BY <1>4 DEF Killed, Report, ipVars, ctlVars, Types, CallerInv
<1>5. CASE Reap
  BY <1>5 DEF Reap, kernelVars, ipVars, histVars, Types, CallerInv
<1>6. CASE ptrace_wait_for_target
  BY <1>6 DEF ptrace_wait_for_target, histVars, StopReason, Types, CallerInv
<1>7. CASE Restart
  BY <1>7 DEF Restart, Resume, Report, ipVars, histVars, Types, CallerInv
<1>8. CASE RestartGone
  BY <1>8 DEF RestartGone, kernelVars, ipVars, histVars, Types, CallerInv
<1>9. CASE ReplaceBreakpoint
  BY <1>9 DEF ReplaceBreakpoint, Resume, Report, kernelVars, ipVars, histVars, Types,
       CallerInv
<1>10. CASE Again
  BY <1>10 DEF Again, kernelVars, ipVars, histVars, PassOn, Types, CallerInv
<1>11. CASE Attached
  BY <1>11 DEF Attached, Back, GoIdle, kernelVars, ipVars, Types, CallerInv
<1>12. CASE Execed
  BY <1>12 DEF Execed, Back, kernelVars, ipVars, histVars, Types, CallerInv
<1>13. CASE xp_execto
  BY <1>13 DEF xp_execto, kernelVars, ipVars, histVars, Types, CallerInv
<1>14. CASE IgnoreSignal
  BY <1>14 DEF IgnoreSignal, Back, kernelVars, ipVars, histVars, Types, CallerInv
<1>15. CASE AtEntry
  BY <1>15 DEF AtEntry, ExecToEnds, Back, kernelVars, histVars, Types, CallerInv
<1>16. CASE AddLinker
  BY <1>16 DEF AddLinker, kernelVars, ipVars, histVars, Types, CallerInv
<1>17. CASE AtMain
  BY <1>17 DEF AtMain, ExecToEnds, Back, kernelVars, histVars, Types, CallerInv
<1>18. CASE Started
  BY <1>18 DEF Started, GoIdle, kernelVars, ipVars, Types, CallerInv
<1>19. CASE RunLoop
  BY <1>19 DEF RunLoop, kernelVars, ipVars, histVars, Types, CallerInv
<1>20. ASSUME NEW answer \in BOOLEAN, RunOn(answer)
      PROVE  WaitInv'
  BY <1>20 DEF RunOn, BackInRun, Back, kernelVars, Stops, Types, CallerInv
<1>21. ASSUME NEW answer \in BOOLEAN, RunEnds(answer)
      PROVE  WaitInv'
  BY <1>21 DEF RunEnds, BackInRun, Back, GoIdle, kernelVars, Types, CallerInv
<1>22. CASE Start
  BY <1>22 DEF Start, Report, Types, CallerInv
<1>23. CASE Cont
  BY <1>23 DEF Cont, kernelVars, ipVars, Types, CallerInv
<1>24. CASE Kill
  BY <1>24 DEF Kill, ctlVars, histVars, Types, CallerInv
<1>25. CASE Detach
  BY <1>25 DEF Detach, ctlVars, Types, CallerInv
<1>26. CASE DetachGone
  BY <1>26 DEF DetachGone, kernelVars, ipVars, histVars, Types, CallerInv
<1>27. ASSUME NEW a \in Addr, Attach(a)
      PROVE  WaitInv'
  BY <1>27 DEF Attach, Report, Types, CallerInv
<1>28. ASSUME NEW b \in UserBp, SetState(b)
      PROVE  WaitInv'
  BY <1>28 DEF SetState, kernelVars, ipVars, ctlVars, histVars, Types, CallerInv
<1>29. ASSUME NEW stop \in BOOLEAN, Interrupt(stop)
      PROVE  WaitInv'
  BY <1>29 DEF Interrupt, ipVars, Types, CallerInv
<1>30. CASE PressStop
  BY <1>30 DEF PressStop, kernelVars, ipVars, Types, CallerInv
<1>31. CASE Panicked
  BY <1>31 DEF Panicked, vars, kernelVars, ipVars, ctlVars, histVars, Types, CallerInv
<1> QED BY <1>1, <1>2, <1>3, <1>4, <1>5, <1>6, <1>7, <1>8, <1>9, <1>10, <1>11, <1>12,
     <1>13, <1>14, <1>15, <1>16, <1>17, <1>18, <1>19, <1>20, <1>21, <1>22, <1>23, <1>24,
     <1>25, <1>26, <1>27, <1>28, <1>29, <1>30, <1>31 DEF Next, Kernel, Debugger, Command,
     User

(* Every step keeps what CallerInv says. *)
LEMMA CallerNext ==
  ASSUME Types, WaitInv, CallerInv, Next
  PROVE  CallerInv'
<1> USE DEF CallerInv, Waiting
<1>1. CASE Execute
  BY <1>1 DEF Execute, Report, ipVars, ctlVars, Types, WaitInv, Running
<1>2. ASSUME NEW s \in Sig \union {"TRAP"}, TakeSignal(s)
      PROVE  CallerInv'
  BY <1>2 DEF TakeSignal, Report, ipVars, ctlVars, histVars, Types, WaitInv, Running
<1>3. ASSUME NEW s \in Sig, SendSignal(s)
      PROVE  CallerInv'
  BY <1>3 DEF SendSignal, ipVars, ctlVars, Types, WaitInv, Running
<1>4. CASE Killed
  BY <1>4 DEF Killed, Report, ipVars, ctlVars, Types, WaitInv, Running
<1>5. CASE Reap
  BY <1>5 DEF Reap, kernelVars, ipVars, histVars, Types, WaitInv, Running
<1>6. CASE ptrace_wait_for_target
  BY <1>6 DEF ptrace_wait_for_target, histVars, Types, WaitInv, Running
<1>7. CASE Restart
  BY <1>7 DEF Restart, Resume, Report, ipVars, histVars, Types, WaitInv, Running
<1>8. CASE RestartGone
  BY <1>8 DEF RestartGone, kernelVars, ipVars, histVars, Types, WaitInv, Running
<1>9. CASE ReplaceBreakpoint
  BY <1>9 DEF ReplaceBreakpoint, Resume, Report, kernelVars, ipVars, histVars, Types,
       WaitInv, Running
<1>10. CASE Again
  BY <1>10 DEF Again, kernelVars, ipVars, histVars, Types, WaitInv, Running
<1>11. CASE Attached
  BY <1>11 DEF Attached, Back, GoIdle, kernelVars, ipVars, Types, WaitInv, Running
<1>12. CASE Execed
  BY <1>12 DEF Execed, Back, kernelVars, ipVars, histVars, Types, WaitInv, Running
<1>13. CASE xp_execto
  BY <1>13 DEF xp_execto, kernelVars, ipVars, histVars, Types, WaitInv, Running
<1>14. CASE IgnoreSignal
  BY <1>14 DEF IgnoreSignal, Back, kernelVars, ipVars, histVars, Types, WaitInv, Running
<1>15. CASE AtEntry
  BY <1>15 DEF AtEntry, ExecToEnds, Back, kernelVars, histVars, Types, WaitInv, Running
<1>16. CASE AddLinker
  BY <1>16 DEF AddLinker, kernelVars, ipVars, histVars, Types, WaitInv, Running
<1>17. CASE AtMain
  BY <1>17 DEF AtMain, ExecToEnds, Back, kernelVars, histVars, Types, WaitInv, Running
<1>18. CASE Started
  BY <1>18 DEF Started, GoIdle, kernelVars, ipVars, Types, WaitInv, Running
<1>19. CASE RunLoop
  BY <1>19 DEF RunLoop, kernelVars, ipVars, histVars, Types, WaitInv, Running
<1>20. ASSUME NEW answer \in BOOLEAN, RunOn(answer)
      PROVE  CallerInv'
  BY <1>20 DEF RunOn, BackInRun, Back, kernelVars, Types, WaitInv, Running
<1>21. ASSUME NEW answer \in BOOLEAN, RunEnds(answer)
      PROVE  CallerInv'
  BY <1>21 DEF RunEnds, BackInRun, Back, GoIdle, kernelVars, Types, WaitInv, Running
<1>22. CASE Start
  BY <1>22 DEF Start, Report, Types, WaitInv, Running
<1>23. CASE Cont
  BY <1>23 DEF Cont, kernelVars, ipVars, Types, WaitInv, Running
<1>24. CASE Kill
  BY <1>24 DEF Kill, ctlVars, histVars, Types, WaitInv, Running
<1>25. CASE Detach
  BY <1>25 DEF Detach, ctlVars, Types, WaitInv, Running
<1>26. CASE DetachGone
  BY <1>26 DEF DetachGone, kernelVars, ipVars, histVars, Types, WaitInv, Running
<1>27. ASSUME NEW a \in Addr, Attach(a)
      PROVE  CallerInv'
  BY <1>27 DEF Attach, Report, Types, WaitInv, Running
<1>28. ASSUME NEW b \in UserBp, SetState(b)
      PROVE  CallerInv'
  BY <1>28 DEF SetState, kernelVars, ipVars, ctlVars, histVars, Types, WaitInv, Running
<1>29. ASSUME NEW stop \in BOOLEAN, Interrupt(stop)
      PROVE  CallerInv'
  BY <1>29 DEF Interrupt, ipVars, Types, WaitInv, Running
<1>30. CASE PressStop
  BY <1>30 DEF PressStop, kernelVars, ipVars, Types, WaitInv, Running
<1>31. CASE Panicked
  BY <1>31 DEF Panicked, vars, kernelVars, ipVars, ctlVars, histVars, Types, WaitInv,
       Running
<1> QED BY <1>1, <1>2, <1>3, <1>4, <1>5, <1>6, <1>7, <1>8, <1>9, <1>10, <1>11, <1>12,
     <1>13, <1>14, <1>15, <1>16, <1>17, <1>18, <1>19, <1>20, <1>21, <1>22, <1>23, <1>24,
     <1>25, <1>26, <1>27, <1>28, <1>29, <1>30, <1>31 DEF Next, Kernel, Debugger, Command,
     User
-----------------------------------------------------------------------------
(* Types. *)

(* A breakpoint found in the text is one of the list, at that address. *)
LEMMA Found ==
  ASSUME ListInv, NEW a, get_breakpoint_at_addr(t, a) # {}
  PROVE  LET b == FirstOf(t, get_breakpoint_at_addr(t, a))
         IN  b \in t.live /\ b \in Bp /\ t.xp[b] /\ t.addr[b] = a /\ a \in Addr /\ b # NoBp
<1>1. t \in Tables /\ TrapsApart(t) /\ t.addr \in [Bp -> Addr]
  BY SoundTypes DEF ListInv
<1> DEFINE b == FirstOf(t, get_breakpoint_at_addr(t, a))
<1>2. b \in t.live /\ b \in Bp /\ t.xp[b] /\ t.addr[b] = a
  BY <1>1, FirstInstalled
<1> HIDE DEF b
<1>3. a \in Addr /\ b # NoBp
  BY <1>1, <1>2, TargetAssumption
<1> QED BY <1>2, <1>3 DEF b

(* The answer whether a stop was in the dynamic linker. *)
LEMMA HitSolibType ==
  ASSUME ListInv, hit_solib \in BOOLEAN
  PROVE  HitSolib \in BOOLEAN
<1> DEFINE here == get_breakpoint_at_addr(t, restart_pc)
           b == FirstOf(t, here)
<1>1. t.solib \in [Bp -> BOOLEAN]
  BY SoundTypes DEF ListInv
<1>2. here # {} => b \in Bp
  BY Found
<1> HIDE DEF b
<1>3. here # {} => t.solib[b] \in BOOLEAN
  BY <1>1, <1>2
<1>4. (here # {} /\ t.solib[b]) \in BOOLEAN
  BY <1>3, Zenon
<1>5. CASE stopres = "BPT"
  <2>1. HitSolib = (here # {} /\ t.solib[b])
    BY <1>5, Zenon DEF HitSolib, b
  <2> QED BY <1>4, <2>1
<1>6. CASE stopres # "BPT"
  BY <1>6, Zenon DEF HitSolib
<1> QED BY <1>5, <1>6

(* The pc a stop leaves to restart from is an address. *)
LEMMA RestartPcType ==
  ASSUME Types, ListInv
  PROVE  (IF AtBreakpoint THEN kpc - 1 ELSE kpc) \in Nat
<1>1. CASE AtBreakpoint
  <2>1. kpc - 1 \in Addr
    BY <1>1, Found DEF AtBreakpoint
  <2> QED BY <1>1, <2>1, TargetAssumption
<1>2. CASE ~AtBreakpoint
  BY <1>2 DEF Types
<1> QED BY <1>1, <1>2

(* After the step over a breakpoint control goes back, on, or nowhere. *)
LEMMA ReplaceCases ==
  ASSUME ReplaceBreakpoint
  PROVE  /\ ctl = "stepped" /\ over' = NoBp /\ UNCHANGED <<ipVars, caller, press, histVars>>
         /\ \/ ctl' \in {"panic", "returned"} /\ UNCHANGED <<sig, ustop, kernelVars>>
            \/ ctl' = "wait" /\ sig' = "none" /\ stopres = "SSTEP" /\ Resume("cont", "none")
         /\ ctl' = "panic" => ~pid /\ UNCHANGED t
         /\ ctl' = "returned" => stopres # "SSTEP"
         /\ ctl' # "panic" => t' = IF pid THEN install_breakpoint(t, over, FALSE) ELSE t
BY DEF ReplaceBreakpoint

(* Every step keeps the types. *)
LEMMA TypesNext ==
  ASSUME Types, WaitInv, CallerInv, ListInv, Next
  PROVE  Types'
<1> USE DEF Types, Points, Callers
<1>1. CASE Execute
  BY <1>1, TargetAssumption DEF Execute, Report, ipVars, ctlVars
<1>2. ASSUME NEW s \in Sig \union {"TRAP"}, TakeSignal(s)
      PROVE  Types'
  BY <1>2 DEF TakeSignal, Report, ipVars, ctlVars, histVars
<1>3. ASSUME NEW s \in Sig, SendSignal(s)
      PROVE  Types'
  BY <1>3, TargetAssumption DEF SendSignal, ipVars, ctlVars
<1>4. CASE Killed
  BY <1>4, TargetAssumption DEF Killed, Report, ipVars, ctlVars
<1>5. CASE Reap
  BY <1>5 DEF Reap, kernelVars, ipVars, histVars
<1>6. CASE ptrace_wait_for_target
  <2>1. (IF AtBreakpoint THEN kpc - 1 ELSE kpc) \in Nat
    BY RestartPcType
  <2>2. (ustop \/ press) \in BOOLEAN
    BY Zenon DEF Types
  <2>3. kern # "none" => status \in Sig \union {"TRAP"}
    BY <1>6 DEF ptrace_wait_for_target, WaitInv, Running, Waiting
  <2>4. ustop' \in BOOLEAN /\ press' \in BOOLEAN /\ pid' \in BOOLEAN
    BY <1>6, <2>2, Zenon DEF ptrace_wait_for_target
  <2>5. CASE kern = "none"
    BY <1>6, <2>4, <2>5 DEF ptrace_wait_for_target, histVars
  <2>6. CASE kern # "none"
    <3>1. /\ stopres' = StopReason /\ lastsig' = (IF status = "TRAP" THEN "none" ELSE status)
          /\ restart_pc' = (IF AtBreakpoint THEN kpc - 1 ELSE kpc) /\ UNCHANGED pend
      BY <1>6, <2>6 DEF ptrace_wait_for_target
    <3>2. stopres' \in {"DIED", "SIG", "USER", "BPT", "SSTEP"}
      BY <3>1 DEF StopReason
    <3> QED BY <1>6, <2>1, <2>3, <2>4, <3>1, <3>2 DEF ptrace_wait_for_target, histVars
  <2> QED BY <2>5, <2>6
<1>7. CASE Restart
  <2>0. ustop' \in BOOLEAN
    BY <1>7, Zenon DEF Restart, Resume
  <2>1. CASE get_breakpoint_at_addr(t, restart_pc) = {}
    BY <1>7, <2>0, <2>1 DEF Restart, Resume, Report, ipVars, histVars
  <2>2. CASE get_breakpoint_at_addr(t, restart_pc) # {}
    <3>1. over' \in Bp
      BY <1>7, <2>2, Found DEF Restart
    <3>2. /\ ctl' = "wait" /\ Resume("step", sig)
          /\ UNCHANGED <<ipVars, caller, sig, press, histVars>>
      BY <1>7, <2>2 DEF Restart
    <3> QED BY <2>0, <3>1, <3>2 DEF Resume, Report, ipVars, histVars
  <2> QED BY <2>1, <2>2
<1>8. CASE RestartGone
  BY <1>8 DEF RestartGone, kernelVars, ipVars, histVars
<1>9. CASE ReplaceBreakpoint
  <2>1. ustop' \in BOOLEAN
    BY <1>9, Zenon DEF ReplaceBreakpoint, Resume
  <2>2. /\ over' = NoBp /\ UNCHANGED <<ipVars, caller, press, histVars>>
        /\ \/ ctl' \in {"panic", "returned"} /\ UNCHANGED <<sig, ustop, kernelVars>>
           \/ ctl' = "wait" /\ sig' = "none" /\ Resume("cont", "none")
    BY <1>9, ReplaceCases
  <2> QED BY <2>1, <2>2 DEF Resume, Report, kernelVars, ipVars, histVars
<1>10. CASE Again
  BY <1>10 DEF Again, kernelVars, ipVars, histVars, PassOn
<1>11. CASE Attached
  <2>1. press' \in BOOLEAN
    BY <1>11, Zenon DEF Attached, Back, GoIdle, kernelVars, ipVars
  <2> QED BY <1>11, <2>1 DEF Attached, Back, GoIdle, kernelVars, ipVars
<1>12. CASE Execed
  BY <1>12 DEF Execed, Back, kernelVars, ipVars, histVars
<1>13. CASE xp_execto
  <2>1. ctl' \in Points
    BY <1>13, Zenon DEF xp_execto, kernelVars, ipVars, histVars
  <2> QED BY <1>13, <2>1 DEF xp_execto, kernelVars, ipVars, histVars
<1>14. CASE IgnoreSignal
  BY <1>14 DEF IgnoreSignal, Back, kernelVars, ipVars, histVars
<1>15. CASE AtEntry
  BY <1>15, HitSolibType DEF AtEntry, ExecToEnds, Back, kernelVars, histVars
<1>16. CASE AddLinker
  BY <1>16 DEF AddLinker, kernelVars, ipVars, histVars
<1>17. CASE AtMain
  BY <1>17, HitSolibType DEF AtMain, ExecToEnds, Back, kernelVars, histVars
<1>18. CASE Started
  <2>1. press' \in BOOLEAN
    BY <1>18, Zenon DEF Started, GoIdle, kernelVars, ipVars
  <2> QED BY <1>18, <2>1 DEF Started, GoIdle, kernelVars, ipVars
<1>19. CASE RunLoop
  BY <1>19, TargetAssumption DEF RunLoop, kernelVars, ipVars, histVars, RestartSig
<1>20. ASSUME NEW answer \in BOOLEAN, RunOn(answer)
      PROVE  Types'
  BY <1>20, HitSolibType DEF RunOn, BackInRun, Back, kernelVars
<1>21. ASSUME NEW answer \in BOOLEAN, RunEnds(answer)
      PROVE  Types'
  <2>1. HitSolib \in BOOLEAN
    BY HitSolibType
  <2>2. (HitSolib /\ caller = "run") \in BOOLEAN
    BY <2>1, Zenon
  <2>3. \A loaded \in BOOLEAN : (~loaded) \in BOOLEAN
    BY Zenon
  <2>4. hit_solib' \in BOOLEAN /\ press' \in BOOLEAN
    BY <1>21, <2>2, <2>3, Zenon DEF RunEnds, GoIdle
  <2> QED BY <1>21, <2>4 DEF RunEnds, BackInRun, Back, GoIdle, kernelVars
<1>22. CASE Start
  BY <1>22, TargetAssumption DEF Start, Report
<1>23. CASE Cont
  BY <1>23 DEF Cont, kernelVars, ipVars
<1>24. CASE Kill
  BY <1>24 DEF Kill, ctlVars, histVars
<1>25. CASE Detach
  BY <1>25 DEF Detach, ctlVars
<1>26. CASE DetachGone
  BY <1>26 DEF DetachGone, kernelVars, ipVars, histVars
<1>27. ASSUME NEW a \in Addr, Attach(a)
      PROVE  Types'
  BY <1>27, TargetAssumption DEF Attach, Report
<1>28. ASSUME NEW b \in UserBp, SetState(b)
      PROVE  Types'
  BY <1>28 DEF SetState, kernelVars, ipVars, ctlVars, histVars
<1>29. ASSUME NEW stop \in BOOLEAN, Interrupt(stop)
      PROVE  Types'
  <2>1. (ustop \/ stop) \in BOOLEAN
    BY Zenon DEF Types
  <2> QED BY <1>29, <2>1, TargetAssumption DEF Interrupt, ipVars
<1>30. CASE PressStop
  BY <1>30, TargetAssumption DEF PressStop, kernelVars, ipVars
<1>31. CASE Panicked
  BY <1>31 DEF Panicked, vars, kernelVars, ipVars, ctlVars, histVars
<1> QED BY <1>1, <1>2, <1>3, <1>4, <1>5, <1>6, <1>7, <1>8, <1>9, <1>10, <1>11, <1>12,
     <1>13, <1>14, <1>15, <1>16, <1>17, <1>18, <1>19, <1>20, <1>21, <1>22, <1>23, <1>24,
     <1>25, <1>26, <1>27, <1>28, <1>29, <1>30, <1>31 DEF Next, Kernel, Debugger, Command,
     User
-----------------------------------------------------------------------------
(* The table. *)

(* No trap is left, or only the debugger's own, before xp_execto adds one. *)
LEMMA TempFree ==
  ASSUME ListInv, ctl \in {"execto", "linker"}, caller \in {"entry", "main"}
  PROVE  /\ TempBp \notin t.live
         /\ \A c \in Bp : t.xp[c] => c = LinkerBp /\ caller = "main" /\ t.addr[c] = LinkerAddr
<1>1. TempBp \notin t.live /\ OwnTraps(t)
  BY DEF ListInv, StepPoints
<1>2. \A c \in Bp : t.xp[c] => c \in t.live
  BY SoundTypes DEF ListInv
<1> QED BY <1>1, <1>2 DEF OwnTraps, ListInv, Sound

(* Every step keeps what ListInv, OverInv and ArmedInv say of the table. *)
LEMMA TableNext ==
  ASSUME Types, WaitInv, CallerInv, ListInv, OverInv, ArmedInv, Next
  PROVE  ListInv' /\ OverInv' /\ ArmedInv'
<1> USE DEF StepPoints
<1>0. /\ Sound(t) /\ t.live \subseteq Bp /\ {LinkerBp, TempBp} \subseteq Bp
      /\ NoBp \notin Bp /\ LinkerBp # TempBp
      /\ \A b \in Bp : t.xp[b] => b \in t.live
  BY SoundTypes, TargetAssumption DEF ListInv
<1>1. CASE Execute
  BY <1>0, <1>1 DEF Execute, Report, ipVars, ctlVars, ListInv, OverInv, ArmedInv, OwnTraps,
       NoTraps, Running, Waiting, WaitInv, CallerInv, Types
<1>2. ASSUME NEW s \in Sig \union {"TRAP"}, TakeSignal(s)
      PROVE  ListInv' /\ OverInv' /\ ArmedInv'
  BY <1>0, <1>2 DEF TakeSignal, Report, ipVars, ctlVars, histVars, ListInv, OverInv,
       ArmedInv, OwnTraps, NoTraps, Running, Waiting, WaitInv, CallerInv, Types
<1>3. ASSUME NEW s \in Sig, SendSignal(s)
      PROVE  ListInv' /\ OverInv' /\ ArmedInv'
  BY <1>0, <1>3 DEF SendSignal, ipVars, ctlVars, ListInv, OverInv, ArmedInv, OwnTraps,
       NoTraps, Running, Waiting, WaitInv, CallerInv, Types
<1>4. CASE Killed
  BY <1>0, <1>4 DEF Killed, Report, ipVars, ctlVars, ListInv, OverInv, ArmedInv, OwnTraps,
       NoTraps, Running, Waiting, WaitInv, CallerInv, Types
<1>5. CASE Reap
  BY <1>0, <1>5 DEF Reap, kernelVars, ipVars, histVars, ListInv, OverInv, ArmedInv,
       OwnTraps, NoTraps, Running, Waiting, WaitInv, CallerInv, Types
<1>6. CASE ptrace_wait_for_target
  <2> DEFINE y == FreshText(mark_breakpoints_as_uninstalled(t))
  <2>1. Sound(y) /\ y.live = t.live /\ y.addr = t.addr /\ NoTraps(y)
    BY <1>0, SoundGone
  <2>2. /\ ctl = "reaped" /\ ctl' = (IF over = NoBp THEN "returned" ELSE "stepped")
        /\ UNCHANGED <<kern, caller, over>>
        /\ kern = "none" => t' = y /\ pid' = FALSE /\ stopres' = "DIED"
        /\ kern # "none" => /\ UNCHANGED <<t, pid>> /\ stopres' = StopReason
                            /\ restart_pc' = (IF AtBreakpoint THEN kpc - 1 ELSE kpc)
    BY <1>6 DEF ptrace_wait_for_target
  <2> HIDE DEF y
  <2>3. pid /\ kern \in {"none", "stopped"}
    BY <2>2 DEF WaitInv, Running, Waiting, Types
  <2>4. CASE kern = "none"
    BY <1>0, <2>1, <2>2, <2>3, <2>4 DEF ListInv, OverInv, ArmedInv, NoTraps, OwnTraps,
         Running
  <2>5. CASE kern # "none"
    <3>1. stopres' = "BPT" => get_breakpoint_at_addr(t, restart_pc') # {}
      BY <2>2, <2>5 DEF StopReason, AtBreakpoint
    <3> QED BY <2>2, <2>3, <2>5, <3>1 DEF ListInv, OverInv, ArmedInv, OwnTraps, Running
  <2> QED BY <2>4, <2>5
<1>7. CASE Restart
  <2> DEFINE here == get_breakpoint_at_addr(t, restart_pc)
  <2>1. /\ ctl = "restart" /\ ctl' = "wait" /\ UNCHANGED <<pid, caller, restart_pc, stopres>>
        /\ \/ /\ here = {} /\ UNCHANGED <<t, over>> /\ kern' \in {"cont", "none"}
           \/ /\ here # {} /\ over' = FirstOf(t, here) /\ t' = uninstall_breakpoint(t, over')
              /\ kern' \in {"step", "none"}
    BY <1>7 DEF Restart, Resume, Report, ipVars
  <2>2. over = NoBp /\ pid
    BY <2>1 DEF CallerInv, WaitInv, Waiting
  <2>3. CASE here = {}
    BY <2>1, <2>2, <2>3 DEF ListInv, OverInv, ArmedInv, OwnTraps, Running
  <2>4. CASE here # {}
    <3>1. over' \in t.live /\ over' \in Bp /\ t.xp[over'] /\ t.addr[over'] = restart_pc
      BY <2>1, <2>4, Found
    <3> DEFINE y == uninstall_breakpoint(t, over')
    <3>2. /\ Sound(y) /\ y.live = t.live /\ y.addr = t.addr
          /\ \A c \in Bp : UserDisabled(y, c) = UserDisabled(t, c)
          /\ \A c \in Bp \ {over'} : y.xp[c] = t.xp[c]
          /\ ~y.xp[over']
          /\ \A c \in Bp : y.xp[c] => y.addr[c] # y.addr[over']
      BY <1>0, <3>1, SoundUninstall
    <3>3. t' = y /\ kern' \in {"step", "none"}
      BY <2>1, <2>4
    <3> HIDE DEF y
    <3>4. ListInv'
      BY <1>0, <2>1, <2>2, <3>1, <3>2, <3>3 DEF ListInv, OwnTraps
    <3>5. OverInv'
      <4>1. caller \in {"entry", "main"} => over' = TempBp \/ (over' = LinkerBp /\ caller = "main")
        BY <2>1, <3>1 DEF ListInv, OwnTraps
      <4> QED BY <2>1, <3>1, <3>2, <3>3, <4>1 DEF OverInv
    <3>6. ArmedInv'
      BY <1>0, <2>1, <2>2, <3>1, <3>2, <3>3 DEF ArmedInv, Running
    <3> QED BY <3>4, <3>5, <3>6
  <2> QED BY <2>3, <2>4
<1>8. CASE RestartGone
  BY <1>0, <1>8 DEF RestartGone, kernelVars, ipVars, histVars, ListInv, OverInv, ArmedInv,
       OwnTraps, NoTraps, Running, Waiting, WaitInv, CallerInv, Types
<1>9. CASE ReplaceBreakpoint
  <2>1. /\ ctl = "stepped" /\ over' = NoBp /\ UNCHANGED <<ipVars, caller>>
        /\ \/ ctl' \in {"panic", "returned"} /\ UNCHANGED kern
           \/ ctl' = "wait" /\ stopres = "SSTEP" /\ kern' \in {"cont", "none"}
        /\ ctl' = "panic" => ~pid /\ UNCHANGED t
        /\ ctl' # "panic" /\ ~pid => UNCHANGED t
        /\ ctl' # "panic" /\ pid => t' = install_breakpoint(t, over, FALSE)
    BY <1>9, ReplaceCases DEF Resume, Report, kernelVars
  <2>2. /\ over \in t.live /\ over \in Bp /\ ~t.xp[over] /\ ~Running
        /\ \A c \in Bp : t.xp[c] => t.addr[c] # t.addr[over]
        /\ caller \in {"entry", "main"} => over = TempBp \/ (over = LinkerBp /\ caller = "main")
        /\ caller \notin {"exec", "attach"}
        /\ ~pid => stopres = "DIED"
    BY <1>0, <2>1 DEF OverInv, CallerInv, WaitInv
  <2>3. CASE ~pid
    <3>1. UNCHANGED t
      BY <2>1, <2>3
    <3> QED BY <1>0, <2>1, <2>2, <2>3, <3>1 DEF ListInv, OverInv, ArmedInv, OwnTraps,
         Running, ipVars
  <2>4. CASE ctl' # "panic" /\ pid
    <3> DEFINE y == install_breakpoint(t, over, FALSE)
    <3>1. /\ Sound(y) /\ y.live = t.live /\ y.addr = t.addr
          /\ \A c \in Bp : UserDisabled(y, c) = UserDisabled(t, c)
          /\ \A c \in Bp \ {over} : y.xp[c] = t.xp[c]
          /\ ~UserDisabled(t, over) => y.xp[over]
      BY <1>0, <2>2, SoundInstall
    <3>2. t' = y
      BY <2>1, <2>4
    <3> HIDE DEF y
    <3>3. ListInv'
      BY <1>0, <2>1, <2>2, <2>4, <3>1, <3>2 DEF ListInv, OwnTraps, ipVars
    <3>4. OverInv'
      <4>1. stopres = "BPT" => get_breakpoint_at_addr(y, restart_pc) # {}
        <5> SUFFICES ASSUME stopres = "BPT" PROVE get_breakpoint_at_addr(y, restart_pc) # {}
          OBVIOUS
        <5>1. PICK b \in t.live : t.xp[b] /\ t.addr[b] = restart_pc
          BY <2>1 DEF OverInv, get_breakpoint_at_addr
        <5>2. b # over /\ b \in Bp
          BY <1>0, <2>2, <5>1
        <5> QED BY <3>1, <5>1, <5>2 DEF get_breakpoint_at_addr
      <4> QED BY <2>1, <3>2, <4>1 DEF OverInv, ipVars
    <3>5. ArmedInv'
      BY <1>0, <2>1, <2>2, <2>4, <3>1, <3>2 DEF ArmedInv, Running, ipVars
    <3> QED BY <3>3, <3>4, <3>5
  <2> QED BY <2>1, <2>3, <2>4
<1>10. CASE Again
  BY <1>0, <1>10 DEF Again, kernelVars, ipVars, histVars, PassOn, ListInv, OverInv,
       ArmedInv, OwnTraps, NoTraps, Running, Waiting, WaitInv, CallerInv, Types
<1>11. CASE Attached
  BY <1>0, <1>11 DEF Attached, Back, GoIdle, kernelVars, ipVars, ListInv, OverInv,
       ArmedInv, OwnTraps, NoTraps, Running, Waiting, WaitInv, CallerInv, Types
<1>12. CASE Execed
  BY <1>0, <1>12 DEF Execed, Back, kernelVars, ipVars, histVars, ListInv, OverInv,
       ArmedInv, OwnTraps, NoTraps, Running, Waiting, WaitInv, CallerInv, Types
<1>13. CASE xp_execto
  <2>0. ctl = "execto" /\ over = NoBp /\ caller \in {"entry", "main"} /\ ~Running
        /\ UNCHANGED <<kernelVars, ipVars, caller, over>>
    BY <1>13 DEF xp_execto, CallerInv, Waiting, WaitInv
  <2>1. CASE pid
    <3> DEFINE a == IF caller = "entry" THEN EntryAddr ELSE MainAddr
               y == install_breakpoint(dx_add_breakpoint(t, TempBp, a, NoCode, "none"), TempBp, FALSE)
    <3>1. t' = y /\ ctl' = "restart"
      BY <1>13, <2>1 DEF xp_execto
    <3>2. TempBp \notin t.live /\ \A c \in Bp : t.xp[c] => t.addr[c] # a
      BY <2>0, TempFree, TargetAssumption
    <3>3. a \in Addr /\ a \in BpAddrs
      BY TargetAssumption DEF BpAddrs
    <3>4. /\ Sound(y) /\ y.live = t.live \union {TempBp}
          /\ \A c \in Bp \ {TempBp} : y.xp[c] = t.xp[c]
      <4> HIDE DEF a
      <4> QED BY <1>0, <3>2, <3>3, SoundOwn
    <3> HIDE DEF y
    <3>5. ListInv'
      BY <1>0, <2>0, <2>1, <3>1, <3>2, <3>4 DEF ListInv, OwnTraps, ipVars
    <3>6. OverInv' /\ ArmedInv'
      BY <2>0, <3>1 DEF OverInv, ArmedInv, Running, kernelVars
    <3> QED BY <3>5, <3>6
  <2>2. CASE ~pid
    BY <1>13, <2>0, <2>2 DEF xp_execto, ListInv, OverInv, ArmedInv, Running, ipVars,
         kernelVars
  <2> QED BY <2>1, <2>2
<1>14. CASE IgnoreSignal
  BY <1>0, <1>14 DEF IgnoreSignal, Back, kernelVars, ipVars, histVars, ListInv, OverInv,
       ArmedInv, OwnTraps, NoTraps, Running, Waiting, WaitInv, CallerInv, Types
<1>15. CASE AtEntry
  <2> DEFINE y == dx_remove_breakpoint(t, TempBp)
  <2>1. /\ ctl = "returned" /\ caller = "entry" /\ ctl' \in {"linker"}
        /\ UNCHANGED <<kernelVars, pid, stopres, restart_pc, over, caller>> /\ t' = y
    BY <1>15 DEF AtEntry, ExecToEnds, Back
  <2>2. TempBp \in t.live /\ OwnTraps(t) /\ over = NoBp /\ ~Running
    BY <2>1 DEF ListInv, CallerInv, Waiting, WaitInv
  <2>3. /\ Sound(y) /\ y.live = t.live \ {TempBp} /\ ~y.xp[TempBp]
        /\ \A c \in Bp \ {TempBp} : y.xp[c] = t.xp[c]
    BY <1>0, <2>2, SoundRemove
  <2> HIDE DEF y
  <2>4. ListInv'
    BY <1>0, <2>1, <2>2, <2>3 DEF ListInv, OwnTraps, NoTraps
  <2>5. OverInv' /\ ArmedInv'
    BY <2>1, <2>2 DEF OverInv, ArmedInv, Running, kernelVars
  <2> QED BY <2>4, <2>5
<1>16. CASE AddLinker
  <2>1. /\ ctl = "linker" /\ caller = "entry" /\ over = NoBp /\ ~Running
        /\ ctl' = "execto" /\ caller' = "main" /\ UNCHANGED <<kernelVars, ipVars, over>>
    BY <1>16 DEF AddLinker, CallerInv, Waiting, WaitInv
  <2>2. TempBp \notin t.live /\ \A c \in Bp : ~t.xp[c]
    BY <2>1, TempFree
  <2>3. CASE pid /\ LinkerBp \notin t.live
    <3> DEFINE y == install_breakpoint(dx_add_breakpoint(t, LinkerBp, LinkerAddr, NoCode, "solib"),
                                       LinkerBp, FALSE)
    <3>1. t' = y
      BY <1>16, <2>3 DEF AddLinker
    <3>2. LinkerAddr \in Addr /\ LinkerAddr \in BpAddrs
      BY TargetAssumption DEF BpAddrs
    <3>3. /\ Sound(y) /\ y.live = t.live \union {LinkerBp}
          /\ \A c \in Bp \ {LinkerBp} : y.xp[c] = t.xp[c]
      BY <1>0, <2>2, <2>3, <3>2, SoundOwn
    <3> HIDE DEF y
    <3>4. ListInv'
      BY <1>0, <2>1, <2>2, <2>3, <3>1, <3>3 DEF ListInv, OwnTraps, ipVars
    <3>5. OverInv' /\ ArmedInv'
      BY <2>1 DEF OverInv, ArmedInv, Running, kernelVars
    <3> QED BY <3>4, <3>5
  <2>4. CASE ~(pid /\ LinkerBp \notin t.live)
    <3>1. t' = t
      BY <1>16, <2>4 DEF AddLinker
    <3> QED BY <2>1, <2>2, <3>1 DEF ListInv, OverInv, ArmedInv, OwnTraps, NoTraps, Running,
         ipVars, kernelVars
  <2> QED BY <2>3, <2>4
<1>17. CASE AtMain
  <2> DEFINE y == dx_remove_breakpoint(t, TempBp)
  <2>1. /\ ctl = "returned" /\ caller = "main" /\ ctl' \in {"execto", "created"}
        /\ UNCHANGED <<kernelVars, pid, stopres, restart_pc, over, caller>> /\ t' = y
    BY <1>17 DEF AtMain, ExecToEnds, Back
  <2>2. TempBp \in t.live /\ OwnTraps(t) /\ over = NoBp /\ ~Running
    BY <2>1 DEF ListInv, CallerInv, Waiting, WaitInv
  <2>3. /\ Sound(y) /\ y.live = t.live \ {TempBp} /\ ~y.xp[TempBp]
        /\ \A c \in Bp \ {TempBp} : y.xp[c] = t.xp[c]
    BY <1>0, <2>2, SoundRemove
  <2> HIDE DEF y
  <2>4. ListInv'
    BY <1>0, <2>1, <2>2, <2>3 DEF ListInv, OwnTraps, NoTraps
  <2>5. OverInv' /\ ArmedInv'
    BY <2>1, <2>2 DEF OverInv, ArmedInv, Running, kernelVars
  <2> QED BY <2>4, <2>5
<1>18. CASE Started
  <2>1. /\ ctl = "created" /\ caller' = "run" /\ over = NoBp /\ ~Running
        /\ ctl' \in {"idle", "panic", "loop"} /\ UNCHANGED <<kernelVars, ipVars, over>>
        /\ stopres # "BPT" => UNCHANGED t
        /\ stopres = "BPT" => t' = install_all_breakpoints(t)
        /\ TempBp \notin t.live /\ (~pid => stopres = "DIED")
    BY <1>18 DEF Started, GoIdle, CallerInv, Waiting, WaitInv, ListInv
  <2>2. OverInv' /\ ArmedInv'
    BY <2>1 DEF OverInv, ArmedInv, Running, kernelVars
  <2>3. CASE stopres # "BPT"
    BY <2>1, <2>2, <2>3 DEF ListInv, ipVars, NoTraps
  <2>4. CASE stopres = "BPT"
    <3> DEFINE y == install_all_breakpoints(t)
    <3>1. Sound(y) /\ y.live = t.live
      BY <1>0, <2>1, SoundInstallAll
    <3> HIDE DEF y
    <3>2. t' = y /\ pid
      BY <2>1, <2>4 DEF y, Types
    <3> QED BY <2>1, <2>2, <3>1, <3>2 DEF ListInv, ipVars
  <2> QED BY <2>3, <2>4
<1>19. CASE RunLoop
  <2> DEFINE y == install_all_breakpoints(t)
  <2>1. /\ ctl = "loop" /\ ctl' = "restart" /\ t' = y /\ over = NoBp /\ pid /\ ~Running
        /\ caller \in {"run", "libs"} /\ TempBp \notin t.live
        /\ UNCHANGED <<kernelVars, ipVars, caller, over>>
    BY <1>19 DEF RunLoop, CallerInv, Waiting, WaitInv, ListInv
  <2>2. /\ Sound(y) /\ y.live = t.live
        /\ \A c \in Bp : UserDisabled(y, c) = UserDisabled(t, c)
        /\ \A c \in t.live : y.xp[c] <=> t.xp[c] \/ ~UserDisabled(t, c)
    BY <1>0, <2>1, SoundInstallAll
  <2> HIDE DEF y
  <2>3. ListInv' /\ OverInv'
    BY <2>1, <2>2 DEF ListInv, OverInv, ipVars
  <2>4. ArmedInv'
    BY <1>0, <2>1, <2>2 DEF ArmedInv, Running, kernelVars
  <2> QED BY <2>3, <2>4
<1>20. ASSUME NEW answer \in BOOLEAN, RunOn(answer)
      PROVE  ListInv' /\ OverInv' /\ ArmedInv'
  BY <1>0, <1>20 DEF RunOn, BackInRun, Back, kernelVars, Stops, ListInv, OverInv, ArmedInv,
       OwnTraps, NoTraps, Running, Waiting, WaitInv, CallerInv, Types
<1>21. ASSUME NEW answer \in BOOLEAN, RunEnds(answer)
      PROVE  ListInv' /\ OverInv' /\ ArmedInv'
  <2> DEFINE y == TrialSwap(t)
  <2>1. /\ ctl = "returned" /\ caller \in {"run", "libs"} /\ over = NoBp /\ ~Running
        /\ ctl' \in {"idle", "loop"} /\ caller' \in {"run", "libs"}
        /\ UNCHANGED <<kernelVars, pid, over>>
        /\ UNCHANGED t \/ (t' = y /\ stopres = "BPT")
    BY <1>21 DEF RunEnds, BackInRun, Back, GoIdle, CallerInv, Waiting, WaitInv
  <2>2. Sound(y) /\ y.live = t.live /\ y.addr = t.addr /\ y.xp = t.xp
    BY <1>0, SoundTrial
  <2> HIDE DEF y
  <2> QED BY <2>1, <2>2 DEF ListInv, OverInv, ArmedInv, NoTraps, Running, kernelVars
<1>22. CASE Start
  <2> DEFINE y == FreshText(t)
  <2>1. /\ ctl = "idle" /\ ~pid /\ pid' /\ t' = y /\ ctl' = "wait" /\ caller' = "exec" /\ over' = NoBp
        /\ kern' \in {"none", "stopped"}
    BY <1>22, Zenon DEF Start, Report
  <2>2. NoTraps(t) /\ TempBp \notin t.live
    BY <2>1 DEF ListInv
  <2>3. Sound(y) /\ y.live = t.live /\ NoTraps(y)
    BY <1>0, <2>2, SoundFresh
  <2> HIDE DEF y
  <2> QED BY <2>1, <2>2, <2>3 DEF ListInv, OverInv, ArmedInv, OwnTraps, NoTraps, Running
<1>23. CASE Cont
  BY <1>0, <1>23 DEF Cont, kernelVars, ipVars, ListInv, OverInv, ArmedInv, OwnTraps,
       NoTraps, Running, Waiting, WaitInv, CallerInv, Types
<1>24. CASE Kill
  <2> DEFINE x == uninstall_all_breakpoints(t)
             y == FreshText(mark_breakpoints_as_uninstalled(x))
  <2>1. /\ ctl = "idle" /\ over = NoBp /\ t' = y /\ ctl' \in {"idle", "panic"} /\ kern' = "none"
        /\ UNCHANGED <<caller, over>>
    BY <1>24 DEF Kill, ctlVars, kernelVars, CallerInv, Waiting
  <2>2. Sound(x) /\ x.live = t.live /\ NoTraps(x)
    BY <1>0, SoundUninstallAll
  <2> HIDE DEF x
  <2>3. Sound(y) /\ y.live = x.live /\ NoTraps(y)
    BY <2>2, SoundGone
  <2> HIDE DEF y
  <2> QED BY <2>1, <2>2, <2>3 DEF ListInv, OverInv, ArmedInv, OwnTraps, NoTraps, Running
<1>25. CASE Detach
  <2> DEFINE x == uninstall_all_breakpoints(t)
             y == FreshText(x)
  <2>1. /\ ctl = "idle" /\ over = NoBp /\ t' = y /\ ctl' \in {"idle", "panic"} /\ kern' = "none"
        /\ UNCHANGED <<caller, over>>
    BY <1>25 DEF Detach, ctlVars, kernelVars, CallerInv, Waiting
  <2>2. Sound(x) /\ x.live = t.live /\ NoTraps(x)
    BY <1>0, SoundUninstallAll
  <2> HIDE DEF x
  <2>3. Sound(y) /\ y.live = x.live /\ NoTraps(y)
    BY <2>2, SoundFresh
  <2> HIDE DEF y
  <2> QED BY <2>1, <2>2, <2>3 DEF ListInv, OverInv, ArmedInv, OwnTraps, NoTraps, Running
<1>26. CASE DetachGone
  <2> DEFINE x == uninstall_all_breakpoints(t)
             y == FreshText(x)
  <2>1. /\ ctl = "idle" /\ over = NoBp /\ t' = y /\ ctl' \in {"idle", "panic"} /\ kern' = "none"
        /\ UNCHANGED <<caller, over>>
    BY <1>26 DEF DetachGone, ctlVars, kernelVars, CallerInv, Waiting
  <2>2. Sound(x) /\ x.live = t.live /\ NoTraps(x)
    BY <1>0, SoundUninstallAll
  <2> HIDE DEF x
  <2>3. Sound(y) /\ y.live = x.live /\ NoTraps(y)
    BY <2>2, SoundFresh
  <2> HIDE DEF y
  <2> QED BY <2>1, <2>2, <2>3 DEF ListInv, OverInv, ArmedInv, OwnTraps, NoTraps, Running
<1>27. ASSUME NEW a \in Addr, Attach(a)
      PROVE  ListInv' /\ OverInv' /\ ArmedInv'
  <2> DEFINE y == FreshText(t)
  <2>1. /\ ctl = "idle" /\ ~pid /\ pid' /\ t' = y /\ ctl' = "wait" /\ caller' = "attach" /\ over' = NoBp
        /\ kern' \in {"none", "stopped"}
    BY <1>27, Zenon DEF Attach, Report
  <2>2. NoTraps(t) /\ TempBp \notin t.live
    BY <2>1 DEF ListInv
  <2>3. Sound(y) /\ y.live = t.live /\ NoTraps(y)
    BY <1>0, <2>2, SoundFresh
  <2> HIDE DEF y
  <2> QED BY <2>1, <2>2, <2>3 DEF ListInv, OverInv, ArmedInv, OwnTraps, NoTraps, Running
<1>28. ASSUME NEW b \in UserBp, SetState(b)
      PROVE  ListInv' /\ OverInv' /\ ArmedInv'
  <2> DEFINE y == [t EXCEPT !.inactive[b] = ~@]
  <2>1. /\ ctl = "idle" /\ over = NoBp /\ t' = y /\ ~Running
        /\ UNCHANGED <<kernelVars, ipVars, ctlVars>>
    BY <1>28 DEF SetState, CallerInv, Waiting, WaitInv
  <2>2. b \in Bp
    BY TargetAssumption
  <2>3. Sound(y) /\ y.live = t.live /\ y.xp = t.xp
    BY <1>0, <2>2, SoundToggle
  <2> HIDE DEF y
  <2> QED BY <2>1, <2>3
         DEF ListInv, OverInv, ArmedInv, OwnTraps, NoTraps, Running, kernelVars, ipVars, ctlVars
<1>29. ASSUME NEW stop \in BOOLEAN, Interrupt(stop)
      PROVE  ListInv' /\ OverInv' /\ ArmedInv'
  BY <1>0, <1>29 DEF Interrupt, ipVars, ListInv, OverInv, ArmedInv, OwnTraps, NoTraps,
       Running, Waiting, WaitInv, CallerInv, Types
<1>30. CASE PressStop
  BY <1>0, <1>30 DEF PressStop, kernelVars, ipVars, ListInv, OverInv, ArmedInv, OwnTraps,
       NoTraps, Running, Waiting, WaitInv, CallerInv, Types
<1>31. CASE Panicked
  BY <1>0, <1>31 DEF Panicked, vars, kernelVars, ipVars, ctlVars, histVars, ListInv,
       OverInv, ArmedInv, OwnTraps, NoTraps, Running, Waiting, WaitInv, CallerInv, Types
<1> QED BY <1>1, <1>2, <1>3, <1>4, <1>5, <1>6, <1>7, <1>8, <1>9, <1>10, <1>11, <1>12,
     <1>13, <1>14, <1>15, <1>16, <1>17, <1>18, <1>19, <1>20, <1>21, <1>22, <1>23, <1>24,
     <1>25, <1>26, <1>27, <1>28, <1>29, <1>30, <1>31 DEF Next, Kernel, Debugger, Command,
     User
-----------------------------------------------------------------------------
(* Undisturbed runs. *)

(* X events are only ever added. *)
LEMMA EventsKept ==
  ASSUME Types, Next, nx' = 0
  PROVE  nx = 0
<1> USE DEF Types
<1>1. CASE Execute
  BY <1>1 DEF Execute, Report, ipVars, ctlVars
<1>2. ASSUME NEW s \in Sig \union {"TRAP"}, TakeSignal(s)
      PROVE  nx = 0
  BY <1>2 DEF TakeSignal, Report, ipVars, ctlVars, histVars
<1>3. ASSUME NEW s \in Sig, SendSignal(s)
      PROVE  nx = 0
  BY <1>3 DEF SendSignal, ipVars, ctlVars
<1>4. CASE Killed
  BY <1>4 DEF Killed, Report, ipVars, ctlVars
<1>5. CASE Reap
  BY <1>5 DEF Reap, kernelVars, ipVars, histVars
<1>6. CASE ptrace_wait_for_target
  BY <1>6 DEF ptrace_wait_for_target, histVars
<1>7. CASE Restart
  BY <1>7 DEF Restart, Resume, Report, ipVars, histVars
<1>8. CASE RestartGone
  BY <1>8 DEF RestartGone, kernelVars, ipVars, histVars
<1>9. CASE ReplaceBreakpoint
  BY <1>9 DEF ReplaceBreakpoint, Resume, Report, kernelVars, ipVars, histVars
<1>10. CASE Again
  BY <1>10 DEF Again, kernelVars, ipVars, histVars
<1>11. CASE Attached
  BY <1>11 DEF Attached, Back, GoIdle, kernelVars, ipVars
<1>12. CASE Execed
  BY <1>12 DEF Execed, Back, kernelVars, ipVars, histVars
<1>13. CASE xp_execto
  BY <1>13 DEF xp_execto, kernelVars, ipVars, histVars
<1>14. CASE IgnoreSignal
  BY <1>14 DEF IgnoreSignal, Back, kernelVars, ipVars, histVars
<1>15. CASE AtEntry
  BY <1>15 DEF AtEntry, ExecToEnds, Back, kernelVars, histVars
<1>16. CASE AddLinker
  BY <1>16 DEF AddLinker, kernelVars, ipVars, histVars
<1>17. CASE AtMain
  BY <1>17 DEF AtMain, ExecToEnds, Back, kernelVars, histVars
<1>18. CASE Started
  BY <1>18 DEF Started, GoIdle, kernelVars, ipVars
<1>19. CASE RunLoop
  BY <1>19 DEF RunLoop, kernelVars, ipVars, histVars
<1>20. ASSUME NEW answer \in BOOLEAN, RunOn(answer)
      PROVE  nx = 0
  BY <1>20 DEF RunOn, BackInRun, Back, kernelVars
<1>21. ASSUME NEW answer \in BOOLEAN, RunEnds(answer)
      PROVE  nx = 0
  BY <1>21 DEF RunEnds, BackInRun, Back, GoIdle, kernelVars
<1>22. CASE Start
  BY <1>22 DEF Start, Report
<1>23. CASE Cont
  BY <1>23 DEF Cont, kernelVars, ipVars
<1>24. CASE Kill
  BY <1>24 DEF Kill, ctlVars, histVars
<1>25. CASE Detach
  BY <1>25 DEF Detach, ctlVars
<1>26. CASE DetachGone
  BY <1>26 DEF DetachGone, kernelVars, ipVars, histVars
<1>27. ASSUME NEW a \in Addr, Attach(a)
      PROVE  nx = 0
  BY <1>27 DEF Attach, Report
<1>28. ASSUME NEW b \in UserBp, SetState(b)
      PROVE  nx = 0
  BY <1>28 DEF SetState, kernelVars, ipVars, ctlVars, histVars
<1>29. ASSUME NEW stop \in BOOLEAN, Interrupt(stop)
      PROVE  nx = 0
  BY <1>29 DEF Interrupt, ipVars
<1>30. CASE PressStop
  BY <1>30 DEF PressStop, kernelVars, ipVars
<1>31. CASE Panicked
  BY <1>31 DEF Panicked, vars, kernelVars, ipVars, ctlVars, histVars
<1> QED BY <1>1, <1>2, <1>3, <1>4, <1>5, <1>6, <1>7, <1>8, <1>9, <1>10, <1>11, <1>12,
     <1>13, <1>14, <1>15, <1>16, <1>17, <1>18, <1>19, <1>20, <1>21, <1>22, <1>23, <1>24,
     <1>25, <1>26, <1>27, <1>28, <1>29, <1>30, <1>31 DEF Next, Kernel, Debugger, Command,
     User

(* PTRACE_CONT and PTRACE_SINGLESTEP of a stopped target: it goes on where *)
(* its program is.                                                         *)
LEMMA ResumeExact ==
  ASSUME Types, WaitInv, ExactInv, nx = 0, ~Waiting, NEW how \in {"cont", "step"}, NEW g,
         Resume(how, g)
  PROVE  /\ kern = "stopped" /\ kpc' = real /\ real' = real /\ real \in Addr
         /\ kern' \in {how, "none"} /\ pend' = pend /\ ~ustop'
<1>1. kern = "stopped"
  BY DEF Resume, Types, WaitInv, Running, Waiting
<1>2. (IF stopres = "BPT" THEN restart_pc = real ELSE kpc = real) /\ real \in Addr
  BY <1>1 DEF ExactInv
<1>3. kpc' = (IF stopres = "BPT" THEN restart_pc ELSE kpc) /\ UNCHANGED <<real, pend>>
      /\ kern' \in {how, "none"} /\ ustop' = FALSE
  BY DEF Resume, Report
<1> QED BY <1>1, <1>2, <1>3

(* Every step keeps the pc where the program is. *)
LEMMA ExactNext ==
  ASSUME Types, WaitInv, CallerInv, ListInv, OverInv, ArmedInv, Spaced, ExactInv, Next
  PROVE  ExactInv'
<1> SUFFICES ASSUME nx' = 0
             PROVE  ExactInv'
  BY DEF ExactInv
<1>0. nx = 0
  BY EventsKept
<1>1. CASE Execute
  <2>1. /\ kpc = real /\ real \in Addr /\ ctl = "wait" /\ caller \notin {"exec", "attach"}
        /\ kern \in {"cont", "step"} /\ (kern = "step" => over # NoBp)
    BY <1>0, <1>1 DEF Execute, ExactInv, WaitInv, CallerInv, ArmedInv, Running
  <2>2. CASE t.text[kpc] = BPT
    <3>1. get_breakpoint_at_addr(t, real) # {}
      BY <2>1, <2>2, TextOfIntact, TargetAssumption DEF ListInv, Sound
    <3>2. /\ kpc' = real + 1 /\ kern' = "stopped" /\ status' = "TRAP"
          /\ UNCHANGED <<real, t, pend, ipVars, ctlVars>>
      BY <1>1, <2>1, <2>2 DEF Execute, Report
    <3> QED BY <1>0, <2>1, <3>1, <3>2 DEF ExactInv, Running, Waiting, ipVars, ctlVars
  <2>3. CASE t.text[kpc] # BPT
    <3>1. PICK n \in Succ[kpc] :
            /\ kpc' = n /\ real' = n
            /\ \/ n = Exit /\ kern' = "none"
               \/ n # Exit /\ kern = "cont" /\ UNCHANGED <<kern, status>>
               \/ n # Exit /\ kern = "step" /\ kern' = "stopped" /\ status' = "TRAP"
      BY <1>1, <2>1, <2>3 DEF Execute, Report
    <3>2. n # Exit => n \in Addr
      BY <2>1, TargetAssumption
    <3>3. UNCHANGED <<t, pend, ipVars, ctlVars>>
      BY <1>1 DEF Execute
    <3>4. n # Exit => ~AtBreakpoint'
      <4> SUFFICES ASSUME n \in Addr, AtBreakpoint' PROVE FALSE
        BY <3>2
      <4>1. PICK c \in t.live : t.xp[c] /\ t.addr[c] = n - 1
        BY <3>1, <3>3 DEF AtBreakpoint, get_breakpoint_at_addr
      <4>2. c \in Bp /\ t.addr[c] \in BpAddrs
        BY SoundTypes, TargetAssumption DEF ListInv, Sound, BpAddrs
      <4>3. n = t.addr[c] + 1
        BY <4>1, TargetAssumption
      <4>4. kpc = t.addr[c]
        BY <2>1, <3>1, <4>2, <4>3 DEF Spaced
      <4>5. get_breakpoint_at_addr(t, kpc) # {}
        BY <4>1, <4>4 DEF get_breakpoint_at_addr
      <4> QED BY <2>1, <2>3, <4>5, TextOfIntact, TargetAssumption DEF ListInv, Sound
    <3> QED BY <1>0, <2>1, <3>1, <3>2, <3>3, <3>4 DEF ExactInv, Running, Waiting, ipVars, ctlVars
  <2> QED BY <2>2, <2>3
<1>2. ASSUME NEW s \in Sig \union {"TRAP"}, TakeSignal(s)
      PROVE  ExactInv'
  <2>1. s # "TRAP" /\ s # "none" /\ kpc = real /\ ctl = "wait" /\ caller \notin {"exec", "attach"}
    BY <1>0, <1>2, TargetAssumption DEF TakeSignal, ExactInv, WaitInv, CallerInv, Running
  <2> QED BY <1>0, <1>2, <2>1 DEF TakeSignal, Report, ExactInv, Running, Waiting, ipVars,
       ctlVars, histVars
<1>3. ASSUME NEW s \in Sig, SendSignal(s)
      PROVE  ExactInv'
  BY <1>0, <1>3, TargetAssumption DEF SendSignal, ipVars, ctlVars, ExactInv, Running,
       Waiting, WaitInv, CallerInv, Types, AtBreakpoint
<1>4. CASE Killed
  BY <1>0, <1>4 DEF Killed, Report, ipVars, ctlVars, ExactInv, Running, Waiting, WaitInv,
       CallerInv, Types
<1>5. CASE Reap
  BY <1>0, <1>5 DEF Reap, kernelVars, ipVars, histVars, ExactInv, Running, Waiting,
       WaitInv, CallerInv, Types, AtBreakpoint
<1>6. CASE ptrace_wait_for_target
  <2>1. /\ ctl = "reaped" /\ ctl' \in {"returned", "stepped"} /\ (ctl' = "returned" => over = NoBp)
        /\ UNCHANGED <<kern, kpc, real, caller, over>> /\ pend' \subseteq pend
        /\ press' = FALSE /\ ustop' = (ustop \/ press)
        /\ kern # "none" => /\ stopres' = StopReason
                            /\ restart_pc' = (IF AtBreakpoint THEN kpc - 1 ELSE kpc)
        /\ kern = "none" => stopres' = "DIED" /\ pid' = FALSE
    BY <1>6 DEF ptrace_wait_for_target
  <2>2. ~ustop /\ ~press /\ "TRAP" \notin pend /\ ~press' /\ ~ustop'
    BY <1>0, <2>1 DEF ExactInv
  <2>3. CASE kern = "none"
    BY <1>0, <2>1, <2>2, <2>3 DEF ExactInv, Running, Waiting
  <2>4. CASE kern # "none"
    <3>1. kern = "stopped" /\ real \in Addr /\ status # "none" /\ (caller = "exec" => status = "TRAP")
      BY <1>0, <2>1, <2>4 DEF ExactInv, WaitInv, Running, Waiting, Types
    <3>2. CASE kpc = real /\ (status = "TRAP" => over # NoBp \/ caller = "exec")
      <4>1. stopres' = (IF status # "TRAP" THEN "SIG" ELSE "SSTEP")
        BY <1>0, <2>1, <2>2, <2>4, <3>1, <3>2 DEF StopReason, ExactInv, Waiting
      <4> QED BY <1>0, <2>1, <2>2, <3>1, <3>2, <4>1 DEF ExactInv, Running, Waiting
    <3>3. CASE /\ kpc = real + 1 /\ status = "TRAP" /\ caller \notin {"exec", "attach"}
               /\ get_breakpoint_at_addr(t, real) # {}
      <4>1. kpc - 1 = real
        BY <3>1, <3>3, TargetAssumption
      <4>2. AtBreakpoint
        BY <3>3, <4>1 DEF AtBreakpoint
      <4>3. restart_pc' = real /\ stopres' = "BPT"
        BY <2>1, <2>2, <2>4, <3>3, <4>1, <4>2 DEF StopReason
      <4> QED BY <1>0, <2>1, <2>2, <3>1, <3>3, <4>3 DEF ExactInv, Running, Waiting
    <3> QED BY <1>0, <2>1, <3>1, <3>2, <3>3 DEF ExactInv, Waiting
  <2> QED BY <2>3, <2>4
<1>7. CASE Restart
  <2>1. /\ ctl = "restart" /\ ctl' = "wait" /\ UNCHANGED <<ipVars, caller, press>>
        /\ Resume("cont", sig) \/ Resume("step", sig)
    BY <1>7 DEF Restart
  <2>2. /\ kern = "stopped" /\ kpc' = real /\ real' = real /\ real \in Addr
        /\ kern' \in {"cont", "step", "none"} /\ pend' = pend /\ ~ustop'
    BY <1>0, <2>1, ResumeExact DEF Waiting
  <2> QED BY <1>0, <2>1, <2>2 DEF ExactInv, Running, Waiting, ipVars
<1>8. CASE RestartGone
  BY <1>0, <1>8 DEF RestartGone, kernelVars, ipVars, histVars, ExactInv, Running, Waiting,
       WaitInv, CallerInv, Types
<1>9. CASE ReplaceBreakpoint
  <2>1. /\ ctl = "stepped" /\ UNCHANGED <<ipVars, caller, press>> /\ (ctl' = "panic" => ~pid)
        /\ \/ ctl' \in {"panic", "returned"} /\ UNCHANGED <<ustop, kernelVars>>
           \/ ctl' = "wait" /\ Resume("cont", "none")
        /\ ctl' = "returned" => stopres # "SSTEP"
    BY <1>9, ReplaceCases
  <2>2. caller \notin {"exec", "attach"}
    BY <2>1 DEF CallerInv
  <2>3. CASE ctl' = "wait" /\ Resume("cont", "none")
    <3>1. /\ kern = "stopped" /\ kpc' = real /\ real' = real /\ real \in Addr
          /\ kern' \in {"cont", "none"} /\ pend' = pend /\ ~ustop'
      BY <1>0, <2>1, <2>3, ResumeExact DEF Waiting
    <3> QED BY <1>0, <2>1, <2>3, <3>1 DEF ExactInv, Running, Waiting, ipVars
  <2>4. CASE ctl' \in {"panic", "returned"} /\ UNCHANGED <<ustop, kernelVars>>
    BY <1>0, <2>1, <2>2, <2>4 DEF ExactInv, Running, Waiting, ipVars, kernelVars
  <2> QED BY <2>1, <2>3, <2>4
<1>10. CASE Again
  BY <1>0, <1>10 DEF Again, kernelVars, ipVars, histVars, ExactInv, Running, Waiting,
       WaitInv, CallerInv, Types
<1>11. CASE Attached
  BY <1>0, <1>11 DEF Attached, Back, GoIdle, kernelVars, ipVars, ExactInv, Running,
       Waiting, WaitInv, CallerInv, Types
<1>12. CASE Execed
  BY <1>0, <1>12 DEF Execed, Back, kernelVars, ipVars, histVars, ExactInv, Running,
       Waiting, WaitInv, CallerInv, Types
<1>13. CASE xp_execto
  BY <1>0, <1>13 DEF xp_execto, kernelVars, ipVars, histVars, ExactInv, Running, Waiting,
       WaitInv, CallerInv, Types
<1>14. CASE IgnoreSignal
  BY <1>0, <1>14 DEF IgnoreSignal, Back, kernelVars, ipVars, histVars, ExactInv, Running,
       Waiting, WaitInv, CallerInv, Types
<1>15. CASE AtEntry
  BY <1>0, <1>15 DEF AtEntry, ExecToEnds, Back, kernelVars, histVars, ExactInv, Running,
       Waiting, WaitInv, CallerInv, Types
<1>16. CASE AddLinker
  BY <1>0, <1>16 DEF AddLinker, kernelVars, ipVars, histVars, ExactInv, Running, Waiting,
       WaitInv, CallerInv, Types
<1>17. CASE AtMain
  BY <1>0, <1>17 DEF AtMain, ExecToEnds, Back, kernelVars, histVars, ExactInv, Running,
       Waiting, WaitInv, CallerInv, Types
<1>18. CASE Started
  BY <1>0, <1>18 DEF Started, GoIdle, kernelVars, ipVars, ExactInv, Running, Waiting,
       WaitInv, CallerInv, Types
<1>19. CASE RunLoop
  BY <1>0, <1>19 DEF RunLoop, kernelVars, ipVars, histVars, ExactInv, Running, Waiting,
       WaitInv, CallerInv, Types
<1>20. ASSUME NEW answer \in BOOLEAN, RunOn(answer)
      PROVE  ExactInv'
  BY <1>0, <1>20 DEF RunOn, BackInRun, Back, kernelVars, ExactInv, Running, Waiting,
       WaitInv, CallerInv, Types
<1>21. ASSUME NEW answer \in BOOLEAN, RunEnds(answer)
      PROVE  ExactInv'
  BY <1>0, <1>21 DEF RunEnds, BackInRun, Back, GoIdle, kernelVars, ExactInv, Running,
       Waiting, WaitInv, CallerInv, Types
<1>22. CASE Start
  <2>1. ~AtBreakpoint'
    <3>1. NoTraps(t) /\ Sound(t) /\ t' = FreshText(t)
      BY <1>22 DEF Start, ListInv
    <3>2. NoTraps(t') /\ t'.live \subseteq Bp
      BY <3>1, SoundFresh, SoundTypes
    <3> QED BY <3>2 DEF AtBreakpoint, get_breakpoint_at_addr, NoTraps
  <2> QED BY <1>0, <1>22, <2>1, TargetAssumption DEF Start, Report, ExactInv, Running,
       Waiting, WaitInv, CallerInv, Types
<1>23. CASE Cont
  BY <1>0, <1>23 DEF Cont, kernelVars, ipVars, ExactInv, Running, Waiting, WaitInv,
       CallerInv, Types
<1>24. CASE Kill
  BY <1>0, <1>24 DEF Kill, ctlVars, histVars, ExactInv, Running, Waiting, WaitInv,
       CallerInv, Types
<1>25. CASE Detach
  BY <1>0, <1>25 DEF Detach, ctlVars, ExactInv, Running, Waiting, WaitInv, CallerInv, Types
<1>26. CASE DetachGone
  BY <1>0, <1>26 DEF DetachGone, kernelVars, ipVars, histVars, ExactInv, Running, Waiting,
       WaitInv, CallerInv, Types
<1>27. ASSUME NEW a \in Addr, Attach(a)
      PROVE  ExactInv'
  BY <1>0, <1>27, TargetAssumption DEF Attach, Report, ExactInv, Running, Waiting, WaitInv,
       CallerInv, Types
<1>28. ASSUME NEW b \in UserBp, SetState(b)
      PROVE  ExactInv'
  BY <1>0, <1>28 DEF SetState, kernelVars, ipVars, ctlVars, histVars, ExactInv, Running,
       Waiting, WaitInv, CallerInv, Types
<1>29. ASSUME NEW stop \in BOOLEAN, Interrupt(stop)
      PROVE  ExactInv'
  BY <1>0, <1>29 DEF Interrupt, ipVars, ExactInv, Running, Waiting, WaitInv, CallerInv,
       Types
<1>30. CASE PressStop
  BY <1>0, <1>30 DEF PressStop, kernelVars, ipVars, ExactInv, Running, Waiting, WaitInv,
       CallerInv, Types
<1>31. CASE Panicked
  BY <1>0, <1>31 DEF Panicked, vars, kernelVars, ipVars, ctlVars, histVars, ExactInv,
       Running, Waiting, WaitInv, CallerInv, Types
<1> QED BY <1>1, <1>2, <1>3, <1>4, <1>5, <1>6, <1>7, <1>8, <1>9, <1>10, <1>11, <1>12,
     <1>13, <1>14, <1>15, <1>16, <1>17, <1>18, <1>19, <1>20, <1>21, <1>22, <1>23, <1>24,
     <1>25, <1>26, <1>27, <1>28, <1>29, <1>30, <1>31 DEF Next, Kernel, Debugger, Command,
     User
(* Signals are only ever added. *)
LEMMA SignalsCounted ==
  ASSUME Types, Next, nsig' = 0
  PROVE  nsig = 0
<1> USE DEF Types
<1>1. CASE Execute
  BY <1>1 DEF Execute, Report, ipVars, ctlVars
<1>2. ASSUME NEW s \in Sig \union {"TRAP"}, TakeSignal(s)
      PROVE  nsig = 0
  BY <1>2 DEF TakeSignal, Report, ipVars, ctlVars, histVars
<1>3. ASSUME NEW s \in Sig, SendSignal(s)
      PROVE  nsig = 0
  BY <1>3 DEF SendSignal, ipVars, ctlVars
<1>4. CASE Killed
  BY <1>4 DEF Killed, Report, ipVars, ctlVars
<1>5. CASE Reap
  BY <1>5 DEF Reap, kernelVars, ipVars, histVars
<1>6. CASE ptrace_wait_for_target
  BY <1>6 DEF ptrace_wait_for_target, histVars
<1>7. CASE Restart
  BY <1>7 DEF Restart, Resume, Report, ipVars, histVars
<1>8. CASE RestartGone
  BY <1>8 DEF RestartGone, kernelVars, ipVars, histVars
<1>9. CASE ReplaceBreakpoint
  BY <1>9 DEF ReplaceBreakpoint, Resume, Report, kernelVars, ipVars, histVars
<1>10. CASE Again
  BY <1>10 DEF Again, kernelVars, ipVars, histVars
<1>11. CASE Attached
  BY <1>11 DEF Attached, Back, GoIdle, kernelVars, ipVars
<1>12. CASE Execed
  BY <1>12 DEF Execed, Back, kernelVars, ipVars, histVars
<1>13. CASE xp_execto
  BY <1>13 DEF xp_execto, kernelVars, ipVars, histVars
<1>14. CASE IgnoreSignal
  BY <1>14 DEF IgnoreSignal, Back, kernelVars, ipVars, histVars
<1>15. CASE AtEntry
  BY <1>15 DEF AtEntry, ExecToEnds, Back, kernelVars, histVars
<1>16. CASE AddLinker
  BY <1>16 DEF AddLinker, kernelVars, ipVars, histVars
<1>17. CASE AtMain
  BY <1>17 DEF AtMain, ExecToEnds, Back, kernelVars, histVars
<1>18. CASE Started
  BY <1>18 DEF Started, GoIdle, kernelVars, ipVars
<1>19. CASE RunLoop
  BY <1>19 DEF RunLoop, kernelVars, ipVars, histVars
<1>20. ASSUME NEW answer \in BOOLEAN, RunOn(answer)
      PROVE  nsig = 0
  BY <1>20 DEF RunOn, BackInRun, Back, kernelVars
<1>21. ASSUME NEW answer \in BOOLEAN, RunEnds(answer)
      PROVE  nsig = 0
  BY <1>21 DEF RunEnds, BackInRun, Back, GoIdle, kernelVars
<1>22. CASE Start
  BY <1>22 DEF Start, Report
<1>23. CASE Cont
  BY <1>23 DEF Cont, kernelVars, ipVars
<1>24. CASE Kill
  BY <1>24 DEF Kill, ctlVars, histVars
<1>25. CASE Detach
  BY <1>25 DEF Detach, ctlVars
<1>26. CASE DetachGone
  BY <1>26 DEF DetachGone, kernelVars, ipVars, histVars
<1>27. ASSUME NEW a \in Addr, Attach(a)
      PROVE  nsig = 0
  BY <1>27 DEF Attach, Report
<1>28. ASSUME NEW b \in UserBp, SetState(b)
      PROVE  nsig = 0
  BY <1>28 DEF SetState, kernelVars, ipVars, ctlVars, histVars
<1>29. ASSUME NEW stop \in BOOLEAN, Interrupt(stop)
      PROVE  nsig = 0
  BY <1>29 DEF Interrupt, ipVars
<1>30. CASE PressStop
  BY <1>30 DEF PressStop, kernelVars, ipVars
<1>31. CASE Panicked
  BY <1>31 DEF Panicked, vars, kernelVars, ipVars, ctlVars, histVars
<1> QED BY <1>1, <1>2, <1>3, <1>4, <1>5, <1>6, <1>7, <1>8, <1>9, <1>10, <1>11, <1>12,
     <1>13, <1>14, <1>15, <1>16, <1>17, <1>18, <1>19, <1>20, <1>21, <1>22, <1>23, <1>24,
     <1>25, <1>26, <1>27, <1>28, <1>29, <1>30, <1>31 DEF Next, Kernel, Debugger, Command,
     User

(* Every step keeps what the user and the breakpoints' code were told. *)
LEMMA ToldNext ==
  ASSUME Types, WaitInv, CallerInv, ListInv, OverInv, ArmedInv, ExactInv, ToldInv, Next
  PROVE  ToldInv'
<1> SUFFICES ASSUME Undisturbed'
             PROVE  ToldInv'
  BY DEF ToldInv
<1>0. Undisturbed
  BY EventsKept, SignalsCounted DEF Undisturbed
<1>00. t.live \subseteq Bp
  BY SoundTypes DEF ListInv
<1> USE DEF Undisturbed
<1>1. CASE Execute
  <2>1. ctl = "wait" /\ (kern = "cont" \/ over # NoBp) /\ (kern = "cont" => over = NoBp)
    BY <1>1 DEF Execute, WaitInv, ArmedInv, Running
  <2>2. UNCHANGED <<ctl, caller, over, restart_pc, pid, pend, stopres>>
    BY <1>1 DEF Execute, ipVars, ctlVars
  <2>3. \/ kern' = "stopped" /\ status' = "TRAP"
        \/ kern' = "none"
        \/ kern' = kern /\ kern = "cont"
    <3>1. CASE kpc \in Addr /\ t.text[kpc] = BPT
      BY <1>1, <3>1 DEF Execute, Report
    <3>2. CASE ~(kpc \in Addr /\ t.text[kpc] = BPT)
      BY <1>1, <3>2 DEF Execute, Report
    <3> QED BY <3>1, <3>2
  <2> QED BY <1>0, <2>1, <2>2, <2>3 DEF ToldInv, Running, Waiting
<1>2. ASSUME NEW s \in Sig \union {"TRAP"}, TakeSignal(s)
      PROVE  ToldInv'
  BY <1>0, <1>2 DEF TakeSignal, Report, ipVars, ctlVars, histVars, ToldInv, Running,
       Waiting, WaitInv, CallerInv, Types
<1>3. ASSUME NEW s \in Sig, SendSignal(s)
      PROVE  ToldInv'
  BY <1>0, <1>3 DEF SendSignal, ipVars, ctlVars, ToldInv, Running, Waiting, WaitInv,
       CallerInv, Types
<1>4. CASE Killed
  BY <1>0, <1>4 DEF Killed, Report, ipVars, ctlVars, ToldInv, Running, Waiting, WaitInv,
       CallerInv, Types
<1>5. CASE Reap
  BY <1>0, <1>5 DEF Reap, kernelVars, ipVars, histVars, ToldInv, Running, Waiting, WaitInv,
       CallerInv, Types
<1>6. CASE ptrace_wait_for_target
  <2>1. /\ ctl = "reaped" /\ ctl' \in {"returned", "stepped"} /\ UNCHANGED <<kern, caller>>
        /\ pend' \subseteq pend
        /\ kern # "none" => stopres' = StopReason
        /\ kern = "none" => stopres' = "DIED"
    BY <1>6 DEF ptrace_wait_for_target
  <2>2. kern \in {"none", "stopped"}
    BY <2>1 DEF WaitInv, Running, Types
  <2>3. stopres' = "SIG" => caller = "attach"
    BY <1>0, <2>1, <2>2 DEF StopReason, ToldInv, Waiting
  <2> QED BY <1>0, <2>1, <2>2, <2>3 DEF ToldInv, Running, Waiting
<1>7. CASE Restart
  <2> DEFINE here == get_breakpoint_at_addr(t, restart_pc)
  <2>1. /\ ctl = "restart" /\ ctl' = "wait" /\ UNCHANGED <<pid, caller, restart_pc, stopres, told, pend>>
        /\ kern' \in {"cont", "step", "none"}
        /\ (here = {} => over' = over)
    BY <1>7 DEF Restart, Resume, Report, ipVars, histVars
  <2>2. over = NoBp
    BY <2>1 DEF CallerInv, Waiting
  <2>3. here # {} /\ caller \in {"run", "libs"} => told = restart_pc
    BY <1>0, <2>1 DEF ToldInv, get_breakpoint_at_addr
  <2> QED BY <1>0, <2>1, <2>2, <2>3 DEF ToldInv, Running, Waiting
<1>8. CASE RestartGone
  BY <1>0, <1>8 DEF RestartGone, kernelVars, ipVars, histVars, ToldInv, Running, Waiting,
       WaitInv, CallerInv, Types
<1>9. CASE ReplaceBreakpoint
  <2>1. /\ ctl = "stepped" /\ over' = NoBp /\ UNCHANGED <<ipVars, caller, histVars>>
        /\ pend' = pend
        /\ \/ ctl' \in {"panic", "returned"}
           \/ ctl' = "wait" /\ kern' \in {"cont", "none"}
    BY <1>9, ReplaceCases DEF Resume, Report, kernelVars
  <2>2. stopres # "SIG" \/ ctl' # "returned"
    BY <1>0, <2>1 DEF ToldInv, CallerInv
  <2> QED BY <1>0, <2>1, <2>2 DEF ToldInv, Running, Waiting, ipVars, histVars
<1>10. CASE Again
  BY <1>0, <1>10 DEF Again, kernelVars, ipVars, histVars, PassOn, ToldInv, Running,
       Waiting, WaitInv, CallerInv, Types
<1>11. CASE Attached
  BY <1>0, <1>11 DEF Attached, Back, GoIdle, kernelVars, ipVars, ToldInv, Running, Waiting,
       WaitInv, CallerInv, Types
<1>12. CASE Execed
  BY <1>0, <1>12 DEF Execed, Back, kernelVars, ipVars, histVars, ToldInv, Running, Waiting,
       WaitInv, CallerInv, Types
<1>13. CASE xp_execto
  BY <1>0, <1>13 DEF xp_execto, kernelVars, ipVars, histVars, ToldInv, Running, Waiting,
       WaitInv, CallerInv, Types
<1>14. CASE IgnoreSignal
  BY <1>0, <1>14 DEF IgnoreSignal, Back, kernelVars, ipVars, histVars, ToldInv, Running,
       Waiting, WaitInv, CallerInv, Types
<1>15. CASE AtEntry
  BY <1>0, <1>15 DEF AtEntry, ExecToEnds, Back, kernelVars, histVars, ToldInv, Running,
       Waiting, WaitInv, CallerInv, Types
<1>16. CASE AddLinker
  BY <1>0, <1>16 DEF AddLinker, kernelVars, ipVars, histVars, ToldInv, Running, Waiting,
       WaitInv, CallerInv, Types
<1>17. CASE AtMain
  BY <1>0, <1>17 DEF AtMain, ExecToEnds, Back, kernelVars, histVars, ToldInv, Running,
       Waiting, WaitInv, CallerInv, Types
<1>18. CASE Started
  <2>1. /\ ctl = "created" /\ caller' = "run" /\ ctl' \in {"idle", "panic", "loop"}
        /\ UNCHANGED <<kernelVars, ipVars, over>> /\ ~Running
        /\ ctl' = "idle" => told' = restart_pc
        /\ ctl' = "loop" => /\ t' = install_all_breakpoints(t)
                            /\ get_breakpoint_at_addr(t', restart_pc) = {}
    BY <1>18 DEF Started, GoIdle, WaitInv
  <2>2. CASE ctl' # "loop"
    BY <1>0, <2>1, <2>2 DEF ToldInv, Running, Waiting, kernelVars, ipVars
  <2>3. CASE ctl' = "loop"
    <3> DEFINE y == install_all_breakpoints(t)
    <3>0. Sound(t) /\ TempBp \notin t.live
      BY <2>1 DEF ListInv, StepPoints
    <3>1. /\ y.live = t.live /\ y.addr = t.addr
          /\ \A c \in Bp : UserDisabled(y, c) = UserDisabled(t, c)
          /\ \A c \in t.live : y.xp[c] <=> t.xp[c] \/ ~UserDisabled(t, c)
      BY <3>0, SoundInstallAll
    <3>2. t' = y /\ get_breakpoint_at_addr(y, restart_pc) = {}
      BY <2>1, <2>3
    <3> HIDE DEF y
    <3>3. \A b \in y.live : y.addr[b] = restart_pc => ~y.xp[b] /\ UserDisabled(y, b)
      BY <1>00, <3>1, <3>2 DEF get_breakpoint_at_addr
    <3> QED BY <1>0, <2>1, <2>3, <3>2, <3>3 DEF ToldInv, Running, Waiting, kernelVars,
         ipVars
  <2> QED BY <2>2, <2>3
<1>19. CASE RunLoop
  <2> DEFINE y == install_all_breakpoints(t)
  <2>1. /\ ctl = "loop" /\ ctl' = "restart" /\ t' = y /\ ~Running
        /\ caller \in {"run", "libs"} /\ TempBp \notin t.live /\ Sound(t)
        /\ UNCHANGED <<kernelVars, ipVars, caller, over, told>>
    BY <1>19 DEF RunLoop, CallerInv, WaitInv, ListInv, histVars
  <2>2. /\ y.live = t.live /\ y.addr = t.addr
        /\ \A c \in Bp : UserDisabled(y, c) = UserDisabled(t, c)
        /\ \A c \in t.live : y.xp[c] <=> t.xp[c] \/ ~UserDisabled(t, c)
    BY <2>1, SoundInstallAll
  <2> HIDE DEF y
  <2>3. \/ told = restart_pc
        \/ \A b \in y.live : y.addr[b] = restart_pc => ~y.xp[b] /\ UserDisabled(y, b)
    BY <1>0, <1>00, <2>1, <2>2 DEF ToldInv
  <2> QED BY <1>0, <2>1, <2>3 DEF ToldInv, Running, Waiting, kernelVars, ipVars
<1>20. ASSUME NEW answer \in BOOLEAN, RunOn(answer)
      PROVE  ToldInv'
  BY <1>0, <1>20 DEF RunOn, BackInRun, Back, kernelVars, Stops, ExactInv, ToldInv, Running,
       Waiting, WaitInv, CallerInv, Types
<1>21. ASSUME NEW answer \in BOOLEAN, RunEnds(answer)
      PROVE  ToldInv'
  BY <1>0, <1>21 DEF RunEnds, BackInRun, Back, GoIdle, kernelVars, ExactInv, ToldInv,
       Running, Waiting, WaitInv, CallerInv, Types
<1>22. CASE Start
  BY <1>0, <1>22 DEF Start, Report, ToldInv, Running, Waiting, WaitInv, CallerInv, Types
<1>23. CASE Cont
  BY <1>0, <1>23 DEF Cont, kernelVars, ipVars, ToldInv, Running, Waiting, WaitInv,
       CallerInv, Types
<1>24. CASE Kill
  BY <1>0, <1>24 DEF Kill, ctlVars, histVars, ToldInv, Running, Waiting, WaitInv,
       CallerInv, Types
<1>25. CASE Detach
  BY <1>0, <1>25 DEF Detach, ctlVars, ToldInv, Running, Waiting, WaitInv, CallerInv, Types
<1>26. CASE DetachGone
  BY <1>0, <1>26 DEF DetachGone, kernelVars, ipVars, histVars, ToldInv, Running, Waiting,
       WaitInv, CallerInv, Types
<1>27. ASSUME NEW a \in Addr, Attach(a)
      PROVE  ToldInv'
  BY <1>0, <1>27 DEF Attach, Report, ToldInv, Running, Waiting, WaitInv, CallerInv, Types
<1>28. ASSUME NEW b \in UserBp, SetState(b)
      PROVE  ToldInv'
  BY <1>0, <1>28 DEF SetState, kernelVars, ipVars, ctlVars, histVars, ToldInv, Running,
       Waiting, WaitInv, CallerInv, Types
<1>29. ASSUME NEW stop \in BOOLEAN, Interrupt(stop)
      PROVE  ToldInv'
  BY <1>0, <1>29 DEF Interrupt, ipVars, ToldInv, Running, Waiting, WaitInv, CallerInv, Types
<1>30. CASE PressStop
  BY <1>0, <1>30 DEF PressStop, kernelVars, ipVars, ToldInv, Running, Waiting, WaitInv,
       CallerInv, Types
<1>31. CASE Panicked
  BY <1>0, <1>31 DEF Panicked, vars, kernelVars, ipVars, ctlVars, histVars, ToldInv,
       Running, Waiting, WaitInv, CallerInv, Types
<1> QED BY <1>1, <1>2, <1>3, <1>4, <1>5, <1>6, <1>7, <1>8, <1>9, <1>10, <1>11, <1>12,
     <1>13, <1>14, <1>15, <1>16, <1>17, <1>18, <1>19, <1>20, <1>21, <1>22, <1>23, <1>24,
     <1>25, <1>26, <1>27, <1>28, <1>29, <1>30, <1>31 DEF Next, Kernel, Debugger, Command,
     User
-----------------------------------------------------------------------------
(* The theorems. *)

(* The first list of a session is sound. *)
LEMMA InvInit == Init => Inv /\ ExactInv /\ ToldInv
<1> SUFFICES ASSUME Init PROVE Inv /\ ExactInv /\ ToldInv
  OBVIOUS
<1>1. PICK S \in SUBSET UserBp : \E where \in [S -> UserAddrs], off \in SUBSET S :
        /\ \A b, c \in S : where[b] = where[c] => b = c
        /\ t = SessionList(S, {}, where, off, TRUE)
  BY DEF Init
<1>2. PICK where \in [S -> UserAddrs], off \in SUBSET S :
        /\ \A b, c \in S : where[b] = where[c] => b = c
        /\ t = SessionList(S, {}, where, off, TRUE)
  BY <1>1
<1>3. S \in SUBSET Bp /\ off \in SUBSET Bp /\ where \in [S -> Addr]
      /\ LinkerBp \notin S /\ TempBp \notin S
  BY TargetAssumption
<1>4. {} \in SUBSET (Bp \X Bp) /\ TRUE \in BOOLEAN
  OBVIOUS
<1>5. Begun(t, S, where, off, TRUE)
  BY <1>2, <1>3, <1>4, SessionIntact
<1>6. /\ Intact(t) /\ t.live = S
      /\ \A b \in Bp : ~t.xp[b] /\ (t.enabled[b] <=> b \in S)
      /\ \A b \in S : t.addr[b] = where[b]
  BY <1>5 DEF Begun
<1>7. Sound(t)
  <2>1. \A b, c \in S : where[b] = where[c] => b = c
    BY <1>2
  <2> QED BY <1>3, <1>6, <2>1 DEF Sound
<1>8. ListInv
  BY <1>3, <1>6, <1>7 DEF ListInv, NoTraps, Init, StepPoints
<1>9. Types
  <2>1. /\ pid \in BOOLEAN /\ attached \in BOOLEAN /\ hit_solib \in BOOLEAN
        /\ ustop \in BOOLEAN /\ press \in BOOLEAN
    BY Zenon DEF Init
  <2> QED BY <2>1, TargetAssumption DEF Types, Init, Points, Callers
<1>10. WaitInv /\ CallerInv /\ OverInv /\ ArmedInv
  BY DEF WaitInv, CallerInv, OverInv, ArmedInv, Init, Running, Waiting, StepPoints
<1>11. ExactInv /\ ToldInv
  BY DEF ExactInv, ToldInv, Init, Running, Waiting
<1> QED BY <1>8, <1>9, <1>10, <1>11 DEF Inv

(* A stuttering step changes nothing. *)
LEMMA InvStutters ==
  ASSUME UNCHANGED vars
  PROVE  /\ Inv => Inv'
         /\ ExactInv /\ ToldInv => ExactInv' /\ ToldInv'
<1> USE DEF vars, kernelVars, ipVars, ctlVars, histVars
<1>1. Types => Types'
  BY DEF Types
<1>2. WaitInv /\ CallerInv => WaitInv' /\ CallerInv'
  BY DEF WaitInv, CallerInv, Running, Waiting
<1>3. ListInv => ListInv'
  BY DEF ListInv, OwnTraps
<1>4. OverInv /\ ArmedInv => OverInv' /\ ArmedInv'
  BY DEF OverInv, ArmedInv, Running
<1>5. ExactInv /\ ToldInv => ExactInv' /\ ToldInv'
  BY DEF ExactInv, ToldInv, Undisturbed, Running, Waiting, AtBreakpoint
<1> QED BY <1>1, <1>2, <1>3, <1>4, <1>5 DEF Inv

(* The invariant holds of every session. *)
LEMMA TargetInvariant == Spec => []Inv
<1>1. Init => Inv
  BY InvInit
<1>2. Inv /\ [Next]_vars => Inv'
  <2> SUFFICES ASSUME Inv, [Next]_vars PROVE Inv'
    OBVIOUS
  <2>1. CASE Next
    BY <2>1, TypesNext, WaitNext, CallerNext, TableNext DEF Inv
  <2>2. CASE UNCHANGED vars
    BY <2>2, InvStutters
  <2> QED BY <2>1, <2>2
<1> QED BY <1>1, <1>2, PTL DEF Spec

(* And with it, of a program without such an ambiguity, that the           *)
(* undisturbed runs are exact.                                             *)
LEMMA ExactInvariant == Spaced /\ Spec => []ExactlyInv
<1>1. Spaced /\ Init => ExactlyInv
  BY InvInit DEF ExactlyInv
<1>2. ExactlyInv /\ [Next]_vars => ExactlyInv'
  <2> SUFFICES ASSUME ExactlyInv, [Next]_vars PROVE ExactlyInv'
    OBVIOUS
  <2>1. Spaced'
    BY DEF ExactlyInv, Spaced
  <2>2. CASE Next
    <3>1. Types /\ WaitInv /\ CallerInv /\ ListInv /\ OverInv /\ ArmedInv
          /\ Spaced /\ ExactInv /\ ToldInv
      BY DEF ExactlyInv, Inv
    <3>2. Inv'
      BY <2>2, <3>1, TypesNext, WaitNext, CallerNext, TableNext DEF Inv
    <3>3. ExactInv'
      BY <2>2, <3>1, ExactNext
    <3>4. ToldInv'
      BY <2>2, <3>1, ToldNext
    <3> QED BY <2>1, <3>2, <3>3, <3>4 DEF ExactlyInv
  <2>3. CASE UNCHANGED vars
    BY <2>1, <2>3, InvStutters DEF ExactlyInv
  <2> QED BY <2>2, <2>3
<1> QED BY <1>1, <1>2, PTL DEF Spec

(* Every variable keeps to its type, whatever the target and the user do:  *)
(* no stop leaves a restart pc, a signal to restart with or a breakpoint   *)
(* to step over that is none.                                              *)
THEOREM TargetTypeCorrect == Spec => []TypeOK
<1>1. Inv => TypeOK
  <2> SUFFICES ASSUME Inv PROVE TypeOK
    OBVIOUS
  <2>1. Types /\ t \in Tables
    BY SoundTypes DEF Inv, ListInv
  <2> QED BY <2>1 DEF TypeOK, Types
<1> QED BY <1>1, TargetInvariant, PTL

(* xp_execto's breakpoint never outlives it, even when the target died or  *)
(* was stopped on its way to main.                                         *)
THEOREM TemporaryRemoved == Spec => []NoTemporaryLeft
<1>1. Inv => NoTemporaryLeft
  BY DEF Inv, ListInv, NoTemporaryLeft, StepPoints
<1> QED BY <1>1, TargetInvariant, PTL

(* A stop at a trap is always one of a breakpoint of the list, and the     *)
(* text has no other traps: "bpt botch in rt" is never reached.            *)
THEOREM NoForeignTraps == Spec => []TrapsAccountedFor
<1>1. Inv => TrapsAccountedFor
  <2> SUFFICES ASSUME Inv PROVE TrapsAccountedFor
    OBVIOUS
  <2>1. ASSUME NEW a \in Addr
        PROVE  t.text[a] = BPT <=> \E b \in t.live : t.xp[b] /\ t.addr[b] = a
    <3>1. Intact(t) /\ Late = {}
      BY TargetAssumption DEF Inv, ListInv, Sound
    <3>2. t.text[a] = BPT <=> get_breakpoint_at_addr(t, a) # {}
      BY <3>1, TextOfIntact
    <3> QED BY <3>2 DEF get_breakpoint_at_addr
  <2>2. ctl = "returned" /\ stopres = "BPT" => get_breakpoint_at_addr(t, restart_pc) # {}
    BY DEF Inv, OverInv
  <2> QED BY <2>1, <2>2 DEF TrapsAccountedFor
<1> QED BY <1>1, TargetInvariant, PTL

(* While the target runs for Cont every breakpoint that is not disabled is *)
(* in its text, but for the one it is single-stepped over.                 *)
THEOREM AlwaysArmed == Spec => []BreakpointsArmed
<1>1. Inv => BreakpointsArmed
  <2> SUFFICES ASSUME Inv, Running, caller \in {"run", "libs"}, NEW b \in t.live,
                      ~UserDisabled(t, b), ~t.xp[b]
               PROVE  kern = "step" /\ over = b /\ t.addr[b] = restart_pc
    BY DEF BreakpointsArmed
  <2>1. ctl = "wait" /\ pid /\ b \in Bp
    BY SoundTypes DEF Inv, WaitInv, Running, ListInv
  <2>2. b = over /\ over # NoBp
    BY <2>1, TargetAssumption DEF Inv, ArmedInv, StepPoints
  <2> QED BY <2>2 DEF Inv, ArmedInv
<1> QED BY <1>1, TargetInvariant, PTL

(* Without X events no stop, signal, step over a breakpoint or restart     *)
(* makes the program skip, repeat or split an instruction, and the         *)
(* debugger panics over a dead target or a fatal signal only; without      *)
(* signals no breakpoint is missed.  For any program that gets to an       *)
(* instruction behind a breakpoint of one byte from that one only.         *)
THEOREM RunsExact == Spaced /\ Spec => []UndisturbedRunsExact
<1>1. ExactlyInv => UndisturbedRunsExact
  <2> SUFFICES ASSUME ExactlyInv PROVE UndisturbedRunsExact
    OBVIOUS
  <2>1. ASSUME nx = 0
        PROVE  /\ PanicOnlyWhenGone \/ (stopres = "SIG" /\ lastsig \in FatalSig)
               /\ ExecutesProgram
    BY <2>1 DEF ExactlyInv, ExactInv, PanicOnlyWhenGone, ExecutesProgram
  <2>2. ASSUME nx = 0, nsig = 0 PROVE NoMissedBreakpoint
    <3> SUFFICES ASSUME Running, caller \in {"run", "libs"}, kpc \in Addr, t.text[kpc] # BPT,
                        NEW b \in t.live, t.addr[b] = kpc, ~UserDisabled(t, b)
                 PROVE  told = kpc
      BY DEF NoMissedBreakpoint
    <3>1. ctl = "wait" /\ pid /\ b \in Bp /\ Intact(t) /\ Late = {}
      BY SoundTypes, TargetAssumption DEF ExactlyInv, Inv, WaitInv, Running, ListInv
    <3>2. ~t.xp[b]
      <4>1. get_breakpoint_at_addr(t, kpc) = {}
        BY <3>1, TextOfIntact
      <4> QED BY <4>1 DEF get_breakpoint_at_addr
    <3>3. b = over /\ over # NoBp
      BY <3>1, <3>2, TargetAssumption DEF ExactlyInv, Inv, ArmedInv, StepPoints
    <3>4. kpc = restart_pc
      BY <3>3 DEF ExactlyInv, Inv, ArmedInv
    <3> QED BY <2>2, <3>3, <3>4 DEF ExactlyInv, ToldInv, Undisturbed
  <2> QED BY <2>1, <2>2 DEF UndisturbedRunsExact
<1> QED BY <1>1, ExactInvariant, PTL
=============================================================================
