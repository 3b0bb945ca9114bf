----------------------------- MODULE CallsProofs -----------------------------
(***************************************************************************)
(* The safety invariants of Calls, for every program, every set of         *)
(* breakpoints and signals and every bound.                                *)
(*                                                                         *)
(* The table is followed in two ways.  Whatever happens it stays Sound:    *)
(* the marks agree and a trap is in the text wherever one counts as        *)
(* installed, but at the breakpoint that is being stepped over.  Until a   *)
(* target dies in a call it is Intact as well, and beside the user's       *)
(* breakpoints holds that of the call at most.  The calls themselves are   *)
(* followed by the stack: a function called runs until it is back at the   *)
(* address it was to return to, and there is a trap.                       *)
(***************************************************************************)
EXTENDS Calls, TableProofs

Frames == [ret : Addr, own : BOOLEAN]

Regs == [pc : Addr, stack : Seq(Frames), own : BOOLEAN]

CallLocals ==
  [origin : Origins \union {"none"}, addr : Addr, retpc : Addr, saved : Regs,
   bp : CallBp \union {NoBp}, failed : BOOLEAN]

Histories ==
  [short : SUBSET BOOLEAN, lost : BOOLEAN, covered : BOOLEAN, failed : BOOLEAN,
   leaked : BOOLEAN, asked : BOOLEAN, beaten : BOOLEAN]

Types ==
  /\ alive \in BOOLEAN /\ regs \in Regs /\ ptrap \in BOOLEAN /\ wps \in {"off", "on", "step"}
  /\ restart_pc \in Addr /\ stopres \in {"BPT", "SSTEP", "SIG", "USER", "DIED"}
  /\ lastsig \in Sig \union {"none"} /\ sig \in Sig \union {"none"}
  /\ attrs \in [Sig -> SUBSET {"CONT", "ACCEPT"}]
  /\ ctl \in Points /\ rtype \in {"CONT", "STEP"} /\ arrived \in {"BPT", "SSTEP"}
  /\ over \in Bp \union {NoBp} /\ call \in CallLocals
  /\ due \subseteq Sig /\ hist \in Histories
  /\ nev \in Nat /\ nproc \in Nat

(* What holds of the list even when a breakpoint was left behind in it.    *)
Sound(x) ==
  /\ x \in Tables /\ MarksAgree(x) /\ Ordered(x) /\ x.mapped = Addr
  /\ \A b \in x.live : x.enabled[b] /\ ~UserDisabled(x, b)

(* A trap is in the text for every breakpoint that counts as installed,    *)
(* but at the addresses of A.                                              *)
TrapsIn(x, A) == \A b \in Bp : x.xp[b] /\ x.addr[b] \notin A => x.text[x.addr[b]] = BPT

SteppingOver == ctl = "step" /\ over # NoBp
SteppedOver == IF SteppingOver THEN {t.addr[over]} ELSE {}

(* The list, whatever happened. *)
ListInv ==
  /\ Sound(t)
  /\ ctl \notin {"astray", "wild"} => TrapsIn(t, SteppedOver)
  /\ SteppingOver => over \in t.live /\ ~t.xp[over]

(* A process that died left no trap behind. *)
DeadInv ==
  ~alive => /\ stopres = "DIED" /\ ctl \in {"idle", "returned", "called", "code", "leave"}
            /\ \A b \in Bp : ~t.xp[b]

(* The breakpoint of a call. *)
CallBpInv ==
  /\ ctl \notin {"call", "called", "astray", "wild"} => call.bp = NoBp
  /\ call.bp # NoBp =>
       /\ call.bp \in t.live
       /\ \A b \in Bp : t.xp[b] /\ t.addr[b] = t.addr[call.bp] => b = call.bp
  /\ ctl = "call" => get_breakpoint_at_addr(t, call.retpc) # {}

(* The list, until a target died in a call. *)
Unleaked ==
  /\ Intact(t)
  /\ t.live \subseteq UserBp \union {call.bp}
  /\ \A b, c \in t.live \intersect UserBp : t.addr[b] = t.addr[c] => b = c
  /\ ctl # "wild"

(* The function called has not returned: above its return address there    *)
(* are frames of what it called, and it and they are functions it can      *)
(* reach.                                                                  *)
InFunction ==
  LET n == Len(call.saved.stack)
  IN  /\ Len(regs.stack) > n /\ regs.stack[n + 1].ret = call.retpc /\ regs.own
      /\ \A i \in n + 2 .. Len(regs.stack) : regs.stack[i].own
      /\ \A S \in ClosedSets : Func[call.addr] \in S =>
           /\ Func[regs.pc] \in S
           /\ \A i \in n + 2 .. Len(regs.stack) : Func[regs.stack[i].ret] \in S

(* It has, and is at its trap. *)
HasReturned == Len(regs.stack) = Len(call.saved.stack) /\ regs.pc = call.retpc

CallInv ==
  /\ ctl \in {"call", "called"} => InFunction \/ HasReturned
  /\ ctl = "called" /\ stopres = "BPT" => restart_pc = regs.pc
  /\ FALSE \notin hist.short

(* The registers, until a call failed: they are the program's own, and     *)
(* will be after every return.                                             *)
AllOwn(r) == r.own /\ \A i \in 1 .. Len(r.stack) : r.stack[i].own

Unfailed ==
  /\ ctl # "astray"
  /\ AllOwn(IF ctl \in {"call", "called"} THEN call.saved ELSE regs)

(* Signals, until a call was made with one of them due. *)
Uncovered ==
  /\ due \subseteq {lastsig}
  /\ Running \/ ~alive => due = {}
  /\ ctl = "restart" => \A s \in due : accept_signal(s) => sig = s
  /\ ~hist.lost

(* ip_lastsig is a signal that is due, in any case. *)
LastSigDue ==
  /\ ~Running /\ ctl \notin {"astray", "wild"} => lastsig \in due \union {"none"}
  /\ ctl = "called" /\ stopres = "BPT" => lastsig = "none"

(* What a stop means to the code of a breakpoint. *)
StopInv ==
  /\ ctl \in {"returned", "called", "code"} /\ stopres = "USER" => hist.asked
  /\ ctl = "code" /\ stopres \notin {"BPT", "SSTEP"} => call.failed
  /\ ctl \in {"call", "called"} => call.origin \in Origins

TableInv == ListInv /\ DeadInv /\ CallBpInv /\ (~hist.leaked => Unleaked)

StackInv == CallInv /\ (~hist.failed => Unfailed) /\ (hist.leaked => hist.failed)

SignalInv ==
  /\ ~hist.covered => Uncovered
  /\ LastSigDue /\ SignalsNotRepeated /\ StopInv /\ PanicOnlyOnStop

Inv == Types /\ TableInv /\ StackInv /\ SignalInv

(* Nothing is noted about calls. *)
SameFaults(h, g) ==
  /\ g \in Histories
  /\ g.short = h.short /\ g.failed = h.failed /\ g.leaked = h.leaked /\ g.lost = h.lost
-----------------------------------------------------------------------------
(* What the operations on the list do to a sound one. *)

(* Its fields, and what its marks say of a trap. *)
LEMMA SoundTypes ==
  ASSUME NEW x, Sound(x)
  PROVE  /\ x \in Tables /\ x.live \subseteq Bp /\ x.addr \in [Bp -> Addr]
         /\ x.xp \in [Bp -> BOOLEAN] /\ x.text \in [Addr -> Code]
         /\ \A b \in Bp : x.xp[b] => b \in x.live /\ x.installed[b] /\ x.enabled[b]
BY DEF Sound, Tables, MarksAgree

(* install_breakpoint puts the one trap in that may be missing. *)
LEMMA SoundInstall ==
  ASSUME NEW x, Sound(x), NEW b \in x.live, TrapsIn(x, {x.addr[b]})
  PROVE  LET y == install_breakpoint(x, b, FALSE)
         IN  /\ Sound(y) /\ SameList(x, y) /\ TrapsIn(y, {}) /\ y.xp[b]
             /\ \A c \in Bp \ {b} : y.xp[c] = x.xp[c]
<1> DEFINE y == install_breakpoint(x, b, FALSE)
<1>0. x \in Tables /\ b \in Bp /\ x.mapped = Addr /\ x.addr[b] \in Addr /\ x.enabled[b] /\ ~UserDisabled(x, b)
      /\ x.live \subseteq Bp /\ x.text \in [Addr -> Code] /\ x.addr \in [Bp -> Addr]
  BY SoundTypes DEF Sound
<1>1. /\ y \in Tables /\ SameList(x, y) /\ y.enabled = x.enabled
      /\ y.xp[b] /\ y.installed[b]
      /\ \A c \in Bp \ {b} : y.xp[c] = x.xp[c] /\ y.installed[c] = x.installed[c]
      /\ y.text = [x.text EXCEPT ![x.addr[b]] = BPT]
  BY <1>0, InstallFields
<1> HIDE DEF y
<1>2. y.live = x.live /\ y.addr = x.addr /\ y.mapped = x.mapped
  BY <1>1 DEF SameList
<1>3. MarksAgree(y)
  BY <1>0, <1>1, <1>2 DEF MarksAgree, Sound
<1>4. Ordered(y) /\ \A c \in Bp : UserDisabled(y, c) = UserDisabled(x, c)
  BY <1>1, SameListKeeps DEF Sound
<1>5. Sound(y)
  BY <1>0, <1>1, <1>2, <1>3, <1>4 DEF Sound
<1>6. TrapsIn(y, {})
  BY <1>0, <1>1, <1>2 DEF TrapsIn
<1> QED BY <1>1, <1>5, <1>6 DEF y

(* uninstall_breakpoint takes one trap out, even when another breakpoint   *)
(* counts as installed at its address.                                     *)
LEMMA SoundUninstall ==
  ASSUME NEW x, Sound(x), NEW b \in x.live, x.xp[b], TrapsIn(x, {})
  PROVE  LET y == uninstall_breakpoint(x, b)
         IN  /\ Sound(y) /\ SameList(x, y) /\ TrapsIn(y, {y.addr[b]}) /\ ~y.xp[b]
             /\ \A c \in Bp \ {b} : y.xp[c] = x.xp[c]
             /\ \A a \in Addr \ {x.addr[b]} : y.text[a] = x.text[a]
<1> DEFINE y == uninstall_breakpoint(x, b)
<1>0. x \in Tables /\ b \in Bp /\ x.mapped = Addr /\ x.addr[b] \in Addr /\ x.enabled[b]
      /\ x.live \subseteq Bp /\ x.text \in [Addr -> Code] /\ x.addr \in [Bp -> Addr]
  BY SoundTypes DEF Sound
<1>1. /\ y \in Tables /\ SameList(x, y) /\ y.enabled = x.enabled
      /\ ~y.xp[b] /\ ~y.installed[b]
      /\ \A c \in Bp \ {b} : y.xp[c] = x.xp[c] /\ y.installed[c] = x.installed[c]
      /\ y.text = [x.text EXCEPT ![x.addr[b]] = x.code[b]]
  BY <1>0, UninstallFields
<1> HIDE DEF y
<1>2. y.live = x.live /\ y.addr = x.addr /\ y.mapped = x.mapped
  BY <1>1 DEF SameList
<1>3. MarksAgree(y)
  BY <1>0, <1>1, <1>2 DEF MarksAgree, Sound
<1>4. Ordered(y) /\ \A c \in Bp : UserDisabled(y, c) = UserDisabled(x, c)
  BY <1>1, SameListKeeps DEF Sound
<1>5. Sound(y)
  BY <1>0, <1>1, <1>2, <1>3, <1>4 DEF Sound
<1>6. TrapsIn(y, {y.addr[b]})
  BY <1>0, <1>1, <1>2 DEF TrapsIn
<1> QED BY <1>0, <1>1, <1>5, <1>6 DEF y

(* install_all_breakpoints writes a trap for every breakpoint it marks. *)
LEMMA SoundInstallAll ==
  ASSUME NEW x, Sound(x), TrapsIn(x, {})
  PROVE  LET y == install_all_breakpoints(x)
         IN  Sound(y) /\ SameList(x, y) /\ TrapsIn(y, {})
<1> DEFINE y == install_all_breakpoints(x)
           Todo == {b \in x.live : ~x.xp[b] /\ ~UserDisabled(x, b)}
           S == {b \in Todo : x.enabled[b]}
<1>0. /\ x \in Tables /\ x.mapped = Addr /\ x.live \subseteq Bp /\ x.text \in [Addr -> Code]
      /\ x.addr \in [Bp -> Addr]
  BY SoundTypes DEF Sound
<1>1. /\ y \in Tables /\ SameList(x, y) /\ y.enabled = x.enabled
      /\ y.text = SwapInSet(x, S).text
      /\ \A b \in Bp : y.xp[b] <=> x.xp[b] \/ (b \in Todo /\ x.enabled[b])
      /\ \A b \in Bp : y.installed[b] <=> x.installed[b] \/ b \in Todo
  BY <1>0, InstallAllFields
<1>2. \A a \in Addr : SwapInSet(x, S).text[a] = IF \E b \in S : x.addr[b] = a THEN BPT ELSE x.text[a]
  BY <1>0 DEF SwapInSet, Tables
<1> HIDE DEF y
<1>3. y.live = x.live /\ y.addr = x.addr /\ y.mapped = x.mapped
  BY <1>1 DEF SameList
<1>4. MarksAgree(y)
  BY <1>0, <1>1, <1>3 DEF MarksAgree, Sound
<1>5. Ordered(y) /\ \A c \in Bp : UserDisabled(y, c) = UserDisabled(x, c)
  BY <1>1, SameListKeeps DEF Sound
<1>6. Sound(y)
  BY <1>0, <1>1, <1>3, <1>4, <1>5 DEF Sound
<1>7. TrapsIn(y, {})
  <2> SUFFICES ASSUME NEW b \in Bp, y.xp[b]
               PROVE  y.text[y.addr[b]] = BPT
    BY DEF TrapsIn
  <2>1. y.text[y.addr[b]] = IF \E c \in S : x.addr[c] = x.addr[b] THEN BPT ELSE x.text[x.addr[b]]
    BY <1>0, <1>1, <1>2, <1>3
  <2>2. CASE x.xp[b]
    BY <2>1, <2>2 DEF TrapsIn
  <2>3. CASE b \in S
    BY <2>1, <2>3
  <2> QED BY <1>1, <2>2, <2>3
<1> QED BY <1>1, <1>6, <1>7 DEF y

(* After uninstall_all_breakpoints none is installed. *)
LEMMA SoundUninstallAll ==
  ASSUME NEW x, Sound(x)
  PROVE  LET y == uninstall_all_breakpoints(x)
         IN  Sound(y) /\ SameList(x, y) /\ \A b \in Bp : ~y.xp[b]
<1> DEFINE y == uninstall_all_breakpoints(x)
<1>0. /\ x \in Tables /\ x.mapped = Addr /\ x.live \subseteq Bp /\ x.enabled \in [Bp -> BOOLEAN]
      /\ \A b \in Bp : x.xp[b] => b \in x.live /\ x.installed[b] /\ x.enabled[b]
  BY SoundTypes, TableTypes DEF Sound
<1>2. /\ y \in Tables /\ SameList(x, y) /\ y.enabled = x.enabled
      /\ \A b \in Bp : y.xp[b] <=> x.xp[b] /\ ~(b \in x.live /\ x.enabled[b])
      /\ \A b \in Bp : y.installed[b] <=> x.installed[b] /\ ~(b \in x.live /\ x.xp[b])
  BY <1>0, UninstallAllFields DEF Sound
<1> HIDE DEF y
<1>3. \A b \in Bp : ~y.xp[b]
  BY <1>0, <1>2
<1>4. y.live = x.live /\ y.addr = x.addr /\ y.mapped = x.mapped
  BY <1>2 DEF SameList
<1>5. MarksAgree(y)
  BY <1>0, <1>2, <1>3, <1>4 DEF MarksAgree, Sound
<1>6. Ordered(y) /\ \A c \in Bp : UserDisabled(y, c) = UserDisabled(x, c)
  BY <1>2, SameListKeeps DEF Sound
<1>7. Sound(y)
  BY <1>0, <1>2, <1>4, <1>5, <1>6 DEF Sound
<1> QED BY <1>2, <1>3, <1>7 DEF y

(* SR_DIED: nothing is installed any more. *)
LEMMA SoundGone ==
  ASSUME NEW x, Sound(x)
  PROVE  LET y == FreshText(mark_breakpoints_as_uninstalled(x))
         IN  /\ Sound(y) /\ y.live = x.live /\ y.addr = x.addr
             /\ \A b \in Bp : ~y.xp[b]
<1> DEFINE y == FreshText(mark_breakpoints_as_uninstalled(x))
<1>0. /\ x \in Tables /\ x.live \subseteq Bp
      /\ \A b \in Bp : x.xp[b] => b \in x.live /\ x.installed[b]
  BY SoundTypes
<1>1. /\ y \in Tables /\ y.enabled = x.enabled /\ y.mapped = Addr \ Late
      /\ y.live = x.live /\ y.before = x.before /\ y.addr = x.addr /\ y.user = x.user
      /\ y.inactive = x.inactive /\ y.global = x.global
      /\ \A b \in Bp : y.xp[b] <=> x.xp[b] /\ ~(b \in x.live /\ x.installed[b])
      /\ \A b \in Bp : y.installed[b] <=> x.installed[b] /\ b \notin x.live
  BY <1>0, GoneFields
<1> HIDE DEF y
<1>2. \A b \in Bp : ~y.xp[b]
  BY <1>0, <1>1
<1>3. MarksAgree(y)
  BY <1>0, <1>1, <1>2 DEF MarksAgree, Sound
<1>4. Ordered(y)
  BY <1>1 DEF Sound, Ordered
<1>5. Sound(y)
  BY <1>0, <1>1, <1>3, <1>4, CallsAssumption DEF Sound, UserDisabled
<1> QED BY <1>1, <1>2, <1>5 DEF y

(* A new process gets its traps. *)
LEMMA SoundFresh ==
  ASSUME NEW x, Sound(x), \A b \in Bp : ~x.xp[b]
  PROVE  LET y == FreshText(x)
         IN  Sound(y) /\ y.live = x.live /\ y.addr = x.addr /\ TrapsIn(y, {})
<1> DEFINE y == FreshText(x)
<1>1. /\ y \in Tables /\ y.enabled = x.enabled /\ y.mapped = Addr \ Late
      /\ y.live = x.live /\ y.before = x.before /\ y.addr = x.addr /\ y.user = x.user
      /\ y.inactive = x.inactive /\ y.global = x.global /\ y.xp = x.xp /\ y.installed = x.installed
  BY SoundTypes, FreshFields
<1> HIDE DEF y
<1>2. MarksAgree(y) /\ Ordered(y)
  BY <1>1 DEF MarksAgree, Sound, Ordered
<1>3. Sound(y)
  BY <1>1, <1>2, CallsAssumption DEF Sound, UserDisabled
<1>4. TrapsIn(y, {})
  BY <1>1 DEF TrapsIn
<1> QED BY <1>1, <1>3, <1>4 DEF y

(* The breakpoint of a call is added and installed. *)
LEMMA SoundCall ==
  ASSUME NEW x, Sound(x), TrapsIn(x, {}), NEW b \in Bp, b \notin x.live, NEW a \in Addr,
         get_breakpoint_at_addr(x, a) = {}
  PROVE  LET y == install_breakpoint(dx_add_breakpoint(x, b, a, NoCode, "none"), b, FALSE)
         IN  /\ Sound(y) /\ TrapsIn(y, {}) /\ y.live = x.live \union {b}
             /\ y.xp[b] /\ y.addr[b] = a
             /\ \A c \in Bp \ {b} : y.xp[c] = x.xp[c] /\ y.addr[c] = x.addr[c]
             /\ Intact(x) => Intact(y)
<1> DEFINE w == dx_add_breakpoint(x, b, a, NoCode, "none")
           y == install_breakpoint(w, b, FALSE)
<1>0. /\ x \in Tables /\ x.live \subseteq Bp /\ NoCode \in Code /\ x.mapped = Addr
      /\ \A c \in Bp : x.xp[c] => c \in x.live
  BY SoundTypes, NoTypes DEF Sound
<1>1. /\ w \in Tables /\ w.live = x.live \union {b} /\ w.text = x.text /\ w.mapped = x.mapped
      /\ w.global = x.global
      /\ ~w.xp[b] /\ ~w.installed[b] /\ w.enabled[b] /\ w.addr[b] = a /\ ~w.user[b]
      /\ \A c \in Bp \ {b} :
           /\ w.xp[c] = x.xp[c] /\ w.installed[c] = x.installed[c] /\ w.enabled[c] = x.enabled[c]
           /\ w.addr[c] = x.addr[c] /\ w.user[c] = x.user[c] /\ w.inactive[c] = x.inactive[c]
  BY <1>0, AddFields
<1>2. Ordered(w)
  BY <1>0, AddOrdered DEF Sound
<1>3. Intact(x) => Intact(w)
  BY <1>0, AddIntact
<1> HIDE DEF w
<1>4. MarksAgree(w)
  BY <1>0, <1>1 DEF MarksAgree, Sound
<1>5. Sound(w)
  BY <1>0, <1>1, <1>2, <1>4 DEF Sound, UserDisabled
<1>6. TrapsIn(w, {w.addr[b]})
  BY <1>0, <1>1 DEF TrapsIn
<1>7. /\ Sound(y) /\ SameList(w, y) /\ TrapsIn(y, {}) /\ y.xp[b]
      /\ \A c \in Bp \ {b} : y.xp[c] = w.xp[c]
  BY <1>1, <1>5, <1>6, SoundInstall
<1>8. \A c \in Bp : w.xp[c] => w.addr[c] # w.addr[b]
  BY <1>0, <1>1 DEF get_breakpoint_at_addr
<1>9. Intact(w) => Intact(y)
  BY <1>1, <1>8, InstallIntact
<1> HIDE DEF y
<1>10. y.live = w.live /\ y.addr = w.addr
  BY <1>7 DEF SameList
<1> QED BY <1>1, <1>3, <1>7, <1>9, <1>10 DEF w, y

(* It goes again. *)
LEMMA SoundRemove ==
  ASSUME NEW x, Sound(x), TrapsIn(x, {}), NEW b \in x.live,
         \A c \in Bp : x.xp[c] /\ x.addr[c] = x.addr[b] => c = b
  PROVE  LET y == dx_remove_breakpoint(x, b)
         IN  /\ Sound(y) /\ TrapsIn(y, {}) /\ y.live = x.live \ {b} /\ ~y.xp[b]
             /\ \A c \in Bp \ {b} : y.xp[c] = x.xp[c] /\ y.addr[c] = x.addr[c]
<1> DEFINE u == IF x.xp[b] THEN uninstall_breakpoint(x, b) ELSE x
           y == dx_remove_breakpoint(x, b)
<1>0. /\ x \in Tables /\ x.live \subseteq Bp /\ b \in Bp /\ x.mapped = Addr
      /\ x.addr \in [Bp -> Addr]
  BY SoundTypes DEF Sound
<1>1. /\ u \in Tables
      /\ \A a \in Addr : a # x.addr[b] => u.text[a] = x.text[a]
      /\ ~x.xp[b] => u.text = x.text
  <2>1. CASE x.xp[b]
    <3>1. u = uninstall_breakpoint(x, b)
      BY <2>1
    <3>2. /\ Sound(uninstall_breakpoint(x, b))
          /\ \A a \in Addr \ {x.addr[b]} : uninstall_breakpoint(x, b).text[a] = x.text[a]
      BY <2>1, SoundUninstall
    <3>3. u \in Tables /\ \A a \in Addr \ {x.addr[b]} : u.text[a] = x.text[a]
      BY <3>1, <3>2 DEF Sound
    <3> QED BY <2>1, <3>3
  <2>2. CASE ~x.xp[b]
    BY <1>0, <2>2
  <2> QED BY <2>1, <2>2
<1>2. y.text = u.text
  BY <1>0, <1>1, UnlinkFields DEF dx_remove_breakpoint
<1>3. /\ y \in Tables /\ y.live = x.live \ {b} /\ y.mapped = x.mapped /\ y.global = x.global
      /\ ~y.xp[b] /\ ~y.installed[b]
      /\ \A c \in Bp \ {b} :
           /\ y.xp[c] = x.xp[c] /\ y.installed[c] = x.installed[c] /\ y.enabled[c] = x.enabled[c]
           /\ y.addr[c] = x.addr[c] /\ y.user[c] = x.user[c] /\ y.inactive[c] = x.inactive[c]
  BY <1>0, RemoveFields
<1>4. Ordered(y)
  BY <1>0, RemoveOrdered DEF Sound
<1> HIDE DEF u, y
<1>5. MarksAgree(y)
  BY <1>0, <1>3 DEF MarksAgree, Sound
<1>6. Sound(y)
  BY <1>0, <1>3, <1>4, <1>5 DEF Sound, UserDisabled
<1>7. TrapsIn(y, {})
  BY <1>0, <1>1, <1>2, <1>3 DEF TrapsIn
<1> QED BY <1>3, <1>6, <1>7 DEF y
-----------------------------------------------------------------------------
(* What the steps do to the list. *)

(* Without the breakpoint of a call, each breakpoint has its own address. *)
LEMMA NoCallBp ==
  ASSUME Unleaked, Sound(t), call.bp = NoBp
  PROVE  OneEach(t) /\ t.live \subseteq UserBp
<1>1. t.live \subseteq Bp
  BY SoundTypes
<1>2. t.live \subseteq UserBp
  BY <1>1, CallsAssumption DEF Unleaked
<1> QED BY <1>2 DEF Unleaked, OneEach

(* Where the callers of ao_call_func go on: in the loop only when the call *)
(* worked.                                                                 *)
LEMMA AfterCallValues ==
  ASSUME NEW who \in Origins, NEW worked
  PROVE  /\ AfterCall(who, worked) \in {"code", "idle", "loop", "leave"}
         /\ ~worked => AfterCall(who, worked) \in {"code", "idle", "leave"}
         /\ AfterCall(who, worked) = "code" <=> who = "code"
         /\ WpsAfter(who, worked) \in {"off", "on", "step", wps}
BY DEF Origins, AfterCall, WpsAfter

(* What a call, a command or a stop adds to the history. *)
LEMMA HistFields ==
  ASSUME hist \in Histories
  PROVE  /\ SameFaults(hist, NewCommand) /\ NewCommand.covered = hist.covered
         /\ \A h \in {hist, NewCommand} :
              /\ SameFaults(hist, Covering(h)) /\ Covering(h).asked = h.asked
              /\ Covering(h).covered <=> hist.covered \/ due # {}
         /\ \A beat \in BOOLEAN :
              LET g == [hist EXCEPT !.asked = TRUE, !.beaten = beat]
              IN  SameFaults(hist, g) /\ g.asked /\ g.covered = hist.covered
<1>1. SameFaults(hist, NewCommand) /\ NewCommand.covered = hist.covered
  BY DEF SameFaults, NewCommand, Histories
<1>2. ASSUME NEW h \in Histories
      PROVE  /\ SameFaults(h, Covering(h)) /\ Covering(h).asked = h.asked
             /\ Covering(h).covered <=> h.covered \/ due # {}
  BY DEF SameFaults, Covering, Histories
<1>3. \A beat \in BOOLEAN :
        LET g == [hist EXCEPT !.asked = TRUE, !.beaten = beat]
        IN  SameFaults(hist, g) /\ g.asked /\ g.covered = hist.covered
  BY DEF SameFaults, Histories
<1> QED BY <1>1, <1>2, <1>3 DEF SameFaults

(* A step that leaves list and process alone and is not one of a call. *)
LEMMA KeptTable ==
  ASSUME TableInv, UNCHANGED <<t, alive, stopres>>, hist'.leaked = hist.leaked,
         ctl \notin {"step", "call", "called", "astray", "wild"},
         ctl' \in {"idle", "loop", "restart", "code", "check", "leave", "panic"},
         call'.bp = NoBp,
         ~alive => ctl' \in {"idle", "code", "leave"}
  PROVE  TableInv'
<1>1. call.bp = NoBp
  BY DEF TableInv, CallBpInv
<1>2. ListInv'
  BY DEF TableInv, ListInv, SteppedOver, SteppingOver
<1>3. DeadInv'
  BY DEF TableInv, DeadInv
<1>4. CallBpInv'
  BY DEF CallBpInv
<1>5. ~hist'.leaked => Unleaked'
  BY <1>1 DEF TableInv, Unleaked
<1> QED BY <1>2, <1>3, <1>4, <1>5 DEF TableInv

(* The breakpoint stepped over is put back. *)
LEMMA PutBackKeeps ==
  ASSUME TableInv, Running
  PROVE  /\ Sound(PutBack) /\ SameList(t, PutBack) /\ TrapsIn(PutBack, {})
         /\ ctl = "call" => PutBack = t
         /\ ~hist.leaked => Intact(PutBack)
<1>0. Sound(t) /\ TrapsIn(t, SteppedOver) /\ (SteppingOver => over \in t.live /\ ~t.xp[over])
  BY DEF TableInv, ListInv, Running
<1>1. CASE ~SteppingOver
  <2>1. PutBack = t /\ SteppedOver = {}
    BY <1>1 DEF PutBack, SteppingOver, SteppedOver
  <2> QED BY <1>0, <2>1 DEF SameList, TableInv, Unleaked
<1>2. CASE SteppingOver
  <2>1. PutBack = install_breakpoint(t, over, FALSE) /\ SteppedOver = {t.addr[over]} /\ ctl # "call"
    BY <1>2 DEF PutBack, SteppingOver, SteppedOver
  <2>2. Sound(PutBack) /\ SameList(t, PutBack) /\ TrapsIn(PutBack, {})
    BY <1>0, <1>2, <2>1, SoundInstall
  <2>3. ASSUME ~hist.leaked
        PROVE  Intact(PutBack)
    <3>1. call.bp = NoBp /\ Unleaked
      BY <1>2, <2>3 DEF TableInv, CallBpInv, SteppingOver
    <3>2. OneEach(t) /\ Intact(t)
      BY <1>0, <3>1, NoCallBp DEF Unleaked
    <3>3. \A c \in Bp : t.xp[c] => t.addr[c] # t.addr[over]
      BY <1>0, <1>2, <3>2, SoundTypes DEF OneEach
    <3> QED BY <1>0, <1>2, <2>1, <3>2, <3>3, InstallIntact
  <2> QED BY <2>1, <2>2, <2>3
<1> QED BY <1>1, <1>2

(* The process goes on, or stops, with every trap in. *)
LEMMA StopsTable ==
  ASSUME TableInv, Running, t' = PutBack, alive' = alive, call' = call,
         hist'.leaked = hist.leaked,
         \/ ctl = "call" /\ ctl' = "called"
         \/ ctl # "call" /\ ctl' \in {"returned", "cont"}
  PROVE  TableInv'
<1>1. /\ Sound(t') /\ SameList(t, t') /\ TrapsIn(t', {}) /\ (ctl = "call" => t' = t)
      /\ (~hist.leaked => Intact(t'))
  BY PutBackKeeps
<1>2. t'.live = t.live /\ t'.addr = t.addr
  BY <1>1 DEF SameList
<1>3. ListInv'
  BY <1>1 DEF ListInv, SteppedOver, SteppingOver
<1>4. DeadInv'
  BY DEF TableInv, DeadInv, Running
<1>5. CallBpInv'
  BY <1>1 DEF TableInv, CallBpInv, Running
<1>6. ~hist'.leaked => Unleaked'
  BY <1>1, <1>2 DEF TableInv, Unleaked
<1> QED BY <1>3, <1>4, <1>5, <1>6 DEF TableInv

(* The process dies. *)
LEMMA DiesTable ==
  ASSUME TableInv, Running \/ ctl = "restart", Dies, call' = call, hist'.leaked = hist.leaked
  PROVE  TableInv'
<1>0. Sound(t) /\ t' = FreshText(mark_breakpoints_as_uninstalled(t))
  BY DEF TableInv, ListInv, Dies
<1>1. Sound(t') /\ t'.live = t.live /\ t'.addr = t.addr /\ \A b \in Bp : ~t'.xp[b]
  BY <1>0, SoundGone
<1>2. Intact(t) => Intact(t')
  BY <1>0, GoneIntact
<1>3. ctl' \in {"called", "returned"} /\ (ctl' = "called" <=> ctl = "call")
  BY DEF Dies
<1>4. ListInv'
  BY <1>1, <1>3 DEF ListInv, TrapsIn, SteppedOver, SteppingOver
<1>5. DeadInv'
  BY <1>1, <1>3 DEF DeadInv, Dies
<1>6. CallBpInv'
  BY <1>1, <1>3 DEF TableInv, CallBpInv, Running
<1>7. ~hist'.leaked => Unleaked'
  BY <1>1, <1>2, <1>3 DEF TableInv, Unleaked
<1> QED BY <1>4, <1>5, <1>6, <1>7 DEF TableInv

(* One instruction. *)
LEMMA ExecuteTable ==
  ASSUME Types, TableInv, Execute
  PROVE  TableInv'
<1>0. /\ Running /\ UNCHANGED <<call, hist>> /\ regs.pc \in Addr /\ ctl \in {"step", "cont", "call"}
      /\ Sound(t)
  BY DEF Execute, Types, Regs, Running, TableInv, ListInv
<1>1. CASE t.text[regs.pc] = BPT
  <2>1. CASE get_breakpoint_at_addr(t, regs.pc) # {}
    <3>1. Stops("BPT", "none")
      BY <1>1, <2>1 DEF Execute
    <3> QED BY <1>0, <3>1, StopsTable DEF Stops
  <2>2. CASE get_breakpoint_at_addr(t, regs.pc) = {}
    <3>1. ctl' = "wild" /\ UNCHANGED <<t, alive, stopres, over>>
      BY <1>1, <2>2 DEF Execute
    <3>2. hist.leaked
      BY <1>0, <1>1, <2>2, TextOfIntact, CallsAssumption DEF TableInv, Unleaked
    <3>3. ListInv' /\ DeadInv' /\ CallBpInv'
      BY <1>0, <3>1 DEF TableInv, ListInv, DeadInv, CallBpInv, SteppingOver
    <3> QED BY <1>0, <3>2, <3>3 DEF TableInv
  <2> QED BY <2>1, <2>2
<1>2. CASE t.text[regs.pc] # BPT /\ ~regs.own
  <2>1. ctl' = "astray" /\ UNCHANGED <<t, alive, stopres, over>>
    BY <1>2 DEF Execute, ip
  <2> QED BY <1>0, <2>1 DEF TableInv, ListInv, DeadInv, CallBpInv, SteppingOver, Unleaked
<1>3. CASE t.text[regs.pc] # BPT /\ regs.own /\ ctl = "step"
  <2>1. t' = PutBack /\ alive' = alive /\ ctl' \in {"returned", "cont"}
    BY <1>3 DEF Execute, Stepped, Stops
  <2> QED BY <1>0, <1>3, <2>1, StopsTable
<1>4. CASE t.text[regs.pc] # BPT /\ regs.own /\ ctl # "step"
  <2>1. UNCHANGED <<t, alive, stopres, ctl, over>>
    BY <1>4 DEF Execute, ip
  <2> QED BY <1>0, <1>4, <2>1
        DEF TableInv, ListInv, DeadInv, CallBpInv, SteppingOver, SteppedOver, Unleaked
<1> QED BY <1>1, <1>2, <1>3, <1>4

(* ao_restart_child_internal: the process dies of its signal, or the       *)
(* breakpoint it is at is taken out for a step.                            *)
LEMMA RestartTable ==
  ASSUME Types, TableInv, Restart
  PROVE  TableInv'
<1>0. /\ ctl = "restart" /\ call' = call /\ hist'.leaked = hist.leaked /\ Sound(t) /\ TrapsIn(t, {})
      /\ call.bp = NoBp /\ restart_pc \in Addr
  BY DEF Restart, NoteSignals, Types, Histories, TableInv, ListInv, CallBpInv, SteppedOver, SteppingOver
<1>1. CASE Deadly(sig)
  BY <1>0, <1>1, DiesTable DEF Restart
<1>2. CASE ~Deadly(sig) /\ get_breakpoint_at_addr(t, restart_pc) = {}
  <2>1. over' = NoBp /\ t' = t /\ ctl' \in {"cont", "step"} /\ UNCHANGED <<alive, stopres>>
    BY <1>2 DEF Restart, ip
  <2>2. ListInv'
    BY <1>0, <2>1 DEF ListInv, SteppingOver, SteppedOver
  <2>3. DeadInv' /\ CallBpInv' /\ (~hist'.leaked => Unleaked')
    BY <1>0, <2>1 DEF TableInv, DeadInv, CallBpInv, Unleaked
  <2> QED BY <2>2, <2>3 DEF TableInv
<1>3. CASE ~Deadly(sig) /\ get_breakpoint_at_addr(t, restart_pc) # {}
  <2> DEFINE b == FirstOf(t, get_breakpoint_at_addr(t, restart_pc))
  <2>1. over' = b /\ t' = uninstall_breakpoint(t, b) /\ ctl' = "step" /\ UNCHANGED <<alive, stopres>>
    BY <1>3 DEF Restart, ip
  <2>2. b \in t.live /\ b \in Bp /\ t.xp[b]
    BY <1>0, <1>3, FirstInstalled DEF Sound
  <2> HIDE DEF b
  <2>3. /\ Sound(t') /\ SameList(t, t') /\ TrapsIn(t', {t'.addr[b]}) /\ ~t'.xp[b]
    BY <1>0, <2>1, <2>2, SoundUninstall
  <2>4. Intact(t) => Intact(t')
    BY <2>1, <2>2, UninstallIntact
  <2>5. t'.live = t.live /\ t'.addr = t.addr
    BY <2>3 DEF SameList
  <2>6. b # NoBp
    BY <2>2, CallsAssumption
  <2>7. ListInv'
    BY <2>1, <2>2, <2>3, <2>5, <2>6 DEF ListInv, SteppingOver, SteppedOver
  <2>8. DeadInv' /\ CallBpInv' /\ (~hist'.leaked => Unleaked')
    BY <1>0, <2>1, <2>4, <2>5 DEF TableInv, DeadInv, CallBpInv, Unleaked
  <2> QED BY <2>7, <2>8 DEF TableInv
<1> QED BY <1>1, <1>2, <1>3

(* ao_call_func adds its breakpoint where no trap is. *)
LEMMA CallTable ==
  ASSUME Types, TableInv, ctl \in {"idle", "code", "returned", "check", "leave"}, alive,
         NEW who \in Origins, NEW a \in Addr, ao_call_func(who, a), hist'.leaked = hist.leaked
  PROVE  TableInv'
<1>0. /\ Sound(t) /\ TrapsIn(t, {}) /\ call.bp = NoBp /\ restart_pc \in Addr
      /\ UNCHANGED <<alive, stopres>> /\ \A b \in Bp : t.xp[b] => b \in t.live
  BY SoundTypes
     DEF Types, TableInv, ListInv, DeadInv, CallBpInv, SteppedOver, SteppingOver, ao_call_func, ip
<1>1. CASE /\ call' = [NoCall EXCEPT !.failed = who = "code"]
           /\ ctl' = AfterCall(who, FALSE)
           /\ UNCHANGED <<t, regs>>
  <2>1. call'.bp = NoBp /\ ctl' \in {"idle", "code", "leave"}
    BY <1>1, AfterCallValues DEF NoCall
  <2> QED BY <1>0, <1>1, <2>1, KeptTable
<1>2. CASE /\ get_breakpoint_at_addr(t, restart_pc) # {}
           /\ call' = [origin |-> who, addr |-> a, retpc |-> restart_pc, saved |-> regs,
                        bp |-> NoBp, failed |-> FALSE]
           /\ UNCHANGED t /\ ctl' = "call"
  <2>1. call'.bp = NoBp /\ call'.retpc = restart_pc
    BY <1>2
  <2>2. ListInv'
    BY <1>0, <1>2 DEF ListInv, SteppingOver, SteppedOver
  <2>3. DeadInv' /\ CallBpInv' /\ (~hist'.leaked => Unleaked')
    BY <1>0, <1>2, <2>1 DEF TableInv, DeadInv, CallBpInv, Unleaked
  <2> QED BY <2>2, <2>3 DEF TableInv
<1>3. CASE /\ get_breakpoint_at_addr(t, restart_pc) = {}
           /\ CallBp \ t.live # {}
           /\ LET b == CHOOSE c \in CallBp \ t.live : TRUE
              IN  /\ call' = [origin |-> who, addr |-> a, retpc |-> restart_pc, saved |-> regs,
                              bp |-> b, failed |-> FALSE]
                  /\ t' = install_breakpoint(
                            dx_add_breakpoint(t, b, restart_pc, NoCode, "none"), b, FALSE)
           /\ ctl' = "call"
  <2> DEFINE b == CHOOSE c \in CallBp \ t.live : TRUE
  <2>1. b \in CallBp /\ b \notin t.live /\ b \in Bp /\ b \notin UserBp /\ b # NoBp
    BY <1>3, CallsAssumption
  <2>2. t' = install_breakpoint(dx_add_breakpoint(t, b, restart_pc, NoCode, "none"), b, FALSE)
    BY <1>3
  <2>3. call'.bp = b /\ call'.retpc = restart_pc
    BY <1>3
  <2>0. get_breakpoint_at_addr(t, restart_pc) = {} /\ ctl' = "call"
    BY <1>3
  <2> HIDE DEF b
  <2>4. /\ Sound(t') /\ TrapsIn(t', {}) /\ t'.live = t.live \union {b}
        /\ t'.xp[b] /\ t'.addr[b] = restart_pc
        /\ \A c \in Bp \ {b} : t'.xp[c] = t.xp[c] /\ t'.addr[c] = t.addr[c]
        /\ Intact(t) => Intact(t')
    <3> DEFINE y == install_breakpoint(dx_add_breakpoint(t, b, restart_pc, NoCode, "none"), b, FALSE)
    <3>1. /\ Sound(y) /\ TrapsIn(y, {}) /\ y.live = t.live \union {b}
          /\ y.xp[b] /\ y.addr[b] = restart_pc
          /\ \A c \in Bp \ {b} : y.xp[c] = t.xp[c] /\ y.addr[c] = t.addr[c]
          /\ Intact(t) => Intact(y)
      BY <1>0, <2>0, <2>1, SoundCall
    <3>2. t' = y
      BY <2>2
    <3> HIDE DEF y
    <3> QED BY <3>1, <3>2
  <2>5. ListInv'
    BY <2>0, <2>4 DEF ListInv, SteppingOver, SteppedOver
  <2>6. DeadInv'
    BY <1>0 DEF DeadInv
  <2>7. get_breakpoint_at_addr(t', restart_pc) # {}
    BY <2>1, <2>4 DEF get_breakpoint_at_addr
  <2>8. \A c \in Bp : t'.xp[c] /\ t'.addr[c] = t'.addr[b] => c = b
    BY <1>0, <2>0, <2>1, <2>4 DEF get_breakpoint_at_addr
  <2>9. CallBpInv'
    BY <2>0, <2>3, <2>4, <2>7, <2>8 DEF CallBpInv
  <2>10. ASSUME ~hist'.leaked
         PROVE  Unleaked'
    <3>1. Unleaked /\ t.live \subseteq UserBp
      BY <1>0, <2>10, NoCallBp DEF TableInv
    <3>2. \A c \in UserBp : c \in Bp \ {b}
      BY <2>1, CallsAssumption
    <3> QED BY <2>0, <2>3, <2>4, <3>1, <3>2 DEF Unleaked
  <2> QED BY <2>5, <2>6, <2>9, <2>10 DEF TableInv
<1> QED BY <1>1, <1>2, <1>3 DEF ao_call_func

(* When the call is over its breakpoint goes, unless the target died. *)
LEMMA EndCallTable ==
  ASSUME Types, TableInv, StopInv, EndCall
  PROVE  TableInv'
<1>0. /\ ctl = "called" /\ Sound(t) /\ TrapsIn(t, {}) /\ t' = WithoutCallBp
      /\ UNCHANGED <<alive, stopres>>
      /\ call.bp # NoBp =>
           /\ call.bp \in t.live /\ call.bp \in Bp /\ call.bp \notin UserBp
           /\ \A b \in Bp : t.xp[b] /\ t.addr[b] = t.addr[call.bp] => b = call.bp
  BY CallsAssumption
     DEF Types, CallLocals, TableInv, ListInv, CallBpInv, SteppedOver, SteppingOver, EndCall
<1>1. /\ call'.bp = NoBp /\ ctl' \in {"code", "loop", "idle", "leave"}
      /\ ~alive => ctl' \in {"code", "idle", "leave"}
  <2>1. call'.bp = NoBp /\ ctl' = AfterCall(call.origin, CameBack) /\ call.origin \in Origins
    BY <1>0 DEF EndCall, NoCall, StopInv
  <2>2. ~alive => ~CameBack
    BY DEF CameBack, TableInv, DeadInv
  <2> QED BY <2>1, <2>2, AfterCallValues
<1>2. ~hist'.leaked => ~hist.leaked /\ ~(stopres = "DIED" /\ call.bp # NoBp)
  BY DEF EndCall, CameBack, Types, Histories
<1>3. CASE stopres = "DIED" \/ call.bp = NoBp
  <2>1. t' = t
    BY <1>0, <1>3 DEF WithoutCallBp
  <2>2. ListInv' /\ DeadInv' /\ CallBpInv'
    BY <1>0, <1>1, <2>1 DEF TableInv, ListInv, DeadInv, CallBpInv, SteppedOver, SteppingOver
  <2>3. ~hist'.leaked => Unleaked'
    BY <1>1, <1>2, <1>3, <2>1 DEF TableInv, Unleaked
  <2> QED BY <2>2, <2>3 DEF TableInv
<1>4. CASE stopres # "DIED" /\ call.bp # NoBp
  <2>1. t' = dx_remove_breakpoint(t, call.bp)
    BY <1>0, <1>4 DEF WithoutCallBp
  <2>2. /\ Sound(t') /\ TrapsIn(t', {}) /\ t'.live = t.live \ {call.bp}
        /\ \A c \in Bp \ {call.bp} : t'.xp[c] = t.xp[c] /\ t'.addr[c] = t.addr[c]
    BY <1>0, <1>4, <2>1, SoundRemove
  <2>3. Intact(t) => Intact(t')
    BY <1>0, <1>4, <2>1, RemoveIntact
  <2>4. alive
    BY <1>4 DEF TableInv, DeadInv
  <2>5. ListInv' /\ DeadInv' /\ CallBpInv'
    BY <1>0, <1>1, <2>2, <2>4 DEF ListInv, DeadInv, CallBpInv, SteppedOver, SteppingOver
  <2>6. UserBp \subseteq Bp \ {call.bp}
    BY <1>0, <1>4, CallsAssumption
  <2>7. ~hist'.leaked => Unleaked'
    BY <1>1, <1>2, <2>2, <2>3, <2>6 DEF TableInv, Unleaked
  <2> QED BY <2>5, <2>7 DEF TableInv
<1> QED BY <1>3, <1>4

(* A new process gets the traps of the list. *)
LEMMA StartTable ==
  ASSUME TableInv, Start
  PROVE  TableInv'
<1> DEFINE x == FreshText(t)
<1>0. /\ ctl = "idle" /\ ~alive /\ alive' /\ t' = install_all_breakpoints(x)
      /\ UNCHANGED <<ctl, over, call, hist>> /\ Sound(t) /\ call.bp = NoBp /\ \A b \in Bp : ~t.xp[b]
  BY DEF Start, TableInv, ListInv, DeadInv, CallBpInv
<1>1. Sound(x) /\ x.live = t.live /\ x.addr = t.addr /\ TrapsIn(x, {})
  BY <1>0, SoundFresh
<1>2. Intact(t) => Intact(x)
  BY <1>0, FreshIntact
<1> HIDE DEF x
<1>3. Sound(t') /\ SameList(x, t') /\ TrapsIn(t', {})
  BY <1>0, <1>1, SoundInstallAll
<1>4. t'.live = t.live /\ t'.addr = t.addr
  BY <1>1, <1>3 DEF SameList
<1>5. ListInv' /\ DeadInv' /\ CallBpInv'
  BY <1>0, <1>3 DEF ListInv, DeadInv, CallBpInv, SteppedOver, SteppingOver
<1>6. ASSUME ~hist'.leaked
      PROVE  Unleaked'
  <2>1. Unleaked /\ OneEach(t)
    BY <1>0, <1>6, NoCallBp DEF TableInv
  <2>2. OneEach(x) /\ Intact(x)
    BY <1>1, <1>2, <2>1 DEF OneEach, Unleaked
  <2>3. Intact(t')
    BY <1>0, <2>2, InstallAllIntact
  <2> QED BY <1>0, <1>4, <2>1, <2>3 DEF Unleaked
<1> QED BY <1>5, <1>6 DEF TableInv

(* The loop of dx_run_target_ss puts all traps in, or takes them all out. *)
LEMMA RunLoopTable ==
  ASSUME TableInv, RunLoop
  PROVE  TableInv'
<1>0. /\ ctl = "loop" /\ ctl' = "restart" /\ UNCHANGED <<alive, stopres, over, call, hist>>
      /\ Sound(t) /\ TrapsIn(t, {}) /\ call.bp = NoBp /\ alive
  BY DEF RunLoop, ip, TableInv, ListInv, DeadInv, CallBpInv, SteppedOver, SteppingOver
<1>1. /\ Sound(t') /\ SameList(t, t') /\ TrapsIn(t', {})
      /\ (Intact(t) /\ OneEach(t) => Intact(t'))
  <2>1. CASE Continuing
    BY <1>0, <2>1, SoundInstallAll, InstallAllIntact DEF RunLoop
  <2>2. CASE ~Continuing
    <3>1. t' = uninstall_all_breakpoints(t)
      BY <2>2 DEF RunLoop
    <3>2. Sound(t') /\ SameList(t, t') /\ \A b \in Bp : ~t'.xp[b]
      BY <1>0, <3>1, SoundUninstallAll
    <3>3. Intact(t) => Intact(t')
      BY <3>1, UninstallAllIntact
    <3>4. TrapsIn(t', {})
      BY <3>2 DEF TrapsIn
    <3> QED BY <3>2, <3>3, <3>4
  <2> QED BY <2>1, <2>2
<1>2. t'.live = t.live /\ t'.addr = t.addr
  BY <1>1 DEF SameList
<1>3. ListInv' /\ DeadInv' /\ CallBpInv'
  BY <1>0, <1>1 DEF ListInv, DeadInv, CallBpInv, SteppedOver, SteppingOver
<1>4. ASSUME ~hist'.leaked
      PROVE  Unleaked'
  <2>1. Unleaked /\ OneEach(t)
    BY <1>0, <1>4, NoCallBp DEF TableInv
  <2> QED BY <1>0, <1>1, <1>2, <2>1 DEF Unleaked
<1> QED BY <1>3, <1>4 DEF TableInv
-----------------------------------------------------------------------------
(* Types. *)

(* What locals and registers start from. *)
LEMMA StartTypes ==
  /\ Fresh \in Regs /\ NoCall \in CallLocals /\ NoCall.bp = NoBp /\ NoCall.origin = "none"
  /\ NoHist \in Histories /\ NoBp \notin Bp /\ UserBp \subseteq Bp /\ CallBp \subseteq Bp
  /\ Callable \subseteq Addr /\ Mprotect \in Addr /\ Entry \in Addr
<1>1. /\ NoBp \notin Bp /\ UserBp \subseteq Bp /\ CallBp \subseteq Bp
      /\ Callable \subseteq Addr /\ Mprotect \in Addr /\ Entry \in Addr
  BY CallsAssumption
<1>2. Fresh \in Regs
  BY <1>1 DEF Fresh, Regs
<1>3. NoCall \in CallLocals /\ NoCall.bp = NoBp /\ NoCall.origin = "none"
  BY <1>1, <1>2 DEF NoCall, CallLocals
<1>4. NoHist \in Histories
  BY DEF NoHist, Histories
<1> QED BY <1>1, <1>2, <1>3, <1>4

(* An instruction: a return takes the last frame off the stack, a call     *)
(* puts one on.                                                            *)
Returned ==
  LET n == Len(regs.stack)
  IN  /\ n > 0 /\ Len(regs'.stack) = n - 1
      /\ \A i \in 1 .. n - 1 : regs'.stack[i] = regs.stack[i]
      /\ regs'.pc = regs.stack[n].ret /\ regs'.own = regs.stack[n].own

Called ==
  LET n == Len(regs.stack)
  IN  /\ regs.pc \in DOMAIN Callee /\ Len(regs'.stack) = n + 1
      /\ \A i \in 1 .. n : regs'.stack[i] = regs.stack[i]
      /\ regs'.stack[n + 1].own = regs.own /\ regs'.stack[n + 1].ret \in Succ[regs.pc]
      /\ regs'.pc = Callee[regs.pc] /\ regs'.own = regs.own

Moved == regs'.stack = regs.stack /\ regs'.pc \in Succ[regs.pc] /\ regs'.own = regs.own

LEMMA AdvanceFields ==
  ASSUME Types, Advance
  PROVE  regs' \in Regs /\ (Returned \/ Called \/ Moved)
<1>0. /\ regs.pc \in Addr /\ regs.stack \in Seq(Frames) /\ regs.own \in BOOLEAN /\ regs \in Regs
      /\ Len(regs.stack) \in Nat
  BY DEF Types, Regs
<1>1. CASE regs.pc \in Rets /\ regs.stack # <<>>
  <2> DEFINE n == Len(regs.stack)
  <2>1. n \in Nat /\ n > 0
    BY <1>0, <1>1
  <2>2. regs.stack[n] \in Frames
    BY <1>0, <2>1
  <2>3. /\ SubSeq(regs.stack, 1, n - 1) \in Seq(Frames) /\ Len(SubSeq(regs.stack, 1, n - 1)) = n - 1
        /\ \A i \in 1 .. n - 1 : SubSeq(regs.stack, 1, n - 1)[i] = regs.stack[i]
    BY <1>0, <2>1
  <2>4. regs' = [pc |-> regs.stack[n].ret, stack |-> SubSeq(regs.stack, 1, n - 1),
                 own |-> regs.stack[n].own]
    BY <1>1 DEF Advance
  <2>5. regs'.pc = regs.stack[n].ret /\ regs'.own = regs.stack[n].own
        /\ regs'.stack = SubSeq(regs.stack, 1, n - 1)
    BY <2>4
  <2>6. Returned
    BY <2>1, <2>3, <2>5 DEF Returned
  <2>7. regs' \in Regs
    BY <2>2, <2>3, <2>4 DEF Regs, Frames
  <2> QED BY <2>6, <2>7
<1>2. CASE ~(regs.pc \in Rets /\ regs.stack # <<>>)
  <2>1. PICK a \in Succ[regs.pc] :
          regs' = IF regs.pc \in DOMAIN Callee
                  THEN [pc |-> Callee[regs.pc],
                        stack |-> Append(regs.stack, [ret |-> a, own |-> regs.own]), own |-> regs.own]
                  ELSE [regs EXCEPT !.pc = a]
    BY <1>2 DEF Advance
  <2>2. a \in Addr
    BY <1>0, <2>1, CallsAssumption
  <2>3. CASE regs.pc \in DOMAIN Callee
    <3> DEFINE f == [ret |-> a, own |-> regs.own]
               n == Len(regs.stack)
    <3>1. f \in Frames /\ f.ret = a /\ f.own = regs.own /\ Callee[regs.pc] \in Addr
      BY <1>0, <2>2, <2>3, CallsAssumption DEF Frames
    <3>2. regs' = [pc |-> Callee[regs.pc], stack |-> Append(regs.stack, f), own |-> regs.own]
      BY <2>1, <2>3
    <3> HIDE DEF f
    <3>3. /\ Append(regs.stack, f) \in Seq(Frames) /\ Len(Append(regs.stack, f)) = n + 1
          /\ Append(regs.stack, f)[n + 1] = f
          /\ \A i \in 1 .. n : Append(regs.stack, f)[i] = regs.stack[i]
      BY <1>0, <3>1
    <3>4. regs'.pc = Callee[regs.pc] /\ regs'.own = regs.own /\ regs'.stack = Append(regs.stack, f)
      BY <3>2
    <3>5. Called
      BY <2>1, <2>3, <3>1, <3>3, <3>4 DEF Called
    <3>6. regs' \in Regs
      BY <1>0, <3>1, <3>2, <3>3 DEF Regs
    <3> QED BY <3>5, <3>6
  <2>4. CASE regs.pc \notin DOMAIN Callee
    BY <1>0, <2>1, <2>2, <2>4 DEF Regs, Moved
  <2> QED BY <2>3, <2>4
<1> QED BY <1>1, <1>2

(* Every step keeps the types. *)
LEMMA TypesNext ==
  ASSUME Types, TableInv, StopInv, Next
  PROVE  Types'
<1> USE StartTypes DEF Types, Points, ip, counters
<1>e. Event => nev' \in Nat /\ nproc' \in Nat
  BY DEF Event
<1>r. regs.pc \in Addr /\ regs.stack \in Seq(Frames) /\ hist \in Histories
  BY DEF Regs
<1>s. ASSUME NEW res \in {"BPT", "SSTEP", "SIG", "USER"}, NEW s \in Sig \union {"none"}, Stops(res, s)
      PROVE  /\ stopres' = res /\ lastsig' = s /\ alive' = alive /\ over' = NoBp
             /\ ctl' \in {"called", "returned"}
  BY <1>s DEF Stops
<1>d. ASSUME Stepped
      PROVE  /\ stopres' = "SSTEP" /\ lastsig' = "none" /\ alive' = alive /\ over' = NoBp
             /\ ctl' \in {"cont", "called", "returned"}
  BY <1>d DEF Stepped, Stops
<1>1. CASE Execute
  <2>1. UNCHANGED <<ptrap, attrs, rtype, arrived, sig, wps, call, due, hist, counters>>
    BY <1>1 DEF Execute
  <2>2. CASE t.text[regs.pc] = BPT
    BY <1>1, <1>r, <2>1, <2>2 DEF Execute, Stops
  <2>3. CASE t.text[regs.pc] # BPT
    <3>1. Advance
      BY <1>1, <2>3 DEF Execute
    <3>2. regs' \in Regs /\ regs'.pc \in Addr
      BY <3>1, AdvanceFields DEF Regs
    <3>3. /\ alive' = alive /\ ctl' \in Points /\ restart_pc' \in {restart_pc, regs'.pc}
          /\ stopres' \in {stopres, "SSTEP"} /\ lastsig' \in {lastsig, "none"}
          /\ over' \in {over, NoBp}
      BY <1>1, <2>3 DEF Execute, Stepped, Stops
    <3> QED BY <2>1, <3>2, <3>3
  <2> QED BY <2>2, <2>3
<1>2. CASE Exit
  BY <1>2 DEF Exit, Dies
<1>3. ASSUME NEW s \in Sig, Signal(s)
      PROVE  Types'
  <2>1. due' \subseteq Sig
    BY <1>3 DEF Signal
  <2> QED BY <1>3, <1>e, <1>r, <1>s, <2>1 DEF Signal
<1>4. CASE Stop
  <2>1. hist' \in Histories
    <3>1. hist' = [hist EXCEPT !.asked = TRUE,
                               !.beaten = hist.beaten \/ (InSteppedCode /\ rtype = "CONT")]
      BY <1>4 DEF Stop
    <3> QED BY <1>r, <3>1, HistFields DEF SameFaults
  <2> QED BY <1>4, <1>e, <1>r, <1>s, <2>1 DEF Stop
<1>5. CASE Restart
  <2>1. hist' \in Histories
    BY <1>5 DEF Restart, NoteSignals, Histories
  <2>2. ResumePc \in Regs
    BY DEF ResumePc, Regs
  <2>3. CASE Deadly(sig)
    BY <1>5, <2>1, <2>3 DEF Restart, Dies
  <2>4. CASE ~Deadly(sig)
    <3>1. over' \in Bp \union {NoBp}
      <4>1. Sound(t)
        BY DEF TableInv, ListInv
      <4> QED BY <1>5, <2>4, <4>1, FirstInstalled DEF Restart, Sound
    <3> QED BY <1>5, <2>1, <2>2, <2>4, <3>1 DEF Restart
  <2> QED BY <2>3, <2>4
<1>6. CASE Again
  BY <1>6 DEF Again
<1>7. ASSUME NEW who \in Origins, NEW a \in Addr, ao_call_func(who, a),
             rtype' \in {"CONT", "STEP"}, hist' \in Histories, nev' \in Nat, nproc' \in Nat
      PROVE  Types'
  <2>1. [pc |-> a, own |-> TRUE, stack |-> Append(regs.stack, [ret |-> restart_pc, own |-> FALSE])] \in Regs
    <3> DEFINE f == [ret |-> restart_pc, own |-> FALSE]
    <3>1. f \in Frames
      BY DEF Frames
    <3> HIDE DEF f
    <3>2. Append(regs.stack, f) \in Seq(Frames)
      BY <1>r, <3>1
    <3>3. [pc |-> a, own |-> TRUE, stack |-> Append(regs.stack, f)] \in Regs
      BY <3>2 DEF Regs
    <3> QED BY <3>3 DEF f
  <2>2. regs' \in Regs
    BY <1>7, <2>1 DEF ao_call_func
  <2>3. call' \in CallLocals
    <3>1. CASE call' = [NoCall EXCEPT !.failed = who = "code"]
      BY <3>1 DEF CallLocals
    <3>2. ASSUME NEW b \in CallBp \union {NoBp},
                 call' = [origin |-> who, addr |-> a, retpc |-> restart_pc, saved |-> regs,
                          bp |-> b, failed |-> FALSE]
          PROVE  call' \in CallLocals
      BY <3>2 DEF CallLocals
    <3> QED BY <1>7, <3>1, <3>2 DEF ao_call_func
  <2>4. ctl' \in Points /\ wps' \in {"off", "on", "step"}
    <3>1. \/ ctl' = "call" /\ wps' = wps
          \/ ctl' = AfterCall(who, FALSE) /\ wps' = WpsAfter(who, FALSE)
      BY <1>7, Zenon DEF ao_call_func
    <3> QED BY <3>1, AfterCallValues
  <2>5. UNCHANGED <<alive, ptrap, ip, attrs, arrived, over, sig, due>>
    BY <1>7 DEF ao_call_func
  <2> QED BY <1>7, <2>2, <2>3, <2>4, <2>5
<1>p. ASSUME NEW who \in Origins, ao_set_protection(who)
      PROVE  Types'
  <2>1. hist' \in Histories
    BY <1>p, <1>r, HistFields DEF ao_set_protection, SameFaults
  <2> QED BY <1>7, <1>p, <2>1 DEF ao_set_protection
<1>8. CASE EndCall
  <2>1. call' \in CallLocals
    <3>1. [NoCall EXCEPT !.failed = call.origin = "code" /\ ~CameBack] \in CallLocals
      BY DEF CallLocals
    <3> QED BY <1>8, <3>1 DEF EndCall
  <2>2. regs' \in Regs /\ restart_pc' \in Addr
    BY <1>8 DEF EndCall, SavedRegs, CallLocals
  <2>3. hist' \in Histories
    <3>1. CASE CameBack
      <4> DEFINE more == {Reaches(Func[call.addr], Func[call.retpc])}
      <4>1. more \subseteq BOOLEAN
        BY Zenon DEF Reaches
      <4>2. \/ hist' = [hist EXCEPT !.short = @]
            \/ hist' = [hist EXCEPT !.short = @ \union more]
        BY <1>8, <3>1, Zenon DEF EndCall
      <4> HIDE DEF more
      <4> QED BY <4>1, <4>2 DEF Histories
    <3>2. CASE ~CameBack
      BY <1>8, <3>2 DEF EndCall, Histories
    <3> QED BY <3>1, <3>2
  <2>4. ctl' \in Points /\ wps' \in {"off", "on", "step"}
    <3>1. call.origin \in Origins
      BY <1>8 DEF EndCall, StopInv
    <3>2. ctl' = AfterCall(call.origin, CameBack) /\ wps' = WpsAfter(call.origin, CameBack)
      BY <1>8 DEF EndCall
    <3> QED BY <3>1, <3>2, AfterCallValues
  <2>5. lastsig' \in {lastsig, "none"} /\ due' \subseteq Sig
    BY <1>8 DEF EndCall
  <2> QED BY <1>8, <2>1, <2>2, <2>3, <2>4, <2>5 DEF EndCall
<1>9. CASE Start
  <2>1. nproc' \in Nat /\ nev' = nev
    BY <1>9 DEF Start
  <2>2. alive' \in BOOLEAN /\ ptrap' \in BOOLEAN /\ regs' \in Regs
    BY <1>9 DEF Start
  <2>3. /\ restart_pc' \in Addr /\ stopres' = "BPT" /\ lastsig' = "none"
        /\ UNCHANGED <<attrs, ctl, rtype, arrived, over, sig, wps, call, due, hist>>
    BY <1>9 DEF Start
  <2> QED BY <2>1, <2>2, <2>3
<1>10. ASSUME NEW r \in {"CONT", "STEP"}, Command(r)
       PROVE  Types'
  <2>1. hist' \in Histories
    BY <1>10, <1>r, HistFields DEF Command, SameFaults
  <2> QED BY <1>10, <2>1 DEF Command, Begin
<1>11. CASE RunLoop
  BY <1>11 DEF RunLoop, get_restart_sig
<1>12. CASE Leave
  BY <1>12 DEF Leave, EndRun
<1>13. CASE GoOn
  BY <1>13 DEF GoOn, EndRun, Onward
<1>14. CASE execute_bp_code
  <2>1. call' = [NoCall EXCEPT !.failed = TRUE] \/ call' = [NoCall EXCEPT !.failed = FALSE]
    BY <1>14, Zenon DEF execute_bp_code
  <2>2. call' \in CallLocals
    BY <2>1 DEF CallLocals
  <2> QED BY <1>14, <2>2 DEF execute_bp_code
<1>15. CASE CodeEnds
  BY <1>15 DEF CodeEnds, EndRun, Onward
<1>16. ASSUME NEW s \in Sig, NEW attr \in {"CONT", "ACCEPT"}, do_sig(s, attr)
       PROVE  Types'
  <2>1. attrs' \in [Sig -> SUBSET {"CONT", "ACCEPT"}]
    BY <1>16 DEF do_sig
  <2> QED BY <1>16, <1>e, <2>1 DEF do_sig
<1>17. CASE ContWithWatchpoint
  <2>1. hist' \in Histories /\ rtype' \in {"CONT", "STEP"}
    BY <1>17, <1>r, HistFields DEF ContWithWatchpoint, Begin, SameFaults
  <2> QED BY <1>7, <1>17, <1>e, <2>1 DEF ContWithWatchpoint, Origins
<1>18. ASSUME NEW a \in Callable, update_expr(a)
       PROVE  Types'
  <2>1. hist' \in Histories /\ rtype' \in {"CONT", "STEP"}
    BY <1>18, <1>r, HistFields DEF update_expr, Begin, SameFaults
  <2> QED BY <1>7, <1>18, <1>e, <2>1 DEF update_expr, Origins
<1>19. ASSUME NEW a \in Callable, CodeCalls(a)
       PROVE  Types'
  <2>1. hist' \in Histories /\ rtype' \in {"CONT", "STEP"}
    BY <1>19, <1>r, HistFields DEF CodeCalls, SameFaults
  <2> QED BY <1>7, <1>19, <1>e, <2>1 DEF CodeCalls, Origins
<1>20. CASE Over
  BY <1>20 DEF Over, vars
<1>21. CASE StrayTrap
  BY <1>21, <1>r, <1>d DEF StrayTrap
<1>22. ASSUME NEW s \in Sig, StopWithSignal(s)
       PROVE  Types'
  <2>1. due' \subseteq Sig
    BY <1>22 DEF StopWithSignal
  <2>2. hist' \in Histories
    <3> DEFINE beat == hist.beaten \/ (IF ctl = "call" THEN InSteppedCode ELSE ~SignalEnds(s))
    <3>1. hist' = [hist EXCEPT !.asked = TRUE, !.beaten = beat]
      BY <1>22 DEF StopWithSignal
    <3>2. beat \in BOOLEAN
      BY <1>r DEF Histories, InSteppedCode, SignalEnds
    <3> HIDE DEF beat
    <3> QED BY <1>r, <3>1, <3>2, HistFields DEF SameFaults
  <2> QED BY <1>22, <1>e, <1>r, <1>s, <2>1, <2>2 DEF StopWithSignal
<1>23. CASE Fault
  <2>1. CASE ao_set_protection("fault")
    BY <1>p, <2>1 DEF Origins
  <2>2. CASE ~ao_set_protection("fault")
    BY <1>23, <2>2 DEF Fault
  <2> QED BY <2>1, <2>2
<1>24. CASE check_all_watchpoints
  <2>1. CASE ao_set_protection("again")
    BY <1>p, <2>1 DEF Origins
  <2>2. CASE ~ao_set_protection("again")
    BY <1>24, <2>2 DEF check_all_watchpoints, EndRun
  <2> QED BY <2>1, <2>2
<1>25. CASE uninstall_all_watchpoints
  <2>1. CASE ao_set_protection("end")
    BY <1>p, <2>1 DEF Origins
  <2>2. CASE ~ao_set_protection("end")
    BY <1>25, <2>2 DEF uninstall_all_watchpoints
  <2> QED BY <2>1, <2>2
<1> QED BY <1>1, <1>2, <1>3, <1>4, <1>5, <1>6, <1>8, <1>9, <1>10, <1>11, <1>12, <1>13, <1>14,
           <1>15, <1>16, <1>17, <1>18, <1>19, <1>20, <1>21, <1>22, <1>23, <1>24, <1>25
        DEF Next, Proceed
-----------------------------------------------------------------------------
(* The stack in and out of calls. *)

(* While a function runs for ao_call_func there is a trap where it returns *)
(* to.                                                                     *)
LEMMA TrapAtReturn ==
  ASSUME Types, TableInv, ctl = "call"
  PROVE  t.text[call.retpc] = BPT
<1>1. TrapsIn(t, {}) /\ Sound(t) /\ get_breakpoint_at_addr(t, call.retpc) # {}
  BY DEF TableInv, ListInv, CallBpInv, SteppedOver, SteppingOver
<1>2. PICK b \in t.live : t.xp[b] /\ t.addr[b] = call.retpc
  BY <1>1 DEF get_breakpoint_at_addr
<1>3. b \in Bp
  BY <1>1, SoundTypes
<1> QED BY <1>1, <1>2, <1>3 DEF TrapsIn

(* A step outside of calls that leaves stack and registers alone. *)
LEMMA KeptStack ==
  ASSUME StackInv, ctl \notin {"call", "called", "astray"},
         ctl' \notin {"call", "called", "astray"},
         regs'.stack = regs.stack /\ regs'.own = regs.own,
         SameFaults(hist, hist')
  PROVE  StackInv'
<1>1. CallInv'
  BY DEF StackInv, CallInv, SameFaults
<1>2. ~hist'.failed => Unfailed'
  BY DEF StackInv, Unfailed, AllOwn, SameFaults
<1> QED BY <1>1, <1>2 DEF StackInv, SameFaults

(* A function called is stopped. *)
LEMMA StoppedStack ==
  ASSUME StackInv, ctl = "call", ctl' = "called", UNCHANGED <<regs, call>>,
         stopres' = "BPT" => restart_pc' = regs.pc,
         SameFaults(hist, hist')
  PROVE  StackInv'
<1>1. InFunction' = InFunction /\ HasReturned' = HasReturned
  BY DEF InFunction, HasReturned
<1>2. CallInv'
  BY <1>1 DEF StackInv, CallInv, SameFaults
<1>3. ~hist'.failed => Unfailed'
  BY DEF StackInv, Unfailed, AllOwn, SameFaults
<1> QED BY <1>2, <1>3 DEF StackInv, SameFaults

(* An instruction of the function called stays in what it can reach, or    *)
(* returns.                                                                *)
LEMMA FunctionAdvances ==
  ASSUME Types, InFunction, Advance, call' = call
  PROVE  InFunction' \/ HasReturned'
<1> DEFINE n == Len(call.saved.stack)
           m == Len(regs.stack)
           In(S) == /\ Func[regs.pc] \in S
                    /\ \A i \in n + 2 .. m : Func[regs.stack[i].ret] \in S
<1>0. n \in Nat /\ m \in Nat /\ regs.pc \in Addr /\ Len(regs'.stack) \in Nat
  BY AdvanceFields DEF Types, CallLocals, Regs
<1>1. /\ m > n /\ regs.stack[n + 1].ret = call.retpc /\ regs.own
      /\ \A i \in n + 2 .. m : regs.stack[i].own
      /\ \A S \in ClosedSets : Func[call.addr] \in S => In(S)
  BY DEF InFunction
<1> HIDE DEF n, m
<1>2. CASE Moved
  <2>1. regs'.stack = regs.stack /\ regs'.own = regs.own /\ Func[regs'.pc] = Func[regs.pc]
    BY <1>0, <1>2, CallsAssumption DEF Moved
  <2> QED BY <1>1, <2>1 DEF InFunction, n, m
<1>3. CASE Called
  <2>1. /\ regs.pc \in DOMAIN Callee /\ Len(regs'.stack) = m + 1
        /\ \A i \in 1 .. m : regs'.stack[i] = regs.stack[i]
        /\ regs'.stack[m + 1].own = regs.own /\ regs'.stack[m + 1].ret \in Succ[regs.pc]
        /\ regs'.pc = Callee[regs.pc] /\ regs'.own = regs.own
    BY <1>3 DEF Called, m
  <2>2. Func[regs'.stack[m + 1].ret] = Func[regs.pc]
    BY <1>0, <2>1, CallsAssumption
  <2>3. n + 1 \in 1 .. m /\ \A i \in n + 2 .. m + 1 : i \in 1 .. m \/ i = m + 1
    BY <1>0, <1>1
  <2>4. regs'.stack[n + 1].ret = call.retpc /\ Len(regs'.stack) > n
    BY <1>0, <1>1, <2>1, <2>3
  <2>5. \A i \in n + 2 .. m + 1 : regs'.stack[i].own
    <3> SUFFICES ASSUME NEW i \in n + 2 .. m + 1
                 PROVE  regs'.stack[i].own
      OBVIOUS
    <3>1. CASE i = m + 1
      BY <1>1, <2>1, <3>1
    <3>2. CASE i # m + 1
      <4>1. i \in 1 .. m /\ i \in n + 2 .. m
        BY <1>0, <3>2
      <4> QED BY <1>1, <2>1, <4>1
    <3> QED BY <3>1, <3>2
  <2>6. ASSUME NEW S \in ClosedSets, Func[call.addr] \in S
        PROVE  /\ Func[regs'.pc] \in S
               /\ \A i \in n + 2 .. m + 1 : Func[regs'.stack[i].ret] \in S
    <3>1. In(S)
      BY <1>1, <2>6
    <3>2. Func[regs'.pc] \in S
      BY <2>1, <3>1 DEF ClosedSets
    <3>3. ASSUME NEW i \in n + 2 .. m + 1
          PROVE  Func[regs'.stack[i].ret] \in S
      <4>1. CASE i = m + 1
        BY <2>2, <3>1, <4>1
      <4>2. CASE i # m + 1
        <5>1. i \in 1 .. m /\ i \in n + 2 .. m
          BY <1>0, <3>3, <4>2
        <5> QED BY <2>1, <3>1, <5>1
      <4> QED BY <4>1, <4>2
    <3> QED BY <3>2, <3>3
  <2>7. InFunction'
    BY <1>1, <2>1, <2>4, <2>5, <2>6 DEF InFunction, n
  <2> QED BY <2>7
<1>4. CASE Returned
  <2>1. /\ Len(regs'.stack) = m - 1
        /\ \A i \in 1 .. m - 1 : regs'.stack[i] = regs.stack[i]
        /\ regs'.pc = regs.stack[m].ret /\ regs'.own = regs.stack[m].own
    BY <1>4 DEF Returned, m
  <2>2. CASE m = n + 1
    <3>1. Len(regs'.stack) = n /\ regs'.pc = call.retpc
      BY <1>0, <1>1, <2>1, <2>2
    <3> QED BY <3>1 DEF HasReturned, n
  <2>3. CASE m # n + 1
    <3>1. m \in n + 2 .. m /\ n + 1 \in 1 .. m - 1 /\ m - 1 > n
          /\ \A i \in n + 2 .. m - 1 : i \in 1 .. m - 1 /\ i \in n + 2 .. m
      BY <1>0, <1>1, <2>3
    <3>2. regs'.own /\ regs'.stack[n + 1].ret = call.retpc
      BY <1>1, <2>1, <3>1
    <3>3. \A i \in n + 2 .. m - 1 : regs'.stack[i].own
      BY <1>1, <2>1, <3>1
    <3>4. ASSUME NEW S \in ClosedSets, Func[call.addr] \in S
          PROVE  /\ Func[regs'.pc] \in S
                 /\ \A i \in n + 2 .. m - 1 : Func[regs'.stack[i].ret] \in S
      BY <1>1, <2>1, <3>1, <3>4
    <3>5. InFunction'
      BY <2>1, <3>1, <3>2, <3>3, <3>4 DEF InFunction, n
    <3> QED BY <3>5
  <2> QED BY <2>2, <2>3
<1> QED BY <1>2, <1>3, <1>4, AdvanceFields

(* One of the program's leaves registers that are its own. *)
LEMMA ProgramAdvances ==
  ASSUME Types, AllOwn(regs), Advance
  PROVE  AllOwn(regs')
<1> DEFINE m == Len(regs.stack)
<1>0. m \in Nat /\ Len(regs'.stack) \in Nat /\ regs.own /\ \A i \in 1 .. m : regs.stack[i].own
  BY AdvanceFields DEF Types, Regs, AllOwn
<1>1. CASE Moved
  BY <1>0, <1>1 DEF Moved, AllOwn
<1>2. CASE Called
  <2>1. /\ Len(regs'.stack) = m + 1 /\ \A i \in 1 .. m : regs'.stack[i] = regs.stack[i]
        /\ regs'.stack[m + 1].own = regs.own /\ regs'.own = regs.own
    BY <1>2 DEF Called
  <2> HIDE DEF m
  <2>2. \A i \in 1 .. m + 1 : i \in 1 .. m \/ i = m + 1
    BY <1>0
  <2>3. \A i \in 1 .. m + 1 : regs'.stack[i].own
    BY <1>0, <2>1, <2>2
  <2> QED BY <1>0, <2>1, <2>3 DEF AllOwn
<1>3. CASE Returned
  <2>1. /\ Len(regs'.stack) = m - 1 /\ \A i \in 1 .. m - 1 : regs'.stack[i] = regs.stack[i]
        /\ regs'.own = regs.stack[m].own /\ m > 0
    BY <1>3 DEF Returned
  <2> HIDE DEF m
  <2>2. m \in 1 .. m /\ \A i \in 1 .. m - 1 : i \in 1 .. m
    BY <1>0, <2>1
  <2>3. \A i \in 1 .. m - 1 : regs'.stack[i].own
    BY <1>0, <2>1, <2>2
  <2> QED BY <1>0, <2>1, <2>2, <2>3 DEF AllOwn
<1> QED BY <1>1, <1>2, <1>3, AdvanceFields

LEMMA ExecuteStack ==
  ASSUME Types, TableInv, StackInv, Execute
  PROVE  StackInv'
<1>0. ctl \in {"step", "cont", "call"} /\ UNCHANGED <<call, hist>> /\ regs.pc \in Addr
  BY DEF Execute, Running, Types, Regs
<1>h. SameFaults(hist, hist')
  BY <1>0 DEF Types, SameFaults
<1>1. CASE t.text[regs.pc] = BPT
  <2>1. /\ UNCHANGED regs /\ restart_pc' = regs.pc
        /\ ctl' \in {"wild", IF ctl = "call" THEN "called" ELSE "returned"}
    BY <1>1 DEF Execute, Stops
  <2>2. CASE ctl = "call" /\ ctl' = "called"
    BY <1>0, <1>h, <2>1, <2>2, StoppedStack
  <2>3. CASE ctl # "call"
    BY <1>0, <1>h, <2>1, <2>3, KeptStack
  <2>4. CASE ctl = "call" /\ ctl' = "wild"
    <3>1. get_breakpoint_at_addr(t, regs.pc) = {}
      BY <1>1, <2>4 DEF Execute, Stops
    <3>2. hist.leaked
      BY <1>0, <1>1, <3>1, TextOfIntact, CallsAssumption DEF TableInv, Unleaked
    <3> QED BY <1>0, <2>4, <3>2 DEF StackInv, CallInv
  <2> QED BY <1>0, <2>1, <2>2, <2>3, <2>4
<1>2. CASE t.text[regs.pc] # BPT /\ ctl = "call"
  <2>1. InFunction
    BY <1>2, TrapAtReturn DEF StackInv, CallInv, HasReturned
  <2>2. Advance /\ ctl' = "call"
    BY <1>2, <2>1 DEF Execute, InFunction
  <2>3. InFunction' \/ HasReturned'
    BY <1>0, <2>1, <2>2, FunctionAdvances
  <2>4. ~hist'.failed => Unfailed'
    BY <1>0, <1>2, <2>2 DEF StackInv, Unfailed, AllOwn
  <2> QED BY <1>0, <1>2, <2>2, <2>3, <2>4 DEF StackInv, CallInv
<1>3. CASE t.text[regs.pc] # BPT /\ ctl # "call"
  <2>1. Advance /\ ctl' \in {"astray", "cont", "returned"}
    BY <1>0, <1>3 DEF Execute, Stepped, Stops
  <2>2. ASSUME ~hist.failed
        PROVE  AllOwn(regs') /\ ctl' # "astray"
    <3>1. AllOwn(regs)
      BY <1>0, <1>3, <2>2 DEF StackInv, Unfailed
    <3>2. ctl' # "astray"
      BY <1>0, <1>3, <3>1 DEF Execute, Stepped, Stops, AllOwn
    <3> QED BY <2>1, <3>1, <3>2, ProgramAdvances
  <2>3. ~hist'.failed => Unfailed'
    BY <1>0, <2>1, <2>2 DEF Unfailed
  <2> QED BY <1>0, <2>1, <2>3 DEF StackInv, CallInv
<1> QED BY <1>1, <1>2, <1>3

(* A call begins from registers that are the program's. *)
LEMMA CallStack ==
  ASSUME Types, StackInv, ctl \in {"idle", "code", "returned", "check", "leave"},
         NEW who \in Origins, NEW a \in Addr, ao_call_func(who, a),
         SameFaults(hist, hist')
  PROVE  StackInv'
<1> DEFINE f == [ret |-> restart_pc, own |-> FALSE]
<1>0. regs.stack \in Seq(Frames) /\ f \in Frames /\ f.ret = restart_pc /\ Len(regs.stack) \in Nat
  BY DEF Types, Regs, Frames
<1>1. CASE UNCHANGED regs /\ ctl' \in {"idle", "code", "leave"}
  BY <1>1, KeptStack
<1>2. CASE /\ regs' = [pc |-> a, own |-> TRUE, stack |-> Append(regs.stack, f)]
           /\ ctl' = "call"
           /\ call'.saved = regs /\ call'.retpc = restart_pc /\ call'.addr = a
  <2> HIDE DEF f
  <2>1. regs'.pc = a /\ regs'.own /\ regs'.stack = Append(regs.stack, f)
    BY <1>2
  <2>2. Len(Append(regs.stack, f)) = Len(regs.stack) + 1 /\ Append(regs.stack, f)[Len(regs.stack) + 1] = f
    BY <1>0
  <2>3. \A i \in Len(regs.stack) + 2 .. Len(regs.stack) + 1 : FALSE
    BY <1>0
  <2>4. InFunction'
    BY <1>0, <1>2, <2>1, <2>2, <2>3 DEF InFunction
  <2>5. ~hist'.failed => AllOwn(call'.saved)
    BY <1>2 DEF StackInv, Unfailed, SameFaults
  <2>6. ~hist'.failed => Unfailed'
    BY <1>2, <2>5 DEF Unfailed
  <2> QED BY <1>2, <2>4, <2>6 DEF StackInv, CallInv, SameFaults
<1>3. \/ UNCHANGED regs /\ ctl' \in {"idle", "code", "leave"}
      \/ /\ regs' = [pc |-> a, own |-> TRUE, stack |-> Append(regs.stack, f)]
         /\ ctl' = "call"
         /\ call'.saved = regs /\ call'.retpc = restart_pc /\ call'.addr = a
  <2>1. CASE UNCHANGED regs /\ ctl' = AfterCall(who, FALSE)
    BY <2>1, AfterCallValues
  <2>2. ASSUME NEW b,
               call' = [origin |-> who, addr |-> a, retpc |-> restart_pc, saved |-> regs,
                        bp |-> b, failed |-> FALSE],
               regs' = [pc |-> a, own |-> TRUE, stack |-> Append(regs.stack, f)],
               ctl' = "call"
        PROVE  <1>3!2
    BY <2>2
  <2> QED BY <2>1, <2>2, Zenon DEF ao_call_func
<1> QED BY <1>1, <1>2, <1>3

(* When it is over they are back, unless it failed. *)
LEMMA EndCallStack ==
  ASSUME Types, StackInv, StopInv, EndCall
  PROVE  StackInv'
<1>0. ctl = "called" /\ hist \in Histories /\ call.origin \in Origins
  BY DEF EndCall, Types, StopInv
<1>c. ctl' \in {"code", "loop", "idle", "leave"}
  <2>1. ctl' = AfterCall(call.origin, CameBack)
    BY DEF EndCall
  <2> QED BY <1>0, <2>1, AfterCallValues
<1>1. CASE CameBack
  <2>1. regs' = call.saved
    BY <1>1 DEF EndCall, SavedRegs
  <2>2. regs.pc = call.retpc
    BY <1>0, <1>1 DEF StackInv, CallInv, CameBack
  <2>3. Len(regs.stack) # Len(call.saved.stack) => Reaches(Func[call.addr], Func[call.retpc])
    BY <1>0, <2>2 DEF StackInv, CallInv, InFunction, HasReturned, Reaches
  <2>4. hist'.failed = hist.failed /\ hist'.leaked = hist.leaked
    BY <1>0, <1>1 DEF EndCall, Histories
  <2>5. FALSE \notin hist'.short
    <3>1. CASE Len(regs.stack) = Len(call.saved.stack)
      <4>1. hist'.short = hist.short
        BY <1>0, <1>1, <3>1 DEF EndCall, Histories
      <4> QED BY <4>1 DEF StackInv, CallInv
    <3>2. CASE Len(regs.stack) # Len(call.saved.stack)
      <4>1. hist' = [hist EXCEPT !.short = @ \union {Reaches(Func[call.addr], Func[call.retpc])}]
        BY <1>1, <3>2, Zenon DEF EndCall
      <4>2. {Reaches(Func[call.addr], Func[call.retpc])} = {TRUE}
        <5>1. Reaches(Func[call.addr], Func[call.retpc]) = TRUE
          BY <2>3, <3>2, Zenon DEF Reaches
        <5> QED BY <5>1
      <4>3. hist'.short = hist.short \union {TRUE}
        BY <1>0, <4>1, <4>2 DEF Histories
      <4> QED BY <4>3 DEF StackInv, CallInv
    <3> QED BY <3>1, <3>2
  <2>6. ~hist'.failed => Unfailed'
    BY <1>0, <1>c, <2>1, <2>4 DEF StackInv, Unfailed
  <2> QED BY <1>0, <1>c, <2>4, <2>5, <2>6 DEF StackInv, CallInv
<1>2. CASE ~CameBack
  <2>1. hist'.failed /\ hist'.short = hist.short
    BY <1>0, <1>2 DEF EndCall, Histories
  <2> QED BY <1>c, <2>1 DEF StackInv, CallInv
<1> QED BY <1>1, <1>2
-----------------------------------------------------------------------------
(* Signals and stops. *)

(* A step that neither runs nor restarts the process. *)
LEMMA KeptSignals ==
  ASSUME SignalInv, UNCHANGED alive, SameFaults(hist, hist'), ~Running,
         ctl \notin {"astray", "wild"}, ctl' \notin {"restart", "step", "cont", "panic", "called"},
         \/ UNCHANGED <<lastsig, due>>
         \/ lastsig' = "none" /\ due' \subseteq due /\ (due \subseteq {lastsig} => due' = {}),
         hist.covered \/ (ctl' = "call" /\ due' # {}) => hist'.covered, StopInv'
  PROVE  SignalInv'
<1>1. ~hist'.covered => Uncovered'
  BY DEF SignalInv, Uncovered, Running, SameFaults
<1>2. LastSigDue' /\ SignalsNotRepeated' /\ PanicOnlyOnStop'
  BY DEF SignalInv, LastSigDue, SignalsNotRepeated, PanicOnlyOnStop
<1> QED BY <1>1, <1>2 DEF SignalInv

(* A call with signals due covers them. *)
LEMMA CallSignals ==
  ASSUME Types, SignalInv, ctl \in {"idle", "code", "returned", "check", "leave"},
         NEW who \in Origins, NEW a, ao_call_func(who, a), who = "code" <=> ctl = "code",
         SameFaults(hist, hist'), hist'.covered <=> hist.covered \/ due # {},
         ctl = "code" => hist'.asked = hist.asked
  PROVE  SignalInv'
<1>1. UNCHANGED <<alive, lastsig, stopres, due>>
  BY DEF ao_call_func, ip
<1>2. \/ ctl' \in {"idle", "leave"}
      \/ ctl' = "code" /\ ctl = "code" /\ call' = [NoCall EXCEPT !.failed = TRUE]
      \/ ctl' = "call" /\ call'.origin = who
  <2>1. CASE /\ call' = [NoCall EXCEPT !.failed = who = "code"]
             /\ ctl' = AfterCall(who, FALSE)
    <3>1. CASE who = "code"
      BY <2>1, <3>1, AfterCallValues
    <3>2. CASE who # "code"
      BY <2>1, <3>2, AfterCallValues
    <3> QED BY <3>1, <3>2
  <2>2. ASSUME NEW b,
               call' = [origin |-> who, addr |-> a, retpc |-> restart_pc, saved |-> regs,
                        bp |-> b, failed |-> FALSE],
               ctl' = "call"
        PROVE  ctl' = "call" /\ call'.origin = who
    BY <2>2
  <2> QED BY <2>1, <2>2, Zenon DEF ao_call_func
<1>3. StopInv'
  <2>1. [NoCall EXCEPT !.failed = TRUE].failed
    BY DEF NoCall
  <2> QED BY <1>1, <1>2, <2>1 DEF SignalInv, StopInv
<1>4. ctl' \notin {"restart", "step", "cont", "panic", "called"} /\ ~Running
  BY <1>2 DEF Running
<1> QED BY <1>1, <1>3, <1>4, KeptSignals

(* A process that ran has stopped, or goes on after a step. *)
LEMMA StoppedSignals ==
  ASSUME Types, TableInv, SignalInv, Running, UNCHANGED <<alive, call>>, SameFaults(hist, hist'),
         hist'.covered = hist.covered, hist.asked => hist'.asked, stopres' = "USER" => hist'.asked,
         ctl' \in {"cont", "returned", "called"}, ctl' = "called" => ctl = "call",
         \/ lastsig' = "none" /\ due' = due
         \/ /\ lastsig' \in Sig /\ due' = due \union {lastsig'} /\ stopres' = "SIG"
            /\ ctl' # "cont"
  PROVE  SignalInv'
<1>1. alive
  BY DEF TableInv, DeadInv, Running
<1>2. ~hist'.covered => Uncovered'
  BY <1>1 DEF SignalInv, Uncovered, Running, SameFaults
<1>3. StopInv'
  BY DEF SignalInv, StopInv
<1>4. LastSigDue' /\ SignalsNotRepeated' /\ PanicOnlyOnStop'
  BY DEF LastSigDue, SignalsNotRepeated, PanicOnlyOnStop
<1> QED BY <1>2, <1>3, <1>4 DEF SignalInv

(* Every step keeps what is known of signals and stops. *)
LEMMA SignalNext ==
  ASSUME Types, TableInv, SignalInv, Next
  PROVE  SignalInv'
<1> USE DEF Points, ip, counters
<1>0. /\ hist \in Histories /\ ctl \in Points /\ call \in CallLocals
      /\ StopInv /\ LastSigDue /\ SignalsNotRepeated /\ PanicOnlyOnStop /\ (~hist.covered => Uncovered)
      /\ lastsig \in Sig \union {"none"} /\ due \subseteq Sig /\ SameFaults(hist, hist)
  BY DEF Types, SignalInv, SameFaults
<1>s. ASSUME NEW res, NEW s, Stops(res, s), Running
      PROVE  /\ stopres' = res /\ lastsig' = s /\ alive' = alive
             /\ ctl' \in {"returned", "called"} /\ (ctl' = "called" => ctl = "call")
  BY <1>s DEF Stops
<1>d. ASSUME Stepped, Running
      PROVE  /\ stopres' = "SSTEP" /\ lastsig' = "none" /\ alive' = alive
             /\ ctl' \in {"cont", "returned", "called"} /\ (ctl' = "called" => ctl = "call")
  BY <1>d DEF Stepped, Stops
<1>1. CASE Execute
  <2>1. UNCHANGED <<due, hist, call, attrs, sig, arrived>> /\ Running
    BY <1>1 DEF Execute
  <2>2. CASE /\ alive' = alive /\ lastsig' = "none" /\ stopres' \in {"BPT", "SSTEP"}
             /\ ctl' \in {"cont", "returned", "called"} /\ (ctl' = "called" => ctl = "call")
    BY <1>0, <2>1, <2>2, StoppedSignals
  <2>3. CASE ctl' \in {"wild", "astray"} /\ UNCHANGED <<alive, lastsig>>
    <3>1. ~hist'.covered => Uncovered'
      BY <1>0, <2>1, <2>3 DEF Uncovered, Running
    <3>2. LastSigDue' /\ SignalsNotRepeated' /\ PanicOnlyOnStop' /\ StopInv'
      BY <2>3 DEF LastSigDue, SignalsNotRepeated, PanicOnlyOnStop, StopInv
    <3> QED BY <3>1, <3>2 DEF SignalInv
  <2>4. CASE UNCHANGED <<ctl, alive, lastsig, stopres>>
    <3>1. ~hist'.covered => Uncovered'
      BY <1>0, <2>1, <2>4 DEF Uncovered, Running
    <3>2. LastSigDue' /\ SignalsNotRepeated' /\ PanicOnlyOnStop' /\ StopInv'
      BY <1>0, <2>1, <2>4 DEF LastSigDue, SignalsNotRepeated, PanicOnlyOnStop, StopInv, Running
    <3> QED BY <3>1, <3>2 DEF SignalInv
  <2>5. CASE t.text[regs.pc] = BPT
    <3>1. CASE get_breakpoint_at_addr(t, regs.pc) # {}
      <4>1. Stops("BPT", "none")
        BY <1>1, <2>5, <3>1 DEF Execute
      <4> QED BY <1>s, <2>1, <2>2, <4>1
    <3>2. CASE get_breakpoint_at_addr(t, regs.pc) = {}
      BY <1>1, <2>3, <2>5, <3>2 DEF Execute
    <3> QED BY <3>1, <3>2
  <2>6. CASE t.text[regs.pc] # BPT
    <3>1. CASE ~regs.own
      BY <1>1, <2>3, <2>6, <3>1 DEF Execute
    <3>2. CASE regs.own /\ ctl = "step"
      <4>1. Stepped
        BY <1>1, <2>6, <3>2 DEF Execute
      <4> QED BY <1>d, <2>1, <2>2, <4>1
    <3>3. CASE regs.own /\ ctl # "step"
      BY <1>1, <2>4, <2>6, <3>3 DEF Execute
    <3> QED BY <3>1, <3>2, <3>3
  <2> QED BY <2>5, <2>6
<1>2. CASE Exit
  <2>1. /\ due' = {} /\ UNCHANGED <<hist, call>> /\ Running /\ stopres' = "DIED" /\ lastsig' = "none"
        /\ ctl' \in {"called", "returned"} /\ (ctl' = "called" => ctl = "call")
    BY <1>2 DEF Exit, Dies
  <2>2. ~hist'.covered => Uncovered'
    BY <1>0, <2>1 DEF Uncovered
  <2> QED BY <1>0, <2>1, <2>2
        DEF SignalInv, StopInv, LastSigDue, SignalsNotRepeated, PanicOnlyOnStop
<1>3. ASSUME NEW s \in Sig, Signal(s)
      PROVE  SignalInv'
  <2>1. due' = due \union {s} /\ UNCHANGED <<hist, call>> /\ Running /\ Stops("SIG", s)
    BY <1>3 DEF Signal
  <2>2. /\ stopres' = "SIG" /\ lastsig' = s /\ alive' = alive
        /\ ctl' \in {"returned", "called"} /\ (ctl' = "called" => ctl = "call")
    BY <1>s, <2>1
  <2> QED BY <1>0, <2>1, <2>2, StoppedSignals
<1>4. CASE Stop
  <2>1. UNCHANGED <<call, due>> /\ Running /\ Stops("USER", "none")
    BY <1>4 DEF Stop
  <2>2. SameFaults(hist, hist') /\ hist'.asked /\ hist'.covered = hist.covered
    <3>1. hist' = [hist EXCEPT !.asked = TRUE,
                               !.beaten = hist.beaten \/ (InSteppedCode /\ rtype = "CONT")]
      BY <1>4 DEF Stop
    <3> QED BY <1>0, <3>1, HistFields
  <2>3. /\ stopres' = "USER" /\ lastsig' = "none" /\ alive' = alive
        /\ ctl' \in {"returned", "called"} /\ (ctl' = "called" => ctl = "call")
    BY <1>s, <2>1
  <2> QED BY <1>0, <2>1, <2>2, <2>3, StoppedSignals
<1>5. CASE Restart
  <2>1. /\ ctl = "restart" /\ due' = {} /\ UNCHANGED call
        /\ hist'.lost <=> hist.lost \/ \E s \in due \ {sig} : accept_signal(s)
        /\ hist'.asked = hist.asked /\ hist'.covered = hist.covered
    BY <1>0, <1>5 DEF Restart, NoteSignals, Histories
  <2>2. \/ ctl' \in {"cont", "step"}
        \/ ctl' = "returned" /\ stopres' = "DIED" /\ lastsig' = "none"
    BY <1>5, <2>1 DEF Restart, Dies
  <2>3. ~hist'.covered => ~hist'.lost
    BY <1>0, <2>1 DEF Uncovered
  <2>4. ~hist'.covered => Uncovered'
    BY <2>1, <2>2, <2>3 DEF Uncovered
  <2> QED BY <1>0, <2>1, <2>2, <2>4
        DEF SignalInv, StopInv, LastSigDue, Running, SignalsNotRepeated, PanicOnlyOnStop
<1>6. CASE Again
  <2>1. /\ ctl = "returned" /\ ctl' = "restart" /\ sig' = lastsig
        /\ UNCHANGED <<call, due, hist, alive, lastsig, attrs>>
    BY <1>6 DEF Again
  <2>2. LastSigDue' /\ SignalsNotRepeated'
    BY <1>0, <2>1 DEF LastSigDue, SignalsNotRepeated, Running
  <2>3. ~hist'.covered => Uncovered'
    BY <1>0, <2>1 DEF Uncovered, Running
  <2> QED BY <2>1, <2>2, <2>3 DEF SignalInv, StopInv, PanicOnlyOnStop
<1>p. ASSUME NEW who \in Origins, ao_set_protection(who), who # "code",
             ctl \in {"returned", "check", "leave"}
      PROVE  SignalInv'
  <2>1. SameFaults(hist, hist') /\ (hist'.covered <=> hist.covered \/ due # {})
    BY <1>0, <1>p, HistFields DEF ao_set_protection
  <2> QED BY <1>p, <2>1, CallSignals DEF ao_set_protection
<1>8. CASE EndCall
  <2>1. /\ UNCHANGED <<alive, stopres>> /\ ctl = "called"
        /\ ctl' = AfterCall(call.origin, CameBack) /\ call.origin \in Origins
    BY <1>0, <1>8 DEF EndCall, StopInv
  <2>2. /\ ctl' \in {"code", "idle", "loop", "leave"} /\ (ctl' = "code" => call.origin = "code")
    BY <2>1, AfterCallValues
  <2>3. hist'.lost = hist.lost /\ hist'.asked = hist.asked /\ hist'.covered = hist.covered
    <3>1. CASE CameBack
      <4> DEFINE more == IF Len(regs.stack) = Len(call.saved.stack) THEN hist.short
                         ELSE hist.short \union {Reaches(Func[call.addr], Func[call.retpc])}
      <4>1. hist' = [hist EXCEPT !.short = more]
        BY <1>8, <3>1, Zenon DEF EndCall
      <4> HIDE DEF more
      <4> QED BY <1>0, <4>1 DEF Histories
    <3>2. CASE ~CameBack
      BY <1>0, <1>8, <3>2 DEF EndCall, Histories
    <3> QED BY <3>1, <3>2
  <2>4. ctl' = "code" /\ stopres \notin {"BPT", "SSTEP"} => call'.failed
    <3>1. SUFFICES ASSUME ctl' = "code", stopres \notin {"BPT", "SSTEP"}
                   PROVE  call'.failed
      OBVIOUS
    <3>2. ~CameBack
      BY <3>1 DEF CameBack
    <3> QED BY <1>8, <2>2, <3>1, <3>2 DEF EndCall, NoCall
  <2>5. StopInv'
    BY <1>0, <2>1, <2>2, <2>3, <2>4 DEF StopInv
  <2>6. \/ UNCHANGED <<lastsig, due>>
        \/ lastsig = "none" /\ lastsig' = "none" /\ due' \subseteq due
    <3>1. CASE call.origin = "fault" /\ CameBack
      <4>1. lastsig = "none"
        BY <1>0, <2>1, <3>1 DEF CameBack, LastSigDue
      <4> QED BY <1>8, <3>1, <4>1 DEF EndCall
    <3>2. CASE ~(call.origin = "fault" /\ CameBack)
      BY <1>8, <3>2 DEF EndCall
    <3> QED BY <3>1, <3>2
  <2>7. ~hist'.covered => Uncovered'
    BY <1>0, <2>1, <2>2, <2>3, <2>6 DEF Uncovered, Running
  <2>8. LastSigDue'
    BY <1>0, <2>1, <2>2, <2>6 DEF LastSigDue, Running
  <2> QED BY <2>2, <2>5, <2>7, <2>8 DEF SignalInv, SignalsNotRepeated, PanicOnlyOnStop
<1>9. CASE Start
  <2>1. ctl = "idle" /\ ctl' = "idle" /\ ~alive /\ lastsig' = "none" /\ UNCHANGED <<due, hist>>
    BY <1>9 DEF Start
  <2> QED BY <1>0, <2>1
        DEF SignalInv, StopInv, Uncovered, LastSigDue, Running, SignalsNotRepeated, PanicOnlyOnStop
<1>10. ASSUME NEW r \in {"CONT", "STEP"}, Command(r)
       PROVE  SignalInv'
  <2>1. /\ ctl = "idle" /\ ctl' = "loop" /\ UNCHANGED <<alive, lastsig, due>>
        /\ SameFaults(hist, hist') /\ hist'.covered = hist.covered
    BY <1>0, <1>10, HistFields DEF Command, Begin
  <2> QED BY <2>1, KeptSignals DEF StopInv, Running
<1>11. CASE RunLoop
  <2>1. /\ ctl = "loop" /\ ctl' = "restart" /\ sig' = get_restart_sig
        /\ UNCHANGED <<alive, lastsig, due, hist, call, attrs>>
    BY <1>11 DEF RunLoop
  <2>2. LastSigDue' /\ SignalsNotRepeated'
    BY <1>0, <2>1 DEF LastSigDue, SignalsNotRepeated, get_restart_sig, Running
  <2>3. ~hist'.covered => Uncovered'
    <3>1. \A s \in due : s # "none"
      BY <1>0, CallsAssumption
    <3> QED BY <1>0, <2>1, <3>1 DEF Uncovered, Running, get_restart_sig, accept_signal
  <2> QED BY <2>1, <2>2, <2>3 DEF SignalInv, StopInv, PanicOnlyOnStop
<1>12. CASE Leave
  <2>1. ctl = "returned" /\ ctl' = "leave" /\ UNCHANGED <<alive, lastsig, due, hist>>
    BY <1>12 DEF Leave, Back, EndRun
  <2> QED BY <1>0, <2>1, KeptSignals DEF StopInv, Running
<1>13. CASE GoOn
  <2>1. /\ ctl = "returned" /\ ctl' \in {"loop", "check", "leave"}
        /\ UNCHANGED <<alive, lastsig, due, hist>>
    BY <1>13 DEF GoOn, Back, EndRun, Onward
  <2> QED BY <1>0, <2>1, KeptSignals DEF StopInv, Running
<1>14. CASE execute_bp_code
  <2>1. /\ ctl = "returned" /\ ctl' = "code" /\ stopres \in {"BPT", "SSTEP"}
        /\ UNCHANGED <<alive, lastsig, stopres, due, hist>>
    BY <1>14 DEF execute_bp_code, Back
  <2> QED BY <1>0, <2>1, KeptSignals DEF StopInv, Running
<1>15. CASE CodeEnds
  <2>1. /\ ctl = "code" /\ UNCHANGED <<alive, lastsig, stopres, due, hist>>
    BY <1>15 DEF CodeEnds
  <2>2. CASE ctl' \in {"leave", "loop", "check"}
    BY <1>0, <2>1, <2>2, KeptSignals DEF StopInv, Running
  <2>3. CASE ctl' \notin {"leave", "loop", "check"}
    <3>1. PICK wants \in WantsStop :
            /\ stopres # "DIED" /\ ~(arrived = "BPT" /\ wants)
            /\ rtype = "STEP" /\ stopres \notin StepStops
            /\ ctl' = "panic" /\ UNCHANGED arrived
      BY <1>15, <2>3 DEF CodeEnds, EndRun, Onward
    <3>2. stopres = "USER"
      BY <3>1 DEF StepStops, Types
    <3>3. call.failed /\ hist.asked
      BY <1>0, <2>1, <3>2 DEF StopInv
    <3>4. wants = TRUE
      BY <3>1, <3>3 DEF WantsStop
    <3>5. arrived = "SSTEP"
      BY <3>1, <3>4 DEF Types
    <3>6. PanicOnlyOnStop'
      BY <2>1, <3>1, <3>3, <3>5 DEF PanicOnlyOnStop
    <3>7. ~hist'.covered => Uncovered'
      BY <1>0, <2>1, <3>1 DEF Uncovered, Running
    <3>8. LastSigDue'
      BY <1>0, <2>1, <3>1 DEF LastSigDue, Running
    <3> QED BY <3>1, <3>6, <3>7, <3>8 DEF SignalInv, StopInv, SignalsNotRepeated
  <2> QED BY <2>2, <2>3
<1>16. ASSUME NEW s \in Sig, NEW attr \in {"CONT", "ACCEPT"}, do_sig(s, attr)
       PROVE  SignalInv'
  <2>1. ctl = "idle" /\ ctl' = "idle" /\ UNCHANGED <<alive, lastsig, due, hist>>
    BY <1>16 DEF do_sig
  <2> QED BY <1>0, <2>1, KeptSignals DEF StopInv, Running
<1>17. CASE ContWithWatchpoint
  <2>1. /\ ctl = "idle" /\ SameFaults(hist, hist') /\ (hist'.covered <=> hist.covered \/ due # {})
    BY <1>0, <1>17, HistFields DEF ContWithWatchpoint, Begin
  <2> QED BY <1>17, <2>1, CallSignals DEF ContWithWatchpoint, Origins
<1>18. ASSUME NEW a \in Callable, update_expr(a)
       PROVE  SignalInv'
  <2>1. /\ ctl = "idle" /\ SameFaults(hist, hist') /\ (hist'.covered <=> hist.covered \/ due # {})
    BY <1>0, <1>18, HistFields DEF update_expr, Begin
  <2> QED BY <1>18, <2>1, CallSignals DEF update_expr, Origins
<1>19. ASSUME NEW a \in Callable, CodeCalls(a)
       PROVE  SignalInv'
  <2>1. /\ ctl = "code" /\ SameFaults(hist, hist') /\ (hist'.covered <=> hist.covered \/ due # {})
        /\ hist'.asked = hist.asked
    BY <1>0, <1>19, HistFields DEF CodeCalls
  <2> QED BY <1>19, <2>1, CallSignals DEF CodeCalls, Origins
<1>20. CASE Over
  <2>1. UNCHANGED vars
    BY <1>20 DEF Over
  <2> QED BY <1>0, <2>1
        DEF vars, SignalInv, StopInv, Uncovered, LastSigDue, Running, SignalsNotRepeated,
            PanicOnlyOnStop, accept_signal
<1>21. CASE StrayTrap
  <2>1. UNCHANGED <<call, due, hist>> /\ Running /\ Stepped
    BY <1>21 DEF StrayTrap
  <2>2. /\ stopres' = "SSTEP" /\ lastsig' = "none" /\ alive' = alive
        /\ ctl' \in {"cont", "returned", "called"} /\ (ctl' = "called" => ctl = "call")
    BY <1>d, <2>1
  <2> QED BY <1>0, <2>1, <2>2, StoppedSignals
<1>22. ASSUME NEW s \in Sig, StopWithSignal(s)
       PROVE  SignalInv'
  <2>1. UNCHANGED call /\ due' = due \union {s} /\ Running /\ Stops("SIG", s)
    BY <1>22 DEF StopWithSignal
  <2>2. SameFaults(hist, hist') /\ hist'.asked /\ hist'.covered = hist.covered
    <3> DEFINE beat == hist.beaten \/ (IF ctl = "call" THEN InSteppedCode ELSE ~SignalEnds(s))
    <3>1. hist' = [hist EXCEPT !.asked = TRUE, !.beaten = beat]
      BY <1>22 DEF StopWithSignal
    <3>2. beat \in BOOLEAN
      BY <1>0 DEF Histories, InSteppedCode, SignalEnds
    <3> HIDE DEF beat
    <3> QED BY <1>0, <3>1, <3>2, HistFields
  <2>3. /\ stopres' = "SIG" /\ lastsig' = s /\ alive' = alive
        /\ ctl' \in {"returned", "called"} /\ (ctl' = "called" => ctl = "call")
    BY <1>s, <2>1
  <2> QED BY <1>0, <2>1, <2>2, <2>3, StoppedSignals
<1>23. CASE Fault
  <2>1. ctl = "returned" /\ lastsig = Segv
    BY <1>23 DEF Fault, Back, WatchFault
  <2>2. CASE ao_set_protection("fault")
    BY <1>p, <2>1, <2>2 DEF Origins
  <2>3. CASE ~ao_set_protection("fault")
    <3>1. ctl' = "loop" /\ lastsig' = "none" /\ due' = due \ {Segv} /\ UNCHANGED <<alive, hist>>
      BY <1>23, <2>3 DEF Fault
    <3>2. due' \subseteq due /\ (due \subseteq {lastsig} => due' = {})
      BY <2>1, <3>1
    <3> QED BY <1>0, <2>1, <3>1, <3>2, KeptSignals DEF StopInv, Running
  <2> QED BY <2>2, <2>3
<1>24. CASE check_all_watchpoints
  <2>1. CASE ao_set_protection("again")
    BY <1>24, <1>p, <2>1 DEF Origins, check_all_watchpoints
  <2>2. CASE ~ao_set_protection("again")
    <3>1. ctl = "check" /\ ctl' = "leave" /\ UNCHANGED <<alive, lastsig, due, hist>>
      BY <1>24, <2>2 DEF check_all_watchpoints, EndRun
    <3> QED BY <1>0, <3>1, KeptSignals DEF StopInv, Running
  <2> QED BY <2>1, <2>2
<1>25. CASE uninstall_all_watchpoints
  <2>1. CASE ao_set_protection("end")
    BY <1>25, <1>p, <2>1 DEF Origins, uninstall_all_watchpoints
  <2>2. CASE ~ao_set_protection("end")
    <3>1. ctl = "leave" /\ ctl' = "idle" /\ UNCHANGED <<alive, lastsig, due, hist>>
      BY <1>25, <2>2 DEF uninstall_all_watchpoints
    <3> QED BY <1>0, <3>1, KeptSignals DEF StopInv, Running
  <2> QED BY <2>1, <2>2
<1> QED BY <1>1, <1>2, <1>3, <1>4, <1>5, <1>6, <1>8, <1>9, <1>10, <1>11, <1>12, <1>13, <1>14,
           <1>15, <1>16, <1>17, <1>18, <1>19, <1>20, <1>21, <1>22, <1>23, <1>24, <1>25
        DEF Next, Proceed
-----------------------------------------------------------------------------
(* The invariant. *)

(* A session begins with it. *)
LEMMA InvInit == Init => Inv
<1> SUFFICES ASSUME Init
             PROVE  Inv
  OBVIOUS
<1>1. Types
  BY StartTypes, CallsAssumption DEF Init, Types, Points
<1>2. PICK S \in SUBSET UserBp : \E where \in [S -> UserAddrs] :
        /\ \A b, c \in S : where[b] = where[c] => b = c
        /\ t = SessionList(S, {p \in S \X S : where[p[1]] < where[p[2]]}, where, {}, TRUE)
  BY DEF Init
<1>3. PICK where \in [S -> UserAddrs] :
        /\ \A b, c \in S : where[b] = where[c] => b = c
        /\ t = SessionList(S, {p \in S \X S : where[p[1]] < where[p[2]]}, where, {}, TRUE)
  BY <1>2
<1> DEFINE order == {p \in S \X S : where[p[1]] < where[p[2]]}
<1>4. S \in SUBSET Bp /\ where \in [S -> Addr] /\ order \in SUBSET (Bp \X Bp)
  BY CallsAssumption
<1>5. t = SessionList(S, order, where, {}, TRUE)
  BY <1>3
<1> HIDE DEF order
<1>6. /\ Intact(t) /\ OneEach(t) /\ Ordered(t) /\ t.live = S /\ t.mapped = Addr \ Late /\ t.global
      /\ \A b \in Bp : ~t.xp[b] /\ (t.enabled[b] <=> b \in S) /\ ~t.inactive[b]
  <2>0. /\ {} \in SUBSET Bp /\ TRUE \in BOOLEAN /\ S \in SUBSET Bp
        /\ where \in [S -> Addr] /\ order \in SUBSET (Bp \X Bp)
        /\ \A b, c \in S : where[b] = where[c] => b = c
    BY <1>3, <1>4
  <2>1. Begun(SessionList(S, order, where, {}, TRUE), S, where, {}, TRUE)
    BY <2>0, SessionIntact
  <2>2. Begun(t, S, where, {}, TRUE)
    BY <1>5, <2>1
  <2> QED BY <2>2 DEF Begun
<1>7. Sound(t)
  <2>1. t \in Tables /\ MarksAgree(t) /\ t.mapped = Addr
    BY <1>6, CallsAssumption DEF Intact
  <2>2. \A b \in t.live : t.enabled[b] /\ ~UserDisabled(t, b)
    BY <1>4, <1>6 DEF UserDisabled
  <2> QED BY <1>6, <2>1, <2>2 DEF Sound
<1>8. ListInv /\ DeadInv /\ CallBpInv
  BY <1>6, <1>7, StartTypes DEF Init, ListInv, DeadInv, CallBpInv, TrapsIn, SteppedOver, SteppingOver
<1>9. Unleaked
  BY <1>2, <1>6, StartTypes DEF Init, Unleaked, OneEach
<1>10. StackInv
  <2>1. AllOwn(Fresh)
    BY DEF AllOwn, Fresh
  <2> QED BY <2>1, StartTypes DEF Init, StackInv, CallInv, Unfailed, NoHist
<1>11. SignalInv
  BY StartTypes
     DEF Init, SignalInv, StopInv, Uncovered, LastSigDue, NoHist, SignalsNotRepeated, PanicOnlyOnStop
<1> QED BY <1>1, <1>8, <1>9, <1>10, <1>11 DEF Inv, TableInv

(* Every step keeps what is known of the list. *)
LEMMA TableNext ==
  ASSUME Types, TableInv, SignalInv, Next
  PROVE  TableInv'
<1> USE DEF ip, counters
<1>0. /\ hist \in Histories /\ NoCall.bp = NoBp /\ StopInv
      /\ ctl \in {"idle", "loop", "restart", "returned", "code", "check", "leave", "panic"} => call.bp = NoBp
  BY StartTypes DEF Types, TableInv, CallBpInv, SignalInv
<1>s. ASSUME NEW res, NEW s, Stops(res, s), Running, call' = call, hist'.leaked = hist.leaked
      PROVE  TableInv'
  BY <1>s, StopsTable DEF Stops
<1>1. CASE Execute
  BY <1>1, ExecuteTable
<1>2. CASE Exit
  BY <1>2, DiesTable DEF Exit
<1>3. ASSUME NEW s \in Sig, Signal(s)
      PROVE  TableInv'
  BY <1>3, <1>s DEF Signal
<1>4. CASE Stop
  <2>1. hist'.leaked = hist.leaked
    BY <1>0, <1>4 DEF Stop, Histories
  <2> QED BY <1>4, <1>s, <2>1 DEF Stop
<1>5. CASE Restart
  BY <1>5, RestartTable
<1>6. CASE Again
  <2>1. alive
    BY <1>6 DEF Again, PassedOn, TableInv, DeadInv
  <2> QED BY <1>0, <1>6, <2>1, KeptTable DEF Again
<1>p. ASSUME NEW who \in Origins, ao_set_protection(who), ctl \in {"returned", "check", "leave"}, alive
      PROVE  TableInv'
  <2>1. hist'.leaked = hist.leaked
    BY <1>0, <1>p, HistFields DEF ao_set_protection, SameFaults
  <2> QED BY <1>p, <2>1, CallTable, StartTypes DEF ao_set_protection
<1>8. CASE EndCall
  BY <1>0, <1>8, EndCallTable
<1>9. CASE Start
  BY <1>9, StartTable
<1>10. ASSUME NEW r \in {"CONT", "STEP"}, Command(r)
       PROVE  TableInv'
  <2>1. hist'.leaked = hist.leaked
    BY <1>0, <1>10, HistFields DEF Command, SameFaults
  <2> QED BY <1>0, <1>10, <2>1, KeptTable DEF Command, Begin
<1>11. CASE RunLoop
  BY <1>11, RunLoopTable
<1>12. CASE Leave
  BY <1>0, <1>12, KeptTable DEF Leave, Back, EndRun
<1>13. CASE GoOn
  <2>1. alive
    BY <1>13 DEF GoOn, Ends, TableInv, DeadInv
  <2>2. /\ ctl = "returned" /\ ctl' \in {"loop", "check", "leave"} /\ call'.bp = NoBp
        /\ UNCHANGED <<t, alive, stopres, hist>>
    BY <1>0, <1>13 DEF GoOn, Back, EndRun, Onward
  <2> QED BY <2>1, <2>2, KeptTable
<1>14. CASE execute_bp_code
  <2>1. call'.bp = NoBp
    BY <1>14 DEF execute_bp_code, NoCall
  <2> QED BY <1>0, <1>14, <2>1, KeptTable DEF execute_bp_code, Back
<1>15. CASE CodeEnds
  <2>1. /\ ctl = "code" /\ UNCHANGED <<t, alive, stopres, hist>>
        /\ ctl' \in {"leave", "panic", "loop", "check"} /\ call'.bp = NoBp
    BY <1>0, <1>15 DEF CodeEnds, EndRun, Onward
  <2>2. ~alive => ctl' = "leave"
    BY <1>15 DEF CodeEnds, EndRun, TableInv, DeadInv
  <2> QED BY <1>0, <2>1, <2>2, KeptTable
<1>16. ASSUME NEW s \in Sig, NEW attr \in {"CONT", "ACCEPT"}, do_sig(s, attr)
       PROVE  TableInv'
  BY <1>0, <1>16, KeptTable DEF do_sig
<1>17. CASE ContWithWatchpoint
  <2>1. hist'.leaked = hist.leaked /\ ctl = "idle" /\ alive
    BY <1>0, <1>17, HistFields DEF ContWithWatchpoint, Begin, SameFaults
  <2> QED BY <1>17, <2>1, CallTable, StartTypes DEF ContWithWatchpoint, Origins
<1>18. ASSUME NEW a \in Callable, update_expr(a)
       PROVE  TableInv'
  <2>1. hist'.leaked = hist.leaked /\ ctl = "idle" /\ alive
    BY <1>0, <1>18, HistFields DEF update_expr, Begin, SameFaults
  <2> QED BY <1>18, <2>1, CallTable, StartTypes DEF update_expr, Origins
<1>19. ASSUME NEW a \in Callable, CodeCalls(a)
       PROVE  TableInv'
  <2>1. hist'.leaked = hist.leaked /\ ctl = "code"
    BY <1>0, <1>19, HistFields DEF CodeCalls, SameFaults
  <2>2. alive
    BY <1>0, <1>19 DEF CodeCalls, StopInv, TableInv, DeadInv
  <2> QED BY <1>19, <2>1, <2>2, CallTable, StartTypes DEF CodeCalls, Origins
<1>20. CASE Over
  BY <1>20 DEF Over, vars, TableInv, ListInv, DeadInv, CallBpInv, Unleaked, SteppedOver, SteppingOver
<1>21. CASE StrayTrap
  <2>1. /\ Running /\ t' = PutBack /\ alive' = alive /\ UNCHANGED <<call, hist>>
        /\ \/ ctl = "call" /\ ctl' = "called"
           \/ ctl # "call" /\ ctl' \in {"returned", "cont"}
    BY <1>21 DEF StrayTrap, Stepped, Stops
  <2> QED BY <2>1, StopsTable
<1>22. ASSUME NEW s \in Sig, StopWithSignal(s)
       PROVE  TableInv'
  <2>1. hist'.leaked = hist.leaked
    BY <1>0, <1>22 DEF StopWithSignal, Histories
  <2> QED BY <1>22, <1>s, <2>1 DEF StopWithSignal
<1>23. CASE Fault
  <2>1. ctl = "returned" /\ alive
    BY <1>23 DEF Fault, Back, TableInv, DeadInv
  <2>2. CASE ao_set_protection("fault")
    BY <1>p, <2>1, <2>2 DEF Origins
  <2>3. CASE ~ao_set_protection("fault")
    BY <1>0, <1>23, <2>1, <2>3, KeptTable DEF Fault
  <2> QED BY <2>2, <2>3
<1>24. CASE check_all_watchpoints
  <2>1. ctl = "check" /\ alive
    BY <1>24 DEF check_all_watchpoints, TableInv, DeadInv
  <2>2. CASE ao_set_protection("again")
    BY <1>p, <2>1, <2>2 DEF Origins
  <2>3. CASE ~ao_set_protection("again")
    BY <1>0, <1>24, <2>1, <2>3, KeptTable DEF check_all_watchpoints, EndRun
  <2> QED BY <2>2, <2>3
<1>25. CASE uninstall_all_watchpoints
  <2>1. ctl = "leave"
    BY <1>25 DEF uninstall_all_watchpoints
  <2>2. CASE alive /\ ao_set_protection("end")
    BY <1>p, <2>1, <2>2 DEF Origins
  <2>3. CASE ~(alive /\ ao_set_protection("end"))
    BY <1>0, <1>25, <2>1, <2>3, KeptTable DEF uninstall_all_watchpoints
  <2> QED BY <2>2, <2>3
<1> QED BY <1>1, <1>2, <1>3, <1>4, <1>5, <1>6, <1>8, <1>9, <1>10, <1>11, <1>12, <1>13, <1>14,
           <1>15, <1>16, <1>17, <1>18, <1>19, <1>20, <1>21, <1>22, <1>23, <1>24, <1>25
        DEF Next, Proceed

(* Every step keeps what is known of the stack. *)
LEMMA StackNext ==
  ASSUME Types, TableInv, StackInv, StopInv, Next
  PROVE  StackInv'
<1> USE DEF ip, counters
<1>0. hist \in Histories /\ regs \in Regs /\ SameFaults(hist, hist)
  BY DEF Types, SameFaults
<1>1. CASE Execute
  BY <1>1, ExecuteStack
<1>2. ASSUME Running, UNCHANGED <<regs, call>>,
             \/ ctl = "call" /\ ctl' = "called"
             \/ ctl # "call" /\ ctl' \in {"returned", "cont"},
             stopres' # "BPT", SameFaults(hist, hist')
      PROVE  StackInv'
  BY <1>2, StoppedStack, KeptStack DEF Running
<1>s. ASSUME NEW res, NEW s, Stops(res, s), res # "BPT", Running, UNCHANGED <<regs, call>>,
             SameFaults(hist, hist')
      PROVE  StackInv'
  BY <1>2, <1>s DEF Stops
<1>3. CASE Exit
  BY <1>0, <1>2, <1>3 DEF Exit, Dies
<1>4. ASSUME NEW s \in Sig, Signal(s)
      PROVE  StackInv'
  BY <1>0, <1>s, <1>4 DEF Signal
<1>5. CASE Stop
  <2>1. hist' = [hist EXCEPT !.asked = TRUE,
                             !.beaten = hist.beaten \/ (InSteppedCode /\ rtype = "CONT")]
    BY <1>5 DEF Stop
  <2>2. SameFaults(hist, hist')
    BY <1>0, <2>1, HistFields
  <2> QED BY <1>s, <1>5, <2>2 DEF Stop
<1>6. CASE Restart
  <2>1. hist'.short = hist.short /\ hist'.failed = hist.failed /\ hist'.leaked = hist.leaked
    BY <1>0, <1>6 DEF Restart, NoteSignals, Histories
  <2>2. regs'.stack = regs.stack /\ regs'.own = regs.own
    BY <1>0, <1>6 DEF Restart, ResumePc, Regs
  <2>3. ctl = "restart" /\ ctl' \in {"returned", "cont", "step"}
    BY <1>6 DEF Restart, Dies
  <2> QED BY <2>1, <2>2, <2>3 DEF StackInv, CallInv, Unfailed, AllOwn
<1>7. CASE Again
  BY <1>0, <1>7, KeptStack DEF Again
<1>p. ASSUME NEW who \in Origins, ao_set_protection(who), ctl \in {"returned", "check", "leave"}
      PROVE  StackInv'
  <2>1. SameFaults(hist, hist')
    BY <1>0, <1>p, HistFields DEF ao_set_protection
  <2> QED BY <1>p, <2>1, CallStack, StartTypes DEF ao_set_protection
<1>8. CASE EndCall
  BY <1>8, EndCallStack
<1>9. CASE Start
  <2>1. ctl = "idle" /\ ctl' = "idle" /\ regs' = Fresh /\ hist' = hist
    BY <1>9 DEF Start
  <2>2. AllOwn(Fresh)
    BY DEF AllOwn, Fresh
  <2> QED BY <2>1, <2>2 DEF StackInv, CallInv, Unfailed
<1>10. ASSUME NEW r \in {"CONT", "STEP"}, Command(r)
       PROVE  StackInv'
  <2>1. SameFaults(hist, hist')
    BY <1>0, <1>10, HistFields DEF Command
  <2> QED BY <1>10, <2>1, KeptStack DEF Command, Begin
<1>11. CASE RunLoop
  BY <1>0, <1>11, KeptStack DEF RunLoop
<1>12. CASE Leave
  BY <1>0, <1>12, KeptStack DEF Leave, Back, EndRun
<1>13. CASE GoOn
  <2>1. ctl = "returned" /\ UNCHANGED <<regs, hist>> /\ ctl' \in {"loop", "check", "leave"}
    BY <1>13 DEF GoOn, Back, EndRun, Onward
  <2> QED BY <1>0, <2>1, KeptStack
<1>14. CASE execute_bp_code
  BY <1>0, <1>14, KeptStack DEF execute_bp_code, Back
<1>15. CASE CodeEnds
  <2>1. ctl = "code" /\ UNCHANGED <<regs, hist>> /\ ctl' \in {"leave", "panic", "loop", "check"}
    BY <1>15 DEF CodeEnds, EndRun, Onward
  <2> QED BY <1>0, <2>1, KeptStack
<1>16. ASSUME NEW s \in Sig, NEW attr \in {"CONT", "ACCEPT"}, do_sig(s, attr)
       PROVE  StackInv'
  BY <1>0, <1>16, KeptStack DEF do_sig
<1>17. CASE ContWithWatchpoint
  <2>1. SameFaults(hist, hist') /\ ctl = "idle"
    BY <1>0, <1>17, HistFields DEF ContWithWatchpoint, Begin
  <2> QED BY <1>17, <2>1, CallStack, StartTypes DEF ContWithWatchpoint, Origins
<1>18. ASSUME NEW a \in Callable, update_expr(a)
       PROVE  StackInv'
  <2>1. SameFaults(hist, hist') /\ ctl = "idle"
    BY <1>0, <1>18, HistFields DEF update_expr, Begin
  <2> QED BY <1>18, <2>1, CallStack, StartTypes DEF update_expr, Origins
<1>19. ASSUME NEW a \in Callable, CodeCalls(a)
       PROVE  StackInv'
  <2>1. SameFaults(hist, hist')
    BY <1>0, <1>19, HistFields DEF CodeCalls
  <2> QED BY <1>19, <2>1, CallStack, StartTypes DEF CodeCalls, Origins
<1>20. CASE Over
  BY <1>20 DEF Over, vars, StackInv, CallInv, Unfailed, AllOwn, InFunction, HasReturned
<1>21. CASE StrayTrap
  <2>1. /\ Running /\ UNCHANGED <<regs, call, hist>> /\ stopres' = "SSTEP"
        /\ \/ ctl = "call" /\ ctl' = "called"
           \/ ctl # "call" /\ ctl' \in {"returned", "cont"}
    BY <1>21 DEF StrayTrap, Stepped, Stops
  <2> QED BY <1>0, <1>2, <2>1
<1>22. ASSUME NEW s \in Sig, StopWithSignal(s)
       PROVE  StackInv'
  <2>1. SameFaults(hist, hist')
    <3> DEFINE beat == hist.beaten \/ (IF ctl = "call" THEN InSteppedCode ELSE ~SignalEnds(s))
    <3>1. hist' = [hist EXCEPT !.asked = TRUE, !.beaten = beat]
      BY <1>22 DEF StopWithSignal
    <3>2. beat \in BOOLEAN
      BY <1>0 DEF Histories, InSteppedCode, SignalEnds
    <3> HIDE DEF beat
    <3> QED BY <1>0, <3>1, <3>2, HistFields
  <2> QED BY <1>22, <1>s, <2>1 DEF StopWithSignal
<1>23. CASE Fault
  <2>1. ctl = "returned"
    BY <1>23 DEF Fault, Back
  <2>2. CASE ao_set_protection("fault")
    BY <1>p, <2>1, <2>2 DEF Origins
  <2>3. CASE ~ao_set_protection("fault")
    BY <1>0, <1>23, <2>1, <2>3, KeptStack DEF Fault
  <2> QED BY <2>2, <2>3
<1>24. CASE check_all_watchpoints
  <2>1. ctl = "check"
    BY <1>24 DEF check_all_watchpoints
  <2>2. CASE ao_set_protection("again")
    BY <1>p, <2>1, <2>2 DEF Origins
  <2>3. CASE ~ao_set_protection("again")
    BY <1>0, <1>24, <2>1, <2>3, KeptStack DEF check_all_watchpoints, EndRun
  <2> QED BY <2>2, <2>3
<1>25. CASE uninstall_all_watchpoints
  <2>1. ctl = "leave"
    BY <1>25 DEF uninstall_all_watchpoints
  <2>2. CASE ao_set_protection("end")
    BY <1>p, <2>1, <2>2 DEF Origins
  <2>3. CASE ~ao_set_protection("end")
    BY <1>0, <1>25, <2>1, <2>3, KeptStack DEF uninstall_all_watchpoints
  <2> QED BY <2>2, <2>3
<1> QED BY <1>1, <1>3, <1>4, <1>5, <1>6, <1>7, <1>8, <1>9, <1>10, <1>11, <1>12, <1>13, <1>14,
           <1>15, <1>16, <1>17, <1>18, <1>19, <1>20, <1>21, <1>22, <1>23, <1>24, <1>25
        DEF Next, Proceed

(* A step that changes nothing. *)
LEMMA InvStutters ==
  ASSUME Inv, UNCHANGED vars
  PROVE  Inv'
<1> USE DEF vars, ip, counters
<1>1. Types'
  BY DEF Inv, Types
<1>2. TableInv'
  BY DEF Inv, TableInv, ListInv, DeadInv, CallBpInv, Unleaked, SteppedOver, SteppingOver
<1>3. StackInv'
  BY DEF Inv, StackInv, CallInv, Unfailed, AllOwn, InFunction, HasReturned
<1>4. SignalInv'
  BY DEF Inv, SignalInv, StopInv, Uncovered, LastSigDue, Running, SignalsNotRepeated, PanicOnlyOnStop,
         accept_signal
<1> QED BY <1>1, <1>2, <1>3, <1>4 DEF Inv

(* In every reachable state. *)
LEMMA CallsInvariant == Spec => []Inv
<1>1. Inv /\ [Next]_vars => Inv'
  BY InvStutters, TypesNext, TableNext, StackNext, SignalNext DEF Inv, SignalInv
<1> QED BY <1>1, InvInit, PTL DEF Spec

-----------------------------------------------------------------------------
(* What the runs check. *)

(* The variables of Calls keep their types: the list is a table, the       *)
(* registers are addresses of the program, and the breakpoint of a call is *)
(* one of ao_call_func's.                                                  *)
THEOREM CallsTypeCorrect == Spec => []TypeOK
<1>1. Inv => TypeOK
  <2> SUFFICES ASSUME Inv
               PROVE  TypeOK
    OBVIOUS
  <2>1. t \in Tables /\ Types
    BY DEF Inv, TableInv, ListInv, Sound
  <2>2. regs.pc \in Addr /\ regs.stack \in Seq([ret : Addr, own : BOOLEAN]) /\ regs.own \in BOOLEAN
    BY <2>1 DEF Types, Regs, Frames
  <2>3. call.bp \in CallBp \union {NoBp}
    BY <2>1 DEF Types, CallLocals
  <2> QED BY <2>1, <2>2, <2>3 DEF Types, TypeOK
<1> QED BY <1>1, CallsInvariant, PTL

(* As long as every call of ao_call_func came back, the program never runs *)
(* with the registers a called function left.                              *)
THEOREM RegistersRestored == Spec => []CallsTransparent
<1>1. Inv => CallsTransparent
  BY DEF Inv, StackInv, Unfailed, CallsTransparent
<1> QED BY <1>1, CallsInvariant, PTL

(* ao_call_func takes a call for done only when the function returned, or  *)
(* the function the target is stopped in is one that it can reach by       *)
(* calls: whatever functions the program has, and whichever call which, no *)
(* other breakpoint, signal or Stop passes for the return.                 *)
THEOREM CallsComplete == Spec => []CallsRunToEnd
<1>1. Inv => CallsRunToEnd
  BY DEF Inv, StackInv, CallInv, CallsRunToEnd
<1> QED BY <1>1, CallsInvariant, PTL

(* Until a target died in a call, its breakpoint is gone when the user has *)
(* control, and every trap in the text is one of the list's.               *)
THEOREM ListLeftClean == Spec => []ListClean
<1>1. Inv => ListClean
  <2> SUFFICES ASSUME Inv, ~hist.leaked
               PROVE  /\ ctl = "idle" => t.live \subseteq UserBp
                      /\ ctl # "wild"
                      /\ \A a \in Addr : (t.text[a] = BPT) <=> (get_breakpoint_at_addr(t, a) # {})
    BY DEF ListClean
  <2>1. Unleaked /\ Sound(t) /\ Intact(t) /\ Late = {}
    BY CallsAssumption DEF Inv, TableInv, ListInv, Unleaked
  <2>2. ctl = "idle" => t.live \subseteq UserBp
    BY <2>1, NoCallBp DEF Inv, TableInv, CallBpInv
  <2>3. \A a \in Addr : (t.text[a] = BPT) <=> (get_breakpoint_at_addr(t, a) # {})
    BY <2>1, TextOfIntact
  <2> QED BY <2>1, <2>2, <2>3 DEF Unleaked
<1> QED BY <1>1, CallsInvariant, PTL

(* A signal the target is to accept is passed on to it by                  *)
(* get_restart_sig or the loop of ao_restart_child, unless a call came     *)
(* between the stop and the restart, by the user, by breakpoint code or by *)
(* a watched run.                                                          *)
THEOREM SignalsPassedOn == Spec => []SignalsKept
<1>1. Inv => SignalsKept
  BY DEF Inv, Types, SignalInv, Uncovered, SignalsKept
<1> QED BY <1>1, CallsInvariant, PTL

(* The target is only restarted with a signal it stopped for since it last *)
(* ran, through every call and every fault of a watched run in between:    *)
(* ip_lastsig is never a signal that was delivered already.                *)
THEOREM SignalsDeliveredOnce == Spec => []SignalsNotRepeated
<1>1. Inv => SignalsNotRepeated
  BY DEF Inv, SignalInv
<1> QED BY <1>1, CallsInvariant, PTL

(* The assertion of dx_run_target_ss only fails when Stop was pressed in   *)
(* the code of a breakpoint that a step came to.                           *)
THEOREM AssertionFailsOnStopOnly == Spec => []PanicOnlyOnStop
<1>1. Inv => PanicOnlyOnStop
  BY DEF Inv, SignalInv
<1> QED BY <1>1, CallsInvariant, PTL
==============================================================================
