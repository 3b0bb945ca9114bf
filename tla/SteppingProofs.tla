--------------------------- MODULE SteppingProofs ----------------------------
(***************************************************************************)
(* What Step, Next, Execute to here and Jump to here leave behind, and     *)
(* that Next stays out of what it calls, proved of Stepping for any        *)
(* program, any breakpoints and any number of signals and presses of Stop. *)
(***************************************************************************)
EXTENDS Stepping, TableProofs, SequenceTheorems

-----------------------------------------------------------------------------
(* The inductive invariant. *)

Names == {Func[a] : a \in Nat}
Lines == {Line[a] : a \in Nat} \union {0}

Locals ==
  [cont_type : {"STEP", "CONT"}, stop_bp : Bp \union {NoBp}, tmp_bp : BOOLEAN,
   jsr_sp : Int, jsr_fp : Int, orig_f : Names, orig_lnum : Lines, f : Names,
   pc : Nat, sp : Int, plt_stop : BOOLEAN]

(* TypeOK, with the locals and without the table. *)
Types ==
  /\ alive \in BOOLEAN /\ pc \in Addr /\ stack \in Seq(Addr)
  /\ ctl \in Points /\ rtype \in Commands
  /\ over \in Bp \union {NoBp} /\ L \in Locals
  /\ stopres \in {"SSTEP", "BPT", "SIG", "USER", "DIED"} /\ lastsig \in BOOLEAN
  /\ dest \in Addr /\ missed \in BOOLEAN
  /\ sel \in [fp : Int, func : Names, pc : Addr]

Good(x) == Intact(x) /\ OneEach(x)
AllOn(x) == \A b \in x.live : x.enabled[b]

(* The temporary breakpoint is in the list exactly while a command says    *)
(* so, a stop_bp is in the list, a breakpoint stepped over is out of the   *)
(* text, and a stop at a trap is at a breakpoint of the list.  Only        *)
(* exec_to_lnum and jump_to_lnum disable breakpoints.                      *)
TableInv ==
  /\ Good(t)
  /\ TempBp \in t.live <=> L.tmp_bp
  /\ L.stop_bp # NoBp => L.stop_bp \in t.live
  /\ Stepped(rtype) /\ L.tmp_bp => L.stop_bp = TempBp
  /\ ctl = "idle" \/ Stepped(rtype) => AllOn(t)
  /\ ctl = "idle" => ~L.tmp_bp
  /\ ctl = "step" /\ over # NoBp => over \in t.live /\ ~t.xp[over]
  /\ ctl = "back" /\ stopres = "BPT" => get_breakpoint_at_addr(t, pc) # {}

Inv == Types /\ TableInv
-----------------------------------------------------------------------------
(* What the operations on the list do to a good one. *)

(* Its fields, and what its marks say of a trap. *)
LEMMA GoodTypes ==
  ASSUME NEW x, Good(x)
  PROVE  /\ x \in Tables /\ x.live \subseteq Bp /\ Intact(x) /\ OneEach(x) /\ TrapsApart(x)
         /\ x.xp \in [Bp -> BOOLEAN]
         /\ \A b \in Bp : x.xp[b] => b \in x.live
         /\ TempBp \in Bp /\ NoBp \notin Bp
BY SteppingAssumption DEF Good, Intact, Tables, MarksAgree

(* Only traps and marks change. *)
LEMMA GoodSame ==
  ASSUME NEW x, Good(x), NEW y, Intact(y), SameList(x, y)
  PROVE  Good(y) /\ y.live = x.live /\ y.addr = x.addr
<1>1. OneEach(y)
  BY SameListKeeps DEF Good
<1> QED BY <1>1 DEF Good, SameList

(* install_breakpoint, with force or without. *)
LEMMA GoodInstall ==
  ASSUME NEW x, Good(x), NEW b \in x.live, ~x.xp[b], NEW force \in BOOLEAN
  PROVE  LET y == install_breakpoint(x, b, force)
         IN  Good(y) /\ y.live = x.live /\ y.addr = x.addr /\ y.enabled = x.enabled
<1> DEFINE y == install_breakpoint(x, b, force)
<1>0. x \in Tables /\ b \in Bp /\ Intact(x)
  BY GoodTypes
<1>1. \A c \in Bp : x.xp[c] => x.addr[c] # x.addr[b]
  BY GoodTypes DEF OneEach
<1>2. Intact(y)
  BY <1>0, <1>1, InstallIntact
<1>3. y \in Tables /\ SameList(x, y) /\ y.enabled = x.enabled
  BY <1>0, InstallFields
<1> HIDE DEF y
<1>4. Good(y) /\ y.live = x.live /\ y.addr = x.addr
  BY <1>2, <1>3, GoodSame
<1> QED BY <1>3, <1>4 DEF y

(* uninstall_breakpoint *)
LEMMA GoodUninstall ==
  ASSUME NEW x, Good(x), NEW b \in x.live
  PROVE  LET y == uninstall_breakpoint(x, b)
         IN  /\ Good(y) /\ y.live = x.live /\ y.addr = x.addr /\ y.enabled = x.enabled
             /\ ~y.xp[b]
<1> DEFINE y == uninstall_breakpoint(x, b)
<1>0. x \in Tables /\ b \in Bp /\ Intact(x)
  BY GoodTypes
<1>1. Intact(y) /\ ~y.xp[b]
  BY <1>0, UninstallIntact
<1>2. y \in Tables /\ SameList(x, y) /\ y.enabled = x.enabled
  BY <1>0, UninstallFields
<1> HIDE DEF y
<1>3. Good(y) /\ y.live = x.live /\ y.addr = x.addr
  BY <1>1, <1>2, GoodSame
<1> QED BY <1>1, <1>2, <1>3 DEF y

(* install_all_breakpoints and uninstall_all_breakpoints *)
LEMMA GoodAll ==
  ASSUME NEW x, Good(x), NEW y, y \in {install_all_breakpoints(x), uninstall_all_breakpoints(x)}
  PROVE  Good(y) /\ y.live = x.live /\ y.addr = x.addr /\ y.enabled = x.enabled
<1>0. x \in Tables /\ Intact(x) /\ OneEach(x)
  BY GoodTypes
<1>1. CASE y = install_all_breakpoints(x)
  <2>1. Intact(install_all_breakpoints(x))
    BY <1>0, InstallAllIntact
  <2>2. /\ SameList(x, install_all_breakpoints(x))
        /\ install_all_breakpoints(x).enabled = x.enabled
    BY <1>0, InstallAllFields
  <2>3. Intact(y) /\ SameList(x, y) /\ y.enabled = x.enabled
    BY <1>1, <2>1, <2>2
  <2> QED BY <2>3, GoodSame
<1>2. CASE y = uninstall_all_breakpoints(x)
  <2>1. /\ Intact(uninstall_all_breakpoints(x)) /\ SameList(x, uninstall_all_breakpoints(x))
        /\ uninstall_all_breakpoints(x).enabled = x.enabled
    BY <1>0, UninstallAllIntact
  <2>2. Intact(y) /\ SameList(x, y) /\ y.enabled = x.enabled
    BY <1>2, <2>1
  <2> QED BY <2>2, GoodSame
<1> QED BY <1>1, <1>2

(* The process has died. *)
LEMMA GoodGone ==
  ASSUME NEW x, Good(x)
  PROVE  LET y == FreshText(mark_breakpoints_as_uninstalled(x))
         IN  Good(y) /\ y.live = x.live /\ y.enabled = x.enabled
<1> DEFINE y == FreshText(mark_breakpoints_as_uninstalled(x))
<1>0. x \in Tables /\ Intact(x) /\ OneEach(x)
  BY GoodTypes
<1>1. y.enabled = x.enabled /\ y.live = x.live /\ y.addr = x.addr
  BY <1>0, GoneFields
<1>2. Intact(y)
  BY <1>0, GoneIntact
<1> HIDE DEF y
<1>3. Good(y)
  BY <1>0, <1>1, <1>2 DEF Good, OneEach
<1> QED BY <1>1, <1>3 DEF y

(* The temporary breakpoint is added where there is none. *)
LEMMA GoodAdd ==
  ASSUME NEW x, Good(x), TempBp \notin x.live, NEW a \in Addr, dx_addr_to_breakpoint(x, a) = {}
  PROVE  LET y == dx_add_breakpoint(x, TempBp, a, NoCode, "none")
         IN  /\ Good(y) /\ y.live = x.live \union {TempBp} /\ ~y.xp[TempBp]
             /\ AllOn(x) => AllOn(y)
<1> DEFINE y == dx_add_breakpoint(x, TempBp, a, NoCode, "none")
<1>0. x \in Tables /\ Intact(x) /\ OneEach(x) /\ x.live \subseteq Bp /\ TempBp \in Bp /\ NoCode \in Code
  BY GoodTypes, NoTypes
<1>1. /\ y.live = x.live \union {TempBp} /\ ~y.xp[TempBp] /\ y.enabled[TempBp]
      /\ \A c \in Bp \ {TempBp} :
           /\ y.xp[c] = x.xp[c] /\ y.installed[c] = x.installed[c]
           /\ y.enabled[c] = x.enabled[c]
  BY <1>0, AddFields
<1>2. Intact(y) /\ OneEach(y)
  BY <1>0, AddIntact
<1> HIDE DEF y
<1>3. AllOn(x) => AllOn(y)
  BY <1>0, <1>1 DEF AllOn
<1> QED BY <1>1, <1>2, <1>3 DEF y, Good

(* It goes, when it is there. *)
Dropped(x, tmp) == IF tmp THEN dx_remove_breakpoint(x, TempBp) ELSE x

(* dx_remove_breakpoint of the temporary breakpoint, or nothing. *)
LEMMA GoodDropped ==
  ASSUME NEW x, Good(x), NEW tmp \in BOOLEAN, TempBp \in x.live <=> tmp
  PROVE  LET y == Dropped(x, tmp)
         IN  /\ Good(y) /\ y.live = x.live \ {TempBp}
             /\ AllOn(x) => AllOn(y)
<1>1. CASE tmp
  <2> DEFINE y == dx_remove_breakpoint(x, TempBp)
  <2>0. x \in Tables /\ Intact(x) /\ OneEach(x) /\ x.live \subseteq Bp /\ TempBp \in Bp
        /\ TempBp \in x.live
    BY <1>1, GoodTypes
  <2>1. /\ y.live = x.live \ {TempBp} /\ ~y.xp[TempBp]
        /\ \A c \in Bp \ {TempBp} :
             /\ y.xp[c] = x.xp[c] /\ y.installed[c] = x.installed[c]
             /\ y.enabled[c] = x.enabled[c]
    BY <2>0, RemoveFields
  <2>2. Intact(y) /\ OneEach(y)
    BY <2>0, RemoveIntact
  <2>3. Dropped(x, tmp) = y
    BY <1>1 DEF Dropped
  <2> HIDE DEF y
  <2>4. AllOn(x) => AllOn(y)
    BY <2>0, <2>1 DEF AllOn
  <2> QED BY <2>1, <2>2, <2>3, <2>4 DEF Good
<1>2. CASE ~tmp
  BY <1>2 DEF Dropped
<1> QED BY <1>1, <1>2

(* The breakpoint to stop at: one that is there, or the temporary one. *)
Placed(u, a) ==
  IF dx_addr_to_breakpoint(u, a) = {} THEN dx_add_breakpoint(u, TempBp, a, NoCode, "none") ELSE u
PlacedBp(u, a) ==
  IF dx_addr_to_breakpoint(u, a) = {} THEN TempBp ELSE FirstOf(u, dx_addr_to_breakpoint(u, a))

(* Either way a breakpoint of the list is at the address. *)
LEMMA GoodPlaced ==
  ASSUME NEW u, Good(u), TempBp \notin u.live, NEW a \in Addr
  PROVE  LET v == Placed(u, a)
             b == PlacedBp(u, a)
         IN  /\ Good(v) /\ b \in v.live
             /\ TempBp \in v.live <=> dx_addr_to_breakpoint(u, a) = {}
             /\ dx_addr_to_breakpoint(u, a) = {} => b = TempBp
             /\ AllOn(u) => AllOn(v)
<1>1. CASE dx_addr_to_breakpoint(u, a) = {}
  <2> DEFINE y == dx_add_breakpoint(u, TempBp, a, NoCode, "none")
  <2>1. /\ Good(y) /\ y.live = u.live \union {TempBp}
        /\ AllOn(u) => AllOn(y)
    BY <1>1, GoodAdd
  <2>2. Placed(u, a) = y /\ PlacedBp(u, a) = TempBp
    BY <1>1 DEF Placed, PlacedBp
  <2> HIDE DEF y
  <2> QED BY <1>1, <2>1, <2>2
<1>2. CASE dx_addr_to_breakpoint(u, a) # {}
  <2>1. u \in Tables /\ OneEach(u)
    BY GoodTypes
  <2>2. FirstOf(u, dx_addr_to_breakpoint(u, a)) \in u.live
    BY <1>2, <2>1, FirstAtAddr
  <2>3. Placed(u, a) = u /\ PlacedBp(u, a) = FirstOf(u, dx_addr_to_breakpoint(u, a))
    BY <1>2 DEF Placed, PlacedBp
  <2> QED BY <1>2, <2>2, <2>3
<1> QED BY <1>1, <1>2

(* Next and Step put it in by force. *)
LEMMA GoodStopBp ==
  ASSUME NEW u, Good(u), TempBp \notin u.live, NEW a \in Addr
  PROVE  LET s == WithStopBp(u, a)
         IN  /\ Good(s.table) /\ s.bp \in s.table.live /\ s.bp \in Bp
             /\ s.added \in BOOLEAN
             /\ TempBp \in s.table.live <=> s.added
             /\ s.added => s.bp = TempBp
             /\ AllOn(u) => AllOn(s.table)
<1> DEFINE v == Placed(u, a)
           b == PlacedBp(u, a)
           w == IF v.xp[b] THEN v ELSE install_breakpoint(v, b, TRUE)
<1>1. /\ Good(v) /\ b \in v.live
      /\ TempBp \in v.live <=> dx_addr_to_breakpoint(u, a) = {}
      /\ dx_addr_to_breakpoint(u, a) = {} => b = TempBp
      /\ AllOn(u) => AllOn(v)
  BY GoodPlaced
<1>2. /\ WithStopBp(u, a).table = w /\ WithStopBp(u, a).bp = b
      /\ WithStopBp(u, a).added = (dx_addr_to_breakpoint(u, a) = {})
  BY DEF WithStopBp, Placed, PlacedBp
<1> HIDE DEF v, b
<1>3. b \in Bp
  BY <1>1, GoodTypes
<1>4. Good(w) /\ w.live = v.live /\ w.enabled = v.enabled
  <2>1. CASE v.xp[b]
    BY <1>1, <2>1
  <2>2. CASE ~v.xp[b]
    <3>1. LET y == install_breakpoint(v, b, TRUE)
          IN  Good(y) /\ y.live = v.live /\ y.enabled = v.enabled
      BY <1>1, <2>2, GoodInstall
    <3> QED BY <2>2, <3>1
  <2> QED BY <2>1, <2>2
<1> HIDE DEF w
<1>5. AllOn(v) => AllOn(w)
  BY <1>4 DEF AllOn
<1>6. (dx_addr_to_breakpoint(u, a) = {}) \in BOOLEAN
  BY Zenon
<1> QED BY <1>1, <1>2, <1>3, <1>4, <1>5, <1>6

(* exec_to_lnum and jump_to_lnum put it in alone. *)
LEMMA GoodOnly ==
  ASSUME NEW u, Good(u), TempBp \notin u.live, NEW a \in Addr
  PROVE  LET y == OnlyBreakpoint(u, a)
         IN  /\ Good(y)
             /\ TempBp \in y.live <=> dx_addr_to_breakpoint(u, a) = {}
<1> DEFINE v == Placed(u, a)
           b == PlacedBp(u, a)
           d == DisableAll(v)
           y == EnableOne(d, b)
<1>1. /\ Good(v) /\ b \in v.live
      /\ TempBp \in v.live <=> dx_addr_to_breakpoint(u, a) = {}
  BY GoodPlaced
<1>2. OnlyBreakpoint(u, a) = y
  BY DEF OnlyBreakpoint, Placed, PlacedBp
<1> HIDE DEF v, b
<1>3. Intact(d) /\ SameList(v, d)
  BY <1>1, GoodTypes, DisableAllIntact
<1> HIDE DEF d
<1>4. Good(d) /\ d.live = v.live
  BY <1>1, <1>3, GoodSame
<1>5. Intact(y) /\ SameList(d, y)
  <2>1. Intact(d) /\ OneEach(d) /\ b \in d.live
    BY <1>1, <1>4 DEF Good
  <2> QED BY <2>1, EnableOneIntact
<1> HIDE DEF y
<1>6. Good(y) /\ y.live = d.live
  BY <1>4, <1>5, GoodSame
<1> QED BY <1>1, <1>2, <1>4, <1>6

(* They enable all again. *)
LEMMA GoodEnabled ==
  ASSUME NEW x, Good(x)
  PROVE  LET y == EnableAll(x)
         IN  Good(y) /\ y.live = x.live /\ AllOn(y)
<1> DEFINE y == EnableAll(x)
<1>1. /\ Intact(y) /\ SameList(x, y)
      /\ \A b \in x.live : y.enabled[b]
  BY GoodTypes, EnableAllIntact
<1> HIDE DEF y
<1>2. Good(y) /\ y.live = x.live
  BY <1>1, GoodSame
<1> QED BY <1>1, <1>2 DEF y, AllOn

-----------------------------------------------------------------------------
(* What the commands read of the target. *)

(* The frames have addresses and pointers. *)
LEMMA Frames ==
  ASSUME Types
  PROVE  /\ Depth \in Nat /\ SP \in Int /\ FP \in Int
         /\ \A d \in 1..Depth : /\ FramePc(d) \in Addr /\ FrameFp(d) \in Int
                                /\ AdjustedPc(d) \in Nat
<1>1. stack \in Seq(Addr) /\ pc \in Addr /\ Addr \subseteq Nat \ {0}
  BY SteppingAssumption DEF Types
<1>2. Depth \in Nat
  BY <1>1, LenProperties DEF Depth
<1>3. SP \in Int /\ FP \in Int
  BY <1>2 DEF SP, SpOf, FP
<1>4. ASSUME NEW d \in 1..Depth
      PROVE  FramePc(d) \in Addr /\ FrameFp(d) \in Int /\ AdjustedPc(d) \in Nat
  <2>1. CASE d = Depth
    BY <1>1, <1>3, <2>1 DEF FramePc, FrameFp, AdjustedPc
  <2>2. CASE d # Depth
    <3>1. d + 1 \in 1..Len(stack)
      BY <1>2, <2>2 DEF Depth
    <3>2. stack[d + 1] \in Addr
      BY <1>1, <3>1, ElementOfSeq
    <3>3. FramePc(d) \in Addr
      BY <2>2, <3>2 DEF FramePc
    <3>4. d \in Int
      BY <1>2
    <3>5. FrameFp(d) \in Int
      BY <2>2, <3>4 DEF FrameFp
    <3>6. AdjustedPc(d) \in Nat
      <4> DEFINE r == stack[d + 1]
      <4>1. r \in Nat \ {0}
        BY <1>1, <3>2
      <4>2. AdjustedPc(d) = r - 1
        BY <2>2 DEF AdjustedPc
      <4> HIDE DEF r
      <4> QED BY <4>1, <4>2
    <3> QED BY <3>3, <3>5, <3>6
  <2> QED BY <2>1, <2>2
<1> QED BY <1>2, <1>3, <1>4

(* An instruction leaves an address and a stack of addresses. *)
LEMMA PlaceTypes ==
  ASSUME Types, NEW place \in Places
  PROVE  place[1] \in Addr /\ place[2] \in Seq(Addr)
<1>1. stack \in Seq(Addr) /\ pc \in Addr /\ Len(stack) \in Nat
  BY LenProperties DEF Types
<1>2. /\ place[1] \in Addr
      /\ RunInstruction(place[1], place[2])
  BY DEF Places
<1>3. \/ place[2] = stack
      \/ Kind[pc] = "call" /\ place[2] = Append(stack, pc + 1)
      \/ place[2] = SubSeq(stack, 1, Depth - 1)
  BY <1>1, <1>2, SteppingAssumption DEF RunInstruction
<1>4. Kind[pc] = "call" => Append(stack, pc + 1) \in Seq(Addr)
  BY <1>1, SteppingAssumption, AppendProperties
<1>5. SubSeq(stack, 1, Depth - 1) \in Seq(Addr)
  <2>1. \A i \in 1..(Depth - 1) : stack[i] \in Addr
    BY <1>1, ElementOfSeq DEF Depth
  <2>2. Depth - 1 \in Int
    BY <1>1 DEF Depth
  <2> HIDE DEF Depth
  <2> QED BY <2>1, <2>2, SubSeqProperties
<1> QED BY <1>1, <1>2, <1>3, <1>4, <1>5

(* The handler returns to the pc. *)
LEMMA HandlerTypes ==
  ASSUME Types
  PROVE  Handler \in Addr /\ Append(stack, pc) \in Seq(Addr)
BY SteppingAssumption, AppendProperties DEF Types

(* Where Next and Step run to is in the text: at the level of main or      *)
(* below a return address is on the stack.                                 *)
LEMMA RetAddrTypes ==
  ASSUME Types, SP <= BaseSp, RetAddr # 0
  PROVE  RetAddr \in Addr /\ (ThroughStub => Func[Callee[pc]] \in Names)
<1>1. stack \in Seq(Addr) /\ pc \in Addr /\ Addr \subseteq Nat \ {0} /\ Depth \in Nat
  BY SteppingAssumption, Frames DEF Types
<1>2. Depth # 0
  BY <1>1 DEF SP, BaseSp, SpOf
<1>3. stack[Depth] \in Addr
  BY <1>1, <1>2, ElementOfSeq DEF Depth
<1>4. ThroughStub => Callee[pc] \in Addr /\ MinBpt[Func[Callee[pc]]] \in Addr
  BY <1>1, SteppingAssumption DEF ThroughStub
<1>5. ThroughStub => Func[Callee[pc]] \in Names
  BY <1>1, <1>4 DEF Names
<1> HIDE DEF ThroughStub
<1> QED BY <1>1, <1>3, <1>4, <1>5 DEF RetAddr

(* The breakpoint a stop at a trap is for is in the list. *)
LEMMA HereInList ==
  ASSUME TableInv, ctl = "back", stopres = "BPT"
  PROVE  Here \in t.live /\ Here \in Bp
<1>1. Good(t) /\ get_breakpoint_at_addr(t, pc) # {}
  BY DEF TableInv
<1>2. t \in Tables /\ TrapsApart(t)
  BY <1>1, GoodTypes
<1> QED BY <1>1, <1>2, FirstInstalled DEF Here

-----------------------------------------------------------------------------
(* Types are kept. *)

(* The locals a command has none of. *)
LEMMA NoLocalsTypes ==
  NoLocals \in Locals /\ NoSel \in [fp : Int, func : Names, pc : Addr] /\ Main \in Addr
<1>1. Main \in Addr /\ Main \in Nat
  BY SteppingAssumption
<1>2. Func[Main] \in Names
  BY <1>1 DEF Names
<1>3. NoSel \in [fp : Int, func : Names, pc : Addr]
  BY <1>1, <1>2 DEF NoSel
<1>4. NoLocals \in Locals
  BY <1>1, <1>2, SteppingAssumption DEF NoLocals, Locals, Lines
<1> QED BY <1>1, <1>3, <1>4

(* Those of exec_to_lnum and jump_to_lnum. *)
LEMMA ContdTypes ==
  ASSUME Types, NEW tmp \in BOOLEAN
  PROVE  /\ Contd(tmp) \in Locals
         /\ Contd(tmp).stop_bp = NoBp /\ Contd(tmp).tmp_bp = tmp
<1>1. L \in Locals
  BY DEF Types
<1> QED BY <1>1 DEF Contd, Locals

(* What the loop sets of them once it has read the target. *)
LEMMA ObservedTypes ==
  ASSUME Types
  PROVE  /\ Observed \in Locals
         /\ Observed.stop_bp = L.stop_bp /\ Observed.tmp_bp = L.tmp_bp
         /\ Func[pc] \in Names /\ Line[pc] \in Lines /\ L.f \in Names
<1>1. L \in Locals /\ pc \in Nat
  BY SteppingAssumption DEF Types
<1>2. SP \in Int
  BY Frames
<1>3. Func[pc] \in Names /\ Line[pc] \in Lines
  BY <1>1 DEF Names, Lines
<1> DEFINE stops == IF stopres = "BPT" THEN FALSE ELSE L.plt_stop
<1>4. stops \in BOOLEAN
  BY <1>1 DEF Locals
<1>5. Observed = [L EXCEPT !.f = Func[pc], !.pc = pc, !.sp = SP, !.plt_stop = stops]
  BY DEF Observed
<1> HIDE DEF stops, SP
<1> QED BY <1>1, <1>2, <1>3, <1>4, <1>5 DEF Locals

(* The frame a command is about. *)
LEMMA SelectTypes ==
  ASSUME Types, NEW d \in 1..Depth, SelectFrame(d)
  PROVE  /\ sel' \in [fp : Int, func : Names, pc : Addr] /\ missed' \in BOOLEAN
         /\ Func[AdjustedPc(d)] \in Names /\ Line[AdjustedPc(d)] \in Lines
<1>1. FrameFp(d) \in Int /\ AdjustedPc(d) \in Nat /\ pc \in Addr
  BY Frames DEF Types
<1>2. Func[AdjustedPc(d)] \in Names /\ Line[AdjustedPc(d)] \in Lines
  BY <1>1 DEF Names, Lines
<1>3. missed' \in BOOLEAN
  BY Zenon DEF SelectFrame
<1>4. sel' = [fp |-> FrameFp(d), func |-> Func[AdjustedPc(d)], pc |-> pc]
  BY DEF SelectFrame
<1> HIDE DEF FrameFp, AdjustedPc
<1> QED BY <1>1, <1>2, <1>3, <1>4

(* The end of a command. *)
LEMMA GoIdleTypes ==
  ASSUME GoIdle
  PROVE  /\ ctl' = "idle" /\ L' \in Locals /\ L'.stop_bp = NoBp /\ L'.tmp_bp = FALSE
         /\ over' = NoBp /\ dest' \in Addr /\ sel' \in [fp : Int, func : Names, pc : Addr]
         /\ missed' \in BOOLEAN
<1>1. missed' \in BOOLEAN
  BY Zenon DEF GoIdle
<1>2. ctl' = "idle" /\ L' = NoLocals /\ over' = NoBp /\ dest' = Main /\ sel' = NoSel
  BY DEF GoIdle
<1>3. NoLocals.stop_bp = NoBp /\ NoLocals.tmp_bp = FALSE
  BY DEF NoLocals
<1> HIDE DEF NoLocals, NoSel
<1> QED BY <1>1, <1>2, <1>3, NoLocalsTypes

-----------------------------------------------------------------------------
(* Every action keeps the invariant. *)

(* A step of a command that leaves its breakpoints in the list. *)
LEMMA TableKept ==
  ASSUME TableInv, Good(t'), t'.live = t.live, AllOn(t) => AllOn(t'),
         L'.stop_bp = L.stop_bp, L'.tmp_bp = L.tmp_bp, rtype' = rtype,
         ctl # "idle", ctl' # "idle",
         ctl' = "step" /\ over' # NoBp => over' \in t'.live /\ ~t'.xp[over'],
         ctl' = "back" /\ stopres' = "BPT" => get_breakpoint_at_addr(t', pc') # {}
  PROVE  TableInv'
BY DEF TableInv, Stepped

(* The same list, enabled as before. *)
LEMMA AllOnSame ==
  ASSUME NEW x, NEW y, y.live = x.live, y.enabled = x.enabled
  PROVE  AllOn(x) => AllOn(y)
BY DEF AllOn

(* ao_restart_child *)
LEMMA RestartKeeps ==
  ASSUME Inv, Restart
  PROVE  Inv'
<1>1. Types /\ TableInv /\ Good(t)
  BY DEF Inv, TableInv
<1>2. PICK u \in {IF L.cont_type = "CONT" THEN install_all_breakpoints(t)
                                          ELSE uninstall_all_breakpoints(t)} :
        LET here == get_breakpoint_at_addr(u, pc)
        IN  IF here # {}
            THEN /\ over' = FirstOf(u, here)
                 /\ t' = uninstall_breakpoint(u, over')
                 /\ ctl' = "step"
            ELSE /\ over' = NoBp
                 /\ t' = u
                 /\ ctl' = IF L.cont_type = "CONT" THEN "cont" ELSE "step"
  BY DEF Restart
<1>3. /\ ctl = "loop" /\ rtype' = rtype /\ L' = L /\ stopres' = stopres /\ lastsig' = lastsig
      /\ dest' = dest /\ sel' = sel /\ missed' = missed /\ alive' = alive /\ pc' = pc /\ stack' = stack
  BY DEF Restart, machine, hist
<1>4. u \in {install_all_breakpoints(t), uninstall_all_breakpoints(t)}
  OBVIOUS
<1>5. Good(u) /\ u.live = t.live /\ u.enabled = t.enabled
  BY <1>1, <1>4, GoodAll
<1>6. CASE get_breakpoint_at_addr(u, pc) # {}
  <2> DEFINE b == FirstOf(u, get_breakpoint_at_addr(u, pc))
             y == uninstall_breakpoint(u, b)
  <2>1. over' = b /\ t' = y /\ ctl' = "step"
    BY <1>2, <1>6
  <2>2. u \in Tables /\ TrapsApart(u)
    BY <1>5, GoodTypes
  <2>3. b \in u.live /\ b \in Bp
    BY <1>6, <2>2, FirstInstalled
  <2> HIDE DEF b
  <2>4. Good(y) /\ y.live = u.live /\ y.enabled = u.enabled /\ ~y.xp[b]
    BY <1>5, <2>3, GoodUninstall
  <2> HIDE DEF y
  <2>5. Good(t') /\ t'.live = t.live /\ t'.enabled = t.enabled /\ ~t'.xp[over'] /\ over' \in t'.live
    BY <1>5, <2>1, <2>3, <2>4
  <2>6. TableInv'
    BY <1>1, <1>3, <2>1, <2>5, AllOnSame, TableKept
  <2>7. Types'
    BY <1>1, <1>3, <2>1, <2>3 DEF Types, Points
  <2> QED BY <2>6, <2>7 DEF Inv
<1>7. CASE get_breakpoint_at_addr(u, pc) = {}
  <2>1. over' = NoBp /\ t' = u /\ ctl' \in {"cont", "step"}
    BY <1>2, <1>7
  <2>2. Good(t') /\ t'.live = t.live /\ t'.enabled = t.enabled
    BY <1>5, <2>1
  <2>3. TableInv'
    BY <1>1, <1>3, <2>1, <2>2, AllOnSame, TableKept
  <2>4. Types'
    BY <1>1, <1>3, <2>1 DEF Types, Points
  <2> QED BY <2>3, <2>4 DEF Inv
<1> QED BY <1>6, <1>7

(* The breakpoint stepped over goes back. *)
LEMMA GoodPutBack ==
  ASSUME TableInv, ctl = "step"
  PROVE  Good(PutBack) /\ PutBack.live = t.live /\ PutBack.enabled = t.enabled
<1>1. Good(t) /\ (over # NoBp => over \in t.live /\ ~t.xp[over])
  BY DEF TableInv
<1>2. CASE over = NoBp
  BY <1>1, <1>2 DEF PutBack
<1>3. CASE over # NoBp
  <2> DEFINE y == install_breakpoint(t, over, FALSE)
  <2>1. FALSE \in BOOLEAN
    BY Zenon
  <2>2. Good(y) /\ y.live = t.live /\ y.enabled = t.enabled
    BY <1>1, <1>3, <2>1, GoodInstall
  <2>3. PutBack = y
    BY <1>3 DEF PutBack
  <2> QED BY <2>2, <2>3
<1> QED BY <1>2, <1>3

(* One instruction, or the entry to the handler, single stepped. *)
LEMMA SingleStepKeeps ==
  ASSUME Inv, SingleStep
  PROVE  Inv'
<1>1. Types /\ TableInv
  BY DEF Inv
<1>2. /\ ctl = "step" /\ t' = PutBack /\ stopres' = "SSTEP" /\ ctl' \in {"cont", "back"}
      /\ rtype' = rtype /\ L' = L /\ over' = over /\ dest' = dest /\ sel' = sel /\ alive' = alive
  BY DEF SingleStep
<1>3. Good(t') /\ t'.live = t.live /\ t'.enabled = t.enabled
  BY <1>1, <1>2, GoodPutBack
<1>4. TableInv'
  BY <1>1, <1>2, <1>3, AllOnSame, TableKept
<1>5. lastsig' \in BOOLEAN
  BY Zenon DEF SingleStep
<1>6. pc' \in Addr /\ stack' \in Seq(Addr)
  BY <1>1, PlaceTypes, HandlerTypes DEF SingleStep
<1>7. missed' \in BOOLEAN
  <2>1. CASE lastsig
    BY <1>1, <2>1 DEF SingleStep, hist, Types
  <2>2. CASE ~lastsig
    <3>1. Note
      BY <2>2 DEF SingleStep
    <3> QED BY <3>1, Zenon DEF Note
  <2> QED BY <2>1, <2>2
<1>8. Types'
  BY <1>1, <1>2, <1>5, <1>6, <1>7 DEF Types, Points
<1> QED BY <1>4, <1>8 DEF Inv

(* The process runs. *)
LEMMA RunKeeps ==
  ASSUME Inv, Run
  PROVE  Inv'
<1>1. Types /\ TableInv /\ Good(t)
  BY DEF Inv, TableInv
<1>2. /\ ctl = "cont" /\ t' = t
      /\ rtype' = rtype /\ L' = L /\ over' = over /\ dest' = dest /\ sel' = sel /\ alive' = alive
  BY DEF Run
<1>3. CASE lastsig
  <2>1. pc' = Handler /\ stack' = Append(stack, pc) /\ missed' = missed /\ ctl' = ctl /\ stopres' = stopres
    BY <1>3 DEF Run, hist
  <2>2. lastsig' \in BOOLEAN
    BY <1>3, Zenon DEF Run
  <2>3. pc' \in Addr /\ stack' \in Seq(Addr)
    BY <1>1, <2>1, HandlerTypes
  <2>4. TableInv'
    BY <1>1, <1>2, <2>1, TableKept
  <2>5. Types'
    BY <1>1, <1>2, <2>1, <2>2, <2>3 DEF Types, Points
  <2> QED BY <2>4, <2>5 DEF Inv
<1>4. CASE ~lastsig /\ t.text[pc] # BPT
  <2>1. /\ \E place \in Places : pc' = place[1] /\ stack' = place[2]
        /\ Note /\ lastsig' = lastsig /\ ctl' = ctl /\ stopres' = stopres
    BY <1>4 DEF Run
  <2>2. missed' \in BOOLEAN
    BY <2>1, Zenon DEF Note
  <2>3. pc' \in Addr /\ stack' \in Seq(Addr)
    BY <1>1, <2>1, PlaceTypes
  <2>4. TableInv'
    BY <1>1, <1>2, <2>1, TableKept
  <2>5. Types'
    BY <1>1, <1>2, <2>1, <2>2, <2>3 DEF Types, Points
  <2> QED BY <2>4, <2>5 DEF Inv
<1>5. CASE ~lastsig /\ t.text[pc] = BPT
  <2>1. /\ pc' = pc /\ stack' = stack /\ missed' = missed /\ lastsig' = lastsig
        /\ ctl' = "back" /\ stopres' = "BPT"
    BY <1>5 DEF Run, hist
  <2>2. get_breakpoint_at_addr(t, pc) # {}
    <3>1. Intact(t) /\ pc \in Addr /\ Late = {}
      BY <1>1, GoodTypes, SteppingAssumption DEF Types
    <3> QED BY <1>5, <3>1, TextOfIntact
  <2>3. TableInv'
    BY <1>1, <1>2, <2>1, <2>2, TableKept
  <2>4. Types'
    BY <1>1, <1>2, <2>1 DEF Types, Points
  <2> QED BY <2>3, <2>4 DEF Inv
<1> QED BY <1>3, <1>4, <1>5

(* It exits. *)
LEMMA ExitKeeps ==
  ASSUME Inv, ExitProcess
  PROVE  Inv'
<1>1. Types /\ TableInv /\ Good(t)
  BY DEF Inv, TableInv
<1> DEFINE y == FreshText(mark_breakpoints_as_uninstalled(t))
<1>2. /\ ctl \in {"step", "cont"} /\ t' = y /\ stopres' = "DIED" /\ ctl' = "back"
      /\ pc' = pc /\ stack' = stack
      /\ rtype' = rtype /\ L' = L /\ over' = over /\ lastsig' = lastsig /\ dest' = dest /\ sel' = sel
  BY DEF ExitProcess
<1>3. alive' \in BOOLEAN /\ missed' \in BOOLEAN
  BY Zenon DEF ExitProcess, Note
<1>4. Good(y) /\ y.live = t.live /\ y.enabled = t.enabled
  BY <1>1, GoodGone
<1> HIDE DEF y
<1>5. TableInv'
  BY <1>1, <1>2, <1>4, AllOnSame, TableKept
<1>6. Types'
  BY <1>1, <1>2, <1>3 DEF Types, Points
<1> QED BY <1>5, <1>6 DEF Inv

(* It stops for a signal or the Stop button. *)
LEMMA StopsKeep ==
  ASSUME Inv, Signal \/ Stop
  PROVE  Inv'
<1>1. Types /\ TableInv /\ Good(t)
  BY DEF Inv, TableInv
<1>2. /\ ctl \in {"step", "cont"} /\ t' = (IF ctl = "step" THEN PutBack ELSE t)
      /\ stopres' \in {"SIG", "USER"} /\ ctl' = "back"
      /\ pc' = pc /\ stack' = stack /\ alive' = alive /\ missed' = missed
      /\ rtype' = rtype /\ L' = L /\ over' = over /\ dest' = dest /\ sel' = sel
  BY DEF Signal, Stop, machine, hist
<1>3. lastsig' \in BOOLEAN
  <2>1. CASE Signal
    BY <2>1, Zenon DEF Signal
  <2>2. CASE Stop
    BY <1>1, <2>2 DEF Stop, Types
  <2> QED BY <2>1, <2>2
<1>4. Good(t') /\ t'.live = t.live /\ t'.enabled = t.enabled
  BY <1>1, <1>2, GoodPutBack
<1>5. TableInv'
  BY <1>1, <1>2, <1>4, AllOnSame, TableKept
<1>6. Types'
  BY <1>1, <1>2, <1>3 DEF Types, Points
<1> QED BY <1>5, <1>6 DEF Inv

(* The loop ends, or goes on under exec_to_lnum. *)
LEMMA TurnsKeep ==
  ASSUME Inv, Leave \/ GoOn
  PROVE  Inv'
<1>1. Types /\ TableInv /\ Good(t)
  BY DEF Inv, TableInv
<1>2. /\ ctl = "back" /\ ctl' \in {"end", "loop"} /\ t' = t
      /\ pc' = pc /\ stack' = stack /\ alive' = alive /\ missed' = missed /\ lastsig' = lastsig
      /\ rtype' = rtype /\ L' = L /\ over' = over /\ stopres' = stopres /\ dest' = dest /\ sel' = sel
  BY DEF Leave, GoOn, machine, hist
<1>3. TableInv'
  BY <1>1, <1>2, TableKept
<1>4. Types'
  BY <1>1, <1>2 DEF Types, Points
<1> QED BY <1>3, <1>4 DEF Inv

(* What StepOn leaves of the list when the call is over: the stop_bp has   *)
(* been taken out, and the temporary breakpoint is gone.                   *)
Freed ==
  LET out == IF Reached THEN uninstall_breakpoint(t, L.stop_bp) ELSE t
  IN  IF Reached /\ L.tmp_bp THEN dx_remove_breakpoint(out, TempBp) ELSE out

(* And of the locals. *)
Cleared ==
  IF Reached THEN [Observed EXCEPT !.stop_bp = NoBp, !.jsr_sp = 0,
                      !.tmp_bp = FALSE, !.cont_type = "STEP"]
             ELSE Observed

(* Their types when stop_bp is reset. *)
LEMMA ClearedTypes ==
  ASSUME NEW M \in Locals, NEW tmp \in BOOLEAN, NEW zero \in Int, NEW N,
         N = [M EXCEPT !.stop_bp = NoBp, !.jsr_sp = zero, !.tmp_bp = tmp, !.cont_type = "STEP"]
  PROVE  N \in Locals /\ N.stop_bp = NoBp /\ N.tmp_bp = tmp
<1>1. N \in Locals
  BY DEF Locals
<1>2. N.stop_bp = NoBp
  BY DEF Locals
<1>3. N.tmp_bp = tmp
  BY DEF Locals
<1> QED BY <1>1, <1>2, <1>3

(* No temporary breakpoint is left then. *)
LEMMA FreedGood ==
  ASSUME Inv, ctl = "back", Stepped(rtype), L.stop_bp = NoBp \/ Reached
  PROVE  /\ Good(Freed) /\ TempBp \notin Freed.live /\ AllOn(Freed)
         /\ Cleared \in Locals /\ Cleared.stop_bp = NoBp /\ Cleared.tmp_bp = FALSE
<1>1. Types /\ TableInv /\ Good(t) /\ AllOn(t) /\ L.tmp_bp \in BOOLEAN
      /\ (TempBp \in t.live <=> L.tmp_bp) /\ (L.tmp_bp => L.stop_bp = TempBp)
  BY DEF Inv, TableInv, Types, Locals
<1>2. /\ Observed \in Locals
      /\ Observed.stop_bp = L.stop_bp /\ Observed.tmp_bp = L.tmp_bp
  BY <1>1, ObservedTypes
<1>3. CASE Reached
  <2> DEFINE out == uninstall_breakpoint(t, L.stop_bp)
             y == Dropped(out, L.tmp_bp)
  <2>1. L.stop_bp \in t.live
    BY <1>1, <1>3, HereInList DEF Reached
  <2>2. Good(out) /\ out.live = t.live /\ out.enabled = t.enabled
    BY <1>1, <2>1, GoodUninstall
  <2>3. Freed = y
    BY <1>3 DEF Freed, Dropped
  <2> HIDE DEF out
  <2>4. AllOn(out)
    BY <1>1, <2>2, AllOnSame
  <2>5. TempBp \in out.live <=> L.tmp_bp
    BY <1>1, <2>2
  <2>6. Good(y) /\ y.live = out.live \ {TempBp} /\ AllOn(y)
    BY <1>1, <2>2, <2>4, <2>5, GoodDropped
  <2> HIDE DEF y
  <2>7. Cleared = [Observed EXCEPT !.stop_bp = NoBp, !.jsr_sp = 0,
                      !.tmp_bp = FALSE, !.cont_type = "STEP"]
    BY <1>3 DEF Cleared
  <2> HIDE DEF Observed
  <2>8. Cleared \in Locals /\ Cleared.stop_bp = NoBp /\ Cleared.tmp_bp = FALSE
    <3>1. FALSE \in BOOLEAN
      BY Zenon
    <3>2. 0 \in Int
      OBVIOUS
    <3> QED BY <1>2, <2>7, <3>1, <3>2, ClearedTypes, Zenon
  <2> QED BY <2>3, <2>6, <2>8
<1>4. CASE ~Reached
  <2>1. L.stop_bp = NoBp /\ TempBp # NoBp
    BY <1>4, SteppingAssumption
  <2>2. L.tmp_bp = FALSE
    BY <1>1, <2>1
  <2>3. Freed = t /\ Cleared = Observed
    BY <1>4 DEF Freed, Cleared
  <2> HIDE DEF Observed
  <2> QED BY <1>1, <1>2, <2>1, <2>2, <2>3
<1> QED BY <1>3, <1>4

(* Next and Step, after each stop. *)
LEMMA StepOnKeeps ==
  ASSUME Inv, StepOn
  PROVE  Inv'
<1>1. Types /\ TableInv /\ Good(t)
  BY DEF Inv, TableInv
<1>2. /\ ctl = "back" /\ Stepped(rtype)
      /\ pc' = pc /\ stack' = stack /\ alive' = alive /\ missed' = missed /\ lastsig' = lastsig
      /\ rtype' = rtype /\ over' = over /\ stopres' = stopres /\ dest' = dest /\ sel' = sel
  BY DEF StepOn, machine, hist
<1>3. /\ Observed \in Locals /\ Observed.stop_bp = L.stop_bp /\ Observed.tmp_bp = L.tmp_bp
      /\ Line[pc] \in Lines /\ L.f \in Names
  BY <1>1, ObservedTypes
<1>4. SUFFICES TableInv' /\ L' \in Locals /\ ctl' \in {"loop", "end"}
  BY <1>1, <1>2 DEF Inv, Types, Points
<1>5. CASE /\ L' = [Observed EXCEPT !.f = L.f, !.cont_type = "CONT"] \/ L' = Observed
           /\ ctl' = "loop" /\ t' = t
  <2>1. L' \in Locals /\ L'.stop_bp = L.stop_bp /\ L'.tmp_bp = L.tmp_bp
    <3> HIDE DEF Observed
    <3> QED BY <1>3, <1>5 DEF Locals
  <2>2. TableInv'
    BY <1>1, <1>2, <1>5, <2>1, TableKept
  <2> QED BY <1>5, <2>1, <2>2
<1>6. CASE /\ SP <= BaseSp /\ (L.stop_bp = NoBp \/ Reached)
           /\ RetAddr # 0
           /\ t' = WithStopBp(Freed, RetAddr).table
           /\ L' = [Cleared EXCEPT !.stop_bp = WithStopBp(Freed, RetAddr).bp,
                       !.tmp_bp = WithStopBp(Freed, RetAddr).added, !.jsr_sp = SP,
                       !.cont_type = "CONT", !.plt_stop = ThroughStub,
                       !.f = IF ThroughStub THEN Func[Callee[pc]] ELSE @]
           /\ ctl' = "loop"
  <2>1. /\ Good(Freed) /\ TempBp \notin Freed.live /\ AllOn(Freed) /\ Cleared \in Locals
    BY <1>2, <1>6, FreedGood
  <2>2. RetAddr \in Addr /\ (ThroughStub => Func[Callee[pc]] \in Names) /\ SP \in Int
    BY <1>1, <1>6, RetAddrTypes, Frames
  <2>3. ThroughStub \in BOOLEAN
    BY Zenon DEF ThroughStub
  <2> DEFINE s == WithStopBp(Freed, RetAddr)
  <2>4. /\ Good(s.table) /\ s.bp \in s.table.live /\ s.bp \in Bp
        /\ s.added \in BOOLEAN
        /\ TempBp \in s.table.live <=> s.added
        /\ s.added => s.bp = TempBp
        /\ AllOn(s.table)
    BY <2>1, <2>2, GoodStopBp
  <2>5. /\ t' = s.table /\ ctl' = "loop"
        /\ L' = [Cleared EXCEPT !.stop_bp = s.bp, !.tmp_bp = s.added, !.jsr_sp = SP,
                       !.cont_type = "CONT", !.plt_stop = ThroughStub,
                       !.f = IF ThroughStub THEN Func[Callee[pc]] ELSE @]
    BY <1>6
  <2> HIDE DEF s, Cleared, SP, ThroughStub
  <2>6. L' \in Locals /\ L'.stop_bp = s.bp /\ L'.tmp_bp = s.added
    <3> DEFINE g == IF ThroughStub THEN Func[Callee[pc]] ELSE Cleared.f
    <3>1. g \in Names
      BY <2>1, <2>2 DEF Locals
    <3>2. L' = [Cleared EXCEPT !.stop_bp = s.bp, !.tmp_bp = s.added, !.jsr_sp = SP,
                       !.cont_type = "CONT", !.plt_stop = ThroughStub, !.f = g]
      BY <2>5
    <3> HIDE DEF g
    <3>3. /\ Cleared \in Locals /\ s.bp \in Bp /\ s.added \in BOOLEAN /\ SP \in Int
          /\ ThroughStub \in BOOLEAN
      BY <2>1, <2>2, <2>3, <2>4
    <3>4. L' \in Locals
      BY <3>1, <3>2, <3>3 DEF Locals
    <3>5. L'.stop_bp = s.bp
      BY <3>2, <3>3 DEF Locals
    <3>6. L'.tmp_bp = s.added
      BY <3>2, <3>3 DEF Locals
    <3> QED BY <3>4, <3>5, <3>6
  <2>7. TableInv'
    BY <1>2, <2>4, <2>5, <2>6, SteppingAssumption DEF TableInv, Stepped
  <2> QED BY <2>5, <2>6, <2>7
<1>7. CASE /\ SP <= BaseSp /\ (L.stop_bp = NoBp \/ Reached)
           /\ t' = Freed
           /\ L' = Cleared \/ L' = [Cleared EXCEPT !.orig_lnum = Line[pc]]
           /\ ctl' \in {"loop", "end"}
  <2>1. /\ Good(Freed) /\ TempBp \notin Freed.live /\ AllOn(Freed)
        /\ Cleared \in Locals /\ Cleared.stop_bp = NoBp /\ Cleared.tmp_bp = FALSE
    BY <1>2, <1>7, FreedGood
  <2> HIDE DEF Cleared
  <2>2. L' \in Locals /\ L'.stop_bp = NoBp /\ L'.tmp_bp = FALSE
    BY <1>3, <1>7, <2>1 DEF Locals
  <2>3. TableInv'
    BY <1>2, <1>7, <2>1, <2>2 DEF TableInv, Stepped
  <2> QED BY <1>7, <2>2, <2>3
<1> QED
  <2>1. CASE /\ SP > BaseSp
             /\ L' = [Observed EXCEPT !.f = L.f, !.cont_type = "CONT"]
             /\ ctl' = "loop" /\ UNCHANGED t
    BY <1>5, <2>1
  <2>2. CASE /\ SP <= BaseSp
             /\ L.stop_bp # NoBp /\ ~Reached
             /\ L' = Observed
             /\ ctl' = "loop" /\ UNCHANGED t
    BY <1>5, <2>2
  <2>3. CASE /\ SP <= BaseSp
             /\ L.stop_bp = NoBp \/ Reached
             /\ LET s == WithStopBp(Freed, RetAddr)
                    newline == Line[pc] # 0 /\ <<Func[pc], Line[pc]>> # <<L.orig_f, L.orig_lnum>>
                IN  IF RetAddr # 0
                    THEN /\ t' = s.table
                         /\ L' = [Cleared EXCEPT !.stop_bp = s.bp, !.tmp_bp = s.added, !.jsr_sp = SP,
                                           !.cont_type = "CONT", !.plt_stop = ThroughStub,
                                           !.f = IF ThroughStub THEN Func[Callee[pc]] ELSE @]
                         /\ ctl' = "loop"
                    ELSE /\ t' = Freed
                         /\ L' = IF newline /\ pc \notin LineStart /\ Func[pc] = L.orig_f
                                 THEN [Cleared EXCEPT !.orig_lnum = Line[pc]] ELSE Cleared
                         /\ ctl' = IF newline /\ pc \in LineStart THEN "end" ELSE "loop"
    <3> HIDE DEF Freed, Cleared, SP, BaseSp, RetAddr, Reached, ThroughStub
    <3>1. CASE RetAddr # 0
      BY <1>6, <2>3, <3>1
    <3>2. CASE RetAddr = 0
      BY <1>7, <2>3, <3>2
    <3> QED BY <3>1, <3>2
  <2> QED BY <2>1, <2>2, <2>3 DEF StepOn, Freed, Cleared

(* A command is over: the temporary breakpoint goes, and exec_to_lnum and  *)
(* jump_to_lnum enable all again.                                          *)
LEMMA IdleAgain ==
  ASSUME Inv, GoIdle,
         t' = Restored \/ (Stepped(rtype) /\ t' = Dropped(t, L.tmp_bp))
  PROVE  TableInv'
<1>1. Good(t) /\ (TempBp \in t.live <=> L.tmp_bp) /\ L.tmp_bp \in BOOLEAN
      /\ (Stepped(rtype) => AllOn(t))
  BY DEF Inv, TableInv, Types, Locals
<1> DEFINE y == Dropped(t, L.tmp_bp)
<1>2. Good(y) /\ y.live = t.live \ {TempBp} /\ (AllOn(t) => AllOn(y))
  BY <1>1, GoodDropped
<1>3. t' = EnableAll(y) \/ (t' = y /\ Stepped(rtype))
  BY DEF Restored, Dropped
<1> HIDE DEF y
<1>4. Good(t') /\ t'.live = y.live /\ AllOn(t')
  <2>1. CASE t' = EnableAll(y)
    BY <1>2, <2>1, GoodEnabled
  <2>2. CASE t' = y /\ Stepped(rtype)
    BY <1>1, <1>2, <2>2
  <2> QED BY <1>3, <2>1, <2>2
<1>5. ctl' = "idle" /\ L'.stop_bp = NoBp /\ L'.tmp_bp = FALSE
  BY GoIdleTypes
<1> QED BY <1>2, <1>4, <1>5 DEF TableInv

(* dx_run_target_ss returns. *)
LEMMA EndSteppingKeeps ==
  ASSUME Inv, EndStepping
  PROVE  Inv'
<1>1. /\ GoIdle /\ Stepped(rtype) /\ t' = Dropped(t, L.tmp_bp)
      /\ pc' = pc /\ stack' = stack /\ alive' = alive /\ lastsig' = lastsig
      /\ rtype' = rtype /\ stopres' = stopres
  BY DEF EndStepping, Dropped, machine
<1>2. TableInv'
  BY <1>1, IdleAgain
<1>3. Types'
  BY <1>1, GoIdleTypes DEF Inv, Types, Points
<1> QED BY <1>2, <1>3 DEF Inv

(* exec_to_lnum goes on or returns. *)
LEMMA EndExecToKeeps ==
  ASSUME Inv, EndExecTo
  PROVE  Inv'
<1>1. Types /\ TableInv /\ Good(t)
  BY DEF Inv, TableInv
<1>2. /\ ctl = "end"
      /\ pc' = pc /\ stack' = stack /\ alive' = alive /\ lastsig' = lastsig
      /\ rtype' = rtype /\ stopres' = stopres
  BY DEF EndExecTo, machine
<1>3. CASE ctl' = "loop" /\ UNCHANGED <<t, L, over, dest, sel, hist>>
  <2>1. missed' = missed
    BY <1>3 DEF hist
  <2>2. TableInv'
    BY <1>1, <1>2, <1>3, TableKept
  <2>3. Types'
    BY <1>1, <1>2, <1>3, <2>1 DEF Types, Points
  <2> QED BY <2>2, <2>3 DEF Inv
<1>4. CASE GoIdle /\ t' = Restored
  <2>1. TableInv'
    BY <1>4, IdleAgain
  <2>2. Types'
    BY <1>1, <1>2, <1>4, GoIdleTypes DEF Types, Points
  <2> QED BY <2>1, <2>2 DEF Inv
<1> QED BY <1>3, <1>4 DEF EndExecTo

(* jump_to_lnum sets the pc, from a list without the temporary breakpoint. *)
LEMMA GoToTable ==
  ASSUME Types, NEW u, Good(u), TempBp \notin u.live, NEW a \in Addr, GoTo(u, a),
         rtype' = "JUMP"
  PROVE  TableInv' /\ L' \in Locals /\ pc' \in Addr /\ ctl' = "cont"
<1> DEFINE v == OnlyBreakpoint(u, a)
           y == install_all_breakpoints(v)
           tmp == dx_addr_to_breakpoint(u, a) = {}
<1>1. t' = y /\ L' = Contd(tmp) /\ pc' = a /\ ctl' = "cont"
  BY DEF GoTo
<1>2. tmp \in BOOLEAN
  BY Zenon
<1>3. Good(v) /\ (TempBp \in v.live <=> tmp)
  BY GoodOnly
<1> HIDE DEF v, tmp
<1>4. Good(y) /\ y.live = v.live
  BY <1>3, GoodAll
<1> HIDE DEF y
<1>5. L' \in Locals /\ L'.stop_bp = NoBp /\ L'.tmp_bp = tmp
  BY <1>1, <1>2, ContdTypes
<1>6. TableInv'
  BY <1>1, <1>3, <1>4, <1>5 DEF TableInv, Stepped
<1> QED BY <1>1, <1>5, <1>6

(* jump_to_lnum sets the pc again or returns. *)
LEMMA EndJumpKeeps ==
  ASSUME Inv, EndJump
  PROVE  Inv'
<1>1. Types /\ TableInv /\ Good(t)
  BY DEF Inv, TableInv
<1>2. /\ ctl = "back" /\ rtype = "JUMP"
      /\ stack' = stack /\ alive' = alive /\ lastsig' = lastsig
      /\ rtype' = rtype /\ stopres' = stopres
  BY DEF EndJump
<1>3. CASE pc' = dest /\ ctl' = "cont" /\ UNCHANGED <<t, L, over, dest, sel, hist>>
  <2>1. missed' = missed
    BY <1>3 DEF hist
  <2>2. TableInv'
    BY <1>1, <1>2, <1>3, TableKept
  <2>3. Types'
    BY <1>1, <1>2, <1>3, <2>1 DEF Types, Points
  <2> QED BY <2>2, <2>3 DEF Inv
<1>4. CASE /\ dest' = sel.pc
           /\ GoTo(IF L.tmp_bp THEN dx_remove_breakpoint(t, TempBp) ELSE t, sel.pc)
           /\ UNCHANGED <<over, sel, hist>>
  <2> DEFINE y == Dropped(t, L.tmp_bp)
  <2>1. (TempBp \in t.live <=> L.tmp_bp) /\ L.tmp_bp \in BOOLEAN /\ sel.pc \in Addr
    BY <1>1 DEF TableInv, Types, Locals
  <2>2. Good(y) /\ y.live = t.live \ {TempBp}
    BY <1>1, <2>1, GoodDropped
  <2>3. GoTo(y, sel.pc)
    BY <1>4 DEF Dropped
  <2> HIDE DEF y
  <2>4. TableInv' /\ L' \in Locals /\ pc' \in Addr /\ ctl' = "cont"
    BY <1>1, <1>2, <2>1, <2>2, <2>3, GoToTable
  <2>5. over' = over /\ sel' = sel /\ missed' = missed /\ dest' \in Addr
    BY <1>4, <2>1 DEF hist
  <2>6. Types'
    BY <1>1, <1>2, <2>4, <2>5 DEF Types, Points
  <2> QED BY <2>4, <2>6 DEF Inv
<1>5. CASE GoIdle /\ t' = Restored /\ UNCHANGED pc
  <2>1. TableInv'
    BY <1>5, IdleAgain
  <2>2. Types'
    BY <1>1, <1>2, <1>5, GoIdleTypes DEF Types, Points
  <2> QED BY <2>1, <2>2 DEF Inv
<1> QED BY <1>3, <1>4, <1>5 DEF EndJump

(* exec_to_lnum begins. *)
LEMMA ExecToKeeps ==
  ASSUME Inv, NEW a \in DestAddrs, NEW d \in 1..Depth, exec_to_lnum(a, d)
  PROVE  Inv'
<1>1. Types /\ Good(t) /\ ctl = "idle" /\ TempBp \notin t.live /\ a \in Addr
  BY SteppingAssumption DEF Inv, TableInv, exec_to_lnum
<1> DEFINE y == OnlyBreakpoint(t, a)
           tmp == dx_addr_to_breakpoint(t, a) = {}
<1>2. /\ SelectFrame(d) /\ rtype' = "EXECTO" /\ dest' = a /\ t' = y /\ L' = Contd(tmp)
      /\ ctl' = "loop" /\ pc' = pc /\ stack' = stack /\ alive' = alive
      /\ over' = over /\ stopres' = stopres /\ lastsig' = lastsig
  BY DEF exec_to_lnum, machine
<1>3. tmp \in BOOLEAN
  BY Zenon
<1>4. Good(y) /\ (TempBp \in y.live <=> tmp)
  BY <1>1, GoodOnly
<1> HIDE DEF y, tmp
<1>5. L' \in Locals /\ L'.stop_bp = NoBp /\ L'.tmp_bp = tmp
  BY <1>1, <1>2, <1>3, ContdTypes
<1>6. TableInv'
  BY <1>2, <1>4, <1>5 DEF TableInv, Stepped
<1>7. sel' \in [fp : Int, func : Names, pc : Addr] /\ missed' \in BOOLEAN
  BY <1>1, <1>2, SelectTypes
<1>8. Types'
  BY <1>1, <1>2, <1>5, <1>7 DEF Types, Points, Commands
<1> QED BY <1>6, <1>8 DEF Inv

(* jump_to_lnum begins. *)
LEMMA JumpToKeeps ==
  ASSUME Inv, NEW a \in DestAddrs, NEW d \in 1..Depth, jump_to_lnum(a, d)
  PROVE  Inv'
<1>1. Types /\ Good(t) /\ ctl = "idle" /\ TempBp \notin t.live /\ a \in Addr
  BY SteppingAssumption DEF Inv, TableInv, jump_to_lnum
<1>2. /\ SelectFrame(d) /\ rtype' = "JUMP" /\ dest' = a /\ GoTo(t, a)
      /\ stack' = stack /\ alive' = alive
      /\ over' = over /\ stopres' = stopres /\ lastsig' = lastsig
  BY DEF jump_to_lnum
<1>3. TableInv' /\ L' \in Locals /\ pc' \in Addr /\ ctl' = "cont"
  BY <1>1, <1>2, GoToTable
<1>4. sel' \in [fp : Int, func : Names, pc : Addr] /\ missed' \in BOOLEAN
  BY <1>1, <1>2, SelectTypes
<1>5. Types'
  BY <1>1, <1>2, <1>3, <1>4 DEF Types, Points, Commands
<1> QED BY <1>3, <1>5 DEF Inv

(* The locals Next or Step begins with. *)
LEMMA BegunTypes ==
  ASSUME NEW cont \in {"STEP", "CONT"}, NEW b \in Bp \union {NoBp}, NEW tmp \in BOOLEAN,
         NEW fp \in Int, NEW f \in Names, NEW ln \in Lines, NEW at \in Nat, NEW sp \in Int,
         NEW no \in BOOLEAN, NEW N,
         N = [cont_type |-> cont, stop_bp |-> b, tmp_bp |-> tmp, jsr_sp |-> 0, jsr_fp |-> fp,
              orig_f |-> f, orig_lnum |-> ln, f |-> f, pc |-> at, sp |-> sp, plt_stop |-> no]
  PROVE  N \in Locals /\ N.stop_bp = b /\ N.tmp_bp = tmp
BY DEF Locals

(* Next or Step begins. *)
LEMMA StartKeeps ==
  ASSUME Inv, NEW r \in {"NEXT", "STEP"}, NEW d \in 1..Depth, StartStepping(r, d)
  PROVE  Inv'
<1>1. Types /\ Good(t) /\ ctl = "idle" /\ TempBp \notin t.live /\ AllOn(t)
  BY DEF Inv, TableInv, StartStepping
<1> DEFINE s == WithStopBp(t, FramePc(d))
           outer == FrameFp(d) # FP
           cont == IF outer THEN "CONT" ELSE "STEP"
           b == IF outer THEN s.bp ELSE NoBp
           tmp == outer /\ s.added
           fp == IF outer THEN FrameFp(d) ELSE 0
           y == IF outer THEN s.table ELSE t
<1>2. /\ SelectFrame(d) /\ rtype' = r /\ t' = y
      /\ L' = [cont_type |-> cont, stop_bp |-> b, tmp_bp |-> tmp, jsr_sp |-> 0, jsr_fp |-> fp,
               orig_f |-> Func[AdjustedPc(d)], orig_lnum |-> Line[AdjustedPc(d)],
               f |-> Func[AdjustedPc(d)], pc |-> FramePc(d), sp |-> SP, plt_stop |-> FALSE]
      /\ ctl' = "loop" /\ pc' = pc /\ stack' = stack /\ alive' = alive
      /\ over' = over /\ stopres' = stopres /\ lastsig' = lastsig /\ dest' = dest
  BY DEF StartStepping, machine
<1>3. FramePc(d) \in Addr /\ FrameFp(d) \in Int /\ SP \in Int /\ FramePc(d) \in Nat
  <2>1. FramePc(d) \in Addr /\ FrameFp(d) \in Int /\ SP \in Int
    BY <1>1, Frames
  <2> QED BY <2>1, SteppingAssumption
<1>4. /\ sel' \in [fp : Int, func : Names, pc : Addr] /\ missed' \in BOOLEAN
      /\ Func[AdjustedPc(d)] \in Names /\ Line[AdjustedPc(d)] \in Lines
  BY <1>1, <1>2, SelectTypes
<1>5. /\ Good(s.table) /\ s.bp \in s.table.live /\ s.bp \in Bp
      /\ s.added \in BOOLEAN
      /\ TempBp \in s.table.live <=> s.added
      /\ s.added => s.bp = TempBp
      /\ AllOn(s.table)
  BY <1>1, <1>3, GoodStopBp
<1> HIDE DEF s
<1>6. outer \in BOOLEAN /\ tmp \in BOOLEAN /\ FALSE \in BOOLEAN
  BY Zenon
<1>7. cont \in {"STEP", "CONT"} /\ b \in Bp \union {NoBp} /\ fp \in Int
  BY <1>3, <1>5
<1>8. /\ Good(y) /\ AllOn(y) /\ (TempBp \in y.live <=> tmp)
      /\ b # NoBp => b \in y.live
      /\ tmp => b = TempBp
  <2>1. CASE outer
    BY <1>5, <2>1
  <2>2. CASE ~outer
    BY <1>1, <2>2
  <2> QED BY <2>1, <2>2
<1> HIDE DEF y, outer, cont, b, tmp, fp
<1>9. L' \in Locals /\ L'.stop_bp = b /\ L'.tmp_bp = tmp
  <2> DEFINE f == Func[AdjustedPc(d)]
             ln == Line[AdjustedPc(d)]
             at == FramePc(d)
             sp == SP
             no == FALSE
  <2>1. f \in Names /\ ln \in Lines /\ at \in Nat /\ sp \in Int /\ no \in BOOLEAN
    BY <1>3, <1>4, <1>6
  <2>2. L' = [cont_type |-> cont, stop_bp |-> b, tmp_bp |-> tmp, jsr_sp |-> 0, jsr_fp |-> fp,
              orig_f |-> f, orig_lnum |-> ln, f |-> f, pc |-> at, sp |-> sp, plt_stop |-> no]
    BY <1>2
  <2> HIDE DEF f, ln, at, sp, no
  <2> QED BY <1>6, <1>7, <2>1, <2>2, BegunTypes
<1>10. TableInv'
  BY <1>2, <1>8, <1>9 DEF TableInv, Stepped
<1>11. Types'
  BY <1>1, <1>2, <1>4, <1>9 DEF Types, Points, Commands
<1> QED BY <1>10, <1>11 DEF Inv

-----------------------------------------------------------------------------
(* The invariant holds when a session begins. *)
LEMMA InvInit == Init => Inv
<1> SUFFICES ASSUME Init PROVE Inv
  OBVIOUS
<1>1. PICK S \in SUBSET UserBp :
        \E where \in [S -> UserAddrs], off \in SUBSET S, on \in BOOLEAN :
          /\ \A b, c \in S : where[b] = where[c] => b = c
          /\ t = SessionList(S, {p \in S \X S : where[p[1]] < where[p[2]]}, where, off, on)
  BY DEF Init
<1>2. PICK where \in [S -> UserAddrs], off \in SUBSET S, on \in BOOLEAN :
        /\ \A b, c \in S : where[b] = where[c] => b = c
        /\ t = SessionList(S, {p \in S \X S : where[p[1]] < where[p[2]]}, where, off, on)
  BY <1>1
<1> DEFINE order == {p \in S \X S : where[p[1]] < where[p[2]]}
<1>3. S \in SUBSET Bp /\ off \in SUBSET Bp /\ where \in [S -> Addr] /\ TempBp \notin S
  BY SteppingAssumption
<1>4. order \in SUBSET (Bp \X Bp)
  BY <1>3
<1>5. t = SessionList(S, order, where, off, on)
  BY <1>2
<1> HIDE DEF order
<1>6. Begun(t, S, where, off, on)
  BY <1>2, <1>3, <1>4, <1>5, SessionIntact
<1>7. /\ Intact(t) /\ t.live = S
      /\ \A b \in Bp : ~t.xp[b] /\ (t.enabled[b] <=> b \in S)
      /\ \A b \in S : t.addr[b] = where[b]
  BY <1>6 DEF Begun
<1>8. Good(t) /\ AllOn(t)
  <2>1. \A b, c \in S : where[b] = where[c] => b = c
    BY <1>2
  <2> QED BY <1>3, <1>7, <2>1 DEF Good, OneEach, AllOn
<1>9. /\ pc = Main /\ stack = <<StartRet>> /\ ctl = "idle" /\ rtype = "NEXT" /\ L = NoLocals
      /\ over = NoBp /\ stopres = "BPT" /\ dest = Main /\ sel = NoSel
  BY DEF Init
<1>10. L.stop_bp = NoBp /\ L.tmp_bp = FALSE
  BY <1>9 DEF NoLocals
<1>11. TableInv
  BY <1>3, <1>7, <1>8, <1>9, <1>10 DEF TableInv
<1>12. alive \in BOOLEAN /\ lastsig \in BOOLEAN /\ missed \in BOOLEAN
  BY Zenon DEF Init
<1>13. stack \in Seq(Addr)
  BY <1>9, SteppingAssumption
<1> HIDE DEF NoLocals, NoSel
<1>14. Types
  BY <1>9, <1>12, <1>13, NoLocalsTypes DEF Types, Points, Commands
<1> QED BY <1>11, <1>14 DEF Inv

(* A stuttering step changes nothing. *)
LEMMA InvStutters ==
  ASSUME Inv, UNCHANGED vars
  PROVE  Inv'
BY DEF vars, machine, hist, Inv, Types, TableInv, Stepped

(* The invariant holds in every session. *)
LEMMA SteppingInvariant == Spec => []Inv
<1>1. Init => Inv
  BY InvInit
<1>2. Inv /\ [Next]_vars => Inv'
  <2> SUFFICES ASSUME Inv, [Next]_vars PROVE Inv'
    OBVIOUS
  <2>1. CASE Proceed
    BY <2>1, RestartKeeps, SingleStepKeeps, RunKeeps, ExitKeeps, TurnsKeep, StepOnKeeps,
       EndSteppingKeeps, EndExecToKeeps, EndJumpKeeps DEF Proceed
  <2>2. CASE Signal \/ Stop
    BY <2>2, StopsKeep
  <2>3. CASE \E r \in {"NEXT", "STEP"}, d \in 1..Depth : StartStepping(r, d)
    BY <2>3, StartKeeps
  <2>4. CASE \E a \in DestAddrs, d \in 1..Depth : exec_to_lnum(a, d)
    BY <2>4, ExecToKeeps
  <2>5. CASE \E a \in DestAddrs, d \in 1..Depth : jump_to_lnum(a, d)
    BY <2>5, JumpToKeeps
  <2>6. CASE UNCHANGED vars
    BY <2>6, InvStutters
  <2> QED BY <2>1, <2>2, <2>3, <2>4, <2>5, <2>6 DEF Next
<1> QED BY <1>1, <1>2, PTL DEF Spec

(* Every variable keeps to its type: the pc and the return addresses are   *)
(* in the text, and stop_bp and the breakpoint stepped over are            *)
(* breakpoints or none.                                                    *)
THEOREM SteppingTypeCorrect == Spec => []TypeOK
<1>1. Inv => TypeOK
  <2> SUFFICES ASSUME Inv PROVE TypeOK
    OBVIOUS
  <2>1. Types /\ t \in Tables /\ L.stop_bp \in Bp \union {NoBp}
    BY GoodTypes DEF Inv, TableInv, Types, Locals
  <2> QED BY <2>1 DEF TypeOK, Types
<1> QED BY <1>1, SteppingInvariant, PTL

(* However Step, Next, Execute to here and Jump to here end, by Stop, by a *)
(* signal, at a breakpoint or with the process: the user finds the list    *)
(* without the temporary breakpoint, every breakpoint enabled, and no trap *)
(* in the text but those of the list.                                      *)
THEOREM ListAsItWas == Spec => []IdleClean
<1>1. Inv => IdleClean
  <2> SUFFICES ASSUME Inv, ctl = "idle"
               PROVE  /\ TempBp \notin t.live
                      /\ \A b \in t.live : t.enabled[b]
                      /\ \A a \in Addr :
                           t.text[a] = IF get_breakpoint_at_addr(t, a) # {} THEN BPT ELSE Orig[a]
    BY DEF IdleClean
  <2>1. Good(t) /\ TempBp \notin t.live /\ AllOn(t)
    BY DEF Inv, TableInv
  <2>2. \A a \in Addr : t.text[a] = IF get_breakpoint_at_addr(t, a) # {} THEN BPT ELSE Orig[a]
    BY <2>1, GoodTypes, SteppingAssumption, TextOfIntact
  <2> QED BY <2>1, <2>2 DEF AllOn
<1> QED BY <1>1, SteppingInvariant, PTL

-----------------------------------------------------------------------------
(* Next stays out of what it calls.  First, who is alive and when a signal *)
(* is on its way to the target: while the target runs, or between the stop *)
(* it caused and the next run.                                             *)
LifeInv ==
  /\ alive \/ ctl = "idle" \/ (ctl \in {"back", "end"} /\ stopres = "DIED")
  /\ lastsig => /\ ctl \notin {"idle", "end"} /\ rtype # "JUMP"
                /\ ctl = "back" => stopres = "SIG"
  /\ ctl = "back" /\ stopres = "SIG" => lastsig

(* The target and the debugger keep that. *)
LEMMA LifeProceeds ==
  ASSUME Inv, LifeInv, Proceed
  PROVE  LifeInv'
<1>0. alive \in BOOLEAN /\ lastsig \in BOOLEAN /\ pc # 0 /\ stopres \in {"SSTEP", "BPT", "SIG", "USER", "DIED"}
  BY SteppingAssumption DEF Inv, Types
<1>1. CASE Restart
  <2>1. /\ ctl = "loop" /\ ctl' \in {"step", "cont"}
        /\ alive' = alive /\ lastsig' = lastsig /\ rtype' = rtype
    BY <1>1 DEF Restart, machine
  <2> QED BY <2>1 DEF LifeInv
<1>2. CASE SingleStep
  <2>1. /\ ctl = "step" /\ ctl' \in {"cont", "back"} /\ ~lastsig'
        /\ alive' = alive /\ stopres' = "SSTEP"
    BY <1>2 DEF SingleStep
  <2> QED BY <2>1 DEF LifeInv
<1>3. CASE Run
  <2>1. /\ ctl = "cont" /\ ~lastsig' /\ alive' = alive
        /\ ctl' = "cont" \/ (ctl' = "back" /\ stopres' = "BPT")
    BY <1>3 DEF Run
  <2> QED BY <2>1 DEF LifeInv
<1>4. CASE ExitProcess
  <2>1. ctl' = "back" /\ stopres' = "DIED" /\ ~lastsig'
    BY <1>4 DEF ExitProcess
  <2> QED BY <2>1 DEF LifeInv
<1>5. CASE Leave
  <2>1. /\ ctl = "back" /\ ctl' = "end" /\ stopres # "SIG"
        /\ alive' = alive /\ lastsig' = lastsig /\ stopres' = stopres
    BY <1>5 DEF Leave, StopNow, machine
  <2> QED BY <2>1 DEF LifeInv
<1>6. CASE GoOn \/ StepOn
  <2>1. /\ ctl = "back" /\ stopres # "DIED" /\ rtype # "JUMP"
        /\ alive' = alive /\ lastsig' = lastsig /\ stopres' = stopres /\ rtype' = rtype
    BY <1>6 DEF GoOn, StepOn, StopNow, machine, Stepped
  <2>2. ctl' \in {"loop", "end"} /\ (ctl' = "end" => stopres # "SIG")
    <3>1. CASE GoOn
      BY <3>1 DEF GoOn
    <3>2. CASE StepOn
      <4>1. stopres = "SIG" => RetAddr = pc
        BY DEF RetAddr
      <4> HIDE DEF RetAddr
      <4> QED BY <1>0, <3>2, <4>1 DEF StepOn
    <3> QED BY <1>6, <3>1, <3>2
  <2> QED BY <2>1, <2>2 DEF LifeInv
<1>7. CASE EndStepping
  <2>1. ctl = "end" /\ ctl' = "idle" /\ lastsig' = lastsig
    BY <1>7 DEF EndStepping, GoIdle
  <2> QED BY <2>1 DEF LifeInv
<1>8. CASE EndExecTo
  <2>1. /\ ctl = "end" /\ lastsig' = lastsig /\ alive' = alive
        /\ ctl' = "idle" \/ (ctl' = "loop" /\ stopres = "BPT")
    BY <1>8 DEF EndExecTo, GoIdle, machine
  <2> QED BY <2>1 DEF LifeInv
<1>9. CASE EndJump
  <2>1. /\ ctl = "back" /\ rtype = "JUMP" /\ lastsig' = lastsig /\ alive' = alive
        /\ ctl' = "idle" \/ (ctl' = "cont" /\ stopres \in {"BPT", "USER"})
    BY <1>9 DEF EndJump, GoIdle, GoTo
  <2> QED BY <2>1 DEF LifeInv
<1> QED BY <1>1, <1>2, <1>3, <1>4, <1>5, <1>6, <1>7, <1>8, <1>9 DEF Proceed

(* So do signals, the Stop button, the commands and stuttering. *)
LEMMA LifeOtherwise ==
  ASSUME LifeInv,
         \/ Signal \/ Stop \/ UNCHANGED vars
         \/ \E r \in {"NEXT", "STEP"}, d \in 1..Depth : StartStepping(r, d)
         \/ \E a \in DestAddrs, d \in 1..Depth : exec_to_lnum(a, d) \/ jump_to_lnum(a, d)
  PROVE  LifeInv'
<1>1. CASE Signal
  BY <1>1 DEF LifeInv, Signal, machine
<1>2. CASE Stop
  BY <1>2 DEF LifeInv, Stop, machine
<1>3. CASE UNCHANGED vars
  BY <1>3 DEF LifeInv, vars, machine
<1>4. ASSUME NEW r \in {"NEXT", "STEP"}, NEW d \in 1..Depth, StartStepping(r, d)
      PROVE  LifeInv'
  <2>1. ctl = "idle" /\ alive /\ alive' = alive /\ lastsig' = lastsig /\ ctl' = "loop"
    BY <1>4 DEF StartStepping, machine
  <2> QED BY <2>1 DEF LifeInv
<1>5. ASSUME NEW a \in DestAddrs, NEW d \in 1..Depth, exec_to_lnum(a, d) \/ jump_to_lnum(a, d)
      PROVE  LifeInv'
  <2>1. ctl = "idle" /\ alive /\ alive' = alive /\ lastsig' = lastsig /\ ctl' \in {"loop", "cont"}
    BY <1>5 DEF exec_to_lnum, jump_to_lnum, GoTo, machine
  <2> QED BY <2>1 DEF LifeInv
<1> QED BY <1>1, <1>2, <1>3, <1>4, <1>5

-----------------------------------------------------------------------------
(* What an instruction does to the stack and the frame. *)

(* It stays in the frame; it may be what makes the frame. *)
Stays(p, s) ==
  /\ s = stack
  /\ Frameless(p) => Frameless(pc)
  /\ Frameless(pc) /\ ~Frameless(p) => Func[p] = Func[pc] /\ p > pc

(* It calls: another function, or its own from the beginning. *)
Calls(p, s) ==
  /\ Len(s) = Depth + 1 /\ s[Depth + 1] = pc + 1 /\ \A i \in 1..Depth : s[i] = stack[i]
  /\ Frameless(p) /\ ~Frameless(pc) /\ ~Frameless(pc + 1)
  /\ Func[p] # Func[pc] \/ p <= pc

(* It returns. *)
Returns(p, s) ==
  /\ Depth > 0 /\ p = stack[Depth]
  /\ Len(s) = Depth - 1 /\ \A i \in 1..(Depth - 1) : s[i] = stack[i]
  /\ ~Frameless(pc)

(* It does one of the three, in a program. *)
LEMMA Instructions ==
  ASSUME Types, NEW place \in Places
  PROVE  \/ Stays(place[1], place[2])
         \/ Calls(place[1], place[2])
         \/ Returns(place[1], place[2])
<1> DEFINE p == place[1]
           s == place[2]
<1>1. stack \in Seq(Addr) /\ pc \in Addr /\ pc \in Nat /\ Depth = Len(stack) /\ Depth \in Nat
  BY SteppingAssumption, LenProperties DEF Types, Depth
<1>2. p \in Addr /\ p \in Nat /\ RunInstruction(p, s)
  BY SteppingAssumption DEF Places
<1> HIDE DEF p, s
<1>3. CASE Kind[pc] \in {"push", "op"}
  <2>1. p \in Succ[pc] /\ s = stack
    BY <1>2, <1>3 DEF RunInstruction
  <2>2. ~Frameless(p)
    BY <1>1, <1>3, <2>1, ProgramAssumption DEF Frameless
  <2>3. Frameless(pc) => Func[p] = Func[pc] /\ p > pc
    BY <1>1, <1>3, <2>1, ProgramAssumption DEF Frameless
  <2> QED BY <2>1, <2>2, <2>3 DEF Stays, p, s
<1>4. CASE Kind[pc] = "call"
  <2>1. p = Callee[pc] /\ s = Append(stack, pc + 1)
    BY <1>2, <1>4 DEF RunInstruction
  <2>2. /\ Frameless(p) /\ ~Frameless(pc) /\ ~Frameless(pc + 1)
        /\ Func[p] # Func[pc] \/ p <= pc
    BY <1>1, <1>4, <2>1, ProgramAssumption DEF Frameless
  <2>3. pc + 1 \in Addr
    BY <1>1, <1>4, SteppingAssumption
  <2>4. Len(s) = Depth + 1 /\ s[Depth + 1] = pc + 1 /\ \A i \in 1..Depth : s[i] = stack[i]
    BY <1>1, <2>1, <2>3, AppendProperties
  <2> QED BY <2>2, <2>4 DEF Calls, p, s
<1>5. CASE Kind[pc] = "jmp"
  <2>1. p = Callee[pc] /\ s = stack
    BY <1>2, <1>5 DEF RunInstruction
  <2>2. Frameless(p) /\ Frameless(pc)
    BY <1>1, <1>5, <2>1, ProgramAssumption DEF Frameless
  <2> QED BY <2>1, <2>2 DEF Stays, p, s
<1>6. CASE Kind[pc] = "ret"
  <2>1. Depth > 0 /\ p = stack[Depth] /\ s = SubSeq(stack, 1, Depth - 1)
    BY <1>2, <1>6 DEF RunInstruction
  <2>2. ~Frameless(pc)
    BY <1>6 DEF Frameless
  <2>3. Len(s) = Depth - 1 /\ \A i \in 1..(Depth - 1) : s[i] = stack[i]
    <3>1. Depth - 1 \in Nat /\ Depth - 1 <= Len(stack)
      BY <1>1, <2>1
    <3> DEFINE k == Depth - 1
    <3>2. k \in Nat /\ k <= Len(stack) /\ s = SubSeq(stack, 1, k)
      BY <2>1, <3>1
    <3> HIDE DEF k
    <3>3. Len(s) = k /\ \A i \in 1..k : s[i] = stack[i]
      BY <1>1, <3>2
    <3> QED BY <3>3 DEF k
  <2> QED BY <2>1, <2>2, <2>3 DEF Returns, p, s
<1>7. Kind[pc] # "exit"
  BY <1>2 DEF RunInstruction
<1> QED BY <1>1, <1>3, <1>4, <1>5, <1>6, <1>7, SteppingAssumption

(* The handler is entered as if called from the pc. *)
LEMMA HandlerEntered ==
  ASSUME Types
  PROVE  LET s == Append(stack, pc)
         IN  Len(s) = Depth + 1 /\ s[Depth + 1] = pc /\ \A i \in 1..Depth : s[i] = stack[i]
BY AppendProperties DEF Types, Depth

-----------------------------------------------------------------------------
(* What happens to the trap of a stop_bp. *)

(* A command that has a stop_bp restarts the target: it is in the text or  *)
(* being stepped over, and if it was not, it stays out as disabled ones do.*)
LEMMA StopBpRestarts ==
  ASSUME Inv, Restart, L.cont_type = "CONT", NEW b \in t.live
  PROVE  /\ t'.addr = t.addr /\ (UserDisabled(t', b) <=> UserDisabled(t, b))
         /\ t.xp[b] => t'.xp[b] \/ (ctl' = "step" /\ over' = b)
         /\ ~t.xp[b] /\ UserDisabled(t, b) => ~t'.xp[b] /\ over' # b
         /\ ctl' = "step" => over' # NoBp
<1>1. Good(t) /\ t \in Tables /\ b \in Bp /\ NoBp \notin Bp
  BY GoodTypes DEF Inv, TableInv
<1> DEFINE u == install_all_breakpoints(t)
<1>2. IF get_breakpoint_at_addr(u, pc) # {}
      THEN /\ over' = FirstOf(u, get_breakpoint_at_addr(u, pc))
           /\ t' = uninstall_breakpoint(u, over')
           /\ ctl' = "step"
      ELSE over' = NoBp /\ t' = u /\ ctl' = "cont"
  BY DEF Restart
<1>3. /\ SameList(t, u) /\ u \in Tables /\ (UserDisabled(u, b) <=> UserDisabled(t, b))
      /\ t.xp[b] => u.xp[b]
      /\ ~t.xp[b] /\ UserDisabled(t, b) => ~u.xp[b]
  <2>1. SameList(t, u) /\ u \in Tables
        /\ (u.xp[b] <=> t.xp[b] \/ (b \in {c \in t.live : ~t.xp[c] /\ ~UserDisabled(t, c)} /\ t.enabled[b]))
    BY <1>1, InstallAllFields
  <2> HIDE DEF u
  <2>2. UserDisabled(u, b) <=> UserDisabled(t, b)
    BY <2>1 DEF SameList, UserDisabled
  <2> QED BY <2>1, <2>2
<1>4. Good(u)
  BY <1>1, GoodAll
<1> HIDE DEF u
<1>5. CASE get_breakpoint_at_addr(u, pc) # {}
  <2> DEFINE c == FirstOf(u, get_breakpoint_at_addr(u, pc))
             y == uninstall_breakpoint(u, c)
  <2>1. over' = c /\ t' = y /\ ctl' = "step"
    BY <1>2, <1>5
  <2>2. c \in u.live /\ c \in Bp /\ u.xp[c]
    BY <1>4, <1>5, GoodTypes, FirstInstalled
  <2> HIDE DEF c
  <2>3. SameList(u, y) /\ \A d \in Bp \ {c} : y.xp[d] = u.xp[d]
    <3>1. u \in Tables /\ c \in Bp
      BY <1>3, <2>2
    <3> QED BY ONLY <3>1, UninstallFields
  <2>4. ~y.xp[c]
    BY <1>4, <2>2, GoodUninstall
  <2> HIDE DEF y
  <2>5. (UserDisabled(y, b) <=> UserDisabled(u, b)) /\ y.addr = u.addr /\ u.addr = t.addr
    BY <1>3, <2>3 DEF SameList, UserDisabled
  <2> QED BY <1>1, <1>3, <2>1, <2>2, <2>3, <2>4, <2>5
<1>6. CASE get_breakpoint_at_addr(u, pc) = {}
  <2>1. over' = NoBp /\ t' = u /\ ctl' = "cont"
    BY <1>2, <1>6
  <2> QED BY <1>1, <1>3, <2>1 DEF SameList
<1> QED BY <1>5, <1>6

(* install_breakpoint of one that is enabled puts the trap in, unless the  *)
(* user has it disabled.                                                   *)
LEMMA TrapBack ==
  ASSUME NEW x \in Tables, NEW b \in Bp, x.enabled[b], NEW force \in BOOLEAN
  PROVE  LET y == install_breakpoint(x, b, force)
         IN  /\ SameList(x, y)
             /\ force \/ ~UserDisabled(x, b) => y.xp[b]
             /\ \A c \in Bp \ {b} : y.xp[c] = x.xp[c]
<1> DEFINE y == install_breakpoint(x, b, force)
           in == (force \/ ~UserDisabled(x, b)) /\ x.enabled[b]
<1>1. /\ y \in Tables /\ SameList(x, y) /\ y.enabled = x.enabled
      /\ in => y.xp[b] /\ y.installed[b]
      /\ ~in => y.xp = x.xp /\ y.text = x.text /\ y.code = x.code
      /\ \A c \in Bp \ {b} : y.xp[c] = x.xp[c] /\ y.installed[c] = x.installed[c]
      /\ in /\ x.addr[b] \in x.mapped =>
           /\ y.text = [x.text EXCEPT ![x.addr[b]] = BPT]
           /\ y.code = [x.code EXCEPT ![b] = x.text[x.addr[b]]]
      /\ in /\ x.addr[b] \notin x.mapped => y.text = x.text /\ y.code = x.code
  BY InstallFields
<1> HIDE DEF y
<1> QED BY <1>1 DEF y

(* The breakpoint stepped over is put back unless it is disabled. *)
LEMMA StopBpPutBack ==
  ASSUME Inv, ctl = "step", Stepped(rtype), NEW b \in t.live
  PROVE  /\ PutBack.addr = t.addr /\ (UserDisabled(PutBack, b) <=> UserDisabled(t, b))
         /\ PutBack.xp[b] => t.xp[b] \/ over = b
         /\ ~PutBack.xp[b] => (~t.xp[b] /\ over # b) \/ UserDisabled(t, b)
<1>1. /\ Good(t) /\ t \in Tables /\ b \in Bp /\ AllOn(t) /\ over \in Bp \union {NoBp}
      /\ over # NoBp => over \in t.live /\ ~t.xp[over]
  BY GoodTypes DEF Inv, TableInv, Types
<1>2. CASE over = NoBp
  <2>1. PutBack = t /\ b # over
    BY <1>1, <1>2, SteppingAssumption DEF PutBack
  <2> QED BY <2>1
<1>3. CASE over # NoBp
  <2> DEFINE y == install_breakpoint(t, over, FALSE)
  <2>1. PutBack = y
    BY <1>3 DEF PutBack
  <2>2. PICK no \in BOOLEAN : no = FALSE
    BY Zenon
  <2>3. over \in Bp /\ over \in t.live
    BY <1>1, <1>3
  <2> DEFINE z == install_breakpoint(t, over, no)
  <2>4. y = z
    BY <2>2
  <2>7. t.enabled[over]
    BY <1>1, <2>3 DEF AllOn
  <2>5. /\ SameList(t, z)
        /\ no \/ ~UserDisabled(t, over) => z.xp[over]
        /\ \A c \in Bp \ {over} : z.xp[c] = t.xp[c]
    BY <1>1, <2>3, <2>7, TrapBack
  <2> HIDE DEF y, z
  <2>6. (UserDisabled(z, b) <=> UserDisabled(t, b)) /\ z.addr = t.addr
    BY <2>5 DEF SameList, UserDisabled
  <2>8. z.xp[b] => t.xp[b] \/ over = b
    BY <1>1, <2>5
  <2>9. ~z.xp[b] => (~t.xp[b] /\ over # b) \/ UserDisabled(t, b)
    BY <1>1, <2>2, <2>5, <2>7
  <2> QED BY <2>1, <2>4, <2>6, <2>8, <2>9
<1> QED BY <1>2, <1>3

(* A stop_bp that is set is in the text, at its address. *)
LEMMA StopBpSet ==
  ASSUME NEW u, Good(u), AllOn(u), TempBp \notin u.live, NEW a \in Addr
  PROVE  LET s == WithStopBp(u, a)
         IN  s.table.addr[s.bp] = a /\ s.table.xp[s.bp] /\ s.bp # NoBp
<1> DEFINE v == Placed(u, a)
           b == PlacedBp(u, a)
           w == IF v.xp[b] THEN v ELSE install_breakpoint(v, b, TRUE)
<1>1. Good(v) /\ b \in v.live /\ AllOn(v)
  BY GoodPlaced
<1>2. WithStopBp(u, a).table = w /\ WithStopBp(u, a).bp = b
  BY DEF WithStopBp, Placed, PlacedBp
<1>3. v.addr[b] = a
  <2>1. CASE dx_addr_to_breakpoint(u, a) = {}
    <3>1. u \in Tables /\ TempBp \in Bp /\ NoCode \in Code
      BY GoodTypes, NoTypes
    <3>2. dx_add_breakpoint(u, TempBp, a, NoCode, "none").addr[TempBp] = a
      BY <3>1, AddFields
    <3> QED BY <2>1, <3>2 DEF Placed, PlacedBp
  <2>2. CASE dx_addr_to_breakpoint(u, a) # {}
    <3>1. u.addr[FirstOf(u, dx_addr_to_breakpoint(u, a))] = a
      BY <2>2, GoodTypes, FirstAtAddr
    <3> QED BY <2>2, <3>1 DEF Placed, PlacedBp
  <2> QED BY <2>1, <2>2
<1> HIDE DEF v, b
<1>4. b \in Bp /\ v \in Tables /\ v.enabled[b] /\ b # NoBp
  BY <1>1, GoodTypes DEF AllOn
<1>5. w.addr = v.addr /\ w.xp[b]
  <2>1. CASE v.xp[b]
    BY <2>1
  <2>2. CASE ~v.xp[b]
    <3>1. PICK yes \in BOOLEAN : yes = TRUE
      BY Zenon
    <3> DEFINE z == install_breakpoint(v, b, yes)
    <3>2. SameList(v, z) /\ (yes \/ ~UserDisabled(v, b) => z.xp[b])
      BY <1>4, TrapBack
    <3>3. w = z
      BY <2>2, <3>1
    <3> HIDE DEF z
    <3> QED BY <1>4, <3>1, <3>2, <3>3 DEF SameList
  <2> QED BY <2>1, <2>2
<1> HIDE DEF w
<1> QED BY <1>2, <1>3, <1>4, <1>5

-----------------------------------------------------------------------------
(* Where the target is while Next runs.  home.depth is the depth of the    *)
(* frame the command is in: the one it began in, or the caller it has      *)
(* returned to.                                                            *)
Followed ==
  /\ rtype = "NEXT" /\ ctl # "idle" /\ alive /\ home.framed /\ home.depth > 0
  /\ L.jsr_fp # 0 => L.jsr_fp = -(2 * home.depth) - 1

AtHome == Depth = home.depth /\ (L.jsr_fp # 0 => ~Frameless(pc))

(* A single step has called a function. *)
JustCalled ==
  /\ Depth = home.depth + 1 /\ Frameless(pc) /\ ~Frameless(stack[Depth])
  /\ SteppedIntoFunc

(* There is no stop_bp: the loop single steps in that frame, and knows     *)
(* when a step has called.                                                 *)
StepMode ==
  /\ L.cont_type = "STEP" /\ ctl \in {"loop", "step", "back"}
  /\ ctl \in {"loop", "step"} =>
       AtHome /\ L.sp = SP /\ L.f = Func[pc] /\ L.pc = pc /\ ~lastsig
  /\ ctl = "back" =>
       /\ stopres \in {"SSTEP", "SIG", "USER"}
       /\ \/ AtHome /\ (stopres = "SSTEP" => ~SteppedIntoFunc)
          \/ JustCalled /\ stopres = "SSTEP"

(* There is one: the target is in a call that returns to it, or about to   *)
(* run onto it, and the level it is to be taken at is that frame's.  Or it *)
(* is a breakpoint the user has disabled and is out of the text for good.  *)
Armed == t.xp[L.stop_bp] \/ (ctl = "step" /\ over = L.stop_bp)
Ret == t.addr[L.stop_bp]
Within == Depth > home.depth /\ stack[home.depth + 1] = Ret
Returned == Depth = home.depth /\ pc = Ret /\ (ctl \in {"loop", "step"} => lastsig)
Level ==
  /\ L.sp <= SpOf(Ret, home.depth)
  /\ L.jsr_fp # 0 => ~Frameless(Ret)
  /\ L.jsr_fp = 0 => L.jsr_sp <= SpOf(Ret, home.depth) /\ L.jsr_sp > SpOf(Ret, home.depth + 1)

CallMode ==
  /\ L.cont_type = "CONT" /\ ctl \in {"loop", "step", "cont", "back"}
  /\ ctl = "step" => over # NoBp
  /\ ctl = "back" => stopres # "SSTEP"
  /\ Armed => (Within \/ Returned) /\ Level
  /\ ~Armed => UserDisabled(t, L.stop_bp)

Mode ==
  /\ home.depth <= Depth /\ SP <= BaseSp /\ ~L.plt_stop
  /\ ctl = "end" => (stopres \in {"SSTEP", "BPT"} => Depth = home.depth)
  /\ ctl # "end" /\ L.stop_bp = NoBp => StepMode
  /\ ctl # "end" /\ L.stop_bp # NoBp => CallMode

(* jsr_fp names the frame the command began in, which is not an outer one  *)
(* of the frame it is in.                                                  *)
Homes == [depth : Nat, func : Names, line : Lines, framed : BOOLEAN, moved : BOOLEAN]
HomeInv ==
  /\ home \in Homes
  /\ rtype = "NEXT" /\ ctl # "idle" /\ L.jsr_fp # 0 => L.jsr_fp <= -(2 * home.depth) - 1

FollowInv == HomeInv /\ (Followed => Mode)

-----------------------------------------------------------------------------
(* What the history says of an instruction. *)
LEMMA NoteFacts ==
  ASSUME HomeInv, Note, Len(stack') \in Nat
  PROVE  /\ home' \in Homes /\ home'.framed = home.framed /\ home'.depth <= home.depth
         /\ home'.depth > 0 => /\ SP' <= BaseSp /\ home'.depth <= Len(stack')
                               /\ home'.depth = IF Len(stack') < home.depth THEN Len(stack')
                                                ELSE home.depth
<1>1. home \in Homes /\ home.depth \in Nat
  BY DEF HomeInv, Homes
<1>2. SP' \in Int /\ BaseSp \in Int
  BY DEF SP, SpOf, Depth, BaseSp
<1> DEFINE d == IF SP' > BaseSp THEN 0 ELSE IF Len(stack') < home.depth THEN Len(stack')
                ELSE home.depth
<1>3. home' = [home EXCEPT !.moved = TRUE, !.depth = d]
  BY DEF Note
<1>4. d \in Nat /\ d <= home.depth
      /\ (d > 0 => /\ SP' <= BaseSp /\ d <= Len(stack')
                   /\ d = IF Len(stack') < home.depth THEN Len(stack') ELSE home.depth)
  <2> HIDE DEF SP, BaseSp
  <2> QED BY <1>1, <1>2
<1> HIDE DEF d
<1>5. PICK yes \in BOOLEAN : yes = TRUE
  BY Zenon
<1>6. home' = [home EXCEPT !.moved = yes, !.depth = d]
  BY <1>3, <1>5
<1>7. home' \in Homes
  BY <1>1, <1>4, <1>6 DEF Homes
<1>8. home'.depth = d /\ home'.framed = home.framed
  BY <1>1, <1>6 DEF Homes
<1> QED BY <1>4, <1>7, <1>8

(* A command that is followed after a step of the target was followed      *)
(* before; jsr_fp, when it is used, names the frame the command is in.     *)
LEMMA FollowedBefore ==
  ASSUME Inv, FollowInv, Followed', rtype' = rtype, ctl # "idle", alive,
         L'.jsr_fp = L.jsr_fp,
         home'.framed = home.framed, home'.depth \in Nat, home'.depth <= home.depth
  PROVE  /\ Followed /\ Mode
         /\ L.jsr_fp # 0 => home'.depth = home.depth
<1>1. /\ home \in Homes /\ home.depth \in Nat /\ L.jsr_fp \in Int
      /\ rtype = "NEXT" /\ L.jsr_fp # 0 => L.jsr_fp <= -(2 * home.depth) - 1
  BY DEF FollowInv, HomeInv, Homes, Inv, Types, Locals
<1>2. /\ rtype = "NEXT" /\ home.framed /\ home'.depth > 0
      /\ L.jsr_fp # 0 => L.jsr_fp = -(2 * home'.depth) - 1
  BY DEF Followed
<1>3. home.depth > 0 /\ (L.jsr_fp # 0 => home'.depth = home.depth)
  BY <1>1, <1>2
<1>4. Followed
  BY <1>1, <1>2, <1>3 DEF Followed
<1> QED BY <1>3, <1>4 DEF FollowInv

(* An instruction in a call: the target stays in the call, or returns from *)
(* it.                                                                     *)
LEMMA CallGoesOn ==
  ASSUME Types, HomeInv, Note, Within,
         NEW place \in Places, pc' = place[1], stack' = place[2], home'.depth > 0
  PROVE  /\ home'.depth = home.depth /\ home'.depth <= Depth' /\ SP' <= BaseSp
         /\ \/ Depth' > home.depth /\ stack'[home.depth + 1] = Ret
            \/ Depth' = home.depth /\ pc' = Ret
<1>1. home.depth \in Nat /\ Depth \in Nat /\ stack \in Seq(Addr) /\ stack' \in Seq(Addr)
      /\ Depth > home.depth /\ stack[home.depth + 1] = Ret
  BY Frames, PlaceTypes DEF HomeInv, Homes, Within, Types
<1>2. Depth' \in Nat /\ Depth' = Len(stack')
  BY <1>1, LenProperties DEF Depth
<1>3. /\ SP' <= BaseSp /\ home'.depth <= Depth'
      /\ home'.depth = IF Depth' < home.depth THEN Depth' ELSE home.depth
  BY <1>2, NoteFacts
<1> HIDE DEF Ret
<1>4. \/ Depth' > home.depth /\ stack'[home.depth + 1] = Ret
      \/ Depth' = home.depth /\ pc' = Ret
  <2>1. CASE Stays(place[1], place[2])
    <3>1. stack' = stack
      BY <2>1 DEF Stays
    <3> QED BY <1>1, <3>1 DEF Depth
  <2>2. CASE Calls(place[1], place[2])
    <3>1. Depth' = Depth + 1 /\ \A i \in 1..Depth : stack'[i] = stack[i]
      BY <1>2, <2>2 DEF Calls
    <3> HIDE DEF Depth
    <3>2. home.depth + 1 \in 1..Depth
      BY <1>1
    <3> QED BY <1>1, <3>1, <3>2
  <2>3. CASE Returns(place[1], place[2])
    <3>1. pc' = stack[Depth] /\ Depth' = Depth - 1 /\ \A i \in 1..(Depth - 1) : stack'[i] = stack[i]
      BY <1>2, <2>3 DEF Returns
    <3> HIDE DEF Depth
    <3>2. CASE Depth = home.depth + 1
      BY <1>1, <3>1, <3>2
    <3>3. CASE Depth # home.depth + 1
      <4>1. home.depth + 1 \in 1..(Depth - 1)
        BY <1>1, <3>3
      <4> QED BY <1>1, <3>1, <4>1
    <3> QED BY <3>2, <3>3
  <2> QED BY <2>1, <2>2, <2>3, Instructions
<1> HIDE DEF SP, BaseSp, Depth
<1> QED BY <1>1, <1>2, <1>3, <1>4

(* The handler runs above the frame it interrupts. *)
LEMMA HandlerLevel ==
  ASSUME Types, pc' = Handler, stack' = Append(stack, pc), SP <= BaseSp
  PROVE  Depth' = Depth + 1 /\ SP' <= BaseSp
<1>1. Depth \in Nat /\ BaseSp \in Int
  BY Frames DEF BaseSp, SpOf
<1>2. Depth' = Depth + 1
  BY HandlerEntered DEF Depth
<1>3. SP \in {-(2 * Depth), -(2 * Depth) - 1} /\ SP' \in {-(2 * Depth') , -(2 * Depth') - 1}
  BY DEF SP, SpOf
<1>4. SP' <= BaseSp
  BY ONLY <1>1, <1>2, <1>3, SP <= BaseSp
<1> QED BY <1>2, <1>4

(* It returns there. *)
LEMMA HandlerGoesOn ==
  ASSUME Types, HomeInv, home' = home, Within \/ Returned,
         pc' = Handler, stack' = Append(stack, pc)
  PROVE  Depth' > home.depth /\ stack'[home.depth + 1] = Ret
<1>1. home.depth \in Nat /\ Depth \in Nat
  BY Frames DEF HomeInv, Homes
<1>2. Depth' = Depth + 1 /\ stack'[Depth + 1] = pc /\ \A i \in 1..Depth : stack'[i] = stack[i]
  BY HandlerEntered DEF Depth
<1> HIDE DEF Ret, Depth
<1>4. CASE Within
  <2>1. home.depth + 1 \in 1..Depth /\ stack[home.depth + 1] = Ret /\ Depth > home.depth
    BY <1>1, <1>4 DEF Within
  <2>2. stack'[home.depth + 1] = Ret
    BY ONLY <1>2, <2>1
  <2>3. Depth' > home.depth
    BY ONLY <1>1, <1>2, <2>1
  <2> QED BY <2>2, <2>3
<1>5. CASE Returned
  <2>1. Depth = home.depth /\ pc = Ret
    BY <1>5 DEF Returned
  <2>2. stack'[home.depth + 1] = Ret
    BY ONLY <1>2, <2>1
  <2>3. Depth' > home.depth
    BY ONLY <1>1, <1>2, <2>1
  <2> QED BY <2>2, <2>3
<1> QED BY <1>4, <1>5

(* An instruction in the frame the command is in: the loop can tell a call *)
(* from anything else.                                                     *)
LEMMA HomeGoesOn ==
  ASSUME Types, HomeInv, Note, AtHome, L' = L, L.sp = SP, L.f = Func[pc], L.pc = pc,
         NEW place \in Places, pc' = place[1], stack' = place[2], home'.depth > 0,
         L.jsr_fp # 0 => home'.depth = home.depth
  PROVE  /\ home'.depth <= Depth' /\ SP' <= BaseSp
         /\ (AtHome' /\ ~SteppedIntoFunc') \/ JustCalled'
<1>1. home.depth \in Nat /\ Depth \in Nat /\ stack \in Seq(Addr) /\ stack' \in Seq(Addr)
      /\ pc \in Nat /\ pc' \in Nat /\ Depth = home.depth /\ (L.jsr_fp # 0 => ~Frameless(pc))
  BY Frames, PlaceTypes, SteppingAssumption DEF HomeInv, Homes, AtHome, Types
<1>2. Depth' \in Nat /\ Depth' = Len(stack')
  BY <1>1, LenProperties DEF Depth
<1>3. /\ SP' <= BaseSp /\ home'.depth <= Depth'
      /\ home'.depth = IF Depth' < home.depth THEN Depth' ELSE home.depth
  BY <1>2, NoteFacts
<1>4. /\ SP = IF Frameless(pc) THEN -(2 * Depth) ELSE -(2 * Depth) - 1
      /\ SP' = IF Frameless(pc') THEN -(2 * Depth') ELSE -(2 * Depth') - 1
  BY DEF SP, SpOf, Frameless
<1>5. SteppedIntoFunc' <=> SP' < SP /\ (Func[pc'] # Func[pc] \/ pc' <= pc)
  BY DEF SteppedIntoFunc
<1>6. /\ AtHome' <=> Depth' = home'.depth /\ (L.jsr_fp # 0 => ~Frameless(pc'))
      /\ JustCalled' <=> /\ Depth' = home'.depth + 1 /\ Frameless(pc') /\ ~Frameless(stack'[Depth'])
                         /\ SteppedIntoFunc'
  BY DEF AtHome, JustCalled, Frameless
<1> HIDE DEF SteppedIntoFunc, AtHome, JustCalled, SP, BaseSp
<1>7. CASE Stays(place[1], place[2])
  <2>1. /\ stack' = stack /\ (Frameless(pc') => Frameless(pc))
        /\ Frameless(pc) /\ ~Frameless(pc') => Func[pc'] = Func[pc] /\ pc' > pc
    BY <1>7 DEF Stays
  <2>2. Depth' = Depth
    BY <2>1 DEF Depth
  <2> HIDE DEF Depth, Frameless
  <2> QED BY <1>1, <1>3, <1>4, <1>5, <1>6, <2>1, <2>2
<1>8. CASE Calls(place[1], place[2])
  <2>1. /\ Depth' = Depth + 1 /\ stack'[Depth + 1] = pc + 1
        /\ Frameless(pc') /\ ~Frameless(pc) /\ ~Frameless(pc + 1)
        /\ Func[pc'] # Func[pc] \/ pc' <= pc
    BY <1>2, <1>8 DEF Calls
  <2>2. ~Frameless(stack'[Depth'])
    <3>1. stack'[Depth'] = pc + 1
      BY ONLY <2>1
    <3> QED BY ONLY <2>1, <3>1
  <2>3. Depth' = home'.depth + 1
    BY ONLY <1>1, <1>3, <2>1
  <2>4. SP' < SP
    <3>1. SP = -(2 * Depth) - 1 /\ SP' = -(2 * (Depth + 1))
      BY ONLY <1>4, <2>1
    <3>2. Depth \in Nat
      BY <1>1
    <3> QED BY ONLY <3>1, <3>2
  <2> QED BY ONLY <1>3, <1>5, <1>6, <2>1, <2>2, <2>3, <2>4
<1>9. CASE Returns(place[1], place[2])
  <2>1. Depth' = Depth - 1 /\ Depth > 0 /\ ~Frameless(pc)
    BY <1>2, <1>9 DEF Returns
  <2>2. home'.depth = Depth'
    BY ONLY <1>1, <1>3, <2>1
  <2>3. L.jsr_fp = 0
    BY ONLY <1>1, <2>1, <2>2, L.jsr_fp # 0 => home'.depth = home.depth
  <2>4. ~(SP' < SP)
    <3>1. SP = -(2 * Depth) - 1 /\ SP' \in {-(2 * (Depth - 1)), -(2 * (Depth - 1)) - 1}
      BY ONLY <1>4, <2>1
    <3>2. Depth \in Nat
      BY <1>1
    <3> QED BY ONLY <3>1, <3>2
  <2> QED BY ONLY <1>3, <1>5, <1>6, <2>2, <2>3, <2>4
<1> QED BY <1>7, <1>8, <1>9, Instructions

(* A step that leaves the target where it is. *)
LEMMA Unmoved ==
  ASSUME pc' = pc, stack' = stack, home' = home, L' = L
  PROVE  /\ Depth' = Depth /\ SP' = SP
         /\ AtHome' <=> AtHome
         /\ SteppedIntoFunc' <=> SteppedIntoFunc
         /\ JustCalled' <=> JustCalled
         /\ t'.addr = t.addr => Ret' = Ret /\ (Within' <=> Within) /\ (Level' <=> Level)
<1>1. Depth' = Depth /\ SP' = SP
  BY DEF Depth, SP, SpOf, Frameless
<1>2. SteppedIntoFunc' <=> SteppedIntoFunc
  BY <1>1 DEF SteppedIntoFunc
<1>3. (AtHome' <=> AtHome) /\ (JustCalled' <=> JustCalled)
  BY <1>1, <1>2 DEF AtHome, JustCalled, Frameless
<1>4. t'.addr = t.addr => Ret' = Ret
  BY DEF Ret
<1>5. t'.addr = t.addr => (Within' <=> Within) /\ (Level' <=> Level)
  BY <1>1, <1>4 DEF Within, Level, SpOf, Frameless
<1> QED BY <1>1, <1>2, <1>3, <1>4, <1>5

(* The frame the command is in is at most the one it began in. *)
LEMMA HomeKept ==
  ASSUME Inv, HomeInv, rtype' = rtype, ctl # "idle", L'.jsr_fp = L.jsr_fp,
         home' \in Homes, home'.depth <= home.depth
  PROVE  HomeInv'
<1>1. home.depth \in Nat /\ home'.depth \in Nat /\ L.jsr_fp \in Int
  BY DEF HomeInv, Homes, Inv, Types, Locals
<1>2. ASSUME rtype' = "NEXT", L'.jsr_fp # 0
      PROVE  L'.jsr_fp <= -(2 * home'.depth) - 1
  <2>1. L.jsr_fp <= -(2 * home.depth) - 1
    BY <1>2 DEF HomeInv
  <2> QED BY <1>1, <2>1
<1> QED BY <1>2 DEF HomeInv

(* A command that is over is not followed. *)
LEMMA FollowIdle ==
  ASSUME GoIdle
  PROVE  FollowInv'
<1>1. ctl' = "idle" /\ home' = NoHome
  BY DEF GoIdle
<1>2. Func[Main] \in Names /\ 0 \in Lines
  BY SteppingAssumption DEF Names, Lines
<1>3. PICK yes \in BOOLEAN, no \in BOOLEAN : yes = TRUE /\ no = FALSE
  BY Zenon
<1>4. home' = [depth |-> 1, func |-> Func[Main], line |-> 0, framed |-> yes, moved |-> no]
  BY <1>1, <1>3 DEF NoHome
<1>5. home' \in Homes
  BY <1>2, <1>4 DEF Homes
<1> QED BY <1>1, <1>5 DEF FollowInv, HomeInv, Followed

(* Nor is one that is not Next. *)
LEMMA FollowOther ==
  ASSUME home' \in Homes, rtype' # "NEXT"
  PROVE  FollowInv'
BY DEF FollowInv, HomeInv, Followed

(* ao_restart_child *)
LEMMA RestartFollows ==
  ASSUME Inv, LifeInv, FollowInv, Restart
  PROVE  FollowInv'
<1>1. /\ ctl = "loop" /\ rtype' = rtype /\ L' = L /\ stopres' = stopres /\ lastsig' = lastsig
      /\ home' = home /\ alive' = alive /\ pc' = pc /\ stack' = stack
      /\ ctl' \in {"step", "cont"} /\ (L.cont_type # "CONT" => ctl' = "step")
  BY DEF Restart, machine, hist
<1>2. HomeInv /\ home \in Homes /\ home.depth \in Nat
  BY DEF FollowInv, HomeInv, Homes
<1>3. HomeInv'
  BY <1>1, <1>2, HomeKept
<1>4. SUFFICES ASSUME Followed' PROVE Mode'
  BY <1>3 DEF FollowInv
<1>5. Followed /\ Mode
  <2>1. alive
    BY <1>1, <1>4 DEF Followed
  <2> QED BY <1>1, <1>2, <1>4, <2>1, FollowedBefore
<1>6. /\ Depth' = Depth /\ SP' = SP
      /\ AtHome' <=> AtHome
      /\ SteppedIntoFunc' <=> SteppedIntoFunc
      /\ JustCalled' <=> JustCalled
      /\ t'.addr = t.addr => Ret' = Ret /\ (Within' <=> Within) /\ (Level' <=> Level)
  BY <1>1, Unmoved
<1>7. home'.depth <= Depth' /\ SP' <= BaseSp /\ ~L'.plt_stop
  BY <1>1, <1>5, <1>6 DEF Mode
<1>8. CASE L.stop_bp = NoBp
  <2>1. StepMode
    BY <1>1, <1>5, <1>8 DEF Mode
  <2>2. L.cont_type = "STEP" /\ AtHome /\ L.sp = SP /\ L.f = Func[pc] /\ L.pc = pc /\ ~lastsig
    BY <1>1, <2>1 DEF StepMode
  <2>3. StepMode'
    BY <1>1, <1>6, <2>2 DEF StepMode
  <2> QED BY <1>1, <1>7, <1>8, <2>3 DEF Mode
<1>9. CASE L.stop_bp # NoBp
  <2> DEFINE b == L.stop_bp
  <2>1. CallMode
    BY <1>1, <1>5, <1>9 DEF Mode
  <2>2. /\ L.cont_type = "CONT"
        /\ t.xp[b] => (Within \/ (Depth = home.depth /\ pc = Ret /\ lastsig)) /\ Level
        /\ ~t.xp[b] => UserDisabled(t, b)
    BY <1>1, <2>1 DEF CallMode, Armed, Returned
  <2>3. b \in t.live
    BY <1>9 DEF Inv, TableInv
  <2>4. /\ t'.addr = t.addr /\ (UserDisabled(t', b) <=> UserDisabled(t, b))
        /\ t.xp[b] => t'.xp[b] \/ (ctl' = "step" /\ over' = b)
        /\ ~t.xp[b] /\ UserDisabled(t, b) => ~t'.xp[b] /\ over' # b
        /\ ctl' = "step" => over' # NoBp
    BY <2>2, <2>3, StopBpRestarts
  <2>5. Armed' <=> t'.xp[b] \/ (ctl' = "step" /\ over' = b)
    BY <1>1 DEF Armed
  <2>6. Depth' = home.depth /\ pc = Ret' /\ lastsig => Returned'
    <3>1. lastsig => lastsig'
      BY <1>1, Zenon
    <3> QED BY <1>1, <3>1 DEF Returned
  <2>7. CallMode'
    <3>1. Armed' => (Within' \/ Returned') /\ Level'
      BY <1>6, <2>2, <2>4, <2>5, <2>6
    <3>2. ~Armed' => UserDisabled(t', b)
      BY <2>2, <2>4, <2>5
    <3> QED BY <1>1, <2>2, <2>4, <3>1, <3>2 DEF CallMode
  <2> QED BY <1>1, <1>7, <1>9, <2>7 DEF Mode
<1> QED BY <1>8, <1>9

(* The target runs an instruction, or enters the handler. *)
Moved ==
  \/ lastsig /\ pc' = Handler /\ stack' = Append(stack, pc) /\ home' = home
  \/ /\ ~lastsig /\ Note
     /\ \E place \in Places : pc' = place[1] /\ stack' = place[2]

(* Then the history follows it. *)
LEMMA MovedHome ==
  ASSUME Types, HomeInv, Moved
  PROVE  /\ home' \in Homes /\ home'.depth \in Nat
         /\ home'.framed = home.framed /\ home'.depth <= home.depth
         /\ home'.depth > 0 /\ home.depth <= Depth /\ SP <= BaseSp
              => home'.depth <= Depth' /\ SP' <= BaseSp
<1>1. home \in Homes /\ home.depth \in Nat /\ Depth \in Nat
  BY Frames DEF HomeInv, Homes
<1>2. CASE pc' = Handler /\ stack' = Append(stack, pc) /\ home' = home
  <2>1. SP <= BaseSp => Depth' = Depth + 1 /\ SP' <= BaseSp
    BY <1>2, HandlerLevel
  <2> QED BY <1>1, <1>2, <2>1
<1>3. CASE Note /\ \E place \in Places : pc' = place[1] /\ stack' = place[2]
  <2>1. stack' \in Seq(Addr)
    BY <1>3, PlaceTypes
  <2>2. Len(stack') \in Nat /\ Depth' = Len(stack')
    BY <2>1, LenProperties DEF Depth
  <2>3. /\ home' \in Homes /\ home'.framed = home.framed /\ home'.depth <= home.depth
        /\ home'.depth > 0 => SP' <= BaseSp /\ home'.depth <= Len(stack')
    BY <1>3, <2>2, NoteFacts
  <2>4. home'.depth \in Nat
    BY <2>3 DEF Homes
  <2> QED BY <2>2, <2>3, <2>4
<1> QED BY <1>2, <1>3 DEF Moved

(* In a call it goes on in the call, or returns to the stop_bp. *)
LEMMA MovedCall ==
  ASSUME Types, HomeInv, Moved, L' = L, t'.addr = t.addr, home'.depth > 0, ctl' = "cont",
         Within \/ (Depth = home.depth /\ pc = Ret /\ lastsig), Level
  PROVE  (Within' \/ Returned') /\ Level'
<1>1. home.depth \in Nat /\ Ret' = Ret
  BY DEF HomeInv, Homes, Ret
<1>2. CASE lastsig /\ pc' = Handler /\ stack' = Append(stack, pc) /\ home' = home
  <2>1. Within \/ Returned
    BY <1>2 DEF Returned
  <2>2. Depth' > home.depth /\ stack'[home.depth + 1] = Ret
    BY <1>2, <2>1, HandlerGoesOn
  <2>3. Within'
    BY <1>1, <1>2, <2>2 DEF Within
  <2>4. Level'
    BY <1>1, <1>2 DEF Level
  <2> QED BY <2>3, <2>4
<1>3. CASE ~lastsig /\ Note /\ \E place \in Places : pc' = place[1] /\ stack' = place[2]
  <2>1. Within
    BY <1>3
  <2>2. /\ home'.depth = home.depth
        /\ \/ Depth' > home.depth /\ stack'[home.depth + 1] = Ret
           \/ Depth' = home.depth /\ pc' = Ret
    BY <1>3, <2>1, CallGoesOn
  <2>3. Within' \/ Returned'
    BY <1>1, <2>2 DEF Within, Returned
  <2>4. Level'
    BY <1>1, <2>2 DEF Level
  <2> QED BY <2>3, <2>4
<1> QED BY <1>2, <1>3 DEF Moved

(* One instruction, or the entry to the handler, single stepped. *)
LEMMA SingleStepFollows ==
  ASSUME Inv, LifeInv, FollowInv, SingleStep
  PROVE  FollowInv'
<1>1. /\ ctl = "step" /\ t' = PutBack /\ stopres' = "SSTEP" /\ ctl' \in {"cont", "back"}
      /\ ctl' = IF over # NoBp /\ L.cont_type = "CONT" THEN "cont" ELSE "back"
      /\ rtype' = rtype /\ L' = L /\ alive' = alive
  BY DEF SingleStep
<1>2. Moved
  BY DEF SingleStep, Moved, hist
<1>3. Types /\ HomeInv
  BY DEF Inv, FollowInv
<1>4. /\ home' \in Homes /\ home'.depth \in Nat
      /\ home'.framed = home.framed /\ home'.depth <= home.depth
      /\ home'.depth > 0 /\ home.depth <= Depth /\ SP <= BaseSp
           => home'.depth <= Depth' /\ SP' <= BaseSp
  BY <1>2, <1>3, MovedHome
<1>5. HomeInv'
  BY <1>1, <1>3, <1>4, HomeKept
<1>6. SUFFICES ASSUME Followed' PROVE Mode'
  BY <1>5 DEF FollowInv
<1>7. /\ Followed /\ Mode /\ home'.depth > 0
      /\ L.jsr_fp # 0 => home'.depth = home.depth
  <2>1. alive /\ home'.depth > 0
    BY <1>1, <1>6 DEF Followed
  <2> QED BY <1>1, <1>4, <1>6, <2>1, FollowedBefore
<1>8. home'.depth <= Depth' /\ SP' <= BaseSp /\ ~L'.plt_stop
  BY <1>1, <1>4, <1>7 DEF Mode
<1>9. CASE L.stop_bp = NoBp
  <2>1. L.cont_type = "STEP" /\ AtHome /\ L.sp = SP /\ L.f = Func[pc] /\ L.pc = pc /\ ~lastsig
    BY <1>1, <1>7, <1>9 DEF Mode, StepMode
  <2>2. Note /\ \E place \in Places : pc' = place[1] /\ stack' = place[2]
    BY <1>2, <2>1 DEF Moved
  <2>3. (AtHome' /\ ~SteppedIntoFunc') \/ JustCalled'
    BY <1>1, <1>3, <1>7, <2>1, <2>2, HomeGoesOn
  <2>4. StepMode'
    BY <1>1, <2>1, <2>3 DEF StepMode
  <2> QED BY <1>1, <1>8, <1>9, <2>1, <2>4 DEF Mode
<1>10. CASE L.stop_bp # NoBp
  <2> DEFINE b == L.stop_bp
  <2>1. /\ L.cont_type = "CONT" /\ over # NoBp
        /\ t.xp[b] \/ over = b =>
             (Within \/ (Depth = home.depth /\ pc = Ret /\ lastsig)) /\ Level
        /\ ~(t.xp[b] \/ over = b) => UserDisabled(t, b)
    BY <1>1, <1>7, <1>10 DEF Mode, CallMode, Armed, Returned
  <2>2. b \in t.live /\ Stepped(rtype)
    BY <1>7, <1>10 DEF Inv, TableInv, Followed, Stepped
  <2>3. /\ t'.addr = t.addr /\ (UserDisabled(t', b) <=> UserDisabled(t, b))
        /\ t'.xp[b] => t.xp[b] \/ over = b
        /\ ~t'.xp[b] => (~t.xp[b] /\ over # b) \/ UserDisabled(t, b)
    BY <1>1, <2>2, StopBpPutBack
  <2>4. ctl' = "cont"
    BY <1>1, <2>1
  <2>5. Armed' <=> t'.xp[b]
    BY <1>1, <2>4 DEF Armed
  <2>6. Armed' => (Within' \/ Returned') /\ Level'
    BY <1>1, <1>2, <1>3, <1>7, <2>1, <2>3, <2>4, <2>5, MovedCall
  <2>7. ~Armed' => UserDisabled(t', b)
    BY <2>1, <2>3, <2>5
  <2>8. CallMode'
    BY <1>1, <2>1, <2>4, <2>6, <2>7 DEF CallMode
  <2> QED BY <1>1, <1>8, <1>10, <2>4, <2>8 DEF Mode
<1> QED BY <1>9, <1>10

(* The process runs. *)
LEMMA RunFollows ==
  ASSUME Inv, LifeInv, FollowInv, Run
  PROVE  FollowInv'
<1>1. /\ ctl = "cont" /\ t' = t /\ rtype' = rtype /\ L' = L /\ alive' = alive
      /\ \/ Moved /\ ctl' = "cont" /\ (~lastsig => t.text[pc] # BPT)
         \/ /\ pc' = pc /\ stack' = stack /\ home' = home
            /\ ctl' = "back" /\ stopres' = "BPT"
  BY DEF Run, Moved, hist
<1>2. Types /\ HomeInv /\ home \in Homes /\ home.depth \in Nat
  BY DEF Inv, FollowInv, HomeInv, Homes
<1>3. /\ home' \in Homes /\ home'.depth \in Nat
      /\ home'.framed = home.framed /\ home'.depth <= home.depth
      /\ home'.depth > 0 /\ home.depth <= Depth /\ SP <= BaseSp
           => home'.depth <= Depth' /\ SP' <= BaseSp
  <2>1. CASE Moved
    BY <1>2, <2>1, MovedHome
  <2>2. CASE pc' = pc /\ stack' = stack /\ home' = home
    <3>1. Depth' = Depth /\ SP' = SP
      BY <1>1, <2>2, Unmoved
    <3> QED BY <1>2, <2>2, <3>1
  <2> QED BY <1>1, <2>1, <2>2
<1>4. HomeInv'
  BY <1>1, <1>2, <1>3, HomeKept
<1>5. SUFFICES ASSUME Followed' PROVE Mode'
  BY <1>4 DEF FollowInv
<1>6. Followed /\ Mode /\ home'.depth > 0
  <2>1. alive /\ home'.depth > 0
    BY <1>1, <1>5 DEF Followed
  <2> QED BY <1>1, <1>3, <1>5, <2>1, FollowedBefore
<1>7. home'.depth <= Depth' /\ SP' <= BaseSp /\ ~L'.plt_stop
  BY <1>1, <1>3, <1>6 DEF Mode
<1> DEFINE b == L.stop_bp
<1>8. /\ b # NoBp /\ L.cont_type = "CONT"
      /\ t.xp[b] => (Within \/ (Depth = home.depth /\ pc = Ret)) /\ Level
      /\ ~t.xp[b] => UserDisabled(t, b)
  BY <1>1, <1>6 DEF Mode, StepMode, CallMode, Armed, Returned
<1>9. Armed' <=> t.xp[b]
  BY <1>1 DEF Armed
<1>10. CASE Moved /\ ctl' = "cont" /\ (~lastsig => t.text[pc] # BPT)
  <2>1. t.xp[b] => Within \/ (Depth = home.depth /\ pc = Ret /\ lastsig)
    <3>1. ASSUME t.xp[b], pc = Ret, ~lastsig
          PROVE  FALSE
      <4>1. Intact(t) /\ pc \in Addr /\ Late = {} /\ b \in t.live
        BY <1>2, <1>8, GoodTypes, SteppingAssumption DEF Inv, TableInv, Types
      <4>2. b \in get_breakpoint_at_addr(t, pc)
        BY <3>1, <4>1 DEF get_breakpoint_at_addr, Ret
      <4>3. t.text[pc] = BPT
        BY <4>1, <4>2, TextOfIntact
      <4> QED BY <1>10, <3>1, <4>3
    <3> QED BY <1>8, <3>1
  <2>2. Armed' => (Within' \/ Returned') /\ Level'
    BY <1>1, <1>2, <1>6, <1>8, <1>9, <1>10, <2>1, MovedCall
  <2>3. CallMode'
    BY <1>1, <1>8, <1>9, <1>10, <2>2 DEF CallMode
  <2> QED BY <1>1, <1>7, <1>8, <1>10, <2>3 DEF Mode
<1>11. CASE /\ pc' = pc /\ stack' = stack /\ home' = home
            /\ ctl' = "back" /\ stopres' = "BPT"
  <2>1. Depth' = Depth /\ Ret' = Ret /\ (Within' <=> Within) /\ (Level' <=> Level)
    BY <1>1, <1>11, Unmoved
  <2>2. Returned' <=> Depth = home.depth /\ pc = Ret
    BY <1>11, <2>1 DEF Returned
  <2>3. CallMode'
    BY <1>1, <1>8, <1>9, <1>11, <2>1, <2>2 DEF CallMode
  <2> QED BY <1>1, <1>7, <1>8, <1>11, <2>3 DEF Mode
<1> QED BY <1>1, <1>10, <1>11

(* It exits: there is nothing to follow. *)
LEMMA ExitFollows ==
  ASSUME Inv, FollowInv, ExitProcess
  PROVE  FollowInv'
<1>1. /\ ctl \in {"step", "cont"} /\ stack' = stack /\ Note
      /\ rtype' = rtype /\ L' = L /\ ~alive'
  BY DEF ExitProcess
<1>2. Types /\ HomeInv
  BY DEF Inv, FollowInv
<1>3. Len(stack') \in Nat
  BY <1>1, <1>2, LenProperties DEF Types
<1>4. home' \in Homes /\ home'.depth <= home.depth
  BY <1>1, <1>2, <1>3, NoteFacts
<1>5. HomeInv'
  BY <1>1, <1>2, <1>4, HomeKept
<1> QED BY <1>1, <1>5 DEF FollowInv, Followed

(* It stops for a signal or the Stop button. *)
LEMMA StopsFollow ==
  ASSUME Inv, FollowInv, Signal \/ Stop
  PROVE  FollowInv'
<1>1. /\ ctl \in {"step", "cont"} /\ t' = (IF ctl = "step" THEN PutBack ELSE t)
      /\ stopres' \in {"SIG", "USER"} /\ ctl' = "back"
      /\ pc' = pc /\ stack' = stack /\ alive' = alive /\ home' = home
      /\ rtype' = rtype /\ L' = L
  BY DEF Signal, Stop, machine, hist
<1>2. Types /\ HomeInv /\ home \in Homes /\ home.depth \in Nat
  BY DEF Inv, FollowInv, HomeInv, Homes
<1>3. HomeInv'
  BY <1>1, <1>2, HomeKept
<1>4. SUFFICES ASSUME Followed' PROVE Mode'
  BY <1>3 DEF FollowInv
<1>5. Followed /\ Mode
  <2>1. alive
    BY <1>1, <1>4 DEF Followed
  <2> QED BY <1>1, <1>2, <1>4, <2>1, FollowedBefore
<1>6. /\ Depth' = Depth /\ SP' = SP /\ (AtHome' <=> AtHome)
      /\ t'.addr = t.addr => Ret' = Ret /\ (Within' <=> Within) /\ (Level' <=> Level)
  BY <1>1, Unmoved
<1>7. home'.depth <= Depth' /\ SP' <= BaseSp /\ ~L'.plt_stop
  BY <1>1, <1>5, <1>6 DEF Mode
<1>8. CASE L.stop_bp = NoBp
  <2>1. L.cont_type = "STEP" /\ AtHome
    BY <1>1, <1>5, <1>8 DEF Mode, StepMode
  <2>2. StepMode'
    BY <1>1, <1>6, <2>1 DEF StepMode
  <2> QED BY <1>1, <1>7, <1>8, <2>2 DEF Mode
<1>9. CASE L.stop_bp # NoBp
  <2> DEFINE b == L.stop_bp
             armed == t.xp[b] \/ (ctl = "step" /\ over = b)
  <2>1. /\ L.cont_type = "CONT"
        /\ armed => (Within \/ (Depth = home.depth /\ pc = Ret)) /\ Level
        /\ ~armed => UserDisabled(t, b)
    BY <1>1, <1>5, <1>9 DEF Mode, CallMode, Armed, Returned
  <2>2. b \in t.live /\ Stepped(rtype)
    BY <1>5, <1>9 DEF Inv, TableInv, Followed, Stepped
  <2>3. /\ t'.addr = t.addr /\ (UserDisabled(t', b) <=> UserDisabled(t, b))
        /\ t'.xp[b] => armed
        /\ ~t'.xp[b] => ~armed \/ UserDisabled(t, b)
    <3>1. CASE ctl = "step"
      <4>1. /\ PutBack.addr = t.addr /\ (UserDisabled(PutBack, b) <=> UserDisabled(t, b))
            /\ PutBack.xp[b] => t.xp[b] \/ over = b
            /\ ~PutBack.xp[b] => (~t.xp[b] /\ over # b) \/ UserDisabled(t, b)
        BY <2>2, <3>1, StopBpPutBack
      <4> HIDE DEF PutBack
      <4> QED BY <1>1, <3>1, <4>1
    <3>2. CASE ctl # "step"
      BY <1>1, <3>2
    <3> QED BY <3>1, <3>2
  <2>4. Armed' <=> t'.xp[b]
    BY <1>1 DEF Armed
  <2>5. Returned' <=> Depth = home.depth /\ pc = Ret
    BY <1>1, <1>6, <2>3 DEF Returned
  <2> HIDE DEF armed
  <2>6. Armed' => (Within' \/ Returned') /\ Level'
    BY <1>6, <2>1, <2>3, <2>4, <2>5
  <2>7. ~Armed' => UserDisabled(t', b)
    BY <2>1, <2>3, <2>4
  <2>8. CallMode'
    BY <1>1, <2>1, <2>6, <2>7 DEF CallMode
  <2> QED BY <1>1, <1>7, <1>9, <2>8 DEF Mode
<1> QED BY <1>8, <1>9

(* The loop is left only for Stop and for the end of the process: while    *)
(* Next follows the target no breakpoint ends it.                          *)
LEMMA LeaveFollows ==
  ASSUME Inv, FollowInv, Leave
  PROVE  FollowInv'
<1>1. /\ ctl = "back" /\ ctl' = "end" /\ StopNow /\ stopres' = stopres
      /\ pc' = pc /\ stack' = stack /\ alive' = alive /\ home' = home
      /\ rtype' = rtype /\ L' = L
  BY DEF Leave, machine, hist
<1>2. HomeInv /\ home \in Homes /\ home.depth \in Nat
  BY DEF FollowInv, HomeInv, Homes
<1>3. HomeInv'
  BY <1>1, <1>2, HomeKept
<1>4. SUFFICES ASSUME Followed' PROVE Mode'
  BY <1>3 DEF FollowInv
<1>5. Followed /\ Mode
  <2>1. alive
    BY <1>1, <1>4 DEF Followed
  <2> QED BY <1>1, <1>2, <1>4, <2>1, FollowedBefore
<1>6. Depth' = Depth /\ SP' = SP
  BY <1>1, Unmoved
<1>7. home'.depth <= Depth' /\ SP' <= BaseSp /\ ~L.plt_stop
  BY <1>1, <1>5, <1>6 DEF Mode
<1>8. stopres \notin {"SSTEP", "BPT"}
  <2>1. CASE L.stop_bp = NoBp
    <3>1. stopres # "BPT"
      BY <1>1, <1>5, <2>1 DEF Mode, StepMode
    <3> QED BY <1>1, <3>1 DEF StopNow
  <2>2. CASE L.stop_bp # NoBp
    BY <1>1, <1>7, <2>2 DEF StopNow
  <2> QED BY <2>1, <2>2
<1> QED BY <1>1, <1>7, <1>8 DEF Mode

(* exec_to_lnum and jump_to_lnum go on, and every command ends. *)
LEMMA EndsFollow ==
  ASSUME FollowInv, GoOn \/ EndStepping \/ EndExecTo \/ EndJump
  PROVE  FollowInv'
<1>1. home \in Homes
  BY DEF FollowInv, HomeInv
<1>2. GoIdle \/ (home' = home /\ rtype' # "NEXT")
  BY DEF GoOn, EndStepping, EndExecTo, EndJump, hist
<1> QED BY <1>1, <1>2, FollowIdle, FollowOther

(* The frame a command is about. *)
LEMMA SelectHome ==
  ASSUME Types, NEW d \in 1..Depth, SelectFrame(d)
  PROVE  /\ home' \in Homes /\ home'.depth = d
         /\ home'.framed <=> ~Frameless(pc) /\ ~Frameless(FramePc(d))
<1>1. Func[AdjustedPc(d)] \in Names /\ Line[AdjustedPc(d)] \in Lines
  BY SelectTypes
<1>2. d \in Nat
  BY Frames
<1> DEFINE framed == HasFrame /\ ~Frameless(FramePc(d))
<1>3. framed \in BOOLEAN /\ (framed <=> ~Frameless(pc) /\ ~Frameless(FramePc(d)))
  BY Zenon DEF HasFrame
<1>4. PICK no \in BOOLEAN : no = FALSE
  BY Zenon
<1>5. home' = [depth |-> d, func |-> Func[AdjustedPc(d)], line |-> Line[AdjustedPc(d)],
               framed |-> framed, moved |-> no]
  BY <1>4 DEF SelectFrame
<1> HIDE DEF framed
<1>6. home' \in Homes
  BY <1>1, <1>2, <1>3, <1>5 DEF Homes
<1>7. home'.depth = d /\ home'.framed = framed
  BY <1>5
<1> QED BY <1>3, <1>6, <1>7

(* exec_to_lnum and jump_to_lnum begin. *)
LEMMA OthersFollow ==
  ASSUME Inv, NEW a \in DestAddrs, NEW d \in 1..Depth, exec_to_lnum(a, d) \/ jump_to_lnum(a, d)
  PROVE  FollowInv'
<1>1. SelectFrame(d) /\ rtype' # "NEXT"
  BY DEF exec_to_lnum, jump_to_lnum
<1>2. home' \in Homes
  BY <1>1, SelectHome DEF Inv
<1> QED BY <1>1, <1>2, FollowOther

(* Next begins: single stepping in the innermost frame, or in a call that  *)
(* returns to an outer one.                                                *)
LEMMA StartFollows ==
  ASSUME Inv, LifeInv, NEW r \in {"NEXT", "STEP"}, NEW d \in 1..Depth, StartStepping(r, d)
  PROVE  FollowInv'
<1>1. Types /\ Good(t) /\ ctl = "idle" /\ TempBp \notin t.live /\ AllOn(t) /\ ~lastsig
  BY DEF Inv, TableInv, LifeInv, StartStepping
<1> DEFINE s == WithStopBp(t, FramePc(d))
           outer == FrameFp(d) # FP
<1>2. /\ SelectFrame(d) /\ t' = IF outer THEN s.table ELSE t
      /\ L' = [cont_type |-> IF outer THEN "CONT" ELSE "STEP",
               stop_bp |-> IF outer THEN s.bp ELSE NoBp, tmp_bp |-> outer /\ s.added,
               jsr_sp |-> 0, jsr_fp |-> IF outer THEN FrameFp(d) ELSE 0,
               orig_f |-> Func[AdjustedPc(d)], orig_lnum |-> Line[AdjustedPc(d)],
               f |-> Func[AdjustedPc(d)], pc |-> FramePc(d), sp |-> SP, plt_stop |-> FALSE]
      /\ ctl' = "loop" /\ pc' = pc /\ stack' = stack /\ lastsig' = lastsig
  BY DEF StartStepping, machine
<1>3. /\ L'.cont_type = (IF outer THEN "CONT" ELSE "STEP")
      /\ L'.stop_bp = (IF outer THEN s.bp ELSE NoBp)
      /\ L'.jsr_fp = (IF outer THEN FrameFp(d) ELSE 0)
      /\ L'.f = Func[AdjustedPc(d)] /\ L'.pc = FramePc(d) /\ L'.sp = SP /\ ~L'.plt_stop
  <2> HIDE DEF s, outer
  <2> QED BY <1>2
<1>4. FramePc(d) \in Addr /\ Depth \in Nat /\ d \in Nat /\ d > 0 /\ d <= Depth
  BY <1>1, Frames
<1>5. s.table.addr[s.bp] = FramePc(d) /\ s.table.xp[s.bp] /\ s.bp # NoBp
  BY <1>1, <1>4, StopBpSet
<1>6. /\ home' \in Homes /\ home'.depth = d
      /\ home'.framed <=> ~Frameless(pc) /\ ~Frameless(FramePc(d))
  BY <1>1, <1>2, SelectHome
<1>7. d # Depth => FrameFp(d) = -(2 * d) - 1 /\ FramePc(d) = stack[d + 1]
  BY DEF FrameFp, FramePc
<1>8. d = Depth => ~outer /\ AdjustedPc(d) = pc /\ FramePc(d) = pc
  BY DEF FrameFp, AdjustedPc, FramePc
<1> HIDE DEF s
<1>9. HomeInv'
  <2>1. ASSUME L'.jsr_fp # 0
        PROVE  L'.jsr_fp <= -(2 * home'.depth) - 1
    <3>1. outer /\ L'.jsr_fp = FrameFp(d)
      BY <1>3, <2>1
    <3>2. FrameFp(d) = -(2 * d) - 1
      BY <1>7, <1>8, <3>1
    <3> HIDE DEF outer
    <3> QED BY <1>4, <1>6, <3>1, <3>2
  <2> QED BY <1>6, <2>1 DEF HomeInv
<1>10. SUFFICES ASSUME Followed' PROVE Mode'
  BY <1>9 DEF FollowInv
<1>11. ~Frameless(pc) /\ ~Frameless(FramePc(d))
  BY <1>6, <1>10 DEF Followed
<1>12. FP = -(2 * Depth) - 1 /\ SP = -(2 * Depth) - 1
  BY <1>11 DEF FP, SP, SpOf, HasFrame
<1>13. Depth' = Depth /\ SP' = SP
  BY <1>2 DEF Depth, SP, SpOf, Frameless
<1>14. SP <= BaseSp
  <2>1. BaseSp \in {-2, -3}
    BY DEF BaseSp, SpOf
  <2> QED BY ONLY <1>4, <1>12, <2>1
<1>15. home'.depth <= Depth' /\ SP' <= BaseSp /\ ~L'.plt_stop
  BY ONLY <1>3, <1>4, <1>6, <1>13, <1>14
<1>16. CASE d = Depth
  <2>1. /\ L'.cont_type = "STEP" /\ L'.stop_bp = NoBp /\ L'.jsr_fp = 0
        /\ L'.f = Func[pc] /\ L'.pc = pc /\ L'.sp = SP
    BY <1>3, <1>8, <1>16
  <2>2. AtHome'
    BY <1>6, <1>13, <1>16, <2>1 DEF AtHome
  <2>3. StepMode'
    BY <1>1, <1>2, <1>13, <2>1, <2>2 DEF StepMode
  <2> QED BY <1>2, <1>15, <2>1, <2>3 DEF Mode
<1>17. CASE d # Depth
  <2>1. outer
    BY <1>4, <1>7, <1>12, <1>17
  <2>2. /\ L'.cont_type = "CONT" /\ L'.stop_bp = s.bp /\ L'.jsr_fp = -(2 * d) - 1 /\ t' = s.table
        /\ L'.sp = -(2 * Depth) - 1
    BY <1>2, <1>3, <1>7, <1>12, <1>17, <2>1
  <2>3. Ret' = FramePc(d) /\ Armed'
    BY <1>5, <2>2 DEF Ret, Armed
  <2>4. Within'
    <3>1. Depth > d
      BY <1>4, <1>17
    <3> QED BY <1>2, <1>6, <1>7, <1>13, <1>17, <2>3, <3>1 DEF Within
  <2>5. Level'
    <3>1. SpOf(Ret', d) = -(2 * d) - 1 /\ ~Frameless(Ret')
      BY <1>11, <2>3 DEF SpOf
    <3>2. -(2 * Depth) - 1 <= -(2 * d) - 1 /\ -(2 * d) - 1 # 0
      BY <1>4
    <3>3. L'.sp <= SpOf(Ret', home'.depth) /\ L'.jsr_fp # 0
      BY <1>6, <2>2, <3>1, <3>2
    <3> QED BY <3>1, <3>3 DEF Level
  <2>6. CallMode'
    BY <1>2, <2>2, <2>3, <2>4, <2>5 DEF CallMode
  <2> QED BY <1>2, <1>5, <1>15, <2>2, <2>6 DEF Mode
<1> QED BY <1>16, <1>17

-----------------------------------------------------------------------------
(* Next, after each stop. *)

(* The locals once the state of the target has been read. *)
LEMMA ObservedFields ==
  ASSUME Types
  PROVE  /\ Observed.f = Func[pc] /\ Observed.pc = pc /\ Observed.sp = SP
         /\ Observed.plt_stop = (IF stopres = "BPT" THEN FALSE ELSE L.plt_stop)
         /\ Observed.cont_type = L.cont_type /\ Observed.stop_bp = L.stop_bp
         /\ Observed.jsr_sp = L.jsr_sp /\ Observed.jsr_fp = L.jsr_fp
<1>1. L \in Locals
  BY DEF Types
<1> DEFINE stops == IF stopres = "BPT" THEN FALSE ELSE L.plt_stop
           sp == SP
<1>2. Observed = [L EXCEPT !.f = Func[pc], !.pc = pc, !.sp = sp, !.plt_stop = stops]
  BY DEF Observed
<1> HIDE DEF stops, sp
<1>3. /\ Observed.f = Func[pc] /\ Observed.pc = pc /\ Observed.sp = sp
      /\ Observed.plt_stop = stops
      /\ Observed.cont_type = L.cont_type /\ Observed.stop_bp = L.stop_bp
      /\ Observed.jsr_sp = L.jsr_sp /\ Observed.jsr_fp = L.jsr_fp
  BY <1>1, <1>2 DEF Locals
<1> QED BY <1>3 DEF stops, sp

(* And when the call is over. *)
LEMMA ClearedFields ==
  ASSUME Types
  PROVE  /\ Cleared.f = Func[pc] /\ Cleared.pc = pc /\ Cleared.sp = SP
         /\ ~L.plt_stop => ~Cleared.plt_stop
         /\ Cleared.cont_type = (IF Reached THEN "STEP" ELSE L.cont_type)
         /\ Cleared.stop_bp = (IF Reached THEN NoBp ELSE L.stop_bp)
         /\ Cleared.jsr_fp = L.jsr_fp
<1>1. /\ Observed.f = Func[pc] /\ Observed.pc = pc /\ Observed.sp = SP
      /\ Observed.plt_stop = (IF stopres = "BPT" THEN FALSE ELSE L.plt_stop)
      /\ Observed.cont_type = L.cont_type /\ Observed.stop_bp = L.stop_bp
      /\ Observed.jsr_sp = L.jsr_sp /\ Observed.jsr_fp = L.jsr_fp
  BY ObservedFields
<1>2. Observed \in Locals
  BY ObservedTypes
<1> DEFINE M == Observed
           reached == Reached
<1>3. Cleared = IF reached THEN [M EXCEPT !.stop_bp = NoBp, !.jsr_sp = 0,
                                    !.tmp_bp = FALSE, !.cont_type = "STEP"]
                           ELSE M
  BY DEF Cleared
<1>4. M \in Locals
  BY <1>2
<1> HIDE DEF M, reached
<1>5. /\ Cleared.f = M.f /\ Cleared.pc = M.pc /\ Cleared.sp = M.sp
      /\ Cleared.plt_stop = M.plt_stop /\ Cleared.jsr_fp = M.jsr_fp
      /\ Cleared.cont_type = (IF reached THEN "STEP" ELSE M.cont_type)
      /\ Cleared.stop_bp = (IF reached THEN NoBp ELSE M.stop_bp)
  <2>1. CASE reached
    BY <1>3, <1>4, <2>1 DEF Locals
  <2>2. CASE ~reached
    BY <1>3, <2>2
  <2> QED BY <2>1, <2>2
<1> QED BY <1>1, <1>5 DEF M, reached

(* The breakpoint a stop at a trap is for is the only one there. *)
LEMMA HereAlone ==
  ASSUME Inv, ctl = "back", stopres = "BPT"
  PROVE  /\ t.xp[Here] /\ t.addr[Here] = pc
         /\ \A b \in t.live : t.xp[b] /\ t.addr[b] = pc => b = Here
<1>1. Good(t) /\ get_breakpoint_at_addr(t, pc) # {}
  BY DEF Inv, TableInv
<1>2. t \in Tables /\ TrapsApart(t) /\ t.live \subseteq Bp
  BY <1>1, GoodTypes
<1>3. Here \in Bp /\ t.xp[Here] /\ t.addr[Here] = pc
  BY <1>1, <1>2, FirstInstalled DEF Here
<1> QED BY <1>2, <1>3 DEF TrapsApart

(* Back from the call the target is at the level of the stop_bp; in        *)
(* another call that runs onto it, it is not.                              *)
LEMMA LevelTells ==
  ASSUME Types, HomeInv, Followed, Level, pc = Ret
  PROVE  /\ Depth = home.depth => /\ AtRightStackLevel /\ L.sp <= SP
                                  /\ L.jsr_fp # 0 => ~Frameless(pc)
         /\ Depth > home.depth => ~AtRightStackLevel
<1>1. Depth \in Nat /\ home.depth \in Nat /\ L.sp \in Int /\ L.jsr_sp \in Int /\ L.jsr_fp \in Int
  BY Frames DEF HomeInv, Homes, Types, Locals
<1>2. L.jsr_fp # 0 => L.jsr_fp = -(2 * home.depth) - 1
  BY DEF Followed
<1> DEFINE low == Frameless(pc)
<1>3. /\ SP = IF low THEN -(2 * Depth) ELSE -(2 * Depth) - 1
      /\ ~low => FP = -(2 * Depth) - 1
      /\ SpOf(Ret, home.depth) = IF low THEN -(2 * home.depth) ELSE -(2 * home.depth) - 1
      /\ SpOf(Ret, home.depth + 1) =
            IF low THEN -(2 * (home.depth + 1)) ELSE -(2 * (home.depth + 1)) - 1
  BY DEF SP, SpOf, FP, HasFrame
<1>4. /\ L.sp <= SpOf(Ret, home.depth)
      /\ L.jsr_fp # 0 => ~low
      /\ L.jsr_fp = 0 => /\ L.jsr_sp <= SpOf(Ret, home.depth)
                         /\ L.jsr_sp > SpOf(Ret, home.depth + 1)
  BY DEF Level
<1>5. AtRightStackLevel <=> IF L.jsr_fp # 0 THEN FP >= L.jsr_fp ELSE SP >= L.jsr_sp
  BY DEF AtRightStackLevel
<1> HIDE DEF low
<1> DEFINE h == home.depth
           n == Depth
           fp == L.jsr_fp
           sp == L.jsr_sp
<1>6. /\ n = h => AtRightStackLevel /\ L.sp <= SP /\ (fp # 0 => ~low)
      /\ n > h => ~AtRightStackLevel
  <2>1. CASE fp # 0
    BY ONLY <1>1, <1>2, <1>3, <1>4, <1>5, <2>1
  <2>2. CASE fp = 0
    BY ONLY <1>1, <1>3, <1>4, <1>5, <2>2
  <2> QED BY <2>1, <2>2
<1> QED BY <1>6 DEF low

(* A stop_bp is set where the target is to return to. *)
LEMMA CallBegins ==
  ASSUME Types, HomeInv, NEW a \in Addr, ctl' = "loop", pc' = pc, stack' = stack, home' = home,
         Followed', SP <= BaseSp, home.depth <= Depth,
         L'.cont_type = "CONT", L'.stop_bp # NoBp, t'.xp[L'.stop_bp], t'.addr[L'.stop_bp] = a,
         L'.sp = SP, L'.jsr_sp = SP, ~L'.plt_stop,
         L'.jsr_fp # 0 => ~Frameless(a),
         \/ Depth = home.depth /\ pc = a /\ lastsig'
         \/ Depth = home.depth + 1 /\ stack[Depth] = a /\ Frameless(pc) /\ ~Frameless(a)
  PROVE  Mode'
<1>1. Depth \in Nat /\ home.depth \in Nat
  BY Frames DEF HomeInv, Homes
<1>2. Depth' = Depth /\ SP' = SP
  BY DEF Depth, SP, SpOf, Frameless
<1>3. Ret' = a /\ Armed'
  BY DEF Ret, Armed
<1>4. Within' \/ Returned'
  <2>1. CASE Depth = home.depth /\ pc = a /\ lastsig'
    BY <1>2, <1>3, <2>1 DEF Returned
  <2>2. CASE Depth = home.depth + 1 /\ stack[Depth] = a
    <3>1. Depth > home.depth
      BY <1>1, <2>2
    <3> QED BY <1>2, <1>3, <2>2, <3>1 DEF Within
  <2> QED BY <2>1, <2>2
<1>5. SP <= SpOf(a, home.depth) /\ SP > SpOf(a, home.depth + 1)
  <2>1. CASE Depth = home.depth /\ pc = a
    <3>1. SP = SpOf(a, home.depth)
      BY <2>1 DEF SP
    <3>2. SpOf(a, home.depth) \in Int /\ SpOf(a, home.depth) > SpOf(a, home.depth + 1)
      BY <1>1 DEF SpOf
    <3> QED BY ONLY <3>1, <3>2
  <2>2. CASE Depth = home.depth + 1 /\ Frameless(pc) /\ ~Frameless(a)
    <3>1. /\ SP = -(2 * (home.depth + 1)) /\ SpOf(a, home.depth) = -(2 * home.depth) - 1
          /\ SpOf(a, home.depth + 1) = -(2 * (home.depth + 1)) - 1
      BY <2>2 DEF SP, SpOf
    <3> QED BY ONLY <1>1, <3>1
  <2> QED BY <2>1, <2>2
<1>6. Level'
  BY <1>3, <1>5 DEF Level
<1>7. CallMode'
  BY <1>3, <1>4, <1>6 DEF CallMode
<1> QED BY <1>2, <1>7 DEF Mode

(* The loop single steps on in the frame the command is in, or ends there. *)
LEMMA StepBegins ==
  ASSUME ctl' \in {"loop", "end"}, pc' = pc, stack' = stack, home' = home,
         SP <= BaseSp, home.depth <= Depth, Depth = home.depth,
         L'.cont_type = "STEP", L'.stop_bp = NoBp, ~L'.plt_stop, ~lastsig',
         L'.sp = SP, L'.f = Func[pc], L'.pc = pc, L'.jsr_fp # 0 => ~Frameless(pc)
  PROVE  Mode'
<1>1. Depth' = Depth /\ SP' = SP
  BY DEF Depth, SP, SpOf, Frameless
<1>2. AtHome'
  BY <1>1 DEF AtHome
<1>3. ctl' # "end" => StepMode'
  BY <1>1, <1>2 DEF StepMode
<1> QED BY <1>1, <1>3 DEF Mode

(* What Next does after a stop: it goes on with the call it is in, ... *)
InCall ==
  /\ L.stop_bp # NoBp /\ ~Reached /\ t' = t /\ ctl' = "loop"
  /\ L'.cont_type = L.cont_type /\ L'.stop_bp = L.stop_bp
  /\ L'.sp = SP /\ L'.jsr_sp = L.jsr_sp /\ (~L.plt_stop => ~L'.plt_stop)

(* ... sets a stop_bp, ... *)
NewCall ==
  /\ L.stop_bp = NoBp \/ Reached
  /\ RetAddr # 0 /\ RetAddr \in Addr /\ ctl' = "loop"
  /\ t'.xp[L'.stop_bp] /\ t'.addr[L'.stop_bp] = RetAddr
  /\ L'.cont_type = "CONT" /\ L'.stop_bp # NoBp
  /\ L'.sp = SP /\ L'.jsr_sp = SP /\ ~L'.plt_stop

(* ... or single steps, or ends. *)
NoCall ==
  /\ L.stop_bp = NoBp \/ Reached
  /\ RetAddr = 0 /\ ctl' \in {"loop", "end"}
  /\ L'.cont_type = (IF Reached THEN "STEP" ELSE L.cont_type) /\ L'.stop_bp = NoBp
  /\ L'.sp = SP /\ L'.f = Func[pc] /\ L'.pc = pc /\ (~L.plt_stop => ~L'.plt_stop)

(* There is nothing else, but for main having ended, and jsr_fp stays. *)
LEMMA StepOnCases ==
  ASSUME Inv, StepOn, rtype = "NEXT"
  PROVE  L'.jsr_fp = L.jsr_fp /\ (SP > BaseSp \/ InCall \/ NewCall \/ NoCall)
<1>1. Types /\ ctl = "back" /\ Stepped(rtype)
  BY DEF Inv, StepOn
<1>2. /\ Observed.f = Func[pc] /\ Observed.pc = pc /\ Observed.sp = SP
      /\ Observed.plt_stop = (IF stopres = "BPT" THEN FALSE ELSE L.plt_stop)
      /\ Observed.cont_type = L.cont_type /\ Observed.stop_bp = L.stop_bp
      /\ Observed.jsr_sp = L.jsr_sp /\ Observed.jsr_fp = L.jsr_fp
      /\ Observed \in Locals
  BY <1>1, ObservedFields, ObservedTypes
<1>3. /\ Cleared.f = Func[pc] /\ Cleared.pc = pc /\ Cleared.sp = SP
      /\ ~L.plt_stop => ~Cleared.plt_stop
      /\ Cleared.cont_type = (IF Reached THEN "STEP" ELSE L.cont_type)
      /\ Cleared.stop_bp = (IF Reached THEN NoBp ELSE L.stop_bp)
      /\ Cleared.jsr_fp = L.jsr_fp
  BY <1>1, ClearedFields
<1>4. ~ThroughStub
  BY DEF ThroughStub
<1>5. CASE SP > BaseSp /\ L' = [Observed EXCEPT !.f = L.f, !.cont_type = "CONT"]
  <2>1. L'.jsr_fp = Observed.jsr_fp
    <3> HIDE DEF Observed
    <3> QED BY <1>2, <1>5 DEF Locals
  <2> QED BY <1>2, <1>5, <2>1
<1>6. CASE /\ L.stop_bp # NoBp /\ ~Reached
           /\ L' = Observed
           /\ ctl' = "loop" /\ UNCHANGED t
  <2>1. InCall
    BY <1>2, <1>6 DEF InCall
  <2> QED BY <1>2, <1>6, <2>1
<1>7. CASE /\ SP <= BaseSp
           /\ L.stop_bp = NoBp \/ Reached
           /\ RetAddr # 0
           /\ t' = WithStopBp(Freed, RetAddr).table
           /\ L' = [Cleared EXCEPT !.stop_bp = WithStopBp(Freed, RetAddr).bp,
                       !.tmp_bp = WithStopBp(Freed, RetAddr).added, !.jsr_sp = SP,
                       !.cont_type = "CONT", !.plt_stop = ThroughStub,
                       !.f = IF ThroughStub THEN Func[Callee[pc]] ELSE @]
           /\ ctl' = "loop"
  <2>1. Good(Freed) /\ TempBp \notin Freed.live /\ AllOn(Freed) /\ Cleared \in Locals
    BY <1>1, <1>7, FreedGood
  <2>2. RetAddr \in Addr
    BY <1>1, <1>7, RetAddrTypes
  <2> DEFINE s == WithStopBp(Freed, RetAddr)
             M == Cleared
             sp == SP
             g == IF ThroughStub THEN Func[Callee[pc]] ELSE M.f
  <2>3. s.table.addr[s.bp] = RetAddr /\ s.table.xp[s.bp] /\ s.bp # NoBp
    BY <2>1, <2>2, StopBpSet
  <2>4. /\ t' = s.table
        /\ L' = [M EXCEPT !.stop_bp = s.bp, !.tmp_bp = s.added, !.jsr_sp = sp,
                    !.cont_type = "CONT", !.plt_stop = ThroughStub, !.f = g]
    BY <1>7
  <2>5. M \in Locals /\ M.sp = sp /\ M.jsr_fp = L.jsr_fp
    BY <1>3, <2>1
  <2> HIDE DEF s, M, sp, g, ThroughStub
  <2>6. /\ L'.stop_bp = s.bp /\ L'.jsr_sp = sp /\ L'.cont_type = "CONT"
        /\ L'.plt_stop = ThroughStub /\ L'.sp = M.sp /\ L'.jsr_fp = M.jsr_fp
    BY <2>4, <2>5 DEF Locals
  <2>7. ~L'.plt_stop
    BY <1>4, <2>6
  <2>8. NewCall
    BY <1>7, <2>2, <2>3, <2>4, <2>5, <2>6, <2>7 DEF NewCall, sp
  <2> QED BY <2>5, <2>6, <2>8
<1>8. CASE /\ L.stop_bp = NoBp \/ Reached
           /\ RetAddr = 0
           /\ L' = Cleared \/ L' = [Cleared EXCEPT !.orig_lnum = Line[pc]]
           /\ ctl' \in {"loop", "end"}
  <2> DEFINE M == Cleared
  <2>1. M \in Locals /\ M.stop_bp = NoBp
    BY <1>1, <1>8, FreedGood
  <2>2. L' = M \/ L' = [M EXCEPT !.orig_lnum = Line[pc]]
    BY <1>8
  <2> HIDE DEF M
  <2>3. /\ L'.cont_type = M.cont_type /\ L'.stop_bp = M.stop_bp /\ L'.sp = M.sp
        /\ L'.f = M.f /\ L'.pc = M.pc /\ L'.plt_stop = M.plt_stop /\ L'.jsr_fp = M.jsr_fp
    BY <2>1, <2>2 DEF Locals
  <2>4. L'.jsr_fp = L.jsr_fp
    BY <1>3, <2>3 DEF M
  <2>5. NoCall
    BY <1>3, <1>8, <2>1, <2>3 DEF NoCall, M
  <2> QED BY <2>4, <2>5
<1> QED
  <2>1. CASE /\ SP > BaseSp
             /\ L' = [Observed EXCEPT !.f = L.f, !.cont_type = "CONT"]
             /\ ctl' = "loop" /\ UNCHANGED t
    BY <1>5, <2>1
  <2>2. CASE /\ SP <= BaseSp
             /\ L.stop_bp # NoBp /\ ~Reached
             /\ L' = Observed
             /\ ctl' = "loop" /\ UNCHANGED t
    BY <1>6, <2>2
  <2>3. CASE /\ SP <= BaseSp
             /\ L.stop_bp = NoBp \/ Reached
             /\ LET s == WithStopBp(Freed, RetAddr)
                    newline == Line[pc] # 0 /\ <<Func[pc], Line[pc]>> # <<L.orig_f, L.orig_lnum>>
                IN  IF RetAddr # 0
                    THEN /\ t' = s.table
                         /\ L' = [Cleared EXCEPT !.stop_bp = s.bp, !.tmp_bp = s.added, !.jsr_sp = SP,
                                           !.cont_type = "CONT", !.plt_stop = ThroughStub,
                                           !.f = IF ThroughStub THEN Func[Callee[pc]] ELSE @]
                         /\ ctl' = "loop"
                    ELSE /\ t' = Freed
                         /\ L' = IF newline /\ pc \notin LineStart /\ Func[pc] = L.orig_f
                                 THEN [Cleared EXCEPT !.orig_lnum = Line[pc]] ELSE Cleared
                         /\ ctl' = IF newline /\ pc \in LineStart THEN "end" ELSE "loop"
    <3> HIDE DEF Freed, Cleared, SP, BaseSp, RetAddr, Reached, ThroughStub
    <3>1. CASE RetAddr # 0
      BY <1>7, <2>3, <3>1
    <3>2. CASE RetAddr = 0
      BY <1>8, <2>3, <3>2
    <3> QED BY <3>1, <3>2
  <2> QED BY <2>1, <2>2, <2>3 DEF StepOn, Freed, Cleared

(* The stop is in single stepping: it was the signal, an instruction in    *)
(* the frame, or a call.                                                   *)
LEMMA SteppedOn ==
  ASSUME Inv, LifeInv, HomeInv, Followed, Mode, Followed', L.stop_bp = NoBp,
         ctl = "back", stopres \notin {"USER", "DIED"},
         pc' = pc, stack' = stack, home' = home, lastsig' = lastsig,
         L'.jsr_fp = L.jsr_fp, NewCall \/ NoCall
  PROVE  Mode'
<1>1. Types /\ rtype = "NEXT" /\ pc \in Addr /\ pc # 0
  BY SteppingAssumption DEF Inv, Types, Followed
<1>2. SP <= BaseSp /\ home.depth <= Depth /\ ~L.plt_stop /\ StepMode
  BY DEF Mode
<1>3. /\ L.cont_type = "STEP" /\ stopres \in {"SSTEP", "SIG"}
      /\ \/ AtHome /\ (stopres = "SSTEP" => ~SteppedIntoFunc)
         \/ JustCalled /\ stopres = "SSTEP"
  BY <1>2 DEF StepMode
<1>4. ~Reached
  BY <1>3 DEF Reached
<1>5. CASE stopres = "SIG"
  <2>1. RetAddr = pc /\ AtHome
    BY <1>3, <1>5 DEF RetAddr
  <2>2. Depth = home.depth /\ (L.jsr_fp # 0 => ~Frameless(pc))
    BY <2>1 DEF AtHome
  <2>3. lastsig
    BY <1>5 DEF LifeInv
  <2>5. lastsig'
    BY <2>3, Zenon
  <2>4. NewCall
    BY <1>1, <2>1 DEF NoCall
  <2> QED BY <1>1, <1>2, <2>1, <2>2, <2>5, <2>4, CallBegins DEF NewCall
<1>6. CASE stopres = "SSTEP" /\ AtHome /\ ~SteppedIntoFunc
  <2>1. RetAddr = 0
    BY <1>6 DEF RetAddr, ThroughStub
  <2>2. NoCall
    BY <2>1 DEF NewCall
  <2>3. Depth = home.depth /\ (L.jsr_fp # 0 => ~Frameless(pc))
    BY <1>6 DEF AtHome
  <2>4. ~lastsig
    BY <1>6 DEF LifeInv
  <2>5. ~lastsig'
    BY <2>4, Zenon
  <2>6. /\ ctl' \in {"loop", "end"} /\ L'.cont_type = "STEP" /\ L'.stop_bp = NoBp
        /\ L'.sp = SP /\ L'.f = Func[pc] /\ L'.pc = pc /\ ~L'.plt_stop
    BY <1>2, <1>3, <1>4, <2>2 DEF NoCall
  <2> QED BY <1>2, <2>3, <2>5, <2>6, StepBegins
<1>7. CASE stopres = "SSTEP" /\ JustCalled
  <2>1. /\ Depth = home.depth + 1 /\ Frameless(pc) /\ ~Frameless(stack[Depth])
        /\ SteppedIntoFunc
    BY <1>7 DEF JustCalled
  <2>2. RetAddr = stack[Depth]
    BY <1>1, <1>7, <2>1 DEF RetAddr, ThroughStub
  <2>3. stack[Depth] # 0
    <3>1. Depth \in Nat /\ home.depth \in Nat /\ stack \in Seq(Addr)
      BY <1>1, Frames DEF Types, HomeInv, Homes
    <3>2. Depth \in 1..Len(stack)
      BY <2>1, <3>1 DEF Depth
    <3>3. stack[Depth] \in Addr
      BY <3>1, <3>2, ElementOfSeq
    <3> QED BY <3>3, SteppingAssumption
  <2>4. NewCall
    BY <2>2, <2>3 DEF NoCall
  <2> QED BY <1>1, <1>2, <2>1, <2>2, <2>4, CallBegins DEF NewCall
<1> QED BY <1>3, <1>5, <1>6, <1>7

(* The stop is in a call: at the stop_bp, back from the call, or on the    *)
(* way.                                                                    *)
LEMMA CalledOn ==
  ASSUME Inv, LifeInv, HomeInv, Followed, Mode, Followed', L.stop_bp # NoBp,
         ctl = "back", stopres \notin {"USER", "DIED"},
         pc' = pc, stack' = stack, home' = home, lastsig' = lastsig,
         L'.jsr_fp = L.jsr_fp, InCall \/ NewCall \/ NoCall
  PROVE  Mode'
<1>1. Types /\ rtype = "NEXT" /\ L.stop_bp \in t.live
  BY DEF Inv, TableInv, Followed
<1> DEFINE b == L.stop_bp
<1>2. SP <= BaseSp /\ home.depth <= Depth /\ ~L.plt_stop /\ CallMode
  BY DEF Mode
<1>3. /\ L.cont_type = "CONT" /\ stopres # "SSTEP"
      /\ t.xp[b] => (Within \/ (Depth = home.depth /\ pc = Ret)) /\ Level
      /\ ~t.xp[b] => UserDisabled(t, b)
  BY <1>2 DEF CallMode, Armed, Returned
<1>4. stopres \in {"BPT", "SIG"}
  BY <1>1, <1>3 DEF Types
<1>5. Depth \in Nat /\ home.depth \in Nat
  BY <1>1, Frames DEF HomeInv, Homes
<1>6. t.xp[b] /\ pc = Ret =>
        /\ Depth = home.depth => /\ AtRightStackLevel /\ L.sp <= SP
                                 /\ L.jsr_fp # 0 => ~Frameless(pc)
        /\ Depth > home.depth => ~AtRightStackLevel
  BY <1>1, <1>3, LevelTells
<1>7. CASE InCall
  <2>1. /\ ~Reached /\ t' = t /\ ctl' = "loop"
        /\ L'.cont_type = "CONT" /\ L'.stop_bp = b
        /\ L'.sp = SP /\ L'.jsr_sp = L.jsr_sp /\ ~L'.plt_stop
    BY <1>2, <1>3, <1>7 DEF InCall
  <2>2. Depth' = Depth /\ SP' = SP
    BY DEF Depth, SP, SpOf, Frameless
  <2>3. Ret' = Ret /\ (Armed' <=> t.xp[b])
    BY <2>1 DEF Ret, Armed
  <2>4. ASSUME t.xp[b] PROVE (Within' \/ Returned') /\ Level'
    <3>1. Level /\ (Within \/ (Depth = home.depth /\ pc = Ret))
      BY <1>3, <2>4
    <3>2. CASE Within
      <4>1. Within'
        BY <2>2, <2>3, <3>2 DEF Within
      <4>2. SP <= SpOf(Ret, home.depth)
        <5>1. Depth > home.depth
          BY <3>2 DEF Within
        <5>2. /\ SP \in {-(2 * Depth), -(2 * Depth) - 1}
              /\ SpOf(Ret, home.depth) \in {-(2 * home.depth), -(2 * home.depth) - 1}
          BY DEF SP, SpOf
        <5> QED BY ONLY <1>5, <5>1, <5>2
      <4>3. Level'
        BY <2>1, <2>3, <3>1, <4>2 DEF Level
      <4> QED BY <4>1, <4>3
    <3>3. CASE Depth = home.depth /\ pc = Ret
      <4>1. stopres = "SIG"
        <5>1. ASSUME stopres = "BPT" PROVE FALSE
          <6>1. b = Here
            BY <1>1, <2>4, <3>3, <5>1, HereAlone DEF Ret
          <6>2. AtRightStackLevel
            BY <1>6, <2>4, <3>3
          <6> QED BY <2>1, <5>1, <6>1, <6>2 DEF Reached
        <5> QED BY <1>4, <5>1
      <4>2. lastsig
        BY <4>1 DEF LifeInv
      <4>3. lastsig'
        BY <4>2, Zenon
      <4>4. Returned'
        BY <2>2, <2>3, <3>3, <4>3 DEF Returned
      <4>5. SP = SpOf(Ret, home.depth) /\ SP \in Int
        BY <1>5, <3>3 DEF SP, SpOf
      <4>6. SP <= SpOf(Ret, home.depth)
        BY ONLY <4>5
      <4>7. Level'
        BY <2>1, <2>3, <3>1, <4>6 DEF Level
      <4> QED BY <4>4, <4>7
    <3> QED BY <3>1, <3>2, <3>3
  <2>5. CallMode'
    BY <1>3, <2>1, <2>3, <2>4 DEF CallMode
  <2> QED BY <1>2, <2>1, <2>2, <2>5 DEF Mode
<1>8. CASE NewCall \/ NoCall
  <2>1. Reached
    BY <1>8 DEF NewCall, NoCall
  <2>2. stopres = "BPT" /\ Here = b /\ AtRightStackLevel
    BY <2>1 DEF Reached
  <2>3. t.xp[b] /\ pc = Ret
    BY <2>2, HereAlone DEF Ret
  <2>4. Depth = home.depth /\ L.sp <= SP /\ (L.jsr_fp # 0 => ~Frameless(pc))
    <3>1. Depth = home.depth
      BY <1>2, <1>5, <1>6, <2>2, <2>3
    <3> QED BY <1>6, <2>3, <3>1
  <2>5. RetAddr = 0
    <3>1. SP \in Int /\ L.sp \in Int
      BY <1>1, Frames DEF Types, Locals
    <3>2. ~(SP < L.sp)
      BY ONLY <2>4, <3>1
    <3>3. ~SteppedIntoFunc
      BY <3>2 DEF SteppedIntoFunc
    <3> QED BY <2>2, <3>3 DEF RetAddr, ThroughStub
  <2>6. NoCall
    BY <1>8, <2>5 DEF NewCall
  <2>7. ~lastsig
    BY <2>2 DEF LifeInv
  <2>8. ~lastsig'
    BY <2>7, Zenon
  <2>9. /\ ctl' \in {"loop", "end"} /\ L'.cont_type = "STEP" /\ L'.stop_bp = NoBp
        /\ L'.sp = SP /\ L'.f = Func[pc] /\ L'.pc = pc /\ ~L'.plt_stop
    BY <1>2, <2>1, <2>6 DEF NoCall
  <2> QED BY <1>2, <2>4, <2>8, <2>9, StepBegins
<1> QED BY <1>7, <1>8

(* So Next is followed after every stop. *)
LEMMA StepOnFollows ==
  ASSUME Inv, LifeInv, FollowInv, StepOn
  PROVE  FollowInv'
<1>1. /\ ctl = "back" /\ Stepped(rtype) /\ ~StopNow
      /\ pc' = pc /\ stack' = stack /\ alive' = alive /\ home' = home
      /\ rtype' = rtype /\ lastsig' = lastsig
  BY DEF StepOn, machine, hist
<1>2. HomeInv /\ home \in Homes /\ home.depth \in Nat
  BY DEF FollowInv, HomeInv, Homes
<1>3. CASE rtype # "NEXT"
  BY <1>1, <1>2, <1>3, FollowOther
<1>4. CASE rtype = "NEXT"
  <2>1. L'.jsr_fp = L.jsr_fp /\ (SP > BaseSp \/ InCall \/ NewCall \/ NoCall)
    BY <1>4, StepOnCases
  <2>2. HomeInv'
    BY <1>1, <1>2, <2>1, HomeKept
  <2>3. SUFFICES ASSUME Followed' PROVE Mode'
    BY <2>2 DEF FollowInv
  <2>4. Followed /\ Mode
    <3>1. alive
      BY <1>1, <2>3 DEF Followed
    <3> QED BY <1>1, <1>2, <2>1, <2>3, <3>1, FollowedBefore
  <2>5. InCall \/ NewCall \/ NoCall
    <3>1. SP <= BaseSp /\ SP \in Int /\ BaseSp \in Int
      BY <2>4, Frames DEF Inv, Mode, BaseSp, SpOf
    <3>2. ~(SP > BaseSp)
      BY ONLY <3>1
    <3> QED BY <2>1, <3>2
  <2>6. stopres \notin {"USER", "DIED"}
    BY <1>1 DEF StopNow
  <2>7. CASE L.stop_bp = NoBp
    <3>1. NewCall \/ NoCall
      BY <2>5, <2>7 DEF InCall
    <3> QED BY <1>1, <1>2, <2>1, <2>3, <2>4, <2>6, <2>7, <3>1, SteppedOn
  <2>8. CASE L.stop_bp # NoBp
    BY <1>1, <1>2, <2>1, <2>3, <2>4, <2>5, <2>6, <2>8, CalledOn
  <2> QED BY <2>7, <2>8
<1> QED BY <1>3, <1>4

-----------------------------------------------------------------------------
(* Next is followed in every session. *)
LEMMA FollowInvariant == Spec => [](LifeInv /\ FollowInv)
<1>1. Init => LifeInv /\ FollowInv
  <2> SUFFICES ASSUME Init PROVE LifeInv /\ FollowInv
    OBVIOUS
  <2>1. alive /\ ctl = "idle" /\ ~lastsig /\ home = NoHome
    BY DEF Init
  <2>2. PICK yes \in BOOLEAN, no \in BOOLEAN : yes = TRUE /\ no = FALSE
    BY Zenon
  <2>3. home = [depth |-> 1, func |-> Func[Main], line |-> 0, framed |-> yes, moved |-> no]
    BY <2>1, <2>2 DEF NoHome
  <2>4. Func[Main] \in Names /\ 0 \in Lines
    BY SteppingAssumption DEF Names, Lines
  <2>5. home \in Homes
    BY <2>3, <2>4 DEF Homes
  <2> QED BY <2>1, <2>5 DEF LifeInv, FollowInv, HomeInv, Followed
<1>2. Inv /\ LifeInv /\ FollowInv /\ [Next]_vars => LifeInv' /\ FollowInv'
  <2> SUFFICES ASSUME Inv, LifeInv, FollowInv, [Next]_vars PROVE LifeInv' /\ FollowInv'
    OBVIOUS
  <2>1. CASE Proceed
    <3>1. FollowInv'
      BY <2>1, RestartFollows, SingleStepFollows, RunFollows, ExitFollows, LeaveFollows,
         StepOnFollows, EndsFollow DEF Proceed
    <3> QED BY <2>1, <3>1, LifeProceeds
  <2>2. CASE Signal \/ Stop
    BY <2>2, StopsFollow, LifeOtherwise
  <2>3. CASE \E r \in {"NEXT", "STEP"}, d \in 1..Depth : StartStepping(r, d)
    BY <2>3, StartFollows, LifeOtherwise
  <2>4. CASE \E a \in DestAddrs, d \in 1..Depth : exec_to_lnum(a, d) \/ jump_to_lnum(a, d)
    BY <2>4, OthersFollow, LifeOtherwise
  <2>5. CASE UNCHANGED vars
    <3>1. FollowInv'
      <4>1. /\ pc' = pc /\ stack' = stack /\ home' = home /\ L' = L /\ t' = t
            /\ rtype' = rtype /\ ctl' = ctl /\ alive' = alive /\ over' = over
            /\ stopres' = stopres /\ lastsig' = lastsig
        BY <2>5 DEF vars, machine, hist
      <4>2. /\ Depth' = Depth /\ SP' = SP /\ (AtHome' <=> AtHome)
            /\ SteppedIntoFunc' <=> SteppedIntoFunc
            /\ JustCalled' <=> JustCalled
            /\ Ret' = Ret /\ (Within' <=> Within) /\ (Level' <=> Level)
        BY <4>1, Unmoved
      <4>3. lastsig' <=> lastsig
        BY <4>1, Zenon
      <4>4. (HomeInv' <=> HomeInv) /\ (Followed' <=> Followed)
        BY <4>1 DEF HomeInv, Followed
      <4>5. (StepMode' <=> StepMode) /\ (Armed' <=> Armed) /\ (Returned' <=> Returned)
        BY <4>1, <4>2, <4>3 DEF StepMode, Armed, Returned
      <4>6. CallMode' <=> CallMode
        BY <4>1, <4>2, <4>5 DEF CallMode
      <4>7. Mode' <=> Mode
        BY <4>1, <4>2, <4>5, <4>6 DEF Mode
      <4> QED BY <4>4, <4>7 DEF FollowInv
    <3> QED BY <2>5, <3>1, LifeOtherwise
  <2> QED BY <2>1, <2>2, <2>3, <2>4, <2>5 DEF Next
<1> QED BY <1>1, <1>2, SteppingInvariant, PTL DEF Spec

(* When Next ends of itself the target is in the frame the command began   *)
(* in or in a caller of it: for every program, whatever calls itself and   *)
(* whatever handlers run, whichever breakpoints there are and whichever of *)
(* them are disabled.                                                      *)
THEOREM NextNeverStepsIn == Spec => []NextStaysOut
<1>1. LifeInv /\ FollowInv => NextStaysOut
  <2> SUFFICES ASSUME LifeInv, FollowInv,
                      ctl = "end", rtype = "NEXT", stopres \in {"SSTEP", "BPT"},
                      home.framed, home.depth > 0,
                      L.jsr_fp # 0 => L.jsr_fp = -(2 * home.depth) - 1
               PROVE  Depth <= home.depth
    BY DEF NextStaysOut
  <2>1. alive
    BY DEF LifeInv
  <2>2. Followed
    BY <2>1 DEF Followed
  <2>3. Depth = home.depth /\ home.depth \in Nat
    BY <2>2 DEF FollowInv, HomeInv, Homes, Mode
  <2> QED BY <2>3
<1> QED BY <1>1, FollowInvariant, PTL
==============================================================================
