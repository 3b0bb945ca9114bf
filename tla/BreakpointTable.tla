--------------------------- MODULE BreakpointTable ---------------------------
(***************************************************************************)
(* The breakpoint list of ups (ups/bp.c) and the text of the target it     *)
(* patches (ao_tswap in ups/ao_target.c), as operators on a table t:       *)
(*                                                                         *)
(*   live      the breakpoints linked into Bphead                          *)
(*   before    <<b, c>> is in it when b comes before c in that list        *)
(*   xp        bp_xp # 0: the trap opcode of b is written in the process   *)
(*   installed bp_installed                                                *)
(*   enabled   bp_enabled                                                  *)
(*   addr      bp_addr                                                     *)
(*   code      bp_code, the opcode the trap replaced                       *)
(*   user      bp_user_data # 0: a breakpoint object of obj_bpt.c owns b   *)
(*   inactive  bd_inactive of that object                                  *)
(*   solib     bp_solib_event                                              *)
(*   global    global_bp_enabled: breakpoint objects are not all disabled  *)
(*   text      the opcodes of the process                                  *)
(*   mapped    the addresses whose text ptrace can read and write          *)
(*                                                                         *)
(* A loop over the list is written as the table it leaves behind.  With    *)
(* two breakpoints at one address the result depends on the order of the   *)
(* list, which is why `before' is kept.                                    *)
(***************************************************************************)

CONSTANTS Bp,      \* breakpoint_t structures malloc can return
          Addr,    \* text addresses
          Opcode,  \* opcodes of the program
          BPT,     \* the trap opcode
          Orig,    \* the program's text
          Late     \* addresses of libraries the program maps after it started

ASSUME TableAssumption ==
  /\ BPT \notin Opcode              \* the program has no trap of its own
  /\ Addr # {}
  /\ Orig \in [Addr -> Opcode]
  /\ Late \subseteq Addr

Code == Opcode \union {BPT}

Tables ==
  [live : SUBSET Bp, before : SUBSET (Bp \X Bp),
   xp : [Bp -> BOOLEAN], installed : [Bp -> BOOLEAN], enabled : [Bp -> BOOLEAN],
   addr : [Bp -> Addr], code : [Bp -> Code],
   user : [Bp -> BOOLEAN], inactive : [Bp -> BOOLEAN], solib : [Bp -> BOOLEAN],
   global : BOOLEAN, text : [Addr -> Code], mapped : SUBSET Addr]

(* Bphead with no entries, in a debugger that has no process. *)
NoAddr == CHOOSE a \in Addr : TRUE
NoCode == Orig[NoAddr]

EmptyTable ==
  [live |-> {}, before |-> {},
   xp |-> [b \in Bp |-> FALSE], installed |-> [b \in Bp |-> FALSE],
   enabled |-> [b \in Bp |-> FALSE],
   addr |-> [b \in Bp |-> NoAddr], code |-> [b \in Bp |-> NoCode],
   user |-> [b \in Bp |-> FALSE], inactive |-> [b \in Bp |-> FALSE],
   solib |-> [b \in Bp |-> FALSE],
   global |-> TRUE, text |-> Orig, mapped |-> Addr \ Late]

(* The table a session begins with: the breakpoints S of objects, each     *)
(* where the object says, those of off inactive and none in a process.     *)
SessionList(S, order, where, off, on) ==
  [EmptyTable EXCEPT
     !.live = S, !.before = order,
     !.enabled = [b \in Bp |-> b \in S],
     !.user = [b \in Bp |-> b \in S],
     !.addr = [b \in Bp |-> IF b \in S THEN where[b] ELSE NoAddr],
     !.inactive = [b \in Bp |-> b \in off], !.global = on]

-----------------------------------------------------------------------------
(* Lookups. *)

(* A slip: only installed breakpoints are found. *)
FindInstalledOnly(t, a) == {b \in t.live : t.xp[b] /\ t.addr[b] = a}

(* dx_addr_to_breakpoint: some breakpoint at a, installed or not. *)
dx_addr_to_breakpoint(t, a) == {b \in t.live : t.addr[b] = a}

(* get_breakpoint_at_addr: the breakpoints installed at a. *)
get_breakpoint_at_addr(t, a) == {b \in t.live : t.xp[b] /\ t.addr[b] = a}

(* Both routines return the first one in list order. *)
FirstOf(t, S) == CHOOSE b \in S : \A c \in S \ {b} : <<b, c>> \in t.before

(* breakpoint_is_disabled, asked of a breakpoint an object owns. *)
UserDisabled(t, b) == t.user[b] /\ (t.inactive[b] \/ ~t.global)

-----------------------------------------------------------------------------
(* ao_tswap.  It fails, and changes nothing, at an address that is not     *)
(* mapped.  Finding a trap already there, or none to remove, is reported   *)
(* with errf after the text was written.                                   *)

(* A slip: the address is saved and not the opcode there. *)
TswapInSavingAddr(t, b) ==
  IF t.addr[b] \in t.mapped
  THEN [t EXCEPT !.code[b] = t.addr[b], !.text[t.addr[b]] = BPT]
  ELSE t

TswapIn(t, b) ==
  IF t.addr[b] \in t.mapped
  THEN [t EXCEPT !.code[b] = t.text[t.addr[b]], !.text[t.addr[b]] = BPT]
  ELSE t

TswapOut(t, b) ==
  IF t.addr[b] \in t.mapped
  THEN [t EXCEPT !.text[t.addr[b]] = t.code[b]]
  ELSE t

-----------------------------------------------------------------------------
(* The operations of bp.c on one breakpoint. *)

(* A structure's fields at dx_add_breakpoint and after free(). *)
SetFields(t, links, order, b, isEnabled, a, c, owner) ==
  [live |-> links, before |-> order,
   xp |-> [t.xp EXCEPT ![b] = FALSE], installed |-> [t.installed EXCEPT ![b] = FALSE],
   enabled |-> [t.enabled EXCEPT ![b] = isEnabled],
   addr |-> [t.addr EXCEPT ![b] = a], code |-> [t.code EXCEPT ![b] = c],
   user |-> [t.user EXCEPT ![b] = owner = "user"], inactive |-> [t.inactive EXCEPT ![b] = FALSE],
   solib |-> [t.solib EXCEPT ![b] = owner = "solib"],
   global |-> t.global, text |-> t.text, mapped |-> t.mapped]

(* The new breakpoint becomes the first of the list.  malloc leaves        *)
(* bp_code as it finds it, junk.  The owner is what the caller says of the *)
(* breakpoint in the same breath: "user" when it sets bp_user_data,        *)
(* "solib" when it sets bp_solib_event, "none" for a temporary one.        *)
dx_add_breakpoint(t, b, a, junk, owner) ==
  SetFields(t, t.live \union {b}, t.before \union ({b} \X t.live),
            b, TRUE, a, junk, owner)

(* A failed tswap is reported and otherwise ignored. *)
install_breakpoint(t, b, force) ==
  IF ~force /\ UserDisabled(t, b) THEN t
  ELSE IF t.enabled[b]
       THEN [TswapIn(t, b) EXCEPT !.xp[b] = TRUE, !.installed[b] = TRUE]
       ELSE [t EXCEPT !.installed[b] = TRUE]

(* A slip: the trap stays in the text. *)
UninstallKeepingTrap(t, b) ==
  [t EXCEPT !.xp[b] = FALSE, !.installed[b] = FALSE]

uninstall_breakpoint(t, b) ==
  IF t.enabled[b] /\ t.xp[b]
  THEN [TswapOut(t, b) EXCEPT !.xp[b] = FALSE, !.installed[b] = FALSE]
  ELSE [t EXCEPT !.installed[b] = FALSE]

Unlink(t, b) ==
  SetFields(t, t.live \ {b}, {p \in t.before : p[1] # b /\ p[2] # b},
            b, FALSE, NoAddr, NoCode, "none")

dx_remove_breakpoint(t, b) ==
  Unlink(IF t.xp[b] THEN uninstall_breakpoint(t, b) ELSE t, b)

change_breakpoint_address(t, b, a) == [t EXCEPT !.addr[b] = a]

(* set_enabled(xp, bp, TRUE). *)
EnableOne(t, b) ==
  LET e == [t EXCEPT !.enabled[b] = TRUE]
  IN  IF ~t.xp[b] /\ t.installed[b] THEN install_breakpoint(e, b, FALSE) ELSE e

-----------------------------------------------------------------------------
(* The loops over the list. *)

(* Write the traps of the breakpoints in S, in list order: the first one   *)
(* at an address saves the opcode, a later one saves the trap it finds.    *)
SwapInSet(t, S) ==
  LET Hit == {b \in S : t.addr[b] \in t.mapped}
  IN  [t EXCEPT
        !.code = [b \in Bp |->
                    IF b \notin Hit THEN t.code[b]
                    ELSE IF \E c \in Hit \ {b} : t.addr[c] = t.addr[b] /\ <<c, b>> \in t.before
                         THEN BPT ELSE t.text[t.addr[b]]],
        !.text = [a \in Addr |-> IF \E b \in Hit : t.addr[b] = a THEN BPT ELSE t.text[a]],
        !.xp = [b \in Bp |-> t.xp[b] \/ b \in S]]

(* Restore the saved opcodes of S, in list order: at an address the last   *)
(* breakpoint of the list has the last word.                               *)
SwapOutSet(t, S) ==
  LET At(a) == {b \in S : t.addr[b] = a}
      LastOf(Q) == CHOOSE b \in Q : \A c \in Q \ {b} : <<c, b>> \in t.before
  IN  [t EXCEPT
        !.text = [a \in Addr |-> IF a \in t.mapped /\ At(a) # {}
                                 THEN t.code[LastOf(At(a))] ELSE t.text[a]],
        !.xp = [b \in Bp |-> t.xp[b] /\ b \notin S]]

(* A slip: breakpoints that are in the text already are put in again. *)
InstallAllAgain(t) ==
  LET Todo == {b \in t.live : ~UserDisabled(t, b)}
  IN  [SwapInSet(t, {b \in Todo : t.enabled[b]}) EXCEPT
        !.installed = [b \in Bp |-> t.installed[b] \/ b \in Todo]]

(* A slip: disabled breakpoints are put in as well. *)
InstallAllDisabledToo(t) ==
  [SwapInSet(t, {b \in t.live : ~t.xp[b] /\ t.enabled[b]}) EXCEPT
        !.installed = [b \in Bp |-> t.installed[b] \/ (b \in t.live /\ ~t.xp[b])]]

install_all_breakpoints(t) ==
  LET Todo == {b \in t.live : ~t.xp[b] /\ ~UserDisabled(t, b)}
  IN  [SwapInSet(t, {b \in Todo : t.enabled[b]}) EXCEPT
        !.installed = [b \in Bp |-> t.installed[b] \/ b \in Todo]]

uninstall_all_breakpoints(t) ==
  LET Mine == {b \in t.live : t.xp[b]}
  IN  [SwapOutSet(t, {b \in Mine : t.enabled[b]}) EXCEPT
        !.installed = [b \in Bp |-> t.installed[b] /\ b \notin Mine]]

(* Only the first solib event breakpoint that is not installed. *)
install_solib_event_breakpoint(t) ==
  LET S == {b \in t.live : t.solib[b] /\ ~t.installed[b]}
  IN  IF S = {} THEN t ELSE install_breakpoint(t, FirstOf(t, S), FALSE)

(* set_enabled with a null breakpoint: every one in the list. *)
EnableAll(t) ==
  LET Todo == {b \in t.live : ~t.xp[b] /\ t.installed[b] /\ ~UserDisabled(t, b)}
  IN  [SwapInSet(t, Todo) EXCEPT
        !.enabled = [b \in Bp |-> t.enabled[b] \/ b \in t.live]]

DisableAll(t) ==
  LET Mine == {b \in t.live : t.xp[b]}
  IN  [SwapOutSet(t, {b \in Mine : t.enabled[b]}) EXCEPT
        !.installed = [b \in Bp |-> t.installed[b] /\ b \notin Mine],
        !.enabled = [b \in Bp |-> t.enabled[b] /\ b \notin t.live]]

(* Two slips: bp_installed is left set, or nothing is done at all. *)
MarkHalf(t) == [t EXCEPT !.xp = [b \in Bp |-> FALSE]]
MarkNothing(t) == t

mark_breakpoints_as_uninstalled(t) ==
  [t EXCEPT !.xp = [b \in Bp |-> t.xp[b] /\ ~(b \in t.live /\ t.installed[b])],
            !.installed = [b \in Bp |-> t.installed[b] /\ b \notin t.live]]

(* can_install_all_breakpoints swaps each trap in and out again, up to the *)
(* first address it cannot write; bp_code is left with what it read.       *)
Untestable(t) == {b \in t.live : ~t.xp[b] /\ t.addr[b] \notin t.mapped}

can_install_all_breakpoints(t) == Untestable(t) = {}

TrialSwap(t) ==
  [t EXCEPT !.code = [b \in Bp |->
     IF /\ b \in t.live /\ ~t.xp[b] /\ t.addr[b] \in t.mapped
        /\ ~\E c \in Untestable(t) : <<c, b>> \in t.before
     THEN t.text[t.addr[b]] ELSE t.code[b]]]

-----------------------------------------------------------------------------
(* The process the text belongs to. *)

(* exec gives the process the program's text, libraries not yet mapped. *)
FreshText(t) == [t EXCEPT !.text = Orig, !.mapped = Addr \ Late]

(* The dynamic linker maps a library. *)
MapText(t, a) == [t EXCEPT !.mapped = @ \union {a}, !.text[a] = Orig[a]]

-----------------------------------------------------------------------------
(* When the list can be relied on: the flags of a breakpoint agree, no two *)
(* traps are at one address, a trap in the text has saved the program's    *)
(* opcode, and the rest of the text is the program's.                      *)
MarksAgree(x) ==
  \A b \in Bp :
    /\ x.installed[b] => b \in x.live
    /\ x.xp[b] => x.enabled[b] /\ x.installed[b]

TrapsApart(x) ==
  \A b, c \in Bp : x.xp[b] /\ x.xp[c] /\ x.addr[b] = x.addr[c] => b = c

TextAgrees(x) ==
  /\ Addr \ Late \subseteq x.mapped
  /\ \A b \in Bp : x.xp[b] /\ x.addr[b] \notin Late
        => x.text[x.addr[b]] = BPT /\ x.code[b] = Orig[x.addr[b]]
  /\ \A a \in Addr \ Late : (\A b \in Bp : x.xp[b] => x.addr[b] # a) => x.text[a] = Orig[a]

Intact(x) == x \in Tables /\ MarksAgree(x) /\ TrapsApart(x) /\ TextAgrees(x)

(* No two breakpoints of the list are at one address. *)
OneEach(x) == \A b, c \in x.live : x.addr[b] = x.addr[c] => b = c

(* Breakpoints at one address have a first and a last one. *)
Ordered(x) ==
  \A S \in SUBSET x.live :
    S # {} /\ (\A b, c \in S : x.addr[b] = x.addr[c]) =>
      /\ \E b \in S : \A c \in S \ {b} : <<b, c>> \in x.before
      /\ \E b \in S : \A c \in S \ {b} : <<c, b>> \in x.before

(* What installing and uninstalling leaves alone. *)
SameList(x, y) ==
  /\ y.live = x.live /\ y.before = x.before /\ y.addr = x.addr
  /\ y.user = x.user /\ y.inactive = x.inactive /\ y.solib = x.solib
  /\ y.global = x.global /\ y.mapped = x.mapped
==============================================================================
