------------------------ MODULE BreakpointsRefinement ------------------------
(***************************************************************************)
(* Breakpoints implements TrapSet, for every set of breakpoints and        *)
(* addresses.  The text follows from the inductive invariant once and for  *)
(* all (TextFromArmed); what is left to show of an operation of bp.c is    *)
(* how it changes the three sets Places, Wanted and Armed.                 *)
(***************************************************************************)
EXTENDS BreakpointsProofs

USE DEF Listed

-----------------------------------------------------------------------------
(* The three sets. *)

(* In a sound table the text is the program's, with traps where armed. *)
LEMMA TextFromArmed ==
  ASSUME NEW x, Sound(x)
  PROVE  TextOf(x) = [a \in Addr \ Late |-> IF a \in Armed(x) THEN BPT ELSE Orig[a]]
<1>1. x.live \subseteq Bp /\ \A b \in Bp : x.xp[b] => b \in x.live
  BY DEF Sound, Tables, FlagsAgree
<1>2. ASSUME NEW a \in Addr \ Late
      PROVE  x.text[a] = IF a \in Armed(x) THEN BPT ELSE Orig[a]
  <2>1. CASE a \in Armed(x)
    BY <1>1, <2>1 DEF Sound, TextAgrees, Armed
  <2>2. CASE a \notin Armed(x)
    BY <1>1, <2>2 DEF Sound, TextAgrees, Armed
  <2> QED BY <2>1, <2>2
<1> QED BY <1>2 DEF TextOf

(* What a step that keeps the process owes. *)
LEMMA ChangeStep ==
  ASSUME IndInv, IndInv', UNCHANGED alive
  PROVE  Abstract!Change(Places(t'), Wanted(t'), Armed(t'))
<1>1. Sound(t') /\ (~alive => \A b \in Bp : ~t'.xp[b])
  BY DEF IndInv, NothingInstalledWithoutProcess
<1>2. t'.live \subseteq Bp
  BY <1>1 DEF Sound, Tables
<1>3. Armed(t') # {} => alive
  BY <1>1, <1>2 DEF Armed
<1>4. TextOf(t') = [a \in Addr \ Late |-> IF a \in Armed(t') THEN BPT ELSE Orig[a]]
  BY <1>1, TextFromArmed
<1>5. \A a \in Addr \ Late : [c \in Addr \ Late |-> Orig[c]][a] = Orig[a]
  OBVIOUS
<1> QED BY <1>3, <1>4, <1>5 DEF Abstract!Change, Abstract!Patched

(* A step that keeps the places and the traps chooses what is wanted. *)
LEMMA ChooseStep ==
  ASSUME IndInv, IndInv', UNCHANGED alive, Places(t') = Places(t), Armed(t') = Armed(t)
  PROVE  Abstract!Next
<1>1. Wanted(t') \subseteq Places(t)
  BY DEF Wanted, Places
<1>2. Abstract!Change(Places(t), Wanted(t'), Armed(t))
  BY ChangeStep
<1> QED BY <1>1, <1>2 DEF Abstract!Next, Abstract!Choose

(* Tables with the same list, addresses and flags have the same sets. *)
LEMMA SameSets ==
  ASSUME NEW x, NEW y, y.live = x.live, y.addr = x.addr, y.enabled = x.enabled,
         y.user = x.user, y.inactive = x.inactive, y.global = x.global
  PROVE  /\ Places(y) = Places(x) /\ Wanted(y) = Wanted(x)
         /\ y.xp = x.xp => Armed(y) = Armed(x)
BY DEF Places, Wanted, Armed, UserDisabled

(* With addresses apart a breakpoint is the only one at its address, other *)
(* than xp_execto's.                                                       *)
LEMMA OnlyOne ==
  ASSUME NEW x, Sound(x), NEW b \in x.live
  PROVE  /\ x \in Tables /\ b \in Bp /\ x.live \subseteq Bp /\ x.addr[b] \in Addr
         /\ \A c \in Listed(x) : b # ExecBp /\ x.addr[c] = x.addr[b] => c = b
         /\ \A c \in Bp : x.xp[c] => c \in x.live /\ x.enabled[c] /\ x.installed[c]
BY DEF Sound, Tables, AddressesApart, FlagsAgree

-----------------------------------------------------------------------------
(* How the operations of bp.c change them. *)

(* The fields install_breakpoint changes, and the ones it does not. *)
LEMMA InstallFields ==
  ASSUME NEW x \in Tables, NEW b \in Bp, NEW force \in BOOLEAN
  PROVE  LET y == install_breakpoint(x, b, force)
         IN  /\ y.live = x.live /\ y.addr = x.addr /\ y.enabled = x.enabled
             /\ y.user = x.user /\ y.inactive = x.inactive /\ y.global = x.global
             /\ (force \/ ~UserDisabled(x, b)) /\ x.enabled[b] => y.xp = [x.xp EXCEPT ![b] = TRUE]
             /\ ~((force \/ ~UserDisabled(x, b)) /\ x.enabled[b]) => y.xp = x.xp
BY DEF install_breakpoint, TswapIn, Tables

(* install_breakpoint puts in one trap, unless the breakpoint is off. *)
LEMMA InstallSets ==
  ASSUME NEW x, Sound(x), NEW b \in x.live, NEW force \in BOOLEAN
  PROVE  LET y == install_breakpoint(x, b, force)
         IN  /\ Places(y) = Places(x) /\ Wanted(y) = Wanted(x)
             /\ (force \/ ~UserDisabled(x, b)) /\ x.enabled[b]
                  => Armed(y) = Armed(x) \union ({x.addr[b]} \ Late)
             /\ ~((force \/ ~UserDisabled(x, b)) /\ x.enabled[b]) => Armed(y) = Armed(x)
<1> DEFINE y == install_breakpoint(x, b, force)
<1>0. x \in Tables /\ b \in Bp /\ x.live \subseteq Bp /\ x.addr[b] \in Addr
  BY OnlyOne
<1>1. /\ y.live = x.live /\ y.addr = x.addr /\ y.enabled = x.enabled
      /\ y.user = x.user /\ y.inactive = x.inactive /\ y.global = x.global
      /\ (force \/ ~UserDisabled(x, b)) /\ x.enabled[b] => y.xp = [x.xp EXCEPT ![b] = TRUE]
      /\ ~((force \/ ~UserDisabled(x, b)) /\ x.enabled[b]) => y.xp = x.xp
  BY <1>0, InstallFields
<1> HIDE DEF y
<1>2. Places(y) = Places(x) /\ Wanted(y) = Wanted(x) /\ (y.xp = x.xp => Armed(y) = Armed(x))
  BY <1>1, SameSets
<1>3. y.xp = [x.xp EXCEPT ![b] = TRUE] => Armed(y) = Armed(x) \union ({x.addr[b]} \ Late)
  <2> SUFFICES ASSUME y.xp = [x.xp EXCEPT ![b] = TRUE]
               PROVE  Armed(y) = Armed(x) \union ({x.addr[b]} \ Late)
    OBVIOUS
  <2>1. \A c \in x.live : y.xp[c] <=> x.xp[c] \/ c = b
    BY <1>0 DEF Tables
  <2> QED BY <1>0, <1>1, <2>1 DEF Armed
<1> QED BY <1>1, <1>2, <1>3 DEF y

(* uninstall_breakpoint takes out one trap. *)
LEMMA UninstallSets ==
  ASSUME NEW x, Sound(x), NEW b \in x.live, x.xp[b]
  PROVE  LET y == uninstall_breakpoint(x, b)
         IN  /\ Places(y) = Places(x) /\ Wanted(y) = Wanted(x)
             /\ Armed(y) = Armed(x) \ {x.addr[b]}
<1> DEFINE y == uninstall_breakpoint(x, b)
<1>0. /\ x \in Tables /\ b \in Bp /\ x.live \subseteq Bp
      /\ \A c \in x.live : x.xp[c] /\ x.addr[c] = x.addr[b] => c = b
  BY OnlyOne, SoundTrapsApart
<1>1. /\ y.live = x.live /\ y.addr = x.addr /\ y.enabled = x.enabled
      /\ y.user = x.user /\ y.inactive = x.inactive /\ y.global = x.global
  BY <1>0 DEF uninstall_breakpoint, TswapOut, Tables
<1>2. y.xp = [x.xp EXCEPT ![b] = FALSE]
  BY UninstallSound
<1> HIDE DEF y
<1>3. Places(y) = Places(x) /\ Wanted(y) = Wanted(x)
  BY <1>1, SameSets
<1>4. \A c \in x.live : y.xp[c] <=> x.xp[c] /\ c # b
  BY <1>0, <1>2 DEF Tables
<1>5. Armed(y) = Armed(x) \ {x.addr[b]}
  BY <1>0, <1>1, <1>4 DEF Armed
<1> QED BY <1>3, <1>5 DEF y

(* dx_add_breakpoint adds a place, without a trap; it is wanted unless     *)
(* breakpoint objects are disabled altogether.                             *)
LEMMA AddSets ==
  ASSUME NEW x, Sound(x), NEW b \in Bp \ {ExecBp}, b \notin x.live, NEW a \in Addr, NEW junk \in Code,
         NEW owner \in {"user", "solib", "none"}
  PROVE  LET y == dx_add_breakpoint(x, b, a, junk, owner)
         IN  /\ Places(y) = Places(x) \union ({a} \ Late)
             /\ Wanted(y) = IF owner = "user" /\ ~x.global THEN Wanted(x)
                                                          ELSE Wanted(x) \union ({a} \ Late)
             /\ Armed(y) = Armed(x)
             /\ y.addr[b] = a /\ (UserDisabled(y, b) <=> owner = "user" /\ ~x.global)
<1> DEFINE y == dx_add_breakpoint(x, b, a, junk, owner)
<1>0. x \in Tables /\ ~x.xp[b] /\ x.live \subseteq Bp
  BY DEF Sound, FlagsAgree, Tables
<1>1. /\ y.live = x.live \union {b} /\ y.xp = [x.xp EXCEPT ![b] = FALSE]
      /\ y.enabled = [x.enabled EXCEPT ![b] = TRUE] /\ y.addr = [x.addr EXCEPT ![b] = a]
      /\ y.user = [x.user EXCEPT ![b] = owner = "user"]
      /\ y.inactive = [x.inactive EXCEPT ![b] = FALSE] /\ y.global = x.global
  BY DEF dx_add_breakpoint, SetFields
<1> HIDE DEF y
<1>2. /\ ~y.xp[b] /\ y.enabled[b] /\ y.addr[b] = a
      /\ UserDisabled(y, b) <=> owner = "user" /\ ~x.global
  BY <1>0, <1>1 DEF Tables, UserDisabled
<1>3. \A c \in x.live : /\ y.xp[c] = x.xp[c] /\ y.enabled[c] = x.enabled[c] /\ y.addr[c] = x.addr[c]
                        /\ UserDisabled(y, c) <=> UserDisabled(x, c)
  BY <1>0, <1>1 DEF Tables, UserDisabled
<1>4. Places(y) = Places(x) \union ({a} \ Late)
  BY <1>0, <1>1, <1>2, <1>3 DEF Places
<1>5. Armed(y) = Armed(x)
  BY <1>0, <1>1, <1>2, <1>3 DEF Armed
<1>6. Wanted(y) = IF owner = "user" /\ ~x.global THEN Wanted(x) ELSE Wanted(x) \union ({a} \ Late)
  BY <1>0, <1>1, <1>2, <1>3 DEF Wanted
<1> QED BY <1>2, <1>4, <1>5, <1>6 DEF y

(* Unlinking takes the place away, with its trap. *)
LEMMA RemoveSets ==
  ASSUME NEW x, Sound(x), ExecBp \notin x.live, NEW b \in x.live
  PROVE  LET y == dx_remove_breakpoint(x, b)
         IN  /\ Places(y) = Places(x) \ {x.addr[b]} /\ Wanted(y) = Wanted(x) \ {x.addr[b]}
             /\ Armed(y) = Armed(x) \ {x.addr[b]}
<1> DEFINE u == IF x.xp[b] THEN uninstall_breakpoint(x, b) ELSE x
           y == Unlink(u, b)
<1>0. /\ x \in Tables /\ b \in Bp /\ x.live \subseteq Bp
      /\ \A c \in x.live : x.addr[c] = x.addr[b] => c = b
  BY OnlyOne
<1>1. /\ Sound(u) /\ u.live = x.live /\ u.addr = x.addr /\ Places(u) = Places(x)
      /\ Wanted(u) = Wanted(x) /\ Armed(u) \ {x.addr[b]} = Armed(x) \ {x.addr[b]}
  <2>1. CASE x.xp[b]
    <3>1. uninstall_breakpoint(x, b).addr = x.addr
      BY <1>0 DEF uninstall_breakpoint, TswapOut, Tables
    <3> QED BY <2>1, <3>1, UninstallSound, UninstallSets
  <2>2. CASE ~x.xp[b]
    BY <2>2
  <2> QED BY <2>1, <2>2
<1>2. dx_remove_breakpoint(x, b) = y
  BY DEF dx_remove_breakpoint
<1> HIDE DEF u
<1>3. /\ y.live = x.live \ {b} /\ y.xp = [u.xp EXCEPT ![b] = FALSE]
      /\ y.enabled = [u.enabled EXCEPT ![b] = FALSE] /\ y.addr = [u.addr EXCEPT ![b] = NoAddr]
      /\ y.user = [u.user EXCEPT ![b] = FALSE]
      /\ y.inactive = [u.inactive EXCEPT ![b] = FALSE] /\ y.global = u.global
  BY <1>1 DEF Unlink, SetFields
<1>4. u \in Tables
  BY <1>1 DEF Sound
<1> HIDE DEF y
<1>5. \A c \in x.live \ {b} :
         /\ y.xp[c] = u.xp[c] /\ y.enabled[c] = u.enabled[c] /\ y.addr[c] = x.addr[c]
         /\ UserDisabled(y, c) <=> UserDisabled(u, c)
  BY <1>0, <1>1, <1>3, <1>4 DEF Tables, UserDisabled
<1>6. Places(y) = Places(u) \ {x.addr[b]}
  BY <1>0, <1>1, <1>3, <1>5 DEF Places
<1>7. Armed(y) = Armed(u) \ {x.addr[b]}
  BY <1>0, <1>1, <1>3, <1>5 DEF Armed
<1>8. Wanted(y) = Wanted(u) \ {x.addr[b]}
  BY <1>0, <1>1, <1>3, <1>5 DEF Wanted
<1> QED BY <1>1, <1>2, <1>6, <1>7, <1>8

(* xp_execto's breakpoint is one trap more and nothing else. *)
LEMMA ExecToSets ==
  ASSUME NEW x, Sound(x), ExecBp \notin x.live, NEW a \in Addr \ Late, NEW junk \in Code
  PROVE  LET y == install_breakpoint(dx_add_breakpoint(x, ExecBp, a, junk, "none"), ExecBp, FALSE)
         IN  /\ Places(y) = Places(x) /\ Wanted(y) = Wanted(x)
             /\ Armed(y) = Armed(x) \union {a}
<1> DEFINE w == dx_add_breakpoint(x, ExecBp, a, junk, "none")
           y == install_breakpoint(w, ExecBp, FALSE)
<1>0. /\ x \in Tables /\ x.live \subseteq Bp /\ ExecBp \in Bp
      /\ ~x.xp[ExecBp] /\ \A c \in Bp : x.xp[c] => c \in x.live
  BY AddrAssumption DEF Sound, FlagsAgree, Tables
<1>1. /\ w.live = x.live \union {ExecBp} /\ w.xp = [x.xp EXCEPT ![ExecBp] = FALSE]
      /\ w.enabled = [x.enabled EXCEPT ![ExecBp] = TRUE] /\ w.addr = [x.addr EXCEPT ![ExecBp] = a]
      /\ w.user = [x.user EXCEPT ![ExecBp] = FALSE]
      /\ w.inactive = [x.inactive EXCEPT ![ExecBp] = FALSE] /\ w.global = x.global
  <2>1. ("none" = "user") = FALSE
    OBVIOUS
  <2> QED BY <2>1 DEF dx_add_breakpoint, SetFields
<1>2. w \in Tables
  <2>1. x.before \union ({ExecBp} \X x.live) \in SUBSET (Bp \X Bp)
    BY <1>0 DEF Tables
  <2> QED BY <2>1, <1>0 DEF dx_add_breakpoint, SetFields, Tables
<1> HIDE DEF w
<1>3. w.enabled[ExecBp] /\ ~UserDisabled(w, ExecBp)
  BY <1>0, <1>1 DEF Tables, UserDisabled
<1>4. /\ y.live = w.live /\ y.addr = w.addr /\ y.enabled = w.enabled
      /\ y.user = w.user /\ y.inactive = w.inactive /\ y.global = w.global
      /\ y.xp = [w.xp EXCEPT ![ExecBp] = TRUE]
  BY <1>0, <1>2, <1>3, InstallFields
<1> HIDE DEF y
<1>5. /\ y.xp[ExecBp] /\ y.addr[ExecBp] = a
      /\ \A c \in x.live : /\ y.xp[c] = x.xp[c] /\ y.addr[c] = x.addr[c]
                           /\ y.enabled[c] = x.enabled[c]
                           /\ UserDisabled(y, c) <=> UserDisabled(x, c)
  BY <1>0, <1>1, <1>4 DEF Tables, UserDisabled
<1>6. Places(y) = Places(x)
  BY <1>0, <1>1, <1>4, <1>5 DEF Places
<1>7. Wanted(y) = Wanted(x)
  BY <1>0, <1>1, <1>4, <1>5 DEF Wanted
<1>8. Armed(y) = Armed(x) \union {a}
  <2>1. y.live = x.live \union {ExecBp}
    BY <1>1, <1>4
  <2>2. \A e \in Addr \ Late : (\E c \in y.live : y.addr[c] = e /\ y.xp[c])
                                 <=> e = a \/ \E c \in x.live : x.addr[c] = e /\ x.xp[c]
    BY <1>5, <2>1
  <2> QED BY <2>2 DEF Armed
<1> QED BY <1>6, <1>7, <1>8 DEF y, w

(* When it goes, at most that trap goes. *)
LEMMA ExecToEndsSets ==
  ASSUME NEW x, Sound(x), ExecBp \in x.live
  PROVE  LET y == dx_remove_breakpoint(x, ExecBp)
         IN  /\ Places(y) = Places(x) /\ Wanted(y) = Wanted(x)
             /\ x.xp[ExecBp] => Armed(y) = Armed(x) \ {x.addr[ExecBp]}
             /\ ~x.xp[ExecBp] => Armed(y) = Armed(x)
<1> DEFINE b == ExecBp
           u == IF x.xp[b] THEN uninstall_breakpoint(x, b) ELSE x
           y == Unlink(u, b)
<1>0. x \in Tables /\ b \in Bp /\ x.live \subseteq Bp
  BY OnlyOne
<1>1. /\ Sound(u) /\ u.live = x.live /\ Places(u) = Places(x) /\ Wanted(u) = Wanted(x) /\ ~u.xp[b]
      /\ x.xp[b] => Armed(u) = Armed(x) \ {x.addr[b]}
      /\ ~x.xp[b] => Armed(u) = Armed(x)
  <2>1. CASE x.xp[b]
    <3>1. ~uninstall_breakpoint(x, b).xp[b]
      <4>1. uninstall_breakpoint(x, b).xp = [x.xp EXCEPT ![b] = FALSE]
        BY UninstallSound
      <4> QED BY <1>0, <4>1 DEF Tables
    <3> QED BY <2>1, <3>1, UninstallSound, UninstallSets
  <2>2. CASE ~x.xp[b]
    BY <2>2
  <2> QED BY <2>1, <2>2
<1>2. dx_remove_breakpoint(x, b) = y
  BY DEF dx_remove_breakpoint
<1> HIDE DEF u
<1>3. /\ y.live = x.live \ {b} /\ y.xp = [u.xp EXCEPT ![b] = FALSE]
      /\ y.enabled = [u.enabled EXCEPT ![b] = FALSE] /\ y.addr = [u.addr EXCEPT ![b] = NoAddr]
      /\ y.user = [u.user EXCEPT ![b] = FALSE]
      /\ y.inactive = [u.inactive EXCEPT ![b] = FALSE] /\ y.global = u.global
  BY <1>1 DEF Unlink, SetFields
<1>4. u \in Tables
  BY <1>1 DEF Sound
<1> HIDE DEF y
<1>5. \A c \in x.live \ {b} :
         /\ y.xp[c] = u.xp[c] /\ y.enabled[c] = u.enabled[c] /\ y.addr[c] = u.addr[c]
         /\ UserDisabled(y, c) <=> UserDisabled(u, c)
  BY <1>0, <1>3, <1>4 DEF Tables, UserDisabled
<1>6. Places(y) = Places(u)
  BY <1>0, <1>1, <1>3, <1>5 DEF Places
<1>7. Armed(y) = Armed(u)
  BY <1>0, <1>1, <1>3, <1>5 DEF Armed
<1>8. Wanted(y) = Wanted(u)
  BY <1>0, <1>1, <1>3, <1>5 DEF Wanted
<1> QED BY <1>1, <1>2, <1>6, <1>7, <1>8

(* While a process is being started no trap but the dynamic linker's is in *)
(* the text, apart from xp_execto's own.                                   *)
LEMMA StartTraps ==
  ASSUME NEW x, Sound(x), \A b \in Bp : x.xp[b] => b = ExecBp \/ x.solib[b], ~x.xp[ExecBp]
  PROVE  Armed(x) \subseteq {LinkerAddr}
BY DEF Sound, Tables, AddressesApart, Armed

(* Moving the breakpoints of objects leaves the traps where they are. *)
LEMMA MoveSets ==
  ASSUME NEW x, Sound(x), ExecBp \notin x.live, NEW move \in Relocations, LinkerApart,
         \A b \in Bp : x.xp[b] => x.solib[b]
  PROVE  LET y == [x EXCEPT !.addr = [b \in Bp |-> IF b \in x.live /\ x.user[b]
                                                   THEN move[x.addr[b]] ELSE x.addr[b]]]
         IN  /\ Armed(y) = Armed(x)
             /\ LinkerAddr \in Places(y) <=> LinkerAddr \in Places(x)
<1> DEFINE f == [b \in Bp |-> IF b \in x.live /\ x.user[b] THEN move[x.addr[b]] ELSE x.addr[b]]
           y == [x EXCEPT !.addr = f]
<1>0. /\ x \in Tables /\ x.live \subseteq Bp
      /\ \A b \in x.live : x.user[b] => ~x.solib[b] /\ ~x.xp[b]
      /\ \A b \in x.live : IF x.solib[b] THEN x.addr[b] = LinkerAddr ELSE x.addr[b] \in UserAddrs
  BY DEF Sound, Tables, FlagsAgree, AddressesApart
<1>1. \A a \in UserAddrs : move[a] \in UserAddrs
  BY DEF Relocations
<1>2. \A b \in x.live : f[b] = IF x.user[b] THEN move[x.addr[b]] ELSE x.addr[b]
  BY <1>0
<1> HIDE DEF f
<1>3. y.live = x.live /\ y.xp = x.xp /\ y.addr = f
  BY <1>0 DEF Tables
<1> HIDE DEF y
<1>4. \A b \in x.live : /\ x.xp[b] => f[b] = x.addr[b]
                        /\ f[b] = LinkerAddr <=> x.addr[b] = LinkerAddr
  BY <1>0, <1>1, <1>2 DEF LinkerApart
<1>5. Armed(y) = Armed(x)
  BY <1>3, <1>4 DEF Armed
<1>6. LinkerAddr \in Places(y) <=> LinkerAddr \in Places(x)
  BY <1>3, <1>4 DEF Places
<1> QED BY <1>5, <1>6 DEF y, f

-----------------------------------------------------------------------------
(* The loops over the list. *)

(* A loop that leaves no trap. *)
LEMMA ClearSets ==
  ASSUME NEW x, NEW y, Sound(x),
         y.live = x.live, y.addr = x.addr, y.enabled = x.enabled,
         y.user = x.user, y.inactive = x.inactive, y.global = x.global,
         y.xp = [b \in Bp |-> FALSE]
  PROVE  Places(y) = Places(x) /\ Wanted(y) = Wanted(x) /\ Armed(y) = {}
<1>1. x.live \subseteq Bp
  BY DEF Sound, Tables
<1>2. Places(y) = Places(x) /\ Wanted(y) = Wanted(x)
  BY SameSets
<1> QED BY <1>1, <1>2 DEF Armed

(* install_all_breakpoints puts in every trap that is wanted. *)
LEMMA InstallAllSets ==
  ASSUME NEW x, Sound(x), ExecBp \notin x.live
  PROVE  LET y == install_all_breakpoints(x)
         IN  /\ Places(y) = Places(x) /\ Wanted(y) = Wanted(x)
             /\ Armed(y) = Armed(x) \union Wanted(x)
<1> DEFINE Todo == {b \in x.live : ~x.xp[b] /\ ~UserDisabled(x, b)}
           S == {b \in Todo : x.enabled[b]}
           w == SwapInSet(x, S)
           f == [b \in Bp |-> x.installed[b] \/ b \in Todo]
           y == [w EXCEPT !.installed = f]
<1>1. /\ w \in Tables /\ TextAgrees(w)
      /\ w.xp = [b \in Bp |-> x.xp[b] \/ b \in S]
      /\ w.live = x.live /\ w.installed = x.installed /\ w.enabled = x.enabled
      /\ w.addr = x.addr /\ w.user = x.user /\ w.inactive = x.inactive
      /\ w.solib = x.solib /\ w.global = x.global
  <2> HIDE DEF w
  <2>1. S \in SUBSET x.live /\ \A b \in S : ~x.xp[b]
    OBVIOUS
  <2> QED BY <2>1, SwapInText DEF w
<1>2. install_all_breakpoints(x) = y
  BY DEF install_all_breakpoints
<1> HIDE DEF w
<1>3. /\ y.live = x.live /\ y.addr = x.addr /\ y.enabled = x.enabled
      /\ y.user = x.user /\ y.inactive = x.inactive /\ y.global = x.global
      /\ y.xp = [b \in Bp |-> x.xp[b] \/ b \in S]
  <2> HIDE DEF f
  <2> QED BY <1>1 DEF Tables
<1> HIDE DEF y
<1>4. /\ Places(y) = Places(x) /\ Wanted(y) = Wanted(x)
      /\ Armed(y) = Armed(x) \union {a \in Addr \ Late : \E b \in S : x.addr[b] = a}
  <2>1. S \in SUBSET x.live
    OBVIOUS
  <2>2. \A b \in x.live : y.xp[b] <=> x.xp[b] \/ b \in S
    <3>1. x.live \subseteq Bp
      BY DEF Sound, Tables
    <3> HIDE DEF S
    <3> QED BY <1>3, <3>1
  <2>3. /\ y.live = x.live /\ y.addr = x.addr /\ y.enabled = x.enabled
        /\ y.user = x.user /\ y.inactive = x.inactive /\ y.global = x.global
    BY <1>3
  <2> HIDE DEF S
  <2>4. Places(y) = Places(x) /\ Wanted(y) = Wanted(x)
    BY <2>3, SameSets
  <2>5. Armed(y) = Armed(x) \union {a \in Addr \ Late : \E b \in S : x.addr[b] = a}
    BY <2>1, <2>2, <2>3 DEF Armed
  <2> QED BY <2>4, <2>5
<1>5. Armed(x) \union {a \in Addr \ Late : \E b \in S : x.addr[b] = a} = Armed(x) \union Wanted(x)
  BY DEF Armed, Wanted
<1> QED BY <1>2, <1>4, <1>5

(* uninstall_all_breakpoints takes out every trap. *)
LEMMA UninstallAllSets ==
  ASSUME NEW x, Sound(x)
  PROVE  LET y == uninstall_all_breakpoints(x)
         IN  Places(y) = Places(x) /\ Wanted(y) = Wanted(x) /\ Armed(y) = {} /\ y.addr = x.addr
<1> DEFINE Mine == {b \in x.live : x.xp[b]}
           S == {b \in Mine : x.enabled[b]}
           w == SwapOutSet(x, S)
           f == [b \in Bp |-> x.installed[b] /\ b \notin Mine]
           y == [w EXCEPT !.installed = f]
<1>1. /\ w \in Tables
      /\ w.live = x.live /\ w.enabled = x.enabled /\ w.addr = x.addr
      /\ w.user = x.user /\ w.inactive = x.inactive /\ w.global = x.global
  <2> HIDE DEF w
  <2>1. S \in SUBSET x.live /\ \A b \in S : x.xp[b]
    OBVIOUS
  <2> QED BY <2>1, SwapOutText DEF w
<1>2. uninstall_all_breakpoints(x) = y
  BY DEF uninstall_all_breakpoints
<1>3. y.xp = [b \in Bp |-> FALSE]
  <2> HIDE DEF y
  <2> QED BY <1>2, UninstallAllSound
<1> HIDE DEF w
<1>4. /\ y.live = x.live /\ y.enabled = x.enabled /\ y.addr = x.addr
      /\ y.user = x.user /\ y.inactive = x.inactive /\ y.global = x.global
  <2> HIDE DEF f
  <2> QED BY <1>1 DEF Tables
<1> HIDE DEF y
<1>5. Places(y) = Places(x) /\ Wanted(y) = Wanted(x) /\ Armed(y) = {} /\ y.addr = x.addr
  BY <1>3, <1>4, ClearSets
<1> QED BY <1>2, <1>5

(* CT_STEP: no trap is left but the dynamic linker's. *)
LEMMA PrepareSets ==
  ASSUME NEW x, Sound(x), ExecBp \notin x.live, LinkerApart
  PROVE  LET y == install_solib_event_breakpoint(uninstall_all_breakpoints(x))
         IN  /\ Places(y) = Places(x) /\ Wanted(y) = Wanted(x)
             /\ Armed(y) = Wanted(x) \intersect {LinkerAddr}
<1> DEFINE u == uninstall_all_breakpoints(x)
           y == install_solib_event_breakpoint(u)
           S == {b \in u.live : u.solib[b] /\ ~u.installed[b]}
<1>1. /\ Places(u) = Places(x) /\ Wanted(u) = Wanted(x) /\ Armed(u) = {}
  BY UninstallAllSets
<1>2. Sound(u) /\ u.xp = [b \in Bp |-> FALSE] /\ ExecBp \notin u.live
  BY UninstallAllSound
<1> HIDE DEF u
<1>3. u \in Tables /\ u.live \subseteq Bp
  BY <1>2 DEF Sound, Tables
<1>4. \A b \in u.live : u.installed[b] => ~u.enabled[b]
  BY <1>2, <1>3 DEF Sound, FlagsAgree
<1>5. \A b \in u.live : /\ u.addr[b] = LinkerAddr <=> u.solib[b]
                        /\ u.solib[b] => ~UserDisabled(u, b)
  <2>1. \A b \in u.live : b \in Listed(u) /\ b \in Bp
    BY <1>2, <1>3
  <2>2. \A b \in u.live : IF u.solib[b] THEN u.addr[b] = LinkerAddr ELSE u.addr[b] \in UserAddrs
    BY <1>2, <2>1 DEF Sound, AddressesApart
  <2>3. \A b \in Bp : u.user[b] => ~u.solib[b]
    BY <1>2 DEF Sound, FlagsAgree
  <2> QED BY <2>1, <2>2, <2>3 DEF LinkerApart, UserDisabled
<1>6. \A b, c \in S : b = c
  BY <1>2, <1>5 DEF Sound, AddressesApart
<1>7. CASE S = {}
  <2>1. y = u
    BY <1>7 DEF install_solib_event_breakpoint
  <2>2. LinkerAddr \notin Wanted(u)
    BY <1>4, <1>5, <1>7 DEF Wanted
  <2> QED BY <1>1, <2>1, <2>2 DEF u
<1>8. CASE S # {}
  <2>1. PICK b \in S : S = {b}
    BY <1>6, <1>8
  <2>2. FirstOf(u, {b}) = b
    BY DEF FirstOf
  <2>3. y = install_breakpoint(u, b, FALSE)
    BY <2>1, <2>2 DEF install_solib_event_breakpoint
  <2>4. b \in u.live /\ u.addr[b] = LinkerAddr /\ ~UserDisabled(u, b) /\ u.enabled[b] \in BOOLEAN
    BY <1>3, <1>5 DEF Tables
  <2>5. \A c \in u.live : u.addr[c] = LinkerAddr => c = b
    BY <1>2, <2>4 DEF Sound, AddressesApart
  <2>6. /\ Places(y) = Places(u) /\ Wanted(y) = Wanted(u)
        /\ Armed(y) = IF u.enabled[b] THEN Armed(u) \union ({LinkerAddr} \ Late) ELSE Armed(u)
    <3> DEFINE z == install_breakpoint(u, b, FALSE)
    <3>1. /\ Places(z) = Places(u) /\ Wanted(z) = Wanted(u)
          /\ ~UserDisabled(u, b) /\ u.enabled[b] => Armed(z) = Armed(u) \union ({u.addr[b]} \ Late)
          /\ ~(~UserDisabled(u, b) /\ u.enabled[b]) => Armed(z) = Armed(u)
      BY <1>2, <2>4, InstallSets
    <3> HIDE DEF z
    <3>2. y = z
      BY <2>3 DEF z
    <3> HIDE DEF y
    <3> QED BY <2>4, <3>1, <3>2
  <2>7. Wanted(u) \intersect {LinkerAddr} = IF u.enabled[b] THEN {LinkerAddr} \ Late ELSE {}
    <3>1. \A c \in u.live : c # ExecBp
      BY <1>2
    <3> QED BY <2>4, <2>5, <3>1, AddrAssumption DEF Wanted
  <2> QED BY <1>1, <2>6, <2>7 DEF u
<1> QED BY <1>7, <1>8

(* set_enabled(xp, NULL, FALSE): nothing is wanted, nothing is armed. *)
LEMMA DisableAllSets ==
  ASSUME NEW x, Sound(x), ExecBp \notin x.live
  PROVE  LET y == DisableAll(x)
         IN  Places(y) = Places(x) /\ Wanted(y) = {} /\ Armed(y) = {}
<1> DEFINE Mine == {b \in x.live : x.xp[b]}
           S == {b \in Mine : x.enabled[b]}
           w == SwapOutSet(x, S)
           f == [b \in Bp |-> x.installed[b] /\ b \notin Mine]
           g == [b \in Bp |-> x.enabled[b] /\ b \notin x.live]
           y == DisableAll(x)
<1>1. w \in Tables /\ w.live = x.live /\ w.addr = x.addr
  <2> HIDE DEF w
  <2>1. S \in SUBSET x.live /\ \A b \in S : x.xp[b]
    OBVIOUS
  <2> QED BY <2>1, SwapOutText DEF w
<1>2. y = [w EXCEPT !.installed = f, !.enabled = g]
  BY DEF DisableAll
<1>3. Sound(y) /\ \A b \in Bp : ~y.xp[b]
  BY DisableAllSound
<1> HIDE DEF w, y
<1>4. y.live = x.live /\ y.addr = x.addr /\ y.enabled = g
  <2> HIDE DEF f, g
  <2> QED BY <1>1, <1>2 DEF Tables
<1>5. y.live \subseteq Bp /\ \A b \in y.live : ~y.enabled[b]
  <2>1. y.live \subseteq Bp
    BY <1>3 DEF Sound, Tables
  <2> QED BY <1>4, <2>1
<1>6. Places(y) = Places(x)
  BY <1>4 DEF Places
<1>7. Wanted(y) = {} /\ Armed(y) = {}
  BY <1>3, <1>5 DEF Wanted, Armed
<1> QED BY <1>6, <1>7 DEF y

(* set_enabled(xp, bp, TRUE) adds to what is wanted and armed. *)
LEMMA EnableSets ==
  ASSUME NEW x, Sound(x), ExecBp \notin x.live, NEW b \in x.live
  PROVE  LET y == EnableOne(x, b)
         IN  /\ Places(y) = Places(x) /\ Wanted(x) \subseteq Wanted(y)
             /\ Armed(x) \subseteq Armed(y) /\ Armed(y) \subseteq Armed(x) \union Wanted(y)
<1> DEFINE e == [x EXCEPT !.enabled[b] = TRUE]
           y == EnableOne(x, b)
<1>0. x \in Tables /\ b \in Bp /\ x.live \subseteq Bp /\ x.addr[b] \in Addr
  BY OnlyOne
<1>1. /\ e \in Tables /\ e.enabled = [x.enabled EXCEPT ![b] = TRUE]
      /\ e.live = x.live /\ e.addr = x.addr /\ e.xp = x.xp
      /\ e.user = x.user /\ e.inactive = x.inactive /\ e.global = x.global
  BY <1>0 DEF Tables
<1>2. y = e \/ (y = install_breakpoint(e, b, FALSE) /\ ~x.xp[b] /\ x.installed[b])
  BY DEF EnableOne
<1> HIDE DEF e
<1>3. /\ y.live = x.live /\ y.addr = x.addr /\ y.enabled = [x.enabled EXCEPT ![b] = TRUE]
      /\ y.user = x.user /\ y.inactive = x.inactive /\ y.global = x.global
      /\ y.xp = x.xp \/ (y.xp = [x.xp EXCEPT ![b] = TRUE] /\ ~UserDisabled(x, b))
  <2>1. CASE y = e
    BY <1>1, <2>1
  <2>2. CASE y = install_breakpoint(e, b, FALSE) /\ ~x.xp[b] /\ x.installed[b]
    <3>1. ~UserDisabled(x, b)
      BY <1>0, <2>2 DEF Sound, FlagsAgree
    <3>2. ~UserDisabled(e, b) /\ e.enabled[b]
      BY <1>0, <1>1, <3>1 DEF UserDisabled, Tables
    <3> DEFINE z == install_breakpoint(e, b, FALSE)
    <3>3. /\ z.live = e.live /\ z.addr = e.addr /\ z.enabled = e.enabled
          /\ z.user = e.user /\ z.inactive = e.inactive /\ z.global = e.global
          /\ z.xp = [e.xp EXCEPT ![b] = TRUE]
      BY <1>0, <1>1, <3>2, InstallFields
    <3>4. y = z
      BY <2>2
    <3> HIDE DEF y, z
    <3> QED BY <1>1, <3>1, <3>3, <3>4
  <2> QED BY <1>2, <2>1, <2>2
<1> HIDE DEF y
<1>4. /\ \A c \in x.live : (x.enabled[c] => y.enabled[c]) /\ (UserDisabled(y, c) <=> UserDisabled(x, c))
      /\ y.enabled[b]
  BY <1>0, <1>3 DEF Tables, UserDisabled
<1>5. \A c \in x.live : /\ x.xp[c] => y.xp[c]
                        /\ y.xp[c] => x.xp[c] \/ (c = b /\ ~UserDisabled(x, b))
  BY <1>0, <1>3 DEF Tables
<1>6. Places(y) = Places(x)
  BY <1>3 DEF Places
<1>7. Wanted(x) \subseteq Wanted(y)
  BY <1>3, <1>4 DEF Wanted
<1>8. Armed(x) \subseteq Armed(y) /\ Armed(y) \subseteq Armed(x) \union Wanted(y)
  BY <1>3, <1>4, <1>5 DEF Armed, Wanted
<1> QED BY <1>6, <1>7, <1>8 DEF y

(* set_enabled(xp, NULL, TRUE) does, too. *)
LEMMA EnableAllSets ==
  ASSUME NEW x, Sound(x), ExecBp \notin x.live
  PROVE  LET y == EnableAll(x)
         IN  /\ Places(y) = Places(x) /\ Wanted(x) \subseteq Wanted(y)
             /\ Armed(x) \subseteq Armed(y) /\ Armed(y) \subseteq Armed(x) \union Wanted(y)
<1> DEFINE S == {b \in x.live : ~x.xp[b] /\ x.installed[b] /\ ~UserDisabled(x, b)}
           w == SwapInSet(x, S)
           g == [b \in Bp |-> x.enabled[b] \/ b \in x.live]
           y == EnableAll(x)
<1>0. x \in Tables /\ x.live \subseteq Bp
  BY DEF Sound, Tables
<1>1. /\ w \in Tables /\ TextAgrees(w)
      /\ w.xp = [b \in Bp |-> x.xp[b] \/ b \in S]
      /\ w.live = x.live /\ w.installed = x.installed /\ w.enabled = x.enabled
      /\ w.addr = x.addr /\ w.user = x.user /\ w.inactive = x.inactive
      /\ w.solib = x.solib /\ w.global = x.global
  <2> HIDE DEF w
  <2>1. S \in SUBSET x.live /\ \A b \in S : ~x.xp[b]
    OBVIOUS
  <2> QED BY <2>1, SwapInText DEF w
<1>2. y = [w EXCEPT !.enabled = g]
  BY DEF EnableAll
<1> HIDE DEF w, y
<1>3. /\ y.xp = w.xp /\ y.live = x.live /\ y.addr = x.addr /\ y.enabled = g
      /\ y.user = x.user /\ y.inactive = x.inactive /\ y.global = x.global
  <2> HIDE DEF g
  <2> QED BY <1>1, <1>2 DEF Tables
<1>4. \A c \in x.live : /\ y.enabled[c]
                        /\ y.xp[c] <=> x.xp[c] \/ c \in S
                        /\ UserDisabled(y, c) <=> UserDisabled(x, c)
  BY <1>0, <1>1, <1>3 DEF UserDisabled
<1>5. Places(y) = Places(x)
  BY <1>3 DEF Places
<1>6. Wanted(x) \subseteq Wanted(y)
  BY <1>3, <1>4 DEF Wanted
<1>7. Armed(x) \subseteq Armed(y) /\ Armed(y) \subseteq Armed(x) \union Wanted(y)
  BY <1>3, <1>4 DEF Armed, Wanted
<1> QED BY <1>5, <1>6, <1>7 DEF y

-----------------------------------------------------------------------------
(* The refinement. *)

(* A new place, with its trap only where the dynamic linker reports. *)
LEMMA AddStep ==
  ASSUME IndInv, IndInv', UNCHANGED alive, NEW a \in Addr, a \notin Places(t),
         Places(t') = Places(t) \union ({a} \ Late),
         Wanted(t') \in {Wanted(t), Wanted(t) \union ({a} \ Late)},
         \/ Armed(t') = Armed(t)
         \/ a = LinkerAddr /\ Armed(t') = Armed(t) \union ({a} \ Late)
                           /\ Wanted(t') = Wanted(t) \union ({a} \ Late)
  PROVE  Abstract!Next
<1>1. CASE a \in Late
  BY <1>1, ChooseStep
<1>2. CASE a \notin Late
  <2>1. Abstract!Change(Places(t) \union {a}, Wanted(t'), Armed(t'))
    BY <1>2, ChangeStep
  <2>2. Wanted(t') \in {Wanted(t), Wanted(t) \union {a}}
    BY <1>2
  <2>3. Armed(t') \in {Armed(t), Armed(t) \union (Wanted(t') \intersect {a} \intersect {LinkerAddr})}
    BY <1>2
  <2>4. Abstract!Add(a)
    BY <2>1, <2>2, <2>3 DEF Abstract!Add
  <2> QED BY <1>2, <2>4 DEF Abstract!Next
<1> QED BY <1>1, <1>2

(* A place gone, with its trap. *)
LEMMA RemoveStep ==
  ASSUME IndInv, IndInv', UNCHANGED alive, NEW a \in Addr,
         Places(t') = Places(t) \ {a}, Wanted(t') = Wanted(t) \ {a}, Armed(t') = Armed(t) \ {a}
  PROVE  Abstract!Next
<1>1. CASE a \in Late
  <2>1. a \notin Places(t) /\ a \notin Armed(t)
    BY <1>1 DEF Places, Armed
  <2> QED BY <2>1, ChooseStep
<1>2. CASE a \notin Late
  <2>1. Abstract!Remove(a)
    BY ChangeStep DEF Abstract!Remove
  <2> QED BY <1>2, <2>1 DEF Abstract!Next
<1> QED BY <1>1, <1>2

(* One trap more, or one less. *)
LEMMA TrapStep ==
  ASSUME IndInv, IndInv', UNCHANGED alive, NEW b \in t.live,
         Places(t') = Places(t), Wanted(t') = Wanted(t),
         \/ b # ExecBp /\ Armed(t') = Armed(t) \union ({t.addr[b]} \ Late)
         \/ Armed(t') = Armed(t) \ {t.addr[b]}
  PROVE  Abstract!Next
<1> DEFINE a == t.addr[b]
<1>0. a \in Addr
  BY OnlyOne DEF IndInv
<1>1. CASE a \in Late
  <2>1. a \notin Armed(t)
    BY <1>1 DEF Armed
  <2> QED BY <1>1, <2>1, ChooseStep
<1>2. CASE a \notin Late
  <2>1. b # ExecBp => a \in Places(t)
    BY <1>0, <1>2 DEF Places
  <2>2. CASE b # ExecBp /\ Armed(t') = Armed(t) \union ({a} \ Late)
    <3>1. Abstract!Change(Places(t), Wanted(t), Armed(t) \union {a})
      BY <1>2, <2>2, ChangeStep
    <3>2. Abstract!Force(a)
      BY <2>1, <2>2, <3>1 DEF Abstract!Force
    <3> HIDE DEF a
    <3> QED BY <1>0, <1>2, <3>2 DEF Abstract!Next
  <2>3. CASE Armed(t') = Armed(t) \ {a}
    <3>1. Abstract!Disarm(a)
      BY <2>3, ChangeStep DEF Abstract!Disarm
    <3> HIDE DEF a
    <3> QED BY <1>0, <1>2, <3>1 DEF Abstract!Next
  <2> QED BY <2>2, <2>3
<1> QED BY <1>1, <1>2

(* A trap where a new process is to stop. *)
LEMMA VisitStep ==
  ASSUME IndInv, IndInv', UNCHANGED alive, NEW a \in Addr \ Late,
         Armed(t) \subseteq {LinkerAddr},
         Places(t') = Places(t), Wanted(t') = Wanted(t), Armed(t') = Armed(t) \union {a}
  PROVE  Abstract!Next
<1>1. Abstract!Change(Places(t), Wanted(t), Armed(t) \union {a})
  BY ChangeStep
<1>2. Abstract!Visit(a)
  BY <1>1 DEF Abstract!Visit
<1> QED BY <1>2 DEF Abstract!Next

(* set_enabled with TRUE. *)
LEMMA EnableStep ==
  ASSUME IndInv, IndInv', UNCHANGED alive, Places(t') = Places(t), Wanted(t) \subseteq Wanted(t'),
         Armed(t) \subseteq Armed(t'), Armed(t') \subseteq Armed(t) \union Wanted(t')
  PROVE  Abstract!Next
<1>1. Wanted(t') \subseteq Places(t)
  BY DEF Wanted, Places
<1>2. Abstract!Enable
  BY <1>1, ChangeStep DEF Abstract!Enable
<1> QED BY <1>2 DEF Abstract!Next

(* A new process, or the end of one, has the program's own text. *)
LEMMA NoTraps ==
  ASSUME NEW x, Sound(x), \A b \in Bp : ~x.xp[b]
  PROVE  Armed(x) = {} /\ TextOf(x) = [a \in Addr \ Late |-> Orig[a]]
<1>1. Armed(x) = {}
  BY DEF Sound, Tables, Armed
<1> QED BY <1>1, TextFromArmed

(* FreshText and mark_breakpoints_as_uninstalled leave the list alone. *)
LEMMA FreshSets ==
  ASSUME NEW x, Sound(x)
  PROVE  /\ LET y == FreshText(x) IN Places(y) = Places(x) /\ Wanted(y) = Wanted(x)
         /\ LET y == FreshText(mark_breakpoints_as_uninstalled(x))
            IN  Places(y) = Places(x) /\ Wanted(y) = Wanted(x)
<1> DEFINE f == FreshText(x)
           m == mark_breakpoints_as_uninstalled(x)
           g == FreshText(m)
<1>0. x \in Tables
  BY DEF Sound
<1>1. /\ f.live = x.live /\ f.addr = x.addr /\ f.enabled = x.enabled
      /\ f.user = x.user /\ f.inactive = x.inactive /\ f.global = x.global
  BY <1>0 DEF FreshText, Tables
<1>2. /\ m.live = x.live /\ m.addr = x.addr /\ m.enabled = x.enabled
      /\ m.user = x.user /\ m.inactive = x.inactive /\ m.global = x.global
  BY <1>0 DEF mark_breakpoints_as_uninstalled, Tables
<1>3. /\ g.live = m.live /\ g.addr = m.addr /\ g.enabled = m.enabled
      /\ g.user = m.user /\ g.inactive = m.inactive /\ g.global = m.global
  BY <1>0 DEF FreshText, mark_breakpoints_as_uninstalled, Tables
<1> HIDE DEF f, m, g
<1>4. Places(f) = Places(x) /\ Wanted(f) = Wanted(x)
  BY <1>1, SameSets
<1>5. /\ g.live = x.live /\ g.addr = x.addr /\ g.enabled = x.enabled
      /\ g.user = x.user /\ g.inactive = x.inactive /\ g.global = x.global
  BY <1>2, <1>3
<1>6. Places(g) = Places(x) /\ Wanted(g) = Wanted(x)
  BY <1>5, SameSets
<1> QED BY <1>4, <1>6 DEF f, g, m

(* The process ends, however it does. *)
LEMMA EndStep ==
  ASSUME IndInv, IndInv', alive = TRUE, alive' = FALSE,
         Places(t') = Places(t), Wanted(t') = Wanted(t)
  PROVE  Abstract!Next
<1>1. Sound(t') /\ \A b \in Bp : ~t'.xp[b]
  BY DEF IndInv, NothingInstalledWithoutProcess
<1>2. Armed(t') = {} /\ TextOf(t') = [a \in Addr \ Late |-> Orig[a]]
  BY <1>1, NoTraps
<1>3. Abstract!End
  BY <1>2 DEF Abstract!End
<1> QED BY <1>3 DEF Abstract!Next

(* Every step of the callers is a step of TrapSet, or leaves it alone. *)
LEMMA RefinementStep ==
  ASSUME LinkerApart, IndInv, IndInv', [Next]_vars
  PROVE  [Abstract!Next]_Abstract!vars
<1> USE DEF vars
<1>a. Sound(t) /\ t \in Tables /\ t.live \subseteq Bp
  BY DEF IndInv, Sound, Tables
<1>b. ~alive => \A b \in Bp : ~t.xp[b]
  BY DEF IndInv, NothingInstalledWithoutProcess
<1>c. /\ ~starting => ExecBp \notin t.live
      /\ starting => \A b \in Bp : t.xp[b] => b = ExecBp \/ t.solib[b]
      /\ \A b \in Bp : t.xp[b] => b \in t.live
      /\ ExecBp \in Bp
  BY <1>a, AddrAssumption DEF IndInv, StartsClean, Sound, FlagsAgree
<1>1. ASSUME NEW b \in Bp \ {ExecBp}, NEW a \in UserAddrs, NEW junk \in Junk,
             add_breakpoint_object(b, a, junk) \/ AddTemporary(b, a, junk)
      PROVE  Abstract!Next
  <2>1. a \in Addr /\ junk \in Code /\ b \notin t.live /\ \A c \in t.live : t.addr[c] # a
    BY <1>1, AddrAssumption DEF add_breakpoint_object, AddTemporary, dx_addr_to_breakpoint
  <2>2. a \notin Places(t)
    BY <2>1 DEF Places
  <2>3. PICK owner \in {"user", "solib", "none"} : t' = dx_add_breakpoint(t, b, a, junk, owner)
    BY <1>1 DEF add_breakpoint_object, AddTemporary
  <2>4. /\ Places(t') = Places(t) \union ({a} \ Late) /\ Armed(t') = Armed(t)
        /\ Wanted(t') \in {Wanted(t), Wanted(t) \union ({a} \ Late)}
    BY <1>a, <2>1, <2>3, AddSets
  <2>5. UNCHANGED alive
    BY <1>1 DEF add_breakpoint_object, AddTemporary
  <2> QED BY <2>1, <2>2, <2>4, <2>5, AddStep
<1>2. ASSUME NEW b \in Bp \ {ExecBp}, NEW junk \in Junk, AddLinkerBreakpoint(b, junk)
      PROVE  Abstract!Next
  <2> DEFINE y == dx_add_breakpoint(t, b, LinkerAddr, junk, "solib")
  <2>1. /\ \A c \in t.live : t.addr[c] # LinkerAddr
        /\ LinkerAddr \in Addr /\ junk \in Code /\ b \notin t.live /\ ExecBp \notin t.live
        /\ t' = install_breakpoint(y, b, FALSE) /\ alive' = alive
    BY <1>2, <1>a, AddrAssumption DEF AddLinkerBreakpoint, LinkerApart, Sound, AddressesApart
  <2>2. Sound(y) /\ b \in y.live /\ y.enabled[b]
    BY <1>a, <2>1, AddSound
  <2>3. /\ Places(y) = Places(t) \union ({LinkerAddr} \ Late)
        /\ Wanted(y) = Wanted(t) \union ({LinkerAddr} \ Late)
        /\ Armed(y) = Armed(t) /\ y.addr[b] = LinkerAddr /\ ~UserDisabled(y, b)
    <3>1. "solib" \in {"user", "solib", "none"} /\ "solib" # "user"
      OBVIOUS
    <3> QED BY <1>a, <2>1, <3>1, AddSets
  <2> HIDE DEF y
  <2>4. /\ Places(t') = Places(y) /\ Wanted(t') = Wanted(y)
        /\ Armed(t') = Armed(y) \union ({LinkerAddr} \ Late)
    BY <2>1, <2>2, <2>3, InstallSets
  <2>5. LinkerAddr \notin Places(t)
    BY <2>1 DEF Places
  <2> QED BY <2>1, <2>3, <2>4, <2>5, AddStep
<1>3. ASSUME NEW b \in Bp, RemoveBreakpoint(b)
      PROVE  Abstract!Next
  <2>1. /\ b \in t.live /\ t' = dx_remove_breakpoint(t, b) /\ alive' = alive
        /\ ExecBp \notin t.live
    BY <1>3, <1>c DEF RemoveBreakpoint
  <2>2. t.addr[b] \in Addr
    BY <1>a DEF Tables
  <2> QED BY <1>a, <2>1, <2>2, RemoveSets, RemoveStep
<1>4. ASSUME NEW move \in Relocations, recalculate_bpt_addrs(move)
      PROVE  Abstract!Next
  <2>1. /\ starting /\ ExecBp \notin t.live /\ alive' = alive
        /\ t' = [t EXCEPT !.addr = [b \in Bp |-> IF b \in t.live /\ t.user[b]
                                                 THEN move[t.addr[b]] ELSE t.addr[b]]]
    BY <1>4 DEF recalculate_bpt_addrs
  <2>2. \A b \in Bp : t.xp[b] => t.solib[b] /\ b # ExecBp
    BY <1>c, <2>1
  <2>3. Armed(t') = Armed(t) /\ (LinkerAddr \in Places(t') <=> LinkerAddr \in Places(t))
    BY <1>a, <2>1, <2>2, MoveSets
  <2>4. Armed(t) \subseteq {LinkerAddr}
    BY <1>a, <1>c, <2>2, StartTraps
  <2>5. Wanted(t') \subseteq Places(t')
    BY DEF Wanted, Places
  <2>6. Abstract!Change(Places(t'), Wanted(t'), Armed(t))
    BY <2>1, <2>3, ChangeStep
  <2> QED BY <2>3, <2>4, <2>5, <2>6 DEF Abstract!Next, Abstract!Move
<1>5. ASSUME (\E b \in Bp, disable \in BOOLEAN : set_bpt_state(b, disable))
             \/ (\E on \in BOOLEAN : SetGlobal(on))
      PROVE  Abstract!Next
  <2>1. /\ alive' = alive
        /\ \/ \E b \in Bp, disable \in BOOLEAN : t' = [t EXCEPT !.inactive[b] = disable]
           \/ \E on \in BOOLEAN : t' = [t EXCEPT !.global = on]
    BY <1>5 DEF set_bpt_state, SetGlobal
  <2>2. t'.live = t.live /\ t'.addr = t.addr /\ t'.xp = t.xp
    BY <1>a, <2>1 DEF Tables
  <2>3. Places(t') = Places(t) /\ Armed(t') = Armed(t)
    BY <2>2 DEF Places, Armed
  <2> QED BY <2>1, <2>3, ChooseStep
<1>6. CASE InstallAll
  <2>1. t' = install_all_breakpoints(t) /\ alive' = alive
    BY <1>6 DEF InstallAll
  <2>2. Abstract!Change(Places(t), Wanted(t), Armed(t) \union Wanted(t))
    BY <1>a, <1>c, <1>6, <2>1, InstallAllSets, ChangeStep DEF InstallAll
  <2> QED BY <2>2 DEF Abstract!Next, Abstract!ArmAll
<1>7. CASE PrepareStep
  <2>1. t' = install_solib_event_breakpoint(uninstall_all_breakpoints(t)) /\ alive' = alive
    BY <1>7 DEF PrepareStep
  <2>2. Abstract!Change(Places(t), Wanted(t), Wanted(t) \intersect {LinkerAddr})
    BY <1>a, <1>c, <1>7, <2>1, PrepareSets, ChangeStep DEF PrepareStep
  <2> QED BY <2>2 DEF Abstract!Next, Abstract!ArmLinker
<1>8. ASSUME NEW b \in Bp, ForceInstall(b)
      PROVE  Abstract!Next
  <2>1. /\ b \in t.live /\ t.enabled[b] /\ t' = install_breakpoint(t, b, TRUE) /\ alive' = alive
        /\ b # ExecBp
    BY <1>8, <1>c DEF ForceInstall, Quiet
  <2>2. /\ Places(t') = Places(t) /\ Wanted(t') = Wanted(t)
        /\ Armed(t') = Armed(t) \union ({t.addr[b]} \ Late)
    BY <1>a, <2>1, InstallSets
  <2> QED BY <2>1, <2>2, TrapStep
<1>9. ASSUME NEW b \in Bp, Uninstall(b)
      PROVE  Abstract!Next
  <2>1. b \in t.live /\ t.xp[b] /\ t' = uninstall_breakpoint(t, b) /\ alive' = alive
    BY <1>9 DEF Uninstall
  <2>2. /\ Places(t') = Places(t) /\ Wanted(t') = Wanted(t)
        /\ Armed(t') = Armed(t) \ {t.addr[b]}
    BY <1>a, <2>1, UninstallSets
  <2> QED BY <2>1, <2>2, TrapStep
<1>10. CASE DisableEvery
  <2>1. t' = DisableAll(t) /\ alive' = alive
    BY <1>10 DEF DisableEvery
  <2>2. Abstract!Change(Places(t), {}, {})
    BY <1>a, <1>c, <1>10, <2>1, DisableAllSets, ChangeStep DEF DisableEvery
  <2> QED BY <2>2 DEF Abstract!Next, Abstract!DisableAll
<1>11. ASSUME NEW b \in Bp, Enable(b)
       PROVE  Abstract!Next
  <2>1. b \in t.live /\ t' = EnableOne(t, b) /\ alive' = alive
    BY <1>11 DEF Enable
  <2> QED BY <1>a, <1>c, <1>11, <2>1, EnableSets, EnableStep DEF Enable
<1>12. CASE EnableEvery
  <2>1. t' = EnableAll(t) /\ alive' = alive
    BY <1>12 DEF EnableEvery
  <2> QED BY <1>a, <1>c, <1>12, <2>1, EnableAllSets, EnableStep DEF EnableEvery
<1>13. ASSUME TestInstall \/ \E a \in Late : MapLibrary(a)
       PROVE  Abstract!Next
  <2>1. /\ alive' = alive
        /\ t' = TrialSwap(t) \/ \E a \in Late : t' = MapText(t, a)
    BY <1>13 DEF TestInstall, MapLibrary
  <2>2. t'.live = t.live /\ t'.addr = t.addr /\ t'.xp = t.xp
    <3>1. CASE t' = TrialSwap(t)
      <4> DEFINE h == [b \in Bp |->
                         IF /\ b \in t.live /\ ~t.xp[b] /\ t.addr[b] \in t.mapped
                            /\ ~\E c \in Untestable(t) : <<c, b>> \in t.before
                         THEN t.text[t.addr[b]] ELSE t.code[b]]
      <4>1. t' = [t EXCEPT !.code = h]
        BY <3>1 DEF TrialSwap
      <4> HIDE DEF h
      <4> QED BY <1>a, <4>1 DEF Tables
    <3>2. CASE \E a \in Late : t' = MapText(t, a)
      BY <1>a, <3>2 DEF Tables, MapText
    <3> QED BY <2>1, <3>1, <3>2
  <2>3. Places(t') = Places(t) /\ Armed(t') = Armed(t)
    BY <2>2 DEF Places, Armed
  <2> QED BY <2>1, <2>3, ChooseStep
<1>14. CASE Start \/ Attach
  <2>1. ~alive /\ alive' = TRUE /\ t' = FreshText(t)
    BY <1>14 DEF Start, Attach
  <2>2. /\ Places(t') = Places(t) /\ Wanted(t') = Wanted(t)
        /\ Sound(t') /\ \A b \in Bp : ~t'.xp[b]
    BY <1>a, <1>b, <2>1, FreshSets, FreshSound
  <2>3. Armed(t) = {} /\ Armed(t') = {} /\ TextOf(t') = [a \in Addr \ Late |-> Orig[a]]
    BY <1>a, <1>b, <2>1, <2>2, NoTraps
  <2>4. Abstract!Begin
    BY <2>1, <2>2, <2>3 DEF Abstract!Begin
  <2> QED BY <2>4 DEF Abstract!Next
<1>15. CASE Exit \/ Kill \/ Detach
  <2> DEFINE u == uninstall_all_breakpoints(t)
  <2>1. /\ alive = TRUE /\ alive' = FALSE
        /\ \/ t' = FreshText(mark_breakpoints_as_uninstalled(t))
           \/ t' = FreshText(mark_breakpoints_as_uninstalled(u))
           \/ t' = FreshText(u)
    BY <1>15 DEF Exit, Kill, Detach, IndInv
  <2>2. Sound(u) /\ Places(u) = Places(t) /\ Wanted(u) = Wanted(t)
    BY <1>a, UninstallAllSound, UninstallAllSets
  <2> HIDE DEF u
  <2>3. Places(t') = Places(t) /\ Wanted(t') = Wanted(t)
    BY <1>a, <2>1, <2>2, FreshSets
  <2> QED BY <2>1, <2>3, EndStep
<1>16. CASE UNCHANGED vars
  <2>1. t' = t /\ alive' = alive
    BY <1>16
  <2> QED BY <2>1 DEF Abstract!vars
<1>17. ASSUME NEW a \in StartAddrs, NEW junk \in Junk, xp_execto(a, junk)
       PROVE  Abstract!Next
  <2>1. /\ starting /\ ExecBp \notin t.live /\ alive' = alive
        /\ t' = install_breakpoint(dx_add_breakpoint(t, ExecBp, a, junk, "none"), ExecBp, FALSE)
        /\ a \in Addr \ Late /\ junk \in Code
    BY <1>17, AddrAssumption DEF xp_execto
  <2>2. Places(t') = Places(t) /\ Wanted(t') = Wanted(t) /\ Armed(t') = Armed(t) \union {a}
    BY <1>a, <2>1, ExecToSets
  <2>3. Armed(t) \subseteq {LinkerAddr}
    BY <1>a, <1>c, <2>1, StartTraps
  <2> QED BY <2>1, <2>2, <2>3, VisitStep
<1>18. CASE ExecToEnds
  <2>1. ExecBp \in t.live /\ t' = dx_remove_breakpoint(t, ExecBp) /\ alive' = alive
    BY <1>18 DEF ExecToEnds
  <2>2. /\ Places(t') = Places(t) /\ Wanted(t') = Wanted(t)
        /\ t.xp[ExecBp] => Armed(t') = Armed(t) \ {t.addr[ExecBp]}
        /\ ~t.xp[ExecBp] => Armed(t') = Armed(t)
    BY <1>a, <2>1, ExecToEndsSets
  <2>3. CASE t.xp[ExecBp]
    BY <2>1, <2>2, <2>3, TrapStep
  <2>4. CASE ~t.xp[ExecBp]
    BY <2>1, <2>2, <2>4, ChooseStep
  <2> QED BY <2>3, <2>4
<1>19. ASSUME NEW b \in Bp, PutBack(b)
       PROVE  Abstract!Next
  <2>1. /\ b \in t.live /\ ~t.xp[b] /\ t' = install_breakpoint(t, b, FALSE) /\ alive' = alive
    BY <1>19 DEF PutBack
  <2>2. /\ Places(t') = Places(t) /\ Wanted(t') = Wanted(t)
        /\ \/ Armed(t') = Armed(t) \union ({t.addr[b]} \ Late)
           \/ Armed(t') = Armed(t)
    BY <1>a, <2>1, InstallSets
  <2>3. CASE Armed(t') = Armed(t)
    BY <2>1, <2>2, <2>3, ChooseStep
  <2>4. CASE Armed(t') = Armed(t) \union ({t.addr[b]} \ Late) /\ b # ExecBp
    BY <2>1, <2>2, <2>4, TrapStep
  <2>5. CASE Armed(t') = Armed(t) \union ({t.addr[b]} \ Late) /\ b = ExecBp
    <3>1. starting /\ ~t.xp[ExecBp]
      BY <1>c, <2>1, <2>5
    <3>2. t.addr[b] \in Addr \ Late
      BY <1>a, <2>1, <2>5, AddrAssumption DEF Sound, ExecBpApart
    <3>3. Armed(t) \subseteq {LinkerAddr}
      BY <1>a, <1>c, <3>1, StartTraps
    <3>4. Armed(t') = Armed(t) \union {t.addr[b]}
      BY <2>5, <3>2
    <3> QED BY <2>1, <2>2, <3>2, <3>3, <3>4, VisitStep
  <2> QED BY <2>2, <2>3, <2>4, <2>5
<1>20. CASE Started
  <2>1. t' = t /\ alive' = alive
    BY <1>20 DEF Started
  <2> QED BY <2>1 DEF Abstract!vars
<1> QED
  BY <1>1, <1>2, <1>3, <1>4, <1>5, <1>6, <1>7, <1>8, <1>9, <1>10, <1>11, <1>12, <1>13,
     <1>14, <1>15, <1>16, <1>17, <1>18, <1>19, <1>20 DEF Next

(* The breakpoint list of bp.c, driven by its callers, implements the set  *)
(* of traps of TrapSet: its marks, order and saved opcodes never show.     *)
THEOREM Refinement ==
  ASSUME LinkerApart
  PROVE  Spec => ImplementsTrapSet
<1>1. Init => Abstract!Init
  <2>1. ASSUME Init PROVE Places(t) = {} /\ Wanted(t) = {} /\ Armed(t) = {} /\ alive = FALSE
    BY <2>1 DEF Init, EmptyTable, Places, Wanted, Armed
  <2>2. ASSUME Init PROVE TextOf(t) = [a \in Addr \ Late |-> Orig[a]]
    BY <2>2 DEF Init, EmptyTable, TextOf
  <2> QED BY <2>1, <2>2 DEF Abstract!Init
<1>2. IndInv /\ IndInv' /\ [Next]_vars => [Abstract!Next]_Abstract!vars
  BY RefinementStep
<1>3. Spec => []IndInv
  BY Invariance
<1> QED BY <1>1, <1>2, <1>3, PTL DEF Spec, ImplementsTrapSet, Abstract!Spec
==============================================================================
