----------------------------- MODULE TableProofs -----------------------------
(***************************************************************************)
(* What the operations of BreakpointTable do to a table, for every set of  *)
(* breakpoints, addresses and opcodes: the facts that the proofs about the *)
(* components that use the list (Calls, Stepping, Target) rest on.         *)
(*                                                                         *)
(* An operation has up to two lemmas.  ...Fields says which fields it      *)
(* changes, of any table; ...Intact that an intact table stays intact,     *)
(* when no trap is put where there is one already.                         *)
(***************************************************************************)
EXTENDS BreakpointTable, TLAPS

(* The types of the fields, for provers that need them one by one. *)
LEMMA TableTypes ==
  ASSUME NEW x \in Tables
  PROVE  /\ x.live \subseteq Bp /\ x.before \subseteq Bp \X Bp
         /\ x.xp \in [Bp -> BOOLEAN] /\ x.installed \in [Bp -> BOOLEAN]
         /\ x.enabled \in [Bp -> BOOLEAN] /\ x.user \in [Bp -> BOOLEAN]
         /\ x.inactive \in [Bp -> BOOLEAN] /\ x.solib \in [Bp -> BOOLEAN]
         /\ x.addr \in [Bp -> Addr] /\ x.code \in [Bp -> Code]
         /\ x.global \in BOOLEAN /\ x.text \in [Addr -> Code] /\ x.mapped \subseteq Addr
BY DEF Tables

(* The values freed structures are given have types of their own. *)
LEMMA NoTypes == NoAddr \in Addr /\ NoCode \in Opcode /\ NoCode \in Code /\ Opcode \subseteq Code /\ BPT \in Code
BY TableAssumption DEF NoAddr, NoCode, Code

(* A list nothing of which is in the program's text is intact. *)
LEMMA QuietIntact ==
  ASSUME NEW x \in Tables, \A b \in Bp : ~x.xp[b] /\ ~x.installed[b],
         x.text = Orig, Addr \ Late \subseteq x.mapped
  PROVE  Intact(x)
BY DEF Intact, MarksAgree, TrapsApart, TextAgrees

(* The table a session begins with is intact, and no two breakpoints share *)
(* an address.                                                             *)
Begun(x, S, where, off, on) ==
  /\ Intact(x) /\ OneEach(x) /\ Ordered(x)
  /\ x.live = S /\ x.text = Orig /\ x.mapped = Addr \ Late /\ x.global = on
  /\ \A b \in Bp : /\ ~x.xp[b] /\ ~x.installed[b] /\ ~x.solib[b]
                   /\ (x.enabled[b] <=> b \in S) /\ (x.user[b] <=> b \in S)
                   /\ (x.inactive[b] <=> b \in off)
  /\ \A b \in S : x.addr[b] = where[b]

(* SessionList is such a table. *)
LEMMA SessionIntact ==
  ASSUME NEW S \in SUBSET Bp, NEW order \in SUBSET (Bp \X Bp), NEW where \in [S -> Addr],
         \A b, c \in S : where[b] = where[c] => b = c,
         NEW off \in SUBSET Bp, NEW on \in BOOLEAN
  PROVE  Begun(SessionList(S, order, where, off, on), S, where, off, on)
<1> DEFINE x == SessionList(S, order, where, off, on)
           ad == [b \in Bp |-> IF b \in S THEN where[b] ELSE NoAddr]
           en == [b \in Bp |-> b \in S]
           ia == [b \in Bp |-> b \in off]
           none == [b \in Bp |-> FALSE]
           cd == [b \in Bp |-> NoCode]
<1>1. ad \in [Bp -> Addr] /\ en \in [Bp -> BOOLEAN] /\ ia \in [Bp -> BOOLEAN] /\ none \in [Bp -> BOOLEAN] /\ cd \in [Bp -> Code]
  BY NoTypes
<1>2. Orig \in [Addr -> Code]
  BY TableAssumption DEF Code
<1>3. \A b \in Bp : ~none[b] /\ (en[b] <=> b \in S) /\ (ia[b] <=> b \in off)
  OBVIOUS
<1>4. \A b \in S : b \in Bp /\ ad[b] = where[b]
  OBVIOUS
<1>5. /\ EmptyTable = [live |-> {}, before |-> {}, xp |-> none, installed |-> none, enabled |-> none,
                       addr |-> [b \in Bp |-> NoAddr], code |-> cd, user |-> none,
                       inactive |-> none, solib |-> none,
                       global |-> TRUE, text |-> Orig, mapped |-> Addr \ Late]
      /\ x = [EmptyTable EXCEPT !.live = S, !.before = order, !.enabled = en, !.user = en,
                                !.addr = ad, !.inactive = ia, !.global = on]
  BY DEF EmptyTable, SessionList
<1> HIDE DEF ad, en, ia, none, cd, x
<1>5a. x = [live |-> S, before |-> order, xp |-> none, installed |-> none, enabled |-> en,
            addr |-> ad, code |-> cd, user |-> en, inactive |-> ia, solib |-> none,
            global |-> on, text |-> Orig, mapped |-> Addr \ Late]
  BY <1>5
<1>6. x \in Tables
  BY <1>1, <1>2, <1>5a DEF Tables
<1>7. /\ x.live = S /\ x.text = Orig /\ x.inactive = ia /\ x.global = on
      /\ x.xp = none /\ x.installed = none /\ x.solib = none /\ x.enabled = en /\ x.user = en
      /\ x.addr = ad /\ x.mapped = Addr \ Late
  BY <1>5a
<1>8. Intact(x)
  BY <1>3, <1>6, <1>7, QuietIntact
<1>9. OneEach(x)
  BY <1>4, <1>7 DEF OneEach
<1>10. Ordered(x)
  <2> SUFFICES ASSUME NEW R \in SUBSET x.live, R # {}, \A b, c \in R : x.addr[b] = x.addr[c]
               PROVE  /\ \E b \in R : \A c \in R \ {b} : <<b, c>> \in x.before
                      /\ \E b \in R : \A c \in R \ {b} : <<c, b>> \in x.before
    BY DEF Ordered
  <2>1. PICK b \in R : TRUE
    OBVIOUS
  <2>2. R = {b}
    BY <1>9 DEF OneEach
  <2> QED BY <2>2
<1>11. Begun(x, S, where, off, on)
  BY <1>3, <1>4, <1>7, <1>8, <1>9, <1>10 DEF Begun
<1> QED BY <1>11 DEF x

-----------------------------------------------------------------------------
(* One breakpoint in and out of the text. *)

(* install_breakpoint marks one breakpoint, and writes its trap when it is *)
(* enabled; without force one that is disabled for the user is left alone. *)
LEMMA InstallFields ==
  ASSUME NEW x \in Tables, NEW b \in Bp, NEW force \in BOOLEAN
  PROVE  LET y == install_breakpoint(x, b, force)
             in == (force \/ ~UserDisabled(x, b)) /\ x.enabled[b]
         IN  /\ y \in Tables /\ SameList(x, y) /\ y.enabled = x.enabled
             /\ in => y.xp[b] /\ y.installed[b]
             /\ ~in => y.xp = x.xp /\ y.text = x.text /\ y.code = x.code
             /\ y.installed[b] => x.installed[b] \/ force \/ ~UserDisabled(x, b)
             /\ \A c \in Bp \ {b} : y.xp[c] = x.xp[c] /\ y.installed[c] = x.installed[c]
             /\ in /\ x.addr[b] \in x.mapped =>
                  /\ y.text = [x.text EXCEPT ![x.addr[b]] = BPT]
                  /\ y.code = [x.code EXCEPT ![b] = x.text[x.addr[b]]]
             /\ in /\ x.addr[b] \notin x.mapped => y.text = x.text /\ y.code = x.code
<1> DEFINE y == install_breakpoint(x, b, force)
           in == (force \/ ~UserDisabled(x, b)) /\ x.enabled[b]
<1>a. x.addr[b] \in Addr /\ BPT \in Code /\ x.text[x.addr[b]] \in Code
  BY TableTypes, NoTypes
<1>1. CASE ~force /\ UserDisabled(x, b)
  <2>1. y = x /\ ~in
    BY <1>1 DEF install_breakpoint
  <2> QED BY <1>1, <2>1 DEF SameList
<1>2. CASE (force \/ ~UserDisabled(x, b)) /\ ~x.enabled[b]
  <2>1. y = [x EXCEPT !.installed[b] = TRUE] /\ ~in
    BY <1>2 DEF install_breakpoint
  <2> HIDE DEF y
  <2>2. /\ y \in Tables /\ y.live = x.live /\ y.before = x.before /\ y.addr = x.addr
        /\ y.user = x.user /\ y.inactive = x.inactive /\ y.solib = x.solib
        /\ y.global = x.global /\ y.mapped = x.mapped /\ y.enabled = x.enabled
        /\ y.xp = x.xp /\ y.text = x.text /\ y.code = x.code
        /\ y.installed = [x.installed EXCEPT ![b] = TRUE]
    BY <2>1 DEF Tables
  <2>3. \A c \in Bp \ {b} : y.installed[c] = x.installed[c]
    BY <2>2, TableTypes
  <2> QED BY <1>2, <2>1, <2>2, <2>3 DEF SameList, y
<1>3. CASE in /\ x.addr[b] \notin x.mapped
  <2>1. y = [x EXCEPT !.xp[b] = TRUE, !.installed[b] = TRUE]
    BY <1>3 DEF install_breakpoint, TswapIn
  <2> HIDE DEF y
  <2>2. /\ y \in Tables /\ y.live = x.live /\ y.before = x.before /\ y.addr = x.addr
        /\ y.user = x.user /\ y.inactive = x.inactive /\ y.solib = x.solib
        /\ y.global = x.global /\ y.mapped = x.mapped /\ y.enabled = x.enabled
        /\ y.text = x.text /\ y.code = x.code
        /\ y.xp = [x.xp EXCEPT ![b] = TRUE]
        /\ y.installed = [x.installed EXCEPT ![b] = TRUE]
    BY <2>1 DEF Tables
  <2>3. /\ y.xp[b] /\ y.installed[b]
        /\ \A c \in Bp \ {b} : y.xp[c] = x.xp[c] /\ y.installed[c] = x.installed[c]
    BY <2>2, TableTypes
  <2> QED BY <1>3, <2>2, <2>3 DEF SameList, y
<1>4. CASE in /\ x.addr[b] \in x.mapped
  <2>1. y = [x EXCEPT !.code[b] = x.text[x.addr[b]], !.text[x.addr[b]] = BPT,
                      !.xp[b] = TRUE, !.installed[b] = TRUE]
    BY <1>4 DEF install_breakpoint, TswapIn
  <2> HIDE DEF y
  <2>2. /\ y \in Tables /\ y.live = x.live /\ y.before = x.before /\ y.addr = x.addr
        /\ y.user = x.user /\ y.inactive = x.inactive /\ y.solib = x.solib
        /\ y.global = x.global /\ y.mapped = x.mapped /\ y.enabled = x.enabled
        /\ y.text = [x.text EXCEPT ![x.addr[b]] = BPT]
        /\ y.code = [x.code EXCEPT ![b] = x.text[x.addr[b]]]
        /\ y.xp = [x.xp EXCEPT ![b] = TRUE]
        /\ y.installed = [x.installed EXCEPT ![b] = TRUE]
    BY <1>a, <2>1 DEF Tables
  <2>3. /\ y.xp[b] /\ y.installed[b]
        /\ \A c \in Bp \ {b} : y.xp[c] = x.xp[c] /\ y.installed[c] = x.installed[c]
    BY <2>2, TableTypes
  <2> QED BY <1>4, <2>2, <2>3 DEF SameList, y
<1> QED BY <1>1, <1>2, <1>3, <1>4

(* Where no trap is, the one written saves the program's opcode. *)
LEMMA InstallIntact ==
  ASSUME NEW x, Intact(x), NEW b \in x.live, NEW force \in BOOLEAN,
         \A c \in Bp : x.xp[c] => x.addr[c] # x.addr[b]
  PROVE  Intact(install_breakpoint(x, b, force))
<1> DEFINE y == install_breakpoint(x, b, force)
           in == (force \/ ~UserDisabled(x, b)) /\ x.enabled[b]
<1>0. x \in Tables /\ b \in Bp /\ x.addr[b] \in Addr
  BY DEF Intact, Tables
<1>1. /\ y \in Tables /\ SameList(x, y) /\ y.enabled = x.enabled
      /\ in => y.xp[b] /\ y.installed[b]
      /\ ~in => y.xp = x.xp /\ y.text = x.text /\ y.code = x.code
      /\ \A c \in Bp \ {b} : y.xp[c] = x.xp[c] /\ y.installed[c] = x.installed[c]
      /\ in /\ x.addr[b] \in x.mapped =>
           /\ y.text = [x.text EXCEPT ![x.addr[b]] = BPT]
           /\ y.code = [x.code EXCEPT ![b] = x.text[x.addr[b]]]
      /\ in /\ x.addr[b] \notin x.mapped => y.text = x.text /\ y.code = x.code
  BY <1>0, InstallFields
<1> HIDE DEF y
<1>2. ~x.xp[b]
  BY <1>0
<1>3. CASE ~in
  <2>1. MarksAgree(y)
    BY <1>0, <1>1, <1>2, <1>3 DEF Intact, MarksAgree, SameList
  <2>2. TrapsApart(y) /\ TextAgrees(y)
    BY <1>1, <1>3 DEF Intact, TrapsApart, TextAgrees, SameList
  <2> QED BY <1>1, <2>1, <2>2 DEF Intact, y
<1>4. CASE in
  <2>1. MarksAgree(y)
    BY <1>0, <1>1, <1>4 DEF Intact, MarksAgree, SameList
  <2>2. TrapsApart(y)
    BY <1>0, <1>1, <1>4 DEF Intact, TrapsApart, SameList
  <2>3. TextAgrees(y)
    <3> SUFFICES /\ \A c \in Bp : y.xp[c] /\ x.addr[c] \notin Late
                      => y.text[x.addr[c]] = BPT /\ y.code[c] = Orig[x.addr[c]]
                 /\ \A a \in Addr \ Late : (\A c \in Bp : y.xp[c] => x.addr[c] # a)
                      => y.text[a] = Orig[a]
      BY <1>1 DEF Intact, TextAgrees, SameList
    <3>a. /\ Addr \ Late \subseteq x.mapped
          /\ \A c \in Bp : x.xp[c] /\ x.addr[c] \notin Late
               => x.text[x.addr[c]] = BPT /\ x.code[c] = Orig[x.addr[c]]
          /\ \A a \in Addr \ Late : (\A c \in Bp : x.xp[c] => x.addr[c] # a) => x.text[a] = Orig[a]
      BY DEF Intact, TextAgrees
    <3>b. x.text \in [Addr -> Code] /\ x.code \in [Bp -> Code] /\ x.addr \in [Bp -> Addr]
      BY <1>0, TableTypes
    <3>1. ASSUME NEW c \in Bp, y.xp[c], x.addr[c] \notin Late
          PROVE  y.text[x.addr[c]] = BPT /\ y.code[c] = Orig[x.addr[c]]
      <4>1. CASE c = b
        BY <1>0, <1>1, <1>4, <3>1, <3>a, <3>b, <4>1
      <4>2. CASE c # b
        BY <1>0, <1>1, <1>4, <3>1, <3>a, <3>b, <4>2
      <4> QED BY <4>1, <4>2
    <3>2. ASSUME NEW a \in Addr \ Late, \A c \in Bp : y.xp[c] => x.addr[c] # a
          PROVE  y.text[a] = Orig[a]
      <4>1. x.addr[b] # a /\ \A c \in Bp : x.xp[c] => x.addr[c] # a
        BY <1>0, <1>1, <1>2, <1>4, <3>2
      <4> QED BY <1>1, <1>4, <3>a, <3>b, <4>1
    <3> QED BY <3>1, <3>2
  <2> QED BY <1>1, <2>1, <2>2, <2>3 DEF Intact, y
<1> QED BY <1>3, <1>4

(* uninstall_breakpoint writes the saved opcode back. *)
LEMMA UninstallFields ==
  ASSUME NEW x \in Tables, NEW b \in Bp
  PROVE  LET y == uninstall_breakpoint(x, b)
             out == x.enabled[b] /\ x.xp[b]
         IN  /\ y \in Tables /\ SameList(x, y) /\ y.enabled = x.enabled /\ y.code = x.code
             /\ ~y.installed[b] /\ (out => ~y.xp[b])
             /\ ~out => y.xp = x.xp /\ y.text = x.text
             /\ \A c \in Bp \ {b} : y.xp[c] = x.xp[c] /\ y.installed[c] = x.installed[c]
             /\ out /\ x.addr[b] \in x.mapped => y.text = [x.text EXCEPT ![x.addr[b]] = x.code[b]]
             /\ out /\ x.addr[b] \notin x.mapped => y.text = x.text
<1> DEFINE y == uninstall_breakpoint(x, b)
           out == x.enabled[b] /\ x.xp[b]
<1>a. x.addr[b] \in Addr /\ x.code[b] \in Code
  BY TableTypes
<1>1. CASE ~out
  <2>1. y = [x EXCEPT !.installed[b] = FALSE]
    BY <1>1 DEF uninstall_breakpoint
  <2> HIDE DEF y
  <2>2. /\ y \in Tables /\ y.live = x.live /\ y.before = x.before /\ y.addr = x.addr
        /\ y.user = x.user /\ y.inactive = x.inactive /\ y.solib = x.solib
        /\ y.global = x.global /\ y.mapped = x.mapped /\ y.enabled = x.enabled
        /\ y.xp = x.xp /\ y.text = x.text /\ y.code = x.code
        /\ y.installed = [x.installed EXCEPT ![b] = FALSE]
    BY <2>1 DEF Tables
  <2>3. ~y.installed[b] /\ \A c \in Bp \ {b} : y.installed[c] = x.installed[c]
    BY <2>2, TableTypes
  <2> QED BY <1>1, <2>2, <2>3 DEF SameList, y
<1>2. CASE out /\ x.addr[b] \notin x.mapped
  <2>1. y = [x EXCEPT !.xp[b] = FALSE, !.installed[b] = FALSE]
    BY <1>2 DEF uninstall_breakpoint, TswapOut
  <2> HIDE DEF y
  <2>2. /\ y \in Tables /\ y.live = x.live /\ y.before = x.before /\ y.addr = x.addr
        /\ y.user = x.user /\ y.inactive = x.inactive /\ y.solib = x.solib
        /\ y.global = x.global /\ y.mapped = x.mapped /\ y.enabled = x.enabled
        /\ y.text = x.text /\ y.code = x.code
        /\ y.xp = [x.xp EXCEPT ![b] = FALSE]
        /\ y.installed = [x.installed EXCEPT ![b] = FALSE]
    BY <2>1 DEF Tables
  <2>3. /\ ~y.xp[b] /\ ~y.installed[b]
        /\ \A c \in Bp \ {b} : y.xp[c] = x.xp[c] /\ y.installed[c] = x.installed[c]
    BY <2>2, TableTypes
  <2> QED BY <1>2, <2>2, <2>3 DEF SameList, y
<1>3. CASE out /\ x.addr[b] \in x.mapped
  <2>1. y = [x EXCEPT !.text[x.addr[b]] = x.code[b], !.xp[b] = FALSE, !.installed[b] = FALSE]
    BY <1>3 DEF uninstall_breakpoint, TswapOut
  <2> HIDE DEF y
  <2>2. /\ y \in Tables /\ y.live = x.live /\ y.before = x.before /\ y.addr = x.addr
        /\ y.user = x.user /\ y.inactive = x.inactive /\ y.solib = x.solib
        /\ y.global = x.global /\ y.mapped = x.mapped /\ y.enabled = x.enabled
        /\ y.text = [x.text EXCEPT ![x.addr[b]] = x.code[b]] /\ y.code = x.code
        /\ y.xp = [x.xp EXCEPT ![b] = FALSE]
        /\ y.installed = [x.installed EXCEPT ![b] = FALSE]
    BY <1>a, <2>1 DEF Tables
  <2>3. /\ ~y.xp[b] /\ ~y.installed[b]
        /\ \A c \in Bp \ {b} : y.xp[c] = x.xp[c] /\ y.installed[c] = x.installed[c]
    BY <2>2, TableTypes
  <2> QED BY <1>3, <2>2, <2>3 DEF SameList, y
<1> QED BY <1>1, <1>2, <1>3

(* With marks that agree the trap is gone and everything else is as it was. *)
LEMMA UninstallIntact ==
  ASSUME NEW x, Intact(x), NEW b \in x.live
  PROVE  LET y == uninstall_breakpoint(x, b)
         IN  Intact(y) /\ ~y.xp[b]
<1> DEFINE y == uninstall_breakpoint(x, b)
           out == x.enabled[b] /\ x.xp[b]
<1>0. x \in Tables /\ b \in Bp /\ x.addr[b] \in Addr
  BY DEF Intact, Tables
<1>1. /\ y \in Tables /\ SameList(x, y) /\ y.enabled = x.enabled /\ y.code = x.code
      /\ ~y.installed[b] /\ (out => ~y.xp[b])
      /\ ~out => y.xp = x.xp /\ y.text = x.text
      /\ \A c \in Bp \ {b} : y.xp[c] = x.xp[c] /\ y.installed[c] = x.installed[c]
      /\ out /\ x.addr[b] \in x.mapped => y.text = [x.text EXCEPT ![x.addr[b]] = x.code[b]]
      /\ out /\ x.addr[b] \notin x.mapped => y.text = x.text
  BY <1>0, UninstallFields
<1> HIDE DEF y
<1>2. x.xp[b] => x.enabled[b]
  BY <1>0 DEF Intact, MarksAgree
<1>3. ~y.xp[b]
  BY <1>1, <1>2
<1>4. MarksAgree(y)
  BY <1>0, <1>1, <1>3 DEF Intact, MarksAgree, SameList
<1>5. TrapsApart(y)
  BY <1>0, <1>1, <1>3 DEF Intact, TrapsApart, SameList
<1>6. CASE ~out
  BY <1>1, <1>3, <1>4, <1>5, <1>6 DEF Intact, TextAgrees, SameList, y
<1>7. CASE out
  <2>a. /\ Addr \ Late \subseteq x.mapped
        /\ \A c \in Bp : x.xp[c] /\ x.addr[c] \notin Late
             => x.text[x.addr[c]] = BPT /\ x.code[c] = Orig[x.addr[c]]
        /\ \A a \in Addr \ Late : (\A c \in Bp : x.xp[c] => x.addr[c] # a) => x.text[a] = Orig[a]
    BY DEF Intact, TextAgrees
  <2>b. x.text \in [Addr -> Code] /\ x.addr \in [Bp -> Addr]
    BY <1>0, TableTypes
  <2>c. \A c \in Bp \ {b} : x.xp[c] => x.addr[c] # x.addr[b]
    BY <1>0, <1>7 DEF Intact, TrapsApart
  <2> SUFFICES /\ \A c \in Bp : y.xp[c] /\ x.addr[c] \notin Late
                    => y.text[x.addr[c]] = BPT /\ x.code[c] = Orig[x.addr[c]]
               /\ \A a \in Addr \ Late : (\A c \in Bp : y.xp[c] => x.addr[c] # a)
                    => y.text[a] = Orig[a]
    BY <1>1, <1>3, <1>4, <1>5 DEF Intact, TextAgrees, SameList, y
  <2>1. ASSUME NEW c \in Bp, y.xp[c], x.addr[c] \notin Late
        PROVE  y.text[x.addr[c]] = BPT /\ x.code[c] = Orig[x.addr[c]]
    <3>1. c # b /\ x.xp[c] /\ x.addr[c] # x.addr[b]
      BY <1>1, <1>3, <2>1, <2>c
    <3> QED BY <1>1, <1>7, <2>1, <2>a, <2>b, <3>1
  <2>2. ASSUME NEW a \in Addr \ Late, \A c \in Bp : y.xp[c] => x.addr[c] # a
        PROVE  y.text[a] = Orig[a]
    <3>1. CASE a = x.addr[b]
      BY <1>0, <1>1, <1>7, <2>a, <2>b, <3>1
    <3>2. CASE a # x.addr[b]
      <4>1. \A c \in Bp : x.xp[c] => x.addr[c] # a
        BY <1>1, <2>2, <3>2
      <4> QED BY <1>1, <1>7, <2>a, <2>b, <3>2, <4>1
    <3> QED BY <3>1, <3>2
  <2> QED BY <2>1, <2>2
<1> QED BY <1>6, <1>7

-----------------------------------------------------------------------------
(* Breakpoints of the list. *)

(* What installing leaves alone is enough for order and addresses. *)
LEMMA SameListKeeps ==
  ASSUME NEW x, NEW y, SameList(x, y)
  PROVE  /\ OneEach(x) => OneEach(y)
         /\ Ordered(x) => Ordered(y)
         /\ \A b \in Bp : UserDisabled(y, b) = UserDisabled(x, b)
         /\ \A a \in Addr : dx_addr_to_breakpoint(y, a) = dx_addr_to_breakpoint(x, a)
BY DEF SameList, OneEach, Ordered, UserDisabled, dx_addr_to_breakpoint

(* dx_add_breakpoint links the breakpoint in, first and enabled. *)
LEMMA AddFields ==
  ASSUME NEW x \in Tables, NEW b \in Bp, b \notin x.live, NEW a \in Addr, NEW junk \in Code,
         NEW owner \in {"user", "solib", "none"}
  PROVE  LET y == dx_add_breakpoint(x, b, a, junk, owner)
         IN  /\ y \in Tables /\ y.live = x.live \union {b}
             /\ y.before = x.before \union ({b} \X x.live)
             /\ y.text = x.text /\ y.mapped = x.mapped /\ y.global = x.global
             /\ ~y.xp[b] /\ ~y.installed[b] /\ y.enabled[b] /\ y.addr[b] = a
             /\ ~y.inactive[b] /\ (y.user[b] <=> owner = "user") /\ (y.solib[b] <=> owner = "solib")
             /\ \A c \in Bp \ {b} :
                  /\ y.xp[c] = x.xp[c] /\ y.installed[c] = x.installed[c]
                  /\ y.enabled[c] = x.enabled[c] /\ y.addr[c] = x.addr[c] /\ y.code[c] = x.code[c]
                  /\ y.user[c] = x.user[c] /\ y.inactive[c] = x.inactive[c] /\ y.solib[c] = x.solib[c]
<1> DEFINE y == dx_add_breakpoint(x, b, a, junk, owner)
<1>1. /\ y.live = x.live \union {b} /\ y.before = x.before \union ({b} \X x.live)
      /\ y.xp = [x.xp EXCEPT ![b] = FALSE]
      /\ y.installed = [x.installed EXCEPT ![b] = FALSE]
      /\ y.enabled = [x.enabled EXCEPT ![b] = TRUE]
      /\ y.addr = [x.addr EXCEPT ![b] = a] /\ y.code = [x.code EXCEPT ![b] = junk]
      /\ y.user = [x.user EXCEPT ![b] = owner = "user"]
      /\ y.solib = [x.solib EXCEPT ![b] = owner = "solib"]
      /\ y.inactive = [x.inactive EXCEPT ![b] = FALSE]
      /\ y.global = x.global /\ y.text = x.text /\ y.mapped = x.mapped
  BY DEF dx_add_breakpoint, SetFields
<1>2. y \in Tables
  <2>1. x.before \union ({b} \X x.live) \in SUBSET (Bp \X Bp)
    BY DEF Tables
  <2> QED BY <2>1 DEF dx_add_breakpoint, SetFields, Tables
<1> HIDE DEF y
<1>3. ~y.xp[b] /\ ~y.installed[b] /\ y.enabled[b] /\ y.addr[b] = a /\ ~y.inactive[b]
  BY <1>1, TableTypes
<1>5. (y.user[b] <=> owner = "user") /\ (y.solib[b] <=> owner = "solib")
  <2>1. x.user \in [Bp -> BOOLEAN] /\ x.solib \in [Bp -> BOOLEAN]
    BY TableTypes
  <2> QED BY <1>1, <2>1, ZenonT(60)
<1>4. ASSUME NEW c \in Bp \ {b}
      PROVE  /\ y.xp[c] = x.xp[c] /\ y.installed[c] = x.installed[c]
             /\ y.enabled[c] = x.enabled[c] /\ y.addr[c] = x.addr[c] /\ y.code[c] = x.code[c]
             /\ y.user[c] = x.user[c] /\ y.inactive[c] = x.inactive[c] /\ y.solib[c] = x.solib[c]
  BY <1>1, <1>4, TableTypes
<1> QED BY <1>1, <1>2, <1>3, <1>4, <1>5 DEF y

(* A breakpoint just added is not in the text. *)
LEMMA AddIntact ==
  ASSUME NEW x, Intact(x), NEW b \in Bp, b \notin x.live, NEW a \in Addr, NEW junk \in Code,
         NEW owner \in {"user", "solib", "none"}
  PROVE  LET y == dx_add_breakpoint(x, b, a, junk, owner)
         IN  /\ Intact(y)
             /\ OneEach(x) /\ dx_addr_to_breakpoint(x, a) = {} => OneEach(y)
<1> DEFINE y == dx_add_breakpoint(x, b, a, junk, owner)
<1>0. x \in Tables /\ x.live \subseteq Bp
  BY DEF Intact, Tables
<1>1. /\ y \in Tables /\ y.live = x.live \union {b}
      /\ y.text = x.text /\ y.mapped = x.mapped
      /\ ~y.xp[b] /\ ~y.installed[b] /\ y.addr[b] = a
      /\ \A c \in Bp \ {b} :
           /\ y.xp[c] = x.xp[c] /\ y.installed[c] = x.installed[c]
           /\ y.enabled[c] = x.enabled[c] /\ y.addr[c] = x.addr[c] /\ y.code[c] = x.code[c]
  BY <1>0, AddFields
<1> HIDE DEF y
<1>2. ~x.xp[b] /\ ~x.installed[b]
  BY DEF Intact, MarksAgree
<1>3. MarksAgree(y)
  BY <1>1 DEF Intact, MarksAgree
<1>4. TrapsApart(y)
  BY <1>1 DEF Intact, TrapsApart
<1>5. TextAgrees(y)
  BY <1>1, <1>2 DEF Intact, TextAgrees
<1>6. OneEach(x) /\ dx_addr_to_breakpoint(x, a) = {} => OneEach(y)
  BY <1>0, <1>1 DEF OneEach, dx_addr_to_breakpoint
<1> QED BY <1>1, <1>3, <1>4, <1>5, <1>6 DEF Intact, y

(* The new first of the list keeps it ordered. *)
LEMMA AddOrdered ==
  ASSUME NEW x \in Tables, Ordered(x), NEW b \in Bp, b \notin x.live, NEW a \in Addr,
         NEW junk \in Code, NEW owner \in {"user", "solib", "none"}
  PROVE  Ordered(dx_add_breakpoint(x, b, a, junk, owner))
<1> DEFINE y == dx_add_breakpoint(x, b, a, junk, owner)
<1>1. /\ y.live = x.live \union {b} /\ y.before = x.before \union ({b} \X x.live)
      /\ \A c \in Bp \ {b} : y.addr[c] = x.addr[c]
  BY AddFields
<1> HIDE DEF y
<1> SUFFICES ASSUME NEW S \in SUBSET y.live, S # {}, \A c, d \in S : y.addr[c] = y.addr[d]
             PROVE  /\ \E c \in S : \A d \in S \ {c} : <<c, d>> \in y.before
                    /\ \E c \in S : \A d \in S \ {c} : <<d, c>> \in y.before
  BY DEF Ordered, y
<1> DEFINE R == S \ {b}
<1>2. R \in SUBSET x.live /\ \A c, d \in R : x.addr[c] = x.addr[d]
  BY <1>1, TableTypes
<1>3. CASE R = {}
  <2>1. S = {b}
    BY <1>3
  <2> QED BY <2>1
<1>4. CASE R # {}
  <2>1. PICK f \in R : \A d \in R \ {f} : <<f, d>> \in x.before
    BY <1>2, <1>4 DEF Ordered
  <2>2. PICK l \in R : \A d \in R \ {l} : <<d, l>> \in x.before
    BY <1>2, <1>4 DEF Ordered
  <2>3. \A d \in R : <<b, d>> \in y.before
    BY <1>1, <1>2
  <2>4. CASE b \in S
    <3>1. \A d \in S \ {b} : <<b, d>> \in y.before
      BY <2>3
    <3>2. l \in S /\ \A d \in S \ {l} : <<d, l>> \in y.before
      BY <1>1, <2>2, <2>3
    <3> QED BY <2>4, <3>1, <3>2
  <2>5. CASE b \notin S
    <3>1. R = S
      BY <2>5
    <3> QED BY <1>1, <2>1, <2>2, <3>1
  <2> QED BY <2>4, <2>5
<1> QED BY <1>3, <1>4

(* Unlinking takes one breakpoint out of the list. *)
LEMMA UnlinkFields ==
  ASSUME NEW x \in Tables, NEW b \in Bp
  PROVE  LET y == Unlink(x, b)
         IN  /\ y \in Tables /\ y.live = x.live \ {b}
             /\ y.before = {p \in x.before : p[1] # b /\ p[2] # b}
             /\ y.text = x.text /\ y.mapped = x.mapped /\ y.global = x.global
             /\ ~y.xp[b] /\ ~y.installed[b] /\ ~y.inactive[b] /\ ~y.user[b] /\ ~y.solib[b]
             /\ \A c \in Bp \ {b} :
                  /\ y.xp[c] = x.xp[c] /\ y.installed[c] = x.installed[c]
                  /\ y.enabled[c] = x.enabled[c] /\ y.addr[c] = x.addr[c] /\ y.code[c] = x.code[c]
                  /\ y.user[c] = x.user[c] /\ y.inactive[c] = x.inactive[c] /\ y.solib[c] = x.solib[c]
<1> DEFINE y == Unlink(x, b)
           rest == {p \in x.before : p[1] # b /\ p[2] # b}
<1>1. /\ y.live = x.live \ {b} /\ y.before = rest
      /\ y.xp = [x.xp EXCEPT ![b] = FALSE]
      /\ y.installed = [x.installed EXCEPT ![b] = FALSE]
      /\ y.enabled = [x.enabled EXCEPT ![b] = FALSE]
      /\ y.addr = [x.addr EXCEPT ![b] = NoAddr] /\ y.code = [x.code EXCEPT ![b] = NoCode]
      /\ y.user = [x.user EXCEPT ![b] = FALSE] /\ y.solib = [x.solib EXCEPT ![b] = FALSE]
      /\ y.inactive = [x.inactive EXCEPT ![b] = FALSE]
      /\ y.global = x.global /\ y.text = x.text /\ y.mapped = x.mapped
  BY DEF Unlink, SetFields
<1>2. y \in Tables
  <2>1. rest \in SUBSET (Bp \X Bp)
    BY DEF Tables
  <2> QED BY <2>1, NoTypes DEF Unlink, SetFields, Tables
<1> HIDE DEF y, rest
<1>3. ~y.xp[b] /\ ~y.installed[b] /\ ~y.inactive[b] /\ ~y.user[b] /\ ~y.solib[b]
  BY <1>1, TableTypes
<1>4. ASSUME NEW c \in Bp \ {b}
      PROVE  /\ y.xp[c] = x.xp[c] /\ y.installed[c] = x.installed[c]
             /\ y.enabled[c] = x.enabled[c] /\ y.addr[c] = x.addr[c] /\ y.code[c] = x.code[c]
             /\ y.user[c] = x.user[c] /\ y.inactive[c] = x.inactive[c] /\ y.solib[c] = x.solib[c]
  BY <1>1, <1>4, TableTypes
<1> QED BY <1>1, <1>2, <1>3, <1>4 DEF y, rest

(* dx_remove_breakpoint: gone from the list, the others as they were. *)
LEMMA RemoveFields ==
  ASSUME NEW x \in Tables, NEW b \in Bp
  PROVE  LET y == dx_remove_breakpoint(x, b)
         IN  /\ y \in Tables /\ y.live = x.live \ {b}
             /\ y.before = {p \in x.before : p[1] # b /\ p[2] # b}
             /\ y.mapped = x.mapped /\ y.global = x.global
             /\ ~y.xp[b] /\ ~y.installed[b]
             /\ \A c \in Bp \ {b} :
                  /\ y.xp[c] = x.xp[c] /\ y.installed[c] = x.installed[c]
                  /\ y.enabled[c] = x.enabled[c] /\ y.addr[c] = x.addr[c] /\ y.code[c] = x.code[c]
                  /\ y.user[c] = x.user[c] /\ y.inactive[c] = x.inactive[c] /\ y.solib[c] = x.solib[c]
<1> DEFINE u == IF x.xp[b] THEN uninstall_breakpoint(x, b) ELSE x
           y == Unlink(u, b)
<1>1. dx_remove_breakpoint(x, b) = y
  BY DEF dx_remove_breakpoint
<1>2. /\ u \in Tables /\ SameList(x, u) /\ u.enabled = x.enabled /\ u.code = x.code
      /\ \A c \in Bp \ {b} : u.xp[c] = x.xp[c] /\ u.installed[c] = x.installed[c]
  BY UninstallFields DEF SameList
<1> HIDE DEF u
<1>3. /\ y \in Tables /\ y.live = u.live \ {b}
      /\ y.before = {p \in u.before : p[1] # b /\ p[2] # b}
      /\ y.mapped = u.mapped /\ y.global = u.global
      /\ ~y.xp[b] /\ ~y.installed[b]
      /\ \A c \in Bp \ {b} :
           /\ y.xp[c] = u.xp[c] /\ y.installed[c] = u.installed[c]
           /\ y.enabled[c] = u.enabled[c] /\ y.addr[c] = u.addr[c] /\ y.code[c] = u.code[c]
           /\ y.user[c] = u.user[c] /\ y.inactive[c] = u.inactive[c] /\ y.solib[c] = u.solib[c]
  BY <1>2, UnlinkFields
<1> HIDE DEF y
<1>4. y.before = {p \in x.before : p[1] # b /\ p[2] # b}
  BY <1>2, <1>3 DEF SameList
<1> QED BY <1>1, <1>2, <1>3, <1>4 DEF SameList

(* The trap is taken out of the text before. *)
LEMMA RemoveIntact ==
  ASSUME NEW x, Intact(x), NEW b \in x.live
  PROVE  LET y == dx_remove_breakpoint(x, b)
         IN  Intact(y) /\ (OneEach(x) => OneEach(y))
<1> DEFINE u == IF x.xp[b] THEN uninstall_breakpoint(x, b) ELSE x
           y == Unlink(u, b)
<1>0. x \in Tables /\ b \in Bp /\ x.live \subseteq Bp
  BY DEF Intact, Tables
<1>1. dx_remove_breakpoint(x, b) = y
  BY DEF dx_remove_breakpoint
<1>2. Intact(u) /\ ~u.xp[b] /\ SameList(x, u)
  <2>1. CASE x.xp[b]
    BY <1>0, <2>1, UninstallIntact, UninstallFields
  <2>2. CASE ~x.xp[b]
    BY <2>2 DEF SameList
  <2> QED BY <2>1, <2>2
<1> HIDE DEF u
<1>3. /\ y \in Tables /\ y.live = u.live \ {b}
      /\ y.text = u.text /\ y.mapped = u.mapped
      /\ ~y.xp[b] /\ ~y.installed[b]
      /\ \A c \in Bp \ {b} :
           /\ y.xp[c] = u.xp[c] /\ y.installed[c] = u.installed[c]
           /\ y.enabled[c] = u.enabled[c] /\ y.addr[c] = u.addr[c] /\ y.code[c] = u.code[c]
  BY <1>0, <1>2, UnlinkFields DEF Intact
<1> HIDE DEF y
<1>4. MarksAgree(y)
  BY <1>0, <1>2, <1>3 DEF Intact, MarksAgree
<1>5. TrapsApart(y)
  BY <1>2, <1>3 DEF Intact, TrapsApart
<1>6. TextAgrees(y)
  BY <1>2, <1>3 DEF Intact, TextAgrees
<1>7. OneEach(x) => OneEach(y)
  BY <1>0, <1>2, <1>3 DEF OneEach, SameList
<1> QED BY <1>1, <1>3, <1>4, <1>5, <1>6, <1>7 DEF Intact

(* What is left of an ordered list is ordered. *)
LEMMA RemoveOrdered ==
  ASSUME NEW x \in Tables, Ordered(x), NEW b \in Bp
  PROVE  Ordered(dx_remove_breakpoint(x, b))
<1> DEFINE y == dx_remove_breakpoint(x, b)
<1>1. /\ y.live = x.live \ {b}
      /\ y.before = {p \in x.before : p[1] # b /\ p[2] # b}
      /\ \A c \in Bp \ {b} : y.addr[c] = x.addr[c]
  BY RemoveFields
<1> HIDE DEF y
<1> SUFFICES ASSUME NEW S \in SUBSET y.live, S # {}, \A c, d \in S : y.addr[c] = y.addr[d]
             PROVE  /\ \E c \in S : \A d \in S \ {c} : <<c, d>> \in y.before
                    /\ \E c \in S : \A d \in S \ {c} : <<d, c>> \in y.before
  BY DEF Ordered, y
<1>2. b \notin S /\ S \in SUBSET x.live /\ \A c, d \in S : x.addr[c] = x.addr[d]
  BY <1>1, TableTypes
<1>3. /\ \E c \in S : \A d \in S \ {c} : <<c, d>> \in x.before
      /\ \E c \in S : \A d \in S \ {c} : <<d, c>> \in x.before
  BY <1>2 DEF Ordered
<1>4. \A c, d \in S : <<c, d>> \in x.before => <<c, d>> \in y.before
  BY <1>1, <1>2
<1> QED BY <1>3, <1>4

-----------------------------------------------------------------------------
(* The loops over the list. *)

(* Writing the traps of a set of breakpoints. *)
LEMMA SwapInFields ==
  ASSUME NEW x \in Tables, NEW S \in SUBSET Bp
  PROVE  LET y == SwapInSet(x, S)
         IN  /\ y \in Tables /\ SameList(x, y)
             /\ y.installed = x.installed /\ y.enabled = x.enabled
             /\ \A b \in Bp : y.xp[b] <=> x.xp[b] \/ b \in S
<1> DEFINE y == SwapInSet(x, S)
           Hit == {b \in S : x.addr[b] \in x.mapped}
           newcode == [b \in Bp |->
                         IF b \notin Hit THEN x.code[b]
                         ELSE IF \E c \in Hit \ {b} : x.addr[c] = x.addr[b] /\ <<c, b>> \in x.before
                              THEN BPT ELSE x.text[x.addr[b]]]
           newtext == [a \in Addr |-> IF \E b \in Hit : x.addr[b] = a THEN BPT ELSE x.text[a]]
           newxp == [b \in Bp |-> x.xp[b] \/ b \in S]
<1>1. newcode \in [Bp -> Code] /\ newtext \in [Addr -> Code] /\ newxp \in [Bp -> BOOLEAN]
  BY TableTypes, NoTypes
<1>2. y = [x EXCEPT !.code = newcode, !.text = newtext, !.xp = newxp]
  BY DEF SwapInSet
<1>3. \A b \in Bp : newxp[b] <=> x.xp[b] \/ b \in S
  OBVIOUS
<1> HIDE DEF newcode, newtext, newxp, y
<1>4. /\ y \in Tables /\ y.live = x.live /\ y.before = x.before /\ y.addr = x.addr
      /\ y.user = x.user /\ y.inactive = x.inactive /\ y.solib = x.solib
      /\ y.global = x.global /\ y.mapped = x.mapped /\ y.enabled = x.enabled
      /\ y.installed = x.installed /\ y.xp = newxp
  BY <1>1, <1>2 DEF Tables
<1> QED BY <1>3, <1>4 DEF SameList, y

(* When each of them has an address of its own, free of traps, each saves  *)
(* the program's opcode.                                                   *)
LEMMA SwapInIntact ==
  ASSUME NEW x, Intact(x), NEW S \in SUBSET Bp,
         \A b, c \in S : x.addr[b] = x.addr[c] => b = c,
         \A b \in S, c \in Bp : x.xp[c] => x.addr[c] # x.addr[b]
  PROVE  TrapsApart(SwapInSet(x, S)) /\ TextAgrees(SwapInSet(x, S))
<1> DEFINE y == SwapInSet(x, S)
           Hit == {b \in S : x.addr[b] \in x.mapped}
           newcode == [b \in Bp |->
                         IF b \notin Hit THEN x.code[b]
                         ELSE IF \E c \in Hit \ {b} : x.addr[c] = x.addr[b] /\ <<c, b>> \in x.before
                              THEN BPT ELSE x.text[x.addr[b]]]
           newtext == [a \in Addr |-> IF \E b \in Hit : x.addr[b] = a THEN BPT ELSE x.text[a]]
<1>0. x \in Tables
  BY DEF Intact
<1>1. /\ Addr \ Late \subseteq x.mapped
      /\ \A b \in Bp : x.xp[b] /\ x.addr[b] \notin Late
           => x.text[x.addr[b]] = BPT /\ x.code[b] = Orig[x.addr[b]]
      /\ \A a \in Addr \ Late : (\A b \in Bp : x.xp[b] => x.addr[b] # a) => x.text[a] = Orig[a]
  BY DEF Intact, TextAgrees
<1>2. y.code = newcode /\ y.text = newtext
  BY <1>0 DEF SwapInSet, Tables
<1>3. /\ SameList(x, y) /\ \A b \in Bp : y.xp[b] <=> x.xp[b] \/ b \in S
  BY <1>0, SwapInFields
<1>4. x.addr \in [Bp -> Addr]
  BY <1>0, TableTypes
<1>5. \A b \in S : x.addr[b] \notin Late => b \in Hit /\ x.text[x.addr[b]] = Orig[x.addr[b]]
  BY <1>1, <1>4
<1>6. \A b \in Hit : newcode[b] = x.text[x.addr[b]]
  OBVIOUS
<1>7. \A b \in Bp : b \notin Hit => newcode[b] = x.code[b]
  OBVIOUS
<1>8. \A b \in S : x.addr[b] \notin Late => newtext[x.addr[b]] = BPT
  BY <1>4, <1>5
<1>9. \A a \in Addr : (\A b \in S : x.addr[b] # a) => newtext[a] = x.text[a]
  OBVIOUS
<1>9a. \A a \in Addr : newtext[a] = BPT \/ newtext[a] = x.text[a]
  OBVIOUS
<1> HIDE DEF newcode, newtext, y, Hit
<1>10. TrapsApart(y)
  BY <1>3, <1>4 DEF Intact, TrapsApart, SameList
<1>11. ASSUME NEW b \in Bp, y.xp[b], x.addr[b] \notin Late
       PROVE  newtext[x.addr[b]] = BPT /\ newcode[b] = Orig[x.addr[b]]
  <2>1. CASE b \in S
    BY <1>5, <1>6, <1>8, <1>11, <2>1
  <2>2. CASE b \notin S
    <3>1. x.xp[b] /\ b \notin Hit
      BY <1>3, <1>11, <2>2 DEF Hit
    <3>2. x.text[x.addr[b]] = BPT /\ x.code[b] = Orig[x.addr[b]] /\ x.addr[b] \in Addr
      BY <1>1, <1>4, <1>11, <3>1
    <3> QED BY <1>7, <1>9a, <3>1, <3>2
  <2> QED BY <2>1, <2>2
<1>12. ASSUME NEW a \in Addr \ Late, \A b \in Bp : y.xp[b] => x.addr[b] # a
       PROVE  newtext[a] = Orig[a]
  <2>1. (\A b \in Bp : x.xp[b] => x.addr[b] # a) /\ (\A b \in S : x.addr[b] # a)
    BY <1>3, <1>12
  <2> QED BY <1>1, <1>9, <2>1
<1>13. TextAgrees(y)
  BY <1>1, <1>2, <1>3, <1>11, <1>12 DEF TextAgrees, SameList
<1> QED BY <1>10, <1>13 DEF y

(* install_all_breakpoints puts in every breakpoint that is enabled. *)
LEMMA InstallAllFields ==
  ASSUME NEW x \in Tables
  PROVE  LET y == install_all_breakpoints(x)
             Todo == {b \in x.live : ~x.xp[b] /\ ~UserDisabled(x, b)}
         IN  /\ y \in Tables /\ SameList(x, y) /\ y.enabled = x.enabled
             /\ y.text = SwapInSet(x, {b \in Todo : x.enabled[b]}).text
             /\ y.code = SwapInSet(x, {b \in Todo : x.enabled[b]}).code
             /\ \A b \in Bp : y.xp[b] <=> x.xp[b] \/ (b \in Todo /\ x.enabled[b])
             /\ \A b \in Bp : y.installed[b] <=> x.installed[b] \/ b \in Todo
<1> DEFINE Todo == {b \in x.live : ~x.xp[b] /\ ~UserDisabled(x, b)}
           S == {b \in Todo : x.enabled[b]}
           w == SwapInSet(x, S)
           f == [b \in Bp |-> x.installed[b] \/ b \in Todo]
           y == install_all_breakpoints(x)
<1>1. /\ w \in Tables /\ SameList(x, w) /\ w.enabled = x.enabled
      /\ \A b \in Bp : w.xp[b] <=> x.xp[b] \/ b \in S
  <2>1. S \in SUBSET Bp
    BY TableTypes
  <2> HIDE DEF S
  <2> QED BY <2>1, SwapInFields
<1>2. w.installed = x.installed
  <2>1. S \in SUBSET Bp
    BY TableTypes
  <2> HIDE DEF S
  <2> QED BY <2>1, SwapInFields
<1>3. y = [w EXCEPT !.installed = f]
  BY DEF install_all_breakpoints
<1>4. f \in [Bp -> BOOLEAN] /\ \A b \in Bp : f[b] <=> x.installed[b] \/ b \in Todo
  BY TableTypes
<1> HIDE DEF w, f, y
<1>5. /\ y \in Tables /\ y.live = w.live /\ y.before = w.before /\ y.addr = w.addr
      /\ y.user = w.user /\ y.inactive = w.inactive /\ y.solib = w.solib
      /\ y.global = w.global /\ y.mapped = w.mapped /\ y.enabled = w.enabled
      /\ y.installed = f /\ y.xp = w.xp /\ y.text = w.text /\ y.code = w.code
  BY <1>1, <1>3, <1>4 DEF Tables
<1> QED BY <1>1, <1>4, <1>5 DEF SameList, w, y

(* With one breakpoint at an address each saves the program's opcode. *)
LEMMA InstallAllIntact ==
  ASSUME NEW x, Intact(x), OneEach(x)
  PROVE  Intact(install_all_breakpoints(x))
<1> DEFINE y == install_all_breakpoints(x)
           Todo == {b \in x.live : ~x.xp[b] /\ ~UserDisabled(x, b)}
           S == {b \in Todo : x.enabled[b]}
           w == SwapInSet(x, S)
<1>0. x \in Tables /\ x.live \subseteq Bp
  BY DEF Intact, Tables
<1>1. /\ y \in Tables /\ SameList(x, y) /\ y.enabled = x.enabled
      /\ y.text = w.text /\ y.code = w.code
      /\ \A b \in Bp : y.xp[b] <=> x.xp[b] \/ (b \in Todo /\ x.enabled[b])
      /\ \A b \in Bp : y.installed[b] <=> x.installed[b] \/ b \in Todo
  BY <1>0, InstallAllFields
<1>2. /\ S \in SUBSET Bp
      /\ \A b, c \in S : x.addr[b] = x.addr[c] => b = c
      /\ \A b \in S, c \in Bp : x.xp[c] => x.addr[c] # x.addr[b]
  BY <1>0 DEF Intact, MarksAgree, OneEach
<1>3. \A b \in Bp : b \in S <=> b \in Todo /\ x.enabled[b]
  OBVIOUS
<1> HIDE DEF S
<1>4. /\ TrapsApart(w) /\ TextAgrees(w) /\ SameList(x, w)
      /\ \A b \in Bp : w.xp[b] <=> x.xp[b] \/ b \in S
  BY <1>0, <1>2, SwapInIntact, SwapInFields
<1> HIDE DEF w, y
<1>5. \A b \in Bp : y.xp[b] <=> w.xp[b]
  BY <1>1, <1>3, <1>4
<1>6. TrapsApart(y) /\ TextAgrees(y)
  BY <1>1, <1>4, <1>5 DEF TrapsApart, TextAgrees, SameList
<1>7. MarksAgree(y)
  BY <1>1 DEF Intact, MarksAgree, SameList
<1> QED BY <1>1, <1>6, <1>7 DEF Intact, y

(* Breakpoints of S at one address have a last one. *)
LastAt(x, S) ==
  \A Q \in SUBSET S : Q # {} /\ (\A b, c \in Q : x.addr[b] = x.addr[c])
    => \E b \in Q : \A c \in Q \ {b} : <<c, b>> \in x.before

(* Restoring the opcodes of a set of breakpoints. *)
LEMMA SwapOutFields ==
  ASSUME NEW x \in Tables, NEW S \in SUBSET Bp, LastAt(x, S)
  PROVE  LET y == SwapOutSet(x, S)
         IN  /\ y \in Tables /\ SameList(x, y) /\ y.code = x.code
             /\ y.installed = x.installed /\ y.enabled = x.enabled
             /\ \A b \in Bp : y.xp[b] <=> x.xp[b] /\ b \notin S
             /\ \A a \in Addr : (\A b \in S : x.addr[b] # a) => y.text[a] = x.text[a]
             /\ \A a \in Addr : a \in x.mapped /\ (\E b \in S : x.addr[b] = a)
                  => \E b \in S : x.addr[b] = a /\ y.text[a] = x.code[b]
<1> DEFINE y == SwapOutSet(x, S)
           At(a) == {b \in S : x.addr[b] = a}
           LastOf(Q) == CHOOSE b \in Q : \A c \in Q \ {b} : <<c, b>> \in x.before
           newtext == [a \in Addr |-> IF a \in x.mapped /\ At(a) # {}
                                      THEN x.code[LastOf(At(a))] ELSE x.text[a]]
           newxp == [b \in Bp |-> x.xp[b] /\ b \notin S]
<1>1. \A a : At(a) # {} => LastOf(At(a)) \in At(a)
  <2> SUFFICES ASSUME NEW a, At(a) # {}
               PROVE  LastOf(At(a)) \in At(a)
    OBVIOUS
  <2>1. At(a) \in SUBSET S /\ \A b, c \in At(a) : x.addr[b] = x.addr[c]
    OBVIOUS
  <2> HIDE DEF At
  <2>2. \E b \in At(a) : \A c \in At(a) \ {b} : <<c, b>> \in x.before
    BY <2>1 DEF LastAt
  <2> QED BY <2>2
<1>2. y = [x EXCEPT !.text = newtext, !.xp = newxp]
  BY DEF SwapOutSet
<1> HIDE DEF LastOf
<1>3. newtext \in [Addr -> Code] /\ newxp \in [Bp -> BOOLEAN]
  <2>1. ASSUME NEW a \in Addr
        PROVE  newtext[a] \in Code
    <3>1. x.code \in [Bp -> Code] /\ x.text[a] \in Code
      BY TableTypes
    <3>2. At(a) # {} => x.code[LastOf(At(a))] \in Code
      BY <1>1, <3>1
    <3> HIDE DEF At
    <3> QED BY <3>1, <3>2
  <2> QED BY <2>1
<1>4. \A b \in Bp : newxp[b] <=> x.xp[b] /\ b \notin S
  OBVIOUS
<1>5. \A a \in Addr : (\A b \in S : x.addr[b] # a) => newtext[a] = x.text[a]
  OBVIOUS
<1>6. ASSUME NEW a \in Addr, a \in x.mapped, \E b \in S : x.addr[b] = a
      PROVE  \E b \in S : x.addr[b] = a /\ newtext[a] = x.code[b]
  <2>1. At(a) # {} /\ LastOf(At(a)) \in At(a)
    BY <1>1, <1>6
  <2>2. newtext[a] = x.code[LastOf(At(a))]
    BY <1>6, <2>1
  <2> QED BY <2>1, <2>2
<1> HIDE DEF newtext, newxp, y
<1>7. /\ y \in Tables /\ y.live = x.live /\ y.before = x.before /\ y.addr = x.addr
      /\ y.user = x.user /\ y.inactive = x.inactive /\ y.solib = x.solib
      /\ y.global = x.global /\ y.mapped = x.mapped /\ y.enabled = x.enabled
      /\ y.installed = x.installed /\ y.xp = newxp /\ y.text = newtext /\ y.code = x.code
  BY <1>2, <1>3 DEF Tables
<1> QED BY <1>4, <1>5, <1>6, <1>7 DEF SameList, y

(* Traps that have addresses of their own leave the program's opcodes. *)
LEMMA SwapOutIntact ==
  ASSUME NEW x, Intact(x), NEW S \in SUBSET Bp, \A b \in S : x.xp[b]
  PROVE  /\ LastAt(x, S)
         /\ TrapsApart(SwapOutSet(x, S)) /\ TextAgrees(SwapOutSet(x, S))
<1> DEFINE y == SwapOutSet(x, S)
<1>0. x \in Tables /\ x.addr \in [Bp -> Addr]
  BY DEF Intact, Tables
<1>1. LastAt(x, S)
  <2> SUFFICES ASSUME NEW Q \in SUBSET S, Q # {}, \A b, c \in Q : x.addr[b] = x.addr[c]
               PROVE  \E b \in Q : \A c \in Q \ {b} : <<c, b>> \in x.before
    BY DEF LastAt
  <2>1. PICK b \in Q : TRUE
    OBVIOUS
  <2>2. Q = {b}
    BY DEF Intact, TrapsApart
  <2> QED BY <2>2
<1>2. /\ y \in Tables /\ SameList(x, y) /\ y.code = x.code
      /\ \A b \in Bp : y.xp[b] <=> x.xp[b] /\ b \notin S
      /\ \A a \in Addr : (\A b \in S : x.addr[b] # a) => y.text[a] = x.text[a]
      /\ \A a \in Addr : a \in x.mapped /\ (\E b \in S : x.addr[b] = a)
           => \E b \in S : x.addr[b] = a /\ y.text[a] = x.code[b]
  BY <1>0, <1>1, SwapOutFields
<1> HIDE DEF y
<1>3. /\ Addr \ Late \subseteq x.mapped
      /\ \A b \in Bp : x.xp[b] /\ x.addr[b] \notin Late
           => x.text[x.addr[b]] = BPT /\ x.code[b] = Orig[x.addr[b]]
      /\ \A a \in Addr \ Late : (\A b \in Bp : x.xp[b] => x.addr[b] # a) => x.text[a] = Orig[a]
  BY DEF Intact, TextAgrees
<1>4. TrapsApart(y)
  BY <1>2 DEF Intact, TrapsApart, SameList
<1>5. ASSUME NEW b \in Bp, y.xp[b], x.addr[b] \notin Late
      PROVE  y.text[x.addr[b]] = BPT /\ x.code[b] = Orig[x.addr[b]]
  <2>1. x.xp[b] /\ \A c \in S : x.addr[c] # x.addr[b]
    BY <1>2, <1>5 DEF Intact, TrapsApart
  <2> QED BY <1>0, <1>2, <1>3, <1>5, <2>1
<1>6. ASSUME NEW a \in Addr \ Late, \A b \in Bp : y.xp[b] => x.addr[b] # a
      PROVE  y.text[a] = Orig[a]
  <2>1. CASE \E b \in S : x.addr[b] = a
    <3>1. PICK b \in S : x.addr[b] = a /\ y.text[a] = x.code[b]
      BY <1>2, <1>3, <2>1
    <3> QED BY <1>3, <3>1
  <2>2. CASE \A b \in S : x.addr[b] # a
    <3>1. \A b \in Bp : x.xp[b] => x.addr[b] # a
      BY <1>2, <1>6, <2>2
    <3> QED BY <1>2, <1>3, <2>2, <3>1
  <2> QED BY <2>1, <2>2
<1>7. TextAgrees(y)
  BY <1>2, <1>3, <1>5, <1>6 DEF TextAgrees, SameList
<1> QED BY <1>1, <1>4, <1>7 DEF y

(* uninstall_all_breakpoints and DisableAll share their loop: the traps of *)
(* the list go, and the marks of the breakpoints that had one; then the    *)
(* flags `on' are the enabled ones.                                        *)
AllOut(x, on) ==
  LET Mine == {b \in x.live : x.xp[b]}
  IN  [SwapOutSet(x, {b \in Mine : x.enabled[b]}) EXCEPT
        !.installed = [b \in Bp |-> x.installed[b] /\ b \notin Mine],
        !.enabled = on]

(* Of any table in order. *)
LEMMA AllOutFields ==
  ASSUME NEW x \in Tables, NEW on \in [Bp -> BOOLEAN],
         LastAt(x, {b \in x.live : x.xp[b] /\ x.enabled[b]})
  PROVE  LET y == AllOut(x, on)
         IN  /\ y \in Tables /\ SameList(x, y) /\ y.enabled = on
             /\ \A b \in Bp : y.xp[b] <=> x.xp[b] /\ ~(b \in x.live /\ x.enabled[b])
             /\ \A b \in Bp : y.installed[b] <=> x.installed[b] /\ ~(b \in x.live /\ x.xp[b])
             /\ y.text = SwapOutSet(x, {b \in x.live : x.xp[b] /\ x.enabled[b]}).text
             /\ y.code = x.code
<1> DEFINE Mine == {b \in x.live : x.xp[b]}
           S == {b \in x.live : x.xp[b] /\ x.enabled[b]}
           w == SwapOutSet(x, S)
           f == [b \in Bp |-> x.installed[b] /\ b \notin Mine]
           y == AllOut(x, on)
<1>1. S \in SUBSET Bp /\ {b \in Mine : x.enabled[b]} = S
  BY TableTypes
<1>2. /\ w \in Tables /\ SameList(x, w) /\ w.code = x.code
      /\ \A b \in Bp : w.xp[b] <=> x.xp[b] /\ b \notin S
  <2> HIDE DEF S
  <2> QED BY <1>1, SwapOutFields DEF S
<1>3. \A b \in Bp : w.xp[b] <=> x.xp[b] /\ ~(b \in x.live /\ x.enabled[b])
  BY <1>2
<1>4. y = [w EXCEPT !.installed = f, !.enabled = on]
  BY <1>1 DEF AllOut
<1>5. f \in [Bp -> BOOLEAN] /\ \A b \in Bp : f[b] <=> x.installed[b] /\ ~(b \in x.live /\ x.xp[b])
  BY TableTypes
<1> HIDE DEF w, f, y
<1>6. /\ y \in Tables /\ y.live = w.live /\ y.before = w.before /\ y.addr = w.addr
      /\ y.user = w.user /\ y.inactive = w.inactive /\ y.solib = w.solib
      /\ y.global = w.global /\ y.mapped = w.mapped /\ y.enabled = on
      /\ y.installed = f /\ y.xp = w.xp /\ y.text = w.text /\ y.code = w.code
  BY <1>2, <1>4, <1>5 DEF Tables
<1> QED BY <1>2, <1>3, <1>5, <1>6 DEF SameList, w, y

(* Of an intact table no trap is left. *)
LEMMA AllOutIntact ==
  ASSUME NEW x, Intact(x), NEW on \in [Bp -> BOOLEAN]
  PROVE  LET y == AllOut(x, on)
         IN  /\ Intact(y) /\ SameList(x, y) /\ y.enabled = on
             /\ \A b \in Bp : ~y.xp[b]
             /\ \A b \in Bp : y.installed[b] <=> x.installed[b] /\ ~x.xp[b]
<1> DEFINE S == {b \in x.live : x.xp[b] /\ x.enabled[b]}
           w == SwapOutSet(x, S)
           y == AllOut(x, on)
<1>0. x \in Tables /\ x.live \subseteq Bp
  BY DEF Intact, Tables
<1>1. S \in SUBSET Bp /\ \A b \in S : x.xp[b]
  BY <1>0
<1>2. LastAt(x, S) /\ TrapsApart(w) /\ TextAgrees(w)
  <2> HIDE DEF S
  <2> QED BY <1>1, SwapOutIntact
<1>3. \A b \in Bp : x.xp[b] => b \in x.live /\ x.enabled[b]
  BY DEF Intact, MarksAgree
<1>4. /\ y \in Tables /\ SameList(x, y) /\ y.enabled = on
      /\ \A b \in Bp : y.xp[b] <=> x.xp[b] /\ ~(b \in x.live /\ x.enabled[b])
      /\ \A b \in Bp : y.installed[b] <=> x.installed[b] /\ ~(b \in x.live /\ x.xp[b])
      /\ y.text = w.text /\ y.code = x.code
  BY <1>0, <1>2, AllOutFields
<1>5. /\ SameList(x, w) /\ w.code = x.code
      /\ \A b \in Bp : w.xp[b] <=> x.xp[b] /\ b \notin S
  <2> HIDE DEF S
  <2> QED BY <1>0, <1>1, <1>2, SwapOutFields
<1>6. \A b \in Bp : ~y.xp[b] /\ ~w.xp[b]
  BY <1>3, <1>4, <1>5
<1> HIDE DEF y, w, S
<1>7. MarksAgree(y) /\ TrapsApart(y)
  BY <1>4, <1>6 DEF Intact, MarksAgree, TrapsApart, SameList
<1>8. TextAgrees(y)
  BY <1>2, <1>4, <1>5, <1>6 DEF TextAgrees, SameList
<1> QED BY <1>3, <1>4, <1>6, <1>7, <1>8 DEF Intact, y

(* The loops as they are written in bp.c. *)
LEMMA AllOutCases ==
  ASSUME NEW x \in Tables, LastAt(x, {b \in x.live : x.xp[b] /\ x.enabled[b]})
  PROVE  /\ uninstall_all_breakpoints(x) = AllOut(x, x.enabled)
         /\ DisableAll(x) = AllOut(x, [b \in Bp |-> x.enabled[b] /\ b \notin x.live])
<1> DEFINE Mine == {b \in x.live : x.xp[b]}
           S == {b \in Mine : x.enabled[b]}
           R == {b \in x.live : x.xp[b] /\ x.enabled[b]}
           w == SwapOutSet(x, S)
           f == [b \in Bp |-> x.installed[b] /\ b \notin Mine]
           g == [b \in Bp |-> x.enabled[b] /\ b \notin x.live]
<1>1. S = R /\ S \in SUBSET Bp
  BY TableTypes
<1>2. w \in Tables /\ w.enabled = x.enabled
  <2>1. LastAt(x, S)
    BY <1>1
  <2> HIDE DEF S
  <2> QED BY <1>1, <2>1, SwapOutFields
<1>3. /\ uninstall_all_breakpoints(x) = [w EXCEPT !.installed = f]
      /\ AllOut(x, x.enabled) = [w EXCEPT !.installed = f, !.enabled = x.enabled]
      /\ DisableAll(x) = [w EXCEPT !.installed = f, !.enabled = g]
      /\ AllOut(x, g) = [w EXCEPT !.installed = f, !.enabled = g]
  BY DEF uninstall_all_breakpoints, AllOut, DisableAll
<1> HIDE DEF w, f, g
<1>4. [w EXCEPT !.installed = f] = [w EXCEPT !.installed = f, !.enabled = x.enabled]
  BY <1>2 DEF Tables
<1> QED BY <1>3, <1>4 DEF g

(* uninstall_all_breakpoints leaves no trap in the text. *)
LEMMA UninstallAllIntact ==
  ASSUME NEW x, Intact(x)
  PROVE  LET y == uninstall_all_breakpoints(x)
         IN  /\ Intact(y) /\ SameList(x, y) /\ y.enabled = x.enabled
             /\ \A b \in Bp : ~y.xp[b]
             /\ \A b \in Bp : y.installed[b] <=> x.installed[b] /\ ~x.xp[b]
<1> DEFINE S == {b \in x.live : x.xp[b] /\ x.enabled[b]}
<1>1. x \in Tables /\ x.enabled \in [Bp -> BOOLEAN] /\ S \in SUBSET Bp /\ \A b \in S : x.xp[b]
  BY DEF Intact, Tables
<1>2. LastAt(x, S)
  <2> HIDE DEF S
  <2> QED BY <1>1, SwapOutIntact
<1>3. uninstall_all_breakpoints(x) = AllOut(x, x.enabled)
  BY <1>1, <1>2, AllOutCases
<1> QED BY <1>1, <1>3, AllOutIntact

(* In any ordered list it leaves a table. *)
LEMMA UninstallAllFields ==
  ASSUME NEW x \in Tables, Ordered(x)
  PROVE  LET y == uninstall_all_breakpoints(x)
         IN  /\ y \in Tables /\ SameList(x, y) /\ y.enabled = x.enabled
             /\ \A b \in Bp : y.xp[b] <=> x.xp[b] /\ ~(b \in x.live /\ x.enabled[b])
             /\ \A b \in Bp : y.installed[b] <=> x.installed[b] /\ ~(b \in x.live /\ x.xp[b])
<1> DEFINE S == {b \in x.live : x.xp[b] /\ x.enabled[b]}
<1>1. x.enabled \in [Bp -> BOOLEAN] /\ LastAt(x, S)
  BY TableTypes DEF Ordered, LastAt
<1>2. uninstall_all_breakpoints(x) = AllOut(x, x.enabled)
  BY <1>1, AllOutCases
<1> QED BY <1>1, <1>2, AllOutFields

(* DisableAll takes all traps out and disables every breakpoint. *)
LEMMA DisableAllIntact ==
  ASSUME NEW x, Intact(x)
  PROVE  LET y == DisableAll(x)
         IN  /\ Intact(y) /\ SameList(x, y)
             /\ \A b \in Bp : ~y.xp[b]
             /\ \A b \in Bp : y.enabled[b] <=> x.enabled[b] /\ b \notin x.live
<1> DEFINE S == {b \in x.live : x.xp[b] /\ x.enabled[b]}
           on == [b \in Bp |-> x.enabled[b] /\ b \notin x.live]
<1>1. x \in Tables /\ on \in [Bp -> BOOLEAN] /\ S \in SUBSET Bp /\ \A b \in S : x.xp[b]
  BY DEF Intact, Tables
<1>2. LastAt(x, S)
  <2> HIDE DEF S
  <2> QED BY <1>1, SwapOutIntact
<1>3. DisableAll(x) = AllOut(x, on)
  BY <1>1, <1>2, AllOutCases
<1>4. \A b \in Bp : on[b] <=> x.enabled[b] /\ b \notin x.live
  OBVIOUS
<1> HIDE DEF on
<1> QED BY <1>1, <1>3, <1>4, AllOutIntact

(* EnableAll puts the traps of the marked breakpoints back and enables     *)
(* every breakpoint of the list.                                           *)
LEMMA EnableAllIntact ==
  ASSUME NEW x, Intact(x), OneEach(x)
  PROVE  LET y == EnableAll(x)
         IN  /\ Intact(y) /\ SameList(x, y)
             /\ \A b \in x.live : y.enabled[b]
<1> DEFINE Todo == {b \in x.live : ~x.xp[b] /\ x.installed[b] /\ ~UserDisabled(x, b)}
           w == SwapInSet(x, Todo)
           f == [b \in Bp |-> x.enabled[b] \/ b \in x.live]
           y == EnableAll(x)
<1>0. x \in Tables /\ x.live \subseteq Bp
  BY DEF Intact, Tables
<1>1. /\ Todo \in SUBSET Bp
      /\ \A b, c \in Todo : x.addr[b] = x.addr[c] => b = c
      /\ \A b \in Todo, c \in Bp : x.xp[c] => x.addr[c] # x.addr[b]
  BY <1>0 DEF Intact, MarksAgree, OneEach
<1>2. \A b \in Todo : b \in x.live /\ x.installed[b]
  OBVIOUS
<1>3. f \in [Bp -> BOOLEAN] /\ \A b \in Bp : f[b] <=> x.enabled[b] \/ b \in x.live
  BY <1>0, TableTypes
<1>4. y = [w EXCEPT !.enabled = f]
  BY DEF EnableAll
<1> HIDE DEF Todo, f
<1>5. /\ w \in Tables /\ SameList(x, w) /\ TrapsApart(w) /\ TextAgrees(w)
      /\ w.installed = x.installed
      /\ \A b \in Bp : w.xp[b] <=> x.xp[b] \/ b \in Todo
  BY <1>0, <1>1, SwapInFields, SwapInIntact
<1> HIDE DEF w, y
<1>6. /\ y \in Tables /\ y.live = w.live /\ y.before = w.before /\ y.addr = w.addr
      /\ y.user = w.user /\ y.inactive = w.inactive /\ y.solib = w.solib
      /\ y.global = w.global /\ y.mapped = w.mapped /\ y.enabled = f
      /\ y.installed = w.installed /\ y.xp = w.xp /\ y.text = w.text /\ y.code = w.code
  BY <1>3, <1>4, <1>5 DEF Tables
<1>7. TrapsApart(y) /\ TextAgrees(y)
  BY <1>5, <1>6 DEF TrapsApart, TextAgrees
<1>8. MarksAgree(y)
  BY <1>2, <1>3, <1>5, <1>6 DEF Intact, MarksAgree, SameList
<1> QED BY <1>0, <1>3, <1>5, <1>6, <1>7, <1>8 DEF Intact, SameList, y

(* EnableOne enables one breakpoint, whose trap goes in if it is marked. *)
LEMMA EnableOneIntact ==
  ASSUME NEW x, Intact(x), OneEach(x), NEW b \in x.live
  PROVE  LET y == EnableOne(x, b)
         IN  Intact(y) /\ SameList(x, y)
<1> DEFINE e == [x EXCEPT !.enabled[b] = TRUE]
<1>0. x \in Tables /\ b \in Bp /\ x.live \subseteq Bp
  BY DEF Intact, Tables
<1>1. /\ e \in Tables /\ SameList(x, e) /\ e.text = x.text /\ e.code = x.code
      /\ e.xp = x.xp /\ e.installed = x.installed
      /\ \A c \in Bp : e.enabled[c] <=> x.enabled[c] \/ c = b
  <2>1. /\ e \in Tables /\ e.live = x.live /\ e.before = x.before /\ e.addr = x.addr
        /\ e.user = x.user /\ e.inactive = x.inactive /\ e.solib = x.solib
        /\ e.global = x.global /\ e.mapped = x.mapped
        /\ e.installed = x.installed /\ e.xp = x.xp /\ e.text = x.text /\ e.code = x.code
        /\ e.enabled = [x.enabled EXCEPT ![b] = TRUE]
    BY <1>0 DEF Tables
  <2> HIDE DEF e
  <2>2. \A c \in Bp : e.enabled[c] <=> x.enabled[c] \/ c = b
    BY <1>0, <2>1, TableTypes
  <2> QED BY <2>1, <2>2 DEF SameList
<1>2. EnableOne(x, b) = IF ~x.xp[b] /\ x.installed[b] THEN install_breakpoint(e, b, FALSE) ELSE e
  BY DEF EnableOne
<1> HIDE DEF e
<1>3. Intact(e)
  BY <1>1 DEF Intact, MarksAgree, TrapsApart, TextAgrees, SameList
<1>4. CASE ~x.xp[b] /\ x.installed[b]
  <2>1. b \in e.live /\ \A c \in Bp : e.xp[c] => e.addr[c] # e.addr[b]
    BY <1>0, <1>1, <1>4 DEF Intact, MarksAgree, OneEach, SameList
  <2>2. Intact(install_breakpoint(e, b, FALSE))
    BY <1>3, <2>1, InstallIntact
  <2>3. SameList(e, install_breakpoint(e, b, FALSE))
    BY <1>0, <1>1, InstallFields
  <2> QED BY <1>1, <1>2, <1>4, <2>2, <2>3 DEF SameList
<1>5. CASE ~(~x.xp[b] /\ x.installed[b])
  BY <1>1, <1>2, <1>3, <1>5
<1> QED BY <1>4, <1>5

-----------------------------------------------------------------------------
(* The process. *)

(* When the process is gone nothing is marked, and the text of the next    *)
(* one is the program's.                                                   *)
LEMMA GoneFields ==
  ASSUME NEW x \in Tables
  PROVE  LET y == FreshText(mark_breakpoints_as_uninstalled(x))
         IN  /\ y \in Tables /\ y.enabled = x.enabled /\ y.text = Orig /\ y.code = x.code
             /\ y.mapped = Addr \ Late /\ y.live = x.live /\ y.before = x.before
             /\ y.addr = x.addr /\ y.user = x.user /\ y.inactive = x.inactive
             /\ y.solib = x.solib /\ y.global = x.global
             /\ \A b \in Bp : y.xp[b] <=> x.xp[b] /\ ~(b \in x.live /\ x.installed[b])
             /\ \A b \in Bp : y.installed[b] <=> x.installed[b] /\ b \notin x.live
<1> DEFINE f == [b \in Bp |-> x.xp[b] /\ ~(b \in x.live /\ x.installed[b])]
           g == [b \in Bp |-> x.installed[b] /\ b \notin x.live]
           y == FreshText(mark_breakpoints_as_uninstalled(x))
<1>1. /\ f \in [Bp -> BOOLEAN] /\ g \in [Bp -> BOOLEAN]
      /\ \A b \in Bp : f[b] <=> x.xp[b] /\ ~(b \in x.live /\ x.installed[b])
      /\ \A b \in Bp : g[b] <=> x.installed[b] /\ b \notin x.live
  BY TableTypes
<1>2. Orig \in [Addr -> Code]
  BY TableAssumption DEF Code
<1>3. mark_breakpoints_as_uninstalled(x) = [x EXCEPT !.xp = f, !.installed = g]
  BY DEF mark_breakpoints_as_uninstalled
<1> HIDE DEF f, g
<1>4. y = [x EXCEPT !.xp = f, !.installed = g, !.text = Orig, !.mapped = Addr \ Late]
  BY <1>3 DEF FreshText
<1> HIDE DEF y
<1>5. /\ y \in Tables /\ y.enabled = x.enabled /\ y.text = Orig /\ y.code = x.code
      /\ y.mapped = Addr \ Late /\ y.live = x.live /\ y.before = x.before
      /\ y.addr = x.addr /\ y.user = x.user /\ y.inactive = x.inactive
      /\ y.solib = x.solib /\ y.global = x.global /\ y.xp = f /\ y.installed = g
  BY <1>1, <1>2, <1>4 DEF Tables
<1> QED BY <1>1, <1>5 DEF y

(* No trap is marked any more. *)
LEMMA GoneIntact ==
  ASSUME NEW x, Intact(x)
  PROVE  LET y == FreshText(mark_breakpoints_as_uninstalled(x))
         IN  Intact(y) /\ \A b \in Bp : ~y.xp[b] /\ ~y.installed[b]
<1> DEFINE y == FreshText(mark_breakpoints_as_uninstalled(x))
<1>0. x \in Tables /\ \A b \in Bp : x.xp[b] => x.installed[b] /\ b \in x.live
  BY DEF Intact, MarksAgree
<1>1. /\ y \in Tables /\ y.text = Orig /\ y.mapped = Addr \ Late
      /\ \A b \in Bp : y.xp[b] <=> x.xp[b] /\ ~(b \in x.live /\ x.installed[b])
      /\ \A b \in Bp : y.installed[b] <=> x.installed[b] /\ b \notin x.live
  BY <1>0, GoneFields
<1> HIDE DEF y
<1>2. \A b \in Bp : ~y.xp[b] /\ ~y.installed[b]
  BY <1>0, <1>1 DEF Intact, MarksAgree
<1> QED BY <1>1, <1>2, QuietIntact DEF y

(* exec, with no trap marked. *)
LEMMA FreshFields ==
  ASSUME NEW x \in Tables
  PROVE  LET y == FreshText(x)
         IN  /\ y \in Tables /\ y.enabled = x.enabled /\ y.text = Orig /\ y.code = x.code
             /\ y.mapped = Addr \ Late /\ y.live = x.live /\ y.before = x.before
             /\ y.addr = x.addr /\ y.user = x.user /\ y.inactive = x.inactive
             /\ y.solib = x.solib /\ y.global = x.global
             /\ y.xp = x.xp /\ y.installed = x.installed
<1>1. Orig \in [Addr -> Code]
  BY TableAssumption DEF Code
<1> QED BY <1>1 DEF FreshText, Tables

(* A process whose text no trap of the list is in. *)
LEMMA FreshIntact ==
  ASSUME NEW x, Intact(x), \A b \in Bp : ~x.xp[b]
  PROVE  Intact(FreshText(x))
<1> DEFINE y == FreshText(x)
<1>1. /\ y \in Tables /\ y.text = Orig /\ y.mapped = Addr \ Late /\ y.xp = x.xp
      /\ y.installed = x.installed /\ y.live = x.live
  BY FreshFields DEF Intact
<1> HIDE DEF y
<1> QED BY <1>1 DEF Intact, MarksAgree, TrapsApart, TextAgrees, y

-----------------------------------------------------------------------------
(* What the callers look at. *)

(* Where every address is mapped from the start, the text of an intact     *)
(* table has a trap exactly where a breakpoint counts as installed.        *)
LEMMA TextOfIntact ==
  ASSUME NEW x, Intact(x), NEW a \in Addr, Late = {}
  PROVE  /\ x.text[a] = IF get_breakpoint_at_addr(x, a) # {} THEN BPT ELSE Orig[a]
         /\ x.text[a] = BPT <=> get_breakpoint_at_addr(x, a) # {}
<1>1. x.live \subseteq Bp /\ \A b \in Bp : x.xp[b] => b \in x.live
  BY DEF Intact, Tables, MarksAgree
<1>2. Orig[a] # BPT
  BY TableAssumption
<1>3. CASE get_breakpoint_at_addr(x, a) = {}
  BY <1>1, <1>2, <1>3 DEF Intact, TextAgrees, get_breakpoint_at_addr
<1>4. CASE get_breakpoint_at_addr(x, a) # {}
  BY <1>1, <1>4 DEF Intact, TextAgrees, get_breakpoint_at_addr
<1> QED BY <1>3, <1>4

(* The first of the breakpoints installed at an address is one of them. *)
LEMMA FirstInstalled ==
  ASSUME NEW x \in Tables, Ordered(x) \/ TrapsApart(x), NEW a,
         get_breakpoint_at_addr(x, a) # {}
  PROVE  LET b == FirstOf(x, get_breakpoint_at_addr(x, a))
         IN  b \in x.live /\ b \in Bp /\ x.xp[b] /\ x.addr[b] = a
<1> DEFINE S == get_breakpoint_at_addr(x, a)
<1>1. S \in SUBSET x.live /\ S # {} /\ \A b \in S : x.xp[b] /\ x.addr[b] = a
  BY DEF get_breakpoint_at_addr
<1>2. x.live \subseteq Bp
  BY TableTypes
<1> HIDE DEF S
<1>3. \E b \in S : \A c \in S \ {b} : <<b, c>> \in x.before
  <2>1. CASE Ordered(x)
    <3>1. S \in SUBSET x.live /\ S # {} /\ \A b, c \in S : x.addr[b] = x.addr[c]
      BY <1>1
    <3> QED BY <2>1, <3>1 DEF Ordered
  <2>2. CASE TrapsApart(x)
    <3>1. PICK b \in S : TRUE
      BY <1>1
    <3>2. S = {b}
      BY <1>1, <1>2, <2>2 DEF TrapsApart
    <3> QED BY <3>2
  <2> QED BY <2>1, <2>2
<1>4. FirstOf(x, S) \in S
  BY <1>3 DEF FirstOf
<1> QED BY <1>1, <1>2, <1>4 DEF S

(* The same of those at an address, installed or not. *)
LEMMA FirstAtAddr ==
  ASSUME NEW x \in Tables, Ordered(x) \/ OneEach(x), NEW a,
         dx_addr_to_breakpoint(x, a) # {}
  PROVE  LET b == FirstOf(x, dx_addr_to_breakpoint(x, a))
         IN  b \in x.live /\ b \in Bp /\ x.addr[b] = a
<1> DEFINE S == dx_addr_to_breakpoint(x, a)
<1>1. S \in SUBSET x.live /\ S # {} /\ \A b \in S : x.addr[b] = a
  BY DEF dx_addr_to_breakpoint
<1>2. x.live \subseteq Bp
  BY TableTypes
<1> HIDE DEF S
<1>3. \E b \in S : \A c \in S \ {b} : <<b, c>> \in x.before
  <2>1. CASE Ordered(x)
    BY <1>1, <2>1 DEF Ordered
  <2>2. CASE OneEach(x)
    <3>1. PICK b \in S : TRUE
      BY <1>1
    <3>2. S = {b}
      BY <1>1, <2>2 DEF OneEach
    <3> QED BY <3>2
  <2> QED BY <2>1, <2>2
<1>4. FirstOf(x, S) \in S
  BY <1>3 DEF FirstOf
<1> QED BY <1>1, <1>2, <1>4 DEF S
==============================================================================
