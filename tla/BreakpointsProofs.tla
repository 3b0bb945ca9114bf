-------------------------- MODULE BreakpointsProofs --------------------------
(***************************************************************************)
(* Proofs about Breakpoints, for every set of breakpoints, addresses and   *)
(* opcodes.  Sound(x) ties the flags, the saved opcodes and the text of a  *)
(* table together.  One lemma per operation of bp.c shows that the         *)
(* operation keeps a table sound; the theorems put them together.          *)
(*                                                                         *)
(* The theorems assume that the dynamic linker has no source line a user   *)
(* could put a breakpoint on, and is not where a process is run to when it *)
(* starts (LinkerApart): add_breakpoint_object refuses an address in use,  *)
(* the linker's breakpoint is added without asking.                        *)
(***************************************************************************)
EXTENDS Breakpoints, TLAPS

LinkerApart == LinkerAddr \notin UserAddrs \union StartAddrs

USE DEF Listed

(* No two traps are at one address, not even while xp_execto's breakpoint  *)
(* shares its address with another one.                                    *)
LEMMA SoundTrapsApart ==
  ASSUME NEW x, Sound(x)
  PROVE  \A b, c \in Bp : x.xp[b] /\ x.xp[c] /\ x.addr[b] = x.addr[c] => b = c
<1>1. \A b \in Bp : x.xp[b] => b \in x.live
  BY DEF Sound, FlagsAgree
<1>2. CASE ExecBp \notin x.live
  BY <1>1, <1>2 DEF Sound, AddressesApart, ExecBpApart
<1>3. CASE ExecBp \in x.live
  BY <1>1, <1>3 DEF Sound, AddressesApart, ExecBpApart
<1> QED BY <1>2, <1>3

-----------------------------------------------------------------------------
(* The empty table and a new process. *)

(* Bphead starts out sound: no breakpoints, the program's own text. *)
LEMMA EmptySound == Sound(EmptyTable)
<1>1. NoAddr \in Addr /\ NoCode \in Opcode
  BY TableAssumption DEF NoAddr, NoCode
<1>2. EmptyTable \in Tables
  BY <1>1, TableAssumption DEF EmptyTable, Tables, Code
<1>3. FlagsAgree(EmptyTable) /\ AddressesApart(EmptyTable) /\ ExecBpApart(EmptyTable) /\ TextAgrees(EmptyTable)
  BY DEF EmptyTable, FlagsAgree, AddressesApart, ExecBpApart, TextAgrees
<1> QED BY <1>2, <1>3 DEF Sound

(* exec: with no trap marked as installed, the program's text is sound. *)
LEMMA FreshSound ==
  ASSUME NEW x, Sound(x), \A b \in Bp : ~x.xp[b]
  PROVE  Sound(FreshText(x)) /\ FreshText(x).xp = x.xp /\ FreshText(x).installed = x.installed
<1> DEFINE y == FreshText(x)
<1>1. y \in Tables
  BY TableAssumption DEF FreshText, Sound, Tables, Code
<1>2. /\ y.live = x.live /\ y.xp = x.xp /\ y.installed = x.installed /\ y.enabled = x.enabled
      /\ y.addr = x.addr /\ y.user = x.user /\ y.inactive = x.inactive /\ y.solib = x.solib
      /\ y.global = x.global /\ y.text = Orig /\ y.mapped = Addr \ Late
  BY DEF FreshText, Sound, Tables
<1>3. FlagsAgree(y) /\ AddressesApart(y) /\ ExecBpApart(y) /\ TextAgrees(y)
  BY <1>2 DEF Sound, FlagsAgree, AddressesApart, ExecBpApart, TextAgrees, UserDisabled
<1> QED BY <1>1, <1>2, <1>3 DEF Sound

(* A library appears with its own text at an address mapped late. *)
LEMMA MapSound ==
  ASSUME NEW x, Sound(x), NEW a \in Late
  PROVE  Sound(MapText(x, a)) /\ MapText(x, a).xp = x.xp /\ MapText(x, a).installed = x.installed
<1> DEFINE y == MapText(x, a)
<1>1. y \in Tables
  BY TableAssumption DEF MapText, Sound, Tables, Code
<1>2. /\ y.live = x.live /\ y.xp = x.xp /\ y.installed = x.installed /\ y.enabled = x.enabled
      /\ y.addr = x.addr /\ y.user = x.user /\ y.inactive = x.inactive /\ y.solib = x.solib
      /\ y.global = x.global /\ y.code = x.code
      /\ y.text = [x.text EXCEPT ![a] = Orig[a]] /\ y.mapped = x.mapped \union {a}
  BY DEF MapText, Sound, Tables
<1>3. FlagsAgree(y) /\ AddressesApart(y) /\ ExecBpApart(y)
  BY <1>2 DEF Sound, FlagsAgree, AddressesApart, ExecBpApart, UserDisabled
<1>4. TextAgrees(y)
  BY <1>2, TableAssumption DEF Sound, Tables, TextAgrees
<1> QED BY <1>1, <1>2, <1>3, <1>4 DEF Sound

-----------------------------------------------------------------------------
(* install_breakpoint and uninstall_breakpoint. *)

(* Where install_breakpoint is about to write a trap there is none: the    *)
(* breakpoint is alone at its address, or it is xp_execto's or the dynamic *)
(* linker's while a process is being started.                              *)
LEMMA LonelyTrap ==
  ASSUME NEW x, Sound(x), NEW b \in x.live, ~x.xp[b],
         ExecBp \in x.live => b = ExecBp \/ x.solib[b]
  PROVE  \A c \in Bp : x.xp[c] => x.addr[c] # x.addr[b]
<1>1. x.live \subseteq Bp /\ \A c \in Bp : x.xp[c] => c \in x.live
  BY DEF Sound, Tables, FlagsAgree
<1>2. CASE ExecBp \notin x.live
  BY <1>1, <1>2 DEF Sound, AddressesApart
<1>3. CASE b = ExecBp
  BY <1>1, <1>3 DEF Sound, AddressesApart, ExecBpApart
<1>4. CASE b # ExecBp /\ x.solib[b] /\ ExecBp \in x.live
  BY <1>1, <1>4 DEF Sound, AddressesApart, ExecBpApart
<1> QED BY <1>2, <1>3, <1>4

(* install_breakpoint saves the program's opcode under the new trap. *)
LEMMA InstallSound ==
  ASSUME NEW x, Sound(x), NEW b \in x.live, NEW force \in BOOLEAN, ~x.xp[b],
         x.enabled[b] \/ ~force,
         ExecBp \in x.live => b = ExecBp \/ x.solib[b]
  PROVE  Sound(install_breakpoint(x, b, force))
<1> DEFINE y == install_breakpoint(x, b, force)
<1>0. b \in Bp /\ x \in Tables
  BY DEF Sound, Tables
<1>1. y \in Tables
  BY <1>0, TableAssumption, ZenonT(60) DEF Tables, install_breakpoint, TswapIn, Code, UserDisabled
<1>2. FlagsAgree(y)
  BY <1>1 DEF Sound, Tables, FlagsAgree, install_breakpoint, TswapIn, UserDisabled
<1>3. AddressesApart(y) /\ ExecBpApart(y)
  BY <1>1 DEF Sound, Tables, AddressesApart, ExecBpApart, install_breakpoint, TswapIn, UserDisabled
<1>4. TextAgrees(y)
  <2>1. CASE ~force /\ UserDisabled(x, b)
    BY <2>1 DEF Sound, install_breakpoint
  <2>2. CASE ~(~force /\ UserDisabled(x, b)) /\ ~x.enabled[b]
    <3>1. /\ y.xp = x.xp /\ y.addr = x.addr /\ y.mapped = x.mapped
          /\ y.text = x.text /\ y.code = x.code
      BY <2>2 DEF Sound, Tables, install_breakpoint
    <3> QED BY <3>1 DEF Sound, TextAgrees
  <2>3. CASE ~(~force /\ UserDisabled(x, b)) /\ x.enabled[b]
    <3>1. /\ y.xp = [x.xp EXCEPT ![b] = TRUE] /\ y.addr = x.addr /\ y.mapped = x.mapped
          /\ x.addr[b] \in x.mapped =>
               /\ y.text = [x.text EXCEPT ![x.addr[b]] = BPT]
               /\ y.code = [x.code EXCEPT ![b] = x.text[x.addr[b]]]
          /\ x.addr[b] \notin x.mapped => y.text = x.text /\ y.code = x.code
      BY <2>3 DEF Sound, Tables, install_breakpoint, TswapIn
    <3>2. \A c \in Bp : x.xp[c] => x.addr[c] # x.addr[b]
      BY LonelyTrap
    <3>3. x.addr[b] \in Addr /\ b \in Bp
      BY DEF Sound, Tables
    <3> QED BY <3>1, <3>2, <3>3, <1>1 DEF Sound, Tables, TextAgrees
  <2> QED BY <2>1, <2>2, <2>3
<1> QED BY <1>1, <1>2, <1>3, <1>4 DEF Sound

(* uninstall_breakpoint puts the program's opcode back. *)
LEMMA UninstallSound ==
  ASSUME NEW x, Sound(x), NEW b \in x.live
  PROVE  /\ Sound(uninstall_breakpoint(x, b))
         /\ uninstall_breakpoint(x, b).xp = [x.xp EXCEPT ![b] = FALSE]
         /\ uninstall_breakpoint(x, b).installed = [x.installed EXCEPT ![b] = FALSE]
         /\ uninstall_breakpoint(x, b).live = x.live
<1> DEFINE y == uninstall_breakpoint(x, b)
<1>0. b \in Bp /\ x \in Tables
  BY DEF Sound, Tables
<1>1. y \in Tables
  BY <1>0, TableAssumption, ZenonT(60) DEF Tables, uninstall_breakpoint, TswapOut, Code
<1>2. /\ y.live = x.live /\ y.xp = [x.xp EXCEPT ![b] = FALSE]
      /\ y.installed = [x.installed EXCEPT ![b] = FALSE]
      /\ y.enabled = x.enabled /\ y.addr = x.addr /\ y.user = x.user
      /\ y.inactive = x.inactive /\ y.solib = x.solib /\ y.global = x.global
      /\ y.code = x.code /\ y.mapped = x.mapped
  BY <1>0 DEF Sound, FlagsAgree, Tables, uninstall_breakpoint, TswapOut
<1>3. FlagsAgree(y) /\ AddressesApart(y) /\ ExecBpApart(y)
  BY <1>0, <1>2 DEF Sound, Tables, FlagsAgree, AddressesApart, ExecBpApart, UserDisabled
<1>4. TextAgrees(y)
  <2>1. CASE ~x.xp[b]
    <3>1. y.text = x.text /\ y.xp = x.xp
      BY <2>1, <1>0, <1>2 DEF uninstall_breakpoint, Tables
    <3> QED BY <3>1, <1>2 DEF Sound, TextAgrees
  <2>2. CASE x.xp[b]
    <3>1. x.addr[b] \in Addr /\ (x.addr[b] \notin Late => x.addr[b] \in x.mapped)
      BY <1>0 DEF Sound, Tables, TextAgrees
    <3>2. /\ x.addr[b] \in x.mapped => y.text = [x.text EXCEPT ![x.addr[b]] = x.code[b]]
          /\ x.addr[b] \notin x.mapped => y.text = x.text
      BY <2>2, <1>0 DEF Sound, FlagsAgree, Tables, uninstall_breakpoint, TswapOut
    <3>3. \A c \in Bp : x.xp[c] /\ c # b => x.addr[c] # x.addr[b]
      BY <1>0, <2>2, SoundTrapsApart
    <3> QED BY <2>2, <3>1, <3>2, <3>3, <1>0, <1>1, <1>2 DEF Sound, Tables, TextAgrees
  <2> QED BY <2>1, <2>2
<1> QED BY <1>1, <1>2, <1>3, <1>4 DEF Sound

-----------------------------------------------------------------------------
(* Adding, removing and moving breakpoints. *)

(* The breakpoint freshly linked in is not installed, and its address is   *)
(* in nobody else's use, unless it is xp_execto's.                         *)
LEMMA AddSound ==
  ASSUME NEW x, Sound(x), NEW b \in Bp, b \notin x.live, NEW a \in Addr, NEW junk \in Code,
         NEW owner \in {"user", "solib", "none"},
         b # ExecBp => /\ owner = "solib" => a = LinkerAddr
                       /\ owner # "solib" => a \in UserAddrs
                       /\ \A c \in x.live : x.addr[c] # a
                       /\ ExecBp \notin x.live,
         b = ExecBp => /\ owner = "none" /\ a \in StartAddrs \ {LinkerAddr}
                       /\ \A c \in Bp : x.xp[c] => x.solib[c]
  PROVE  LET y == dx_add_breakpoint(x, b, a, junk, owner)
         IN  Sound(y) /\ y.xp = x.xp /\ y.installed = x.installed
                      /\ b \in y.live /\ y.enabled[b]
<1> DEFINE y == dx_add_breakpoint(x, b, a, junk, owner)
<1>0. x \in Tables /\ ~x.xp[b] /\ ~x.installed[b]
  BY DEF Sound, FlagsAgree
<1>1. y \in Tables
  <2>1. x.before \union ({b} \X x.live) \in SUBSET (Bp \X Bp)
    BY <1>0 DEF Tables
  <2> QED BY <2>1, <1>0 DEF dx_add_breakpoint, SetFields, Tables
<1>2. /\ y.live = x.live \union {b} /\ y.xp = x.xp /\ y.installed = x.installed
      /\ y.enabled = [x.enabled EXCEPT ![b] = TRUE]
      /\ y.addr = [x.addr EXCEPT ![b] = a] /\ y.code = [x.code EXCEPT ![b] = junk]
      /\ y.user = [x.user EXCEPT ![b] = owner = "user"] /\ y.solib = [x.solib EXCEPT ![b] = owner = "solib"]
      /\ y.inactive = [x.inactive EXCEPT ![b] = FALSE]
      /\ y.global = x.global /\ y.text = x.text /\ y.mapped = x.mapped
  <2>1. /\ y.live = x.live \union {b} /\ y.xp = [x.xp EXCEPT ![b] = FALSE]
        /\ y.installed = [x.installed EXCEPT ![b] = FALSE]
        /\ y.enabled = [x.enabled EXCEPT ![b] = TRUE]
        /\ y.addr = [x.addr EXCEPT ![b] = a] /\ y.code = [x.code EXCEPT ![b] = junk]
        /\ y.user = [x.user EXCEPT ![b] = owner = "user"] /\ y.solib = [x.solib EXCEPT ![b] = owner = "solib"]
        /\ y.inactive = [x.inactive EXCEPT ![b] = FALSE]
        /\ y.global = x.global /\ y.text = x.text /\ y.mapped = x.mapped
    BY DEF dx_add_breakpoint, SetFields
  <2> HIDE DEF y
  <2> QED BY <2>1, <1>0 DEF Tables
<1> HIDE DEF y
<1>3. FlagsAgree(y)
  BY <1>0, <1>2 DEF Sound, Tables, FlagsAgree, UserDisabled
<1>4. AddressesApart(y) /\ ExecBpApart(y)
  <2>1. y.enabled[b] /\ ~y.xp[b] /\ (y.user[b] <=> owner = "user")
    BY <1>0, <1>2, ZenonT(60) DEF Tables
  <2>2. y.addr[b] = a /\ (y.solib[b] <=> owner = "solib")
    BY <1>0, <1>2, ZenonT(60) DEF Tables
  <2>3. /\ \A c \in x.live : y.addr[c] = x.addr[c] /\ y.solib[c] = x.solib[c]
        /\ \A c \in Bp : x.xp[c] => c \in x.live
    BY <1>0, <1>2 DEF Sound, FlagsAgree, Tables
  <2>4. /\ \A c, d \in Listed(x) : x.addr[c] = x.addr[d] => c = d
        /\ \A c \in Listed(x) : IF x.solib[c] THEN x.addr[c] = LinkerAddr
                                               ELSE x.addr[c] \in UserAddrs
    BY DEF Sound, AddressesApart
  <2>5. CASE b # ExecBp
    <3>1. AddressesApart(y)
      BY <1>2, <2>2, <2>3, <2>4, <2>5 DEF AddressesApart
    <3>2. ExecBp \notin y.live
      BY <1>2, <2>5
    <3> QED BY <3>1, <3>2 DEF ExecBpApart
  <2>6. CASE b = ExecBp
    <3>1. AddressesApart(y)
      BY <1>2, <2>3, <2>4, <2>6 DEF AddressesApart
    <3>2. ~y.user[b] /\ ~y.solib[b] /\ y.enabled[b] /\ y.addr[b] \in StartAddrs \ {LinkerAddr}
      BY <2>1, <2>2, <2>6
    <3>3. \A c \in Bp : y.xp[c] => y.solib[c]
      BY <1>2, <2>3, <2>6
    <3> QED BY <2>6, <3>1, <3>2, <3>3 DEF ExecBpApart
  <2> QED BY <2>5, <2>6
<1>5. TextAgrees(y)
  BY <1>0, <1>2 DEF Sound, Tables, TextAgrees
<1> QED BY <1>0, <1>1, <1>2, <1>3, <1>4, <1>5 DEF Sound, Tables, y

(* Unlinking a breakpoint that is not in the text. *)
LEMMA UnlinkSound ==
  ASSUME NEW x, Sound(x), NEW b \in x.live, ~x.xp[b]
  PROVE  /\ Sound(Unlink(x, b))
         /\ Unlink(x, b).xp = x.xp
         /\ Unlink(x, b).installed = [x.installed EXCEPT ![b] = FALSE]
<1> DEFINE y == Unlink(x, b)
<1>0. b \in Bp /\ x \in Tables /\ NoAddr \in Addr /\ NoCode \in Code
  BY TableAssumption DEF Sound, Tables, NoAddr, NoCode, Code
<1>1. y \in Tables
  <2>1. {p \in x.before : p[1] # b /\ p[2] # b} \in SUBSET (Bp \X Bp)
    BY <1>0 DEF Tables
  <2> QED BY <2>1, <1>0 DEF Unlink, SetFields, Tables
<1>2. /\ y.live = x.live \ {b} /\ y.xp = x.xp
      /\ y.installed = [x.installed EXCEPT ![b] = FALSE]
      /\ y.enabled = [x.enabled EXCEPT ![b] = FALSE]
      /\ y.addr = [x.addr EXCEPT ![b] = NoAddr] /\ y.code = [x.code EXCEPT ![b] = NoCode]
      /\ y.user = [x.user EXCEPT ![b] = FALSE] /\ y.solib = [x.solib EXCEPT ![b] = FALSE]
      /\ y.inactive = [x.inactive EXCEPT ![b] = FALSE]
      /\ y.global = x.global /\ y.text = x.text /\ y.mapped = x.mapped
  <2>1. [x.xp EXCEPT ![b] = FALSE] = x.xp
    BY <1>0 DEF Tables
  <2> QED BY <1>0, <2>1 DEF Unlink, SetFields
<1>3. FlagsAgree(y)
  BY <1>0, <1>2 DEF Sound, Tables, FlagsAgree, UserDisabled
<1>4. AddressesApart(y) /\ ExecBpApart(y)
  BY <1>0, <1>2 DEF Sound, Tables, AddressesApart, ExecBpApart
<1>5. TextAgrees(y)
  BY <1>0, <1>2 DEF Sound, Tables, TextAgrees
<1> QED BY <1>0, <1>1, <1>2, <1>3, <1>4, <1>5 DEF Sound

(* dx_remove_breakpoint takes the trap out first. *)
LEMMA RemoveSound ==
  ASSUME NEW x, Sound(x), NEW b \in x.live
  PROVE  /\ Sound(dx_remove_breakpoint(x, b))
         /\ dx_remove_breakpoint(x, b).xp = [x.xp EXCEPT ![b] = FALSE]
         /\ dx_remove_breakpoint(x, b).installed = [x.installed EXCEPT ![b] = FALSE]
<1>0. b \in Bp /\ x \in Tables
  BY DEF Sound, Tables
<1>1. CASE x.xp[b]
  <2> DEFINE u == uninstall_breakpoint(x, b)
  <2>1. /\ Sound(u) /\ u.live = x.live /\ u.xp = [x.xp EXCEPT ![b] = FALSE]
        /\ u.installed = [x.installed EXCEPT ![b] = FALSE]
    BY UninstallSound
  <2>2. ~u.xp[b] /\ b \in u.live /\ dx_remove_breakpoint(x, b) = Unlink(u, b)
    BY <1>0, <1>1, <2>1 DEF Tables, dx_remove_breakpoint
  <2>3. /\ Sound(Unlink(u, b)) /\ Unlink(u, b).xp = u.xp
        /\ Unlink(u, b).installed = [u.installed EXCEPT ![b] = FALSE]
    BY <2>1, <2>2, UnlinkSound
  <2> QED BY <1>0, <2>1, <2>2, <2>3 DEF Tables
<1>2. CASE ~x.xp[b]
  <2>1. dx_remove_breakpoint(x, b) = Unlink(x, b)
    BY <1>2 DEF dx_remove_breakpoint
  <2>2. /\ Sound(Unlink(x, b)) /\ Unlink(x, b).xp = x.xp
        /\ Unlink(x, b).installed = [x.installed EXCEPT ![b] = FALSE]
    BY <1>2, UnlinkSound
  <2>3. x.xp = [x.xp EXCEPT ![b] = FALSE]
    BY <1>0, <1>2 DEF Tables
  <2> QED BY <2>1, <2>2, <2>3
<1> QED BY <1>1, <1>2

(* change_breakpoint_address on every breakpoint of an object, with none   *)
(* of them installed: lines that were apart stay apart.                    *)
LEMMA MoveSound ==
  ASSUME NEW x, Sound(x), ExecBp \notin x.live, NEW move \in Relocations,
         \A b \in Bp : x.xp[b] => x.solib[b],
         \A b, c \in x.live : x.user[b] /\ ~x.user[c] => move[x.addr[b]] # x.addr[c]
  PROVE  LET y == [x EXCEPT !.addr = [b \in Bp |-> IF b \in x.live /\ x.user[b]
                                                   THEN move[x.addr[b]] ELSE x.addr[b]]]
         IN  Sound(y) /\ y.xp = x.xp /\ y.installed = x.installed
<1> DEFINE f == [b \in Bp |-> IF b \in x.live /\ x.user[b] THEN move[x.addr[b]] ELSE x.addr[b]]
           y == [x EXCEPT !.addr = f]
<1>0. /\ x \in Tables /\ x.live \subseteq Bp
      /\ \A b \in x.live : x.user[b] => ~x.solib[b] /\ ~x.xp[b]
  BY DEF Sound, Tables, FlagsAgree
<1>1. \A b \in x.live : IF x.solib[b] THEN x.addr[b] = LinkerAddr ELSE x.addr[b] \in UserAddrs
  BY DEF Sound, AddressesApart
<1>2. /\ \A a \in UserAddrs : move[a] \in UserAddrs
      /\ \A a, c \in UserAddrs : move[a] = move[c] => a = c
  BY DEF Relocations
<1>3. \A b \in Bp : f[b] = IF b \in x.live /\ x.user[b] THEN move[x.addr[b]] ELSE x.addr[b]
  OBVIOUS
<1>4. f \in [Bp -> Addr]
  <2>1. \A b \in Bp : f[b] \in Addr
    BY <1>0, <1>1, <1>2, AddrAssumption DEF Tables
  <2> QED BY <2>1
<1> HIDE DEF f
<1>5. /\ y \in Tables
      /\ y.live = x.live /\ y.xp = x.xp /\ y.installed = x.installed /\ y.enabled = x.enabled
      /\ y.addr = f /\ y.code = x.code
      /\ y.user = x.user /\ y.solib = x.solib /\ y.inactive = x.inactive
      /\ y.global = x.global /\ y.text = x.text /\ y.mapped = x.mapped
  BY <1>0, <1>4 DEF Tables
<1> HIDE DEF y
<1>6. FlagsAgree(y) /\ ExecBpApart(y)
  BY <1>5 DEF Sound, FlagsAgree, ExecBpApart, UserDisabled
<1>7. AddressesApart(y)
  <2>1. ASSUME NEW b \in x.live, NEW c \in x.live, f[b] = f[c] PROVE b = c
    <3>0. x.user[b] \in BOOLEAN /\ x.user[c] \in BOOLEAN /\ b \in Bp /\ c \in Bp
      BY <1>0 DEF Tables
    <3>1. x.addr[b] = x.addr[c] => b = c
      BY DEF Sound, AddressesApart
    <3>2. CASE x.user[b] /\ x.user[c]
      BY <3>0, <3>1, <3>2, <2>1, <1>0, <1>1, <1>2, <1>3
    <3>3. CASE x.user[b] /\ ~x.user[c]
      BY <3>0, <3>3, <2>1, <1>3
    <3>4. CASE ~x.user[b] /\ x.user[c]
      BY <3>0, <3>4, <2>1, <1>3
    <3>5. CASE ~x.user[b] /\ ~x.user[c]
      BY <3>0, <3>1, <3>5, <2>1, <1>3
    <3> QED BY <3>0, <3>2, <3>3, <3>4, <3>5
  <2>2. \A b \in x.live : IF x.solib[b] THEN f[b] = LinkerAddr ELSE f[b] \in UserAddrs
    BY <1>0, <1>1, <1>2, <1>3
  <2> QED BY <1>5, <2>1, <2>2 DEF AddressesApart
<1>8. TextAgrees(y)
  <2>1. \A b \in Bp : x.xp[b] => f[b] = x.addr[b]
    BY <1>0, <1>3
  <2> QED BY <1>5, <2>1 DEF Sound, TextAgrees
<1> QED BY <1>5, <1>6, <1>7, <1>8 DEF Sound, y, f

(* Activating and deactivating, one breakpoint or all of them, when no     *)
(* breakpoint that is marked as installed is disabled.                     *)
LEMMA ActivateSound ==
  ASSUME NEW x, Sound(x), \A b \in x.live : x.enabled[b] \/ ~x.installed[b],
         NEW f \in [Bp -> BOOLEAN], NEW on \in BOOLEAN
  PROVE  LET y == [x EXCEPT !.inactive = f, !.global = on]
         IN  Sound(y) /\ y.xp = x.xp /\ y.installed = x.installed
<1> DEFINE y == [x EXCEPT !.inactive = f, !.global = on]
<1>0. x \in Tables
  BY DEF Sound
<1>1. y \in Tables
  BY <1>0 DEF Tables
<1>2. /\ y.live = x.live /\ y.xp = x.xp /\ y.installed = x.installed /\ y.enabled = x.enabled
      /\ y.addr = x.addr /\ y.code = x.code /\ y.user = x.user /\ y.solib = x.solib
      /\ y.text = x.text /\ y.mapped = x.mapped
  BY <1>0 DEF Tables
<1>3. FlagsAgree(y)
  BY <1>0, <1>2 DEF Sound, Tables, FlagsAgree
<1>4. AddressesApart(y) /\ ExecBpApart(y) /\ TextAgrees(y)
  BY <1>2 DEF Sound, AddressesApart, ExecBpApart, TextAgrees
<1> QED BY <1>1, <1>2, <1>3, <1>4 DEF Sound

-----------------------------------------------------------------------------
(* The loops over the list. *)

(* Writing the traps of a set of breakpoints that are not installed: with  *)
(* addresses apart each saves the program's opcode.                        *)
LEMMA SwapInText ==
  ASSUME NEW x, Sound(x), ExecBp \notin x.live, NEW S \in SUBSET x.live, \A b \in S : ~x.xp[b]
  PROVE  LET y == SwapInSet(x, S)
         IN  /\ y \in Tables /\ TextAgrees(y)
             /\ y.xp = [b \in Bp |-> x.xp[b] \/ b \in S]
             /\ y.live = x.live /\ y.installed = x.installed /\ y.enabled = x.enabled
             /\ y.addr = x.addr /\ y.user = x.user /\ y.inactive = x.inactive
             /\ y.solib = x.solib /\ y.global = x.global
<1> DEFINE y == SwapInSet(x, S)
           Hit == {b \in S : x.addr[b] \in x.mapped}
           newcode == [b \in Bp |->
                         IF b \notin Hit THEN x.code[b]
                         ELSE IF \E c \in Hit \ {b} : x.addr[c] = x.addr[b] /\ <<c, b>> \in x.before
                              THEN BPT ELSE x.text[x.addr[b]]]
           newtext == [a \in Addr |-> IF \E b \in Hit : x.addr[b] = a THEN BPT ELSE x.text[a]]
           newxp == [b \in Bp |-> x.xp[b] \/ b \in S]
<1>0. x \in Tables /\ S \subseteq Bp
  BY DEF Sound, Tables
<1>1. newcode \in [Bp -> Code] /\ newtext \in [Addr -> Code] /\ newxp \in [Bp -> BOOLEAN]
  BY <1>0, TableAssumption DEF Tables, Code
<1>2. y = [x EXCEPT !.code = newcode, !.text = newtext, !.xp = newxp]
  BY DEF SwapInSet
<1>3. \A b \in Hit : newcode[b] = x.text[x.addr[b]]
  BY <1>0 DEF Sound, AddressesApart, ExecBpApart
<1>4. \A b \in Bp : b \notin Hit => newcode[b] = x.code[b]
  OBVIOUS
<1>5. \A b \in S : \A c \in Bp : x.xp[c] => x.addr[c] # x.addr[b]
  BY <1>0 DEF Sound, Tables, FlagsAgree, AddressesApart, ExecBpApart
<1>6. \A b \in S : x.addr[b] \notin Late => b \in Hit /\ x.text[x.addr[b]] = Orig[x.addr[b]]
  BY <1>0, <1>5 DEF Sound, Tables, TextAgrees
<1>7. \A a \in Addr : (\A b \in Bp : newxp[b] => x.addr[b] # a) => newtext[a] = x.text[a]
  BY <1>0
<1>8. \A b \in Bp : newxp[b] /\ x.addr[b] \notin Late => newtext[x.addr[b]] = BPT
  <2> SUFFICES ASSUME NEW b \in Bp, newxp[b], x.addr[b] \notin Late
               PROVE  newtext[x.addr[b]] = BPT
    OBVIOUS
  <2>1. x.addr[b] \in Addr
    BY <1>0 DEF Tables
  <2>2. CASE b \in S
    BY <2>1, <2>2, <1>6
  <2>3. CASE x.xp[b]
    BY <2>1, <2>3 DEF Sound, TextAgrees
  <2> QED BY <2>2, <2>3
<1>9. \A b \in Bp : newxp[b] /\ x.addr[b] \notin Late => newcode[b] = Orig[x.addr[b]]
  <2> SUFFICES ASSUME NEW b \in Bp, newxp[b], x.addr[b] \notin Late
               PROVE  newcode[b] = Orig[x.addr[b]]
    OBVIOUS
  <2>1. CASE b \in S
    BY <2>1, <1>6, <1>3
  <2>2. CASE x.xp[b]
    <3>1. b \notin Hit
      BY <2>2
    <3> QED BY <3>1, <2>2, <1>4 DEF Sound, TextAgrees
  <2> QED BY <2>1, <2>2
<1>10. \A a \in Addr \ Late : (\A b \in Bp : newxp[b] => x.addr[b] # a) => newtext[a] = Orig[a]
  <2> SUFFICES ASSUME NEW a \in Addr \ Late, \A b \in Bp : newxp[b] => x.addr[b] # a
               PROVE  newtext[a] = Orig[a]
    OBVIOUS
  <2>1. \A b \in Bp : x.xp[b] => x.addr[b] # a
    OBVIOUS
  <2>2. newtext[a] = x.text[a]
    BY <1>7
  <2> QED BY <2>1, <2>2 DEF Sound, TextAgrees
<1> HIDE DEF newcode, newtext, newxp, y, Hit
<1>11. /\ y \in Tables
       /\ y.xp = newxp /\ y.text = newtext /\ y.code = newcode /\ y.mapped = x.mapped
       /\ y.live = x.live /\ y.installed = x.installed /\ y.enabled = x.enabled
       /\ y.addr = x.addr /\ y.user = x.user /\ y.inactive = x.inactive
       /\ y.solib = x.solib /\ y.global = x.global
  BY <1>0, <1>1, <1>2 DEF Tables
<1>12. TextAgrees(y)
  BY <1>11, <1>8, <1>9, <1>10 DEF Sound, TextAgrees
<1> QED BY <1>11, <1>12 DEF newxp, y

(* Restoring the opcodes of a set of installed breakpoints. *)
LEMMA SwapOutText ==
  ASSUME NEW x, Sound(x), NEW S \in SUBSET x.live, \A b \in S : x.xp[b]
  PROVE  LET y == SwapOutSet(x, S)
         IN  /\ y \in Tables /\ TextAgrees(y)
             /\ y.xp = [b \in Bp |-> x.xp[b] /\ b \notin S]
             /\ y.live = x.live /\ y.installed = x.installed /\ y.enabled = x.enabled
             /\ y.addr = x.addr /\ y.user = x.user /\ y.inactive = x.inactive
             /\ y.solib = x.solib /\ y.global = x.global
<1> DEFINE y == SwapOutSet(x, S)
           At(a) == {b \in S : x.addr[b] = a}
           LastOf(Q) == CHOOSE b \in Q : \A c \in Q \ {b} : <<c, b>> \in x.before
           newtext == [a \in Addr |-> IF a \in x.mapped /\ At(a) # {}
                                      THEN x.code[LastOf(At(a))] ELSE x.text[a]]
           newxp == [b \in Bp |-> x.xp[b] /\ b \notin S]
<1>0. x \in Tables /\ S \subseteq Bp
  BY DEF Sound, Tables
<1>1. \A b \in S : At(x.addr[b]) = {b}
  BY <1>0, SoundTrapsApart
<1>2. \A b \in Bp : LastOf({b}) = b
  OBVIOUS
<1>3. \A b \in S : LastOf(At(x.addr[b])) = b /\ At(x.addr[b]) # {}
  BY <1>0, <1>1, <1>2
<1> HIDE DEF LastOf
<1>4. \A b \in S : newtext[x.addr[b]] = IF x.addr[b] \in x.mapped THEN x.code[b]
                                                                  ELSE x.text[x.addr[b]]
  BY <1>0, <1>3 DEF Tables
<1>5. \A a \in Addr : (\A b \in S : x.addr[b] # a) => newtext[a] = x.text[a]
  OBVIOUS
<1>6. newtext \in [Addr -> Code] /\ newxp \in [Bp -> BOOLEAN]
  <2>1. \A a \in Addr : newtext[a] \in Code
    <3> SUFFICES ASSUME NEW a \in Addr PROVE newtext[a] \in Code
      OBVIOUS
    <3>1. CASE \E b \in S : x.addr[b] = a
      <4>1. PICK b \in S : x.addr[b] = a
        BY <3>1
      <4>2. newtext[a] = x.code[b] \/ newtext[a] = x.text[a]
        BY <4>1, <1>4
      <4> QED BY <4>1, <4>2, <1>0 DEF Tables
    <3>2. CASE \A b \in S : x.addr[b] # a
      BY <3>2, <1>0, <1>5 DEF Tables
    <3> QED BY <3>1, <3>2
  <2> QED BY <1>0, <2>1 DEF Tables
<1>7. y = [x EXCEPT !.text = newtext, !.xp = newxp]
  BY DEF SwapOutSet, LastOf
<1>8. \A b \in Bp : newxp[b] => \A c \in S : x.addr[c] # x.addr[b]
  BY <1>0, SoundTrapsApart
<1>9. \A b \in Bp : newxp[b] /\ x.addr[b] \notin Late
        => newtext[x.addr[b]] = BPT /\ x.code[b] = Orig[x.addr[b]]
  <2> SUFFICES ASSUME NEW b \in Bp, newxp[b], x.addr[b] \notin Late
               PROVE  newtext[x.addr[b]] = BPT /\ x.code[b] = Orig[x.addr[b]]
    OBVIOUS
  <2>1. x.addr[b] \in Addr /\ x.xp[b]
    BY <1>0 DEF Tables
  <2>2. newtext[x.addr[b]] = x.text[x.addr[b]]
    BY <2>1, <1>8, <1>5
  <2> QED BY <2>1, <2>2 DEF Sound, TextAgrees
<1>10. \A a \in Addr \ Late : (\A b \in Bp : newxp[b] => x.addr[b] # a) => newtext[a] = Orig[a]
  <2> SUFFICES ASSUME NEW a \in Addr \ Late, \A b \in Bp : newxp[b] => x.addr[b] # a
               PROVE  newtext[a] = Orig[a]
    OBVIOUS
  <2>1. CASE \E b \in S : x.addr[b] = a
    <3>1. PICK b \in S : x.addr[b] = a
      BY <2>1
    <3>2. a \in x.mapped /\ x.code[b] = Orig[a]
      BY <3>1, <1>0 DEF Sound, TextAgrees
    <3>3. newtext[a] = x.code[b]
      BY <3>1, <3>2, <1>4
    <3> QED BY <3>2, <3>3
  <2>2. CASE \A b \in S : x.addr[b] # a
    <3>1. \A b \in Bp : x.xp[b] => x.addr[b] # a
      BY <2>2
    <3> QED BY <2>2, <3>1, <1>5 DEF Sound, TextAgrees
  <2> QED BY <2>1, <2>2
<1> HIDE DEF newtext, newxp, y
<1>11. /\ y \in Tables
       /\ y.xp = newxp /\ y.text = newtext /\ y.code = x.code /\ y.mapped = x.mapped
       /\ y.live = x.live /\ y.installed = x.installed /\ y.enabled = x.enabled
       /\ y.addr = x.addr /\ y.user = x.user /\ y.inactive = x.inactive
       /\ y.solib = x.solib /\ y.global = x.global
  BY <1>0, <1>6, <1>7 DEF Tables
<1>12. TextAgrees(y)
  BY <1>11, <1>9, <1>10 DEF Sound, TextAgrees
<1> QED BY <1>11, <1>12 DEF newxp, y

(* install_all_breakpoints *)
LEMMA InstallAllSound ==
  ASSUME NEW x, Sound(x), ExecBp \notin x.live
  PROVE  Sound(install_all_breakpoints(x))
<1> DEFINE Todo == {b \in x.live : ~x.xp[b] /\ ~UserDisabled(x, b)}
           S == {b \in Todo : x.enabled[b]}
           w == SwapInSet(x, S)
           f == [b \in Bp |-> x.installed[b] \/ b \in Todo]
           y == [w EXCEPT !.installed = f, !.enabled = w.enabled]
<1>0. x \in Tables /\ f \in [Bp -> BOOLEAN]
  BY DEF Sound, Tables
<1>1. /\ w \in Tables /\ TextAgrees(w)
      /\ w.xp = [b \in Bp |-> x.xp[b] \/ b \in S]
      /\ w.live = x.live /\ w.installed = x.installed /\ w.enabled = x.enabled
      /\ w.addr = x.addr /\ w.user = x.user /\ w.inactive = x.inactive
      /\ w.solib = x.solib /\ w.global = x.global
  <2> HIDE DEF w
  <2>1. S \in SUBSET x.live /\ \A b \in S : ~x.xp[b]
    OBVIOUS
  <2> QED BY <2>1, SwapInText DEF w
<1>2. install_all_breakpoints(x) = y
  <2>1. install_all_breakpoints(x) = [w EXCEPT !.installed = f]
    BY DEF install_all_breakpoints
  <2> HIDE DEF w, f
  <2>2. [w EXCEPT !.installed = f] = [w EXCEPT !.installed = f, !.enabled = w.enabled]
    BY <1>0, <1>1 DEF Tables
  <2> QED BY <2>1, <2>2
<1> HIDE DEF w
<1>3. /\ y \in Tables /\ y.installed = f /\ y.enabled = x.enabled
      /\ y.xp = w.xp /\ y.live = w.live /\ y.addr = w.addr /\ y.code = w.code
      /\ y.user = w.user /\ y.inactive = w.inactive /\ y.solib = w.solib
      /\ y.global = w.global /\ y.text = w.text /\ y.mapped = w.mapped
  <2>1. w.enabled \in [Bp -> BOOLEAN]
    BY <1>1 DEF Tables
  <2> HIDE DEF f
  <2> QED BY <1>0, <1>1, <2>1 DEF Tables
<1> HIDE DEF y
<1>4. FlagsAgree(y)
  <2> SUFFICES ASSUME NEW b \in Bp
               PROVE  /\ y.installed[b] => b \in y.live
                      /\ y.xp[b] => y.enabled[b] /\ y.installed[b]
                      /\ y.installed[b] /\ ~y.xp[b] => ~y.enabled[b] /\ ~UserDisabled(y, b)
                      /\ y.user[b] => ~y.solib[b]
    BY DEF FlagsAgree
  <2>1. /\ x.installed[b] => b \in x.live
        /\ x.xp[b] => x.enabled[b] /\ x.installed[b]
        /\ x.installed[b] /\ ~x.xp[b] => ~x.enabled[b] /\ ~UserDisabled(x, b)
        /\ x.user[b] => ~x.solib[b]
    BY DEF Sound, FlagsAgree
  <2>2. UserDisabled(y, b) = UserDisabled(x, b)
    BY <1>1, <1>3 DEF UserDisabled
  <2>3. /\ y.xp[b] <=> x.xp[b] \/ (b \in Todo /\ x.enabled[b])
        /\ y.installed[b] <=> x.installed[b] \/ b \in Todo
    BY <1>0, <1>1, <1>3, ZenonT(60)
  <2> QED BY <1>1, <1>3, <2>1, <2>2, <2>3
<1>5. AddressesApart(y) /\ ExecBpApart(y) /\ TextAgrees(y)
  BY <1>1, <1>3 DEF Sound, AddressesApart, ExecBpApart, TextAgrees
<1> QED BY <1>2, <1>3, <1>4, <1>5 DEF Sound

(* uninstall_all_breakpoints leaves no trap in the text. *)
LEMMA UninstallAllSound ==
  ASSUME NEW x, Sound(x)
  PROVE  LET y == uninstall_all_breakpoints(x)
         IN  /\ Sound(y)
             /\ y.xp = [b \in Bp |-> FALSE]
             /\ y.installed = [b \in Bp |-> x.installed[b] /\ ~x.xp[b]]
             /\ y.live = x.live /\ y.solib = x.solib /\ y.enabled = x.enabled
<1> DEFINE Mine == {b \in x.live : x.xp[b]}
           S == {b \in Mine : x.enabled[b]}
           w == SwapOutSet(x, S)
           f == [b \in Bp |-> x.installed[b] /\ b \notin Mine]
           y == [w EXCEPT !.installed = f, !.enabled = w.enabled]
<1>0. x \in Tables /\ f \in [Bp -> BOOLEAN]
  BY DEF Sound, Tables
<1>1. /\ w \in Tables /\ TextAgrees(w)
      /\ w.xp = [b \in Bp |-> x.xp[b] /\ b \notin S]
      /\ w.live = x.live /\ w.installed = x.installed /\ w.enabled = x.enabled
      /\ w.addr = x.addr /\ w.user = x.user /\ w.inactive = x.inactive
      /\ w.solib = x.solib /\ w.global = x.global
  <2> HIDE DEF w
  <2>1. S \in SUBSET x.live /\ \A b \in S : x.xp[b]
    OBVIOUS
  <2> QED BY <2>1, SwapOutText DEF w
<1>2. uninstall_all_breakpoints(x) = y
  <2>1. uninstall_all_breakpoints(x) = [w EXCEPT !.installed = f]
    BY DEF uninstall_all_breakpoints
  <2> HIDE DEF w, f
  <2>2. [w EXCEPT !.installed = f] = [w EXCEPT !.installed = f, !.enabled = w.enabled]
    BY <1>0, <1>1 DEF Tables
  <2> QED BY <2>1, <2>2
<1> HIDE DEF w
<1>3. /\ y \in Tables /\ y.installed = f /\ y.enabled = x.enabled
      /\ y.xp = w.xp /\ y.live = w.live /\ y.addr = w.addr /\ y.code = w.code
      /\ y.user = w.user /\ y.inactive = w.inactive /\ y.solib = w.solib
      /\ y.global = w.global /\ y.text = w.text /\ y.mapped = w.mapped
  <2>1. w.enabled \in [Bp -> BOOLEAN]
    BY <1>1 DEF Tables
  <2> HIDE DEF f
  <2> QED BY <1>0, <1>1, <2>1 DEF Tables
<1> HIDE DEF y
<1>4. \A b \in Bp : x.xp[b] => b \in S
  BY <1>0 DEF Sound, FlagsAgree
<1>5. w.xp = [b \in Bp |-> FALSE] /\ f = [b \in Bp |-> x.installed[b] /\ ~x.xp[b]]
  BY <1>0, <1>1, <1>4, ZenonT(60) DEF Tables
<1>6. FlagsAgree(y)
  <2> SUFFICES ASSUME NEW b \in Bp
               PROVE  /\ y.installed[b] => b \in y.live
                      /\ y.xp[b] => y.enabled[b] /\ y.installed[b]
                      /\ y.installed[b] /\ ~y.xp[b] => ~y.enabled[b] /\ ~UserDisabled(y, b)
                      /\ y.user[b] => ~y.solib[b]
    BY DEF FlagsAgree
  <2>1. ~y.xp[b] /\ (y.installed[b] <=> x.installed[b] /\ ~x.xp[b])
    <3> HIDE DEF f
    <3> QED BY <1>0, <1>3, <1>5 DEF Tables
  <2>2. /\ x.installed[b] => b \in x.live
        /\ x.installed[b] /\ ~x.xp[b] => ~x.enabled[b] /\ ~UserDisabled(x, b)
        /\ x.user[b] => ~x.solib[b]
    BY DEF Sound, FlagsAgree
  <2>3. UserDisabled(y, b) <=> UserDisabled(x, b)
    BY <1>1, <1>3 DEF UserDisabled
  <2>4. y.live = x.live /\ y.enabled = x.enabled /\ y.user = x.user /\ y.solib = x.solib
    BY <1>1, <1>3
  <2> QED BY <2>1, <2>2, <2>3, <2>4
<1>7. AddressesApart(y) /\ TextAgrees(y)
  BY <1>1, <1>3 DEF Sound, AddressesApart, TextAgrees
<1>8. ExecBpApart(y)
  <2>1. \A b \in Bp : ~y.xp[b]
    BY <1>3, <1>5
  <2> QED BY <1>1, <1>3, <2>1 DEF Sound, ExecBpApart
<1> QED BY <1>1, <1>2, <1>3, <1>5, <1>6, <1>7, <1>8 DEF Sound

(* install_solib_event_breakpoint *)
LEMMA SolibSound ==
  ASSUME NEW x, Sound(x), ExecBp \notin x.live
  PROVE  Sound(install_solib_event_breakpoint(x))
<1> DEFINE S == {b \in x.live : x.solib[b] /\ ~x.installed[b]}
<1>0. x \in Tables
  BY DEF Sound
<1>1. CASE S = {}
  BY <1>1 DEF install_solib_event_breakpoint
<1>2. CASE S # {}
  <2>1. \A b, c \in S : b = c
    BY <1>0 DEF Sound, AddressesApart, ExecBpApart
  <2>2. PICK b \in S : S = {b}
    BY <1>2, <2>1
  <2>3. FirstOf(x, {b}) = b
    BY DEF FirstOf
  <2>4. install_solib_event_breakpoint(x) = install_breakpoint(x, b, FALSE)
    BY <2>2, <2>3 DEF install_solib_event_breakpoint
  <2>5. b \in x.live /\ ~x.xp[b]
    BY <1>0 DEF Sound, FlagsAgree, Tables
  <2> QED BY <2>4, <2>5, InstallSound
<1> QED BY <1>1, <1>2

-----------------------------------------------------------------------------
(* Enabling and disabling. *)

(* Enabling a breakpoint that is not marked changes one flag. *)
LEMMA EnableUnmarked ==
  ASSUME NEW x, Sound(x), NEW b \in x.live, ~x.xp[b]
  PROVE  LET e == [x EXCEPT !.enabled[b] = TRUE, !.installed[b] = FALSE]
         IN  /\ Sound(e) /\ e.xp = x.xp /\ e.installed = [x.installed EXCEPT ![b] = FALSE]
             /\ e.live = x.live /\ e.enabled[b]
<1> DEFINE e == [x EXCEPT !.enabled[b] = TRUE, !.installed[b] = FALSE]
<1>0. b \in Bp /\ x \in Tables
  BY DEF Sound, Tables
<1>1. /\ e \in Tables /\ e.enabled = [x.enabled EXCEPT ![b] = TRUE]
      /\ e.installed = [x.installed EXCEPT ![b] = FALSE]
      /\ e.xp = x.xp /\ e.live = x.live /\ e.addr = x.addr /\ e.code = x.code
      /\ e.user = x.user /\ e.inactive = x.inactive /\ e.solib = x.solib
      /\ e.global = x.global /\ e.text = x.text /\ e.mapped = x.mapped
  BY <1>0 DEF Tables
<1> HIDE DEF e
<1>2. FlagsAgree(e)
  BY <1>0, <1>1 DEF Sound, Tables, FlagsAgree, UserDisabled
<1>3. AddressesApart(e) /\ ExecBpApart(e) /\ TextAgrees(e) /\ e.enabled[b]
  BY <1>0, <1>1 DEF Sound, Tables, AddressesApart, ExecBpApart, TextAgrees
<1> QED BY <1>1, <1>2, <1>3 DEF Sound, e

(* set_enabled(xp, bp, TRUE) *)
LEMMA EnableSound ==
  ASSUME NEW x, Sound(x), ExecBp \notin x.live, NEW b \in x.live
  PROVE  /\ Sound(EnableOne(x, b))
         /\ (\A c \in Bp : ~x.installed[c] /\ ~x.xp[c])
              => \A c \in Bp : ~EnableOne(x, b).installed[c] /\ ~EnableOne(x, b).xp[c]
<1> DEFINE e == [x EXCEPT !.enabled[b] = TRUE]
           u == [x EXCEPT !.enabled[b] = TRUE, !.installed[b] = FALSE]
<1>0. b \in Bp /\ x \in Tables
  BY DEF Sound, Tables
<1>1. CASE x.xp[b]
  <2>1. EnableOne(x, b) = x
    <3>1. x.enabled[b]
      BY <1>0, <1>1 DEF Sound, FlagsAgree
    <3>2. [x.enabled EXCEPT ![b] = TRUE] = x.enabled
      BY <1>0, <3>1 DEF Tables
    <3>3. e = x
      BY <1>0, <3>2 DEF Tables
    <3> QED BY <1>1, <3>3 DEF EnableOne
  <2> QED BY <2>1
<1>2. CASE ~x.xp[b] /\ ~x.installed[b]
  <2>1. e = u
    <3>1. [x.installed EXCEPT ![b] = FALSE] = x.installed
      BY <1>0, <1>2 DEF Tables
    <3> QED BY <1>0, <3>1 DEF Tables
  <2>2. EnableOne(x, b) = u
    BY <1>2, <2>1 DEF EnableOne
  <2>3. Sound(u) /\ u.xp = x.xp /\ u.installed = [x.installed EXCEPT ![b] = FALSE]
    BY <1>2, EnableUnmarked
  <2> HIDE DEF u
  <2> QED BY <1>0, <1>2, <2>2, <2>3 DEF Tables
<1>3. CASE ~x.xp[b] /\ x.installed[b]
  <2>1. /\ Sound(u) /\ u.xp = x.xp /\ u.live = x.live /\ u.enabled[b]
    BY <1>3, EnableUnmarked
  <2>2. Sound(install_breakpoint(u, b, FALSE))
    <3> HIDE DEF u
    <3> QED BY <1>3, <2>1, InstallSound
  <2>3. ~UserDisabled(x, b)
    BY <1>0, <1>3 DEF Sound, FlagsAgree
  <2>4. ~UserDisabled(e, b) /\ ~UserDisabled(u, b)
    BY <1>0, <2>3 DEF UserDisabled, Tables
  <2>5. install_breakpoint(u, b, FALSE) = install_breakpoint(e, b, FALSE)
    <3>1. /\ install_breakpoint(u, b, FALSE)
               = [TswapIn(u, b) EXCEPT !.xp[b] = TRUE, !.installed[b] = TRUE]
          /\ install_breakpoint(e, b, FALSE)
               = [TswapIn(e, b) EXCEPT !.xp[b] = TRUE, !.installed[b] = TRUE]
      BY <1>0, <2>4 DEF install_breakpoint, Tables
    <3>2. [x.installed EXCEPT ![b] = TRUE]
            = [[x.installed EXCEPT ![b] = FALSE] EXCEPT ![b] = TRUE]
      BY <1>0 DEF Tables
    <3>3. [TswapIn(u, b) EXCEPT !.xp[b] = TRUE, !.installed[b] = TRUE]
            = [TswapIn(e, b) EXCEPT !.xp[b] = TRUE, !.installed[b] = TRUE]
      BY <1>0, <3>2 DEF TswapIn, Tables
    <3> QED BY <3>1, <3>3
  <2>6. EnableOne(x, b) = install_breakpoint(e, b, FALSE)
    BY <1>3 DEF EnableOne
  <2> QED BY <1>0, <1>3, <2>2, <2>5, <2>6
<1> QED BY <1>1, <1>2, <1>3

(* set_enabled(xp, NULL, TRUE) puts back what waited, disabled, to be      *)
(* installed.                                                              *)
LEMMA EnableAllSound ==
  ASSUME NEW x, Sound(x), ExecBp \notin x.live
  PROVE  /\ Sound(EnableAll(x))
         /\ (\A c \in Bp : ~x.installed[c] /\ ~x.xp[c])
              => \A c \in Bp : ~EnableAll(x).installed[c] /\ ~EnableAll(x).xp[c]
<1> DEFINE S == {b \in x.live : ~x.xp[b] /\ x.installed[b] /\ ~UserDisabled(x, b)}
           w == SwapInSet(x, S)
           g == [b \in Bp |-> x.enabled[b] \/ b \in x.live]
           y == EnableAll(x)
<1>0. x \in Tables /\ g \in [Bp -> BOOLEAN]
  BY DEF Sound, Tables
<1>1. /\ w \in Tables /\ TextAgrees(w)
      /\ w.xp = [b \in Bp |-> x.xp[b] \/ b \in S]
      /\ w.live = x.live /\ w.installed = x.installed /\ w.enabled = x.enabled
      /\ w.addr = x.addr /\ w.user = x.user /\ w.inactive = x.inactive
      /\ w.solib = x.solib /\ w.global = x.global
  <2> HIDE DEF w
  <2>1. S \in SUBSET x.live /\ \A b \in S : ~x.xp[b]
    OBVIOUS
  <2> QED BY <2>1, SwapInText DEF w
<1>2. y = [w EXCEPT !.enabled = g]
  BY DEF EnableAll
<1> HIDE DEF w, y
<1>3. /\ y \in Tables /\ y.enabled = g /\ y.installed = x.installed
      /\ y.xp = w.xp /\ y.live = w.live /\ y.addr = w.addr /\ y.code = w.code
      /\ y.user = w.user /\ y.inactive = w.inactive /\ y.solib = w.solib
      /\ y.global = w.global /\ y.text = w.text /\ y.mapped = w.mapped
  <2> HIDE DEF g
  <2> QED BY <1>0, <1>1, <1>2 DEF Tables
<1>4. FlagsAgree(y)
  <2> SUFFICES ASSUME NEW b \in Bp
               PROVE  /\ y.installed[b] => b \in y.live
                      /\ y.xp[b] => y.enabled[b] /\ y.installed[b]
                      /\ y.installed[b] /\ ~y.xp[b] => ~y.enabled[b] /\ ~UserDisabled(y, b)
                      /\ y.user[b] => ~y.solib[b]
    BY DEF FlagsAgree
  <2>1. /\ x.installed[b] => b \in x.live
        /\ x.xp[b] => x.enabled[b] /\ x.installed[b]
        /\ x.installed[b] /\ ~x.xp[b] => ~x.enabled[b] /\ ~UserDisabled(x, b)
        /\ x.user[b] => ~x.solib[b]
    BY DEF Sound, FlagsAgree
  <2>2. /\ y.xp[b] <=> x.xp[b] \/ b \in S
        /\ y.enabled[b] <=> x.enabled[b] \/ b \in x.live
    BY <1>0, <1>1, <1>3, ZenonT(60)
  <2> QED BY <1>1, <1>3, <2>1, <2>2
<1>5. AddressesApart(y) /\ ExecBpApart(y) /\ TextAgrees(y)
  BY <1>1, <1>3 DEF Sound, AddressesApart, ExecBpApart, TextAgrees
<1> QED BY <1>0, <1>1, <1>3, <1>4, <1>5 DEF Sound, y

(* set_enabled(xp, NULL, FALSE) takes every trap out. *)
LEMMA DisableAllSound ==
  ASSUME NEW x, Sound(x), ExecBp \notin x.live
  PROVE  /\ Sound(DisableAll(x))
         /\ \A c \in Bp : ~x.installed[c] => ~DisableAll(x).installed[c]
         /\ \A c \in Bp : ~DisableAll(x).xp[c]
<1> DEFINE Mine == {b \in x.live : x.xp[b]}
           S == {b \in Mine : x.enabled[b]}
           w == SwapOutSet(x, S)
           f == [b \in Bp |-> x.installed[b] /\ b \notin Mine]
           g == [b \in Bp |-> x.enabled[b] /\ b \notin x.live]
           y == DisableAll(x)
<1>0. x \in Tables /\ f \in [Bp -> BOOLEAN] /\ g \in [Bp -> BOOLEAN]
  BY DEF Sound, Tables
<1>1. /\ w \in Tables /\ TextAgrees(w)
      /\ w.xp = [b \in Bp |-> x.xp[b] /\ b \notin S]
      /\ w.live = x.live /\ w.installed = x.installed /\ w.enabled = x.enabled
      /\ w.addr = x.addr /\ w.user = x.user /\ w.inactive = x.inactive
      /\ w.solib = x.solib /\ w.global = x.global
  <2> HIDE DEF w
  <2>1. S \in SUBSET x.live /\ \A b \in S : x.xp[b]
    OBVIOUS
  <2> QED BY <2>1, SwapOutText DEF w
<1>2. y = [w EXCEPT !.installed = f, !.enabled = g]
  BY DEF DisableAll
<1> HIDE DEF w, y
<1>3. /\ y \in Tables /\ y.enabled = g /\ y.installed = f
      /\ y.xp = w.xp /\ y.live = w.live /\ y.addr = w.addr /\ y.code = w.code
      /\ y.user = w.user /\ y.inactive = w.inactive /\ y.solib = w.solib
      /\ y.global = w.global /\ y.text = w.text /\ y.mapped = w.mapped
  <2> HIDE DEF f, g
  <2> QED BY <1>0, <1>1, <1>2 DEF Tables
<1>4. \A b \in Bp : x.xp[b] => b \in S
  BY <1>0 DEF Sound, FlagsAgree
<1>5. \A b \in Bp : ~y.xp[b] /\ (y.installed[b] <=> x.installed[b] /\ ~x.xp[b])
  <2> SUFFICES ASSUME NEW b \in Bp
               PROVE  ~y.xp[b] /\ (y.installed[b] <=> x.installed[b] /\ ~x.xp[b])
    OBVIOUS
  <2>1. y.xp[b] <=> x.xp[b] /\ b \notin S
    BY <1>1, <1>3, ZenonT(60)
  <2>2. y.installed[b] <=> x.installed[b] /\ b \notin Mine
    BY <1>3
  <2> QED BY <2>1, <2>2, <1>4
<1>6. FlagsAgree(y)
  <2> SUFFICES ASSUME NEW b \in Bp
               PROVE  /\ y.installed[b] => b \in y.live
                      /\ y.xp[b] => y.enabled[b] /\ y.installed[b]
                      /\ y.installed[b] /\ ~y.xp[b] => ~y.enabled[b] /\ ~UserDisabled(y, b)
                      /\ y.user[b] => ~y.solib[b]
    BY DEF FlagsAgree
  <2>1. /\ x.installed[b] => b \in x.live
        /\ x.installed[b] /\ ~x.xp[b] => ~x.enabled[b] /\ ~UserDisabled(x, b)
        /\ x.user[b] => ~x.solib[b]
    BY DEF Sound, FlagsAgree
  <2>2. y.enabled[b] => x.enabled[b]
    BY <1>3
  <2>3. UserDisabled(y, b) = UserDisabled(x, b)
    BY <1>1, <1>3 DEF UserDisabled
  <2> QED BY <1>1, <1>3, <1>5, <2>1, <2>2, <2>3
<1>7. AddressesApart(y) /\ ExecBpApart(y) /\ TextAgrees(y)
  BY <1>1, <1>3 DEF Sound, AddressesApart, ExecBpApart, TextAgrees
<1> QED BY <1>0, <1>1, <1>3, <1>5, <1>6, <1>7 DEF Sound, y

-----------------------------------------------------------------------------
(* Trial swaps and the end of the process. *)

(* can_install_all_breakpoints only touches bp_code of breakpoints that    *)
(* are not installed.                                                      *)
LEMMA TrialSound ==
  ASSUME NEW x, Sound(x)
  PROVE  Sound(TrialSwap(x)) /\ TrialSwap(x).xp = x.xp /\ TrialSwap(x).installed = x.installed
<1> DEFINE y == TrialSwap(x)
           h == [b \in Bp |->
                   IF /\ b \in x.live /\ ~x.xp[b] /\ x.addr[b] \in x.mapped
                      /\ ~\E c \in Untestable(x) : <<c, b>> \in x.before
                   THEN x.text[x.addr[b]] ELSE x.code[b]]
<1>0. x \in Tables
  BY DEF Sound
<1>1. h \in [Bp -> Code] /\ \A b \in Bp : x.xp[b] => h[b] = x.code[b]
  BY <1>0 DEF Tables
<1>2. y = [x EXCEPT !.code = h]
  BY DEF TrialSwap
<1> HIDE DEF h, y
<1>3. /\ y \in Tables /\ y.code = h /\ y.installed = x.installed /\ y.enabled = x.enabled
      /\ y.xp = x.xp /\ y.live = x.live /\ y.addr = x.addr
      /\ y.user = x.user /\ y.inactive = x.inactive /\ y.solib = x.solib
      /\ y.global = x.global /\ y.text = x.text /\ y.mapped = x.mapped
  BY <1>0, <1>1, <1>2 DEF Tables
<1>4. FlagsAgree(y) /\ AddressesApart(y) /\ ExecBpApart(y)
  BY <1>3 DEF Sound, FlagsAgree, AddressesApart, ExecBpApart, UserDisabled
<1>5. TextAgrees(y)
  BY <1>1, <1>3 DEF Sound, TextAgrees
<1> QED BY <1>3, <1>4, <1>5 DEF Sound, y

(* mark_breakpoints_as_uninstalled, followed by the text of no process. *)
LEMMA MarkSound ==
  ASSUME NEW x, Sound(x)
  PROVE  LET y == FreshText(mark_breakpoints_as_uninstalled(x))
         IN  Sound(y) /\ \A b \in Bp : ~y.xp[b] /\ ~y.installed[b]
<1> DEFINE m == mark_breakpoints_as_uninstalled(x)
           y == FreshText(m)
           none == [b \in Bp |-> FALSE]
<1>0. x \in Tables
  BY DEF Sound
<1>1. m = [x EXCEPT !.xp = none, !.installed = none]
  <2>1. [b \in Bp |-> x.xp[b] /\ ~(b \in x.live /\ x.installed[b])] = none
    BY <1>0 DEF Sound, FlagsAgree
  <2>2. [b \in Bp |-> x.installed[b] /\ b \notin x.live] = none
    BY <1>0 DEF Sound, FlagsAgree
  <2> HIDE DEF none
  <2> QED BY <2>1, <2>2 DEF mark_breakpoints_as_uninstalled
<1>2. y = [x EXCEPT !.xp = none, !.installed = none, !.text = Orig, !.mapped = Addr \ Late]
  BY <1>1 DEF FreshText
<1>3. none \in [Bp -> BOOLEAN] /\ Orig \in [Addr -> Code] /\ \A b \in Bp : ~none[b]
  BY TableAssumption DEF Code
<1> HIDE DEF none, y
<1>4. /\ y \in Tables /\ y.xp = none /\ y.installed = none /\ y.enabled = x.enabled
      /\ y.live = x.live /\ y.addr = x.addr /\ y.code = x.code
      /\ y.user = x.user /\ y.inactive = x.inactive /\ y.solib = x.solib
      /\ y.global = x.global /\ y.text = Orig /\ y.mapped = Addr \ Late
  BY <1>0, <1>2, <1>3 DEF Tables
<1>5. FlagsAgree(y) /\ AddressesApart(y) /\ ExecBpApart(y) /\ TextAgrees(y)
  BY <1>3, <1>4 DEF Sound, FlagsAgree, AddressesApart, ExecBpApart, TextAgrees
<1> QED BY <1>3, <1>4, <1>5 DEF Sound, y

-----------------------------------------------------------------------------
(* The invariant. *)

(* What the steps that leave the process and the released text alone owe. *)
LEMMA TableStep ==
  ASSUME IndInv, Sound(t'), UNCHANGED <<alive, attached, starting, released>>,
         ~alive => \A b \in Bp : ~t'.xp[b] /\ ~t'.installed[b],
         ExecBp \in t'.live => starting,
         starting => \A b \in Bp : t'.xp[b] => b = ExecBp \/ t'.solib[b]
  PROVE  IndInv'
BY DEF IndInv, StartsClean, NothingInstalledWithoutProcess, DetachedClean

(* The same when ptrace_create_child is not under way: the list gets no    *)
(* breakpoint of xp_execto's.                                              *)
LEMMA QuietStep ==
  ASSUME IndInv, Sound(t'), UNCHANGED <<alive, attached, starting, released>>, ~starting,
         ~alive => \A b \in Bp : ~t'.xp[b] /\ ~t'.installed[b],
         ExecBp \notin t'.live
  PROVE  IndInv'
BY TableStep

(* Installing, enabling and the like leave the list and its owners as they *)
(* are.                                                                    *)
LEMMA ListKept ==
  ASSUME NEW x \in Tables
  PROVE  /\ install_all_breakpoints(x).live = x.live
         /\ uninstall_all_breakpoints(x).live = x.live
         /\ EnableAll(x).live = x.live
         /\ DisableAll(x).live = x.live
         /\ TrialSwap(x).live = x.live
         /\ FreshText(x).live = x.live
         /\ mark_breakpoints_as_uninstalled(x).live = x.live
         /\ \A a \in Late : MapText(x, a).live = x.live /\ MapText(x, a).solib = x.solib
         /\ \A b \in Bp, force \in BOOLEAN :
              LET y == install_breakpoint(x, b, force)
              IN  /\ y.live = x.live /\ y.solib = x.solib
                  /\ \A c \in Bp : y.xp[c] => x.xp[c] \/ c = b
         /\ \A b \in Bp : EnableOne(x, b).live = x.live
<1>0. DOMAIN x = {"live", "before", "xp", "installed", "enabled", "addr", "code", "user",
                  "inactive", "solib", "global", "text", "mapped"}
  BY DEF Tables
<1>1. /\ install_all_breakpoints(x).live = x.live
      /\ uninstall_all_breakpoints(x).live = x.live
  BY <1>0, Zenon DEF install_all_breakpoints, uninstall_all_breakpoints, SwapInSet, SwapOutSet
<1>2. EnableAll(x).live = x.live /\ DisableAll(x).live = x.live
  BY <1>0, Zenon DEF EnableAll, DisableAll, SwapInSet, SwapOutSet
<1>3. /\ TrialSwap(x).live = x.live /\ FreshText(x).live = x.live
      /\ mark_breakpoints_as_uninstalled(x).live = x.live
      /\ \A a \in Late : MapText(x, a).live = x.live /\ MapText(x, a).solib = x.solib
  BY <1>0, Zenon DEF TrialSwap, FreshText, mark_breakpoints_as_uninstalled, MapText
<1>4. ASSUME NEW b \in Bp, NEW force \in BOOLEAN
      PROVE  LET y == install_breakpoint(x, b, force)
             IN  /\ y.live = x.live /\ y.solib = x.solib
                 /\ \A c \in Bp : y.xp[c] => x.xp[c] \/ c = b
  BY DEF install_breakpoint, TswapIn, Tables
<1>5. ASSUME NEW b \in Bp PROVE EnableOne(x, b).live = x.live
  BY DEF EnableOne, install_breakpoint, TswapIn, Tables
<1> QED BY <1>1, <1>2, <1>3, <1>4, <1>5

(* Unlinking changes the flags of one breakpoint only. *)
LEMMA RemoveKeeps ==
  ASSUME NEW x \in Tables, NEW b \in Bp
  PROVE  LET y == dx_remove_breakpoint(x, b)
         IN  y.live = x.live \ {b} /\ \A c \in Bp \ {b} : y.solib[c] = x.solib[c]
<1> DEFINE u == IF x.xp[b] THEN uninstall_breakpoint(x, b) ELSE x
<1>1. u.live = x.live /\ u.solib = x.solib
  BY DEF uninstall_breakpoint, TswapOut, Tables
<1> HIDE DEF u
<1>2. Unlink(u, b).live = x.live \ {b} /\ Unlink(u, b).solib = [x.solib EXCEPT ![b] = FALSE]
  <2>1. "none" # "solib"
    OBVIOUS
  <2> QED BY <1>1, <2>1 DEF Unlink, SetFields
<1>3. x.solib \in [Bp -> BOOLEAN]
  BY DEF Tables
<1> QED BY <1>2, <1>3 DEF dx_remove_breakpoint, u

(* Adding one, too. *)
LEMMA AddKeeps ==
  ASSUME NEW x \in Tables, NEW b \in Bp, NEW a, NEW junk, NEW owner
  PROVE  LET y == dx_add_breakpoint(x, b, a, junk, owner)
         IN  y.live = x.live \union {b} /\ \A c \in Bp \ {b} : y.solib[c] = x.solib[c]
<1>1. x.solib \in [Bp -> BOOLEAN]
  BY DEF Tables
<1> QED BY <1>1 DEF dx_add_breakpoint, SetFields

(* Every step of the callers keeps the table sound. *)
LEMMA IndInvStep ==
  ASSUME LinkerApart, IndInv, [Next]_vars
  PROVE  IndInv'
<1> USE DEF vars
<1>a. Sound(t) /\ t \in Tables /\ t.live \subseteq Bp
  BY DEF IndInv, Sound, Tables
<1>b. ~alive => \A b \in Bp : ~t.xp[b] /\ ~t.installed[b]
  BY DEF IndInv, NothingInstalledWithoutProcess
<1>c. /\ ~starting => ExecBp \notin t.live
      /\ starting => \A b \in Bp : t.xp[b] => b = ExecBp \/ t.solib[b]
      /\ \A b \in Bp : t.xp[b] => b \in t.live
  BY <1>a DEF IndInv, StartsClean, Sound, FlagsAgree
<1>d. ExecBp \in Bp
  BY AddrAssumption
<1>1. ASSUME NEW b \in Bp \ {ExecBp}, NEW a \in UserAddrs, NEW junk \in Junk,
             add_breakpoint_object(b, a, junk)
      PROVE  IndInv'
  <2>1. ~starting /\ \A c \in t.live : t.addr[c] # a
    BY <1>1 DEF add_breakpoint_object, dx_addr_to_breakpoint, Editing
  <2>2. a \in Addr /\ junk \in Code /\ b \notin t.live /\ t' = dx_add_breakpoint(t, b, a, junk, "user")
    BY <1>1, AddrAssumption DEF add_breakpoint_object
  <2>3. Sound(t') /\ t'.xp = t.xp /\ t'.installed = t.installed
    BY <1>a, <1>c, <2>1, <2>2, AddSound
  <2>4. ExecBp \notin t'.live
    BY <1>a, <1>c, <2>1, <2>2, AddKeeps
  <2> QED BY <1>1, <1>b, <2>1, <2>3, <2>4, QuietStep DEF add_breakpoint_object
<1>2. ASSUME NEW b \in Bp \ {ExecBp}, NEW a \in UserAddrs, NEW junk \in Junk,
             AddTemporary(b, a, junk)
      PROVE  IndInv'
  <2>1. ~starting /\ \A c \in t.live : t.addr[c] # a
    BY <1>2 DEF AddTemporary, dx_addr_to_breakpoint
  <2>2. a \in Addr /\ junk \in Code /\ b \notin t.live /\ t' = dx_add_breakpoint(t, b, a, junk, "none")
    BY <1>2, AddrAssumption DEF AddTemporary
  <2>3. Sound(t') /\ t'.xp = t.xp /\ t'.installed = t.installed
    BY <1>a, <1>c, <2>1, <2>2, AddSound
  <2>4. ExecBp \notin t'.live
    BY <1>a, <1>c, <2>1, <2>2, AddKeeps
  <2> QED BY <1>2, <1>b, <2>1, <2>3, <2>4, QuietStep DEF AddTemporary
<1>3. ASSUME NEW b \in Bp \ {ExecBp}, NEW junk \in Junk, AddLinkerBreakpoint(b, junk)
      PROVE  IndInv'
  <2> DEFINE y == dx_add_breakpoint(t, b, LinkerAddr, junk, "solib")
  <2>1. ExecBp \notin t.live /\ \A c \in t.live : t.addr[c] # LinkerAddr
    BY <1>3, <1>a DEF AddLinkerBreakpoint, LinkerApart, Sound, AddressesApart
  <2>2. LinkerAddr \in Addr /\ junk \in Code /\ b \notin t.live /\ t' = install_breakpoint(y, b, FALSE)
    BY <1>3, AddrAssumption DEF AddLinkerBreakpoint
  <2>3. Sound(y) /\ y.xp = t.xp /\ b \in y.live
    BY <1>a, <2>1, <2>2, AddSound
  <2>4. /\ ExecBp \notin y.live /\ y \in Tables
        /\ \A c \in Bp \ {b} : y.solib[c] = t.solib[c]
    BY <1>a, <2>1, <2>3, AddKeeps DEF Sound
  <2>5. y.solib[b]
    <3>1. y.solib = [t.solib EXCEPT ![b] = "solib" = "solib"]
      BY DEF dx_add_breakpoint, SetFields
    <3> QED BY <1>a, <3>1, Zenon DEF Tables
  <2> HIDE DEF y
  <2>6. ~y.xp[b]
    BY <1>a, <2>2, <2>3 DEF Sound, FlagsAgree
  <2>7. Sound(t')
    BY <2>2, <2>3, <2>4, <2>6, InstallSound
  <2>8. /\ t'.live = y.live /\ t'.solib = y.solib /\ \A c \in Bp : t'.xp[c] => y.xp[c] \/ c = b
    BY <2>2, <2>4, ListKept
  <2>9. starting => \A c \in Bp : t'.xp[c] => t'.solib[c]
    BY <1>c, <2>1, <2>3, <2>4, <2>5, <2>8
  <2> QED BY <1>3, <2>4, <2>7, <2>8, <2>9, TableStep DEF AddLinkerBreakpoint
<1>4. ASSUME NEW b \in Bp, RemoveBreakpoint(b)
      PROVE  IndInv'
  <2>1. /\ b \in t.live /\ Sound(t') /\ t'.xp = [t.xp EXCEPT ![b] = FALSE]
        /\ t'.installed = [t.installed EXCEPT ![b] = FALSE]
    BY <1>4, <1>a, RemoveSound DEF RemoveBreakpoint
  <2>2. ~alive => \A c \in Bp : ~t'.xp[c] /\ ~t'.installed[c]
    BY <1>a, <1>b, <2>1 DEF Tables
  <2>3. ~starting /\ ExecBp \notin t'.live
    BY <1>4, <1>a, <1>c, RemoveKeeps DEF RemoveBreakpoint
  <2> QED BY <1>4, <2>1, <2>2, <2>3, QuietStep DEF RemoveBreakpoint
<1>5. ASSUME NEW move \in Relocations, recalculate_bpt_addrs(move)
      PROVE  IndInv'
  <2> DEFINE y == [t EXCEPT !.addr = [b \in Bp |-> IF b \in t.live /\ t.user[b]
                                                   THEN move[t.addr[b]] ELSE t.addr[b]]]
  <2>1. /\ starting /\ ExecBp \notin t.live /\ t' = y
        /\ \A b, c \in t.live : t.user[b] /\ ~t.user[c] => move[t.addr[b]] # t.addr[c]
    BY <1>5 DEF recalculate_bpt_addrs
  <2>2. \A b \in Bp : t.xp[b] => t.solib[b]
    BY <1>c, <2>1
  <2>3. Sound(y) /\ y.xp = t.xp /\ y.installed = t.installed
    BY <1>a, <2>1, <2>2, MoveSound
  <2>4. y.live = t.live /\ y.solib = t.solib
    BY <1>a DEF Tables
  <2> HIDE DEF y
  <2> QED BY <1>5, <1>b, <2>1, <2>2, <2>3, <2>4, TableStep DEF recalculate_bpt_addrs
<1>6. ASSUME NEW b \in Bp, NEW disable \in BOOLEAN, set_bpt_state(b, disable)
      PROVE  IndInv'
  <2> DEFINE f == [t.inactive EXCEPT ![b] = disable]
             y == [t EXCEPT !.inactive = f, !.global = t.global]
  <2>1. /\ f \in [Bp -> BOOLEAN] /\ t.global \in BOOLEAN /\ ~starting
        /\ \A c \in t.live : t.enabled[c] \/ ~t.installed[c]
    BY <1>6, <1>a, <1>b DEF Tables, set_bpt_state, Editing, Quiet
  <2>2. t' = y
    BY <1>6, <1>a DEF Tables, set_bpt_state
  <2>3. Sound(y) /\ y.xp = t.xp /\ y.installed = t.installed
    <3> HIDE DEF f
    <3> QED BY <1>a, <2>1, ActivateSound
  <2>4. y.live = t.live
    BY <1>a DEF Tables
  <2> HIDE DEF y
  <2> QED BY <1>6, <1>b, <1>c, <2>1, <2>2, <2>3, <2>4, QuietStep DEF set_bpt_state
<1>7. ASSUME NEW on \in BOOLEAN, SetGlobal(on)
      PROVE  IndInv'
  <2> DEFINE y == [t EXCEPT !.inactive = t.inactive, !.global = on]
  <2>1. t.inactive \in [Bp -> BOOLEAN] /\ ~starting /\ \A c \in t.live : t.enabled[c]
    BY <1>7, <1>a DEF Tables, SetGlobal, Quiet
  <2>2. t' = y
    BY <1>7, <1>a DEF Tables, SetGlobal
  <2>3. Sound(y) /\ y.xp = t.xp /\ y.installed = t.installed
    BY <1>a, <2>1, ActivateSound
  <2>4. y.live = t.live
    BY <1>a DEF Tables
  <2> HIDE DEF y
  <2> QED BY <1>7, <1>b, <1>c, <2>1, <2>2, <2>3, <2>4, QuietStep DEF SetGlobal
<1>8. CASE InstallAll
  BY <1>8, <1>a, <1>c, InstallAllSound, ListKept, QuietStep DEF InstallAll
<1>9. CASE PrepareStep
  <2> DEFINE u == uninstall_all_breakpoints(t)
  <2>1. ~starting /\ alive /\ t' = install_solib_event_breakpoint(u)
    BY <1>9 DEF PrepareStep
  <2>2. Sound(u) /\ u.live = t.live /\ u \in Tables /\ ExecBp \notin u.live
    BY <1>a, <1>c, <2>1, UninstallAllSound DEF Sound
  <2> HIDE DEF u
  <2>3. Sound(t')
    BY <2>1, <2>2, SolibSound
  <2>4. t'.live = u.live
    <3> DEFINE S == {b \in u.live : u.solib[b] /\ ~u.installed[b]}
    <3>1. CASE S = {}
      BY <2>1, <3>1 DEF install_solib_event_breakpoint
    <3>2. CASE S # {}
      <4>1. \A b, c \in S : b = c
        BY <2>2 DEF Sound, AddressesApart
      <4>2. PICK b \in S : S = {b}
        BY <3>2, <4>1
      <4>3. FirstOf(u, {b}) = b /\ b \in Bp
        BY <2>2 DEF FirstOf, Tables
      <4>4. t' = install_breakpoint(u, b, FALSE)
        BY <2>1, <4>2, <4>3 DEF install_solib_event_breakpoint
      <4>5. install_breakpoint(u, b, FALSE).live = u.live
        <5>1. u \in Tables /\ b \in Bp
          BY <2>2, <4>3
        <5> HIDE DEF S
        <5> QED BY <5>1 DEF install_breakpoint, TswapIn, Tables
      <4> QED BY <4>4, <4>5
    <3> QED BY <3>1, <3>2
  <2> QED BY <1>9, <2>1, <2>2, <2>3, <2>4, QuietStep DEF PrepareStep
<1>10. ASSUME NEW b \in Bp, ForceInstall(b)
       PROVE  IndInv'
  <2>1. b \in t.live /\ ~t.xp[b] /\ t.enabled[b]
    BY <1>10 DEF ForceInstall, Quiet
  <2>2. Sound(install_breakpoint(t, b, TRUE)) /\ ~starting
    BY <1>a, <1>c, <1>10, <2>1, InstallSound DEF ForceInstall
  <2>3. install_breakpoint(t, b, TRUE).live = t.live
    BY <1>a, ListKept
  <2> QED BY <1>10, <1>c, <2>2, <2>3, QuietStep DEF ForceInstall
<1>11. ASSUME NEW b \in Bp, Uninstall(b)
       PROVE  IndInv'
  <2> DEFINE y == uninstall_breakpoint(t, b)
  <2>1. b \in t.live /\ alive /\ t' = y
    BY <1>11 DEF Uninstall
  <2>2. Sound(y) /\ y.live = t.live /\ y.xp = [t.xp EXCEPT ![b] = FALSE]
    BY <1>a, <2>1, UninstallSound
  <2>3. y.solib = t.solib
    BY <1>a DEF uninstall_breakpoint, TswapOut, Tables
  <2> HIDE DEF y
  <2>4. \A c \in Bp : y.xp[c] => t.xp[c]
    BY <1>a, <2>2 DEF Tables
  <2>5. ExecBp \in y.live => starting
    BY <1>c, <2>2
  <2> QED BY <1>11, <1>c, <2>1, <2>2, <2>3, <2>4, <2>5, TableStep DEF Uninstall
<1>12. CASE DisableEvery
  BY <1>12, <1>a, <1>b, <1>c, DisableAllSound, ListKept, QuietStep DEF DisableEvery
<1>13. ASSUME NEW b \in Bp, Enable(b)
       PROVE  IndInv'
  BY <1>13, <1>a, <1>b, <1>c, EnableSound, ListKept, QuietStep DEF Enable
<1>14. CASE EnableEvery
  BY <1>14, <1>a, <1>b, <1>c, EnableAllSound, ListKept, QuietStep DEF EnableEvery
<1>15. CASE TestInstall
  BY <1>15, <1>a, <1>c, TrialSound, ListKept, QuietStep DEF TestInstall
<1>16. CASE Start \/ Attach
  <2>1. /\ ~alive /\ ~starting /\ alive' = TRUE /\ attached' \in BOOLEAN /\ starting' \in BOOLEAN
        /\ released' = released /\ t' = FreshText(t)
    BY <1>16 DEF Start, Attach, IndInv
  <2>2. Sound(t') /\ t'.xp = t.xp /\ t'.live = t.live
    BY <1>a, <1>b, <2>1, FreshSound, ListKept
  <2>3. ExecBp \notin t'.live /\ \A b \in Bp : ~t'.xp[b]
    BY <1>b, <1>c, <2>1, <2>2
  <2> QED BY <2>1, <2>2, <2>3
          DEF IndInv, StartsClean, NothingInstalledWithoutProcess, DetachedClean
<1>17. CASE Exit \/ Kill
  <2>1. /\ alive' = FALSE /\ attached' = attached /\ starting' = starting /\ released' = released
        /\ \/ t' = FreshText(mark_breakpoints_as_uninstalled(t))
           \/ t' = FreshText(mark_breakpoints_as_uninstalled(uninstall_all_breakpoints(t)))
    BY <1>17 DEF Exit, Kill
  <2>2. Sound(uninstall_all_breakpoints(t))
    BY <1>a, UninstallAllSound
  <2>3. Sound(t') /\ \A b \in Bp : ~t'.xp[b] /\ ~t'.installed[b]
    BY <1>a, <2>1, <2>2, MarkSound
  <2>4. t'.live = t.live
    <3>1. ASSUME NEW x \in Tables
          PROVE  FreshText(mark_breakpoints_as_uninstalled(x)).live = x.live
      <4>1. mark_breakpoints_as_uninstalled(x) \in Tables
        BY DEF mark_breakpoints_as_uninstalled, Tables
      <4> QED BY <4>1, ListKept
    <3> QED BY <1>a, <2>1, <2>2, <3>1, ListKept DEF Sound
  <2> QED BY <1>c, <2>1, <2>3, <2>4
          DEF IndInv, StartsClean, NothingInstalledWithoutProcess, DetachedClean
<1>18. CASE Detach
  <2> DEFINE u == uninstall_all_breakpoints(t)
  <2>1. /\ alive' = FALSE /\ attached' = FALSE /\ released' = u.text /\ t' = FreshText(u)
        /\ ~starting /\ starting' = starting
        /\ \A b \in t.live : t.enabled[b]
    BY <1>18 DEF Detach, Quiet
  <2>2. /\ Sound(u) /\ u.xp = [b \in Bp |-> FALSE]
        /\ u.installed = [b \in Bp |-> t.installed[b] /\ ~t.xp[b]]
    BY <1>a, UninstallAllSound
  <2> HIDE DEF u
  <2>3. \A b \in Bp : ~u.xp[b] /\ ~u.installed[b]
    BY <1>a, <2>1, <2>2 DEF Sound, FlagsAgree
  <2>4. \A a \in Addr \ Late : u.text[a] = Orig[a]
    BY <2>2, <2>3 DEF Sound, TextAgrees
  <2>5. u.text \in [Addr -> Code]
    BY <2>2 DEF Sound, Tables
  <2>6. Sound(t') /\ \A b \in Bp : ~t'.xp[b] /\ ~t'.installed[b]
    BY <2>1, <2>2, <2>3, FreshSound
  <2>7. u \in Tables /\ u.live = t.live
    BY <1>a, <2>2, UninstallAllSound DEF Sound, u
  <2>8. ExecBp \notin t'.live
    BY <1>c, <2>1, <2>7, ListKept
  <2> QED BY <2>1, <2>4, <2>5, <2>6, <2>8
          DEF IndInv, StartsClean, NothingInstalledWithoutProcess, DetachedClean
<1>19. ASSUME NEW a \in Late, MapLibrary(a)
       PROVE  IndInv'
  <2>1. /\ Sound(t') /\ t'.xp = t.xp /\ t'.live = t.live /\ t'.solib = t.solib
    BY <1>19, <1>a, MapSound, ListKept DEF MapLibrary
  <2>2. ExecBp \in t'.live => starting
    BY <1>c, <2>1
  <2> QED BY <1>19, <1>c, <2>1, <2>2, TableStep DEF MapLibrary
<1>20. CASE UNCHANGED vars
  BY <1>20 DEF IndInv, StartsClean, NothingInstalledWithoutProcess, DetachedClean
<1>21. ASSUME NEW a \in StartAddrs, NEW junk \in Junk, xp_execto(a, junk)
       PROVE  IndInv'
  <2> DEFINE y == dx_add_breakpoint(t, ExecBp, a, junk, "none")
  <2>1. /\ starting /\ alive /\ ExecBp \notin t.live /\ t' = install_breakpoint(y, ExecBp, FALSE)
        /\ a \in Addr /\ junk \in Code /\ a # LinkerAddr
    BY <1>21, AddrAssumption DEF xp_execto, LinkerApart
  <2>2. \A c \in Bp : t.xp[c] => t.solib[c] /\ c # ExecBp
    BY <1>c, <2>1
  <2>3. Sound(y) /\ y.xp = t.xp /\ ExecBp \in y.live
    BY <1>a, <1>d, <2>1, <2>2, AddSound
  <2>4. /\ y \in Tables /\ y.live = t.live \union {ExecBp}
        /\ \A c \in Bp \ {ExecBp} : y.solib[c] = t.solib[c]
    BY <1>a, <1>d, <2>3, AddKeeps DEF Sound
  <2> HIDE DEF y
  <2>5. ~y.xp[ExecBp]
    BY <1>d, <2>2, <2>3
  <2>6. Sound(t')
    BY <2>1, <2>3, <2>5, InstallSound
  <2>7. t'.solib = y.solib /\ \A c \in Bp : t'.xp[c] => y.xp[c] \/ c = ExecBp
    BY <1>d, <2>1, <2>4, ListKept
  <2>8. \A c \in Bp : t'.xp[c] => c = ExecBp \/ t'.solib[c]
    BY <2>2, <2>3, <2>4, <2>7
  <2> QED BY <1>21, <2>1, <2>6, <2>8, TableStep DEF xp_execto
<1>22. CASE ExecToEnds
  <2> DEFINE y == dx_remove_breakpoint(t, ExecBp)
  <2>1. ExecBp \in t.live /\ t' = y
    BY <1>22 DEF ExecToEnds
  <2>2. /\ Sound(y) /\ y.xp = [t.xp EXCEPT ![ExecBp] = FALSE]
        /\ y.installed = [t.installed EXCEPT ![ExecBp] = FALSE]
    BY <1>a, <2>1, RemoveSound
  <2>3. /\ y.live = t.live \ {ExecBp} /\ \A c \in Bp \ {ExecBp} : y.solib[c] = t.solib[c]
    BY <1>a, <1>d, RemoveKeeps
  <2> HIDE DEF y
  <2>4. /\ \A c \in Bp : (y.xp[c] => t.xp[c] /\ c # ExecBp) /\ (y.installed[c] => t.installed[c])
    BY <1>a, <2>2 DEF Tables
  <2>5. ~alive => \A c \in Bp : ~y.xp[c] /\ ~y.installed[c]
    BY <1>b, <2>4
  <2>6. starting => \A c \in Bp : y.xp[c] => c = ExecBp \/ y.solib[c]
    BY <1>c, <2>3, <2>4
  <2> QED BY <1>22, <2>1, <2>2, <2>3, <2>5, <2>6, TableStep DEF ExecToEnds
<1>23. ASSUME NEW b \in Bp, PutBack(b)
       PROVE  IndInv'
  <2> DEFINE y == install_breakpoint(t, b, FALSE)
  <2>1. b \in t.live /\ ~t.xp[b] /\ alive /\ t' = y /\ (starting => b = ExecBp \/ t.solib[b])
    BY <1>23 DEF PutBack
  <2>2. Sound(y)
    BY <1>a, <1>c, <2>1, InstallSound
  <2>3. y.live = t.live /\ y.solib = t.solib /\ \A c \in Bp : y.xp[c] => t.xp[c] \/ c = b
    BY <1>a, ListKept
  <2> HIDE DEF y
  <2>4. ExecBp \in y.live => starting
    BY <1>c, <2>3
  <2>5. starting => \A c \in Bp : y.xp[c] => c = ExecBp \/ y.solib[c]
    BY <1>c, <2>1, <2>3
  <2> QED BY <1>23, <2>1, <2>2, <2>4, <2>5, TableStep DEF PutBack
<1>24. CASE Started
  BY <1>24 DEF Started, IndInv, StartsClean, NothingInstalledWithoutProcess, DetachedClean
<1> QED
  BY <1>1, <1>2, <1>3, <1>4, <1>5, <1>6, <1>7, <1>8, <1>9, <1>10, <1>11, <1>12, <1>13,
     <1>14, <1>15, <1>16, <1>17, <1>18, <1>19, <1>20, <1>21, <1>22, <1>23, <1>24 DEF Next

(* The invariant implies what the runs check. *)
LEMMA IndInvConsequences ==
  ASSUME IndInv
  PROVE  /\ TypeOK /\ UniqueAddresses /\ TextIntegrity /\ SavedOpcode
         /\ DetachedClean /\ NothingInstalledWithoutProcess
<1>1. TypeOK /\ SavedOpcode /\ DetachedClean /\ NothingInstalledWithoutProcess
  BY DEF IndInv, Sound, Tables, TypeOK, SavedOpcode, TextAgrees
<1>3. UniqueAddresses
  <2> SUFFICES ASSUME NEW b \in t.live, NEW c \in t.live, t.addr[b] = t.addr[c], b # c
               PROVE  ExecBp \in {b, c} /\ ~(t.xp[b] /\ t.xp[c])
    BY DEF UniqueAddresses
  <2>1. ExecBp \in {b, c}
    BY DEF IndInv, Sound, AddressesApart
  <2>2. b \in Bp /\ c \in Bp
    BY DEF IndInv, Sound, Tables
  <2> QED BY <2>1, <2>2, SoundTrapsApart DEF IndInv
<1>2. TextIntegrity
  <2> SUFFICES ASSUME NEW a \in Addr \ Late
               PROVE  t.text[a] = IF get_breakpoint_at_addr(t, a) # {} THEN BPT ELSE Orig[a]
    BY DEF TextIntegrity
  <2>1. t.live \subseteq Bp /\ \A b \in Bp : t.xp[b] => b \in t.live
    BY DEF IndInv, Sound, Tables, FlagsAgree
  <2>2. CASE get_breakpoint_at_addr(t, a) = {}
    BY <2>1, <2>2 DEF IndInv, Sound, TextAgrees, get_breakpoint_at_addr
  <2>3. CASE get_breakpoint_at_addr(t, a) # {}
    BY <2>1, <2>3 DEF IndInv, Sound, TextAgrees, get_breakpoint_at_addr
  <2> QED BY <2>2, <2>3
<1> QED BY <1>1, <1>2, <1>3

-----------------------------------------------------------------------------
(* The theorems. *)

(* The inductive invariant holds of every behaviour of the callers. *)
THEOREM Invariance ==
  ASSUME LinkerApart
  PROVE  Spec => []IndInv
<1>1. Init => IndInv
  <2>1. Init => Sound(t)
    BY EmptySound DEF Init
  <2>2. EmptyTable.live = {} /\ EmptyTable.xp = [b \in Bp |-> FALSE] /\ EmptyTable.installed = [b \in Bp |-> FALSE]
    BY DEF EmptyTable
  <2>3. Orig \in [Addr -> Code]
    BY TableAssumption DEF Code
  <2> QED BY <2>1, <2>2, <2>3 DEF Init, IndInv, StartsClean, NothingInstalledWithoutProcess, DetachedClean
<1>2. IndInv /\ [Next]_vars => IndInv'
  BY IndInvStep
<1> QED BY <1>1, <1>2, PTL DEF Spec

(* The state stays in its types. *)
THEOREM TypeCorrect ==
  ASSUME LinkerApart
  PROVE  Spec => []TypeOK
BY Invariance, IndInvConsequences, PTL

(* Two breakpoints of Bphead share an address only while xp_execto has its *)
(* own there, and there is never a second trap under a first one.          *)
THEOREM AddressesUnique ==
  ASSUME LinkerApart
  PROVE  Spec => []UniqueAddresses
BY Invariance, IndInvConsequences, PTL

(* The text holds a trap exactly where a breakpoint counts as installed,   *)
(* and the program's own opcode everywhere else.                           *)
THEOREM TextIsIntact ==
  ASSUME LinkerApart
  PROVE  Spec => []TextIntegrity
BY Invariance, IndInvConsequences, PTL

(* uninstall_breakpoint always has the program's opcode to write back. *)
THEOREM OpcodesAreSaved ==
  ASSUME LinkerApart
  PROVE  Spec => []SavedOpcode
BY Invariance, IndInvConsequences, PTL

(* ao_detach leaves the process it lets go with its own text. *)
THEOREM DetachLeavesNoTrap ==
  ASSUME LinkerApart
  PROVE  Spec => []DetachedClean
BY Invariance, IndInvConsequences, PTL

(* When the process is gone no breakpoint is marked as in it. *)
THEOREM NothingInstalledWhenGone ==
  ASSUME LinkerApart
  PROVE  Spec => []NothingInstalledWithoutProcess
BY Invariance, IndInvConsequences, PTL
==============================================================================
