------------------------ MODULE SavedBreakpointsProofs ------------------------
(***************************************************************************)
(* What SavedBreakpoints promises, for every set of places, every .config  *)
(* file and every history of files.  Reading a file is a recursion over    *)
(* its lines; what it computes is proved by looking at the first line at   *)
(* which a claim would fail.                                               *)
(***************************************************************************)
EXTENDS SavedBreakpoints, FiniteSetTheorems, SequenceTheorems, TLAPS

-----------------------------------------------------------------------------
(* Reading a file.                                                         *)

(* A set of numbers that has an element has a least one. *)
LEMMA Least ==
  ASSUME NEW T \in SUBSET Nat, T # {}
  PROVE  \E m \in T : \A k \in T : m <= k
<1> DEFINE R == {ss \in Nat \X Nat : ss[1] < ss[2]}
<1>1. IsWellFoundedOn(R, Nat)
  BY NatLessThanWellFounded DEF OpToRel
<1>2. \E x \in T : \A y \in T : ~(<<y, x>> \in R)
  <2> HIDE DEF R
  <2> QED BY <1>1, WFMin
<1>3. PICK x \in T : \A y \in T : ~(<<y, x>> \in R)
  BY <1>2
<1>4. \A y \in T : x <= y
  <2>1. \A u, v \in Nat : u < v => <<u, v>> \in R
    OBVIOUS
  <2>2. \A y \in T : ~(y < x)
    <3> HIDE DEF R
    <3> QED BY <1>3, <2>1
  <2> QED BY <2>2
<1> QED BY <1>4

(* Counting from 0 to N reaches every number between. *)
LEMMA Counting ==
  ASSUME NEW N \in Nat, NEW T, T \subseteq 0 .. N, 0 \in T,
         \A n \in 1 .. N : n - 1 \in T => n \in T
  PROVE  \A n \in 0 .. N : n \in T
<1> DEFINE F == {n \in 0 .. N : n \notin T}
<1>1. SUFFICES ASSUME F # {} PROVE FALSE
  OBVIOUS
<1>2. PICK m \in F : \A k \in F : m <= k
  <2>1. F \in SUBSET Nat
    OBVIOUS
  <2> HIDE DEF F
  <2> QED BY <1>1, <2>1, Least
<1>3. m \in 1 .. N /\ m - 1 \in 0 .. N /\ m - 1 \notin F
  BY <1>2
<1> QED BY <1>2, <1>3

(* s is what reading f onto o gives, line by line. *)
ReadBy(s, o, f, b) ==
  /\ s[0] = o
  /\ \A n \in 1 .. Len(f) : s[n] = HandleAdd(s[n - 1], f[n], b)

(* read_config_file reads the lines of a file one by one. *)
LEMMA Reading ==
  ASSUME NEW o, NEW f, Len(f) \in Nat, NEW b
  PROVE  \E s : ReadBy(s, o, f, b) /\ read_config_file(o, f, b) = s[Len(f)]
<1> DEFINE N == Len(f)
           Body(g, n) == IF n = 0 THEN o ELSE HandleAdd(g[n - 1], f[n], b)
           s == CHOOSE g : g = [n \in 0 .. N |-> Body(g, n)]
           Can(n) == \E g : g = [k \in 0 .. n |-> Body(g, k)]
           T == {n \in 0 .. N : Can(n)}
<1>1. read_config_file(o, f, b) = s[N]
  BY DEF read_config_file
<1>2. 0 \in T
  <2> DEFINE g == [k \in 0 .. 0 |-> o]
  <2>1. g = [k \in 0 .. 0 |-> Body(g, k)]
    OBVIOUS
  <2>2. Can(0)
    <3> HIDE DEF g, Body
    <3> QED BY <2>1
  <2> QED BY <2>2
<1>3. ASSUME NEW n \in 1 .. N, n - 1 \in T PROVE n \in T
  <2>1. PICK g : g = [k \in 0 .. n - 1 |-> Body(g, k)]
    BY <1>3
  <2> DEFINE h == [k \in 0 .. n |-> IF k = n THEN Body(g, n) ELSE g[k]]
  <2>2. ASSUME NEW k \in 0 .. n PROVE h[k] = Body(h, k)
    <3>1. CASE k = 0
      <4>1. k \in 0 .. n - 1 /\ k # n /\ h[k] = g[k]
        BY <3>1
      <4>2. g[k] = Body(g, k)
        BY <2>1, <4>1
      <4> QED BY <3>1, <4>1, <4>2
    <3>2. CASE k # 0
      <4>1. k - 1 \in 0 .. n - 1 /\ k - 1 \in 0 .. n /\ k - 1 # n
        BY <3>2
      <4>2. h[k - 1] = g[k - 1]
        BY <4>1
      <4>3. h[k] = Body(g, k)
        <5>1. CASE k = n
          BY <5>1
        <5>2. CASE k # n
          <6>1. k \in 0 .. n - 1
            BY <5>2
          <6>2. h[k] = g[k]
            BY <5>2
          <6>3. g[k] = Body(g, k)
            BY <2>1, <6>1
          <6> QED BY <6>2, <6>3
        <5> QED BY <5>1, <5>2
      <4> QED BY <3>2, <4>2, <4>3
    <3> QED BY <3>1, <3>2
  <2>3. h = [k \in 0 .. n |-> h[k]]
    OBVIOUS
  <2>4. h = [k \in 0 .. n |-> Body(h, k)]
    <3> HIDE DEF h, Body
    <3> QED BY <2>2, <2>3
  <2>5. Can(n)
    <3> HIDE DEF h, Body
    <3> QED BY <2>4
  <2> QED BY <2>5
<1>4. Can(N)
  <2>1. N \in Nat /\ T \subseteq 0 .. N
    OBVIOUS
  <2>2. \A n \in 0 .. N : n \in T
    <3> HIDE DEF T, N
    <3> QED BY <1>2, <1>3, <2>1, Counting
  <2> QED BY <2>1, <2>2
<1>5. s = [n \in 0 .. N |-> Body(s, n)]
  <2> HIDE DEF Body
  <2> QED BY <1>4
<1>6. \A n \in 0 .. N : s[n] = Body(s, n)
  <2> HIDE DEF s, Body
  <2> QED BY <1>5
<1>7. ReadBy(s, o, f, b)
  <2> HIDE DEF s
  <2>1. s[0] = o
    BY <1>6
  <2>2. ASSUME NEW n \in 1 .. N PROVE s[n] = HandleAdd(s[n - 1], f[n], b)
    BY <1>6
  <2> QED BY <2>1, <2>2 DEF ReadBy
<1> HIDE DEF s
<1> QED BY <1>1, <1>7

-----------------------------------------------------------------------------
(* What one line does, and what all of them do.                            *)

Told(e, b) ==
  [inactive |-> e.inactive, code |-> e.code, save |-> b \/ (e.code /\ e.at \in Line)]

(* Objects at places, with what they hold. *)
LEMMA Parts ==
  ASSUME NEW o
  PROVE  o \in Partial(Objects) <=>
           /\ o = [p \in DOMAIN o |-> o[p]]
           /\ DOMAIN o \subseteq Place
           /\ \A p \in DOMAIN o : o[p] \in Objects
<1>1. ASSUME o \in Partial(Objects)
      PROVE  /\ o = [p \in DOMAIN o |-> o[p]] /\ DOMAIN o \subseteq Place
             /\ \A p \in DOMAIN o : o[p] \in Objects
  <2>1. PICK D \in SUBSET Place : o \in [D -> Objects]
    BY <1>1 DEF Partial
  <2> QED BY <2>1
<1>2. ASSUME o = [p \in DOMAIN o |-> o[p]], DOMAIN o \subseteq Place,
             \A p \in DOMAIN o : o[p] \in Objects
      PROVE  o \in Partial(Objects)
  <2>1. o \in [DOMAIN o -> Objects]
    BY <1>2
  <2> QED BY <1>2, <2>1 DEF Partial
<1> QED BY <1>1, <1>2

(* h is o with the line e: a line adds its place, or nothing, or the first *)
(* place of its function, and leaves what stays as it was.                 *)
OneLine(o, e, b, h) ==
  /\ h \in Partial(Objects)
  /\ b => DOMAIN h = DOMAIN o \cup {e.at}
  /\ DOMAIN h \subseteq DOMAIN o \cup {e.at} \cup
                       (IF e.at \in DOMAIN o \cap Line THEN {Entry[e.at]} ELSE {})
  /\ b /\ e.at \notin Bare => h[e.at] = Told(e, b)
  /\ \A p \in DOMAIN o : p # e.at => h[p] = o[p]
  /\ b => \A p \in DOMAIN h : h[p] = Told(e, b) \/ (p \in DOMAIN o /\ h[p] = o[p])

(* handle_add_breakpoint_command and handle_add_code_command do so. *)
LEMMA LineRead ==
  ASSUME NEW o \in Partial(Objects), NEW e \in Entries, NEW b \in BOOLEAN
  PROVE  OneLine(o, e, b, HandleAdd(o, e, b))
<1> DEFINE before == IF b THEN Replaced(o, e) ELSE o
           add == Slots(before, e)
           h == [p \in DOMAIN before \cup add |->
                   IF p \in DOMAIN before THEN before[p] ELSE Told(e, b)]
<1>1. HandleAdd(o, e, b) = h
  BY DEF HandleAdd, Told
<1>2. /\ e.at \in Place /\ Told(e, b) \in Objects
  BY DEF Entries, Told, Objects
<1>3. /\ DOMAIN o \subseteq Place /\ \A p \in DOMAIN o : o[p] \in Objects
  BY Parts
<1>4. /\ DOMAIN before = IF b /\ e.at \notin Bare THEN DOMAIN o \ {e.at} ELSE DOMAIN o
      /\ \A p \in DOMAIN before : p \in DOMAIN o /\ before[p] = o[p]
  BY DEF Replaced, Restrict
<1> HIDE DEF before
<1>5. /\ add \subseteq {e.at} \cup (IF e.at \in DOMAIN o \cap Line THEN {Entry[e.at]} ELSE {})
      /\ b => DOMAIN before \cup add = DOMAIN o \cup {e.at}
      /\ b /\ e.at \notin Bare => e.at \in add /\ e.at \notin DOMAIN before
      /\ add \subseteq Place
      /\ b => add \subseteq {e.at}
  BY <1>2, <1>3, <1>4, PlaceAssumption DEF Slots, Place
<1> HIDE DEF add
<1>6. /\ DOMAIN h = DOMAIN before \cup add
      /\ h = [p \in DOMAIN h |-> h[p]]
      /\ \A p \in DOMAIN before : h[p] = o[p]
      /\ \A p \in add : p \notin DOMAIN before => h[p] = Told(e, b)
  BY <1>4
<1> HIDE DEF h
<1>7. h \in Partial(Objects)
  <2>1. DOMAIN h \subseteq Place
    BY <1>3, <1>4, <1>5, <1>6
  <2>2. \A p \in DOMAIN h : h[p] \in Objects
    BY <1>2, <1>3, <1>4, <1>5, <1>6
  <2> QED BY <1>6, <2>1, <2>2, Parts
<1>8. \A p \in DOMAIN o : p # e.at => h[p] = o[p]
  BY <1>4, <1>6
<1>9. OneLine(o, e, b, h)
  BY <1>4, <1>5, <1>6, <1>7, <1>8 DEF OneLine
<1> QED BY <1>1, <1>9

Upto(f, n) == {f[i].at : i \in 1 .. n}

(* Reading keeps to places and objects. *)
LEMMA ReadTyped ==
  ASSUME NEW o \in Partial(Objects), NEW f \in Seq(Entries), NEW b \in BOOLEAN,
         NEW s, ReadBy(s, o, f, b)
  PROVE  \A n \in 0 .. Len(f) : s[n] \in Partial(Objects)
<1> DEFINE N == Len(f)
           T == {n \in 0 .. N : s[n] \in Partial(Objects)}
<1>1. N \in Nat /\ \A n \in 1 .. N : f[n] \in Entries
  OBVIOUS
<1>2. 0 \in T
  BY <1>1 DEF ReadBy
<1>3. ASSUME NEW n \in 1 .. N, n - 1 \in T PROVE n \in T
  <2>1. s[n] = HandleAdd(s[n - 1], f[n], b) /\ s[n - 1] \in Partial(Objects)
    BY <1>3 DEF ReadBy
  <2>2. f[n] \in Entries
    BY <1>1
  <2>3. HandleAdd(s[n - 1], f[n], b) \in Partial(Objects)
    BY <2>1, <2>2, LineRead DEF OneLine
  <2> QED BY <1>1, <2>1, <2>3
<1>4. T \subseteq 0 .. N
  OBVIOUS
<1>5. \A n \in 0 .. N : n \in T
  <2> HIDE DEF T, N
  <2> QED BY <1>1, <1>2, <1>3, <1>4, Counting
<1> QED BY <1>5

(* The n-th line is read onto what the lines before it gave. *)
LEMMA OneByOne ==
  ASSUME NEW o \in Partial(Objects), NEW f \in Seq(Entries), NEW b \in BOOLEAN,
         NEW s, ReadBy(s, o, f, b), NEW n \in 1 .. Len(f)
  PROVE  /\ s[n] = HandleAdd(s[n - 1], f[n], b)
         /\ s[n - 1] \in Partial(Objects) /\ f[n] \in Entries
         /\ n \in Nat \ {0} /\ n - 1 \in 0 .. Len(f)
<1>1. n \in Nat \ {0} /\ n - 1 \in 0 .. Len(f) /\ f[n] \in Entries
  OBVIOUS
<1>2. s[n - 1] \in Partial(Objects)
  BY <1>1, ReadTyped
<1>3. s[n] = HandleAdd(s[n - 1], f[n], b)
  BY DEF ReadBy
<1> QED BY <1>1, <1>2, <1>3

(* One more line. *)
LEMMA UptoNext ==
  ASSUME NEW f, NEW n \in Nat \ {0}
  PROVE  Upto(f, 0) = {} /\ Upto(f, n) = Upto(f, n - 1) \cup {f[n].at}
<1>1. 1 .. 0 = {} /\ 1 .. n = (1 .. n - 1) \cup {n}
  OBVIOUS
<1> QED BY <1>1 DEF Upto

(* The places of a file are those of all its lines. *)
LEMMA UptoAll ==
  ASSUME NEW f \in Seq(Entries)
  PROVE  Upto(f, Len(f)) = Places(f) /\ Places(f) \subseteq Place
<1>1. DOMAIN f = 1 .. Len(f) /\ \A i \in DOMAIN f : f[i] \in Entries
  OBVIOUS
<1> QED BY <1>1 DEF Upto, Places, Entries

Replacing(b) == b

(* Replacing adds the places of the lines and no others, and all that is   *)
(* read is to be saved.                                                    *)
LEMMA ReadReplacing ==
  ASSUME NEW o \in Partial(Objects), NEW f \in Seq(Entries),
         NEW b \in BOOLEAN, Replacing(b),
         NEW s, ReadBy(s, o, f, b)
  PROVE  \A n \in 0 .. Len(f) :
           /\ DOMAIN s[n] = DOMAIN o \cup Upto(f, n)
           /\ (\A p \in DOMAIN o : o[p].save) => \A p \in DOMAIN s[n] : s[n][p].save
<1> DEFINE N == Len(f)
           P(n) == /\ DOMAIN s[n] = DOMAIN o \cup Upto(f, n)
                   /\ (\A p \in DOMAIN o : o[p].save) => \A p \in DOMAIN s[n] : s[n][p].save
           T == {n \in 0 .. N : P(n)}
<1>1. N \in Nat /\ (\A n \in 1 .. N : f[n] \in Entries)
  OBVIOUS
<1>2. 0 \in T
  <2>1. Upto(f, 0) = {} /\ s[0] = o
    BY UptoNext DEF ReadBy
  <2> QED BY <1>1, <2>1
<1>3. ASSUME NEW n \in 1 .. N, n - 1 \in T PROVE n \in T
  <2> DEFINE q == s[n - 1]
  <2>1. P(n - 1)
    <3> HIDE DEF P
    <3> QED BY <1>3
  <2>2. /\ s[n] = HandleAdd(q, f[n], b) /\ q \in Partial(Objects)
        /\ f[n] \in Entries /\ n \in Nat \ {0}
    BY OneByOne
  <2> HIDE DEF q
  <2>3. /\ DOMAIN s[n] = DOMAIN q \cup {f[n].at}
        /\ \A p \in DOMAIN s[n] : s[n][p] = Told(f[n], b) \/ (p \in DOMAIN q /\ s[n][p] = q[p])
    <3> DEFINE h == HandleAdd(q, f[n], b)
    <3>1. OneLine(q, f[n], b, h)
      BY <2>2, LineRead
    <3> HIDE DEF h
    <3>2. /\ DOMAIN h = DOMAIN q \cup {f[n].at}
          /\ \A p \in DOMAIN h : h[p] = Told(f[n], b) \/ (p \in DOMAIN q /\ h[p] = q[p])
      BY <3>1 DEF OneLine, Replacing
    <3> QED BY <2>2, <3>2 DEF h
  <2>4. Told(f[n], b).save
    BY DEF Told, Replacing
  <2>5. Upto(f, n) = Upto(f, n - 1) \cup {f[n].at}
    BY <2>2, UptoNext
  <2>6. DOMAIN s[n] = DOMAIN o \cup Upto(f, n)
    BY <2>1, <2>3, <2>5 DEF q
  <2>7. (\A p \in DOMAIN o : o[p].save) => \A p \in DOMAIN s[n] : s[n][p].save
    <3>1. (\A p \in DOMAIN o : o[p].save) => \A p \in DOMAIN q : q[p].save
      BY <2>1 DEF q
    <3> QED BY <2>3, <2>4, <3>1
  <2>8. n \in 0 .. N
    BY <1>1
  <2> QED BY <2>6, <2>7, <2>8
<1>4. T \subseteq 0 .. N
  OBVIOUS
<1>5. \A n \in 0 .. N : n \in T
  <2> HIDE DEF T, N
  <2> QED BY <1>1, <1>2, <1>3, <1>4, Counting
<1> QED BY <1>5

(* e is in f, and no later line of its place says anything else. *)
LastSays(f, e) ==
  \E i \in 1 .. Len(f) :
    /\ f[i] = e
    /\ \A j \in i .. Len(f) : f[j].at = e.at => f[j] = e

(* The last line of a place with a line number wins. *)
LEMMA ReadLastWins ==
  ASSUME NEW o \in Partial(Objects), NEW f \in Seq(Entries),
         NEW b \in BOOLEAN, Replacing(b),
         NEW s, ReadBy(s, o, f, b), NEW e, e.at \notin Bare, LastSays(f, e)
  PROVE  s[Len(f)][e.at] = Told(e, b)
<1>1. PICK i \in 1 .. Len(f) : f[i] = e /\ \A j \in i .. Len(f) : f[j].at = e.at => f[j] = e
  BY DEF LastSays
<1> DEFINE N == Len(f)
           P(n) == i <= n => e.at \in DOMAIN s[n] /\ s[n][e.at] = Told(e, b)
           T == {n \in 0 .. N : P(n)}
<1>2. N \in Nat /\ (\A n \in 1 .. N : f[n] \in Entries) /\ i \in Nat /\ i # 0
  OBVIOUS
<1>3. 0 \in T
  <2>1. ~(i <= 0) /\ 0 \in 0 .. N
    BY <1>2
  <2>2. P(0)
    BY <2>1
  <2> QED BY <2>1, <2>2
<1>4. ASSUME NEW n \in 1 .. N, n - 1 \in T PROVE n \in T
  <2> DEFINE q == s[n - 1]
  <2>1. P(n - 1)
    <3> HIDE DEF P
    <3> QED BY <1>4
  <2>2. /\ s[n] = HandleAdd(q, f[n], b) /\ q \in Partial(Objects)
        /\ f[n] \in Entries /\ n \in Nat \ {0}
    BY OneByOne
  <2> HIDE DEF q
  <2>3. /\ DOMAIN s[n] = DOMAIN q \cup {f[n].at}
        /\ f[n].at \notin Bare => s[n][f[n].at] = Told(f[n], b)
        /\ \A p \in DOMAIN q : p # f[n].at => s[n][p] = q[p]
    <3> DEFINE h == HandleAdd(q, f[n], b)
    <3>1. OneLine(q, f[n], b, h)
      BY <2>2, LineRead
    <3> HIDE DEF h
    <3>2. /\ DOMAIN h = DOMAIN q \cup {f[n].at}
          /\ f[n].at \notin Bare => h[f[n].at] = Told(f[n], b)
      BY <3>1 DEF OneLine, Replacing
    <3>3. \A p \in DOMAIN q : p # f[n].at => h[p] = q[p]
      BY <3>1 DEF OneLine
    <3> QED BY <2>2, <3>2, <3>3 DEF h
  <2>4. P(n)
    <3>1. SUFFICES ASSUME i <= n PROVE e.at \in DOMAIN s[n] /\ s[n][e.at] = Told(e, b)
      OBVIOUS
    <3>2. CASE f[n].at = e.at
      <4>1. n \in i .. Len(f)
        BY <1>2, <3>1
      <4>2. f[n] = e
        BY <1>1, <3>2, <4>1
      <4> QED BY <2>3, <4>2
    <3>3. CASE f[n].at # e.at
      <4>1. i # n /\ i <= n - 1
        BY <1>1, <1>2, <3>1, <3>3
      <4>2. e.at \in DOMAIN q /\ q[e.at] = Told(e, b)
        BY <2>1, <4>1 DEF q
      <4> QED BY <2>3, <3>3, <4>2
    <3> QED BY <3>2, <3>3
  <2>5. n \in 0 .. N
    BY <1>2
  <2> QED BY <2>4, <2>5
<1>5. T \subseteq 0 .. N
  OBVIOUS
<1>6. \A n \in 0 .. N : n \in T
  <2> HIDE DEF T, N
  <2> QED BY <1>2, <1>3, <1>4, <1>5, Counting
<1>7. P(N)
  <2>1. N \in T
    <3> HIDE DEF T, N
    <3>1. N \in 0 .. N
      BY <1>2
    <3> QED BY <1>6, <3>1
  <2>2. N \in {n \in 0 .. N : P(n)} => P(N)
    <3> HIDE DEF P, N
    <3> QED OBVIOUS
  <2> QED BY <2>1, <2>2
<1> QED BY <1>2, <1>7

(* Without replacing, a line whose place is taken goes to the first place  *)
(* of its function, and only such a line does.                             *)
LEMMA ReadAdding ==
  ASSUME NEW o \in Partial(Objects), NEW f \in Seq(Entries), NEW b \in BOOLEAN, ~b,
         NEW s, ReadBy(s, o, f, b)
  PROVE  \A n \in 0 .. Len(f) :
           DOMAIN s[n] \subseteq DOMAIN o \cup Upto(f, n) \cup {Entry[p] : p \in Retried(o, f)}
<1> DEFINE N == Len(f)
           E == {Entry[p] : p \in Retried(o, f)}
           T == {n \in 0 .. N : DOMAIN s[n] \subseteq DOMAIN o \cup Upto(f, n) \cup E}
<1>1. N \in Nat /\ (\A n \in 1 .. N : f[n] \in Entries) /\ DOMAIN f = 1 .. N
  OBVIOUS
<1>2. 0 \in T
  <2>1. s[0] = o
    BY DEF ReadBy
  <2> QED BY <1>1, <2>1
<1>3. ASSUME NEW n \in 1 .. N, n - 1 \in T PROVE n \in T
  <2> DEFINE q == s[n - 1]
             a == f[n].at
  <2>1. DOMAIN q \subseteq DOMAIN o \cup Upto(f, n - 1) \cup E
    <3> HIDE DEF E
    <3> QED BY <1>3
  <2>2. /\ s[n] = HandleAdd(q, f[n], b) /\ q \in Partial(Objects)
        /\ f[n] \in Entries /\ n \in Nat \ {0}
    BY OneByOne
  <2> HIDE DEF q
  <2>3. DOMAIN s[n] \subseteq
          DOMAIN q \cup {a} \cup (IF a \in DOMAIN q \cap Line THEN {Entry[a]} ELSE {})
    <3>1. DOMAIN HandleAdd(q, f[n], b) \subseteq
            DOMAIN q \cup {a} \cup (IF a \in DOMAIN q \cap Line THEN {Entry[a]} ELSE {})
      BY <2>2, LineRead DEF OneLine
    <3> QED BY <2>2, <3>1
  <2>4. Upto(f, n) = Upto(f, n - 1) \cup {a}
    BY <2>2, UptoNext
  <2>5. ASSUME a \in DOMAIN q \cap Line
        PROVE  Entry[a] \in DOMAIN o \cup Upto(f, n) \cup E
    <3>1. CASE a \in DOMAIN o \cup Upto(f, n - 1)
      <4>1. a \in DOMAIN o \cup {f[j].at : j \in 1 .. n - 1}
        BY <3>1 DEF Upto
      <4>2. a \in Retried(o, f)
        BY <1>1, <2>5, <4>1 DEF Retried
      <4> QED BY <4>2
    <3>2. CASE a \in E
      <4>1. PICK p \in Retried(o, f) : a = Entry[p]
        BY <3>2
      <4>2. p \in Line
        BY DEF Retried
      <4>3. Entry[a] = a
        BY <4>1, <4>2, PlaceAssumption
      <4> QED BY <3>2, <4>3
    <3> QED BY <2>1, <2>5, <3>1, <3>2
  <2>6. DOMAIN s[n] \subseteq DOMAIN o \cup Upto(f, n) \cup E
    <3> HIDE DEF E, a
    <3> QED BY <2>1, <2>3, <2>4, <2>5
  <2> QED BY <1>1, <2>6
<1>4. T \subseteq 0 .. N
  OBVIOUS
<1>5. \A n \in 0 .. N : n \in T
  <2> HIDE DEF T, N
  <2> QED BY <1>1, <1>2, <1>3, <1>4, Counting
<1> QED BY <1>5

(* What reading a file does. *)
LEMMA FileRead ==
  ASSUME NEW o \in Partial(Objects), NEW f \in Seq(Entries), NEW b \in BOOLEAN
  PROVE  /\ read_config_file(o, f, b) \in Partial(Objects)
         /\ b => DOMAIN read_config_file(o, f, b) = DOMAIN o \cup Places(f)
         /\ DOMAIN read_config_file(o, f, b) \subseteq DOMAIN o \cup Asks(o, f, b)
         /\ b /\ (\A p \in DOMAIN o : o[p].save) =>
              \A p \in DOMAIN read_config_file(o, f, b) : read_config_file(o, f, b)[p].save
         /\ \A e : b /\ e.at \notin Bare /\ LastSays(f, e) =>
                    read_config_file(o, f, b)[e.at] = Told(e, b)
<1>1. Len(f) \in Nat
  OBVIOUS
<1>2. PICK s : ReadBy(s, o, f, b) /\ read_config_file(o, f, b) = s[Len(f)]
  BY <1>1, Reading
<1> DEFINE r == s[Len(f)]
<1>3. Len(f) \in 0 .. Len(f)
  BY <1>1
<1>4. r \in Partial(Objects)
  BY <1>2, <1>3, ReadTyped
<1>5. Upto(f, Len(f)) = Places(f)
  BY UptoAll
<1>6. CASE b
  <2>1. Replacing(b) /\ ReadBy(s, o, f, b)
    BY <1>2, <1>6 DEF Replacing
  <2>2. /\ DOMAIN r = DOMAIN o \cup Upto(f, Len(f))
        /\ (\A p \in DOMAIN o : o[p].save) => \A p \in DOMAIN r : r[p].save
    BY <1>3, <2>1, ReadReplacing
  <2>3. \A e : e.at \notin Bare /\ LastSays(f, e) => r[e.at] = Told(e, b)
    BY <2>1, ReadLastWins
  <2> HIDE DEF r
  <2>4. DOMAIN r \subseteq DOMAIN o \cup Asks(o, f, b)
    BY <1>5, <2>2 DEF Asks
  <2> QED BY <1>2, <1>4, <1>5, <2>2, <2>3, <2>4 DEF r
<1>7. CASE ~b
  <2>1. ~b /\ ReadBy(s, o, f, b)
    BY <1>2, <1>7
  <2>2. DOMAIN r \subseteq DOMAIN o \cup Upto(f, Len(f)) \cup {Entry[p] : p \in Retried(o, f)}
    BY <1>3, <2>1, ReadAdding
  <2> HIDE DEF r
  <2>3. DOMAIN r \subseteq DOMAIN o \cup Asks(o, f, b)
    BY <1>5, <1>7, <2>2 DEF Asks
  <2> QED BY <1>2, <1>4, <1>7, <2>3 DEF r
<1> QED BY <1>6, <1>7

-----------------------------------------------------------------------------
(* Writing a file, and reading it again.                                   *)

(* A finite set in some order. *)
LEMMA InOrder ==
  ASSUME NEW S, IsFiniteSet(S)
  PROVE  /\ SetToSeq(S) \in Seq(S)
         /\ \A x \in S : \E i \in 1 .. Len(SetToSeq(S)) : SetToSeq(S)[i] = x
<1> DEFINE c == Cardinality(S)
           f == SetToSeq(S)
<1>1. c \in Nat /\ ExistsBijection(1 .. c, S)
  BY FS_CardinalityType
<1>2. \E g \in [1 .. c -> S] : IsInjective(g)
  BY <1>1 DEF ExistsBijection, Bijection, Injection
<1>3. f \in [1 .. c -> S] /\ IsInjective(f)
  BY <1>2 DEF SetToSeq
<1> HIDE DEF f
<1>4. f \in Injection(1 .. c, S)
  BY <1>3 DEF Injection
<1>5. IsFiniteSet(1 .. c) /\ Cardinality(1 .. c) = c
  <2>1. 1 \in Int /\ c \in Int
    BY <1>1
  <2>2. /\ IsFiniteSet(1 .. c)
        /\ Cardinality(1 .. c) = IF 1 > c THEN 0 ELSE c - 1 + 1
    BY <2>1, FS_Interval
  <2> QED BY <1>1, <2>2
<1>6. f \in Surjection(1 .. c, S)
  BY <1>4, <1>5, FS_Injection
<1>7. f \in Seq(S) /\ Len(f) = c
  BY <1>1, <1>3
<1>8. \A x \in S : \E i \in 1 .. Len(f) : f[i] = x
  BY <1>6, <1>7 DEF Surjection
<1> QED BY <1>7, <1>8 DEF f

(* The line for the breakpoint at p. *)
LineOf(o, p) == [at |-> p, code |-> o[p].code, inactive |-> o[p].inactive /\ p \in Line]

(* f says of each place of D last what o has there. *)
Says(f, o, D) == \A p \in D : LastSays(f, LineOf(o, p))

(* A line for a place. *)
LEMMA Lines ==
  ASSUME NEW o \in Partial(Objects), NEW p \in DOMAIN o
  PROVE  LineOf(o, p) \in Entries /\ LineOf(o, p).at = p
<1>1. p \in Place /\ o[p] \in Objects
  BY Parts
<1>2. o[p].code \in BOOLEAN /\ o[p].inactive \in BOOLEAN
  BY <1>1 DEF Objects
<1>3. (o[p].inactive /\ p \in Line) \in BOOLEAN
  OBVIOUS
<1> QED BY <1>1, <1>2, <1>3 DEF LineOf, Entries

(* save_object_to_file for those of W: their places and no others, each    *)
(* with what is there.                                                     *)
LEMMA SavedFile ==
  ASSUME NEW o \in Partial(Objects), NEW W
  PROVE  /\ Saved(o, W) \in Seq(Entries)
         /\ Places(Saved(o, W)) = DOMAIN o \cap W
         /\ Says(Saved(o, W), o, DOMAIN o \cap W)
<1> DEFINE D == DOMAIN o \cap W
           S == {LineOf(o, p) : p \in D}
           f == Saved(o, W)
<1>1. f = SetToSeq(S)
  BY DEF Saved, LineOf
<1>2. IsFiniteSet(S)
  <2>1. IsFiniteSet(Place)
    BY PlaceAssumption, FS_Union DEF Place
  <2>2. D \in SUBSET Place
    BY Parts
  <2>3. IsFiniteSet(D)
    <3> HIDE DEF D
    <3> QED BY <2>1, <2>2, FS_Subset
  <2> DEFINE m == [p \in D |-> LineOf(o, p)]
  <2>4. m \in Surjection(D, S)
    BY DEF Surjection
  <2> HIDE DEF m, D, S
  <2> QED BY <2>3, <2>4, FS_Surjection
<1>3. /\ f \in Seq(S)
      /\ \A x \in S : \E i \in 1 .. Len(f) : f[i] = x
  <2> HIDE DEF S, f
  <2> QED BY <1>1, <1>2, InOrder
<1>4. \A p \in D : LineOf(o, p) \in Entries /\ LineOf(o, p).at = p
  BY Lines
<1>5. S \subseteq Entries
  BY <1>4
<1> HIDE DEF f
<1>6. f \in Seq(Entries)
  <2> HIDE DEF S
  <2> QED BY <1>3, <1>5, SeqMonotonic
<1>7. DOMAIN f = 1 .. Len(f) /\ \A i \in 1 .. Len(f) : f[i] \in S
  BY <1>3
<1>8. \A x \in S : x.at \in D /\ x = LineOf(o, x.at)
  BY <1>4
<1>9. \A p \in D : \E i \in 1 .. Len(f) : f[i] = LineOf(o, p)
  BY <1>3
<1>10. Places(f) = D
  <2>1. Places(f) \subseteq D
    <3> HIDE DEF S, D
    <3> QED BY <1>7, <1>8 DEF Places
  <2>2. D \subseteq Places(f)
    <3> HIDE DEF S, D
    <3> QED BY <1>4, <1>7, <1>9 DEF Places
  <2> QED BY <2>1, <2>2
<1>11. ASSUME NEW p \in D PROVE LastSays(f, LineOf(o, p))
  <2>1. PICK i \in 1 .. Len(f) : f[i] = LineOf(o, p)
    BY <1>9
  <2>2. ASSUME NEW j \in i .. Len(f), f[j].at = LineOf(o, p).at PROVE f[j] = LineOf(o, p)
    <3>1. j \in 1 .. Len(f)
      BY <1>6
    <3>2. f[j] = LineOf(o, f[j].at)
      <4> HIDE DEF S
      <4> QED BY <1>7, <1>8, <3>1
    <3> QED BY <1>4, <2>2, <3>2
  <2> QED BY <2>1, <2>2 DEF LastSays
<1> HIDE DEF D
<1>12. Says(f, o, D)
  BY <1>11 DEF Says
<1> QED BY <1>6, <1>10, <1>12 DEF f, D

(* What is appended is said last. *)
LEMMA SaysAfter ==
  ASSUME NEW f \in Seq(Entries), NEW g \in Seq(Entries), NEW o, NEW D, Says(g, o, D)
  PROVE  Says(f \o g, o, D)
<1> SUFFICES ASSUME NEW p \in D PROVE LastSays(f \o g, LineOf(o, p))
  BY DEF Says
<1> DEFINE e == LineOf(o, p)
           h == f \o g
<1> HIDE DEF e
<1>1. LastSays(g, e)
  BY DEF Says, e
<1>2. PICK i \in 1 .. Len(g) : g[i] = e /\ \A j \in i .. Len(g) : g[j].at = e.at => g[j] = e
  BY <1>1 DEF LastSays
<1>3. /\ Len(h) = Len(f) + Len(g) /\ Len(f) \in Nat /\ Len(g) \in Nat
      /\ \A k \in 1 .. Len(f) + Len(g) : h[k] = IF k <= Len(f) THEN f[k] ELSE g[k - Len(f)]
  BY ConcatProperties
<1> HIDE DEF h
<1>4. Len(f) + i \in 1 .. Len(h) /\ h[Len(f) + i] = e
  BY <1>2, <1>3
<1>5. ASSUME NEW j \in Len(f) + i .. Len(h), h[j].at = e.at PROVE h[j] = e
  <2>1. j - Len(f) \in i .. Len(g) /\ h[j] = g[j - Len(f)]
    BY <1>3
  <2> QED BY <1>2, <1>5, <2>1
<1>6. LastSays(h, e)
  BY <1>4, <1>5 DEF LastSays
<1> QED BY <1>6 DEF h, e

(* What is appended about other places changes nothing. *)
LEMMA SaysBefore ==
  ASSUME NEW f \in Seq(Entries), NEW g \in Seq(Entries), NEW o \in Partial(Objects), NEW D,
         D \subseteq DOMAIN o, Says(f, o, D), Places(g) \cap D = {}
  PROVE  Says(f \o g, o, D)
<1> SUFFICES ASSUME NEW p \in D PROVE LastSays(f \o g, LineOf(o, p))
  BY DEF Says
<1> DEFINE e == LineOf(o, p)
           h == f \o g
<1>0. e.at = p
  BY Lines
<1> HIDE DEF e
<1>1. LastSays(f, e)
  BY DEF Says, e
<1>2. PICK i \in 1 .. Len(f) : f[i] = e /\ \A j \in i .. Len(f) : f[j].at = e.at => f[j] = e
  BY <1>1 DEF LastSays
<1>3. /\ Len(h) = Len(f) + Len(g) /\ Len(f) \in Nat /\ Len(g) \in Nat
      /\ \A k \in 1 .. Len(f) + Len(g) : h[k] = IF k <= Len(f) THEN f[k] ELSE g[k - Len(f)]
  BY ConcatProperties
<1>4. \A k \in 1 .. Len(g) : g[k].at \in Places(g)
  BY DEF Places
<1> HIDE DEF h
<1>5. i \in 1 .. Len(h) /\ h[i] = e
  BY <1>2, <1>3
<1>6. ASSUME NEW j \in i .. Len(h), h[j].at = e.at PROVE h[j] = e
  <2>1. CASE j <= Len(f)
    <3>1. j \in i .. Len(f) /\ h[j] = f[j]
      BY <1>3, <2>1
    <3> QED BY <1>2, <1>6, <3>1
  <2>2. CASE ~(j <= Len(f))
    <3>1. j - Len(f) \in 1 .. Len(g) /\ h[j] = g[j - Len(f)]
      BY <1>2, <1>3, <2>2
    <3> QED BY <1>0, <1>4, <1>6, <3>1
  <2> QED BY <2>1, <2>2
<1>7. LastSays(h, e)
  BY <1>5, <1>6 DEF LastSays
<1> QED BY <1>7 DEF h, e

(* r has what o has at the places of D, but for what a file does not say   *)
(* and for the first line of a place without a line number.                *)
Keeps(o, r, D) ==
  \A p \in D :
    /\ p \in WantSave(r)
    /\ r[p].code = o[p].code \/ p \in Bare
    /\ r[p].inactive = o[p].inactive \/ p \in Bare \cup CodeLine

(* No breakpoints. *)
LEMMA NoneTyped == None \in Partial(Objects) /\ DOMAIN None = {}
<1>1. DOMAIN None = {} /\ None = [p \in DOMAIN None |-> None[p]]
  BY DEF None
<1> QED BY <1>1, Parts

(* A file read onto nothing brings back what it says last. *)
LEMMA Back ==
  ASSUME NEW f \in Seq(Entries), NEW o \in Partial(Objects), NEW D,
         D \subseteq DOMAIN o, Says(f, o, D), NEW b \in BOOLEAN, Replacing(b)
  PROVE  Keeps(o, read_config_file(None, f, b), D)
<1> DEFINE r == read_config_file(None, f, b)
<1>1. /\ b => DOMAIN r = DOMAIN None \cup Places(f)
      /\ b /\ (\A p \in DOMAIN None : None[p].save) => \A p \in DOMAIN r : r[p].save
      /\ \A e : b /\ e.at \notin Bare /\ LastSays(f, e) => r[e.at] = Told(e, b)
  BY NoneTyped, FileRead
<1> HIDE DEF r
<1>2. /\ DOMAIN r = Places(f) /\ \A p \in DOMAIN r : r[p].save
      /\ \A e : e.at \notin Bare /\ LastSays(f, e) => r[e.at] = Told(e, b)
  BY <1>1, NoneTyped DEF Replacing
<1>3. ASSUME NEW p \in D
      PROVE  /\ p \in WantSave(r)
             /\ r[p].code = o[p].code \/ p \in Bare
             /\ r[p].inactive = o[p].inactive \/ p \in Bare \cup CodeLine
  <2> DEFINE e == LineOf(o, p)
  <2>1. e.at = p /\ LastSays(f, e)
    BY Lines DEF Says
  <2>2. p \in Places(f)
    <3>1. PICK i \in 1 .. Len(f) : f[i] = e
      BY <2>1 DEF LastSays
    <3>2. i \in DOMAIN f /\ f[i].at = p
      BY <2>1, <3>1
    <3> QED BY <3>2 DEF Places
  <2>3. p \in WantSave(r)
    BY <1>2, <2>2 DEF WantSave
  <2>4. p \notin Bare => r[p] = Told(e, b)
    <3> HIDE DEF e
    <3> QED BY <1>2, <2>1
  <2>5. Told(e, b).code = o[p].code /\ Told(e, b).inactive = (o[p].inactive /\ p \in Line)
    BY DEF Told, LineOf
  <2>6. o[p].inactive \in BOOLEAN /\ p \in Line \cup CodeLine
    BY Parts DEF Objects, Place
  <2> HIDE DEF e
  <2>7. p \in Line => Told(e, b).inactive = o[p].inactive
    BY <2>5, <2>6
  <2> QED BY <2>3, <2>4, <2>5, <2>6, <2>7
<1>4. Keeps(o, r, D)
  BY <1>3 DEF Keeps
<1> QED BY <1>4 DEF r

(* What restore_target_state does with a file f, there or not, and the     *)
(* breakpoints o.                                                          *)
Restores(f, there, o, g, r) ==
  /\ g \in Seq(Entries) /\ r \in Partial(Objects)
  /\ Places(g) \subseteq Places(f) \cup DOMAIN o
  /\ DOMAIN r \subseteq Places(f) \cup DOMAIN o
  /\ ~there => g = f /\ r = o
  /\ there => /\ g = f \o save_all_breakpoints_to_file(o)
              /\ \A q \in Partial(Objects) : \A D \in SUBSET DOMAIN q :
                   Says(g, q, D) => Keeps(q, r, D)

(* The places of two files, one after the other. *)
LEMMA PlacesConcat ==
  ASSUME NEW f \in Seq(Entries), NEW g \in Seq(Entries)
  PROVE  f \o g \in Seq(Entries) /\ Places(f \o g) \subseteq Places(f) \cup Places(g)
<1> DEFINE h == f \o g
<1>1. /\ h \in Seq(Entries) /\ Len(h) = Len(f) + Len(g) /\ Len(f) \in Nat /\ Len(g) \in Nat
      /\ \A k \in 1 .. Len(f) + Len(g) : h[k] = IF k <= Len(f) THEN f[k] ELSE g[k - Len(f)]
  BY ConcatProperties
<1>2. /\ DOMAIN h = 1 .. Len(h) /\ DOMAIN f = 1 .. Len(f) /\ DOMAIN g = 1 .. Len(g)
  BY <1>1
<1> HIDE DEF h
<1>3. ASSUME NEW k \in DOMAIN h PROVE h[k].at \in Places(f) \cup Places(g)
  <2>1. CASE k <= Len(f)
    <3>1. k \in DOMAIN f /\ h[k] = f[k]
      BY <1>1, <1>2, <2>1
    <3> QED BY <3>1 DEF Places
  <2>2. CASE ~(k <= Len(f))
    <3>1. k - Len(f) \in DOMAIN g /\ h[k] = g[k - Len(f)]
      BY <1>1, <1>2, <2>2
    <3> QED BY <3>1 DEF Places
  <2> QED BY <2>1, <2>2
<1>4. Places(h) \subseteq Places(f) \cup Places(g)
  BY <1>3 DEF Places
<1> QED BY <1>1, <1>4 DEF h

(* What save_all_breakpoints_to_file writes. *)
LEMMA SavedAll ==
  ASSUME NEW o \in Partial(Objects)
  PROVE  /\ save_all_breakpoints_to_file(o) \in Seq(Entries)
         /\ Places(save_all_breakpoints_to_file(o)) = WantSave(o)
         /\ Says(save_all_breakpoints_to_file(o), o, WantSave(o))
         /\ WantSave(o) \subseteq DOMAIN o
<1>1. WantSave(o) \subseteq DOMAIN o
  BY DEF WantSave
<1>2. DOMAIN o \cap WantSave(o) = WantSave(o)
  BY <1>1
<1> QED BY <1>1, <1>2, SavedFile DEF save_all_breakpoints_to_file

(* restore_target_state does it. *)
LEMMA Restored ==
  ASSUME NEW f \in Seq(Entries), NEW there \in BOOLEAN, NEW o \in Partial(Objects),
         NEW x, x = restore_target_state(f, there, o)
  PROVE  Restores(f, there, o, x.f, x.o)
<1> DEFINE g == f \o save_all_breakpoints_to_file(o)
<1>1. CASE ~there
  <2>1. x.f = f /\ x.o = o
    BY <1>1 DEF restore_target_state
  <2> QED BY <1>1, <2>1 DEF Restores
<1>2. CASE there
  <2> DEFINE r == read_config_file(None, g, TRUE)
  <2>1. x.f = g /\ x.o = r
    BY <1>2 DEF restore_target_state
  <2>2. /\ g \in Seq(Entries) /\ Places(g) \subseteq Places(f) \cup DOMAIN o
    BY SavedAll, PlacesConcat
  <2> HIDE DEF g
  <2>3. PICK b \in BOOLEAN : b = TRUE
    OBVIOUS
  <2>4. r = read_config_file(None, g, b) /\ Replacing(b)
    BY <2>3 DEF Replacing
  <2>5. r \in Partial(Objects) /\ DOMAIN r = Places(g)
    <3> DEFINE rr == read_config_file(None, g, b)
    <3>1. rr \in Partial(Objects) /\ (b => DOMAIN rr = DOMAIN None \cup Places(g))
      BY <2>2, NoneTyped, FileRead
    <3> HIDE DEF rr
    <3>2. rr \in Partial(Objects) /\ DOMAIN rr = Places(g)
      BY <2>3, <3>1, NoneTyped
    <3> QED BY <2>4, <3>2 DEF rr
  <2>6. ASSUME NEW q \in Partial(Objects), NEW D \in SUBSET DOMAIN q, Says(g, q, D)
        PROVE  Keeps(q, r, D)
    <3>1. Keeps(q, read_config_file(None, g, b), D)
      BY <2>2, <2>4, <2>6, Back
    <3> QED BY <2>4, <3>1
  <2> HIDE DEF r
  <2>7. Restores(f, there, o, g, r)
    BY <1>2, <2>2, <2>5, <2>6 DEF Restores, g
  <2> QED BY <2>1, <2>7 DEF g
<1> QED BY <1>1, <1>2

-----------------------------------------------------------------------------
(* The inductive invariant: what is there, and what the temporary file     *)
(* could bring back, was asked for, and was there since the file was       *)
(* emptied.                                                                *)

Known == DOMAIN objs \cup Places(temp) \subseteq asked \cap had
Inv == TypeOK /\ Known

(* An empty file has no places. *)
LEMMA EmptyFile == <<>> \in Seq(Entries) /\ Places(<<>>) = {}
  BY DEF Places

(* What a file asks for are places. *)
LEMMA AsksTyped ==
  ASSUME NEW o, NEW f \in Seq(Entries), NEW b \in BOOLEAN
  PROVE  Asks(o, f, b) \subseteq Place
<1>1. Places(f) \subseteq Place
  BY UptoAll
<1>2. \A p \in Retried(o, f) : Entry[p] \in Place
  BY PlaceAssumption DEF Retried, Place
<1> QED BY <1>1, <1>2 DEF Asks

(* load_config puts breakpoints where the .config file asks for them. *)
LEMMA ConfigRead ==
  /\ read_config_file(None, Config, FALSE) \in Partial(Objects)
  /\ DOMAIN read_config_file(None, Config, FALSE) \subseteq Asks(None, Config, FALSE)
  /\ Asks(None, Config, FALSE) \subseteq Place
<1>1. PICK b \in BOOLEAN : b = FALSE
  OBVIOUS
<1>2. Config \in Seq(Entries)
  BY PlaceAssumption
<1>3. /\ read_config_file(None, Config, b) \in Partial(Objects)
      /\ DOMAIN read_config_file(None, Config, b) \subseteq DOMAIN None \cup Asks(None, Config, b)
  BY <1>2, NoneTyped, FileRead
<1>4. Asks(None, Config, b) \subseteq Place
  BY <1>2, AsksTyped
<1> QED BY <1>1, <1>3, <1>4, NoneTyped

(* A session begins so. *)
LEMMA InitInv == Init => Inv
<1> SUFFICES ASSUME Init PROVE Inv
  OBVIOUS
<1>1. objs \in Partial(Objects) /\ DOMAIN objs \subseteq asked /\ asked \subseteq Place
  BY ConfigRead DEF Init
<1>2. TypeOK
  <2>1. temp = <<>> /\ state = <<>> /\ own = <<>> /\ had = DOMAIN objs
    BY DEF Init
  <2>2. tempThere \in BOOLEAN /\ running \in BOOLEAN
    BY DEF Init
  <2> QED BY <1>1, <2>1, <2>2, EmptyFile DEF TypeOK
<1>3. Known
  BY <1>1, EmptyFile DEF Init, Known
<1> QED BY <1>2, <1>3 DEF Inv

(* A command that adds only where it asks. *)
LEMMA NowKeeps ==
  ASSUME Inv, NEW o \in Partial(Objects), NEW P \in SUBSET Place,
         DOMAIN o \subseteq DOMAIN objs \cup P, Now(o, P), own' \in Seq(Entries)
  PROVE  Inv'
<1>1. /\ objs' = o /\ asked' = asked \cup P /\ had' = had \cup DOMAIN o
      /\ temp' = temp /\ tempThere' = tempThere /\ state' = state /\ running' = running
  BY DEF Now
<1>2. DOMAIN o \subseteq Place
  BY Parts
<1>3. TypeOK'
  BY <1>1, <1>2 DEF Inv, TypeOK
<1>4. Known'
  BY <1>1 DEF Inv, Known
<1> QED BY <1>3, <1>4 DEF Inv

(* One object set, or taken away, leaves objects at places. *)
LEMMA Changed ==
  ASSUME NEW o \in Partial(Objects), NEW p \in Place, NEW v \in Objects
  PROVE  /\ With(o, p, v) \in Partial(Objects) /\ DOMAIN With(o, p, v) = DOMAIN o \cup {p}
         /\ [o EXCEPT ![p] = v] \in Partial(Objects) /\ DOMAIN [o EXCEPT ![p] = v] = DOMAIN o
<1>1. DOMAIN o \subseteq Place /\ o = [q \in DOMAIN o |-> o[q]] /\ \A q \in DOMAIN o : o[q] \in Objects
  BY Parts
<1> DEFINE a == With(o, p, v)
           c == [o EXCEPT ![p] = v]
<1>2. a = [q \in DOMAIN o \cup {p} |-> IF q = p THEN v ELSE o[q]]
  BY DEF With
<1>3. DOMAIN a = DOMAIN o \cup {p} /\ a = [q \in DOMAIN a |-> a[q]]
      /\ \A q \in DOMAIN a : a[q] \in Objects
  <2> HIDE DEF a
  <2> QED BY <1>1, <1>2
<1>4. DOMAIN c = DOMAIN o /\ c = [q \in DOMAIN c |-> c[q]] /\ \A q \in DOMAIN c : c[q] \in Objects
  BY <1>1
<1> HIDE DEF a, c
<1>5. a \in Partial(Objects)
  BY <1>1, <1>3, Parts
<1>6. c \in Partial(Objects)
  BY <1>1, <1>4, Parts
<1> QED BY <1>3, <1>4, <1>5, <1>6 DEF a, c

(* Some of the objects. *)
LEMMA Some ==
  ASSUME NEW o \in Partial(Objects), NEW D \in SUBSET DOMAIN o
  PROVE  /\ Restrict(o, D) \in Partial(Objects) /\ DOMAIN Restrict(o, D) = D
         /\ \A p \in D : Restrict(o, D)[p] = o[p]
<1> DEFINE r == Restrict(o, D)
<1>1. DOMAIN r = D /\ r = [p \in DOMAIN r |-> r[p]] /\ \A p \in D : r[p] = o[p]
  BY DEF Restrict
<1> HIDE DEF r
<1>2. r \in Partial(Objects)
  BY <1>1, Parts
<1> QED BY <1>1, <1>2 DEF r

-----------------------------------------------------------------------------
(* The commands.                                                           *)

(* The parts of the type invariant, one by one. *)
LEMMA Typed ==
  ASSUME Inv
  PROVE  /\ objs \in Partial(Objects) /\ DOMAIN objs \subseteq Place
         /\ \A p \in DOMAIN objs : objs[p] \in Objects
         /\ temp \in Seq(Entries) /\ state \in Seq(Entries) /\ own \in Seq(Entries)
         /\ tempThere \in BOOLEAN /\ running \in BOOLEAN
         /\ asked \subseteq Place /\ had \subseteq Place
         /\ tempThere \/ temp = <<>>
<1>1. objs \in Partial(Objects)
  BY DEF Inv, TypeOK
<1> QED BY <1>1, Parts DEF Inv, TypeOK

(* A breakpoint or interpreted code is added. *)
LEMMA AddKeeps ==
  ASSUME Inv, NEW p \in Place, Add(p)
  PROVE  Inv'
<1> DEFINE v == make_bd(p \in CodeLine)
<1>1. v \in Objects
  <2>1. (p \in CodeLine) \in BOOLEAN
    OBVIOUS
  <2> QED BY <2>1 DEF make_bd, Objects
<1>2. Now(With(objs, p, v), {p}) /\ own' = own
  BY DEF Add
<1> HIDE DEF v
<1>3. With(objs, p, v) \in Partial(Objects) /\ DOMAIN With(objs, p, v) = DOMAIN objs \cup {p}
  BY <1>1, Typed, Changed
<1> QED BY <1>2, <1>3, Typed, NowKeeps

(* Code is edited, or a breakpoint switched. *)
LEMMA EditKeeps ==
  ASSUME Inv, NEW p \in Place, NEW b \in BOOLEAN, EditCode(p) \/ set_bpt_state(p, b)
  PROVE  Inv'
<1> DEFINE v == [objs[p] EXCEPT !.code = TRUE, !.save = TRUE]
           w == [objs[p] EXCEPT !.inactive = b]
<1>1. p \in DOMAIN objs /\ own' = own
  BY DEF EditCode, set_bpt_state
<1>2. objs[p] \in Objects
  BY <1>1, Typed
<1>3. v \in Objects /\ w \in Objects
  BY <1>2 DEF Objects
<1>4. /\ [objs EXCEPT ![p].code = TRUE, ![p].save = TRUE] = [objs EXCEPT ![p] = v]
      /\ [objs EXCEPT ![p].inactive = b] = [objs EXCEPT ![p] = w]
  BY <1>1, <1>2, Typed DEF Objects
<1>5. \E u \in Objects : Now([objs EXCEPT ![p] = u], {})
  <2>1. CASE EditCode(p)
    BY <1>3, <1>4, <2>1 DEF EditCode
  <2>2. CASE set_bpt_state(p, b)
    BY <1>3, <1>4, <2>2 DEF set_bpt_state
  <2> QED BY <2>1, <2>2
<1>6. PICK u \in Objects : Now([objs EXCEPT ![p] = u], {})
  BY <1>5
<1>7. [objs EXCEPT ![p] = u] \in Partial(Objects) /\ DOMAIN [objs EXCEPT ![p] = u] = DOMAIN objs
  BY Typed, Changed
<1>8. {} \in SUBSET Place
  OBVIOUS
<1> QED BY <1>1, <1>6, <1>7, <1>8, Typed, NowKeeps

(* A breakpoint is dragged to another line. *)
LEMMA MoveKeeps ==
  ASSUME Inv, NEW p \in Line, NEW q \in Line, move_bpt(p, q)
  PROVE  Inv'
<1> DEFINE r == Restrict(objs, DOMAIN objs \ {p})
           v == [objs[p] EXCEPT !.save = TRUE]
<1>1. p \in DOMAIN objs /\ own' = own /\ Now(With(r, q, v), {q}) /\ q \in Place
  BY DEF move_bpt, Place
<1>2. v \in Objects
  BY <1>1, Typed DEF Objects
<1>3. r \in Partial(Objects) /\ DOMAIN r = DOMAIN objs \ {p}
  BY Typed, Some
<1> HIDE DEF r, v
<1>4. With(r, q, v) \in Partial(Objects) /\ DOMAIN With(r, q, v) = DOMAIN r \cup {q}
  BY <1>1, <1>2, <1>3, Changed
<1> QED BY <1>1, <1>3, <1>4, Typed, NowKeeps

(* One is removed, or all of them. *)
LEMMA RemoveKeeps ==
  ASSUME Inv, NEW p, remove_object(p) \/ remove_all
  PROVE  Inv'
<1> DEFINE r == Restrict(objs, DOMAIN objs \ {p})
<1>1. r \in Partial(Objects) /\ DOMAIN r = DOMAIN objs \ {p}
  BY Typed, Some
<1>2. {} \in SUBSET Place
  OBVIOUS
<1>3. CASE remove_object(p)
  <2>1. Now(r, {}) /\ own' = own
    BY <1>3 DEF remove_object
  <2> HIDE DEF r
  <2> QED BY <1>1, <1>2, <2>1, Typed, NowKeeps
<1>4. CASE remove_all
  <2>1. Now(None, {}) /\ own' = own
    BY <1>4 DEF remove_all
  <2>2. DOMAIN None \subseteq DOMAIN objs
    BY NoneTyped
  <2> QED BY <1>2, <2>1, <2>2, Typed, NoneTyped, NowKeeps
<1> QED BY <1>3, <1>4

(* One is written to a file of the user's. *)
LEMMA SaveKeeps ==
  ASSUME Inv, NEW p, NEW b \in BOOLEAN, SaveOne(p, b)
  PROVE  Inv'
<1> DEFINE f == IF b THEN own ELSE <<>>
<1>1. own' = f \o Saved(objs, {p}) /\ Now(objs, {})
  BY DEF SaveOne
<1>2. f \in Seq(Entries) /\ Saved(objs, {p}) \in Seq(Entries)
  BY Typed, SavedFile, EmptyFile
<1> HIDE DEF f
<1>3. own' \in Seq(Entries)
  BY <1>1, <1>2, PlacesConcat
<1>4. {} \in SUBSET Place /\ DOMAIN objs \subseteq DOMAIN objs \cup {}
  OBVIOUS
<1> QED BY <1>1, <1>3, <1>4, Typed, NowKeeps

(* A file is loaded, the user's or that of the last session. *)
LEMMA LoadKeeps ==
  ASSUME Inv, NEW f \in Seq(Entries), NEW b \in BOOLEAN,
         Now(read_config_file(objs, f, b), Asks(objs, f, b)), own' = own
  PROVE  Inv'
<1> DEFINE r == read_config_file(objs, f, b)
<1>1. r \in Partial(Objects) /\ DOMAIN r \subseteq DOMAIN objs \cup Asks(objs, f, b)
  BY Typed, FileRead
<1>2. Asks(objs, f, b) \in SUBSET Place
  BY AsksTyped
<1>3. Now(r, Asks(objs, f, b))
  OBVIOUS
<1> HIDE DEF r
<1> QED BY <1>1, <1>2, <1>3, Typed, NowKeeps

(* The user's commands keep it. *)
LEMMA CommandKeeps ==
  ASSUME Inv, Command
  PROVE  Inv'
<1>1. CASE \E p \in Place : Add(p) \/ EditCode(p) \/ remove_object(p)
  <2>1. TRUE \in BOOLEAN
    OBVIOUS
  <2> QED BY <1>1, <2>1, AddKeeps, EditKeeps, RemoveKeeps
<1>2. CASE \E p, q \in Line : move_bpt(p, q)
  BY <1>2, MoveKeeps
<1>3. CASE \E p \in Place, b \in BOOLEAN : set_bpt_state(p, b) \/ SaveOne(p, b)
  BY <1>3, EditKeeps, SaveKeeps
<1>4. CASE remove_all
  BY <1>4, RemoveKeeps
<1>5. CASE \E b \in BOOLEAN : load_breakpoints(b)
  <2>1. PICK b \in BOOLEAN : load_breakpoints(b)
    BY <1>5
  <2>2. Now(read_config_file(objs, own, b), Asks(objs, own, b)) /\ own' = own
    BY <2>1 DEF load_breakpoints
  <2> QED BY <2>2, Typed, LoadKeeps
<1>6. CASE RestoreBreakpoints
  <2>1. PICK b \in BOOLEAN : b = TRUE
    OBVIOUS
  <2>2. Now(read_config_file(objs, state, b), Asks(objs, state, b)) /\ own' = own
    BY <1>6, <2>1 DEF RestoreBreakpoints
  <2> QED BY <2>2, Typed, LoadKeeps
<1> QED BY <1>1, <1>2, <1>3, <1>4, <1>5, <1>6 DEF Command

-----------------------------------------------------------------------------
(* What goes through the temporary file.                                   *)

(* Through leaves what restore_target_state makes of the file. *)
LEMMA ThroughDoes ==
  ASSUME Inv, NEW f \in Seq(Entries), NEW there \in BOOLEAN, NEW o \in Partial(Objects),
         NEW run, Through(f, there, o, run)
  PROVE  Restores(f, there, o, temp', objs')
<1> DEFINE x == restore_target_state(f, there, o)
<1>1. objs' = x.o /\ temp' = x.f
  BY DEF Through
<1>2. Restores(f, there, o, x.f, x.o)
  BY Restored
<1> HIDE DEF x
<1> QED BY <1>1, <1>2

(* It keeps the invariant when what goes in is known. *)
LEMMA ThroughKeeps ==
  ASSUME Inv, NEW f \in Seq(Entries), NEW there \in BOOLEAN, NEW o \in Partial(Objects),
         NEW run \in BOOLEAN, Through(f, there, o, run),
         there \/ f = <<>>, had' \subseteq Place,
         Places(f) \cup DOMAIN o \subseteq asked \cap had'
  PROVE  Inv'
<1>1. Restores(f, there, o, temp', objs')
  BY ThroughDoes
<1>2. /\ temp' \in Seq(Entries) /\ objs' \in Partial(Objects)
      /\ Places(temp') \subseteq Places(f) \cup DOMAIN o
      /\ DOMAIN objs' \subseteq Places(f) \cup DOMAIN o
      /\ ~there => temp' = f
  BY <1>1 DEF Restores
<1>3. /\ tempThere' = there /\ running' = run
      /\ state' = state /\ own' = own /\ asked' = asked
  BY DEF Through
<1>4. TypeOK'
  <2>1. {tempThere', running'} \subseteq BOOLEAN
    BY <1>3
  <2>2. {temp', state', own'} \subseteq Seq(Entries)
    BY <1>2, <1>3, Typed
  <2>3. {asked', had'} \subseteq SUBSET Place
    BY <1>3, Typed
  <2>4. tempThere' \/ temp' = <<>>
    BY <1>2, <1>3
  <2> QED BY <1>2, <2>1, <2>2, <2>3, <2>4 DEF TypeOK
<1>5. Known'
  BY <1>2, <1>3 DEF Known
<1> QED BY <1>4, <1>5 DEF Inv

(* What is said last is kept. *)
LEMMA ThroughBrings ==
  ASSUME Inv, NEW f \in Seq(Entries), NEW there \in BOOLEAN, NEW o \in Partial(Objects),
         NEW run, Through(f, there, o, run),
         NEW q \in Partial(Objects), NEW D \in SUBSET DOMAIN q, there,
         Says(f \o save_all_breakpoints_to_file(o), q, D)
  PROVE  Keeps(q, objs', D)
<1>1. Restores(f, there, o, temp', objs')
  BY ThroughDoes
<1> QED BY <1>1 DEF Restores

(* What is wanted and left alone is kept. *)
LEMMA SameKept ==
  ASSUME NEW o \in Partial(Objects)
  PROVE  Keeps(o, o, WantSave(o))
  BY DEF Keeps

(* Start and Attach put back what there is. *)
LEMMA WantedKept ==
  ASSUME Inv, NEW f \in Seq(Entries), NEW there \in BOOLEAN, NEW run, Through(f, there, objs, run)
  PROVE  Keeps(objs, objs', WantSave(objs))
<1>1. CASE ~there
  <2>1. Restores(f, there, objs, temp', objs')
    BY Typed, ThroughDoes
  <2>2. objs' = objs
    BY <1>1, <2>1 DEF Restores
  <2> QED BY <2>2, Typed, SameKept
<1>2. CASE there
  <2>1. /\ WantSave(objs) \in SUBSET DOMAIN objs
        /\ save_all_breakpoints_to_file(objs) \in Seq(Entries)
        /\ Says(save_all_breakpoints_to_file(objs), objs, WantSave(objs))
    BY Typed, SavedAll
  <2>2. Says(f \o save_all_breakpoints_to_file(objs), objs, WantSave(objs))
    BY <2>1, SaysAfter
  <2> QED BY <1>2, <2>1, <2>2, Typed, ThroughBrings
<1> QED BY <1>1, <1>2

(* Start. *)
LEMMA StartDoes ==
  ASSUME Inv, Start
  PROVE  Inv' /\ Keeps(objs, objs', WantSave(objs))
<1>1. Through(temp, tempThere, objs, TRUE) /\ had' = had
  BY DEF Start
<1>2. TRUE \in BOOLEAN /\ Places(temp) \cup DOMAIN objs \subseteq asked \cap had'
  BY <1>1 DEF Inv, Known
<1>3. Inv'
  BY <1>1, <1>2, Typed, ThroughKeeps
<1>4. Keeps(objs, objs', WantSave(objs))
  BY <1>1, Typed, WantedKept
<1> QED BY <1>3, <1>4

(* Start, when the program was built anew. *)
LEMMA StartRebuiltDoes ==
  ASSUME Inv, StartRebuilt
  PROVE  Inv' /\ Keeps(objs, objs', WantSave(objs))
<1> DEFINE s == save_all_breakpoints_to_file(objs)
           f == temp \o s
           x == restore_target_state(f, TRUE, None)
           none == save_all_breakpoints_to_file(None)
<1>1. Through(x.f, TRUE, x.o, TRUE) /\ had' = had
  BY DEF StartRebuilt
<1>2. s \in Seq(Entries) /\ Places(s) \subseteq DOMAIN objs /\ Says(s, objs, WantSave(objs))
      /\ WantSave(objs) \in SUBSET DOMAIN objs
  BY Typed, SavedAll
<1> HIDE DEF s
<1>3. f \in Seq(Entries) /\ Places(f) \subseteq Places(temp) \cup DOMAIN objs
  BY <1>2, Typed, PlacesConcat
<1>4. Says(f, objs, WantSave(objs))
  BY <1>2, Typed, SaysAfter
<1> HIDE DEF f
<1>5. PICK b \in BOOLEAN : b = TRUE
  OBVIOUS
<1>6. Restores(f, b, None, x.f, x.o)
  <2>1. x = restore_target_state(f, b, None)
    BY <1>5
  <2> HIDE DEF x
  <2> QED BY <1>3, <2>1, NoneTyped, Restored
<1>7. none \in Seq(Entries) /\ Places(none) = {}
  <2>1. none \in Seq(Entries) /\ Places(none) = WantSave(None) /\ WantSave(None) \subseteq DOMAIN None
    BY NoneTyped, SavedAll
  <2> QED BY <2>1, NoneTyped
<1> HIDE DEF x
<1>8. /\ x.f \in Seq(Entries) /\ x.o \in Partial(Objects)
      /\ Places(x.f) \cup DOMAIN x.o \subseteq Places(temp) \cup DOMAIN objs
      /\ x.f = f \o none
      /\ \A q \in Partial(Objects) : \A D \in SUBSET DOMAIN q : Says(x.f, q, D) => Keeps(q, x.o, D)
  BY <1>3, <1>5, <1>6, NoneTyped DEF Restores
<1> HIDE DEF none
<1>9. Says(x.f, objs, WantSave(objs))
  <2>1. Says(f \o none, objs, WantSave(objs))
    BY <1>2, <1>3, <1>4, <1>7, Typed, SaysBefore
  <2> QED BY <1>8, <2>1
<1>10. Keeps(objs, x.o, WantSave(objs))
  BY <1>2, <1>8, <1>9, Typed
<1>11. Through(x.f, b, x.o, b)
  BY <1>1, <1>5
<1>12. Inv'
  <2>1. Places(x.f) \cup DOMAIN x.o \subseteq asked \cap had' /\ had' \subseteq Place
    BY <1>1, <1>8, Typed DEF Inv, Known
  <2>2. b \/ x.f = <<>>
    BY <1>5
  <2> QED BY <1>8, <1>11, <2>1, <2>2, ThroughKeeps
<1>13. Keeps(x.o, objs', WantSave(x.o))
  <2>1. /\ WantSave(x.o) \in SUBSET DOMAIN x.o
        /\ save_all_breakpoints_to_file(x.o) \in Seq(Entries)
        /\ Says(save_all_breakpoints_to_file(x.o), x.o, WantSave(x.o))
    BY <1>8, SavedAll
  <2>2. Says(x.f \o save_all_breakpoints_to_file(x.o), x.o, WantSave(x.o))
    BY <1>8, <2>1, SaysAfter
  <2>3. Restores(x.f, b, x.o, temp', objs')
    BY <1>8, <1>11, ThroughDoes
  <2>4. /\ temp' = x.f \o save_all_breakpoints_to_file(x.o)
        /\ \A q \in Partial(Objects) : \A D \in SUBSET DOMAIN q :
             Says(temp', q, D) => Keeps(q, objs', D)
    BY <1>5, <2>3 DEF Restores
  <2> QED BY <1>8, <2>1, <2>2, <2>4
<1>14. Keeps(objs, objs', WantSave(objs))
  BY <1>10, <1>13 DEF Keeps
<1> QED BY <1>12, <1>14

(* Attach. *)
LEMMA AttachDoes ==
  ASSUME Inv, NEW blank \in BOOLEAN, Attach(blank)
  PROVE  Inv' /\ Keeps(objs, objs', WantSave(objs))
<1> DEFINE letGo == running /\ ~blank
           f == IF letGo THEN <<>> ELSE temp
           there == letGo \/ tempThere
<1>1. Through(f, there, objs, TRUE) /\ had' = IF letGo THEN DOMAIN objs ELSE had
  BY DEF Attach
<1>2. /\ f \in Seq(Entries) /\ there \in BOOLEAN /\ TRUE \in BOOLEAN
      /\ Places(f) \cup DOMAIN objs \subseteq asked \cap had' /\ had' \subseteq Place
      /\ there \/ f = <<>>
  BY <1>1, Typed, EmptyFile DEF Inv, Known
<1> HIDE DEF f, there
<1>3. Inv'
  BY <1>1, <1>2, Typed, ThroughKeeps
<1>4. Keeps(objs, objs', WantSave(objs))
  BY <1>1, <1>2, WantedKept
<1> QED BY <1>3, <1>4

(* Attach, when the program or its libraries are new. *)
LEMMA AttachAnewDoes ==
  ASSUME Inv, NEW why, AttachAnew(why)
  PROVE  Inv' /\ Keeps(objs, objs', WantSave(objs))
<1> DEFINE emptied == running \/ why = "blank"
           f == IF emptied THEN <<>> ELSE temp
           x == IF why = "program" THEN restore_target_state(f, running \/ tempThere, objs)
                                   ELSE [f |-> f, o |-> objs]
           s == save_all_breakpoints_to_file(x.o)
           none == save_all_breakpoints_to_file(None)
<1>1. Through(x.f \o s, TRUE, None, TRUE) /\ had' = IF emptied THEN DOMAIN objs ELSE had
  BY DEF AttachAnew
<1>2. /\ f \in Seq(Entries) /\ had' \subseteq Place
      /\ Places(f) \cup DOMAIN objs \subseteq asked \cap had'
  BY <1>1, Typed, EmptyFile DEF Inv, Known
<1> HIDE DEF f, emptied
<1>3. /\ x.f \in Seq(Entries) /\ x.o \in Partial(Objects)
      /\ Places(x.f) \cup DOMAIN x.o \subseteq asked \cap had'
      /\ Keeps(objs, x.o, WantSave(objs))
  <2>1. CASE why = "program"
    <3>1. PICK b \in BOOLEAN : b = (running \/ tempThere)
      BY Typed
    <3>2. x = restore_target_state(f, b, objs)
      BY <2>1, <3>1
    <3> HIDE DEF x
    <3>3. Restores(f, b, objs, x.f, x.o)
      BY <1>2, <3>2, Typed, Restored
    <3>4. /\ WantSave(objs) \in SUBSET DOMAIN objs
          /\ save_all_breakpoints_to_file(objs) \in Seq(Entries)
          /\ Says(save_all_breakpoints_to_file(objs), objs, WantSave(objs))
      BY Typed, SavedAll
    <3>5. Says(f \o save_all_breakpoints_to_file(objs), objs, WantSave(objs))
      BY <1>2, <3>4, SaysAfter
    <3>6. Keeps(objs, x.o, WantSave(objs))
      <4>1. CASE b
        BY <3>3, <3>4, <3>5, <4>1, Typed DEF Restores
      <4>2. CASE ~b
        <5>1. x.o = objs
          BY <3>3, <4>2 DEF Restores
        <5> QED BY <5>1, Typed, SameKept
      <4> QED BY <4>1, <4>2
    <3>7. /\ x.f \in Seq(Entries) /\ x.o \in Partial(Objects)
          /\ Places(x.f) \cup DOMAIN x.o \subseteq Places(f) \cup DOMAIN objs
      BY <3>3 DEF Restores
    <3> QED BY <1>2, <3>6, <3>7
  <2>2. CASE why # "program"
    <3>1. x.f = f /\ x.o = objs
      BY <2>2
    <3> HIDE DEF x
    <3> QED BY <1>2, <3>1, Typed, SameKept
  <2> QED BY <2>1, <2>2
<1> HIDE DEF x
<1>4. s \in Seq(Entries) /\ Places(s) \subseteq DOMAIN x.o /\ Says(s, x.o, WantSave(x.o))
      /\ WantSave(x.o) \in SUBSET DOMAIN x.o
  BY <1>3, SavedAll
<1> HIDE DEF s
<1> DEFINE g == x.f \o s
<1>5. g \in Seq(Entries) /\ Places(g) \subseteq Places(x.f) \cup Places(s) /\ Says(g, x.o, WantSave(x.o))
  BY <1>3, <1>4, PlacesConcat, SaysAfter
<1>6. none \in Seq(Entries) /\ Places(none) = {}
  <2>1. none \in Seq(Entries) /\ Places(none) = WantSave(None) /\ WantSave(None) \subseteq DOMAIN None
    BY NoneTyped, SavedAll
  <2> QED BY <2>1, NoneTyped
<1>7. PICK b \in BOOLEAN : b = TRUE
  OBVIOUS
<1>8. Through(g, b, None, b)
  BY <1>1, <1>7
<1> HIDE DEF g
<1>9. Says(g \o none, x.o, WantSave(x.o))
  <2> HIDE DEF none
  <2> QED BY <1>3, <1>4, <1>5, <1>6, SaysBefore
<1>10. Inv'
  <2>1. Places(g) \cup DOMAIN None \subseteq asked \cap had'
    BY <1>3, <1>4, <1>5, NoneTyped
  <2>2. b \/ g = <<>>
    BY <1>7
  <2> QED BY <1>2, <1>5, <1>8, <2>1, <2>2, NoneTyped, ThroughKeeps
<1>11. Keeps(x.o, objs', WantSave(x.o))
  <2>1. Restores(g, b, None, temp', objs')
    BY <1>5, <1>8, NoneTyped, ThroughDoes
  <2>2. /\ temp' = g \o none
        /\ \A q \in Partial(Objects) : \A D \in SUBSET DOMAIN q :
             Says(temp', q, D) => Keeps(q, objs', D)
    BY <1>7, <2>1 DEF Restores
  <2> QED BY <1>3, <1>4, <1>9, <2>2
<1>12. Keeps(objs, objs', WantSave(objs))
  BY <1>3, <1>11 DEF Keeps
<1> QED BY <1>10, <1>12

(* A library scan. *)
LEMMA ScanDoes ==
  ASSUME Inv, ScanLibraries
  PROVE  Inv' /\ Keeps(objs, objs', WantSave(objs))
<1> DEFINE s == save_all_breakpoints_to_file(objs)
           none == save_all_breakpoints_to_file(None)
<1>1. Through(s, TRUE, None, TRUE) /\ had' = DOMAIN objs
  BY DEF ScanLibraries
<1>2. s \in Seq(Entries) /\ Places(s) \subseteq DOMAIN objs /\ Says(s, objs, WantSave(objs))
      /\ WantSave(objs) \in SUBSET DOMAIN objs
  BY Typed, SavedAll
<1>3. none \in Seq(Entries) /\ Places(none) = {}
  <2>1. none \in Seq(Entries) /\ Places(none) = WantSave(None) /\ WantSave(None) \subseteq DOMAIN None
    BY NoneTyped, SavedAll
  <2> QED BY <2>1, NoneTyped
<1> HIDE DEF s
<1>4. Says(s \o none, objs, WantSave(objs))
  <2> HIDE DEF none
  <2> QED BY <1>2, <1>3, Typed, SaysBefore
<1>5. PICK b \in BOOLEAN : b = TRUE
  OBVIOUS
<1>6. Through(s, b, None, b)
  BY <1>1, <1>5
<1>7. Inv'
  <2>1. Places(s) \cup DOMAIN None \subseteq asked \cap had' /\ had' \subseteq Place
    BY <1>1, <1>2, Typed, NoneTyped DEF Inv, Known
  <2>2. b \/ s = <<>>
    BY <1>5
  <2> QED BY <1>2, <1>6, <2>1, <2>2, NoneTyped, ThroughKeeps
<1>8. Keeps(objs, objs', WantSave(objs))
  <2>1. Restores(s, b, None, temp', objs')
    BY <1>2, <1>6, NoneTyped, ThroughDoes
  <2>2. /\ temp' = s \o none
        /\ \A q \in Partial(Objects) : \A D \in SUBSET DOMAIN q :
             Says(temp', q, D) => Keeps(q, objs', D)
    BY <1>5, <2>1 DEF Restores
  <2> QED BY <1>2, <1>4, <2>2, Typed
<1> QED BY <1>7, <1>8

(* A source is reloaded: those of the file are written first and removed,  *)
(* the others are written after them.                                      *)
LEMMA ReloadDoes ==
  ASSUME Inv, NEW file, ReloadSource(file)
  PROVE  Inv' /\ Keeps(objs, objs', WantSave(objs))
<1> DEFINE its == {p \in DOMAIN objs : FileOf[p] = file}
           rest == Restrict(objs, DOMAIN objs \ its)
           s == Saved(objs, its)
           t == save_all_breakpoints_to_file(rest)
<1>1. Through(s, TRUE, rest, running) /\ had' = DOMAIN objs
  BY DEF ReloadSource
<1>2. its \subseteq DOMAIN objs
  OBVIOUS
<1> HIDE DEF its
<1>3. /\ rest \in Partial(Objects) /\ DOMAIN rest = DOMAIN objs \ its
      /\ \A p \in DOMAIN objs \ its : rest[p] = objs[p]
  BY Typed, Some
<1>4. s \in Seq(Entries) /\ Places(s) = its /\ Says(s, objs, its)
  <2>1. DOMAIN objs \cap its = its
    BY <1>2
  <2> QED BY <2>1, Typed, SavedFile
<1> HIDE DEF s, rest
<1>5. /\ t \in Seq(Entries) /\ Places(t) = WantSave(rest) /\ Says(t, rest, WantSave(rest))
      /\ WantSave(rest) \subseteq DOMAIN rest
  BY <1>3, SavedAll
<1>6. PICK b \in BOOLEAN : b = TRUE
  OBVIOUS
<1>7. Through(s, b, rest, running)
  BY <1>1, <1>6
<1>8. Inv'
  <2>1. Places(s) \cup DOMAIN rest \subseteq asked \cap had' /\ had' \subseteq Place
    BY <1>1, <1>2, <1>3, <1>4, Typed DEF Inv, Known
  <2>2. b \/ s = <<>>
    BY <1>6
  <2> QED BY <1>3, <1>4, <1>7, <2>1, <2>2, Typed, ThroughKeeps
<1>9. /\ temp' = s \o t
      /\ \A q \in Partial(Objects) : \A D \in SUBSET DOMAIN q :
           Says(temp', q, D) => Keeps(q, objs', D)
  <2>1. Restores(s, b, rest, temp', objs')
    BY <1>3, <1>4, <1>7, Typed, ThroughDoes
  <2> QED BY <1>6, <2>1 DEF Restores
<1> HIDE DEF t
<1>10. Keeps(objs, objs', its)
  <2>1. Says(s \o t, objs, its)
    BY <1>2, <1>3, <1>4, <1>5, Typed, SaysBefore
  <2> QED BY <1>2, <1>9, <2>1, Typed
<1>11. Keeps(rest, objs', WantSave(rest))
  <2>1. Says(s \o t, rest, WantSave(rest))
    BY <1>4, <1>5, SaysAfter
  <2> QED BY <1>3, <1>5, <1>9, <2>1
<1>12. \A p \in WantSave(objs) : p \in its \/ (p \in WantSave(rest) /\ rest[p] = objs[p])
  BY <1>3 DEF WantSave
<1>13. Keeps(objs, objs', WantSave(objs))
  BY <1>10, <1>11, <1>12 DEF Keeps
<1> QED BY <1>8, <1>13

(* All that goes through the file. *)
LEMMA RestoringDoes ==
  ASSUME Inv, Restoring
  PROVE  Inv' /\ Keeps(objs, objs', WantSave(objs))
  BY StartDoes, StartRebuiltDoes, AttachDoes, AttachAnewDoes, ScanDoes, ReloadDoes DEF Restoring

(* Kill and Detach, Exit, Drop state. *)
LEMMA LetGoKeeps ==
  ASSUME Inv, KillOrDetach \/ Exit \/ DropState
  PROVE  Inv'
<1>1. /\ objs' = objs /\ state' = state /\ own' = own /\ asked' = asked
      /\ {running', tempThere'} \subseteq BOOLEAN
  BY Typed DEF KillOrDetach, Exit, DropState
<1>2. \/ temp' = temp /\ tempThere' = tempThere /\ had' = had
      \/ temp' = <<>> /\ had' = DOMAIN objs
  BY DEF KillOrDetach, Exit, DropState, Emptied
<1>3. TypeOK'
  <2>1. temp' \in Seq(Entries) /\ had' \subseteq Place /\ (tempThere' \/ temp' = <<>>)
    <3>1. CASE temp' = temp /\ tempThere' = tempThere /\ had' = had
      <4>1. temp' \in Seq(Entries) /\ had' \subseteq Place
        BY <3>1, Typed
      <4>2. tempThere' \/ temp' = <<>>
        BY <3>1, Typed, Zenon
      <4> QED BY <4>1, <4>2
    <3>2. CASE temp' = <<>> /\ had' = DOMAIN objs
      BY <3>2, Typed, EmptyFile
    <3> QED BY <1>2, <3>1, <3>2
  <2>2. state' \in Seq(Entries) /\ own' \in Seq(Entries) /\ asked' \subseteq Place
        /\ objs' \in Partial(Objects)
    BY <1>1, Typed
  <2> QED BY <1>1, <2>1, <2>2 DEF TypeOK
<1>4. Known'
  BY <1>1, <1>2, EmptyFile DEF Inv, Known
<1> QED BY <1>3, <1>4 DEF Inv

(* A session ends and the next begins. *)
LEMMA QuitKeeps ==
  ASSUME Inv, Quit
  PROVE  Inv'
<1>1. /\ objs' \in Partial(Objects) /\ DOMAIN objs' \subseteq asked' /\ asked' \subseteq Place
      /\ had' = DOMAIN objs'
  BY ConfigRead DEF Quit
<1>2. state' \in Seq(Entries)
  BY Typed, SavedAll DEF Quit
<1>3. /\ temp' = <<>> /\ own' = own /\ tempThere' \in BOOLEAN /\ running' \in BOOLEAN
  BY DEF Quit
<1>4. TypeOK'
  BY <1>1, <1>2, <1>3, Typed, EmptyFile DEF TypeOK
<1>5. Known'
  BY <1>1, <1>3, EmptyFile DEF Known
<1> QED BY <1>4, <1>5 DEF Inv

(* Every step keeps the invariant. *)
LEMMA NextInv == Inv /\ [Next]_vars => Inv'
<1> SUFFICES ASSUME Inv, [Next]_vars PROVE Inv'
  OBVIOUS
<1>1. CASE Command
  BY <1>1, CommandKeeps
<1>2. CASE Restoring
  BY <1>2, RestoringDoes
<1>3. CASE KillOrDetach \/ Exit \/ DropState
  BY <1>3, LetGoKeeps
<1>4. CASE Quit
  BY <1>4, QuitKeeps
<1>5. CASE UNCHANGED vars
  BY <1>5 DEF vars, Inv, TypeOK, Known
<1> QED BY <1>1, <1>2, <1>3, <1>4, <1>5 DEF Next, Done

-----------------------------------------------------------------------------
(* The theorems.                                                           *)

(* What is there, and what the temporary file could bring back, was asked  *)
(* for and was there since the file was emptied.                           *)
THEOREM Invariance == Spec => []Inv
<1>1. Init => Inv
  BY InitInv
<1>2. Inv /\ [Next]_vars => Inv'
  BY NextInv
<1> QED BY <1>1, <1>2, PTL DEF Spec

(* Objects are at places, and every file holds what can be read back. *)
THEOREM TypeCorrect == Spec => []TypeOK
<1>1. Inv => TypeOK
  BY DEF Inv
<1> QED BY <1>1, Invariance, PTL

(* The second attempt of handle_add_breakpoint_command puts no breakpoint  *)
(* where nobody asked for one.                                             *)
THEOREM AskedCorrect == Spec => []OnlyWhereAsked
<1>1. Inv => OnlyWhereAsked
  BY DEF Inv, Known, OnlyWhereAsked
<1> QED BY <1>1, Invariance, PTL

(* A start, attach, library scan or reload of a source brings back every   *)
(* breakpoint that is to be saved, in its last state.                      *)
THEOREM KeptCorrect == Spec => KeptThrough
<1> DEFINE A == Restoring => \A p \in WantSave(objs) :
                  /\ p \in WantSave(objs')
                  /\ objs'[p].code = objs[p].code \/ p \in Bare
                  /\ objs'[p].inactive = objs[p].inactive \/ p \in Bare \cup CodeLine
<1>1. Inv /\ [Next]_vars => [A]_vars
  <2> SUFFICES ASSUME Inv PROVE A
    OBVIOUS
  <2> SUFFICES ASSUME Restoring PROVE Keeps(objs, objs', WantSave(objs))
    BY DEF Keeps
  <2> QED BY RestoringDoes
<1>2. KeptThrough <=> [][A]_vars
  BY PTL DEF KeptThrough
<1> HIDE DEF A
<1> QED BY <1>1, <1>2, Invariance, PTL DEF Spec

(* It brings back none that the user did not have since the file was last  *)
(* emptied.                                                                *)
THEOREM RevivedCorrect == Spec => NoneRevived
<1> DEFINE A == Restoring => DOMAIN objs' \subseteq had'
<1>1. Inv /\ [Next]_vars => [A]_vars
  BY RestoringDoes DEF Inv, Known
<1>2. NoneRevived <=> [][A]_vars
  BY PTL DEF NoneRevived
<1> HIDE DEF A
<1> QED BY <1>1, <1>2, Invariance, PTL DEF Spec
==============================================================================
