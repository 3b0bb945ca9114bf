--------------------------- MODULE WatchpointsProofs ---------------------------
(***************************************************************************)
(* Proofs about the watchpoints of ups (module Watchpoints), for every     *)
(* number of watchpoints, debug registers, areas, processes and failures.  *)
(***************************************************************************)
EXTENDS Watchpoints, FiniteSetTheorems, SequenceTheorems, TLAPS

(* R is a strict order of S in which any two elements compare. *)
Orders(R, S) ==
  /\ \A u \in S : <<u, u>> \notin R
  /\ \A u, v \in S : u # v => <<u, v>> \in R \/ <<v, u>> \in R
  /\ \A u, v, w \in S : <<u, v>> \in R /\ <<v, w>> \in R => <<u, w>> \in R

Rank(R, S, w) == Cardinality({u \in S : <<u, w>> \in R})

(* The ranks of a finite ordered set are different, and are all the        *)
(* numbers below its cardinality.                                          *)
LEMMA Ranks ==
  ASSUME NEW S, IsFiniteSet(S), NEW R, Orders(R, S)
  PROVE  /\ \A w \in S : Rank(R, S, w) \in 0 .. Cardinality(S) - 1
         /\ \A v, w \in S : Rank(R, S, v) = Rank(R, S, w) => v = w
         /\ \A k \in 0 .. Cardinality(S) - 1 : \E w \in S : Rank(R, S, w) = k
<1> DEFINE Down(w) == {u \in S : <<u, w>> \in R}
           n == Cardinality(S)
<1>1. n \in Nat
  BY FS_CardinalityType
<1>2. \A w \in S : IsFiniteSet(Down(w)) /\ Cardinality(Down(w)) \in Nat
  BY FS_Subset, FS_CardinalityType
<1>3. ASSUME NEW w \in S PROVE Rank(R, S, w) \in 0 .. n - 1
  <2>1. Down(w) \subseteq S /\ Down(w) # S
    BY DEF Orders
  <2>2. Cardinality(Down(w)) <= n /\ Cardinality(Down(w)) # n
    BY <2>1, FS_Subset
  <2> QED BY <1>1, <1>2, <2>2 DEF Rank
<1>4. ASSUME NEW v \in S, NEW w \in S, <<v, w>> \in R PROVE Rank(R, S, v) # Rank(R, S, w)
  <2>1. Down(v) \subseteq Down(w) /\ v \in Down(w) /\ v \notin Down(v)
    BY <1>4 DEF Orders
  <2>2. Down(v) # Down(w)
    BY <2>1
  <2>3. Cardinality(Down(w)) # Cardinality(Down(v))
    BY <1>2, <2>1, <2>2, FS_Subset
  <2> QED BY <2>3 DEF Rank
<1>5. \A v, w \in S : Rank(R, S, v) = Rank(R, S, w) => v = w
  BY <1>4 DEF Orders
<1>6. \A k \in 0 .. n - 1 : \E w \in S : Rank(R, S, w) = k
  <2> DEFINE f == [w \in S |-> Rank(R, S, w)]
  <2>1. f \in Injection(S, 0 .. n - 1)
    BY <1>3, <1>5 DEF Injection, IsInjective
  <2>2. IsFiniteSet(0 .. n - 1) /\ Cardinality(0 .. n - 1) = n
    BY <1>1, FS_Interval
  <2>3. f \in Surjection(S, 0 .. n - 1)
    BY <2>1, <2>2, FS_Injection
  <2> QED BY <2>3 DEF Surjection
<1> QED BY <1>3, <1>5, <1>6

(* The order of the numbers. *)
Less == {p \in Nat \X Nat : p[1] < p[2]}

(* A set of numbers that has an element has a least one. *)
LEMMA Least ==
  ASSUME NEW T \in SUBSET Nat, T # {}
  PROVE  \E m \in T : \A k \in T : m <= k
<1>1. PICK t \in T : TRUE
  OBVIOUS
<1> DEFINE F == {k \in T : k <= t}
<1>2. IsFiniteSet(F)
  <2>1. F \in SUBSET Nat /\ t \in Nat /\ \A k \in F : k <= t
    OBVIOUS
  <2> QED BY <2>1, FS_BoundedSetOfNaturals
<1>3. Orders(Less, F)
  <2>1. \A u, v \in F : u \in Nat /\ v \in Nat /\ (<<u, v>> \in Less <=> u < v)
    BY DEF Less
  <2> QED BY <2>1 DEF Orders
<1>4. Cardinality(F) \in Nat /\ Cardinality(F) # 0
  BY <1>2, FS_CardinalityType, FS_EmptySet
<1>5. PICK m \in F : Rank(Less, F, m) = 0
  <2>1. 0 \in 0 .. Cardinality(F) - 1
    BY <1>4
  <2> HIDE DEF F
  <2>2. \A k \in 0 .. Cardinality(F) - 1 : \E m \in F : Rank(Less, F, m) = k
    BY <1>2, <1>3, Ranks
  <2> QED BY <2>1, <2>2
<1>6. {k \in F : <<k, m>> \in Less} = {}
  <2>1. IsFiniteSet({k \in F : <<k, m>> \in Less})
    BY <1>2, FS_Subset
  <2> QED BY <2>1, <1>5, FS_EmptySet DEF Rank
<1>7. \A k \in F : ~(k < m)
  BY <1>6 DEF Less
<1> QED BY <1>7

-----------------------------------------------------------------------------
(* The list. *)

End(s) == IF s = <<>> THEN Wphead ELSE Last(s)

(* A loop that starts at Wphead visits s, and then meets Wphead or a       *)
(* structure that was freed.                                               *)
Chain(y, s) ==
  /\ s \in Seq(y.live)
  /\ \A i, j \in 1 .. Len(s) : s[i] = s[j] => i = j
  /\ \A i \in 1 .. Len(s) : y.next[IF i = 1 THEN Wphead ELSE s[i - 1]] = s[i]
  /\ y.next[End(s)] \notin y.live

(* One step of the walk, and where it is after n of them. *)
Onwards(y, p) == IF y.next[End(p)] \in y.live THEN Append(p, y.next[End(p)]) ELSE p
Begun(s, n) == SubSeq(s, 1, IF n <= Len(s) THEN n ELSE Len(s))

(* The beginnings of a sequence. *)
LEMMA FirstOf ==
  ASSUME NEW S, NEW s \in Seq(S), NEW k \in 0 .. Len(s)
  PROVE  /\ SubSeq(s, 1, k) \in Seq(S) /\ Len(SubSeq(s, 1, k)) = k
         /\ \A i \in 1 .. k : SubSeq(s, 1, k)[i] = s[i]
<1>1. 1 \in Int /\ k \in Int /\ \A i \in 1 .. k : s[i] \in S
  OBVIOUS
<1>2. /\ SubSeq(s, 1, k) \in Seq(S)
      /\ Len(SubSeq(s, 1, k)) = IF 1 <= k THEN k - 1 + 1 ELSE 0
      /\ \A i \in 1 .. k - 1 + 1 : SubSeq(s, 1, k)[i] = s[1 + i - 1]
  BY <1>1, SubSeqProperties
<1>3. k - 1 + 1 = k /\ \A i \in 1 .. k : 1 + i - 1 = i
  BY <1>1
<1>4. Len(SubSeq(s, 1, k)) = k
  BY <1>1, <1>2
<1> QED BY <1>2, <1>3, <1>4

(* A beginning with the next element added is the next beginning. *)
LEMMA OneMore ==
  ASSUME NEW S, NEW s \in Seq(S), NEW k \in 1 .. Len(s)
  PROVE  Append(SubSeq(s, 1, k - 1), s[k]) = SubSeq(s, 1, k)
<1> DEFINE p == SubSeq(s, 1, k - 1)
<1>1. k - 1 \in 0 .. Len(s) /\ k \in 0 .. Len(s) /\ s[k] \in S
  OBVIOUS
<1>2. p \in Seq(S) /\ Len(p) = k - 1 /\ \A i \in 1 .. k - 1 : p[i] = s[i]
  BY <1>1, FirstOf
<1>3. /\ SubSeq(s, 1, k) \in Seq(S) /\ Len(SubSeq(s, 1, k)) = k
      /\ \A i \in 1 .. k : SubSeq(s, 1, k)[i] = s[i]
  BY <1>1, FirstOf
<1> HIDE DEF p
<1>4. /\ Append(p, s[k]) \in Seq(S) /\ Len(Append(p, s[k])) = Len(p) + 1
      /\ \A i \in 1.. Len(p) : Append(p, s[k])[i] = p[i]
      /\ Append(p, s[k])[Len(p) + 1] = s[k]
  BY <1>1, <1>2, AppendProperties
<1>5. Len(Append(p, s[k])) = k /\ \A i \in 1 .. k : Append(p, s[k])[i] = s[i]
  <2>1. \A i \in 1 .. k : i = k \/ i \in 1 .. k - 1
    OBVIOUS
  <2> QED BY <1>2, <1>4, <2>1
<1>6. Append(p, s[k]) = SubSeq(s, 1, k)
  BY <1>3, <1>4, <1>5, SeqEqual
<1> QED BY <1>6 DEF p

(* After n steps the walk from Wphead has visited the first n entries of   *)
(* the chain.                                                              *)
LEMMA WalkStep ==
  ASSUME NEW y, NEW s, Chain(y, s), NEW n \in Nat \ {0}
  PROVE  Begun(s, n) = Onwards(y, Begun(s, n - 1))
<1> DEFINE S == y.live
<1>1. s \in Seq(S) /\ Len(s) \in Nat
  BY DEF Chain
<1>2. CASE n > Len(s)
  <2>1. Begun(s, n) = SubSeq(s, 1, Len(s)) /\ Begun(s, n - 1) = SubSeq(s, 1, Len(s))
    BY <1>1, <1>2 DEF Begun
  <2>2. SubSeq(s, 1, Len(s)) = s
    BY <1>1, SubSeqFull
  <2> QED BY <2>1, <2>2 DEF Onwards, Chain
<1>3. CASE n <= Len(s)
  <2> DEFINE p == SubSeq(s, 1, n - 1)
  <2> HIDE DEF S
  <2>1. Begun(s, n) = SubSeq(s, 1, n) /\ Begun(s, n - 1) = p
    BY <1>1, <1>3 DEF Begun
  <2>2. n - 1 \in 0 .. Len(s) /\ n \in 1 .. Len(s)
    BY <1>1, <1>3
  <2>3. p \in Seq(S) /\ Len(p) = n - 1 /\ \A i \in 1 .. n - 1 : p[i] = s[i]
    BY <1>1, <2>2, FirstOf
  <2>4. Append(p, s[n]) = SubSeq(s, 1, n)
    BY <1>1, <2>2, OneMore
  <2> HIDE DEF p
  <2>5. End(p) = IF n = 1 THEN Wphead ELSE s[n - 1]
    <3>1. n = 1 => p = <<>>
      BY <2>3
    <3>2. n # 1 => p # <<>> /\ Last(p) = s[n - 1]
      BY <2>2, <2>3 DEF Last
    <3> QED BY <3>1, <3>2 DEF End
  <2>6. s[n] \in S /\ y.next[End(p)] = s[n]
    BY <1>1, <2>2, <2>5 DEF Chain
  <2>7. Onwards(y, p) = Append(p, s[n])
    BY <2>6 DEF Onwards, S
  <2> QED BY <2>1, <2>4, <2>7
<1> QED BY <1>1, <1>2, <1>3

(* The walk of List is that sequence. *)
LEMMA ListIs ==
  ASSUME NEW y, y.live \subseteq Wp, NEW s, Chain(y, s)
  PROVE  List(y) = s
<1> DEFINE N == Cardinality(Wp)
           Body(f, n) == IF n = 0 THEN <<>> ELSE Onwards(y, f[n - 1])
           walk == CHOOSE f : f = [n \in 0 .. N |-> Body(f, n)]
           g == [n \in 0 .. N |-> Begun(s, n)]
<1>1. List(y) = walk[N]
  BY DEF List, Onwards, End
<1>2. N \in Nat /\ s \in Seq(Wp) /\ Len(s) \in Nat /\ Len(s) <= N
  <2>1. s \in Seq(y.live)
    BY DEF Chain
  <2>2. s \in Seq(Wp)
    BY <2>1, SeqMonotonic
  <2>3. N \in Nat
    BY FS_CardinalityType, WatchAssumption
  <2>4. Len(s) \in Nat /\ s \in [1 .. Len(s) -> Wp]
    BY <2>2
  <2>5. s \in Injection(1 .. Len(s), Wp)
    BY <2>4 DEF Chain, Injection, IsInjective
  <2>6. Cardinality(1 .. Len(s)) <= N
    BY <2>5, FS_Injection, WatchAssumption
  <2>7. Cardinality(1 .. Len(s)) = Len(s)
    <3>1. 1 \in Int /\ Len(s) \in Int
      BY <2>4
    <3>2. Cardinality(1 .. Len(s)) = IF 1 > Len(s) THEN 0 ELSE Len(s) - 1 + 1
      BY <3>1, FS_Interval
    <3> QED BY <2>4, <3>2
  <2> QED BY <2>2, <2>3, <2>4, <2>6, <2>7
<1>3. Begun(s, 0) = <<>> /\ Begun(s, N) = s
  <2>1. Begun(s, 0) = SubSeq(s, 1, 0) /\ Begun(s, N) = SubSeq(s, 1, Len(s))
    BY <1>2 DEF Begun
  <2> QED BY <1>2, <2>1, SubSeqFull
<1>4. \A n \in 1 .. N : Begun(s, n) = Onwards(y, Begun(s, n - 1))
  BY <1>2, WalkStep
<1>5. g = [n \in 0 .. N |-> Body(g, n)]
  <2>1. ASSUME NEW n \in 0 .. N PROVE Begun(s, n) = Body(g, n)
    <3>1. CASE n = 0
      BY <3>1, <1>3
    <3>2. CASE n # 0
      <4>1. n \in 1 .. N /\ n - 1 \in 0 .. N
        BY <1>2, <3>2
      <4>2. g[n - 1] = Begun(s, n - 1)
        BY <4>1
      <4> QED BY <1>4, <3>2, <4>1, <4>2
    <3> QED BY <3>1, <3>2
  <2> QED BY <2>1
<1>6. walk = [n \in 0 .. N |-> Body(walk, n)]
  <2> HIDE DEF g, Body
  <2> QED BY <1>5
<1>7. \A n \in 0 .. N : walk[n] = Body(walk, n)
  <2> HIDE DEF walk, Body
  <2> QED BY <1>6
<1>8. \A n \in 0 .. N : walk[n] = Begun(s, n)
  <2> DEFINE T == {n \in 0 .. N : walk[n] # Begun(s, n)}
  <2>1. SUFFICES ASSUME T # {} PROVE FALSE
    OBVIOUS
  <2> HIDE DEF walk
  <2>2. T \subseteq Nat
    BY <1>2
  <2>3. PICK m \in T : \A k \in T : m <= k
    <3> HIDE DEF T
    <3> QED BY <2>1, <2>2, Least
  <2>4. m # 0
    BY <1>3, <1>7
  <2>5. m \in 1 .. N /\ m - 1 \in 0 .. N /\ m - 1 \notin T
    BY <1>2, <2>3, <2>4
  <2>6. walk[m - 1] = Begun(s, m - 1)
    BY <2>5
  <2>7. walk[m] = Onwards(y, walk[m - 1])
    BY <1>7, <2>4, <2>5
  <2> QED BY <1>4, <2>3, <2>5, <2>6, <2>7
<1> HIDE DEF walk
<1> QED BY <1>1, <1>2, <1>3, <1>8

-----------------------------------------------------------------------------
(* The inductive invariant. *)

Prior(s, i) == IF i = 1 THEN Wphead ELSE s[i - 1]

(* A loop over the list visits s, which is all that was added and not      *)
(* removed, and comes back to Wphead.                                      *)
Links(y, s) ==
  /\ Chain(y, s) /\ y.next[End(s)] = Wphead
  /\ \A w \in y.live : \E i \in 1 .. Len(s) : s[i] = w

(* wp_prev of an entry leads to the entry before it, or to the entry       *)
(* itself: then its removal breaks the list.                               *)
Back(y, s) == \A i \in 1 .. Len(s) : y.prev[s[i]] \in {s[i], Prior(s, i)}
BackExact(y, s) == \A i \in 1 .. Len(s) : y.prev[s[i]] = Prior(s, i)

InRun == ctl \in {"loop", "run", "stopped"}

ListOk(y, disorder) ==
  Links(y, List(y)) /\ Back(y, List(y)) /\ (disorder \/ BackExact(y, List(y)))

ListInv ==
  \/ ListOk(x, unordered)
  \/ unordered /\ ~InRun /\ (ctl = "idle" => ~Walkable(x))

RunInv ==
  /\ InRun => alive
  /\ alive => nproc # 0
  /\ ~alive => stopres = "DIED"
  /\ check_wps <=> cont_type = "STEP"
  /\ ctl = "stopped" /\ stopres = "SSTEP" => check_wps

Used(y) == {r \in Reg : y.reg[r] # Nowhere}
Fitted(y) == {w \in y.live : y.installed[w]}
Protected(y) == {PageOf[y.place[w]] : w \in {u \in y.live : y.activated[u]}}

(* Each register in use is that of an installed watchpoint of its own. *)
Owned(y) ==
  \E g \in [Used(y) -> Fitted(y)] :
    /\ \A q, r \in Used(y) : g[q] = g[r] => q = r
    /\ \A r \in Used(y) : y.place[g[r]] \in Small /\ y.place[g[r]] = y.reg[r]

(* Each installed watchpoint has a register of its own. *)
Served(y) ==
  \E f \in [Fitted(y) -> Reg] :
    /\ \A v, w \in Fitted(y) : f[v] = f[w] => v = w
    /\ \A w \in Fitted(y) : y.place[w] \in Small /\ y.reg[f[w]] = y.place[w]

Clear(y) == y.prot = {} /\ \A r \in Reg : y.reg[r] = Nowhere

(* As long as nothing has failed, what is set in a process belongs to the  *)
(* watchpoints, and the faults it causes are expected.                     *)
CleanInv ==
  nfail = 0 =>
    /\ ctl = "idle" => Clear(x)
    /\ InRun => x.prot \subseteq Protected(x) /\ Owned(x)
    /\ InRun /\ (x.prot # {} \/ check_wps) => emulated
    /\ ctl = "stopped" /\ stopres = "SEGV" /\ ~emulated => own
    /\ ctl = "idle" /\ alive /\ stopres = "SEGV" => own

Watching(y) ==
  \A w \in y.live : y.enabled[w] =>
    PageOf[y.place[w]] \in y.prot \/ \E r \in Reg : y.reg[r] = y.place[w]
Unchanged(y) == \A w \in y.live : y.enabled[w] => y.mem[y.place[w]] = y.val[w]

(* In the first process, as long as mprotect has not failed, what counts   *)
(* as installed or activated is watched.                                   *)
SeenInv ==
  nproc <= 1 /\ ~stuck =>
    /\ nproc = 0 => \A w \in x.live : ~x.installed[w] /\ ~x.activated[w]
    /\ alive => Served(x) /\ Protected(x) \subseteq x.prot
    /\ alive /\ ctl = "idle" => \A w \in x.live : ~x.activated[w]
    /\ InRun /\ cont_type = "CONT" => Watching(x)
    /\ ctl \in {"loop", "run"} /\ cont_type = "CONT" => Unchanged(x)

IndInv == TypeOK /\ ListInv /\ RunInv /\ CleanInv /\ SeenInv

-----------------------------------------------------------------------------
(* What the operations do to a world.                                      *)

(* The types of the fields, for provers that need them one by one. *)
LEMMA WorldTypes ==
  ASSUME NEW y \in Worlds
  PROVE  /\ y.live \subseteq Wp /\ y.next \in [Cell -> Cell] /\ y.prev \in [Cell -> Cell]
         /\ y.place \in [Wp -> Place] /\ y.enabled \in [Wp -> BOOLEAN]
         /\ y.installed \in [Wp -> BOOLEAN] /\ y.activated \in [Wp -> BOOLEAN]
         /\ y.val \in [Wp -> Val] /\ y.reg \in [Reg -> Place \union {Nowhere}]
         /\ y.prot \subseteq Page /\ y.mem \in [Place -> Val]
BY DEF Worlds

(* A world whose list is in order: List visits what is live. *)
Sound(y) == y \in Worlds /\ Links(y, List(y))

(* A loop over a list in order visits exactly the watchpoints that are     *)
(* live.                                                                   *)
LEMMA ListedIs ==
  ASSUME NEW y, Sound(y)
  PROVE  Listed(y) = y.live
<1>1. /\ List(y) \in Seq(y.live)
      /\ \A w \in y.live : \E i \in 1 .. Len(List(y)) : List(y)[i] = w
  BY DEF Sound, Links, Chain
<1>2. DOMAIN List(y) = 1 .. Len(List(y)) /\ \A i \in 1 .. Len(List(y)) : List(y)[i] \in y.live
  BY <1>1
<1> QED BY <1>1, <1>2 DEF Listed, ToSet

(* A list in order is walked through. *)
LEMMA LinksWalkable ==
  ASSUME NEW y \in Worlds, NEW s, Links(y, s)
  PROVE  Sound(y) /\ List(y) = s /\ Walkable(y)
<1>1. List(y) = s
  BY ListIs, WorldTypes DEF Links
<1> QED BY <1>1 DEF Sound, Links, Walkable, End

(* What operations on the process leave alone. *)
Kept(y, z) ==
  /\ z.live = y.live /\ z.next = y.next /\ z.prev = y.prev
  /\ z.place = y.place /\ z.enabled = y.enabled

(* Operations that leave the pointers alone leave the list in order. *)
LEMMA KeptSound ==
  ASSUME NEW y, Sound(y), NEW z \in Worlds, Kept(y, z)
  PROVE  /\ Sound(z) /\ List(z) = List(y) /\ Walkable(z)
         /\ Back(y, List(y)) => Back(z, List(z))
         /\ BackExact(y, List(y)) => BackExact(z, List(z))
<1>1. Links(z, List(y))
  BY DEF Sound, Links, Chain, Kept
<1>2. Sound(z) /\ List(z) = List(y) /\ Walkable(z)
  BY <1>1, LinksWalkable
<1> QED BY <1>2 DEF Back, BackExact, Kept

(* The places in the list of a set of its watchpoints, as ranks. *)
LEMMA Turns ==
  ASSUME NEW y, Sound(y), NEW S \in SUBSET y.live
  PROVE  /\ \A w \in S : Turn(List(y), S, w) \in 0 .. Cardinality(S) - 1
         /\ \A v, w \in S : Turn(List(y), S, v) = Turn(List(y), S, w) => v = w
         /\ \A k \in 0 .. Cardinality(S) - 1 : \E w \in S : Turn(List(y), S, w) = k
<1> DEFINE s == List(y)
           R == {p \in S \X S : Earlier(s, p[1], p[2])}
<1>1. /\ DOMAIN s = 1 .. Len(s) /\ Len(s) \in Nat
      /\ \A i, j \in 1 .. Len(s) : s[i] = s[j] => i = j
      /\ \A w \in S : \E i \in 1 .. Len(s) : s[i] = w
  <2>1. s \in Seq(y.live)
    BY DEF Sound, Links, Chain
  <2> QED BY <2>1 DEF Sound, Links, Chain
<1>2. IsFiniteSet(S)
  BY FS_Subset, WorldTypes, WatchAssumption DEF Sound
<1> HIDE DEF s
<1>3. Orders(R, S)
  <2>1. \A u, v \in S : <<u, v>> \in R <=> \E i, j \in 1 .. Len(s) : i < j /\ s[i] = u /\ s[j] = v
    BY <1>1 DEF Earlier
  <2> HIDE DEF R
  <2>2. \A u \in S : <<u, u>> \notin R
    BY <1>1, <2>1
  <2>3. \A u, v \in S : u # v => <<u, v>> \in R \/ <<v, u>> \in R
    BY <1>1, <2>1
  <2>4. \A u, v, w \in S : <<u, v>> \in R /\ <<v, w>> \in R => <<u, w>> \in R
    BY <1>1, <2>1
  <2> QED BY <2>2, <2>3, <2>4 DEF Orders
<1>4. \A w \in S : Turn(s, S, w) = Rank(R, S, w)
  <2>1. ASSUME NEW w \in S
        PROVE  {u \in S : Earlier(s, u, w)} = {u \in S : <<u, w>> \in R}
    OBVIOUS
  <2> QED BY <2>1 DEF Turn, Rank
<1>5. /\ \A w \in S : Rank(R, S, w) \in 0 .. Cardinality(S) - 1
      /\ \A v, w \in S : Rank(R, S, v) = Rank(R, S, w) => v = w
      /\ \A k \in 0 .. Cardinality(S) - 1 : \E w \in S : Rank(R, S, w) = k
  <2> HIDE DEF R
  <2> QED BY <1>2, <1>3, Ranks
<1> HIDE DEF R
<1> QED BY <1>4, <1>5 DEF s

(* The places of registers among some of them, as ranks. *)
LEMMA Nths ==
  ASSUME NEW S \in SUBSET Reg
  PROVE  /\ IsFiniteSet(S)
         /\ \A r \in S : Nth(S, r) \in 0 .. Cardinality(S) - 1
         /\ \A q, r \in S : Nth(S, q) = Nth(S, r) => q = r
         /\ \A k \in 0 .. Cardinality(S) - 1 : \E r \in S : Nth(S, r) = k
<1>1. S \subseteq Nat /\ IsFiniteSet(S)
  BY FS_Subset, WatchAssumption
<1>2. \A q, r \in S : <<q, r>> \in Less <=> q < r
  BY <1>1 DEF Less
<1>3. Orders(Less, S)
  <2>1. \A q \in S : q \in Nat
    BY <1>1
  <2> QED BY <1>2, <2>1 DEF Orders
<1>4. \A r \in S : Nth(S, r) = Rank(Less, S, r)
  <2>1. ASSUME NEW r \in S PROVE {q \in S : q < r} = {q \in S : <<q, r>> \in Less}
    BY <1>2
  <2> QED BY <2>1 DEF Nth, Rank
<1>5. /\ \A r \in S : Rank(Less, S, r) \in 0 .. Cardinality(S) - 1
      /\ \A q, r \in S : Rank(Less, S, q) = Rank(Less, S, r) => q = r
      /\ \A k \in 0 .. Cardinality(S) - 1 : \E r \in S : Rank(Less, S, r) = k
  <2>1. IsFiniteSet(S)
    BY <1>1
  <2>2. \A r \in S : Rank(Less, S, r) \in 0 .. Cardinality(S) - 1
    BY <1>3, <2>1, Ranks
  <2>3. \A q, r \in S : Rank(Less, S, q) = Rank(Less, S, r) => q = r
    BY <1>3, <2>1, Ranks
  <2>4. \A k \in 0 .. Cardinality(S) - 1 : \E r \in S : Rank(Less, S, r) = k
    BY <1>3, <2>1, Ranks
  <2> QED BY <2>2, <2>3, <2>4
<1>6. \A r \in S : Nth(S, r) \in 0 .. Cardinality(S) - 1
  BY <1>4, <1>5
<1>7. \A q, r \in S : Nth(S, q) = Nth(S, r) => q = r
  BY <1>4, <1>5
<1>8. \A k \in 0 .. Cardinality(S) - 1 : \E r \in S : Nth(S, r) = k
  BY <1>4, <1>5, Zenon
<1> QED BY <1>1, <1>6, <1>7, <1>8

(* Of a set of watchpoints each gets at most one register, and each        *)
(* register is got by at most one.                                         *)
LEMMA Gettings ==
  ASSUME NEW y, Sound(y), NEW todo \in SUBSET y.live
  PROVE  LET got == Getting(y, todo)
         IN  /\ \A w, r : <<w, r>> \in got =>
                  w \in todo /\ r \in Reg /\ y.place[w] \in Small /\ y.reg[r] = Nowhere
             /\ \A v, w, r : <<v, r>> \in got /\ <<w, r>> \in got => v = w
             /\ \A w, q, r : <<w, q>> \in got /\ <<w, r>> \in got => q = r
<1> DEFINE free == {r \in Reg : y.reg[r] = Nowhere}
           fit == {w \in todo : y.place[w] \in Small}
           got == Getting(y, todo)
<1>1. \A w, r : <<w, r>> \in got <=> w \in fit /\ r \in free /\ Nth(free, r) = Turn(List(y), fit, w)
  BY DEF Getting
<1>2. fit \in SUBSET y.live /\ free \in SUBSET Reg
  OBVIOUS
<1> HIDE DEF got
<1>3. \A v, w \in fit : Turn(List(y), fit, v) = Turn(List(y), fit, w) => v = w
  <2> HIDE DEF fit
  <2> QED BY <1>2, Turns
<1>4. \A q, r \in free : Nth(free, q) = Nth(free, r) => q = r
  <2> HIDE DEF free
  <2> QED BY <1>2, Nths
<1>5. \A w, r : <<w, r>> \in got => w \in todo /\ r \in Reg /\ y.place[w] \in Small /\ y.reg[r] = Nowhere
  BY <1>1
<1> HIDE DEF free, fit
<1>6. \A v, w, r : <<v, r>> \in got /\ <<w, r>> \in got => v = w
  BY <1>1, <1>3
<1>7. \A w, q, r : <<w, q>> \in got /\ <<w, r>> \in got => q = r
  BY <1>1, <1>4
<1> QED BY <1>5, <1>6, <1>7 DEF got

(* ptrace_install_watchpoint changes the registers it hands out, and marks *)
(* who gets one.                                                           *)
LEMMA InstallFields ==
  ASSUME NEW y, Sound(y), NEW todo \in SUBSET y.live
  PROVE  LET z == ptrace_install_watchpoint(y, todo)
             got == Getting(y, todo)
         IN  /\ z \in Worlds /\ Kept(y, z)
             /\ z.activated = y.activated /\ z.val = y.val /\ z.prot = y.prot /\ z.mem = y.mem
             /\ \A w \in todo, r \in Reg : <<w, r>> \in got => z.reg[r] = y.place[w]
             /\ \A r \in Reg : (\A w \in todo : <<w, r>> \notin got) => z.reg[r] = y.reg[r]
             /\ \A w \in Wp : z.installed[w] <=> y.installed[w] \/ \E r \in Reg : <<w, r>> \in got
<1> DEFINE got == Getting(y, todo)
           rg == [r \in Reg |-> IF \E w \in todo : <<w, r>> \in got
                                THEN y.place[CHOOSE w \in todo : <<w, r>> \in got]
                                ELSE y.reg[r]]
           in == [w \in Wp |-> y.installed[w] \/ \E r \in Reg : <<w, r>> \in got]
           z == [y EXCEPT !.reg = rg, !.installed = in]
<1>1. z = ptrace_install_watchpoint(y, todo)
  BY DEF ptrace_install_watchpoint
<1>2. /\ y \in Worlds /\ y.live \subseteq Wp /\ y.place \in [Wp -> Place]
      /\ y.installed \in [Wp -> BOOLEAN] /\ y.reg \in [Reg -> Place \union {Nowhere}]
  BY WorldTypes DEF Sound
<1>3. \A v, w, r : <<v, r>> \in got /\ <<w, r>> \in got => v = w
  BY Gettings
<1> HIDE DEF got
<1>4. ASSUME NEW r \in Reg, NEW w \in todo, <<w, r>> \in got
      PROVE  rg[r] = y.place[w]
  <2>1. (CHOOSE v \in todo : <<v, r>> \in got) = w
    BY <1>3, <1>4
  <2> QED BY <1>4, <2>1
<1>5. ASSUME NEW r \in Reg, \A w \in todo : <<w, r>> \notin got
      PROVE  rg[r] = y.reg[r]
  BY <1>5
<1>6. rg \in [Reg -> Place \union {Nowhere}]
  <2>1. ASSUME NEW r \in Reg PROVE rg[r] \in Place \union {Nowhere}
    <3> HIDE DEF rg
    <3>1. CASE \E w \in todo : <<w, r>> \in got
      BY <1>2, <1>4, <3>1
    <3>2. CASE \A w \in todo : <<w, r>> \notin got
      BY <1>2, <1>5, <3>2
    <3> QED BY <3>1, <3>2
  <2> QED BY <2>1
<1>7. in \in [Wp -> BOOLEAN]
  OBVIOUS
<1>8. \A w \in Wp : in[w] <=> y.installed[w] \/ \E r \in Reg : <<w, r>> \in got
  OBVIOUS
<1> HIDE DEF rg, in
<1>9. z \in Worlds /\ z.reg = rg /\ z.installed = in
  BY <1>2, <1>6, <1>7 DEF Worlds
<1>10. Kept(y, z) /\ z.activated = y.activated /\ z.val = y.val /\ z.prot = y.prot /\ z.mem = y.mem
  BY <1>2 DEF Worlds, Kept
<1> HIDE DEF z
<1> QED BY <1>1, <1>4, <1>5, <1>8, <1>9, <1>10 DEF got

(* Installing into registers none of which is in use. *)
LEMMA InstallOwned ==
  ASSUME NEW y, Sound(y), NEW todo \in SUBSET y.live, \A r \in Reg : y.reg[r] = Nowhere
  PROVE  Owned(ptrace_install_watchpoint(y, todo))
<1> DEFINE z == ptrace_install_watchpoint(y, todo)
           got == Getting(y, todo)
           g == [r \in Used(z) |-> CHOOSE w \in todo : <<w, r>> \in got]
<1>1. /\ \A w, r : <<w, r>> \in got =>
           w \in todo /\ r \in Reg /\ y.place[w] \in Small /\ y.reg[r] = Nowhere
      /\ \A w, q, r : <<w, q>> \in got /\ <<w, r>> \in got => q = r
  BY Gettings
<1>2. /\ z \in Worlds /\ Kept(y, z)
      /\ \A w \in todo, r \in Reg : <<w, r>> \in got => z.reg[r] = y.place[w]
      /\ \A r \in Reg : (\A w \in todo : <<w, r>> \notin got) => z.reg[r] = y.reg[r]
      /\ \A w \in Wp : z.installed[w] <=> y.installed[w] \/ \E r \in Reg : <<w, r>> \in got
  BY InstallFields
<1>3. todo \subseteq Wp /\ todo \subseteq z.live /\ z.place = y.place
  BY <1>2, WorldTypes DEF Sound, Kept
<1> HIDE DEF z, got
<1>4. ASSUME NEW r \in Used(z)
      PROVE  g[r] \in todo /\ <<g[r], r>> \in got
  <2>1. r \in Reg /\ z.reg[r] # Nowhere
    BY DEF Used
  <2>2. \E w \in todo : <<w, r>> \in got
    BY <1>2, <2>1
  <2> QED BY <2>2
<1>5. g \in [Used(z) -> Fitted(z)]
  <2>1. ASSUME NEW r \in Used(z) PROVE g[r] \in Fitted(z)
    <3> HIDE DEF g
    <3> QED BY <1>1, <1>2, <1>3, <1>4 DEF Fitted
  <2>2. \A r \in Used(z) : (CHOOSE w \in todo : <<w, r>> \in got) \in Fitted(z)
    BY <2>1
  <2> QED BY <2>2
<1> HIDE DEF g
<1>6. \A q, r \in Used(z) : g[q] = g[r] => q = r
  BY <1>1, <1>4
<1>7. ASSUME NEW r \in Used(z)
      PROVE  z.place[g[r]] \in Small /\ z.place[g[r]] = z.reg[r]
  <2>1. r \in Reg /\ g[r] \in todo /\ <<g[r], r>> \in got
    BY <1>4 DEF Used
  <2>2. y.place[g[r]] \in Small /\ z.reg[r] = y.place[g[r]]
    BY <1>1, <1>2, <2>1
  <2> QED BY <1>3, <2>2
<1>8. Owned(z)
  BY <1>5, <1>6, <1>7 DEF Owned
<1> QED BY <1>8 DEF z

(* Installing gives what was not installed a register of its own. *)
LEMMA InstallServed ==
  ASSUME NEW y, Sound(y), NEW todo \in SUBSET y.live, Served(y)
  PROVE  Served(ptrace_install_watchpoint(y, todo))
<1> DEFINE z == ptrace_install_watchpoint(y, todo)
           got == Getting(y, todo)
<1>1. /\ \A w, r : <<w, r>> \in got =>
           w \in todo /\ r \in Reg /\ y.place[w] \in Small /\ y.reg[r] = Nowhere
      /\ \A v, w, r : <<v, r>> \in got /\ <<w, r>> \in got => v = w
  BY Gettings
<1>2. /\ z \in Worlds /\ Kept(y, z)
      /\ \A w \in todo, r \in Reg : <<w, r>> \in got => z.reg[r] = y.place[w]
      /\ \A r \in Reg : (\A w \in todo : <<w, r>> \notin got) => z.reg[r] = y.reg[r]
      /\ \A w \in Wp : z.installed[w] <=> y.installed[w] \/ \E r \in Reg : <<w, r>> \in got
  BY InstallFields
<1>3. z.live = y.live /\ z.live \subseteq Wp /\ z.place = y.place /\ Nowhere \notin Small
  BY <1>2, WorldTypes, WatchAssumption DEF Sound, Kept
<1>4. PICK f \in [Fitted(y) -> Reg] :
           /\ \A v, w \in Fitted(y) : f[v] = f[w] => v = w
           /\ \A w \in Fitted(y) : y.place[w] \in Small /\ y.reg[f[w]] = y.place[w]
  BY DEF Served
<1> DEFINE h == [w \in Fitted(z) |-> IF w \in Fitted(y) THEN f[w] ELSE CHOOSE r \in Reg : <<w, r>> \in got]
<1> HIDE DEF z, got
<1>5. ASSUME NEW w \in Fitted(z), w \notin Fitted(y)
      PROVE  h[w] \in Reg /\ <<w, h[w]>> \in got
  <2>1. \E r \in Reg : <<w, r>> \in got
    BY <1>2, <1>3, <1>5 DEF Fitted
  <2> QED BY <1>5, <2>1
<1>6. \A w \in Fitted(y) : w \in Fitted(z) => h[w] = f[w]
  OBVIOUS
<1>7. h \in [Fitted(z) -> Reg]
  <2>1. \A w \in Fitted(z) : h[w] \in Reg
    <3> HIDE DEF h
    <3> QED BY <1>4, <1>5, <1>6
  <2> QED BY <2>1
<1> HIDE DEF h
<1>8. \A w \in Fitted(z) : z.place[w] \in Small /\ z.reg[h[w]] = z.place[w]
  <2>1. ASSUME NEW w \in Fitted(z), w \in Fitted(y) PROVE z.place[w] \in Small /\ z.reg[h[w]] = z.place[w]
    <3>1. h[w] = f[w] /\ f[w] \in Reg /\ y.place[w] \in Small /\ y.reg[f[w]] = y.place[w]
      BY <1>4, <1>6, <2>1
    <3>2. \A v \in todo : <<v, f[w]>> \notin got
      BY <1>1, <1>3, <3>1
    <3> QED BY <1>2, <1>3, <3>1, <3>2
  <2>2. ASSUME NEW w \in Fitted(z), w \notin Fitted(y) PROVE z.place[w] \in Small /\ z.reg[h[w]] = z.place[w]
    <3>1. h[w] \in Reg /\ <<w, h[w]>> \in got
      BY <1>5, <2>2
    <3>2. w \in todo /\ y.place[w] \in Small
      BY <1>1, <3>1
    <3>3. z.reg[h[w]] = y.place[w]
      BY <1>2, <3>1, <3>2
    <3> QED BY <1>3, <3>2, <3>3
  <2> QED BY <2>1, <2>2
<1>9. \A v, w \in Fitted(z) : h[v] = h[w] => v = w
  <2>1. \A w \in Fitted(z) : IF w \in Fitted(y) THEN y.reg[h[w]] # Nowhere ELSE y.reg[h[w]] = Nowhere
    <3>1. ASSUME NEW w \in Fitted(z), w \in Fitted(y) PROVE y.reg[h[w]] # Nowhere
      BY <1>3, <1>4, <1>6, <3>1
    <3>2. ASSUME NEW w \in Fitted(z), w \notin Fitted(y) PROVE y.reg[h[w]] = Nowhere
      BY <1>1, <1>5, <3>2
    <3> QED BY <3>1, <3>2
  <2>2. ASSUME NEW v \in Fitted(z), NEW w \in Fitted(z), h[v] = h[w] PROVE v = w
    <3>1. v \in Fitted(y) <=> w \in Fitted(y)
      BY <2>1, <2>2
    <3>2. CASE v \in Fitted(y)
      BY <1>4, <1>6, <2>2, <3>1, <3>2
    <3>3. CASE v \notin Fitted(y)
      <4>1. <<v, h[v]>> \in got /\ <<w, h[w]>> \in got
        BY <1>5, <3>1, <3>3
      <4> QED BY <1>1, <2>2, <4>1
    <3> QED BY <3>2, <3>3
  <2> QED BY <2>2
<1>10. Served(z)
  BY <1>7, <1>8, <1>9 DEF Served
<1> QED BY <1>10 DEF z

(* ptrace_uninstall_watchpoint frees the registers given back, and unmarks *)
(* who gives one.                                                          *)
LEMMA UninstallFields ==
  ASSUME NEW y, Sound(y), NEW todo \in SUBSET y.live
  PROVE  LET z == ptrace_uninstall_watchpoint(y, todo)
             given == Giving(y, todo)
         IN  /\ z \in Worlds /\ Kept(y, z)
             /\ z.activated = y.activated /\ z.val = y.val /\ z.prot = y.prot /\ z.mem = y.mem
             /\ \A r \in Reg : z.reg[r] = IF \E w \in todo : <<w, r>> \in given THEN Nowhere ELSE y.reg[r]
             /\ \A w \in Wp : z.installed[w] <=> y.installed[w] /\ \A r \in Reg : <<w, r>> \notin given
<1> DEFINE given == Giving(y, todo)
           rg == [r \in Reg |-> IF \E w \in todo : <<w, r>> \in given THEN Nowhere ELSE y.reg[r]]
           in == [w \in Wp |-> y.installed[w] /\ \A r \in Reg : <<w, r>> \notin given]
           z == [y EXCEPT !.reg = rg, !.installed = in]
<1>1. z = ptrace_uninstall_watchpoint(y, todo)
  BY DEF ptrace_uninstall_watchpoint
<1>2. y \in Worlds /\ y.reg \in [Reg -> Place \union {Nowhere}]
  BY WorldTypes DEF Sound
<1> HIDE DEF given
<1>3. rg \in [Reg -> Place \union {Nowhere}] /\ in \in [Wp -> BOOLEAN]
  BY <1>2
<1>4. \A r \in Reg : rg[r] = IF \E w \in todo : <<w, r>> \in given THEN Nowhere ELSE y.reg[r]
  OBVIOUS
<1>5. \A w \in Wp : in[w] <=> y.installed[w] /\ \A r \in Reg : <<w, r>> \notin given
  OBVIOUS
<1> HIDE DEF rg, in
<1>6. z \in Worlds /\ z.reg = rg /\ z.installed = in
  BY <1>2, <1>3 DEF Worlds
<1>7. Kept(y, z) /\ z.activated = y.activated /\ z.val = y.val /\ z.prot = y.prot /\ z.mem = y.mem
  BY <1>2 DEF Worlds, Kept
<1> HIDE DEF z
<1> QED BY <1>1, <1>4, <1>5, <1>6, <1>7 DEF given

(* Who gives up what: the watchpoints with one area and the registers that *)
(* hold it are matched in their orders.                                    *)
Holding(y, p) == {r \in Reg : y.reg[r] = p}
Alike(y, p) == {w \in Fitted(y) : y.place[w] = p}

(* The n-th watchpoint installed at an area gives back the n-th register   *)
(* that holds it.                                                          *)
LEMMA Givings ==
  ASSUME NEW y, Sound(y), NEW p \in Small
  PROVE  /\ \A w \in Alike(y, p), r \in Holding(y, p) :
              Nth(Holding(y, p), r) = Turn(List(y), Alike(y, p), w) => <<w, r>> \in Giving(y, Fitted(y))
         /\ IsFiniteSet(Alike(y, p)) /\ Alike(y, p) \in SUBSET y.live
         /\ IsFiniteSet(Holding(y, p)) /\ Holding(y, p) \in SUBSET Reg
<1>1. ASSUME NEW w \in Alike(y, p), NEW r \in Holding(y, p),
             Nth(Holding(y, p), r) = Turn(List(y), Alike(y, p), w)
      PROVE  <<w, r>> \in Giving(y, Fitted(y))
  <2>1. w \in Fitted(y) /\ r \in Reg /\ y.place[w] = p /\ y.reg[r] = y.place[w] /\ y.place[w] \in Small
    BY DEF Alike, Holding
  <2>2. {q \in Reg : y.reg[q] = y.place[w]} = Holding(y, p)
    BY <2>1 DEF Holding
  <2>3. {u \in Fitted(y) : y.place[u] = y.place[w]} = Alike(y, p)
    BY <2>1 DEF Alike
  <2>4. Nth({q \in Reg : y.reg[q] = y.place[w]}, r)
          = Turn(List(y), {u \in Fitted(y) : y.place[u] = y.place[w]}, w)
    BY <1>1, <2>2, <2>3
  <2> QED BY <2>1, <2>4 DEF Giving
<1>2. Alike(y, p) \in SUBSET y.live /\ Holding(y, p) \in SUBSET Reg
  BY DEF Alike, Fitted, Holding
<1>3. IsFiniteSet(Alike(y, p)) /\ IsFiniteSet(Holding(y, p))
  <2>1. Alike(y, p) \in SUBSET Wp
    BY <1>2, WorldTypes DEF Sound
  <2> QED BY <1>2, <2>1, FS_Subset, WatchAssumption
<1> QED BY <1>1, <1>2, <1>3

(* Uninstalling all of them leaves no register in use, ... *)
LEMMA UninstallOwned ==
  ASSUME NEW y, Sound(y), Owned(y)
  PROVE  LET z == ptrace_uninstall_watchpoint(y, Fitted(y))
         IN  \A r \in Reg : z.reg[r] = Nowhere
<1> DEFINE z == ptrace_uninstall_watchpoint(y, Fitted(y))
           given == Giving(y, Fitted(y))
<1>1. Fitted(y) \in SUBSET y.live
  BY DEF Fitted
<1>2. \A r \in Reg : z.reg[r] = IF \E w \in Fitted(y) : <<w, r>> \in given THEN Nowhere ELSE y.reg[r]
  BY <1>1, UninstallFields
<1>3. PICK g \in [Used(y) -> Fitted(y)] :
           /\ \A q, r \in Used(y) : g[q] = g[r] => q = r
           /\ \A r \in Used(y) : y.place[g[r]] \in Small /\ y.place[g[r]] = y.reg[r]
  BY DEF Owned
<1> HIDE DEF z
<1>4. ASSUME NEW r \in Reg, y.reg[r] # Nowhere
      PROVE  \E w \in Fitted(y) : <<w, r>> \in given
  <2> DEFINE p == y.reg[r]
             H == Holding(y, p)
             A == Alike(y, p)
             h == [q \in H |-> g[q]]
  <2>1. r \in Used(y) /\ p \in Small
    BY <1>3, <1>4 DEF Used
  <2>2. /\ \A w \in A, q \in H : Nth(H, q) = Turn(List(y), A, w) => <<w, q>> \in given
        /\ IsFiniteSet(A) /\ A \in SUBSET y.live
        /\ IsFiniteSet(H) /\ H \in SUBSET Reg
    BY <2>1, Givings
  <2>3. r \in H /\ A \subseteq Fitted(y) /\ \A q \in H : q \in Used(y) /\ y.reg[q] = p
    BY <1>4 DEF Holding, Alike, Used
  <2>4. \A q \in H : g[q] \in A
    BY <1>3, <2>3 DEF Alike
  <2> HIDE DEF p, H, A
  <2>5. h \in Injection(H, A)
    BY <1>3, <2>3, <2>4 DEF Injection, IsInjective
  <2>6. Cardinality(H) <= Cardinality(A)
    <3> HIDE DEF h
    <3> QED BY <2>2, <2>5, FS_Injection
  <2>7. Nth(H, r) \in 0 .. Cardinality(H) - 1
    BY <2>2, <2>3, Nths
  <2>8. Cardinality(H) \in Nat /\ Cardinality(A) \in Nat
    BY <2>2, FS_CardinalityType
  <2>9. Nth(H, r) \in 0 .. Cardinality(A) - 1
    BY <2>6, <2>7, <2>8
  <2>10. \A k \in 0 .. Cardinality(A) - 1 : \E w \in A : Turn(List(y), A, w) = k
    BY <2>2, Turns
  <2>11. PICK w \in A : Turn(List(y), A, w) = Nth(H, r)
    BY <2>9, <2>10
  <2> QED BY <2>2, <2>3, <2>11
<1> QED BY <1>2, <1>4 DEF z

(* ... and none of them counts as installed. *)
LEMMA UninstallServed ==
  ASSUME NEW y, Sound(y), Served(y)
  PROVE  Fitted(ptrace_uninstall_watchpoint(y, Fitted(y))) = {}
<1> DEFINE z == ptrace_uninstall_watchpoint(y, Fitted(y))
           given == Giving(y, Fitted(y))
<1>1. Fitted(y) \in SUBSET y.live
  BY DEF Fitted
<1>2. z.live = y.live /\ z.live \subseteq Wp
      /\ \A w \in Wp : z.installed[w] <=> y.installed[w] /\ \A r \in Reg : <<w, r>> \notin given
  BY <1>1, UninstallFields, WorldTypes DEF Sound, Kept
<1>3. PICK f \in [Fitted(y) -> Reg] :
           /\ \A v, w \in Fitted(y) : f[v] = f[w] => v = w
           /\ \A w \in Fitted(y) : y.place[w] \in Small /\ y.reg[f[w]] = y.place[w]
  BY DEF Served
<1> HIDE DEF z
<1>4. ASSUME NEW w \in Fitted(y)
      PROVE  \E r \in Reg : <<w, r>> \in given
  <2> DEFINE p == y.place[w]
             H == Holding(y, p)
             A == Alike(y, p)
             h == [v \in A |-> f[v]]
  <2>1. p \in Small
    BY <1>3
  <2>2. /\ \A v \in A, q \in H : Nth(H, q) = Turn(List(y), A, v) => <<v, q>> \in given
        /\ IsFiniteSet(A) /\ A \in SUBSET y.live
        /\ IsFiniteSet(H) /\ H \in SUBSET Reg
    BY <2>1, Givings
  <2>3. w \in A /\ \A v \in A : v \in Fitted(y) /\ y.place[v] = p
    BY DEF Alike
  <2>4. \A v \in A : f[v] \in H
    BY <1>3, <2>3 DEF Holding
  <2> HIDE DEF p, H, A
  <2>5. h \in Injection(A, H)
    BY <1>3, <2>3, <2>4 DEF Injection, IsInjective
  <2>6. Cardinality(A) <= Cardinality(H)
    <3> HIDE DEF h
    <3> QED BY <2>2, <2>5, FS_Injection
  <2>7. Turn(List(y), A, w) \in 0 .. Cardinality(A) - 1
    BY <2>2, <2>3, Turns
  <2>8. Cardinality(H) \in Nat /\ Cardinality(A) \in Nat
    BY <2>2, FS_CardinalityType
  <2>9. Turn(List(y), A, w) \in 0 .. Cardinality(H) - 1
    BY <2>6, <2>7, <2>8
  <2>10. \A k \in 0 .. Cardinality(H) - 1 : \E r \in H : Nth(H, r) = k
    BY <2>2, Nths
  <2>11. PICK r \in H : Nth(H, r) = Turn(List(y), A, w)
    BY <2>9, <2>10
  <2> QED BY <2>2, <2>3, <2>11
<1>5. \A w \in z.live : ~z.installed[w]
  BY <1>2, <1>4 DEF Fitted
<1> QED BY <1>5 DEF z, Fitted

(* activate_all_watchpoints protects the pages of the enabled watchpoints  *)
(* without a register.                                                     *)
LEMMA ActivateFields ==
  ASSUME NEW y, Sound(y), NEW badPages
  PROVE  LET a == activate_all_watchpoints(y, badPages)
             todo == Unprotected(y)
         IN  /\ a.y \in Worlds /\ Kept(y, a.y) /\ a.ok \in BOOLEAN /\ a.some \in BOOLEAN
             /\ a.y.installed = y.installed /\ a.y.val = y.val /\ a.y.reg = y.reg /\ a.y.mem = y.mem
             /\ badPages = {} =>
                  /\ a.ok /\ (a.some <=> todo # {})
                  /\ a.y.prot = y.prot \union {PageOf[y.place[w]] : w \in todo}
                  /\ \A w \in Wp : a.y.activated[w] <=> y.activated[w] \/ w \in todo
<1> DEFINE todo == Unprotected(y)
           done == Before(List(y), todo, OnPages(y, badPages))
           ac == [w \in Wp |-> y.activated[w] \/ w \in done]
           pr == y.prot \union {PageOf[y.place[w]] : w \in done}
           z == [y EXCEPT !.prot = pr, !.activated = ac]
           a == activate_all_watchpoints(y, badPages)
<1>1. a = [ok |-> done = todo, some |-> done # {}, y |-> z]
  BY DEF activate_all_watchpoints
<1>2. y \in Worlds /\ y.live \subseteq Wp /\ y.prot \subseteq Page /\ y.place \in [Wp -> Place]
  BY WorldTypes DEF Sound
<1>3. done \subseteq todo /\ todo \subseteq y.live
  BY ListedIs DEF Before, Unprotected
<1>4. badPages = {} => done = todo
  BY DEF Before, OnPages
<1> HIDE DEF todo, done, a
<1>5. pr \subseteq Page /\ ac \in [Wp -> BOOLEAN]
  BY <1>2, <1>3 DEF Page
<1>6. \A w \in Wp : ac[w] <=> y.activated[w] \/ w \in done
  OBVIOUS
<1> HIDE DEF pr, ac
<1>7. z \in Worlds /\ z.prot = pr /\ z.activated = ac
  BY <1>2, <1>5 DEF Worlds
<1>8. Kept(y, z) /\ z.installed = y.installed /\ z.val = y.val /\ z.reg = y.reg /\ z.mem = y.mem
  BY <1>2 DEF Worlds, Kept
<1> HIDE DEF z
<1>9. a.y = z /\ a.ok = (done = todo) /\ a.some = (done # {})
  BY <1>1
<1> QED BY <1>4, <1>6, <1>7, <1>8, <1>9 DEF a, todo, pr

(* deactivate_all_watchpoints never protects a page, and without failures  *)
(* leaves none of its own protected.                                       *)
LEMMA DeactivateFields ==
  ASSUME NEW y, Sound(y), NEW badPages
  PROVE  LET d == deactivate_all_watchpoints(y, badPages)
         IN  /\ d.y \in Worlds /\ Kept(y, d.y) /\ d.ok \in BOOLEAN
             /\ d.y.installed = y.installed /\ d.y.val = y.val /\ d.y.reg = y.reg /\ d.y.mem = y.mem
             /\ d.y.prot \subseteq y.prot
             /\ badPages = {} =>
                  /\ d.ok /\ d.y.prot = y.prot \ Protected(y)
                  /\ \A w \in y.live : ~d.y.activated[w]
<1> DEFINE done == Before(List(y), Listed(y), {w \in OnPages(y, badPages) : y.activated[w]})
           ac == [w \in Wp |-> y.activated[w] /\ w \notin done]
           pr == y.prot \ {PageOf[y.place[w]] : w \in {u \in done : y.activated[u]}}
           z == [y EXCEPT !.prot = pr, !.activated = ac]
           d == deactivate_all_watchpoints(y, badPages)
<1>1. d = [ok |-> done = Listed(y), y |-> z]
  BY DEF deactivate_all_watchpoints
<1>2. y \in Worlds /\ y.live \subseteq Wp /\ y.prot \subseteq Page /\ Listed(y) = y.live
  BY WorldTypes, ListedIs DEF Sound
<1>3. badPages = {} => done = y.live
  BY <1>2 DEF Before, OnPages
<1> HIDE DEF done, d
<1>4. pr \subseteq Page /\ pr \subseteq y.prot /\ ac \in [Wp -> BOOLEAN]
  BY <1>2
<1>5. \A w \in Wp : ac[w] <=> y.activated[w] /\ w \notin done
  OBVIOUS
<1>6. badPages = {} => pr = y.prot \ Protected(y)
  BY <1>3 DEF Protected
<1> HIDE DEF pr, ac
<1>7. z \in Worlds /\ z.prot = pr /\ z.activated = ac
  BY <1>2, <1>4 DEF Worlds
<1>8. Kept(y, z) /\ z.installed = y.installed /\ z.val = y.val /\ z.reg = y.reg /\ z.mem = y.mem
  BY <1>2 DEF Worlds, Kept
<1> HIDE DEF z
<1>9. d.y = z /\ d.ok = (done = Listed(y))
  BY <1>1
<1> QED BY <1>2, <1>3, <1>4, <1>5, <1>6, <1>7, <1>8, <1>9 DEF d

(* Who has a register depends on registers and marks only. *)
LEMMA SameOwners ==
  ASSUME NEW y, NEW z, Kept(y, z), z.reg = y.reg, z.installed = y.installed
  PROVE  (Owned(y) => Owned(z)) /\ (Served(y) => Served(z)) /\ Fitted(z) = Fitted(y)
<1>1. Used(z) = Used(y) /\ Fitted(z) = Fitted(y) /\ z.place = y.place
  BY DEF Used, Fitted, Kept
<1>2. Owned(y) => Owned(z)
  BY <1>1 DEF Owned
<1>3. Served(y) => Served(z)
  BY <1>1 DEF Served
<1> QED BY <1>1, <1>2, <1>3

(* What install_all_watchpoints leaves behind: T are those that were tried *)
(* on a register, the areas of all are read unless it failed, and the      *)
(* pages of those without a register are protected.                        *)
Left(y, r, T, badPages) ==
  LET u == ptrace_install_watchpoint(y, T)
      N == {w \in y.live : y.enabled[w] /\ ~r.y.installed[w] /\ ~y.activated[w]}
  IN  /\ r.y \in Worlds /\ Kept(y, r.y) /\ r.ok \in BOOLEAN /\ r.some \in BOOLEAN
      /\ r.y.mem = y.mem /\ r.y.reg = u.reg /\ r.y.installed = u.installed
      /\ badPages = {} /\ r.ok =>
           /\ r.y.prot = y.prot \union {PageOf[y.place[w]] : w \in N}
           /\ \A w \in Wp : r.y.activated[w] <=> y.activated[w] \/ w \in N
           /\ r.some <=> N # {}
           /\ \A w \in y.live : y.enabled[w] => r.y.val[w] = y.mem[y.place[w]]
      /\ badPages = {} /\ ~r.ok => r.y.prot = y.prot /\ r.y.activated = y.activated

(* What install_all_watchpoints leaves behind, for the watchpoints before  *)
(* the first area that cannot be read.                                     *)
LEMMA InstallAllLeaves ==
  ASSUME NEW y, Sound(y), NEW bad, NEW badPages
  PROVE  LET r == install_all_watchpoints(y, bad, badPages)
         IN  /\ \E T \in SUBSET y.live : Left(y, r, T, badPages)
             /\ bad = {} /\ badPages = {} => r.ok
<1> DEFINE todo == {w \in Listed(y) : y.enabled[w]}
           failing == {w \in todo : y.place[w] \in bad}
           read == Before(List(y), todo, failing)
           T == {w \in todo : \A u \in failing : ~Earlier(List(y), u, w)}
           in == ptrace_install_watchpoint(y, T)
           vl == [w \in Wp |-> IF w \in read THEN y.mem[y.place[w]] ELSE y.val[w]]
           z == [in EXCEPT !.val = vl]
           a == activate_all_watchpoints(z, badPages)
           r == install_all_watchpoints(y, bad, badPages)
<1>1. r = IF read = todo THEN a ELSE [ok |-> FALSE, some |-> FALSE, y |-> z]
  BY DEF install_all_watchpoints
<1>2. /\ y \in Worlds /\ y.live \subseteq Wp /\ Listed(y) = y.live /\ y.place \in [Wp -> Place]
      /\ y.val \in [Wp -> Val] /\ y.mem \in [Place -> Val]
  BY WorldTypes, ListedIs DEF Sound
<1>3. read \subseteq todo /\ todo \subseteq y.live /\ T \in SUBSET y.live
  BY <1>2 DEF Before
<1>4. bad = {} => read = todo
  BY DEF Before
<1>5. \A w \in y.live : y.enabled[w] => w \in todo
  BY <1>2
<1> HIDE DEF r, todo, read, T
<1>6. /\ in \in Worlds /\ Kept(y, in)
      /\ in.activated = y.activated /\ in.val = y.val /\ in.prot = y.prot /\ in.mem = y.mem
  BY <1>3, InstallFields
<1>7. vl \in [Wp -> Val] /\ \A w \in read : vl[w] = y.mem[y.place[w]]
  BY <1>2, <1>3
<1> HIDE DEF in, vl
<1>8. /\ z \in Worlds /\ z.val = vl /\ z.reg = in.reg /\ z.installed = in.installed
      /\ z.activated = in.activated /\ z.prot = in.prot /\ z.mem = in.mem /\ Kept(in, z)
  BY <1>6, <1>7 DEF Worlds, Kept
<1> HIDE DEF z
<1>9. /\ Kept(y, z) /\ z.reg = in.reg /\ z.installed = in.installed /\ z.activated = y.activated
      /\ z.prot = y.prot /\ z.mem = y.mem
  BY <1>6, <1>8 DEF Kept
<1>10. Sound(z) /\ Listed(z) = y.live
  BY <1>8, <1>9, KeptSound, ListedIs DEF Kept
<1> DEFINE N == Unprotected(z)
<1>11. N = {w \in y.live : y.enabled[w] /\ ~z.installed[w] /\ ~y.activated[w]}
  BY <1>9, <1>10 DEF Unprotected, Kept
<1>12. /\ a.y \in Worlds /\ Kept(z, a.y) /\ a.ok \in BOOLEAN /\ a.some \in BOOLEAN
       /\ a.y.installed = z.installed /\ a.y.val = z.val /\ a.y.reg = z.reg /\ a.y.mem = z.mem
       /\ badPages = {} =>
            /\ a.ok /\ (a.some <=> N # {})
            /\ a.y.prot = z.prot \union {PageOf[z.place[w]] : w \in N}
            /\ \A w \in Wp : a.y.activated[w] <=> z.activated[w] \/ w \in N
  BY <1>10, ActivateFields
<1> HIDE DEF a, N
<1>13. CASE read = todo
  <2>1. r = a
    BY <1>1, <1>13
  <2>2. Kept(y, a.y)
    BY <1>9, <1>12 DEF Kept
  <2>3. /\ a.y.mem = y.mem /\ a.y.reg = in.reg /\ a.y.installed = in.installed
        /\ N = {w \in y.live : y.enabled[w] /\ ~a.y.installed[w] /\ ~y.activated[w]}
    BY <1>9, <1>11, <1>12
  <2>4. badPages = {} =>
          /\ a.y.prot = y.prot \union {PageOf[y.place[w]] : w \in N}
          /\ \A w \in Wp : a.y.activated[w] <=> y.activated[w] \/ w \in N
    BY <1>9, <1>12 DEF Kept
  <2>5. \A w \in y.live : y.enabled[w] => a.y.val[w] = y.mem[y.place[w]]
    BY <1>5, <1>7, <1>8, <1>12, <1>13
  <2>6. Left(y, a, T, badPages)
    BY <1>12, <2>2, <2>3, <2>4, <2>5 DEF Left, in
  <2> QED BY <1>3, <1>12, <2>1, <2>6 DEF r
<1>14. CASE read # todo
  <2> DEFINE f == [ok |-> FALSE, some |-> FALSE, y |-> z]
  <2>1. r = f /\ bad # {}
    BY <1>1, <1>4, <1>14
  <2>2. f.y = z /\ f.ok = FALSE /\ f.some = FALSE
    OBVIOUS
  <2> HIDE DEF f
  <2>3. Left(y, f, T, badPages)
    BY <1>8, <1>9, <2>2 DEF Left, in
  <2> QED BY <1>3, <2>1, <2>3 DEF r
<1> QED BY <1>13, <1>14

(* install_all_watchpoints keeps the list. *)
LEMMA InstallAllTypes ==
  ASSUME NEW y, Sound(y), NEW bad, NEW badPages
  PROVE  LET r == install_all_watchpoints(y, bad, badPages)
         IN  /\ r.y \in Worlds /\ Kept(y, r.y) /\ Sound(r.y)
             /\ r.ok \in BOOLEAN /\ r.some \in BOOLEAN
<1> DEFINE r == install_all_watchpoints(y, bad, badPages)
<1>1. PICK T \in SUBSET y.live : Left(y, r, T, badPages)
  BY InstallAllLeaves
<1> HIDE DEF r
<1>2. r.y \in Worlds /\ Kept(y, r.y) /\ r.ok \in BOOLEAN /\ r.some \in BOOLEAN
  BY <1>1 DEF Left
<1>3. Sound(r.y)
  BY <1>2, KeptSound
<1> QED BY <1>2, <1>3 DEF r

(* Into a process in which nothing is set. *)
LEMMA InstallAllClean ==
  ASSUME NEW y, Sound(y), Clear(y)
  PROVE  LET r == install_all_watchpoints(y, {}, {})
         IN  /\ r.ok /\ r.y.prot \subseteq Protected(r.y) /\ Owned(r.y)
             /\ r.y.prot # {} => r.some
<1> DEFINE r == install_all_watchpoints(y, {}, {})
           N == {w \in y.live : y.enabled[w] /\ ~r.y.installed[w] /\ ~y.activated[w]}
<1>1. r.ok /\ \E T \in SUBSET y.live : Left(y, r, T, {})
  BY InstallAllLeaves
<1>2. PICK T \in SUBSET y.live : Left(y, r, T, {})
  BY <1>1
<1> DEFINE u == ptrace_install_watchpoint(y, T)
<1>3. Owned(u) /\ Kept(y, u)
  BY InstallOwned, InstallFields DEF Clear
<1> HIDE DEF r, u
<1>4. /\ Kept(y, r.y) /\ r.y.reg = u.reg /\ r.y.installed = u.installed
      /\ r.y.prot = y.prot \union {PageOf[y.place[w]] : w \in N}
      /\ \A w \in Wp : r.y.activated[w] <=> y.activated[w] \/ w \in N
      /\ r.some <=> N # {}
  BY <1>1, <1>2 DEF Left, u
<1>5. Owned(r.y)
  <2>1. Kept(u, r.y)
    BY <1>3, <1>4 DEF Kept
  <2> QED BY <1>3, <1>4, <2>1, SameOwners
<1>6. y.prot = {} /\ r.y.live = y.live /\ r.y.place = y.place /\ y.live \subseteq Wp
  BY <1>4, WorldTypes DEF Clear, Kept, Sound
<1>7. N \subseteq {w \in r.y.live : r.y.activated[w]}
  BY <1>4, <1>6
<1>8. r.y.prot \subseteq Protected(r.y)
  BY <1>4, <1>6, <1>7 DEF Protected
<1>9. r.y.prot # {} => r.some
  BY <1>4, <1>6
<1> QED BY <1>1, <1>5, <1>8, <1>9 DEF r

(* Into a process in which what counts as installed is. *)
LEMMA InstallAllSeen ==
  ASSUME NEW y, Sound(y), Served(y), Protected(y) \subseteq y.prot, NEW bad
  PROVE  LET r == install_all_watchpoints(y, bad, {})
         IN  /\ Served(r.y) /\ Protected(r.y) \subseteq r.y.prot
             /\ r.ok => Watching(r.y) /\ Unchanged(r.y)
             /\ ~r.ok => r.y.activated = y.activated
<1> DEFINE r == install_all_watchpoints(y, bad, {})
           N == {w \in y.live : y.enabled[w] /\ ~r.y.installed[w] /\ ~y.activated[w]}
<1>1. PICK T \in SUBSET y.live : Left(y, r, T, {})
  BY InstallAllLeaves
<1> DEFINE u == ptrace_install_watchpoint(y, T)
<1>2. Served(u) /\ Kept(y, u)
  BY InstallServed, InstallFields
<1> HIDE DEF r, u
<1>3. /\ Kept(y, r.y) /\ r.y.reg = u.reg /\ r.y.installed = u.installed /\ r.y.mem = y.mem
      /\ r.ok \in BOOLEAN
      /\ ~r.ok => r.y.prot = y.prot /\ r.y.activated = y.activated
  BY <1>1 DEF Left, u
<1>4. r.ok =>
        /\ r.y.prot = y.prot \union {PageOf[y.place[w]] : w \in N}
        /\ \A w \in Wp : r.y.activated[w] <=> y.activated[w] \/ w \in N
        /\ \A w \in y.live : y.enabled[w] => r.y.val[w] = y.mem[y.place[w]]
  BY <1>1 DEF Left
<1>5. Served(r.y)
  <2>1. Kept(u, r.y)
    BY <1>2, <1>3 DEF Kept
  <2> QED BY <1>2, <1>3, <2>1, SameOwners
<1>6. r.y.live = y.live /\ r.y.place = y.place /\ r.y.enabled = y.enabled /\ y.live \subseteq Wp
  BY <1>3, WorldTypes DEF Kept, Sound
<1>7. \A w \in y.live : y.activated[w] => PageOf[y.place[w]] \in y.prot
  BY DEF Protected
<1>8. Protected(r.y) \subseteq r.y.prot
  <2>1. ASSUME NEW w \in r.y.live, r.y.activated[w] PROVE PageOf[r.y.place[w]] \in r.y.prot
    <3>1. CASE r.ok
      BY <1>4, <1>6, <1>7, <2>1, <3>1
    <3>2. CASE ~r.ok
      BY <1>3, <1>6, <1>7, <2>1, <3>2
    <3> QED BY <3>1, <3>2
  <2> QED BY <2>1 DEF Protected
<1>9. ASSUME r.ok PROVE Watching(r.y) /\ Unchanged(r.y)
  <2>1. Unchanged(r.y)
    BY <1>3, <1>4, <1>6, <1>9 DEF Unchanged
  <2>2. ASSUME NEW w \in r.y.live, r.y.enabled[w]
        PROVE  PageOf[r.y.place[w]] \in r.y.prot \/ \E q \in Reg : r.y.reg[q] = r.y.place[w]
    <3>1. CASE r.y.installed[w]
      BY <1>5, <2>2, <3>1 DEF Served, Fitted
    <3>2. CASE ~r.y.installed[w] /\ y.activated[w]
      BY <1>4, <1>6, <1>7, <1>9, <2>2, <3>2
    <3>3. CASE ~r.y.installed[w] /\ ~y.activated[w]
      BY <1>4, <1>6, <1>9, <2>2, <3>3
    <3> QED BY <3>1, <3>2, <3>3
  <2> QED BY <2>1, <2>2 DEF Watching
<1> QED BY <1>3, <1>5, <1>8, <1>9 DEF r

(* uninstall_all_watchpoints keeps the list, sets no register and protects *)
(* no page.                                                                *)
LEMMA UninstallAllTypes ==
  ASSUME NEW y, Sound(y), NEW badPages
  PROVE  LET z == uninstall_all_watchpoints(y, badPages)
         IN  /\ z \in Worlds /\ Kept(y, z) /\ z.mem = y.mem
             /\ (\A r \in Reg : y.reg[r] = Nowhere) => (\A r \in Reg : z.reg[r] = Nowhere)
             /\ z.prot \subseteq y.prot
<1> DEFINE d == deactivate_all_watchpoints(y, badPages)
           z == uninstall_all_watchpoints(y, badPages)
           D == {w \in Listed(y) : y.installed[w]}
<1>1. z = IF d.ok THEN ptrace_uninstall_watchpoint(d.y, D) ELSE d.y
  BY DEF uninstall_all_watchpoints
<1>2. /\ d.y \in Worlds /\ Kept(y, d.y) /\ d.ok \in BOOLEAN /\ d.y.reg = y.reg /\ d.y.mem = y.mem
      /\ d.y.prot \subseteq y.prot
  BY DeactivateFields
<1>3. D \in SUBSET d.y.live /\ Sound(d.y)
  BY <1>2, ListedIs, KeptSound DEF Kept
<1> HIDE DEF d, z, D
<1>4. CASE d.ok
  <2>1. /\ z \in Worlds /\ Kept(d.y, z) /\ z.prot = d.y.prot /\ z.mem = d.y.mem
        /\ \A r \in Reg : z.reg[r] = Nowhere \/ z.reg[r] = d.y.reg[r]
    BY <1>1, <1>3, <1>4, UninstallFields
  <2>2. Kept(y, z)
    BY <1>2, <2>1 DEF Kept
  <2>3. (\A r \in Reg : y.reg[r] = Nowhere) => (\A r \in Reg : z.reg[r] = Nowhere)
    BY <1>2, <2>1
  <2> QED BY <1>2, <2>1, <2>2, <2>3 DEF z
<1>5. CASE ~d.ok
  BY <1>1, <1>2, <1>5 DEF z
<1> QED BY <1>4, <1>5

(* What uninstall_all_watchpoints does when mprotect does not fail. *)
LEMMA UninstallAllIs ==
  ASSUME NEW y, Sound(y)
  PROVE  LET d == deactivate_all_watchpoints(y, {})
         IN  /\ uninstall_all_watchpoints(y, {}) = ptrace_uninstall_watchpoint(d.y, Fitted(d.y))
             /\ Sound(d.y) /\ Kept(y, d.y) /\ Fitted(d.y) \in SUBSET d.y.live
             /\ Owned(y) => Owned(d.y)
             /\ Served(y) => Served(d.y)
             /\ d.y.prot = y.prot \ Protected(y)
             /\ \A w \in y.live : ~d.y.activated[w]
<1> DEFINE d == deactivate_all_watchpoints(y, {})
           D == {w \in Listed(y) : y.installed[w]}
<1>1. /\ d.y \in Worlds /\ Kept(y, d.y) /\ d.y.reg = y.reg /\ d.y.installed = y.installed
      /\ d.ok /\ d.y.prot = y.prot \ Protected(y) /\ \A w \in y.live : ~d.y.activated[w]
  BY DeactivateFields
<1>2. uninstall_all_watchpoints(y, {}) = ptrace_uninstall_watchpoint(d.y, D)
  BY <1>1 DEF uninstall_all_watchpoints
<1>3. D = Fitted(d.y) /\ Fitted(d.y) \in SUBSET d.y.live
  BY <1>1, ListedIs DEF Fitted, Kept
<1> HIDE DEF d, D
<1>4. Sound(d.y)
  BY <1>1, KeptSound
<1>5. (Owned(y) => Owned(d.y)) /\ (Served(y) => Served(d.y))
  BY <1>1, SameOwners
<1> QED BY <1>1, <1>2, <1>3, <1>4, <1>5 DEF d

(* When every register in use has an owner, uninstall_all_watchpoints      *)
(* leaves nothing in the process.                                          *)
LEMMA UninstallAllClean ==
  ASSUME NEW y, Sound(y), Owned(y), y.prot \subseteq Protected(y)
  PROVE  Clear(uninstall_all_watchpoints(y, {}))
<1> DEFINE d == deactivate_all_watchpoints(y, {})
           z == uninstall_all_watchpoints(y, {})
<1>1. /\ z = ptrace_uninstall_watchpoint(d.y, Fitted(d.y)) /\ Sound(d.y)
      /\ Fitted(d.y) \in SUBSET d.y.live /\ Owned(d.y) /\ d.y.prot = {}
  BY UninstallAllIs
<1> HIDE DEF d, z
<1>2. z.prot = {}
  BY <1>1, UninstallFields
<1>3. \A r \in Reg : z.reg[r] = Nowhere
  BY <1>1, UninstallOwned
<1> QED BY <1>2, <1>3 DEF Clear, z

(* It leaves no watchpoint marked as active, and those that stay installed *)
(* have their register.                                                    *)
LEMMA UninstallAllSeen ==
  ASSUME NEW y, Sound(y), Served(y)
  PROVE  LET z == uninstall_all_watchpoints(y, {})
         IN  Served(z) /\ Protected(z) = {} /\ \A w \in z.live : ~z.activated[w]
<1> DEFINE d == deactivate_all_watchpoints(y, {})
           z == uninstall_all_watchpoints(y, {})
<1>1. /\ z = ptrace_uninstall_watchpoint(d.y, Fitted(d.y)) /\ Sound(d.y) /\ Kept(y, d.y)
      /\ Fitted(d.y) \in SUBSET d.y.live /\ Served(d.y) /\ \A w \in y.live : ~d.y.activated[w]
  BY UninstallAllIs
<1> HIDE DEF d, z
<1>2. Kept(d.y, z) /\ z.activated = d.y.activated
  BY <1>1, UninstallFields
<1>3. Fitted(z) = {}
  BY <1>1, UninstallServed
<1>4. Served(z)
  <2>1. [w \in {} |-> 0] \in [Fitted(z) -> Reg]
    BY <1>3
  <2> QED BY <1>3, <2>1 DEF Served
<1>5. \A w \in z.live : ~z.activated[w]
  BY <1>1, <1>2 DEF Kept
<1>6. Protected(z) = {}
  BY <1>5 DEF Protected
<1> QED BY <1>4, <1>5, <1>6 DEF z

-----------------------------------------------------------------------------
(* The list of watchpoints between two runs. *)

(* Nothing is set in the process, and nothing but what was counts as       *)
(* installed or activated.                                                 *)
NoMore(y, z) ==
  /\ z.reg = y.reg /\ z.prot = y.prot
  /\ \A w \in z.live : z.installed[w] \/ z.activated[w] => w \in y.live /\ z.place[w] = y.place[w]
  /\ \A w \in z.live : (z.installed[w] => y.installed[w]) /\ (z.activated[w] => y.activated[w])

(* When marks are only taken away, those that are left have their registers*)
(* still.                                                                  *)
LEMMA NoMoreSet ==
  ASSUME NEW y, NEW z, NoMore(y, z)
  PROVE  /\ Served(y) => Served(z)
         /\ Protected(z) \subseteq Protected(y)
         /\ Clear(y) => Clear(z)
         /\ (\A w \in y.live : ~y.installed[w]) => \A w \in z.live : ~z.installed[w]
         /\ (\A w \in y.live : ~y.activated[w]) => \A w \in z.live : ~z.activated[w]
<1>1. Fitted(z) \subseteq Fitted(y) /\ \A w \in Fitted(z) : z.place[w] = y.place[w]
  BY DEF NoMore, Fitted
<1>2. ASSUME Served(y) PROVE Served(z)
  <2>1. PICK f \in [Fitted(y) -> Reg] :
             /\ \A v, w \in Fitted(y) : f[v] = f[w] => v = w
             /\ \A w \in Fitted(y) : y.place[w] \in Small /\ y.reg[f[w]] = y.place[w]
    BY <1>2 DEF Served
  <2> DEFINE h == [w \in Fitted(z) |-> f[w]]
  <2>2. h \in [Fitted(z) -> Reg] /\ \A w \in Fitted(z) : h[w] = f[w]
    BY <1>1
  <2> HIDE DEF h
  <2>3. \A v, w \in Fitted(z) : h[v] = h[w] => v = w
    BY <1>1, <2>1, <2>2
  <2>4. \A w \in Fitted(z) : z.place[w] \in Small /\ z.reg[h[w]] = z.place[w]
    BY <1>1, <2>1, <2>2 DEF NoMore
  <2> QED BY <2>2, <2>3, <2>4 DEF Served
<1>3. Protected(z) \subseteq Protected(y)
  BY DEF NoMore, Protected
<1>4. Clear(y) => Clear(z)
  BY DEF NoMore, Clear
<1> QED BY <1>2, <1>3, <1>4 DEF NoMore

(* dx_add_watchpoint puts the new structure behind Wphead, with no marks. *)
LEMMA AddFields ==
  ASSUME NEW y \in Worlds, NEW w \in Wp, w \notin y.live, NEW p \in Place
  PROVE  LET z == dx_add_watchpoint(y, w, p)
         IN  /\ z \in Worlds /\ NoMore(y, z)
             /\ z.live = y.live \union {w}
             /\ z.next = [y.next EXCEPT ![w] = y.next[Wphead], ![Wphead] = w]
             /\ z.prev = [y.prev EXCEPT ![w] = Wphead, ![y.next[Wphead]] = w]
<1> DEFINE nx == [y.next EXCEPT ![w] = y.next[Wphead], ![Wphead] = w]
           pv == [y.prev EXCEPT ![w] = Wphead, ![y.next[Wphead]] = w]
           pl == [y.place EXCEPT ![w] = p]
           en == [y.enabled EXCEPT ![w] = TRUE]
           in == [y.installed EXCEPT ![w] = FALSE]
           ac == [y.activated EXCEPT ![w] = FALSE]
           z == [y EXCEPT !.live = y.live \union {w}, !.next = nx, !.prev = pv,
                          !.place = pl, !.enabled = en, !.installed = in, !.activated = ac]
<1>1. z = dx_add_watchpoint(y, w, p)
  BY DEF dx_add_watchpoint, Worlds
<1>2. /\ y.live \subseteq Wp /\ y.next \in [Cell -> Cell] /\ y.prev \in [Cell -> Cell]
      /\ y.place \in [Wp -> Place] /\ y.enabled \in [Wp -> BOOLEAN]
      /\ y.installed \in [Wp -> BOOLEAN] /\ y.activated \in [Wp -> BOOLEAN]
  BY WorldTypes
<1>3. w \in Cell /\ Wphead \in Cell
  BY DEF Cell
<1>4. nx \in [Cell -> Cell] /\ pv \in [Cell -> Cell] /\ pl \in [Wp -> Place]
  BY <1>2, <1>3
<1>5. en \in [Wp -> BOOLEAN] /\ in \in [Wp -> BOOLEAN] /\ ac \in [Wp -> BOOLEAN]
  BY <1>2, Zenon
<1>6. \A u \in y.live : pl[u] = y.place[u] /\ in[u] = y.installed[u] /\ ac[u] = y.activated[u]
  BY <1>2
<1>7. ~in[w] /\ ~ac[w]
  BY <1>2
<1> HIDE DEF nx, pv, pl, en, in, ac
<1>8. /\ z \in Worlds /\ z.live = y.live \union {w} /\ z.next = nx /\ z.prev = pv
      /\ z.place = pl /\ z.installed = in /\ z.activated = ac /\ z.reg = y.reg /\ z.prot = y.prot
  BY <1>2, <1>4, <1>5 DEF Worlds
<1> HIDE DEF z
<1>9. NoMore(y, z)
  BY <1>6, <1>7, <1>8 DEF NoMore
<1> QED BY <1>1, <1>8, <1>9 DEF nx, pv

(* dx_remove_watchpoint takes out whatever wp_prev leads to, and points the*)
(* next structure at itself.                                               *)
LEMMA RemoveFields ==
  ASSUME NEW y \in Worlds, NEW w \in Wp
  PROVE  LET z == dx_remove_watchpoint(y, w)
         IN  /\ z \in Worlds /\ NoMore(y, z)
             /\ z.live = y.live \ {w}
             /\ z.next = [[y.next EXCEPT ![y.prev[w]] = y.next[w]] EXCEPT ![w] = Wphead]
             /\ z.prev = [[y.prev EXCEPT ![y.next[w]] = y.next[w]] EXCEPT ![w] = Wphead]
<1> DEFINE nx == [[y.next EXCEPT ![y.prev[w]] = y.next[w]] EXCEPT ![w] = Wphead]
           pv == [[y.prev EXCEPT ![y.next[w]] = y.next[w]] EXCEPT ![w] = Wphead]
           pl == [y.place EXCEPT ![w] = NoPlace]
           en == [y.enabled EXCEPT ![w] = FALSE]
           vl == [y.val EXCEPT ![w] = NoVal]
           in == [y.installed EXCEPT ![w] = FALSE]
           ac == [y.activated EXCEPT ![w] = FALSE]
           z == [y EXCEPT !.live = y.live \ {w}, !.next = nx, !.prev = pv,
                          !.place = pl, !.enabled = en, !.val = vl, !.installed = in, !.activated = ac]
<1>1. z = dx_remove_watchpoint(y, w)
  BY DEF dx_remove_watchpoint, Worlds
<1>2. /\ y.live \subseteq Wp /\ y.next \in [Cell -> Cell] /\ y.prev \in [Cell -> Cell]
      /\ y.place \in [Wp -> Place] /\ y.enabled \in [Wp -> BOOLEAN] /\ y.val \in [Wp -> Val]
      /\ y.installed \in [Wp -> BOOLEAN] /\ y.activated \in [Wp -> BOOLEAN]
  BY WorldTypes
<1>3. w \in Cell /\ Wphead \in Cell /\ NoPlace \in Place /\ NoVal \in Val
  BY WatchAssumption DEF Cell, NoPlace, NoVal
<1>4. nx \in [Cell -> Cell] /\ pv \in [Cell -> Cell] /\ pl \in [Wp -> Place] /\ vl \in [Wp -> Val]
  BY <1>2, <1>3
<1>5. en \in [Wp -> BOOLEAN] /\ in \in [Wp -> BOOLEAN] /\ ac \in [Wp -> BOOLEAN]
  BY <1>2, Zenon
<1>6. \A u \in y.live \ {w} : pl[u] = y.place[u] /\ in[u] = y.installed[u] /\ ac[u] = y.activated[u]
  BY <1>2
<1> HIDE DEF nx, pv, pl, en, vl, in, ac
<1>7. /\ z \in Worlds /\ z.live = y.live \ {w} /\ z.next = nx /\ z.prev = pv
      /\ z.place = pl /\ z.installed = in /\ z.activated = ac /\ z.reg = y.reg /\ z.prot = y.prot
  BY <1>2, <1>4, <1>5 DEF Worlds
<1> HIDE DEF z
<1>8. NoMore(y, z)
  BY <1>6, <1>7 DEF NoMore
<1> QED BY <1>1, <1>7, <1>8 DEF nx, pv

(* What Links says, index by index: n entries, and Wphead after them. *)
Ordered(y, s, n) ==
  /\ \A i \in 1 .. n : s[i] \in y.live
  /\ \A i, j \in 1 .. n : s[i] = s[j] => i = j
  /\ \A i \in 1 .. n : y.next[Prior(s, i)] = s[i]
  /\ y.next[Prior(s, n + 1)] = Wphead
  /\ \A w \in y.live : \E i \in 1 .. n : s[i] = w

(* Links, with the length as a number of its own. *)
LEMMA LinksOrdered ==
  ASSUME NEW y \in Worlds, NEW s
  PROVE  Links(y, s) <=> s \in Seq(y.live) /\ Ordered(y, s, Len(s))
<1>1. Wphead \notin y.live
  BY WorldTypes, WatchAssumption
<1>2. ASSUME s \in Seq(y.live) PROVE End(s) = Prior(s, Len(s) + 1)
  <2>1. Len(s) \in Nat /\ (s = <<>> <=> Len(s) = 0)
    BY <1>2
  <2>2. Len(s) + 1 - 1 = Len(s) /\ (Len(s) + 1 = 1 <=> Len(s) = 0)
    BY <2>1
  <2> QED BY <2>1, <2>2 DEF End, Prior, Last
<1>3. ASSUME Links(y, s) PROVE s \in Seq(y.live) /\ Ordered(y, s, Len(s))
  <2>1. s \in Seq(y.live)
    BY <1>3 DEF Links, Chain
  <2>2. Len(s) \in Nat /\ \A i \in 1 .. Len(s) : s[i] \in y.live
    BY <2>1
  <2>3. \A i \in 1 .. Len(s) : y.next[Prior(s, i)] = s[i]
    BY <1>3 DEF Links, Chain, Prior
  <2>4. y.next[Prior(s, Len(s) + 1)] = Wphead
    BY <1>2, <1>3, <2>1 DEF Links
  <2> QED BY <1>3, <2>1, <2>2, <2>3, <2>4 DEF Links, Chain, Ordered
<1>4. ASSUME s \in Seq(y.live), Ordered(y, s, Len(s)) PROVE Links(y, s)
  <2>1. y.next[End(s)] = Wphead
    BY <1>2, <1>4 DEF Ordered
  <2>2. \A i \in 1 .. Len(s) : y.next[IF i = 1 THEN Wphead ELSE s[i - 1]] = s[i]
    BY <1>4 DEF Ordered, Prior
  <2> QED BY <1>1, <1>4, <2>1, <2>2 DEF Links, Chain, Ordered
<1> QED BY <1>3, <1>4

(* The entries before two entries differ. *)
LEMMA Priors ==
  ASSUME NEW y \in Worlds, NEW s, NEW n \in Nat, Ordered(y, s, n)
  PROVE  /\ \A i \in 1 .. n : s[i] \in Wp /\ s[i] \in Cell /\ s[i] # Wphead
         /\ \A i, j \in 1 .. n + 1 : Prior(s, i) = Prior(s, j) => i = j
         /\ \A i \in 1 .. n + 1 : Prior(s, i) \in Cell
         /\ \A i \in 1 .. n : Prior(s, i + 1) = s[i]
<1>1. \A i \in 1 .. n : s[i] \in Wp /\ s[i] \in Cell /\ s[i] # Wphead
  BY WorldTypes, WatchAssumption DEF Ordered, Cell
<1>2. \A i, j \in 1 .. n : s[i] = s[j] => i = j
  BY DEF Ordered
<1>3. \A i \in 1 .. n + 1 : i # 1 => i - 1 \in 1 .. n
  OBVIOUS
<1>4. ASSUME NEW i \in 1 .. n + 1, NEW j \in 1 .. n + 1, Prior(s, i) = Prior(s, j) PROVE i = j
  <2>1. CASE i = 1
    BY <1>1, <1>3, <1>4, <2>1 DEF Prior
  <2>2. CASE j = 1
    BY <1>1, <1>3, <1>4, <2>2 DEF Prior
  <2>3. CASE i # 1 /\ j # 1
    <3>1. i - 1 \in 1 .. n /\ j - 1 \in 1 .. n /\ s[i - 1] = s[j - 1]
      BY <1>3, <1>4, <2>3 DEF Prior
    <3>2. i - 1 = j - 1
      BY <1>2, <3>1
    <3> QED BY <3>2
  <2> QED BY <2>1, <2>2, <2>3
<1>5. \A i \in 1 .. n + 1 : Prior(s, i) \in Cell
  BY <1>1, <1>3 DEF Prior, Cell
<1>6. ASSUME NEW i \in 1 .. n PROVE Prior(s, i + 1) = s[i]
  <2>1. i + 1 # 1 /\ i + 1 - 1 = i
    OBVIOUS
  <2> QED BY <2>1 DEF Prior
<1> QED BY <1>1, <1>4, <1>5, <1>6

(* A watchpoint added at the head of the list. *)
LEMMA AddOrdered ==
  ASSUME NEW y \in Worlds, NEW s, NEW n \in Nat, Ordered(y, s, n),
         NEW w \in Wp, w \notin y.live, NEW p \in Place,
         NEW t, t[1] = w, \A i \in 1 .. n : t[i + 1] = s[i]
  PROVE  LET z == dx_add_watchpoint(y, w, p)
         IN  /\ Ordered(z, t, n + 1)
             /\ \A i \in 1 .. n + 1 :
                  \/ z.prev[t[i]] = Prior(t, i)
                  \/ \E j \in 1 .. n : /\ i = j + 1 /\ t[i] = s[j]
                                       /\ z.prev[t[i]] = y.prev[s[j]] /\ Prior(t, i) = Prior(s, j)
<1> DEFINE z == dx_add_watchpoint(y, w, p)
<1>1. /\ z.live = y.live \union {w}
      /\ z.next = [y.next EXCEPT ![w] = y.next[Wphead], ![Wphead] = w]
      /\ z.prev = [y.prev EXCEPT ![w] = Wphead, ![y.next[Wphead]] = w]
  BY AddFields
<1> HIDE DEF z
<1>2. y.next \in [Cell -> Cell] /\ y.prev \in [Cell -> Cell] /\ w \in Cell /\ Wphead \in Cell /\ w # Wphead
  BY WorldTypes, WatchAssumption DEF Cell
<1>3. /\ \A i \in 1 .. n : s[i] \in Cell /\ s[i] # Wphead
      /\ \A i, j \in 1 .. n + 1 : Prior(s, i) = Prior(s, j) => i = j
      /\ \A i \in 1 .. n : Prior(s, i + 1) = s[i]
  BY Priors
<1>4. /\ \A i \in 1 .. n : s[i] \in y.live /\ s[i] # w
      /\ \A i, j \in 1 .. n : s[i] = s[j] => i = j
      /\ \A i \in 1 .. n : y.next[Prior(s, i)] = s[i]
      /\ y.next[Prior(s, n + 1)] = Wphead
      /\ \A v \in y.live : \E i \in 1 .. n : s[i] = v
  BY DEF Ordered
<1>5. \A i \in 1 .. n + 1 : i = 1 \/ \E j \in 1 .. n : i = j + 1
  <2>1. \A i \in 1 .. n + 1 : i # 1 => i - 1 \in 1 .. n /\ i = (i - 1) + 1
    OBVIOUS
  <2> QED BY <2>1
<1>6. /\ z.next[Wphead] = w /\ z.next[w] = y.next[Wphead]
      /\ \A i \in 1 .. n : z.next[s[i]] = y.next[s[i]]
  BY <1>1, <1>2, <1>3, <1>4
<1>7. Prior(t, 1) = Wphead /\ Prior(s, 1) = Wphead
  BY DEF Prior
<1>8. \A i \in Nat : i # 0 => Prior(t, i + 1) = t[i]
  <2>1. \A i \in Nat : i + 1 - 1 = i /\ (i # 0 => i + 1 # 1)
    OBVIOUS
  <2> QED BY <2>1 DEF Prior
<1>9. \A i \in 1 .. n + 1 : t[i] \in z.live
  <2>1. \A j \in 1 .. n : t[j + 1] \in z.live
    BY <1>1, <1>4
  <2> QED BY <1>1, <1>5, <2>1
<1>10. ASSUME NEW i \in 1 .. n + 1, NEW j \in 1 .. n + 1, t[i] = t[j] PROVE i = j
  <2>1. \A k \in 1 .. n : t[k + 1] = s[k] /\ s[k] # w
    BY <1>4
  <2>2. CASE i = 1
    BY <1>5, <1>10, <2>1, <2>2
  <2>3. CASE j = 1
    BY <1>5, <1>10, <2>1, <2>3
  <2>4. CASE i # 1 /\ j # 1
    <3>1. PICK k \in 1 .. n : i = k + 1
      BY <1>5, <2>4
    <3>2. PICK l \in 1 .. n : j = l + 1
      BY <1>5, <2>4
    <3>3. s[k] = s[l]
      BY <1>10, <2>1, <3>1, <3>2
    <3>4. k = l
      BY <1>4, <3>3
    <3> QED BY <3>1, <3>2, <3>4
  <2> QED BY <2>2, <2>3, <2>4
<1>11. \A i \in 1 .. n + 1 : z.next[Prior(t, i)] = t[i]
  <2>1. ASSUME NEW j \in 1 .. n PROVE z.next[Prior(t, j + 1)] = s[j]
    <3>1. j \in Nat /\ j # 0 /\ j \in 1 .. n + 1
      OBVIOUS
    <3>2. Prior(t, j + 1) = t[j]
      BY <1>8, <3>1
    <3>3. CASE j = 1
      <4>1. z.next[t[j]] = y.next[Prior(s, j)]
        BY <1>6, <1>7, <3>3
      <4> QED BY <1>4, <3>2, <4>1
    <3>4. CASE j # 1
      <4>1. PICK k \in 1 .. n : j = k + 1
        BY <1>5, <3>1, <3>4
      <4>2. t[j] = s[k] /\ Prior(s, j) = s[k]
        BY <1>3, <4>1
      <4>3. z.next[t[j]] = y.next[Prior(s, j)]
        BY <1>6, <4>2
      <4> QED BY <1>4, <3>2, <4>3
    <3> QED BY <3>3, <3>4
  <2> QED BY <1>5, <1>6, <1>7, <2>1
<1>12. z.next[Prior(t, n + 1 + 1)] = Wphead
  <2>1. Prior(t, n + 1 + 1) = t[n + 1]
    BY <1>8
  <2>2. CASE n = 0
    <3>1. t[n + 1] = w /\ Prior(s, n + 1) = Wphead
      BY <1>7, <2>2
    <3> QED BY <1>4, <1>6, <2>1, <3>1
  <2>3. CASE n # 0
    <3>1. n \in 1 .. n
      BY <2>3
    <3>2. t[n + 1] = s[n] /\ Prior(s, n + 1) = s[n]
      BY <1>3, <3>1
    <3> QED BY <1>4, <1>6, <2>1, <3>1, <3>2
  <2> QED BY <2>2, <2>3
<1>13. \A v \in z.live : \E i \in 1 .. n + 1 : t[i] = v
  <2>1. 1 \in 1 .. n + 1 /\ \A i \in 1 .. n : i + 1 \in 1 .. n + 1
    OBVIOUS
  <2>2. ASSUME NEW v \in y.live PROVE \E i \in 1 .. n + 1 : t[i] = v
    <3>1. PICK i \in 1 .. n : s[i] = v
      BY <1>4
    <3>2. t[i + 1] = v /\ i + 1 \in 1 .. n + 1
      BY <2>1, <3>1
    <3> QED BY <3>2
  <2> QED BY <1>1, <2>1, <2>2
<1>14. Ordered(z, t, n + 1)
  BY <1>9, <1>10, <1>11, <1>12, <1>13 DEF Ordered
<1>15. ASSUME NEW i \in 1 .. n + 1
       PROVE  \/ z.prev[t[i]] = Prior(t, i)
              \/ \E j \in 1 .. n : /\ i = j + 1 /\ t[i] = s[j]
                                   /\ z.prev[t[i]] = y.prev[s[j]] /\ Prior(t, i) = Prior(s, j)
  <2>1. y.next[Wphead] \in Cell /\ \A j \in 1 .. n : j # 1 => s[j] # y.next[Wphead]
    <3>1. 1 \in 1 .. n => y.next[Wphead] = s[1]
      BY <1>4, <1>7
    <3>2. \A j \in 1 .. n : 1 \in 1 .. n
      OBVIOUS
    <3> QED BY <1>2, <1>4, <3>1, <3>2
  <2>2. w # y.next[Wphead]
    <3>1. CASE n = 0
      <4>1. Prior(s, n + 1) = Wphead
        BY <1>7, <3>1
      <4> QED BY <1>2, <1>4, <4>1
    <3>2. CASE n # 0
      <4>1. 1 \in 1 .. n
        BY <3>2
      <4> QED BY <1>4, <1>7, <4>1
    <3> QED BY <3>1, <3>2
  <2>3. CASE i = 1
    BY <1>1, <1>2, <1>7, <2>1, <2>2, <2>3
  <2>4. ASSUME NEW j \in 1 .. n, i = j + 1
        PROVE  \/ z.prev[t[i]] = Prior(t, i)
               \/ /\ t[i] = s[j] /\ z.prev[t[i]] = y.prev[s[j]] /\ Prior(t, i) = Prior(s, j)
    <3>1. t[i] = s[j] /\ j \in Nat /\ j # 0 /\ j \in 1 .. n + 1
      BY <2>4
    <3>2. Prior(t, i) = t[j]
      BY <1>8, <2>4, <3>1
    <3>3. CASE j = 1
      <4>1. y.next[Wphead] = s[j]
        BY <1>4, <1>7, <3>3
      <4>2. z.prev[s[j]] = w
        BY <1>1, <1>2, <1>3, <4>1
      <4> QED BY <3>1, <3>2, <3>3, <4>2
    <3>4. CASE j # 1
      <4>1. PICK k \in 1 .. n : j = k + 1
        BY <1>5, <3>1, <3>4
      <4>2. t[j] = s[k] /\ Prior(s, j) = s[k]
        BY <1>3, <4>1
      <4>3. z.prev[s[j]] = y.prev[s[j]]
        BY <1>1, <1>2, <1>3, <1>4, <2>1, <3>4
      <4> QED BY <3>1, <3>2, <4>2, <4>3
    <3> QED BY <3>3, <3>4
  <2> QED BY <1>5, <2>3, <2>4
<1> QED BY <1>14, <1>15 DEF z

(* A list in order is so with a watchpoint more, and its wp_prev leads     *)
(* where it did.                                                           *)
LEMMA AddLinks ==
  ASSUME NEW y \in Worlds, NEW s, Links(y, s), Back(y, s),
         NEW w \in Wp, w \notin y.live, NEW p \in Place
  PROVE  LET z == dx_add_watchpoint(y, w, p)
         IN  \E t : Links(z, t) /\ Back(z, t) /\ (BackExact(y, s) => BackExact(z, t))
<1> DEFINE z == dx_add_watchpoint(y, w, p)
           n == Len(s)
           t == [i \in 1 .. n + 1 |-> IF i = 1 THEN w ELSE s[i - 1]]
<1>1. s \in Seq(y.live) /\ Ordered(y, s, n)
  BY LinksOrdered
<1>2. n \in Nat
  BY <1>1
<1>3. z \in Worlds
  BY AddFields
<1>4. /\ \A i \in 1 .. n : y.prev[s[i]] \in {s[i], Prior(s, i)}
      /\ BackExact(y, s) => \A i \in 1 .. n : y.prev[s[i]] = Prior(s, i)
  BY DEF Back, BackExact
<1> HIDE DEF n
<1>5. t[1] = w /\ \A i \in 1 .. n : t[i + 1] = s[i]
  <2>1. 1 \in 1 .. n + 1 /\ \A i \in 1 .. n : i + 1 \in 1 .. n + 1 /\ i + 1 # 1 /\ i + 1 - 1 = i
    BY <1>2
  <2> QED BY <2>1
<1> HIDE DEF t
<1>6. /\ Ordered(z, t, n + 1)
      /\ \A i \in 1 .. n + 1 :
           \/ z.prev[t[i]] = Prior(t, i)
           \/ \E j \in 1 .. n : /\ i = j + 1 /\ t[i] = s[j]
                                /\ z.prev[t[i]] = y.prev[s[j]] /\ Prior(t, i) = Prior(s, j)
  BY <1>1, <1>2, <1>5, AddOrdered
<1> HIDE DEF z
<1>7. t \in Seq(z.live) /\ Len(t) = n + 1
  <2>1. n + 1 \in Nat /\ DOMAIN t = 1 .. n + 1 /\ t = [i \in 1 .. n + 1 |-> t[i]]
    BY <1>2 DEF t
  <2>2. \A i \in 1 .. n + 1 : t[i] \in z.live
    BY <1>6 DEF Ordered
  <2>3. t \in [1 .. n + 1 -> z.live]
    BY <2>1, <2>2
  <2> QED BY <2>1, <2>3
<1>8. Links(z, t)
  BY <1>3, <1>6, <1>7, LinksOrdered
<1>9. \A i \in 1 .. n + 1 : z.prev[t[i]] \in {t[i], Prior(t, i)}
  BY <1>4, <1>6
<1>10. BackExact(y, s) => \A i \in 1 .. n + 1 : z.prev[t[i]] = Prior(t, i)
  BY <1>4, <1>6
<1>11. Back(z, t) /\ (BackExact(y, s) => BackExact(z, t))
  BY <1>7, <1>9, <1>10 DEF Back, BackExact
<1> QED BY <1>8, <1>11 DEF z

(* wp_prev of the entry after the removed one leads to itself, that of the *)
(* others where it did.                                                    *)
PrevAfter(y, s, n, k, z, t) ==
  \A i \in 1 .. n :
    IF i = k THEN z.prev[t[i]] = t[i]
    ELSE \E j \in 1 .. n + 1 : /\ t[i] = s[j] /\ z.prev[t[i]] = y.prev[s[j]]
                               /\ Prior(t, i) = Prior(s, j)

(* A watchpoint whose wp_prev leads to the entry before it is removed. *)
LEMMA RemoveOrdered ==
  ASSUME NEW y \in Worlds, NEW s, NEW n \in Nat, Ordered(y, s, n + 1),
         NEW k \in 1 .. n + 1, y.prev[s[k]] = Prior(s, k),
         NEW z, z = dx_remove_watchpoint(y, s[k]),
         NEW t, \A i \in 1 .. n : t[i] = IF i < k THEN s[i] ELSE s[i + 1]
  PROVE  Ordered(z, t, n) /\ PrevAfter(y, s, n, k, z, t)
<1> DEFINE w == s[k]
<1>1. /\ \A i \in 1 .. n + 1 : s[i] \in Wp /\ s[i] \in Cell /\ s[i] # Wphead
      /\ \A i, j \in 1 .. n + 1 + 1 : Prior(s, i) = Prior(s, j) => i = j
      /\ \A i \in 1 .. n + 1 + 1 : Prior(s, i) \in Cell
      /\ \A i \in 1 .. n + 1 : Prior(s, i + 1) = s[i]
  BY Priors
<1>2. /\ z.live = y.live \ {w}
      /\ z.next = [[y.next EXCEPT ![y.prev[w]] = y.next[w]] EXCEPT ![w] = Wphead]
      /\ z.prev = [[y.prev EXCEPT ![y.next[w]] = y.next[w]] EXCEPT ![w] = Wphead]
  BY <1>1, RemoveFields
<1>3. y.next \in [Cell -> Cell] /\ y.prev \in [Cell -> Cell] /\ w \in Cell /\ Wphead \in Cell
  BY <1>1, WorldTypes DEF Cell
<1>4. /\ \A i \in 1 .. n + 1 : s[i] \in y.live
      /\ \A i, j \in 1 .. n + 1 : s[i] = s[j] => i = j
      /\ \A i \in 1 .. n + 1 : y.next[Prior(s, i)] = s[i]
      /\ y.next[Prior(s, n + 1 + 1)] = Wphead
      /\ \A v \in y.live : \E i \in 1 .. n + 1 : s[i] = v
  BY DEF Ordered
<1>5. k \in 1 .. n + 1 + 1 /\ k + 1 \in 1 .. n + 1 + 1 /\ w = Prior(s, k + 1) /\ y.prev[w] = Prior(s, k)
  BY <1>1
<1>6. /\ z.next[Prior(s, k)] = y.next[w]
      /\ \A i \in 1 .. n + 1 + 1 : i # k /\ i # k + 1 => z.next[Prior(s, i)] = y.next[Prior(s, i)]
  <2>1. k # k + 1
    OBVIOUS
  <2>2. Prior(s, k) # w
    BY <1>1, <1>5, <2>1
  <2>3. \A i \in 1 .. n + 1 + 1 : i # k /\ i # k + 1 => Prior(s, i) # w /\ Prior(s, i) # Prior(s, k)
    BY <1>1, <1>5
  <2> HIDE DEF w
  <2> QED BY <1>1, <1>2, <1>3, <1>5, <2>2, <2>3
<1>7. y.next[w] = IF k = n + 1 THEN Wphead ELSE s[k + 1]
  <2>1. CASE k = n + 1
    BY <1>4, <1>5, <2>1
  <2>2. CASE k # n + 1
    <3>1. k + 1 \in 1 .. n + 1
      BY <2>2
    <3> QED BY <1>4, <1>5, <2>2, <3>1
  <2> QED BY <2>1, <2>2
<1>8. \A i \in 1 .. n : /\ i \in 1 .. n + 1 /\ i + 1 \in 1 .. n + 1
                        /\ i < k => t[i] = s[i]
                        /\ ~(i < k) => t[i] = s[i + 1]
  OBVIOUS
<1>9. ASSUME NEW i \in 1 .. n + 1
      PROVE  Prior(t, i) = IF i <= k THEN Prior(s, i) ELSE Prior(s, i + 1)
  <2>1. CASE i = 1
    BY <2>1 DEF Prior
  <2>2. CASE i # 1
    <3>1. i - 1 \in 1 .. n /\ (i - 1 < k <=> i <= k) /\ i - 1 + 1 = i /\ i + 1 - 1 = i /\ i + 1 # 1
      BY <2>2
    <3>2. t[i - 1] = IF i <= k THEN s[i - 1] ELSE s[i]
      BY <1>8, <3>1
    <3> QED BY <2>2, <3>1, <3>2 DEF Prior
  <2> QED BY <2>1, <2>2
<1>10. \A i \in 1 .. n : t[i] \in z.live
  <2>1. ASSUME NEW i \in 1 .. n PROVE \E j \in 1 .. n + 1 : j # k /\ t[i] = s[j]
    <3>1. CASE i < k
      BY <1>8, <3>1
    <3>2. CASE ~(i < k)
      <4>1. i + 1 # k
        BY <3>2
      <4> QED BY <1>8, <3>2, <4>1
    <3> QED BY <3>1, <3>2
  <2> QED BY <1>2, <1>4, <2>1
<1>11. ASSUME NEW i \in 1 .. n, NEW j \in 1 .. n, t[i] = t[j] PROVE i = j
  <2>1. CASE i < k /\ j < k
    BY <1>4, <1>8, <1>11, <2>1
  <2>2. CASE i < k /\ ~(j < k)
    <3>1. i = j + 1
      BY <1>4, <1>8, <1>11, <2>2
    <3> QED BY <2>2, <3>1
  <2>3. CASE ~(i < k) /\ j < k
    <3>1. j = i + 1
      BY <1>4, <1>8, <1>11, <2>3
    <3> QED BY <2>3, <3>1
  <2>4. CASE ~(i < k) /\ ~(j < k)
    <3>1. i + 1 = j + 1
      BY <1>4, <1>8, <1>11, <2>4
    <3> QED BY <3>1
  <2> QED BY <2>1, <2>2, <2>3, <2>4
<1>12. ASSUME NEW i \in 1 .. n + 1
       PROVE  z.next[Prior(t, i)] = IF i = n + 1 THEN Wphead ELSE t[i]
  <2>1. CASE i < k
    <3>1. i \in 1 .. n /\ i \in 1 .. n + 1 + 1 /\ i # k /\ i # k + 1 /\ i <= k /\ i # n + 1
      BY <2>1
    <3>2. z.next[Prior(t, i)] = y.next[Prior(s, i)]
      BY <1>6, <1>9, <3>1
    <3> QED BY <1>4, <1>8, <2>1, <3>1, <3>2
  <2>2. CASE i = k
    <3>1. z.next[Prior(t, i)] = y.next[w]
      BY <1>6, <1>9, <2>2
    <3>2. i # n + 1 => i \in 1 .. n /\ ~(i < k)
      BY <2>2
    <3> QED BY <1>7, <1>8, <2>2, <3>1, <3>2
  <2>3. CASE k < i
    <3>1. ~(i <= k) /\ i + 1 \in 1 .. n + 1 + 1 /\ i + 1 # k /\ i + 1 # k + 1
      BY <2>3
    <3>2. z.next[Prior(t, i)] = y.next[Prior(s, i + 1)]
      BY <1>6, <1>9, <3>1
    <3>3. i # n + 1 => i \in 1 .. n /\ i + 1 \in 1 .. n + 1 /\ ~(i < k)
      BY <2>3
    <3> QED BY <1>4, <1>8, <3>2, <3>3
  <2> QED BY <2>1, <2>2, <2>3
<1>13. /\ \A i \in 1 .. n : z.next[Prior(t, i)] = t[i]
       /\ z.next[Prior(t, n + 1)] = Wphead
  <2>1. n + 1 \in 1 .. n + 1 /\ \A i \in 1 .. n : i \in 1 .. n + 1 /\ i # n + 1
    OBVIOUS
  <2> QED BY <1>12, <2>1
<1>14. ASSUME NEW v \in z.live PROVE \E i \in 1 .. n : t[i] = v
  <2>1. PICK j \in 1 .. n + 1 : s[j] = v /\ j # k
    BY <1>2, <1>4
  <2>2. CASE j < k
    <3>1. j \in 1 .. n
      BY <2>2
    <3> QED BY <1>8, <2>1, <2>2, <3>1
  <2>3. CASE ~(j < k)
    <3>1. j - 1 \in 1 .. n /\ ~(j - 1 < k) /\ j - 1 + 1 = j
      BY <2>1, <2>3
    <3>2. t[j - 1] = s[j]
      BY <1>8, <3>1
    <3> QED BY <2>1, <3>1, <3>2
  <2> QED BY <2>2, <2>3
<1>15. Ordered(z, t, n)
  BY <1>10, <1>11, <1>13, <1>14 DEF Ordered
<1>16. ASSUME NEW i \in 1 .. n
       PROVE  IF i = k THEN z.prev[t[i]] = t[i]
              ELSE \E j \in 1 .. n + 1 : /\ t[i] = s[j] /\ z.prev[t[i]] = y.prev[s[j]]
                                         /\ Prior(t, i) = Prior(s, j)
  <2>1. ASSUME NEW j \in 1 .. n + 1, j # k, j # k + 1 PROVE z.prev[s[j]] = y.prev[s[j]]
    <3>1. s[j] # w /\ s[j] # Wphead /\ s[j] \in Cell
      BY <1>1, <1>4, <2>1
    <3>2. s[j] # y.next[w]
      <4>1. CASE k = n + 1
        BY <1>7, <3>1, <4>1
      <4>2. CASE k # n + 1
        <5>1. k + 1 \in 1 .. n + 1
          BY <4>2
        <5> QED BY <1>4, <1>7, <2>1, <4>2, <5>1
      <4> QED BY <4>1, <4>2
    <3> HIDE DEF w
    <3> QED BY <1>2, <1>3, <3>1, <3>2
  <2>2. CASE i = k
    <3>1. k \in 1 .. n /\ k # n + 1 /\ ~(i < k) /\ k + 1 \in 1 .. n + 1 /\ k + 1 # k
      BY <2>2
    <3>2. y.next[w] = s[k + 1] /\ t[i] = s[k + 1] /\ s[k + 1] # w /\ s[k + 1] \in Cell
      BY <1>1, <1>4, <1>7, <1>8, <2>2, <3>1
    <3> HIDE DEF w
    <3>3. z.prev[s[k + 1]] = s[k + 1]
      BY <1>2, <1>3, <3>2
    <3> QED BY <2>2, <3>2, <3>3
  <2>3. CASE i < k
    <3>1. i \in 1 .. n + 1 /\ i # k /\ i # k + 1 /\ i <= k
      BY <2>3
    <3>2. t[i] = s[i] /\ z.prev[s[i]] = y.prev[s[i]] /\ Prior(t, i) = Prior(s, i)
      BY <1>8, <1>9, <2>1, <2>3, <3>1
    <3> QED BY <3>1, <3>2
  <2>4. CASE k < i
    <3>1. i \in 1 .. n + 1 /\ i + 1 \in 1 .. n + 1 /\ i # k /\ i + 1 # k /\ i + 1 # k + 1 /\ ~(i <= k) /\ ~(i < k)
      BY <2>4
    <3>2. t[i] = s[i + 1] /\ z.prev[s[i + 1]] = y.prev[s[i + 1]] /\ Prior(t, i) = Prior(s, i + 1)
      BY <1>8, <1>9, <2>1, <3>1
    <3> QED BY <3>1, <3>2
  <2> QED BY <2>2, <2>3, <2>4
<1> QED BY <1>15, <1>16 DEF PrevAfter

(* One whose wp_prev leads to itself is removed: the list leads to what    *)
(* was freed.                                                              *)
LEMMA RemoveBreaks ==
  ASSUME NEW y \in Worlds, NEW s, Links(y, s), NEW k \in 1 .. Len(s), y.prev[s[k]] = s[k]
  PROVE  ~Walkable(dx_remove_watchpoint(y, s[k]))
<1> DEFINE n == Len(s)
           w == s[k]
           z == dx_remove_watchpoint(y, w)
           t == SubSeq(s, 1, k - 1)
<1>1. s \in Seq(y.live) /\ Ordered(y, s, n)
  BY LinksOrdered
<1>2. n \in Nat /\ k \in 1 .. n /\ k - 1 \in 0 .. n
  BY <1>1
<1>3. t \in Seq(y.live) /\ Len(t) = k - 1 /\ \A i \in 1 .. k - 1 : t[i] = s[i]
  BY <1>1, <1>2, FirstOf
<1> HIDE DEF n, t
<1>4. /\ \A i \in 1 .. n : s[i] \in Wp /\ s[i] \in Cell /\ s[i] # Wphead
      /\ \A i, j \in 1 .. n + 1 : Prior(s, i) = Prior(s, j) => i = j
      /\ \A i \in 1 .. n + 1 : Prior(s, i) \in Cell
      /\ \A i \in 1 .. n : Prior(s, i + 1) = s[i]
  BY <1>1, <1>2, Priors
<1>5. /\ \A i \in 1 .. n : s[i] \in y.live
      /\ \A i, j \in 1 .. n : s[i] = s[j] => i = j
      /\ \A i \in 1 .. n : y.next[Prior(s, i)] = s[i]
  BY <1>1 DEF Ordered
<1>6. /\ z.live = y.live \ {w} /\ z \in Worlds
      /\ z.next = [[y.next EXCEPT ![y.prev[w]] = y.next[w]] EXCEPT ![w] = Wphead]
  BY <1>2, <1>4, RemoveFields
<1> HIDE DEF z
<1>7. y.next \in [Cell -> Cell] /\ w \in Cell /\ w # Wphead /\ y.prev[w] = w
  BY <1>2, <1>4, WorldTypes
<1>8. ASSUME NEW i \in 1 .. k PROVE z.next[Prior(s, i)] = s[i]
  <2>1. i \in 1 .. n /\ i \in 1 .. n + 1 /\ k + 1 \in 1 .. n + 1 /\ i # k + 1
    BY <1>2
  <2>2. w = Prior(s, k + 1)
    BY <1>2, <1>4
  <2>3. Prior(s, i) # w /\ Prior(s, i) \in Cell /\ y.next[Prior(s, i)] = s[i]
    BY <1>4, <1>5, <2>1, <2>2
  <2> HIDE DEF w
  <2> QED BY <1>6, <1>7, <2>3
<1>9. ASSUME NEW i \in 1 .. k PROVE Prior(t, i) = Prior(s, i)
  <2>1. i # 1 => i - 1 \in 1 .. k - 1
    BY <1>2
  <2> QED BY <1>3, <2>1 DEF Prior
<1>10. End(t) = Prior(s, k)
  <2>1. t = <<>> <=> k = 1
    BY <1>2, <1>3
  <2>2. k # 1 => k - 1 \in 1 .. k - 1
    BY <1>2
  <2> QED BY <1>3, <2>1, <2>2 DEF End, Prior, Last
<1>11. k \in 1 .. k
  BY <1>2
<1>12. Chain(z, t)
  <2>1. \A i \in 1 .. k - 1 : i \in 1 .. n /\ i \in 1 .. k /\ i # k
    BY <1>2
  <2>2. \A i \in 1 .. Len(t) : t[i] \in z.live
    BY <1>2, <1>3, <1>5, <1>6, <2>1
  <2>3. t \in Seq(z.live)
    <3>1. t \in [1 .. Len(t) -> z.live] /\ Len(t) \in Nat
      BY <1>3, <2>2
    <3> QED BY <3>1
  <2>4. \A i, j \in 1 .. Len(t) : t[i] = t[j] => i = j
    BY <1>3, <1>5, <2>1
  <2>5. \A i \in 1 .. Len(t) : z.next[Prior(t, i)] = t[i]
    BY <1>3, <1>8, <1>9, <2>1
  <2>6. z.next[End(t)] \notin z.live
    BY <1>6, <1>8, <1>10, <1>11
  <2> QED BY <2>3, <2>4, <2>5, <2>6 DEF Chain, Prior
<1>13. List(z) = t
  BY <1>6, <1>12, WorldTypes, ListIs
<1>14. z.next[End(t)] # Wphead
  BY <1>7, <1>8, <1>10, <1>11
<1> QED BY <1>13, <1>14 DEF Walkable, End, z

(* A list in order is so with a watchpoint less, unless its wp_prev led to *)
(* itself: then a loop meets the freed structure.                          *)
LEMMA RemoveLinks ==
  ASSUME NEW y \in Worlds, NEW s, Links(y, s), Back(y, s), NEW k \in 1 .. Len(s)
  PROVE  LET z == dx_remove_watchpoint(y, s[k])
         IN  \/ \E t : Links(z, t) /\ Back(z, t) /\ (BackExact(y, s) /\ k = Len(s) => BackExact(z, t))
             \/ ~Walkable(z) /\ ~BackExact(y, s)
<1> DEFINE n == Len(s) - 1
           z == dx_remove_watchpoint(y, s[k])
           t == [i \in 1 .. n |-> IF i < k THEN s[i] ELSE s[i + 1]]
<1>1. CASE y.prev[s[k]] # Prior(s, k)
  <2>1. y.prev[s[k]] = s[k]
    BY <1>1 DEF Back
  <2> QED BY <1>1, <2>1, RemoveBreaks DEF BackExact
<1>2. CASE y.prev[s[k]] = Prior(s, k)
  <2>1. s \in Seq(y.live) /\ Ordered(y, s, Len(s))
    BY LinksOrdered
  <2>2. n \in Nat /\ Len(s) = n + 1
    <3>1. Len(s) \in Nat
      BY <2>1
    <3> QED BY <3>1
  <2>3. Ordered(y, s, n + 1) /\ k \in 1 .. n + 1
    BY <2>1, <2>2
  <2>4. /\ \A i \in 1 .. n + 1 : y.prev[s[i]] \in {s[i], Prior(s, i)}
        /\ BackExact(y, s) => \A i \in 1 .. n + 1 : y.prev[s[i]] = Prior(s, i)
    BY <2>2 DEF Back, BackExact
  <2>5. z \in Worlds
    <3>1. s[k] \in Wp
      BY <2>2, <2>3, Priors
    <3> QED BY <3>1, RemoveFields
  <2> HIDE DEF n
  <2>6. \A i \in 1 .. n : t[i] = IF i < k THEN s[i] ELSE s[i + 1]
    OBVIOUS
  <2> HIDE DEF t
  <2>7. z = dx_remove_watchpoint(y, s[k])
    OBVIOUS
  <2> HIDE DEF z
  <2>8. Ordered(z, t, n) /\ PrevAfter(y, s, n, k, z, t)
    <3>1. n \in Nat
      BY <2>2
    <3> QED BY <1>2, <2>3, <2>6, <2>7, <3>1, RemoveOrdered
  <2>9. t \in Seq(z.live) /\ Len(t) = n
    <3>1. \A i \in 1 .. n : t[i] \in z.live
      BY <2>8 DEF Ordered
    <3>2. t \in [1 .. n -> z.live]
      BY <3>1 DEF t
    <3> QED BY <2>2, <3>2
  <2>10. Links(z, t)
    BY <2>5, <2>8, <2>9, LinksOrdered
  <2>11. \A i \in 1 .. n : z.prev[t[i]] \in {t[i], Prior(t, i)}
    BY <2>4, <2>8 DEF PrevAfter
  <2>12. ASSUME BackExact(y, s), k = n + 1 PROVE \A i \in 1 .. n : z.prev[t[i]] = Prior(t, i)
    <3>1. \A i \in 1 .. n : i # k
      BY <2>2, <2>12
    <3> QED BY <2>4, <2>8, <2>12, <3>1 DEF PrevAfter
  <2>13. Back(z, t) /\ (BackExact(y, s) /\ k = Len(s) => BackExact(z, t))
    BY <2>2, <2>9, <2>11, <2>12 DEF Back, BackExact
  <2> QED BY <2>10, <2>13 DEF z
<1> QED BY <1>1, <1>2

-----------------------------------------------------------------------------
(* The actions. *)

(* A list in order, seen as a part of the invariant. *)
LEMMA LinksOk ==
  ASSUME NEW y \in Worlds, NEW t, Links(y, t), Back(y, t), NEW u, u \/ BackExact(y, t)
  PROVE  ListOk(y, u)
BY LinksWalkable DEF ListOk

(* It stays so when the pointers are left alone. *)
LEMMA KeptOk ==
  ASSUME NEW y \in Worlds, NEW u, ListOk(y, u), NEW z \in Worlds, Kept(y, z)
  PROVE  ListOk(z, u) /\ Sound(z) /\ Walkable(z)
<1>1. Sound(y)
  BY DEF ListOk, Sound
<1>2. /\ Sound(z) /\ Walkable(z) /\ List(z) = List(y)
      /\ Back(y, List(y)) => Back(z, List(z))
      /\ BackExact(y, List(y)) => BackExact(z, List(z))
  BY <1>1, KeptSound
<1> QED BY <1>2 DEF ListOk, Sound

(* Between two runs and in one, the list can be walked. *)
LEMMA Walked ==
  ASSUME TypeOK, ListInv, Idle \/ InRun
  PROVE  x \in Worlds /\ ListOk(x, unordered) /\ Sound(x) /\ Listed(x) = x.live
<1>1. x \in Worlds
  BY DEF TypeOK
<1>2. ListOk(x, unordered)
  BY DEF ListInv, Idle, InRun
<1>3. Sound(x)
  BY <1>1, <1>2 DEF ListOk, Sound
<1> QED BY <1>1, <1>2, <1>3, ListedIs

(* When nothing has failed so far, nothing fails in this step. *)
LEMMA Failures ==
  ASSUME TypeOK, NEW S, NEW bad \in FewOf(S), NEW T, NEW badPages \in FewOf(T), Failing(bad, badPages)
  PROVE  /\ nfail' \in 0 .. MaxFail /\ stuck' \in BOOLEAN
         /\ nfail' = 0 => nfail = 0 /\ bad = {} /\ badPages = {}
         /\ ~stuck' => ~stuck /\ badPages = {}
<1>1. ASSUME NEW U, NEW b \in FewOf(U) PROVE Cardinality(b) \in Nat /\ (Cardinality(b) = 0 => b = {})
  <2>1. CASE b = {}
    BY <2>1, FS_EmptySet
  <2>2. CASE b # {}
    <3>1. PICK e \in U : b = {e}
      BY <1>1, <2>2 DEF FewOf
    <3>2. Cardinality(b) = 1
      BY <3>1, FS_Singleton
    <3> QED BY <3>2
  <2> QED BY <2>1, <2>2
<1>2. Cardinality(bad) \in Nat /\ (Cardinality(bad) = 0 => bad = {})
  BY <1>1
<1>3. Cardinality(badPages) \in Nat /\ (Cardinality(badPages) = 0 => badPages = {})
  BY <1>1
<1>4. nfail \in Nat /\ MaxFail \in Nat
  BY WatchAssumption DEF TypeOK
<1>5. stuck' = (stuck \/ badPages # {}) /\ nfail' <= MaxFail
      /\ nfail' = nfail + Cardinality(bad) + Cardinality(badPages)
  BY DEF Failing
<1>6. nfail' \in 0 .. MaxFail
  BY <1>2, <1>3, <1>4, <1>5
<1>7. nfail' = 0 => nfail = 0 /\ Cardinality(bad) = 0 /\ Cardinality(badPages) = 0
  BY <1>2, <1>3, <1>4, <1>5
<1>8. stuck' \in BOOLEAN /\ (~stuck' => ~stuck /\ badPages = {})
  BY <1>5
<1> QED BY <1>2, <1>3, <1>6, <1>7, <1>8

(* A new process has no register set and no page protected; the marks of   *)
(* the watchpoints stay.                                                   *)
LEMMA FreshFields ==
  ASSUME NEW y \in Worlds
  PROVE  LET z == FreshProcess(y)
         IN  /\ z \in Worlds /\ Kept(y, z) /\ Clear(z)
             /\ z.installed = y.installed /\ z.activated = y.activated
<1> DEFINE z == FreshProcess(y)
           rg == [r \in Reg |-> Nowhere]
           mm == [p \in Place |-> NoVal]
<1>1. NoVal \in Val
  BY WatchAssumption DEF NoVal
<1>2. rg \in [Reg -> Place \union {Nowhere}] /\ mm \in [Place -> Val] /\ {} \subseteq Page
      /\ \A r \in Reg : rg[r] = Nowhere
  BY <1>1
<1> HIDE DEF rg, mm
<1>3. z = [y EXCEPT !.reg = rg, !.prot = {}, !.mem = mm]
  BY DEF FreshProcess, rg, mm
<1>4. /\ z \in Worlds /\ z.reg = rg /\ z.prot = {} /\ Kept(y, z)
      /\ z.installed = y.installed /\ z.activated = y.activated
  BY <1>2, <1>3 DEF Worlds, Kept
<1> QED BY <1>2, <1>4 DEF Clear

(* A world in which no watchpoint counts as installed or activated. *)
LEMMA NoneSet ==
  ASSUME NEW y, \A w \in y.live : ~y.installed[w] /\ ~y.activated[w]
  PROVE  Served(y) /\ Protected(y) = {}
<1>1. Fitted(y) = {}
  BY DEF Fitted
<1>2. [w \in {} |-> 0] \in [Fitted(y) -> Reg]
  BY <1>1
<1>3. Served(y)
  BY <1>1, <1>2 DEF Served
<1> QED BY <1>3 DEF Protected

(* What is left when dx_run_target_ss returns. *)
LEMMA Returned ==
  ASSUME NEW y \in Worlds, NEW u, ListOk(y, u), Return(y)
  PROVE  /\ x' \in Worlds /\ ListOk(x', u) /\ Walkable(x')
         /\ ctl' = "idle" /\ cont_type' = "CONT" /\ check_wps' = FALSE /\ emulated' = FALSE
         /\ stopres' = stopres
         /\ Clear(y) => Clear(x')
         /\ Served(y) => Served(x')
         /\ Protected(x') = Protected(y) /\ x'.prot = y.prot
         /\ (\A w \in y.live : ~y.activated[w]) => \A w \in x'.live : ~x'.activated[w]
<1> DEFINE vl == [w \in Wp |-> NoVal]
<1>1. vl \in [Wp -> Val]
  BY WatchAssumption DEF NoVal
<1> HIDE DEF vl
<1>2. x' = [y EXCEPT !.val = vl]
  BY DEF Return, vl
<1>3. /\ x' \in Worlds /\ Kept(y, x') /\ x'.reg = y.reg /\ x'.prot = y.prot
      /\ x'.installed = y.installed /\ x'.activated = y.activated
  BY <1>1, <1>2 DEF Worlds, Kept
<1>4. ListOk(x', u) /\ Walkable(x')
  BY <1>3, KeptOk
<1>5. Served(y) => Served(x')
  BY <1>3, SameOwners
<1>6. Protected(x') = Protected(y)
  BY <1>3 DEF Protected, Kept
<1> QED BY <1>3, <1>4, <1>5, <1>6 DEF Return, Clear, Kept

(* However the run ends, the list is kept, and when nothing fails the      *)
(* process is left clean.                                                  *)
LEMMA Ended ==
  ASSUME NEW y \in Worlds, NEW u, ListOk(y, u), NEW badPages, EndRun(y, badPages)
  PROVE  /\ x' \in Worlds /\ ListOk(x', u) /\ Walkable(x')
         /\ ctl' = "idle" /\ cont_type' = "CONT" /\ check_wps' = FALSE /\ emulated' = FALSE
         /\ stopres' = stopres
         /\ badPages = {} /\ Owned(y) /\ y.prot \subseteq Protected(y) => Clear(x')
         /\ badPages = {} /\ Served(y) =>
              /\ Served(x') /\ Protected(x') \subseteq x'.prot
              /\ \A w \in x'.live : ~x'.activated[w]
<1> DEFINE z == uninstall_all_watchpoints(y, badPages)
<1>1. Sound(y)
  BY DEF ListOk, Sound
<1>2. z \in Worlds /\ Kept(y, z)
  BY <1>1, UninstallAllTypes
<1>3. ListOk(z, u)
  BY <1>2, KeptOk
<1>4. badPages = {} /\ Owned(y) /\ y.prot \subseteq Protected(y) => Clear(z)
  BY <1>1, UninstallAllClean
<1>5. badPages = {} /\ Served(y) =>
        Served(z) /\ Protected(z) = {} /\ \A w \in z.live : ~z.activated[w]
  BY <1>1, UninstallAllSeen
<1>6. Return(z)
  BY DEF EndRun
<1> HIDE DEF z
<1>7. /\ x' \in Worlds /\ ListOk(x', u) /\ Walkable(x')
      /\ ctl' = "idle" /\ cont_type' = "CONT" /\ check_wps' = FALSE /\ emulated' = FALSE
      /\ stopres' = stopres
      /\ Clear(z) => Clear(x')
      /\ Served(z) => Served(x')
      /\ Protected(x') = Protected(z) /\ x'.prot = z.prot
      /\ (\A w \in z.live : ~z.activated[w]) => \A w \in x'.live : ~x'.activated[w]
  BY <1>2, <1>3, <1>6, Returned
<1> QED BY <1>4, <1>5, <1>7

(* The user edits the list: the run of the target is over. *)
LEMMA Edited ==
  ASSUME IndInv, ctl = "idle", ctl' \in {"idle", "wild"}, x' \in Worlds, NoMore(x, x'),
         unordered' \in BOOLEAN,
         ListOk(x', unordered') \/ (unordered' /\ (ctl' = "idle" => ~Walkable(x'))),
         UNCHANGED <<alive, runVars, own, nproc, failVars>>
  PROVE  IndInv'
<1>1. TypeOK /\ ListInv /\ RunInv /\ CleanInv /\ SeenInv
  BY DEF IndInv
<1>2. /\ alive' = alive /\ stopres' = stopres /\ cont_type' = cont_type /\ check_wps' = check_wps
      /\ emulated' = emulated /\ own' = own /\ nproc' = nproc /\ stuck' = stuck /\ nfail' = nfail
  BY DEF runVars, failVars
<1>3. ~InRun /\ ~InRun'
  BY DEF InRun
<1>4. TypeOK'
  BY <1>1, <1>2 DEF TypeOK
<1>5. ListInv'
  BY <1>3 DEF ListInv
<1>6. RunInv'
  BY <1>1, <1>2, <1>3 DEF RunInv
<1>7. /\ Served(x) => Served(x')
      /\ Protected(x') \subseteq Protected(x) /\ x'.prot = x.prot
      /\ Clear(x) => Clear(x')
      /\ (\A w \in x.live : ~x.installed[w]) => \A w \in x'.live : ~x'.installed[w]
      /\ (\A w \in x.live : ~x.activated[w]) => \A w \in x'.live : ~x'.activated[w]
  BY NoMoreSet DEF NoMore
<1>8. CleanInv'
  BY <1>1, <1>2, <1>3, <1>7 DEF CleanInv
<1>9. SeenInv'
  <2>1. SUFFICES ASSUME nproc' <= 1, ~stuck'
                 PROVE  /\ nproc' = 0 => \A w \in x'.live : ~x'.installed[w] /\ ~x'.activated[w]
                        /\ alive' => Served(x') /\ Protected(x') \subseteq x'.prot
                        /\ alive' => \A w \in x'.live : ~x'.activated[w]
    BY <1>3 DEF SeenInv, InRun
  <2>2. /\ nproc = 0 => \A w \in x.live : ~x.installed[w] /\ ~x.activated[w]
        /\ alive => Served(x) /\ Protected(x) \subseteq x.prot
        /\ alive => \A w \in x.live : ~x.activated[w]
    BY <1>1, <1>2, <2>1 DEF SeenInv
  <2> QED BY <1>2, <1>7, <2>2
<1> QED BY <1>4, <1>5, <1>6, <1>8, <1>9 DEF IndInv

(* Other fields do not matter to NoMore. *)
LEMMA NoMoreSelf ==
  ASSUME NEW y, NEW z, z.live = y.live, z.place = y.place,
         z.reg = y.reg, z.prot = y.prot, z.installed = y.installed, z.activated = y.activated
  PROVE  NoMore(y, z)
BY DEF NoMore

(* Nor does it matter whether marks are taken away in one step or in two. *)
LEMMA NoMoreTwice ==
  ASSUME NEW a, NEW b, NEW c, NoMore(a, b), NoMore(b, c)
  PROVE  NoMore(a, c)
BY DEF NoMore

(* The entry removed, and whether it is the last one. *)
LEMMA Removal ==
  ASSUME TypeOK, ListOk(x, unordered), NEW w \in x.live
  PROVE  LET z == dx_remove_watchpoint(x, w)
             u == unordered \/ ~Oldest(w)
         IN  /\ z \in Worlds /\ NoMore(x, z) /\ z.live = x.live \ {w} /\ u \in BOOLEAN
             /\ ListOk(z, u) \/ (u /\ ~Walkable(z))
<1> DEFINE s == List(x)
           u == unordered \/ ~Oldest(w)
           z == dx_remove_watchpoint(x, w)
<1>1. x \in Worlds /\ unordered \in BOOLEAN /\ w \in Wp
  BY WorldTypes DEF TypeOK
<1>2. Links(x, s) /\ Back(x, s) /\ (unordered \/ BackExact(x, s))
  BY DEF ListOk
<1>3. z \in Worlds /\ NoMore(x, z) /\ z.live = x.live \ {w}
  BY <1>1, RemoveFields
<1>4. s \in Seq(x.live) /\ Ordered(x, s, Len(s))
  BY <1>1, <1>2, LinksOrdered
<1>5. Oldest(w) => Len(s) # 0 /\ s[Len(s)] = w
  BY <1>4 DEF Oldest, Last
<1> HIDE DEF s
<1>6. PICK k \in 1 .. Len(s) : s[k] = w
  BY <1>4 DEF Ordered
<1>7. Oldest(w) => k = Len(s)
  <2>1. Len(s) \in Nat
    BY <1>4
  <2>2. ASSUME Oldest(w) PROVE k = Len(s)
    <3>1. Len(s) \in 1 .. Len(s) /\ s[Len(s)] = s[k]
      BY <1>5, <1>6, <2>1, <2>2
    <3> QED BY <1>4, <3>1 DEF Ordered
  <2> QED BY <2>2
<1>8. z = dx_remove_watchpoint(x, s[k])
  BY <1>6
<1> HIDE DEF z
<1>9. \/ \E t : Links(z, t) /\ Back(z, t) /\ (BackExact(x, s) /\ k = Len(s) => BackExact(z, t))
      \/ ~Walkable(z) /\ ~BackExact(x, s)
  BY <1>1, <1>2, <1>8, RemoveLinks
<1>10. CASE \E t : Links(z, t) /\ Back(z, t) /\ (BackExact(x, s) /\ k = Len(s) => BackExact(z, t))
  <2>1. PICK t : Links(z, t) /\ Back(z, t) /\ (BackExact(x, s) /\ k = Len(s) => BackExact(z, t))
    BY <1>10
  <2>2. u \/ BackExact(z, t)
    BY <1>2, <1>7, <2>1
  <2> HIDE DEF u
  <2>3. ListOk(z, u)
    BY <1>3, <2>1, <2>2, LinksOk
  <2> QED BY <1>1, <1>3, <2>3 DEF z, u
<1>11. CASE ~Walkable(z) /\ ~BackExact(x, s)
  BY <1>1, <1>2, <1>3, <1>11 DEF z
<1> QED BY <1>9, <1>10, <1>11

(* The invariant is kept by add_watchpoint_object. *)
LEMMA AddKeeps ==
  ASSUME IndInv, NEW w \in Wp, NEW p \in Place, add_watchpoint_object(w, p)
  PROVE  IndInv'
<1>1. /\ Idle /\ w \notin x.live /\ x' = dx_add_watchpoint(x, w, p)
      /\ UNCHANGED <<alive, ctl, runVars, own, unordered, nproc, failVars>>
  BY DEF add_watchpoint_object
<1>2. TypeOK /\ ListInv /\ x \in Worlds /\ ListOk(x, unordered) /\ unordered \in BOOLEAN /\ ctl = "idle"
  BY <1>1, Walked DEF IndInv, TypeOK, Idle
<1>3. x' \in Worlds /\ NoMore(x, x')
  BY <1>1, <1>2, AddFields
<1>4. PICK t : Links(x', t) /\ Back(x', t) /\ (BackExact(x, List(x)) => BackExact(x', t))
  BY <1>1, <1>2, AddLinks DEF ListOk
<1>5. ListOk(x', unordered')
  <2>1. unordered' \/ BackExact(x', t)
    BY <1>1, <1>2, <1>4 DEF ListOk
  <2> QED BY <1>3, <1>4, <2>1, LinksOk
<1> QED BY <1>1, <1>2, <1>3, <1>5, Edited

(* The invariant is kept by remove_watchpoint_object. *)
LEMMA RemoveKeeps ==
  ASSUME IndInv, NEW w \in Wp, remove_watchpoint_object(w)
  PROVE  IndInv'
<1>1. /\ Idle /\ w \in x.live /\ x' = dx_remove_watchpoint(x, w)
      /\ unordered' = (unordered \/ ~Oldest(w))
      /\ UNCHANGED <<alive, ctl, runVars, own, nproc, failVars>>
  BY DEF remove_watchpoint_object
<1>2. TypeOK /\ ListInv /\ ListOk(x, unordered) /\ ctl = "idle"
  BY <1>1, Walked DEF IndInv, Idle
<1>3. /\ x' \in Worlds /\ NoMore(x, x') /\ unordered' \in BOOLEAN
      /\ ListOk(x', unordered') \/ (unordered' /\ ~Walkable(x'))
  BY <1>1, <1>2, Removal
<1> QED BY <1>1, <1>2, <1>3, Edited

(* The invariant is kept by move_wpt. *)
LEMMA MoveKeeps ==
  ASSUME IndInv, NEW w \in Wp, NEW u \in Wp, NEW p \in Place, move_wpt(w, u, p)
  PROVE  IndInv'
<1> DEFINE y == dx_remove_watchpoint(x, w)
<1>1. /\ Idle /\ w \in x.live /\ u \notin x.live \ {w}
      /\ IF Walkable(y) THEN x' = dx_add_watchpoint(y, u, p) /\ UNCHANGED ctl
                        ELSE ctl' = "wild" /\ x' = y
      /\ unordered' = (unordered \/ ~Oldest(w))
      /\ UNCHANGED <<alive, runVars, own, nproc, failVars>>
  BY DEF move_wpt
<1>2. TypeOK /\ ListInv /\ ListOk(x, unordered) /\ ctl = "idle"
  BY <1>1, Walked DEF IndInv, Idle
<1>3. /\ y \in Worlds /\ NoMore(x, y) /\ y.live = x.live \ {w} /\ unordered' \in BOOLEAN
      /\ ListOk(y, unordered') \/ (unordered' /\ ~Walkable(y))
  BY <1>1, <1>2, Removal
<1> HIDE DEF y
<1>4. CASE Walkable(y)
  <2>1. x' = dx_add_watchpoint(y, u, p) /\ ctl' = ctl /\ u \notin y.live
    BY <1>1, <1>3, <1>4
  <2>2. ListOk(y, unordered')
    BY <1>3, <1>4
  <2>3. x' \in Worlds /\ NoMore(y, x')
    BY <1>3, <2>1, AddFields
  <2>4. PICK t : Links(x', t) /\ Back(x', t) /\ (BackExact(y, List(y)) => BackExact(x', t))
    BY <1>3, <2>1, <2>2, AddLinks DEF ListOk
  <2>5. ListOk(x', unordered')
    <3>1. unordered' \/ BackExact(x', t)
      BY <2>2, <2>4 DEF ListOk
    <3> QED BY <2>3, <2>4, <3>1, LinksOk
  <2>6. NoMore(x, x')
    BY <1>3, <2>3, NoMoreTwice
  <2> QED BY <1>1, <1>2, <1>3, <2>1, <2>3, <2>5, <2>6, Edited
<1>5. CASE ~Walkable(y)
  <2>1. ctl' = "wild" /\ x' = y
    BY <1>1, <1>5
  <2> QED BY <1>1, <1>2, <1>3, <2>1, Edited
<1> QED BY <1>4, <1>5

(* The invariant is kept by set_wpt_state. *)
LEMMA EnableKeeps ==
  ASSUME IndInv, NEW w \in Wp, NEW on \in BOOLEAN, set_wpt_state(w, on)
  PROVE  IndInv'
<1> DEFINE en == [x.enabled EXCEPT ![w] = on]
<1>1. /\ Idle /\ x' = [x EXCEPT !.enabled = en]
      /\ UNCHANGED <<alive, ctl, runVars, own, unordered, nproc, failVars>>
  BY DEF set_wpt_state
<1>2. TypeOK /\ ListInv /\ x \in Worlds /\ ListOk(x, unordered) /\ unordered \in BOOLEAN /\ ctl = "idle"
  BY <1>1, Walked DEF IndInv, TypeOK, Idle
<1>3. en \in [Wp -> BOOLEAN]
  <2>1. x.enabled \in [Wp -> BOOLEAN]
    BY <1>2, WorldTypes
  <2> QED BY <2>1, Zenon
<1> HIDE DEF en
<1>4. /\ x' \in Worlds /\ x'.live = x.live /\ x'.next = x.next /\ x'.prev = x.prev /\ x'.place = x.place
      /\ x'.reg = x.reg /\ x'.prot = x.prot /\ x'.installed = x.installed /\ x'.activated = x.activated
  BY <1>1, <1>2, <1>3 DEF Worlds
<1>5. NoMore(x, x')
  BY <1>4, NoMoreSelf
<1> DEFINE s == List(x)
<1>6. Links(x, s) /\ Back(x, s) /\ (unordered \/ BackExact(x, s))
  BY <1>2 DEF ListOk
<1> HIDE DEF s
<1>7. Links(x', s) /\ Back(x', s) /\ (unordered' \/ BackExact(x', s))
  BY <1>1, <1>4, <1>6 DEF Links, Chain, Back, BackExact
<1>8. ListOk(x', unordered')
  BY <1>4, <1>7, LinksOk
<1> QED BY <1>1, <1>2, <1>4, <1>5, <1>8, Edited

(* The invariant is kept by a walk into freed memory. *)
LEMMA DanglingKeeps ==
  ASSUME IndInv, FollowDangling
  PROVE  IndInv'
<1>1. /\ ctl = "idle" /\ ~Walkable(x) /\ ctl' = "wild"
      /\ UNCHANGED <<x, alive, runVars, own, unordered, nproc, failVars>>
  BY DEF FollowDangling
<1>2. TypeOK /\ ListInv /\ x \in Worlds /\ unordered \in BOOLEAN
  BY DEF IndInv, TypeOK
<1>3. unordered
  <2>1. ~ListOk(x, unordered)
    BY <1>1, <1>2, LinksWalkable DEF ListOk
  <2> QED BY <1>2, <2>1 DEF ListInv
<1>4. NoMore(x, x')
  BY <1>1, NoMoreSelf
<1> QED BY <1>1, <1>2, <1>3, <1>4, Edited

(* The invariant is kept by Kill. *)
LEMMA KillKeeps ==
  ASSUME IndInv, Kill
  PROVE  IndInv'
<1>1. /\ Idle /\ alive /\ x' = FreshProcess(x) /\ alive' = FALSE /\ own' = FALSE /\ stopres' = "DIED"
      /\ ctl' = ctl /\ ctl = "idle" /\ cont_type' = cont_type /\ check_wps' = check_wps
      /\ emulated' = emulated /\ unordered' = unordered /\ nproc' = nproc
      /\ stuck' = stuck /\ nfail' = nfail
  BY DEF Kill, Idle, failVars
<1>2. TypeOK /\ ListInv /\ RunInv /\ x \in Worlds /\ ListOk(x, unordered) /\ nproc # 0
  BY <1>1, Walked DEF IndInv, RunInv
<1>3. x' \in Worlds /\ Kept(x, x') /\ Clear(x')
  BY <1>1, <1>2, FreshFields
<1>4. ListOk(x', unordered')
  BY <1>1, <1>2, <1>3, KeptOk
<1>5. TypeOK'
  BY <1>1, <1>2, <1>3 DEF TypeOK
<1>6. ListInv' /\ RunInv'
  BY <1>1, <1>2, <1>4 DEF ListInv, RunInv, InRun
<1>7. CleanInv' /\ SeenInv'
  BY <1>1, <1>2, <1>3 DEF CleanInv, SeenInv, InRun
<1> QED BY <1>5, <1>6, <1>7 DEF IndInv

(* The invariant is kept by the end of a run in which the target died. *)
LEMMA DiedKeeps ==
  ASSUME IndInv, TargetDied
  PROVE  IndInv'
<1> DEFINE y == FreshProcess(x)
<1>1. /\ ctl = "stopped" /\ stopres = "DIED" /\ Return(y) /\ alive' = FALSE /\ own' = FALSE
      /\ unordered' = unordered /\ nproc' = nproc /\ stuck' = stuck /\ nfail' = nfail
  BY DEF TargetDied, failVars
<1>2. /\ TypeOK /\ ListInv /\ RunInv /\ x \in Worlds /\ ListOk(x, unordered) /\ nproc # 0
  BY <1>1, Walked DEF IndInv, RunInv, InRun
<1>3. y \in Worlds /\ Kept(x, y) /\ Clear(y)
  BY <1>2, FreshFields
<1>4. ListOk(y, unordered)
  BY <1>2, <1>3, KeptOk
<1> HIDE DEF y
<1>5. /\ x' \in Worlds /\ ListOk(x', unordered) /\ Clear(x') /\ stopres' = stopres
      /\ ctl' = "idle" /\ cont_type' = "CONT" /\ check_wps' = FALSE /\ emulated' = FALSE
  BY <1>1, <1>3, <1>4, Returned
<1>6. TypeOK'
  BY <1>1, <1>2, <1>5 DEF TypeOK
<1>7. ListInv' /\ RunInv'
  BY <1>1, <1>5 DEF ListInv, RunInv, InRun
<1>8. CleanInv' /\ SeenInv'
  BY <1>1, <1>2, <1>5 DEF CleanInv, SeenInv, InRun
<1> QED BY <1>6, <1>7, <1>8 DEF IndInv

(* The invariant is kept by the restart of the target. *)
LEMMA RestartKeeps ==
  ASSUME IndInv, Restart
  PROVE  IndInv'
<1>1. /\ ctl = "loop" /\ ctl' = "run" /\ x' = x /\ alive' = alive /\ stopres' = stopres
      /\ cont_type' = cont_type /\ check_wps' = check_wps /\ emulated' = emulated /\ own' = own
      /\ unordered' = unordered /\ nproc' = nproc /\ stuck' = stuck /\ nfail' = nfail
  BY DEF Restart, runVars, failVars
<1>2. TypeOK' /\ ListInv' /\ RunInv'
  BY <1>1 DEF IndInv, TypeOK, ListInv, RunInv, InRun
<1>3. CleanInv' /\ SeenInv'
  BY <1>1 DEF IndInv, CleanInv, SeenInv, InRun
<1> QED BY <1>2, <1>3 DEF IndInv

(* A stop of the target that no watchpoint caused. *)
LEMMA StopKeeps ==
  ASSUME IndInv, OwnFault \/ \E why \in {"USER", "DIED"} : Disturb(why)
  PROVE  IndInv'
<1>1. /\ ctl = "run" /\ ctl' = "stopped" /\ x' = x /\ alive' = alive
      /\ cont_type' = cont_type /\ check_wps' = check_wps /\ emulated' = emulated
      /\ unordered' = unordered /\ nproc' = nproc /\ stuck' = stuck /\ nfail' = nfail
      /\ stopres' \in {"SEGV", "USER", "DIED"} /\ own' \in {TRUE, own}
      /\ stopres' = "SEGV" => own'
  BY DEF OwnFault, Disturb, Targets, StopWith, failVars
<1>2. TypeOK'
  BY <1>1 DEF IndInv, TypeOK
<1>3. ListInv' /\ RunInv'
  BY <1>1 DEF IndInv, ListInv, RunInv, InRun
<1>4. CleanInv' /\ SeenInv'
  BY <1>1 DEF IndInv, CleanInv, SeenInv, InRun
<1> QED BY <1>2, <1>3, <1>4 DEF IndInv

(* A run starts: install_all_watchpoints has done its work in y. *)
LEMMA Started ==
  ASSUME IndInv, NEW y \in Worlds, ListOk(y, unordered), unordered' = unordered,
         NEW bad \in FewOf(Place), NEW badPages \in FewOf(Page), Failing(bad, badPages),
         nproc' \in 1 .. MaxProc, alive' = TRUE, own' = own,
         nfail = 0 => Clear(y),
         nproc' <= 1 /\ ~stuck => Served(y) /\ Protected(y) \subseteq y.prot,
         LET r == install_all_watchpoints(y, bad, badPages)
         IN  r.ok /\ x' = r.y /\ BeginRun(r.some)
  PROVE  IndInv'
<1> DEFINE r == install_all_watchpoints(y, bad, badPages)
<1>1. r.ok /\ x' = r.y /\ BeginRun(r.some)
  OBVIOUS
<1>2. Sound(y) /\ TypeOK
  BY DEF ListOk, Sound, IndInv
<1>3. /\ r.y \in Worlds /\ Kept(y, r.y) /\ r.ok \in BOOLEAN /\ r.some \in BOOLEAN
  BY <1>2, InstallAllTypes
<1>4. bad = {} /\ badPages = {} /\ Clear(y) =>
        r.y.prot \subseteq Protected(r.y) /\ Owned(r.y) /\ (r.y.prot # {} => r.some)
  BY <1>2, InstallAllClean
<1>5. badPages = {} /\ Served(y) /\ Protected(y) \subseteq y.prot =>
        Served(r.y) /\ Protected(r.y) \subseteq r.y.prot /\ Watching(r.y) /\ Unchanged(r.y)
  BY <1>1, <1>2, InstallAllSeen
<1> HIDE DEF r
<1>6. /\ ctl' = "loop" /\ cont_type' = "CONT" /\ check_wps' = FALSE /\ emulated' = r.some
      /\ stopres' = "none"
  BY <1>1 DEF BeginRun
<1>7. /\ nfail' \in 0 .. MaxFail /\ stuck' \in BOOLEAN
      /\ nfail' = 0 => nfail = 0 /\ bad = {} /\ badPages = {}
      /\ ~stuck' => ~stuck /\ badPages = {}
  BY <1>2, Failures
<1>8. TypeOK'
  <2>1. own' \in BOOLEAN /\ unordered' \in BOOLEAN /\ emulated' \in BOOLEAN
    BY <1>2, <1>3, <1>6 DEF TypeOK
  <2>2. nproc' \in 0 .. MaxProc
    BY WatchAssumption
  <2> QED BY <1>1, <1>2, <1>3, <1>6, <1>7, <2>1, <2>2 DEF TypeOK
<1>9. ListInv' /\ RunInv'
  <2>1. ListOk(x', unordered')
    BY <1>1, <1>3, KeptOk
  <2> QED BY <1>6, <2>1 DEF ListInv, RunInv
<1>10. CleanInv'
  BY <1>1, <1>4, <1>6, <1>7 DEF CleanInv
<1>11. SeenInv'
  BY <1>1, <1>5, <1>6, <1>7 DEF SeenInv
<1> QED BY <1>8, <1>9, <1>10, <1>11 DEF IndInv

(* A run is over, and its process is still there. *)
LEMMA Over ==
  ASSUME IndInv, x' \in Worlds, ListOk(x', unordered'), unordered' = unordered, own' = own,
         ctl' = "idle", cont_type' = "CONT", check_wps' = FALSE, emulated' = FALSE,
         stopres' = stopres, alive' = TRUE, nproc' \in 1 .. MaxProc,
         nfail' \in 0 .. MaxFail, stuck' \in BOOLEAN,
         nfail' = 0 => Clear(x') /\ (stopres = "SEGV" => own),
         nproc' <= 1 /\ ~stuck' =>
           /\ Served(x') /\ Protected(x') \subseteq x'.prot
           /\ \A w \in x'.live : ~x'.activated[w]
  PROVE  IndInv'
<1>1. TypeOK'
  <2>1. nproc' \in 0 .. MaxProc
    BY WatchAssumption
  <2>2. own' \in BOOLEAN /\ unordered' \in BOOLEAN /\ stopres' \in {"none", "DIED", "USER", "SEGV", "WPT", "SSTEP"}
    BY DEF IndInv, TypeOK
  <2> QED BY <2>1, <2>2 DEF TypeOK
<1>2. ListInv' /\ RunInv'
  BY DEF ListInv, RunInv, InRun
<1>3. CleanInv'
  BY DEF CleanInv, InRun
<1>4. SeenInv'
  BY DEF SeenInv, InRun
<1> QED BY <1>1, <1>2, <1>3, <1>4 DEF IndInv

(* The invariant is kept by Cont. *)
LEMMA ContKeeps ==
  ASSUME IndInv, NEW bad \in FewOf(Place), NEW badPages \in FewOf(Page), Cont(bad, badPages)
  PROVE  IndInv'
<1> DEFINE r == install_all_watchpoints(x, bad, badPages)
<1>1. /\ Idle /\ alive /\ ctl = "idle" /\ Failing(bad, badPages)
      /\ IF r.ok THEN x' = r.y /\ BeginRun(r.some) ELSE Return(r.y)
      /\ alive' = alive /\ own' = own /\ unordered' = unordered /\ nproc' = nproc
  BY DEF Cont, Idle
<1>2. /\ TypeOK /\ x \in Worlds /\ ListOk(x, unordered) /\ Sound(x) /\ nproc \in 1 .. MaxProc
      /\ alive' = TRUE
  <2>1. TypeOK /\ ListInv /\ nproc # 0
    BY <1>1 DEF IndInv, RunInv
  <2>2. alive \in BOOLEAN /\ nproc \in 0 .. MaxProc
    BY <2>1 DEF TypeOK
  <2>3. nproc \in 1 .. MaxProc
    BY <2>1, <2>2, WatchAssumption
  <2>4. x \in Worlds /\ ListOk(x, unordered) /\ Sound(x)
    BY <1>1, <2>1, Walked
  <2> QED BY <1>1, <2>1, <2>2, <2>3, <2>4
<1>3. nfail = 0 => Clear(x)
  BY <1>1 DEF IndInv, CleanInv
<1>4. nproc <= 1 /\ ~stuck =>
        Served(x) /\ Protected(x) \subseteq x.prot /\ \A w \in x.live : ~x.activated[w]
  BY <1>1 DEF IndInv, SeenInv
<1>5. /\ nfail' \in 0 .. MaxFail /\ stuck' \in BOOLEAN
      /\ nfail' = 0 => nfail = 0 /\ bad = {} /\ badPages = {}
      /\ ~stuck' => ~stuck /\ badPages = {}
  BY <1>1, <1>2, Failures
<1>6. CASE r.ok
  <2>1. r.ok /\ x' = r.y /\ BeginRun(r.some)
    BY <1>1, <1>6
  <2>2. nproc' \in 1 .. MaxProc /\ (nproc' <= 1 /\ ~stuck => Served(x) /\ Protected(x) \subseteq x.prot)
    BY <1>1, <1>2, <1>4
  <2> QED BY <1>1, <1>2, <1>3, <2>1, <2>2, Started
<1>7. CASE ~r.ok
  <2>1. r.y \in Worlds /\ Kept(x, r.y)
    BY <1>2, InstallAllTypes
  <2>2. ListOk(r.y, unordered)
    BY <1>2, <2>1, KeptOk
  <2>3. ~(bad = {} /\ badPages = {})
    BY <1>2, <1>7, InstallAllLeaves
  <2>4. badPages = {} /\ Served(x) /\ Protected(x) \subseteq x.prot =>
          Served(r.y) /\ Protected(r.y) \subseteq r.y.prot /\ r.y.activated = x.activated
    BY <1>2, <1>7, InstallAllSeen
  <2>5. Return(r.y)
    BY <1>1, <1>7
  <2> HIDE DEF r
  <2>6. /\ x' \in Worlds /\ ListOk(x', unordered)
        /\ ctl' = "idle" /\ cont_type' = "CONT" /\ check_wps' = FALSE /\ emulated' = FALSE
        /\ stopres' = stopres
        /\ Served(r.y) => Served(x')
        /\ Protected(x') = Protected(r.y) /\ x'.prot = r.y.prot
        /\ (\A w \in r.y.live : ~r.y.activated[w]) => \A w \in x'.live : ~x'.activated[w]
    BY <2>1, <2>2, <2>5, Returned
  <2>7. nproc' <= 1 /\ ~stuck' =>
          /\ Served(x') /\ Protected(x') \subseteq x'.prot
          /\ \A w \in x'.live : ~x'.activated[w]
    BY <1>1, <1>4, <1>5, <2>1, <2>4, <2>6 DEF Kept
  <2> QED BY <1>1, <1>2, <1>5, <2>3, <2>6, <2>7, Over
<1> QED BY <1>6, <1>7

(* The new process, before anything is set in it. *)
LEMMA NewProcess ==
  ASSUME IndInv, Idle, ~alive, nproc < MaxProc, nproc' = nproc + 1
  PROVE  LET y == FreshProcess(x)
         IN  /\ TypeOK /\ y \in Worlds /\ ListOk(y, unordered) /\ Sound(y) /\ Clear(y)
             /\ nproc' \in 1 .. MaxProc /\ stopres = "DIED" /\ cont_type \in {"CONT", "STEP"}
             /\ nproc' <= 1 /\ ~stuck => Served(y) /\ Protected(y) \subseteq y.prot
<1> DEFINE y == FreshProcess(x)
<1>1. TypeOK /\ x \in Worlds /\ ListOk(x, unordered)
  BY Walked DEF IndInv
<1>2. y \in Worlds /\ Kept(x, y) /\ Clear(y) /\ y.installed = x.installed /\ y.activated = x.activated
  BY <1>1, FreshFields
<1>3. nproc \in 0 .. MaxProc /\ cont_type \in {"CONT", "STEP"}
  BY <1>1 DEF TypeOK
<1>4. nproc' \in 1 .. MaxProc /\ (nproc' <= 1 => nproc = 0)
  BY <1>3, WatchAssumption
<1>5. stopres = "DIED"
  BY DEF IndInv, RunInv
<1> HIDE DEF y
<1>6. ASSUME nproc' <= 1, ~stuck PROVE Served(y) /\ Protected(y) \subseteq y.prot
  <2>1. \A w \in x.live : ~x.installed[w] /\ ~x.activated[w]
    <3>1. nproc = 0 /\ nproc <= 1
      BY <1>4, <1>6
    <3> QED BY <1>6, <3>1 DEF IndInv, SeenInv
  <2>2. \A w \in y.live : ~y.installed[w] /\ ~y.activated[w]
    BY <1>2, <2>1 DEF Kept
  <2> QED BY <2>2, NoneSet
<1>7. ListOk(y, unordered) /\ Sound(y)
  BY <1>1, <1>2, KeptOk
<1> QED BY <1>1, <1>2, <1>3, <1>4, <1>5, <1>6, <1>7 DEF y

(* The invariant is kept by a start that stops at a breakpoint. *)
LEMMA StartStopsKeeps ==
  ASSUME IndInv, NEW badPages \in FewOf(Page), StartStops(badPages)
  PROVE  IndInv'
<1> DEFINE y == FreshProcess(x)
           z == uninstall_all_watchpoints(y, badPages)
<1>1. /\ Idle /\ ctl = "idle" /\ ~alive /\ nproc < MaxProc /\ Failing({}, badPages)
      /\ nproc' = nproc + 1 /\ alive' = TRUE /\ x' = z
      /\ ctl' = ctl /\ stopres' = stopres /\ cont_type' = cont_type /\ check_wps' = check_wps
      /\ emulated' = emulated /\ own' = own /\ unordered' = unordered
  BY DEF StartStops, Idle, runVars
<1>2. /\ TypeOK /\ y \in Worlds /\ ListOk(y, unordered) /\ Sound(y) /\ Clear(y)
      /\ nproc' \in 1 .. MaxProc /\ stopres = "DIED"
      /\ nproc' <= 1 /\ ~stuck => Served(y) /\ Protected(y) \subseteq y.prot
  BY <1>1, NewProcess
<1> HIDE DEF y
<1>3. /\ z \in Worlds /\ Kept(y, z)
      /\ (\A r \in Reg : y.reg[r] = Nowhere) => (\A r \in Reg : z.reg[r] = Nowhere)
      /\ z.prot \subseteq y.prot
  BY <1>2, UninstallAllTypes
<1>4. badPages = {} /\ Served(y) =>
        Served(z) /\ Protected(z) = {} /\ \A w \in z.live : ~z.activated[w]
  BY <1>2, UninstallAllSeen
<1> HIDE DEF z
<1>5. Clear(z)
  BY <1>2, <1>3 DEF Clear
<1>6. ListOk(z, unordered)
  BY <1>2, <1>3, KeptOk
<1>7. /\ nfail' \in 0 .. MaxFail /\ stuck' \in BOOLEAN
      /\ ~stuck' => ~stuck /\ badPages = {}
  <2>1. {} \in FewOf(Place)
    BY DEF FewOf
  <2> QED BY <1>1, <1>2, <2>1, Failures
<1>8. TypeOK'
  <2>1. nproc' \in 0 .. MaxProc
    BY <1>2, WatchAssumption
  <2> QED BY <1>1, <1>2, <1>3, <1>7, <2>1 DEF TypeOK
<1>9. ListInv' /\ RunInv'
  BY <1>1, <1>2, <1>6 DEF IndInv, ListInv, RunInv, InRun
<1>10. CleanInv'
  BY <1>1, <1>2, <1>5 DEF CleanInv, InRun
<1>11. SeenInv'
  BY <1>1, <1>2, <1>4, <1>7 DEF SeenInv, InRun
<1> QED BY <1>8, <1>9, <1>10, <1>11 DEF IndInv

(* The invariant is kept by a start that runs on. *)
LEMMA StartRunsKeeps ==
  ASSUME IndInv, NEW bad \in FewOf(Place), NEW badPages \in FewOf(Page), StartRuns(bad, badPages)
  PROVE  IndInv'
<1> DEFINE y == FreshProcess(x)
           r == install_all_watchpoints(y, bad, badPages)
           q == install_all_watchpoints(r.y, bad, badPages)
<1>1. /\ Idle /\ ctl = "idle" /\ ~alive /\ nproc < MaxProc /\ Failing(bad, badPages)
      /\ nproc' = nproc + 1 /\ alive' = TRUE /\ own' = own /\ unordered' = unordered
      /\ IF r.ok THEN x' = r.y /\ BeginRun(r.some) ELSE EndRun(q.y, badPages)
  BY DEF StartRuns, Idle
<1>2. /\ TypeOK /\ y \in Worlds /\ ListOk(y, unordered) /\ Sound(y) /\ Clear(y)
      /\ nproc' \in 1 .. MaxProc /\ stopres = "DIED"
      /\ nproc' <= 1 /\ ~stuck => Served(y) /\ Protected(y) \subseteq y.prot
  BY <1>1, NewProcess
<1> HIDE DEF y
<1>3. CASE r.ok
  <2>1. r.ok /\ x' = r.y /\ BeginRun(r.some)
    BY <1>1, <1>3
  <2> QED BY <1>1, <1>2, <2>1, Started
<1>4. CASE ~r.ok
  <2>1. EndRun(q.y, badPages)
    BY <1>1, <1>4
  <2>2. r.y \in Worlds /\ Kept(y, r.y) /\ Sound(r.y)
    BY <1>2, InstallAllTypes
  <2>3. ~(bad = {} /\ badPages = {})
    BY <1>2, <1>4, InstallAllLeaves
  <2>4. badPages = {} /\ Served(y) /\ Protected(y) \subseteq y.prot =>
          Served(r.y) /\ Protected(r.y) \subseteq r.y.prot
    BY <1>2, InstallAllSeen
  <2>5. ListOk(r.y, unordered)
    BY <1>2, <2>2, KeptOk
  <2> HIDE DEF r
  <2>6. q.y \in Worlds /\ Kept(r.y, q.y)
    BY <2>2, InstallAllTypes
  <2>7. badPages = {} /\ Served(r.y) /\ Protected(r.y) \subseteq r.y.prot => Served(q.y)
    BY <2>2, InstallAllSeen
  <2>8. ListOk(q.y, unordered)
    BY <2>2, <2>5, <2>6, KeptOk
  <2> HIDE DEF q
  <2>9. /\ x' \in Worlds /\ ListOk(x', unordered)
        /\ ctl' = "idle" /\ cont_type' = "CONT" /\ check_wps' = FALSE /\ emulated' = FALSE
        /\ stopres' = stopres
        /\ badPages = {} /\ Served(q.y) =>
             /\ Served(x') /\ Protected(x') \subseteq x'.prot
             /\ \A w \in x'.live : ~x'.activated[w]
    BY <2>1, <2>6, <2>8, Ended
  <2>10. /\ nfail' \in 0 .. MaxFail /\ stuck' \in BOOLEAN
         /\ nfail' = 0 => nfail = 0 /\ bad = {} /\ badPages = {}
         /\ ~stuck' => ~stuck /\ badPages = {}
    BY <1>1, <1>2, Failures
  <2>11. nproc' <= 1 /\ ~stuck' =>
           /\ Served(x') /\ Protected(x') \subseteq x'.prot
           /\ \A w \in x'.live : ~x'.activated[w]
    BY <1>2, <2>4, <2>7, <2>9, <2>10
  <2> QED BY <1>1, <1>2, <2>3, <2>9, <2>10, <2>11, Over
<1> QED BY <1>3, <1>4

(* The target has stopped, and dx_run_target_ss acts on it. *)
LEMMA Stopped ==
  ASSUME IndInv, ctl = "stopped"
  PROVE  /\ TypeOK /\ x \in Worlds /\ ListOk(x, unordered) /\ Sound(x) /\ Listed(x) = x.live
         /\ alive = TRUE /\ nproc \in 1 .. MaxProc
         /\ nfail = 0 => x.prot \subseteq Protected(x) /\ Owned(x)
         /\ nproc <= 1 /\ ~stuck => Served(x) /\ Protected(x) \subseteq x.prot
<1>1. TypeOK /\ ListInv /\ InRun /\ alive /\ nproc # 0
  BY DEF IndInv, RunInv, InRun
<1>2. alive \in BOOLEAN /\ nproc \in 0 .. MaxProc
  BY <1>1 DEF TypeOK
<1>3. nproc \in 1 .. MaxProc
  BY <1>1, <1>2, WatchAssumption
<1>4. nfail = 0 => x.prot \subseteq Protected(x) /\ Owned(x)
  BY <1>1 DEF IndInv, CleanInv
<1>5. nproc <= 1 /\ ~stuck => Served(x) /\ Protected(x) \subseteq x.prot
  BY <1>1 DEF IndInv, SeenInv
<1> QED BY <1>1, <1>2, <1>3, <1>4, <1>5, Walked

(* EndRun is what it does: y is x, or what is left of it by then. *)
LEMMA EndKeeps ==
  ASSUME IndInv, ctl = "stopped", NEW badPages \in FewOf(Page), Failing({}, badPages),
         NEW y \in Worlds, ListOk(y, unordered), EndRun(y, badPages),
         nfail' = 0 => Owned(y) /\ y.prot \subseteq Protected(y) /\ (stopres = "SEGV" => own),
         nproc <= 1 /\ ~stuck' => Served(y),
         UNCHANGED <<alive, own, unordered, nproc>>
  PROVE  IndInv'
<1>1. TypeOK /\ alive = TRUE /\ nproc \in 1 .. MaxProc
  BY Stopped
<1>2. /\ x' \in Worlds /\ ListOk(x', unordered)
      /\ ctl' = "idle" /\ cont_type' = "CONT" /\ check_wps' = FALSE /\ emulated' = FALSE
      /\ stopres' = stopres
      /\ badPages = {} /\ Owned(y) /\ y.prot \subseteq Protected(y) => Clear(x')
      /\ badPages = {} /\ Served(y) =>
           /\ Served(x') /\ Protected(x') \subseteq x'.prot
           /\ \A w \in x'.live : ~x'.activated[w]
  BY Ended
<1>3. /\ nfail' \in 0 .. MaxFail /\ stuck' \in BOOLEAN
      /\ nfail' = 0 => nfail = 0 /\ badPages = {}
      /\ ~stuck' => ~stuck /\ badPages = {}
  <2>1. {} \in FewOf(Place)
    BY DEF FewOf
  <2> QED BY <1>1, <2>1, Failures
<1>4. nfail' = 0 => Clear(x') /\ (stopres = "SEGV" => own)
  BY <1>2, <1>3
<1>5. nproc' <= 1 /\ ~stuck' =>
        /\ Served(x') /\ Protected(x') \subseteq x'.prot
        /\ \A w \in x'.live : ~x'.activated[w]
  BY <1>2, <1>3
<1>6. nproc' \in 1 .. MaxProc /\ alive' = TRUE /\ own' = own /\ unordered' = unordered
  BY <1>1
<1> QED BY <1>2, <1>3, <1>4, <1>5, <1>6, Over

(* The invariant is kept by the end of a run by Stop. *)
LEMMA UserStoppedKeeps ==
  ASSUME IndInv, NEW badPages \in FewOf(Page), UserStopped(badPages)
  PROVE  IndInv'
<1>1. /\ ctl = "stopped" /\ stopres = "USER" /\ Failing({}, badPages) /\ EndRun(x, badPages)
      /\ UNCHANGED <<alive, own, unordered, nproc>>
  BY DEF UserStopped
<1>2. /\ TypeOK /\ x \in Worlds /\ ListOk(x, unordered)
      /\ nfail = 0 => x.prot \subseteq Protected(x) /\ Owned(x)
      /\ nproc <= 1 /\ ~stuck => Served(x) /\ Protected(x) \subseteq x.prot
  BY <1>1, Stopped
<1>3. /\ nfail' = 0 => nfail = 0 /\ badPages = {}
      /\ ~stuck' => ~stuck /\ badPages = {}
  <2>1. {} \in FewOf(Place)
    BY DEF FewOf
  <2> QED BY <1>1, <1>2, <2>1, Failures
<1>4. /\ nfail' = 0 => Owned(x) /\ x.prot \subseteq Protected(x) /\ (stopres = "SEGV" => own)
      /\ nproc <= 1 /\ ~stuck' => Served(x)
  BY <1>1, <1>2, <1>3
<1> QED BY <1>1, <1>2, <1>4, EndKeeps

(* The invariant is kept by what the run loop does about a fault. *)
LEMMA FaultedKeeps ==
  ASSUME IndInv, NEW badPages \in FewOf(Page), Faulted(badPages)
  PROVE  IndInv'
<1> DEFINE d == deactivate_all_watchpoints(x, badPages)
<1>1. /\ ctl = "stopped" /\ stopres = "SEGV" /\ Failing({}, badPages)
      /\ IF emulated /\ d.ok
         THEN /\ ctl' = "loop" /\ x' = d.y
              /\ cont_type' = "STEP" /\ check_wps' = TRUE /\ stopres' = "none"
              /\ UNCHANGED emulated
         ELSE EndRun(IF emulated THEN d.y ELSE x, badPages)
      /\ UNCHANGED <<alive, own, unordered, nproc>>
  BY DEF Faulted
<1>2. /\ TypeOK /\ x \in Worlds /\ ListOk(x, unordered) /\ Sound(x)
      /\ alive = TRUE /\ nproc \in 1 .. MaxProc
      /\ nfail = 0 => x.prot \subseteq Protected(x) /\ Owned(x)
      /\ nproc <= 1 /\ ~stuck => Served(x) /\ Protected(x) \subseteq x.prot
  BY <1>1, Stopped
<1>3. /\ nfail' \in 0 .. MaxFail /\ stuck' \in BOOLEAN
      /\ nfail' = 0 => nfail = 0 /\ badPages = {}
      /\ ~stuck' => ~stuck /\ badPages = {}
  <2>1. {} \in FewOf(Place)
    BY DEF FewOf
  <2> QED BY <1>1, <1>2, <2>1, Failures
<1>4. /\ d.y \in Worlds /\ Kept(x, d.y) /\ d.ok \in BOOLEAN
      /\ d.y.installed = x.installed /\ d.y.reg = x.reg
      /\ badPages = {} =>
           /\ d.ok /\ d.y.prot = x.prot \ Protected(x)
           /\ \A w \in x.live : ~d.y.activated[w]
  BY <1>2, DeactivateFields
<1> HIDE DEF d
<1>5. ListOk(d.y, unordered)
  BY <1>2, <1>4, KeptOk
<1>6. (Owned(x) => Owned(d.y)) /\ (Served(x) => Served(d.y))
  BY <1>4, SameOwners
<1>7. nfail = 0 /\ ~emulated => own
  BY <1>1 DEF IndInv, CleanInv
<1>8. CASE emulated /\ d.ok
  <2>1. /\ ctl' = "loop" /\ x' = d.y /\ cont_type' = "STEP" /\ check_wps' = TRUE /\ stopres' = "none"
        /\ emulated' = emulated /\ alive' = alive /\ own' = own /\ unordered' = unordered
        /\ nproc' = nproc
    BY <1>1, <1>8
  <2>2. TypeOK'
    BY <1>2, <1>3, <1>4, <2>1 DEF TypeOK
  <2>3. ListInv' /\ RunInv'
    BY <1>2, <1>5, <2>1 DEF ListInv, RunInv
  <2>4. CleanInv'
    <3>1. nfail' = 0 => x'.prot = {} /\ Owned(x')
      BY <1>2, <1>3, <1>4, <1>6, <2>1
    <3> QED BY <1>8, <2>1, <3>1 DEF CleanInv
  <2>5. SeenInv'
    <3>1. badPages = {} => Protected(x') = {}
      BY <1>4, <2>1 DEF Protected, Kept
    <3>2. nproc' <= 1 /\ ~stuck' => Served(x') /\ Protected(x') \subseteq x'.prot
      BY <1>2, <1>3, <1>6, <2>1, <3>1
    <3>3. nproc' # 0
      BY <1>2, <2>1
    <3> QED BY <2>1, <3>2, <3>3 DEF SeenInv
  <2> QED BY <2>2, <2>3, <2>4, <2>5 DEF IndInv
<1>9. CASE ~(emulated /\ d.ok)
  <2> DEFINE y == IF emulated THEN d.y ELSE x
  <2>1. EndRun(y, badPages)
    BY <1>1, <1>9
  <2>2. y \in Worlds /\ ListOk(y, unordered) /\ (Served(x) => Served(y))
    BY <1>2, <1>4, <1>5, <1>6
  <2>3. nfail' = 0 => y = x /\ own
    BY <1>3, <1>4, <1>7, <1>9
  <2> HIDE DEF y
  <2>4. /\ nfail' = 0 => Owned(y) /\ y.prot \subseteq Protected(y) /\ (stopres = "SEGV" => own)
        /\ nproc <= 1 /\ ~stuck' => Served(y)
    BY <1>2, <1>3, <2>2, <2>3
  <2> QED BY <1>1, <2>1, <2>2, <2>4, EndKeeps
<1> QED BY <1>8, <1>9

(* The invariant is kept by the check of the watchpoints. *)
LEMMA WatchedKeeps ==
  ASSUME IndInv, NEW badPages \in FewOf(Page), Watched(badPages)
  PROVE  IndInv'
<1> DEFINE a == activate_all_watchpoints(x, badPages)
           todo == Unprotected(x)
           changed == (stopres = "WPT" \/ check_wps) /\ check_all_watchpoints(x)
<1>1. /\ ctl = "stopped" /\ stopres \in {"WPT", "SSTEP"} /\ Failing({}, badPages)
      /\ UNCHANGED <<alive, own, unordered, nproc>>
  BY DEF Watched
<1>2. /\ changed => EndRun(x, badPages)
      /\ ~changed /\ check_wps /\ a.ok =>
           /\ ctl' = "loop" /\ x' = a.y /\ cont_type' = "CONT" /\ check_wps' = FALSE /\ stopres' = "none"
           /\ UNCHANGED emulated
      /\ ~changed /\ check_wps /\ ~a.ok => EndRun(a.y, badPages)
      /\ ~changed /\ ~check_wps =>
           ctl' = "loop" /\ stopres' = "none" /\ UNCHANGED <<x, cont_type, check_wps, emulated>>
  BY DEF Watched
<1>3. /\ TypeOK /\ x \in Worlds /\ ListOk(x, unordered) /\ Sound(x) /\ Listed(x) = x.live
      /\ alive = TRUE /\ nproc \in 1 .. MaxProc
      /\ nfail = 0 => x.prot \subseteq Protected(x) /\ Owned(x)
      /\ nproc <= 1 /\ ~stuck => Served(x) /\ Protected(x) \subseteq x.prot
  BY <1>1, Stopped
<1>4. /\ nfail' \in 0 .. MaxFail /\ stuck' \in BOOLEAN
      /\ nfail' = 0 => nfail = 0 /\ badPages = {}
      /\ ~stuck' => ~stuck /\ badPages = {}
  <2>1. {} \in FewOf(Place)
    BY DEF FewOf
  <2> QED BY <1>1, <1>3, <2>1, Failures
<1>5. /\ a.y \in Worlds /\ Kept(x, a.y) /\ a.ok \in BOOLEAN
      /\ a.y.installed = x.installed /\ a.y.val = x.val /\ a.y.reg = x.reg /\ a.y.mem = x.mem
      /\ badPages = {} =>
           /\ a.ok
           /\ a.y.prot = x.prot \union {PageOf[x.place[w]] : w \in todo}
           /\ \A w \in Wp : a.y.activated[w] <=> x.activated[w] \/ w \in todo
  BY <1>3, ActivateFields
<1>6. \A w \in x.live : x.enabled[w] /\ ~x.installed[w] /\ ~x.activated[w] => w \in todo
  BY <1>3 DEF Unprotected
<1>7. todo \subseteq x.live /\ x.live \subseteq Wp
  BY <1>3, WorldTypes DEF Unprotected
<1>8. check_wps \in BOOLEAN /\ (stopres = "SSTEP" => check_wps) /\ (check_wps <=> cont_type = "STEP")
      /\ cont_type \in {"CONT", "STEP"}
  BY <1>1, <1>3 DEF IndInv, RunInv, TypeOK
<1>9. ~changed => Unchanged(x)
  <2>1. stopres = "WPT" \/ check_wps
    BY <1>1, <1>8
  <2> QED BY <1>3, <2>1 DEF check_all_watchpoints, Unchanged
<1> HIDE DEF a, todo, changed
<1>10. CASE changed
  <2>1. /\ nfail' = 0 => Owned(x) /\ x.prot \subseteq Protected(x) /\ (stopres = "SEGV" => own)
        /\ nproc <= 1 /\ ~stuck' => Served(x)
    BY <1>1, <1>3, <1>4
  <2> QED BY <1>1, <1>2, <1>3, <1>10, <2>1, EndKeeps
<1>11. CASE ~changed /\ check_wps /\ a.ok
  <2>1. /\ ctl' = "loop" /\ x' = a.y /\ cont_type' = "CONT" /\ check_wps' = FALSE /\ stopres' = "none"
        /\ emulated' = emulated /\ alive' = alive /\ own' = own /\ unordered' = unordered
        /\ nproc' = nproc
    BY <1>1, <1>2, <1>11
  <2>2. ListOk(a.y, unordered)
    BY <1>3, <1>5, KeptOk
  <2>3. TypeOK'
    BY <1>3, <1>4, <1>5, <2>1 DEF TypeOK
  <2>4. ListInv' /\ RunInv'
    BY <1>3, <2>1, <2>2 DEF ListInv, RunInv
  <2>5. (Owned(x) => Owned(a.y)) /\ (Served(x) => Served(a.y))
    BY <1>5, SameOwners
  <2>6. a.y.live = x.live /\ a.y.place = x.place /\ a.y.enabled = x.enabled
    BY <1>5 DEF Kept
  <2>7. CleanInv'
    <3>1. nfail = 0 => emulated
      BY <1>1, <1>11 DEF IndInv, CleanInv, InRun
    <3>2. ASSUME badPages = {}, x.prot \subseteq Protected(x) PROVE a.y.prot \subseteq Protected(a.y)
      <4>1. /\ \A w \in todo : w \in a.y.live /\ a.y.activated[w]
            /\ \A w \in x.live : x.activated[w] => a.y.activated[w]
        BY <1>5, <1>7, <2>6, <3>2
      <4>2. Protected(x) \subseteq Protected(a.y)
        BY <2>6, <4>1 DEF Protected
      <4>3. {PageOf[x.place[w]] : w \in todo} \subseteq Protected(a.y)
        BY <2>6, <4>1 DEF Protected
      <4> QED BY <1>5, <3>2, <4>2, <4>3
    <3>3. nfail' = 0 => x'.prot \subseteq Protected(x') /\ Owned(x') /\ emulated'
      BY <1>3, <1>4, <2>1, <2>5, <3>1, <3>2
    <3> QED BY <2>1, <3>3 DEF CleanInv
  <2>8. SeenInv'
    <3>1. ASSUME nproc' <= 1, ~stuck'
          PROVE  Served(x') /\ Protected(x') \subseteq x'.prot /\ Watching(x') /\ Unchanged(x')
      <4>1. Served(x) /\ Protected(x) \subseteq x.prot /\ badPages = {}
        BY <1>3, <1>4, <2>1, <3>1
      <4>2. Served(a.y)
        BY <2>5, <4>1
      <4>3. /\ a.y.prot = x.prot \union {PageOf[x.place[w]] : w \in todo}
            /\ \A w \in Wp : a.y.activated[w] <=> x.activated[w] \/ w \in todo
        BY <1>5, <4>1
      <4>4. \A w \in x.live : x.activated[w] => PageOf[x.place[w]] \in x.prot
        BY <4>1 DEF Protected
      <4>5. Protected(a.y) \subseteq a.y.prot
        BY <1>7, <2>6, <4>3, <4>4 DEF Protected
      <4>6. Unchanged(a.y)
        BY <1>5, <1>9, <1>11, <2>6 DEF Unchanged
      <4>7. ASSUME NEW w \in a.y.live, a.y.enabled[w]
            PROVE  PageOf[a.y.place[w]] \in a.y.prot \/ \E r \in Reg : a.y.reg[r] = a.y.place[w]
        <5>1. CASE x.installed[w]
          <6>1. w \in Fitted(a.y)
            BY <1>5, <4>7, <5>1 DEF Fitted
          <6> QED BY <4>2, <6>1 DEF Served
        <5>2. CASE ~x.installed[w] /\ x.activated[w]
          BY <2>6, <4>3, <4>4, <4>7, <5>2
        <5>3. CASE ~x.installed[w] /\ ~x.activated[w]
          BY <1>6, <2>6, <4>3, <4>7, <5>3
        <5> QED BY <5>1, <5>2, <5>3
      <4> QED BY <2>1, <4>2, <4>5, <4>6, <4>7 DEF Watching
    <3>2. nproc' # 0
      BY <1>3, <2>1
    <3> QED BY <2>1, <3>1, <3>2 DEF SeenInv
  <2> QED BY <2>3, <2>4, <2>7, <2>8 DEF IndInv
<1>12. CASE ~changed /\ check_wps /\ ~a.ok
  <2>1. EndRun(a.y, badPages) /\ badPages # {}
    BY <1>2, <1>5, <1>12
  <2>2. ListOk(a.y, unordered) /\ a.y \in Worlds
    BY <1>3, <1>5, KeptOk
  <2>3. /\ nfail' = 0 => Owned(a.y) /\ a.y.prot \subseteq Protected(a.y) /\ (stopres = "SEGV" => own)
        /\ nproc <= 1 /\ ~stuck' => Served(a.y)
    BY <1>4, <2>1
  <2> QED BY <1>1, <2>1, <2>2, <2>3, EndKeeps
<1>13. CASE ~changed /\ ~check_wps
  <2>1. /\ ctl' = "loop" /\ stopres' = "none" /\ x' = x /\ cont_type' = cont_type
        /\ check_wps' = check_wps /\ emulated' = emulated /\ alive' = alive /\ own' = own
        /\ unordered' = unordered /\ nproc' = nproc /\ cont_type = "CONT"
    BY <1>1, <1>2, <1>8, <1>13
  <2>2. TypeOK'
    BY <1>3, <1>4, <2>1 DEF TypeOK
  <2>3. ListInv' /\ RunInv'
    BY <1>1, <1>3, <2>1 DEF IndInv, ListInv, RunInv, InRun
  <2>4. CleanInv'
    BY <1>1, <1>4, <2>1 DEF IndInv, CleanInv, InRun
  <2>5. SeenInv'
    BY <1>1, <1>4, <1>9, <1>13, <2>1 DEF IndInv, SeenInv, InRun
  <2> QED BY <2>2, <2>3, <2>4, <2>5 DEF IndInv
<1> QED BY <1>5, <1>8, <1>10, <1>11, <1>12, <1>13

(* The invariant is kept by a write of the program. *)
LEMMA WriteKeeps ==
  ASSUME IndInv, NEW p \in Place, NEW v \in Val, Write(p, v)
  PROVE  IndInv'
<1>1. /\ ctl = "run" /\ ~own /\ alive' = alive /\ cont_type' = cont_type /\ check_wps' = check_wps
      /\ emulated' = emulated /\ own' = own /\ unordered' = unordered /\ nproc' = nproc
      /\ stuck' = stuck /\ nfail' = nfail
  BY DEF Write, Targets, failVars
<1>2. TypeOK /\ InRun /\ ListInv /\ RunInv /\ CleanInv /\ SeenInv
  BY <1>1 DEF IndInv, InRun
<1>3. x \in Worlds /\ ListOk(x, unordered)
  BY <1>2, Walked
<1>4. CASE PageOf[p] \in x.prot
  <2>1. ctl' = "stopped" /\ stopres' = "SEGV" /\ x' = x
    BY <1>4 DEF Write, StopWith
  <2>2. nfail = 0 => emulated
    BY <1>2, <1>4 DEF CleanInv
  <2>3. TypeOK' /\ ListInv' /\ RunInv'
    BY <1>1, <1>2, <2>1 DEF TypeOK, ListInv, RunInv, InRun
  <2>4. CleanInv'
    BY <1>1, <1>2, <2>1, <2>2 DEF CleanInv, InRun
  <2>5. SeenInv'
    BY <1>1, <1>2, <2>1 DEF SeenInv, InRun
  <2> QED BY <2>3, <2>4, <2>5 DEF IndInv
<1>5. CASE PageOf[p] \notin x.prot
  <2> DEFINE mm == [x.mem EXCEPT ![p] = v]
  <2>1. /\ x' = [x EXCEPT !.mem = mm]
        /\ \/ (\E r \in Reg : x.reg[r] = p) /\ ctl' = "stopped" /\ stopres' = "WPT"
           \/ cont_type = "STEP" /\ ctl' = "stopped" /\ stopres' = "SSTEP"
           \/ /\ \A r \in Reg : x.reg[r] # p
              /\ cont_type # "STEP" /\ ctl' = ctl /\ stopres' = stopres
    BY <1>5 DEF Write, StopWith
  <2>2. mm \in [Place -> Val] /\ \A q \in Place : q # p => mm[q] = x.mem[q]
    <3>1. x.mem \in [Place -> Val]
      BY <1>3, WorldTypes
    <3> QED BY <3>1
  <2> HIDE DEF mm
  <2>3. /\ x' \in Worlds /\ Kept(x, x') /\ x'.installed = x.installed /\ x'.activated = x.activated
        /\ x'.val = x.val /\ x'.reg = x.reg /\ x'.prot = x.prot /\ x'.mem = mm
    BY <1>3, <2>1, <2>2 DEF Worlds, Kept
  <2>4. x'.live = x.live /\ x'.place = x.place /\ x'.enabled = x.enabled
    BY <2>3 DEF Kept
  <2>5. ListOk(x', unordered')
    BY <1>1, <1>3, <2>3, KeptOk
  <2>6. (Owned(x) => Owned(x')) /\ (Served(x) => Served(x')) /\ Protected(x') = Protected(x)
    BY <2>3, <2>4, SameOwners DEF Protected
  <2>7. Watching(x) => Watching(x')
    BY <2>3, <2>4 DEF Watching
  <2>8. TypeOK'
    BY <1>1, <1>2, <2>1, <2>3 DEF TypeOK
  <2>9. ListInv' /\ RunInv'
    BY <1>1, <1>2, <2>1, <2>5 DEF ListInv, RunInv, InRun
  <2>10. CleanInv'
    <3>1. nfail = 0 => x.prot \subseteq Protected(x) /\ Owned(x) /\ (x.prot # {} \/ check_wps => emulated)
      BY <1>2 DEF CleanInv
    <3>2. ctl' \in {"stopped", "run"} /\ ~(ctl' = "stopped" /\ stopres' = "SEGV")
      BY <1>1, <2>1
    <3> QED BY <1>1, <2>3, <2>6, <3>1, <3>2 DEF CleanInv
  <2>11. SeenInv'
    <3>1. ASSUME nproc <= 1, ~stuck, cont_type = "CONT", ctl' \in {"loop", "run"} PROVE Unchanged(x')
      <4>1. Watching(x) /\ Unchanged(x)
        BY <1>1, <1>2, <3>1 DEF SeenInv
      <4>2. \A r \in Reg : x.reg[r] # p
        BY <2>1, <3>1
      <4>3. ASSUME NEW w \in x.live, x.enabled[w] PROVE x'.mem[x'.place[w]] = x'.val[w]
        <5>1. x.place[w] # p
          BY <1>5, <4>1, <4>2, <4>3 DEF Watching
        <5>2. x.place[w] \in Place
          BY <1>3, WorldTypes
        <5>3. x.mem[x.place[w]] = x.val[w]
          BY <4>1, <4>3 DEF Unchanged
        <5> QED BY <2>2, <2>3, <2>4, <5>1, <5>2, <5>3
      <4> QED BY <2>4, <4>3 DEF Unchanged
    <3>2. ctl' \in {"stopped", "run"}
      BY <1>1, <2>1
    <3>3. nproc <= 1 /\ ~stuck =>
            /\ alive => nproc # 0 /\ Served(x) /\ Protected(x) \subseteq x.prot
            /\ cont_type = "CONT" => Watching(x)
      BY <1>2 DEF SeenInv, RunInv
    <3>4. alive
      BY <1>2 DEF RunInv
    <3> QED BY <1>1, <2>3, <2>6, <2>7, <3>1, <3>2, <3>3, <3>4 DEF SeenInv, InRun
  <2> QED BY <2>8, <2>9, <2>10, <2>11 DEF IndInv
<1> QED BY <1>4, <1>5

-----------------------------------------------------------------------------
(* The invariant holds at the start. *)
LEMMA InitHolds ==
  ASSUME Init
  PROVE  IndInv
<1>1. NoVal \in Val /\ NoPlace \in Place /\ Wphead \in Cell
  BY WatchAssumption DEF NoVal, NoPlace, Cell
<1>2. Blank \in Worlds
  <2>1. /\ [c \in Cell |-> Wphead] \in [Cell -> Cell]
        /\ [w \in Wp |-> NoPlace] \in [Wp -> Place] /\ [w \in Wp |-> FALSE] \in [Wp -> BOOLEAN]
        /\ [w \in Wp |-> NoVal] \in [Wp -> Val]
        /\ [r \in Reg |-> Nowhere] \in [Reg -> Place \union {Nowhere}]
        /\ [p \in Place |-> NoVal] \in [Place -> Val]
    BY <1>1
  <2> QED BY <2>1 DEF Blank, Worlds
<1>3. Blank.live = {} /\ Blank.prot = {} /\ Blank.next[Wphead] = Wphead
      /\ \A r \in Reg : Blank.reg[r] = Nowhere
  BY <1>1 DEF Blank
<1>4. Links(Blank, <<>>) /\ Back(Blank, <<>>) /\ BackExact(Blank, <<>>)
  BY <1>3, WatchAssumption DEF Links, Chain, End, Back, BackExact
<1>5. ListOk(Blank, FALSE)
  BY <1>2, <1>4, LinksOk
<1>6. TypeOK
  <2>1. 0 \in 0 .. MaxProc /\ 0 \in 0 .. MaxFail
    BY WatchAssumption
  <2>2. x \in Worlds /\ nproc \in 0 .. MaxProc /\ nfail \in 0 .. MaxFail
    BY <1>2, <2>1 DEF Init
  <2> QED BY <2>2, Zenon DEF Init, TypeOK
<1>7. ListInv /\ RunInv
  BY <1>5 DEF Init, ListInv, RunInv, InRun
<1>8. CleanInv
  BY <1>3 DEF Init, CleanInv, InRun, Clear
<1>9. SeenInv
  BY <1>3 DEF Init, SeenInv, InRun
<1> QED BY <1>6, <1>7, <1>8, <1>9 DEF IndInv

(* Every step keeps the invariant. *)
LEMMA NextKeeps ==
  ASSUME IndInv, [Next]_vars
  PROVE  IndInv'
<1>1. CASE Debugger
  <2>1. CASE Restart
    BY <2>1, RestartKeeps
  <2>2. CASE TargetDied
    BY <2>2, DiedKeeps
  <2>3. ASSUME NEW badPages \in FewOf(Page),
               UserStopped(badPages) \/ Faulted(badPages) \/ Watched(badPages)
        PROVE  IndInv'
    BY <2>3, UserStoppedKeeps, FaultedKeeps, WatchedKeeps
  <2> QED BY <1>1, <2>1, <2>2, <2>3 DEF Debugger
<1>2. CASE Command
  <2>1. ASSUME NEW w \in Wp, NEW p \in Place, add_watchpoint_object(w, p) PROVE IndInv'
    BY <2>1, AddKeeps
  <2>2. ASSUME NEW w \in Wp, remove_watchpoint_object(w) PROVE IndInv'
    BY <2>2, RemoveKeeps
  <2>3. ASSUME NEW w \in Wp, NEW u \in Wp, NEW p \in Place, move_wpt(w, u, p) PROVE IndInv'
    BY <2>3, MoveKeeps
  <2>4. ASSUME NEW w \in Wp, NEW on \in BOOLEAN, set_wpt_state(w, on) PROVE IndInv'
    BY <2>4, EnableKeeps
  <2>5. CASE FollowDangling \/ Kill
    BY <2>5, DanglingKeeps, KillKeeps
  <2>6. ASSUME NEW bad \in FewOf(Place), NEW badPages \in FewOf(Page),
               Cont(bad, badPages) \/ StartRuns(bad, badPages)
        PROVE  IndInv'
    BY <2>6, ContKeeps, StartRunsKeeps
  <2>7. ASSUME NEW badPages \in FewOf(Page), StartStops(badPages) PROVE IndInv'
    BY <2>7, StartStopsKeeps
  <2> QED BY <1>2, <2>1, <2>2, <2>3, <2>4, <2>5, <2>6, <2>7 DEF Command
<1>3. CASE Program
  <2>1. ASSUME NEW p \in Place, NEW v \in Val, Write(p, v) PROVE IndInv'
    BY <2>1, WriteKeeps
  <2>2. CASE OwnFault \/ \E why \in {"USER", "DIED"} : Disturb(why)
    BY <2>2, StopKeeps
  <2> QED BY <1>3, <2>1, <2>2 DEF Program
<1>4. CASE UNCHANGED vars
  <2>1. /\ x' = x /\ alive' = alive /\ ctl' = ctl /\ stopres' = stopres /\ cont_type' = cont_type
        /\ check_wps' = check_wps /\ emulated' = emulated /\ own' = own /\ unordered' = unordered
        /\ nproc' = nproc /\ stuck' = stuck /\ nfail' = nfail
    BY <1>4 DEF vars, runVars, failVars
  <2>2. TypeOK' /\ ListInv' /\ RunInv'
    BY <2>1 DEF IndInv, TypeOK, ListInv, RunInv, InRun
  <2>3. CleanInv' /\ SeenInv'
    BY <2>1 DEF IndInv, CleanInv, SeenInv, InRun
  <2> QED BY <2>2, <2>3 DEF IndInv
<1> QED BY <1>1, <1>2, <1>3, <1>4 DEF Next, Wild

(* The list, the registers, the pages and the flags of the watchpoints     *)
(* stay related as IndInv says through every command of the user, every    *)
(* stop that dx_run_target_ss acts on and every step of the target.        *)
THEOREM WatchpointsInvariance == Spec => []IndInv
<1>1. Init => IndInv
  BY InitHolds
<1>2. IndInv /\ [Next]_vars => IndInv'
  BY NextKeeps
<1> QED BY <1>1, <1>2, PTL DEF Spec

(* The watchpoint structures, the debug registers and the state of a run   *)
(* keep their types.                                                       *)
THEOREM WatchTypeCorrect == Spec => []TypeOK
<1>1. IndInv => TypeOK
  BY DEF IndInv
<1> QED BY <1>1, WatchpointsInvariance, PTL

(* As long as watchpoints are removed oldest first, the walk of wp.c from  *)
(* Wphead visits exactly those that were added and not removed, however    *)
(* many there are: the slip of dx_remove_watchpoint in wp_prev harms only  *)
(* other orders.                                                           *)
THEOREM ListStaysSound == Spec => []ListSound
<1>1. IndInv => ListSound
  <2>1. SUFFICES ASSUME IndInv, ~unordered PROVE Walkable(x) /\ Listed(x) = x.live
    BY DEF ListSound
  <2>2. x \in Worlds /\ ListOk(x, unordered)
    BY <2>1 DEF IndInv, TypeOK, ListInv
  <2>3. Links(x, List(x)) /\ Sound(x)
    BY <2>2 DEF ListOk, Sound
  <2> QED BY <2>2, <2>3, ListedIs, LinksWalkable
<1> QED BY <1>1, WatchpointsInvariance, PTL

(* Whatever ended the run, and whatever was added, removed or moved since  *)
(* the watchpoints were installed, the user's process has no debug         *)
(* register in use and no read-only page: uninstall_all_watchpoints finds  *)
(* for each register in use a watchpoint of its own.                       *)
THEOREM IdleIsClean == Spec => []CleanWhenIdle
<1>1. IndInv => CleanWhenIdle
  BY DEF IndInv, CleanInv, CleanWhenIdle, Clear
<1> QED BY <1>1, WatchpointsInvariance, PTL

(* A fault on a page that was protected for a watchpoint never ends a run  *)
(* as SR_SIG: only the program's own faults do.                            *)
THEOREM FaultsAreOwn == Spec => []OwnFaultsOnly
<1>1. IndInv => OwnFaultsOnly
  BY DEF IndInv, CleanInv, OwnFaultsOnly
<1> QED BY <1>1, WatchpointsInvariance, PTL

(* In the first process no change of a watched area goes unseen, for any   *)
(* number of watchpoints, debug registers and pages, as long as mprotect   *)
(* has not failed: what counts as installed has a register that watches    *)
(* its area, and what counts as activated lies on a read-only page.        *)
THEOREM AllSeen == Spec => []AllSeenInFirstProcess
<1>1. IndInv => AllSeenInFirstProcess
  BY DEF IndInv, SeenInv, AllSeenInFirstProcess, NoUnseenChange, Unchanged
<1> QED BY <1>1, WatchpointsInvariance, PTL
================================================================================
