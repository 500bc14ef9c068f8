---------------------------- MODULE LookupProofs ----------------------------
(***************************************************************************)
(* Proofs about Lookup, for any environments, symbols, values, compiled    *)
(* blocks and workloads.                                                   *)
(***************************************************************************)
EXTENDS Lookup, WellFoundedInduction, FiniteSetTheorems, TLAPS

-----------------------------------------------------------------------------
(* The inductive invariant. *)

KindOf(s) == IF s.kind = "global_operator" THEN "operator" ELSE s.kind

\* The programs for which the caches are right: they link no variables, they unbind no
\* parameter and no variable that compiled code calls, their blocks are inside the global
\* environment, and blocks with global operator references are directly in it.
Tame(w) ==
  /\ w.link = {}
  /\ \A u \in w.unbind : /\ \A f \in Frames : u[2] \notin Params[f]
                         /\ \A s \in w.sites : s.name = u[2] => KindOf(s) # "operator"
  /\ \A s \in w.sites : /\ Global \in Enclosing[BlockEnv[s.block]]
                        /\ s.kind = "global_operator" => BlockEnv[s.block] = Global

\* A reference list that has one entry for a name, and the sites it lists for a name.
Entry == [name : Symbols, refs : SUBSET Sites]
AList == {a \in Seq(Entry) : \A i, j \in DOMAIN a : a[i].name = a[j].name => i = j}
Listed(a, sym) == UNION {a[i].refs : i \in EntriesNamed(a, sym)}

NoSlot == [to |-> "none", id |-> NoCell]
Slot == [to : {"none"}, id : {NoCell}] \cup [to : {"cache", "clone", "fake"}, id : Caches]
          \cup [to : {"proc"}, id : Values]
HeapType ==
  [cell : [Cells -> Values \cup Traps \cup Caches], ext : [Frames -> SUBSET Symbols],
   trap : [Caches -> Caches], val : [Caches -> Values \cup Traps \cup {NoCell}],
   clone : [Caches -> BOOLEAN], refs : [Caches -> [Kinds -> AList]],
   slot : [Sites -> Slot], strong : SUBSET Symbols]

\* No two cells share a cache, and a cell's cache is not free.
CellsOK(h) ==
  /\ \A c \in Caches : h.trap[c] = c
  /\ \A x \in Cells : Cached(h, x) => /\ h.val[h.cell[x]] # NoCell
                                      /\ \A y \in Cells : h.cell[y] = h.cell[x] => y = x

\* w[s] is the cache of site s, NoCell if s is not linked.  The site is listed there and
\* nowhere else, and holds what that cache installs, unless it is one of Z.
Where == [Sites -> Caches \cup {NoCell}]
Recorded(h, w) ==
  \A s \in Sites : w[s] # NoCell => /\ h.val[w[s]] # NoCell
                                   /\ s \in Listed(h.refs[w[s]][KindOf(s)], s.name)
OnlyRecorded(h, w) ==
  \A c \in Caches, k \in Kinds, n \in Symbols : \A s \in Listed(h.refs[c][k], n) :
     c = w[s] /\ k = KindOf(s) /\ n = s.name
Installed(h, w, Z) ==
  \A s \in Sites \ Z :
     h.slot[s] = IF w[s] = NoCell THEN NoSlot ELSE install_cache(h, w[s], KindOf(s))

HeapOK(h, w, Z) ==
  /\ h \in HeapType /\ CellsOK(h) /\ w \in Where
  /\ Recorded(h, w) /\ OnlyRecorded(h, w) /\ Installed(h, w, Z)

\* Assignments to a cache with operator references go through a clone.
CloneOK(h, c) == NeedsClone(h, c) => h.clone[c]

AllClones(h) == \A c \in Caches : CloneOK(h, c)

\* Every site is with the cache of the cell that a search finds.
Home(h, s) == find_binding_cell(h, SiteEnv(s), s.name)
Tied(h, w) == \A s \in Sites : w[s] # NoCell => Home(h, s) # NoCell /\ w[s] = h.cell[Home(h, s)]

ArgsBound(h) == \A f \in Frames : \A sym \in Params[f] : h.cell[<<f, sym, "arg">>] # Unbound

SitesOf(w, load0) == \A s \in Sites : w[s] # NoCell => s \in load0.sites

Good(h, w) == ArgsBound(h) /\ AllClones(h) /\ HeapOK(h, w, {}) /\ Tied(h, w)
Right(h, load0) == \E w : Good(h, w) /\ SitesOf(w, load0)

IInv == load \in Workloads /\ (Tame(load) => hung = {} /\ Right(heap, load))

-----------------------------------------------------------------------------
(* Environments. *)

\* The frames around a frame: the least closed set.
LEMMA EnclosingClosed ==
  ASSUME NEW e \in Env
  PROVE  /\ e \in Enclosing[e] /\ Enclosing[e] \subseteq Env
         /\ \A y \in Enclosing[e] \cap Frames : Parent[y] \in Enclosing[e]
<1>1. \A y \in Frames : Parent[y] \in Env
  BY EnvAssumption
<1>2. QED
  BY <1>1 DEF Enclosing

LEMMA EnclosingLeast ==
  ASSUME NEW e \in Env, NEW S \in SUBSET Env, e \in S,
         \A y \in S \cap Frames : Parent[y] \in S
  PROVE  Enclosing[e] \subseteq S
  BY DEF Enclosing

LEMMA EnclosingTop ==
  ASSUME NEW e \in Env, e \notin Frames
  PROVE  Enclosing[e] = {e}
<1>1. Enclosing[e] \subseteq {e}
  BY EnclosingLeast
<1>2. QED
  BY <1>1, EnclosingClosed

LEMMA EnclosingTransitive ==
  ASSUME NEW e \in Env, NEW d \in Enclosing[e]
  PROVE  Enclosing[d] \subseteq Enclosing[e]
<1>1. d \in Env /\ Enclosing[e] \in SUBSET Env
  BY EnclosingClosed
<1>2. \A y \in Enclosing[e] \cap Frames : Parent[y] \in Enclosing[e]
  BY EnclosingClosed
<1>3. QED
  BY <1>1, <1>2, EnclosingLeast

LEMMA EnclosingFrame ==
  ASSUME NEW e \in Frames
  PROVE  /\ Parent[e] \in Env /\ e \in Env
         /\ Enclosing[e] = {e} \cup Enclosing[Parent[e]]
<1>1. Parent[e] \in Env /\ e \in Env
  BY EnvAssumption DEF Env
<1> DEFINE S == {e} \cup Enclosing[Parent[e]]
<1>2. Parent[e] \in Enclosing[Parent[e]] /\ S \in SUBSET Env
  BY <1>1, EnclosingClosed
<1>3. \A y \in S \cap Frames : Parent[y] \in S
  BY <1>1, <1>2, EnclosingClosed
<1>4. Enclosing[e] \subseteq S
  <2> HIDE DEF S
  <2>1. e \in S
    BY DEF S
  <2>2. QED
    BY <1>1, <1>2, <1>3, <2>1, EnclosingLeast
<1>5. e \in Enclosing[e] /\ Parent[e] \in Enclosing[e]
  BY <1>1, EnclosingClosed
<1>6. Enclosing[Parent[e]] \subseteq Enclosing[e]
  BY <1>1, <1>5, EnclosingTransitive
<1>7. QED
  BY <1>1, <1>4, <1>5, <1>6

\* Of two frames around a third one is around the other.
LEMMA EnclosingTotal ==
  ASSUME NEW e \in Env, NEW x \in Enclosing[e], NEW y \in Enclosing[e]
  PROVE  x \in Enclosing[y] \/ y \in Enclosing[x]
<1> DEFINE S == {z \in Enclosing[e] : y \in Enclosing[z] \/ z \in Enclosing[y]}
<1>1. Enclosing[e] \in SUBSET Env /\ y \in Env /\ S \in SUBSET Env /\ e \in S
  BY EnclosingClosed
<1>2. ASSUME NEW z \in S \cap Frames
      PROVE  Parent[z] \in S
  <2>1. z \in Env /\ Parent[z] \in Enclosing[e]
    BY <1>1, EnclosingClosed
  <2>2. CASE z \in Enclosing[y]
    <3>1. Parent[z] \in Enclosing[y]
      BY <1>1, <2>2, EnclosingClosed
    <3>2. QED
      BY <2>1, <3>1
  <2>3. CASE y \in Enclosing[z]
    <3>1. y = z \/ y \in Enclosing[Parent[z]]
      BY <2>3, EnclosingFrame
    <3>2. Parent[z] \in Enclosing[z]
      BY <2>1, EnclosingClosed
    <3>3. QED
      BY <2>1, <3>1, <3>2
  <2>4. QED
    BY <2>2, <2>3
<1>3. Enclosing[e] \subseteq S
  <2> HIDE DEF S
  <2>1. QED
    BY <1>1, <1>2, EnclosingLeast
<1>4. QED
  BY <1>3

\* No frame is around its parent.
LEMMA EnclosingAcyclic ==
  ASSUME NEW f \in Frames
  PROVE  f \notin Enclosing[Parent[f]]
<1> SUFFICES ASSUME f \in Enclosing[Parent[f]]
             PROVE  FALSE
  OBVIOUS
<1> DEFINE S == {z \in Enclosing[f] : f \in Enclosing[z]}
<1>1. f \in Env /\ Enclosing[f] \in SUBSET Env /\ f \in Enclosing[f]
  BY EnclosingClosed DEF Env
<1>2. f \in S /\ S \in SUBSET Env
  BY <1>1
<1>3. ASSUME NEW z \in S \cap Frames
      PROVE  Parent[z] \in S
  <2>1. Parent[z] \in Enclosing[f]
    BY <1>1, EnclosingClosed
  <2>2. f = z \/ f \in Enclosing[Parent[z]]
    BY EnclosingFrame
  <2>3. QED
    BY <2>1, <2>2
<1>4. Enclosing[f] \subseteq S
  <2> HIDE DEF S
  <2>1. QED
    BY <1>1, <1>2, <1>3, EnclosingLeast
<1>5. PICK g \in Enclosing[f] : g \in {Global, NullEnv}
  BY <1>1, EnvAssumption
<1>6. g \in Env /\ g \notin Frames
  BY <1>5, EnvAssumption DEF Env
<1>7. Enclosing[g] = {g}
  BY <1>6, EnclosingTop
<1>8. QED
  BY <1>4, <1>6, <1>7

LEMMA EnclosingAntisymmetric ==
  ASSUME NEW x \in Env, NEW y \in Enclosing[x], x \in Enclosing[y]
  PROVE  x = y
<1> SUFFICES ASSUME x # y
             PROVE  FALSE
  OBVIOUS
<1>1. x \in Frames
  BY EnclosingTop
<1>2. y \in Enclosing[Parent[x]] /\ Parent[x] \in Env
  BY <1>1, EnclosingFrame
<1>3. x \in Enclosing[Parent[x]]
  BY <1>2, EnclosingTransitive
<1>4. QED
  BY <1>1, <1>3, EnclosingAcyclic

\* A set of frames that has the outermost ones has a first one around any frame.
LEMMA FirstAround ==
  ASSUME NEW T \in SUBSET Env, Env \ Frames \subseteq T, NEW e \in Env
  PROVE  \E f \in T \cap Enclosing[e] : T \cap Enclosing[e] \subseteq Enclosing[f]
<1> DEFINE Has(x) == \E f \in T \cap Enclosing[x] : T \cap Enclosing[x] \subseteq Enclosing[f]
           S == {x \in Env : ~Has(x)}
<1>1. \A x \in Env \ Frames : Has(x)
  BY EnclosingTop
<1>2. ASSUME NEW x \in S \cap Frames
      PROVE  Parent[x] \in S
  <2> SUFFICES ASSUME Has(Parent[x])
               PROVE  Has(x)
    BY EnclosingFrame
  <2>1. Enclosing[x] = {x} \cup Enclosing[Parent[x]] /\ x \in Env
    BY EnclosingFrame
  <2>2. CASE x \in T
    BY <2>1, <2>2
  <2>3. CASE x \notin T
    BY <2>1, <2>3
  <2>4. QED
    BY <2>2, <2>3
<1>3. CASE Has(e)
  BY <1>3
<1>4. CASE ~Has(e)
  <2>1. Enclosing[e] \subseteq S
    <3>1. e \in S /\ S \in SUBSET Env
      BY <1>4
    <3> HIDE DEF S
    <3>2. QED
      BY <1>2, <3>1, EnclosingLeast
  <2>2. PICK g \in Enclosing[e] : g \in {Global, NullEnv}
    BY EnvAssumption
  <2>3. g \in Env \ Frames
    BY <2>2, EnvAssumption DEF Env
  <2>4. QED
    BY <1>1, <2>1, <2>3
<1>5. QED
  BY <1>3, <1>4

-----------------------------------------------------------------------------
(* The search for a binding. *)

Stops(h, f, sym) == f \notin Frames \/ scan_frame(h, f, sym, FALSE) # NoCell

\* The search stops at the first place around e where it can.
LEMMA SearchStops ==
  ASSUME NEW h, NEW sym, NEW e \in Env
  PROVE  LET f == BindingFrame(h, e, sym)
         IN  /\ f \in Enclosing[e] /\ Stops(h, f, sym)
             /\ \A g \in Enclosing[e] : Stops(h, g, sym) => g \in Enclosing[f]
<1> DEFINE T == {f \in Env : Stops(h, f, sym)}
           stops == {f \in Enclosing[e] : Stops(h, f, sym)}
<1>1. T \in SUBSET Env /\ Env \ Frames \subseteq T
  BY DEF Stops
<1>2. stops = T \cap Enclosing[e]
  BY EnclosingClosed
<1>3. \E f \in stops : stops \subseteq Enclosing[f]
  <2> HIDE DEF T
  <2>1. QED
    BY <1>1, <1>2, FirstAround
<1>4. BindingFrame(h, e, sym) = CHOOSE f \in stops : stops \subseteq Enclosing[f]
  BY DEF BindingFrame, Stops
<1> HIDE DEF T
<1>5. /\ BindingFrame(h, e, sym) \in stops
      /\ stops \subseteq Enclosing[BindingFrame(h, e, sym)]
  <2> HIDE DEF stops
  <2>1. QED
    BY <1>3, <1>4
<1>6. QED
  BY <1>5

LEMMA SearchUnique ==
  ASSUME NEW h, NEW sym, NEW e \in Env, NEW b \in Enclosing[e], Stops(h, b, sym),
         \A g \in Enclosing[e] : Stops(h, g, sym) => g \in Enclosing[b]
  PROVE  BindingFrame(h, e, sym) = b
<1> DEFINE f == BindingFrame(h, e, sym)
<1>1. /\ f \in Enclosing[e] /\ Stops(h, f, sym)
      /\ \A g \in Enclosing[e] : Stops(h, g, sym) => g \in Enclosing[f]
  BY SearchStops
<1> HIDE DEF f
<1>2. f \in Enclosing[b] /\ b \in Enclosing[f] /\ b \in Env
  BY <1>1, EnclosingClosed
<1>3. f = b
  BY <1>2, EnclosingAntisymmetric
<1>4. QED
  BY <1>3 DEF f

\* A search that begins further out and not beyond the binding finds the same one.
LEMMA SearchFromOuter ==
  ASSUME NEW h, NEW sym, NEW e \in Env, NEW d \in Enclosing[e],
         BindingFrame(h, e, sym) \in Enclosing[d]
  PROVE  BindingFrame(h, d, sym) = BindingFrame(h, e, sym)
<1> DEFINE f == BindingFrame(h, e, sym)
<1>1. /\ f \in Enclosing[e] /\ Stops(h, f, sym)
      /\ \A g \in Enclosing[e] : Stops(h, g, sym) => g \in Enclosing[f]
  BY SearchStops
<1>2. f \in Enclosing[d]
  OBVIOUS
<1> HIDE DEF f
<1>3. d \in Env /\ Enclosing[d] \subseteq Enclosing[e]
  BY EnclosingClosed, EnclosingTransitive
<1>4. BindingFrame(h, d, sym) = f
  BY <1>1, <1>2, <1>3, SearchUnique
<1>5. QED
  BY <1>4 DEF f

LEMMA SearchSame ==
  ASSUME NEW h, NEW g, NEW sym, NEW e \in Env,
         \A f \in Env : Stops(g, f, sym) <=> Stops(h, f, sym)
  PROVE  BindingFrame(g, e, sym) = BindingFrame(h, e, sym)
<1> DEFINE f == BindingFrame(h, e, sym)
<1>1. /\ f \in Enclosing[e] /\ Stops(h, f, sym)
      /\ \A d \in Enclosing[e] : Stops(h, d, sym) => d \in Enclosing[f]
  BY SearchStops
<1> HIDE DEF f
<1>2. BindingFrame(g, e, sym) = f
  BY <1>1, EnclosingClosed, SearchUnique
<1>3. QED
  BY <1>2 DEF f

\* A new binding in n is found from inside n by the searches that went past n.
LEMMA SearchNewBinding ==
  ASSUME NEW h, NEW g, NEW sym, NEW n \in Frames, NEW e \in Env, ~Stops(h, n, sym),
         \A f \in Env : Stops(g, f, sym) <=> Stops(h, f, sym) \/ f = n
  PROVE  BindingFrame(g, e, sym) =
           IF n \in Enclosing[e] /\ BindingFrame(h, e, sym) \in Enclosing[n]
           THEN n ELSE BindingFrame(h, e, sym)
<1> DEFINE f == BindingFrame(h, e, sym)
<1>1. /\ f \in Enclosing[e] /\ Stops(h, f, sym)
      /\ \A d \in Enclosing[e] : Stops(h, d, sym) => d \in Enclosing[f]
  BY SearchStops
<1> HIDE DEF f
<1>2. n \in Env /\ f \in Env /\ n \in Enclosing[n] /\ Enclosing[e] \subseteq Env
  BY <1>1, EnclosingClosed DEF Env
<1>3. CASE n \in Enclosing[e] /\ f \in Enclosing[n]
  <2>1. \A d \in Enclosing[e] : Stops(g, d, sym) => d \in Enclosing[n]
    BY <1>1, <1>2, <1>3, EnclosingTransitive
  <2>2. Stops(g, n, sym)
    BY <1>2
  <2>3. BindingFrame(g, e, sym) = n
    BY <1>3, <2>1, <2>2, SearchUnique
  <2>4. QED
    BY <1>3, <2>3 DEF f
<1>4. CASE ~(n \in Enclosing[e] /\ f \in Enclosing[n])
  <2>1. n \in Enclosing[e] => n \in Enclosing[f]
    BY <1>1, <1>4, EnclosingTotal
  <2>2. \A d \in Enclosing[e] : Stops(g, d, sym) => d \in Enclosing[f]
    BY <1>1, <1>2, <2>1
  <2>3. Stops(g, f, sym)
    BY <1>1, <1>2
  <2>4. BindingFrame(g, e, sym) = f
    BY <1>1, <2>2, <2>3, SearchUnique
  <2>5. QED
    BY <1>4, <2>4 DEF f
<1>5. QED
  BY <1>3, <1>4

\* When the binding in n goes, the searches that found it go on to the next one.
LEMMA SearchLostBinding ==
  ASSUME NEW h, NEW g, NEW sym, NEW n \in Frames, NEW e \in Env,
         \A f \in Env : Stops(g, f, sym) <=> Stops(h, f, sym) /\ f # n
  PROVE  BindingFrame(g, e, sym) =
           IF BindingFrame(h, e, sym) = n THEN BindingFrame(h, Parent[n], sym)
           ELSE BindingFrame(h, e, sym)
<1> DEFINE f == BindingFrame(h, e, sym)
           b == BindingFrame(h, Parent[n], sym)
<1>0. n \in Env /\ Parent[n] \in Env /\ Enclosing[n] = {n} \cup Enclosing[Parent[n]]
  BY EnclosingFrame
<1>1. /\ f \in Enclosing[e] /\ Stops(h, f, sym)
      /\ \A d \in Enclosing[e] : Stops(h, d, sym) => d \in Enclosing[f]
  BY SearchStops
<1>2. /\ b \in Enclosing[Parent[n]] /\ Stops(h, b, sym)
      /\ \A d \in Enclosing[Parent[n]] : Stops(h, d, sym) => d \in Enclosing[b]
  BY <1>0, SearchStops
<1> HIDE DEF f, b
<1>3. f \in Env /\ b \in Env /\ Enclosing[e] \subseteq Env
  BY <1>0, <1>1, <1>2, EnclosingClosed
<1>4. CASE f = n
  <2>1. b # n
    BY <1>2, EnclosingAcyclic
  <2>2. b \in Enclosing[e] /\ Stops(g, b, sym)
    <3>1. Enclosing[n] \subseteq Enclosing[e]
      BY <1>1, <1>4, EnclosingTransitive
    <3>2. QED
      BY <1>0, <1>2, <1>3, <2>1, <3>1
  <2>3. \A d \in Enclosing[e] : Stops(g, d, sym) => d \in Enclosing[b]
    BY <1>0, <1>1, <1>2, <1>3, <1>4
  <2>4. BindingFrame(g, e, sym) = b
    BY <2>2, <2>3, SearchUnique
  <2>5. QED
    BY <1>4, <2>4 DEF f, b
<1>5. CASE f # n
  <2>1. Stops(g, f, sym) /\ \A d \in Enclosing[e] : Stops(g, d, sym) => d \in Enclosing[f]
    BY <1>1, <1>3, <1>5
  <2>2. BindingFrame(g, e, sym) = f
    BY <1>1, <2>1, SearchUnique
  <2>3. QED
    BY <1>5, <2>2 DEF f
<1>6. QED
  BY <1>4, <1>5

-----------------------------------------------------------------------------
(* Reference lists. *)

LEMMA Least ==
  ASSUME NEW T \in SUBSET Nat, T # {}
  PROVE  \E x \in T : \A y \in T : x <= y
<1> DEFINE R == OpToRel(<, Nat)
<1>1. IsWellFoundedOn(R, Nat)
  BY NatLessThanWellFounded
<1>2. PICK x \in T : \A y \in T : ~(<<y, x>> \in R)
  <2> HIDE DEF R
  <2>1. QED
    BY <1>1, WFMin
<1>3. \A y \in T : ~(y < x)
  BY <1>2 DEF OpToRel
<1>4. QED
  BY <1>3

\* What WALK_REFERENCES has kept of a after i entries, given what it had kept before.
Keep(a, i, before) == IF a[i].refs = {} THEN before ELSE Append(before, a[i])
Kept(a) ==
  CHOOSE kept : kept = [i \in 0 .. Len(a) |-> IF i = 0 THEN <<>> ELSE Keep(a, i, kept[i - 1])]
Keeps(f, a, n) ==
  f \in [0 .. n -> Seq(Entry)] /\ \A i \in 0 .. n : f[i] = IF i = 0 THEN <<>> ELSE Keep(a, i, f[i - 1])

LEMMA WalkedIsKept ==
  ASSUME NEW a
  PROVE  walked(a) = Kept(a)[Len(a)]
  BY Zenon DEF walked, Kept, Keep

LEMMA KeepType ==
  ASSUME NEW a \in Seq(Entry), NEW i \in 1 .. Len(a), NEW s \in Seq(Entry)
  PROVE  Keep(a, i, s) \in Seq(Entry)
<1>1. a[i] \in Entry
  OBVIOUS
<1>2. Append(s, a[i]) \in Seq(Entry)
  BY <1>1
<1>3. QED
  BY <1>2 DEF Keep

LEMMA KeepsExists ==
  ASSUME NEW a \in Seq(Entry)
  PROVE  \E f : Keeps(f, a, Len(a))
<1> DEFINE T == {m \in Nat : m <= Len(a) /\ ~\E f : Keeps(f, a, m)}
<1>1. CASE T = {}
  <2>1. Len(a) \in Nat
    OBVIOUS
  <2>2. QED
    BY <1>1, <2>1
<1>2. CASE T # {}
  <2>1. PICK m \in T : \A y \in T : m <= y
    <3>1. T \in SUBSET Nat
      OBVIOUS
    <3> HIDE DEF T
    <3>2. QED
      BY <1>2, <3>1, Least
  <2>2. m \in Nat /\ m <= Len(a) /\ Len(a) \in Nat
    OBVIOUS
  <2>3. CASE m = 0
    <3>1. Keeps([i \in 0 .. 0 |-> <<>>], a, 0)
      <4>1. <<>> \in Seq(Entry)
        OBVIOUS
      <4>2. \A i \in 0 .. 0 : i = 0
        OBVIOUS
      <4>3. QED
        BY <4>1, <4>2 DEF Keeps
    <3>2. QED
      BY <2>3, <3>1
  <2>4. CASE m # 0
    <3>1. m - 1 \in Nat /\ m - 1 <= Len(a) /\ m - 1 < m /\ m \in 1 .. Len(a)
      BY <2>2, <2>4
    <3>2. m - 1 \notin T
      BY <2>1, <3>1
    <3>3. PICK f : Keeps(f, a, m - 1)
      BY <3>1, <3>2
    <3> DEFINE g == [i \in 0 .. m |-> IF i < m THEN f[i] ELSE Keep(a, m, f[m - 1])]
    <3>4. \A i \in 0 .. m : i = m \/ (i \in 0 .. m - 1 /\ i < m)
      BY <2>2, <2>4
    <3>5. g[m] = Keep(a, m, f[m - 1]) /\ \A i \in 0 .. m - 1 : g[i] = f[i]
      BY <2>2, <2>4
    <3>6. f[m - 1] \in Seq(Entry)
      BY <3>1, <3>3 DEF Keeps
    <3>7. Keep(a, m, f[m - 1]) \in Seq(Entry)
      BY <3>1, <3>6, KeepType
    <3>8. g \in [0 .. m -> Seq(Entry)]
      BY <3>3, <3>4, <3>7 DEF Keeps
    <3>9. \A i \in 0 .. m : g[i] = IF i = 0 THEN <<>> ELSE Keep(a, i, g[i - 1])
      <4> TAKE i \in 0 .. m
      <4>1. CASE i = m
        <5>1. g[m - 1] = f[m - 1]
          BY <3>1, <3>5
        <5>2. QED
          BY <2>4, <3>5, <4>1, <5>1
      <4>2. CASE i \in 0 .. m - 1 /\ i < m
        <5>1. f[i] = IF i = 0 THEN <<>> ELSE Keep(a, i, f[i - 1])
          BY <3>3, <4>2 DEF Keeps
        <5>2. i # 0 => i - 1 \in 0 .. m - 1
          BY <2>2, <4>2
        <5>3. QED
          BY <3>5, <4>2, <5>1, <5>2
      <4>3. QED
        BY <3>4, <4>1, <4>2
    <3> HIDE DEF g
    <3>10. Keeps(g, a, m)
      BY <3>8, <3>9 DEF Keeps
    <3>11. QED
      BY <3>10
  <2>5. QED
    BY <2>3, <2>4
<1>3. QED
  BY <1>1, <1>2

LEMMA KeptSteps ==
  ASSUME NEW a \in Seq(Entry)
  PROVE  \A i \in 0 .. Len(a) : Kept(a)[i] = IF i = 0 THEN <<>> ELSE Keep(a, i, Kept(a)[i - 1])
<1>1. PICK f : Keeps(f, a, Len(a))
  BY KeepsExists
<1>2. f = [i \in 0 .. Len(a) |-> IF i = 0 THEN <<>> ELSE Keep(a, i, f[i - 1])]
  BY <1>1 DEF Keeps
<1>3. Kept(a) = [i \in 0 .. Len(a) |-> IF i = 0 THEN <<>> ELSE Keep(a, i, Kept(a)[i - 1])]
  BY <1>2, Zenon DEF Kept
<1>4. QED
  BY <1>3, Zenon

\* k is what is left of the first i entries of a.
KeptOK(k, a, i) ==
  /\ k \in Seq(Entry)
  /\ \A m \in DOMAIN k : \E j \in 1 .. i : k[m] = a[j]
  /\ \A j \in 1 .. i : a[j].refs # {} => \E m \in DOMAIN k : k[m] = a[j]
  /\ \A m, n \in DOMAIN k : k[m].name = k[n].name => m = n

LEMMA KeepOK ==
  ASSUME NEW a \in AList, NEW i \in Nat, i < Len(a), NEW k, KeptOK(k, a, i)
  PROVE  KeptOK(Keep(a, i + 1, k), a, i + 1)
<1>1. a \in Seq(Entry) /\ Len(a) \in Nat /\ i + 1 \in 1 .. Len(a) /\ k \in Seq(Entry)
  BY DEF AList, KeptOK
<1>2. \A j \in 1 .. i + 1 : j = i + 1 \/ j \in 1 .. i
  BY <1>1
<1>3. 1 .. i \subseteq 1 .. i + 1 /\ i + 1 \in 1 .. i + 1 /\ 1 .. i \subseteq DOMAIN a
  BY <1>1
<1>4. CASE a[i + 1].refs = {}
  <2>1. Keep(a, i + 1, k) = k
    BY <1>4 DEF Keep
  <2>2. QED
    BY <1>1, <1>2, <1>3, <1>4, <2>1 DEF KeptOK
<1>5. CASE a[i + 1].refs # {}
  <2> DEFINE g == Append(k, a[i + 1])
  <2>1. Keep(a, i + 1, k) = g
    BY <1>5 DEF Keep
  <2>2. /\ g \in Seq(Entry) /\ g[Len(k) + 1] = a[i + 1]
        /\ \A m \in DOMAIN k : m \in DOMAIN g /\ g[m] = k[m]
        /\ Len(k) + 1 \in DOMAIN g
        /\ \A m \in DOMAIN g : m \in DOMAIN k \/ m = Len(k) + 1
    BY <1>1
  <2> HIDE DEF g
  <2>3. \A m \in DOMAIN g : \E j \in 1 .. i + 1 : g[m] = a[j]
    <3> TAKE m \in DOMAIN g
    <3>1. CASE m \in DOMAIN k
      <4>1. PICK j \in 1 .. i : k[m] = a[j]
        BY <3>1 DEF KeptOK
      <4>2. j \in 1 .. i + 1 /\ g[m] = a[j]
        BY <1>3, <2>2, <3>1, <4>1
      <4>3. QED
        BY <4>2
    <3>2. CASE m = Len(k) + 1
      BY <1>3, <2>2, <3>2
    <3>3. QED
      BY <2>2, <3>1, <3>2
  <2>4. \A j \in 1 .. i + 1 : a[j].refs # {} => \E m \in DOMAIN g : g[m] = a[j]
    BY <1>2, <2>2 DEF KeptOK
  <2>5. \A m \in DOMAIN k : k[m].name # a[i + 1].name
    <3> TAKE m \in DOMAIN k
    <3>1. PICK j \in 1 .. i : k[m] = a[j]
      BY DEF KeptOK
    <3>2. j # i + 1 /\ j \in DOMAIN a /\ i + 1 \in DOMAIN a
      BY <1>1, <1>3
    <3>3. QED
      BY <3>1, <3>2 DEF AList
  <2>6. \A m, n \in DOMAIN g : g[m].name = g[n].name => m = n
    BY <2>2, <2>5 DEF KeptOK
  <2>7. KeptOK(g, a, i + 1)
    BY <2>2, <2>3, <2>4, <2>6, Zenon DEF KeptOK
  <2>8. QED
    BY <2>1, <2>7
<1>6. QED
  BY <1>4, <1>5

\* WALK_REFERENCES keeps the entries that list sites.
LEMMA WalkedKeeps ==
  ASSUME NEW a \in AList
  PROVE  KeptOK(walked(a), a, Len(a))
<1> DEFINE T == {m \in Nat : m <= Len(a) /\ ~KeptOK(Kept(a)[m], a, m)}
<1>1. a \in Seq(Entry) /\ Len(a) \in Nat
  BY DEF AList
<1>2. CASE T = {}
  BY <1>1, <1>2, WalkedIsKept
<1>3. CASE T # {}
  <2>1. PICK m \in T : \A y \in T : m <= y
    <3>1. T \in SUBSET Nat
      OBVIOUS
    <3> HIDE DEF T
    <3>2. QED
      BY <1>3, <3>1, Least
  <2>2. m \in Nat /\ m <= Len(a)
    OBVIOUS
  <2>3. CASE m = 0
    <3>1. Kept(a)[0] = <<>>
      BY <1>1, KeptSteps
    <3>2. KeptOK(<<>>, a, 0)
      BY DEF KeptOK
    <3>3. QED
      BY <2>3, <3>1, <3>2
  <2>4. CASE m # 0
    <3>1. m - 1 \in Nat /\ m - 1 < Len(a) /\ m - 1 < m /\ m = (m - 1) + 1 /\ m \in 0 .. Len(a)
      BY <1>1, <2>2, <2>4
    <3>2. KeptOK(Kept(a)[m - 1], a, m - 1)
      <4>1. m - 1 \notin T
        BY <2>1, <3>1
      <4>2. QED
        BY <1>1, <3>1, <4>1
    <3>3. KeptOK(Keep(a, (m - 1) + 1, Kept(a)[m - 1]), a, (m - 1) + 1)
      BY <3>1, <3>2, KeepOK
    <3>4. Kept(a)[m] = Keep(a, m, Kept(a)[m - 1])
      BY <1>1, <2>4, <3>1, KeptSteps
    <3>5. QED
      BY <3>1, <3>3, <3>4
  <2>5. QED
    BY <2>3, <2>4
<1>4. QED
  BY <1>2, <1>3

LEMMA ListedMeaning ==
  ASSUME NEW a, NEW sym, NEW s
  PROVE  s \in Listed(a, sym) <=> \E i \in DOMAIN a : a[i].name = sym /\ s \in a[i].refs
  BY DEF Listed, EntriesNamed

LEMMA EntryType ==
  ASSUME NEW a \in AList, NEW i \in DOMAIN a
  PROVE  a[i] \in Entry /\ a[i].name \in Symbols /\ a[i].refs \subseteq Sites
<1>1. a[i] \in Entry
  BY DEF AList
<1>2. QED
  BY <1>1 DEF Entry

LEMMA ListedType ==
  ASSUME NEW a \in AList, NEW sym
  PROVE  Listed(a, sym) \subseteq Sites /\ (Listed(a, sym) # {} => a # <<>> /\ sym \in Symbols)
<1>1. \A i \in DOMAIN a : a[i].name \in Symbols /\ a[i].refs \subseteq Sites
  BY EntryType
<1>2. \A s \in Listed(a, sym) : s \in Sites /\ a # <<>> /\ sym \in Symbols
  <2> TAKE s \in Listed(a, sym)
  <2>1. PICK i \in DOMAIN a : a[i].name = sym /\ s \in a[i].refs
    BY ListedMeaning
  <2>2. a # <<>>
    BY <2>1
  <2>3. QED
    BY <1>1, <2>1, <2>2
<1>3. QED
  BY <1>2

LEMMA EmptyList ==
  <<>> \in AList /\ \A sym : Listed(<<>>, sym) = {}
<1>1. <<>> \in AList
  BY DEF AList
<1>2. \A sym : Listed(<<>>, sym) = {}
  BY DEF Listed, EntriesNamed
<1>3. QED
  BY <1>1, <1>2

\* With one entry for a name the first one is the only one.
LEMMA OnlyNamed ==
  ASSUME NEW a \in AList, NEW i \in DOMAIN a
  PROVE  FirstNamed(a, a[i].name) = i /\ EntriesNamed(a, a[i].name) = {i}
<1>1. a \in Seq(Entry) /\ DOMAIN a \subseteq Nat
  BY DEF AList
<1>2. EntriesNamed(a, a[i].name) = {i}
  BY DEF EntriesNamed, AList
<1>3. FirstNamed(a, a[i].name) = CHOOSE k \in {i} : \A j \in {i} : k <= j
  BY <1>2 DEF FirstNamed
<1>4. i <= i
  BY <1>1
<1>5. QED
  BY <1>2, <1>3, <1>4

LEMMA FindNamed ==
  ASSUME NEW a \in AList, NEW sym
  PROVE  find_references_named(a, sym) = Listed(a, sym)
<1>1. CASE EntriesNamed(a, sym) = {}
  BY <1>1 DEF find_references_named, Listed
<1>2. CASE EntriesNamed(a, sym) # {}
  <2>1. PICK i \in DOMAIN a : a[i].name = sym
    BY <1>2 DEF EntriesNamed
  <2>2. FirstNamed(a, sym) = i /\ EntriesNamed(a, sym) = {i}
    BY <2>1, OnlyNamed
  <2>3. QED
    BY <1>2, <2>2 DEF find_references_named, Listed
<1>3. QED
  BY <1>1, <1>2

\* The sites of one entry are replaced.
Replaced(a, i, r, b) ==
  /\ b \in Seq(Entry) /\ DOMAIN b = DOMAIN a /\ b[i].name = a[i].name /\ b[i].refs = r
  /\ \A j \in DOMAIN a : j # i => b[j] = a[j]

LEMMA ReplaceRefs ==
  ASSUME NEW a \in AList, NEW i \in DOMAIN a, NEW r \in SUBSET Sites
  PROVE  Replaced(a, i, r, [a EXCEPT ![i].refs = r])
<1> DEFINE b == [a EXCEPT ![i].refs = r]
<1>1. a \in Seq(Entry)
  BY DEF AList
<1>2. \A j \in DOMAIN a : a[j] \in Entry
  BY <1>1
<1>3. /\ DOMAIN b = DOMAIN a
      /\ b[i] = [a[i] EXCEPT !.refs = r] /\ \A j \in DOMAIN a : j # i => b[j] = a[j]
  OBVIOUS
<1>4. b[i] \in Entry /\ b[i].name = a[i].name /\ b[i].refs = r
  BY <1>2, <1>3 DEF Entry
<1>5. b \in Seq(Entry)
  <2>1. PICK m \in Nat : DOMAIN a = 1 .. m /\ a \in [1 .. m -> Entry]
    BY <1>1
  <2>2. b \in [1 .. m -> Entry]
    BY <1>3, <1>4, <2>1
  <2>3. QED
    BY <2>1, <2>2
<1>6. QED
  BY <1>3, <1>4, <1>5 DEF Replaced

LEMMA ReplacedLists ==
  ASSUME NEW a \in AList, NEW i \in DOMAIN a, NEW r, NEW b, Replaced(a, i, r, b)
  PROVE  /\ b \in AList /\ b # <<>>
         /\ Listed(b, a[i].name) = r
         /\ \A n : n # a[i].name => Listed(b, n) = Listed(a, n)
<1>1. /\ b \in Seq(Entry) /\ DOMAIN b = DOMAIN a /\ b[i].name = a[i].name /\ b[i].refs = r
      /\ \A j \in DOMAIN a : j # i => b[j] = a[j]
  BY DEF Replaced
<1>2. b \in AList
  BY <1>1 DEF AList
<1>3. b # <<>>
  BY <1>1
<1>4. ASSUME NEW s PROVE s \in Listed(b, a[i].name) <=> s \in r
  <2>1. \A j \in DOMAIN b : b[j].name = a[i].name => j = i
    BY <1>1, <1>2 DEF AList
  <2>2. QED
    BY <1>1, <2>1, ListedMeaning
<1>5. ASSUME NEW n, n # a[i].name, NEW s PROVE s \in Listed(b, n) <=> s \in Listed(a, n)
  <2>1. \A j \in DOMAIN a : b[j].name = n /\ s \in b[j].refs <=> a[j].name = n /\ s \in a[j].refs
    BY <1>1, <1>5
  <2>2. QED
    BY <1>1, <2>1, ListedMeaning
<1>6. Listed(b, a[i].name) = r
  BY <1>4
<1>7. ASSUME NEW n, n # a[i].name PROVE Listed(b, n) = Listed(a, n)
  <2>1. \A s : s \in Listed(b, n) <=> s \in Listed(a, n)
    BY <1>5, <1>7, Zenon
  <2>2. QED
    BY <2>1
<1>8. QED
  BY <1>2, <1>3, <1>6, <1>7

LEMMA AddReferences ==
  ASSUME NEW a \in AList, NEW sym \in Symbols, NEW refs \in SUBSET Sites
  PROVE  LET b == add_references(a, sym, refs)
         IN  /\ b \in AList /\ b # <<>>
             /\ Listed(b, sym) = Listed(a, sym) \cup refs
             /\ \A n : n # sym => Listed(b, n) = Listed(a, n)
<1>1. CASE EntriesNamed(a, sym) = {}
  <2> DEFINE new == [name |-> sym, refs |-> refs]
             b == <<new>> \o a
  <2>1. add_references(a, sym, refs) = b
    BY <1>1 DEF add_references
  <2>2. a \in Seq(Entry) /\ Len(a) \in Nat /\ new \in Entry
    BY DEF AList, Entry
  <2> HIDE DEF new
  <2>3. b \in Seq(Entry) /\ Len(b) = Len(a) + 1 /\ b[1] = new
    BY <2>2
  <2>4. \A i \in DOMAIN b : i = 1 \/ (i - 1 \in DOMAIN a /\ b[i] = a[i - 1])
    BY <2>2
  <2>5. \A i \in DOMAIN a : i + 1 \in DOMAIN b /\ b[i + 1] = a[i]
    BY <2>2
  <2>6. new.name = sym /\ new.refs = refs
    BY DEF new
  <2>7. \A i \in DOMAIN a : a[i].name # sym
    BY <1>1 DEF EntriesNamed
  <2> HIDE DEF b
  <2>8. b \in AList
    <3>1. ASSUME NEW i \in DOMAIN b, NEW j \in DOMAIN b, b[i].name = b[j].name
          PROVE  i = j
      <4>1. CASE i = 1 /\ j = 1
        BY <4>1
      <4>2. CASE i # 1 /\ j # 1
        <5>1. i - 1 = j - 1
          BY <2>4, <3>1, <4>2 DEF AList
        <5>2. i \in Nat /\ j \in Nat
          BY <2>3
        <5>3. QED
          BY <5>1, <5>2
      <4>3. CASE i = 1 /\ j # 1
        BY <2>3, <2>4, <2>6, <2>7, <3>1, <4>3
      <4>4. CASE i # 1 /\ j = 1
        BY <2>3, <2>4, <2>6, <2>7, <3>1, <4>4
      <4>5. QED
        BY <4>1, <4>2, <4>3, <4>4
    <3>2. QED
      BY <2>3, <3>1 DEF AList
  <2>9. b # <<>> /\ 1 \in DOMAIN b
    BY <2>2, <2>3
  <2>10. Listed(a, sym) = {}
    BY <1>1 DEF Listed
  <2>11. ASSUME NEW s PROVE s \in Listed(b, sym) <=> s \in refs
    <3>1. \A i \in DOMAIN b : b[i].name = sym <=> i = 1
      BY <2>3, <2>4, <2>6, <2>7
    <3>2. QED
      BY <2>3, <2>6, <2>9, <3>1, ListedMeaning
  <2>12. ASSUME NEW n, n # sym, NEW s PROVE s \in Listed(b, n) <=> s \in Listed(a, n)
    <3>1. ASSUME s \in Listed(b, n) PROVE s \in Listed(a, n)
      <4>1. PICK i \in DOMAIN b : b[i].name = n /\ s \in b[i].refs
        BY <3>1, ListedMeaning
      <4>2. i # 1
        BY <2>3, <2>6, <2>12, <4>1
      <4>3. QED
        BY <2>4, <4>1, <4>2, ListedMeaning
    <3>2. ASSUME s \in Listed(a, n) PROVE s \in Listed(b, n)
      <4>1. PICK i \in DOMAIN a : a[i].name = n /\ s \in a[i].refs
        BY <3>2, ListedMeaning
      <4>2. QED
        BY <2>5, <4>1, ListedMeaning
    <3>3. QED
      BY <3>1, <3>2
  <2>13. Listed(b, sym) = Listed(a, sym) \cup refs
    BY <2>10, <2>11
  <2>14. \A n : n # sym => Listed(b, n) = Listed(a, n)
    BY <2>12
  <2>15. QED
    BY <2>1, <2>8, <2>9, <2>13, <2>14
<1>2. CASE EntriesNamed(a, sym) # {}
  <2>1. PICK i \in DOMAIN a : a[i].name = sym
    BY <1>2 DEF EntriesNamed
  <2>2. FirstNamed(a, sym) = i /\ EntriesNamed(a, sym) = {i}
    BY <2>1, OnlyNamed
  <2> DEFINE r == a[i].refs \cup refs
             b == add_references(a, sym, refs)
  <2>3. b = [a EXCEPT ![i].refs = r]
    BY <1>2, <2>2 DEF add_references
  <2>4. Listed(a, sym) = a[i].refs
    BY <2>2 DEF Listed
  <2>5. a[i].refs \cup refs \in SUBSET Sites
    BY <2>4, ListedType
  <2> HIDE DEF r, b
  <2>6. r \in SUBSET Sites
    BY <2>5 DEF r
  <2>7. /\ b \in AList /\ b # <<>> /\ Listed(b, a[i].name) = r
        /\ \A n : n # a[i].name => Listed(b, n) = Listed(a, n)
    <3>1. Replaced(a, i, r, b)
      BY <2>1, <2>3, <2>6, ReplaceRefs
    <3>2. QED
      BY <2>1, <3>1, ReplacedLists, SMTT(30)
  <2>8. QED
    BY <2>1, <2>3, <2>4, <2>7 DEF b, r
<1>3. QED
  BY <1>1, <1>2

LEMMA DeleteReferences ==
  ASSUME NEW a \in AList, NEW sym, NEW refs
  PROVE  LET b == delete_references(a, sym, refs)
         IN  /\ b \in AList /\ (b = <<>> <=> a = <<>>)
             /\ Listed(b, sym) = Listed(a, sym) \ refs
             /\ \A n : n # sym => Listed(b, n) = Listed(a, n)
<1>1. CASE EntriesNamed(a, sym) = {}
  <2>1. Listed(a, sym) = {}
    BY <1>1 DEF Listed
  <2>2. delete_references(a, sym, refs) = a
    BY <1>1 DEF delete_references
  <2>3. QED
    BY <2>1, <2>2
<1>2. CASE EntriesNamed(a, sym) # {}
  <2>1. PICK i \in DOMAIN a : a[i].name = sym
    BY <1>2 DEF EntriesNamed
  <2>2. FirstNamed(a, sym) = i /\ EntriesNamed(a, sym) = {i}
    BY <2>1, OnlyNamed
  <2> DEFINE r == a[i].refs \ refs
             b == delete_references(a, sym, refs)
  <2>3. b = [a EXCEPT ![i].refs = r]
    BY <1>2, <2>2 DEF delete_references
  <2>4. Listed(a, sym) = a[i].refs
    BY <2>2 DEF Listed
  <2>5. a[i].refs \ refs \in SUBSET Sites /\ a # <<>>
    BY <2>1, <2>4, ListedType
  <2> HIDE DEF r, b
  <2>6. r \in SUBSET Sites
    BY <2>5 DEF r
  <2>7. /\ b \in AList /\ b # <<>> /\ Listed(b, a[i].name) = r
        /\ \A n : n # a[i].name => Listed(b, n) = Listed(a, n)
    <3>1. Replaced(a, i, r, b)
      BY <2>1, <2>3, <2>6, ReplaceRefs
    <3>2. QED
      BY <2>1, <3>1, ReplacedLists, SMTT(30)
  <2>8. QED
    BY <2>1, <2>3, <2>4, <2>5, <2>7 DEF b, r
<1>3. QED
  BY <1>1, <1>2

LEMMA WalkedLists ==
  ASSUME NEW a \in AList
  PROVE  /\ walked(a) \in AList /\ (walked(a) # <<>> => a # <<>>)
         /\ \A n : Listed(walked(a), n) = Listed(a, n)
<1> DEFINE k == walked(a)
<1>1. /\ k \in Seq(Entry)
      /\ \A m \in DOMAIN k : \E j \in 1 .. Len(a) : k[m] = a[j]
      /\ \A j \in 1 .. Len(a) : a[j].refs # {} => \E m \in DOMAIN k : k[m] = a[j]
      /\ \A m, n \in DOMAIN k : k[m].name = k[n].name => m = n
  BY WalkedKeeps DEF KeptOK
<1>2. DOMAIN a = 1 .. Len(a)
  BY DEF AList
<1> HIDE DEF k
<1>3. k \in AList
  BY <1>1 DEF AList
<1>4. k # <<>> => a # <<>>
  <2> SUFFICES ASSUME k # <<>>, a = <<>> PROVE FALSE
    OBVIOUS
  <2>1. PICK m \in DOMAIN k : TRUE
    BY <1>1
  <2>2. QED
    BY <1>1, <1>2, <2>1
<1>5. ASSUME NEW n, NEW s PROVE s \in Listed(k, n) <=> s \in Listed(a, n)
  <2>1. ASSUME s \in Listed(k, n) PROVE s \in Listed(a, n)
    BY <1>1, <1>2, <2>1, ListedMeaning
  <2>2. ASSUME s \in Listed(a, n) PROVE s \in Listed(k, n)
    <3>1. PICK j \in DOMAIN a : a[j].name = n /\ s \in a[j].refs
      BY <2>2, ListedMeaning
    <3>2. PICK m \in DOMAIN k : k[m] = a[j]
      BY <1>1, <1>2, <3>1
    <3>3. QED
      BY <3>1, <3>2, ListedMeaning
  <2>3. QED
    BY <2>1, <2>2
<1>6. \A n : Listed(k, n) = Listed(a, n)
  BY <1>5
<1>7. QED
  BY <1>3, <1>4, <1>6 DEF k

LEMMA SitesInMeaning ==
  ASSUME NEW a \in AList, NEW s
  PROVE  s \in SitesIn(a) <=> \E n \in Symbols : s \in Listed(a, n)
<1>1. \A i \in DOMAIN a : a[i].name \in Symbols
  BY EntryType
<1>2. s \in SitesIn(a) <=> \E i \in DOMAIN a : s \in a[i].refs
  BY DEF SitesIn
<1>3. QED
  BY <1>1, <1>2, ListedMeaning

\* The references of a dead block go.
WithoutSites(a, dead) == [i \in DOMAIN a |-> [a[i] EXCEPT !.refs = @ \ dead]]

LEMMA WithoutDead ==
  ASSUME NEW a \in AList, NEW dead
  PROVE  LET b == WithoutSites(a, dead)
         IN  /\ b \in AList /\ (b = <<>> <=> a = <<>>)
             /\ \A n : Listed(b, n) = Listed(a, n) \ dead
<1> DEFINE b == [i \in DOMAIN a |-> [a[i] EXCEPT !.refs = @ \ dead]]
<1>1. a \in Seq(Entry) /\ \A i \in DOMAIN a : a[i] \in Entry
  BY DEF AList
<1>2. /\ DOMAIN b = DOMAIN a
      /\ \A i \in DOMAIN a : b[i] \in Entry /\ b[i].name = a[i].name /\ b[i].refs = a[i].refs \ dead
  BY <1>1 DEF Entry
<1>3. b \in Seq(Entry)
  <2>1. PICK m \in Nat : DOMAIN a = 1 .. m
    BY <1>1
  <2>2. b \in [1 .. m -> Entry]
    BY <1>2, <2>1
  <2>3. QED
    BY <2>1, <2>2
<1> HIDE DEF b
<1>4. b \in AList
  BY <1>2, <1>3 DEF AList
<1>5. b = <<>> <=> a = <<>>
  BY <1>1, <1>2, <1>3
<1>6. ASSUME NEW n, NEW s PROVE s \in Listed(b, n) <=> s \in Listed(a, n) \ dead
  BY <1>2, ListedMeaning
<1>7. QED
  BY <1>4, <1>5, <1>6 DEF b, WithoutSites

-----------------------------------------------------------------------------
(* Cells and what the search finds. *)

LEMMA Distinct ==
  /\ Global \notin Frames /\ NullEnv \notin Frames /\ Global # NullEnv
  /\ Values \cap Traps = {} /\ (Values \cup Traps) \cap Caches = {}
  /\ NoCell \notin Values /\ NoCell \notin Traps /\ NoCell \notin Cells /\ NoCell \notin Caches
  /\ Unassigned # Unbound /\ Unbound # Macro
  BY EnvAssumption

LEMMA SiteType ==
  ASSUME NEW s \in Sites
  PROVE  s.block \in Blocks /\ s.name \in Symbols /\ KindOf(s) \in Kinds /\ SiteEnv(s) \in Env
         /\ BlockEnv[s.block] \in Env
  BY EnvAssumption DEF KindOf, Kinds, SiteKinds, SiteEnv, Env

LEMMA CellNames ==
  ASSUME NEW f, NEW sym, NEW k, NEW g, NEW n, NEW j
  PROVE  /\ <<f, sym, k>> = <<g, n, j>> <=> f = g /\ sym = n /\ k = j
         /\ <<f, sym>> = <<g, n>> <=> f = g /\ sym = n
         /\ <<f, sym, k>> # <<g, n>> /\ <<f, sym>> # <<NoCell>> /\ <<f, sym, k>> # <<NoCell>>
  OBVIOUS

LEMMA DummyCell ==
  ASSUME NEW f, NEW sym, NEW k
  PROVE  <<f, sym, k>> # Dummy /\ <<f, sym>> # Dummy
  BY DEF Dummy

LEMMA ExtCell ==
  ASSUME NEW f \in Frames, NEW sym \in Symbols
  PROVE  <<f, sym, "ext">> \in Cells /\ <<f, sym, "arg">> \in Cells
  BY DEF Cells

LEMMA GlobalCell ==
  ASSUME NEW sym \in Symbols
  PROVE  <<Global, sym>> \in Cells
  BY DEF Cells

\* What scan_frame finds, when no argument is unbound.
LEMMA ScanValue ==
  ASSUME NEW h, ArgsBound(h), NEW e \in Env, NEW sym, NEW u \in BOOLEAN
  PROVE  scan_frame(h, e, sym, u) =
           IF e = Global THEN <<Global, sym>>
           ELSE IF e \notin Frames THEN NoCell
           ELSE IF sym \in h.ext[e] THEN <<e, sym, "ext">>
           ELSE IF sym \in Params[e] THEN <<e, sym, "arg">> ELSE NoCell
<1>1. CASE e = Global
  BY <1>1, Distinct DEF scan_frame
<1>2. CASE e = NullEnv
  BY <1>2, Distinct DEF scan_frame
<1>3. CASE e \in Frames
  BY <1>3, Distinct DEF scan_frame, ArgsBound
<1>4. QED
  BY <1>1, <1>2, <1>3 DEF Env

LEMMA ScanCell ==
  ASSUME NEW h, ArgsBound(h), NEW e \in Env, NEW sym \in Symbols, NEW u \in BOOLEAN,
         scan_frame(h, e, sym, u) # NoCell
  PROVE  scan_frame(h, e, sym, u) \in Cells \ {Dummy}
<1>1. CASE e = Global
  BY <1>1, ScanValue, GlobalCell, CellNames DEF Dummy
<1>2. CASE e \in Frames
  <2>1. scan_frame(h, e, sym, u) \in {<<e, sym, "ext">>, <<e, sym, "arg">>}
    BY <1>2, ScanValue, Distinct
  <2>2. QED
    BY <1>2, <2>1, ExtCell, DummyCell
<1>3. CASE e \notin Frames /\ e # Global
  BY <1>3, ScanValue
<1>4. QED
  BY <1>1, <1>2, <1>3

\* A cell is found in one frame and under one name only.
LEMMA ScanInjective ==
  ASSUME NEW h, ArgsBound(h), NEW e \in Env, NEW sym, NEW f \in Env, NEW n,
         NEW u \in BOOLEAN, NEW v \in BOOLEAN,
         scan_frame(h, e, sym, u) # NoCell, scan_frame(h, e, sym, u) = scan_frame(h, f, n, v)
  PROVE  e = f /\ sym = n
<1>1. CASE e = Global
  BY <1>1, ScanValue, CellNames, Distinct
<1>2. CASE e \in Frames
  BY <1>2, ScanValue, CellNames, Distinct
<1>3. CASE e \notin Frames /\ e # Global
  BY <1>3, ScanValue
<1>4. QED
  BY <1>1, <1>2, <1>3

\* Two heaps with the same extensions have the same scans.
LEMMA ScanSame ==
  ASSUME NEW h, NEW g, ArgsBound(h), ArgsBound(g), NEW sym, NEW e \in Env,
         e \in Frames => (sym \in g.ext[e] <=> sym \in h.ext[e])
  PROVE  scan_frame(g, e, sym, FALSE) = scan_frame(h, e, sym, FALSE)
<1>1. CASE e \notin Frames
  BY <1>1, ScanValue
<1>2. CASE e \in Frames
  <2>1. CASE sym \in h.ext[e]
    BY <1>2, <2>1, ScanValue, Distinct
  <2>2. CASE sym \notin h.ext[e]
    <3>1. sym \notin g.ext[e] /\ e # Global
      BY <1>2, <2>2, Distinct
    <3>2. CASE sym \in Params[e]
      BY <1>2, <2>2, <3>1, <3>2, ScanValue
    <3>3. CASE sym \notin Params[e]
      BY <1>2, <2>2, <3>1, <3>3, ScanValue
    <3>4. QED
      BY <3>2, <3>3
  <2>3. QED
    BY <2>1, <2>2
<1>3. QED
  BY <1>1, <1>2

LEMMA BindingFrameType ==
  ASSUME NEW h, NEW e \in Env, NEW sym
  PROVE  BindingFrame(h, e, sym) \in Enclosing[e] /\ BindingFrame(h, e, sym) \in Env
<1>1. BindingFrame(h, e, sym) \in Enclosing[e]
  BY SearchStops
<1>2. QED
  BY <1>1, EnclosingClosed

LEMMA FindSame ==
  ASSUME NEW h, NEW g, ArgsBound(h), ArgsBound(g), NEW sym, NEW e \in Env,
         \A f \in Frames : sym \in g.ext[f] <=> sym \in h.ext[f]
  PROVE  find_binding_cell(g, e, sym) = find_binding_cell(h, e, sym)
<1>1. \A f \in Env : scan_frame(g, f, sym, FALSE) = scan_frame(h, f, sym, FALSE)
  BY ScanSame
<1>2. BindingFrame(g, e, sym) = BindingFrame(h, e, sym)
  <2>1. \A f \in Env : Stops(g, f, sym) <=> Stops(h, f, sym)
    BY <1>1, Zenon DEF Stops
  <2>2. QED
    BY <2>1, SearchSame
<1>3. QED
  BY <1>1, <1>2, BindingFrameType DEF find_binding_cell

LEMMA FindCell ==
  ASSUME NEW h, ArgsBound(h), NEW e \in Env, NEW sym \in Symbols,
         find_binding_cell(h, e, sym) # NoCell
  PROVE  find_binding_cell(h, e, sym) \in Cells \ {Dummy}
  BY BindingFrameType, ScanCell DEF find_binding_cell

LEMMA FindInjective ==
  ASSUME NEW h, ArgsBound(h), NEW e \in Env, NEW sym, NEW f \in Env, NEW n,
         find_binding_cell(h, e, sym) # NoCell,
         find_binding_cell(h, e, sym) = find_binding_cell(h, f, n)
  PROVE  BindingFrame(h, e, sym) = BindingFrame(h, f, n) /\ sym = n
  BY BindingFrameType, ScanInjective DEF find_binding_cell

\* A search that begins inside the global environment finds a cell.
LEMMA FindInGlobal ==
  ASSUME NEW h, ArgsBound(h), NEW e \in Env, Global \in Enclosing[e], NEW sym \in Symbols
  PROVE  find_binding_cell(h, e, sym) # NoCell
<1> DEFINE f == BindingFrame(h, e, sym)
<1>1. f \in Enclosing[e] /\ Stops(h, f, sym) /\ \A g \in Enclosing[e] : Stops(h, g, sym) => g \in Enclosing[f]
  BY SearchStops
<1>2. f \in Env /\ Global \in Enclosing[f]
  BY <1>1, BindingFrameType, Distinct DEF Stops
<1>3. CASE f \in Frames
  BY <1>1, <1>3 DEF Stops, find_binding_cell
<1>4. CASE f \notin Frames
  <2>1. f = Global
    BY <1>2, <1>4, EnclosingTop
  <2>2. QED
    <3>1. find_binding_cell(h, e, sym) = <<Global, sym>>
      BY <1>2, <2>1, ScanValue DEF find_binding_cell
    <3>2. <<Global, sym>> # NoCell
      BY GlobalCell, Distinct
    <3>3. QED
      BY <3>1, <3>2
<1>5. QED
  BY <1>3, <1>4

-----------------------------------------------------------------------------
(* The parts of a heap, and single updates. *)

LEMMA HeapFields ==
  ASSUME NEW h \in HeapType
  PROVE  /\ h.cell \in [Cells -> Values \cup Traps \cup Caches] /\ h.ext \in [Frames -> SUBSET Symbols]
         /\ h.trap \in [Caches -> Caches] /\ h.val \in [Caches -> Values \cup Traps \cup {NoCell}]
         /\ h.clone \in [Caches -> BOOLEAN] /\ h.refs \in [Caches -> [Kinds -> AList]]
         /\ h.slot \in [Sites -> Slot] /\ h.strong \in SUBSET Symbols
  BY DEF HeapType

\* The heaps differ in the reference lists, the sites and the strong symbols only.
SameCaches(h, g) ==
  g.cell = h.cell /\ g.ext = h.ext /\ g.trap = h.trap /\ g.val = h.val /\ g.clone = h.clone

LEMMA SetRefs ==
  ASSUME NEW h \in HeapType, NEW c \in Caches, NEW k \in Kinds, NEW a \in AList
  PROVE  LET g == [h EXCEPT !.refs[c][k] = a]
         IN  /\ g \in HeapType /\ SameCaches(h, g) /\ g.slot = h.slot /\ g.strong = h.strong
             /\ g.refs = [h.refs EXCEPT ![c][k] = a]
<1> DEFINE g == [h EXCEPT !.refs[c][k] = a]
<1>1. /\ SameCaches(h, g) /\ g.slot = h.slot /\ g.strong = h.strong
      /\ g.refs = [h.refs EXCEPT ![c][k] = a]
  BY DEF SameCaches, HeapType
<1>2. [h.refs EXCEPT ![c][k] = a] \in [Caches -> [Kinds -> AList]]
  BY HeapFields
<1>3. g = [h EXCEPT !.refs = [h.refs EXCEPT ![c][k] = a]]
  OBVIOUS
<1>4. g \in HeapType
  BY <1>2, <1>3 DEF HeapType
<1>5. QED
  BY <1>1, <1>4

LEMMA SetSlots ==
  ASSUME NEW h \in HeapType, NEW f \in [Sites -> Slot]
  PROVE  LET g == [h EXCEPT !.slot = f]
         IN  /\ g \in HeapType /\ SameCaches(h, g) /\ g.slot = f /\ g.strong = h.strong
             /\ g.refs = h.refs
  BY DEF SameCaches, HeapType

LEMMA SetVal ==
  ASSUME NEW h \in HeapType, NEW c \in Caches, NEW v \in Values \cup Traps
  PROVE  LET g == [h EXCEPT !.val[c] = v]
         IN  /\ g \in HeapType /\ g.cell = h.cell /\ g.ext = h.ext /\ g.trap = h.trap
             /\ g.clone = h.clone /\ g.refs = h.refs /\ g.slot = h.slot /\ g.strong = h.strong
             /\ g.val = [h.val EXCEPT ![c] = v]
  BY DEF HeapType

LEMMA SetClone ==
  ASSUME NEW h \in HeapType, NEW c \in Caches, NEW b \in BOOLEAN
  PROVE  LET g == [h EXCEPT !.clone[c] = b]
         IN  /\ g \in HeapType /\ g.cell = h.cell /\ g.ext = h.ext /\ g.trap = h.trap
             /\ g.val = h.val /\ g.refs = h.refs /\ g.slot = h.slot /\ g.strong = h.strong
             /\ g.clone = [h.clone EXCEPT ![c] = b]
  BY DEF HeapType

LEMMA SetCell ==
  ASSUME NEW h \in HeapType, NEW x \in Cells, NEW v \in Values \cup Traps
  PROVE  LET g == [h EXCEPT !.cell[x] = v]
         IN  /\ g \in HeapType /\ g.ext = h.ext /\ g.trap = h.trap /\ g.clone = h.clone
             /\ g.val = h.val /\ g.refs = h.refs /\ g.slot = h.slot /\ g.strong = h.strong
             /\ g.cell = [h.cell EXCEPT ![x] = v]
  BY DEF HeapType

LEMMA SetStrong ==
  ASSUME NEW h \in HeapType, NEW S \in SUBSET Symbols
  PROVE  LET g == [h EXCEPT !.strong = S]
         IN  /\ g \in HeapType /\ SameCaches(h, g) /\ g.slot = h.slot /\ g.refs = h.refs
             /\ g.strong = S
  BY DEF SameCaches, HeapType

-----------------------------------------------------------------------------
(* What a site holds. *)

LEMMA InstallSame ==
  ASSUME NEW h, NEW g, NEW c, NEW k, g.val[c] = h.val[c], g.clone[c] = h.clone[c]
  PROVE  install_cache(g, c, k) = install_cache(h, c, k)
  BY DEF install_cache, make_uuo_link

LEMMA InstallType ==
  ASSUME NEW h \in HeapType, NEW c \in Caches, NEW k \in Kinds, h.val[c] # NoCell
  PROVE  install_cache(h, c, k) \in Slot /\ install_cache(h, c, k).to # "none"
<1>1. h.val[c] \in Values \cup Traps
  BY HeapFields
<1>2. CASE k = "lookup"
  BY <1>2 DEF install_cache, Slot
<1>3. CASE k = "assignment"
  BY <1>3 DEF install_cache, Slot
<1>4. CASE k = "operator"
  BY <1>1, <1>4 DEF install_cache, make_uuo_link, Slot
<1>5. QED
  BY <1>2, <1>3, <1>4 DEF Kinds

LEMMA WhereType ==
  ASSUME NEW w \in Where, NEW s \in Sites
  PROVE  w[s] # NoCell => w[s] \in Caches
  BY DEF Where

-----------------------------------------------------------------------------
(* Installing caches in sites. *)

\* The sites that cache c serves with references of kind k.
Served(w, c, k) == {s \in Sites : w[s] = c /\ KindOf(s) = k}

LEMMA InstallSlots ==
  ASSUME NEW h, NEW w, NEW Z, HeapOK(h, w, Z), NEW c \in Caches, NEW k \in Kinds,
         NEW S \in SUBSET Served(w, c, k)
  PROVE  LET g == InstallAll(h, c, k, S)
         IN  /\ g \in HeapType /\ SameCaches(h, g) /\ g.strong = h.strong /\ g.refs = h.refs
             /\ g.slot = [s \in Sites |-> IF s \in S THEN install_cache(h, c, k) ELSE h.slot[s]]
<1> DEFINE f == [s \in Sites |-> IF s \in S THEN install_cache(h, c, k) ELSE h.slot[s]]
<1>1. h \in HeapType /\ Recorded(h, w)
  BY DEF HeapOK
<1>2. ASSUME NEW s \in Sites PROVE f[s] \in Slot
  <2>1. CASE s \in S
    <3>1. h.val[c] # NoCell
      BY <1>1, <2>1, Distinct DEF Served, Recorded
    <3>2. QED
      BY <1>1, <2>1, <3>1, InstallType
  <2>2. CASE s \notin S
    BY <1>1, <2>2, HeapFields
  <2>3. QED
    BY <2>1, <2>2
<1>3. f \in [Sites -> Slot]
  BY <1>2
<1>4. InstallAll(h, c, k, S) = [h EXCEPT !.slot = f]
  BY DEF InstallAll
<1> HIDE DEF f
<1>5. LET g == InstallAll(h, c, k, S)
      IN  /\ g \in HeapType /\ SameCaches(h, g) /\ g.strong = h.strong /\ g.refs = h.refs
          /\ g.slot = f
  BY <1>1, <1>3, <1>4, SetSlots
<1>6. QED
  BY <1>5 DEF f

LEMMA CellsSame ==
  ASSUME NEW h, NEW g, CellsOK(h), g.cell = h.cell, g.trap = h.trap, g.val = h.val
  PROVE  CellsOK(g)
  BY DEF CellsOK, Cached

LEMMA InstallOK ==
  ASSUME NEW h, NEW w, NEW Z, HeapOK(h, w, Z), NEW c \in Caches, NEW k \in Kinds,
         NEW S \in SUBSET Served(w, c, k)
  PROVE  LET g == InstallAll(h, c, k, S)
         IN  HeapOK(g, w, Z \ S) /\ SameCaches(h, g) /\ g.strong = h.strong /\ g.refs = h.refs
<1> DEFINE g == InstallAll(h, c, k, S)
<1>1. /\ g \in HeapType /\ SameCaches(h, g) /\ g.strong = h.strong /\ g.refs = h.refs
      /\ g.slot = [s \in Sites |-> IF s \in S THEN install_cache(h, c, k) ELSE h.slot[s]]
  BY InstallSlots
<1> HIDE DEF g
<1>2. h \in HeapType /\ CellsOK(h) /\ w \in Where /\ Recorded(h, w) /\ OnlyRecorded(h, w) /\ Installed(h, w, Z)
  BY DEF HeapOK
<1>3. CellsOK(g)
  BY <1>1, <1>2, CellsSame DEF SameCaches
<1>4. Recorded(g, w) /\ OnlyRecorded(g, w)
  BY <1>1, <1>2 DEF SameCaches, Recorded, OnlyRecorded
<1>5. \A d, j : install_cache(g, d, j) = install_cache(h, d, j)
  BY <1>1, InstallSame DEF SameCaches
<1>6. ASSUME NEW s \in Sites \ (Z \ S)
      PROVE  g.slot[s] = IF w[s] = NoCell THEN NoSlot ELSE install_cache(h, w[s], KindOf(s))
  <2>1. CASE s \in S
    <3>1. w[s] = c /\ KindOf(s) = k /\ w[s] # NoCell
      BY <2>1, Distinct DEF Served
    <3>2. QED
      BY <1>1, <2>1, <3>1
  <2>2. CASE s \notin S
    <3>1. s \in Sites \ Z /\ g.slot[s] = h.slot[s]
      BY <1>1, <1>6, <2>2
    <3>2. QED
      BY <1>2, <3>1 DEF Installed
  <2>3. QED
    BY <2>1, <2>2
<1>7. Installed(g, w, Z \ S)
  BY <1>5, <1>6 DEF Installed
<1>8. QED
  BY <1>1, <1>2, <1>3, <1>4, <1>7 DEF HeapOK, g

\* A list is replaced by one that lists the same.
LEMMA RelistOK ==
  ASSUME NEW h, NEW w, NEW Z, HeapOK(h, w, Z), NEW c \in Caches, NEW k \in Kinds,
         NEW a \in AList, \A n : Listed(a, n) = Listed(h.refs[c][k], n)
  PROVE  LET g == [h EXCEPT !.refs[c][k] = a]
         IN  /\ HeapOK(g, w, Z) /\ SameCaches(h, g) /\ g.strong = h.strong /\ g.slot = h.slot
             /\ g.refs = [h.refs EXCEPT ![c][k] = a]
<1> DEFINE g == [h EXCEPT !.refs[c][k] = a]
<1>1. h \in HeapType /\ CellsOK(h) /\ w \in Where /\ Recorded(h, w) /\ OnlyRecorded(h, w) /\ Installed(h, w, Z)
  BY DEF HeapOK
<1>2. /\ g \in HeapType /\ SameCaches(h, g) /\ g.slot = h.slot /\ g.strong = h.strong
      /\ g.refs = [h.refs EXCEPT ![c][k] = a]
  BY <1>1, SetRefs
<1> HIDE DEF g
<1>3. /\ g.refs[c][k] = a
      /\ \A d \in Caches, j \in Kinds : d # c \/ j # k => g.refs[d][j] = h.refs[d][j]
  BY <1>1, <1>2, HeapFields
<1>4. ASSUME NEW d \in Caches, NEW j \in Kinds, NEW n PROVE Listed(g.refs[d][j], n) = Listed(h.refs[d][j], n)
  <2>1. CASE d = c /\ j = k
    BY <1>3, <2>1
  <2>2. CASE d # c \/ j # k
    BY <1>3, <2>2
  <2>3. QED
    BY <2>1, <2>2
<1>5. CellsOK(g)
  BY <1>1, <1>2, CellsSame DEF SameCaches
<1>6. Recorded(g, w)
  BY <1>1, <1>2, <1>4, WhereType, SiteType DEF SameCaches, Recorded
<1>7. OnlyRecorded(g, w)
  BY <1>1, <1>4 DEF OnlyRecorded
<1>8. \A d, j : install_cache(g, d, j) = install_cache(h, d, j)
  BY <1>2, InstallSame DEF SameCaches
<1>9. Installed(g, w, Z)
  BY <1>1, <1>2, <1>8 DEF Installed
<1>10. QED
  BY <1>1, <1>2, <1>5, <1>6, <1>7, <1>9 DEF HeapOK, g

\* The list of a cache has the sites that the cache serves.
LEMMA ServedSites ==
  ASSUME NEW h, NEW w, NEW Z, HeapOK(h, w, Z), NEW c \in Caches, NEW k \in Kinds
  PROVE  SitesIn(h.refs[c][k]) = Served(w, c, k)
<1>1. h \in HeapType /\ w \in Where /\ Recorded(h, w) /\ OnlyRecorded(h, w)
  BY DEF HeapOK
<1>2. h.refs[c][k] \in AList
  BY <1>1, HeapFields
<1>3. ASSUME NEW s \in SitesIn(h.refs[c][k]) PROVE s \in Served(w, c, k)
  <2>1. PICK n \in Symbols : s \in Listed(h.refs[c][k], n)
    BY <1>2, <1>3, SitesInMeaning
  <2>2. s \in Sites
    BY <1>2, <2>1, ListedType
  <2>3. QED
    BY <1>1, <2>1, <2>2 DEF OnlyRecorded, Served
<1>4. ASSUME NEW s \in Served(w, c, k) PROVE s \in SitesIn(h.refs[c][k])
  <2>1. s \in Sites /\ w[s] = c /\ KindOf(s) = k /\ w[s] # NoCell
    BY Distinct DEF Served
  <2>2. s \in Listed(h.refs[c][k], s.name) /\ s.name \in Symbols
    BY <1>1, <2>1, SiteType DEF Recorded
  <2>3. QED
    BY <1>2, <2>2, SitesInMeaning
<1>5. QED
  BY <1>3, <1>4

LEMMA ReinstallOK ==
  ASSUME NEW h, NEW w, NEW Z, HeapOK(h, w, Z), NEW c \in Caches, NEW k \in Kinds
  PROVE  LET g == reinstall(h, c, k)
         IN  /\ HeapOK(g, w, Z \ Served(w, c, k)) /\ SameCaches(h, g) /\ g.strong = h.strong
             /\ g.refs = [h.refs EXCEPT ![c][k] = walked(h.refs[c][k])]
<1> DEFINE S == SitesIn(h.refs[c][k])
           i == InstallAll(h, c, k, S)
           a == walked(h.refs[c][k])
<1>1. S = Served(w, c, k)
  BY ServedSites
<1>2. HeapOK(i, w, Z \ Served(w, c, k)) /\ SameCaches(h, i) /\ i.strong = h.strong /\ i.refs = h.refs
  BY <1>1, InstallOK
<1>3. h.refs[c][k] \in AList
  BY HeapFields DEF HeapOK
<1>4. a \in AList /\ \A n : Listed(a, n) = Listed(i.refs[c][k], n)
  BY <1>2, <1>3, WalkedLists
<1>5. reinstall(h, c, k) = [i EXCEPT !.refs[c][k] = walked(i.refs[c][k])]
  BY DEF reinstall
<1> HIDE DEF i, a, S
<1>6. reinstall(h, c, k) = [i EXCEPT !.refs[c][k] = a]
  BY <1>2, <1>5 DEF a
<1>7. QED
  BY <1>2, <1>4, <1>6, RelistOK DEF SameCaches, a

-----------------------------------------------------------------------------
(* Clones, and assignment to a cache. *)

LEMMA HeapWeaken ==
  ASSUME NEW h, NEW w, NEW Z, NEW Y, HeapOK(h, w, Z), Z \cap Sites \subseteq Y
  PROVE  HeapOK(h, w, Y)
  BY DEF HeapOK, Installed

\* A list that is walked or left alone does not begin to need a clone.
LEMMA CloneKept ==
  ASSUME NEW h, NEW g, NEW d, g.clone[d] = h.clone[d], CloneOK(h, d),
         \A k \in Kinds : g.refs[d][k] # <<>> => h.refs[d][k] # <<>>
  PROVE  CloneOK(g, d)
<1>1. "assignment" \in Kinds /\ "operator" \in Kinds
  BY DEF Kinds
<1>2. QED
  BY <1>1 DEF CloneOK, NeedsClone

\* One list was walked.
LEMMA WalkedNeeds ==
  ASSUME NEW h \in HeapType, NEW g, NEW c \in Caches, NEW k \in Kinds,
         g.refs = [h.refs EXCEPT ![c][k] = walked(h.refs[c][k])]
  PROVE  \A d \in Caches, j \in Kinds : g.refs[d][j] # <<>> => h.refs[d][j] # <<>>
<1>1. h.refs \in [Caches -> [Kinds -> AList]]
  BY HeapFields
<1>2. walked(h.refs[c][k]) # <<>> => h.refs[c][k] # <<>>
  BY <1>1, WalkedLists
<1>3. QED
  BY <1>1, <1>2

LEMMA ReinstallClones ==
  ASSUME NEW h, NEW w, NEW Z, HeapOK(h, w, Z), NEW c \in Caches, NEW k \in Kinds
  PROVE  \A d \in Caches : CloneOK(h, d) => CloneOK(reinstall(h, c, k), d)
<1> DEFINE g == reinstall(h, c, k)
<1>1. h \in HeapType
  BY DEF HeapOK
<1>2. /\ HeapOK(g, w, Z \ Served(w, c, k)) /\ SameCaches(h, g) /\ g.strong = h.strong
      /\ g.refs = [h.refs EXCEPT ![c][k] = walked(h.refs[c][k])]
  BY ReinstallOK
<1> HIDE DEF g
<1>3. \A d \in Caches, j \in Kinds : g.refs[d][j] # <<>> => h.refs[d][j] # <<>>
  BY <1>1, <1>2, WalkedNeeds
<1>4. ASSUME NEW d \in Caches, CloneOK(h, d) PROVE CloneOK(g, d)
  <2>1. g.clone[d] = h.clone[d]
    BY <1>2 DEF SameCaches
  <2>2. QED
    BY <1>3, <1>4, <2>1, CloneKept
<1>5. QED
  BY <1>4 DEF g

LEMMA CloneChanged ==
  ASSUME NEW h, NEW w, NEW Z, HeapOK(h, w, Z), NEW c \in Caches, NEW b \in BOOLEAN
  PROVE  HeapOK([h EXCEPT !.clone[c] = b], w, Z \cup Served(w, c, "assignment"))
<1> DEFINE g == [h EXCEPT !.clone[c] = b]
           S == Served(w, c, "assignment")
<1>1. h \in HeapType /\ CellsOK(h) /\ w \in Where /\ Recorded(h, w) /\ OnlyRecorded(h, w) /\ Installed(h, w, Z)
  BY DEF HeapOK
<1>2. /\ g \in HeapType /\ g.cell = h.cell /\ g.ext = h.ext /\ g.trap = h.trap
      /\ g.val = h.val /\ g.refs = h.refs /\ g.slot = h.slot /\ g.strong = h.strong
      /\ g.clone = [h.clone EXCEPT ![c] = b]
  BY <1>1, SetClone
<1> HIDE DEF g
<1>3. CellsOK(g)
  BY <1>1, <1>2, CellsSame
<1>4. Recorded(g, w) /\ OnlyRecorded(g, w)
  BY <1>1, <1>2 DEF Recorded, OnlyRecorded
<1>5. ASSUME NEW s \in Sites \ (Z \cup S)
      PROVE  g.slot[s] = IF w[s] = NoCell THEN NoSlot ELSE install_cache(g, w[s], KindOf(s))
  <2>1. h.slot[s] = IF w[s] = NoCell THEN NoSlot ELSE install_cache(h, w[s], KindOf(s))
    BY <1>1, <1>5 DEF Installed
  <2>2. w[s] # c \/ KindOf(s) # "assignment"
    BY <1>5 DEF Served
  <2>3. w[s] # NoCell => install_cache(g, w[s], KindOf(s)) = install_cache(h, w[s], KindOf(s))
    <3>1. CASE w[s] # c
      <4>1. w[s] # NoCell => g.clone[w[s]] = h.clone[w[s]] /\ g.val[w[s]] = h.val[w[s]]
        BY <1>1, <1>2, <3>1, WhereType, HeapFields
      <4>2. QED
        BY <4>1, InstallSame
    <3>2. CASE KindOf(s) # "assignment"
      <4>1. KindOf(s) \in {"lookup", "operator"}
        BY <3>2, SiteType DEF Kinds
      <4>2. QED
        BY <1>2, <4>1 DEF install_cache, make_uuo_link
    <3>3. QED
      BY <2>2, <3>1, <3>2
  <2>4. QED
    BY <1>2, <2>1, <2>3
<1>6. Installed(g, w, Z \cup S)
  BY <1>5 DEF Installed
<1>7. QED
  BY <1>1, <1>2, <1>3, <1>4, <1>6 DEF HeapOK, g

\* The heaps have the same bindings and the caches the same values.
SameValues(h, g) ==
  g.cell = h.cell /\ g.ext = h.ext /\ g.trap = h.trap /\ g.val = h.val /\ g.strong = h.strong

\* update_clone makes the clone of c right and harms no other.
LEMMA UpdateCloneOK ==
  ASSUME NEW h, NEW w, NEW Z, HeapOK(h, w, Z), NEW c \in Caches
  PROVE  LET g == update_clone(h, c)
         IN  /\ HeapOK(g, w, Z) /\ SameValues(h, g) /\ CloneOK(g, c)
             /\ \A d \in Caches : CloneOK(h, d) => CloneOK(g, d)
<1>1. CASE h.clone[c] = NeedsClone(h, c)
  BY <1>1 DEF update_clone, CloneOK, SameValues
<1>2. CASE h.clone[c] # NeedsClone(h, c)
  <2> DEFINE b == NeedsClone(h, c)
             i == [h EXCEPT !.clone[c] = b]
             g == reinstall(i, c, "assignment")
             S == Served(w, c, "assignment")
  <2>1. update_clone(h, c) = g
    BY <1>2 DEF update_clone
  <2>2. b \in BOOLEAN /\ h \in HeapType /\ "assignment" \in Kinds /\ "operator" \in Kinds
    BY DEF NeedsClone, HeapOK, Kinds
  <2>3. b <=> h.refs[c]["assignment"] # <<>> /\ h.refs[c]["operator"] # <<>>
    BY DEF NeedsClone
  <2> HIDE DEF b
  <2>4. HeapOK(i, w, Z \cup S)
    BY <2>2, CloneChanged
  <2>5. /\ i.cell = h.cell /\ i.ext = h.ext /\ i.trap = h.trap /\ i \in HeapType
        /\ i.val = h.val /\ i.refs = h.refs /\ i.strong = h.strong
        /\ i.clone = [h.clone EXCEPT ![c] = b]
    BY <2>2, SetClone
  <2> HIDE DEF i
  <2>6. /\ HeapOK(g, w, (Z \cup S) \ S) /\ SameCaches(i, g) /\ g.strong = i.strong
        /\ g.refs = [i.refs EXCEPT ![c]["assignment"] = walked(i.refs[c]["assignment"])]
    BY <2>2, <2>4, ReinstallOK
  <2> HIDE DEF g
  <2>7. HeapOK(g, w, Z)
    BY <2>6, HeapWeaken
  <2>8. SameValues(h, g)
    BY <2>5, <2>6 DEF SameCaches, SameValues
  <2>9. \A d \in Caches, j \in Kinds : g.refs[d][j] # <<>> => i.refs[d][j] # <<>>
    BY <2>2, <2>5, <2>6, WalkedNeeds
  <2>10. CloneOK(g, c)
    <3>1. g.clone[c] = b
      BY <2>2, <2>5, <2>6, HeapFields DEF SameCaches
    <3>2. NeedsClone(g, c) => b
      BY <2>2, <2>3, <2>5, <2>9 DEF NeedsClone
    <3>3. QED
      BY <3>1, <3>2 DEF CloneOK
  <2>11. ASSUME NEW d \in Caches, CloneOK(h, d), d # c PROVE CloneOK(g, d)
    <3>1. g.clone[d] = h.clone[d]
      BY <2>2, <2>5, <2>6, <2>11, HeapFields DEF SameCaches
    <3>2. QED
      BY <2>5, <2>9, <2>11, <3>1, CloneKept
  <2>12. QED
    BY <2>1, <2>7, <2>8, <2>10, <2>11
<1>3. QED
  BY <1>1, <1>2

LEMMA ValChanged ==
  ASSUME NEW h, NEW w, NEW Z, HeapOK(h, w, Z), NEW c \in Caches, NEW v \in Values \cup Traps
  PROVE  HeapOK([h EXCEPT !.val[c] = v], w, Z \cup Served(w, c, "operator"))
<1> DEFINE g == [h EXCEPT !.val[c] = v]
           S == Served(w, c, "operator")
<1>1. h \in HeapType /\ CellsOK(h) /\ w \in Where /\ Recorded(h, w) /\ OnlyRecorded(h, w) /\ Installed(h, w, Z)
  BY DEF HeapOK
<1>2. /\ g \in HeapType /\ g.cell = h.cell /\ g.ext = h.ext /\ g.trap = h.trap
      /\ g.clone = h.clone /\ g.refs = h.refs /\ g.slot = h.slot /\ g.strong = h.strong
      /\ g.val = [h.val EXCEPT ![c] = v]
  BY <1>1, SetVal
<1> HIDE DEF g
<1>3. v # NoCell /\ \A d \in Caches : d # c => g.val[d] = h.val[d]
  BY <1>1, <1>2, HeapFields, Distinct
<1>4. \A d \in Caches : h.val[d] # NoCell => g.val[d] # NoCell
  BY <1>1, <1>2, <1>3, HeapFields
<1>5. CellsOK(g)
  BY <1>1, <1>2, <1>4 DEF CellsOK, Cached
<1>6. Recorded(g, w) /\ OnlyRecorded(g, w)
  <2>1. OnlyRecorded(g, w)
    BY <1>1, <1>2 DEF OnlyRecorded
  <2>2. Recorded(g, w)
    BY <1>1, <1>2, <1>4, WhereType DEF Recorded
  <2>3. QED
    BY <2>1, <2>2
<1>7. ASSUME NEW s \in Sites \ (Z \cup S)
      PROVE  g.slot[s] = IF w[s] = NoCell THEN NoSlot ELSE install_cache(g, w[s], KindOf(s))
  <2>1. h.slot[s] = IF w[s] = NoCell THEN NoSlot ELSE install_cache(h, w[s], KindOf(s))
    BY <1>1, <1>7 DEF Installed
  <2>2. w[s] # c \/ KindOf(s) # "operator"
    BY <1>7 DEF Served
  <2>3. w[s] # NoCell => install_cache(g, w[s], KindOf(s)) = install_cache(h, w[s], KindOf(s))
    <3>1. CASE w[s] # c
      <4>1. w[s] # NoCell => g.clone[w[s]] = h.clone[w[s]] /\ g.val[w[s]] = h.val[w[s]]
        BY <1>1, <1>2, <1>3, <3>1, WhereType
      <4>2. QED
        BY <4>1, InstallSame
    <3>2. CASE KindOf(s) # "operator"
      <4>1. KindOf(s) \in {"lookup", "assignment"}
        BY <3>2, SiteType DEF Kinds
      <4>2. QED
        BY <1>2, <4>1 DEF install_cache
    <3>3. QED
      BY <2>2, <3>1, <3>2
  <2>4. QED
    BY <1>2, <2>1, <2>3
<1>8. Installed(g, w, Z \cup S)
  BY <1>7 DEF Installed
<1>9. QED
  BY <1>1, <1>2, <1>5, <1>6, <1>8 DEF HeapOK, g

\* The heaps have the same bindings.
SameBindings(h, g) == g.cell = h.cell /\ g.ext = h.ext /\ g.trap = h.trap

\* The value of a cache that no call refers to can be stored directly.
LEMMA StoreOK ==
  ASSUME NEW h, NEW w, HeapOK(h, w, {}), AllClones(h), NEW c \in Caches, NEW v \in Values \cup Traps,
         Served(w, c, "operator") = {}
  PROVE  LET g == [h EXCEPT !.val[c] = v]
         IN  HeapOK(g, w, {}) /\ AllClones(g) /\ SameBindings(h, g)
<1> DEFINE g == [h EXCEPT !.val[c] = v]
<1>1. HeapOK(g, w, {})
  <2>1. HeapOK(g, w, {} \cup Served(w, c, "operator"))
    BY ValChanged
  <2>2. QED
    BY <2>1, HeapWeaken
<1>2. /\ g.cell = h.cell /\ g.ext = h.ext /\ g.trap = h.trap
      /\ g.clone = h.clone /\ g.refs = h.refs
  BY SetVal DEF HeapOK
<1> HIDE DEF g
<1>3. AllClones(g)
  BY <1>2 DEF AllClones, CloneOK, NeedsClone
<1>4. QED
  BY <1>1, <1>2, <1>3 DEF SameBindings, g

LEMMA UuoLinksOK ==
  ASSUME NEW h, NEW w, HeapOK(h, w, {}), AllClones(h), NEW c \in Caches, NEW v \in Values \cup Traps
  PROVE  LET g == update_uuo_links(h, c, v)
         IN  HeapOK(g, w, {}) /\ AllClones(g) /\ SameBindings(h, g)
<1> DEFINE S == Served(w, c, "operator")
           i == [h EXCEPT !.val[c] = v]
           a == walked(h.refs[c]["operator"])
           j == [i EXCEPT !.refs[c]["operator"] = a]
           m == update_clone(j, c)
           g == reinstall(m, c, "operator")
<1>1. h \in HeapType /\ "operator" \in Kinds
  BY DEF HeapOK, Kinds
<1>2. HeapOK(i, w, {} \cup S)
  BY ValChanged
<1>3. /\ i \in HeapType /\ i.cell = h.cell /\ i.ext = h.ext /\ i.trap = h.trap
      /\ i.clone = h.clone /\ i.refs = h.refs
  BY <1>1, SetVal
<1>4. update_uuo_links(h, c, v) = g
  BY <1>1, HeapFields DEF update_uuo_links
<1> HIDE DEF i
<1>5. h.refs[c]["operator"] \in AList
  BY <1>1, HeapFields
<1>6. a \in AList /\ \A n : Listed(a, n) = Listed(i.refs[c]["operator"], n)
  BY <1>3, <1>5, WalkedLists
<1> HIDE DEF a
<1>7. /\ HeapOK(j, w, {} \cup S) /\ SameCaches(i, j) /\ j.strong = i.strong /\ j.slot = i.slot
      /\ j.refs = [i.refs EXCEPT ![c]["operator"] = a]
  BY <1>1, <1>2, <1>6, RelistOK
<1> HIDE DEF j
<1>8. \A d \in Caches, k \in Kinds : j.refs[d][k] # <<>> => i.refs[d][k] # <<>>
  BY <1>1, <1>3, <1>7, WalkedNeeds DEF a
<1>9. ASSUME NEW d \in Caches PROVE CloneOK(j, d)
  <2>1. j.clone[d] = h.clone[d] /\ CloneOK(h, d)
    BY <1>3, <1>7 DEF AllClones, SameCaches
  <2>2. \A k \in Kinds : j.refs[d][k] # <<>> => h.refs[d][k] # <<>>
    BY <1>3, <1>8
  <2>3. QED
    BY <2>1, <2>2, CloneKept
<1>10. /\ HeapOK(m, w, {} \cup S) /\ SameValues(j, m) /\ CloneOK(m, c)
       /\ \A d \in Caches : CloneOK(j, d) => CloneOK(m, d)
  BY <1>7, UpdateCloneOK
<1> HIDE DEF m
<1>11. /\ HeapOK(g, w, ({} \cup S) \ S) /\ SameCaches(m, g) /\ g.strong = m.strong
       /\ g.refs = [m.refs EXCEPT ![c]["operator"] = walked(m.refs[c]["operator"])]
  BY <1>1, <1>10, ReinstallOK
<1>12. \A d \in Caches : CloneOK(m, d) => CloneOK(g, d)
  BY <1>1, <1>10, ReinstallClones
<1> HIDE DEF g
<1>13. HeapOK(g, w, {})
  BY <1>11, HeapWeaken
<1>14. AllClones(g)
  BY <1>9, <1>10, <1>12 DEF AllClones
<1>15. SameBindings(h, g)
  BY <1>3, <1>7, <1>10, <1>11 DEF SameBindings, SameCaches, SameValues
<1>16. QED
  BY <1>4, <1>13, <1>14, <1>15

\* No site is served from an empty list.
LEMMA NoneServed ==
  ASSUME NEW h, NEW w, NEW Z, HeapOK(h, w, Z), NEW c \in Caches, NEW k \in Kinds, h.refs[c][k] = <<>>
  PROVE  Served(w, c, k) = {}
<1>1. SitesIn(h.refs[c][k]) = Served(w, c, k)
  BY ServedSites
<1>2. SitesIn(<<>>) = {}
  BY DEF SitesIn
<1>3. QED
  BY <1>1, <1>2

LEMMA AssignCacheOK ==
  ASSUME NEW h, NEW w, HeapOK(h, w, {}), AllClones(h), NEW c \in Caches, NEW v \in Values \cup Traps,
         NEW force
  PROVE  LET g == assign_variable_cache(h, c, v, force)
         IN  HeapOK(g, w, {}) /\ AllClones(g) /\ SameBindings(h, g)
<1>1. CASE ~Writable(h.val[c], force)
  BY <1>1 DEF assign_variable_cache, SameBindings
<1>2. CASE Writable(h.val[c], force) /\ h.refs[c]["operator"] # <<>>
  <2>1. assign_variable_cache(h, c, v, force) = update_uuo_links(h, c, v)
    BY <1>2 DEF assign_variable_cache
  <2>2. QED
    BY <2>1, UuoLinksOK
<1>3. CASE Writable(h.val[c], force) /\ h.refs[c]["operator"] = <<>>
  <2>1. assign_variable_cache(h, c, v, force) = [h EXCEPT !.val[c] = v]
    BY <1>3 DEF assign_variable_cache
  <2>2. Served(w, c, "operator") = {}
    BY <1>3, NoneServed DEF Kinds
  <2>3. QED
    BY <2>1, <2>2, StoreOK
<1>4. QED
  BY <1>1, <1>2, <1>3

-----------------------------------------------------------------------------
(* A cell is given a cache. *)

LEMMA GuaranteeFields ==
  ASSUME NEW h \in HeapType, NEW x \in Cells, ~Cached(h, x), \E d \in Caches : h.val[d] = NoCell
  PROVE  LET g == guarantee_cache(h, x)
             c == Fresh(h)
         IN  /\ c \in Caches /\ h.val[c] = NoCell
             /\ g \in HeapType /\ g.ext = h.ext /\ g.slot = h.slot /\ g.strong = h.strong
             /\ g.cell = [h.cell EXCEPT ![x] = c] /\ g.trap = [h.trap EXCEPT ![c] = c]
             /\ g.val = [h.val EXCEPT ![c] = h.cell[x]] /\ g.clone = [h.clone EXCEPT ![c] = FALSE]
             /\ g.refs = [h.refs EXCEPT ![c] = [k \in Kinds |-> <<>>]]
<1> DEFINE c == Fresh(h)
           g == [h EXCEPT !.cell[x] = c, !.trap[c] = c, !.val[c] = h.cell[x],
                          !.clone[c] = FALSE, !.refs[c] = [k \in Kinds |-> <<>>]]
<1>1. guarantee_cache(h, x) = g
  BY DEF guarantee_cache
<1>2. c \in Caches /\ h.val[c] = NoCell
  BY DEF Fresh
<1>3. h.cell[x] \in Values \cup Traps
  BY HeapFields DEF Cached
<1> HIDE DEF c
<1>4. /\ g.ext = h.ext /\ g.slot = h.slot /\ g.strong = h.strong
      /\ g.cell = [h.cell EXCEPT ![x] = c] /\ g.trap = [h.trap EXCEPT ![c] = c]
      /\ g.val = [h.val EXCEPT ![c] = h.cell[x]] /\ g.clone = [h.clone EXCEPT ![c] = FALSE]
      /\ g.refs = [h.refs EXCEPT ![c] = [k \in Kinds |-> <<>>]]
  BY DEF HeapType
<1>5. [k \in Kinds |-> <<>>] \in [Kinds -> AList]
  BY EmptyList
<1>6. g \in HeapType
  <2>1. g.cell \in [Cells -> Values \cup Traps \cup Caches] /\ g.trap \in [Caches -> Caches]
    BY <1>2, <1>4, HeapFields
  <2>2. g.val \in [Caches -> Values \cup Traps \cup {NoCell}] /\ g.clone \in [Caches -> BOOLEAN]
    BY <1>2, <1>3, <1>4, HeapFields
  <2>3. g.refs \in [Caches -> [Kinds -> AList]]
    BY <1>2, <1>4, <1>5, HeapFields
  <2>4. g = [h EXCEPT !.cell = g.cell, !.trap = g.trap, !.val = g.val, !.clone = g.clone,
                      !.refs = g.refs]
    BY DEF HeapType
  <2> HIDE DEF g
  <2>5. QED
    BY <2>1, <2>2, <2>3, <2>4 DEF HeapType
<1>7. QED
  BY <1>1, <1>2, <1>4, <1>6 DEF c

LEMMA GuaranteeOK ==
  ASSUME NEW h, NEW w, HeapOK(h, w, {}), AllClones(h), NEW x \in Cells,
         \E d \in Caches : h.val[d] = NoCell
  PROVE  LET g == guarantee_cache(h, x)
         IN  /\ HeapOK(g, w, {}) /\ AllClones(g) /\ g.ext = h.ext /\ g.strong = h.strong
             /\ g.cell[x] \in Caches /\ \A y \in Cells : y # x => g.cell[y] = h.cell[y]
             /\ IF Cached(h, x) THEN g = h ELSE h.val[g.cell[x]] = NoCell
<1>1. CASE Cached(h, x)
  BY <1>1 DEF guarantee_cache, Cached
<1>2. CASE ~Cached(h, x)
  <2> DEFINE g == guarantee_cache(h, x)
             c == Fresh(h)
  <2>1. h \in HeapType /\ CellsOK(h) /\ w \in Where /\ Recorded(h, w) /\ OnlyRecorded(h, w) /\ Installed(h, w, {})
    BY DEF HeapOK
  <2>2. /\ c \in Caches /\ h.val[c] = NoCell
        /\ g \in HeapType /\ g.ext = h.ext /\ g.slot = h.slot /\ g.strong = h.strong
        /\ g.cell = [h.cell EXCEPT ![x] = c] /\ g.trap = [h.trap EXCEPT ![c] = c]
        /\ g.val = [h.val EXCEPT ![c] = h.cell[x]] /\ g.clone = [h.clone EXCEPT ![c] = FALSE]
        /\ g.refs = [h.refs EXCEPT ![c] = [k \in Kinds |-> <<>>]]
    BY <1>2, <2>1, GuaranteeFields
  <2> HIDE DEF g, c
  <2>3. /\ g.cell[x] = c /\ \A y \in Cells : y # x => g.cell[y] = h.cell[y]
        /\ h.cell[x] \in Values \cup Traps /\ h.cell[x] # NoCell
    BY <1>2, <2>1, <2>2, HeapFields, Distinct DEF Cached
  <2>4. /\ g.val[c] = h.cell[x] /\ \A d \in Caches : d # c => g.val[d] = h.val[d]
        /\ \A d \in Caches : d # c => g.clone[d] = h.clone[d]
    BY <2>1, <2>2, HeapFields
  <2>5. /\ \A k \in Kinds : g.refs[c][k] = <<>>
        /\ \A d \in Caches : d # c => g.refs[d] = h.refs[d]
    BY <2>1, <2>2, HeapFields
  <2>6. \A s \in Sites : w[s] # NoCell => w[s] \in Caches /\ w[s] # c
    BY <2>1, <2>2, WhereType DEF Recorded
  <2>7. CellsOK(g)
    <3>1. \A d \in Caches : g.trap[d] = d
      BY <2>1, <2>2, HeapFields DEF CellsOK
    <3>2. \A y \in Cells : y # x => h.cell[y] # c
      BY <2>1, <2>2 DEF CellsOK, Cached
    <3>3. ASSUME NEW y \in Cells, Cached(g, y)
          PROVE  g.val[g.cell[y]] # NoCell /\ \A z \in Cells : g.cell[z] = g.cell[y] => z = y
      <4>1. CASE y = x
        BY <2>3, <2>4, <3>2, <4>1
      <4>2. CASE y # x
        <5>1. g.cell[y] = h.cell[y] /\ h.cell[y] # c /\ Cached(h, y)
          BY <2>3, <3>2, <3>3, <4>2 DEF Cached
        <5>2. h.val[h.cell[y]] # NoCell /\ \A z \in Cells : h.cell[z] = h.cell[y] => z = y
          BY <2>1, <5>1 DEF CellsOK
        <5>3. g.val[g.cell[y]] # NoCell
          BY <2>4, <5>1, <5>2 DEF Cached
        <5>4. \A z \in Cells : g.cell[z] = g.cell[y] => z = y
          BY <2>3, <5>1, <5>2
        <5>5. QED
          BY <5>3, <5>4
      <4>3. QED
        BY <4>1, <4>2
    <3>4. QED
      BY <3>1, <3>3 DEF CellsOK
  <2>8. Recorded(g, w)
    BY <2>1, <2>4, <2>5, <2>6 DEF Recorded
  <2>9. OnlyRecorded(g, w)
    <3>1. ASSUME NEW d \in Caches, NEW k \in Kinds, NEW n \in Symbols, NEW s \in Listed(g.refs[d][k], n)
          PROVE  d = w[s] /\ k = KindOf(s) /\ n = s.name
      <4>1. d # c
        BY <2>5, <3>1, EmptyList
      <4>2. QED
        BY <2>1, <2>5, <3>1, <4>1 DEF OnlyRecorded
    <3>2. QED
      BY <3>1 DEF OnlyRecorded
  <2>10. Installed(g, w, {})
    <3>1. \A s \in Sites : w[s] # NoCell => install_cache(g, w[s], KindOf(s)) = install_cache(h, w[s], KindOf(s))
      BY <2>4, <2>6, InstallSame
    <3>2. QED
      BY <2>1, <2>2, <3>1 DEF Installed
  <2>11. AllClones(g)
    <3>1. ~CloneOK(g, c) => FALSE
      BY <2>5 DEF CloneOK, NeedsClone, Kinds
    <3>2. \A d \in Caches : d # c => CloneOK(g, d)
      BY <2>4, <2>5 DEF AllClones, CloneOK, NeedsClone
    <3>3. QED
      BY <3>1, <3>2 DEF AllClones
  <2>12. HeapOK(g, w, {})
    BY <2>1, <2>2, <2>7, <2>8, <2>9, <2>10 DEF HeapOK
  <2>13. QED
    BY <1>2, <2>2, <2>3, <2>11, <2>12 DEF g
<1>3. QED
  BY <1>1, <1>2

\* A cell is given a value.
LEMMA CellChanged ==
  ASSUME NEW h, NEW w, NEW Z, HeapOK(h, w, Z), NEW g \in HeapType, NEW x \in Cells,
         g.trap = h.trap, g.clone = h.clone, g.val = h.val, g.refs = h.refs, g.slot = h.slot,
         g.cell[x] \in Values \cup Traps, \A y \in Cells : y # x => g.cell[y] = h.cell[y]
  PROVE  HeapOK(g, w, Z) /\ (AllClones(h) => AllClones(g))
<1>1. h \in HeapType /\ CellsOK(h) /\ w \in Where /\ Recorded(h, w) /\ OnlyRecorded(h, w) /\ Installed(h, w, Z)
  BY DEF HeapOK
<1>2. CellsOK(g)
  <2>1. ~Cached(g, x)
    BY Distinct DEF Cached
  <2>2. QED
    BY <1>1, <2>1 DEF CellsOK, Cached
<1>3. Recorded(g, w) /\ OnlyRecorded(g, w)
  BY <1>1 DEF Recorded, OnlyRecorded
<1>4. \A d, k : install_cache(g, d, k) = install_cache(h, d, k)
  BY InstallSame
<1>5. Installed(g, w, Z)
  BY <1>1, <1>4 DEF Installed
<1>6. AllClones(h) => AllClones(g)
  BY DEF AllClones, CloneOK, NeedsClone
<1>7. QED
  BY <1>1, <1>2, <1>3, <1>5, <1>6 DEF HeapOK

LEMMA TiedCell ==
  ASSUME NEW h, NEW w, ArgsBound(h), w \in Where, Tied(h, w), NEW s \in Sites, w[s] # NoCell
  PROVE  /\ Home(h, s) \in Cells \ {Dummy} /\ Home(h, s) # NoCell
         /\ w[s] = h.cell[Home(h, s)] /\ w[s] \in Caches
<1>1. Home(h, s) # NoCell /\ w[s] = h.cell[Home(h, s)]
  BY DEF Tied
<1>2. Home(h, s) \in Cells \ {Dummy}
  BY <1>1, SiteType, FindCell DEF Home
<1>3. QED
  BY <1>1, <1>2, WhereType

LEMMA TiedSame ==
  ASSUME NEW h, NEW g, NEW w, ArgsBound(h), ArgsBound(g), w \in Where, Tied(h, w), g.ext = h.ext,
         \A y \in Cells : h.cell[y] \in Caches => g.cell[y] = h.cell[y]
  PROVE  Tied(g, w)
<1>1. ASSUME NEW s \in Sites, w[s] # NoCell PROVE Home(g, s) # NoCell /\ w[s] = g.cell[Home(g, s)]
  <2>1. Home(g, s) = Home(h, s)
    BY SiteType, FindSame DEF Home
  <2>2. QED
    BY <1>1, <2>1, TiedCell
<1>2. QED
  BY <1>1 DEF Tied

\* Nothing that the bindings and the sites depend on changed.
LEMMA GoodSame ==
  ASSUME NEW h, NEW g, NEW w, Good(h, w), HeapOK(g, w, {}), AllClones(g), SameBindings(h, g)
  PROVE  Good(g, w)
<1>1. ArgsBound(g)
  BY DEF Good, ArgsBound, SameBindings
<1>2. w \in Where
  BY DEF HeapOK
<1>3. Tied(g, w)
  BY <1>1, <1>2, TiedSame DEF Good, SameBindings
<1>4. QED
  BY <1>1, <1>3 DEF Good

-----------------------------------------------------------------------------
(* References are moved from one cache to another. *)

\* The sites that move_ref_pairs takes from the list of a cache, and where they are then.
Movers(w, from, kind, env, sym) ==
  {s \in Served(w, from, kind) : s.name = sym /\ move_ref_pair_p(s, env)}
Relisted(h, from, to, kind, sym, S) ==
  [h EXCEPT !.refs[from][kind] = delete_references(h.refs[from][kind], sym, S),
            !.refs[to][kind] = add_references(h.refs[to][kind], sym, S)]
Moved(w, S, to) == [s \in Sites |-> IF s \in S THEN to ELSE w[s]]

LEMMA PairsToMove ==
  ASSUME NEW h, NEW w, NEW Z, HeapOK(h, w, Z), NEW from \in Caches, NEW kind \in Kinds, NEW env,
         NEW sym \in Symbols
  PROVE  ref_pairs_to_move(h.refs[from][kind], env, sym) = Movers(w, from, kind, env, sym)
<1>1. h \in HeapType /\ w \in Where /\ Recorded(h, w) /\ OnlyRecorded(h, w)
  BY DEF HeapOK
<1>2. h.refs[from][kind] \in AList
  BY <1>1, HeapFields
<1>3. \A s : s \in Listed(h.refs[from][kind], sym) => s \in Sites /\ w[s] = from /\ KindOf(s) = kind /\ s.name = sym
  BY <1>1, <1>2, ListedType DEF OnlyRecorded
<1>4. \A s \in Sites : w[s] = from /\ KindOf(s) = kind /\ s.name = sym => s \in Listed(h.refs[from][kind], sym)
  BY <1>1, Distinct DEF Recorded
<1>5. find_references_named(h.refs[from][kind], sym) = Listed(h.refs[from][kind], sym)
  BY <1>2, FindNamed
<1>6. QED
  BY <1>3, <1>4, <1>5 DEF ref_pairs_to_move, Movers, Served

\* The lists after a move.
LEMMA RelistMoved ==
  ASSUME NEW h, NEW w, HeapOK(h, w, {}), NEW from \in Caches, NEW to \in Caches, from # to,
         h.val[to] # NoCell, NEW kind \in Kinds, NEW env, NEW sym \in Symbols
  PROVE  LET S == Movers(w, from, kind, env, sym)
             g == Relisted(h, from, to, kind, sym, S)
         IN  /\ HeapOK(g, Moved(w, S, to), S) /\ SameCaches(h, g) /\ g.strong = h.strong
             /\ \A d \in Caches : d # to /\ CloneOK(h, d) => CloneOK(g, d)
<1> DEFINE S == Movers(w, from, kind, env, sym)
           x == Moved(w, S, to)
           D == delete_references(h.refs[from][kind], sym, S)
           A == add_references(h.refs[to][kind], sym, S)
           i == [h EXCEPT !.refs[from][kind] = D]
           g == [i EXCEPT !.refs[to][kind] = A]
<1>1. h \in HeapType /\ CellsOK(h) /\ w \in Where /\ Recorded(h, w) /\ OnlyRecorded(h, w) /\ Installed(h, w, {})
  BY DEF HeapOK
<1>2. /\ S \subseteq Sites
      /\ \A s \in Sites : s \in S <=> w[s] = from /\ KindOf(s) = kind /\ s.name = sym /\ move_ref_pair_p(s, env)
  BY DEF Movers, Served
<1> HIDE DEF S
<1>3. h.refs[from][kind] \in AList /\ h.refs[to][kind] \in AList
  BY <1>1, HeapFields
<1>4. /\ D \in AList /\ (D = <<>> <=> h.refs[from][kind] = <<>>)
      /\ Listed(D, sym) = Listed(h.refs[from][kind], sym) \ S
      /\ \A n : n # sym => Listed(D, n) = Listed(h.refs[from][kind], n)
  BY <1>3, DeleteReferences
<1>5. /\ A \in AList /\ Listed(A, sym) = Listed(h.refs[to][kind], sym) \cup S
      /\ \A n : n # sym => Listed(A, n) = Listed(h.refs[to][kind], n)
  BY <1>2, <1>3, AddReferences
<1> HIDE DEF D, A
<1>6. /\ i \in HeapType /\ SameCaches(h, i) /\ i.slot = h.slot /\ i.strong = h.strong
      /\ i.refs = [h.refs EXCEPT ![from][kind] = D]
  BY <1>1, <1>4, SetRefs
<1>7. i.refs[from][kind] = D /\ \A d \in Caches, j \in Kinds : d # from \/ j # kind => i.refs[d][j] = h.refs[d][j]
  BY <1>1, <1>6, HeapFields
<1> HIDE DEF i
<1>8. /\ g \in HeapType /\ SameCaches(i, g) /\ g.slot = i.slot /\ g.strong = i.strong
      /\ g.refs = [i.refs EXCEPT ![to][kind] = A]
  BY <1>5, <1>6, SetRefs
<1>9. g.refs[to][kind] = A /\ \A d \in Caches, j \in Kinds : d # to \/ j # kind => g.refs[d][j] = i.refs[d][j]
  BY <1>6, <1>8, HeapFields
<1> HIDE DEF g
<1>10. /\ g.refs[from][kind] = D
       /\ \A d \in Caches, j \in Kinds : (d # to /\ d # from) \/ j # kind => g.refs[d][j] = h.refs[d][j]
  BY <1>7, <1>9
<1>11. SameCaches(h, g) /\ g.slot = h.slot /\ g.strong = h.strong
  BY <1>6, <1>8 DEF SameCaches
<1>12. x \in Where /\ \A s \in Sites : x[s] = IF s \in S THEN to ELSE w[s]
  BY <1>1 DEF Moved, Where
<1> HIDE DEF x
<1>13. CellsOK(g)
  BY <1>1, <1>11, CellsSame DEF SameCaches
<1>14. Recorded(g, x)
  <2>1. ASSUME NEW s \in Sites, x[s] # NoCell
        PROVE  g.val[x[s]] # NoCell /\ s \in Listed(g.refs[x[s]][KindOf(s)], s.name)
    <3>1. CASE s \in S
      BY <1>2, <1>5, <1>9, <1>11, <1>12, <3>1 DEF SameCaches
    <3>2. CASE s \notin S
      <4>1. x[s] = w[s] /\ w[s] \in Caches /\ KindOf(s) \in Kinds
        BY <1>1, <1>12, <2>1, <3>2, WhereType, SiteType
      <4>2. h.val[w[s]] # NoCell /\ s \in Listed(h.refs[w[s]][KindOf(s)], s.name)
        BY <1>1, <2>1, <4>1 DEF Recorded
      <4>3. CASE w[s] = from /\ KindOf(s) = kind
        <5>1. s \in Listed(D, s.name)
          <6>1. CASE s.name = sym
            BY <1>4, <3>2, <4>2, <4>3, <6>1
          <6>2. CASE s.name # sym
            BY <1>4, <4>2, <4>3, <6>2
          <6>3. QED
            BY <6>1, <6>2
        <5>2. QED
          BY <1>10, <1>11, <4>1, <4>2, <4>3, <5>1 DEF SameCaches
      <4>4. CASE w[s] = to /\ KindOf(s) = kind
        <5>1. s \in Listed(A, s.name)
          <6>1. CASE s.name = sym
            BY <1>5, <4>2, <4>4, <6>1
          <6>2. CASE s.name # sym
            BY <1>5, <4>2, <4>4, <6>2
          <6>3. QED
            BY <6>1, <6>2
        <5>2. QED
          BY <1>9, <1>11, <4>1, <4>2, <4>4, <5>1 DEF SameCaches
      <4>5. CASE (w[s] # to /\ w[s] # from) \/ KindOf(s) # kind
        BY <1>10, <1>11, <4>1, <4>2, <4>5 DEF SameCaches
      <4>6. QED
        BY <4>3, <4>4, <4>5
    <3>3. QED
      BY <3>1, <3>2
  <2>2. QED
    BY <2>1 DEF Recorded
<1>15. OnlyRecorded(g, x)
  <2>1. ASSUME NEW c \in Caches, NEW k \in Kinds, NEW n \in Symbols, NEW s \in Listed(g.refs[c][k], n)
        PROVE  c = x[s] /\ k = KindOf(s) /\ n = s.name
    <3>1. s \in Listed(h.refs[c][k], n) => s \in Sites /\ c = w[s] /\ k = KindOf(s) /\ n = s.name
      <4>1. h.refs[c][k] \in AList
        BY <1>1, HeapFields
      <4>2. QED
        BY <1>1, <4>1, ListedType DEF OnlyRecorded
    <3>2. CASE c = from /\ k = kind
      <4>1. s \in Listed(h.refs[c][k], n) /\ (n = sym => s \notin S)
        BY <1>4, <1>10, <2>1, <3>2
      <4>2. s \notin S
        BY <1>2, <3>1, <4>1
      <4>3. QED
        BY <1>12, <3>1, <4>1, <4>2
    <3>3. CASE c = to /\ k = kind
      <4>1. s \in Listed(h.refs[c][k], n) \/ (n = sym /\ s \in S)
        BY <1>5, <1>9, <2>1, <3>3
      <4>2. CASE s \in S /\ n = sym
        BY <1>2, <1>12, <3>3, <4>2
      <4>3. CASE s \in Listed(h.refs[c][k], n)
        BY <1>2, <1>12, <3>1, <3>3, <4>3
      <4>4. QED
        BY <4>1, <4>2, <4>3
    <3>4. CASE (c # to /\ c # from) \/ k # kind
      BY <1>2, <1>10, <1>12, <2>1, <3>1, <3>4
    <3>5. QED
      BY <3>2, <3>3, <3>4
  <2>2. QED
    BY <2>1 DEF OnlyRecorded
<1>16. Installed(g, x, S)
  <2>1. \A d, k : install_cache(g, d, k) = install_cache(h, d, k)
    BY <1>11, InstallSame DEF SameCaches
  <2>2. \A s \in Sites \ S : x[s] = w[s] /\ g.slot[s] = h.slot[s]
    BY <1>11, <1>12
  <2>3. QED
    BY <1>1, <2>1, <2>2 DEF Installed
<1>17. \A d \in Caches : d # to /\ CloneOK(h, d) => CloneOK(g, d)
  <2>1. ASSUME NEW d \in Caches, d # to, CloneOK(h, d) PROVE CloneOK(g, d)
    <3>1. g.clone[d] = h.clone[d]
      BY <1>11 DEF SameCaches
    <3>2. \A k \in Kinds : g.refs[d][k] # <<>> => h.refs[d][k] # <<>>
      BY <1>4, <1>10, <2>1
    <3>3. QED
      BY <2>1, <3>1, <3>2, CloneKept
  <2>2. QED
    BY <2>1
<1>18. HeapOK(g, x, S)
  BY <1>8, <1>12, <1>13, <1>14, <1>15, <1>16 DEF HeapOK
<1>19. Relisted(h, from, to, kind, sym, S) = g
  BY DEF g, i, D, A, Relisted
<1>20. QED
  BY <1>11, <1>17, <1>18, <1>19 DEF S, A, D, x

LEMMA MovePairsOK ==
  ASSUME NEW h, NEW w, HeapOK(h, w, {}), NEW from \in Caches, NEW to \in Caches, from # to,
         h.val[to] # NoCell, NEW kind \in Kinds, NEW env, NEW sym \in Symbols
  PROVE  LET S == Movers(w, from, kind, env, sym)
             g == move_ref_pairs(h, from, to, kind, env, sym)
         IN  /\ HeapOK(g, Moved(w, S, to), {}) /\ SameCaches(h, g) /\ g.strong = h.strong
             /\ \A d \in Caches : d # to /\ CloneOK(h, d) => CloneOK(g, d)
<1> DEFINE S == Movers(w, from, kind, env, sym)
           x == Moved(w, S, to)
<1>1. ref_pairs_to_move(h.refs[from][kind], env, sym) = S
  BY PairsToMove
<1>2. CASE S = {}
  <2>1. move_ref_pairs(h, from, to, kind, env, sym) = h
    BY <1>1, <1>2 DEF move_ref_pairs
  <2>2. x = w
    BY <1>2 DEF Moved, HeapOK, Where
  <2>3. QED
    BY <2>1, <2>2 DEF SameCaches
<1>3. CASE S # {}
  <2> DEFINE i == Relisted(h, from, to, kind, sym, S)
             g == InstallAll(i, to, kind, S)
  <2>1. move_ref_pairs(h, from, to, kind, env, sym) = g
    BY <1>1, <1>3 DEF move_ref_pairs, HeapOK, HeapType, Relisted
  <2>2. /\ HeapOK(i, x, S) /\ SameCaches(h, i) /\ i.strong = h.strong
        /\ \A d \in Caches : d # to /\ CloneOK(h, d) => CloneOK(i, d)
    BY RelistMoved
  <2> HIDE DEF i
  <2>3. S \in SUBSET Served(x, to, kind)
    BY DEF Served, Movers, Moved
  <2> HIDE DEF S, x
  <2>4. HeapOK(g, x, S \ S) /\ SameCaches(i, g) /\ g.strong = i.strong /\ g.refs = i.refs
    BY <2>2, <2>3, InstallOK
  <2> HIDE DEF g
  <2>5. HeapOK(g, x, {})
    BY <2>4, HeapWeaken
  <2>6. SameCaches(h, g) /\ g.strong = h.strong
    BY <2>2, <2>4 DEF SameCaches
  <2>7. \A d \in Caches : CloneOK(i, d) => CloneOK(g, d)
    BY <2>4 DEF SameCaches, CloneOK, NeedsClone
  <2>8. QED
    BY <2>1, <2>2, <2>5, <2>6, <2>7 DEF S, x
<1>4. QED
  BY <1>2, <1>3

\* The sites that update_cache_references moves.
AllMovers(w, from, env, sym) ==
  {s \in Sites : w[s] = from /\ s.name = sym /\ move_ref_pair_p(s, env)}

LEMMA MovedTwice ==
  ASSUME NEW w \in Where, NEW from \in Caches, NEW to \in Caches, from # to, NEW env, NEW sym
  PROVE  LET w1 == Moved(w, Movers(w, from, "lookup", env, sym), to)
             w2 == Moved(w1, Movers(w1, from, "assignment", env, sym), to)
         IN  Moved(w2, Movers(w2, from, "operator", env, sym), to) =
               Moved(w, AllMovers(w, from, env, sym), to)
<1> DEFINE w1 == Moved(w, Movers(w, from, "lookup", env, sym), to)
           w2 == Moved(w1, Movers(w1, from, "assignment", env, sym), to)
           w3 == Moved(w2, Movers(w2, from, "operator", env, sym), to)
           x == Moved(w, AllMovers(w, from, env, sym), to)
           P(s) == s.name = sym /\ move_ref_pair_p(s, env)
<1>1. \A s \in Sites : w1[s] = IF w[s] = from /\ KindOf(s) = "lookup" /\ P(s) THEN to ELSE w[s]
  BY DEF Moved, Movers, Served
<1>2. \A s \in Sites : w2[s] = IF w1[s] = from /\ KindOf(s) = "assignment" /\ P(s) THEN to ELSE w1[s]
  BY DEF Moved, Movers, Served
<1>3. \A s \in Sites : w3[s] = IF w2[s] = from /\ KindOf(s) = "operator" /\ P(s) THEN to ELSE w2[s]
  BY DEF Moved, Movers, Served
<1>4. \A s \in Sites : x[s] = IF w[s] = from /\ P(s) THEN to ELSE w[s]
  BY DEF Moved, AllMovers
<1>5. w3 = [s \in Sites |-> w3[s]] /\ x = [s \in Sites |-> x[s]]
  BY DEF Moved
<1> HIDE DEF w1, w2, w3, x, P
<1>6. \A s \in Sites : KindOf(s) \in {"lookup", "assignment", "operator"}
  BY SiteType DEF Kinds
<1>7. ASSUME NEW s \in Sites PROVE w3[s] = x[s]
  <2>1. CASE w[s] = from /\ P(s)
    <3>1. CASE KindOf(s) = "lookup"
      BY <1>1, <1>2, <1>3, <1>4, <2>1, <3>1
    <3>2. CASE KindOf(s) = "assignment"
      BY <1>1, <1>2, <1>3, <1>4, <2>1, <3>2
    <3>3. CASE KindOf(s) = "operator"
      BY <1>1, <1>2, <1>3, <1>4, <2>1, <3>3
    <3>4. QED
      BY <1>6, <3>1, <3>2, <3>3
  <2>2. CASE ~(w[s] = from /\ P(s))
    BY <1>1, <1>2, <1>3, <1>4, <2>2
  <2>3. QED
    BY <2>1, <2>2
<1>8. w3 = x
  BY <1>5, <1>7
<1>9. QED
  BY <1>8 DEF w1, w2, w3, x

LEMMA UpdateRefsOK ==
  ASSUME NEW h, NEW w, HeapOK(h, w, {}), AllClones(h), NEW from \in Caches, NEW x \in Cells,
         h.cell[x] # from, h.val[from] # NoCell, \E d \in Caches : h.val[d] = NoCell,
         NEW env, NEW sym \in Symbols
  PROVE  LET g == update_cache_references(h, from, x, env, sym)
         IN  /\ g.cell[x] \in Caches /\ AllClones(g) /\ g.ext = h.ext
             /\ HeapOK(g, Moved(w, AllMovers(w, from, env, sym), g.cell[x]), {})
             /\ \A y \in Cells : y # x \/ Cached(h, x) => g.cell[y] = h.cell[y]
<1> DEFINE h0 == guarantee_cache(h, x)
           to == cache_of(h0, x)
           h1 == move_ref_pairs(h0, from, to, "lookup", env, sym)
           h2 == move_ref_pairs(h1, from, to, "assignment", env, sym)
           h3 == move_ref_pairs(h2, from, to, "operator", env, sym)
           h4 == update_clone(h3, to)
           g  == update_clone(h4, from)
           w1 == Moved(w, Movers(w, from, "lookup", env, sym), to)
           w2 == Moved(w1, Movers(w1, from, "assignment", env, sym), to)
           w3 == Moved(w2, Movers(w2, from, "operator", env, sym), to)
<1>1. update_cache_references(h, from, x, env, sym) = g
  BY Distinct DEF update_cache_references
<1>2. /\ HeapOK(h0, w, {}) /\ AllClones(h0) /\ h0.ext = h.ext /\ h0.strong = h.strong
      /\ h0.cell[x] \in Caches /\ \A y \in Cells : y # x => h0.cell[y] = h.cell[y]
      /\ IF Cached(h, x) THEN h0 = h ELSE h.val[h0.cell[x]] = NoCell
  BY GuaranteeOK
<1> HIDE DEF h0
<1>3. CellsOK(h0) /\ w \in Where
  BY <1>2 DEF HeapOK
<1>4. to = h0.cell[x] /\ to \in Caches /\ h0.val[to] # NoCell
  BY <1>2, <1>3 DEF CellsOK, Cached, cache_of
<1>5. from # to
  BY <1>2, <1>4
<1>6. "lookup" \in Kinds /\ "assignment" \in Kinds /\ "operator" \in Kinds
  BY DEF Kinds
<1> HIDE DEF to
<1>7. /\ HeapOK(h1, w1, {}) /\ SameCaches(h0, h1) /\ h1.strong = h0.strong
      /\ \A d \in Caches : d # to /\ CloneOK(h0, d) => CloneOK(h1, d)
  BY <1>2, <1>4, <1>5, <1>6, MovePairsOK
<1> HIDE DEF h1, w1
<1>8. /\ HeapOK(h2, w2, {}) /\ SameCaches(h1, h2) /\ h2.strong = h1.strong
      /\ \A d \in Caches : d # to /\ CloneOK(h1, d) => CloneOK(h2, d)
  <2>1. h1.val[to] # NoCell
    BY <1>4, <1>7 DEF SameCaches
  <2>2. QED
    BY <1>4, <1>5, <1>6, <1>7, <2>1, MovePairsOK
<1> HIDE DEF h2, w2
<1>9. /\ HeapOK(h3, w3, {}) /\ SameCaches(h2, h3) /\ h3.strong = h2.strong
      /\ \A d \in Caches : d # to /\ CloneOK(h2, d) => CloneOK(h3, d)
  <2>1. h2.val[to] # NoCell
    BY <1>4, <1>7, <1>8 DEF SameCaches
  <2>2. QED
    BY <1>4, <1>5, <1>6, <1>8, <2>1, MovePairsOK
<1> HIDE DEF h3, w3
<1>10. w3 = Moved(w, AllMovers(w, from, env, sym), to)
  BY <1>3, <1>4, <1>5, MovedTwice DEF w1, w2, w3
<1>11. /\ HeapOK(h4, w3, {}) /\ SameValues(h3, h4) /\ CloneOK(h4, to)
       /\ \A d \in Caches : CloneOK(h3, d) => CloneOK(h4, d)
  BY <1>4, <1>9, UpdateCloneOK
<1> HIDE DEF h4
<1>12. /\ HeapOK(g, w3, {}) /\ SameValues(h4, g) /\ CloneOK(g, from)
       /\ \A d \in Caches : CloneOK(h4, d) => CloneOK(g, d)
  BY <1>11, UpdateCloneOK
<1> HIDE DEF g
<1>13. g.cell = h0.cell /\ g.ext = h0.ext
  BY <1>7, <1>8, <1>9, <1>11, <1>12 DEF SameCaches, SameValues
<1>14. AllClones(g)
  <2>1. \A d \in Caches : d # to => CloneOK(h4, d)
    BY <1>2, <1>7, <1>8, <1>9, <1>11 DEF AllClones
  <2>2. QED
    BY <1>4, <1>11, <1>12, <2>1 DEF AllClones
<1>15. QED
  BY <1>1, <1>2, <1>4, <1>10, <1>12, <1>13, <1>14

LEMMA DeleteNoneOK ==
  ASSUME NEW h, NEW w, HeapOK(h, w, {}), AllClones(h), NEW from \in Caches, NEW kind \in Kinds,
         NEW env, NEW sym \in Symbols, AllMovers(w, from, env, sym) = {}
  PROVE  LET g == delete_ref_pairs(h, from, kind, env, sym)
         IN  HeapOK(g, w, {}) /\ AllClones(g) /\ SameBindings(h, g)
<1> DEFINE S == Movers(w, from, kind, env, sym)
           a == delete_references(h.refs[from][kind], sym, S)
           g == [h EXCEPT !.refs[from][kind] = a]
<1>1. h \in HeapType
  BY DEF HeapOK
<1>2. S = {}
  BY DEF Movers, AllMovers, Served
<1>3. ref_pairs_to_move(h.refs[from][kind], env, sym) = S
  BY PairsToMove
<1> HIDE DEF S
<1>4. delete_ref_pairs(h, from, kind, env, sym) = g
  BY <1>3 DEF delete_ref_pairs
<1>5. h.refs[from][kind] \in AList
  BY <1>1, HeapFields
<1>6. /\ a \in AList /\ (a = <<>> <=> h.refs[from][kind] = <<>>)
      /\ Listed(a, sym) = Listed(h.refs[from][kind], sym) \ S
      /\ \A n : n # sym => Listed(a, n) = Listed(h.refs[from][kind], n)
  BY <1>5, DeleteReferences
<1> HIDE DEF a
<1>7. \A n : Listed(a, n) = Listed(h.refs[from][kind], n)
  BY <1>2, <1>6
<1>8. /\ HeapOK(g, w, {}) /\ SameCaches(h, g) /\ g.strong = h.strong /\ g.slot = h.slot
      /\ g.refs = [h.refs EXCEPT ![from][kind] = a]
  BY <1>6, <1>7, RelistOK
<1> HIDE DEF g
<1>9. \A d \in Caches, k \in Kinds : g.refs[d][k] # <<>> => h.refs[d][k] # <<>>
  BY <1>1, <1>6, <1>8, HeapFields
<1>10. ASSUME NEW d \in Caches PROVE CloneOK(g, d)
  <2>1. g.clone[d] = h.clone[d] /\ CloneOK(h, d)
    BY <1>8 DEF SameCaches, AllClones
  <2>2. QED
    BY <1>9, <2>1, CloneKept
<1>11. QED
  BY <1>4, <1>8, <1>10 DEF AllClones, SameCaches, SameBindings

LEMMA ForgetNoneOK ==
  ASSUME NEW h, NEW w, HeapOK(h, w, {}), AllClones(h), NEW from \in Caches,
         NEW env, NEW sym \in Symbols, AllMovers(w, from, env, sym) = {}
  PROVE  LET g == update_cache_references(h, from, NoCell, env, sym)
         IN  HeapOK(g, w, {}) /\ AllClones(g) /\ SameBindings(h, g)
<1> DEFINE d1 == delete_ref_pairs(h, from, "lookup", env, sym)
           d2 == delete_ref_pairs(d1, from, "assignment", env, sym)
           d3 == delete_ref_pairs(d2, from, "operator", env, sym)
           g == update_clone(d3, from)
<1>1. update_cache_references(h, from, NoCell, env, sym) = g
  BY DEF update_cache_references
<1>2. "lookup" \in Kinds /\ "assignment" \in Kinds /\ "operator" \in Kinds
  BY DEF Kinds
<1>3. HeapOK(d1, w, {}) /\ AllClones(d1) /\ SameBindings(h, d1)
  BY <1>2, DeleteNoneOK
<1> HIDE DEF d1
<1>4. HeapOK(d2, w, {}) /\ AllClones(d2) /\ SameBindings(d1, d2)
  BY <1>2, <1>3, DeleteNoneOK
<1> HIDE DEF d2
<1>5. HeapOK(d3, w, {}) /\ AllClones(d3) /\ SameBindings(d2, d3)
  BY <1>2, <1>4, DeleteNoneOK
<1> HIDE DEF d3
<1>6. /\ HeapOK(g, w, {}) /\ SameValues(d3, g) /\ CloneOK(g, from)
      /\ \A d \in Caches : CloneOK(d3, d) => CloneOK(g, d)
  BY <1>5, UpdateCloneOK
<1> HIDE DEF g
<1>7. AllClones(g)
  BY <1>5, <1>6 DEF AllClones
<1>8. SameBindings(h, g)
  BY <1>3, <1>4, <1>5, <1>6 DEF SameBindings, SameValues
<1>9. QED
  BY <1>1, <1>6, <1>7, <1>8

-----------------------------------------------------------------------------
(* Assignment and definition. *)

LEMMA HeapStrong ==
  ASSUME NEW h, NEW w, NEW Z, HeapOK(h, w, Z), NEW S \in SUBSET Symbols
  PROVE  LET g == [h EXCEPT !.strong = S]
         IN  HeapOK(g, w, Z) /\ SameCaches(h, g) /\ g.refs = h.refs
<1> DEFINE g == [h EXCEPT !.strong = S]
<1>1. h \in HeapType /\ CellsOK(h) /\ w \in Where /\ Recorded(h, w) /\ OnlyRecorded(h, w) /\ Installed(h, w, Z)
  BY DEF HeapOK
<1>2. g \in HeapType /\ SameCaches(h, g) /\ g.slot = h.slot /\ g.refs = h.refs
  BY <1>1, SetStrong
<1> HIDE DEF g
<1>3. CellsOK(g)
  BY <1>1, <1>2, CellsSame DEF SameCaches
<1>4. Recorded(g, w) /\ OnlyRecorded(g, w)
  BY <1>1, <1>2 DEF Recorded, OnlyRecorded, SameCaches
<1>5. \A d, k : install_cache(g, d, k) = install_cache(h, d, k)
  BY <1>2, InstallSame DEF SameCaches
<1>6. Installed(g, w, Z)
  BY <1>1, <1>2, <1>5 DEF Installed
<1>7. QED
  BY <1>1, <1>2, <1>3, <1>4, <1>6 DEF HeapOK, g

LEMMA GoodStrong ==
  ASSUME NEW h, NEW w, Good(h, w), NEW S \in SUBSET Symbols
  PROVE  Good([h EXCEPT !.strong = S], w)
<1> DEFINE g == [h EXCEPT !.strong = S]
<1>1. HeapOK(g, w, {}) /\ SameCaches(h, g) /\ g.refs = h.refs
  BY HeapStrong DEF Good
<1> HIDE DEF g
<1>2. AllClones(g)
  BY <1>1 DEF Good, AllClones, CloneOK, NeedsClone, SameCaches
<1>3. SameBindings(h, g)
  BY <1>1 DEF SameBindings, SameCaches
<1>4. Good(g, w)
  BY <1>1, <1>2, <1>3, GoodSame
<1>5. QED
  BY <1>4 DEF g

LEMMA StrengthenedGood ==
  ASSUME NEW h, NEW w, Good(h, w), NEW e, NEW sym \in Symbols
  PROVE  Good(Strengthened(h, e, sym), w) /\ SameBindings(h, Strengthened(h, e, sym))
         /\ Strengthened(h, e, sym).val = h.val
<1>1. h.strong \cup {sym} \in SUBSET Symbols /\ h \in HeapType
  BY HeapFields DEF Good, HeapOK
<1>2. CASE e = Global
  <2>1. Strengthened(h, e, sym) = [h EXCEPT !.strong = h.strong \cup {sym}]
    BY <1>2 DEF Strengthened
  <2>2. QED
    BY <1>1, <2>1, GoodStrong, SetStrong DEF SameBindings, SameCaches
<1>3. CASE e # Global
  BY <1>3 DEF Strengthened, SameBindings
<1>4. QED
  BY <1>2, <1>3

LEMMA CacheOf ==
  ASSUME NEW h, NEW w, NEW Z, HeapOK(h, w, Z), NEW x \in Cells, Cached(h, x)
  PROVE  cache_of(h, x) = h.cell[x] /\ h.cell[x] \in Caches /\ h.val[h.cell[x]] # NoCell
  BY DEF HeapOK, CellsOK, Cached, cache_of

LEMMA AssignEndOK ==
  ASSUME NEW h, NEW w, Good(h, w), NEW x \in Cells, NEW v \in Values \cup Traps, v # Unbound, NEW force
  PROVE  Good(assign_variable_end(h, x, v, force), w)
<1>1. HeapOK(h, w, {}) /\ AllClones(h) /\ ArgsBound(h) /\ Tied(h, w) /\ h \in HeapType /\ w \in Where
  BY DEF Good, HeapOK
<1>2. CASE Cached(h, x)
  <2> DEFINE c == cache_of(h, x)
             g == assign_variable_cache(h, c, v, force)
  <2>1. assign_variable_end(h, x, v, force) = g
    BY <1>2 DEF assign_variable_end
  <2>2. c \in Caches
    BY <1>1, <1>2, CacheOf
  <2> HIDE DEF c
  <2>3. HeapOK(g, w, {}) /\ AllClones(g) /\ SameBindings(h, g)
    BY <1>1, <2>2, AssignCacheOK
  <2>4. QED
    BY <2>1, <2>3, GoodSame
<1>3. CASE ~Cached(h, x) /\ Writable(h.cell[x], force)
  <2> DEFINE g == [h EXCEPT !.cell[x] = v]
  <2>1. assign_variable_end(h, x, v, force) = g
    BY <1>3 DEF assign_variable_end
  <2>2. /\ g \in HeapType /\ g.ext = h.ext /\ g.trap = h.trap /\ g.clone = h.clone
        /\ g.val = h.val /\ g.refs = h.refs /\ g.slot = h.slot
    BY <1>1, SetCell
  <2>3. g.cell[x] = v /\ \A y \in Cells : y # x => g.cell[y] = h.cell[y]
    BY <1>1, SetCell, HeapFields
  <2> HIDE DEF g
  <2>4. HeapOK(g, w, {}) /\ AllClones(g)
    BY <1>1, <2>2, <2>3, CellChanged
  <2>5. ArgsBound(g)
    <3>1. \A f \in Frames : \A sym \in Params[f] : <<f, sym, "arg">> \in Cells
      BY EnvAssumption, ExtCell
    <3>2. QED
      BY <1>1, <2>3, <3>1 DEF ArgsBound
  <2>6. Tied(g, w)
    <3>1. \A y \in Cells : h.cell[y] \in Caches => g.cell[y] = h.cell[y]
      BY <1>3, <2>3 DEF Cached
    <3>2. QED
      BY <1>1, <2>2, <2>5, <3>1, TiedSame
  <2>7. QED
    BY <2>1, <2>4, <2>5, <2>6 DEF Good
<1>4. CASE ~Cached(h, x) /\ ~Writable(h.cell[x], force)
  BY <1>4 DEF assign_variable_end
<1>5. QED
  BY <1>2, <1>3, <1>4

LEMMA AssignOK ==
  ASSUME NEW h, NEW w, Good(h, w), NEW e \in Env, NEW sym \in Symbols,
         NEW v \in Values \cup Traps, v # Unbound
  PROVE  Good(assign_variable(h, e, sym, v), w)
<1> DEFINE x == find_binding_cell(h, e, sym)
<1>1. CASE x = NoCell
  BY <1>1 DEF assign_variable
<1>2. CASE x # NoCell
  <2>1. x \in Cells
    BY <1>2, FindCell DEF Good
  <2>2. assign_variable(h, e, sym, v) = assign_variable_end(h, x, v, FALSE)
    BY <1>2 DEF assign_variable
  <2> HIDE DEF x
  <2>3. QED
    BY <2>1, <2>2, AssignEndOK
<1>3. QED
  BY <1>1, <1>2

\* A frame in which a name is not found.
LEMMA NotFoundHere ==
  ASSUME NEW h, ArgsBound(h), NEW e \in Frames, NEW sym \in Symbols, NEW u \in BOOLEAN,
         scan_frame(h, e, sym, u) = NoCell
  PROVE  sym \notin h.ext[e] /\ sym \notin Params[e] /\ ~Stops(h, e, sym)
<1>1. e \in Env /\ e # Global
  BY Distinct DEF Env
<1>2. <<e, sym, "ext">> # NoCell /\ <<e, sym, "arg">> # NoCell
  BY ExtCell, Distinct
<1>3. sym \notin h.ext[e]
  BY <1>1, <1>2, ScanValue
<1>4. sym \notin Params[e]
  BY <1>1, <1>2, <1>3, ScanValue
<1>5. scan_frame(h, e, sym, FALSE) = NoCell
  BY <1>1, <1>3, <1>4, ScanValue
<1>6. QED
  BY <1>3, <1>4, <1>5 DEF Stops

\* An extension binding that is not there is not found.
LEMMA NotFoundAtAll ==
  ASSUME NEW h, ArgsBound(h), NEW e \in Frames, NEW sym, sym \notin h.ext[e], NEW d \in Env, NEW n
  PROVE  find_binding_cell(h, d, n) # <<e, sym, "ext">> \/ find_binding_cell(h, d, n) = NoCell
<1> DEFINE f == BindingFrame(h, d, n)
<1>1. f \in Env
  BY BindingFrameType
<1>0. find_binding_cell(h, d, n) = scan_frame(h, f, n, FALSE)
  BY DEF find_binding_cell
<1> HIDE DEF f
<1>2. CASE f \notin Frames
  <2>1. scan_frame(h, f, n, FALSE) = <<Global, n>> \/ scan_frame(h, f, n, FALSE) = NoCell
    BY <1>1, <1>2, ScanValue
  <2>2. <<Global, n>> # <<e, sym, "ext">>
    BY CellNames
  <2>3. QED
    BY <1>0, <2>1, <2>2
<1>3. CASE f \in Frames
  <2>1. \/ n \in h.ext[f] /\ scan_frame(h, f, n, FALSE) = <<f, n, "ext">>
        \/ scan_frame(h, f, n, FALSE) = <<f, n, "arg">> \/ scan_frame(h, f, n, FALSE) = NoCell
    BY <1>1, <1>3, ScanValue, Distinct
  <2>2. /\ <<f, n, "arg">> # <<e, sym, "ext">>
        /\ <<f, n, "ext">> = <<e, sym, "ext">> => f = e /\ n = sym
    OBVIOUS
  <2>3. QED
    BY <1>0, <2>1, <2>2
<1>4. QED
  BY <1>2, <1>3

\* A search that passes e goes on from the parent of e.
LEMMA PastFrame ==
  ASSUME NEW h, NEW e \in Frames, NEW sym, ~Stops(h, e, sym), NEW d \in Env, e \in Enclosing[d],
         BindingFrame(h, d, sym) \in Enclosing[e]
  PROVE  find_binding_cell(h, d, sym) = find_binding_cell(h, Parent[e], sym)
<1> DEFINE f == BindingFrame(h, d, sym)
<1>1. Parent[e] \in Env /\ e \in Env /\ Enclosing[e] = {e} \cup Enclosing[Parent[e]]
  BY EnclosingFrame
<1>2. Stops(h, f, sym)
  BY SearchStops
<1>3. f \in Enclosing[Parent[e]]
  BY <1>1, <1>2
<1>4. Parent[e] \in Enclosing[d]
  BY EnclosingClosed
<1>5. BindingFrame(h, Parent[e], sym) = f
  BY <1>3, <1>4, SearchFromOuter
<1>6. QED
  BY <1>5 DEF find_binding_cell

\* Extensions that differ in a binding of sym in e.
Bound(h, g, e, sym) ==
  /\ sym \in g.ext[e]
  /\ \A f \in Frames : \A m : (m # sym \/ f # e) => (m \in g.ext[f] <=> m \in h.ext[f])

\* What searches find when sym is bound in e.
LEMMA NewSearch ==
  ASSUME NEW h, NEW g, h \in HeapType, ArgsBound(h), ArgsBound(g), NEW e \in Frames, NEW sym \in Symbols,
         ~Stops(h, e, sym), Bound(h, g, e, sym),
         NEW d \in Env, NEW n
  PROVE  /\ n = sym /\ e \in Enclosing[d] /\ BindingFrame(h, d, sym) \in Enclosing[e] =>
              find_binding_cell(g, d, n) = <<e, sym, "ext">>
         /\ ~(n = sym /\ e \in Enclosing[d] /\ BindingFrame(h, d, sym) \in Enclosing[e]) =>
              find_binding_cell(g, d, n) = find_binding_cell(h, d, n)
<1>1. ~Stops(h, e, sym) /\ e \in Env /\ e # Global
  BY Distinct DEF Env
<1>2. sym \in g.ext[e] /\ \A f \in Frames : \A m : (m # sym \/ f # e) => (m \in g.ext[f] <=> m \in h.ext[f])
  BY DEF Bound
<1>3. CASE n # sym
  BY <1>2, <1>3, FindSame
<1>4. CASE n = sym
  <2>1. scan_frame(g, e, sym, FALSE) = <<e, sym, "ext">> /\ <<e, sym, "ext">> # NoCell
    <3>1. <<e, sym, "ext">> # NoCell
      BY ExtCell, Distinct
    <3>2. QED
      BY <1>1, <1>2, <3>1, ScanValue
  <2>2. \A f \in Env : f # e => scan_frame(g, f, sym, FALSE) = scan_frame(h, f, sym, FALSE)
    BY <1>2, ScanSame
  <2>3. \A f \in Env : Stops(g, f, sym) <=> Stops(h, f, sym) \/ f = e
    BY <2>1, <2>2 DEF Stops
  <2>4. BindingFrame(g, d, sym) =
          IF e \in Enclosing[d] /\ BindingFrame(h, d, sym) \in Enclosing[e] THEN e ELSE BindingFrame(h, d, sym)
    BY <1>1, <2>3, SearchNewBinding
  <2>5. BindingFrame(h, d, sym) # e /\ BindingFrame(h, d, sym) \in Env
    BY <1>1, SearchStops, BindingFrameType
  <2>6. CASE e \in Enclosing[d] /\ BindingFrame(h, d, sym) \in Enclosing[e]
    BY <1>4, <2>1, <2>4, <2>6 DEF find_binding_cell
  <2>7. CASE ~(e \in Enclosing[d] /\ BindingFrame(h, d, sym) \in Enclosing[e])
    BY <1>4, <2>2, <2>4, <2>5, <2>7 DEF find_binding_cell
  <2>8. QED
    BY <2>6, <2>7
<1>5. QED
  BY <1>3, <1>4

LEMMA TameSite ==
  ASSUME NEW ld, Tame(ld), NEW s \in Sites, s \in ld.sites
  PROVE  SiteEnv(s) = BlockEnv[s.block] /\ Global \in Enclosing[SiteEnv(s)]
  BY DEF Tame, SiteEnv

LEMMA NewBindingFields ==
  ASSUME NEW h \in HeapType, NEW e \in Frames, NEW sym \in Symbols, NEW v \in Values \cup Traps
  PROVE  LET g == NewBinding(h, e, sym, v)
             x == <<e, sym, "ext">>
         IN  /\ g \in HeapType /\ g.trap = h.trap /\ g.clone = h.clone
             /\ g.val = h.val /\ g.refs = h.refs /\ g.slot = h.slot /\ g.strong = h.strong
             /\ g.cell[x] = v /\ \A y \in Cells : y # x => g.cell[y] = h.cell[y]
             /\ Bound(h, g, e, sym)
<1> DEFINE x == <<e, sym, "ext">>
           X == [h.ext EXCEPT ![e] = h.ext[e] \cup {sym}]
           C == [h.cell EXCEPT ![x] = v]
           g == NewBinding(h, e, sym, v)
<1>1. x \in Cells
  BY ExtCell
<1>2. g = [h EXCEPT !.ext = X, !.cell = C]
  BY DEF NewBinding
<1> HIDE DEF x
<1>3. C \in [Cells -> Values \cup Traps \cup Caches] /\ C[x] = v /\ \A y \in Cells : y # x => C[y] = h.cell[y]
  BY <1>1, HeapFields
<1>4. X \in [Frames -> SUBSET Symbols] /\ X[e] = h.ext[e] \cup {sym} /\ \A f \in Frames : f # e => X[f] = h.ext[f]
  BY HeapFields
<1> HIDE DEF X, C, g
<1>5. /\ g \in HeapType /\ g.trap = h.trap /\ g.clone = h.clone /\ g.val = h.val /\ g.refs = h.refs
      /\ g.slot = h.slot /\ g.strong = h.strong /\ g.ext = X /\ g.cell = C
  BY <1>2, <1>3, <1>4 DEF HeapType
<1>6. Bound(h, g, e, sym)
  BY <1>4, <1>5 DEF Bound
<1>7. g.cell[x] = v /\ \A y \in Cells : y # x => g.cell[y] = h.cell[y]
  BY <1>3, <1>5
<1>8. QED
  BY <1>5, <1>6, <1>7 DEF g, x

LEMMA ArgsKept ==
  ASSUME NEW h, NEW g, ArgsBound(h), NEW e, NEW sym,
         \A y \in Cells : y # <<e, sym, "ext">> => g.cell[y] = h.cell[y]
  PROVE  ArgsBound(g)
<1>1. ASSUME NEW f \in Frames, NEW n \in Params[f] PROVE g.cell[<<f, n, "arg">>] # Unbound
  <2>1. <<f, n, "arg">> \in Cells
    BY EnvAssumption, ExtCell
  <2>2. <<f, n, "arg">> # <<e, sym, "ext">>
    OBVIOUS
  <2>3. QED
    BY <2>1, <2>2 DEF ArgsBound
<1>2. QED
  BY <1>1 DEF ArgsBound

LEMMA NewBindingOK ==
  ASSUME NEW h, NEW w, Good(h, w), NEW e \in Frames, NEW sym \in Symbols, NEW v \in Values \cup Traps
  PROVE  LET g == NewBinding(h, e, sym, v) IN HeapOK(g, w, {}) /\ AllClones(g) /\ ArgsBound(g)
<1> DEFINE g == NewBinding(h, e, sym, v)
           x == <<e, sym, "ext">>
<1>1. HeapOK(h, w, {}) /\ AllClones(h) /\ ArgsBound(h) /\ h \in HeapType
  BY DEF Good, HeapOK
<1>2. /\ g \in HeapType /\ g.trap = h.trap /\ g.clone = h.clone
      /\ g.val = h.val /\ g.refs = h.refs /\ g.slot = h.slot
      /\ g.cell[x] = v /\ \A y \in Cells : y # x => g.cell[y] = h.cell[y]
  BY <1>1, NewBindingFields
<1>3. x \in Cells
  BY ExtCell
<1>4. ArgsBound(g)
  BY <1>1, <1>2, ArgsKept
<1> HIDE DEF g, x
<1>5. HeapOK(g, w, {}) /\ AllClones(g)
  BY <1>1, <1>2, <1>3, CellChanged
<1>6. QED
  BY <1>4, <1>5 DEF g

\* The binding shadows none that a site uses.
LEMMA NothingShadowed ==
  ASSUME NEW h, NEW w, Good(h, w), NEW ld, Tame(ld), SitesOf(w, ld), NEW e \in Frames, NEW sym \in Symbols,
         NEW v \in Values \cup Traps, scan_frame(h, e, sym, TRUE) = NoCell,
         Shadowed(h, e, sym) = NoCell \/ ~Cached(h, Shadowed(h, e, sym))
  PROVE  Good(NewBinding(h, e, sym, v), w)
<1> DEFINE g == NewBinding(h, e, sym, v)
           x == <<e, sym, "ext">>
<1>1. HeapOK(h, w, {}) /\ ArgsBound(h) /\ Tied(h, w) /\ h \in HeapType /\ w \in Where
  BY DEF Good, HeapOK
<1>2. HeapOK(g, w, {}) /\ AllClones(g) /\ ArgsBound(g)
  BY NewBindingOK
<1>3. /\ \A y \in Cells : y # x => g.cell[y] = h.cell[y]
      /\ Bound(h, g, e, sym)
  BY <1>1, NewBindingFields
<1> HIDE DEF g
<1>4. sym \notin h.ext[e] /\ ~Stops(h, e, sym)
  BY <1>1, NotFoundHere
<1>5. ASSUME NEW s \in Sites, w[s] # NoCell PROVE Home(g, s) # NoCell /\ w[s] = g.cell[Home(g, s)]
  <2> DEFINE d == SiteEnv(s)
  <2>1. /\ Home(h, s) \in Cells \ {Dummy} /\ Home(h, s) # NoCell /\ d \in Env
        /\ w[s] = h.cell[Home(h, s)] /\ w[s] \in Caches
    BY <1>1, <1>5, TiedCell, SiteType
  <2>2. ~(s.name = sym /\ e \in Enclosing[d] /\ BindingFrame(h, d, sym) \in Enclosing[e])
    <3> SUFFICES ASSUME s.name = sym, e \in Enclosing[d], BindingFrame(h, d, sym) \in Enclosing[e] PROVE FALSE
      OBVIOUS
    <3>1. Home(h, s) = Shadowed(h, e, sym)
      BY <1>4, <2>1, PastFrame DEF Home, Shadowed
    <3>2. QED
      BY <2>1, <3>1 DEF Cached
  <2>3. Home(g, s) = Home(h, s)
    BY <1>1, <1>2, <1>3, <1>4, <2>1, <2>2, NewSearch DEF Home
  <2>4. Home(h, s) # x
    BY <1>1, <1>4, <2>1, NotFoundAtAll DEF Home
  <2>5. QED
    BY <1>3, <2>1, <2>3, <2>4
<1>6. Tied(g, w)
  BY <1>5 DEF Tied
<1>7. QED
  BY <1>2, <1>6 DEF Good, g

\* The references to the binding that is shadowed move to the new one.
LEMMA ReferencesFollow ==
  ASSUME NEW h, NEW w, Good(h, w), NEW ld, Tame(ld), SitesOf(w, ld), NEW e \in Frames, NEW sym \in Symbols,
         NEW v \in Values \cup Traps, scan_frame(h, e, sym, TRUE) = NoCell,
         Shadowed(h, e, sym) # NoCell, Cached(h, Shadowed(h, e, sym)),
         \E d \in Caches : h.val[d] = NoCell
  PROVE  LET g == update_cache_references(NewBinding(h, e, sym, v), cache_of(h, Shadowed(h, e, sym)),
                                          <<e, sym, "ext">>, e, sym)
         IN  \E w2 : Good(g, w2) /\ SitesOf(w2, ld)
<1> DEFINE i == NewBinding(h, e, sym, v)
           x == <<e, sym, "ext">>
           z == Shadowed(h, e, sym)
           from == cache_of(h, z)
           g == update_cache_references(i, from, x, e, sym)
           w2 == Moved(w, AllMovers(w, from, e, sym), g.cell[x])
<1>1. HeapOK(h, w, {}) /\ ArgsBound(h) /\ Tied(h, w) /\ h \in HeapType /\ w \in Where /\ CellsOK(h)
  BY DEF Good, HeapOK
<1>2. HeapOK(i, w, {}) /\ AllClones(i) /\ ArgsBound(i)
  BY NewBindingOK
<1>3. /\ i.val = h.val /\ i.cell[x] = v /\ \A y \in Cells : y # x => i.cell[y] = h.cell[y]
      /\ Bound(h, i, e, sym)
  BY <1>1, NewBindingFields
<1> HIDE DEF i
<1>4. sym \notin h.ext[e] /\ ~Stops(h, e, sym) /\ Parent[e] \in Env /\ e \in Env
  BY <1>1, NotFoundHere, EnclosingFrame
<1>5. z \in Cells /\ Cached(h, z) /\ z = find_binding_cell(h, Parent[e], sym) /\ z # NoCell
  BY <1>1, <1>4, FindCell DEF Shadowed
<1> HIDE DEF z
<1>6. from = h.cell[z] /\ from \in Caches /\ h.val[from] # NoCell
  BY <1>1, <1>5, CacheOf
<1> HIDE DEF from
<1>7. x \in Cells
  BY ExtCell
<1>8. /\ g.cell[x] \in Caches /\ AllClones(g) /\ g.ext = i.ext
      /\ HeapOK(g, w2, {}) /\ \A y \in Cells : y # x \/ Cached(i, x) => g.cell[y] = i.cell[y]
  <2>1. i.cell[x] # from /\ i.val[from] # NoCell /\ \E d \in Caches : i.val[d] = NoCell
    BY <1>3, <1>6, Distinct
  <2> HIDE DEF x
  <2>2. QED
    BY <1>2, <1>6, <1>7, <2>1, UpdateRefsOK
<1> HIDE DEF g
<1>9. \A y \in Cells : y # x => g.cell[y] = h.cell[y]
  BY <1>3, <1>8
<1>10. ArgsBound(g)
  BY <1>1, <1>9, ArgsKept
<1>11. \A s \in Sites : w2[s] = IF w[s] = from /\ s.name = sym /\ move_ref_pair_p(s, e) THEN g.cell[x] ELSE w[s]
  BY DEF Moved, AllMovers
<1> HIDE DEF w2
<1>12. SitesOf(w2, ld)
  BY <1>6, <1>11, Distinct DEF SitesOf
<1>13. ASSUME NEW s \in Sites, w2[s] # NoCell PROVE Home(g, s) # NoCell /\ w2[s] = g.cell[Home(g, s)]
  <2> DEFINE d == SiteEnv(s)
  <2>1. w[s] # NoCell
    BY <1>6, <1>11, <1>13, Distinct
  <2>2. /\ Home(h, s) \in Cells \ {Dummy} /\ Home(h, s) # NoCell /\ d \in Env
        /\ w[s] = h.cell[Home(h, s)] /\ w[s] \in Caches
    BY <1>1, <2>1, TiedCell, SiteType
  <2>3. d = BlockEnv[s.block]
    BY <2>1, TameSite DEF SitesOf
  <2>4. move_ref_pair_p(s, e) <=> e \in Enclosing[d]
    BY <2>3 DEF move_ref_pair_p
  <2>5. Home(h, s) = find_binding_cell(h, d, s.name) /\ Home(g, s) = find_binding_cell(g, d, s.name)
    BY DEF Home
  <2> HIDE DEF d
  <2>6. /\ s.name = sym /\ e \in Enclosing[d] /\ BindingFrame(h, d, sym) \in Enclosing[e] => Home(g, s) = x
        /\ ~(s.name = sym /\ e \in Enclosing[d] /\ BindingFrame(h, d, sym) \in Enclosing[e]) =>
             Home(g, s) = Home(h, s)
    <3>1. Bound(h, g, e, sym)
      BY <1>3, <1>8 DEF Bound
    <3>2. QED
      BY <1>1, <1>4, <1>10, <2>2, <2>5, <3>1, NewSearch
  <2>7. Home(h, s) # x /\ x # NoCell
    BY <1>1, <1>4, <1>7, <2>2, <2>5, NotFoundAtAll, Distinct
  <2>8. CASE s.name = sym /\ e \in Enclosing[d]
    <3>1. BindingFrame(h, d, sym) \in Enclosing[e] <=> w[s] = from
      <4>1. ASSUME BindingFrame(h, d, sym) \in Enclosing[e] PROVE w[s] = from
        <5>1. Home(h, s) = z
          BY <1>4, <1>5, <2>2, <2>5, <2>8, <4>1, PastFrame
        <5>2. QED
          BY <1>6, <2>2, <5>1
      <4>2. ASSUME w[s] = from PROVE BindingFrame(h, d, sym) \in Enclosing[e]
        <5>1. Home(h, s) = z
          BY <1>1, <1>5, <1>6, <2>2, <4>2 DEF CellsOK
        <5>2. BindingFrame(h, d, sym) = BindingFrame(h, Parent[e], sym)
          <6>1. find_binding_cell(h, d, sym) = find_binding_cell(h, Parent[e], sym)
                /\ find_binding_cell(h, d, sym) # NoCell
            BY <1>5, <2>2, <2>5, <2>8, <5>1
          <6>2. QED
            BY <1>1, <1>4, <2>2, <6>1, FindInjective
        <5>3. BindingFrame(h, Parent[e], sym) \in Enclosing[Parent[e]]
          BY <1>4, BindingFrameType
        <5>4. QED
          BY <5>2, <5>3, EnclosingFrame
      <4>3. QED
        BY <4>1, <4>2
    <3>2. QED
      BY <1>9, <1>11, <2>2, <2>4, <2>6, <2>7, <2>8, <3>1
  <2>9. CASE ~(s.name = sym /\ e \in Enclosing[d])
    BY <1>9, <1>11, <2>2, <2>4, <2>6, <2>7, <2>9
  <2>10. QED
    BY <2>8, <2>9
<1>14. Tied(g, w2)
  BY <1>13 DEF Tied
<1>15. Good(g, w2)
  BY <1>8, <1>10, <1>14 DEF Good
<1>16. QED
  BY <1>12, <1>15 DEF g, from, z, i

LEMMA DefineOK ==
  ASSUME NEW h, NEW w, Good(h, w), NEW ld, Tame(ld), SitesOf(w, ld), NEW e \in Frames \cup {Global},
         NEW sym \in Symbols, NEW v \in Values \cup Traps, v # Unbound, \E d \in Caches : h.val[d] = NoCell
  PROVE  \E w2 : Good(define_variable(h, e, sym, v), w2) /\ SitesOf(w2, ld)
<1> DEFINE x == scan_frame(h, e, sym, TRUE)
           z == Shadowed(h, e, sym)
<1>1. e \in Env /\ ArgsBound(h)
  BY DEF Env, Good
<1>2. CASE x # NoCell
  <2>1. x \in Cells
    BY <1>1, <1>2, ScanCell
  <2>2. define_variable(h, e, sym, v) = assign_variable_end(Strengthened(h, e, sym), x, v, TRUE)
    BY <1>2 DEF define_variable
  <2> HIDE DEF x
  <2>3. Good(Strengthened(h, e, sym), w)
    BY StrengthenedGood
  <2>4. Good(define_variable(h, e, sym, v), w)
    BY <2>1, <2>2, <2>3, AssignEndOK
  <2>5. QED
    BY <2>4
<1>3. CASE x = NoCell
  <2>1. e \in Frames
    <3>1. scan_frame(h, Global, sym, TRUE) = <<Global, sym>> /\ <<Global, sym>> # NoCell
      BY Distinct, GlobalCell DEF scan_frame
    <3>2. QED
      BY <1>3, <3>1
  <2>2. CASE z = NoCell \/ ~Cached(h, z)
    <3>1. define_variable(h, e, sym, v) = NewBinding(h, e, sym, v)
      BY <1>3, <2>2 DEF define_variable
    <3>2. Good(define_variable(h, e, sym, v), w)
      BY <1>3, <2>1, <2>2, <3>1, NothingShadowed
    <3>3. QED
      BY <3>2
  <2>3. CASE z # NoCell /\ Cached(h, z)
    <3>1. define_variable(h, e, sym, v) =
            update_cache_references(NewBinding(h, e, sym, v), cache_of(h, z), <<e, sym, "ext">>, e, sym)
      BY <1>3, <2>3 DEF define_variable
    <3>2. QED
      BY <1>3, <2>1, <2>3, <3>1, ReferencesFollow
  <2>4. QED
    BY <2>2, <2>3
<1>4. QED
  BY <1>2, <1>3

-----------------------------------------------------------------------------
(* Unbinding. *)

LEMMA WeakenedGood ==
  ASSUME NEW h, NEW w, Good(h, w), NEW sym
  PROVE  LET g == [h EXCEPT !.strong = h.strong \ {sym}]
         IN  Good(g, w) /\ SameBindings(h, g) /\ g.val = h.val
<1>1. h.strong \ {sym} \in SUBSET Symbols /\ h \in HeapType
  BY HeapFields DEF Good, HeapOK
<1>2. QED
  BY <1>1, GoodStrong, SetStrong DEF SameBindings, SameCaches

LEMMA UnbindFields ==
  ASSUME NEW h \in HeapType, NEW f \in Frames, NEW sym \in Symbols
  PROVE  LET x == <<f, sym, "ext">>
             g == unbind_variable_1(h, x)
         IN  /\ g \in HeapType /\ g.trap = h.trap /\ g.clone = h.clone
             /\ g.val = h.val /\ g.refs = h.refs /\ g.slot = h.slot
             /\ g.cell[x] = Unbound /\ \A y \in Cells : y # x => g.cell[y] = h.cell[y]
             /\ sym \notin g.ext[f]
             /\ \A e \in Frames : \A m : (m # sym \/ e # f) => (m \in g.ext[e] <=> m \in h.ext[e])
<1> DEFINE x == <<f, sym, "ext">>
           X == [h.ext EXCEPT ![f] = h.ext[f] \ {sym}]
           C == [h.cell EXCEPT ![x] = Unbound]
           g == unbind_variable_1(h, x)
<1>1. x \in Cells /\ Len(x) = 3 /\ x[1] = f /\ x[2] = sym /\ x[3] = "ext"
  BY ExtCell
<1> HIDE DEF x
<1>2. g = [h EXCEPT !.ext = X, !.cell = C]
  BY <1>1 DEF unbind_variable_1
<1>3. C \in [Cells -> Values \cup Traps \cup Caches] /\ C[x] = Unbound /\ \A y \in Cells : y # x => C[y] = h.cell[y]
  BY <1>1, HeapFields DEF Traps
<1>4. X \in [Frames -> SUBSET Symbols] /\ X[f] = h.ext[f] \ {sym} /\ \A e \in Frames : e # f => X[e] = h.ext[e]
  BY HeapFields
<1> HIDE DEF X, C, g
<1>5. /\ g \in HeapType /\ g.trap = h.trap /\ g.clone = h.clone /\ g.val = h.val /\ g.refs = h.refs
      /\ g.slot = h.slot /\ g.ext = X /\ g.cell = C
  BY <1>2, <1>3, <1>4 DEF HeapType
<1>6. sym \notin g.ext[f] /\ \A e \in Frames : \A m : (m # sym \/ e # f) => (m \in g.ext[e] <=> m \in h.ext[e])
  BY <1>4, <1>5
<1>7. g.cell[x] = Unbound /\ \A y \in Cells : y # x => g.cell[y] = h.cell[y]
  BY <1>3, <1>5
<1>8. QED
  BY <1>5, <1>6, <1>7 DEF g, x

LEMMA UnbindHeap ==
  ASSUME NEW h, NEW w, Good(h, w), NEW f \in Frames, NEW sym \in Symbols, sym \in h.ext[f]
  PROVE  LET x == <<f, sym, "ext">>
             g == unbind_variable_1(h, x)
         IN  /\ HeapOK(g, w, {}) /\ AllClones(g) /\ ArgsBound(g) /\ g.val = h.val
             /\ g.cell[x] = Unbound /\ \A y \in Cells : y # x => g.cell[y] = h.cell[y]
             /\ sym \notin g.ext[f] /\ Bound(g, h, f, sym)
<1> DEFINE x == <<f, sym, "ext">>
           g == unbind_variable_1(h, x)
<1>1. HeapOK(h, w, {}) /\ AllClones(h) /\ ArgsBound(h) /\ h \in HeapType
  BY DEF Good, HeapOK
<1>2. /\ g \in HeapType /\ g.trap = h.trap /\ g.clone = h.clone
      /\ g.val = h.val /\ g.refs = h.refs /\ g.slot = h.slot
      /\ g.cell[x] = Unbound /\ \A y \in Cells : y # x => g.cell[y] = h.cell[y]
      /\ sym \notin g.ext[f]
      /\ \A e \in Frames : \A m : (m # sym \/ e # f) => (m \in g.ext[e] <=> m \in h.ext[e])
  BY <1>1, UnbindFields
<1>3. x \in Cells /\ Unbound \in Values \cup Traps
  BY ExtCell DEF Traps
<1>4. ArgsBound(g)
  BY <1>1, <1>2, ArgsKept
<1>5. Bound(g, h, f, sym)
  BY <1>2 DEF Bound
<1> HIDE DEF g, x
<1>6. HeapOK(g, w, {}) /\ AllClones(g)
  <2>1. g.cell[x] \in Values \cup Traps
    BY <1>2, <1>3
  <2>2. QED
    BY <1>1, <1>2, <1>3, <2>1, CellChanged
<1>7. QED
  BY <1>2, <1>4, <1>5, <1>6 DEF g, x

\* What searches find when sym is no longer bound in f.
LEMMA LostSearch ==
  ASSUME NEW h, NEW g, ArgsBound(h), ArgsBound(g), NEW f \in Frames, NEW sym \in Symbols,
         sym \notin Params[f], sym \notin g.ext[f], Bound(g, h, f, sym), NEW d \in Env, NEW n
  PROVE  /\ n = sym /\ BindingFrame(h, d, sym) = f =>
              find_binding_cell(g, d, n) = find_binding_cell(h, Parent[f], sym)
         /\ ~(n = sym /\ BindingFrame(h, d, sym) = f) => find_binding_cell(g, d, n) = find_binding_cell(h, d, n)
<1>1. f \in Env /\ f # Global /\ Parent[f] \in Env
  BY Distinct, EnclosingFrame
<1>2. sym \in h.ext[f] /\ \A e \in Frames : \A m : (m # sym \/ e # f) => (m \in g.ext[e] <=> m \in h.ext[e])
  BY DEF Bound
<1>3. CASE n # sym
  BY <1>2, <1>3, FindSame
<1>4. CASE n = sym
  <2>1. scan_frame(g, f, sym, FALSE) = NoCell
    BY <1>1, ScanValue
  <2>2. \A e \in Env : e # f => scan_frame(g, e, sym, FALSE) = scan_frame(h, e, sym, FALSE)
    BY <1>2, ScanSame
  <2>3. Stops(h, f, sym)
    <3>1. scan_frame(h, f, sym, FALSE) = <<f, sym, "ext">>
      BY <1>1, <1>2, ScanValue
    <3>2. <<f, sym, "ext">> # NoCell
      BY ExtCell, Distinct
    <3>3. QED
      BY <3>1, <3>2 DEF Stops
  <2>4. \A e \in Env : Stops(g, e, sym) <=> Stops(h, e, sym) /\ e # f
    BY <2>1, <2>2 DEF Stops
  <2>5. BindingFrame(g, d, sym) =
          IF BindingFrame(h, d, sym) = f THEN BindingFrame(h, Parent[f], sym) ELSE BindingFrame(h, d, sym)
    BY <2>4, SearchLostBinding
  <2>6. CASE BindingFrame(h, d, sym) = f
    <3>1. BindingFrame(h, Parent[f], sym) \in Env /\ BindingFrame(h, Parent[f], sym) # f
      BY <1>1, BindingFrameType, EnclosingAcyclic
    <3>2. QED
      BY <1>4, <2>2, <2>5, <2>6, <3>1 DEF find_binding_cell
  <2>7. CASE BindingFrame(h, d, sym) # f
    BY <1>4, <2>2, <2>5, <2>7, BindingFrameType DEF find_binding_cell
  <2>8. QED
    BY <2>6, <2>7
<1>5. QED
  BY <1>3, <1>4

\* The cell of an extension binding is found from where the search stops at its frame.
LEMMA FoundInFrame ==
  ASSUME NEW h, ArgsBound(h), NEW f \in Frames, NEW sym \in Symbols, sym \in h.ext[f], NEW d \in Env, NEW n
  PROVE  n = sym /\ BindingFrame(h, d, sym) = f <=> find_binding_cell(h, d, n) = <<f, sym, "ext">>
<1>1. scan_frame(h, f, sym, FALSE) = <<f, sym, "ext">> /\ f \in Env /\ <<f, sym, "ext">> # NoCell
  BY ScanValue, Distinct, ExtCell DEF Env
<1>2. find_binding_cell(h, d, n) = scan_frame(h, BindingFrame(h, d, n), n, FALSE) /\ BindingFrame(h, d, n) \in Env
  BY BindingFrameType DEF find_binding_cell
<1>3. ASSUME find_binding_cell(h, d, n) = <<f, sym, "ext">> PROVE n = sym /\ BindingFrame(h, d, sym) = f
  <2> DEFINE b == BindingFrame(h, d, n)
  <2>1. /\ b \in Env /\ scan_frame(h, b, n, FALSE) # NoCell
        /\ scan_frame(h, b, n, FALSE) = scan_frame(h, f, sym, FALSE)
    BY <1>1, <1>2, <1>3
  <2> HIDE DEF b
  <2>2. FALSE \in BOOLEAN
    OBVIOUS
  <2>3. b = f /\ n = sym
    BY <1>1, <2>1, <2>2, ScanInjective, Zenon
  <2>4. QED
    BY <2>3 DEF b
<1>4. QED
  BY <1>1, <1>2, <1>3

\* A frame's binding without a cache is removed.
LEMMA UnbindUncached ==
  ASSUME NEW h, NEW w, Good(h, w), NEW f \in Frames, NEW sym \in Symbols, sym \in h.ext[f],
         sym \notin Params[f], ~Cached(h, <<f, sym, "ext">>)
  PROVE  Good(unbind_variable_1(h, <<f, sym, "ext">>), w)
<1> DEFINE x == <<f, sym, "ext">>
           g == unbind_variable_1(h, x)
<1>1. HeapOK(h, w, {}) /\ ArgsBound(h) /\ Tied(h, w) /\ w \in Where
  BY DEF Good, HeapOK
<1>2. /\ HeapOK(g, w, {}) /\ AllClones(g) /\ ArgsBound(g)
      /\ \A y \in Cells : y # x => g.cell[y] = h.cell[y]
      /\ sym \notin g.ext[f] /\ Bound(g, h, f, sym)
  BY UnbindHeap
<1> HIDE DEF g
<1>3. ASSUME NEW s \in Sites, w[s] # NoCell PROVE Home(g, s) # NoCell /\ w[s] = g.cell[Home(g, s)]
  <2> DEFINE d == SiteEnv(s)
  <2>1. /\ Home(h, s) \in Cells \ {Dummy} /\ Home(h, s) # NoCell /\ d \in Env
        /\ w[s] = h.cell[Home(h, s)] /\ w[s] \in Caches
    BY <1>1, <1>3, TiedCell, SiteType
  <2>2. Home(h, s) # x
    BY <2>1 DEF Cached
  <2>3. ~(s.name = sym /\ BindingFrame(h, d, sym) = f)
    BY <1>1, <2>1, <2>2, FoundInFrame DEF Home
  <2>4. Home(g, s) = Home(h, s)
    BY <1>1, <1>2, <2>1, <2>3, LostSearch DEF Home
  <2>5. QED
    BY <1>2, <2>1, <2>2, <2>4
<1>4. Tied(g, w)
  BY <1>3 DEF Tied
<1>5. QED
  BY <1>2, <1>4 DEF Good, g

\* No site is served by a binding behind which there is none.
LEMMA LastBinding ==
  ASSUME NEW h, NEW w, Good(h, w), NEW ld, Tame(ld), SitesOf(w, ld), NEW f \in Frames,
         NEW sym \in Symbols, sym \in h.ext[f], Cached(h, <<f, sym, "ext">>),
         find_binding_cell(h, Parent[f], sym) = NoCell
  PROVE  \A s \in Sites : w[s] # h.cell[<<f, sym, "ext">>]
<1> DEFINE x == <<f, sym, "ext">>
<1>1. ArgsBound(h) /\ Tied(h, w) /\ w \in Where /\ CellsOK(h)
  BY DEF Good, HeapOK
<1>2. x \in Cells /\ h.cell[x] \in Caches /\ f \in Env /\ f # Global /\ Parent[f] \in Env
  BY ExtCell, EnclosingFrame, Distinct DEF Cached
<1>3. SUFFICES ASSUME NEW s \in Sites, w[s] = h.cell[x] PROVE FALSE
  OBVIOUS
<1> DEFINE d == SiteEnv(s)
<1>4. /\ Home(h, s) \in Cells \ {Dummy} /\ d \in Env
      /\ w[s] = h.cell[Home(h, s)] /\ w[s] # NoCell
  BY <1>1, <1>2, <1>3, TiedCell, SiteType, Distinct
<1>5. Home(h, s) = x
  BY <1>1, <1>2, <1>3, <1>4 DEF CellsOK, Cached
<1>6. BindingFrame(h, d, sym) = f
  BY <1>1, <1>4, <1>5, FoundInFrame DEF Home
<1>7. Global \in Enclosing[d]
  BY <1>4, TameSite DEF SitesOf
<1>8. f \in Enclosing[d]
  BY <1>4, <1>6, BindingFrameType
<1>9. Global \in Env /\ Enclosing[Global] = {Global}
  BY EnclosingTop, Distinct DEF Env
<1>10. Global \in Enclosing[f]
  BY <1>2, <1>4, <1>7, <1>8, <1>9, EnclosingTotal
<1>11. Global \in Enclosing[Parent[f]]
  BY <1>2, <1>10, EnclosingFrame
<1>12. QED
  BY <1>1, <1>2, <1>11, FindInGlobal

\* A frame's binding with a cache is removed: its references go to the one behind it.
LEMMA UnbindCached ==
  ASSUME NEW h, NEW w, Good(h, w), NEW ld, Tame(ld), SitesOf(w, ld), NEW f \in Frames,
         NEW sym \in Symbols, sym \in h.ext[f], sym \notin Params[f], Cached(h, <<f, sym, "ext">>),
         \E d \in Caches : h.val[d] = NoCell
  PROVE  \E w2 : Good(unbind_cached_variable(h, <<f, sym, "ext">>, f, sym), w2) /\ SitesOf(w2, ld)
<1> DEFINE x == <<f, sym, "ext">>
           i == unbind_variable_1(h, x)
           z == find_binding_cell(h, Parent[f], sym)
           from == cache_of(h, x)
           g == update_cache_references(i, from, z, f, sym)
<1>1. HeapOK(h, w, {}) /\ ArgsBound(h) /\ Tied(h, w) /\ w \in Where /\ CellsOK(h)
  BY DEF Good, HeapOK
<1>2. unbind_cached_variable(h, x, f, sym) = g
  BY DEF unbind_cached_variable
<1>3. /\ HeapOK(i, w, {}) /\ AllClones(i) /\ ArgsBound(i) /\ i.val = h.val
      /\ i.cell[x] = Unbound /\ \A y \in Cells : y # x => i.cell[y] = h.cell[y]
      /\ sym \notin i.ext[f] /\ Bound(i, h, f, sym)
  BY UnbindHeap
<1> HIDE DEF i
<1>4. x \in Cells /\ f \in Env /\ Parent[f] \in Env
  BY ExtCell, EnclosingFrame
<1>5. from = h.cell[x] /\ from \in Caches /\ h.val[from] # NoCell
  BY <1>1, <1>4, CacheOf
<1> HIDE DEF from
\* How the sites stand to the binding.
<1>6. ASSUME NEW s \in Sites, w[s] # NoCell
      PROVE  /\ SiteEnv(s) \in Env /\ Home(h, s) \in Cells /\ Home(h, s) # NoCell
             /\ w[s] = h.cell[Home(h, s)] /\ w[s] \in Caches
             /\ w[s] = from <=> s.name = sym /\ BindingFrame(h, SiteEnv(s), sym) = f
             /\ w[s] = from <=> Home(h, s) = x
             /\ w[s] = from => s.name = sym /\ move_ref_pair_p(s, f)
  <2> DEFINE d == SiteEnv(s)
  <2>1. /\ Home(h, s) \in Cells \ {Dummy} /\ Home(h, s) # NoCell /\ d \in Env
        /\ w[s] = h.cell[Home(h, s)] /\ w[s] \in Caches
    BY <1>1, <1>6, TiedCell, SiteType
  <2>2. w[s] = from <=> Home(h, s) = x
    BY <1>1, <1>4, <1>5, <2>1 DEF CellsOK, Cached
  <2>3. Home(h, s) = x <=> s.name = sym /\ BindingFrame(h, d, sym) = f
    BY <1>1, <2>1, FoundInFrame DEF Home
  <2>4. d = BlockEnv[s.block]
    BY <1>6, TameSite DEF SitesOf
  <2>5. BindingFrame(h, d, sym) = f => move_ref_pair_p(s, f)
    BY <2>1, <2>4, BindingFrameType DEF move_ref_pair_p
  <2>6. QED
    BY <2>1, <2>2, <2>3, <2>5
\* What is found afterwards.
<1>7. ASSUME NEW k, ArgsBound(k), k.ext = i.ext, NEW s \in Sites, w[s] # NoCell
      PROVE  /\ w[s] = from => Home(k, s) = z
             /\ w[s] # from => Home(k, s) = Home(h, s)
  <2>1. sym \notin k.ext[f] /\ Bound(k, h, f, sym)
    BY <1>3, <1>7 DEF Bound
  <2>2. SiteEnv(s) \in Env /\ (w[s] = from <=> s.name = sym /\ BindingFrame(h, SiteEnv(s), sym) = f)
    BY <1>6, <1>7
  <2>3. QED
    BY <1>1, <1>7, <2>1, <2>2, LostSearch DEF Home
<1>8. CASE z = NoCell
  <2>1. \A s \in Sites : w[s] # from
    BY <1>5, <1>8, LastBinding
  <2>2. AllMovers(w, from, f, sym) = {}
    BY <2>1 DEF AllMovers
  <2>3. HeapOK(g, w, {}) /\ AllClones(g) /\ SameBindings(i, g)
    BY <1>3, <1>5, <1>8, <2>2, ForgetNoneOK
  <2> HIDE DEF g
  <2>4. ArgsBound(g)
    BY <1>3, <2>3 DEF ArgsBound, SameBindings
  <2>5. ASSUME NEW s \in Sites, w[s] # NoCell PROVE Home(g, s) # NoCell /\ w[s] = g.cell[Home(g, s)]
    <3>1. Home(g, s) = Home(h, s) /\ Home(h, s) # x
      BY <1>6, <1>7, <2>1, <2>3, <2>4, <2>5 DEF SameBindings
    <3>2. QED
      BY <1>3, <1>6, <2>3, <2>5, <3>1 DEF SameBindings
  <2>6. Good(g, w)
    BY <2>3, <2>4, <2>5 DEF Good, Tied
  <2>7. QED
    BY <1>2, <2>6
<1>9. CASE z # NoCell
  <2> DEFINE w2 == Moved(w, AllMovers(w, from, f, sym), g.cell[z])
  <2>1. z \in Cells
    BY <1>1, <1>4, <1>9, FindCell
  <2>2. z # x
    <3>1. BindingFrame(h, Parent[f], sym) # f
      BY <1>4, BindingFrameType, EnclosingAcyclic
    <3>2. QED
      BY <1>1, <1>4, <3>1, FoundInFrame
  <2>3. i.cell[z] # from /\ i.cell[z] = h.cell[z]
    BY <1>1, <1>3, <1>4, <1>5, <2>1, <2>2 DEF CellsOK, Cached
  <2> HIDE DEF z
  <2>4. /\ g.cell[z] \in Caches /\ AllClones(g) /\ g.ext = i.ext /\ HeapOK(g, w2, {})
        /\ \A y \in Cells : y # z \/ Cached(i, z) => g.cell[y] = i.cell[y]
    BY <1>3, <1>5, <2>1, <2>3, UpdateRefsOK
  <2> HIDE DEF g
  <2>5. \A s \in Sites : w2[s] = IF w[s] = from /\ s.name = sym /\ move_ref_pair_p(s, f) THEN g.cell[z] ELSE w[s]
    BY DEF Moved, AllMovers
  <2> HIDE DEF w2
  <2>6. \A y \in Cells : y # x /\ (y # z \/ h.cell[z] \in Caches) => g.cell[y] = h.cell[y]
    BY <1>3, <2>3, <2>4 DEF Cached
  <2>7. ArgsBound(g)
    <3>1. ASSUME NEW e \in Frames, NEW n \in Params[e] PROVE g.cell[<<e, n, "arg">>] # Unbound
      <4>1. <<e, n, "arg">> \in Cells /\ <<e, n, "arg">> # x
        BY EnvAssumption, ExtCell
      <4>2. h.cell[<<e, n, "arg">>] # Unbound
        BY <1>1 DEF ArgsBound
      <4>3. CASE <<e, n, "arg">> # z
        BY <2>6, <4>1, <4>2, <4>3
      <4>4. CASE <<e, n, "arg">> = z
        BY <2>4, <4>4, Distinct DEF Traps
      <4>5. QED
        BY <4>3, <4>4
    <3>2. QED
      BY <3>1 DEF ArgsBound
  <2>8. SitesOf(w2, ld)
    BY <1>5, <2>5, Distinct DEF SitesOf
  <2>9. ASSUME NEW s \in Sites, w2[s] # NoCell PROVE Home(g, s) # NoCell /\ w2[s] = g.cell[Home(g, s)]
    <3>1. w[s] # NoCell
      BY <1>5, <2>5, <2>9, Distinct
    <3>2. CASE w[s] = from
      <4>1. w2[s] = g.cell[z]
        BY <1>6, <2>5, <3>1, <3>2
      <4>2. Home(g, s) = z
        BY <1>7, <2>4, <2>7, <3>1, <3>2
      <4>3. QED
        BY <1>9, <4>1, <4>2
    <3>3. CASE w[s] # from
      <4>1. w2[s] = w[s]
        BY <2>5, <3>3
      <4>2. Home(g, s) = Home(h, s)
        BY <1>7, <2>4, <2>7, <3>1, <3>3
      <4>3. /\ Home(h, s) \in Cells /\ Home(h, s) # NoCell /\ w[s] = h.cell[Home(h, s)]
            /\ w[s] \in Caches /\ Home(h, s) # x
        BY <1>6, <3>1, <3>3
      <4>4. QED
        BY <2>6, <4>1, <4>2, <4>3
    <3>4. QED
      BY <3>2, <3>3
  <2>10. Good(g, w2)
    BY <2>4, <2>7, <2>9 DEF Good, Tied
  <2>11. QED
    BY <1>2, <2>8, <2>10 DEF g, z
<1>10. QED
  BY <1>8, <1>9

\* The global binding without a cache is removed.
LEMMA UnbindGlobalCell ==
  ASSUME NEW h, NEW w, Good(h, w), NEW sym \in Symbols, ~Cached(h, <<Global, sym>>)
  PROVE  Good(unbind_variable_1(h, <<Global, sym>>), w)
<1> DEFINE x == <<Global, sym>>
           g == [h EXCEPT !.cell[x] = Unbound]
<1>1. HeapOK(h, w, {}) /\ ArgsBound(h) /\ AllClones(h) /\ Tied(h, w) /\ w \in Where /\ h \in HeapType
  BY DEF Good, HeapOK
<1>2. x \in Cells /\ Len(x) = 2
  BY GlobalCell
<1>3. unbind_variable_1(h, x) = g
  BY <1>2 DEF unbind_variable_1
<1>4. \A f \in Frames : \A n \in Params[f] : <<f, n, "arg">> \in Cells /\ <<f, n, "arg">> # x
  BY EnvAssumption, ExtCell
<1>5. Unbound \in Values \cup Traps
  BY DEF Traps
<1> HIDE DEF x
<1>6. /\ g \in HeapType /\ g.ext = h.ext /\ g.trap = h.trap /\ g.clone = h.clone
      /\ g.val = h.val /\ g.refs = h.refs /\ g.slot = h.slot
  BY <1>1, <1>2, <1>5, SetCell
<1>7. g.cell[x] = Unbound /\ \A y \in Cells : y # x => g.cell[y] = h.cell[y]
  BY <1>1, <1>2, <1>5, SetCell, HeapFields
<1> HIDE DEF g
<1>8. HeapOK(g, w, {}) /\ AllClones(g)
  <2>1. g.cell[x] \in Values \cup Traps
    BY <1>5, <1>7
  <2>2. QED
    BY <1>1, <1>2, <1>6, <1>7, <2>1, CellChanged
<1>9. ArgsBound(g)
  BY <1>1, <1>4, <1>7 DEF ArgsBound
<1>10. Tied(g, w)
  <2>1. \A y \in Cells : h.cell[y] \in Caches => g.cell[y] = h.cell[y]
    BY <1>7 DEF Cached, x
  <2>2. QED
    BY <1>1, <1>6, <1>9, <2>1, TiedSame
<1>11. QED
  BY <1>3, <1>8, <1>9, <1>10 DEF Good, x

\* The cache of a global variable that no compiled code calls is made unbound.
LEMMA UnbindGlobalCache ==
  ASSUME NEW h, NEW w, Good(h, w), NEW ld, SitesOf(w, ld), NEW sym \in Symbols,
         \A s \in ld.sites : s.name = sym => KindOf(s) # "operator", Cached(h, <<Global, sym>>)
  PROVE  Good([h EXCEPT !.val[cache_of(h, <<Global, sym>>)] = Unbound], w)
<1> DEFINE x == <<Global, sym>>
           c == cache_of(h, x)
           g == [h EXCEPT !.val[c] = Unbound]
<1>1. HeapOK(h, w, {}) /\ ArgsBound(h) /\ AllClones(h) /\ Tied(h, w) /\ w \in Where /\ CellsOK(h)
  BY DEF Good, HeapOK
<1>2. x \in Cells /\ x # NoCell
  BY GlobalCell, Distinct
<1>3. c = h.cell[x] /\ c \in Caches
  BY <1>1, <1>2, CacheOf
<1>4. find_binding_cell(h, Global, sym) = x /\ Global \in Env
  <2>1. Global \in Env /\ Enclosing[Global] = {Global}
    BY EnclosingTop, Distinct DEF Env
  <2>2. BindingFrame(h, Global, sym) = Global
    BY <2>1, BindingFrameType
  <2>3. QED
    BY <1>1, <2>1, <2>2, ScanValue DEF find_binding_cell
<1> HIDE DEF x, c
<1>5. Served(w, c, "operator") = {}
  <2> SUFFICES ASSUME NEW s \in Sites, w[s] = c, KindOf(s) = "operator" PROVE FALSE
    BY DEF Served
  <2>1. /\ Home(h, s) \in Cells \ {Dummy} /\ Home(h, s) # NoCell /\ SiteEnv(s) \in Env
        /\ w[s] = h.cell[Home(h, s)] /\ w[s] # NoCell
    BY <1>1, <1>3, TiedCell, SiteType, Distinct
  <2>2. Home(h, s) = x
    BY <1>1, <1>2, <1>3, <2>1 DEF CellsOK, Cached
  <2>3. s.name = sym
    <3>1. find_binding_cell(h, SiteEnv(s), s.name) = find_binding_cell(h, Global, sym)
          /\ find_binding_cell(h, SiteEnv(s), s.name) # NoCell
      BY <1>4, <2>1, <2>2 DEF Home
    <3>2. QED
      BY <1>1, <1>4, <2>1, <3>1, FindInjective
  <2>4. QED
    BY <2>1, <2>3 DEF SitesOf
<1>6. HeapOK(g, w, {}) /\ AllClones(g) /\ SameBindings(h, g)
  BY <1>1, <1>3, <1>5, StoreOK DEF Traps
<1>7. Good(g, w)
  BY <1>6, GoodSame
<1>8. QED
  BY <1>7 DEF g, c, x

LEMMA UnbindOK ==
  ASSUME NEW h, NEW w, Good(h, w), NEW ld, Tame(ld), SitesOf(w, ld), NEW e \in Env, NEW sym \in Symbols,
         \A f \in Frames : sym \notin Params[f],
         \A s \in ld.sites : s.name = sym => KindOf(s) # "operator", \E d \in Caches : h.val[d] = NoCell
  PROVE  \E w2 : Good(unbind_variable(h, e, sym), w2) /\ SitesOf(w2, ld)
<1> DEFINE frame == BindingFrame(h, e, sym)
           x == find_binding_cell(h, e, sym)
           i == IF frame = Global THEN [h EXCEPT !.strong = h.strong \ {sym}] ELSE h
<1>1. ArgsBound(h) /\ HeapOK(h, w, {})
  BY DEF Good
<1>2. Good(i, w) /\ SameBindings(h, i) /\ i.val = h.val
  BY WeakenedGood DEF SameBindings
<1>3. frame \in Env /\ x = scan_frame(h, frame, sym, FALSE)
  BY BindingFrameType DEF find_binding_cell
<1>4. frame \in Frames => sym \in h.ext[frame] /\ x = <<frame, sym, "ext">>
  <2>1. frame \in Frames => x # NoCell
    BY <1>3, SearchStops DEF Stops
  <2>2. QED
    BY <1>1, <1>3, <2>1, ScanValue, Distinct
<1>5. frame \notin Frames /\ x # NoCell => frame = Global /\ x = <<Global, sym>>
  BY <1>1, <1>3, ScanValue
<1>6. unbind_variable(h, e, sym) =
        IF x = NoCell THEN i
        ELSE IF ~Cached(h, x) THEN IF h.cell[x] = Unbound THEN i ELSE unbind_variable_1(i, x)
        ELSE IF h.val[cache_of(h, x)] = Unbound THEN i
        ELSE IF frame \in Frames THEN unbind_cached_variable(i, x, frame, sym)
        ELSE [i EXCEPT !.val[cache_of(h, x)] = Unbound]
  BY DEF unbind_variable
<1>7. (Cached(i, x) <=> Cached(h, x)) /\ cache_of(i, x) = cache_of(h, x) /\ i.ext = h.ext
  BY <1>2 DEF Cached, cache_of, SameBindings
<1> HIDE DEF i, x, frame
<1>8. CASE unbind_variable(h, e, sym) = i
  BY <1>2, <1>8
<1>9. CASE x # NoCell /\ ~Cached(h, x) /\ unbind_variable(h, e, sym) = unbind_variable_1(i, x)
  <2>1. CASE frame \in Frames
    <3>1. Good(unbind_variable_1(i, x), w)
      BY <1>2, <1>4, <1>7, <1>9, <2>1, UnbindUncached
    <3>2. QED
      BY <1>9, <3>1
  <2>2. CASE frame \notin Frames
    <3>1. Good(unbind_variable_1(i, x), w)
      BY <1>2, <1>5, <1>7, <1>9, <2>2, UnbindGlobalCell
    <3>2. QED
      BY <1>9, <3>1
  <2>3. QED
    BY <2>1, <2>2
<1>10. CASE /\ x # NoCell /\ Cached(h, x) /\ frame \in Frames
            /\ unbind_variable(h, e, sym) = unbind_cached_variable(i, x, frame, sym)
  <2>1. \E d \in Caches : i.val[d] = NoCell
    BY <1>2
  <2>2. \E w2 : Good(unbind_cached_variable(i, x, frame, sym), w2) /\ SitesOf(w2, ld)
    BY <1>2, <1>4, <1>7, <1>10, <2>1, UnbindCached
  <2>3. QED
    BY <1>10, <2>2
<1>11. CASE /\ x # NoCell /\ Cached(h, x) /\ frame \notin Frames
            /\ unbind_variable(h, e, sym) = [i EXCEPT !.val[cache_of(h, x)] = Unbound]
  <2>1. unbind_variable(h, e, sym) = [i EXCEPT !.val[cache_of(i, x)] = Unbound]
    BY <1>7, <1>11
  <2>2. Good([i EXCEPT !.val[cache_of(i, x)] = Unbound], w)
    BY <1>2, <1>5, <1>7, <1>11, UnbindGlobalCache
  <2>3. QED
    BY <2>1, <2>2
<1>12. QED
  BY <1>6, <1>8, <1>9, <1>10, <1>11

-----------------------------------------------------------------------------
(* Linking a block. *)

\* A site that is not linked is listed with cache c.
Added(h, c, s) == [h EXCEPT !.refs[c][KindOf(s)] = add_references(h.refs[c][KindOf(s)], s.name, {s})]

LEMMA AddedOK ==
  ASSUME NEW h, NEW w, HeapOK(h, w, {}), NEW c \in Caches, h.val[c] # NoCell, NEW s \in Sites, w[s] = NoCell
  PROVE  LET g == Added(h, c, s)
         IN  /\ HeapOK(g, Moved(w, {s}, c), {s}) /\ SameCaches(h, g) /\ g.strong = h.strong
             /\ \A d \in Caches : d # c /\ CloneOK(h, d) => CloneOK(g, d)
<1> DEFINE x == Moved(w, {s}, c)
           kind == KindOf(s)
           A == add_references(h.refs[c][kind], s.name, {s})
           g == [h EXCEPT !.refs[c][kind] = A]
<1>1. h \in HeapType /\ CellsOK(h) /\ w \in Where /\ Recorded(h, w) /\ OnlyRecorded(h, w) /\ Installed(h, w, {})
  BY DEF HeapOK
<1>2. kind \in Kinds /\ s.name \in Symbols
  BY SiteType
<1>3. h.refs[c][kind] \in AList
  BY <1>1, <1>2, HeapFields
<1>4. /\ A \in AList /\ Listed(A, s.name) = Listed(h.refs[c][kind], s.name) \cup {s}
      /\ \A n : n # s.name => Listed(A, n) = Listed(h.refs[c][kind], n)
  BY <1>2, <1>3, AddReferences
<1>5. Added(h, c, s) = g
  BY DEF Added
<1> HIDE DEF A
<1>6. /\ g \in HeapType /\ SameCaches(h, g) /\ g.slot = h.slot /\ g.strong = h.strong
      /\ g.refs = [h.refs EXCEPT ![c][kind] = A]
  BY <1>1, <1>2, <1>4, SetRefs
<1>7. g.refs[c][kind] = A /\ \A d \in Caches, j \in Kinds : d # c \/ j # kind => g.refs[d][j] = h.refs[d][j]
  BY <1>1, <1>2, <1>6, HeapFields
<1> HIDE DEF g
<1>8. x \in Where /\ \A r \in Sites : x[r] = IF r = s THEN c ELSE w[r]
  BY <1>1 DEF Moved, Where
<1> HIDE DEF x
<1>9. CellsOK(g)
  BY <1>1, <1>6, CellsSame DEF SameCaches
<1>10. ASSUME NEW d \in Caches, NEW j \in Kinds, NEW n, NEW r
       PROVE  r \in Listed(g.refs[d][j], n) <=>
                r \in Listed(h.refs[d][j], n) \/ (r = s /\ d = c /\ j = kind /\ n = s.name)
  <2>1. CASE d = c /\ j = kind
    <3>1. CASE n = s.name
      BY <1>4, <1>7, <2>1, <3>1
    <3>2. CASE n # s.name
      BY <1>4, <1>7, <2>1, <3>2
    <3>3. QED
      BY <3>1, <3>2
  <2>2. CASE d # c \/ j # kind
    BY <1>7, <2>2
  <2>3. QED
    BY <2>1, <2>2
<1>11. Recorded(g, x)
  <2>1. ASSUME NEW r \in Sites, x[r] # NoCell
        PROVE  g.val[x[r]] # NoCell /\ r \in Listed(g.refs[x[r]][KindOf(r)], r.name)
    <3>1. CASE r = s
      BY <1>2, <1>6, <1>8, <1>10, <3>1 DEF SameCaches
    <3>2. CASE r # s
      <4>1. x[r] = w[r] /\ w[r] \in Caches /\ KindOf(r) \in Kinds
        BY <1>1, <1>8, <2>1, <3>2, WhereType, SiteType
      <4>2. h.val[w[r]] # NoCell /\ r \in Listed(h.refs[w[r]][KindOf(r)], r.name)
        BY <1>1, <2>1, <4>1 DEF Recorded
      <4>3. QED
        BY <1>6, <1>10, <4>1, <4>2 DEF SameCaches
    <3>3. QED
      BY <3>1, <3>2
  <2>2. QED
    BY <2>1 DEF Recorded
<1>12. OnlyRecorded(g, x)
  <2>1. ASSUME NEW d \in Caches, NEW j \in Kinds, NEW n \in Symbols, NEW r \in Listed(g.refs[d][j], n)
        PROVE  d = x[r] /\ j = KindOf(r) /\ n = r.name
    <3>1. CASE r \in Listed(h.refs[d][j], n)
      <4>1. h.refs[d][j] \in AList
        BY <1>1, HeapFields
      <4>2. r \in Sites /\ d = w[r] /\ j = KindOf(r) /\ n = r.name
        BY <1>1, <3>1, <4>1, ListedType DEF OnlyRecorded
      <4>3. r # s
        BY <4>2, Distinct
      <4>4. QED
        BY <1>8, <4>2, <4>3
    <3>2. CASE r = s /\ d = c /\ j = kind /\ n = s.name
      BY <1>8, <3>2
    <3>3. QED
      BY <1>10, <2>1, <3>1, <3>2
  <2>2. QED
    BY <2>1 DEF OnlyRecorded
<1>13. Installed(g, x, {s})
  <2>1. \A d, k : install_cache(g, d, k) = install_cache(h, d, k)
    BY <1>6, InstallSame DEF SameCaches
  <2>2. \A r \in Sites \ {s} : x[r] = w[r] /\ g.slot[r] = h.slot[r]
    BY <1>6, <1>8
  <2>3. QED
    BY <1>1, <2>1, <2>2 DEF Installed
<1>14. \A d \in Caches : d # c /\ CloneOK(h, d) => CloneOK(g, d)
  <2>1. ASSUME NEW d \in Caches, d # c, CloneOK(h, d) PROVE CloneOK(g, d)
    <3>1. g.clone[d] = h.clone[d]
      BY <1>6 DEF SameCaches
    <3>2. \A k \in Kinds : g.refs[d][k] # <<>> => h.refs[d][k] # <<>>
      BY <1>7, <2>1
    <3>3. QED
      BY <2>1, <3>1, <3>2, CloneKept
  <2>2. QED
    BY <2>1
<1>15. HeapOK(g, x, {s})
  BY <1>6, <1>8, <1>9, <1>11, <1>12, <1>13 DEF HeapOK
<1>16. QED
  BY <1>5, <1>6, <1>14, <1>15 DEF x

\* A site of which nothing is installed is not linked.
LEMMA NotLinked ==
  ASSUME NEW h, NEW w, HeapOK(h, w, {}), NEW s \in Sites
  PROVE  h.slot[s].to = "none" <=> w[s] = NoCell
<1>1. h \in HeapType /\ w \in Where /\ Recorded(h, w) /\ Installed(h, w, {})
  BY DEF HeapOK
<1>2. CASE w[s] = NoCell
  BY <1>1, <1>2 DEF Installed, NoSlot
<1>3. CASE w[s] # NoCell
  <2>1. w[s] \in Caches /\ KindOf(s) \in Kinds /\ h.val[w[s]] # NoCell
    BY <1>1, <1>3, WhereType, SiteType DEF Recorded
  <2>2. h.slot[s] = install_cache(h, w[s], KindOf(s))
    BY <1>1, <1>3 DEF Installed
  <2>3. QED
    BY <1>1, <1>3, <2>1, <2>2, InstallType
<1>4. QED
  BY <1>2, <1>3

LEMMA GuaranteeGood ==
  ASSUME NEW h, NEW w, Good(h, w), NEW x \in Cells, \E d \in Caches : h.val[d] = NoCell
  PROVE  Good(guarantee_cache(h, x), w)
<1> DEFINE g == guarantee_cache(h, x)
<1>1. HeapOK(h, w, {}) /\ ArgsBound(h) /\ AllClones(h) /\ Tied(h, w) /\ w \in Where
  BY DEF Good, HeapOK
<1>2. /\ HeapOK(g, w, {}) /\ AllClones(g) /\ g.ext = h.ext /\ g.strong = h.strong
      /\ g.cell[x] \in Caches /\ \A y \in Cells : y # x => g.cell[y] = h.cell[y]
      /\ IF Cached(h, x) THEN g = h ELSE h.val[g.cell[x]] = NoCell
  BY <1>1, GuaranteeOK
<1> HIDE DEF g
<1>3. ArgsBound(g)
  <2>1. g.cell[x] # Unbound
    BY <1>2, Distinct DEF Traps
  <2>2. \A f \in Frames : \A n \in Params[f] : <<f, n, "arg">> \in Cells
    BY EnvAssumption, ExtCell
  <2>3. QED
    BY <1>1, <1>2, <2>1, <2>2 DEF ArgsBound
<1>4. \A y \in Cells : h.cell[y] \in Caches => g.cell[y] = h.cell[y]
  BY <1>2 DEF Cached
<1>5. Tied(g, w)
  BY <1>1, <1>2, <1>3, <1>4, TiedSame
<1>6. QED
  BY <1>2, <1>3, <1>5 DEF Good, g

LEMMA AddReferenceOK ==
  ASSUME NEW h, NEW w, Good(h, w), NEW ld, Tame(ld), SitesOf(w, ld), NEW s \in Sites, s \in ld.sites,
         h.slot[s].to = "none", \E d \in Caches : h.val[d] = NoCell
  PROVE  \E w2 : Good(add_cache_reference(h, s), w2) /\ SitesOf(w2, ld)
<1> DEFINE kind == KindOf(s)
           x == Home(h, s)
           h1 == guarantee_cache(h, x)
           c == cache_of(h1, x)
           w2 == Moved(w, {s}, c)
           T == IF x = <<Global, s.name>> THEN h1.strong \cup {s.name} ELSE h1.strong
           j == Added(h1, c, s)
           k == [j EXCEPT !.strong = T]
           m == update_clone(k, c)
           g == InstallAll(m, c, kind, {s})
<1>1. HeapOK(h, w, {}) /\ ArgsBound(h) /\ w \in Where
  BY DEF Good, HeapOK
<1>2. w[s] = NoCell /\ kind \in Kinds /\ SiteEnv(s) \in Env /\ s.name \in Symbols
  BY <1>1, NotLinked, SiteType
<1>3. x # NoCell /\ x \in Cells
  BY <1>1, <1>2, TameSite, FindInGlobal, FindCell DEF Home
<1>4. add_cache_reference(h, s) = g
  <2>1. x = find_binding_cell(h, IF s.kind = "global_operator" THEN Global ELSE BlockEnv[s.block], s.name)
    BY DEF Home, SiteEnv
  <2>2. kind = IF s.kind = "global_operator" THEN "operator" ELSE s.kind
    BY DEF KindOf
  <2>3. k = [h1 EXCEPT !.refs[c][kind] = add_references(@, s.name, {s}), !.strong = T]
    BY DEF Added
  <2>4. add_cache_reference(h, s) =
          InstallAll(update_clone([h1 EXCEPT !.refs[c][kind] = add_references(@, s.name, {s}), 
                                             !.strong = IF x = <<Global, s.name>> THEN @ \cup {s.name} ELSE @], c),
                     c, kind, {s})
    BY <1>3, <2>1, <2>2 DEF add_cache_reference
  <2>5. QED
    BY <2>3, <2>4
<1> HIDE DEF x
<1>5. Good(h1, w)
  BY <1>3, GuaranteeGood
<1>6. Cached(h1, x) /\ h1.ext = h.ext
  BY <1>1, <1>3, GuaranteeOK DEF Cached, Good
<1>7. HeapOK(h1, w, {}) /\ AllClones(h1) /\ ArgsBound(h1) /\ Tied(h1, w) /\ h1 \in HeapType
  BY <1>5 DEF Good, HeapOK
<1>8. Home(h1, s) = x
  BY <1>1, <1>2, <1>6, <1>7, FindSame DEF Home, x
<1> HIDE DEF h1
<1>9. c = h1.cell[x] /\ c \in Caches /\ h1.val[c] # NoCell
  BY <1>3, <1>6, <1>7, CacheOf
<1> HIDE DEF c
<1>10. /\ HeapOK(j, w2, {s}) /\ SameCaches(h1, j) /\ j.strong = h1.strong
       /\ \A d \in Caches : d # c /\ CloneOK(h1, d) => CloneOK(j, d)
  BY <1>2, <1>7, <1>9, AddedOK
<1> HIDE DEF j, w2
<1>11. T \in SUBSET Symbols
  BY <1>2, <1>7, HeapFields
<1> HIDE DEF T
<1>12. HeapOK(k, w2, {s}) /\ SameCaches(j, k) /\ k.refs = j.refs
  BY <1>10, <1>11, HeapStrong
<1> HIDE DEF k
<1>13. /\ HeapOK(m, w2, {s}) /\ SameValues(k, m) /\ CloneOK(m, c)
       /\ \A d \in Caches : CloneOK(k, d) => CloneOK(m, d)
  BY <1>9, <1>12, UpdateCloneOK
<1> HIDE DEF m
<1>14. /\ \A r \in Sites : w2[r] = IF r = s THEN c ELSE w[r]
       /\ {s} \in SUBSET Served(w2, c, kind)
  BY DEF w2, Moved, Served
<1>15. SameCaches(m, g) /\ g.refs = m.refs /\ HeapOK(g, w2, {})
  <2> DEFINE S == {s}
             q == InstallAll(m, c, kind, S)
  <2>1. S \in SUBSET Served(w2, c, kind) /\ HeapOK(m, w2, S)
    BY <1>13, <1>14
  <2>a. c \in Caches /\ kind \in Kinds
    BY <1>2, <1>9
  <2> HIDE DEF S
  <2>2. HeapOK(q, w2, S \ S) /\ SameCaches(m, q) /\ q.strong = m.strong /\ q.refs = m.refs
    BY <2>a, <2>1, InstallOK
  <2> HIDE DEF q
  <2>3. HeapOK(q, w2, {})
    BY <2>2, HeapWeaken
  <2>4. QED
    BY <2>2, <2>3 DEF q, S
<1> HIDE DEF g
<1>16. HeapOK(g, w2, {})
  BY <1>15
<1>17. AllClones(g)
  <2>1. \A d \in Caches : d # c => CloneOK(k, d)
    BY <1>7, <1>10, <1>12 DEF AllClones, CloneOK, NeedsClone, SameCaches
  <2>2. \A d \in Caches : CloneOK(m, d)
    BY <1>9, <1>13, <2>1
  <2>3. QED
    BY <1>15, <2>2 DEF AllClones, CloneOK, NeedsClone, SameCaches
<1>18. g.cell = h1.cell /\ g.ext = h1.ext
  BY <1>10, <1>12, <1>13, <1>15 DEF SameCaches, SameValues
<1>19. ArgsBound(g)
  BY <1>7, <1>18 DEF ArgsBound
<1>20. ASSUME NEW r \in Sites, w2[r] # NoCell PROVE Home(g, r) # NoCell /\ w2[r] = g.cell[Home(g, r)]
  <2>1. Home(g, r) = Home(h1, r)
    BY <1>7, <1>18, <1>19, SiteType, FindSame DEF Home
  <2>2. CASE r = s
    BY <1>3, <1>8, <1>9, <1>14, <1>18, <2>1, <2>2
  <2>3. CASE r # s
    BY <1>7, <1>14, <1>18, <1>20, <2>1, <2>3 DEF Tied
  <2>4. QED
    BY <2>2, <2>3
<1>21. Good(g, w2)
  BY <1>16, <1>17, <1>19, <1>20 DEF Good, Tied
<1>22. SitesOf(w2, ld)
  BY <1>14 DEF SitesOf
<1>23. QED
  BY <1>4, <1>21, <1>22

-----------------------------------------------------------------------------
(* Assignment in compiled code. *)

LEMMA AssignmentSite ==
  ASSUME NEW h, NEW w, Good(h, w), NEW s \in Sites, s.kind = "assignment", h.slot[s].to \in {"cache", "clone"}
  PROVE  /\ w[s] \in Caches /\ h.slot[s].id = w[s]
         /\ h.slot[s].to = "cache" => Served(w, w[s], "operator") = {}
<1>1. HeapOK(h, w, {}) /\ h \in HeapType /\ w \in Where /\ Recorded(h, w) /\ Installed(h, w, {}) /\ AllClones(h)
  BY DEF Good, HeapOK
<1>2. KindOf(s) = "assignment" /\ "assignment" \in Kinds /\ "operator" \in Kinds /\ s.name \in Symbols
  BY SiteType DEF KindOf, Kinds
<1>3. w[s] # NoCell
  BY <1>1, NotLinked
<1>4. w[s] \in Caches
  BY <1>1, <1>3, WhereType
<1>5. h.slot[s] = [to |-> IF h.clone[w[s]] THEN "clone" ELSE "cache", id |-> w[s]]
  BY <1>1, <1>2, <1>3 DEF Installed, install_cache
<1>6. ASSUME h.slot[s].to = "cache" PROVE Served(w, w[s], "operator") = {}
  <2>1. ~h.clone[w[s]]
    BY <1>5, <1>6
  <2>2. s \in Listed(h.refs[w[s]]["assignment"], s.name)
    BY <1>1, <1>2, <1>3 DEF Recorded
  <2>3. h.refs[w[s]]["assignment"] # <<>>
    BY <2>2, EmptyList
  <2>4. h.refs[w[s]]["operator"] = <<>>
    BY <1>1, <1>4, <2>1, <2>3 DEF AllClones, CloneOK, NeedsClone
  <2>5. QED
    BY <1>1, <1>2, <1>4, <2>4, NoneServed
<1>7. QED
  BY <1>4, <1>5, <1>6

-----------------------------------------------------------------------------
(* The garbage collector. *)

LEMMA WithoutBlockOK ==
  ASSUME NEW h, NEW w, Good(h, w), NEW ld, SitesOf(w, ld), NEW b
  PROVE  \E w2 : Good(WithoutBlock(h, b), w2) /\ SitesOf(w2, ld)
<1> DEFINE dead == {s \in Sites : s.block = b}
           L == [s \in Sites |-> IF s \in dead THEN NoSlot ELSE h.slot[s]]
           R == [c \in Caches |-> [k \in Kinds |-> WithoutSites(h.refs[c][k], dead)]]
           g == WithoutBlock(h, b)
           w2 == Moved(w, dead, NoCell)
<1>1. h \in HeapType /\ CellsOK(h) /\ w \in Where /\ Recorded(h, w) /\ OnlyRecorded(h, w) /\ Installed(h, w, {})
  BY DEF Good, HeapOK
<1>2. g = [h EXCEPT !.slot = L, !.refs = R]
  BY DEF WithoutBlock, NoSlot, WithoutSites
<1>3. L \in [Sites -> Slot]
  <2>1. NoSlot \in Slot
    BY DEF NoSlot, Slot
  <2>2. QED
    BY <1>1, <2>1, HeapFields
<1>4. \A s \in Sites : L[s] = IF s \in dead THEN NoSlot ELSE h.slot[s]
  OBVIOUS
<1> HIDE DEF dead, L
<1>5. ASSUME NEW c \in Caches, NEW k \in Kinds
      PROVE  /\ R[c][k] \in AList /\ (R[c][k] = <<>> <=> h.refs[c][k] = <<>>)
             /\ \A n : Listed(R[c][k], n) = Listed(h.refs[c][k], n) \ dead
  <2>1. h.refs[c][k] \in AList
    BY <1>1, HeapFields
  <2>2. R[c][k] = WithoutSites(h.refs[c][k], dead)
    OBVIOUS
  <2>3. QED
    BY <2>1, <2>2, WithoutDead
<1>6. R \in [Caches -> [Kinds -> AList]]
  BY <1>5
<1> HIDE DEF R, g
<1>7. g \in HeapType /\ SameCaches(h, g) /\ g.slot = L /\ g.refs = R
  BY <1>1, <1>2, <1>3, <1>6 DEF HeapType, SameCaches
<1>8. w2 \in Where /\ \A s \in Sites : w2[s] = IF s \in dead THEN NoCell ELSE w[s]
  BY <1>1 DEF Moved, Where
<1> HIDE DEF w2
<1>9. CellsOK(g)
  BY <1>1, <1>7, CellsSame DEF SameCaches
<1>10. Recorded(g, w2)
  <2>1. ASSUME NEW s \in Sites, w2[s] # NoCell
        PROVE  g.val[w2[s]] # NoCell /\ s \in Listed(g.refs[w2[s]][KindOf(s)], s.name)
    <3>1. s \notin dead /\ w2[s] = w[s] /\ w[s] \in Caches /\ KindOf(s) \in Kinds
      BY <1>1, <1>8, <2>1, WhereType, SiteType
    <3>2. h.val[w[s]] # NoCell /\ s \in Listed(h.refs[w[s]][KindOf(s)], s.name)
      BY <1>1, <2>1, <3>1 DEF Recorded
    <3>3. QED
      BY <1>5, <1>7, <3>1, <3>2 DEF SameCaches
  <2>2. QED
    BY <2>1 DEF Recorded
<1>11. OnlyRecorded(g, w2)
  <2>1. ASSUME NEW c \in Caches, NEW k \in Kinds, NEW n \in Symbols, NEW s \in Listed(g.refs[c][k], n)
        PROVE  c = w2[s] /\ k = KindOf(s) /\ n = s.name
    <3>1. s \in Listed(h.refs[c][k], n) /\ s \notin dead
      BY <1>5, <1>7, <2>1
    <3>2. h.refs[c][k] \in AList
      BY <1>1, HeapFields
    <3>3. s \in Sites /\ c = w[s] /\ k = KindOf(s) /\ n = s.name
      BY <1>1, <3>1, <3>2, ListedType DEF OnlyRecorded
    <3>4. QED
      BY <1>8, <3>1, <3>3
  <2>2. QED
    BY <2>1 DEF OnlyRecorded
<1>12. Installed(g, w2, {})
  <2>1. \A d, k : install_cache(g, d, k) = install_cache(h, d, k)
    BY <1>7, InstallSame DEF SameCaches
  <2>2. ASSUME NEW s \in Sites
        PROVE  g.slot[s] = IF w2[s] = NoCell THEN NoSlot ELSE install_cache(h, w2[s], KindOf(s))
    <3>1. CASE s \in dead
      BY <1>4, <1>7, <1>8, <3>1
    <3>2. CASE s \notin dead
      BY <1>1, <1>4, <1>7, <1>8, <3>2 DEF Installed
    <3>3. QED
      BY <3>1, <3>2
  <2>3. QED
    BY <2>1, <2>2 DEF Installed
<1>13. AllClones(g)
  <2>1. ASSUME NEW d \in Caches PROVE CloneOK(g, d)
    <3>1. g.clone[d] = h.clone[d] /\ CloneOK(h, d)
      BY <1>7 DEF SameCaches, Good, AllClones
    <3>2. \A k \in Kinds : g.refs[d][k] # <<>> => h.refs[d][k] # <<>>
      BY <1>5, <1>7
    <3>3. QED
      BY <3>1, <3>2, CloneKept
  <2>2. QED
    BY <2>1 DEF AllClones
<1>14. HeapOK(g, w2, {})
  BY <1>7, <1>8, <1>9, <1>10, <1>11, <1>12 DEF HeapOK
<1>15. ArgsBound(g)
  BY <1>7 DEF Good, ArgsBound, SameCaches
<1>16. Tied(g, w)
  BY <1>1, <1>7, <1>15, TiedSame DEF Good, SameCaches
<1>17. Tied(g, w2)
  BY <1>8, <1>16 DEF Tied
<1>18. Good(g, w2) /\ SitesOf(w2, ld)
  BY <1>8, <1>13, <1>14, <1>15, <1>17 DEF Good, SitesOf
<1>19. QED
  BY <1>18 DEF g

\* Reclaiming keeps what a cell leads to, and so what the sites hold.
LEMMA ReclaimedFields ==
  ASSUME NEW h, h \in HeapType, CellsOK(h)
  PROVE  LET g == Reclaimed(h)
         IN  \E U \in SUBSET Caches :
               /\ g \in HeapType /\ g.ext = h.ext /\ g.slot = h.slot /\ g.strong = h.strong
               /\ g.cell[Dummy] = Unbound /\ \A y \in Cells : y # Dummy => g.cell[y] = h.cell[y]
               /\ \A y \in Cells : y # Dummy /\ Cached(h, y) => h.cell[y] \in U
               /\ \A c \in Caches : g.trap[c] = c
               /\ \A c \in U : g.val[c] = h.val[c] /\ g.clone[c] = h.clone[c] /\ g.refs[c] = h.refs[c]
               /\ \A c \in Caches \ U : g.refs[c] = [k \in Kinds |-> <<>>]
<1> DEFINE h1 == [h EXCEPT !.cell[Dummy] = Unbound]
           C == [h.cell EXCEPT ![Dummy] = Unbound]
           T == {C[x] : x \in Cells} \cap Caches
           U0 == {h.trap[t] : t \in T} \cup {h.slot[s].id : s \in {r \in Sites : h.slot[r].to # "proc"}}
           U == U0 \cap Caches
           trap == [t \in Caches |-> IF t \in T THEN h.trap[t] ELSE t]
           val == [c \in Caches |-> IF c \in U0 THEN h.val[c] ELSE IF c \in T THEN Unbound ELSE NoCell]
           clone == [c \in Caches |-> c \in U0 /\ h.clone[c]]
           refs == [c \in Caches |-> IF c \in U0 THEN h.refs[c] ELSE [k \in Kinds |-> <<>>]]
           g == Reclaimed(h)
<1>1. Dummy \in Cells /\ Unbound \in Traps
  BY DEF Cells, Traps
<1>2. C \in [Cells -> Values \cup Traps \cup Caches] /\ C[Dummy] = Unbound /\ \A y \in Cells : y # Dummy => C[y] = h.cell[y]
  BY <1>1, HeapFields
<1>3. trap \in [Caches -> Caches] /\ \A c \in Caches : trap[c] = c
  BY HeapFields DEF CellsOK
<1>4. val \in [Caches -> Values \cup Traps \cup {NoCell}] /\ \A c \in U : val[c] = h.val[c]
  BY <1>1, HeapFields
<1>5. clone \in [Caches -> BOOLEAN] /\ \A c \in U : clone[c] = h.clone[c]
  BY HeapFields
<1>6. refs \in [Caches -> [Kinds -> AList]] /\ \A c \in U : refs[c] = h.refs[c]
  BY HeapFields, EmptyList
<1>7. \A c \in Caches \ U : refs[c] = [k \in Kinds |-> <<>>]
  OBVIOUS
<1>8. \A y \in Cells : y # Dummy /\ Cached(h, y) => h.cell[y] \in U
  BY <1>2 DEF Cached, CellsOK
<1>9. g = [h EXCEPT !.cell = C, !.trap = trap, !.val = val, !.clone = clone, !.refs = refs]
  <2>1. h1.cell = C /\ h1.trap = h.trap /\ h1.slot = h.slot /\ h1.val = h.val /\ h1.clone = h.clone /\ h1.refs = h.refs
    BY DEF HeapType
  <2>2. QED
    BY <2>1 DEF Reclaimed
<1> HIDE DEF C, trap, val, clone, refs, g, U
<1>10. /\ g \in HeapType /\ g.ext = h.ext /\ g.slot = h.slot /\ g.strong = h.strong
       /\ g.cell = C /\ g.trap = trap /\ g.val = val /\ g.clone = clone /\ g.refs = refs
  BY <1>2, <1>3, <1>4, <1>5, <1>6, <1>9 DEF HeapType
<1>11. U \in SUBSET Caches
  BY DEF U
<1>12. QED
  BY <1>2, <1>3, <1>4, <1>5, <1>6, <1>7, <1>8, <1>10, <1>11 DEF g

LEMMA ReclaimedOK ==
  ASSUME NEW h, NEW w, Good(h, w)
  PROVE  Good(Reclaimed(h), w)
<1> DEFINE g == Reclaimed(h)
<1>1. /\ h \in HeapType /\ CellsOK(h) /\ w \in Where /\ Recorded(h, w) /\ OnlyRecorded(h, w) /\ Installed(h, w, {})
      /\ ArgsBound(h) /\ Tied(h, w) /\ AllClones(h)
  BY DEF Good, HeapOK
<1>2. PICK U \in SUBSET Caches :
        /\ g \in HeapType /\ g.ext = h.ext /\ g.slot = h.slot /\ g.strong = h.strong
        /\ g.cell[Dummy] = Unbound /\ \A y \in Cells : y # Dummy => g.cell[y] = h.cell[y]
        /\ \A y \in Cells : y # Dummy /\ Cached(h, y) => h.cell[y] \in U
        /\ \A c \in Caches : g.trap[c] = c
        /\ \A c \in U : g.val[c] = h.val[c] /\ g.clone[c] = h.clone[c] /\ g.refs[c] = h.refs[c]
        /\ \A c \in Caches \ U : g.refs[c] = [k \in Kinds |-> <<>>]
  BY <1>1, ReclaimedFields
<1> HIDE DEF g
<1>3. \A s \in Sites : w[s] # NoCell => w[s] \in U
  BY <1>1, <1>2, TiedCell DEF Cached
<1>4. CellsOK(g)
  <2>1. ~Cached(g, Dummy)
    BY <1>2, Distinct DEF Cached, Traps
  <2>2. ASSUME NEW y \in Cells, Cached(g, y)
        PROVE  g.val[g.cell[y]] # NoCell /\ \A z \in Cells : g.cell[z] = g.cell[y] => z = y
    <3>1. y # Dummy /\ g.cell[y] = h.cell[y] /\ Cached(h, y) /\ h.cell[y] \in U
      BY <1>2, <2>1, <2>2 DEF Cached
    <3>2. h.val[h.cell[y]] # NoCell /\ \A z \in Cells : h.cell[z] = h.cell[y] => z = y
      BY <1>1, <3>1 DEF CellsOK
    <3>3. ASSUME NEW z \in Cells, g.cell[z] = g.cell[y] PROVE z = y
      <4>1. z # Dummy
        BY <2>1, <2>2, <3>3 DEF Cached
      <4>2. QED
        BY <1>2, <3>1, <3>2, <3>3, <4>1
    <3>4. QED
      BY <1>2, <3>1, <3>2, <3>3
  <2>3. QED
    BY <1>2, <2>2 DEF CellsOK
<1>5. Recorded(g, w)
  BY <1>1, <1>2, <1>3 DEF Recorded
<1>6. OnlyRecorded(g, w)
  <2>1. ASSUME NEW c \in Caches, NEW k \in Kinds, NEW n \in Symbols, NEW s \in Listed(g.refs[c][k], n)
        PROVE  c = w[s] /\ k = KindOf(s) /\ n = s.name
    <3>1. c \in U
      <4>1. c \notin U => g.refs[c][k] = <<>>
        BY <1>2
      <4>2. QED
        BY <2>1, <4>1, EmptyList
    <3>2. QED
      BY <1>1, <1>2, <2>1, <3>1 DEF OnlyRecorded
  <2>2. QED
    BY <2>1 DEF OnlyRecorded
<1>7. Installed(g, w, {})
  <2>1. \A s \in Sites : w[s] # NoCell => install_cache(g, w[s], KindOf(s)) = install_cache(h, w[s], KindOf(s))
    BY <1>2, <1>3, InstallSame
  <2>2. QED
    BY <1>1, <1>2, <2>1 DEF Installed
<1>8. AllClones(g)
  <2>1. \A c \in U : CloneOK(g, c)
    BY <1>1, <1>2 DEF AllClones, CloneOK, NeedsClone
  <2>2. \A c \in Caches \ U : CloneOK(g, c)
    BY <1>2 DEF CloneOK, NeedsClone, Kinds
  <2>3. QED
    BY <2>1, <2>2 DEF AllClones
<1>9. ArgsBound(g)
  <2>1. ASSUME NEW f \in Frames, NEW n \in Params[f] PROVE g.cell[<<f, n, "arg">>] # Unbound
    <3> DEFINE y == <<f, n, "arg">>
    <3>1. y \in Cells
      BY EnvAssumption, ExtCell
    <3>2. y # Dummy
      BY DummyCell
    <3>3. h.cell[y] # Unbound
      BY <1>1 DEF ArgsBound
    <3> HIDE DEF y
    <3>4. g.cell[y] # Unbound
      BY <1>2, <3>1, <3>2, <3>3
    <3>5. QED
      BY <3>4 DEF y
  <2>2. QED
    BY <2>1 DEF ArgsBound
<1>10. Tied(g, w)
  <2>1. ASSUME NEW s \in Sites, w[s] # NoCell PROVE Home(g, s) # NoCell /\ w[s] = g.cell[Home(g, s)]
    <3>1. Home(g, s) = Home(h, s)
      BY <1>1, <1>2, <1>9, SiteType, FindSame DEF Home
    <3>2. Home(h, s) \in Cells \ {Dummy} /\ Home(h, s) # NoCell /\ w[s] = h.cell[Home(h, s)]
      BY <1>1, <2>1, TiedCell
    <3>3. QED
      BY <1>2, <3>1, <3>2
  <2>2. QED
    BY <2>1 DEF Tied
<1>11. QED
  BY <1>1, <1>2, <1>4, <1>5, <1>6, <1>7, <1>8, <1>9, <1>10 DEF Good, HeapOK, g

-----------------------------------------------------------------------------
(* The invariant holds at the start and is kept by every action. *)

LEMMA StartGood == Good(NoHeap, [s \in Sites |-> NoCell])
<1> DEFINE h == NoHeap
           w == [s \in Sites |-> NoCell]
           C == [x \in Cells |-> IF Len(x) = 3 /\ x[3] = "arg" /\ x[2] \in Params[x[1]]
                                 THEN Unassigned ELSE Unbound]
           R == [c \in Caches |-> [k \in Kinds |-> <<>>]]
<1>1. C \in [Cells -> Values \cup Traps \cup Caches] /\ \A x \in Cells : C[x] \in Traps
  BY DEF Traps
<1>2. R \in [Caches -> [Kinds -> AList]] /\ \A c \in Caches, k \in Kinds : R[c][k] = <<>>
  BY EmptyList
<1>3. NoSlot \in Slot /\ Unbound \in Traps
  BY DEF NoSlot, Slot, Traps
<1>4. ASSUME NEW f \in Frames, NEW n \in Params[f] PROVE C[<<f, n, "arg">>] = Unassigned
  <2>1. n \in Symbols
    BY EnvAssumption
  <2>2. <<f, n, "arg">> \in Cells
    BY <2>1, ExtCell
  <2>3. Len(<<f, n, "arg">>) = 3
    OBVIOUS
  <2>4. QED
    BY <2>2, <2>3
<1>5. /\ h.cell = C /\ h.ext = [f \in Frames |-> {}] /\ h.trap = [c \in Caches |-> c]
      /\ h.val = [c \in Caches |-> NoCell] /\ h.clone = [c \in Caches |-> FALSE]
      /\ h.refs = R /\ h.slot = [s \in Sites |-> NoSlot] /\ h.strong = {}
  BY DEF NoHeap, NoSlot
<1>6. h = [cell |-> C, ext |-> [f \in Frames |-> {}], trap |-> [c \in Caches |-> c],
           val |-> [c \in Caches |-> NoCell], clone |-> [c \in Caches |-> FALSE],
           refs |-> R, slot |-> [s \in Sites |-> NoSlot], strong |-> {}]
  BY DEF NoHeap, NoSlot
<1> HIDE DEF C, R, h
<1>7. h \in HeapType
  BY <1>1, <1>2, <1>3, <1>6 DEF HeapType
<1>8. \A x \in Cells : ~Cached(h, x)
  BY <1>1, <1>5, Distinct DEF Cached
<1>9. CellsOK(h)
  BY <1>5, <1>8 DEF CellsOK
<1>10. w \in Where /\ \A s \in Sites : w[s] = NoCell
  BY DEF Where
<1> HIDE DEF w
<1>11. Recorded(h, w) /\ Tied(h, w)
  BY <1>10 DEF Recorded, Tied
<1>12. OnlyRecorded(h, w)
  BY <1>2, <1>5, EmptyList DEF OnlyRecorded
<1>13. Installed(h, w, {})
  BY <1>5, <1>10 DEF Installed
<1>14. AllClones(h)
  BY <1>2, <1>5 DEF AllClones, CloneOK, NeedsClone, Kinds
<1>15. ArgsBound(h)
  BY <1>4, <1>5, Distinct DEF ArgsBound
<1>16. QED
  BY <1>7, <1>9, <1>10, <1>11, <1>12, <1>13, <1>14, <1>15 DEF Good, HeapOK, h, w

LEMMA InitOK == Init => IInv
<1> SUFFICES ASSUME Init PROVE IInv
  OBVIOUS
<1>1. SitesOf([s \in Sites |-> NoCell], load)
  BY DEF SitesOf
<1>2. Right(heap, load)
  BY <1>1, StartGood DEF Right, Init
<1>3. QED
  BY <1>2 DEF IInv, Init

\* What a primitive leaves is right after the collector has run.
LEMMA StepOK ==
  ASSUME load \in Workloads, NEW h, Right(h, load), Step(h)
  PROVE  IInv'
<1>1. PICK w : Good(h, w) /\ SitesOf(w, load)
  BY DEF Right
<1>2. Good(Reclaimed(h), w)
  BY <1>1, ReclaimedOK
<1>3. heap' = Reclaimed(h) /\ load' = load /\ hung' = {}
  BY DEF Step
<1>4. Right(heap', load')
  BY <1>1, <1>2, <1>3 DEF Right
<1>5. QED
  BY <1>3, <1>4 DEF IInv

LEMMA RoomOK ==
  ASSUME Room
  PROVE  \E d \in Caches : heap.val[d] = NoCell
<1>1. CASE {c \in Caches : heap.val[c] = NoCell} = {}
  <2>1. Cardinality({c \in Caches : heap.val[c] = NoCell}) = 0
    BY <1>1, FS_EmptySet
  <2>2. QED
    BY <2>1 DEF Room
<1>2. QED
  BY <1>1

LEMMA WorkloadType ==
  ASSUME NEW ld \in Workloads
  PROVE  /\ ld.sites \subseteq Sites
         /\ \A v \in ld.assign : v \in Values \cup Traps /\ v # Unbound
         /\ \A d \in ld.define \cup ld.unbind : d[1] \in Frames \cup {Global} /\ d[1] \in Env /\ d[2] \in Symbols
<1>1. /\ ld.sites \subseteq Sites /\ ld.assign \subseteq Values \cup {Unassigned, Macro}
      /\ ld.define \cup ld.unbind \subseteq (Frames \cup {Global}) \X Symbols
  BY EnvAssumption
<1>2. Unbound \notin Values \cup {Unassigned, Macro}
  BY EnvAssumption DEF Traps
<1>3. QED
  BY <1>1, <1>2 DEF Traps, Env

LEMMA AssignKeeps ==
  ASSUME IInv, Tame(load), Assign
  PROVE  IInv'
<1>1. PICK d \in load.define, v \in load.assign : Step(assign_variable(heap, d[1], d[2], v))
  BY DEF Assign
<1>2. load \in Workloads
  BY DEF IInv
<1>3. d[1] \in Env /\ d[2] \in Symbols /\ v \in Values \cup Traps /\ v # Unbound
  BY <1>1, <1>2, WorkloadType
<1>4. PICK w : Good(heap, w) /\ SitesOf(w, load)
  BY DEF IInv, Right
<1>5. Good(assign_variable(heap, d[1], d[2], v), w)
  BY <1>3, <1>4, AssignOK
<1>6. Right(assign_variable(heap, d[1], d[2], v), load)
  BY <1>4, <1>5 DEF Right
<1>7. QED
  BY <1>1, <1>2, <1>6, StepOK

LEMMA DefineKeeps ==
  ASSUME IInv, Tame(load), Define
  PROVE  IInv'
<1>1. PICK d \in load.define, v \in load.assign : Step(define_variable(heap, d[1], d[2], v))
  BY DEF Define
<1>2. load \in Workloads
  BY DEF IInv
<1>3. d[1] \in Frames \cup {Global} /\ d[2] \in Symbols /\ v \in Values \cup Traps /\ v # Unbound
  BY <1>1, <1>2, WorkloadType
<1>4. PICK w : Good(heap, w) /\ SitesOf(w, load)
  BY DEF IInv, Right
<1>5. \E c \in Caches : heap.val[c] = NoCell
  BY <1>1, RoomOK DEF Step
<1>6. \E w2 : Good(define_variable(heap, d[1], d[2], v), w2) /\ SitesOf(w2, load)
  BY <1>3, <1>4, <1>5, DefineOK
<1>7. QED
  BY <1>1, <1>2, <1>6, StepOK DEF Right

\* Where a search that starts around the frame of a binding leads, is another cell.
LEMMA UnbindEnds ==
  ASSUME NEW h, NEW w, Good(h, w), NEW e \in Env, NEW sym \in Symbols
  PROVE  \A m \in BOOLEAN : ~UnbindHangs(h, e, sym, m)
<1> DEFINE f == BindingFrame(h, e, sym)
           x == find_binding_cell(h, e, sym)
           y == find_binding_cell(h, Parent[f], sym)
<1> SUFFICES ASSUME NEW m \in BOOLEAN, UnbindHangs(h, e, sym, m) PROVE FALSE
  OBVIOUS
<1>1. /\ f \in Frames /\ Cached(h, x) /\ y # NoCell /\ Cached(h, y)
      /\ cache_of(h, x) = cache_of(h, y)
  BY DEF UnbindHangs, MoveHangs, Loops
<1>2. HeapOK(h, w, {}) /\ ArgsBound(h) /\ CellsOK(h)
  BY DEF Good, HeapOK
<1>3. f \in Env /\ Parent[f] \in Env
  BY <1>1, EnclosingFrame
<1>4. x # NoCell
  <2>1. Stops(h, f, sym)
    BY SearchStops
  <2>2. QED
    BY <1>1, <2>1 DEF Stops, find_binding_cell
<1>5. x \in Cells /\ y \in Cells
  BY <1>1, <1>2, <1>3, <1>4, FindCell
<1>6. h.cell[x] = h.cell[y]
  BY <1>1, <1>2, <1>5, CacheOf
<1>7. x = y
  BY <1>1, <1>2, <1>5, <1>6 DEF CellsOK
<1>8. BindingFrame(h, Parent[f], sym) = f
  BY <1>2, <1>3, <1>4, <1>7, FindInjective
<1>9. f \in Enclosing[Parent[f]]
  BY <1>3, <1>8, BindingFrameType
<1>10. QED
  BY <1>1, <1>9, EnclosingAcyclic

LEMMA UnbindKeeps ==
  ASSUME IInv, Tame(load), Unbind
  PROVE  IInv'
<1>1. PICK u \in load.unbind : Step(unbind_variable(heap, u[1], u[2]))
  BY DEF Unbind
<1>2. load \in Workloads
  BY DEF IInv
<1>3. u[1] \in Env /\ u[2] \in Symbols
  BY <1>1, <1>2, WorkloadType
<1>4. PICK w : Good(heap, w) /\ SitesOf(w, load)
  BY DEF IInv, Right
<1>5. \E c \in Caches : heap.val[c] = NoCell
  BY <1>1, RoomOK DEF Step
<1>6. /\ \A f \in Frames : u[2] \notin Params[f]
      /\ \A s \in load.sites : s.name = u[2] => KindOf(s) # "operator"
  BY <1>1 DEF Tame
<1>7. \E w2 : Good(unbind_variable(heap, u[1], u[2]), w2) /\ SitesOf(w2, load)
  BY <1>3, <1>4, <1>5, <1>6, UnbindOK
<1>8. QED
  BY <1>1, <1>2, <1>7, StepOK DEF Right

LEMMA UnbindNeverLoops ==
  ASSUME IInv, Tame(load)
  PROVE  ~UnbindLoops
<1> SUFFICES ASSUME UnbindLoops PROVE FALSE
  OBVIOUS
<1>1. PICK u \in load.unbind : UnbindHangs(heap, u[1], u[2], TRUE)
  BY DEF UnbindLoops
<1>2. u[1] \in Env /\ u[2] \in Symbols
  BY <1>1, WorkloadType DEF IInv
<1>3. PICK w : Good(heap, w) /\ SitesOf(w, load)
  BY DEF IInv, Right
<1>4. QED
  BY <1>1, <1>2, <1>3, UnbindEnds

LEMMA LinkBlockKeeps ==
  ASSUME IInv, Tame(load), LinkBlock
  PROVE  IInv'
<1>1. PICK s \in load.sites : heap.slot[s].to = "none" /\ Step(add_cache_reference(heap, s))
  BY DEF LinkBlock
<1>2. load \in Workloads
  BY DEF IInv
<1>3. s \in Sites
  BY <1>1, <1>2, WorkloadType
<1>4. PICK w : Good(heap, w) /\ SitesOf(w, load)
  BY DEF IInv, Right
<1>5. \E c \in Caches : heap.val[c] = NoCell
  BY <1>1, RoomOK DEF Step
<1>6. \E w2 : Good(add_cache_reference(heap, s), w2) /\ SitesOf(w2, load)
  BY <1>1, <1>3, <1>4, <1>5, AddReferenceOK
<1>7. QED
  BY <1>1, <1>2, <1>6, StepOK DEF Right

LEMMA CompiledAssignKeeps ==
  ASSUME IInv, Tame(load), CompiledAssign
  PROVE  IInv'
<1>1. PICK s \in load.sites, v \in load.assign :
        /\ s.kind = "assignment" /\ heap.slot[s].to \in {"cache", "clone"}
        /\ IF heap.slot[s].to = "cache" /\ heap.val[heap.slot[s].id] \notin Traps
           THEN Step([heap EXCEPT !.val[heap.slot[s].id] = v])
           ELSE Step(assign_variable_cache(heap, heap.slot[s].id, v, FALSE))
  BY DEF CompiledAssign
<1>2. load \in Workloads
  BY DEF IInv
<1>3. s \in Sites /\ v \in Values \cup Traps
  BY <1>1, <1>2, WorkloadType
<1>4. PICK w : Good(heap, w) /\ SitesOf(w, load)
  BY DEF IInv, Right
<1>5. /\ w[s] \in Caches /\ heap.slot[s].id = w[s]
      /\ heap.slot[s].to = "cache" => Served(w, w[s], "operator") = {}
  BY <1>1, <1>3, <1>4, AssignmentSite
<1>6. HeapOK(heap, w, {}) /\ AllClones(heap)
  BY <1>4 DEF Good
<1>7. CASE heap.slot[s].to = "cache" /\ heap.val[heap.slot[s].id] \notin Traps
  <2> DEFINE g == [heap EXCEPT !.val[heap.slot[s].id] = v]
  <2>1. HeapOK(g, w, {}) /\ AllClones(g) /\ SameBindings(heap, g)
    BY <1>3, <1>5, <1>6, <1>7, StoreOK
  <2>2. Step(g)
    BY <1>1, <1>7
  <2> HIDE DEF g
  <2>3. Good(g, w)
    BY <1>4, <2>1, GoodSame
  <2>4. QED
    BY <1>2, <1>4, <2>2, <2>3, StepOK DEF Right
<1>8. CASE ~(heap.slot[s].to = "cache" /\ heap.val[heap.slot[s].id] \notin Traps)
  <2> DEFINE g == assign_variable_cache(heap, heap.slot[s].id, v, FALSE)
  <2>1. HeapOK(g, w, {}) /\ AllClones(g) /\ SameBindings(heap, g)
    BY <1>3, <1>5, <1>6, AssignCacheOK
  <2>2. Step(g)
    BY <1>1, <1>8
  <2> HIDE DEF g
  <2>3. Good(g, w)
    BY <1>4, <2>1, GoodSame
  <2>4. QED
    BY <1>2, <1>4, <2>2, <2>3, StepOK DEF Right
<1>9. QED
  BY <1>7, <1>8

LEMMA BlockDiesKeeps ==
  ASSUME IInv, Tame(load), BlockDies
  PROVE  IInv'
<1>1. PICK b : Step(WithoutBlock(heap, b))
  BY DEF BlockDies
<1>2. PICK w : Good(heap, w) /\ SitesOf(w, load)
  BY DEF IInv, Right
<1>3. \E w2 : Good(WithoutBlock(heap, b), w2) /\ SitesOf(w2, load)
  BY <1>2, WithoutBlockOK
<1>4. QED
  BY <1>1, <1>3, StepOK DEF Right, IInv

LEMMA NextOK == IInv /\ [Next]_vars => IInv'
<1> SUFFICES ASSUME IInv, [Next]_vars PROVE IInv'
  OBVIOUS
<1>1. CASE UNCHANGED vars
  BY <1>1 DEF vars, IInv
<1>2. CASE Next /\ ~Tame(load)
  <2>1. load' = load
    BY <1>2 DEF Next, Assign, Define, Link, LinkLoops, LinkInterrupted, Unbind, UnbindLoops,
                LinkBlock, CompiledAssign, BlockDies, Step, Hang, IInv
  <2>2. QED
    BY <1>2, <2>1 DEF IInv
<1>3. CASE Next /\ Tame(load)
  <2>1. ~Link /\ ~LinkLoops /\ ~LinkInterrupted
    BY <1>3 DEF Tame, Link, LinkLoops, LinkInterrupted
  <2>2. ~UnbindLoops
    BY <1>3, UnbindNeverLoops
  <2>3. QED
    BY <1>3, <2>1, <2>2, AssignKeeps, DefineKeeps, UnbindKeeps, LinkBlockKeeps, CompiledAssignKeeps,
       BlockDiesKeeps DEF Next
<1>4. QED
  BY <1>1, <1>2, <1>3

\* The invariant that the results below rest on.
THEOREM CachesRight == Spec => []IInv
<1>1. QED
  BY InitOK, NextOK, PTL DEF Spec

-----------------------------------------------------------------------------
(* What the invariant means for compiled code. *)

\* A linked site is with the cache of the cell that a search from its block finds.
LEMMA LinkedSite ==
  ASSUME NEW w, Good(heap, w), NEW s \in LinkedSites
  PROVE  /\ s \in Sites /\ w[s] \in Caches /\ SiteCell(s) \in Cells /\ SiteCell(s) # NoCell
         /\ Cached(heap, SiteCell(s)) /\ cache_of(heap, SiteCell(s)) = w[s]
         /\ heap.slot[s] = install_cache(heap, w[s], KindOf(s))
         /\ s \in Listed(heap.refs[w[s]][KindOf(s)], s.name)
<1>1. s \in Sites /\ HeapOK(heap, w, {})
  BY DEF Good, LinkedSites
<1>2. w[s] # NoCell
  BY <1>1, NotLinked DEF LinkedSites
<1>3. /\ SiteCell(s) \in Cells /\ SiteCell(s) # NoCell
      /\ w[s] = heap.cell[SiteCell(s)] /\ w[s] \in Caches
  BY <1>1, <1>2, TiedCell DEF Good, HeapOK, SiteCell, Home
<1>4. Cached(heap, SiteCell(s)) /\ cache_of(heap, SiteCell(s)) = w[s]
  BY <1>1, <1>3 DEF HeapOK, CellsOK, Cached, cache_of
<1>5. QED
  BY <1>1, <1>2, <1>3, <1>4 DEF HeapOK, Recorded, Installed

LEMMA SearchedValue ==
  ASSUME NEW w, Good(heap, w), NEW s \in LinkedSites
  PROVE  lookup_variable(heap, SiteEnv(s), s.name) = lookup_variable_cache(heap, w[s])
  BY LinkedSite DEF lookup_variable, SiteCell

LEMMA ReferencesOK ==
  ASSUME NEW w, Good(heap, w)
  PROVE  ReferencesAgree
<1>1. ASSUME NEW s \in LinkedSites, s.kind = "lookup"
      PROVE  compiled_value(heap, s) = lookup_variable(heap, SiteEnv(s), s.name)
  <2>1. heap.slot[s] = [to |-> "cache", id |-> w[s]]
    BY <1>1, LinkedSite DEF install_cache, KindOf
  <2>2. QED
    BY <1>1, <2>1, SearchedValue DEF compiled_value
<1>2. ASSUME NEW s \in LinkedSites, s.kind \in {"operator", "global_operator"}
      PROVE  compiled_value(heap, s) = lookup_variable(heap, SiteEnv(s), s.name)
  <2>1. heap.slot[s] = make_uuo_link(heap, w[s])
    BY <1>2, LinkedSite DEF install_cache, KindOf
  <2>2. CASE heap.val[w[s]] \in Traps
    BY <1>2, <2>1, <2>2, SearchedValue DEF compiled_value, make_uuo_link
  <2>3. CASE heap.val[w[s]] \notin Traps
    <3>1. compiled_value(heap, s) = <<"PRIM_DONE", heap.val[w[s]]>>
      BY <2>1, <2>3 DEF compiled_value, make_uuo_link
    <3>2. lookup_variable_cache(heap, w[s]) = <<"PRIM_DONE", heap.val[w[s]]>>
      BY <2>3 DEF lookup_variable_cache, lookup_value, Traps
    <3>3. QED
      BY <1>2, <3>1, <3>2, SearchedValue
  <2>4. QED
    BY <2>2, <2>3
<1>3. LookupsAgree
  BY <1>1 DEF LookupsAgree
<1>4. OperatorsAgree
  BY <1>2 DEF OperatorsAgree, Operators, Follows
<1>5. QED
  BY <1>3, <1>4 DEF ReferencesAgree

LEMMA AssignmentsOK ==
  ASSUME NEW w, Good(heap, w)
  PROVE  AssignmentsReachBinding
<1>1. ASSUME NEW s \in LinkedSites, s.kind = "assignment"
      PROVE  heap.slot[s].id = w[s]
  <2>1. \A c : install_cache(heap, c, "assignment").id = c
    BY DEF install_cache
  <2>2. KindOf(s) = "assignment"
    BY <1>1 DEF KindOf
  <2>3. QED
    BY <2>1, <2>2, LinkedSite
<1>2. QED
  BY <1>1, LinkedSite DEF AssignmentsReachBinding

LEMMA SiteLists ==
  ASSUME NEW w, Good(heap, w), NEW c \in Caches, NEW k \in Kinds, NEW s \in SitesIn(heap.refs[c][k])
  PROVE  s \in Sites /\ c = w[s] /\ k = KindOf(s)
<1>1. heap.refs[c][k] \in AList
  BY HeapFields DEF Good, HeapOK
<1>2. PICK n \in Symbols : s \in Listed(heap.refs[c][k], n)
  BY <1>1, SitesInMeaning
<1>3. QED
  BY <1>1, <1>2, ListedType DEF Good, HeapOK, OnlyRecorded

LEMMA RecordedOK ==
  ASSUME NEW w, Good(heap, w)
  PROVE  SitesAreRecorded
<1>1. ASSUME NEW s \in LinkedSites
      PROVE  /\ \A c \in Caches : s \in SitesIn(heap.refs[c][KindOf(s)]) <=> c = w[s]
             /\ s \in find_references_named(heap.refs[w[s]][KindOf(s)], s.name)
  <2>1. /\ s \in Sites /\ w[s] \in Caches /\ s \in Listed(heap.refs[w[s]][KindOf(s)], s.name)
        /\ KindOf(s) \in Kinds /\ s.name \in Symbols
    BY <1>1, LinkedSite, SiteType
  <2>2. heap.refs[w[s]][KindOf(s)] \in AList
    BY <2>1, HeapFields DEF Good, HeapOK
  <2>3. s \in SitesIn(heap.refs[w[s]][KindOf(s)])
    BY <2>1, <2>2, SitesInMeaning
  <2>4. \A c \in Caches : s \in SitesIn(heap.refs[c][KindOf(s)]) => c = w[s]
    BY <2>1, SiteLists
  <2>5. QED
    BY <2>1, <2>2, <2>3, <2>4, FindNamed
<1>2. QED
  BY <1>1, LinkedSite DEF SitesAreRecorded, KindOf

LEMMA ClonesOK ==
  ASSUME NEW w, Good(heap, w)
  PROVE  CloneGuardsLinks
<1>1. ASSUME NEW s \in LinkedSites, s.kind = "assignment", heap.slot[s].to = "cache",
             NEW r \in SitesIn(heap.refs[heap.slot[s].id]["operator"])
      PROVE  FALSE
  <2>1. s \in Sites /\ "operator" \in Kinds
    BY <1>1 DEF LinkedSites, Kinds
  <2>2. w[s] \in Caches /\ heap.slot[s].id = w[s] /\ Served(w, w[s], "operator") = {}
    BY <1>1, <2>1, AssignmentSite
  <2>3. r \in Served(w, w[s], "operator")
    BY <1>1, <2>1, <2>2, SiteLists DEF Served
  <2>4. QED
    BY <2>2, <2>3
<1>2. QED
  BY <1>1 DEF CloneGuardsLinks

LEMMA TypesOK ==
  ASSUME NEW w, Good(heap, w), hung = {}
  PROVE  TypeOK
  BY HeapFields DEF Good, HeapOK, TypeOK, Slot

\* What compiled code reads and calls is the value that a search for the variable
\* would find, in every program that is Tame: no cache, clone or UUO link that
\* lookup.c installed is stale after a definition, an assignment or an unbinding.
THEOREM ReferencesNeverStale == Spec => [](Tame(load) => ReferencesAgree)
<1>1. IInv => (Tame(load) => ReferencesAgree)
  BY ReferencesOK DEF IInv, Right
<1>2. QED
  BY <1>1, CachesRight, PTL

\* An assignment in compiled code changes the binding that a search would find and no
\* other, in every Tame program (compiler_assignment_trap, update_clone).
THEOREM AssignmentsReach == Spec => [](Tame(load) => AssignmentsReachBinding)
<1>1. IInv => (Tame(load) => AssignmentsReachBinding)
  BY AssignmentsOK DEF IInv, Right
<1>2. QED
  BY <1>1, CachesRight, PTL

\* The reference lists by which lookup.c keeps the sites in step are right in every
\* Tame program: a site is listed with its variable's cache, under its name and
\* nowhere else, and no direct assignment shares a cache with a UUO link.
THEOREM RecordsHold == Spec => [](Tame(load) => RecordsInv)
<1>1. IInv => (Tame(load) => RecordsInv)
  BY RecordedOK, ClonesOK, TypesOK DEF IInv, Right, RecordsInv
<1>2. QED
  BY <1>1, CachesRight, PTL

-----------------------------------------------------------------------------
(* Any program, also one that links variables: which cells share a cache. *)

\* Only what these results need is said of the heap.
Shape(h) ==
  /\ {"cell", "ext", "trap", "val", "clone", "refs", "slot", "strong"} \subseteq DOMAIN h
  /\ h.cell \in [Cells -> Values \cup Traps \cup Caches] /\ h.trap \in [Caches -> Caches]
  /\ h.val \in [Caches -> Values \cup Traps \cup {NoCell}] /\ h.ext \in [Frames -> SUBSET Symbols]
  /\ h.strong \in SUBSET Symbols

\* The cache of a cell is not free, nor is the number of its trap.
Alive(h) ==
  \A x \in Cells : Cached(h, x) => h.val[h.cell[x]] # NoCell /\ h.val[h.trap[h.cell[x]]] # NoCell

\* Cells with one cache are variables that links have made one.
VarOf(x) == <<x[1], x[2]>>
SharedOK(h, links) ==
  \A x, y \in Cells \ {Dummy} :
     Cached(h, x) /\ Cached(h, y) /\ cache_of(h, x) = cache_of(h, y) => Joined(links, VarOf(x), VarOf(y))

Sound(h, links) == Shape(h) /\ Alive(h) /\ SharedOK(h, links)

\* Of the symbols in N, one whose value cell is in use is held strongly.
Held(h, N) == \A sym \in Symbols : sym \in N /\ h.cell[<<Global, sym>>] # Unbound => sym \in h.strong

\* The variable is unbound, directly or in its cache.
Gone(h, x) == IF Cached(h, x) THEN h.val[cache_of(h, x)] = Unbound ELSE h.cell[x] = Unbound

\* Of the symbols in I, one that is bound is held strongly.
Firm(h, I) == \A n \in Symbols : n \in I /\ ~Gone(h, <<Global, n>>) => n \in h.strong

\* Of the symbols in I, one that becomes bound is made strong, and none is made weak.
Steady(h, g, I) ==
  /\ h.strong \subseteq g.strong
  /\ \A n \in Symbols : n \in I /\ Gone(h, <<Global, n>>) => Gone(g, <<Global, n>>) \/ n \in g.strong

\* No variable becomes bound.
BoundNone(h, g) == \A y \in Cells : Gone(h, y) => Gone(g, y)

\* The symbols of the global variables that links make one with no other.
Lone(links) ==
  {n \in Symbols : \A v \in (Env \X Symbols) \ {<<Global, n>>} : ~Joined(links, <<Global, n>>, v)}

\* The heaps have the same cells and traps, and no cache was freed.
Calm(h, g) ==
  /\ Shape(g) /\ g.cell = h.cell /\ g.trap = h.trap /\ g.ext = h.ext /\ g.strong = h.strong
  /\ \A c \in Caches : h.val[c] # NoCell => g.val[c] # NoCell
\* And the same values.
Still(h, g) == Calm(h, g) /\ g.val = h.val

LEMMA JoinedRefl ==
  ASSUME NEW links, NEW u
  PROVE  Joined(links, u, u)
  BY DEF Joined

LEMMA JoinedTrans ==
  ASSUME NEW links, NEW u, NEW v, NEW x, Joined(links, u, v), Joined(links, v, x)
  PROVE  Joined(links, u, x)
  BY DEF Joined

LEMMA JoinedSym ==
  ASSUME NEW links, NEW u \in Env \X Symbols, NEW v \in Env \X Symbols, Joined(links, u, v),
         links \subseteq (Frames \cup {Global}) \X Symbols \X (Frames \cup {Global}) \X Symbols
  PROVE  Joined(links, v, u)
<1> SUFFICES ASSUME NEW S \in SUBSET (Env \X Symbols), v \in S, u \notin S,
                    \A l \in links, e \in Env : e \in Enclosing[l[3]] =>
                      (<<l[1], l[2]>> \in S <=> <<e, l[4]>> \in S)
             PROVE  FALSE
  BY DEF Joined
<1> DEFINE N == (Env \X Symbols) \ S
<1>1. \A l \in links, e \in Env : <<l[1], l[2]>> \in Env \X Symbols /\ <<e, l[4]>> \in Env \X Symbols
  BY DEF Env
<1>2. N \in SUBSET (Env \X Symbols) /\ u \in N /\ v \notin N
  OBVIOUS
<1>3. \A l \in links, e \in Env : e \in Enclosing[l[3]] => (<<l[1], l[2]>> \in N <=> <<e, l[4]>> \in N)
  BY <1>1
<1> HIDE DEF N
<1>4. QED
  BY <1>2, <1>3 DEF Joined

LEMMA JoinedLink ==
  ASSUME NEW links, NEW l \in links, NEW e \in Env, e \in Enclosing[l[3]]
  PROVE  Joined(links, <<l[1], l[2]>>, <<e, l[4]>>) /\ Joined(links, <<e, l[4]>>, <<l[1], l[2]>>)
  BY DEF Joined

LEMMA ScanGlobal ==
  ASSUME NEW h, NEW sym, NEW u \in BOOLEAN, NEW e \in Env
  PROVE  e = Global => scan_frame(h, e, sym, u) = <<Global, sym>>
  BY Distinct DEF scan_frame

\* What scan_frame finds is a cell of the frame and the symbol.
CellOf(x, e, sym) ==
  /\ x \in Cells \ {Dummy} /\ VarOf(x) = <<e, sym>> /\ e \in Frames \cup {Global}
  /\ e = Global => x = <<Global, sym>>
  /\ e # Global => \A n : x # <<Global, n>>

LEMMA ScanAny ==
  ASSUME NEW h, NEW e \in Env, NEW sym \in Symbols, NEW u \in BOOLEAN, scan_frame(h, e, sym, u) # NoCell
  PROVE  CellOf(scan_frame(h, e, sym, u), e, sym)
<1>1. CASE e = Global
  <2>1. scan_frame(h, e, sym, u) = <<Global, sym>>
    BY <1>1 DEF scan_frame
  <2>2. QED
    BY <1>1, <2>1, GlobalCell, DummyCell DEF VarOf, CellOf
<1>2. CASE e # Global
  <2>1. e \in Frames /\ scan_frame(h, e, sym, u) \in {<<e, sym, "ext">>, <<e, sym, "arg">>}
    BY <1>2, Distinct DEF scan_frame, Env
  <2>2. <<e, sym, "ext">> \in Cells \ {Dummy} /\ <<e, sym, "arg">> \in Cells \ {Dummy}
    BY <2>1, ExtCell, DummyCell
  <2>3. VarOf(<<e, sym, "ext">>) = <<e, sym>> /\ VarOf(<<e, sym, "arg">>) = <<e, sym>>
    BY DEF VarOf
  <2>4. \A n : <<e, sym, "ext">> # <<Global, n>> /\ <<e, sym, "arg">> # <<Global, n>>
    OBVIOUS
  <2>5. QED
    BY <1>2, <2>1, <2>2, <2>3, <2>4 DEF CellOf
<1>3. QED
  BY <1>1, <1>2

LEMMA FindAny ==
  ASSUME NEW h, NEW e \in Env, NEW sym \in Symbols, find_binding_cell(h, e, sym) # NoCell
  PROVE  LET f == BindingFrame(h, e, sym)
         IN  CellOf(find_binding_cell(h, e, sym), f, sym) /\ f \in Enclosing[e] /\ f \in Env
  BY BindingFrameType, ScanAny DEF find_binding_cell

LEMMA CellVar ==
  ASSUME NEW x \in Cells \ {Dummy}
  PROVE  VarOf(x) \in Env \X Symbols
<1>1. CASE \E s \in Symbols : x = <<Global, s>>
  BY <1>1 DEF VarOf, Env
<1>2. CASE x \in Frames \X Symbols \X {"arg", "ext"}
  BY <1>2 DEF VarOf, Env
<1>3. QED
  BY <1>1, <1>2 DEF Cells

\* One step on a field that no cell depends on.
LEMMA StillFields ==
  ASSUME NEW h, Shape(h), NEW v
  PROVE  /\ Still(h, [h EXCEPT !.refs = v]) /\ Still(h, [h EXCEPT !.slot = v])
         /\ Still(h, [h EXCEPT !.clone = v])
  BY DEF Shape, Still, Calm

LEMMA CalmVal ==
  ASSUME NEW h, Shape(h), NEW c, NEW v \in Values \cup Traps
  PROVE  Calm(h, [h EXCEPT !.val[c] = v])
  BY Distinct DEF Shape, Calm

LEMMA StillTrans ==
  ASSUME NEW h, NEW g, NEW k, Still(h, g), Still(g, k)
  PROVE  Still(h, k)
  BY DEF Still, Calm

LEMMA CalmStill ==
  ASSUME NEW h, NEW g, NEW k, Calm(h, g), Still(g, k)
  PROVE  Calm(h, k)
  BY DEF Still, Calm

LEMMA StillRefl ==
  ASSUME NEW h, Shape(h)
  PROVE  Still(h, h)
  BY DEF Still, Calm

LEMMA CalmSound ==
  ASSUME NEW h, NEW g, NEW links, NEW N, Sound(h, links), Calm(h, g)
  PROVE  Sound(g, links) /\ (Held(h, N) => Held(g, N))
  BY DEF Sound, Calm, Alive, SharedOK, Held, Cached, cache_of, Shape

LEMMA StillGone ==
  ASSUME NEW h, NEW g, Still(h, g)
  PROVE  BoundNone(h, g)
  BY DEF Still, Calm, BoundNone, Gone, Cached, cache_of

LEMMA BoundNoneSteady ==
  ASSUME NEW h, NEW g, NEW I, BoundNone(h, g), h.strong \subseteq g.strong
  PROVE  Steady(h, g, I)
<1>1. \A n \in Symbols : <<Global, n>> \in Cells
  BY GlobalCell
<1>2. QED
  BY <1>1 DEF BoundNone, Steady

LEMMA SteadyTrans ==
  ASSUME NEW h, NEW g, NEW k, NEW I, Steady(h, g, I), Steady(g, k, I)
  PROVE  Steady(h, k, I)
  BY DEF Steady

LEMMA SteadyFirm ==
  ASSUME NEW h, NEW g, NEW I, Firm(h, I), Steady(h, g, I)
  PROVE  Firm(g, I)
  BY DEF Steady, Firm

LEMMA InstallStill ==
  ASSUME NEW h, Shape(h), NEW c, NEW kind, NEW S
  PROVE  Still(h, InstallAll(h, c, kind, S))
  BY StillFields DEF InstallAll

LEMMA ReinstallStill ==
  ASSUME NEW h, Shape(h), NEW c, NEW kind
  PROVE  Still(h, reinstall(h, c, kind))
<1> DEFINE g == InstallAll(h, c, kind, SitesIn(h.refs[c][kind]))
<1>1. Still(h, g)
  BY InstallStill
<1> DEFINE R == [g.refs EXCEPT ![c][kind] = walked(@)]
<1>2. reinstall(h, c, kind) = [g EXCEPT !.refs = R]
  BY DEF reinstall
<1> HIDE DEF g, R
<1>3. Shape(g)
  BY <1>1 DEF Still, Calm
<1>4. Still(g, reinstall(h, c, kind))
  BY <1>2, <1>3, StillFields
<1>5. QED
  BY <1>1, <1>4, StillTrans

LEMMA CloneStill ==
  ASSUME NEW h, Shape(h), NEW c
  PROVE  Still(h, update_clone(h, c))
<1> DEFINE g == [h EXCEPT !.clone[c] = NeedsClone(h, c)]
<1>1. Still(h, g)
  BY StillFields
<1>2. Shape(g)
  BY <1>1 DEF Still, Calm
<1> HIDE DEF g
<1>3. Still(g, reinstall(g, c, "assignment"))
  BY <1>2, ReinstallStill
<1>4. Still(h, reinstall(g, c, "assignment"))
  BY <1>1, <1>3, StillTrans
<1>5. Still(h, h)
  BY StillRefl
<1>6. QED
  BY <1>4, <1>5 DEF update_clone, g

LEMMA UuoCalm ==
  ASSUME NEW h, Shape(h), NEW c, NEW v \in Values \cup Traps
  PROVE  LET g == update_uuo_links(h, c, v) IN Calm(h, g) /\ g.val = [h.val EXCEPT ![c] = v]
<1> DEFINE g0 == [h EXCEPT !.val[c] = v]
           R == [h.refs EXCEPT ![c]["operator"] = walked(@)]
           g1 == [g0 EXCEPT !.refs = R]
           g2 == update_clone(g1, c)
           g3 == reinstall(g2, c, "operator")
<1>1. Calm(h, g0) /\ g0.val = [h.val EXCEPT ![c] = v]
  BY CalmVal DEF Shape
<1>2. update_uuo_links(h, c, v) = g3
  BY DEF update_uuo_links
<1> HIDE DEF g0, R
<1>3. Still(g0, g1) /\ Shape(g1)
  <2>1. Shape(g0)
    BY <1>1 DEF Calm
  <2>2. Still(g0, g1)
    BY <2>1, StillFields
  <2>3. QED
    BY <2>2 DEF Still, Calm
<1> HIDE DEF g1
<1>4. Still(g1, g2) /\ Shape(g2)
  BY <1>3, CloneStill DEF Still, Calm
<1> HIDE DEF g2
<1>5. Still(g2, g3)
  BY <1>4, ReinstallStill
<1> HIDE DEF g3
<1>6. Still(g0, g3)
  BY <1>3, <1>4, <1>5, StillTrans
<1>7. Calm(h, g3) /\ g3.val = [h.val EXCEPT ![c] = v]
  BY <1>1, <1>6, CalmStill DEF Still
<1>8. QED
  BY <1>2, <1>7

\* At most the value of the cache is written, if it may be.
WroteCache(h, g, c, v, force) ==
  Calm(h, g) /\ (g.val = h.val \/ (Writable(h.val[c], force) /\ g.val = [h.val EXCEPT ![c] = v]))

LEMMA AssignCacheCalm ==
  ASSUME NEW h, Shape(h), NEW c, NEW v \in Values \cup Traps, NEW force
  PROVE  WroteCache(h, assign_variable_cache(h, c, v, force), c, v, force)
<1> DEFINE g == assign_variable_cache(h, c, v, force)
<1> DEFINE a == update_uuo_links(h, c, v)
           b == [h EXCEPT !.val[c] = v]
<1>1. Calm(h, h) /\ Calm(h, a) /\ Calm(h, b)
  BY StillRefl, UuoCalm, CalmVal DEF Still
<1>2. a.val = [h.val EXCEPT ![c] = v] /\ b.val = [h.val EXCEPT ![c] = v]
  BY UuoCalm DEF Shape
<1>3. g = h \/ (Writable(h.val[c], force) /\ g \in {a, b})
  BY DEF assign_variable_cache
<1> HIDE DEF a, b, g
<1>4. WroteCache(h, g, c, v, force)
  BY <1>1, <1>2, <1>3 DEF WroteCache
<1>5. QED
  BY <1>4 DEF g

LEMMA MoveStill ==
  ASSUME NEW h, Shape(h), NEW from, NEW to, NEW kind, NEW env, NEW sym
  PROVE  Still(h, move_ref_pairs(h, from, to, kind, env, sym))
<1> DEFINE moved == ref_pairs_to_move(h.refs[from][kind], env, sym)
           g == [h EXCEPT !.refs[from][kind] = delete_references(@, sym, moved),
                          !.refs[to][kind] = add_references(@, sym, moved)]
<1>1. /\ moved = {} => move_ref_pairs(h, from, to, kind, env, sym) = h
      /\ moved # {} => move_ref_pairs(h, from, to, kind, env, sym) = InstallAll(g, to, kind, moved)
  BY DEF move_ref_pairs
<1>2. Still(h, h) /\ Still(h, g)
  BY StillRefl DEF Still, Calm, Shape
<1> HIDE DEF g
<1>3. Still(g, InstallAll(g, to, kind, moved))
  BY <1>2, InstallStill DEF Still, Calm
<1>4. Still(h, InstallAll(g, to, kind, moved))
  BY <1>2, <1>3, StillTrans
<1>5. QED
  BY <1>1, <1>2, <1>4

LEMMA DeleteStill ==
  ASSUME NEW h, Shape(h), NEW from, NEW kind, NEW env, NEW sym
  PROVE  Still(h, delete_ref_pairs(h, from, kind, env, sym))
  BY StillFields DEF delete_ref_pairs

LEMMA SpliceStill ==
  ASSUME NEW h, Shape(h), NEW from, NEW to, NEW kind
  PROVE  Still(h, Spliced(h, from, to, kind))
<1> DEFINE a == h.refs[to][kind] \o walked(h.refs[from][kind])
           e == <<>>
<1>1. Spliced(h, from, to, kind) = [h EXCEPT !.refs[to][kind] = a, !.refs[from][kind] = e]
  BY DEF Spliced
<1> HIDE DEF a, e
<1>2. QED
  BY <1>1 DEF Still, Calm, Shape

LEMMA MoveAllStill ==
  ASSUME NEW h, Shape(h), NEW from, NEW to, NEW kind
  PROVE  Still(h, move_all_references(h, from, to, kind))
<1> DEFINE g == InstallAll(h, to, kind, SitesIn(h.refs[from][kind]))
<1>1. Still(h, g)
  BY InstallStill
<1>2. move_all_references(h, from, to, kind) = Spliced(g, from, to, kind)
  BY DEF move_all_references
<1> HIDE DEF g
<1>3. Still(g, Spliced(g, from, to, kind))
  BY <1>1, SpliceStill DEF Still, Calm
<1>4. QED
  BY <1>1, <1>2, <1>3, StillTrans

Free(h) == \E d \in Caches : h.val[d] = NoCell

\* What may be stored in a cell of variable u: a value, or the trap of a cell joined to u.
Fits(h, v, u, links) ==
  \/ v \in Values \cup Traps
  \/ \E z \in Cells \ {Dummy} : Cached(h, z) /\ v = h.cell[z] /\ Joined(links, VarOf(z), u)

Links == SUBSET ((Frames \cup {Global}) \X Symbols \X (Frames \cup {Global}) \X Symbols)

\* One cell is changed.
LEMMA SetSound ==
  ASSUME NEW h, NEW g, NEW links \in Links, Sound(h, links), Shape(g), g.trap = h.trap,
         NEW x \in Cells \ {Dummy}, \A y \in Cells : y # x => g.cell[y] = h.cell[y],
         \A c \in Caches : h.val[c] # NoCell => g.val[c] # NoCell,
         Fits(h, g.cell[x], VarOf(x), links)
  PROVE  Sound(g, links)
<1>1. ASSUME NEW y \in Cells, y # x
      PROVE  g.cell[y] = h.cell[y] /\ (Cached(g, y) <=> Cached(h, y)) /\ cache_of(g, y) = cache_of(h, y)
  BY <1>1 DEF Cached, cache_of
<1>2. CASE g.cell[x] \in Values \cup Traps
  <2>1. ~Cached(g, x)
    BY <1>2, Distinct DEF Cached
  <2>2. Alive(g)
    BY <1>1, <2>1 DEF Sound, Alive, Shape, Cached
  <2>3. SharedOK(g, links)
    BY <1>1, <2>1 DEF Sound, SharedOK
  <2>4. QED
    BY <2>2, <2>3 DEF Sound
<1>3. CASE \E z \in Cells \ {Dummy} : Cached(h, z) /\ g.cell[x] = h.cell[z] /\ Joined(links, VarOf(z), VarOf(x))
  <2>1. PICK z \in Cells \ {Dummy} :
               Cached(h, z) /\ g.cell[x] = h.cell[z] /\ Joined(links, VarOf(z), VarOf(x))
    BY <1>3
  <2>2. Cached(g, x) /\ cache_of(g, x) = cache_of(h, z) /\ h.cell[z] \in Caches
    BY <2>1 DEF Cached, cache_of
  <2>3. Alive(g)
    <3>1. ASSUME NEW y \in Cells, Cached(g, y)
          PROVE  g.val[g.cell[y]] # NoCell /\ g.val[g.trap[g.cell[y]]] # NoCell
      <4>1. PICK t \in Cells : Cached(h, t) /\ g.cell[y] = h.cell[t]
        BY <1>1, <2>1, <3>1
      <4>2. h.cell[t] \in Caches /\ h.trap[h.cell[t]] \in Caches
        BY <4>1 DEF Cached, Sound, Shape
      <4>3. h.val[h.cell[t]] # NoCell /\ h.val[h.trap[h.cell[t]]] # NoCell
        BY <4>1 DEF Sound, Alive
      <4>4. QED
        BY <4>1, <4>2, <4>3
    <3>2. QED
      BY <3>1 DEF Alive
  <2>4. Joined(links, VarOf(x), VarOf(z))
    BY <2>1, CellVar, JoinedSym DEF Links
  <2>5. ASSUME NEW y \in Cells \ {Dummy}, NEW t \in Cells \ {Dummy}, Cached(g, y), Cached(g, t),
               cache_of(g, y) = cache_of(g, t)
        PROVE  Joined(links, VarOf(y), VarOf(t))
    <3>1. CASE y # x /\ t # x
      BY <1>1, <2>5, <3>1 DEF Sound, SharedOK
    <3>2. CASE y = x /\ t # x
      <4>1. Joined(links, VarOf(z), VarOf(t))
        BY <1>1, <2>1, <2>2, <2>5, <3>2 DEF Sound, SharedOK
      <4>2. QED
        BY <2>4, <3>2, <4>1, JoinedTrans
    <3>3. CASE y # x /\ t = x
      <4>1. Joined(links, VarOf(y), VarOf(z))
        BY <1>1, <2>1, <2>2, <2>5, <3>3 DEF Sound, SharedOK
      <4>2. QED
        BY <2>1, <3>3, <4>1, JoinedTrans
    <3>4. CASE y = x /\ t = x
      BY <3>4, JoinedRefl
    <3>5. QED
      BY <3>1, <3>2, <3>3, <3>4
  <2>6. QED
    BY <2>3, <2>5 DEF Sound, SharedOK
<1>4. QED
  BY <1>2, <1>3 DEF Fits

LEMMA HeldSet ==
  ASSUME NEW h, NEW g, NEW x, NEW N, Held(h, N), h.strong \subseteq g.strong,
         \A y \in Cells : y # x => g.cell[y] = h.cell[y],
         \A n \in Symbols : n \in N /\ x = <<Global, n>> => n \in g.strong
  PROVE  Held(g, N)
<1>1. ASSUME NEW n \in Symbols, n \in N, g.cell[<<Global, n>>] # Unbound PROVE n \in g.strong
  <2>1. <<Global, n>> \in Cells
    BY GlobalCell
  <2> DEFINE y == <<Global, n>>
  <2>2. y = x => n \in g.strong
    BY <1>1
  <2>3. y # x => g.cell[y] = h.cell[y]
    BY <2>1
  <2>4. h.cell[y] # Unbound => n \in h.strong
    BY <1>1 DEF Held
  <2> HIDE DEF y
  <2>5. g.cell[y] # Unbound
    BY <1>1 DEF y
  <2>6. QED
    BY <2>2, <2>3, <2>4, <2>5
<1>2. QED
  BY <1>1 DEF Held

\* A variable whose cell, trap and cache are the same is bound or not as before.
LEMMA GoneSame ==
  ASSUME NEW h, NEW g, NEW z, g.cell[z] = h.cell[z], Gone(h, z),
         Cached(h, z) => cache_of(g, z) = cache_of(h, z) /\ g.val[cache_of(h, z)] = h.val[cache_of(h, z)]
  PROVE  Gone(g, z)
  BY DEF Gone, Cached

\* The value of one cache is written: by an assignment, that of a variable that is bound.
LEMMA GoneCache ==
  ASSUME NEW h, NEW g, Shape(h), Calm(h, g), NEW c, NEW v, NEW force \in BOOLEAN, NEW z \in Cells, Gone(h, z),
         g.val = h.val \/ (Writable(h.val[c], force) /\ g.val = [h.val EXCEPT ![c] = v]),
         force => ~(Cached(h, z) /\ cache_of(h, z) = c)
  PROVE  Gone(g, z)
<1>1. g.cell = h.cell /\ g.trap = h.trap
  BY DEF Calm
<1>2. CASE g.val = h.val \/ ~Cached(h, z)
  BY <1>1, <1>2 DEF Gone, Cached, cache_of
<1>3. CASE Cached(h, z) /\ Writable(h.val[c], force) /\ g.val = [h.val EXCEPT ![c] = v]
  <2>1. h.val[cache_of(h, z)] = Unbound
    BY <1>3 DEF Gone
  <2>2. cache_of(h, z) # c
    BY <1>3, <2>1 DEF Writable
  <2>3. cache_of(h, z) \in Caches /\ h.val \in [Caches -> Values \cup Traps \cup {NoCell}]
    BY <1>3 DEF Cached, cache_of, Shape
  <2>4. g.val[cache_of(h, z)] = h.val[cache_of(h, z)]
    BY <1>3, <2>2, <2>3
  <2>5. QED
    BY <1>1, <2>4, GoneSame DEF cache_of
<1>4. QED
  BY <1>2, <1>3

\* A cell is given a cache that was free.
LEMMA GuaranteeSound ==
  ASSUME NEW h, NEW links, Sound(h, links), NEW x \in Cells, Cached(h, x) \/ Free(h)
  PROVE  LET g == guarantee_cache(h, x)
         IN  /\ Sound(g, links) /\ Cached(g, x) /\ g.ext = h.ext /\ g.strong = h.strong
             /\ BoundNone(h, g)
             /\ \A y \in Cells : y # x => g.cell[y] = h.cell[y]
             /\ Cached(h, x) => g = h
<1> DEFINE g == guarantee_cache(h, x)
           c == Fresh(h)
<1>1. CASE Cached(h, x)
  <2>1. g = h
    BY <1>1 DEF guarantee_cache
  <2>2. BoundNone(h, h)
    BY DEF BoundNone
  <2>3. QED
    BY <1>1, <2>1, <2>2
<1>2. CASE ~Cached(h, x)
  <2>1. c \in Caches /\ h.val[c] = NoCell
    BY <1>2 DEF Fresh, Free
  <2>2. g = [h EXCEPT !.cell[x] = c, !.trap[c] = c, !.val[c] = h.cell[x],
                      !.clone[c] = FALSE, !.refs[c] = [k \in Kinds |-> <<>>]]
    BY <1>2 DEF guarantee_cache
  <2>3. h.cell[x] \in Values \cup Traps
    BY <1>2 DEF Cached, Sound, Shape
  <2> HIDE DEF c
  <2>4. /\ g.cell = [h.cell EXCEPT ![x] = c] /\ g.trap = [h.trap EXCEPT ![c] = c]
        /\ g.val = [h.val EXCEPT ![c] = h.cell[x]] /\ g.ext = h.ext /\ g.strong = h.strong
        /\ DOMAIN g = DOMAIN h
    BY <2>2 DEF Sound, Shape
  <2> HIDE DEF g
  <2>5. Shape(g)
    BY <2>1, <2>3, <2>4 DEF Sound, Shape
  <2>6. /\ g.cell[x] = c /\ g.trap[c] = c /\ g.val[c] # NoCell
        /\ \A y \in Cells : y # x => g.cell[y] = h.cell[y]
        /\ \A d \in Caches : d # c => g.trap[d] = h.trap[d] /\ g.val[d] = h.val[d]
    BY <2>1, <2>3, <2>4, Distinct DEF Sound, Shape
  <2>7. ASSUME NEW y \in Cells, y # x, Cached(g, y)
        PROVE  /\ Cached(h, y) /\ g.cell[y] = h.cell[y] /\ h.cell[y] \in Caches /\ h.cell[y] # c
               /\ h.trap[h.cell[y]] # c /\ h.trap[h.cell[y]] \in Caches
               /\ cache_of(g, y) = cache_of(h, y) /\ cache_of(h, y) = h.trap[h.cell[y]]
    <3>1. g.cell[y] = h.cell[y] /\ Cached(h, y) /\ h.cell[y] \in Caches /\ h.trap[h.cell[y]] \in Caches
      BY <2>6, <2>7 DEF Cached, Sound, Shape
    <3>2. h.val[h.cell[y]] # NoCell /\ h.val[h.trap[h.cell[y]]] # NoCell
      BY <3>1 DEF Sound, Alive
    <3>3. h.cell[y] # c /\ h.trap[h.cell[y]] # c
      BY <2>1, <3>2
    <3>4. QED
      BY <2>6, <3>1, <3>3 DEF cache_of
  <2>8. Cached(g, x) /\ cache_of(g, x) = c
    BY <2>1, <2>6 DEF Cached, cache_of
  <2>9. Alive(g)
    <3>1. ASSUME NEW y \in Cells, Cached(g, y)
          PROVE  g.val[g.cell[y]] # NoCell /\ g.val[g.trap[g.cell[y]]] # NoCell
      <4>1. CASE y = x
        BY <2>6, <4>1
      <4>2. CASE y # x
        <5>1. h.val[h.cell[y]] # NoCell /\ h.val[h.trap[h.cell[y]]] # NoCell
          BY <2>7, <3>1, <4>2 DEF Sound, Alive
        <5>2. QED
          BY <2>6, <2>7, <3>1, <4>2, <5>1
      <4>3. QED
        BY <4>1, <4>2
    <3>2. QED
      BY <3>1 DEF Alive
  <2>10. SharedOK(g, links)
    <3>1. ASSUME NEW y \in Cells \ {Dummy}, NEW t \in Cells \ {Dummy}, Cached(g, y), Cached(g, t),
                 cache_of(g, y) = cache_of(g, t)
          PROVE  Joined(links, VarOf(y), VarOf(t))
      <4>1. CASE y # x /\ t # x
        BY <2>7, <3>1, <4>1 DEF Sound, SharedOK
      <4>2. CASE y = x \/ t = x
        <5>1. y = t
          BY <2>7, <2>8, <3>1, <4>2
        <5>2. QED
          BY <5>1, JoinedRefl
      <4>3. QED
        BY <4>1, <4>2
    <3>2. QED
      BY <3>1 DEF SharedOK
  <2>11. BoundNone(h, g)
    <3>1. ASSUME NEW z \in Cells, Gone(h, z) PROVE Gone(g, z)
      <4>1. CASE z = x
        <5>1. h.cell[x] = Unbound
          BY <1>2, <3>1, <4>1 DEF Gone
        <5>2. g.val[c] = h.cell[x]
          BY <2>1, <2>4 DEF Sound, Shape
        <5>3. QED
          BY <2>8, <4>1, <5>1, <5>2 DEF Gone
      <4>2. CASE z # x
        <5>1. g.cell[z] = h.cell[z]
          BY <2>6, <4>2
        <5>2. Cached(h, z) => Cached(g, z)
          BY <5>1 DEF Cached
        <5>3. Cached(h, z) => cache_of(g, z) = cache_of(h, z) /\ g.val[cache_of(h, z)] = h.val[cache_of(h, z)]
          BY <2>6, <2>7, <4>2, <5>2
        <5>4. QED
          BY <3>1, <5>1, <5>3, GoneSame
      <4>3. QED
        BY <4>1, <4>2
    <3>2. QED
      BY <3>1 DEF BoundNone
  <2>12. QED
    BY <1>2, <2>4, <2>5, <2>6, <2>8, <2>9, <2>10, <2>11 DEF Sound, g
<1>3. QED
  BY <1>1, <1>2

LEMMA UpdateRefsSound ==
  ASSUME NEW h, NEW links, Sound(h, links), NEW from, NEW x \in Cells \cup {NoCell}, NEW env, NEW sym,
         x = NoCell \/ Cached(h, x) \/ Free(h)
  PROVE  LET g == update_cache_references(h, from, x, env, sym)
         IN  /\ Sound(g, links) /\ g.ext = h.ext /\ g.strong = h.strong /\ BoundNone(h, g)
             /\ \A y \in Cells : y # x => g.cell[y] = h.cell[y]
<1> DEFINE g == update_cache_references(h, from, x, env, sym)
<1>1. CASE x = NoCell
  <2> DEFINE d1 == delete_ref_pairs(h, from, "lookup", env, sym)
             d2 == delete_ref_pairs(d1, from, "assignment", env, sym)
             d3 == delete_ref_pairs(d2, from, "operator", env, sym)
             d4 == update_clone(d3, from)
  <2>1. g = d4
    BY <1>1 DEF update_cache_references
  <2>2. Still(h, d1)
    BY DeleteStill DEF Sound
  <2> HIDE DEF d1
  <2>3. Still(d1, d2)
    BY <2>2, DeleteStill DEF Still, Calm
  <2> HIDE DEF d2
  <2>4. Still(d2, d3)
    BY <2>3, DeleteStill DEF Still, Calm
  <2> HIDE DEF d3
  <2>5. Still(d3, d4)
    BY <2>4, CloneStill DEF Still, Calm
  <2> HIDE DEF d4
  <2>6. Still(h, d4)
    BY <2>2, <2>3, <2>4, <2>5, StillTrans
  <2> HIDE DEF g
  <2>7. Sound(g, links) /\ g.ext = h.ext /\ g.strong = h.strong /\ g.cell = h.cell /\ BoundNone(h, g)
    BY <2>1, <2>6, CalmSound, StillGone DEF Still, Calm
  <2>8. QED
    BY <2>7 DEF g
<1>2. CASE x # NoCell
  <2> DEFINE h0 == guarantee_cache(h, x)
             to == cache_of(h0, x)
             h1 == move_ref_pairs(h0, from, to, "lookup", env, sym)
             h2 == move_ref_pairs(h1, from, to, "assignment", env, sym)
             h3 == move_ref_pairs(h2, from, to, "operator", env, sym)
             h4 == update_clone(h3, to)
             h5 == update_clone(h4, from)
  <2>1. g = h5
    BY <1>2 DEF update_cache_references
  <2>2. /\ Sound(h0, links) /\ h0.ext = h.ext /\ h0.strong = h.strong /\ BoundNone(h, h0)
        /\ \A y \in Cells : y # x => h0.cell[y] = h.cell[y]
    BY <1>2, GuaranteeSound
  <2> HIDE DEF h0, to
  <2>3. Still(h0, h1)
    BY <2>2, MoveStill DEF Sound
  <2> HIDE DEF h1
  <2>4. Still(h1, h2)
    BY <2>3, MoveStill DEF Still, Calm
  <2> HIDE DEF h2
  <2>5. Still(h2, h3)
    BY <2>4, MoveStill DEF Still, Calm
  <2> HIDE DEF h3
  <2>6. Still(h3, h4)
    BY <2>5, CloneStill DEF Still, Calm
  <2> HIDE DEF h4
  <2>7. Still(h4, h5)
    BY <2>6, CloneStill DEF Still, Calm
  <2> HIDE DEF h5
  <2>8. Still(h0, h5)
    BY <2>3, <2>4, <2>5, <2>6, <2>7, StillTrans
  <2> HIDE DEF g
  <2>9. Sound(g, links) /\ g.ext = h0.ext /\ g.strong = h0.strong /\ g.cell = h0.cell
    BY <2>1, <2>2, <2>8, CalmSound DEF Still, Calm
  <2>10. BoundNone(h, g)
    BY <2>1, <2>2, <2>8, StillGone DEF BoundNone
  <2>11. QED
    BY <2>2, <2>9, <2>10 DEF g
<1>3. QED
  BY <1>1, <1>2

Target(h, e, sym) == scan_frame(h, e, sym, TRUE)

\* A cell is written, by an assignment or by force.
LEMMA SetCellSound ==
  ASSUME NEW h, NEW links \in Links, Sound(h, links), NEW x \in Cells \ {Dummy}, NEW v,
         Fits(h, v, VarOf(x), links)
  PROVE  LET g == [h EXCEPT !.cell[x] = v]
         IN  /\ Sound(g, links) /\ g.ext = h.ext /\ g.strong = h.strong /\ g.trap = h.trap /\ g.val = h.val
             /\ \A y \in Cells : y # x => g.cell[y] = h.cell[y]
<1> DEFINE g == [h EXCEPT !.cell[x] = v]
<1>1. v \in Values \cup Traps \cup Caches
  BY DEF Fits, Sound, Shape
<1>2. /\ Shape(g) /\ g.trap = h.trap /\ g.val = h.val /\ g.ext = h.ext /\ g.strong = h.strong
      /\ g.cell[x] = v /\ \A y \in Cells : y # x => g.cell[y] = h.cell[y]
  BY <1>1 DEF Sound, Shape
<1> HIDE DEF g
<1>3. Sound(g, links)
  BY <1>2, SetSound
<1>4. QED
  BY <1>2, <1>3 DEF g

\* Only the cell, or the cache it leads to, was written.
Shares(h, x, y) == Cached(h, x) /\ Cached(h, y) /\ cache_of(h, x) = cache_of(h, y)
WroteOnly(h, g, x, links) ==
  /\ Sound(g, links) /\ g.ext = h.ext /\ g.strong = h.strong
  /\ \A y \in Cells : y # x => g.cell[y] = h.cell[y]
  /\ \A y \in Cells : y # x /\ ~Shares(h, x, y) /\ Gone(h, y) => Gone(g, y)

LEMMA AssignEndSound ==
  ASSUME NEW h, NEW links \in Links, Sound(h, links), NEW x \in Cells \ {Dummy}, NEW v, NEW force \in BOOLEAN,
         Fits(h, v, VarOf(x), links), Cached(h, x) => v \in Values \cup Traps
  PROVE  LET g == assign_variable_end(h, x, v, force)
         IN  WroteOnly(h, g, x, links) /\ (~force => BoundNone(h, g))
<1> DEFINE g == assign_variable_end(h, x, v, force)
<1>1. CASE Cached(h, x)
  <2> DEFINE c == cache_of(h, x)
  <2>1. g = assign_variable_cache(h, c, v, force)
    BY <1>1 DEF assign_variable_end
  <2> HIDE DEF c, g
  <2>2. Calm(h, g) /\ (g.val = h.val \/ (Writable(h.val[c], force) /\ g.val = [h.val EXCEPT ![c] = v]))
    <3>1. Shape(h) /\ v \in Values \cup Traps
      BY <1>1 DEF Sound
    <3>2. WroteCache(h, g, c, v, force)
      BY <2>1, <3>1, AssignCacheCalm
    <3>3. QED
      BY <3>2 DEF WroteCache
  <2>3. Sound(g, links) /\ g.ext = h.ext /\ g.strong = h.strong /\ g.cell = h.cell
    BY <2>2, CalmSound DEF Calm
  <2>4. \A y \in Cells : ~Shares(h, x, y) /\ Gone(h, y) => Gone(g, y)
    BY <1>1, <2>2, GoneCache DEF Shares, Sound, c
  <2>5. ~force => BoundNone(h, g)
    BY <2>2, GoneCache DEF BoundNone, Sound
  <2>6. QED
    BY <2>3, <2>4, <2>5 DEF g, WroteOnly
<1>2. CASE ~Cached(h, x) /\ Writable(h.cell[x], force)
  <2>1. g = [h EXCEPT !.cell[x] = v]
    BY <1>2 DEF assign_variable_end
  <2> HIDE DEF g
  <2>2. /\ Sound(g, links) /\ g.ext = h.ext /\ g.strong = h.strong /\ g.trap = h.trap /\ g.val = h.val
        /\ \A y \in Cells : y # x => g.cell[y] = h.cell[y]
    BY <2>1, SetCellSound
  <2>3. \A y \in Cells : y # x /\ Gone(h, y) => Gone(g, y)
    BY <2>2, GoneSame DEF cache_of
  <2>4. ~force => ~Gone(h, x)
    BY <1>2 DEF Writable, Gone
  <2>5. ~force => BoundNone(h, g)
    BY <2>3, <2>4 DEF BoundNone
  <2>6. QED
    BY <2>2, <2>3, <2>5 DEF g, WroteOnly
<1>3. CASE ~Cached(h, x) /\ ~Writable(h.cell[x], force)
  <2>1. g = h
    BY <1>3 DEF assign_variable_end
  <2> HIDE DEF g
  <2>2. QED
    BY <2>1 DEF g, WroteOnly, BoundNone
<1>4. QED
  BY <1>1, <1>2, <1>3

\* Only a definition writes to an unbound cell.
LEMMA AssignKeepsUnbound ==
  ASSUME NEW h, Shape(h), NEW x \in Cells, NEW v, h.cell[x] = Unbound
  PROVE  assign_variable_end(h, x, v, FALSE) = h
<1>1. ~Cached(h, x)
  BY Distinct DEF Cached, Traps
<1>2. ~Writable(h.cell[x], FALSE)
  BY DEF Writable
<1>3. QED
  BY <1>1, <1>2 DEF assign_variable_end

LEMMA AssignSound ==
  ASSUME NEW h, NEW links \in Links, Sound(h, links), NEW e \in Env, NEW sym \in Symbols,
         NEW v \in Values \cup Traps, NEW N, NEW I
  PROVE  LET g == assign_variable(h, e, sym, v)
         IN  Sound(g, links) /\ (Held(h, N) => Held(g, N)) /\ Steady(h, g, I)
<1> DEFINE g == assign_variable(h, e, sym, v)
           x == find_binding_cell(h, e, sym)
<1>1. CASE x = NoCell
  <2>1. g = h
    BY <1>1 DEF assign_variable
  <2>2. Steady(h, h, I)
    BY DEF Steady
  <2>3. QED
    BY <2>1, <2>2
<1>2. CASE x # NoCell
  <2>1. g = assign_variable_end(h, x, v, FALSE)
    BY <1>2 DEF assign_variable
  <2>2. x \in Cells \ {Dummy} /\ Fits(h, v, VarOf(x), links)
    BY <1>2, FindAny DEF CellOf, Fits
  <2> HIDE DEF x, g
  <2>3. /\ Sound(g, links) /\ g.strong = h.strong
        /\ \A y \in Cells : y # x => g.cell[y] = h.cell[y]
        /\ h.cell[x] = Unbound => g = h
        /\ BoundNone(h, g)
    <3>1. WroteOnly(h, g, x, links) /\ BoundNone(h, g)
      BY <2>1, <2>2, AssignEndSound
    <3>2. h.cell[x] = Unbound => g = h
      BY <2>1, <2>2, AssignKeepsUnbound DEF Sound
    <3>3. QED
      BY <3>1, <3>2 DEF WroteOnly
  <2>4. ASSUME Held(h, N) PROVE Held(g, N)
    <3>1. CASE h.cell[x] = Unbound
      BY <2>3, <2>4, <3>1
    <3>2. CASE h.cell[x] # Unbound
      <4>1. \A n \in Symbols : n \in N /\ x = <<Global, n>> => n \in g.strong
        BY <2>3, <2>4, <3>2 DEF Held
      <4>2. QED
        BY <2>3, <2>4, <4>1, HeldSet
    <3>3. QED
      BY <3>1, <3>2
  <2>5. Steady(h, g, I)
    BY <2>3, BoundNoneSteady
  <2>6. QED
    BY <2>3, <2>4, <2>5 DEF g
<1>3. QED
  BY <1>1, <1>2

LEMMA StrengthenedSound ==
  ASSUME NEW h, NEW links, Sound(h, links), NEW e, NEW sym \in Symbols, NEW I
  PROVE  LET g == Strengthened(h, e, sym)
         IN  /\ Sound(g, links) /\ g.cell = h.cell /\ g.ext = h.ext /\ h.strong \subseteq g.strong
             /\ g.trap = h.trap /\ g.val = h.val /\ Steady(h, g, I)
             /\ e = Global => sym \in g.strong
<1> DEFINE g == Strengthened(h, e, sym)
<1>1. CASE e # Global
  BY <1>1 DEF Strengthened, Steady
<1>2. CASE e = Global
  <2>1. g = [h EXCEPT !.strong = h.strong \cup {sym}]
    BY <1>2 DEF Strengthened
  <2>2. /\ g.cell = h.cell /\ g.ext = h.ext /\ g.trap = h.trap /\ g.val = h.val
        /\ g.strong = h.strong \cup {sym} /\ Shape(g)
    BY <2>1 DEF Sound, Shape
  <2> HIDE DEF g
  <2>3. Sound(g, links)
    BY <2>2 DEF Sound, Alive, SharedOK, Cached, cache_of
  <2>4. Steady(h, g, I)
    BY <2>2 DEF Steady, Gone, Cached, cache_of
  <2>5. QED
    BY <2>2, <2>3, <2>4 DEF g
<1>3. QED
  BY <1>1, <1>2

BoundOnly(h, g, e, sym, v, links) ==
  /\ Sound(g, links) /\ g.strong = h.strong /\ g.trap = h.trap /\ g.val = h.val
  /\ g.cell[<<e, sym, "ext">>] = v /\ \A y \in Cells : y # <<e, sym, "ext">> => g.cell[y] = h.cell[y]

LEMMA NewBindingSound ==
  ASSUME NEW h, NEW links \in Links, Sound(h, links), NEW e \in Frames, NEW sym \in Symbols, NEW v,
         Fits(h, v, <<e, sym>>, links)
  PROVE  BoundOnly(h, NewBinding(h, e, sym, v), e, sym, v, links)
<1> DEFINE g == NewBinding(h, e, sym, v)
           x == <<e, sym, "ext">>
<1>1. v \in Values \cup Traps \cup Caches
  BY DEF Fits, Sound, Shape
<1>2. x \in Cells \ {Dummy} /\ VarOf(x) = <<e, sym>>
  BY ExtCell, DummyCell DEF VarOf
<1>3. g = [h EXCEPT !.ext[e] = @ \cup {sym}, !.cell[x] = v]
  BY DEF NewBinding
<1> HIDE DEF x
<1>4. /\ Shape(g) /\ g.trap = h.trap /\ g.val = h.val /\ g.strong = h.strong
      /\ g.cell[x] = v /\ \A y \in Cells : y # x => g.cell[y] = h.cell[y]
  BY <1>1, <1>2, <1>3 DEF Sound, Shape
<1> HIDE DEF g
<1>5. Sound(g, links)
  BY <1>2, <1>4, SetSound
<1>6. QED
  BY <1>4, <1>5 DEF g, x, BoundOnly

\* The new cell is not one of the global environment.
LEMMA NewBindingHeld ==
  ASSUME NEW h, NEW g, NEW e, NEW sym, NEW N, Held(h, N), g.strong = h.strong,
         \A y \in Cells : y # <<e, sym, "ext">> => g.cell[y] = h.cell[y]
  PROVE  Held(g, N)
<1>1. ASSUME NEW n \in Symbols PROVE g.cell[<<Global, n>>] = h.cell[<<Global, n>>]
  <2>1. <<Global, n>> \in Cells /\ <<Global, n>> # <<e, sym, "ext">>
    BY GlobalCell
  <2>2. QED
    BY <2>1
<1>2. QED
  BY <1>1 DEF Held

LEMMA NewBindingSteady ==
  ASSUME NEW h, NEW g, NEW e, NEW sym, NEW v, NEW links, NEW I, BoundOnly(h, g, e, sym, v, links)
  PROVE  Steady(h, g, I)
<1>1. ASSUME NEW n \in Symbols, Gone(h, <<Global, n>>) PROVE Gone(g, <<Global, n>>)
  <2>1. <<Global, n>> \in Cells /\ <<Global, n>> # <<e, sym, "ext">>
    BY GlobalCell
  <2>2. g.cell[<<Global, n>>] = h.cell[<<Global, n>>] /\ g.trap = h.trap /\ g.val = h.val
    BY <2>1 DEF BoundOnly
  <2>3. QED
    BY <1>1, <2>2, GoneSame DEF cache_of
<1>2. QED
  BY <1>1 DEF Steady, BoundOnly

\* A lone variable shares its cache with no other.
LEMMA LoneCell ==
  ASSUME NEW h, NEW links, Sound(h, links), NEW n \in Lone(links), NEW x \in Cells \ {Dummy}, NEW e, NEW sym,
         CellOf(x, e, sym), x # <<Global, n>>
  PROVE  /\ ~Shares(h, x, <<Global, n>>) /\ ~Shares(h, <<Global, n>>, x)
         /\ ~Joined(links, <<Global, n>>, VarOf(x))
<1> DEFINE z == <<Global, n>>
<1>1. n \in Symbols /\ z \in Cells \ {Dummy} /\ VarOf(z) = <<Global, n>>
  BY GlobalCell, DummyCell DEF Lone, VarOf
<1>2. VarOf(x) \in Env \X Symbols
  BY CellVar
<1>3. VarOf(x) # <<Global, n>>
  BY <1>1 DEF CellOf
<1>4. ~Joined(links, <<Global, n>>, VarOf(x))
  BY <1>2, <1>3 DEF Lone
<1> HIDE DEF z
<1>5. ~Shares(h, x, z) /\ ~Shares(h, z, x)
  BY <1>1, <1>4 DEF Shares, Sound, SharedOK
<1>6. QED
  BY <1>4, <1>5 DEF z

LEMMA DefineSound ==
  ASSUME NEW h, NEW links \in Links, Sound(h, links), NEW e \in Frames \cup {Global}, NEW sym \in Symbols,
         NEW v, Fits(h, v, <<e, sym>>, links), v \in Values \cup Traps => Free(h),
         Target(h, e, sym) # NoCell /\ Cached(h, Target(h, e, sym)) => v \in Values \cup Traps,
         NEW N, NEW I \in SUBSET Lone(links)
  PROVE  LET g == define_variable(h, e, sym, v)
         IN  Sound(g, links) /\ (Held(h, N) => Held(g, N)) /\ Steady(h, g, I)
<1> DEFINE g == define_variable(h, e, sym, v)
           x == Target(h, e, sym)
           y == Shadowed(h, e, sym)
           s == Strengthened(h, e, sym)
           b == NewBinding(h, e, sym, v)
<1>1. e \in Env
  BY DEF Env
<1>2. CASE x # NoCell
  <2>1. g = assign_variable_end(s, x, v, TRUE)
    BY <1>2 DEF define_variable, Target
  <2>2. CellOf(x, e, sym)
    BY <1>1, <1>2, ScanAny DEF Target
  <2>3. x \in Cells \ {Dummy} /\ VarOf(x) = <<e, sym>>
    BY <2>2 DEF CellOf
  <2>4. /\ Sound(s, links) /\ s.cell = h.cell /\ h.strong \subseteq s.strong /\ Steady(h, s, I)
        /\ e = Global => sym \in s.strong
    BY StrengthenedSound
  <2> HIDE DEF x, g, s
  <2>5. Fits(s, v, VarOf(x), links) /\ (Cached(s, x) => v \in Values \cup Traps)
    BY <1>2, <2>3, <2>4 DEF Fits, Cached, x
  <2>6. /\ Sound(g, links) /\ g.strong = s.strong
        /\ \A z \in Cells : z # x => g.cell[z] = s.cell[z]
        /\ \A z \in Cells : z # x /\ ~Shares(s, x, z) /\ Gone(s, z) => Gone(g, z)
    <3>1. WroteOnly(s, g, x, links)
      BY <2>1, <2>3, <2>4, <2>5, AssignEndSound
    <3>2. QED
      BY <3>1 DEF WroteOnly
  <2>7. ASSUME Held(h, N) PROVE Held(g, N)
    <3>1. \A n \in Symbols : n \in N /\ x = <<Global, n>> => n \in g.strong
      <4>1. ASSUME NEW n \in Symbols, x = <<Global, n>> PROVE n \in g.strong
        <5>1. e = Global /\ x = <<Global, sym>>
          BY <2>2, <4>1 DEF CellOf
        <5>2. n = sym
          BY <4>1, <5>1
        <5>3. QED
          BY <2>4, <2>6, <5>1, <5>2
      <4>2. QED
        BY <4>1
    <3>2. QED
      BY <2>4, <2>6, <2>7, <3>1, HeldSet
  <2>8. Steady(s, g, I)
    <3>1. ASSUME NEW n \in Symbols, n \in I, Gone(s, <<Global, n>>)
          PROVE  Gone(g, <<Global, n>>) \/ n \in g.strong
      <4>1. CASE x = <<Global, n>>
        <5>1. e = Global /\ x = <<Global, sym>>
          BY <2>2, <4>1 DEF CellOf
        <5>2. n = sym
          BY <4>1, <5>1
        <5>3. QED
          BY <2>4, <2>6, <5>1, <5>2
      <4>2. CASE x # <<Global, n>>
        <5>1. ~Shares(s, x, <<Global, n>>) /\ <<Global, n>> \in Cells
          BY <2>2, <2>3, <2>4, <3>1, <4>2, LoneCell, GlobalCell
        <5>2. QED
          BY <2>6, <3>1, <4>2, <5>1
      <4>3. QED
        BY <4>1, <4>2
    <3>2. QED
      BY <2>6, <3>1 DEF Steady
  <2>9. Steady(h, g, I)
    BY <2>4, <2>8, SteadyTrans
  <2>10. QED
    BY <2>6, <2>7, <2>9 DEF g
<1>3. CASE x = NoCell
  <2>1. e \in Frames
    <3>1. e = Global => x = <<Global, sym>>
      BY <1>1, ScanGlobal DEF Target
    <3>2. <<Global, sym>> # NoCell
      BY GlobalCell, Distinct
    <3>3. QED
      BY <1>3, <3>1, <3>2
  <2>2. Parent[e] \in Env
    BY <2>1, EnclosingFrame
  <2> DEFINE n == <<e, sym, "ext">>
  <2>3. /\ Sound(b, links) /\ b.strong = h.strong /\ b.val = h.val /\ b.cell[n] = v /\ Steady(h, b, I)
        /\ \A z \in Cells : z # n => b.cell[z] = h.cell[z]
    <3>1. BoundOnly(h, b, e, sym, v, links)
      BY <2>1, NewBindingSound
    <3>2. Steady(h, b, I)
      BY <3>1, NewBindingSteady
    <3>3. QED
      BY <3>1, <3>2 DEF BoundOnly
  <2>4. n \in Cells
    BY <2>1, ExtCell
  <2>5. CASE y = NoCell \/ ~Cached(h, y)
    <3>1. g = b
      BY <1>3, <2>5 DEF define_variable, Target
    <3> HIDE DEF g, b
    <3>2. Held(h, N) => Held(b, N)
      BY <2>3, NewBindingHeld
    <3>3. QED
      BY <2>3, <3>1, <3>2 DEF g
  <2>6. CASE ~(y = NoCell \/ ~Cached(h, y))
    <3>1. g = update_cache_references(b, cache_of(h, y), n, e, sym)
      BY <1>3, <2>6 DEF define_variable, Target
    <3> HIDE DEF g, b, n
    <3>2. Cached(b, n) \/ Free(b)
      <4>1. CASE v \in Values \cup Traps
        BY <2>3, <4>1 DEF Free
      <4>2. CASE v \notin Values \cup Traps
        BY <2>3, <4>2 DEF Fits, Cached
      <4>3. QED
        BY <4>1, <4>2
    <3>3. /\ Sound(g, links) /\ g.strong = b.strong /\ BoundNone(b, g)
          /\ \A z \in Cells : z # n => g.cell[z] = b.cell[z]
      BY <2>3, <2>4, <3>1, <3>2, UpdateRefsSound
    <3>4. Held(h, N) => Held(g, N)
      BY <2>3, <3>3, NewBindingHeld DEF n
    <3>5. Steady(h, g, I)
      BY <2>3, <3>3, BoundNoneSteady, SteadyTrans
    <3>6. QED
      BY <3>3, <3>4, <3>5 DEF g
  <2>7. QED
    BY <2>5, <2>6
<1>4. QED
  BY <1>2, <1>3

\* The references of the source are taken over by the target's cache, and every cell that
\* had the source's trap leads there.
LEMMA RedirectSound ==
  ASSUME NEW h, NEW g, NEW links \in Links, Sound(h, links), NEW x \in Cells \ {Dummy}, NEW y \in Cells \ {Dummy},
         Cached(h, x), Cached(h, y), cache_of(h, x) # cache_of(h, y), Joined(links, VarOf(x), VarOf(y)),
         Shape(g), \A c \in Caches : h.val[c] # NoCell => g.val[c] # NoCell,
         g.trap = [h.trap EXCEPT ![h.cell[y]] = cache_of(h, x)],
         g.cell[y] = h.cell[x], \A z \in Cells : z # y => g.cell[z] = h.cell[z]
  PROVE  Sound(g, links)
<1> DEFINE tc == cache_of(h, x)
           t == h.cell[y]
<1>1. tc \in Caches /\ t \in Caches /\ h.cell[x] \in Caches /\ h.cell[x] # t
  BY DEF Cached, cache_of, Sound, Shape
<1>2. g.trap[t] = tc /\ \A d \in Caches : d # t => g.trap[d] = h.trap[d]
  BY <1>1 DEF Sound, Shape
<1>3. Joined(links, VarOf(y), VarOf(x))
  BY CellVar, JoinedSym DEF Links
<1>4. h.val[tc] # NoCell /\ h.trap[h.cell[x]] = tc /\ tc # cache_of(h, y)
  BY DEF Sound, Alive, cache_of
<1> HIDE DEF tc, t
<1>5. ASSUME NEW z \in Cells, Cached(g, z)
      PROVE  /\ Cached(h, z) /\ (z # y => g.cell[z] = h.cell[z])
             /\ cache_of(g, z) = tc \/ (z # y /\ cache_of(g, z) = cache_of(h, z))
             /\ g.cell[z] \in Caches /\ h.val[g.cell[z]] # NoCell /\ h.val[g.trap[g.cell[z]]] # NoCell
  <2>1. CASE z = y
    BY <1>1, <1>2, <1>4, <2>1 DEF Cached, cache_of, Sound, Alive
  <2>2. CASE z # y
    <3>1. g.cell[z] = h.cell[z] /\ h.cell[z] \in Caches /\ Cached(h, z)
      BY <1>5, <2>2 DEF Cached
    <3>2. h.val[h.cell[z]] # NoCell /\ h.val[h.trap[h.cell[z]]] # NoCell
      BY <3>1 DEF Sound, Alive
    <3>3. CASE h.cell[z] = t
      BY <1>2, <1>4, <2>2, <3>1, <3>2, <3>3 DEF cache_of
    <3>4. CASE h.cell[z] # t
      BY <1>2, <2>2, <3>1, <3>2, <3>4 DEF cache_of
    <3>5. QED
      BY <3>3, <3>4
  <2>3. QED
    BY <2>1, <2>2
<1>6. ASSUME NEW z \in Cells \ {Dummy}, Cached(g, z), cache_of(g, z) = tc
      PROVE  Joined(links, VarOf(z), VarOf(x)) /\ Joined(links, VarOf(x), VarOf(z))
  <2>1. CASE z = y
    BY <1>3, <2>1
  <2>2. CASE z # y
    <3>1. Cached(h, z) /\ g.cell[z] = h.cell[z] /\ h.cell[z] \in Caches
      BY <1>5, <1>6, <2>2 DEF Cached
    <3>2. CASE h.cell[z] = t
      <4>1. cache_of(h, z) = cache_of(h, y)
        BY <3>2 DEF cache_of, t
      <4>2. Joined(links, VarOf(z), VarOf(y)) /\ Joined(links, VarOf(y), VarOf(z))
        BY <3>1, <4>1 DEF Sound, SharedOK
      <4>3. QED
        BY <1>3, <4>2, JoinedTrans
    <3>3. CASE h.cell[z] # t
      <4>1. cache_of(h, z) = cache_of(h, x)
        BY <1>2, <1>6, <3>1, <3>3 DEF cache_of, tc
      <4>2. QED
        BY <3>1, <4>1 DEF Sound, SharedOK
    <3>4. QED
      BY <3>2, <3>3
  <2>3. QED
    BY <2>1, <2>2
<1>7. Alive(g)
  <2>1. ASSUME NEW z \in Cells, Cached(g, z)
        PROVE  g.val[g.cell[z]] # NoCell /\ g.val[g.trap[g.cell[z]]] # NoCell
    <3>1. g.cell[z] \in Caches /\ g.trap[g.cell[z]] \in Caches
      BY <1>5, <2>1 DEF Shape
    <3>2. QED
      BY <1>5, <2>1, <3>1
  <2>2. QED
    BY <2>1 DEF Alive
<1>8. SharedOK(g, links)
  <2>1. ASSUME NEW z \in Cells \ {Dummy}, NEW r \in Cells \ {Dummy}, Cached(g, z), Cached(g, r),
               cache_of(g, z) = cache_of(g, r)
        PROVE  Joined(links, VarOf(z), VarOf(r))
    <3>1. CASE cache_of(g, z) = tc
      <4>1. Joined(links, VarOf(z), VarOf(x)) /\ Joined(links, VarOf(x), VarOf(r))
        BY <1>6, <2>1, <3>1
      <4>2. QED
        BY <4>1, JoinedTrans
    <3>2. CASE cache_of(g, z) # tc
      <4>1. Cached(h, z) /\ Cached(h, r) /\ cache_of(h, z) = cache_of(h, r)
        BY <1>5, <2>1, <3>2
      <4>2. QED
        BY <4>1 DEF Sound, SharedOK
    <3>3. QED
      BY <3>1, <3>2
  <2>2. QED
    BY <2>1 DEF SharedOK
<1>9. QED
  BY <1>7, <1>8 DEF Sound

LEMMA ToTargetSound ==
  ASSUME NEW h, NEW links \in Links, Sound(h, links), NEW x \in Cells \ {Dummy}, NEW y \in Cells \ {Dummy},
         Cached(h, x), x # y, Joined(links, VarOf(x), VarOf(y))
  PROVE  LET g == ToTargetCache(h, x, y)
         IN  /\ Sound(g, links) /\ g.strong = h.strong
             /\ \A z \in Cells : z # y => g.cell[z] = h.cell[z]
             /\ \A z \in Cells : z # y /\ ~Shares(h, x, z) /\ ~Shares(h, y, z) /\ Gone(h, z) => Gone(g, z)
<1> DEFINE g == ToTargetCache(h, x, y)
           tc == cache_of(h, x)
           sc == cache_of(h, y)
<1>1. CASE ~Cached(h, y)
  <2> DEFINE v == h.cell[y]
             k == [h EXCEPT !.val[tc] = v]
  <2>1. g = [k EXCEPT !.cell[y] = h.cell[x]]
    BY <1>1 DEF ToTargetCache
  <2>2. v \in Values \cup Traps
    BY <1>1 DEF Cached, Sound, Shape
  <2> HIDE DEF v, tc
  <2>3. Calm(h, k) /\ k.val = [h.val EXCEPT ![tc] = v]
    BY <2>2, CalmVal DEF Sound, Shape
  <2> HIDE DEF k, g
  <2>4. Sound(k, links) /\ k.cell = h.cell /\ k.strong = h.strong
    BY <2>3, CalmSound DEF Calm
  <2>5. Fits(k, h.cell[x], VarOf(y), links)
    BY <2>4 DEF Fits, Cached
  <2> DEFINE u == h.cell[x]
  <2> HIDE DEF u
  <2>6. Fits(k, u, VarOf(y), links) /\ g = [k EXCEPT !.cell[y] = u]
    BY <2>1, <2>5 DEF u
  <2>7. /\ Sound(g, links) /\ g.strong = k.strong /\ g.trap = k.trap /\ g.val = k.val
        /\ \A z \in Cells : z # y => g.cell[z] = k.cell[z]
    BY <2>4, <2>6, SetCellSound
  <2>8. ASSUME NEW z \in Cells, z # y, ~Shares(h, x, z), Gone(h, z)
        PROVE  Gone(g, z)
    <3>1. Gone(k, z)
      BY <2>3, <2>8, GoneCache DEF Shares, Sound, tc, Writable
    <3>2. QED
      BY <2>7, <2>8, <3>1, GoneSame DEF cache_of
  <2>9. QED
    BY <2>4, <2>7, <2>8 DEF g
<1>2. CASE Cached(h, y) /\ tc = sc
  <2>1. g = h
    BY <1>2 DEF ToTargetCache
  <2>2. QED
    BY <2>1
<1>3. CASE Cached(h, y) /\ tc # sc
  <2> DEFINE k == [h EXCEPT !.val[tc] = h.val[sc]]
             m0 == [h EXCEPT !.val[tc] = h.val[sc], !.refs[tc]["operator"] = walked(@)]
             m1 == move_all_references(m0, sc, tc, "lookup")
             m2 == move_all_references(m1, sc, tc, "assignment")
             m3 == move_all_references(m2, sc, tc, "operator")
             m == update_clone(m3, sc)
             m4 == update_clone(m, tc)
  <2>1. g = [m4 EXCEPT !.trap[h.cell[y]] = tc, !.cell[y] = h.cell[x]]
    BY <1>3 DEF ToTargetCache
  <2>2. tc \in Caches /\ sc \in Caches /\ h.val[sc] \in Values \cup Traps /\ h.cell[y] \in Caches
    BY <1>3 DEF Cached, cache_of, Sound, Shape, Alive
  <2> HIDE DEF tc, sc
  <2>3. Calm(h, m0) /\ m0.val = [h.val EXCEPT ![tc] = h.val[sc]]
    <3>1. Calm(h, k) /\ k.val = [h.val EXCEPT ![tc] = h.val[sc]]
      BY <2>2, CalmVal DEF Sound, Shape
    <3> DEFINE R == [h.refs EXCEPT ![tc]["operator"] = walked(@)]
    <3>2. m0 = [k EXCEPT !.refs = R]
      OBVIOUS
    <3> HIDE DEF k, R, m0
    <3>3. Shape(k)
      BY <3>1 DEF Calm
    <3>4. Still(k, m0)
      BY <3>2, <3>3, StillFields
    <3>5. QED
      BY <3>1, <3>4, CalmStill DEF Still
  <2> HIDE DEF m0
  <2>4. Still(m0, m1)
    <3>1. Shape(m0)
      BY <2>3 DEF Calm
    <3>2. QED
      BY <3>1, MoveAllStill
  <2> HIDE DEF m1
  <2>5. Still(m1, m2)
    BY <2>4, MoveAllStill DEF Still, Calm
  <2> HIDE DEF m2
  <2>6. Still(m2, m3)
    BY <2>5, MoveAllStill DEF Still, Calm
  <2> HIDE DEF m3
  <2>7. Still(m3, m)
    BY <2>6, CloneStill DEF Still, Calm
  <2> HIDE DEF m
  <2>8. Still(m, m4)
    BY <2>7, CloneStill DEF Still, Calm
  <2> HIDE DEF m4
  <2>9. Calm(h, m4) /\ m4.val = [h.val EXCEPT ![tc] = h.val[sc]]
    <3>1. Still(m0, m4)
      BY <2>4, <2>5, <2>6, <2>7, <2>8, StillTrans
    <3>2. QED
      BY <2>3, <3>1, CalmStill DEF Still
  <2>10. h.cell[x] \in Caches
    BY DEF Cached
  <2> DEFINE t == h.cell[y]
             u == h.cell[x]
  <2>11. t \in Caches /\ u \in Caches /\ g = [m4 EXCEPT !.trap[t] = tc, !.cell[y] = u]
    BY <2>1, <2>2, <2>10
  <2> HIDE DEF t, u, g
  <2>12. /\ Shape(g) /\ g.val = m4.val /\ g.strong = m4.strong /\ g.trap = [m4.trap EXCEPT ![t] = tc]
         /\ g.cell[y] = u /\ \A z \in Cells : z # y => g.cell[z] = m4.cell[z]
    BY <2>2, <2>9, <2>11 DEF Calm, Shape
  <2>13. /\ g.strong = h.strong /\ g.trap = [h.trap EXCEPT ![h.cell[y]] = cache_of(h, x)]
         /\ g.cell[y] = h.cell[x] /\ \A z \in Cells : z # y => g.cell[z] = h.cell[z]
         /\ \A c \in Caches : h.val[c] # NoCell => g.val[c] # NoCell
    BY <2>9, <2>12 DEF Calm, t, u, tc
  <2>14. cache_of(h, x) # cache_of(h, y)
    BY <1>3 DEF tc, sc
  <2>15. Sound(g, links)
    BY <1>3, <2>12, <2>13, <2>14, RedirectSound
  <2>16. ASSUME NEW z \in Cells, z # y, ~Shares(h, x, z), ~Shares(h, y, z), Gone(h, z)
         PROVE  Gone(g, z)
    <3>1. Gone(m4, z)
      BY <2>9, <2>16, GoneCache DEF Shares, Sound, tc, Writable
    <3>2. g.cell[z] = m4.cell[z] /\ m4.cell[z] = h.cell[z] /\ m4.trap = h.trap
      BY <2>9, <2>12, <2>16 DEF Calm
    <3>3. Cached(m4, z) => cache_of(g, z) = cache_of(m4, z)
      <4>1. ASSUME Cached(m4, z) PROVE cache_of(g, z) = cache_of(m4, z)
        <5>1. Cached(h, z) /\ h.cell[z] \in Caches
          BY <3>2, <4>1 DEF Cached
        <5>2. h.cell[z] # t
          BY <1>3, <2>16, <5>1 DEF Shares, cache_of, t
        <5>3. g.trap[h.cell[z]] = m4.trap[h.cell[z]]
          BY <2>9, <2>12, <5>1, <5>2 DEF Calm, Shape
        <5>4. QED
          BY <3>2, <5>3 DEF cache_of
      <4>2. QED
        BY <4>1
    <3>4. QED
      BY <2>12, <3>1, <3>2, <3>3, GoneSame
  <2>17. QED
    BY <2>13, <2>15, <2>16 DEF g
<1>4. QED
  BY <1>1, <1>2, <1>3

\* What scan_frame finds for a definition depends on the frame's extension only.
LEMMA TargetSame ==
  ASSUME NEW h, NEW g, NEW e \in Env, NEW sym, g.ext = h.ext
  PROVE  Target(g, e, sym) = Target(h, e, sym)
  BY DEF Target, scan_frame

LEMMA LinkSound ==
  ASSUME NEW h, NEW links \in Links, Sound(h, links), NEW l \in links, Free(h),
         CanLink(h, l[1], l[2], l[3], l[4]), NEW N, NEW I \in SUBSET Lone(links)
  PROVE  LET g == link_variables(h, l[1], l[2], l[3], l[4])
         IN  Sound(g, links) /\ (Held(h, N) => Held(g, N)) /\ Steady(h, g, I)
<1> DEFINE te == l[1]
           ts == l[2]
           y == find_binding_cell(h, l[3], l[4])
           x == Target(h, te, ts)
           f == BindingFrame(h, l[3], l[4])
           h1 == guarantee_cache(h, y)
           g == link_variables(h, l[1], l[2], l[3], l[4])
<1>1. te \in Frames \cup {Global} /\ te \in Env /\ ts \in Symbols /\ l[3] \in Env /\ l[4] \in Symbols
  BY DEF Links, Env
<1>2. y # NoCell /\ h.cell[y] # Unbound /\ x # y
  BY DEF CanLink, Target
<1>3. CellOf(y, f, l[4]) /\ f \in Enclosing[l[3]] /\ f \in Env
  BY <1>1, <1>2, FindAny
<1>4. y \in Cells \ {Dummy} /\ VarOf(y) = <<f, l[4]>>
  BY <1>3 DEF CellOf
<1>5. Joined(links, <<te, ts>>, VarOf(y)) /\ Joined(links, VarOf(y), <<te, ts>>)
  BY <1>3, <1>4, JoinedLink
<1>6. CASE LinkIntoCache(h, te, ts)
  <2> DEFINE s == Strengthened(h, te, ts)
  <2>1. g = ToTargetCache(s, x, y) /\ x # NoCell /\ Cached(h, x)
    BY <1>6 DEF link_variables, LinkIntoCache, Target
  <2>2. CellOf(x, te, ts)
    BY <1>1, <2>1, ScanAny DEF Target
  <2>3. x \in Cells \ {Dummy} /\ VarOf(x) = <<te, ts>>
    BY <2>2 DEF CellOf
  <2>4. /\ Sound(s, links) /\ s.cell = h.cell /\ h.strong \subseteq s.strong /\ Steady(h, s, I)
    BY <1>1, StrengthenedSound
  <2>5. Cached(s, x)
    BY <2>1, <2>4 DEF Cached
  <2> HIDE DEF s, x, y, g
  <2>6. /\ Sound(g, links) /\ g.strong = s.strong
        /\ \A z \in Cells : z # y => g.cell[z] = s.cell[z]
        /\ \A z \in Cells : z # y /\ ~Shares(s, x, z) /\ ~Shares(s, y, z) /\ Gone(s, z) => Gone(g, z)
    BY <1>2, <1>4, <1>5, <2>1, <2>3, <2>4, <2>5, ToTargetSound
  <2>7. ASSUME Held(h, N) PROVE Held(g, N)
    <3>1. \A n \in Symbols : n \in N /\ y = <<Global, n>> => n \in g.strong
      BY <1>2, <2>4, <2>6, <2>7 DEF Held
    <3>2. QED
      BY <2>4, <2>6, <2>7, <3>1, HeldSet
  <2>8. Steady(s, g, I)
    <3>1. ASSUME NEW n \in Symbols, n \in I, Gone(s, <<Global, n>>) PROVE Gone(g, <<Global, n>>)
      <4> DEFINE z == <<Global, n>>
      <4>1. z \in Cells \ {Dummy} /\ VarOf(z) = <<Global, n>>
        BY GlobalCell, DummyCell DEF VarOf
      <4>2. x # z => ~Shares(s, x, z) /\ ~Joined(links, VarOf(z), VarOf(x))
        BY <2>2, <2>3, <2>4, <3>1, <4>1, LoneCell
      <4>3. y # z => ~Shares(s, y, z) /\ ~Joined(links, VarOf(z), VarOf(y))
        BY <1>3, <1>4, <2>4, <3>1, <4>1, LoneCell
      <4>4. x # z /\ y # z
        BY <1>2, <1>5, <2>3, <4>2, <4>3
      <4>5. Gone(s, z)
        BY <3>1
      <4> HIDE DEF z
      <4>6. Gone(g, z)
        BY <2>6, <4>1, <4>2, <4>3, <4>4, <4>5
      <4>7. QED
        BY <4>6 DEF z
    <3>2. QED
      BY <2>6, <3>1 DEF Steady
  <2>9. Steady(h, g, I)
    BY <2>4, <2>8, SteadyTrans
  <2>10. QED
    BY <2>6, <2>7, <2>9 DEF g
<1>7. CASE ~LinkIntoCache(h, te, ts)
  <2> DEFINE v == h1.cell[y]
  <2>1. g = define_variable(h1, te, ts, v)
    BY <1>7 DEF link_variables
  <2> HIDE DEF y, g
  <2>2. /\ Sound(h1, links) /\ Cached(h1, y) /\ h1.ext = h.ext /\ h1.strong = h.strong /\ BoundNone(h, h1)
        /\ \A z \in Cells : z # y => h1.cell[z] = h.cell[z]
    BY <1>4, GuaranteeSound
  <2> HIDE DEF h1
  <2>3. Fits(h1, v, <<te, ts>>, links) /\ v \in Caches
    BY <1>4, <1>5, <2>2 DEF Fits, Cached
  <2>4. v \notin Values \cup Traps
    BY <2>3, Distinct
  <2>5. Target(h1, te, ts) = x
    BY <1>1, <2>2, TargetSame
  <2>6. x # NoCell => ~Cached(h1, x)
    <3>1. ASSUME x # NoCell PROVE ~Cached(h1, x)
      <4>1. ~Cached(h, x)
        BY <1>7, <3>1 DEF LinkIntoCache, Target
      <4>2. x \in Cells
        BY <1>1, <3>1, ScanAny DEF Target, CellOf
      <4>3. h1.cell[x] = h.cell[x]
        BY <1>2, <2>2, <4>2
      <4>4. QED
        BY <4>1, <4>3 DEF Cached
    <3>2. QED
      BY <3>1
  <2> HIDE DEF v, x
  <2>7. Sound(g, links) /\ (Held(h1, N) => Held(g, N)) /\ Steady(h1, g, I)
    BY <1>1, <2>1, <2>2, <2>3, <2>4, <2>5, <2>6, DefineSound
  <2>8. ASSUME Held(h, N) PROVE Held(h1, N)
    <3>1. \A n \in Symbols : n \in N /\ y = <<Global, n>> => n \in h1.strong
      BY <1>2, <2>2, <2>8 DEF Held
    <3>2. QED
      BY <2>2, <2>8, <3>1, HeldSet
  <2>9. Steady(h, g, I)
    BY <2>2, <2>7, BoundNoneSteady, SteadyTrans
  <2>10. QED
    BY <2>7, <2>8, <2>9 DEF g
<1>8. QED
  BY <1>6, <1>7

LEMMA LinkInterruptedSound ==
  ASSUME NEW h, NEW links \in Links, Sound(h, links), NEW l \in links, Free(h),
         CanLink(h, l[1], l[2], l[3], l[4]), NEW N, NEW I
  PROVE  LET g == guarantee_cache(Strengthened(h, l[1], l[2]), find_binding_cell(h, l[3], l[4]))
         IN  Sound(g, links) /\ (Held(h, N) => Held(g, N)) /\ Steady(h, g, I)
<1> DEFINE y == find_binding_cell(h, l[3], l[4])
           s == Strengthened(h, l[1], l[2])
           g == guarantee_cache(s, y)
<1>1. l[3] \in Env /\ l[4] \in Symbols /\ l[2] \in Symbols
  BY DEF Links, Env
<1>2. y # NoCell /\ h.cell[y] # Unbound
  BY DEF CanLink
<1>3. y \in Cells
  BY <1>1, <1>2, FindAny DEF CellOf
<1> HIDE DEF y
<1>4. Sound(s, links) /\ s.cell = h.cell /\ s.val = h.val /\ h.strong \subseteq s.strong /\ Steady(h, s, I)
  BY <1>1, StrengthenedSound
<1> HIDE DEF s
<1>5. Free(s)
  BY <1>4 DEF Free
<1>6. /\ Sound(g, links) /\ g.strong = s.strong /\ BoundNone(s, g)
      /\ \A z \in Cells : z # y => g.cell[z] = s.cell[z]
  BY <1>3, <1>4, <1>5, GuaranteeSound
<1> HIDE DEF g
<1>7. ASSUME Held(h, N) PROVE Held(g, N)
  <2>1. \A n \in Symbols : n \in N /\ y = <<Global, n>> => n \in g.strong
    BY <1>2, <1>4, <1>6, <1>7 DEF Held
  <2>2. QED
    BY <1>4, <1>6, <1>7, <2>1, HeldSet
<1>8. Steady(h, g, I)
  BY <1>4, <1>6, BoundNoneSteady, SteadyTrans
<1>9. QED
  BY <1>6, <1>7, <1>8 DEF g, s, y

\* A link that would move references from a cache to itself is one to the variable that
\* is inherited.
LEMMA LinkLoopJoined ==
  ASSUME NEW h, NEW links \in Links, Sound(h, links), NEW l \in links, Free(h),
         CanLink(h, l[1], l[2], l[3], l[4]), LinkHangs(h, l[1], l[2], l[3], l[4], TRUE)
  PROVE  JoinedToInherited(links, <<l[1], l[2]>>)
<1> DEFINE te == l[1]
           ts == l[2]
           y == find_binding_cell(h, l[3], l[4])
           h1 == guarantee_cache(h, y)
           v == h1.cell[y]
           s == Shadowed(h1, te, ts)
           n == <<te, ts, "ext">>
           b == NewBinding(h1, te, ts, v)
<1>1. te \in Frames \cup {Global} /\ te \in Env /\ ts \in Symbols /\ l[3] \in Env /\ l[4] \in Symbols
  BY DEF Links, Env
<1>2. y # NoCell
  BY DEF CanLink
<1>3. CellOf(y, BindingFrame(h, l[3], l[4]), l[4]) /\ BindingFrame(h, l[3], l[4]) \in Enclosing[l[3]]
      /\ BindingFrame(h, l[3], l[4]) \in Env
  BY <1>1, <1>2, FindAny
<1>4. y \in Cells \ {Dummy} /\ Joined(links, VarOf(y), <<te, ts>>)
  BY <1>3, JoinedLink DEF CellOf
<1>5. DefineHangs(h1, te, ts, v, TRUE)
  BY DEF LinkHangs
<1>6. /\ Target(h1, te, ts) = NoCell /\ s # NoCell /\ Cached(h1, s)
      /\ MoveHangs(b, cache_of(h1, s), n, te, ts, TRUE)
  BY <1>5 DEF DefineHangs, Target
<1>7. Cached(b, n) /\ cache_of(h1, s) = cache_of(b, n)
  BY <1>6 DEF MoveHangs, Loops
<1>8. te \in Frames
  <2>1. te = Global => Target(h1, te, ts) = <<Global, ts>>
    BY <1>1, ScanGlobal DEF Target
  <2>2. <<Global, ts>> # NoCell
    BY <1>1, GlobalCell, Distinct
  <2>3. QED
    BY <1>1, <1>6, <2>1, <2>2
<1> HIDE DEF y
<1>9. Sound(h1, links) /\ Cached(h1, y)
  BY <1>4, GuaranteeSound
<1> HIDE DEF h1
<1>10. Fits(h1, v, <<te, ts>>, links)
  BY <1>4, <1>9 DEF Fits
<1> HIDE DEF v
<1>11. /\ Sound(b, links) /\ b.trap = h1.trap /\ \A z \in Cells : z # n => b.cell[z] = h1.cell[z]
  <2> HIDE DEF b
  <2>1. BoundOnly(h1, NewBinding(h1, te, ts, v), te, ts, v, links)
    BY <1>1, <1>8, <1>9, <1>10, NewBindingSound
  <2>2. QED
    BY <2>1 DEF b, BoundOnly
<1> HIDE DEF b
<1> DEFINE e == BindingFrame(h1, Parent[te], ts)
<1>12. Parent[te] \in Env
  BY <1>8, EnclosingFrame
<1>13. CellOf(s, e, ts) /\ e \in Enclosing[Parent[te]] /\ e \in Env
  BY <1>1, <1>6, <1>12, FindAny DEF Shadowed
<1>14. s \in Cells \ {Dummy} /\ VarOf(s) = <<e, ts>>
  BY <1>13 DEF CellOf
<1>15. n \in Cells \ {Dummy} /\ VarOf(n) = <<te, ts>>
  BY <1>1, <1>8, ExtCell, DummyCell DEF VarOf
<1>16. e # te
  BY <1>8, <1>13, EnclosingAcyclic
<1>17. s # n
  BY <1>14, <1>15, <1>16
<1> HIDE DEF s, n, e
<1>18. Cached(b, s) /\ cache_of(b, s) = cache_of(h1, s)
  BY <1>6, <1>11, <1>14, <1>17 DEF Cached, cache_of
<1>19. Joined(links, VarOf(n), VarOf(s))
  BY <1>7, <1>11, <1>14, <1>15, <1>18 DEF Sound, SharedOK
<1>20. Joined(links, <<te, ts>>, <<e, ts>>)
  BY <1>14, <1>15, <1>19
<1>21. QED
  BY <1>8, <1>13, <1>20 DEF JoinedToInherited

LEMMA UnbindLoopJoined ==
  ASSUME NEW h, NEW links \in Links, Sound(h, links), NEW e \in Env, NEW sym \in Symbols,
         UnbindHangs(h, e, sym, TRUE)
  PROVE  JoinedToInherited(links, <<BindingFrame(h, e, sym), sym>>)
<1> DEFINE f == BindingFrame(h, e, sym)
           x == find_binding_cell(h, e, sym)
           y == find_binding_cell(h, Parent[f], sym)
           d == BindingFrame(h, Parent[f], sym)
<1>1. /\ f \in Frames /\ Cached(h, x) /\ y # NoCell /\ Cached(h, y)
      /\ cache_of(h, x) = cache_of(h, y)
  BY DEF UnbindHangs, MoveHangs, Loops
<1>2. f \in Env /\ Parent[f] \in Env
  BY <1>1, EnclosingFrame
<1>3. x # NoCell
  <2>1. Stops(h, f, sym)
    BY SearchStops
  <2>2. QED
    BY <1>1, <2>1 DEF Stops, find_binding_cell
<1>4. CellOf(x, f, sym)
  BY <1>3, FindAny
<1>5. CellOf(y, d, sym) /\ d \in Enclosing[Parent[f]] /\ d \in Env
  BY <1>1, <1>2, FindAny
<1> HIDE DEF x, y, d, f
<1>6. x \in Cells \ {Dummy} /\ VarOf(x) = <<f, sym>> /\ y \in Cells \ {Dummy} /\ VarOf(y) = <<d, sym>>
  BY <1>4, <1>5 DEF CellOf
<1>7. Joined(links, VarOf(x), VarOf(y))
  BY <1>1, <1>6 DEF Sound, SharedOK
<1>8. JoinedToInherited(links, <<f, sym>>)
  BY <1>1, <1>5, <1>6, <1>7 DEF JoinedToInherited
<1>9. QED
  BY <1>8 DEF f

LEMMA StrongSound ==
  ASSUME NEW h, NEW links, Sound(h, links), NEW S \in SUBSET Symbols
  PROVE  LET g == [h EXCEPT !.strong = S]
         IN  /\ Sound(g, links) /\ g.cell = h.cell /\ g.ext = h.ext /\ g.trap = h.trap /\ g.val = h.val
             /\ g.strong = S
<1> DEFINE g == [h EXCEPT !.strong = S]
<1>1. /\ g.cell = h.cell /\ g.ext = h.ext /\ g.trap = h.trap /\ g.val = h.val
      /\ g.strong = S /\ Shape(g)
  BY DEF Sound, Shape
<1> HIDE DEF g
<1>2. Sound(g, links)
  BY <1>1 DEF Sound, Alive, SharedOK, Cached, cache_of
<1>3. QED
  BY <1>1, <1>2 DEF g

LEMMA UnbindCellSound ==
  ASSUME NEW h, NEW links \in Links, Sound(h, links), NEW x \in Cells \ {Dummy}
  PROVE  LET g == unbind_variable_1(h, x)
         IN  /\ Sound(g, links) /\ g.val = h.val /\ g.trap = h.trap /\ g.strong = h.strong
             /\ g.cell[x] = Unbound /\ \A y \in Cells : y # x => g.cell[y] = h.cell[y]
<1> DEFINE g == unbind_variable_1(h, x)
<1>1. CASE Len(x) = 3 /\ x[3] = "ext"
  <2>1. g = [h EXCEPT !.ext[x[1]] = @ \ {x[2]}, !.cell[x] = Unbound]
    BY <1>1 DEF unbind_variable_1
  <2>2. QED
    <3> DEFINE X == [h.ext EXCEPT ![x[1]] = @ \ {x[2]}]
    <3>1. X \in [Frames -> SUBSET Symbols]
      BY DEF Sound, Shape
    <3>2. g = [h EXCEPT !.ext = X, !.cell[x] = Unbound]
      BY <2>1
    <3> HIDE DEF X, g
    <3>3. /\ Shape(g) /\ g.trap = h.trap /\ g.val = h.val /\ g.strong = h.strong
          /\ g.cell[x] = Unbound /\ \A y \in Cells : y # x => g.cell[y] = h.cell[y]
      BY <3>1, <3>2 DEF Sound, Shape, Traps
    <3>4. Fits(h, g.cell[x], VarOf(x), links)
      BY <3>3 DEF Fits, Traps
    <3>5. Sound(g, links)
      BY <3>3, <3>4, SetSound
    <3>6. QED
      BY <3>3, <3>5 DEF g
<1>2. CASE ~(Len(x) = 3 /\ x[3] = "ext")
  <2>1. g = [h EXCEPT !.cell[x] = Unbound]
    BY <1>2 DEF unbind_variable_1
  <2>2. Fits(h, Unbound, VarOf(x), links)
    BY DEF Fits, Traps
  <2>3. g.cell[x] = Unbound
    BY <2>1 DEF Sound, Shape
  <2> HIDE DEF g
  <2>4. /\ Sound(g, links) /\ g.val = h.val /\ g.trap = h.trap /\ g.strong = h.strong
        /\ \A y \in Cells : y # x => g.cell[y] = h.cell[y]
    BY <2>1, <2>2, SetCellSound
  <2>5. QED
    BY <2>3, <2>4 DEF g
<1>3. QED
  BY <1>1, <1>2

\* Unbinding a cell unbinds its variable and binds none.
LEMMA UnbindCellGone ==
  ASSUME NEW h, NEW links \in Links, Sound(h, links), NEW x \in Cells \ {Dummy}
  PROVE  LET g == unbind_variable_1(h, x) IN Gone(g, x) /\ BoundNone(h, g)
<1> DEFINE g == unbind_variable_1(h, x)
<1> HIDE DEF g
<1>1. /\ Sound(g, links) /\ g.val = h.val /\ g.trap = h.trap
      /\ g.cell[x] = Unbound /\ \A y \in Cells : y # x => g.cell[y] = h.cell[y]
  BY UnbindCellSound DEF g
<1>2. Gone(g, x)
  BY <1>1, Distinct DEF Gone, Cached, Traps
<1>3. \A y \in Cells : y # x /\ Gone(h, y) => Gone(g, y)
  BY <1>1, GoneSame DEF cache_of
<1>4. QED
  BY <1>2, <1>3 DEF BoundNone, g

\* The symbol of a global variable becomes weak, and the variable is unbound then.
Unbinds(h, g, f, sym) ==
  /\ BoundNone(h, g)
  /\ f # Global => g.strong = h.strong
  /\ f = Global => g.strong = h.strong \ {sym} /\ Gone(g, <<Global, sym>>)
  /\ \A n \in Symbols : g.cell[<<Global, n>>] # Unbound => h.cell[<<Global, n>>] # Unbound \/ n = sym

LEMMA UnbindsKeeps ==
  ASSUME NEW h, NEW g, NEW f, NEW sym, Unbinds(h, g, f, sym), NEW N, sym \notin N, NEW I
  PROVE  (Held(h, N) => Held(g, N)) /\ (Firm(h, I) => Firm(g, I))
<1>1. \A n \in Symbols : <<Global, n>> \in Cells
  BY GlobalCell
<1>2. Held(h, N) => Held(g, N)
  BY DEF Held, Unbinds
<1>3. ASSUME Firm(h, I) PROVE Firm(g, I)
  <2>1. ASSUME NEW n \in Symbols, n \in I, ~Gone(g, <<Global, n>>) PROVE n \in g.strong
    <3>1. ~Gone(h, <<Global, n>>)
      BY <1>1, <2>1 DEF Unbinds, BoundNone
    <3>2. n \in h.strong
      BY <1>3, <2>1, <3>1 DEF Firm
    <3>3. QED
      BY <2>1, <3>2 DEF Unbinds
  <2>2. QED
    BY <2>1 DEF Firm
<1>4. QED
  BY <1>2, <1>3

LEMMA UnbindSound ==
  ASSUME NEW h, NEW links \in Links, Sound(h, links), NEW e \in Env, NEW sym \in Symbols, Free(h)
  PROVE  LET g == unbind_variable(h, e, sym)
         IN  Sound(g, links) /\ Unbinds(h, g, BindingFrame(h, e, sym), sym)
<1> DEFINE f == BindingFrame(h, e, sym)
           x == find_binding_cell(h, e, sym)
           S == h.strong \ {sym}
           k == IF f = Global THEN [h EXCEPT !.strong = S] ELSE h
           g == unbind_variable(h, e, sym)
<1>1. /\ Sound(k, links) /\ k.cell = h.cell /\ k.ext = h.ext /\ k.trap = h.trap /\ k.val = h.val
      /\ k.strong = IF f = Global THEN S ELSE h.strong
  <2>1. S \in SUBSET Symbols
    BY DEF Sound, Shape
  <2> HIDE DEF S
  <2>2. QED
    BY <2>1, StrongSound
<1>2. /\ x # NoCell => x \in Cells \ {Dummy} /\ f \in Env /\ CellOf(x, f, sym)
      /\ f = Global => x = <<Global, sym>> /\ x # NoCell
  <2>1. f = Global => x = <<Global, sym>>
    BY Distinct DEF find_binding_cell, scan_frame
  <2>2. <<Global, sym>> # NoCell
    BY GlobalCell, Distinct
  <2>3. QED
    BY <2>1, <2>2, FindAny DEF CellOf
<1>3. \/ g = k /\ (x # NoCell => Gone(h, x))
      \/ x # NoCell /\ ~Cached(h, x) /\ g = unbind_variable_1(k, x)
      \/ x # NoCell /\ f \in Frames /\ g = unbind_cached_variable(k, x, f, sym)
      \/ x # NoCell /\ Cached(h, x) /\ g = [k EXCEPT !.val[cache_of(h, x)] = Unbound]
  BY DEF unbind_variable, Gone
<1>4. BoundNone(h, k) /\ (\A y \in Cells : Gone(k, y) <=> Gone(h, y)) /\ Global \notin Frames
  BY <1>1, Distinct DEF BoundNone, Gone, Cached, cache_of
<1> HIDE DEF k, x, g, f
<1>5. CASE g = k /\ (x # NoCell => Gone(h, x))
  <2>1. f = Global => Gone(g, <<Global, sym>>)
    BY <1>2, <1>4, <1>5
  <2>2. QED
    BY <1>1, <1>4, <1>5, <2>1 DEF g, f, Unbinds
<1>6. CASE x # NoCell /\ ~Cached(h, x) /\ g = unbind_variable_1(k, x)
  <2>1. /\ Sound(g, links) /\ g.strong = k.strong /\ g.cell[x] = Unbound
        /\ \A y \in Cells : y # x => g.cell[y] = k.cell[y]
    BY <1>1, <1>2, <1>6, UnbindCellSound
  <2>2. Gone(g, x) /\ BoundNone(k, g)
    BY <1>1, <1>2, <1>6, UnbindCellGone
  <2>3. \A n \in Symbols : g.cell[<<Global, n>>] # Unbound => h.cell[<<Global, n>>] # Unbound
    <3>1. ASSUME NEW n \in Symbols, g.cell[<<Global, n>>] # Unbound PROVE h.cell[<<Global, n>>] # Unbound
      <4>1. <<Global, n>> \in Cells
        BY GlobalCell
      <4> DEFINE z == <<Global, n>>
      <4> HIDE DEF z
      <4>2. z \in Cells /\ g.cell[z] # Unbound
        BY <3>1, <4>1 DEF z
      <4>3. h.cell[z] # Unbound
        BY <1>1, <2>1, <4>2
      <4>4. QED
        BY <4>3 DEF z
    <3>2. QED
      BY <3>1
  <2>4. QED
    BY <1>1, <1>2, <1>4, <2>1, <2>2, <2>3 DEF g, f, Unbinds, BoundNone
<1>7. CASE x # NoCell /\ f \in Frames /\ g = unbind_cached_variable(k, x, f, sym)
  <2> DEFINE b == unbind_variable_1(k, x)
             y == find_binding_cell(k, Parent[f], sym)
             c == cache_of(k, x)
  <2>1. g = update_cache_references(b, c, y, f, sym)
    BY <1>7 DEF unbind_cached_variable
  <2>2. /\ Sound(b, links) /\ b.val = h.val /\ b.strong = k.strong
        /\ \A z \in Cells : z # x => b.cell[z] = k.cell[z]
    BY <1>1, <1>2, <1>7, UnbindCellSound
  <2>3. Parent[f] \in Env
    BY <1>7, EnclosingFrame
  <2>4. y \in Cells \cup {NoCell} /\ \A n \in Symbols : y = <<Global, n>> => n = sym
    <3>1. y = NoCell \/ \E d : CellOf(y, d, sym)
      BY <2>3, FindAny
    <3>2. \A n \in Symbols : NoCell # <<Global, n>>
      BY GlobalCell, Distinct
    <3>3. QED
      BY <3>1, <3>2 DEF CellOf
  <2>5. Free(b)
    BY <2>2 DEF Free
  <2>6. BoundNone(k, b)
    BY <1>1, <1>2, <1>7, UnbindCellGone
  <2> HIDE DEF b, y, c
  <2>7. /\ Sound(g, links) /\ g.strong = b.strong /\ BoundNone(b, g)
        /\ \A z \in Cells : z # y => g.cell[z] = b.cell[z]
    BY <2>1, <2>2, <2>4, <2>5, UpdateRefsSound
  <2>8. ASSUME NEW n \in Symbols, n # sym PROVE g.cell[<<Global, n>>] = h.cell[<<Global, n>>]
    <3>1. <<Global, n>> \in Cells /\ <<Global, n>> # x /\ <<Global, n>> # y
      BY <1>2, <1>4, <1>7, <2>4, <2>8, GlobalCell DEF CellOf
    <3>2. QED
      BY <1>1, <2>2, <2>7, <3>1
  <2>9. QED
    BY <1>1, <1>4, <1>7, <2>2, <2>6, <2>7, <2>8 DEF g, f, Unbinds, BoundNone
<1>8. CASE x # NoCell /\ Cached(h, x) /\ g = [k EXCEPT !.val[cache_of(h, x)] = Unbound]
  <2> DEFINE c == cache_of(h, x)
  <2>1. Calm(k, g) /\ g.val = [k.val EXCEPT ![c] = Unbound] /\ c \in Caches
    <3>1. Cached(h, x) /\ x \in Cells /\ h.cell[x] \in Caches /\ c \in Caches
      BY <1>1, <1>2, <1>8 DEF Cached, cache_of, Sound, Shape
    <3>2. QED
      BY <1>1, <1>8, <3>1, CalmVal DEF Sound, Shape, Traps
  <2>2. /\ Sound(g, links) /\ g.strong = k.strong /\ g.cell = h.cell /\ g.trap = h.trap
        /\ k.val \in [Caches -> Values \cup Traps \cup {NoCell}]
    BY <1>1, <2>1, CalmSound DEF Calm, Sound, Shape
  <2>3. Gone(g, x) /\ BoundNone(h, g)
    <3>1. g.val[c] = Unbound /\ \A d \in Caches : g.val[d] = h.val[d] \/ g.val[d] = Unbound
      BY <1>1, <2>1, <2>2
    <3>2. ASSUME NEW y \in Cells, Cached(h, y) PROVE cache_of(h, y) \in Caches
      BY <1>1, <2>2, <3>2 DEF Cached, cache_of, Sound, Shape
    <3> HIDE DEF c
    <3>3. Gone(g, x)
      BY <1>8, <2>2, <3>1 DEF Gone, Cached, cache_of, c
    <3>4. ASSUME NEW y \in Cells, Gone(h, y) PROVE Gone(g, y)
      BY <2>2, <3>1, <3>2, <3>4 DEF Gone, Cached, cache_of
    <3>5. QED
      BY <3>3, <3>4 DEF BoundNone
  <2>4. QED
    BY <1>1, <1>2, <2>2, <2>3 DEF g, f, Unbinds
<1>9. QED
  BY <1>3, <1>5, <1>6, <1>7, <1>8

LEMMA AddReferenceSound ==
  ASSUME NEW h, NEW links, Sound(h, links), NEW s \in Sites, Free(h), NEW N, NEW I
  PROVE  LET g == add_cache_reference(h, s)
         IN  Sound(g, links) /\ (Held(h, N) => Held(g, N)) /\ Steady(h, g, I)
<1> DEFINE kind == KindOf(s)
           found == find_binding_cell(h, SiteEnv(s), s.name)
           x == IF found = NoCell THEN Dummy ELSE found
           h1 == guarantee_cache(h, x)
           c == cache_of(h1, x)
           S == IF x = <<Global, s.name>> THEN h1.strong \cup {s.name} ELSE h1.strong
           R == [h1.refs EXCEPT ![c][kind] = add_references(@, s.name, {s})]
           a == [h1 EXCEPT !.strong = S]
           b == [a EXCEPT !.refs = R]
           h2 == update_clone(b, c)
           g == add_cache_reference(h, s)
<1>1. SiteEnv(s) \in Env /\ s.name \in Symbols
  BY SiteType
<1>2. Dummy \in Cells
  BY DEF Cells
<1>3. g = InstallAll(update_clone([h1 EXCEPT !.refs[c][kind] = add_references(@, s.name, {s}), !.strong = S], c),
                     c, kind, {s})
  BY DEF add_cache_reference, KindOf, SiteEnv
<1>4. [h1 EXCEPT !.refs[c][kind] = add_references(@, s.name, {s}), !.strong = S] = b
  OBVIOUS
<1>5. g = InstallAll(h2, c, kind, {s})
  BY <1>3, <1>4
<1>6. x \in Cells /\ \A n \in Symbols : x = <<Global, n>> => n = s.name
  <2>1. CASE found = NoCell
    BY <1>2, <2>1, DummyCell
  <2>2. CASE found # NoCell
    <3>1. CellOf(found, BindingFrame(h, SiteEnv(s), s.name), s.name)
      BY <1>1, <2>2, FindAny
    <3>2. QED
      BY <2>2, <3>1 DEF CellOf
  <2>3. QED
    BY <2>1, <2>2
<1> HIDE DEF x, g, kind
<1>7. /\ Sound(h1, links) /\ h1.strong = h.strong /\ BoundNone(h, h1) /\ \A z \in Cells : z # x => h1.cell[z] = h.cell[z]
  BY <1>6, GuaranteeSound
<1> HIDE DEF h1, c
<1>8. S \in SUBSET Symbols /\ h.strong \subseteq S /\ (x = <<Global, s.name>> => s.name \in S)
  BY <1>1, <1>7 DEF Sound, Shape
<1> HIDE DEF S
<1>9. Sound(a, links) /\ a.cell = h1.cell /\ a.trap = h1.trap /\ a.val = h1.val /\ a.strong = S
  BY <1>7, <1>8, StrongSound
<1> HIDE DEF a, R
<1>10. Still(a, b)
  BY <1>9, StillFields DEF Sound
<1> HIDE DEF b
<1>11. Still(b, h2)
  BY <1>10, CloneStill DEF Still, Calm
<1> HIDE DEF h2
<1>12. Still(h2, g)
  BY <1>5, <1>11, InstallStill DEF Still, Calm
<1>13. Still(a, g)
  BY <1>10, <1>11, <1>12, StillTrans
<1>14. Sound(g, links) /\ (Held(a, N) => Held(g, N))
  BY <1>9, <1>13, CalmSound DEF Still
<1>15. ASSUME Held(h, N) PROVE Held(a, N)
  <2>1. \A n \in Symbols : n \in N /\ x = <<Global, n>> => n \in a.strong
    BY <1>6, <1>8, <1>9
  <2>2. \A z \in Cells : z # x => a.cell[z] = h.cell[z]
    BY <1>7, <1>9
  <2>3. QED
    BY <1>8, <1>9, <1>15, <2>1, <2>2, HeldSet
<1>16. Steady(h, g, I)
  <2>1. BoundNone(h1, a) /\ BoundNone(a, g)
    BY <1>9, <1>13, StillGone DEF BoundNone, Gone, Cached, cache_of
  <2>2. BoundNone(h, g) /\ h.strong \subseteq g.strong
    BY <1>7, <1>8, <1>9, <1>13, <2>1 DEF BoundNone, Still, Calm
  <2>3. QED
    BY <2>2, BoundNoneSteady
<1>17. QED
  BY <1>14, <1>15, <1>16 DEF g

LEMMA WithoutBlockSound ==
  ASSUME NEW h, NEW links, Sound(h, links), NEW b, NEW N, NEW I
  PROVE  LET g == WithoutBlock(h, b)
         IN  Sound(g, links) /\ (Held(h, N) => Held(g, N)) /\ Steady(h, g, I)
<1> DEFINE dead == {s \in Sites : s.block = b}
           L == [s \in Sites |-> IF s \in dead THEN NoSlot ELSE h.slot[s]]
           R == [c \in Caches |-> [k \in Kinds |-> WithoutSites(h.refs[c][k], dead)]]
           a == [h EXCEPT !.slot = L]
           g == WithoutBlock(h, b)
<1>1. g = [a EXCEPT !.refs = R]
  BY DEF WithoutBlock, NoSlot, WithoutSites
<1> HIDE DEF L, R, g
<1>2. Still(h, a)
  BY StillFields DEF Sound
<1> HIDE DEF a
<1>3. Shape(a)
  BY <1>2 DEF Still, Calm
<1>4. Still(a, g)
  BY <1>1, <1>3, StillFields
<1>5. Still(h, g)
  BY <1>2, <1>4, StillTrans
<1>6. QED
  BY <1>5, CalmSound, StillGone, BoundNoneSteady DEF g, Still, Calm

LEMMA ReclaimedSound ==
  ASSUME NEW h, NEW links, Sound(h, links), NEW N, NEW I
  PROVE  LET g == Reclaimed(h) IN Sound(g, links) /\ (Held(h, N) => Held(g, N)) /\ Steady(h, g, I)
<1> DEFINE h1 == [h EXCEPT !.cell[Dummy] = Unbound]
           C == [h.cell EXCEPT ![Dummy] = Unbound]
           T == {C[x] : x \in Cells} \cap Caches
           U == {h.trap[t] : t \in T} \cup {h.slot[s].id : s \in {r \in Sites : h.slot[r].to # "proc"}}
           trap == [t \in Caches |-> IF t \in T THEN h.trap[t] ELSE t]
           val == [c \in Caches |-> IF c \in U THEN h.val[c] ELSE IF c \in T THEN Unbound ELSE NoCell]
           clone == [c \in Caches |-> c \in U /\ h.clone[c]]
           refs == [c \in Caches |-> IF c \in U THEN h.refs[c] ELSE [k \in Kinds |-> <<>>]]
           g == Reclaimed(h)
<1>1. Dummy \in Cells /\ Unbound \in Traps
  BY DEF Cells, Traps
<1>2. C \in [Cells -> Values \cup Traps \cup Caches] /\ C[Dummy] = Unbound /\ \A y \in Cells : y # Dummy => C[y] = h.cell[y]
  BY <1>1 DEF Sound, Shape
<1>3. trap \in [Caches -> Caches] /\ \A t \in T : trap[t] = h.trap[t]
  BY DEF Sound, Shape
<1>4. /\ val \in [Caches -> Values \cup Traps \cup {NoCell}]
      /\ \A c \in Caches : (c \in U => val[c] = h.val[c]) /\ (c \in T /\ c \notin U => val[c] = Unbound)
  BY <1>1 DEF Sound, Shape
<1>5. g = [h EXCEPT !.cell = C, !.trap = trap, !.val = val, !.clone = clone, !.refs = refs]
  <2>1. h1.cell = C /\ h1.trap = h.trap /\ h1.slot = h.slot /\ h1.val = h.val /\ h1.clone = h.clone /\ h1.refs = h.refs
    BY DEF Sound, Shape
  <2>2. QED
    BY <2>1 DEF Reclaimed
<1>6. \A y \in Cells : C[y] \in Caches => C[y] \in T /\ h.trap[C[y]] \in U
  OBVIOUS
<1> HIDE DEF C, trap, val, clone, refs, g, U, T
<1>7. /\ Shape(g) /\ g.strong = h.strong /\ g.cell = C /\ g.trap = trap /\ g.val = val
  BY <1>2, <1>3, <1>4, <1>5 DEF Sound, Shape
<1>8. ASSUME NEW y \in Cells, Cached(g, y)
      PROVE  /\ y # Dummy /\ Cached(h, y) /\ cache_of(g, y) = cache_of(h, y)
             /\ g.val[g.cell[y]] # NoCell /\ g.val[g.trap[g.cell[y]]] # NoCell
             /\ g.val[cache_of(h, y)] = h.val[cache_of(h, y)]
  <2>1. C[y] \in Caches /\ C[y] \in T /\ h.trap[C[y]] \in U
    BY <1>6, <1>7, <1>8 DEF Cached
  <2>2. y # Dummy
    BY <1>1, <1>2, <2>1, Distinct
  <2>3. C[y] = h.cell[y] /\ Cached(h, y)
    BY <1>2, <2>1, <2>2 DEF Cached
  <2>4. h.trap[h.cell[y]] \in Caches /\ h.val[h.cell[y]] # NoCell /\ h.val[h.trap[h.cell[y]]] # NoCell
    BY <2>1, <2>3 DEF Sound, Shape, Alive
  <2>5. val[h.cell[y]] # NoCell
    BY <1>1, <1>4, <2>1, <2>3, <2>4, Distinct
  <2>6. val[h.trap[h.cell[y]]] # NoCell /\ val[h.trap[h.cell[y]]] = h.val[h.trap[h.cell[y]]]
    BY <1>4, <2>1, <2>3, <2>4
  <2>7. QED
    BY <1>3, <1>7, <2>1, <2>2, <2>3, <2>5, <2>6 DEF cache_of
<1>9. Alive(g) /\ SharedOK(g, links)
  BY <1>8 DEF Alive, SharedOK, Sound
<1>10. Held(h, N) => Held(g, N)
  <2>1. \A n \in Symbols : g.cell[<<Global, n>>] = h.cell[<<Global, n>>]
    <3>1. ASSUME NEW n \in Symbols PROVE g.cell[<<Global, n>>] = h.cell[<<Global, n>>]
      <4>1. <<Global, n>> \in Cells /\ <<Global, n>> # Dummy
        BY GlobalCell, DummyCell
      <4>2. QED
        BY <1>2, <1>7, <4>1
    <3>2. QED
      BY <3>1
  <2>2. QED
    BY <1>7, <2>1 DEF Held
<1>11. Steady(h, g, I)
  <2>1. ASSUME NEW y \in Cells, Gone(h, y) PROVE Gone(g, y)
    <3>1. CASE y = Dummy
      BY <1>1, <1>2, <1>7, <3>1, Distinct DEF Gone, Cached
    <3>2. CASE y # Dummy
      <4>1. g.cell[y] = h.cell[y]
        BY <1>2, <1>7, <3>2
      <4>2. Cached(h, y) => Cached(g, y)
        BY <4>1 DEF Cached
      <4>3. QED
        BY <1>8, <2>1, <4>1, <4>2, GoneSame
    <3>3. QED
      BY <3>1, <3>2
  <2>2. QED
    BY <1>7, <2>1, BoundNoneSteady DEF BoundNone
<1>12. QED
  BY <1>7, <1>9, <1>10, <1>11 DEF Sound, g

\* The invariant of all programs.
NeverUnbound(w) == {n \in Symbols : \A u \in w.unbind : u[2] # n}
Anywhere ==
  /\ load \in Workloads
  /\ Sound(heap, load.link) /\ Held(heap, NeverUnbound(load)) /\ Firm(heap, Lone(load.link))
  /\ OnlyInheritedLinksLoop

LEMMA LinkType ==
  ASSUME NEW ld \in Workloads
  PROVE  ld.link \in Links
  BY EnvAssumption DEF Links

LEMMA InitAnywhere == Init => Anywhere
<1> SUFFICES ASSUME Init PROVE Anywhere
  OBVIOUS
<1>1. load \in Workloads /\ heap = NoHeap /\ hung = {}
  BY DEF Init
<1>2. heap \in HeapType /\ CellsOK(heap)
  BY <1>1, StartGood DEF Good, HeapOK
<1> DEFINE C == [x \in Cells |-> IF Len(x) = 3 /\ x[3] = "arg" /\ x[2] \in Params[x[1]]
                                 THEN Unassigned ELSE Unbound]
<1>3. heap.cell = C
  BY <1>1 DEF NoHeap
<1>4. \A x \in Cells : C[x] \in Traps
  BY DEF Traps
<1>5. ASSUME NEW n \in Symbols PROVE C[<<Global, n>>] = Unbound
  <2>1. <<Global, n>> \in Cells
    BY GlobalCell
  <2>2. Len(<<Global, n>>) = 2
    OBVIOUS
  <2>3. QED
    BY <2>1, <2>2
<1> HIDE DEF C
<1>6. Shape(heap)
  BY <1>2 DEF HeapType, Shape
<1>7. \A x \in Cells : ~Cached(heap, x)
  BY <1>3, <1>4, Distinct DEF Cached
<1>8. Sound(heap, load.link)
  BY <1>6, <1>7 DEF Sound, Alive, SharedOK
<1>9. Held(heap, NeverUnbound(load)) /\ Firm(heap, Lone(load.link))
  <2>1. \A n \in Symbols : heap.cell[<<Global, n>>] = Unbound /\ ~Cached(heap, <<Global, n>>)
    BY <1>3, <1>5, <1>7, GlobalCell
  <2>2. QED
    BY <2>1 DEF Held, Firm, Gone
<1>10. QED
  BY <1>1, <1>8, <1>9 DEF Anywhere, OnlyInheritedLinksLoop

LEMMA StepAnywhere ==
  ASSUME Anywhere, NEW h, Sound(h, load.link), Held(h, NeverUnbound(load)), Firm(h, Lone(load.link)), Step(h)
  PROVE  Anywhere'
<1>1. heap' = Reclaimed(h) /\ load' = load /\ hung' = {}
  BY DEF Step
<1> DEFINE g == Reclaimed(h)
<1>2. Sound(g, load.link) /\ Held(g, NeverUnbound(load)) /\ Steady(h, g, Lone(load.link))
  BY ReclaimedSound
<1> HIDE DEF g
<1>3. Firm(g, Lone(load.link))
  BY <1>2, SteadyFirm
<1>4. heap' = g
  BY <1>1 DEF g
<1>5. QED
  BY <1>1, <1>2, <1>3, <1>4 DEF Anywhere, OnlyInheritedLinksLoop

\* A step that makes a symbol strong before it binds its variable, and no symbol weak.
LEMMA SteadyAnywhere ==
  ASSUME Anywhere, NEW h, Sound(h, load.link), Held(heap, NeverUnbound(load)) => Held(h, NeverUnbound(load)),
         Steady(heap, h, Lone(load.link)), Step(h)
  PROVE  Anywhere'
<1>1. Held(h, NeverUnbound(load)) /\ Firm(h, Lone(load.link))
  BY SteadyFirm DEF Anywhere
<1>2. QED
  BY <1>1, StepAnywhere

LEMMA HangAnywhere ==
  ASSUME Anywhere, NEW e, NEW sym, Hang(e, sym), JoinedToInherited(load.link, <<e, sym>>)
  PROVE  Anywhere'
<1>1. heap' = heap /\ load' = load /\ hung' = {<<e, sym>>}
  BY DEF Hang
<1>2. OnlyInheritedLinksLoop'
  BY <1>1 DEF OnlyInheritedLinksLoop
<1>3. QED
  BY <1>1, <1>2 DEF Anywhere

LEMMA NextAnywhere == Anywhere /\ [Next]_vars => Anywhere'
<1> SUFFICES ASSUME Anywhere, [Next]_vars PROVE Anywhere'
  OBVIOUS
<1> DEFINE N == NeverUnbound(load)
           I == Lone(load.link)
<1>1. /\ load \in Workloads /\ load.link \in Links /\ Sound(heap, load.link)
      /\ Held(heap, N) /\ Firm(heap, I)
  BY LinkType DEF Anywhere
<1>2. CASE UNCHANGED vars
  BY <1>2 DEF vars, Anywhere, OnlyInheritedLinksLoop
<1>3. CASE Assign
  <2>1. PICK d \in load.define, v \in load.assign : Step(assign_variable(heap, d[1], d[2], v))
    BY <1>3 DEF Assign
  <2>2. d[1] \in Env /\ d[2] \in Symbols /\ v \in Values \cup Traps
    BY <1>1, <2>1, WorkloadType
  <2>3. LET g == assign_variable(heap, d[1], d[2], v) IN Sound(g, load.link) /\ (Held(heap, N) => Held(g, N)) /\ Steady(heap, g, I)
    BY <1>1, <2>2, AssignSound
  <2>4. QED
    BY <1>1, <2>1, <2>3, SteadyAnywhere
<1>4. CASE Define
  <2>1. PICK d \in load.define, v \in load.assign : Step(define_variable(heap, d[1], d[2], v))
    BY <1>4 DEF Define
  <2>2. d[1] \in Frames \cup {Global} /\ d[2] \in Symbols /\ v \in Values \cup Traps
    BY <1>1, <2>1, WorkloadType
  <2>3. Free(heap)
    BY <2>1, RoomOK DEF Step, Free
  <2>4. Fits(heap, v, <<d[1], d[2]>>, load.link)
    BY <2>2 DEF Fits
  <2>5. LET g == define_variable(heap, d[1], d[2], v) IN Sound(g, load.link) /\ (Held(heap, N) => Held(g, N)) /\ Steady(heap, g, I)
    BY <1>1, <2>2, <2>3, <2>4, DefineSound
  <2>6. QED
    BY <1>1, <2>1, <2>5, SteadyAnywhere
<1>5. CASE Link
  <2>1. PICK l \in load.link : /\ CanLink(heap, l[1], l[2], l[3], l[4])
                               /\ Step(link_variables(heap, l[1], l[2], l[3], l[4]))
    BY <1>5 DEF Link
  <2>2. Free(heap)
    BY <2>1, RoomOK DEF Step, Free
  <2>3. LET g == link_variables(heap, l[1], l[2], l[3], l[4]) IN Sound(g, load.link) /\ (Held(heap, N) => Held(g, N)) /\ Steady(heap, g, I)
    BY <1>1, <2>1, <2>2, LinkSound
  <2>4. QED
    BY <1>1, <2>1, <2>3, SteadyAnywhere
<1>6. CASE LinkLoops
  <2>1. PICK l \in load.link : /\ CanLink(heap, l[1], l[2], l[3], l[4])
                               /\ LinkHangs(heap, l[1], l[2], l[3], l[4], TRUE)
                               /\ Hang(l[1], l[2])
    BY <1>6 DEF LinkLoops
  <2>2. Free(heap)
    BY <2>1, RoomOK DEF Hang, Free
  <2>3. QED
    BY <1>1, <2>1, <2>2, LinkLoopJoined, HangAnywhere
<1>7. CASE LinkInterrupted
  <2>1. PICK l \in load.link : /\ CanLink(heap, l[1], l[2], l[3], l[4])
                               /\ Step(guarantee_cache(Strengthened(heap, l[1], l[2]), find_binding_cell(heap, l[3], l[4])))
    BY <1>7 DEF LinkInterrupted
  <2>2. Free(heap)
    BY <2>1, RoomOK DEF Step, Free
  <2>3. LET g == guarantee_cache(Strengthened(heap, l[1], l[2]), find_binding_cell(heap, l[3], l[4]))
        IN  Sound(g, load.link) /\ (Held(heap, N) => Held(g, N)) /\ Steady(heap, g, I)
    BY <1>1, <2>1, <2>2, LinkInterruptedSound
  <2>4. QED
    BY <1>1, <2>1, <2>3, SteadyAnywhere
<1>8. CASE Unbind
  <2>1. PICK u \in load.unbind : Step(unbind_variable(heap, u[1], u[2]))
    BY <1>8 DEF Unbind
  <2>2. u[1] \in Env /\ u[2] \in Symbols /\ u[2] \notin N
    BY <1>1, <2>1, WorkloadType DEF NeverUnbound
  <2>3. Free(heap)
    BY <2>1, RoomOK DEF Step, Free
  <2> DEFINE g == unbind_variable(heap, u[1], u[2])
             f == BindingFrame(heap, u[1], u[2])
  <2>4. Sound(g, load.link) /\ Unbinds(heap, g, f, u[2])
    BY <1>1, <2>2, <2>3, UnbindSound
  <2> HIDE DEF g, f, N, I
  <2>5. Held(g, N) /\ Firm(g, I)
    BY <1>1, <2>2, <2>4, UnbindsKeeps
  <2>6. QED
    BY <2>1, <2>4, <2>5, StepAnywhere DEF g, N, I
<1>9. CASE UnbindLoops
  <2>1. PICK u \in load.unbind : /\ UnbindHangs(heap, u[1], u[2], TRUE)
                                 /\ Hang(BindingFrame(heap, u[1], u[2]), u[2])
    BY <1>9 DEF UnbindLoops
  <2>2. u[1] \in Env /\ u[2] \in Symbols
    BY <1>1, <2>1, WorkloadType
  <2>3. JoinedToInherited(load.link, <<BindingFrame(heap, u[1], u[2]), u[2]>>)
    BY <1>1, <2>1, <2>2, UnbindLoopJoined
  <2>4. QED
    BY <2>1, <2>3, HangAnywhere
<1>10. CASE LinkBlock
  <2>1. PICK s \in load.sites : Step(add_cache_reference(heap, s))
    BY <1>10 DEF LinkBlock
  <2>2. s \in Sites /\ Free(heap)
    BY <1>1, <2>1, WorkloadType, RoomOK DEF Step, Free
  <2>3. LET g == add_cache_reference(heap, s) IN Sound(g, load.link) /\ (Held(heap, N) => Held(g, N)) /\ Steady(heap, g, I)
    BY <1>1, <2>2, AddReferenceSound
  <2>4. QED
    BY <1>1, <2>1, <2>3, SteadyAnywhere
<1>11. CASE CompiledAssign
  <2>1. PICK s \in load.sites, v \in load.assign :
          \/ heap.val[heap.slot[s].id] \notin Traps /\ Step([heap EXCEPT !.val[heap.slot[s].id] = v])
          \/ Step(assign_variable_cache(heap, heap.slot[s].id, v, FALSE))
    BY <1>11 DEF CompiledAssign
  <2>2. v \in Values \cup Traps
    BY <1>1, <2>1, WorkloadType
  <2> DEFINE c == heap.slot[s].id
             a == [heap EXCEPT !.val[c] = v]
             b == assign_variable_cache(heap, c, v, FALSE)
  <2>3. PICK g : /\ Step(g) /\ Calm(heap, g)
                 /\ g.val = heap.val \/ (Writable(heap.val[c], FALSE) /\ g.val = [heap.val EXCEPT ![c] = v])
    <3>1. CASE heap.val[c] \notin Traps /\ Step(a)
      <4>1. Calm(heap, a) /\ a.val = [heap.val EXCEPT ![c] = v]
        BY <1>1, <2>2, CalmVal DEF Sound, Shape
      <4>2. Writable(heap.val[c], FALSE)
        BY <3>1 DEF Writable, Traps
      <4>3. QED
        BY <3>1, <4>1, <4>2
    <3>2. CASE Step(b)
      <4>1. /\ Calm(heap, b)
            /\ b.val = heap.val \/ (Writable(heap.val[c], FALSE) /\ b.val = [heap.val EXCEPT ![c] = v])
        <5>1. Shape(heap)
          BY <1>1 DEF Sound
        <5>2. WroteCache(heap, b, c, v, FALSE)
          BY <2>2, <5>1, AssignCacheCalm
        <5>3. QED
          BY <5>2 DEF WroteCache
      <4>2. QED
        BY <3>2, <4>1
    <3>3. QED
      BY <2>1, <3>1, <3>2
  <2> HIDE DEF c
  <2>4. BoundNone(heap, g)
    BY <1>1, <2>3, GoneCache DEF BoundNone, Sound
  <2>5. Sound(g, load.link) /\ (Held(heap, N) => Held(g, N)) /\ Steady(heap, g, I)
    BY <1>1, <2>3, <2>4, CalmSound, BoundNoneSteady DEF Calm
  <2>6. QED
    BY <1>1, <2>3, <2>5, SteadyAnywhere
<1>12. CASE BlockDies
  <2>1. PICK b : Step(WithoutBlock(heap, b))
    BY <1>12 DEF BlockDies
  <2>2. LET g == WithoutBlock(heap, b) IN Sound(g, load.link) /\ (Held(heap, N) => Held(g, N)) /\ Steady(heap, g, I)
    BY <1>1, WithoutBlockSound
  <2>3. QED
    BY <1>1, <2>1, <2>2, SteadyAnywhere
<1>13. QED
  BY <1>2, <1>3, <1>4, <1>5, <1>6, <1>7, <1>8, <1>9, <1>10, <1>11, <1>12 DEF Next

\* Cells that share a cache were made one by links, in every program: no definition,
\* assignment, unbinding, linking or collection joins other variables.
THEOREM CachesShared == Spec => []Anywhere
<1>1. QED
  BY InitAnywhere, NextAnywhere, PTL DEF Spec

\* link_variables, define_variable and unbind_variable loop for ever over the references
\* only when links have joined a variable to the one of its name that it inherits, in
\* every program.
THEOREM LoopsOnlyInherited == Spec => []OnlyInheritedLinksLoop
<1>1. Anywhere => OnlyInheritedLinksLoop
  BY DEF Anywhere
<1>2. QED
  BY <1>1, CachesShared, PTL

LEMMA GoneUnbound ==
  ASSUME NEW h, NEW sym \in Symbols, Gone(h, <<Global, sym>>)
  PROVE  variable_unbound_p(h, Global, sym)
<1>1. Global \in Env /\ Global \notin Frames
  BY Distinct DEF Env
<1>2. BindingFrame(h, Global, sym) = Global
  BY <1>1, BindingFrameType, EnclosingTop
<1> DEFINE x == <<Global, sym>>
<1>3. find_binding_cell(h, Global, sym) = x
  BY <1>1, <1>2, ScanGlobal DEF find_binding_cell
<1>4. x # NoCell /\ Gone(h, x)
  BY GlobalCell, Distinct
<1> HIDE DEF x
<1>5. lookup_variable(h, Global, sym) = lookup_value(Unbound)
  BY <1>3, <1>4 DEF lookup_variable, lookup_variable_cache, Gone
<1>6. lookup_value(Unbound)[1] = "ERR_UNBOUND_VARIABLE"
  BY Distinct DEF lookup_value
<1>7. QED
  BY <1>5, <1>6 DEF variable_unbound_p

\* A symbol that has a global binding is held strongly by the obarray, in every program:
\* strengthen_symbol comes before every global binding is made, and weaken_symbol before
\* one is unbound, so that only a variable that links have made one with another, and
\* that the program unbinds, can be bound with a weak symbol.
THEOREM SymbolsHeld == Spec => []BoundSymbolsHeld
<1>1. ASSUME Anywhere, NEW sym \in Symbols, ~variable_unbound_p(heap, Global, sym), sym \notin heap.strong
      PROVE  /\ \E u \in load.unbind : u[2] = sym
             /\ \E v \in (Env \X Symbols) \ {<<Global, sym>>} : Joined(load.link, <<Global, sym>>, v)
  <2>1. ~Gone(heap, <<Global, sym>>)
    BY <1>1, GoneUnbound
  <2>2. sym \notin Lone(load.link)
    BY <1>1, <2>1 DEF Anywhere, Firm
  <2>3. heap.cell[<<Global, sym>>] # Unbound
    BY <2>1, Distinct DEF Gone, Cached, Traps
  <2>4. sym \notin NeverUnbound(load)
    BY <1>1, <2>3 DEF Anywhere, Held
  <2>5. QED
    BY <2>2, <2>4 DEF Lone, NeverUnbound
<1>2. Anywhere => BoundSymbolsHeld
  BY <1>1 DEF BoundSymbolsHeld
<1>3. QED
  BY <1>2, CachesShared, PTL
=============================================================================
