---------------------------- MODULE CopyGCProofs ----------------------------
(***************************************************************************)
(* Proofs about CopyGC: for every heap, every root list and every hash     *)
(* function, the collection copies only what is live, faithfully, and all  *)
(* of it but what ephemerons hold that waited for one key (Crowd).         *)
(***************************************************************************)
EXTENDS CopyGC, FiniteSetTheorems, WellFoundedInduction, TLAPS

-----------------------------------------------------------------------------
(* The inductive invariant. *)

Phases == {"roots", "scan", "list", "queue", "datum", "rescan", "ephemerons", "weak", "done"}
Steps == {"next", "walk", "transport", "cdr", "store"}
BucketSet == {Buckets[o] : o \in Obj}
AnyWord == Value \cup {New(i) : i \in Nat} \cup {Hidden(o) : o \in Obj}
Copy == [a : AnyWord, b : AnyWord, manifest : {"marked", "unmarked"}, next : Nat]
Elems(s) == {s[i] : i \in DOMAIN s}
Once(s) == \A i, j \in DOMAIN s : s[i] = s[j] => i = j

\* The variables and their types.
Types ==
  /\ mem \in Heaps /\ roots \in RootLists
  /\ newRoots \in Seq(AnyWord) /\ Len(newRoots) = Len(roots)
  /\ fwd \in [Obj -> Nat] /\ to \in Seq(Copy)
  /\ weak_chain \in Seq(Nat) /\ elist \in Seq(Nat)
  /\ bucket \in [BucketSet -> Nat] /\ queue \in Nat
  /\ phase \in Phases /\ index \in Nat /\ index # 0
  /\ scan \in [i : Nat, f : FieldNames] /\ step \in Steps /\ loc \in Nat

\* Every place of tospace holds the copy of one object.
Placement ==
  /\ \A o \in Obj : fwd[o] <= Len(to)
  /\ \A o, p \in Obj : fwd[o] = fwd[p] /\ fwd[o] # 0 => o = p
  /\ \A i \in 1..Len(to) : \E o \in Obj : fwd[o] = i

\* The lists name places of tospace, each once; every link is a place or 0.
Lists ==
  /\ Elems(elist) \subseteq 1..Len(to) /\ Elems(weak_chain) \subseteq 1..Len(to)
  /\ Once(elist) /\ Once(weak_chain)
Links ==
  /\ \A i \in 1..Len(to) : to[i].next <= Len(to)
  /\ \A n \in BucketSet : bucket[n] <= Len(to)
  /\ queue <= Len(to) /\ loc <= Len(to)

Late == phase \in {"ephemerons", "weak", "done"}

\* A word is what it was in fromspace, or points to the copy of what it pointed to.
FollowsBy(f, w, v) == w = v \/ (IsOld(v) /\ f[v[2]] # 0 /\ w = New(f[v[2]]))
Follows(w, v) == FollowsBy(fwd, w, v)

\* The key of the ephemeron o was found dead.
Broken(o) == Late /\ Kind[o] = "ephemeron" /\ IsOld(mem.a[o]) /\ fwd[mem.a[o][2]] = 0

\* What the copy of o holds: that of an ephemeron that waits for its key, that of a
\* weak pair with a hidden car, and any other.
Waiting(o) ==
  LET c == to[fwd[o]]
  IN  /\ Kind[o] = "ephemeron" /\ IsOld(mem.a[o])
      /\ c.manifest = "unmarked" /\ c.a = mem.a[o] /\ Follows(c.b, mem.b[o])
HidesCar(o) ==
  LET c == to[fwd[o]]
  IN  /\ Kind[o] = "weak" /\ IsOld(mem.a[o])
      /\ c.manifest = "marked" /\ c.a = Hidden(mem.a[o][2]) /\ Follows(c.b, mem.b[o])
Plain(o) ==
  LET c == to[fwd[o]]
  IN  /\ c.manifest = "marked"
      /\ \/ Follows(c.a, mem.a[o])
         \/ /\ Late /\ Kind[o] # "pair" /\ IsOld(mem.a[o]) /\ fwd[mem.a[o][2]] = 0
            /\ c.a = Null
      /\ IF Broken(o) THEN c.b = Null ELSE Follows(c.b, mem.b[o])

Content ==
  \A o \in Obj : fwd[o] # 0 =>
    /\ fwd[o] \in Elems(elist) => Waiting(o)
    /\ fwd[o] \in Elems(weak_chain) => HidesCar(o)
    /\ fwd[o] \notin Elems(elist) \cup Elems(weak_chain) => Plain(o)

\* Before the last passes, a copy on neither list is one that holds its car, or an
\* ephemeron whose key was found.
Direct ==
  ~Late => \A o \in Obj :
    fwd[o] # 0 /\ fwd[o] \notin Elems(elist) \cup Elems(weak_chain) /\ IsOld(mem.a[o]) =>
      /\ Kind[o] # "weak"
      /\ Kind[o] = "ephemeron" => fwd[mem.a[o][2]] # 0

\* The roots: as the copies, and the ones that the scan has passed are done.
RootsOK ==
  \A j \in 1..Len(roots) :
    /\ Follows(newRoots[j], roots[j])
    /\ phase # "roots" \/ j < index => ~IsOld(newRoots[j])

\* Where the scan is in each phase.
ScanOK ==
  /\ scan.i \in 1..Len(to) + 1
  /\ scan.f = "b" => scan.i <= Len(to) /\ to[scan.i].manifest = "marked"
  /\ phase = "roots" => scan.i = 1 /\ scan.f = "a"
  /\ phase \in {"list", "queue"} \/ Late => scan.i = Len(to) + 1
  /\ phase = "datum" /\ step = "next" => scan.i = Len(to) + 1

\* Where the handler of a word is.
CallOK ==
  /\ step # "next" /\ phase # "list" =>
       /\ AtWord /\ IsOld(Word) /\ ~Late /\ phase # "queue"
       /\ fwd[Word[2]] # 0 \/ (Word[2] = obj /\ step \in {"walk", "transport"})
  /\ phase = "list" => step \in {"next", "walk"}
  /\ step \in {"walk", "transport", "cdr"} => obj \in Obj
  /\ step = "walk" => Scanning
  /\ step \in {"walk", "transport"} /\ phase # "list" => fwd[obj] = 0 /\ obj \in Live
  /\ step = "walk" /\ phase = "list" => fwd[obj] # 0
  /\ step = "cdr" => fwd[obj] # 0 /\ Kind[obj] = "pair"
  /\ phase = "datum" => index \in Elems(elist) /\ fwd[KeyOf(index)] # 0

\* Only live objects are copied.
LiveOK == \A o \in Obj : fwd[o] # 0 => o \in Live

\* The greatest element of a set of places, or 0.
IsTop(m, S) == \/ m = 0 /\ S = {}
               \/ m \in S /\ \A j \in S : j <= m

BucketOf(i) == Buckets[KeyOf(i)]

\* The ephemerons T are in the hash table: their links, in each bucket, go down from
\* the one that was copied last.
TableLinks(T) ==
  /\ T \subseteq Elems(elist)
  /\ \A n \in BucketSet : IsTop(bucket[n], {i \in T : BucketOf(i) = n})
  /\ \A i \in T : IsTop(to[i].next, {j \in T : BucketOf(j) = BucketOf(i) /\ j < i})

\* The ephemerons qs are in the queue, the last one at its head; their keys live.
QueueLinks(qs) ==
  /\ qs \in Seq(Nat) /\ Once(qs) /\ Elems(qs) \subseteq Elems(elist)
  /\ queue = IF Len(qs) = 0 THEN 0 ELSE qs[Len(qs)]
  /\ \A j \in 1..Len(qs) : to[qs[j]].next = IF j = 1 THEN 0 ELSE qs[j - 1]
  /\ \A i \in Elems(qs) : \/ fwd[KeyOf(i)] # 0
                          \/ step \in {"walk", "transport"} /\ KeyOf(i) = obj

\* Every waiting ephemeron is in the table or in the queue, or its datum was scanned.
NoneForgotten(T, qs) ==
  \A i \in Elems(elist) : i \in T \/ i \in Elems(qs) \/ ~IsOld(to[i].b) \/ (phase = "datum" /\ i = index)

\* Another ephemeron waits, or waited, for the same key.
Shared(i) == \E j \in Elems(elist) : j # i /\ KeyOf(j) = KeyOf(i)

\* An ephemeron in the table has a dead key, once the list of ephemerons has been
\* walked: or the collector is about to find it, or it has been left there because
\* of another one.
TableKeysDead(T) ==
  /\ \A i \in T : fwd[KeyOf(i)] # 0 =>
       \/ phase \in {"roots", "scan"} \/ Shared(i)
       \/ phase = "list" /\ \/ \E j \in index..Len(elist) : elist[j] = i
                            \/ step = "walk" /\ KeyOf(i) = obj
  /\ step = "transport" /\ Scanning => \A i \in T : KeyOf(i) # obj \/ Shared(i)

\* The walk for obj is before the first ephemeron with this key, or in the queue.
WalkOK(T, qs) ==
  step = "walk" =>
    \/ loc = 0
    \/ /\ loc \in T /\ BucketOf(loc) = Buckets[obj]
       /\ \A i \in T : BucketOf(i) = Buckets[obj] /\ i >= loc => KeyOf(i) # obj
    \/ loc \in Elems(qs) /\ \A i \in T : KeyOf(i) # obj \/ Shared(i)

Table(T, qs) ==
  /\ T \cap Elems(qs) = {}
  /\ TableLinks(T) /\ QueueLinks(qs)
  /\ NoneForgotten(T, qs) /\ TableKeysDead(T) /\ WalkOK(T, qs)

TableOK == ~Late => \E T \in SUBSET Nat, qs \in Seq(Nat) : Table(T, qs)

\* An ephemeron on the list was copied before its key.
WaitsInOrder == \A i \in Elems(elist) : fwd[KeyOf(i)] = 0 \/ i < fwd[KeyOf(i)]

\* The words that the scan has passed: before the last passes without exception.
CleanOK ==
  \A i \in 1 .. Len(to) : to[i].manifest = "marked" =>
    /\ i < scan.i \/ (i = scan.i /\ scan.f = "b") => ~IsOld(to[i].a)
    /\ i < scan.i => ~IsOld(to[i].b) \/ (Late /\ InCrowd(i))

\* After the queue has run empty an ephemeron with a live key has a scanned datum,
\* unless it is one of several.
LateOK ==
  /\ Late => \A i \in Elems(elist) : fwd[KeyOf(i)] # 0 => ~IsOld(to[i].b) \/ InCrowd(i)
  /\ phase \in {"weak", "done"} => elist = <<>>
  /\ phase = "done" => weak_chain = <<>>

IInv == /\ Types /\ Placement /\ Lists /\ Links /\ Content /\ Direct /\ RootsOK /\ ScanOK
        /\ WaitsInOrder /\ CleanOK /\ CallOK /\ LiveOK /\ TableOK /\ LateOK

-----------------------------------------------------------------------------
(* Words, sequences and the live objects. *)

LEMMA WordFacts ==
  /\ \A w \in AnyWord : IsOld(w) => w \in Value /\ w[2] \in Obj /\ w = Old(w[2])
  /\ \A w \in Value : w \in AnyWord
  /\ \A i : ~IsOld(New(i)) /\ ~IsOld(Hidden(i)) /\ IsOld(Old(i)) /\ Old(i)[2] = i
  /\ ~IsOld(Null) /\ ~IsOld(Constant) /\ Null \in Value
  /\ \A i \in Nat : New(i) \in AnyWord
  /\ \A o \in Obj : Hidden(o) \in AnyWord /\ Hidden(o)[2] = o
  BY DEF AnyWord, Value, IsOld, New, Hidden, Old, Null, Constant

LEMMA NewIsNotNull == \A i : New(i) # Null
  BY DEF New, Null

LEMMA HeapFacts ==
  ASSUME Types
  PROVE  /\ \A o \in Obj : mem.a[o] \in Value /\ mem.b[o] \in Value
         /\ roots \in Seq(Value)
  BY HeapAssumption DEF Types, FieldNames

LEMMA ElemsMeaning ==
  ASSUME NEW s, NEW x
  PROVE  x \in Elems(s) <=> \E i \in DOMAIN s : s[i] = x
  BY DEF Elems

LEMMA ConsFacts ==
  ASSUME NEW s \in Seq(Nat), NEW x \in Nat
  PROVE  /\ <<x>> \o s \in Seq(Nat)
         /\ Elems(<<x>> \o s) = Elems(s) \cup {x}
         /\ x \notin Elems(s) /\ Once(s) => Once(<<x>> \o s)
<1> DEFINE t == <<x>> \o s
<1>1. /\ t \in Seq(Nat) /\ DOMAIN t = 1 .. Len(s) + 1 /\ t[1] = x
      /\ \A i \in 2 .. Len(s) + 1 : t[i] = s[i - 1]
  OBVIOUS
<1>2. DOMAIN s = 1 .. Len(s) /\ Len(s) \in Nat
  OBVIOUS
<1> HIDE DEF t
<1>3. ASSUME NEW y PROVE y \in Elems(t) <=> y \in Elems(s) \cup {x}
  <2>1. ASSUME y \in Elems(t) PROVE y \in Elems(s) \cup {x}
    <3>1. PICK i \in 1 .. Len(s) + 1 : t[i] = y
      BY <1>1, <2>1, ElemsMeaning
    <3>2. CASE i = 1
      BY <1>1, <3>1, <3>2
    <3>3. CASE i # 1
      <4>1. i - 1 \in 1 .. Len(s) /\ s[i - 1] = y
        BY <1>1, <1>2, <3>1, <3>3
      <4>2. QED
        BY <1>2, <4>1, ElemsMeaning
    <3>4. QED
      BY <3>2, <3>3
  <2>2. ASSUME y \in Elems(s) PROVE y \in Elems(t)
    <3>1. PICK i \in 1 .. Len(s) : s[i] = y
      BY <1>2, <2>2, ElemsMeaning
    <3> DEFINE k == i + 1
    <3>2. k \in 2 .. Len(s) + 1 /\ k \in DOMAIN t /\ k - 1 = i
      BY <1>1, <1>2
    <3> HIDE DEF k
    <3>3. t[k] = y
      BY <1>1, <3>1, <3>2
    <3>4. QED
      BY <3>2, <3>3, ElemsMeaning
  <2>3. x \in Elems(t)
    <3>1. 1 \in DOMAIN t
      BY <1>1, <1>2
    <3>2. QED
      BY <1>1, <3>1, ElemsMeaning
  <2>4. QED
    BY <2>1, <2>2, <2>3
<1>4. ASSUME x \notin Elems(s), Once(s) PROVE Once(t)
  <2>1. \A i \in 1 .. Len(s) : s[i] # x
    BY <1>2, <1>4, ElemsMeaning
  <2> SUFFICES ASSUME NEW i \in 1 .. Len(s) + 1, NEW j \in 1 .. Len(s) + 1, t[i] = t[j]
               PROVE  i = j
    BY <1>1 DEF Once
  <2>2. CASE i = 1 /\ j = 1
    BY <2>2
  <2>3. CASE i = 1 /\ j # 1
    <3>1. j - 1 \in 1 .. Len(s) /\ t[j] = s[j - 1]
      BY <1>1, <1>2, <2>3
    <3>2. QED
      BY <1>1, <2>1, <2>3, <3>1
  <2>4. CASE i # 1 /\ j = 1
    <3>1. i - 1 \in 1 .. Len(s) /\ t[i] = s[i - 1]
      BY <1>1, <1>2, <2>4
    <3>2. QED
      BY <1>1, <2>1, <2>4, <3>1
  <2>5. CASE i # 1 /\ j # 1
    <3>1. /\ i - 1 \in 1 .. Len(s) /\ t[i] = s[i - 1]
          /\ j - 1 \in 1 .. Len(s) /\ t[j] = s[j - 1]
      BY <1>1, <1>2, <2>5
    <3>2. i - 1 = j - 1
      BY <1>2, <1>4, <3>1 DEF Once
    <3>3. QED
      BY <3>2
  <2>6. QED
    BY <2>2, <2>3, <2>4, <2>5
<1>5. QED
  BY <1>1, <1>3, <1>4 DEF t

LEMMA TailFacts ==
  ASSUME NEW s \in Seq(Nat), s # <<>>, Once(s)
  PROVE  /\ Head(s) \in Elems(s) /\ Tail(s) \in Seq(Nat) /\ Once(Tail(s))
         /\ Elems(Tail(s)) = Elems(s) \ {Head(s)}
<1> DEFINE t == Tail(s)
<1>1. /\ t \in Seq(Nat) /\ Len(s) \in Nat \ {0} /\ DOMAIN t = 1 .. Len(s) - 1
      /\ DOMAIN s = 1 .. Len(s) /\ Head(s) = s[1]
      /\ \A i \in 1 .. Len(s) - 1 : t[i] = s[i + 1]
  OBVIOUS
<1> HIDE DEF t
<1>2. Head(s) \in Elems(s)
  <2>1. 1 \in DOMAIN s
    BY <1>1
  <2>2. QED
    BY <1>1, <2>1, ElemsMeaning
<1>3. Once(t)
  <2> SUFFICES ASSUME NEW i \in 1 .. Len(s) - 1, NEW j \in 1 .. Len(s) - 1, t[i] = t[j]
               PROVE  i = j
    BY <1>1 DEF Once
  <2>1. i + 1 \in DOMAIN s /\ j + 1 \in DOMAIN s /\ s[i + 1] = s[j + 1]
    BY <1>1
  <2>2. i + 1 = j + 1
    BY <2>1 DEF Once
  <2>3. QED
    BY <2>2
<1>4. ASSUME NEW y PROVE y \in Elems(t) <=> y \in Elems(s) /\ y # Head(s)
  <2>1. ASSUME y \in Elems(t) PROVE y \in Elems(s) /\ y # Head(s)
    <3>1. PICK i \in 1 .. Len(s) - 1 : t[i] = y
      BY <1>1, <2>1, ElemsMeaning
    <3>2. i + 1 \in DOMAIN s /\ s[i + 1] = y /\ 1 \in DOMAIN s /\ i + 1 # 1
      BY <1>1, <3>1
    <3>3. s[1] # y
      BY <3>2 DEF Once
    <3>4. QED
      BY <1>1, <3>2, <3>3, ElemsMeaning
  <2>2. ASSUME y \in Elems(s), y # Head(s) PROVE y \in Elems(t)
    <3>1. PICK i \in 1 .. Len(s) : s[i] = y
      BY <1>1, <2>2, ElemsMeaning
    <3>2. i # 1
      BY <1>1, <2>2, <3>1
    <3>3. i - 1 \in 1 .. Len(s) - 1 /\ t[i - 1] = s[(i - 1) + 1]
      BY <1>1, <3>1, <3>2
    <3>4. i - 1 \in DOMAIN t /\ t[i - 1] = y
      BY <1>1, <3>1, <3>3
    <3>5. QED
      BY <3>4, ElemsMeaning
  <2>3. QED
    BY <2>1, <2>2
<1>5. QED
  BY <1>1, <1>2, <1>3, <1>4 DEF t

\* What the roots point to is live, and so is what a live object holds.
LEMMA LiveIsClosed ==
  ASSUME Types
  PROVE  RootsIn(Live) /\ Closed(Live) /\ Live \subseteq Obj
<1>1. \A o \in Obj : mem.a[o] \in Value /\ mem.b[o] \in Value
  BY HeapFacts
<1>2. \A v \in Value : IsOld(v) => v[2] \in Obj
  BY WordFacts
<1>3. ASSUME NEW v \in Value, \A S \in SUBSET Obj : RootsIn(S) /\ Closed(S) => Points(v, S)
      PROVE  Points(v, Live)
  BY <1>2, <1>3 DEF Points, Live
<1>4. ASSUME NEW S \in SUBSET Obj, RootsIn(S), Closed(S)
      PROVE  Live \subseteq S
  BY <1>4 DEF Live
<1>5. RootsIn(Live)
  <2> SUFFICES ASSUME NEW i \in DOMAIN roots PROVE Points(roots[i], Live)
    BY DEF RootsIn
  <2>1. roots[i] \in Value
    BY HeapFacts
  <2>2. QED
    BY <1>3, <2>1 DEF RootsIn
<1>6. Closed(Live)
  <2> SUFFICES ASSUME NEW o \in Live
               PROVE  /\ Kind[o] = "pair" => Points(mem.a[o], Live) /\ Points(mem.b[o], Live)
                      /\ Kind[o] = "weak" => Points(mem.b[o], Live)
                      /\ Kind[o] = "ephemeron" /\ Points(mem.a[o], Live) => Points(mem.b[o], Live)
    BY DEF Closed, ClosedBut
  <2>1. o \in Obj /\ mem.a[o] \in Value /\ mem.b[o] \in Value
    BY <1>1 DEF Live
  <2>2. ASSUME NEW S \in SUBSET Obj, RootsIn(S), Closed(S)
        PROVE  /\ o \in S
               /\ Points(mem.a[o], Live) => Points(mem.a[o], S)
               /\ Kind[o] = "pair" => Points(mem.a[o], S) /\ Points(mem.b[o], S)
               /\ Kind[o] = "weak" => Points(mem.b[o], S)
               /\ Kind[o] = "ephemeron" /\ Points(mem.a[o], S) => Points(mem.b[o], S)
    <3>1. Live \subseteq S
      BY <1>4, <2>2
    <3>2. o \in S
      BY <3>1
    <3>3. QED
      BY <2>2, <3>1, <3>2 DEF Closed, ClosedBut, Points
  <2>3. QED
    BY <1>3, <2>1, <2>2
<1>7. QED
  BY <1>5, <1>6 DEF Live

-----------------------------------------------------------------------------
(* Changes of one copy. *)

LEMMA Replaced ==
  ASSUME NEW s \in Seq(Copy), NEW i \in 1 .. Len(s), NEW r \in Copy
  PROVE  LET t == [s EXCEPT ![i] = r]
         IN  /\ t \in Seq(Copy) /\ Len(t) = Len(s) /\ t[i] = r
             /\ \A j \in 1 .. Len(s) : j # i => t[j] = s[j]
  OBVIOUS

LEMMA FieldSet ==
  ASSUME NEW r \in Copy
  PROVE  /\ \A v \in AnyWord :
              LET c == [r EXCEPT !.a = v]
              IN  /\ c \in Copy /\ c.a = v /\ c.b = r.b /\ c.manifest = r.manifest /\ c.next = r.next
         /\ \A v \in AnyWord :
              LET c == [r EXCEPT !.b = v]
              IN  /\ c \in Copy /\ c.b = v /\ c.a = r.a /\ c.manifest = r.manifest /\ c.next = r.next
         /\ \A n \in Nat :
              LET c == [r EXCEPT !.next = n]
              IN  /\ c \in Copy /\ c.next = n /\ c.a = r.a /\ c.b = r.b /\ c.manifest = r.manifest
<1>1. ASSUME NEW v \in AnyWord
      PROVE  LET c == [r EXCEPT !.a = v]
             IN  /\ c \in Copy /\ c.a = v /\ c.b = r.b /\ c.manifest = r.manifest /\ c.next = r.next
  BY DEF Copy
<1>2. ASSUME NEW v \in AnyWord
      PROVE  LET c == [r EXCEPT !.b = v]
             IN  /\ c \in Copy /\ c.b = v /\ c.a = r.a /\ c.manifest = r.manifest /\ c.next = r.next
  BY DEF Copy
<1>3. ASSUME NEW n \in Nat
      PROVE  LET c == [r EXCEPT !.next = n]
             IN  /\ c \in Copy /\ c.next = n /\ c.a = r.a /\ c.b = r.b /\ c.manifest = r.manifest
  BY DEF Copy
<1>4. QED
  BY <1>1, <1>2, <1>3

-----------------------------------------------------------------------------
(* What the steps do. *)

\* The steps that leave the copies and the lists alone.
Quiet == \/ HandleUnknown \/ EagerCdr \/ WalkPast \/ WalkEnd \/ RootsDone \/ SkipEphemeron
         \/ ScanDone \/ ScanList \/ ListDone \/ ScanDatum \/ QueueDone \/ EphemeronsDone
         \/ std_gc_pt2
\* A handler returns.
Returning == HandleKnown \/ Store
\* An object is transported.
Transporting == gc_tuple \/ gc_transport_weak_pair \/ gc_transport_ephemeron

LEMMA StepKinds ==
  ASSUME Next
  PROVE  \/ Quiet \/ Returning \/ Transporting \/ WalkQueue \/ update_ephemerons
         \/ update_weak_pairs
  BY DEF Next, Quiet, Returning, Transporting

LEMMA QuietFrame ==
  ASSUME Quiet
  PROVE  UNCHANGED <<mem, roots, newRoots, fwd, to, weak_chain, elist, bucket>>
  BY DEF Quiet, HandleUnknown, EagerCdr, WalkPast, WalkEnd, RootsDone, SkipEphemeron,
     ScanDone, ScanList, ListDone, ScanDatum, QueueDone, EphemeronsDone, std_gc_pt2, Goto,
     heapVars, tableVars

LEMMA HeapStays ==
  ASSUME Next
  PROVE  UNCHANGED <<mem, roots>> /\ Live' = Live
<1>1. UNCHANGED <<mem, roots>>
  BY StepKinds, QuietFrame DEF Returning, Transporting, HandleKnown, Store, Return, gc_tuple,
     gc_transport_weak_pair, gc_transport_ephemeron, WalkQueue, update_ephemerons,
     update_weak_pairs, heapVars
<1>2. QED
  BY <1>1 DEF Live, RootsIn, Closed, ClosedBut, Points

\* The field f of the copy i becomes v, and the scan goes on.
Writes(i, f, v) ==
  /\ ~IsOld(v) /\ Follows(v, to[i][f])
  /\ to' \in Seq(Copy) /\ Len(to') = Len(to)
  /\ \A j \in 1 .. Len(to) : j # i => to'[j] = to[j]
  /\ to'[i].manifest = to[i].manifest /\ to'[i].next = to[i].next
  /\ f = "a" => to'[i].a = v /\ to'[i].b = to[i].b
  /\ f = "b" => to'[i].b = v /\ to'[i].a = to[i].a
  /\ \/ /\ phase \in {"scan", "rescan"} /\ i = scan.i /\ f = scan.f
        /\ to[i].manifest = "marked" /\ Advance /\ phase' = phase
     \/ /\ phase = "datum" /\ i = index /\ f = "b" /\ index \in Elems(elist)
        /\ phase' = "rescan" /\ scan' = scan
  /\ step' = "next"
  /\ UNCHANGED <<mem, roots, newRoots, fwd, weak_chain, elist, bucket, queue, index, obj, loc>>

LEMMA WordType ==
  ASSUME Types, Lists, ScanOK, CallOK, AtWord
  PROVE  Word \in AnyWord
<1>1. CASE phase = "roots"
  <2>1. index \in 1 .. Len(newRoots) /\ newRoots \in Seq(AnyWord)
    BY <1>1, HeapFacts DEF AtWord, Types
  <2>2. QED
    BY <1>1, <2>1 DEF Word
<1>2. CASE phase = "datum"
  <2>1. index \in 1 .. Len(to) /\ to \in Seq(Copy)
    BY <1>2 DEF CallOK, Lists, Types
  <2>2. to[index] \in Copy
    BY <2>1
  <2>3. QED
    BY <1>2, <2>2 DEF Word, Copy
<1>3. CASE phase \in {"scan", "rescan"}
  <2>1. scan.i \in 1 .. Len(to) /\ to \in Seq(Copy) /\ scan.f \in {"a", "b"}
    BY <1>3 DEF AtWord, Types, FieldNames, ScanOK
  <2>2. to[scan.i] \in Copy
    BY <2>1
  <2>3. to[scan.i].a \in AnyWord /\ to[scan.i].b \in AnyWord
    BY <2>2 DEF Copy
  <2>4. QED
    BY <1>3, <2>1, <2>3 DEF Word
<1>4. QED
  BY <1>1, <1>2, <1>3 DEF AtWord

LEMMA ReturnsNew ==
  ASSUME IInv, Returning
  PROVE  /\ AtWord /\ Word \in AnyWord
         /\ \E v \in AnyWord : ~IsOld(v) /\ Follows(v, Word) /\ Return(v)
<1>1. AtWord
  BY DEF Returning, HandleKnown, Store, IInv, CallOK
<1>2. Word \in AnyWord
  BY <1>1, WordType DEF IInv
<1>3. CASE ~IsOld(Word) /\ Return(Word)
  BY <1>1, <1>2, <1>3 DEF Follows, FollowsBy
<1>4. CASE IsOld(Word) /\ fwd[Word[2]] # 0 /\ Return(New(fwd[Word[2]]))
  <2>1. Word[2] \in Obj
    BY <1>2, <1>4, WordFacts
  <2>2. New(fwd[Word[2]]) \in AnyWord /\ ~IsOld(New(fwd[Word[2]]))
    BY <2>1, WordFacts DEF IInv, Types
  <2>3. QED
    BY <1>1, <1>2, <1>4, <2>2 DEF Follows, FollowsBy
<1>5. QED
  <2>1. CASE Store
    BY <1>4, <2>1 DEF Store, IInv, CallOK
  <2>2. CASE HandleKnown
    BY <1>3, <1>4, <2>2 DEF HandleKnown
  <2>3. QED
    BY <2>1, <2>2 DEF Returning

LEMMA RootReturns ==
  ASSUME IInv, Returning, phase = "roots"
  PROVE  /\ index \in 1 .. Len(roots)
         /\ \E v \in AnyWord : /\ ~IsOld(v) /\ Follows(v, newRoots[index])
                               /\ newRoots' = [newRoots EXCEPT ![index] = v]
         /\ index' = index + 1 /\ step' = "next"
         /\ UNCHANGED <<mem, roots, fwd, to, weak_chain, elist, bucket, queue, phase, scan, obj, loc>>
<1>1. Word = newRoots[index]
  BY DEF Word
<1>2. QED
  BY <1>1, ReturnsNew, HeapFacts DEF Return, AtWord, IInv, Types, heapVars, tableVars

LEMMA TospaceReturns ==
  ASSUME IInv, Returning, phase # "roots"
  PROVE  \E i \in 1 .. Len(to), f \in FieldNames, v \in AnyWord : Writes(i, f, v)
<1>1. PICK v \in AnyWord : ~IsOld(v) /\ Follows(v, Word) /\ Return(v)
  BY ReturnsNew
<1>2. to \in Seq(Copy) /\ AtWord
  BY ReturnsNew DEF IInv, Types
<1>3. CASE phase \in {"scan", "rescan"}
  <2>1. scan.i \in 1 .. Len(to) /\ scan.f \in {"a", "b"} /\ to[scan.i].manifest = "marked"
    BY <1>2, <1>3 DEF IInv, ScanOK, AtWord, Types, FieldNames
  <2>2. Word = to[scan.i][scan.f]
    BY <1>3 DEF Word
  <2> DEFINE i == scan.i
             f == scan.f
             r == [to[i] EXCEPT ![f] = v]
  <2>3. to[i] \in Copy /\ i \in 1 .. Len(to)
    BY <1>2, <2>1
  <2>4. /\ r \in Copy /\ r.manifest = to[i].manifest /\ r.next = to[i].next
        /\ f = "a" => r.a = v /\ r.b = to[i].b
        /\ f = "b" => r.b = v /\ r.a = to[i].a
    <3>1. CASE f = "a"
      <4>1. r = [to[i] EXCEPT !.a = v]
        BY <3>1
      <4> HIDE DEF r
      <4>2. QED
        BY <2>3, <3>1, <4>1, FieldSet
    <3>2. CASE f = "b"
      <4>1. r = [to[i] EXCEPT !.b = v]
        BY <3>2
      <4> HIDE DEF r
      <4>2. QED
        BY <2>3, <3>2, <4>1, FieldSet
    <3>3. QED
      BY <2>1, <3>1, <3>2
  <2>5. to' = [to EXCEPT ![i] = r]
    BY <1>1, <1>3 DEF Return
  <2> HIDE DEF r
  <2>6. /\ to' \in Seq(Copy) /\ Len(to') = Len(to) /\ to'[i] = r
        /\ \A j \in 1 .. Len(to) : j # i => to'[j] = to[j]
    BY <1>2, <2>3, <2>4, <2>5, Replaced
  <2>7. Advance /\ phase' = phase /\ step' = "next"
        /\ UNCHANGED <<mem, roots, newRoots, fwd, weak_chain, elist, bucket, queue, index, obj, loc>>
    BY <1>1, <1>3 DEF Return, heapVars, tableVars
  <2>8. Writes(i, f, v)
    BY <1>1, <1>3, <2>1, <2>2, <2>4, <2>6, <2>7 DEF Writes
  <2>9. QED
    BY <2>1, <2>8 DEF FieldNames
<1>4. CASE phase = "datum"
  <2>1. index \in 1 .. Len(to) /\ index \in Elems(elist)
    BY <1>4 DEF IInv, CallOK, Lists
  <2>2. Word = to[index].b
    BY <1>4 DEF Word
  <2> DEFINE r == [to[index] EXCEPT !.b = v]
  <2>3. to[index] \in Copy
    BY <1>2, <2>1
  <2>4. /\ r \in Copy /\ r.manifest = to[index].manifest /\ r.next = to[index].next
        /\ r.b = v /\ r.a = to[index].a
    BY <2>3, FieldSet
  <2>5. to' = [to EXCEPT ![index] = r]
    BY <1>1, <1>4 DEF Return
  <2> HIDE DEF r
  <2>6. /\ to' \in Seq(Copy) /\ Len(to') = Len(to) /\ to'[index] = r
        /\ \A j \in 1 .. Len(to) : j # index => to'[j] = to[j]
    BY <1>2, <2>1, <2>4, <2>5, Replaced
  <2>7. /\ phase' = "rescan" /\ step' = "next"
        /\ UNCHANGED <<mem, roots, newRoots, fwd, weak_chain, elist, bucket, queue, index,
                       scan, obj, loc>>
    BY <1>1, <1>4 DEF Return, heapVars, tableVars
  <2>8. Writes(index, "b", v)
    BY <1>1, <1>4, <2>1, <2>2, <2>4, <2>6, <2>7 DEF Writes
  <2>9. QED
    BY <2>1, <2>8 DEF FieldNames
<1>5. QED
  BY <1>2, <1>3, <1>4 DEF AtWord

\* obj is copied to the end of tospace as c.
Copies(c) ==
  /\ obj \in Obj /\ fwd[obj] = 0 /\ obj \in Live /\ step = "transport" /\ ~Late
  /\ c \in Copy /\ c.b = mem.b[obj]
  /\ to' \in Seq(Copy) /\ Len(to') = Len(to) + 1 /\ to'[Len(to) + 1] = c
  /\ \A i \in 1 .. Len(to) : to'[i] = to[i]
  /\ fwd' \in [Obj -> Nat] /\ fwd'[obj] = Len(to) + 1
  /\ \A o \in Obj : o # obj => fwd'[o] = fwd[o]
  /\ step' = (IF Kind[obj] = "pair" THEN "cdr" ELSE "store")
  /\ UNCHANGED <<mem, roots, newRoots, queue, phase, index, scan, obj, loc>>

\* The copy is like the object; or the car of the weak pair is hidden; or the
\* ephemeron waits for its key.
CopiesPlain(c) ==
  /\ c.a = mem.a[obj] /\ c.manifest = "marked" /\ c.next = 0
  /\ IsOld(c.a) => /\ Kind[obj] # "weak"
                   /\ Kind[obj] = "ephemeron" => c.a[2] = obj \/ fwd[c.a[2]] # 0
  /\ UNCHANGED <<weak_chain, elist, bucket>>
CopiesHidden(c) ==
  /\ Kind[obj] = "weak" /\ IsOld(mem.a[obj])
  /\ c.a = Hidden(mem.a[obj][2]) /\ c.manifest = "marked" /\ c.next = 0
  /\ weak_chain' = <<Len(to) + 1>> \o weak_chain
  /\ UNCHANGED <<elist, bucket>>
CopiesWaiting(c) ==
  LET key == mem.a[obj]
  IN  /\ Kind[obj] = "ephemeron" /\ IsOld(key) /\ key[2] # obj /\ fwd[key[2]] = 0
      /\ c.a = key /\ c.manifest = "unmarked" /\ c.next = bucket[Buckets[key[2]]]
      /\ bucket' = [bucket EXCEPT ![Buckets[key[2]]] = Len(to) + 1]
      /\ elist' = <<Len(to) + 1>> \o elist
      /\ UNCHANGED weak_chain

LEMMA TransportedWords ==
  ASSUME IInv, step = "transport", NEW c \in Copy, gc_transport_words(c)
  PROVE  /\ obj \in Obj /\ fwd[obj] = 0 /\ obj \in Live /\ ~Late /\ phase # "list"
         /\ to' \in Seq(Copy) /\ Len(to') = Len(to) + 1 /\ to'[Len(to) + 1] = c
         /\ \A i \in 1 .. Len(to) : to'[i] = to[i]
         /\ fwd' \in [Obj -> Nat] /\ fwd'[obj] = Len(to) + 1
         /\ \A o \in Obj : o # obj => fwd'[o] = fwd[o]
<1>1. obj \in Obj /\ phase # "list" /\ ~Late /\ fwd[obj] = 0 /\ obj \in Live
  BY DEF IInv, CallOK
<1>2. to \in Seq(Copy) /\ fwd \in [Obj -> Nat] /\ Len(to) \in Nat
  BY DEF IInv, Types
<1>3. to' = Append(to, c) /\ fwd' = [fwd EXCEPT ![obj] = Len(to) + 1]
  BY DEF gc_transport_words
<1>4. /\ fwd' \in [Obj -> Nat] /\ fwd'[obj] = Len(to) + 1
      /\ \A o \in Obj : o # obj => fwd'[o] = fwd[o]
  BY <1>1, <1>2, <1>3
<1>5. /\ to' \in Seq(Copy) /\ Len(to') = Len(to) + 1 /\ to'[Len(to) + 1] = c
      /\ \A i \in 1 .. Len(to) : to'[i] = to[i]
  BY <1>2, <1>3
<1>6. QED
  BY <1>1, <1>4, <1>5

LEMMA TransportCases ==
  ASSUME IInv, Transporting
  PROVE  \E c \in Copy : Copies(c) /\ (CopiesPlain(c) \/ CopiesHidden(c) \/ CopiesWaiting(c))
<1>1. step = "transport" /\ obj \in Obj
  BY DEF Transporting, gc_tuple, gc_transport_weak_pair, gc_transport_ephemeron, IInv, CallOK
<1>2. mem.a[obj] \in AnyWord /\ mem.b[obj] \in AnyWord /\ (IsOld(mem.a[obj]) => mem.a[obj][2] \in Obj)
  BY <1>1, HeapFacts, WordFacts DEF IInv
<1>3. ASSUME NEW c, c = CopyOf(obj)
      PROVE  /\ c \in Copy /\ c.a = mem.a[obj] /\ c.b = mem.b[obj] /\ c.manifest = "marked"
             /\ c.next = 0
  BY <1>2, <1>3 DEF CopyOf, Copy
<1>4. CASE gc_tuple
  <2> DEFINE c == CopyOf(obj)
  <2>1. gc_transport_words(c) /\ Kind[obj] = "pair" /\ step' = "cdr"
        /\ UNCHANGED <<mem, roots, weak_chain, elist, bucket, queue, newRoots, phase, index, scan, obj, loc>>
    BY <1>4 DEF gc_tuple, heapVars, tableVars
  <2> HIDE DEF c
  <2>2. /\ c \in Copy /\ c.a = mem.a[obj] /\ c.b = mem.b[obj] /\ c.manifest = "marked" /\ c.next = 0
    BY <1>3 DEF c
  <2>3. Copies(c) /\ CopiesPlain(c)
    BY <1>1, <2>1, <2>2, TransportedWords DEF Copies, CopiesPlain
  <2>4. QED
    BY <2>2, <2>3
<1>5. CASE gc_transport_weak_pair
  <2>1. step' = "store" /\ Kind[obj] = "weak"
        /\ UNCHANGED <<mem, roots, elist, bucket, queue, newRoots, phase, index, scan, obj, loc>>
    BY <1>5 DEF gc_transport_weak_pair, heapVars
  <2>2. CASE IsOld(mem.a[obj])
    <3> DEFINE c == [a |-> Hidden(mem.a[obj][2]), b |-> mem.b[obj], manifest |-> "marked", next |-> 0]
    <3>1. gc_transport_words(c) /\ weak_chain' = <<Len(to) + 1>> \o weak_chain
      BY <1>5, <2>2 DEF gc_transport_weak_pair
    <3>2. Hidden(mem.a[obj][2]) \in AnyWord
      BY <1>2, <2>2, WordFacts
    <3>3. /\ c \in Copy /\ c.a = Hidden(mem.a[obj][2]) /\ c.b = mem.b[obj]
          /\ c.manifest = "marked" /\ c.next = 0
      BY <1>2, <3>2 DEF Copy
    <3> HIDE DEF c
    <3>4. Copies(c) /\ CopiesHidden(c)
      BY <1>1, <2>1, <2>2, <3>1, <3>3, TransportedWords DEF Copies, CopiesHidden
    <3>5. QED
      BY <3>3, <3>4
  <2>3. CASE ~IsOld(mem.a[obj])
    <3> DEFINE c == CopyOf(obj)
    <3>1. gc_transport_words(c) /\ UNCHANGED weak_chain
      BY <1>5, <2>3 DEF gc_transport_weak_pair
    <3> HIDE DEF c
    <3>2. /\ c \in Copy /\ c.a = mem.a[obj] /\ c.b = mem.b[obj] /\ c.manifest = "marked" /\ c.next = 0
      BY <1>3 DEF c
    <3>3. Copies(c) /\ CopiesPlain(c)
      BY <1>1, <2>1, <2>3, <3>1, <3>2, TransportedWords DEF Copies, CopiesPlain
    <3>4. QED
      BY <3>2, <3>3
  <2>4. QED
    BY <2>2, <2>3
<1>6. CASE gc_transport_ephemeron
  <2> DEFINE key == mem.a[obj]
             keyLives == ~IsOld(key) \/ key[2] = obj \/ fwd[key[2]] # 0
  <2>1. step' = "store" /\ Kind[obj] = "ephemeron"
        /\ UNCHANGED <<mem, roots, weak_chain, queue, newRoots, phase, index, scan, obj, loc>>
    BY <1>6 DEF gc_transport_ephemeron, heapVars
  <2>2. CASE keyLives
    <3> DEFINE c == CopyOf(obj)
    <3>1. gc_transport_words(c) /\ UNCHANGED <<bucket, elist>>
      BY <1>6, <2>2 DEF gc_transport_ephemeron
    <3> HIDE DEF c
    <3>2. /\ c \in Copy /\ c.a = mem.a[obj] /\ c.b = mem.b[obj] /\ c.manifest = "marked" /\ c.next = 0
      BY <1>3 DEF c
    <3>3. Copies(c) /\ CopiesPlain(c)
      BY <1>1, <2>1, <2>2, <3>1, <3>2, TransportedWords DEF Copies, CopiesPlain
    <3>4. QED
      BY <3>2, <3>3
  <2>3. CASE ~keyLives
    <3> DEFINE c == [a |-> key, b |-> mem.b[obj], manifest |-> "unmarked",
                     next |-> bucket[Buckets[key[2]]]]
    <3>1. /\ gc_transport_words(c)
          /\ bucket' = [bucket EXCEPT ![Buckets[key[2]]] = Len(to) + 1]
          /\ elist' = <<Len(to) + 1>> \o elist
      BY <1>6, <2>3 DEF gc_transport_ephemeron
    <3>2. bucket[Buckets[key[2]]] \in Nat
      BY <1>2, <2>3 DEF IInv, Types, BucketSet
    <3>3. /\ c \in Copy /\ c.a = key /\ c.b = mem.b[obj]
          /\ c.manifest = "unmarked" /\ c.next = bucket[Buckets[key[2]]]
      BY <1>2, <3>2 DEF Copy
    <3> HIDE DEF c
    <3>4. Copies(c)
      BY <1>1, <2>1, <3>1, <3>3, TransportedWords DEF Copies
    <3>5. CopiesWaiting(c)
      BY <2>1, <2>3, <3>1, <3>3 DEF CopiesWaiting
    <3>6. QED
      BY <3>3, <3>4, <3>5
  <2>4. QED
    BY <2>2, <2>3
<1>7. QED
  BY <1>4, <1>5, <1>6 DEF Transporting

\* An ephemeron on the list waits for a key, a pair on the weak chain hides its car.
LEMMA ListedWaits ==
  ASSUME IInv, NEW i \in Elems(elist)
  PROVE  \E o \in Obj : /\ fwd[o] = i /\ i \in 1 .. Len(to) /\ Waiting(o)
                        /\ KeyOf(i) = mem.a[o][2] /\ KeyOf(i) \in Obj /\ to[i].a = mem.a[o]
<1>1. i \in 1 .. Len(to)
  BY DEF IInv, Lists
<1>2. PICK o \in Obj : fwd[o] = i
  BY <1>1 DEF IInv, Placement
<1>3. fwd[o] # 0
  BY <1>1, <1>2
<1>4. Waiting(o)
  BY <1>2, <1>3 DEF IInv, Content
<1>5. IsOld(mem.a[o]) /\ mem.a[o] \in AnyWord
  BY <1>4, HeapFacts, WordFacts DEF Waiting, IInv
<1>6. QED
  BY <1>1, <1>2, <1>4, <1>5, WordFacts DEF Waiting, KeyOf

LEMMA ChainedHides ==
  ASSUME IInv, NEW i \in Elems(weak_chain)
  PROVE  \E o \in Obj : /\ fwd[o] = i /\ i \in 1 .. Len(to) /\ HidesCar(o)
                        /\ to[i].a[2] = mem.a[o][2] /\ to[i].a[2] \in Obj
<1>1. i \in 1 .. Len(to)
  BY DEF IInv, Lists
<1>2. PICK o \in Obj : fwd[o] = i
  BY <1>1 DEF IInv, Placement
<1>3. fwd[o] # 0
  BY <1>1, <1>2
<1>4. HidesCar(o)
  BY <1>2, <1>3 DEF IInv, Content
<1>5. IsOld(mem.a[o]) /\ mem.a[o] \in AnyWord
  BY <1>4, HeapFacts, WordFacts DEF HidesCar, IInv
<1>6. QED
  BY <1>1, <1>2, <1>4, <1>5, WordFacts DEF HidesCar

\* The two lists have no copy in common.
LEMMA ListsApart ==
  ASSUME IInv, NEW i \in Elems(elist)
  PROVE  i \notin Elems(weak_chain)
<1>1. PICK o \in Obj : fwd[o] = i /\ i \in 1 .. Len(to) /\ Waiting(o)
  BY ListedWaits
<1>2. ASSUME i \in Elems(weak_chain) PROVE FALSE
  <2>1. PICK p \in Obj : fwd[p] = i /\ HidesCar(p)
    BY <1>2, ChainedHides
  <2>2. o = p
    BY <1>1, <2>1 DEF IInv, Placement
  <2>3. QED
    BY <1>1, <2>1, <2>2 DEF Waiting, HidesCar
<1>3. QED
  BY <1>2

\* The links that change when the ephemeron e goes to the queue.
Relinks(e) ==
  /\ e = entry /\ e \in 1 .. Len(to) /\ KeyOf(e) = obj /\ step = "walk"
  /\ to' \in Seq(Copy) /\ Len(to') = Len(to)
  /\ \A i \in 1 .. Len(to) : /\ to'[i].a = to[i].a /\ to'[i].b = to[i].b
                             /\ to'[i].manifest = to[i].manifest
                             /\ i # e /\ i # loc => to'[i].next = to[i].next
  /\ to'[e].next = queue
  /\ loc # 0 => /\ loc # e => to'[loc].next = to[e].next
                /\ bucket' = bucket
  /\ loc = 0 => bucket' = [bucket EXCEPT ![Buckets[obj]] = to[e].next]
  /\ queue' = e /\ loc' = e
  /\ UNCHANGED <<mem, roots, newRoots, fwd, weak_chain, elist, phase, index, scan, step, obj>>

LEMMA WalkRelinks ==
  ASSUME IInv, WalkQueue
  PROVE  Relinks(entry)
<1> DEFINE e == entry
<1>1. to \in Seq(Copy) /\ Len(to) \in Nat /\ queue \in Nat /\ loc \in 0 .. Len(to)
  BY DEF IInv, Types, Links
<1>2. step = "walk" /\ obj \in Obj
  BY DEF WalkQueue, IInv, CallOK
<1>3. Buckets[obj] \in BucketSet
  BY <1>2 DEF BucketSet
<1>4. \A i \in 1 .. Len(to) : to[i] \in Copy /\ to[i].next \in 0 .. Len(to)
  <2>1. \A i \in 1 .. Len(to) : to[i] \in Copy
    BY <1>1
  <2>2. QED
    BY <2>1 DEF IInv, Links, Copy
<1>5. e \in 1 .. Len(to)
  <2>1. CASE loc = 0
    BY <1>1, <1>3, <2>1 DEF WalkQueue, entry, IInv, Links, Types
  <2>2. CASE loc # 0
    BY <1>1, <1>4, <2>2 DEF WalkQueue, entry
  <2>3. QED
    BY <2>1, <2>2
<1> DEFINE r == [to[e] EXCEPT !.next = queue]
<1>6. /\ r \in Copy /\ r.next = queue /\ r.a = to[e].a /\ r.b = to[e].b
      /\ r.manifest = to[e].manifest
  BY <1>1, <1>4, <1>5, FieldSet
<1>7. UNCHANGED <<mem, roots, newRoots, fwd, weak_chain, elist, phase, index, scan, step, obj>>
      /\ queue' = e /\ loc' = e /\ KeyOf(e) = obj
  BY DEF WalkQueue, heapVars
<1>8. CASE loc = 0
  <2>1. to' = [to EXCEPT ![e] = r] /\ bucket' = [bucket EXCEPT ![Buckets[obj]] = to[e].next]
    BY <1>8 DEF WalkQueue
  <2> HIDE DEF r, e
  <2>2. /\ to' \in Seq(Copy) /\ Len(to') = Len(to) /\ to'[e] = r
        /\ \A i \in 1 .. Len(to) : i # e => to'[i] = to[i]
    BY <1>1, <1>5, <1>6, <2>1, Replaced
  <2>3. QED
    BY <1>2, <1>5, <1>6, <1>7, <1>8, <2>1, <2>2 DEF Relinks, e
<1>9. CASE loc # 0
  <2> DEFINE q == [to[loc] EXCEPT !.next = to[e].next]
             s == [to EXCEPT ![loc] = q]
             x == [s[e] EXCEPT !.next = queue]
  <2>1. to' = [s EXCEPT ![e] = x] /\ bucket' = bucket
    BY <1>9 DEF WalkQueue
  <2>2. to[loc] \in Copy /\ loc \in 1 .. Len(to) /\ to[e].next \in Nat
    BY <1>1, <1>4, <1>5, <1>9
  <2> HIDE DEF r, e
  <2>3. /\ q \in Copy /\ q.next = to[e].next /\ q.a = to[loc].a /\ q.b = to[loc].b
        /\ q.manifest = to[loc].manifest
    BY <2>2, FieldSet
  <2> HIDE DEF q
  <2>4. /\ s \in Seq(Copy) /\ Len(s) = Len(to) /\ s[loc] = q
        /\ \A i \in 1 .. Len(to) : i # loc => s[i] = to[i]
    BY <1>1, <2>2, <2>3, Replaced
  <2> HIDE DEF s
  <2>5. s[e] \in Copy /\ s[e].a = to[e].a /\ s[e].b = to[e].b /\ s[e].manifest = to[e].manifest
    <3>1. CASE e = loc
      BY <2>3, <2>4, <3>1
    <3>2. CASE e # loc
      BY <1>4, <1>5, <2>4, <3>2
    <3>3. QED
      BY <3>1, <3>2
  <2>6. /\ x \in Copy /\ x.next = queue /\ x.a = to[e].a /\ x.b = to[e].b
        /\ x.manifest = to[e].manifest
    BY <1>1, <2>5, FieldSet
  <2> HIDE DEF x
  <2>7. /\ to' \in Seq(Copy) /\ Len(to') = Len(to) /\ to'[e] = x
        /\ \A i \in 1 .. Len(to) : i # e => to'[i] = s[i]
    BY <1>5, <2>1, <2>4, <2>6, Replaced
  <2>8. \A i \in 1 .. Len(to) : /\ to'[i].a = to[i].a /\ to'[i].b = to[i].b
                                /\ to'[i].manifest = to[i].manifest
                                /\ i # e /\ i # loc => to'[i].next = to[i].next
    <3> SUFFICES ASSUME NEW i \in 1 .. Len(to)
                 PROVE  /\ to'[i].a = to[i].a /\ to'[i].b = to[i].b
                        /\ to'[i].manifest = to[i].manifest
                        /\ i # e /\ i # loc => to'[i].next = to[i].next
      OBVIOUS
    <3>1. CASE i = e
      BY <2>6, <2>7, <3>1
    <3>2. CASE i # e /\ i = loc
      BY <2>3, <2>4, <2>7, <3>2
    <3>3. CASE i # e /\ i # loc
      BY <2>4, <2>7, <3>3
    <3>4. QED
      BY <3>1, <3>2, <3>3
  <2>9. to'[e].next = queue /\ (loc # e => to'[loc].next = to[e].next)
    BY <2>2, <2>3, <2>4, <2>6, <2>7
  <2>10. QED
    BY <1>2, <1>5, <1>7, <1>9, <2>1, <2>7, <2>8, <2>9 DEF Relinks, e
<1>10. QED
  BY <1>8, <1>9

LEMMA ForwardFacts ==
  ASSUME Types, NEW o \in Obj
  PROVE  /\ weak_referent_forward(o) \in AnyWord /\ ~IsOld(weak_referent_forward(o))
         /\ fwd[o] # 0 => weak_referent_forward(o) = New(fwd[o]) /\ weak_referent_forward(o) # Null
         /\ fwd[o] = 0 => weak_referent_forward(o) = Null
  BY WordFacts, NewIsNotNull DEF Types, weak_referent_forward

\* The ephemeron i at the head of the list is settled.
Settles(i) ==
  /\ phase = "ephemerons" /\ i \in Elems(elist) /\ i \in 1 .. Len(to)
  /\ to' \in Seq(Copy) /\ Len(to') = Len(to)
  /\ \A j \in 1 .. Len(to) : j # i => to'[j] = to[j]
  /\ to'[i].a = weak_referent_forward(KeyOf(i))
  /\ to'[i].b = IF fwd[KeyOf(i)] = 0 THEN Null ELSE to[i].b
  /\ to'[i].manifest = "marked" /\ to'[i].next = 0
  /\ elist' \in Seq(Nat) /\ Once(elist') /\ Elems(elist') = Elems(elist) \ {i}
  /\ UNCHANGED <<mem, roots, newRoots, fwd, weak_chain, bucket, queue, phase, index, scan,
                 step, obj, loc>>

LEMMA EphemeronSettles ==
  ASSUME IInv, update_ephemerons
  PROVE  Settles(Head(elist))
<1> DEFINE i == Head(elist)
           key == weak_referent_forward(KeyOf(i))
           r == [a |-> key, b |-> IF key = Null THEN Null ELSE to[i].b,
                 manifest |-> "marked", next |-> 0]
<1>1. elist \in Seq(Nat) /\ elist # <<>> /\ Once(elist) /\ to \in Seq(Copy)
  BY DEF IInv, Types, Lists, update_ephemerons
<1>2. /\ i \in Elems(elist) /\ Tail(elist) \in Seq(Nat) /\ Once(Tail(elist))
      /\ Elems(Tail(elist)) = Elems(elist) \ {i}
  BY <1>1, TailFacts
<1>3. to' = [to EXCEPT ![i] = r] /\ elist' = Tail(elist) /\ phase = "ephemerons"
      /\ UNCHANGED <<mem, roots, newRoots, fwd, weak_chain, bucket, queue, phase, index, scan,
                     step, obj, loc>>
  BY DEF update_ephemerons, heapVars
<1> HIDE DEF i
<1>4. KeyOf(i) \in Obj /\ i \in 1 .. Len(to)
  BY <1>2, ListedWaits
<1>5. to[i] \in Copy
  BY <1>1, <1>4
<1>6. key \in AnyWord /\ (key = Null <=> fwd[KeyOf(i)] = 0)
  BY <1>4, ForwardFacts DEF IInv
<1> HIDE DEF key
<1>7. /\ r \in Copy /\ r.a = key /\ r.manifest = "marked" /\ r.next = 0
      /\ r.b = IF fwd[KeyOf(i)] = 0 THEN Null ELSE to[i].b
  BY <1>5, <1>6, WordFacts DEF Copy
<1> HIDE DEF r
<1>8. /\ to' \in Seq(Copy) /\ Len(to') = Len(to) /\ to'[i] = r
      /\ \A j \in 1 .. Len(to) : j # i => to'[j] = to[j]
  BY <1>1, <1>3, <1>4, <1>7, Replaced
<1>9. QED
  BY <1>2, <1>3, <1>4, <1>7, <1>8 DEF Settles, i, key

\* The weak pair i at the head of the chain is settled.
Uncovers(i) ==
  /\ phase = "weak" /\ i \in Elems(weak_chain) /\ i \in 1 .. Len(to)
  /\ to' \in Seq(Copy) /\ Len(to') = Len(to)
  /\ \A j \in 1 .. Len(to) : j # i => to'[j] = to[j]
  /\ to'[i].a = weak_referent_forward(to[i].a[2])
  /\ to'[i].b = to[i].b /\ to'[i].manifest = to[i].manifest /\ to'[i].next = to[i].next
  /\ weak_chain' \in Seq(Nat) /\ Once(weak_chain') /\ Elems(weak_chain') = Elems(weak_chain) \ {i}
  /\ UNCHANGED <<mem, roots, newRoots, fwd, elist, bucket, queue, phase, index, scan,
                 step, obj, loc>>

LEMMA WeakPairUncovers ==
  ASSUME IInv, update_weak_pairs
  PROVE  Uncovers(Head(weak_chain))
<1> DEFINE i == Head(weak_chain)
           car == weak_referent_forward(to[i].a[2])
           r == [to[i] EXCEPT !.a = car]
<1>1. weak_chain \in Seq(Nat) /\ weak_chain # <<>> /\ Once(weak_chain) /\ to \in Seq(Copy)
  BY DEF IInv, Types, Lists, update_weak_pairs
<1>2. /\ i \in Elems(weak_chain) /\ Tail(weak_chain) \in Seq(Nat) /\ Once(Tail(weak_chain))
      /\ Elems(Tail(weak_chain)) = Elems(weak_chain) \ {i}
  BY <1>1, TailFacts
<1>3. to' = [to EXCEPT ![i] = r] /\ weak_chain' = Tail(weak_chain) /\ phase = "weak"
      /\ UNCHANGED <<mem, roots, newRoots, fwd, elist, bucket, queue, phase, index, scan,
                     step, obj, loc>>
  BY DEF update_weak_pairs, heapVars
<1> HIDE DEF i
<1>4. to[i].a[2] \in Obj /\ i \in 1 .. Len(to)
  BY <1>2, ChainedHides
<1>5. to[i] \in Copy
  BY <1>1, <1>4
<1>6. car \in AnyWord
  BY <1>4, ForwardFacts DEF IInv
<1> HIDE DEF car
<1>7. /\ r \in Copy /\ r.a = car /\ r.b = to[i].b /\ r.manifest = to[i].manifest
      /\ r.next = to[i].next
  BY <1>5, <1>6, FieldSet
<1> HIDE DEF r
<1>8. /\ to' \in Seq(Copy) /\ Len(to') = Len(to) /\ to'[i] = r
      /\ \A j \in 1 .. Len(to) : j # i => to'[j] = to[j]
  BY <1>1, <1>3, <1>4, <1>7, Replaced
<1>9. QED
  BY <1>2, <1>3, <1>4, <1>7, <1>8 DEF Uncovers, i, car

LEMMA Effects ==
  ASSUME IInv, Next
  PROVE  \/ Quiet
         \/ phase = "roots" /\ Returning
         \/ \E i \in 1 .. Len(to), f \in FieldNames, v \in AnyWord : Writes(i, f, v)
         \/ \E c \in Copy : Copies(c) /\ (CopiesPlain(c) \/ CopiesHidden(c) \/ CopiesWaiting(c))
         \/ Relinks(entry)
         \/ Settles(Head(elist))
         \/ Uncovers(Head(weak_chain))
  BY StepKinds, TospaceReturns, TransportCases, WalkRelinks, EphemeronSettles, WeakPairUncovers

-----------------------------------------------------------------------------
(* Each part of the invariant is preserved. *)

LEMMA EntryType ==
  ASSUME IInv, step = "walk"
  PROVE  entry \in 0 .. Len(to)
<1>1. obj \in Obj
  BY DEF IInv, CallOK
<1>2. CASE loc = 0
  BY <1>1, <1>2 DEF entry, IInv, Types, Links, BucketSet
<1>3. CASE loc # 0
  <2>1. loc \in 1 .. Len(to) /\ to \in Seq(Copy)
    BY <1>3 DEF IInv, Links, Types
  <2>2. to[loc] \in Copy /\ to[loc].next <= Len(to)
    BY <2>1 DEF IInv, Links
  <2>3. QED
    BY <1>3, <2>2 DEF entry, Copy
<1>4. QED
  BY <1>2, <1>3

LEMMA QueueType ==
  ASSUME IInv, queue # 0
  PROVE  to[queue] \in Copy /\ to[queue].next \in 0 .. Len(to) /\ queue \in 1 .. Len(to)
<1>1. queue \in 1 .. Len(to) /\ to \in Seq(Copy)
  BY DEF IInv, Links, Types
<1>2. to[queue] \in Copy /\ to[queue].next <= Len(to)
  BY <1>1 DEF IInv, Links
<1>3. QED
  BY <1>1, <1>2 DEF Copy

LEMMA QuietTypes ==
  ASSUME IInv, Quiet
  PROVE  /\ queue' \in 0 .. Len(to) /\ loc' \in 0 .. Len(to)
         /\ phase' \in Phases /\ index' \in Nat /\ index' # 0
         /\ scan' \in [i : Nat, f : FieldNames] /\ step' \in Steps
<1>1. /\ queue \in 0 .. Len(to) /\ loc \in 0 .. Len(to) /\ Len(to) \in Nat
      /\ phase \in Phases /\ index \in Nat /\ index # 0
      /\ scan \in [i : Nat, f : FieldNames] /\ step \in Steps
  BY DEF IInv, Types, Links
<1>2. queue' \in 0 .. Len(to)
  <2>1. CASE ScanDatum
    BY <2>1, QueueType DEF ScanDatum
  <2>2. CASE ~ScanDatum
    BY <1>1, <2>2 DEF Quiet, HandleUnknown, EagerCdr, WalkPast, WalkEnd, RootsDone, SkipEphemeron,
     ScanDone, ScanList, ListDone, QueueDone, EphemeronsDone, std_gc_pt2, Goto, tableVars
  <2>3. QED
    BY <2>1, <2>2
<1>3. loc' \in 0 .. Len(to)
  <2>1. CASE WalkPast
    BY <2>1, EntryType DEF WalkPast
  <2>2. CASE ~WalkPast
    BY <1>1, <2>2 DEF Quiet, HandleUnknown, EagerCdr, WalkEnd, RootsDone, SkipEphemeron,
     ScanDone, ScanList, ListDone, ScanDatum, QueueDone, EphemeronsDone, std_gc_pt2, Goto, Precheck,
     queue_ephemerons_for_key
  <2>3. QED
    BY <2>1, <2>2
<1>4. phase' \in Phases /\ step' \in Steps
  BY <1>1 DEF Quiet, HandleUnknown, EagerCdr, WalkPast, WalkEnd, RootsDone, SkipEphemeron,
     ScanDone, ScanList, ListDone, ScanDatum, QueueDone, EphemeronsDone, std_gc_pt2, Goto, Precheck,
     queue_ephemerons_for_key, Phases, Steps
<1>5. index' \in Nat /\ index' # 0
  BY <1>1 DEF Quiet, HandleUnknown, EagerCdr, WalkPast, WalkEnd, RootsDone, SkipEphemeron,
     ScanDone, ScanList, ListDone, ScanDatum, QueueDone, EphemeronsDone, std_gc_pt2, Goto
<1>6. scan' \in [i : Nat, f : FieldNames]
  <2>1. scan.i + 1 \in Nat /\ Len(to) + 1 \in Nat /\ "a" \in FieldNames
    BY <1>1 DEF FieldNames
  <2>2. QED
    BY <1>1, <2>1 DEF Quiet, HandleUnknown, EagerCdr, WalkPast, WalkEnd, RootsDone, SkipEphemeron,
     ScanDone, ScanList, ListDone, ScanDatum, QueueDone, EphemeronsDone, std_gc_pt2, Goto
<1>7. QED
  BY <1>2, <1>3, <1>4, <1>5, <1>6

LEMMA AdvanceType ==
  ASSUME Types, Advance
  PROVE  scan' \in [i : Nat, f : FieldNames]
  BY DEF Types, Advance, FieldNames

LEMMA TypesStep ==
  ASSUME IInv, Next
  PROVE  Types'
<1> USE DEF IInv
<1>1. Len(to) \in Nat /\ Types
  BY DEF Types
<1>2. CASE Quiet
  BY <1>1, <1>2, QuietTypes, QuietFrame DEF Types
<1>3. CASE phase = "roots" /\ Returning
  <2>1. PICK v \in AnyWord : newRoots' = [newRoots EXCEPT ![index] = v]
    BY <1>3, RootReturns
  <2>2. newRoots' \in Seq(AnyWord) /\ Len(newRoots') = Len(newRoots)
    <3>1. newRoots \in Seq(AnyWord) /\ index \in 1 .. Len(newRoots)
      BY <1>1, <1>3, RootReturns DEF Types
    <3>2. QED
      BY <2>1, <3>1
  <2>3. /\ index' = index + 1 /\ step' = "next"
        /\ UNCHANGED <<mem, roots, fwd, to, weak_chain, elist, bucket, queue, phase, scan, obj, loc>>
    BY <1>3, RootReturns
  <2>4. QED
    BY <1>1, <2>2, <2>3 DEF Types, Steps
<1>4. ASSUME NEW i \in 1 .. Len(to), NEW f \in FieldNames, NEW v \in AnyWord, Writes(i, f, v)
      PROVE  Types'
  <2>1. /\ phase' \in Phases /\ step' \in Steps /\ scan' \in [i : Nat, f : FieldNames]
    BY <1>1, <1>4, AdvanceType DEF Writes, Types, Phases, Steps
  <2>2. QED
    BY <1>1, <1>4, <2>1 DEF Types, Writes
<1>5. ASSUME NEW c \in Copy, Copies(c), CopiesPlain(c) \/ CopiesHidden(c) \/ CopiesWaiting(c)
      PROVE  Types'
  <2>1. weak_chain' \in Seq(Nat) /\ elist' \in Seq(Nat)
    <3>1. weak_chain \in Seq(Nat) /\ elist \in Seq(Nat) /\ Len(to) + 1 \in Nat
      BY <1>1 DEF Types
    <3>2. /\ weak_chain' \in {weak_chain, <<Len(to) + 1>> \o weak_chain}
          /\ elist' \in {elist, <<Len(to) + 1>> \o elist}
      BY <1>5 DEF CopiesPlain, CopiesHidden, CopiesWaiting
    <3>3. QED
      BY <3>1, <3>2, ConsFacts
  <2>2. bucket' \in [BucketSet -> Nat]
    BY <1>1, <1>5 DEF Types, CopiesPlain, CopiesHidden, CopiesWaiting
  <2>3. step' \in Steps
    BY <1>5 DEF Copies, Steps
  <2>4. QED
    BY <1>1, <1>5, <2>1, <2>2, <2>3 DEF Types, Copies
<1>6. CASE Relinks(entry)
  <2>1. to[entry] \in Copy
    BY <1>1, <1>6 DEF Types, Relinks
  <2>2. bucket' \in [BucketSet -> Nat]
    BY <1>1, <1>6, <2>1 DEF Types, Relinks, Copy
  <2>3. QED
    BY <1>1, <1>6, <2>2 DEF Types, Relinks
<1>7. CASE Settles(Head(elist))
  BY <1>1, <1>7 DEF Types, Settles
<1>8. CASE Uncovers(Head(weak_chain))
  BY <1>1, <1>8 DEF Types, Uncovers
<1>9. QED
  BY <1>2, <1>3, <1>4, <1>5, <1>6, <1>7, <1>8, Effects

LEMMA PlacementStep ==
  ASSUME IInv, Next
  PROVE  Placement'
<1>1. Len(to) \in Nat /\ Placement /\ fwd \in [Obj -> Nat]
  BY DEF IInv, Types
<1>2. CASE Len(to') = Len(to) /\ fwd' = fwd
  BY <1>1, <1>2 DEF Placement
<1>3. ASSUME NEW c \in Copy, Copies(c) PROVE Placement'
  <2>1. \A o \in Obj : fwd'[o] <= Len(to')
    <3>1. /\ Len(to') = Len(to) + 1 /\ obj \in Obj /\ fwd'[obj] = Len(to) + 1
          /\ \A o \in Obj : o # obj => fwd'[o] = fwd[o]
      BY <1>3 DEF Copies
    <3>2. QED
      BY <1>1, <3>1 DEF Placement
  <2>2. ASSUME NEW o \in Obj, NEW p \in Obj, fwd'[o] = fwd'[p], fwd'[o] # 0 PROVE o = p
    BY <1>1, <1>3, <2>2 DEF Placement, Copies
  <2>3. ASSUME NEW i \in 1 .. Len(to') PROVE \E o \in Obj : fwd'[o] = i
    <3>1. CASE i = Len(to) + 1
      BY <1>3, <3>1 DEF Copies
    <3>2. CASE i # Len(to) + 1
      <4>1. i \in 1 .. Len(to)
        BY <1>1, <1>3, <3>2 DEF Copies
      <4>2. PICK o \in Obj : fwd[o] = i
        BY <1>1, <4>1 DEF Placement
      <4>3. o # obj
        BY <1>3, <4>1, <4>2 DEF Copies
      <4>4. QED
        BY <1>3, <4>2, <4>3 DEF Copies
    <3>3. QED
      BY <3>1, <3>2
  <2>4. QED
    BY <2>1, <2>2, <2>3 DEF Placement
<1>4. QED
  BY <1>2, <1>3, Effects, QuietFrame, RootReturns DEF Writes, Relinks, Settles, Uncovers

LEMMA ListsStep ==
  ASSUME IInv, Next
  PROVE  Lists'
<1>1. Len(to) \in Nat /\ Lists /\ elist \in Seq(Nat) /\ weak_chain \in Seq(Nat)
  BY DEF IInv, Types
<1>2. CASE Len(to') = Len(to) /\ UNCHANGED <<elist, weak_chain>>
  BY <1>1, <1>2 DEF Lists, Elems, Once
<1>3. ASSUME NEW c \in Copy, Copies(c), CopiesPlain(c) \/ CopiesHidden(c) \/ CopiesWaiting(c)
      PROVE  Lists'
  <2> DEFINE n == Len(to) + 1
  <2>1. n \notin Elems(elist) /\ n \notin Elems(weak_chain) /\ n \in Nat /\ n \in 1 .. n
        /\ 1 .. Len(to) \subseteq 1 .. n
    BY <1>1 DEF Lists
  <2>2. Len(to') = n
    BY <1>3 DEF Copies
  <2>3. \/ elist' = elist
        \/ elist' = <<n>> \o elist
    BY <1>3 DEF CopiesPlain, CopiesHidden, CopiesWaiting
  <2>4. \/ weak_chain' = weak_chain
        \/ weak_chain' = <<n>> \o weak_chain
    BY <1>3 DEF CopiesPlain, CopiesHidden, CopiesWaiting
  <2> HIDE DEF n
  <2>5. Elems(elist)' \subseteq Elems(elist) \cup {n} /\ Once(elist)'
    <3>1. Elems(<<n>> \o elist) = Elems(elist) \cup {n} /\ Once(<<n>> \o elist) /\ Once(elist)
      BY <1>1, <2>1, ConsFacts DEF Lists
    <3>2. QED
      BY <2>3, <3>1
  <2>6. Elems(weak_chain)' \subseteq Elems(weak_chain) \cup {n} /\ Once(weak_chain)'
    <3>1. /\ Elems(<<n>> \o weak_chain) = Elems(weak_chain) \cup {n}
          /\ Once(<<n>> \o weak_chain) /\ Once(weak_chain)
      BY <1>1, <2>1, ConsFacts DEF Lists
    <3>2. QED
      BY <2>4, <3>1
  <2>7. QED
    BY <1>1, <2>1, <2>2, <2>5, <2>6 DEF Lists
<1>4. CASE Settles(Head(elist))
  BY <1>1, <1>4 DEF Lists, Settles
<1>5. CASE Uncovers(Head(weak_chain))
  BY <1>1, <1>5 DEF Lists, Uncovers
<1>6. QED
  BY <1>2, <1>3, <1>4, <1>5, Effects, QuietFrame, RootReturns DEF Writes, Relinks

LEMMA LinksStep ==
  ASSUME IInv, Next
  PROVE  Links'
<1>1. Len(to) \in Nat /\ Links /\ bucket \in [BucketSet -> Nat] /\ to \in Seq(Copy)
  BY DEF IInv, Types
<1>2. CASE Quiet
  BY <1>1, <1>2, QuietTypes, QuietFrame DEF Links
<1>3. CASE phase = "roots" /\ Returning
  BY <1>1, <1>3, RootReturns DEF Links
<1>4. ASSUME NEW i \in 1 .. Len(to), NEW f \in FieldNames, NEW v \in AnyWord, Writes(i, f, v)
      PROVE  Links'
  BY <1>1, <1>4 DEF Links, Writes
<1>5. ASSUME NEW c \in Copy, Copies(c), CopiesPlain(c) \/ CopiesHidden(c) \/ CopiesWaiting(c)
      PROVE  Links'
  <2>1. c.next <= Len(to)
    <3>1. ASSUME CopiesWaiting(c) PROVE c.next <= Len(to)
      <4>1. mem.a[obj] \in AnyWord
        BY <1>5, HeapFacts, WordFacts DEF Copies, IInv
      <4>2. mem.a[obj][2] \in Obj
        BY <3>1, <4>1, WordFacts DEF CopiesWaiting
      <4>3. QED
        BY <1>1, <3>1, <4>2 DEF CopiesWaiting, Links, BucketSet
    <3>2. QED
      BY <1>1, <1>5, <3>1 DEF CopiesPlain, CopiesHidden
  <2>2. \A n \in BucketSet : bucket'[n] <= Len(to')
    <3>1. \/ bucket' = bucket
          \/ \E n : bucket' = [bucket EXCEPT ![n] = Len(to) + 1]
      BY <1>5 DEF CopiesPlain, CopiesHidden, CopiesWaiting
    <3>2. Len(to') = Len(to) + 1
      BY <1>5 DEF Copies
    <3>3. \A n \in BucketSet : bucket[n] \in Nat /\ bucket[n] <= Len(to)
      BY <1>1 DEF Links
    <3>4. QED
      BY <1>1, <3>1, <3>2, <3>3
  <2>3. ASSUME NEW i \in 1 .. Len(to') PROVE to'[i].next <= Len(to')
    <3>1. CASE i = Len(to) + 1
      BY <1>1, <1>5, <2>1, <3>1 DEF Copies, Copy
    <3>2. CASE i # Len(to) + 1
      <4>1. i \in 1 .. Len(to)
        BY <1>1, <1>5, <3>2 DEF Copies
      <4>2. to[i] \in Copy
        BY <1>1, <4>1
      <4>3. QED
        <5>1. to[i].next \in Nat /\ to[i].next <= Len(to)
          BY <1>1, <4>1, <4>2 DEF Links, Copy
        <5>2. to'[i] = to[i] /\ Len(to') = Len(to) + 1
          BY <1>5, <4>1 DEF Copies
        <5>3. QED
          BY <1>1, <5>1, <5>2
    <3>3. QED
      BY <3>1, <3>2
  <2>4. queue' <= Len(to') /\ loc' <= Len(to')
    BY <1>1, <1>5 DEF Links, Copies, IInv, Types
  <2>5. QED
    BY <2>2, <2>3, <2>4 DEF Links
<1>6. CASE Relinks(entry)
  <2> DEFINE e == entry
  <2>1. /\ e \in 1 .. Len(to) /\ Len(to') = Len(to) /\ queue' = e /\ loc' = e
        /\ to'[e].next = queue
        /\ \A i \in 1 .. Len(to) : i # e /\ i # loc => to'[i].next = to[i].next
        /\ loc # 0 /\ loc # e => to'[loc].next = to[e].next
        /\ \/ bucket' = bucket
           \/ bucket' = [bucket EXCEPT ![Buckets[obj]] = to[e].next]
    BY <1>6 DEF Relinks
  <2> HIDE DEF e
  <2>2. \A i \in 1 .. Len(to) : to'[i].next <= Len(to)
    BY <1>1, <2>1 DEF Links
  <2>3. \A n \in BucketSet : bucket'[n] <= Len(to)
    BY <1>1, <2>1 DEF Links
  <2>4. QED
    BY <1>1, <2>1, <2>2, <2>3 DEF Links
<1>7. CASE Settles(Head(elist))
  BY <1>1, <1>7 DEF Links, Settles
<1>8. CASE Uncovers(Head(weak_chain))
  BY <1>1, <1>8 DEF Links, Uncovers
<1>9. QED
  BY <1>2, <1>3, <1>4, <1>5, <1>6, <1>7, <1>8, Effects

LEMMA FollowsMore ==
  ASSUME NEW f, NEW g, NEW w, NEW v \in AnyWord, FollowsBy(f, w, v),
         \A o \in Obj : f[o] # 0 => g[o] = f[o]
  PROVE  FollowsBy(g, w, v)
<1>1. IsOld(v) => v[2] \in Obj
  BY WordFacts
<1>2. QED
  BY <1>1 DEF FollowsBy

LEMMA FollowsOn ==
  ASSUME NEW f, NEW u, NEW w, NEW v, FollowsBy(f, u, w), FollowsBy(f, w, v)
  PROVE  FollowsBy(f, u, v)
<1>1. \A i : ~IsOld(New(i))
  BY WordFacts
<1>2. QED
  BY <1>1 DEF FollowsBy

\* A word that is settled and is no pointer into fromspace points to a copy.
LEMMA FollowsNew ==
  ASSUME NEW f, NEW w, NEW v, FollowsBy(f, w, v), ~IsOld(w)
  PROVE  /\ IsOld(v) => f[v[2]] # 0 /\ w = New(f[v[2]])
         /\ ~IsOld(v) => w = v
  BY DEF FollowsBy

LEMMA FwdGrows ==
  ASSUME IInv, Next
  PROVE  /\ \A o \in Obj : fwd[o] # 0 => fwd'[o] = fwd[o]
         /\ Late' # Late => QueueDone
         /\ ~Late' => ~Late
<1>1. \A o \in Obj : fwd[o] # 0 => fwd'[o] = fwd[o]
  BY Effects, QuietFrame, RootReturns DEF Writes, Copies, Relinks, Settles, Uncovers
<1>2. CASE Quiet
  <2>1. (Late' # Late => QueueDone) /\ (~Late' => ~Late)
    BY <1>2 DEF Quiet, HandleUnknown, EagerCdr, WalkPast, WalkEnd, RootsDone, SkipEphemeron,
       ScanDone, ScanList, ListDone, ScanDatum, QueueDone, EphemeronsDone, std_gc_pt2, Goto, Late
  <2>2. QED
    BY <1>1, <2>1
<1>3. CASE phase' = phase
  BY <1>1, <1>3 DEF Late
<1>4. ASSUME NEW i \in 1 .. Len(to), NEW f \in FieldNames, NEW v \in AnyWord, Writes(i, f, v)
      PROVE  (Late' # Late => QueueDone) /\ (~Late' => ~Late)
  BY <1>4 DEF Writes, Late
<1>5. \/ Quiet \/ phase' = phase
      \/ \E i \in 1 .. Len(to), f \in FieldNames, v \in AnyWord : Writes(i, f, v)
  BY Effects, RootReturns DEF Copies, Relinks, Settles, Uncovers
<1>6. QED
  BY <1>1, <1>2, <1>3, <1>4, <1>5

LEMMA QueueDoneLate ==
  ASSUME QueueDone
  PROVE  ~Late /\ Late' /\ phase = "queue" /\ queue = 0 /\ step = "next" /\ phase' = "ephemerons"
         /\ step' = "next" /\ scan' = scan
  BY DEF QueueDone, Late, Goto

LEMMA PlainKept ==
  ASSUME NEW o \in Obj, Plain(o), UNCHANGED <<mem, fwd>>, to'[fwd[o]] = to[fwd[o]], Late' = Late
  PROVE  Plain(o)'
  BY DEF Plain, Broken, Follows

LEMMA ContentStep ==
  ASSUME IInv, Next
  PROVE  Content'
<1>1. /\ Len(to) \in Nat /\ fwd \in [Obj -> Nat] /\ Content /\ Placement /\ Lists
      /\ elist \in Seq(Nat) /\ weak_chain \in Seq(Nat)
  BY DEF IInv, Types
<1>2. \A o \in Obj : mem.a[o] \in AnyWord /\ mem.b[o] \in AnyWord
  BY HeapFacts, WordFacts DEF IInv
<1>3. UNCHANGED <<mem, roots>>
  BY HeapStays
<1>4. \A o \in Obj : fwd[o] # 0 => fwd[o] \in 1 .. Len(to)
  BY <1>1 DEF Placement
\* A copy that no list gains or loses and that does not change.
<1>5. ASSUME NEW o \in Obj, fwd[o] # 0, fwd'[o] = fwd[o], Late' = Late,
             \A p \in Obj : fwd[p] # 0 => fwd'[p] = fwd[p],
             Late => fwd' = fwd,
             to'[fwd[o]].a = to[fwd[o]].a, to'[fwd[o]].b = to[fwd[o]].b,
             to'[fwd[o]].manifest = to[fwd[o]].manifest,
             fwd[o] \in Elems(elist)' <=> fwd[o] \in Elems(elist),
             fwd[o] \in Elems(weak_chain)' <=> fwd[o] \in Elems(weak_chain)
      PROVE  /\ fwd'[o] \in Elems(elist)' => Waiting(o)'
             /\ fwd'[o] \in Elems(weak_chain)' => HidesCar(o)'
             /\ fwd'[o] \notin Elems(elist)' \cup Elems(weak_chain)' => Plain(o)'
  <2>1. \A w : /\ FollowsBy(fwd, w, mem.a[o]) => FollowsBy(fwd', w, mem.a[o])
               /\ FollowsBy(fwd, w, mem.b[o]) => FollowsBy(fwd', w, mem.b[o])
    BY <1>2, <1>5, FollowsMore
  <2>2. fwd[o] \in Elems(elist) => Waiting(o)'
    BY <1>1, <1>3, <1>5, <2>1 DEF Content, Waiting, Follows
  <2>3. fwd[o] \in Elems(weak_chain) => HidesCar(o)'
    BY <1>1, <1>3, <1>5, <2>1 DEF Content, HidesCar, Follows
  <2>4. fwd[o] \notin Elems(elist) \cup Elems(weak_chain) => Plain(o)'
    <3>1. CASE ~Late
      BY <1>1, <1>3, <1>5, <2>1, <3>1 DEF Content, Plain, Broken, Follows
    <3>2. CASE Late
      BY <1>1, <1>3, <1>5, <3>2 DEF Content, Plain, Broken, Follows
    <3>3. QED
      BY <3>1, <3>2
  <2>5. QED
    BY <1>5, <2>2, <2>3, <2>4
<1> DEFINE C(o) == /\ fwd'[o] \in Elems(elist)' => Waiting(o)'
                   /\ fwd'[o] \in Elems(weak_chain)' => HidesCar(o)'
                   /\ fwd'[o] \notin Elems(elist)' \cup Elems(weak_chain)' => Plain(o)'
<1>6. CASE Late' = Late /\ UNCHANGED <<fwd, to, elist, weak_chain>>
  <2>1. \A o \in Obj : fwd[o] # 0 => C(o)
    BY <1>5, <1>6 DEF Elems
  <2>2. QED
    BY <1>6, <2>1 DEF Content
<1>7. CASE QueueDone
  <2>1. ~Late /\ Late' /\ phase = "queue"
    BY <1>7, QueueDoneLate
  <2>2. UNCHANGED <<fwd, to, elist, weak_chain>>
    BY <1>7, QuietFrame DEF Quiet
  <2>3. scan.i = Len(to) + 1
    BY <2>1 DEF IInv, ScanOK
  <2> SUFFICES ASSUME NEW o \in Obj, fwd[o] # 0 PROVE C(o)
    BY <2>2 DEF Content
  <2>4. fwd[o] \in Elems(elist) => Waiting(o)'
    BY <1>1, <1>3, <2>2 DEF Content, Waiting, Follows
  <2>5. fwd[o] \in Elems(weak_chain) => HidesCar(o)'
    BY <1>1, <1>3, <2>2 DEF Content, HidesCar, Follows
  <2>6. ASSUME fwd[o] \notin Elems(elist) \cup Elems(weak_chain) PROVE Plain(o)'
    <3>1. /\ to[fwd[o]].manifest = "marked" /\ FollowsBy(fwd, to[fwd[o]].a, mem.a[o])
          /\ FollowsBy(fwd, to[fwd[o]].b, mem.b[o])
      BY <1>1, <2>1, <2>6 DEF Content, Plain, Broken, Follows
    <3>2. fwd[o] \in DOMAIN to /\ fwd[o] < scan.i
      BY <1>1, <1>4, <2>3 DEF IInv, Types
    <3>3. ~IsOld(to[fwd[o]].a)
      BY <1>1, <1>4, <3>1, <3>2 DEF IInv, CleanOK, Types
    <3>4. ~Broken(o)'
      BY <1>3, <2>2, <3>1, <3>3, FollowsNew DEF Broken
    <3>5. QED
      BY <1>3, <2>2, <3>1, <3>4 DEF Plain, Follows
  <2>7. QED
    BY <2>2, <2>4, <2>5, <2>6 DEF Elems
<1>8. ASSUME NEW i \in 1 .. Len(to), NEW f \in FieldNames, NEW v \in AnyWord, Writes(i, f, v)
      PROVE  Content'
  <2>1. /\ ~IsOld(v) /\ FollowsBy(fwd, v, to[i][f]) /\ f \in {"a", "b"}
        /\ \A j \in 1 .. Len(to) : j # i => to'[j] = to[j]
        /\ to'[i].manifest = to[i].manifest
        /\ f = "a" => to'[i].a = v /\ to'[i].b = to[i].b
        /\ f = "b" => to'[i].b = v /\ to'[i].a = to[i].a
        /\ UNCHANGED <<fwd, elist, weak_chain>> /\ ~Late /\ ~Late' /\ Late' = Late
        /\ f = "a" => to[i].manifest = "marked"
    BY <1>8 DEF Writes, Late, Follows, FieldNames
  <2>2. UNCHANGED <<Elems(elist), Elems(weak_chain)>>
    BY <2>1 DEF Elems
  <2> SUFFICES ASSUME NEW o \in Obj, fwd[o] # 0 PROVE C(o)
    BY <2>1 DEF Content
  <2>3. CASE fwd[o] # i
    <3>1. to'[fwd[o]] = to[fwd[o]]
      BY <1>4, <2>1, <2>3
    <3>2. QED
      BY <1>5, <2>1, <2>2, <3>1
  <2>4. CASE fwd[o] = i
    <3>1. \A w : FollowsBy(fwd, to[i].a, w) => FollowsBy(fwd, to'[i].a, w)
      <4>1. CASE f = "a"
        BY <2>1, <4>1, FollowsOn
      <4>2. CASE f = "b"
        BY <2>1, <4>2
      <4>3. QED
        BY <2>1, <4>1, <4>2
    <3>2. \A w : FollowsBy(fwd, to[i].b, w) => FollowsBy(fwd, to'[i].b, w)
      <4>1. CASE f = "a"
        BY <2>1, <4>1
      <4>2. CASE f = "b"
        BY <2>1, <4>2, FollowsOn
      <4>3. QED
        BY <2>1, <4>1, <4>2
    <3>3. i \in Elems(elist) => Waiting(o)'
      <4>1. ASSUME i \in Elems(elist) PROVE Waiting(o)'
        <5>1. Waiting(o)
          BY <1>1, <2>4, <4>1 DEF Content
        <5>2. f = "b"
          BY <2>1, <2>4, <5>1 DEF Waiting
        <5>3. QED
          BY <1>3, <2>1, <2>4, <3>2, <5>1, <5>2 DEF Waiting, Follows
      <4>2. QED
        BY <4>1
    <3>4. i \in Elems(weak_chain) => HidesCar(o)'
      <4>1. ASSUME i \in Elems(weak_chain) PROVE HidesCar(o)'
        <5>1. HidesCar(o)
          BY <1>1, <2>4, <4>1 DEF Content
        <5>2. to'[i].a = to[i].a
          <6>1. CASE f = "a"
            <7>1. ~IsOld(to[i].a)
              BY <2>4, <5>1, WordFacts DEF HidesCar
            <7>2. QED
              BY <2>1, <6>1, <7>1 DEF FollowsBy
          <6>2. QED
            BY <2>1, <6>1
        <5>3. QED
          BY <1>3, <2>1, <2>4, <3>2, <5>1, <5>2 DEF HidesCar, Follows
      <4>2. QED
        BY <4>1
    <3>5. i \notin Elems(elist) \cup Elems(weak_chain) => Plain(o)'
      BY <1>1, <1>3, <2>1, <2>4, <3>1, <3>2 DEF Content, Plain, Broken, Follows
    <3>6. QED
      BY <2>1, <2>2, <2>4, <3>3, <3>4, <3>5
  <2>5. QED
    BY <2>3, <2>4
<1>9. ASSUME NEW c \in Copy, Copies(c), CopiesPlain(c) \/ CopiesHidden(c) \/ CopiesWaiting(c)
      PROVE  Content'
  <2> DEFINE n == Len(to) + 1
  <2>1. /\ obj \in Obj /\ fwd[obj] = 0 /\ c.b = mem.b[obj] /\ to'[n] = c /\ fwd'[obj] = n
        /\ \A i \in 1 .. Len(to) : to'[i] = to[i]
        /\ \A o \in Obj : o # obj => fwd'[o] = fwd[o]
        /\ ~Late /\ ~Late' /\ Late' = Late
    BY <1>9 DEF Copies, Late
  <2>2. n \notin Elems(elist) /\ n \notin Elems(weak_chain) /\ n \in Nat /\ n \notin 1 .. Len(to)
    BY <1>1 DEF Lists
  <2>3. /\ \A i \in 1 .. Len(to) : /\ i \in Elems(elist)' <=> i \in Elems(elist)
                                   /\ i \in Elems(weak_chain)' <=> i \in Elems(weak_chain)
        /\ n \in Elems(elist)' <=> CopiesWaiting(c)
        /\ n \in Elems(weak_chain)' <=> CopiesHidden(c)
    <3>1. CASE CopiesPlain(c)
      <4>1. UNCHANGED <<elist, weak_chain>> /\ c.manifest = "marked" /\ c.a = mem.a[obj]
        BY <3>1 DEF CopiesPlain
      <4>2. ~CopiesWaiting(c) /\ ~CopiesHidden(c)
        BY <4>1, WordFacts DEF CopiesWaiting, CopiesHidden
      <4>3. QED
        BY <2>2, <4>1, <4>2 DEF Elems
    <3>2. CASE CopiesHidden(c)
      <4>1. elist' = elist /\ weak_chain' = <<n>> \o weak_chain /\ ~CopiesWaiting(c)
        BY <3>2 DEF CopiesHidden, CopiesWaiting
      <4> HIDE DEF n
      <4>2. Elems(weak_chain)' = Elems(weak_chain) \cup {n} /\ Elems(elist)' = Elems(elist)
        BY <1>1, <2>2, <4>1, ConsFacts
      <4>3. QED
        BY <2>2, <3>2, <4>1, <4>2
    <3>3. CASE CopiesWaiting(c)
      <4>1. weak_chain' = weak_chain /\ elist' = <<n>> \o elist /\ ~CopiesHidden(c)
        BY <3>3 DEF CopiesHidden, CopiesWaiting
      <4> HIDE DEF n
      <4>2. Elems(elist)' = Elems(elist) \cup {n} /\ Elems(weak_chain)' = Elems(weak_chain)
        BY <1>1, <2>2, <4>1, ConsFacts
      <4>3. QED
        BY <2>2, <3>3, <4>1, <4>2
    <3>4. QED
      BY <1>9, <3>1, <3>2, <3>3
  <2> HIDE DEF n
  <2> SUFFICES ASSUME NEW o \in Obj, fwd'[o] # 0 PROVE C(o)
    BY DEF Content
  <2>4. CASE o # obj
    <3>1. fwd'[o] = fwd[o] /\ fwd[o] # 0 /\ fwd[o] \in 1 .. Len(to)
      BY <1>4, <2>1, <2>4
    <3>2. \A p \in Obj : fwd[p] # 0 => fwd'[p] = fwd[p]
      BY <2>1
    <3>3. to'[fwd[o]] = to[fwd[o]]
      BY <2>1, <3>1
    <3>4. QED
      BY <1>5, <2>1, <2>3, <3>1, <3>2, <3>3
  <2>5. CASE o = obj
    <3>1. FollowsBy(fwd', mem.b[obj], mem.b[obj]) /\ FollowsBy(fwd', mem.a[obj], mem.a[obj])
      BY DEF FollowsBy
    <3>2. CopiesWaiting(c) => Waiting(o)'
      BY <1>3, <2>1, <2>5, <3>1 DEF CopiesWaiting, Waiting, Follows
    <3>3. CopiesHidden(c) => HidesCar(o)'
      BY <1>3, <2>1, <2>5, <3>1 DEF CopiesHidden, HidesCar, Follows
    <3>4. CopiesPlain(c) => Plain(o)'
      BY <1>3, <2>1, <2>5, <3>1 DEF CopiesPlain, Plain, Broken, Follows
    <3>5. QED
      BY <1>9, <2>1, <2>3, <2>5, <3>2, <3>3, <3>4
  <2>6. QED
    BY <2>4, <2>5
<1>10. CASE Relinks(entry)
  <2>1. /\ \A i \in 1 .. Len(to) : /\ to'[i].a = to[i].a /\ to'[i].b = to[i].b
                                   /\ to'[i].manifest = to[i].manifest
        /\ UNCHANGED <<fwd, elist, weak_chain>> /\ Late' = Late
    BY <1>10 DEF Relinks, Late
  <2>2. \A o \in Obj : fwd[o] # 0 => C(o)
    BY <1>4, <1>5, <2>1 DEF Elems
  <2>3. QED
    BY <2>1, <2>2 DEF Content
<1>11. CASE Settles(Head(elist))
  <2> DEFINE i == Head(elist)
  <2>1. /\ i \in Elems(elist) /\ i \in 1 .. Len(to) /\ Late /\ Late'
        /\ \A j \in 1 .. Len(to) : j # i => to'[j] = to[j]
        /\ to'[i].a = weak_referent_forward(KeyOf(i))
        /\ to'[i].b = IF fwd[KeyOf(i)] = 0 THEN Null ELSE to[i].b
        /\ to'[i].manifest = "marked"
        /\ Elems(elist)' = Elems(elist) \ {i} /\ UNCHANGED <<fwd, weak_chain>>
    BY <1>11 DEF Settles, Late
  <2> HIDE DEF i
  <2>2. Elems(weak_chain)' = Elems(weak_chain)
    BY <2>1 DEF Elems
  <2> SUFFICES ASSUME NEW o \in Obj, fwd[o] # 0 PROVE C(o)
    BY <2>1 DEF Content
  <2>3. CASE fwd[o] # i
    <3>1. to'[fwd[o]] = to[fwd[o]]
      BY <1>4, <2>1, <2>3
    <3>2. QED
      BY <1>5, <2>1, <2>2, <2>3, <3>1
  <2>4. CASE fwd[o] = i
    <3>1. Waiting(o)
      BY <1>1, <2>1, <2>4 DEF Content
    <3>2. i \notin Elems(weak_chain)
      BY <2>1, ListsApart
    <3>3. /\ KeyOf(i) = mem.a[o][2] /\ IsOld(mem.a[o]) /\ Kind[o] = "ephemeron"
          /\ FollowsBy(fwd, to[i].b, mem.b[o])
      BY <2>4, <3>1 DEF Waiting, KeyOf, Follows
    <3>4. KeyOf(i) \in Obj
      BY <1>2, <3>3, WordFacts
    <3>5. CASE fwd[KeyOf(i)] = 0
      <4>1. weak_referent_forward(KeyOf(i)) = Null
        BY <3>4, <3>5, ForwardFacts DEF IInv
      <4>2. QED
        BY <1>3, <2>1, <2>2, <2>4, <3>2, <3>3, <3>5, <4>1 DEF Plain, Broken
    <3>6. CASE fwd[KeyOf(i)] # 0
      <4>1. weak_referent_forward(KeyOf(i)) = New(fwd[KeyOf(i)])
        BY <3>4, <3>6, ForwardFacts DEF IInv
      <4>2. FollowsBy(fwd, to'[i].a, mem.a[o])
        BY <2>1, <3>3, <3>6, <4>1 DEF FollowsBy
      <4>3. Plain(o)'
        BY <1>3, <2>1, <2>4, <3>3, <3>6, <4>2 DEF Plain, Broken, Follows
      <4>4. QED
        BY <2>1, <2>2, <2>4, <3>2, <4>3
    <3>7. QED
      BY <3>5, <3>6
  <2>5. QED
    BY <2>3, <2>4
<1>12. CASE Uncovers(Head(weak_chain))
  <2> DEFINE i == Head(weak_chain)
  <2>1. /\ i \in Elems(weak_chain) /\ i \in 1 .. Len(to) /\ Late /\ Late'
        /\ \A j \in 1 .. Len(to) : j # i => to'[j] = to[j]
        /\ to'[i].a = weak_referent_forward(to[i].a[2]) /\ to'[i].b = to[i].b
        /\ to'[i].manifest = to[i].manifest
        /\ Elems(weak_chain)' = Elems(weak_chain) \ {i} /\ UNCHANGED <<fwd, elist>>
    BY <1>12 DEF Uncovers, Late
  <2> HIDE DEF i
  <2>2. Elems(elist)' = Elems(elist)
    BY <2>1 DEF Elems
  <2> SUFFICES ASSUME NEW o \in Obj, fwd[o] # 0 PROVE C(o)
    BY <2>1 DEF Content
  <2>3. CASE fwd[o] # i
    <3>1. to'[fwd[o]] = to[fwd[o]]
      BY <1>4, <2>1, <2>3
    <3>2. QED
      BY <1>5, <2>1, <2>2, <2>3, <3>1
  <2>4. CASE fwd[o] = i
    <3>1. HidesCar(o)
      BY <1>1, <2>1, <2>4 DEF Content
    <3>2. i \notin Elems(elist)
      BY <2>1, ListsApart
    <3> DEFINE x == to[i].a[2]
    <3>3. /\ IsOld(mem.a[o]) /\ Kind[o] = "weak" /\ to[i].manifest = "marked"
          /\ FollowsBy(fwd, to[i].b, mem.b[o]) /\ to[i].a = Hidden(mem.a[o][2])
      BY <2>4, <3>1 DEF HidesCar, Follows
    <3>4. x \in Obj /\ x = mem.a[o][2]
      BY <1>2, <3>3, WordFacts
    <3> HIDE DEF x
    <3>5. ~Broken(o)'
      BY <3>3 DEF Broken
    <3>6. CASE fwd[x] = 0
      <4>1. to'[i].a = Null
        BY <2>1, <3>4, <3>6, ForwardFacts DEF IInv, x
      <4>2. Plain(o)'
        BY <1>3, <2>1, <2>4, <3>3, <3>4, <3>5, <3>6, <4>1 DEF Plain, Follows
      <4>3. QED
        BY <2>1, <2>2, <2>4, <3>2, <4>2
    <3>7. CASE fwd[x] # 0
      <4>1. to'[i].a = New(fwd[x])
        BY <2>1, <3>4, <3>7, ForwardFacts DEF IInv, x
      <4>2. FollowsBy(fwd, to'[i].a, mem.a[o])
        BY <3>3, <3>4, <3>7, <4>1 DEF FollowsBy
      <4>3. Plain(o)'
        BY <1>3, <2>1, <2>4, <3>3, <3>5, <4>2 DEF Plain, Follows
      <4>4. QED
        BY <2>1, <2>2, <2>4, <3>2, <4>3
    <3>8. QED
      BY <3>6, <3>7
  <2>5. QED
    BY <2>3, <2>4
<1>13. CASE phase = "roots" /\ Returning
  BY <1>6, <1>13, RootReturns DEF Late
<1>14. CASE Quiet
  <2>1. CASE QueueDone
    BY <1>7, <2>1
  <2>2. CASE ~QueueDone
    BY <1>6, <1>14, <2>2, QuietFrame, FwdGrows
  <2>3. QED
    BY <2>1, <2>2
<1>15. QED
  BY <1>8, <1>9, <1>10, <1>11, <1>12, <1>13, <1>14, Effects

LEMMA LiveOKStep ==
  ASSUME IInv, Next
  PROVE  LiveOK'
<1>1. Live' = Live
  BY HeapStays
<1>2. \A o \in Obj : fwd'[o] # 0 => fwd[o] # 0 \/ o \in Live
  BY Effects, QuietFrame, RootReturns DEF Writes, Copies, Relinks, Settles, Uncovers
<1>3. QED
  BY <1>1, <1>2 DEF LiveOK, IInv

LEMMA DirectStep ==
  ASSUME IInv, Next
  PROVE  Direct'
<1>1. /\ Len(to) \in Nat /\ fwd \in [Obj -> Nat] /\ Placement /\ Lists
      /\ elist \in Seq(Nat) /\ weak_chain \in Seq(Nat)
  BY DEF IInv, Types
<1>2. UNCHANGED mem /\ \A o \in Obj : fwd[o] # 0 => fwd'[o] = fwd[o] /\ fwd[o] \in 1 .. Len(to)
  BY <1>1, HeapStays, FwdGrows DEF Placement
<1>3. \A o \in Obj : IsOld(mem.a[o]) => mem.a[o][2] \in Obj
  BY HeapFacts, WordFacts DEF IInv
<1>4. CASE Late'
  BY <1>4 DEF Direct
<1>5. CASE ~Late' /\ UNCHANGED <<fwd, elist, weak_chain>>
  <2>1. ~Late
    BY <1>5, FwdGrows
  <2>2. QED
    BY <1>2, <1>5, <2>1 DEF IInv, Direct, Elems
<1>6. ASSUME NEW c \in Copy, Copies(c), CopiesPlain(c) \/ CopiesHidden(c) \/ CopiesWaiting(c)
      PROVE  Direct'
  <2> DEFINE n == Len(to) + 1
  <2>1. /\ ~Late /\ obj \in Obj /\ fwd'[obj] = n /\ \A o \in Obj : o # obj => fwd'[o] = fwd[o]
    BY <1>6 DEF Copies
  <2>2. n \in Nat /\ n # 0
    BY <1>1
  <2>3. /\ Elems(elist) \subseteq Elems(elist)' /\ Elems(weak_chain) \subseteq Elems(weak_chain)'
        /\ CopiesHidden(c) => n \in Elems(weak_chain)'
        /\ CopiesWaiting(c) => n \in Elems(elist)'
    <3> HIDE DEF n
    <3>1. elist' = elist \/ elist' = <<n>> \o elist
      BY <1>6 DEF CopiesPlain, CopiesHidden, CopiesWaiting, n
    <3>2. weak_chain' = weak_chain \/ weak_chain' = <<n>> \o weak_chain
      BY <1>6 DEF CopiesPlain, CopiesHidden, CopiesWaiting, n
    <3>3. CopiesHidden(c) => weak_chain' = <<n>> \o weak_chain
      BY DEF CopiesHidden, n
    <3>4. CopiesWaiting(c) => elist' = <<n>> \o elist
      BY DEF CopiesWaiting, n
    <3>5. /\ Elems(<<n>> \o elist) = Elems(elist) \cup {n}
          /\ Elems(<<n>> \o weak_chain) = Elems(weak_chain) \cup {n}
      BY <1>1, <2>2, ConsFacts
    <3>6. QED
      BY <3>1, <3>2, <3>3, <3>4, <3>5
  <2> HIDE DEF n
  <2> SUFFICES ASSUME NEW o \in Obj, fwd'[o] # 0, IsOld(mem.a[o]),
                      fwd'[o] \notin Elems(elist)' \cup Elems(weak_chain)'
               PROVE  /\ Kind[o] # "weak"
                      /\ Kind[o] = "ephemeron" => fwd'[mem.a[o][2]] # 0
    BY <1>2 DEF Direct
  <2>4. CASE o # obj
    <3>1. fwd[o] # 0 /\ fwd[o] \notin Elems(elist) \cup Elems(weak_chain)
      BY <2>1, <2>3, <2>4
    <3>2. Kind[o] # "weak" /\ (Kind[o] = "ephemeron" => fwd[mem.a[o][2]] # 0)
      BY <2>1, <3>1 DEF IInv, Direct
    <3>3. QED
      BY <1>2, <1>3, <3>2
  <2>5. CASE o = obj
    <3>1. CopiesPlain(c)
      BY <1>6, <2>1, <2>3, <2>5
    <3>2. Kind[o] # "weak" /\ (Kind[o] = "ephemeron" => mem.a[o][2] = obj \/ fwd[mem.a[o][2]] # 0)
      BY <2>5, <3>1 DEF CopiesPlain
    <3>3. QED
      BY <1>2, <1>3, <2>1, <2>2, <3>2
  <2>6. QED
    BY <2>4, <2>5
<1>7. ASSUME Settles(Head(elist)) \/ Uncovers(Head(weak_chain)) PROVE Late'
  BY <1>7 DEF Settles, Uncovers, Late
<1>8. QED
  BY <1>4, <1>5, <1>6, <1>7, Effects, QuietFrame, RootReturns DEF Writes, Relinks

LEMMA RootsPhase ==
  ASSUME IInv, Next
  PROVE  \/ phase = "roots" /\ Returning
         \/ /\ newRoots' = newRoots
            /\ phase = "roots" => \/ phase' = phase /\ index' = index
                                  \/ index > Len(roots)
<1>1. CASE Quiet
  <2>1. phase = "roots" => \/ phase' = phase /\ index' = index
                           \/ index > Len(roots)
    BY <1>1 DEF Quiet, HandleUnknown, EagerCdr, WalkPast, WalkEnd, RootsDone, SkipEphemeron,
       ScanDone, ScanList, ListDone, ScanDatum, QueueDone, EphemeronsDone, std_gc_pt2, Goto
  <2>2. QED
    BY <1>1, <2>1, QuietFrame
<1>2. QED
  BY <1>1, Effects DEF Writes, Copies, Relinks, Settles, Uncovers

LEMMA RootsOKStep ==
  ASSUME IInv, Next
  PROVE  RootsOK'
<1>1. /\ RootsOK /\ newRoots \in Seq(AnyWord) /\ Len(newRoots) = Len(roots) /\ index \in Nat
      /\ \A j \in 1 .. Len(roots) : roots[j] \in AnyWord
      /\ Len(roots) \in Nat
  <2>1. roots \in Seq(Value)
    BY HeapFacts DEF IInv
  <2>2. \A j \in 1 .. Len(roots) : roots[j] \in Value
    BY <2>1
  <2>3. QED
    BY <2>1, <2>2, WordFacts DEF IInv, Types
<1>2. roots' = roots /\ \A o \in Obj : fwd[o] # 0 => fwd'[o] = fwd[o]
  BY HeapStays, FwdGrows
<1>3. ASSUME NEW j \in 1 .. Len(roots), NEW w, Follows(w, roots[j]) PROVE FollowsBy(fwd', w, roots[j])
  BY <1>1, <1>2, <1>3, FollowsMore DEF Follows
<1>4. CASE phase = "roots" /\ Returning
  <2>1. /\ index \in 1 .. Len(roots) /\ index' = index + 1 /\ phase' = phase /\ fwd' = fwd
        /\ newRoots \in Seq(AnyWord)
    BY <1>1, <1>4, RootReturns
  <2>2. PICK v \in AnyWord : /\ ~IsOld(v) /\ Follows(v, newRoots[index])
                             /\ newRoots' = [newRoots EXCEPT ![index] = v]
    BY <1>4, RootReturns
  <2> SUFFICES ASSUME NEW j \in 1 .. Len(roots)
               PROVE  /\ FollowsBy(fwd, newRoots'[j], roots[j])
                      /\ j < index + 1 => ~IsOld(newRoots'[j])
    BY <1>2, <1>4, <2>1 DEF RootsOK, Follows
  <2>3. FollowsBy(fwd, newRoots[j], roots[j]) /\ (j < index => ~IsOld(newRoots[j]))
    BY <1>1 DEF RootsOK, Follows
  <2>4. CASE j = index
    <3>1. newRoots'[j] = v
      BY <1>1, <2>1, <2>2, <2>4
    <3>2. FollowsBy(fwd, v, roots[j])
      BY <2>2, <2>3, <2>4, FollowsOn DEF Follows
    <3>3. QED
      BY <2>2, <3>1, <3>2
  <2>5. CASE j # index
    <3>1. newRoots'[j] = newRoots[j] /\ (j < index + 1 => j < index)
      BY <1>1, <2>1, <2>2, <2>5
    <3>2. QED
      BY <2>3, <3>1
  <2>6. QED
    BY <2>4, <2>5
<1>5. CASE /\ newRoots' = newRoots
           /\ phase = "roots" => \/ phase' = phase /\ index' = index
                                 \/ index > Len(roots)
  <2> SUFFICES ASSUME NEW j \in 1 .. Len(roots)
               PROVE  /\ FollowsBy(fwd', newRoots[j], roots[j])
                      /\ phase' # "roots" \/ j < index' => ~IsOld(newRoots[j])
    BY <1>2, <1>5 DEF RootsOK, Follows
  <2>1. Follows(newRoots[j], roots[j]) /\ (phase # "roots" \/ j < index => ~IsOld(newRoots[j]))
    BY <1>1 DEF RootsOK
  <2>2. QED
    BY <1>1, <1>3, <1>5, <2>1
<1>6. QED
  BY <1>4, <1>5, RootsPhase

LEMMA ScanOKStep ==
  ASSUME IInv, Next
  PROVE  ScanOK'
<1>1. /\ Len(to) \in Nat /\ ScanOK /\ CallOK /\ scan.i \in Nat /\ scan.f \in {"a", "b"}
      /\ phase \in Phases
  BY DEF IInv, Types, FieldNames
<1>2. CASE Quiet
  <2>1. to' = to
    BY <1>2, QuietFrame
  <2>2. CASE SkipEphemeron
    <3>1. scan'.i = scan.i + 1 /\ scan'.f = "a" /\ scan.i <= Len(to) /\ phase \in {"scan", "rescan"}
          /\ phase' = phase
      BY <2>2 DEF SkipEphemeron
    <3>2. QED
      BY <1>1, <2>1, <3>1 DEF ScanOK, Late
  <2>3. CASE ScanDatum
    <3>1. scan'.i = Len(to) + 1 /\ scan'.f = "a" /\ phase' = "datum"
      BY <2>3 DEF ScanDatum
    <3>2. QED
      BY <1>1, <2>1, <3>1 DEF ScanOK, Late
  <2>4. CASE scan' = scan
    <3>1. ASSUME phase' = "roots" PROVE phase = "roots"
      BY <1>2, <3>1 DEF Quiet, HandleUnknown, EagerCdr, WalkPast, WalkEnd, RootsDone, SkipEphemeron,
         ScanDone, ScanList, ListDone, ScanDatum, QueueDone, EphemeronsDone, std_gc_pt2, Goto
    <3>2. ASSUME phase' \in {"list", "queue"} \/ Late' PROVE scan.i = Len(to) + 1
      <4>1. \/ phase \in {"list", "queue"} \/ Late
            \/ scan.i > Len(to)
        BY <1>2, <3>2 DEF Quiet, HandleUnknown, EagerCdr, WalkPast, WalkEnd, RootsDone,
           SkipEphemeron, ScanDone, ScanList, ListDone, ScanDatum, QueueDone, EphemeronsDone,
           std_gc_pt2, Goto, Late
      <4>2. QED
        BY <1>1, <4>1 DEF ScanOK
    <3>3. ASSUME phase' = "datum", step' = "next" PROVE scan.i = Len(to) + 1
      <4>1. CASE ScanDatum
        BY <4>1, <2>4 DEF ScanDatum
      <4>2. CASE ~ScanDatum
        <5>1. phase = "datum" /\ step = "next"
          BY <1>2, <3>3, <4>2 DEF Quiet, HandleUnknown, EagerCdr, WalkPast, WalkEnd, RootsDone,
           SkipEphemeron, ScanDone, ScanList, ListDone, QueueDone, EphemeronsDone,
           std_gc_pt2, Goto, Precheck, queue_ephemerons_for_key
        <5>2. QED
          BY <1>1, <5>1 DEF ScanOK
      <4>3. QED
        BY <4>1, <4>2
    <3>4. QED
      BY <1>1, <2>1, <2>4, <3>1, <3>2, <3>3 DEF ScanOK
  <2>5. QED
    BY <1>2, <2>2, <2>3, <2>4 DEF Quiet, HandleUnknown, EagerCdr, WalkPast, WalkEnd, RootsDone,
       ScanDone, ScanList, ListDone, QueueDone, EphemeronsDone, std_gc_pt2, Goto
<1>3. CASE phase = "roots" /\ Returning
  <2>1. UNCHANGED <<to, phase, scan>>
    BY <1>3, RootReturns
  <2>2. QED
    BY <1>1, <1>3, <2>1 DEF ScanOK, Late
<1>4. ASSUME NEW i \in 1 .. Len(to), NEW f \in FieldNames, NEW v \in AnyWord, Writes(i, f, v)
      PROVE  ScanOK'
  <2>1. Len(to') = Len(to) /\ \A j \in 1 .. Len(to) : to'[j].manifest = to[j].manifest
    BY <1>4 DEF Writes
  <2>2. CASE phase = "datum"
    <3>1. scan' = scan /\ phase' = "rescan"
      BY <1>4, <2>2 DEF Writes
    <3>2. QED
      BY <1>1, <2>1, <3>1 DEF ScanOK, Late
  <2>3. CASE phase # "datum"
    <3>1. /\ phase \in {"scan", "rescan"} /\ phase' = phase /\ scan.i \in 1 .. Len(to)
          /\ to[scan.i].manifest = "marked" /\ Advance
      BY <1>4, <2>3 DEF Writes
    <3>2. \/ scan.f = "a" /\ scan'.i = scan.i /\ scan'.f = "b"
          \/ scan.f = "b" /\ scan'.i = scan.i + 1 /\ scan'.f = "a"
      BY <1>1, <3>1 DEF Advance
    <3>3. QED
      BY <1>1, <2>1, <3>1, <3>2 DEF ScanOK, Late
  <2>4. QED
    BY <2>2, <2>3
<1>5. ASSUME NEW c \in Copy, Copies(c) PROVE ScanOK'
  <2>1. /\ step = "transport" /\ step' # "next" /\ UNCHANGED <<phase, scan>> /\ ~Late
        /\ Len(to') = Len(to) + 1 /\ \A i \in 1 .. Len(to) : to'[i] = to[i]
    BY <1>5 DEF Copies
  <2>2. phase # "list" /\ phase # "queue"
    BY <1>1, <2>1 DEF CallOK
  <2>3. ~Late'
    BY <2>1 DEF Late
  <2>4. QED
    BY <1>1, <2>1, <2>2, <2>3 DEF ScanOK
<1>6. CASE Relinks(entry)
  <2>1. /\ Len(to') = Len(to) /\ \A i \in 1 .. Len(to) : to'[i].manifest = to[i].manifest
        /\ UNCHANGED <<phase, scan, step>>
    BY <1>6 DEF Relinks
  <2>2. QED
    BY <1>1, <2>1 DEF ScanOK, Late
<1>7. ASSUME Settles(Head(elist)) \/ Uncovers(Head(weak_chain)) PROVE ScanOK'
  <2>1. Len(to') = Len(to) /\ UNCHANGED <<phase, scan, step>> /\ phase \in {"ephemerons", "weak"}
    BY <1>7 DEF Settles, Uncovers
  <2>2. QED
    BY <1>1, <2>1 DEF ScanOK, Late
<1>8. QED
  BY <1>2, <1>3, <1>4, <1>5, <1>6, <1>7, Effects

\* The last passes copy nothing.
LEMMA CrowdStays ==
  ASSUME IInv, Next, Late
  PROVE  fwd' = fwd /\ \A i : InCrowd(i) => InCrowd(i)'
<1>1. fwd' = fwd
  BY Effects, QuietFrame, RootReturns DEF Writes, Copies, Relinks, Settles, Uncovers
<1>2. mem' = mem
  BY HeapStays
<1>3. Crowd' = Crowd
  BY <1>1, <1>2 DEF Crowd, WaitedFor
<1>4. QED
  BY <1>1, <1>3 DEF InCrowd

LEMMA CleanStep ==
  ASSUME IInv, Next
  PROVE  CleanOK'
<1>0. PICK E : E = {i \in 1 .. Len(to) : Late /\ InCrowd(i)}
  OBVIOUS
<1> DEFINE Clean(s, k, f) ==
      \A i \in 1 .. Len(s) : s[i].manifest = "marked" =>
        /\ i < k \/ (i = k /\ f = "b") => ~IsOld(s[i].a)
        /\ i < k => ~IsOld(s[i].b) \/ i \in E
<1>1. /\ Len(to) \in Nat /\ ScanOK /\ scan.i \in Nat /\ scan.f \in {"a", "b"}
      /\ to \in Seq(Copy) /\ to' \in Seq(Copy)
  BY TypesStep DEF IInv, Types, FieldNames
<1>2. \A i \in E : Late' /\ InCrowd(i)'
  BY <1>0, CrowdStays, FwdGrows
<1>3. Clean(to, scan.i, scan.f)
  BY <1>0 DEF IInv, CleanOK
<1> SUFFICES Clean(to', scan'.i, scan'.f)
  BY <1>2 DEF CleanOK
<1>4. CASE Quiet
  <2>1. to' = to
    BY <1>4, QuietFrame
  <2>2. CASE SkipEphemeron
    <3>1. scan'.i = scan.i + 1 /\ scan'.f = "a" /\ to[scan.i].manifest = "unmarked"
      BY <2>2 DEF SkipEphemeron
    <3>2. QED
      BY <1>1, <1>3, <2>1, <3>1
  <2>3. CASE ScanDatum
    <3>1. scan'.i = Len(to) + 1 /\ scan'.f = "a" /\ scan.i = Len(to) + 1
      BY <1>1, <2>3 DEF ScanDatum, ScanOK
    <3>2. QED
      BY <1>1, <1>3, <2>1, <3>1
  <2>4. CASE scan' = scan
    BY <1>3, <2>1, <2>4
  <2>5. QED
    BY <1>4, <2>2, <2>3, <2>4 DEF Quiet, HandleUnknown, EagerCdr, WalkPast, WalkEnd, RootsDone,
       ScanDone, ScanList, ListDone, QueueDone, EphemeronsDone, std_gc_pt2, Goto
<1>5. CASE phase = "roots" /\ Returning
  BY <1>3, <1>5, RootReturns
<1>6. ASSUME NEW i \in 1 .. Len(to), NEW f \in FieldNames, NEW v \in AnyWord, Writes(i, f, v)
      PROVE  Clean(to', scan'.i, scan'.f)
  <2>1. /\ ~IsOld(v) /\ Len(to') = Len(to) /\ \A j \in 1 .. Len(to) : j # i => to'[j] = to[j]
        /\ to'[i].manifest = to[i].manifest
        /\ f = "a" => to'[i].a = v /\ to'[i].b = to[i].b
        /\ f = "b" => to'[i].b = v /\ to'[i].a = to[i].a
    BY <1>6 DEF Writes
  <2>2. CASE phase = "datum"
    <3>1. scan' = scan /\ i \in Elems(elist)
      BY <1>6, <2>2 DEF Writes
    <3>2. to[i].manifest = "unmarked"
      BY <3>1, ListedWaits DEF Waiting
    <3>3. QED
      BY <1>3, <2>1, <3>1, <3>2
  <2>3. CASE phase # "datum"
    <3>1. i = scan.i /\ f = scan.f /\ Advance
      BY <1>6, <2>3 DEF Writes
    <3>2. CASE scan.f = "a"
      <4>1. scan'.i = i /\ scan'.f = "b"
        BY <3>1, <3>2 DEF Advance
      <4>2. QED
        BY <1>1, <1>3, <2>1, <3>1, <3>2, <4>1
    <3>3. CASE scan.f = "b"
      <4>1. scan'.i = i + 1 /\ scan'.f = "a"
        BY <3>1, <3>3 DEF Advance
      <4>2. QED
        BY <1>1, <1>3, <2>1, <3>1, <3>3, <4>1
    <3>4. QED
      BY <1>1, <3>2, <3>3
  <2>4. QED
    BY <2>2, <2>3
<1>7. ASSUME NEW c \in Copy, Copies(c) PROVE Clean(to', scan'.i, scan'.f)
  <2>1. scan' = scan /\ Len(to') = Len(to) + 1 /\ \A i \in 1 .. Len(to) : to'[i] = to[i]
    BY <1>7 DEF Copies
  <2>2. QED
    BY <1>1, <1>3, <2>1 DEF ScanOK
<1>8. CASE Relinks(entry)
  <2>1. /\ Len(to') = Len(to) /\ scan' = scan
        /\ \A i \in 1 .. Len(to) : /\ to'[i].manifest = to[i].manifest
                                   /\ to'[i].a = to[i].a /\ to'[i].b = to[i].b
    BY <1>8 DEF Relinks
  <2>2. QED
    BY <1>3, <2>1
<1>9. CASE Settles(Head(elist))
  <2> DEFINE i == Head(elist)
  <2>1. /\ Len(to') = Len(to) /\ scan' = scan /\ \A j \in 1 .. Len(to) : j # i => to'[j] = to[j]
        /\ to'[i].a = weak_referent_forward(KeyOf(i)) /\ i \in Elems(elist) /\ phase = "ephemerons"
        /\ to'[i].b = IF fwd[KeyOf(i)] = 0 THEN Null ELSE to[i].b
    BY <1>9 DEF Settles
  <2> HIDE DEF i
  <2>2. KeyOf(i) \in Obj
    BY <2>1, ListedWaits
  <2>3. ~IsOld(to'[i].a)
    BY <2>1, <2>2, ForwardFacts DEF IInv
  <2>4. ~IsOld(to'[i].b) \/ i \in E
    BY <1>0, <2>1, WordFacts DEF IInv, LateOK, Late, Lists
  <2>5. QED
    BY <1>3, <2>1, <2>3, <2>4
<1>10. CASE Uncovers(Head(weak_chain))
  <2> DEFINE i == Head(weak_chain)
  <2>1. /\ Len(to') = Len(to) /\ scan' = scan /\ \A j \in 1 .. Len(to) : j # i => to'[j] = to[j]
        /\ to'[i].a = weak_referent_forward(to[i].a[2]) /\ i \in Elems(weak_chain)
        /\ to'[i].b = to[i].b /\ to'[i].manifest = to[i].manifest
    BY <1>10 DEF Uncovers
  <2> HIDE DEF i
  <2>2. to[i].a[2] \in Obj
    BY <2>1, ChainedHides
  <2>3. ~IsOld(to'[i].a)
    BY <2>1, <2>2, ForwardFacts DEF IInv
  <2>4. QED
    BY <1>3, <2>1, <2>3
<1>11. QED
  BY <1>4, <1>5, <1>6, <1>7, <1>8, <1>9, <1>10, Effects

\* What a copy that the scan looks at still points to in fromspace is live.
LEMMA MarkedPointsToLive ==
  ASSUME IInv, ~Late, NEW i \in 1 .. Len(to), to[i].manifest = "marked"
  PROVE  Points(to[i].a, Live) /\ Points(to[i].b, Live)
<1>1. PICK o \in Obj : fwd[o] = i
  BY DEF IInv, Placement
<1>2. o \in Live /\ fwd[o] # 0
  BY <1>1 DEF IInv, LiveOK
<1>3. Closed(Live)
  BY LiveIsClosed DEF IInv
<1>4. i \notin Elems(elist)
  BY ListedWaits, <1>1 DEF Waiting
<1>5. CASE i \in Elems(weak_chain)
  <2>1. HidesCar(o)
    BY <1>1, <1>2, <1>5 DEF IInv, Content
  <2>2. ~IsOld(to[i].a)
    BY <1>1, <2>1, WordFacts DEF HidesCar
  <2>3. IsOld(to[i].b) => to[i].b = mem.b[o]
    BY <1>1, <2>1, WordFacts DEF HidesCar, Follows, FollowsBy
  <2>4. Points(mem.b[o], Live)
    BY <1>2, <1>3, <2>1 DEF Closed, ClosedBut, HidesCar
  <2>5. QED
    BY <2>2, <2>3, <2>4 DEF Points
<1>6. CASE i \notin Elems(weak_chain)
  <2>1. Plain(o)
    BY <1>1, <1>2, <1>4, <1>6 DEF IInv, Content
  <2>2. /\ IsOld(to[i].a) => to[i].a = mem.a[o]
        /\ IsOld(to[i].b) => to[i].b = mem.b[o]
    BY <1>1, <2>1, WordFacts DEF Plain, Broken, Follows, FollowsBy
  <2>3. IsOld(mem.a[o]) => Kind[o] # "weak" /\ (Kind[o] = "ephemeron" => fwd[mem.a[o][2]] # 0)
    BY <1>1, <1>2, <1>4, <1>6 DEF IInv, Direct
  <2>4. IsOld(mem.a[o]) => mem.a[o][2] \in Obj
    BY HeapFacts, WordFacts DEF IInv
  <2>5. Kind[o] = "ephemeron" => Points(mem.a[o], Live)
    BY <2>3, <2>4 DEF Points, IInv, LiveOK
  <2>6. Kind[o] \in {"pair", "weak", "ephemeron"}
    BY HeapAssumption
  <2>7. Points(mem.a[o], Live) /\ Points(mem.b[o], Live)
    <3>1. CASE Kind[o] = "pair"
      BY <1>2, <1>3, <3>1 DEF Closed, ClosedBut
    <3>2. CASE Kind[o] = "weak"
      BY <1>2, <1>3, <2>3, <3>2 DEF Closed, ClosedBut, Points
    <3>3. CASE Kind[o] = "ephemeron"
      BY <1>2, <1>3, <2>5, <3>3 DEF Closed, ClosedBut
    <3>4. QED
      BY <2>6, <3>1, <3>2, <3>3
  <2>8. QED
    BY <2>2, <2>7 DEF Points
<1>7. QED
  BY <1>5, <1>6

\* So is what any word that a handler gets points to.
LEMMA WordIsLive ==
  ASSUME IInv, ~Late, AtWord, IsOld(Word)
  PROVE  Word[2] \in Live /\ Word[2] \in Obj
<1>1. Word[2] \in Obj
  BY WordType, WordFacts DEF IInv
<1>2. CASE phase = "roots"
  <2>1. index \in 1 .. Len(roots) /\ Word = newRoots[index]
    BY <1>2 DEF AtWord, Word, IInv, Types
  <2>2. Word = roots[index]
    BY <2>1, WordFacts DEF IInv, RootsOK, Follows, FollowsBy
  <2>3. roots \in Seq(Value) /\ RootsIn(Live)
    BY HeapFacts, LiveIsClosed DEF IInv
  <2>4. index \in DOMAIN roots
    BY <2>1, <2>3
  <2>5. QED
    BY <1>1, <2>2, <2>3, <2>4 DEF RootsIn, Points
<1>3. CASE phase \in {"scan", "rescan"}
  <2>1. scan.i \in 1 .. Len(to) /\ to[scan.i].manifest = "marked" /\ scan.f \in {"a", "b"}
    BY <1>3 DEF AtWord, IInv, ScanOK, Types, FieldNames
  <2>2. Word = to[scan.i][scan.f]
    BY <1>3 DEF Word
  <2>3. Word = to[scan.i].a \/ Word = to[scan.i].b
    BY <2>1, <2>2
  <2>4. QED
    BY <1>1, <2>1, <2>3, MarkedPointsToLive DEF Points
<1>4. CASE phase = "datum"
  <2>1. index \in Elems(elist) /\ fwd[KeyOf(index)] # 0 /\ Word = to[index].b
    BY <1>4 DEF IInv, CallOK, Word
  <2>2. PICK o \in Obj : /\ fwd[o] = index /\ index \in 1 .. Len(to) /\ Waiting(o)
                         /\ KeyOf(index) = mem.a[o][2] /\ KeyOf(index) \in Obj
    BY <2>1, ListedWaits
  <2>3. Word = mem.b[o] /\ Kind[o] = "ephemeron"
    BY <2>1, <2>2, WordFacts DEF Waiting, Follows, FollowsBy
  <2>4. o \in Live /\ Points(mem.a[o], Live)
    BY <2>1, <2>2 DEF IInv, LiveOK, Points
  <2>5. Closed(Live)
    BY LiveIsClosed DEF IInv
  <2>6. QED
    BY <1>1, <2>3, <2>4, <2>5 DEF Closed, ClosedBut, Points
<1>5. QED
  BY <1>2, <1>3, <1>4 DEF AtWord

\* The cdr that gc_tuple looks at points to a live object.
LEMMA CdrIsLive ==
  ASSUME IInv, step = "cdr", IsOld(to[fwd[obj]].b)
  PROVE  to[fwd[obj]].b[2] \in Live /\ to[fwd[obj]].b[2] \in Obj
<1>1. /\ obj \in Obj /\ fwd[obj] # 0 /\ Kind[obj] = "pair" /\ ~Late
      /\ fwd[obj] \in 1 .. Len(to) /\ to \in Seq(Copy)
  BY DEF IInv, CallOK, Placement, Types
<1>2. to[fwd[obj]].manifest = "marked"
  BY <1>1 DEF IInv, Content, Waiting, HidesCar, Plain
<1>3. to[fwd[obj]] \in Copy
  BY <1>1
<1>4. QED
  BY <1>1, <1>2, <1>3, MarkedPointsToLive, WordFacts DEF Points, Copy

\* The ephemeron at the head of the queue: its key was found.
LEMMA QueueHead ==
  ASSUME IInv, ~Late, step = "next", queue # 0
  PROVE  queue \in Elems(elist) /\ fwd[KeyOf(queue)] # 0
<1>1. PICK qs \in Seq(Nat) : QueueLinks(qs)
  BY DEF IInv, TableOK, Table
<1>2. Len(qs) \in Nat \ {0} /\ queue = qs[Len(qs)] /\ Len(qs) \in DOMAIN qs
  BY <1>1 DEF QueueLinks
<1>3. queue \in Elems(qs)
  BY <1>2 DEF Elems
<1>4. QED
  BY <1>1, <1>3 DEF QueueLinks

LEMMA SameWord ==
  ASSUME IInv, AtWord, UNCHANGED <<phase, index, roots, newRoots, scan>>,
         Len(to') \in Nat, Len(to) <= Len(to'),
         \A i \in 1 .. Len(to) : /\ to'[i].a = to[i].a /\ to'[i].b = to[i].b
                                 /\ to'[i].manifest = to[i].manifest
  PROVE  AtWord' /\ Word' = Word
<1>1. CASE phase = "roots"
  BY <1>1 DEF AtWord, Word
<1>2. CASE phase \in {"scan", "rescan"}
  <2>1. scan.i \in 1 .. Len(to) /\ to[scan.i].manifest = "marked" /\ scan.f \in {"a", "b"}
    BY <1>2 DEF AtWord, IInv, ScanOK, Types, FieldNames
  <2>2. to'[scan.i][scan.f] = to[scan.i][scan.f]
    BY <2>1
  <2>3. scan.i <= Len(to')
    BY <2>1, TypesStep DEF IInv, Types
  <2>4. QED
    BY <1>2, <2>1, <2>2, <2>3 DEF AtWord, Word
<1>3. CASE phase = "datum"
  <2>1. index \in 1 .. Len(to)
    BY <1>3 DEF IInv, CallOK, Lists
  <2>2. QED
    BY <1>3, <2>1 DEF AtWord, Word
<1>4. QED
  BY <1>1, <1>2, <1>3 DEF AtWord

LEMMA CallOKStep ==
  ASSUME IInv, Next
  PROVE  CallOK'
<1> USE DEF IInv
<1>1. /\ CallOK /\ phase \in Phases /\ step \in Steps /\ fwd \in [Obj -> Nat] /\ Len(to) \in Nat
      /\ Live' = Live
  BY HeapStays DEF Types
<1>2. CASE HandleUnknown
  <2>1. /\ step = "next" /\ AtWord /\ IsOld(Word) /\ fwd[Word[2]] = 0 /\ Precheck(Word[2])
        /\ UNCHANGED <<mem, roots, weak_chain, elist, bucket, queue, newRoots, fwd, to, phase, index, scan>>
    BY <1>2 DEF HandleUnknown, heapVars, tableVars
  <2>2. ~Late /\ phase # "list" /\ phase # "queue"
    BY <2>1 DEF AtWord, Late
  <2>3. Word[2] \in Live /\ Word[2] \in Obj
    BY <2>1, <2>2, WordIsLive
  <2>4. AtWord' /\ Word' = Word /\ Elems(elist)' = Elems(elist)
    BY <2>1, SameWord DEF Elems
  <2>5. obj' = Word[2] /\ step' \in {"walk", "transport"} /\ (step' = "walk" => Scanning)
    BY <2>1 DEF Precheck, queue_ephemerons_for_key
  <2>6. QED
    BY <1>1, <2>1, <2>2, <2>3, <2>4, <2>5 DEF CallOK, Late, Scanning, KeyOf
<1>3. CASE EagerCdr
  <2> DEFINE cdr == to[fwd[obj]].b
             again == IsOld(cdr) /\ Kind[cdr[2]] = "pair" /\ fwd[cdr[2]] = 0
  <2>1. /\ step = "cdr"
        /\ IF again THEN Precheck(cdr[2]) ELSE step' = "store" /\ UNCHANGED <<obj, loc>>
        /\ UNCHANGED <<mem, roots, weak_chain, elist, bucket, queue, newRoots, fwd, to, phase, index, scan>>
    BY <1>3 DEF EagerCdr, heapVars, tableVars
  <2>2. AtWord /\ IsOld(Word) /\ ~Late /\ phase # "list" /\ phase # "queue" /\ fwd[Word[2]] # 0
    BY <1>1, <2>1 DEF CallOK
  <2>3. AtWord' /\ Word' = Word /\ Elems(elist)' = Elems(elist)
    BY <2>1, <2>2, SameWord DEF Elems
  <2>4. CASE again
    <3>1. cdr[2] \in Live /\ cdr[2] \in Obj
      BY <2>1, <2>4, CdrIsLive
    <3>2. obj' = cdr[2] /\ step' \in {"walk", "transport"} /\ (step' = "walk" => Scanning)
      BY <2>1, <2>4 DEF Precheck, queue_ephemerons_for_key
    <3>3. fwd[cdr[2]] = 0
      BY <2>4
    <3> HIDE DEF cdr
    <3>4. QED
      BY <1>1, <2>1, <2>2, <2>3, <3>1, <3>2, <3>3 DEF CallOK, Late, Scanning, KeyOf
  <2>5. CASE ~again
    <3>1. step' = "store"
      BY <2>1, <2>5
    <3> HIDE DEF again
    <3>2. QED
      BY <1>1, <2>1, <2>2, <2>3, <3>1 DEF CallOK, Late, KeyOf
  <2>6. QED
    BY <2>4, <2>5
<1>4. ASSUME NEW e, WalkPast \/ WalkEnd \/ Relinks(e) PROVE CallOK'
  <2>1. /\ step = "walk" /\ Len(to') = Len(to)
        /\ \A i \in 1 .. Len(to) : /\ to'[i].a = to[i].a /\ to'[i].b = to[i].b
                                   /\ to'[i].manifest = to[i].manifest
        /\ UNCHANGED <<mem, roots, weak_chain, elist, newRoots, fwd, phase, index, scan, obj>>
        /\ step' = "walk" \/ step' = IF phase = "list" THEN "next" ELSE "transport"
    BY <1>4 DEF WalkPast, WalkEnd, Relinks, heapVars, tableVars
  <2>2. Elems(elist)' = Elems(elist)
    BY <2>1 DEF Elems
  <2>3. phase # "list" => AtWord' /\ Word' = Word /\ AtWord
    BY <1>1, <2>1, SameWord DEF CallOK
  <2>4. phase = "datum" => index \in 1 .. Len(to) /\ KeyOf(index)' = KeyOf(index)
    BY <1>1, <2>1 DEF CallOK, Lists, KeyOf
  <2>5. CASE phase = "list"
    BY <1>1, <2>1, <2>2, <2>5 DEF CallOK, Late, Scanning
  <2>6. CASE phase # "list"
    BY <1>1, <2>1, <2>2, <2>3, <2>4, <2>6 DEF CallOK, Late, Scanning
  <2>7. QED
    BY <2>5, <2>6
<1>5. CASE RootsDone \/ ScanDone \/ ListDone \/ QueueDone \/ EphemeronsDone \/ std_gc_pt2
  <2>1. step' = "next" /\ phase' # "datum"
    BY <1>5 DEF RootsDone, ScanDone, ListDone, QueueDone, EphemeronsDone, std_gc_pt2, Goto
  <2>2. QED
    BY <2>1 DEF CallOK
<1>6. CASE SkipEphemeron
  <2>1. step' = "next" /\ phase' # "datum"
    BY <1>6 DEF SkipEphemeron
  <2>2. QED
    BY <2>1 DEF CallOK
<1>7. CASE ScanList
  <2>1. /\ step = "next" /\ phase = "list" /\ phase' = "list" /\ fwd' = fwd
        /\ index \in 1 .. Len(elist) /\ elist \in Seq(Nat)
    BY <1>7 DEF ScanList, Types
  <2>2. elist[index] \in Elems(elist)
    BY <2>1 DEF Elems
  <2>3. CASE fwd[KeyOf(elist[index])] # 0
    <3>1. obj' = KeyOf(elist[index]) /\ step' = "walk"
      BY <1>7, <2>3 DEF ScanList, queue_ephemerons_for_key
    <3>2. KeyOf(elist[index]) \in Obj
      BY <2>2, ListedWaits
    <3>3. QED
      BY <2>1, <2>3, <3>1, <3>2 DEF CallOK, Scanning
  <2>4. CASE fwd[KeyOf(elist[index])] = 0
    <3>1. step' = "next"
      BY <1>7, <2>1, <2>4 DEF ScanList
    <3>2. QED
      BY <2>1, <3>1 DEF CallOK
  <2>5. QED
    BY <2>3, <2>4
<1>8. CASE ScanDatum
  <2>1. /\ step = "next" /\ step' = "next" /\ phase = "queue" /\ phase' = "datum" /\ queue # 0
        /\ index' = queue /\ UNCHANGED <<elist, fwd, to>>
    BY <1>8 DEF ScanDatum
  <2>2. queue \in Elems(elist) /\ fwd[KeyOf(queue)] # 0
    BY <2>1, QueueHead DEF Late
  <2>3. QED
    BY <2>1, <2>2 DEF CallOK, Elems, KeyOf
<1>9. CASE phase = "roots" /\ Returning
  <2>1. step' = "next" /\ phase' = "roots"
    BY <1>9, RootReturns
  <2>2. QED
    BY <2>1 DEF CallOK
<1>10. ASSUME NEW i \in 1 .. Len(to), NEW f \in FieldNames, NEW v \in AnyWord, Writes(i, f, v)
       PROVE  CallOK'
  <2>1. step' = "next" /\ phase' \in {"scan", "rescan"}
    BY <1>10 DEF Writes
  <2>2. QED
    BY <2>1 DEF CallOK
<1>11. ASSUME NEW c \in Copy, Copies(c), CopiesPlain(c) \/ CopiesHidden(c) \/ CopiesWaiting(c)
       PROVE  CallOK'
  <2>1. /\ step = "transport" /\ step' = (IF Kind[obj] = "pair" THEN "cdr" ELSE "store") /\ ~Late
        /\ Len(to') = Len(to) + 1 /\ \A i \in 1 .. Len(to) : to'[i] = to[i]
        /\ fwd'[obj] = Len(to) + 1 /\ (\A o \in Obj : o # obj => fwd'[o] = fwd[o]) /\ obj \in Obj
        /\ UNCHANGED <<mem, roots, newRoots, queue, phase, index, scan, obj, loc>>
    BY <1>11 DEF Copies
  <2>2. phase # "list" /\ phase # "queue" /\ AtWord /\ IsOld(Word)
        /\ (fwd[Word[2]] # 0 \/ Word[2] = obj)
    BY <1>1, <2>1 DEF CallOK
  <2>3. AtWord' /\ Word' = Word /\ Word[2] \in Obj
    BY <1>1, <2>1, <2>2, SameWord, WordIsLive
  <2>4. fwd'[Word[2]] # 0 /\ \A o \in Obj : fwd[o] # 0 => fwd'[o] # 0
    BY <1>1, <2>1, <2>2, <2>3
  <2>5. ~Late'
    BY <2>1 DEF Late
  <2>6. Elems(elist) \subseteq Elems(elist)'
    <3>1. elist' = elist \/ elist' = <<Len(to) + 1>> \o elist
      BY <1>11 DEF CopiesPlain, CopiesHidden, CopiesWaiting
    <3>2. Elems(<<Len(to) + 1>> \o elist) = Elems(elist) \cup {Len(to) + 1}
      BY <1>1, ConsFacts DEF Types
    <3>3. QED
      BY <3>1, <3>2
  <2>7. phase = "datum" => index \in Elems(elist)' /\ fwd'[KeyOf(index)'] # 0
    <3>1. ASSUME phase = "datum" PROVE index \in Elems(elist)' /\ fwd'[KeyOf(index)'] # 0
      <4>1. index \in Elems(elist) /\ fwd[KeyOf(index)] # 0
        BY <1>1, <3>1 DEF CallOK
      <4>2. index \in 1 .. Len(to) /\ KeyOf(index) \in Obj
        BY <4>1, ListedWaits
      <4>3. KeyOf(index)' = KeyOf(index)
        BY <2>1, <4>2 DEF KeyOf
      <4>4. QED
        BY <2>4, <2>6, <4>1, <4>2, <4>3
    <3>2. QED
      BY <3>1
  <2>8. fwd'[obj] # 0
    BY <1>1, <2>1
  <2>9. QED
    BY <2>1, <2>2, <2>3, <2>4, <2>5, <2>7, <2>8 DEF CallOK
<1>12. ASSUME Settles(Head(elist)) \/ Uncovers(Head(weak_chain)) PROVE CallOK'
  <2>1. phase \in {"ephemerons", "weak"} /\ UNCHANGED <<phase, step>>
    BY <1>12 DEF Settles, Uncovers
  <2>2. step = "next"
    BY <1>1, <2>1 DEF CallOK, Late
  <2>3. QED
    BY <2>1, <2>2 DEF CallOK
<1>13. CASE Quiet
  BY <1>2, <1>3, <1>4, <1>5, <1>6, <1>7, <1>8, <1>13 DEF Quiet
<1>14. QED
  BY <1>4, <1>9, <1>10, <1>11, <1>12, <1>13, Effects

\* An ephemeron with a live key that waits with another is in the crowd.
LEMMA SharedInCrowd ==
  ASSUME IInv, NEW i \in Elems(elist), Shared(i), fwd[KeyOf(i)] # 0
  PROVE  InCrowd(i)
<1>1. PICK j \in Elems(elist) : j # i /\ KeyOf(j) = KeyOf(i)
  BY DEF Shared
<1>2. PICK o \in Obj : /\ fwd[o] = i /\ i \in 1 .. Len(to) /\ Waiting(o)
                       /\ KeyOf(i) = mem.a[o][2] /\ KeyOf(i) \in Obj
  BY ListedWaits
<1>3. PICK p \in Obj : /\ fwd[p] = j /\ j \in 1 .. Len(to) /\ Waiting(p)
                       /\ KeyOf(j) = mem.a[p][2] /\ KeyOf(j) \in Obj
  BY ListedWaits
<1>4. /\ Kind[o] = "ephemeron" /\ IsOld(mem.a[o]) /\ mem.a[o] \in AnyWord
      /\ Kind[p] = "ephemeron" /\ IsOld(mem.a[p]) /\ mem.a[p] \in AnyWord
  BY <1>2, <1>3, HeapFacts, WordFacts DEF IInv, Waiting
<1>5. mem.a[o] = Old(KeyOf(i)) /\ mem.a[p] = Old(KeyOf(i))
  BY <1>1, <1>2, <1>3, <1>4, WordFacts
<1>6. i < fwd[KeyOf(i)] /\ j < fwd[KeyOf(i)]
  BY <1>1 DEF IInv, WaitsInOrder
<1>7. i # 0 /\ j # 0 /\ o # p
  BY <1>1, <1>2, <1>3
<1>8. WaitedFor(o, KeyOf(i)) /\ WaitedFor(p, KeyOf(i))
  BY <1>2, <1>3, <1>4, <1>5, <1>6, <1>7 DEF WaitedFor
<1>9. o \in Crowd
  BY <1>2, <1>3, <1>7, <1>8 DEF Crowd
<1>10. QED
  BY <1>2, <1>9 DEF InCrowd

LEMMA LateOKStep ==
  ASSUME IInv, Next
  PROVE  LateOK'
<1>1. LateOK /\ elist \in Seq(Nat) /\ to \in Seq(Copy) /\ Len(to) \in Nat
  BY DEF IInv, Types
<1>2. CASE QueueDone
  <2>1. ~Late /\ phase = "queue" /\ queue = 0 /\ step = "next" /\ phase' = "ephemerons"
    BY <1>2, QueueDoneLate
  <2>2. UNCHANGED <<fwd, to, elist>>
    BY <1>2, QuietFrame DEF Quiet
  <2>3. PICK T \in SUBSET Nat, qs \in Seq(Nat) : Table(T, qs)
    BY <2>1 DEF IInv, TableOK
  <2>4. Elems(qs) = {}
    <3>1. ASSUME Len(qs) # 0 PROVE FALSE
      <4>1. Len(qs) \in DOMAIN qs /\ qs[Len(qs)] = 0
        BY <2>1, <2>3, <3>1 DEF Table, QueueLinks
      <4>2. 0 \in Elems(elist)
        BY <2>3, <4>1 DEF Table, QueueLinks, Elems
      <4>3. QED
        BY <4>2 DEF IInv, Lists
    <3>2. DOMAIN qs = {}
      BY <3>1
    <3>3. QED
      BY <3>2 DEF Elems
  <2>5. ASSUME NEW i \in Elems(elist), fwd[KeyOf(i)] # 0 PROVE ~IsOld(to[i].b) \/ InCrowd(i)
    <3>1. ~IsOld(to[i].b) \/ Shared(i)
      BY <2>1, <2>3, <2>4, <2>5 DEF Table, NoneForgotten, TableKeysDead
    <3>2. QED
      BY <2>5, <3>1, SharedInCrowd
  <2>6. \A i : InCrowd(i)' = InCrowd(i)
    BY <2>2, HeapStays DEF InCrowd, Crowd, WaitedFor
  <2>7. QED
    BY <2>1, <2>2, <2>5, <2>6 DEF LateOK, Elems, KeyOf
<1>3. CASE ~Late'
  BY <1>3 DEF LateOK, Late
<1>4. CASE Late /\ Quiet
  <2>1. UNCHANGED <<fwd, to, elist, weak_chain>>
    BY <1>4, QuietFrame
  <2>2. /\ phase' \in {"weak", "done"} => elist = <<>>
        /\ phase' = "done" => weak_chain = <<>>
    <3>1. \/ phase' = phase
          \/ phase' = "weak" /\ elist = <<>>
          \/ phase' = "done" /\ phase = "weak" /\ weak_chain = <<>>
      BY <1>4 DEF Quiet, HandleUnknown, EagerCdr, WalkPast, WalkEnd, RootsDone, SkipEphemeron,
         ScanDone, ScanList, ListDone, ScanDatum, QueueDone, EphemeronsDone, std_gc_pt2, Goto, Late
    <3>2. QED
      BY <1>1, <3>1 DEF LateOK
  <2>3. \A i : InCrowd(i) => InCrowd(i)'
    BY <1>4, CrowdStays
  <2>4. QED
    BY <1>1, <1>4, <2>1, <2>2, <2>3 DEF LateOK, Elems, KeyOf
<1>5. CASE Settles(Head(elist))
  <2> DEFINE i == Head(elist)
  <2>1. /\ phase = "ephemerons" /\ phase' = phase /\ fwd' = fwd
        /\ Elems(elist)' = Elems(elist) \ {i}
        /\ \A j \in 1 .. Len(to) : j # i => to'[j] = to[j]
    BY <1>5 DEF Settles
  <2> HIDE DEF i
  <2>2. \A j \in Elems(elist)' : j \in Elems(elist) /\ to'[j] = to[j]
    BY <2>1 DEF IInv, Lists
  <2>3. \A j : InCrowd(j) => InCrowd(j)'
    BY <2>1, CrowdStays DEF Late
  <2>4. QED
    BY <1>1, <2>1, <2>2, <2>3 DEF LateOK, Late, KeyOf
<1>6. CASE Uncovers(Head(weak_chain))
  <2>1. phase = "weak" /\ UNCHANGED <<phase, elist>>
    BY <1>6 DEF Uncovers
  <2>2. elist' = <<>>
    BY <1>1, <2>1 DEF LateOK
  <2>3. QED
    BY <2>1, <2>2 DEF LateOK, Elems
<1>7. ASSUME NEW i \in 1 .. Len(to), NEW f \in FieldNames, NEW v \in AnyWord, Writes(i, f, v)
      PROVE  ~Late'
  BY <1>7 DEF Writes, Late
<1>8. ASSUME NEW c \in Copy, Copies(c) PROVE ~Late'
  BY <1>8 DEF Copies, Late
<1>9. ASSUME Relinks(entry) PROVE ~Late'
  BY <1>9 DEF Relinks, Late, IInv, CallOK, Scanning
<1>10. ASSUME phase = "roots", Returning PROVE ~Late'
  BY <1>10, RootReturns DEF Late
<1>11. CASE Quiet
  <2>1. Late' # Late => QueueDone
    BY FwdGrows
  <2>2. QED
    BY <1>2, <1>3, <1>4, <1>11, <2>1
<1>12. QED
  BY <1>3, <1>5, <1>6, <1>7, <1>8, <1>9, <1>10, <1>11, Effects

-----------------------------------------------------------------------------
(* The hash table and the queue. *)

LEMMA KeyFacts ==
  ASSUME IInv
  PROVE  \A i \in Elems(elist) : i \in 1 .. Len(to) /\ KeyOf(i) \in Obj /\ BucketOf(i) \in BucketSet
<1>1. \A i \in Elems(elist) : i \in 1 .. Len(to) /\ KeyOf(i) \in Obj
  BY ListedWaits
<1>2. \A i \in Elems(elist) : BucketOf(i) \in BucketSet
  BY <1>1 DEF BucketOf, BucketSet
<1>3. QED
  BY <1>1, <1>2

LEMMA OrderStep ==
  ASSUME IInv, Next
  PROVE  WaitsInOrder'
<1>1. /\ Len(to) \in Nat /\ fwd \in [Obj -> Nat] /\ elist \in Seq(Nat) /\ WaitsInOrder
      /\ \A i \in Elems(elist) : i \in 1 .. Len(to) /\ KeyOf(i) \in Obj
  BY KeyFacts DEF IInv, Types
<1>2. ASSUME fwd' = fwd, Elems(elist)' \subseteq Elems(elist),
             \A i \in Elems(elist)' : to'[i].a = to[i].a
      PROVE  WaitsInOrder'
  BY <1>1, <1>2 DEF WaitsInOrder, KeyOf
<1>3. CASE Quiet
  <2>1. UNCHANGED <<fwd, to, elist>>
    BY <1>3, QuietFrame
  <2>2. QED
    BY <1>2, <2>1 DEF Elems
<1>4. CASE phase = "roots" /\ Returning
  <2>1. UNCHANGED <<fwd, to, elist>>
    BY <1>4, RootReturns
  <2>2. QED
    BY <1>2, <2>1 DEF Elems
<1>5. ASSUME NEW i \in 1 .. Len(to), NEW f \in FieldNames, NEW v \in AnyWord, Writes(i, f, v)
      PROVE  WaitsInOrder'
  <2>1. \A j \in Elems(elist) : to[j].manifest = "unmarked"
    BY ListedWaits DEF Waiting
  <2>2. \A j \in Elems(elist) : to'[j].a = to[j].a
    BY <1>1, <1>5, <2>1 DEF Writes
  <2>3. UNCHANGED <<fwd, elist>>
    BY <1>5 DEF Writes
  <2>4. QED
    BY <1>2, <2>2, <2>3 DEF Elems
<1>6. ASSUME NEW c \in Copy, Copies(c), CopiesPlain(c) \/ CopiesHidden(c) \/ CopiesWaiting(c)
      PROVE  WaitsInOrder'
  <2>0. PICK n \in Nat : n = Len(to) + 1
    BY <1>1
  <2>1. /\ \A i \in 1 .. Len(to) : to'[i] = to[i]
        /\ obj \in Obj /\ fwd'[obj] = n /\ \A o \in Obj : o # obj => fwd'[o] = fwd[o]
        /\ fwd[obj] = 0 /\ mem' = mem /\ to'[n] = c
    BY <1>6, <2>0 DEF Copies
  <2>2. ASSUME NEW i \in Elems(elist) PROVE fwd'[KeyOf(i)'] = 0 \/ i < fwd'[KeyOf(i)']
    <3>1. KeyOf(i)' = KeyOf(i) /\ KeyOf(i) \in Obj /\ i \in 1 .. Len(to)
      BY <1>1, <2>1 DEF KeyOf
    <3>2. CASE KeyOf(i) = obj
      BY <1>1, <2>0, <2>1, <3>1, <3>2
    <3>3. CASE KeyOf(i) # obj
      BY <1>1, <2>1, <3>1, <3>3 DEF WaitsInOrder
    <3>4. QED
      BY <3>2, <3>3
  <2>3. CASE elist' = elist
    BY <2>2, <2>3 DEF WaitsInOrder, Elems
  <2>4. CASE CopiesWaiting(c)
    <3>1. elist' = <<n>> \o elist /\ KeyOf(n)' = mem.a[obj][2] /\ fwd[mem.a[obj][2]] = 0
          /\ mem.a[obj][2] # obj /\ IsOld(mem.a[obj])
      BY <2>0, <2>1, <2>4 DEF CopiesWaiting, KeyOf
    <3>2. mem.a[obj][2] \in Obj
      BY <2>1, <3>1, HeapFacts, WordFacts DEF IInv
    <3>3. fwd'[KeyOf(n)'] = 0
      BY <2>1, <3>1, <3>2
    <3>4. Elems(elist)' = Elems(elist) \cup {n}
      <4>1. Elems(<<n>> \o elist) = Elems(elist) \cup {n}
        BY <1>1, ConsFacts
      <4>2. QED
        BY <3>1, <4>1
    <3>5. QED
      BY <2>2, <3>3, <3>4 DEF WaitsInOrder
  <2>5. QED
    BY <1>6, <2>3, <2>4 DEF CopiesPlain, CopiesHidden
<1>7. CASE Relinks(entry)
  <2>1. UNCHANGED <<fwd, elist>> /\ \A i \in 1 .. Len(to) : to'[i].a = to[i].a
    BY <1>7 DEF Relinks
  <2>2. QED
    BY <1>1, <1>2, <2>1 DEF Elems
<1>8. CASE Settles(Head(elist))
  <2> DEFINE i == Head(elist)
  <2>1. /\ fwd' = fwd /\ Elems(elist)' = Elems(elist) \ {i}
        /\ \A j \in 1 .. Len(to) : j # i => to'[j] = to[j]
    BY <1>8 DEF Settles
  <2> HIDE DEF i
  <2>2. QED
    BY <1>1, <1>2, <2>1
<1>9. CASE Uncovers(Head(weak_chain))
  <2> DEFINE i == Head(weak_chain)
  <2>1. phase = "weak" /\ elist' = elist
    BY <1>9 DEF Uncovers
  <2>2. elist' = <<>>
    BY <2>1 DEF IInv, LateOK
  <2>3. QED
    BY <2>2 DEF WaitsInOrder, Elems
<1>10. QED
  BY <1>3, <1>4, <1>5, <1>6, <1>7, <1>8, <1>9, Effects

\* The links stay as they are.
LEMMA TableLinksStay ==
  ASSUME NEW T, TableLinks(T), bucket' = bucket, Elems(elist) \subseteq Elems(elist)',
         \A i \in Elems(elist) : to'[i].a = to[i].a /\ to'[i].next = to[i].next
  PROVE  TableLinks(T)'
<1>1. T \subseteq Elems(elist)
  BY DEF TableLinks
<1>2. \A i \in T : BucketOf(i)' = BucketOf(i) /\ to'[i].next = to[i].next
  BY <1>1 DEF BucketOf, KeyOf
<1>3. \A n \in BucketSet : {i \in T : BucketOf(i)' = n} = {i \in T : BucketOf(i) = n}
  BY <1>2
<1>4. \A i \in T : {j \in T : BucketOf(j)' = BucketOf(i)' /\ j < i}
                     = {j \in T : BucketOf(j) = BucketOf(i) /\ j < i}
  BY <1>2
<1>5. \A n \in BucketSet : IsTop(bucket'[n], {i \in T : BucketOf(i)' = n})
  BY <1>3 DEF TableLinks
<1>6. \A i \in T : IsTop(to'[i].next, {j \in T : BucketOf(j)' = BucketOf(i)' /\ j < i})
  BY <1>2, <1>4 DEF TableLinks
<1>7. BucketSet' = BucketSet
  BY DEF BucketSet
<1>8. QED
  BY <1>1, <1>5, <1>6, <1>7 DEF TableLinks, IsTop

LEMMA QueueLinksStay ==
  ASSUME NEW qs, QueueLinks(qs), queue' = queue, Elems(elist) \subseteq Elems(elist)',
         \A i \in Elems(elist) : to'[i].a = to[i].a /\ to'[i].next = to[i].next,
         \A i \in Elems(qs) : \/ fwd'[KeyOf(i)] # 0
                              \/ step' \in {"walk", "transport"} /\ KeyOf(i) = obj'
  PROVE  QueueLinks(qs)'
<1>1. Elems(qs) \subseteq Elems(elist) /\ qs \in Seq(Nat) /\ Once(qs)
  BY DEF QueueLinks
<1>2. \A i \in Elems(qs) : KeyOf(i)' = KeyOf(i) /\ to'[i].next = to[i].next
  BY <1>1 DEF KeyOf
<1>3. \A j \in 1 .. Len(qs) : qs[j] \in Elems(qs)
  BY <1>1 DEF Elems
<1>4. \A j \in 1 .. Len(qs) : to'[qs[j]].next = IF j = 1 THEN 0 ELSE qs[j - 1]
  BY <1>2, <1>3 DEF QueueLinks
<1>5. \A i \in Elems(qs) : \/ fwd'[KeyOf(i)'] # 0
                           \/ step' \in {"walk", "transport"} /\ KeyOf(i)' = obj'
  BY <1>2
<1>6. Elems(qs)' = Elems(qs) /\ Once(qs)' = Once(qs)
  BY DEF Elems, Once
<1>7. QED
  BY <1>1, <1>4, <1>5, <1>6 DEF QueueLinks

LEMMA TableMade ==
  ASSUME NEW T \in SUBSET Nat, NEW qs \in Seq(Nat), T \cap Elems(qs) = {},
         TableLinks(T)', QueueLinks(qs)', NoneForgotten(T, qs)', TableKeysDead(T)', WalkOK(T, qs)'
  PROVE  TableOK'
<1>1. Table(T, qs)'
  BY DEF Table, Elems
<1>2. QED
  BY <1>1 DEF TableOK

\* At the end of a bucket no ephemeron in the table has the key, unless there were
\* several; so too at the end of the queue.
LEMMA WalkAtEnd ==
  ASSUME IInv, NEW T, NEW qs, Table(T, qs), step = "walk", entry = 0
  PROVE  \A i \in T : KeyOf(i) # obj \/ Shared(i)
<1>1. T \subseteq Elems(elist) /\ TableLinks(T) /\ WalkOK(T, qs)
  BY DEF Table, TableLinks
<1>2. \A i \in T : i \in 1 .. Len(to) /\ i \in Nat
  BY <1>1, KeyFacts DEF IInv, Types
<1>3. obj \in Obj /\ Buckets[obj] \in BucketSet
  BY DEF IInv, CallOK, BucketSet
<1> SUFFICES ASSUME NEW i \in T, KeyOf(i) = obj, ~Shared(i) PROVE FALSE
  OBVIOUS
<1>4. BucketOf(i) = Buckets[obj]
  BY DEF BucketOf
<1>5. CASE loc = 0
  <2>1. IsTop(0, {j \in T : BucketOf(j) = Buckets[obj]})
    BY <1>1, <1>3, <1>5 DEF TableLinks, entry
  <2>2. i \in {j \in T : BucketOf(j) = Buckets[obj]}
    BY <1>4
  <2>3. QED
    BY <1>2, <2>1, <2>2 DEF IsTop
<1>6. CASE loc # 0 /\ loc \in T /\ BucketOf(loc) = Buckets[obj]
           /\ \A j \in T : BucketOf(j) = Buckets[obj] /\ j >= loc => KeyOf(j) # obj
  <2>1. i < loc
    BY <1>2, <1>4, <1>6
  <2>2. IsTop(0, {j \in T : BucketOf(j) = BucketOf(loc) /\ j < loc})
    BY <1>1, <1>6 DEF TableLinks, entry
  <2>3. i \in {j \in T : BucketOf(j) = BucketOf(loc) /\ j < loc}
    BY <1>4, <1>6, <2>1
  <2>4. QED
    BY <1>2, <2>2, <2>3 DEF IsTop
<1>7. QED
  BY <1>1, <1>5, <1>6 DEF WalkOK

\* What the walk is at: an ephemeron of the bucket, the next one below loc; or
\* the one behind loc in the queue, when one of the key's own is there already.
LEMMA WalkAtEntry ==
  ASSUME IInv, NEW T, NEW qs, Table(T, qs), step = "walk", entry # 0
  PROVE  \/ /\ entry \in T /\ BucketOf(entry) = Buckets[obj]
            /\ \/ loc = 0 /\ \A i \in T : BucketOf(i) = Buckets[obj] => i <= entry
               \/ /\ loc # 0 /\ loc \in T /\ BucketOf(loc) = Buckets[obj] /\ entry < loc
                  /\ \A i \in T : BucketOf(i) = Buckets[obj] => i <= entry \/ i >= loc
            /\ \A i \in T : BucketOf(i) = Buckets[obj] /\ i > entry => KeyOf(i) # obj
         \/ /\ \E k \in 1 .. Len(qs) - 1 : qs[k] = entry /\ qs[k + 1] = loc
            /\ entry \in Elems(qs)
            /\ \A i \in T : KeyOf(i) # obj \/ Shared(i)
<1>1. T \subseteq Elems(elist) /\ TableLinks(T) /\ WalkOK(T, qs) /\ QueueLinks(qs)
  BY DEF Table, TableLinks
<1>2. \A i \in T : i \in 1 .. Len(to) /\ i \in Nat
  BY <1>1, KeyFacts DEF IInv, Types
<1>3. obj \in Obj /\ Buckets[obj] \in BucketSet
  BY DEF IInv, CallOK, BucketSet
<1>4. CASE loc = 0
  <2>1. IsTop(entry, {j \in T : BucketOf(j) = Buckets[obj]})
    BY <1>1, <1>3, <1>4 DEF TableLinks, entry
  <2>2. /\ entry \in T /\ BucketOf(entry) = Buckets[obj]
        /\ \A i \in T : BucketOf(i) = Buckets[obj] => i <= entry
    BY <2>1 DEF IsTop
  <2>3. QED
    BY <1>2, <1>4, <2>2
<1>5. CASE loc # 0 /\ loc \in T /\ BucketOf(loc) = Buckets[obj]
           /\ \A j \in T : BucketOf(j) = Buckets[obj] /\ j >= loc => KeyOf(j) # obj
  <2>1. IsTop(entry, {j \in T : BucketOf(j) = BucketOf(loc) /\ j < loc})
    BY <1>1, <1>5 DEF TableLinks, entry
  <2>2. /\ entry \in T /\ BucketOf(entry) = Buckets[obj] /\ entry < loc
        /\ \A i \in T : BucketOf(i) = Buckets[obj] /\ i < loc => i <= entry
    BY <1>5, <2>1 DEF IsTop
  <2>3. QED
    BY <1>2, <1>5, <2>2
<1>6. CASE loc # 0 /\ loc \in Elems(qs) /\ \A i \in T : KeyOf(i) # obj \/ Shared(i)
  <2>1. PICK j \in 1 .. Len(qs) : qs[j] = loc
    BY <1>1, <1>6 DEF Elems, QueueLinks
  <2>2. entry = to[loc].next /\ to[loc].next = IF j = 1 THEN 0 ELSE qs[j - 1]
    BY <1>1, <1>6, <2>1 DEF entry, QueueLinks
  <2> DEFINE k == j - 1
  <2>3. j # 1 /\ entry = qs[k] /\ k \in 1 .. Len(qs) - 1 /\ Len(qs) \in Nat /\ k + 1 = j
    BY <1>1, <2>1, <2>2 DEF QueueLinks
  <2>4. k \in DOMAIN qs
    BY <1>1, <2>3 DEF QueueLinks
  <2> HIDE DEF k
  <2>5. entry \in Elems(qs)
    BY <1>1, <2>3, <2>4 DEF Elems
  <2>6. qs[k] = entry /\ qs[k + 1] = loc
    BY <2>1, <2>3
  <2>7. QED
    BY <1>6, <2>3, <2>5, <2>6
<1>7. QED
  BY <1>1, <1>4, <1>5, <1>6 DEF WalkOK

\* A step that leaves tospace, the forwarding addresses and the queue alone.
LEMMA TableQuiet ==
  ASSUME IInv, Quiet, ~ScanDatum, ~Late'
  PROVE  TableOK'
<1>1. ~Late
  BY DEF Quiet, HandleUnknown, EagerCdr, WalkPast, WalkEnd, RootsDone, SkipEphemeron,
     ScanDone, ScanList, ListDone, QueueDone, EphemeronsDone, std_gc_pt2, Goto, Late
<1>2. PICK T \in SUBSET Nat, qs \in Seq(Nat) : Table(T, qs)
  BY <1>1 DEF IInv, TableOK
<1>3. /\ T \cap Elems(qs) = {} /\ TableLinks(T) /\ QueueLinks(qs) /\ NoneForgotten(T, qs)
      /\ TableKeysDead(T) /\ WalkOK(T, qs) /\ T \subseteq Elems(elist)
      /\ Elems(qs) \subseteq Elems(elist)
  BY <1>2 DEF Table, TableLinks, QueueLinks
<1>4. UNCHANGED <<fwd, to, elist, bucket, queue>>
  BY QuietFrame DEF Quiet, HandleUnknown, EagerCdr, WalkPast, WalkEnd, RootsDone, SkipEphemeron,
     ScanDone, ScanList, ListDone, QueueDone, EphemeronsDone, std_gc_pt2, Goto, tableVars
<1>5. Elems(elist)' = Elems(elist) /\ Elems(qs)' = Elems(qs) /\ \A i : KeyOf(i)' = KeyOf(i) /\ BucketOf(i)' = BucketOf(i)
  BY <1>4 DEF Elems, KeyOf, BucketOf
<1>5a. \A i : Shared(i) => Shared(i)'
  BY <1>5 DEF Shared
<1>6. TableLinks(T)'
  BY <1>3, <1>4, <1>5, TableLinksStay
<1>7. step = "walk" /\ step' # "walk" => WalkEnd
  BY DEF Quiet, HandleUnknown, EagerCdr, WalkPast, WalkEnd, RootsDone, SkipEphemeron,
     ScanDone, ScanList, ListDone, QueueDone, EphemeronsDone, std_gc_pt2, Goto
<1>8. WalkEnd => /\ step = "walk" /\ entry = 0 /\ UNCHANGED <<phase, index, obj>>
                 /\ step' = IF phase = "list" THEN "next" ELSE "transport"
                 /\ \A i \in T : KeyOf(i) # obj \/ Shared(i)
  BY <1>2, WalkAtEnd DEF WalkEnd
<1>9. step # "transport"
  BY DEF Quiet, HandleUnknown, EagerCdr, WalkPast, WalkEnd, RootsDone, SkipEphemeron,
     ScanDone, ScanList, ListDone, QueueDone, EphemeronsDone, std_gc_pt2, Goto
<1>10. QueueLinks(qs)'
  <2> SUFFICES ASSUME NEW i \in Elems(qs)
               PROVE  \/ fwd[KeyOf(i)] # 0
                      \/ step' \in {"walk", "transport"} /\ KeyOf(i) = obj'
    BY <1>3, <1>4, <1>5, QueueLinksStay
  <2>1. \/ fwd[KeyOf(i)] # 0
        \/ step \in {"walk", "transport"} /\ KeyOf(i) = obj
    BY <1>3 DEF QueueLinks
  <2>2. CASE step = "walk" /\ KeyOf(i) = obj
    <3>1. CASE WalkEnd
      BY <1>8, <2>2, <3>1 DEF IInv, CallOK
    <3>2. CASE ~WalkEnd
      <4>1. WalkPast
        BY <2>2, <3>2 DEF Quiet, HandleUnknown, EagerCdr, RootsDone, SkipEphemeron,
           ScanDone, ScanList, ListDone, QueueDone, EphemeronsDone, std_gc_pt2, Goto
      <4>2. QED
        BY <2>2, <4>1 DEF WalkPast
    <3>3. QED
      BY <3>1, <3>2
  <2>3. QED
    BY <1>9, <2>1, <2>2
<1>11. NoneForgotten(T, qs)'
  <2>1. phase = "datum" => phase' = phase /\ index' = index
    BY DEF Quiet, HandleUnknown, EagerCdr, WalkPast, WalkEnd, RootsDone, SkipEphemeron,
     ScanDone, ScanList, ListDone, QueueDone, EphemeronsDone, std_gc_pt2, Goto
  <2>2. QED
    BY <1>3, <1>4, <1>5, <2>1 DEF NoneForgotten
<1>12. TableKeysDead(T)'
  <2>1. step' = "transport" /\ Scanning' => WalkEnd
    BY DEF Quiet, HandleUnknown, EagerCdr, WalkPast, WalkEnd, RootsDone, SkipEphemeron,
     ScanDone, ScanList, ListDone, QueueDone, EphemeronsDone, std_gc_pt2, Goto, Precheck,
     queue_ephemerons_for_key, Scanning
  <2>2. step' = "transport" /\ Scanning' => \A i \in T : KeyOf(i)' # obj' \/ Shared(i)'
    BY <1>5, <1>5a, <1>8, <2>1
  <2>3. ASSUME NEW i \in T, fwd[KeyOf(i)] # 0, phase' \notin {"roots", "scan"}, ~Shared(i)
        PROVE  phase' = "list" /\ \/ \E j \in index' .. Len(elist) : elist[j] = i
                                  \/ step' = "walk" /\ KeyOf(i) = obj'
    <3>1. \/ phase \in {"roots", "scan"}
          \/ phase = "list" /\ \/ \E j \in index .. Len(elist) : elist[j] = i
                               \/ step = "walk" /\ KeyOf(i) = obj
      BY <1>3, <2>3 DEF TableKeysDead
    <3>2. CASE phase \in {"roots", "scan"}
      <4>1. ScanDone /\ phase = "scan"
        BY <2>3, <3>2 DEF Quiet, HandleUnknown, EagerCdr, WalkPast, WalkEnd, RootsDone, SkipEphemeron,
           ScanDone, ScanList, ListDone, QueueDone, EphemeronsDone, std_gc_pt2, Goto
      <4>2. phase' = "list" /\ index' = 1
        BY <4>1 DEF ScanDone, Goto
      <4>3. \E j \in 1 .. Len(elist) : elist[j] = i
        <5>1. elist \in Seq(Nat) /\ i \in Elems(elist)
          BY <1>3 DEF IInv, Types
        <5>2. QED
          BY <5>1, ElemsMeaning
      <4>4. QED
        BY <4>2, <4>3
    <3>3. CASE phase = "list" /\ step = "next"
      <4>1. PICK j \in index .. Len(elist) : elist[j] = i
        BY <3>1, <3>3
      <4>2. ScanList
        <5>1. index <= Len(elist) /\ index \in Nat /\ Len(elist) \in Nat
          BY <4>1 DEF IInv, Types
        <5>2. QED
          BY <3>3, <5>1 DEF Quiet, HandleUnknown, EagerCdr, WalkPast, WalkEnd, RootsDone, SkipEphemeron,
           ScanDone, ListDone, QueueDone, EphemeronsDone, std_gc_pt2, Goto, AtWord
      <4>3. phase' = "list" /\ index' = index + 1
        BY <4>2 DEF ScanList
      <4>4. CASE j = index
        <5>1. obj' = KeyOf(i) /\ step' = "walk"
          BY <2>3, <4>1, <4>2, <4>4 DEF ScanList, queue_ephemerons_for_key
        <5>2. QED
          BY <4>3, <5>1
      <4>5. CASE j # index
        <5>1. j \in index + 1 .. Len(elist)
          BY <4>1, <4>5 DEF IInv, Types
        <5>2. QED
          BY <4>1, <4>3, <5>1
      <4>6. QED
        BY <4>4, <4>5
    <3>4. CASE phase = "list" /\ step = "walk"
      <4>1. UNCHANGED <<phase, index, obj>> /\ (WalkPast => step' = "walk") /\ (WalkPast \/ WalkEnd)
        BY <3>4 DEF Quiet, HandleUnknown, EagerCdr, WalkPast, WalkEnd, RootsDone, SkipEphemeron,
           ScanDone, ScanList, ListDone, QueueDone, EphemeronsDone, std_gc_pt2, Goto
      <4>2. CASE WalkPast
        BY <3>1, <3>4, <4>1, <4>2
      <4>3. CASE WalkEnd
        BY <1>8, <2>3, <3>1, <3>4, <4>1, <4>3
      <4>4. QED
        BY <4>1, <4>2, <4>3
    <3>5. QED
      BY <3>1, <3>2, <3>3, <3>4 DEF IInv, CallOK
  <2>4. QED
    BY <1>4, <1>5, <1>5a, <2>2, <2>3 DEF TableKeysDead
<1>13. WalkOK(T, qs)'
  <2>1. CASE step' = "walk" /\ step # "walk"
    <3>1. loc' = 0
      BY <2>1 DEF Quiet, HandleUnknown, EagerCdr, WalkPast, WalkEnd, RootsDone, SkipEphemeron,
         ScanDone, ScanList, ListDone, QueueDone, EphemeronsDone, std_gc_pt2, Goto, Precheck,
         queue_ephemerons_for_key
    <3>2. QED
      BY <3>1 DEF WalkOK
  <2>2. CASE step' = "walk" /\ step = "walk"
    <3>1. WalkPast
      BY <2>2 DEF Quiet, HandleUnknown, EagerCdr, WalkPast, WalkEnd, RootsDone, SkipEphemeron,
         ScanDone, ScanList, ListDone, QueueDone, EphemeronsDone, std_gc_pt2, Goto
    <3>2. entry # 0 /\ KeyOf(entry) # obj /\ loc' = entry /\ obj' = obj
      BY <3>1 DEF WalkPast
    <3>3. CASE /\ entry \in T /\ BucketOf(entry) = Buckets[obj]
               /\ \A i \in T : BucketOf(i) = Buckets[obj] /\ i > entry => KeyOf(i) # obj
      <4>1. \A i \in T : BucketOf(i) = Buckets[obj] /\ i >= entry => KeyOf(i) # obj
        BY <3>2, <3>3
      <4>2. QED
        BY <1>5, <3>2, <3>3, <4>1 DEF WalkOK
    <3>4. CASE entry \in Elems(qs) /\ \A i \in T : KeyOf(i) # obj \/ Shared(i)
      BY <1>5, <1>5a, <3>2, <3>4 DEF WalkOK
    <3>5. QED
      BY <1>2, <2>2, <3>2, <3>3, <3>4, WalkAtEntry
  <2>3. QED
    BY <2>1, <2>2 DEF WalkOK
<1>14. QED
  BY <1>3, <1>6, <1>10, <1>11, <1>12, <1>13, TableMade

LEMMA ButLastFacts ==
  ASSUME NEW s \in Seq(Nat), Len(s) # 0, Once(s)
  PROVE  \E t \in Seq(Nat) : /\ Len(t) = Len(s) - 1 /\ \A i \in 1 .. Len(s) - 1 : t[i] = s[i]
                             /\ Once(t) /\ Elems(t) = Elems(s) \ {s[Len(s)]}
<1> DEFINE m == Len(s) - 1
           t == [i \in 1 .. m |-> s[i]]
<1>1. m \in Nat /\ Len(s) = m + 1 /\ DOMAIN s = 1 .. m + 1
  OBVIOUS
<1>2. t \in Seq(Nat) /\ Len(t) = m /\ DOMAIN t = 1 .. m /\ \A i \in 1 .. m : t[i] = s[i]
  BY <1>1
<1> HIDE DEF t, m
<1>3. Once(t)
  BY <1>1, <1>2 DEF Once
<1>4. ASSUME NEW x PROVE x \in Elems(t) <=> x \in Elems(s) /\ x # s[m + 1]
  <2>1. ASSUME x \in Elems(t) PROVE x \in Elems(s) /\ x # s[m + 1]
    <3>0. \E i \in DOMAIN t : t[i] = x
      BY <2>1, ElemsMeaning
    <3>1. PICK i \in 1 .. m : t[i] = x
      BY <1>2, <3>0
    <3>2. i \in DOMAIN s /\ m + 1 \in DOMAIN s /\ i # m + 1 /\ s[i] = x
      BY <1>1, <1>2, <3>1
    <3>3. QED
      BY <3>2, ElemsMeaning DEF Once
  <2>2. ASSUME x \in Elems(s), x # s[m + 1] PROVE x \in Elems(t)
    <3>1. PICK i \in 1 .. m + 1 : s[i] = x
      BY <1>1, <2>2, ElemsMeaning
    <3>2. i \in 1 .. m
      BY <1>1, <2>2, <3>1
    <3>3. QED
      BY <1>2, <3>1, <3>2, ElemsMeaning
  <2>3. QED
    BY <2>1, <2>2
<1>5. Elems(t) = Elems(s) \ {s[Len(s)]}
  BY <1>1, <1>4
<1>6. QED
  BY <1>1, <1>2, <1>3, <1>5 DEF m

LEMMA AppendFacts ==
  ASSUME NEW s \in Seq(Nat), NEW x \in Nat, x \notin Elems(s), Once(s)
  PROVE  LET t == Append(s, x)
         IN  /\ t \in Seq(Nat) /\ Len(t) = Len(s) + 1 /\ t[Len(s) + 1] = x
             /\ \A i \in 1 .. Len(s) : t[i] = s[i]
             /\ Once(t) /\ Elems(t) = Elems(s) \cup {x}
<1> DEFINE t == Append(s, x)
           n == Len(s)
<1>1. /\ t \in Seq(Nat) /\ Len(t) = n + 1 /\ t[n + 1] = x /\ n \in Nat
      /\ \A i \in 1 .. n : t[i] = s[i]
      /\ DOMAIN t = 1 .. n + 1 /\ DOMAIN s = 1 .. n
  OBVIOUS
<1> HIDE DEF t, n
<1>2. \A i \in 1 .. n : s[i] # x
  BY <1>1, ElemsMeaning
<1>3. Once(t)
  <2> SUFFICES ASSUME NEW i \in 1 .. n + 1, NEW j \in 1 .. n + 1, t[i] = t[j] PROVE i = j
    BY <1>1 DEF Once
  <2>1. CASE i \in 1 .. n /\ j \in 1 .. n
    BY <1>1, <2>1 DEF Once
  <2>2. CASE i \notin 1 .. n \/ j \notin 1 .. n
    <3>1. (i \in 1 .. n \/ i = n + 1) /\ (j \in 1 .. n \/ j = n + 1)
      BY <1>1
    <3>2. QED
      BY <1>1, <1>2, <2>2, <3>1
  <2>3. QED
    BY <2>1, <2>2
<1>4. ASSUME NEW y PROVE y \in Elems(t) <=> y \in Elems(s) \cup {x}
  <2>1. ASSUME y \in Elems(t) PROVE y \in Elems(s) \cup {x}
    <3>1. PICK i \in 1 .. n + 1 : t[i] = y
      BY <1>1, <2>1, ElemsMeaning
    <3>2. i \in 1 .. n \/ i = n + 1
      BY <1>1
    <3>3. QED
      BY <1>1, <3>1, <3>2, ElemsMeaning
  <2>2. ASSUME y \in Elems(s) PROVE y \in Elems(t)
    <3>1. PICK i \in 1 .. n : s[i] = y
      BY <1>1, <2>2, ElemsMeaning
    <3>2. i \in DOMAIN t
      BY <1>1
    <3>3. QED
      BY <1>1, <3>1, <3>2, ElemsMeaning
  <2>3. x \in Elems(t)
    <3>1. n + 1 \in DOMAIN t
      BY <1>1
    <3>2. QED
      BY <1>1, <3>1, ElemsMeaning
  <2>4. QED
    BY <2>1, <2>2, <2>3
<1>5. Elems(t) = Elems(s) \cup {x}
  BY <1>4
<1>6. QED
  BY <1>1, <1>3, <1>5 DEF t, n

\* The head of the queue is taken for its datum.
LEMMA TableDatum ==
  ASSUME IInv, ScanDatum
  PROVE  TableOK'
<1>1. /\ step = "next" /\ step' = "next" /\ phase = "queue" /\ phase' = "datum" /\ queue # 0
      /\ index' = queue /\ queue' = to[queue].next
      /\ UNCHANGED <<elist, bucket, fwd, to, obj, loc>> /\ ~Late
  BY DEF ScanDatum, Late
<1>2. PICK T \in SUBSET Nat, qs \in Seq(Nat) : Table(T, qs)
  BY <1>1 DEF IInv, TableOK
<1>3. /\ T \cap Elems(qs) = {} /\ TableLinks(T) /\ QueueLinks(qs) /\ NoneForgotten(T, qs)
      /\ TableKeysDead(T)
  BY <1>2 DEF Table
<1>4. Len(qs) # 0 /\ queue = qs[Len(qs)] /\ Once(qs)
  BY <1>1, <1>3 DEF QueueLinks
<1>5. PICK rs \in Seq(Nat) : /\ Len(rs) = Len(qs) - 1 /\ \A i \in 1 .. Len(qs) - 1 : rs[i] = qs[i]
                             /\ Once(rs) /\ Elems(rs) = Elems(qs) \ {qs[Len(qs)]}
  BY <1>4, ButLastFacts
<1>6. Elems(elist)' = Elems(elist) /\ \A i : KeyOf(i)' = KeyOf(i)
  BY <1>1 DEF Elems, KeyOf
<1>7. TableLinks(T)'
  BY <1>1, <1>3, <1>6, TableLinksStay
<1>8. QueueLinks(rs)'
  <2>1. queue' = IF Len(rs) = 0 THEN 0 ELSE rs[Len(rs)]
    <3> DEFINE n == Len(qs)
    <3>1. n \in 1 .. Len(qs)
      BY <1>4
    <3>2. to[qs[n]].next = IF n = 1 THEN 0 ELSE qs[n - 1]
      BY <1>3, <3>1 DEF QueueLinks
    <3>3. Len(rs) = n - 1 /\ (n # 1 => rs[n - 1] = qs[n - 1] /\ Len(rs) # 0)
      <4>0. n = Len(qs) /\ n \in Nat
        BY <1>4
      <4> HIDE DEF n
      <4>1. n # 1 => n - 1 \in 1 .. Len(qs) - 1
        BY <3>1, <4>0
      <4>2. Len(rs) = n - 1
        BY <1>5, <4>0
      <4>3. n # 1 => rs[n - 1] = qs[n - 1]
        BY <1>5, <4>1
      <4>4. n # 1 => Len(rs) # 0
        BY <4>0, <4>2
      <4>5. QED
        BY <4>2, <4>3, <4>4
    <3> HIDE DEF n
    <3>4. queue' = IF n = 1 THEN 0 ELSE qs[n - 1]
      BY <1>1, <1>4, <3>2 DEF n
    <3>5. QED
      BY <3>3, <3>4
  <2>2. \A j \in 1 .. Len(rs) : to[rs[j]].next = IF j = 1 THEN 0 ELSE rs[j - 1]
    <3> SUFFICES ASSUME NEW j \in 1 .. Len(rs)
                 PROVE  to[rs[j]].next = IF j = 1 THEN 0 ELSE rs[j - 1]
      OBVIOUS
    <3>1. j \in 1 .. Len(qs) /\ rs[j] = qs[j] /\ (j # 1 => rs[j - 1] = qs[j - 1])
      BY <1>4, <1>5
    <3>2. QED
      BY <1>3, <3>1 DEF QueueLinks
  <2>3. \A i \in Elems(rs) : i \in Elems(elist) /\ fwd[KeyOf(i)] # 0
    BY <1>1, <1>3, <1>5 DEF QueueLinks
  <2>4. Elems(rs)' = Elems(rs) /\ Once(rs)' = Once(rs)
    BY DEF Elems, Once
  <2>5. QED
    BY <1>1, <1>5, <1>6, <2>1, <2>2, <2>3, <2>4 DEF QueueLinks
<1>9. NoneForgotten(T, rs)'
  <2>1. Elems(rs)' = Elems(rs)
    BY DEF Elems
  <2>2. QED
    BY <1>1, <1>3, <1>4, <1>5, <1>6, <2>1 DEF NoneForgotten
<1>10. TableKeysDead(T)'
  <2>1. \A i \in T : fwd[KeyOf(i)] = 0 \/ Shared(i)
    BY <1>1, <1>3 DEF TableKeysDead
  <2>2. \A i : Shared(i) => Shared(i)'
    BY <1>6 DEF Shared
  <2>3. QED
    BY <1>1, <1>6, <2>1, <2>2 DEF TableKeysDead
<1>11. WalkOK(T, rs)'
  BY <1>1 DEF WalkOK
<1>12. T \cap Elems(rs) = {}
  BY <1>3, <1>5
<1>13. QED
  BY <1>7, <1>8, <1>9, <1>10, <1>11, <1>12, TableMade

\* The word of a root, of a copy or of a datum is settled.
LEMMA TableReturns ==
  ASSUME IInv, Returning, ~Late
  PROVE  TableOK'
<1>1. PICK T \in SUBSET Nat, qs \in Seq(Nat) : Table(T, qs)
  BY DEF IInv, TableOK
<1>2. /\ T \cap Elems(qs) = {} /\ TableLinks(T) /\ QueueLinks(qs) /\ NoneForgotten(T, qs)
      /\ TableKeysDead(T) /\ T \subseteq Elems(elist) /\ Elems(qs) \subseteq Elems(elist)
  BY <1>1 DEF Table, TableLinks, QueueLinks
<1>3. step \in {"next", "store"}
  BY DEF Returning, HandleKnown, Store
<1>4. /\ UNCHANGED <<fwd, elist, bucket, queue>> /\ step' = "next"
      /\ \A i \in Elems(elist) : /\ to'[i].a = to[i].a /\ to'[i].next = to[i].next
                                 /\ ~IsOld(to[i].b) => ~IsOld(to'[i].b)
                                 /\ phase = "datum" /\ i = index => ~IsOld(to'[i].b)
      /\ phase \in {"roots", "scan"} => phase' = phase
      /\ phase \notin {"list", "queue"} /\ phase' # "datum"
  <2>1. CASE phase = "roots"
    BY <2>1, RootReturns
  <2>2. CASE phase # "roots"
    <3>1. PICK i \in 1 .. Len(to), f \in FieldNames, v \in AnyWord : Writes(i, f, v)
      BY <2>2, TospaceReturns
    <3>2. \A j \in Elems(elist) : j \in 1 .. Len(to) /\ to[j].manifest = "unmarked"
      BY ListedWaits DEF Waiting
    <3>3. CASE phase = "datum"
      <4>1. i = index /\ f = "b" /\ phase' = "rescan"
        BY <3>1, <3>3 DEF Writes
      <4>2. QED
        BY <3>1, <3>2, <3>3, <4>1 DEF Writes
    <3>4. CASE phase # "datum"
      <4>1. to[i].manifest = "marked" /\ phase' = phase /\ phase \in {"scan", "rescan"}
        BY <3>1, <3>4 DEF Writes
      <4>2. i \notin Elems(elist)
        BY <3>2, <4>1
      <4>3. QED
        BY <3>1, <3>2, <3>4, <4>1, <4>2 DEF Writes
    <3>5. QED
      BY <3>3, <3>4
  <2>3. QED
    BY <2>1, <2>2
<1>5. /\ Elems(elist)' = Elems(elist) /\ Elems(qs)' = Elems(qs)
      /\ \A i \in Elems(elist) : KeyOf(i)' = KeyOf(i)
  BY <1>4 DEF Elems, KeyOf
<1>6. TableLinks(T)'
  BY <1>2, <1>4, <1>5, TableLinksStay
<1>7. QueueLinks(qs)'
  <2>1. \A i \in Elems(qs) : fwd[KeyOf(i)] # 0
    BY <1>2, <1>3 DEF QueueLinks
  <2>2. QED
    BY <1>2, <1>4, <1>5, <2>1, QueueLinksStay
<1>8. NoneForgotten(T, qs)'
  BY <1>2, <1>4, <1>5 DEF NoneForgotten
<1>9. TableKeysDead(T)'
  <2>1. \A i \in T : fwd[KeyOf(i)] # 0 => phase \in {"roots", "scan"} \/ Shared(i)
    BY <1>2, <1>4 DEF TableKeysDead
  <2>2. \A i \in Elems(elist) : Shared(i) => Shared(i)'
    BY <1>5 DEF Shared
  <2>3. QED
    BY <1>2, <1>4, <1>5, <2>1, <2>2 DEF TableKeysDead
<1>10. WalkOK(T, qs)'
  BY <1>4 DEF WalkOK
<1>11. QED
  BY <1>2, <1>6, <1>7, <1>8, <1>9, <1>10, TableMade

\* An object is copied: an ephemeron that waits for its key becomes the first of
\* its bucket.
LEMMA TableCopies ==
  ASSUME IInv, NEW c \in Copy, Copies(c),
         CopiesPlain(c) \/ CopiesHidden(c) \/ CopiesWaiting(c)
  PROVE  TableOK'
<1>0. PICK n \in Nat : n = Len(to) + 1
  BY DEF IInv, Types
<1>1. /\ obj \in Obj /\ fwd[obj] = 0 /\ step = "transport" /\ ~Late
      /\ to' \in Seq(Copy) /\ Len(to') = n /\ to'[n] = c /\ \A i \in 1 .. Len(to) : to'[i] = to[i]
      /\ fwd'[obj] = n /\ (\A o \in Obj : o # obj => fwd'[o] = fwd[o])
      /\ step' \in {"cdr", "store"} /\ UNCHANGED <<mem, queue, phase, index, scan, obj, loc>>
  BY <1>0 DEF Copies
<1>2. PICK T \in SUBSET Nat, qs \in Seq(Nat) : Table(T, qs)
  BY <1>1 DEF IInv, TableOK
<1>3. /\ T \cap Elems(qs) = {} /\ TableLinks(T) /\ QueueLinks(qs) /\ NoneForgotten(T, qs)
      /\ TableKeysDead(T) /\ T \subseteq Elems(elist) /\ Elems(qs) \subseteq Elems(elist)
  BY <1>2 DEF Table, TableLinks, QueueLinks
<1>4. /\ Len(to) \in Nat /\ n \in Nat /\ n # 0 /\ elist \in Seq(Nat) /\ fwd \in [Obj -> Nat]
      /\ bucket \in [BucketSet -> Nat] /\ phase # "list"
  BY <1>0, <1>1 DEF IInv, Types, CallOK
<1>5. \A i \in Elems(elist) : i \in 1 .. Len(to) /\ i \in Nat /\ i < n /\ to'[i] = to[i]
                              /\ KeyOf(i) \in Obj
  BY <1>0, <1>1, <1>4, KeyFacts
<1>6. \A i \in Elems(elist) : KeyOf(i)' = KeyOf(i) /\ BucketOf(i)' = BucketOf(i)
  BY <1>5 DEF KeyOf, BucketOf
<1>7. elist' = elist \/ elist' = <<n>> \o elist
  BY <1>0 DEF CopiesPlain, CopiesHidden, CopiesWaiting
<1>8. Elems(<<n>> \o elist) = Elems(elist) \cup {n}
  BY <1>4, ConsFacts
<1>9. Elems(elist) \subseteq Elems(elist)' /\ Elems(elist)' \subseteq Elems(elist) \cup {n}
      /\ Elems(qs)' = Elems(qs)
  BY <1>7, <1>8 DEF Elems
<1>10. \A o \in Obj : fwd[o] # 0 => fwd'[o] # 0
  BY <1>1, <1>4
<1>11. QueueLinks(qs)'
  <2>1. \A i \in Elems(qs) : fwd'[KeyOf(i)] # 0
    BY <1>1, <1>3, <1>4, <1>5, <1>10 DEF QueueLinks
  <2>2. QED
    BY <1>1, <1>3, <1>5, <1>9, <2>1, QueueLinksStay
\* No ephemeron in the table has a key that the collector has found.
<1>12. \A i \in T : fwd'[KeyOf(i)] # 0 => phase \in {"roots", "scan"} \/ Shared(i)'
  <2>0. \A i \in Elems(elist) : Shared(i) => Shared(i)'
    BY <1>6, <1>9 DEF Shared
  <2> SUFFICES ASSUME NEW i \in T, fwd'[KeyOf(i)] # 0, phase \notin {"roots", "scan"}, ~Shared(i)
               PROVE  FALSE
    BY <1>3, <2>0
  <2>1. fwd[KeyOf(i)] = 0
    BY <1>3, <1>4 DEF TableKeysDead
  <2>2. KeyOf(i) = obj
    BY <1>1, <1>3, <1>5, <2>1
  <2>3. Scanning
    BY <1>1, <1>4 DEF Scanning, Late, IInv, Types, Phases
  <2>4. QED
    BY <1>1, <1>3, <2>2, <2>3 DEF TableKeysDead
<1>13. CASE UNCHANGED <<elist, bucket>>
  <2>1. Elems(elist)' = Elems(elist)
    BY <1>13 DEF Elems
  <2>2. TableLinks(T)'
    BY <1>3, <1>5, <1>9, <1>13, TableLinksStay
  <2>3. NoneForgotten(T, qs)'
    BY <1>1, <1>3, <1>5, <1>9, <2>1 DEF NoneForgotten
  <2>4. TableKeysDead(T)'
    BY <1>1, <1>3, <1>6, <1>12 DEF TableKeysDead
  <2>5. WalkOK(T, qs)'
    BY <1>1 DEF WalkOK
  <2>6. QED
    BY <1>3, <1>11, <2>2, <2>3, <2>4, <2>5, TableMade
<1>14. CASE CopiesWaiting(c)
  <2> DEFINE key == mem.a[obj][2]
             b == Buckets[key]
             U == T \cup {n}
  <2>1. /\ IsOld(mem.a[obj]) /\ key # obj /\ fwd[key] = 0 /\ c.a = mem.a[obj]
        /\ c.next = bucket[b] /\ bucket' = [bucket EXCEPT ![b] = n] /\ elist' = <<n>> \o elist
    BY <1>0, <1>14 DEF CopiesWaiting
  <2>2. key \in Obj /\ b \in BucketSet
    BY <1>1, <2>1, HeapFacts, WordFacts DEF IInv, BucketSet
  <2> HIDE DEF key, b
  <2>3. KeyOf(n)' = key /\ BucketOf(n)' = b /\ fwd'[key] = 0 /\ to'[n].next = bucket[b]
    BY <1>1, <2>1, <2>2 DEF KeyOf, BucketOf, key, b
  <2>4. Elems(elist)' = Elems(elist) \cup {n} /\ n \notin Elems(elist)
    <3>1. \A i \in Elems(elist) : i # n
      BY <1>4, <1>5
    <3>2. QED
      BY <1>8, <2>1, <3>1
  <2>5. U \in SUBSET Nat /\ U \cap Elems(qs) = {} /\ U \subseteq Elems(elist)'
    BY <1>3, <1>4, <2>4
  <2>6. \A i \in T : i \in Nat /\ i < n /\ i # n /\ BucketOf(i)' = BucketOf(i) /\ to'[i] = to[i]
    BY <1>3, <1>4, <1>5, <1>6
  <2>7. TableLinks(U)'
    <3>1. ASSUME NEW m \in BucketSet
          PROVE  IsTop(bucket'[m], {i \in U : BucketOf(i)' = m})
      <4>1. CASE m = b
        <5>1. bucket'[m] = n
          BY <1>4, <2>1, <2>2, <4>1
        <5>2. \A i \in U : i <= n
          <6>1. \A i \in T : i <= n
            BY <1>4, <2>6
          <6>2. n <= n
            BY <1>4
          <6>3. QED
            BY <6>1, <6>2
        <5>3. QED
          BY <2>3, <4>1, <5>1, <5>2 DEF IsTop
      <4>2. CASE m # b
        <5>1. bucket'[m] = bucket[m]
          BY <1>4, <2>1, <2>2, <4>2
        <5>2. {i \in U : BucketOf(i)' = m} = {i \in T : BucketOf(i) = m}
          BY <2>3, <2>6, <4>2
        <5>3. QED
          BY <1>3, <5>1, <5>2 DEF TableLinks
      <4>3. QED
        BY <4>1, <4>2
    <3>2. ASSUME NEW i \in U
          PROVE  IsTop(to'[i].next, {j \in U : BucketOf(j)' = BucketOf(i)' /\ j < i})
      <4>1. CASE i = n
        <5>1. {j \in U : BucketOf(j)' = BucketOf(i)' /\ j < i} = {j \in T : BucketOf(j) = b}
          BY <1>4, <2>3, <2>6, <4>1
        <5>2. QED
          BY <1>3, <2>2, <2>3, <4>1, <5>1 DEF TableLinks
      <4>2. CASE i # n
        <5>1. i \in T
          BY <4>2
        <5>2. ~(n < i)
          BY <1>4, <2>6, <5>1
        <5>3. {j \in U : BucketOf(j)' = BucketOf(i)' /\ j < i}
                = {j \in T : BucketOf(j) = BucketOf(i) /\ j < i}
          BY <2>6, <5>1, <5>2
        <5>4. QED
          BY <1>3, <2>6, <5>1, <5>3 DEF TableLinks
      <4>3. QED
        BY <4>1, <4>2
    <3>3. BucketSet' = BucketSet
      BY DEF BucketSet
    <3> HIDE DEF U
    <3>4. QED
      BY <2>5, <3>1, <3>2, <3>3 DEF TableLinks, IsTop
  <2>8. NoneForgotten(U, qs)'
    BY <1>1, <1>3, <1>5, <1>9, <2>4 DEF NoneForgotten
  <2>9. TableKeysDead(U)'
    <3>1. \A i \in U : fwd'[KeyOf(i)'] # 0 => phase \in {"roots", "scan"} \/ Shared(i)'
      BY <1>3, <1>6, <1>12, <2>3
    <3>2. QED
      BY <1>1, <3>1 DEF TableKeysDead
  <2>10. WalkOK(U, qs)'
    BY <1>1 DEF WalkOK
  <2> HIDE DEF U
  <2>11. QED
    BY <1>11, <2>5, <2>7, <2>8, <2>9, <2>10, TableMade
<1>15. QED
  BY <1>13, <1>14 DEF CopiesPlain, CopiesHidden

\* An ephemeron leaves its bucket for the queue.
LEMMA BucketRelinks ==
  ASSUME IInv, Relinks(entry), NEW T \in SUBSET Nat, NEW qs \in Seq(Nat), Table(T, qs),
         entry \in T, BucketOf(entry) = Buckets[obj],
         \/ loc = 0 /\ \A i \in T : BucketOf(i) = Buckets[obj] => i <= entry
         \/ /\ loc # 0 /\ loc \in T /\ BucketOf(loc) = Buckets[obj] /\ entry < loc
            /\ \A i \in T : BucketOf(i) = Buckets[obj] => i <= entry \/ i >= loc
  PROVE  TableOK'
<1>0. PICK e : e = entry
  OBVIOUS
<1>1. /\ e \in 1 .. Len(to) /\ KeyOf(e) = obj /\ step = "walk" /\ step' = "walk"
      /\ \A i \in 1 .. Len(to) : /\ to'[i].a = to[i].a /\ to'[i].b = to[i].b
                                 /\ i # e /\ i # loc => to'[i].next = to[i].next
      /\ to'[e].next = queue
      /\ loc # 0 => /\ loc # e => to'[loc].next = to[e].next
                    /\ bucket' = bucket
      /\ loc = 0 => bucket' = [bucket EXCEPT ![Buckets[obj]] = to[e].next]
      /\ queue' = e /\ loc' = e
      /\ UNCHANGED <<fwd, elist, phase, index, obj>>
  BY <1>0 DEF Relinks
<1>2. /\ e # 0 /\ Len(to) \in Nat /\ obj \in Obj /\ ~Late /\ bucket \in [BucketSet -> Nat]
      /\ Buckets[obj] \in BucketSet
  BY <1>1 DEF IInv, Types, CallOK, Scanning, Late, BucketSet
<1>4. /\ T \cap Elems(qs) = {} /\ TableLinks(T) /\ QueueLinks(qs) /\ NoneForgotten(T, qs)
      /\ TableKeysDead(T) /\ T \subseteq Elems(elist) /\ Elems(qs) \subseteq Elems(elist)
  BY DEF Table, TableLinks, QueueLinks
<1>5. \A i \in Elems(elist) : i \in 1 .. Len(to) /\ i \in Nat /\ i # 0 /\ KeyOf(i) \in Obj
  BY <1>2, KeyFacts
<1>6. \A i \in Elems(elist) : KeyOf(i)' = KeyOf(i) /\ BucketOf(i)' = BucketOf(i)
  BY <1>1, <1>5 DEF KeyOf, BucketOf
<1>7. /\ e \in T /\ BucketOf(e) = Buckets[obj]
      /\ \/ loc = 0 /\ \A i \in T : BucketOf(i) = Buckets[obj] => i <= e
         \/ /\ loc # 0 /\ loc \in T /\ BucketOf(loc) = Buckets[obj] /\ e < loc
            /\ \A i \in T : BucketOf(i) = Buckets[obj] => i <= e \/ i >= loc
  BY <1>0
<1> DEFINE U == T \ {e}
           rs == Append(qs, e)
<1>8. e \notin Elems(qs) /\ e \in Nat /\ Once(qs)
  BY <1>2, <1>4, <1>7 DEF QueueLinks
<1>9. /\ rs \in Seq(Nat) /\ Len(rs) = Len(qs) + 1 /\ rs[Len(qs) + 1] = e
      /\ \A i \in 1 .. Len(qs) : rs[i] = qs[i]
      /\ Once(rs) /\ Elems(rs) = Elems(qs) \cup {e}
  BY <1>8, AppendFacts
<1> HIDE DEF rs
<1>10. Elems(elist)' = Elems(elist) /\ Elems(rs)' = Elems(rs) /\ Once(rs)' = Once(rs)
  BY <1>1 DEF Elems, Once
\* Any other ephemeron in the table with the key shares it.
<1>11. \A i \in U : i \in Elems(elist) /\ i \in T /\ i \in 1 .. Len(to) /\ i # e
  BY <1>1, <1>4, <1>5, <1>7
<1>11a. \A i \in U : KeyOf(i) # obj \/ Shared(i)
  BY <1>1, <1>4, <1>7 DEF Shared
<1>11b. \A i \in U : Shared(i) => Shared(i)'
  BY <1>6, <1>10, <1>11 DEF Shared
<1>12. TableLinks(U)'
  <2>1. \A i \in T : IsTop(to[i].next, {j \in T : BucketOf(j) = BucketOf(i) /\ j < i})
    BY <1>4 DEF TableLinks
  <2>2. \A m \in BucketSet : IsTop(bucket[m], {i \in T : BucketOf(i) = m})
    BY <1>4 DEF TableLinks
  <2>3. \A i \in T : i \in Nat /\ i \in Elems(elist)
    BY <1>4, <1>5
  <2>4. IsTop(to[e].next, {j \in T : BucketOf(j) = Buckets[obj] /\ j < e})
    BY <1>7, <2>1
  <2>5. ASSUME NEW m \in BucketSet PROVE IsTop(bucket'[m], {i \in U : BucketOf(i) = m})
    <3>1. CASE m # Buckets[obj]
      <4>1. bucket'[m] = bucket[m]
        BY <1>1, <1>2, <3>1
      <4>2. {i \in U : BucketOf(i) = m} = {i \in T : BucketOf(i) = m}
        BY <1>7, <3>1
      <4>3. QED
        BY <2>2, <4>1, <4>2
    <3>2. CASE m = Buckets[obj] /\ loc = 0
      <4>1. bucket'[m] = to[e].next
        BY <1>1, <1>2, <3>2
      <4>2. \A i \in T : BucketOf(i) = m => i <= e
        BY <1>7, <3>2
      <4>3. \A i \in T : BucketOf(i) = m /\ i # e => i < e
        BY <1>8, <2>3, <4>2
      <4>4. ~(e < e)
        BY <1>8
      <4>5. {i \in U : BucketOf(i) = m} = {j \in T : BucketOf(j) = m /\ j < e}
        BY <4>3, <4>4
      <4>6. QED
        BY <2>4, <3>2, <4>1, <4>5
    <3>3. CASE m = Buckets[obj] /\ loc # 0
      <4>1. bucket'[m] = bucket[m]
        BY <1>1, <3>3
      <4>2. loc \in T /\ BucketOf(loc) = m /\ e < loc
        BY <1>7, <3>3
      <4>3. bucket[m] \in T /\ BucketOf(bucket[m]) = m /\ \A j \in T : BucketOf(j) = m => j <= bucket[m]
        BY <2>2, <4>2 DEF IsTop
      <4>4. bucket[m] # e
        BY <1>8, <2>3, <4>2, <4>3
      <4>5. QED
        BY <4>1, <4>3, <4>4 DEF IsTop
    <3>4. QED
      BY <3>1, <3>2, <3>3
  <2>6. ASSUME NEW i \in U
        PROVE  IsTop(to'[i].next, {j \in U : BucketOf(j) = BucketOf(i) /\ j < i})
    <3>1. CASE BucketOf(i) # Buckets[obj]
      <4>1. to'[i].next = to[i].next
        BY <1>1, <1>7, <1>11, <3>1
      <4>2. {j \in U : BucketOf(j) = BucketOf(i) /\ j < i} = {j \in T : BucketOf(j) = BucketOf(i) /\ j < i}
        BY <1>7, <3>1
      <4>3. QED
        BY <1>11, <2>1, <4>1, <4>2
    <3>2. CASE BucketOf(i) = Buckets[obj] /\ i = loc
      <4>1. loc # 0 /\ loc # e /\ loc \in T
        BY <1>5, <1>11, <3>2
      <4>2. to'[i].next = to[e].next
        BY <1>1, <3>2, <4>1
      <4>3. /\ e < loc /\ \A j \in T : BucketOf(j) = Buckets[obj] => j <= e \/ j >= loc
        BY <1>7, <4>1
      <4>4. \A j \in T : BucketOf(j) = Buckets[obj] => (j # e /\ j < loc <=> j < e)
        BY <1>8, <2>3, <4>1, <4>3
      <4>5. {j \in U : BucketOf(j) = BucketOf(i) /\ j < i} = {j \in T : BucketOf(j) = Buckets[obj] /\ j < e}
        BY <3>2, <4>4
      <4>6. QED
        BY <2>4, <4>2, <4>5
    <3>3. CASE BucketOf(i) = Buckets[obj] /\ i # loc
      <4>1. to'[i].next = to[i].next /\ i \in Nat /\ i \in T
        BY <1>1, <1>5, <1>11, <3>3
      <4>2. CASE i < e
        <5>1. ~(e < i)
          BY <1>8, <4>1, <4>2
        <5>2. {j \in U : BucketOf(j) = BucketOf(i) /\ j < i} = {j \in T : BucketOf(j) = BucketOf(i) /\ j < i}
          BY <5>1
        <5>3. QED
          BY <2>1, <4>1, <5>2
      <4>3. CASE ~(i < e)
        <5>1. e < i
          BY <1>8, <1>11, <4>1, <4>3
        <5>2. loc \in T /\ BucketOf(loc) = Buckets[obj] /\ e < loc /\ loc < i
          <6>1. ~(i <= e)
            BY <1>8, <4>1, <5>1
          <6>2. loc \in T /\ BucketOf(loc) = Buckets[obj] /\ e < loc /\ i >= loc
            BY <1>7, <3>3, <4>1, <6>1
          <6>3. loc \in Nat
            BY <2>3, <6>2
          <6>4. loc < i
            BY <3>3, <4>1, <6>2, <6>3
          <6>5. QED
            BY <6>2, <6>4
        <5>3. IsTop(to[i].next, {j \in T : BucketOf(j) = BucketOf(i) /\ j < i})
          BY <2>1, <4>1
        <5>4. /\ to[i].next \in T /\ BucketOf(to[i].next) = BucketOf(i) /\ to[i].next < i
              /\ \A j \in T : BucketOf(j) = BucketOf(i) /\ j < i => j <= to[i].next
          BY <3>3, <5>2, <5>3 DEF IsTop
        <5>5. to[i].next # e
          BY <1>8, <2>3, <3>3, <5>2, <5>4
        <5>6. QED
          BY <4>1, <5>4, <5>5 DEF IsTop
      <4>4. QED
        BY <4>2, <4>3
    <3>4. QED
      BY <3>1, <3>2, <3>3
  <2>7. BucketSet' = BucketSet
    BY DEF BucketSet
  <2>8. \A m \in BucketSet : {i \in U : BucketOf(i)' = m} = {i \in U : BucketOf(i) = m}
    BY <1>6, <1>11
  <2>9. \A i \in U : {j \in U : BucketOf(j)' = BucketOf(i)' /\ j < i}
                       = {j \in U : BucketOf(j) = BucketOf(i) /\ j < i}
    BY <1>6, <1>11
  <2>10. \A m \in BucketSet : IsTop(bucket'[m], {i \in U : BucketOf(i)' = m})
    BY <2>5, <2>8
  <2>11. \A i \in U : IsTop(to'[i].next, {j \in U : BucketOf(j)' = BucketOf(i)' /\ j < i})
    BY <2>6, <2>9
  <2>12. U \subseteq Elems(elist)'
    BY <1>10, <1>11
  <2> HIDE DEF U
  <2>13. QED
    BY <2>7, <2>10, <2>11, <2>12 DEF TableLinks, IsTop
<1>13. QueueLinks(rs)'
  <2>1. \A i \in Elems(qs) : to'[i].next = to[i].next
    <3> SUFFICES ASSUME NEW i \in Elems(qs) PROVE to'[i].next = to[i].next
      OBVIOUS
    <3>1. i # e /\ i \in 1 .. Len(to) /\ i # 0
      BY <1>4, <1>5, <1>8
    <3>2. i # loc
      BY <1>4, <1>7, <3>1
    <3>3. QED
      BY <1>1, <3>1, <3>2
  <2>2. Len(qs) \in Nat /\ Len(rs) # 0 /\ queue' = rs[Len(rs)]
    BY <1>1, <1>9
  <2>3. \A j \in 1 .. Len(rs) : to'[rs[j]].next = IF j = 1 THEN 0 ELSE rs[j - 1]
    <3> SUFFICES ASSUME NEW j \in 1 .. Len(rs)
                 PROVE  to'[rs[j]].next = IF j = 1 THEN 0 ELSE rs[j - 1]
      OBVIOUS
    <3>1. CASE j = Len(qs) + 1
      <4>1. rs[j] = e /\ to'[rs[j]].next = queue
        BY <1>1, <1>9, <3>1
      <4>2. queue = IF Len(qs) = 0 THEN 0 ELSE qs[Len(qs)]
        BY <1>4 DEF QueueLinks
      <4>3. j - 1 = Len(qs) /\ (j = 1 <=> Len(qs) = 0)
        BY <2>2, <3>1
      <4>4. Len(qs) # 0 => rs[Len(qs)] = qs[Len(qs)]
        BY <1>9, <2>2
      <4>5. QED
        BY <4>1, <4>2, <4>3, <4>4
    <3>2. CASE j # Len(qs) + 1
      <4>1. j \in 1 .. Len(qs) /\ rs[j] = qs[j] /\ (j # 1 => rs[j - 1] = qs[j - 1])
        <5>1. j \in 1 .. Len(qs) /\ (j # 1 => j - 1 \in 1 .. Len(qs))
          BY <1>9, <2>2, <3>2
        <5>2. QED
          BY <1>9, <5>1
      <4>2. qs[j] \in Elems(qs)
        BY <4>1 DEF Elems
      <4>3. to[qs[j]].next = IF j = 1 THEN 0 ELSE qs[j - 1]
        BY <1>4, <4>1 DEF QueueLinks
      <4>4. QED
        BY <2>1, <4>1, <4>2, <4>3
    <3>3. QED
      BY <3>1, <3>2
  <2>4. \A i \in Elems(rs) : /\ i \in Elems(elist)
                             /\ \/ fwd[KeyOf(i)] # 0
                                \/ KeyOf(i) = obj
    <3>1. \A i \in Elems(qs) : i \in Elems(elist) /\ (fwd[KeyOf(i)] # 0 \/ KeyOf(i) = obj)
      BY <1>4 DEF QueueLinks
    <3>2. QED
      BY <1>1, <1>4, <1>7, <1>9, <3>1
  <2>5. QED
    BY <1>1, <1>6, <1>9, <1>10, <2>2, <2>3, <2>4 DEF QueueLinks
<1>14. NoneForgotten(U, rs)'
  BY <1>1, <1>4, <1>5, <1>9, <1>10 DEF NoneForgotten
<1>15. TableKeysDead(U)'
  <2>1. \A i \in U : fwd[KeyOf(i)] # 0 =>
          \/ phase \in {"roots", "scan"} \/ Shared(i)
          \/ phase = "list" /\ \E j \in index .. Len(elist) : elist[j] = i
    BY <1>4, <1>11, <1>11a DEF TableKeysDead
  <2>2. QED
    BY <1>1, <1>6, <1>11, <1>11b, <2>1 DEF TableKeysDead
<1>16. WalkOK(U, rs)'
  <2>1. loc' \in Elems(rs)
    BY <1>1, <1>9
  <2>2. \A i \in U : KeyOf(i)' # obj' \/ Shared(i)'
    BY <1>1, <1>6, <1>11, <1>11a, <1>11b
  <2>3. QED
    BY <1>10, <2>1, <2>2 DEF WalkOK
<1>17. U \in SUBSET Nat /\ U \cap Elems(rs) = {}
  BY <1>4, <1>9
<1> HIDE DEF U
<1>18. QED
  BY <1>9, <1>12, <1>13, <1>14, <1>15, <1>16, <1>17, TableMade

\* An element of a sequence goes to its end.
LEMMA MoveFacts ==
  ASSUME NEW s \in Seq(Nat), NEW k \in 1 .. Len(s) - 1, Once(s)
  PROVE  \E t \in Seq(Nat) : /\ Len(t) = Len(s) /\ t[Len(s)] = s[k]
                             /\ \A i \in 1 .. k - 1 : t[i] = s[i]
                             /\ \A i \in k .. Len(s) - 1 : t[i] = s[i + 1]
                             /\ Once(t) /\ Elems(t) = Elems(s)
<1>1. PICK n \in Nat : n = Len(s)
  OBVIOUS
<1>2. k \in 1 .. n /\ k < n /\ DOMAIN s = 1 .. n /\ \A i \in 1 .. n : s[i] \in Nat
  BY <1>1
<1> DEFINE from(i) == IF i < k THEN i ELSE IF i < n THEN i + 1 ELSE k
           t == [i \in 1 .. n |-> s[from(i)]]
<1>3. /\ \A i \in 1 .. n : from(i) \in 1 .. n
      /\ \A i, j \in 1 .. n : from(i) = from(j) => i = j
      /\ \A j \in 1 .. n : \E i \in 1 .. n : from(i) = j
  <2>1. \A i \in 1 .. n : from(i) \in 1 .. n
    BY <1>2
  <2>2. \A i, j \in 1 .. n : from(i) = from(j) => i = j
    BY <1>2
  <2>3. ASSUME NEW j \in 1 .. n PROVE \E i \in 1 .. n : from(i) = j
    <3>1. CASE j < k
      BY <1>2, <3>1
    <3>2. CASE j = k
      <4>1. n \in 1 .. n /\ from(n) = j
        BY <1>2, <3>2
      <4>2. QED
        BY <4>1
    <3>3. CASE j > k
      <4>1. j - 1 \in 1 .. n /\ from(j - 1) = j
        BY <1>2, <3>3
      <4>2. QED
        BY <4>1
    <3>4. QED
      BY <1>2, <3>1, <3>2, <3>3
  <2>4. QED
    BY <2>1, <2>2, <2>3
<1>4. /\ t[n] = s[k]
      /\ \A i \in 1 .. k - 1 : t[i] = s[i]
      /\ \A i \in k .. n - 1 : t[i] = s[i + 1]
  BY <1>2
<1> HIDE DEF from
<1>5. t \in Seq(Nat) /\ Len(t) = n /\ DOMAIN t = 1 .. n /\ \A i \in 1 .. n : t[i] = s[from(i)]
  <2>1. \A i \in 1 .. n : s[from(i)] \in Nat
    BY <1>2, <1>3
  <2>2. t \in [1 .. n -> Nat]
    BY <2>1
  <2>3. QED
    BY <2>2
<1> HIDE DEF t
<1>6. Once(t)
  <2>1. SUFFICES ASSUME NEW i \in 1 .. n, NEW j \in 1 .. n, t[i] = t[j] PROVE i = j
    BY <1>5 DEF Once
  <2>2. s[from(i)] = s[from(j)] /\ from(i) \in 1 .. n /\ from(j) \in 1 .. n
    BY <1>3, <1>5, <2>1
  <2>3. from(i) = from(j)
    BY <1>2, <2>2 DEF Once
  <2>4. QED
    BY <1>3, <2>3
<1>7. ASSUME NEW x PROVE x \in Elems(t) <=> x \in Elems(s)
  <2>1. x \in Elems(t) <=> \E i \in 1 .. n : s[from(i)] = x
    BY <1>5, ElemsMeaning
  <2>2. x \in Elems(s) <=> \E j \in 1 .. n : s[j] = x
    BY <1>2, ElemsMeaning
  <2>3. QED
    BY <1>3, <2>1, <2>2
<1>8. Elems(t) = Elems(s)
  BY <1>7
<1>9. QED
  BY <1>1, <1>4, <1>5, <1>6, <1>8

\* The walk meets another ephemeron of the key in the queue, and moves it to the head.
LEMMA QueueRelinks ==
  ASSUME IInv, Relinks(entry), NEW T \in SUBSET Nat, NEW qs \in Seq(Nat), Table(T, qs),
         NEW k \in 1 .. Len(qs) - 1, qs[k] = entry, qs[k + 1] = loc,
         \A i \in T : KeyOf(i) # obj \/ Shared(i)
  PROVE  TableOK'
<1>0. PICK e, n \in Nat : e = entry /\ n = Len(qs)
  <2>1. entry \in Nat /\ Len(qs) \in Nat
    BY DEF Relinks
  <2>2. QED
    BY <2>1
<1>1. /\ e \in 1 .. Len(to) /\ KeyOf(e) = obj /\ step = "walk" /\ step' = "walk"
      /\ \A i \in 1 .. Len(to) : /\ to'[i].a = to[i].a /\ to'[i].b = to[i].b
                                 /\ i # e /\ i # loc => to'[i].next = to[i].next
      /\ to'[e].next = queue
      /\ loc # 0 => /\ loc # e => to'[loc].next = to[e].next
                    /\ bucket' = bucket
      /\ queue' = e /\ loc' = e
      /\ UNCHANGED <<fwd, elist, phase, index, obj>>
  BY <1>0 DEF Relinks
<1>2. /\ T \cap Elems(qs) = {} /\ TableLinks(T) /\ QueueLinks(qs) /\ NoneForgotten(T, qs)
      /\ TableKeysDead(T) /\ T \subseteq Elems(elist) /\ Elems(qs) \subseteq Elems(elist)
  BY DEF Table, TableLinks, QueueLinks
<1>3. \A i \in Elems(elist) : i \in 1 .. Len(to) /\ i # 0
  BY KeyFacts
<1>4. /\ k \in 1 .. n /\ k + 1 \in 1 .. n /\ k < n /\ n # 0 /\ Once(qs) /\ DOMAIN qs = 1 .. n
      /\ queue = qs[n]
      /\ \A j \in 1 .. n : to[qs[j]].next = IF j = 1 THEN 0 ELSE qs[j - 1]
      /\ qs[k] = e /\ qs[k + 1] = loc
  BY <1>0, <1>2 DEF QueueLinks
<1>5. \A j \in 1 .. n : qs[j] \in Elems(qs) /\ qs[j] \in Elems(elist) /\ qs[j] # 0
                        /\ qs[j] \in 1 .. Len(to)
  BY <1>2, <1>3, <1>4 DEF Elems
<1>6. loc # 0 /\ loc # e /\ loc \in Elems(qs) /\ e \in Elems(qs)
  BY <1>4, <1>5 DEF Once
<1>7. PICK rs \in Seq(Nat) : /\ Len(rs) = n /\ rs[n] = e
                             /\ \A i \in 1 .. k - 1 : rs[i] = qs[i]
                             /\ \A i \in k .. n - 1 : rs[i] = qs[i + 1]
                             /\ Once(rs) /\ Elems(rs) = Elems(qs)
  <2>1. \E rs \in Seq(Nat) : /\ Len(rs) = Len(qs) /\ rs[Len(qs)] = qs[k]
                             /\ \A i \in 1 .. k - 1 : rs[i] = qs[i]
                             /\ \A i \in k .. Len(qs) - 1 : rs[i] = qs[i + 1]
                             /\ Once(rs) /\ Elems(rs) = Elems(qs)
    BY <1>4, MoveFacts, Zenon
  <2>2. QED
    BY <1>0, <1>4, <2>1
<1>8. \A j \in 1 .. n : qs[j] # e /\ qs[j] # loc => to'[qs[j]].next = to[qs[j]].next
  BY <1>1, <1>5
<1>9. \A j \in 1 .. n : j # k => qs[j] # e
  BY <1>4 DEF Once
<1>10. \A j \in 1 .. n : j # k + 1 => qs[j] # loc
  BY <1>4 DEF Once
<1>11. /\ Elems(elist)' = Elems(elist) /\ Elems(rs)' = Elems(rs) /\ Once(rs)' = Once(rs)
       /\ \A i \in Elems(elist) : KeyOf(i)' = KeyOf(i)
  BY <1>1, <1>3 DEF Elems, Once, KeyOf
<1>12. \A i \in Elems(elist) : Shared(i) => Shared(i)'
  BY <1>11 DEF Shared
<1>13. TableLinks(T)'
  <2>1. \A i \in T : to'[i].a = to[i].a /\ to'[i].next = to[i].next
    BY <1>1, <1>2, <1>3, <1>6
  <2>2. \A i \in T : BucketOf(i)' = BucketOf(i)
    BY <2>1 DEF BucketOf, KeyOf
  <2>3. \A m \in BucketSet : {i \in T : BucketOf(i)' = m} = {i \in T : BucketOf(i) = m}
    BY <2>2
  <2>4. \A i \in T : {j \in T : BucketOf(j)' = BucketOf(i)' /\ j < i}
                       = {j \in T : BucketOf(j) = BucketOf(i) /\ j < i}
    BY <2>2
  <2>5. bucket' = bucket /\ BucketSet' = BucketSet
    BY <1>1, <1>6 DEF BucketSet
  <2>6. \A m \in BucketSet : IsTop(bucket'[m], {i \in T : BucketOf(i)' = m})
    BY <1>2, <2>3, <2>5 DEF TableLinks
  <2>7. \A i \in T : IsTop(to'[i].next, {j \in T : BucketOf(j)' = BucketOf(i)' /\ j < i})
    BY <1>2, <2>1, <2>4 DEF TableLinks
  <2>8. QED
    BY <1>2, <1>11, <2>5, <2>6, <2>7 DEF TableLinks, IsTop
<1>14. QueueLinks(rs)'
  <2>1. ASSUME NEW j \in 1 .. n PROVE to'[rs[j]].next = IF j = 1 THEN 0 ELSE rs[j - 1]
    <3>1. CASE j < k
      <4>1. j \in 1 .. k - 1 /\ j # k /\ j # k + 1 /\ (j # 1 => j - 1 \in 1 .. k - 1)
        BY <1>4, <3>1
      <4>2. rs[j] = qs[j] /\ (j # 1 => rs[j - 1] = qs[j - 1])
        BY <1>7, <4>1
      <4>3. to'[qs[j]].next = to[qs[j]].next
        BY <1>8, <1>9, <1>10, <4>1
      <4>4. QED
        BY <1>4, <4>2, <4>3
    <3>2. CASE j = k
      <4>1. rs[j] = loc /\ (k # 1 => rs[k - 1] = qs[k - 1])
        <5>1. k \in k .. n - 1 /\ (k # 1 => k - 1 \in 1 .. k - 1)
          BY <1>4
        <5>2. QED
          BY <1>4, <1>7, <3>2, <5>1
      <4>2. to'[loc].next = to[e].next
        BY <1>1, <1>6
      <4>3. to[e].next = IF k = 1 THEN 0 ELSE qs[k - 1]
        BY <1>4
      <4>4. QED
        BY <3>2, <4>1, <4>2, <4>3
    <3>3. CASE j > k /\ j < n
      <4> DEFINE l == j + 1
      <4>1. l \in 1 .. n /\ l # 1 /\ l # k /\ l # k + 1 /\ l - 1 = j /\ j # 1
            /\ j \in k .. n - 1 /\ j - 1 \in k .. n - 1 /\ (j - 1) + 1 = j
        BY <1>4, <3>3
      <4>2. rs[j] = qs[l] /\ rs[j - 1] = qs[j]
        BY <1>7, <4>1
      <4> HIDE DEF l
      <4>3. to'[qs[l]].next = to[qs[l]].next
        BY <1>8, <1>9, <1>10, <4>1
      <4>4. to[qs[l]].next = qs[j]
        BY <1>4, <4>1
      <4>5. QED
        BY <4>1, <4>2, <4>3, <4>4
    <3>4. CASE j = n
      <4>1. rs[j] = e /\ to'[e].next = qs[n] /\ j # 1
        BY <1>1, <1>4, <1>7, <3>4
      <4>2. n - 1 \in k .. n - 1 /\ (n - 1) + 1 = n
        BY <1>4
      <4>3. rs[n - 1] = qs[n]
        BY <1>7, <4>2
      <4>4. QED
        BY <3>4, <4>1, <4>3
    <3>5. QED
      BY <1>4, <3>1, <3>2, <3>3, <3>4
  <2>2. \A i \in Elems(rs) : i \in Elems(elist) /\ (fwd[KeyOf(i)] # 0 \/ KeyOf(i) = obj)
    BY <1>2, <1>7 DEF QueueLinks
  <2>3. QED
    BY <1>1, <1>4, <1>7, <1>11, <2>1, <2>2 DEF QueueLinks
<1>15. NoneForgotten(T, rs)'
  BY <1>1, <1>2, <1>3, <1>7, <1>11 DEF NoneForgotten
<1>16. TableKeysDead(T)'
  <2>1. \A i \in T : fwd[KeyOf(i)] # 0 =>
          \/ phase \in {"roots", "scan"} \/ Shared(i)
          \/ phase = "list" /\ \E j \in index .. Len(elist) : elist[j] = i
    BY <1>2 DEF TableKeysDead
  <2>2. QED
    BY <1>1, <1>2, <1>11, <1>12, <2>1 DEF TableKeysDead
<1>17. WalkOK(T, rs)'
  <2>1. loc' \in Elems(rs)
    BY <1>1, <1>6, <1>7
  <2>2. \A i \in T : KeyOf(i)' # obj' \/ Shared(i)'
    BY <1>1, <1>2, <1>11, <1>12
  <2>3. QED
    BY <1>11, <2>1, <2>2 DEF WalkOK
<1>18. T \cap Elems(rs) = {}
  BY <1>2, <1>7
<1>19. QED
  BY <1>13, <1>14, <1>15, <1>16, <1>17, <1>18, TableMade

LEMMA TableRelinks ==
  ASSUME IInv, Relinks(entry)
  PROVE  TableOK'
<1>1. step = "walk" /\ entry # 0 /\ ~Late
  BY DEF Relinks, IInv, CallOK, Scanning, Late
<1>2. PICK T \in SUBSET Nat, qs \in Seq(Nat) : Table(T, qs)
  BY <1>1 DEF IInv, TableOK
<1>3. QED
  BY <1>1, <1>2, WalkAtEntry, BucketRelinks, QueueRelinks

LEMMA TableOKStep ==
  ASSUME IInv, Next
  PROVE  TableOK'
<1>1. CASE Late'
  BY <1>1 DEF TableOK
<1>2. CASE ~Late'
  <2>1. ~Late
    BY <1>2, FwdGrows
  <2>2. ~Settles(Head(elist)) /\ ~Uncovers(Head(weak_chain))
    BY <2>1 DEF Settles, Uncovers, Late
  <2>3. CASE Quiet
    BY <1>2, <2>3, TableQuiet, TableDatum
  <2>4. CASE Returning
    BY <2>1, <2>4, TableReturns
  <2>5. CASE Transporting
    BY <2>5, TransportCases, TableCopies
  <2>6. CASE WalkQueue
    BY <2>6, WalkRelinks, TableRelinks
  <2>7. QED
    BY <2>2, <2>3, <2>4, <2>5, <2>6, StepKinds, EphemeronSettles, WeakPairUncovers
<1>3. QED
  BY <1>1, <1>2

-----------------------------------------------------------------------------
(* The invariant. *)

LEMMA InitInvariant ==
  ASSUME Init
  PROVE  IInv
<1>1. /\ mem \in Heaps /\ roots \in RootLists /\ newRoots = roots /\ fwd = [o \in Obj |-> 0]
      /\ to = <<>> /\ weak_chain = <<>> /\ elist = <<>> /\ bucket = [n \in BucketSet |-> 0]
      /\ queue = 0 /\ phase = "roots" /\ index = 1 /\ scan = [i |-> 1, f |-> "a"]
      /\ step = "next" /\ loc = 0
  BY DEF Init, BucketSet
<1>2. Len(to) = 0 /\ to \in Seq(Copy) /\ elist \in Seq(Nat) /\ weak_chain \in Seq(Nat)
      /\ DOMAIN to = {}
  BY <1>1
<1>3. Elems(elist) = {} /\ Elems(weak_chain) = {} /\ Once(elist) /\ Once(weak_chain)
      /\ Elems(<<>>) = {} /\ Once(<<>>) /\ <<>> \in Seq(Nat)
  BY <1>1 DEF Elems, Once
<1>4. ~Late
  BY <1>1 DEF Late
<1>5. roots \in Seq(AnyWord) /\ Len(roots) \in Nat
  <2>1. roots \in Seq(Value)
    BY <1>1, HeapAssumption
  <2>2. Value \subseteq AnyWord
    BY WordFacts
  <2>3. QED
    BY <2>1, <2>2
<1>6. Types
  BY <1>1, <1>2, <1>5 DEF Types, Phases, Steps, FieldNames
<1>7. Placement /\ Lists /\ Links /\ WaitsInOrder
  BY <1>1, <1>2, <1>3 DEF Placement, Lists, Links, WaitsInOrder
<1>8. Content /\ Direct /\ LiveOK
  BY <1>1 DEF Content, Direct, LiveOK
<1>9. RootsOK
  BY <1>1 DEF RootsOK, Follows, FollowsBy
<1>10. ScanOK /\ CleanOK /\ CallOK /\ LateOK
  BY <1>1, <1>2, <1>4 DEF ScanOK, CleanOK, CallOK, LateOK, Late
<1>11. Table({}, <<>>)
  <2>1. TableLinks({})
    BY <1>1 DEF TableLinks, IsTop
  <2>2. QueueLinks(<<>>)
    BY <1>1, <1>3 DEF QueueLinks
  <2>3. NoneForgotten({}, <<>>) /\ TableKeysDead({}) /\ WalkOK({}, <<>>)
    BY <1>1, <1>3 DEF NoneForgotten, TableKeysDead, WalkOK
  <2>4. QED
    BY <2>1, <2>2, <2>3 DEF Table
<1>12. TableOK
  BY <1>3, <1>11 DEF TableOK
<1>13. QED
  BY <1>6, <1>7, <1>8, <1>9, <1>10, <1>12 DEF IInv

LEMMA StutterInvariant ==
  ASSUME IInv, UNCHANGED vars
  PROVE  IInv'
<1>1. UNCHANGED <<mem, roots, newRoots, fwd, to, weak_chain, elist, bucket, queue, phase,
                  index, scan, step, obj, loc>>
  BY DEF vars
<1> USE DEF IInv
<1>2. Types' /\ Placement' /\ Lists' /\ Links' /\ WaitsInOrder'
  BY <1>1 DEF Types, Placement, Lists, Links, WaitsInOrder, KeyOf, Elems, Once
<1>3. Content' /\ Direct'
  BY <1>1 DEF Content, Direct, Waiting, HidesCar, Plain, Broken, Late, Follows, Elems
<1>3a. \A i : InCrowd(i)' = InCrowd(i)
  BY <1>1 DEF InCrowd, Crowd, WaitedFor
<1>4. RootsOK' /\ ScanOK' /\ CleanOK'
  BY <1>1, <1>3a DEF RootsOK, Follows, ScanOK, CleanOK, Late
<1>5. Live' = Live
  BY <1>1 DEF Live, RootsIn, Closed, ClosedBut, Points
<1>6. CallOK' /\ LiveOK'
  BY <1>1, <1>5 DEF CallOK, LiveOK, AtWord, Word, Late, Scanning, KeyOf, Elems
<1>7. LateOK'
  BY <1>1, <1>3a DEF LateOK, Late, KeyOf, Elems
<1>8. TableOK'
  <2>1. CASE Late
    BY <1>1, <2>1 DEF TableOK, Late
  <2>2. CASE ~Late
    <3>1. PICK T \in SUBSET Nat, qs \in Seq(Nat) : Table(T, qs)
      BY <2>2 DEF TableOK
    <3>2. /\ T \cap Elems(qs) = {} /\ TableLinks(T) /\ QueueLinks(qs) /\ NoneForgotten(T, qs)
          /\ TableKeysDead(T) /\ WalkOK(T, qs)
      BY <3>1 DEF Table
    <3>3. /\ Elems(elist)' = Elems(elist) /\ Elems(qs)' = Elems(qs)
          /\ \A i : KeyOf(i)' = KeyOf(i) /\ BucketOf(i)' = BucketOf(i)
      BY <1>1 DEF Elems, KeyOf, BucketOf
    <3>4. TableLinks(T)'
      BY <1>1, <3>2, <3>3, TableLinksStay
    <3>5. QueueLinks(qs)'
      <4>1. \A i \in Elems(qs) : \/ fwd'[KeyOf(i)] # 0
                                 \/ step' \in {"walk", "transport"} /\ KeyOf(i) = obj'
        BY <1>1, <3>2 DEF QueueLinks
      <4>2. QED
        BY <1>1, <3>2, <3>3, <4>1, QueueLinksStay
    <3>6. NoneForgotten(T, qs)' /\ TableKeysDead(T)' /\ WalkOK(T, qs)'
      BY <1>1, <3>2, <3>3 DEF NoneForgotten, TableKeysDead, WalkOK, Scanning, Shared
    <3>7. QED
      BY <3>2, <3>4, <3>5, <3>6, TableMade
  <2>3. QED
    BY <2>1, <2>2
<1>9. QED
  BY <1>2, <1>3, <1>4, <1>6, <1>7, <1>8

LEMMA StepInvariant ==
  ASSUME IInv, [Next]_vars
  PROVE  IInv'
<1>1. CASE UNCHANGED vars
  BY <1>1, StutterInvariant
<1>2. CASE Next
  <2>1. WaitsInOrder'
    BY <1>2, OrderStep
  <2>2. Types' /\ Placement' /\ Lists' /\ Links'
    BY <1>2, TypesStep, PlacementStep, ListsStep, LinksStep
  <2>3. Content' /\ Direct' /\ RootsOK' /\ ScanOK' /\ CleanOK'
    BY <1>2, ContentStep, DirectStep, RootsOKStep, ScanOKStep, CleanStep
  <2>4. CallOK' /\ LiveOK' /\ TableOK' /\ LateOK'
    BY <1>2, CallOKStep, LiveOKStep, TableOKStep, LateOKStep
  <2>5. QED
    BY <2>1, <2>2, <2>3, <2>4 DEF IInv
<1>3. QED
  BY <1>1, <1>2

\* Every state of a collection satisfies the invariant.
LEMMA Invariant == Spec => []IInv
<1>1. Init => IInv
  BY InitInvariant
<1>2. IInv /\ [Next]_vars => IInv'
  BY StepInvariant
<1>3. QED
  BY <1>1, <1>2, PTL DEF Spec

-----------------------------------------------------------------------------
(* What the invariant says. *)

LEMMA FollowsWord ==
  ASSUME IInv, NEW w, NEW v \in Value, Follows(w, v)
  PROVE  w \in Words
<1>1. IsOld(v) => v[2] \in Obj
  BY WordFacts
<1>2. IsOld(v) /\ fwd[v[2]] # 0 => fwd[v[2]] \in 1 .. Len(to)
  BY <1>1 DEF IInv, Types, Placement
<1>3. QED
  BY <1>2 DEF Follows, FollowsBy, Words

LEMMA CopyWords ==
  ASSUME IInv, NEW i \in 1 .. Len(to)
  PROVE  to[i] \in [a : Words, b : Words, manifest : {"marked", "unmarked"}, next : 0 .. Len(to)]
<1>1. to[i] \in Copy /\ Len(to) \in Nat
  BY DEF IInv, Types
<1>2. PICK o \in Obj : fwd[o] = i
  BY DEF IInv, Placement
<1>3. mem.a[o] \in Value /\ mem.b[o] \in Value /\ Null \in Words /\ Value \subseteq Words
  BY HeapFacts, WordFacts DEF IInv, Words
<1>4. Waiting(o) \/ HidesCar(o) \/ Plain(o)
  BY <1>2 DEF IInv, Content
<1>5. to[i].b \in Words
  <2>1. to[i].b = Null \/ Follows(to[i].b, mem.b[o])
    BY <1>2, <1>4 DEF Waiting, HidesCar, Plain
  <2>2. QED
    BY <1>3, <2>1, FollowsWord
<1>6. to[i].a \in Words
  <2>1. \/ to[i].a \in {Null, mem.a[o]} \/ Follows(to[i].a, mem.a[o])
        \/ IsOld(mem.a[o]) /\ to[i].a = Hidden(mem.a[o][2])
    BY <1>2, <1>4 DEF Waiting, HidesCar, Plain
  <2>2. ASSUME IsOld(mem.a[o]) PROVE Hidden(mem.a[o][2]) \in Words
    <3>1. mem.a[o][2] \in Obj
      BY <1>3, <2>2, WordFacts
    <3>2. QED
      BY <3>1 DEF Words
  <2>3. QED
    BY <1>3, <2>1, <2>2, FollowsWord
<1>7. to[i].next \in 0 .. Len(to)
  BY <1>1 DEF Copy, IInv, Links
<1>8. QED
  BY <1>1, <1>5, <1>6, <1>7 DEF Copy

LEMMA InvariantTypes ==
  ASSUME IInv
  PROVE  TypeOK
<1>1. fwd \in [Obj -> 0 .. Len(to)]
  <2>1. fwd \in [Obj -> Nat] /\ Len(to) \in Nat /\ \A o \in Obj : fwd[o] <= Len(to)
    BY DEF IInv, Types, Placement
  <2>2. QED
    BY <2>1
<1>2. to \in Seq([a : Words, b : Words, manifest : {"marked", "unmarked"}, next : 0 .. Len(to)])
  <2> DEFINE R == [a : Words, b : Words, manifest : {"marked", "unmarked"}, next : 0 .. Len(to)]
  <2>1. \A i \in 1 .. Len(to) : to[i] \in R
    BY CopyWords
  <2>2. to \in Seq(Copy)
    BY DEF IInv, Types
  <2> HIDE DEF R
  <2>3. to \in Seq(R)
    BY <2>1, <2>2
  <2>4. QED
    BY <2>3 DEF R
<1>3. newRoots \in Seq(Words)
  <2>1. newRoots \in Seq(AnyWord) /\ Len(newRoots) = Len(roots) /\ roots \in Seq(Value)
    BY HeapFacts DEF IInv, Types
  <2>2. \A j \in 1 .. Len(roots) : newRoots[j] \in Words
    <3> SUFFICES ASSUME NEW j \in 1 .. Len(roots) PROVE newRoots[j] \in Words
      OBVIOUS
    <3>1. roots[j] \in Value /\ Follows(newRoots[j], roots[j])
      BY <2>1 DEF IInv, RootsOK
    <3>2. QED
      BY <3>1, FollowsWord
  <2>3. QED
    BY <2>1, <2>2
<1>4. queue \in 0 .. Len(to) /\ loc \in 0 .. Len(to)
  BY DEF IInv, Types, Links
<1>5. \A n \in DOMAIN bucket : bucket[n] \in 0 .. Len(to)
  BY DEF IInv, Types, Links
<1>6. QED
  BY <1>1, <1>2, <1>3, <1>4, <1>5 DEF TypeOK

\* Every ephemeron of the queue is reached from its head.
LEMMA QueueReached ==
  ASSUME IInv, NEW qs, QueueLinks(qs), NEW S, queue \in S, \A j \in S : to[j].next \in S \cup {0}
  PROVE  Elems(qs) \subseteq S
<1>1. /\ qs \in Seq(Nat) /\ Len(qs) \in Nat
      /\ queue = IF Len(qs) = 0 THEN 0 ELSE qs[Len(qs)]
      /\ \A j \in 1 .. Len(qs) : to[qs[j]].next = IF j = 1 THEN 0 ELSE qs[j - 1]
  BY DEF QueueLinks
<1>2. \A j \in 1 .. Len(qs) : qs[j] # 0
  <2> SUFFICES ASSUME NEW j \in 1 .. Len(qs) PROVE qs[j] # 0
    OBVIOUS
  <2>1. qs[j] \in Elems(elist)
    <3>1. qs[j] \in Elems(qs)
      BY <1>1 DEF Elems
    <3>2. QED
      BY <3>1 DEF QueueLinks
  <2>2. QED
    BY <2>1, KeyFacts
<1> DEFINE M == {k \in Nat : k < Len(qs) /\ qs[Len(qs) - k] \notin S}
           R == OpToRel(<, Nat)
<1>3. ASSUME M # {} PROVE FALSE
  <2>1. IsWellFoundedOn(R, Nat)
    BY NatLessThanWellFounded
  <2>2. M \subseteq Nat
    OBVIOUS
  <2>3. PICK k \in M : \A y \in M : ~(<<y, k>> \in R)
    <3> HIDE DEF M, R
    <3>1. QED
      BY <1>3, <2>1, <2>2, WFMin
  <2>4. \A y \in M : ~(y < k)
    BY <2>3 DEF OpToRel
  <2>5. k \in Nat /\ k < Len(qs) /\ qs[Len(qs) - k] \notin S
    OBVIOUS
  <2>6. k # 0
    <3>1. Len(qs) # 0 /\ queue = qs[Len(qs)]
      BY <1>1, <2>5
    <3>2. ASSUME k = 0 PROVE FALSE
      <4>1. Len(qs) - k = Len(qs)
        BY <1>1, <3>2
      <4>2. QED
        BY <2>5, <3>1, <4>1
    <3>3. QED
      BY <3>2
  <2>7. k - 1 \in Nat /\ k - 1 < Len(qs) /\ k - 1 < k
    BY <1>1, <2>5, <2>6
  <2>8. qs[Len(qs) - (k - 1)] \in S
    BY <2>4, <2>7
  <2> DEFINE j == Len(qs) - (k - 1)
  <2>9. j \in 1 .. Len(qs) /\ j # 1 /\ j - 1 = Len(qs) - k /\ j - 1 \in 1 .. Len(qs)
    BY <1>1, <2>5, <2>6
  <2> HIDE DEF j
  <2>10. to[qs[j]].next = qs[j - 1] /\ qs[j] \in S
    BY <1>1, <2>8, <2>9 DEF j
  <2>11. qs[j - 1] \in S
    BY <1>2, <2>9, <2>10
  <2>12. QED
    BY <2>5, <2>9, <2>11
<1>4. ASSUME NEW x \in Elems(qs) PROVE x \in S
  <2>1. PICK j \in 1 .. Len(qs) : qs[j] = x
    BY <1>1 DEF Elems
  <2>2. Len(qs) - j \in Nat /\ Len(qs) - j < Len(qs) /\ Len(qs) - (Len(qs) - j) = j
    BY <1>1
  <2>3. Len(qs) - j \notin M
    BY <1>3
  <2>4. QED
    BY <2>1, <2>2, <2>3
<1>5. QED
  BY <1>4

LEMMA InvariantQueued ==
  ASSUME IInv
  PROVE  LiveKeysQueued
<1> SUFFICES ASSUME phase \in {"queue", "datum", "rescan"}, NEW i \in DOMAIN to,
                    to[i].manifest = "unmarked", fwd[KeyOf(i)] # 0, IsOld(to[i].b),
                    ~(phase = "datum" /\ i = index)
             PROVE  i \in Queued \/ InCrowd(i)
  BY DEF LiveKeysQueued
<1>1. PICK T \in SUBSET Nat, qs \in Seq(Nat) : Table(T, qs)
  BY DEF IInv, TableOK, Late
<1>2. i \in 1 .. Len(to)
  BY DEF IInv, Types
<1>3. i \in Elems(elist)
  <2>1. PICK o \in Obj : fwd[o] = i
    BY <1>2 DEF IInv, Placement
  <2>2. QED
    BY <1>2, <2>1 DEF IInv, Content, HidesCar, Plain
<1>4. i \in T => InCrowd(i)
  BY <1>1, <1>3, SharedInCrowd DEF Table, TableKeysDead
<1>5. i \notin T => i \in Elems(qs) /\ QueueLinks(qs)
  BY <1>1, <1>3 DEF Table, NoneForgotten
<1>6. i \notin T => i \in Queued
  BY <1>5, QueueReached DEF Queued
<1>7. QED
  BY <1>4, <1>6

LEMMA InvariantClean ==
  ASSUME IInv
  PROVE  ScannedIsClean
<1>1. DOMAIN to = 1 .. Len(to)
  BY DEF IInv, Types
<1>2. QED
  BY <1>1 DEF IInv, CleanOK, ScannedIsClean

\* At the end every copy is settled and points to copies only.
LEMMA DoneFacts ==
  ASSUME IInv, phase = "done", NEW o \in Obj, fwd[o] # 0
  PROVE  /\ Plain(o) /\ fwd[o] \in 1 .. Len(to)
         /\ ~IsOld(to[fwd[o]].a)
         /\ ~IsOld(to[fwd[o]].b) \/ (o \in Crowd /\ to[fwd[o]].b = mem.b[o])
         /\ mem.a[o] \in Value /\ mem.b[o] \in Value
<1>1. elist = <<>> /\ weak_chain = <<>> /\ Late
  BY DEF IInv, LateOK, Late
<1>2. Elems(elist) = {} /\ Elems(weak_chain) = {}
  BY <1>1 DEF Elems
<1>3. Plain(o)
  BY <1>2 DEF IInv, Content
<1>4. fwd[o] \in 1 .. Len(to) /\ fwd[o] < scan.i
  BY <1>1 DEF IInv, Placement, Types, ScanOK
<1>5. ~IsOld(to[fwd[o]].a) /\ (~IsOld(to[fwd[o]].b) \/ InCrowd(fwd[o]))
  BY <1>3, <1>4 DEF IInv, CleanOK, Plain
<1>6. InCrowd(fwd[o]) => o \in Crowd
  <2> SUFFICES ASSUME NEW p \in Crowd, fwd[p] = fwd[o] PROVE p = o
    BY DEF InCrowd
  <2>1. QED
    BY DEF IInv, Placement, Crowd
<1>7. IsOld(to[fwd[o]].b) => to[fwd[o]].b = mem.b[o]
  BY <1>3, WordFacts DEF Plain, Follows, FollowsBy
<1>8. QED
  BY <1>3, <1>4, <1>5, <1>6, <1>7, HeapFacts DEF IInv

\* The objects that were copied hold their like, but for the crowd.
LEMMA DoneIsClosed ==
  ASSUME IInv, phase = "done"
  PROVE  /\ Copied \subseteq Live /\ RootsIn(Copied) /\ ClosedBut(Copied, Crowd)
         /\ Crowd = {} => Copied = Live
<1> DEFINE F == Copied
<1>1. RootsIn(F)
  <2> SUFFICES ASSUME NEW i \in DOMAIN roots, IsOld(roots[i]) PROVE roots[i][2] \in F
    BY DEF RootsIn, Points
  <2>1. i \in 1 .. Len(roots) /\ roots[i] \in Value
    BY HeapFacts DEF IInv
  <2>2. Follows(newRoots[i], roots[i]) /\ ~IsOld(newRoots[i])
    BY <2>1 DEF IInv, RootsOK
  <2>3. fwd[roots[i][2]] # 0 /\ roots[i][2] \in Obj
    BY <2>1, <2>2, FollowsNew, WordFacts DEF Follows
  <2>4. QED
    BY <2>3 DEF Copied
<1>2. ClosedBut(F, Crowd)
  <2> SUFFICES ASSUME NEW o \in F
               PROVE  /\ Kind[o] = "pair" => Points(mem.a[o], F) /\ Points(mem.b[o], F)
                      /\ Kind[o] = "weak" => Points(mem.b[o], F)
                      /\ Kind[o] = "ephemeron" /\ Points(mem.a[o], F) /\ o \notin Crowd
                           => Points(mem.b[o], F)
    BY DEF ClosedBut
  <2>1. /\ o \in Obj /\ fwd[o] # 0 /\ Plain(o) /\ ~IsOld(to[fwd[o]].a)
        /\ ~IsOld(to[fwd[o]].b) \/ o \in Crowd
        /\ mem.a[o] \in Value /\ mem.b[o] \in Value
    BY DoneFacts DEF Copied
  <2>2. \A v \in Value : \A w : FollowsBy(fwd, w, v) /\ ~IsOld(w) => Points(v, F)
    BY FollowsNew, WordFacts DEF Points, Copied
  <2>3. Kind[o] = "pair" => Points(mem.a[o], F)
    BY <2>1, <2>2 DEF Plain, Follows
  <2>4. ~Broken(o) /\ o \notin Crowd => Points(mem.b[o], F)
    BY <2>1, <2>2 DEF Plain, Follows
  <2>5. Kind[o] = "ephemeron" /\ Points(mem.a[o], F) => ~Broken(o)
    BY DEF Broken, Points, Copied
  <2>6. Kind[o] \in {"pair", "weak"} => ~Broken(o) /\ o \notin Crowd
    BY DEF Broken, Crowd, WaitedFor
  <2>7. QED
    BY <2>3, <2>4, <2>5, <2>6
<1>3. F \in SUBSET Obj
  BY DEF Copied
<1>4. F \subseteq Live
  BY DEF Copied, IInv, LiveOK
<1> HIDE DEF F
<1>5. Crowd = {} => Live \subseteq F
  BY <1>1, <1>2, <1>3 DEF Live, Closed
<1>6. QED
  BY <1>1, <1>2, <1>4, <1>5 DEF F

LEMMA DoneImage ==
  ASSUME IInv, phase = "done", NEW v \in Value
  PROVE  /\ \A w : Follows(w, v) /\ ~IsOld(w) => w = Image(v)
         /\ IsOld(v) /\ fwd[v[2]] = 0 => Image(v) = Null
  BY FollowsNew DEF Image, Follows

LEMMA DoneCount ==
  ASSUME IInv, phase = "done"
  PROVE  Len(to) = Cardinality(Copied)
<1>1. Copied = {o \in Obj : fwd[o] # 0} /\ fwd \in [Obj -> Nat] /\ Len(to) \in Nat
  BY DEF Copied, IInv, Types
<1> DEFINE N == 1 .. Len(to)
           g == [o \in Copied |-> fwd[o]]
<1>2. /\ \A o \in Copied : fwd[o] \in N
      /\ \A o, p \in Copied : fwd[o] = fwd[p] => o = p
      /\ \A i \in N : \E o \in Copied : fwd[o] = i
  BY <1>1 DEF IInv, Placement
<1>3. g \in [Copied -> N] /\ \A o \in Copied : g[o] = fwd[o]
  BY <1>2
<1> HIDE DEF g
<1>4. g \in Bijection(Copied, N)
  <2>1. \A o, p \in Copied : g[o] = g[p] => o = p
    BY <1>2, <1>3
  <2>2. \A i \in N : \E o \in Copied : g[o] = i
    BY <1>2, <1>3
  <2> HIDE DEF N
  <2>3. QED
    BY <1>3, <2>1, <2>2 DEF Bijection, Injection, Surjection, IsInjective
<1>5. IsFiniteSet(Copied)
  BY HeapAssumption, FS_Subset DEF Copied
<1>6. Cardinality(N) = Cardinality(Copied)
  <2>1. ExistsBijection(Copied, N)
    BY <1>4 DEF ExistsBijection
  <2> HIDE DEF N
  <2>2. QED
    BY <1>5, <2>1, FS_Bijection
<1>7. Cardinality(N) = Len(to)
  <2>1. Cardinality(N) = IF 1 > Len(to) THEN 0 ELSE Len(to) - 1 + 1
    BY <1>1, FS_Interval
  <2>2. QED
    BY <1>1, <2>1
<1>8. QED
  BY <1>6, <1>7

LEMMA InvariantCopy ==
  ASSUME IInv
  PROVE  CopyIsCorrect
<1>1. CopiedWhatIsLive
  BY DoneIsClosed, DoneCount DEF CopiedWhatIsLive, Copied, IInv, Placement
<1>2. ASSUME phase = "done" PROVE newRoots = [i \in DOMAIN roots |-> Image(roots[i])]
  <2>1. /\ newRoots \in Seq(AnyWord) /\ Len(newRoots) = Len(roots) /\ roots \in Seq(Value)
    BY HeapFacts DEF IInv, Types
  <2>2. DOMAIN newRoots = 1 .. Len(roots) /\ DOMAIN roots = 1 .. Len(roots)
    BY <2>1
  <2>3. ASSUME NEW i \in 1 .. Len(roots) PROVE newRoots[i] = Image(roots[i])
    <3>1. roots[i] \in Value /\ Follows(newRoots[i], roots[i]) /\ ~IsOld(newRoots[i])
      BY <1>2, <2>1 DEF IInv, RootsOK
    <3>2. QED
      BY <1>2, <3>1, DoneImage
  <2>4. newRoots = [i \in 1 .. Len(newRoots) |-> newRoots[i]]
    BY <2>1
  <2>5. QED
    BY <2>1, <2>2, <2>3, <2>4
<1>3. ASSUME phase = "done", NEW o \in Copied
      PROVE  LET broken == Kind[o] = "ephemeron" /\ IsOld(mem.a[o]) /\ fwd[mem.a[o][2]] = 0
             IN  /\ to[fwd[o]].a = Image(mem.a[o])
                 /\ \/ to[fwd[o]].b = IF broken THEN Null ELSE Image(mem.b[o])
                    \/ o \in Crowd /\ to[fwd[o]].b = mem.b[o]
  <2>1. o \in Obj /\ fwd[o] # 0
    BY <1>3 DEF Copied
  <2>2. /\ Plain(o) /\ ~IsOld(to[fwd[o]].a)
        /\ ~IsOld(to[fwd[o]].b) \/ (o \in Crowd /\ to[fwd[o]].b = mem.b[o])
        /\ mem.a[o] \in Value /\ mem.b[o] \in Value /\ Late
    BY <1>3, <2>1, DoneFacts DEF Late
  <2>3. to[fwd[o]].a = Image(mem.a[o])
    BY <1>3, <2>2, DoneImage DEF Plain
  <2>4. Broken(o) <=> Kind[o] = "ephemeron" /\ IsOld(mem.a[o]) /\ fwd[mem.a[o][2]] = 0
    BY <2>2 DEF Broken
  <2>5. ~Broken(o) /\ ~IsOld(to[fwd[o]].b) => to[fwd[o]].b = Image(mem.b[o])
    BY <1>3, <2>2, DoneImage DEF Plain
  <2>6. Broken(o) => to[fwd[o]].b = Null
    BY <2>2 DEF Plain
  <2>7. QED
    BY <2>2, <2>3, <2>4, <2>5, <2>6
<1>4. CopyIsFaithful
  BY <1>2, <1>3 DEF CopyIsFaithful
<1>5. QED
  BY <1>1, <1>4 DEF CopyIsCorrect

\* While the collector runs (gc_scan_tospace, scan_ephemerons), for every heap, root
\* list and hash function: the words it has passed point to no object of fromspace,
\* the copies point only to copies, and an ephemeron whose key was found live has had
\* its datum scanned or is on the way in the queue, unless it waited for the key with
\* another one.
THEOREM ScanCorrect == Spec => []ScanInv
<1>1. Spec => []IInv
  BY Invariant
<1>2. IInv => ScanInv
  BY InvariantTypes, InvariantQueued, InvariantClean DEF ScanInv
<1>3. QED
  BY <1>1, <1>2, PTL

\* When a collection ends (std_gc_pt2), only objects the roots hold were copied, once
\* each, and all of them unless ephemerons waited for one key (queue_ephemerons_for_key);
\* every copy and every root points to the copies of what the original pointed to,
\* with #F for the weak references to dead objects and in both fields of an ephemeron
\* whose key is dead.
THEOREM CollectionCorrect == Spec => []CopyIsCorrect
<1>1. Spec => []IInv
  BY Invariant
<1>2. IInv => CopyIsCorrect
  BY InvariantCopy
<1>3. QED
  BY <1>1, <1>2, PTL
=============================================================================
