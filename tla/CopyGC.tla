------------------------------- MODULE CopyGC -------------------------------
(***************************************************************************)
(* One garbage collection: microcode/gcloop.c as std_gc_pt1 and std_gc_pt2 *)
(* of memmag.c run it.                                                     *)
(*                                                                         *)
(* Fromspace is a set of objects, each a pair, a weak pair or an           *)
(* ephemeron with two fields; any other object is scanned like a pair.     *)
(* Tospace is the sequence of the copies.  The collector scans the roots   *)
(* and then the copies themselves, word by word, and transports what it    *)
(* meets; the car of a weak pair is hidden from the scan and the fields of *)
(* an ephemeron are skipped until its key is known to be live.  Three more *)
(* passes (update_weak_pointers) then settle the ephemerons and the weak   *)
(* pairs.                                                                  *)
(*                                                                         *)
(* Every turn of a loop is a step: of the scan, of the walk along a hash   *)
(* bucket in queue_ephemerons_for_key, of the eager transport of the cdrs  *)
(* of a list.                                                              *)
(***************************************************************************)
EXTENDS Integers, Sequences, FiniteSets

CONSTANTS
  Obj,        \* the objects of fromspace
  Kind,       \* object -> "pair", "weak" or "ephemeron"
  Buckets,    \* object -> index in the ephemeron hash table
  Heaps,      \* the heaps to collect: [a, b : object -> value]
  RootLists   \* the roots: sequences of values

Null == <<"null">>           \* #F, or any object that is not a pointer
Constant == <<"constant">>   \* a pointer outside of fromspace
Old(o) == <<"old", o>>       \* a pointer into fromspace
New(i) == <<"new", i>>       \* a pointer into newspace
Hidden(o) == <<"hidden", o>> \* the car of a weak pair, as a non-pointer

Value == {Null, Constant} \cup {Old(o) : o \in Obj}
FieldNames == {"a", "b"}     \* car and cdr; EPHEMERON_KEY and EPHEMERON_DATUM

ASSUME HeapAssumption ==
  /\ IsFiniteSet(Obj)
  /\ Kind \in [Obj -> {"pair", "weak", "ephemeron"}]
  /\ Buckets \in [Obj -> Nat]
  /\ Heaps \subseteq [FieldNames -> [Obj -> Value]]
  /\ \A r \in RootLists : r \in Seq(Value)

VARIABLES
  mem,        \* fromspace, as it was when the collection began
  roots,      \* fixed objects, stack and constant space, as they were then
  newRoots,   \* what the scan has made of them
  fwd,        \* object -> its place in tospace, 0 when it was not transported
  to,         \* tospace: [a, b, manifest, next], next being EPHEMERON_NEXT
  weak_chain, \* the weak pairs whose car is hidden
  elist,      \* ephemeron_list
  bucket,     \* ephemeron_array: the first ephemeron of each bucket, or 0
  queue,      \* ephemeron_queue: the first ephemeron, or 0
  phase,      \* which loop the collector is in
  index,      \* its position in the roots or in elist; the ephemeron in "datum"
  scan,       \* its position in tospace: [i, f]
  step,       \* where it is in the handler of a word
  obj,        \* the object that the handler transports, or looks up
  loc         \* entry_loc: the link that the walk is at, 0 for the bucket's

heapVars == <<mem, roots>>
tableVars == <<weak_chain, elist, bucket, queue>>
vars == <<mem, roots, newRoots, fwd, to, weak_chain, elist, bucket, queue, phase,
          index, scan, step, obj, loc>>

IsOld(v) == v[1] = "old"
\* scanning_ephemerons_p
Scanning == phase \in {"list", "queue", "datum", "rescan"}

Init ==
  /\ mem \in Heaps
  /\ roots \in RootLists
  /\ newRoots = roots
  /\ fwd = [o \in Obj |-> 0]
  /\ to = <<>> /\ weak_chain = <<>> /\ elist = <<>>
  /\ bucket = [n \in {Buckets[o] : o \in Obj} |-> 0]
  /\ queue = 0
  /\ phase = "roots" /\ index = 1
  /\ scan = [i |-> 1, f |-> "a"]
  /\ step = "next" /\ obj = Null /\ loc = 0

-----------------------------------------------------------------------------
(* The handler of a word. *)

\* The word that the current loop is at, if it has one.
AtWord == \/ phase = "roots" /\ index <= Len(roots)
          \/ phase \in {"scan", "rescan"} /\ scan.i <= Len(to) /\ to[scan.i].manifest = "marked"
          \/ phase = "datum"
Word == CASE phase = "roots" -> newRoots[index]
          [] phase = "datum" -> to[index].b
          [] OTHER           -> to[scan.i][scan.f]

\* Mutant: the scan passes over the second word.
AdvancePair == scan' = [i |-> scan.i + 1, f |-> "a"]

\* run_gc_loop goes to the next word.
Advance == scan' = IF scan.f = "a" THEN [i |-> scan.i, f |-> "b"]
                   ELSE [i |-> scan.i + 1, f |-> "a"]

\* The handler returns: its result replaces the word.
Return(v) ==
  /\ step' = "next"
  /\ \/ /\ phase = "roots"
        /\ newRoots' = [newRoots EXCEPT ![index] = v]
        /\ index' = index + 1
        /\ UNCHANGED <<to, scan, phase>>
     \/ /\ phase \in {"scan", "rescan"}
        /\ to' = [to EXCEPT ![scan.i][scan.f] = v]
        /\ Advance
        /\ UNCHANGED <<newRoots, index, phase>>
     \/ /\ phase = "datum"
        /\ to' = [to EXCEPT ![index].b = v]
        /\ phase' = "rescan"
        /\ UNCHANGED <<newRoots, index, scan>>
  /\ UNCHANGED <<heapVars, tableVars, fwd, obj, loc>>

\* A call of queue_ephemerons_for_key, see below.
queue_ephemerons_for_key(o) == obj' = o /\ step' = "walk" /\ loc' = 0

\* Mutant: a key found while data are scanned queues nothing.
PrecheckNoQueue(o) == obj' = o /\ step' = "transport" /\ UNCHANGED loc

\* gc_precheck_from, for an object that was not transported yet.
Precheck(o) ==
  IF Scanning THEN queue_ephemerons_for_key(o)
  ELSE obj' = o /\ step' = "transport" /\ UNCHANGED loc

\* A word that is no pointer into fromspace, or one to a broken heart.
HandleKnown ==
  /\ step = "next" /\ AtWord
  /\ \/ ~IsOld(Word) /\ Return(Word)
     \/ IsOld(Word) /\ fwd[Word[2]] # 0 /\ Return(New(fwd[Word[2]]))

HandleUnknown ==
  /\ step = "next" /\ AtWord
  /\ IsOld(Word) /\ fwd[Word[2]] = 0
  /\ Precheck(Word[2])
  /\ UNCHANGED <<heapVars, tableVars, newRoots, fwd, to, phase, index, scan>>

\* Mutant: the forwarding address is one object too far.
gc_transport_words_past(copy) ==
  /\ to' = Append(to, copy)
  /\ fwd' = [fwd EXCEPT ![obj] = Len(to) + 2]

gc_transport_words(copy) ==
  /\ to' = Append(to, copy)
  /\ fwd' = [fwd EXCEPT ![obj] = Len(to) + 1]

CopyOf(o) == [a |-> mem.a[o], b |-> mem.b[o], manifest |-> "marked", next |-> 0]

gc_tuple ==
  /\ step = "transport" /\ Kind[obj] = "pair"
  /\ gc_transport_words(CopyOf(obj))
  /\ step' = "cdr"
  /\ UNCHANGED <<heapVars, tableVars, newRoots, phase, index, scan, obj, loc>>

\* The cdrs of a list are transported at once.
EagerCdr ==
  LET cdr == to[fwd[obj]].b
      again == IsOld(cdr) /\ Kind[cdr[2]] = "pair" /\ fwd[cdr[2]] = 0
  IN  /\ step = "cdr"
      /\ IF again THEN Precheck(cdr[2]) ELSE step' = "store" /\ UNCHANGED <<obj, loc>>
      /\ UNCHANGED <<heapVars, tableVars, newRoots, fwd, to, phase, index, scan>>

gc_transport_weak_pair ==
  /\ step = "transport" /\ Kind[obj] = "weak"
  /\ IF IsOld(mem.a[obj])
     THEN /\ gc_transport_words([a |-> Hidden(mem.a[obj][2]), b |-> mem.b[obj],
                                 manifest |-> "marked", next |-> 0])
          /\ weak_chain' = <<Len(to) + 1>> \o weak_chain
     ELSE gc_transport_words(CopyOf(obj)) /\ UNCHANGED weak_chain
  /\ step' = "store"
  /\ UNCHANGED <<heapVars, elist, bucket, queue, newRoots, phase, index, scan, obj, loc>>

\* Mutant: every ephemeron is scanned like a pair.
gc_transport_ephemeron_strong ==
  /\ step = "transport" /\ Kind[obj] = "ephemeron"
  /\ gc_transport_words(CopyOf(obj))
  /\ step' = "store"
  /\ UNCHANGED <<heapVars, tableVars, newRoots, phase, index, scan, obj, loc>>

\* The ephemeron itself is transported when its key is looked at.
gc_transport_ephemeron ==
  LET key == mem.a[obj]
      keyLives == ~IsOld(key) \/ key[2] = obj \/ fwd[key[2]] # 0
      chain == Buckets[key[2]]
  IN  /\ step = "transport" /\ Kind[obj] = "ephemeron"
      /\ IF keyLives
         THEN gc_transport_words(CopyOf(obj)) /\ UNCHANGED <<bucket, elist>>
         ELSE /\ gc_transport_words([a |-> key, b |-> mem.b[obj], manifest |-> "unmarked",
                                    next |-> bucket[chain]])
              /\ bucket' = [bucket EXCEPT ![chain] = Len(to) + 1]
              /\ elist' = <<Len(to) + 1>> \o elist
      /\ step' = "store"
      /\ UNCHANGED <<heapVars, weak_chain, queue, newRoots, phase, index, scan, obj, loc>>

\* The handler returns the new address of the object the word points to.
Store == step = "store" /\ Return(New(fwd[Word[2]]))

-----------------------------------------------------------------------------
(* The loop of queue_ephemerons_for_key: the hash table and the queue share *)
(* the link EPHEMERON_NEXT.  An ephemeron is named by its place in tospace. *)

KeyOf(i) == to[i].a[2]
entry == IF loc = 0 THEN bucket[Buckets[obj]] ELSE to[loc].next

WalkPast ==
  /\ step = "walk" /\ entry # 0 /\ KeyOf(entry) # obj
  /\ loc' = entry
  /\ UNCHANGED <<heapVars, tableVars, newRoots, fwd, to, phase, index, scan, step, obj>>

\* The ephemeron goes from the table to the queue.  The walk goes on from its
\* link, which is now the queue's.
WalkQueue ==
  /\ step = "walk" /\ entry # 0 /\ KeyOf(entry) = obj
  /\ IF loc = 0
     THEN /\ bucket' = [bucket EXCEPT ![Buckets[obj]] = to[entry].next]
          /\ to' = [to EXCEPT ![entry].next = queue]
     ELSE /\ to' = [to EXCEPT ![loc].next = to[entry].next, ![entry].next = queue]
          /\ UNCHANGED bucket
  /\ queue' = entry
  /\ loc' = entry
  /\ UNCHANGED <<heapVars, weak_chain, elist, newRoots, fwd, phase, index, scan, step, obj>>

WalkEnd ==
  /\ step = "walk" /\ entry = 0
  /\ step' = IF phase = "list" THEN "next" ELSE "transport"
  /\ UNCHANGED <<heapVars, tableVars, newRoots, fwd, to, phase, index, scan, obj, loc>>

-----------------------------------------------------------------------------
(* The loops. *)

Goto(p) == step = "next" /\ phase' = p /\ index' = 1
             /\ UNCHANGED <<heapVars, newRoots, fwd, step, obj, loc>>

RootsDone ==
  /\ phase = "roots" /\ index > Len(roots)
  /\ Goto("scan")
  /\ UNCHANGED <<to, tableVars, scan>>

\* The manifest of an ephemeron whose key is not known to be live.
SkipEphemeron ==
  /\ step = "next" /\ phase \in {"scan", "rescan"}
  /\ scan.i <= Len(to) /\ to[scan.i].manifest = "unmarked"
  /\ scan' = [i |-> scan.i + 1, f |-> "a"]
  /\ UNCHANGED <<heapVars, tableVars, newRoots, fwd, to, phase, index, step, obj, loc>>

\* gc_scan_tospace, in the main pass or after a datum, has met tospace_next.
ScanDone ==
  /\ phase \in {"scan", "rescan"} /\ scan.i > Len(to)
  /\ Goto(IF phase = "scan" THEN "list" ELSE "queue")
  /\ UNCHANGED <<to, tableVars, scan>>

\* scan_ephemerons, first loop: the ephemerons whose keys the main pass found.
ScanList ==
  /\ step = "next" /\ phase = "list" /\ index <= Len(elist)
  /\ index' = index + 1
  /\ IF fwd[KeyOf(elist[index])] # 0
     THEN queue_ephemerons_for_key(KeyOf(elist[index]))
     ELSE UNCHANGED <<step, obj, loc>>
  /\ UNCHANGED <<heapVars, tableVars, newRoots, fwd, to, phase, scan>>

ListDone ==
  /\ phase = "list" /\ index > Len(elist)
  /\ Goto("queue")
  /\ UNCHANGED <<to, tableVars, scan>>

\* Mutant: the ephemeron stays in the queue.
ScanDatumAgain ==
  /\ step = "next" /\ phase = "queue" /\ queue # 0
  /\ phase' = "datum" /\ index' = queue
  /\ scan' = [i |-> Len(to) + 1, f |-> "a"]
  /\ UNCHANGED <<heapVars, tableVars, newRoots, fwd, to, step, obj, loc>>

\* scan_ephemerons, second loop: the datum of a queued ephemeron, and then
\* whatever it brought into tospace (from saved_newspace_next).
ScanDatum ==
  /\ step = "next" /\ phase = "queue" /\ queue # 0
  /\ phase' = "datum" /\ index' = queue
  /\ queue' = to[queue].next
  /\ scan' = [i |-> Len(to) + 1, f |-> "a"]
  /\ UNCHANGED <<heapVars, weak_chain, elist, bucket, newRoots, fwd, to, step, obj, loc>>

QueueDone ==
  /\ phase = "queue" /\ queue = 0
  /\ Goto("ephemerons")
  /\ UNCHANGED <<to, tableVars, scan>>

weak_referent_forward(o) == IF fwd[o] # 0 THEN New(fwd[o]) ELSE Null

\* Mutant: a broken ephemeron keeps its datum.
update_ephemerons_key ==
  /\ phase = "ephemerons" /\ elist # <<>>
  /\ to' = [to EXCEPT ![Head(elist)].manifest = "marked",
                      ![Head(elist)].a = weak_referent_forward(KeyOf(Head(elist))),
                      ![Head(elist)].next = 0]
  /\ elist' = Tail(elist)
  /\ UNCHANGED <<heapVars, weak_chain, bucket, queue, newRoots, fwd, phase, index, scan,
                 step, obj, loc>>

update_ephemerons ==
  LET key == weak_referent_forward(KeyOf(Head(elist)))
  IN  /\ phase = "ephemerons" /\ elist # <<>>
      /\ to' = [to EXCEPT ![Head(elist)] =
                  [a |-> key, b |-> IF key = Null THEN Null ELSE @.b,
                   manifest |-> "marked", next |-> 0]]
      /\ elist' = Tail(elist)
      /\ UNCHANGED <<heapVars, weak_chain, bucket, queue, newRoots, fwd, phase, index, scan,
                     step, obj, loc>>

EphemeronsDone ==
  /\ phase = "ephemerons" /\ elist = <<>>
  /\ Goto("weak")
  /\ UNCHANGED <<to, tableVars, scan>>

update_weak_pairs ==
  /\ phase = "weak" /\ weak_chain # <<>>
  /\ to' = [to EXCEPT ![Head(weak_chain)].a = weak_referent_forward(@[2])]
  /\ weak_chain' = Tail(weak_chain)
  /\ UNCHANGED <<heapVars, elist, bucket, queue, newRoots, fwd, phase, index, scan, step,
                 obj, loc>>

\* save_tospace: the copies become the heap.
std_gc_pt2 ==
  /\ phase = "weak" /\ weak_chain = <<>>
  /\ Goto("done")
  /\ UNCHANGED <<to, tableVars, scan>>

Next ==
  \/ HandleKnown \/ HandleUnknown \/ gc_tuple \/ EagerCdr \/ gc_transport_weak_pair
  \/ gc_transport_ephemeron \/ Store \/ WalkPast \/ WalkQueue \/ WalkEnd
  \/ RootsDone \/ SkipEphemeron \/ ScanDone \/ ScanList \/ ListDone \/ ScanDatum
  \/ QueueDone \/ update_ephemerons \/ EphemeronsDone \/ update_weak_pairs \/ std_gc_pt2

\* The collector runs to its end: nothing else runs meanwhile.
Spec == Init /\ [][Next]_vars /\ WF_vars(Next)

-----------------------------------------------------------------------------
(* What the collection is for: the objects the program can still reach.    *)
(* A weak pair does not hold its car; an ephemeron does not hold its key,  *)
(* and holds its datum if the key is reachable by other ways.              *)

Points(v, S) == IsOld(v) => v[2] \in S

\* What the objects of S hold is in S, but for the data of the ephemerons E.
ClosedBut(S, E) ==
  \A o \in S :
    /\ Kind[o] = "pair" => Points(mem.a[o], S) /\ Points(mem.b[o], S)
    /\ Kind[o] = "weak" => Points(mem.b[o], S)
    /\ Kind[o] = "ephemeron" /\ Points(mem.a[o], S) /\ o \notin E => Points(mem.b[o], S)

Closed(S) == ClosedBut(S, {})

RootsIn(S) == \A i \in DOMAIN roots : Points(roots[i], S)

\* The live objects: the least set that has what the roots point to and is closed.
Live == {o \in Obj : \A S \in SUBSET Obj : RootsIn(S) /\ Closed(S) => o \in S}

\* The ephemeron o was copied before its key k, so that it waited for k in the
\* hash table.
WaitedFor(o, k) ==
  /\ Kind[o] = "ephemeron" /\ mem.a[o] = Old(k) /\ fwd[o] # 0
  /\ fwd[k] = 0 \/ fwd[o] < fwd[k]

\* The ephemerons that waited for one live key together with another:
\* queue_ephemerons_for_key moves the first one it meets to the queue and goes on
\* from there, along the queue, so that it leaves the other in the table; called
\* again, for the other, it exchanges the two for ever.
Crowd ==
  {o \in Obj : \E p \in Obj \ {o}, k \in Obj :
     fwd[k] # 0 /\ WaitedFor(o, k) /\ WaitedFor(p, k)}

-----------------------------------------------------------------------------
(* Properties. *)

\* Tospace, the forwarding addresses and the links of the ephemerons stay within
\* what the collector has copied.
Words == Value \cup {New(i) : i \in 1..Len(to)} \cup {Hidden(o) : o \in Obj}

TypeOK ==
  /\ fwd \in [Obj -> 0..Len(to)]
  /\ to \in Seq([a : Words, b : Words, manifest : {"marked", "unmarked"}, next : 0..Len(to)])
  /\ newRoots \in Seq(Words)
  /\ queue \in 0..Len(to) /\ loc \in 0..Len(to)
  /\ \A n \in DOMAIN bucket : bucket[n] \in 0..Len(to)

Copied == {o \in Obj : fwd[o] # 0}

\* What a pointer to v has become at the end: a pointer to its copy, or #F.
Image(v) == IF ~IsOld(v) THEN v ELSE IF fwd[v[2]] # 0 THEN New(fwd[v[2]]) ELSE Null

\* At the end only reachable objects were copied, once each, with whatever they
\* hold, and all of them: nothing that a chain of ephemerons and weak pairs holds is
\* lost, and a key that only its own ephemeron reaches is not kept (scan_ephemerons).
\* The one exception are the data of ephemerons that waited for one key.
CopiedWhatIsLive ==
  phase = "done" =>
    /\ Copied \subseteq Live /\ RootsIn(Copied) /\ ClosedBut(Copied, Crowd)
    /\ Crowd = {} => Copied = Live
    /\ \A o, p \in Copied : fwd[o] = fwd[p] => o = p
    /\ Len(to) = Cardinality(Copied)

\* At the end the roots and every copy point to the copies of what its original pointed to; a
\* weak car and an ephemeron keep a dead object's place as #F, and an ephemeron
\* is broken, key and datum together, exactly when its key is dead.  With the same
\* exception: such a datum may have been left as it was.
CopyIsFaithful ==
  phase = "done" =>
    /\ newRoots = [i \in DOMAIN roots |-> Image(roots[i])]
    /\ \A o \in Copied :
         LET broken == Kind[o] = "ephemeron" /\ IsOld(mem.a[o]) /\ fwd[mem.a[o][2]] = 0
         IN  /\ to[fwd[o]].a = Image(mem.a[o])
             /\ \/ to[fwd[o]].b = IF broken THEN Null ELSE Image(mem.b[o])
                \/ o \in Crowd /\ to[fwd[o]].b = mem.b[o]

\* The collection keeps what the program can reach, as it was, and nothing else.
CopyIsCorrect == CopiedWhatIsLive /\ CopyIsFaithful

\* gcloop.c:131-136 says of the hash table that "if the object stored at that
\* fromspace address is proven live, those ephemerons must not be broken, and
\* consequently their data must be live too": at the end the datum of every
\* ephemeron with a live key is the copy of what it was.
DataKept ==
  phase = "done" =>
    \A o \in Copied : Kind[o] = "ephemeron" /\ Points(mem.a[o], Copied) =>
      to[fwd[o]].b = Image(mem.b[o])

InCrowd(i) == \E o \in Crowd : fwd[o] = i

\* The words that a scan of tospace has passed point to no object of fromspace, with
\* the exception of the data that update_ephemerons found forgotten.
ScannedIsClean ==
  \A i \in DOMAIN to : to[i].manifest = "marked" =>
    /\ i < scan.i \/ (i = scan.i /\ scan.f = "b") => ~IsOld(to[i].a)
    /\ i < scan.i => ~IsOld(to[i].b) \/ InCrowd(i)

\* The ephemerons in the queue: the least set that has its head and is closed
\* under EPHEMERON_NEXT.
Queued ==
  {i \in DOMAIN to : \A S \in SUBSET DOMAIN to :
     queue \in S /\ (\A j \in S : to[j].next \in S \cup {0}) => i \in S}

\* While data are scanned, an ephemeron whose key was found live has had its
\* datum scanned or is in the queue: none is forgotten, unless another one waited
\* for the same key.
LiveKeysQueued ==
  phase \in {"queue", "datum", "rescan"} =>
    \A i \in DOMAIN to :
      /\ to[i].manifest = "unmarked" /\ fwd[KeyOf(i)] # 0 /\ IsOld(to[i].b)
      /\ ~(phase = "datum" /\ i = index)
      => i \in Queued \/ InCrowd(i)

\* The collection half way: the copies point only where they may, behind the scan
\* and in the links of the ephemerons, and no live key is overlooked.
ScanInv == TypeOK /\ ScannedIsClean /\ LiveKeysQueued

\* The main pass has found a key that two ephemerons wait for.
Endless == phase = "list" /\ Crowd # {}

\* Every collection ends, but for those in which the main pass finds a key that two
\* ephemerons wait for: these never do (the loops of queue_ephemerons_for_key and of
\* scan_ephemerons).
Finishes == /\ <>(phase = "done" \/ Endless)
            /\ [](Endless => []Endless)
=============================================================================
