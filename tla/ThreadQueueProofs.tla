-------------------------- MODULE ThreadQueueProofs --------------------------
(***************************************************************************)
(* The thread queue of runtime/thread-queue.scm, proved for every set of   *)
(* threads, every limit and all programs whose items are distinct.         *)
(***************************************************************************)
EXTENDS ThreadQueue, SequenceTheorems, TLAPS

-----------------------------------------------------------------------------
(* Sequences, and the sets of what they hold.                               *)

LEMMA ToSetMeaning ==
  ASSUME NEW s, NEW x
  PROVE  x \in ToSet(s) <=> \E i \in DOMAIN s : s[i] = x
  BY DEF ToSet

LEMMA EmptySet == ToSet(<<>>) = {} /\ IsInjective(<<>>)
  BY DEF ToSet, IsInjective

LEMMA AppendSet ==
  ASSUME NEW S, NEW s \in Seq(S), NEW x \in S
  PROVE  /\ ToSet(Append(s, x)) = ToSet(s) \cup {x}
         /\ IsInjective(s) /\ x \notin ToSet(s) => IsInjective(Append(s, x))
<1> DEFINE l == Append(s, x)
<1>1. /\ l \in Seq(S) /\ Len(l) = Len(s) + 1 /\ Len(s) \in Nat
      /\ DOMAIN l = 1 .. Len(s) + 1 /\ DOMAIN s = 1 .. Len(s)
  OBVIOUS
<1>2. l[Len(s) + 1] = x /\ \A i \in 1 .. Len(s) : l[i] = s[i]
  OBVIOUS
<1>3. ASSUME NEW y PROVE y \in ToSet(l) <=> y \in ToSet(s) \cup {x}
  <2>1. y \in ToSet(l) <=> \E i \in 1 .. Len(s) + 1 : l[i] = y
    BY <1>1, ToSetMeaning
  <2>2. y \in ToSet(s) <=> \E i \in 1 .. Len(s) : s[i] = y
    BY <1>1, ToSetMeaning
  <2>3. QED
    BY <1>1, <1>2, <2>1, <2>2
<1>4. ASSUME IsInjective(s), x \notin ToSet(s) PROVE IsInjective(l)
  <2>1. \A i \in 1 .. Len(s) : s[i] # x
    BY <1>1, <1>4, ToSetMeaning
  <2>2. QED
    BY <1>1, <1>2, <1>4, <2>1 DEF IsInjective
<1>5. QED
  BY <1>3, <1>4

\* An item put in front.
LEMMA ConsSet ==
  ASSUME NEW S, NEW s \in Seq(S), NEW x \in S
  PROVE  /\ <<x>> \o s \in Seq(S) /\ Len(<<x>> \o s) = Len(s) + 1
         /\ ToSet(<<x>> \o s) = ToSet(s) \cup {x}
         /\ IsInjective(s) /\ x \notin ToSet(s) => IsInjective(<<x>> \o s)
<1> DEFINE l == <<x>> \o s
           n == Len(s)
<1>1. /\ l \in Seq(S) /\ Len(l) = n + 1 /\ n \in Nat
      /\ DOMAIN l = 1 .. n + 1 /\ DOMAIN s = 1 .. n
  OBVIOUS
<1>2. l[1] = x /\ \A i \in 2 .. n + 1 : l[i] = s[i - 1]
  OBVIOUS
<1> HIDE DEF l
<1>3. ASSUME NEW y PROVE y \in ToSet(l) <=> y \in ToSet(s) \cup {x}
  <2>1. y \in ToSet(l) <=> \E i \in 1 .. n + 1 : l[i] = y
    BY <1>1, ToSetMeaning
  <2>2. y \in ToSet(s) <=> \E i \in 1 .. n : s[i] = y
    BY <1>1, ToSetMeaning
  <2>3. ASSUME y \in ToSet(l) PROVE y \in ToSet(s) \cup {x}
    BY <1>1, <1>2, <2>1, <2>2, <2>3
  <2>4. ASSUME NEW i \in 1 .. n, s[i] = y PROVE y \in ToSet(l)
    <3>1. i + 1 \in 2 .. n + 1 /\ i + 1 \in 1 .. n + 1 /\ (i + 1) - 1 = i
      BY <1>1
    <3>2. l[i + 1] = y
      BY <1>2, <2>4, <3>1
    <3>3. QED
      BY <2>1, <3>1, <3>2
  <2>5. x \in ToSet(l)
    BY <1>1, <1>2, ToSetMeaning
  <2>6. QED
    BY <2>2, <2>3, <2>4, <2>5
<1>4. ASSUME IsInjective(s), x \notin ToSet(s) PROVE IsInjective(l)
  <2> SUFFICES ASSUME NEW i \in 1 .. n + 1, NEW j \in 1 .. n + 1, l[i] = l[j]
               PROVE  i = j
    BY <1>1 DEF IsInjective
  <2>1. \A k \in 1 .. n : s[k] # x
    BY <1>1, <1>4, ToSetMeaning
  <2>2. CASE i = 1 \/ j = 1
    BY <1>1, <1>2, <2>1, <2>2
  <2>3. CASE i # 1 /\ j # 1
    <3>1. i - 1 \in 1 .. n /\ j - 1 \in 1 .. n /\ s[i - 1] = s[j - 1]
      BY <1>1, <1>2, <2>3
    <3>2. i - 1 = j - 1
      BY <1>1, <1>4, <3>1 DEF IsInjective
    <3>3. QED
      BY <1>1, <3>2
  <2>4. QED
    BY <2>2, <2>3
<1>5. QED
  BY <1>1, <1>3, <1>4 DEF l

\* The first item taken off.
LEMMA TailSet ==
  ASSUME NEW S, NEW s \in Seq(S), s # <<>>, IsInjective(s)
  PROVE  /\ Head(s) \in ToSet(s) /\ ToSet(Tail(s)) = ToSet(s) \ {Head(s)}
         /\ IsInjective(Tail(s))
<1> DEFINE l == Tail(s)
           n == Len(s)
<1>1. /\ n \in Nat /\ n > 0 /\ DOMAIN s = 1 .. n /\ Head(s) = s[1]
      /\ DOMAIN l = 1 .. n - 1 /\ \A i \in 1 .. n - 1 : l[i] = s[i + 1]
  OBVIOUS
<1> HIDE DEF l
<1>2. \A i, j \in 1 .. n : s[i] = s[j] => i = j
  BY <1>1 DEF IsInjective
<1>3. Head(s) \in ToSet(s)
  BY <1>1, ToSetMeaning
<1>4. ASSUME NEW y PROVE y \in ToSet(l) <=> y \in ToSet(s) \ {Head(s)}
  <2>1. y \in ToSet(l) <=> \E i \in 1 .. n - 1 : l[i] = y
    BY <1>1, ToSetMeaning
  <2>2. y \in ToSet(s) <=> \E i \in 1 .. n : s[i] = y
    BY <1>1, ToSetMeaning
  <2>3. ASSUME NEW i \in 1 .. n - 1, l[i] = y PROVE y \in ToSet(s) \ {Head(s)}
    <3>1. i + 1 \in 1 .. n /\ i + 1 # 1 /\ s[i + 1] = y /\ 1 \in 1 .. n
      BY <1>1, <2>3
    <3>2. QED
      BY <1>1, <1>2, <2>2, <3>1
  <2>4. ASSUME NEW i \in 1 .. n, s[i] = y, y # Head(s) PROVE y \in ToSet(l)
    <3>1. i - 1 \in 1 .. n - 1 /\ (i - 1) + 1 = i
      BY <1>1, <2>4
    <3>2. l[i - 1] = y
      BY <1>1, <2>4, <3>1
    <3>3. QED
      BY <2>1, <3>1, <3>2
  <2>5. QED
    BY <2>1, <2>2, <2>3, <2>4
<1>5. IsInjective(l)
  <2> SUFFICES ASSUME NEW i \in 1 .. n - 1, NEW j \in 1 .. n - 1, l[i] = l[j]
               PROVE  i = j
    BY <1>1 DEF IsInjective
  <2>1. i + 1 \in 1 .. n /\ j + 1 \in 1 .. n /\ s[i + 1] = s[j + 1]
    BY <1>1
  <2>2. i + 1 = j + 1
    BY <1>2, <2>1
  <2>3. QED
    BY <1>1, <2>2
<1>6. QED
  BY <1>3, <1>4, <1>5 DEF l

\* The last item taken off.
LEMMA FrontSet ==
  ASSUME NEW S, NEW s \in Seq(S), s # <<>>, IsInjective(s)
  PROVE  LET f == SubSeq(s, 1, Len(s) - 1)
         IN  /\ f \in Seq(S) /\ Len(f) = Len(s) - 1 /\ IsInjective(f)
             /\ Last(s) \in ToSet(s) /\ ToSet(f) = ToSet(s) \ {Last(s)}
<1> DEFINE l == SubSeq(s, 1, Len(s) - 1)
           n == Len(s)
<1>1. /\ n \in Nat /\ n > 0 /\ DOMAIN s = 1 .. n /\ l \in Seq(S) /\ Len(l) = n - 1
      /\ DOMAIN l = 1 .. n - 1 /\ \A i \in 1 .. n - 1 : l[i] = s[i]
  OBVIOUS
<1>2. Last(s) = s[n]
  BY DEF Last
<1> HIDE DEF l
<1>3. \A i, j \in 1 .. n : s[i] = s[j] => i = j
  BY <1>1 DEF IsInjective
<1>4. Last(s) \in ToSet(s)
  BY <1>1, <1>2, ToSetMeaning
<1>5. ASSUME NEW y PROVE y \in ToSet(l) <=> y \in ToSet(s) \ {Last(s)}
  <2>1. y \in ToSet(l) <=> \E i \in 1 .. n - 1 : l[i] = y
    BY <1>1, ToSetMeaning
  <2>2. y \in ToSet(s) <=> \E i \in 1 .. n : s[i] = y
    BY <1>1, ToSetMeaning
  <2>3. QED
    BY <1>1, <1>2, <1>3, <2>1, <2>2
<1>6. IsInjective(l)
  BY <1>1, <1>3 DEF IsInjective
<1>7. QED
  BY <1>1, <1>4, <1>5, <1>6 DEF l

-----------------------------------------------------------------------------
(* The state of the queue and of its threads.                               *)

Labels == {"next", "body", "unlock", "await", "awake", "leave", "lock"}

\* The items that the programs name.
Value == UNION {{load.program[t][i].item : i \in DOMAIN load.program[t]} : t \in Thread}

PlacesOK ==
  /\ load \in Workloads
  /\ pc \in [Thread -> Labels]
  /\ locking \in [Thread -> [mutex : Mutex, then : {"body", "none"}]]
  /\ owner \in [Mutex -> Thread \cup {NoThread}]
  /\ ring \in [Mutex -> Seq(Thread)]
  /\ pending \subseteq Thread /\ overdue \subseteq Thread
  /\ call \in [Thread -> Nat \ {0}]

ItemsOK ==
  /\ items \in Seq(Value) /\ sent \in Seq(Value)
  /\ received \in [Thread -> Seq(Value)] /\ dropped \subseteq Value
  /\ waitingQueuers \in Seq(Thread) /\ waitingDequeuers \in Seq(Thread)

\* Whoever works on the queue owns its mutex, whoever waits in lock-thread-mutex
\* goes on with the body, and whoever is under way has a call to return from.
LockInv ==
  \A t \in Thread :
    /\ pc[t] \in {"body", "unlock", "leave"} => owner["queue"] = t
    /\ pc[t] = "lock" => locking[t] = [mutex |-> "queue", then |-> "body"]
    /\ pc[t] # "next" => Running(t)

Limit == load.max # 0 => Len(items) <= load.max

\* The inductive invariant behind QueueInv.
QueueIInv == PlacesOK /\ ItemsOK /\ LockInv /\ Limit /\ NoLostWakeup

USE DEF suspensionVars, queueVars, clientVars, historyVars, Jump, Leave, Return, Block

LEMMA MutexName == "queue" \in Mutex
  BY WorkloadAssumption

\* The call of a thread that is under way.
LEMMA CallOK ==
  ASSUME PlacesOK, NEW t \in Thread, Running(t)
  PROVE  call[t] \in DOMAIN load.program[t] /\ Item(t) \in Value
<1>1. load.program[t] \in Seq(ToSet(load.program[t])) /\ call[t] \in Nat \ {0}
  BY WorkloadAssumption DEF PlacesOK
<1>2. call[t] \in DOMAIN load.program[t]
  <2> DEFINE p == load.program[t]
  <2>1. p \in Seq(ToSet(p)) /\ call[t] <= Len(p)
    BY <1>1 DEF Running
  <2> HIDE DEF p
  <2>2. DOMAIN p = 1 .. Len(p) /\ Len(p) \in Nat
    BY <2>1
  <2>3. call[t] \in DOMAIN p
    BY <1>1, <2>1, <2>2
  <2>4. QED
    BY <2>3 DEF p
<1>3. QED
  BY <1>2 DEF Value, Item

\* lock-thread-mutex and unlock-thread-mutex.
LEMMA LockMoves ==
  ASSUME PlacesOK, LockInv, NEW t \in Thread, Running(t), pc[t] # "lock",
         lock_thread_mutex(t, "queue", "body"), UNCHANGED <<load, overdue, call>>
  PROVE  PlacesOK' /\ LockInv'
<1>1. PlacesOK'
  <2>1. Append(ring["queue"], t) \in Seq(Thread)
    BY MutexName DEF PlacesOK
  <2>2. locking' \in [Thread -> [mutex : Mutex, then : {"body", "none"}]]
    <3> DEFINE R == [mutex : Mutex, then : {"body", "none"}]
               r == [mutex |-> "queue", then |-> "body"]
    <3>1. r \in R
      BY MutexName
    <3>2. locking \in [Thread -> R] /\ (UNCHANGED locking \/ locking' = [locking EXCEPT ![t] = r])
      BY DEF PlacesOK, lock_thread_mutex
    <3> HIDE DEF R, r
    <3>3. locking' \in [Thread -> R]
      BY <3>1, <3>2
    <3>4. QED
      BY <3>3 DEF R
  <2>3. pc' \in [Thread -> Labels]
    BY DEF PlacesOK, lock_thread_mutex, Labels
  <2>4. ring' \in [Mutex -> Seq(Thread)]
    BY <2>1 DEF PlacesOK, lock_thread_mutex
  <2>5. owner' \in [Mutex -> Thread \cup {NoThread}] /\ pending' \subseteq Thread
    BY DEF PlacesOK, lock_thread_mutex
  <2>6. QED
    BY <2>2, <2>3, <2>4, <2>5 DEF PlacesOK
<1>2. ASSUME NEW u \in Thread, pc'[u] \in {"body", "unlock", "leave"} PROVE owner'["queue"] = u
  <2>1. CASE u = t
    BY <1>2, <2>1, MutexName DEF PlacesOK, LockInv, lock_thread_mutex
  <2>2. CASE u # t
    <3>1. owner["queue"] = u /\ u # NoThread
      BY <1>2, <2>2, ThreadsAssumption DEF PlacesOK, LockInv, lock_thread_mutex
    <3>2. QED
      BY <3>1 DEF lock_thread_mutex
  <2>3. QED
    BY <2>1, <2>2
<1>3. ASSUME NEW u \in Thread PROVE pc'[u] = "lock" => locking'[u] = [mutex |-> "queue", then |-> "body"]
  BY DEF PlacesOK, LockInv, lock_thread_mutex
<1>4. ASSUME NEW u \in Thread PROVE pc'[u] # "next" => Running(u)'
  BY DEF PlacesOK, LockInv, lock_thread_mutex, Running
<1>5. QED
  BY <1>1, <1>2, <1>3, <1>4 DEF LockInv

LEMMA UnlockMoves ==
  ASSUME PlacesOK, LockInv, NEW t \in Thread, Unlock(t) \/ End(t)
  PROVE  PlacesOK' /\ LockInv'
<1> DEFINE then == IF Unlock(t) THEN "await" ELSE "next"
<1>1. /\ unlock_thread_mutex(t, "queue", then) /\ UNCHANGED load
      /\ then \in {"await", "next"} /\ (then = "await" => UNCHANGED call /\ pc[t] = "unlock")
  BY DEF Unlock, End
<1>2. /\ overdue' \subseteq overdue
      /\ call' \in [Thread -> Nat \ {0}] /\ \A u \in Thread \ {t} : call'[u] = call[u]
  BY DEF Unlock, End, PlacesOK
<1> HIDE DEF then
<1>3. ring["queue"] \in Seq(Thread) /\ pc[t] # "lock"
  BY MutexName DEF PlacesOK, Unlock, End
<1>4. ring["queue"] # <<>> => Head(ring["queue"]) \in Thread /\ Tail(ring["queue"]) \in Seq(Thread)
  BY <1>3
<1>5. /\ pc' = [pc EXCEPT ![t] = then] /\ UNCHANGED locking /\ owner["queue"] = t
  BY <1>1 DEF unlock_thread_mutex
<1>6. PlacesOK'
  <2>1. pc' \in [Thread -> Labels]
    BY <1>1, <1>5 DEF PlacesOK, Labels
  <2>2. ring' \in [Mutex -> Seq(Thread)] /\ pending' \subseteq Thread
    BY <1>1, <1>4 DEF PlacesOK, unlock_thread_mutex
  <2>3. owner' \in [Mutex -> Thread \cup {NoThread}]
    BY <1>1, <1>4 DEF PlacesOK, unlock_thread_mutex
  <2>4. QED
    BY <1>1, <1>2, <1>5, <2>1, <2>2, <2>3 DEF PlacesOK
<1>7. ASSUME NEW u \in Thread
      PROVE  /\ pc'[u] \notin {"body", "unlock", "leave"}
             /\ pc'[u] = "lock" => locking'[u] = [mutex |-> "queue", then |-> "body"]
             /\ pc'[u] # "next" => Running(u)'
  <2>1. CASE u = t
    BY <1>1, <1>5, <2>1 DEF PlacesOK, LockInv, Running
  <2>2. CASE u # t
    BY <1>1, <1>2, <1>5, <2>2 DEF PlacesOK, LockInv, Running
  <2>3. QED
    BY <2>1, <2>2
<1>8. QED
  BY <1>6, <1>7 DEF LockInv

\* What every step in the body of with-queue-locked does, besides its work on the queue.
LEMMA BodyMeaning ==
  ASSUME PlacesOK, ItemsOK, NEW t \in Thread, Body(t)
  PROVE  /\ pc[t] = "body" /\ \E there \in {"leave", "unlock"} : pc' = [pc EXCEPT ![t] = there]
         /\ UNCHANGED <<locking, owner, ring, load, call, overdue>>
         /\ pending \subseteq pending' /\ pending' \subseteq Thread
<1>1. ToSet(waitingQueuers) \subseteq Thread /\ ToSet(waitingDequeuers) \subseteq Thread
  <2>1. ASSUME NEW s \in Seq(Thread) PROVE ToSet(s) \subseteq Thread
    BY DEF ToSet
  <2>2. QED
    BY <2>1 DEF ItemsOK
<1>2. /\ pc[t] = "body" /\ \E there \in {"leave", "unlock"} : pc' = [pc EXCEPT ![t] = there]
  BY DEF Body, thread_queue_queue, QueueBlocks, thread_queue_queue_no_hang, queue_item, dequeue_item,
     peek_item, TakeBlocks, TakeExpires, thread_queue_push, PushClobbers, PushFails,
     thread_queue_empty
<1>3. UNCHANGED <<locking, owner, ring, load, call, overdue>>
  BY DEF Body, thread_queue_queue, QueueBlocks, thread_queue_queue_no_hang, queue_item, dequeue_item,
     peek_item, TakeBlocks, TakeExpires, thread_queue_push, PushClobbers, PushFails,
     thread_queue_empty
<1>4. \/ pending' = pending \/ pending' = pending \cup ToSet(waitingQueuers)
      \/ pending' = pending \cup ToSet(waitingDequeuers)
  BY DEF Body, thread_queue_queue, QueueBlocks, thread_queue_queue_no_hang, queue_item, dequeue_item,
     peek_item, TakeBlocks, TakeExpires, thread_queue_push, PushClobbers, PushFails,
     thread_queue_empty, resume_queuers, resume_dequeuers
<1>5. QED
  BY <1>1, <1>2, <1>3, <1>4 DEF PlacesOK

\* Places and the mutex, for all steps.
LEMMA PlacesStep ==
  ASSUME PlacesOK, ItemsOK, LockInv, NEW t \in Thread, Step(t) \/ Rest(t) \/ RunOut(t) \/ Fire(t)
  PROVE  PlacesOK' /\ LockInv'
<1>1. CASE Begin(t) \/ LockAgain(t)
  <2>1. Running(t) /\ pc[t] # "lock"
    BY <1>1 DEF Begin, LockAgain, LockInv
  <2>2. QED
    BY <1>1, <2>1, LockMoves DEF Begin, LockAgain
<1>2. CASE Unlock(t) \/ End(t)
  BY <1>2, UnlockMoves
<1>3. CASE Body(t)
  <2>1. PICK there \in {"leave", "unlock"} : pc' = [pc EXCEPT ![t] = there]
    BY <1>3, BodyMeaning
  <2>2. pc[t] = "body" /\ UNCHANGED <<locking, owner, ring, load, call, overdue>>
        /\ pending' \subseteq Thread
    BY <1>3, BodyMeaning
  <2>3. PlacesOK'
    BY <2>1, <2>2 DEF PlacesOK, Labels
  <2>4. LockInv'
    BY <2>1, <2>2 DEF PlacesOK, LockInv, Running
  <2>5. QED
    BY <2>3, <2>4
<1>4. CASE Suspend(t)
  <2>1. /\ pc[t] = "await" /\ pc' = [pc EXCEPT ![t] = "awake"]
        /\ UNCHANGED <<locking, owner, ring, load, call, overdue>> /\ pending' \subseteq pending
    BY <1>4 DEF Suspend, suspend_current_thread
  <2>2. PlacesOK'
    BY <2>1 DEF PlacesOK, Labels
  <2>3. LockInv'
    BY <2>1 DEF PlacesOK, LockInv, Running
  <2>4. QED
    BY <2>2, <2>3
<1>5. CASE Locked(t)
  <2>1. pc[t] = "lock" /\ UNCHANGED <<owner, ring, load, call, overdue>> /\ pending' \subseteq pending
    BY <1>5 DEF Locked, LockWait
  <2>2. locking[t].then = "body" /\ locking[t].mutex = "queue"
    BY <2>1 DEF LockInv
  <2>3. CASE owner["queue"] = t
    <3>1. pc' = [pc EXCEPT ![t] = "body"] /\ locking' = [locking EXCEPT ![t] = NoLock]
      BY <1>5, <2>2, <2>3 DEF Locked, LockWait
    <3>2. NoLock \in [mutex : Mutex, then : {"body", "none"}]
      BY MutexName DEF NoLock
    <3>3. PlacesOK'
      BY <2>1, <3>1, <3>2 DEF PlacesOK, Labels
    <3>4. LockInv'
      BY <2>1, <2>3, <3>1 DEF PlacesOK, LockInv, Running
    <3>5. QED
      BY <3>3, <3>4
  <2>4. CASE owner["queue"] # t
    <3>1. UNCHANGED <<pc, locking>>
      BY <1>5, <2>2, <2>4 DEF Locked, LockWait
    <3>2. QED
      BY <2>1, <3>1 DEF PlacesOK, LockInv, Running
  <2>5. QED
    BY <2>3, <2>4
<1>6. CASE Rest(t) \/ RunOut(t) \/ Fire(t)
  <2>1. UNCHANGED <<pc, locking, owner, ring, load, call>>
    BY <1>6 DEF Rest, Consume, RunOut, Fire
  <2>2. pending' \subseteq pending \cup {t} /\ overdue' \subseteq overdue \cup {t}
    BY <1>6 DEF Rest, Consume, RunOut, Fire
  <2>3. QED
    BY <2>1, <2>2 DEF PlacesOK, LockInv, Running
<1>7. QED
  BY <1>1, <1>2, <1>3, <1>4, <1>5, <1>6 DEF Step

\* What the steps outside the body leave alone.
LEMMA OutsideBody ==
  ASSUME NEW t \in Thread, (Step(t) /\ ~Body(t)) \/ Rest(t) \/ RunOut(t) \/ Fire(t)
  PROVE  UNCHANGED <<queueVars, historyVars, load>>
  BY DEF Step, Begin, Unlock, Suspend, LockAgain, Locked, End, Rest, RunOut, Fire

\* The items, and the limit of their number.
LEMMA ItemsStep ==
  ASSUME PlacesOK, ItemsOK, LockInv, Limit, NEW t \in Thread,
         Step(t) \/ Rest(t) \/ RunOut(t) \/ Fire(t)
  PROVE  ItemsOK' /\ Limit'
<1>1. CASE ~Body(t)
  <2>1. UNCHANGED <<queueVars, historyVars, load>>
    BY <1>1, OutsideBody
  <2>2. Value' = Value
    BY <2>1 DEF Value
  <2>3. QED
    BY <2>1, <2>2 DEF ItemsOK, Limit
<1>2. CASE Body(t)
  <2>1. UNCHANGED load /\ Running(t)
    BY <1>2, BodyMeaning DEF LockInv
  <2>2. Value' = Value /\ Item(t) \in Value
    BY <2>1, CallOK DEF Value
  <2>3. load.max \in Nat /\ items \in Seq(Value) /\ Len(items) \in Nat
    BY WorkloadAssumption DEF PlacesOK, ItemsOK
  <2> HIDE DEF Value
  <2>4. waitingQueuers' \in Seq(Thread) /\ waitingDequeuers' \in Seq(Thread)
    <3>1. /\ waitingQueuers' \in {waitingQueuers, Append(waitingQueuers, t), <<>>}
          /\ waitingDequeuers' \in {waitingDequeuers, Append(waitingDequeuers, t), <<>>}
      BY <1>2 DEF Body, thread_queue_queue, QueueBlocks, thread_queue_queue_no_hang, queue_item,
         dequeue_item, peek_item, TakeBlocks, TakeExpires, thread_queue_push, PushClobbers,
         PushFails, thread_queue_empty, resume_queuers, resume_dequeuers
    <3>2. ASSUME NEW s \in Seq(Thread) PROVE Append(s, t) \in Seq(Thread) /\ <<>> \in Seq(Thread)
      OBVIOUS
    <3>3. QED
      BY <3>1, <3>2 DEF ItemsOK
  <2>5. sent' \in Seq(Value)
    <3>1. sent' \in {sent, Append(sent, Item(t))}
      BY <1>2 DEF Body, thread_queue_queue, QueueBlocks, thread_queue_queue_no_hang, queue_item,
         dequeue_item, peek_item, TakeBlocks, TakeExpires, thread_queue_push, PushClobbers,
         PushFails, thread_queue_empty
    <3>2. sent \in Seq(Value)
      BY DEF ItemsOK
    <3>3. Append(sent, Item(t)) \in Seq(Value)
      BY <2>2, <3>2
    <3>4. QED
      BY <3>1, <3>2, <3>3
  <2>6. CASE queue_item(t) /\ ~Full
    <3>1. UNCHANGED <<received, dropped>> /\ items' = Append(items, Item(t))
      BY <2>6 DEF queue_item, AtEnd
    <3>2. items' \in Seq(Value) /\ Len(items') = Len(items) + 1
      BY <2>2, <2>3, <3>1
    <3>3. Limit'
      BY <2>1, <2>3, <2>6, <3>2 DEF Limit, Full
    <3>4. QED
      BY <2>2, <2>4, <2>5, <3>1, <3>2, <3>3 DEF ItemsOK
  <2>7. CASE thread_queue_push(t)
    <3>1. UNCHANGED <<received, dropped>> /\ items' = <<Item(t)>> \o items /\ ~Full
      BY <2>7 DEF thread_queue_push
    <3>2. items' \in Seq(Value) /\ Len(items') = Len(items) + 1
      BY <2>2, <2>3, <3>1
    <3>3. Limit'
      BY <2>1, <2>3, <3>1, <3>2 DEF Limit, Full
    <3>4. QED
      BY <2>2, <2>4, <2>5, <3>1, <3>2, <3>3 DEF ItemsOK
  <2>8. CASE PushClobbers(t)
    <3> DEFINE f == SubSeq(items, 1, Len(items) - 1)
    <3>1. /\ UNCHANGED received /\ items' = <<Item(t)>> \o f /\ Len(items) > 1
          /\ dropped' = dropped \cup {Last(items)}
      BY <2>8 DEF PushClobbers
    <3>2. f \in Seq(Value) /\ Len(f) = Len(items) - 1 /\ Last(items) \in Value
      BY <2>3, <3>1 DEF Last
    <3> HIDE DEF f
    <3>3. items' \in Seq(Value) /\ Len(items') = Len(items)
      BY <2>2, <2>3, <3>1, <3>2
    <3>4. QED
      BY <2>1, <2>2, <2>4, <2>5, <3>1, <3>2, <3>3 DEF ItemsOK, Limit
  <2>9. CASE PushFails(t)
    BY <2>1, <2>2, <2>4, <2>5, <2>9 DEF PushFails, ItemsOK, Limit
  <2>10. CASE dequeue_item(t)
    <3>1. /\ UNCHANGED dropped /\ items # <<>> /\ items' = Tail(items)
          /\ received' = [received EXCEPT ![t] = Append(@, Head(items))]
      BY <2>10 DEF dequeue_item
    <3>2. items' \in Seq(Value) /\ Len(items') = Len(items) - 1 /\ Head(items) \in Value
      BY <2>3, <3>1
    <3>3. received' \in [Thread -> Seq(Value)]
      BY <3>1, <3>2 DEF ItemsOK
    <3>4. Limit'
      BY <2>1, <2>3, <3>2 DEF Limit
    <3>5. QED
      BY <2>2, <2>4, <2>5, <3>1, <3>2, <3>3, <3>4 DEF ItemsOK
  <2>11. CASE thread_queue_empty(t)
    <3>1. items' = <<>> /\ dropped' = dropped \cup ToSet(items) /\ UNCHANGED received
      BY <2>11 DEF thread_queue_empty
    <3>2. ToSet(items) \subseteq Value
      BY <2>3 DEF ToSet
    <3>3. <<>> \in Seq(Value) /\ Len(<<>>) = 0
      OBVIOUS
    <3>4. Limit'
      BY <2>1, <2>3, <3>1, <3>3 DEF Limit
    <3>5. QED
      BY <2>2, <2>4, <2>5, <3>1, <3>2, <3>3, <3>4 DEF ItemsOK
  <2>12. CASE UNCHANGED <<items, received, dropped>>
    BY <2>1, <2>2, <2>4, <2>5, <2>12 DEF ItemsOK, Limit
  <2>13. QED
    BY <1>2, <2>6, <2>7, <2>8, <2>9, <2>10, <2>11, <2>12
       DEF Body, thread_queue_queue, QueueBlocks, thread_queue_queue_no_hang, peek_item,
           TakeBlocks, TakeExpires
<1>3. QED
  BY <1>1, <1>2

\* Where a thread that is about to suspend, or suspends, is registered.
Registered(t) == ToSet(IF Op(t) \in Taking THEN waitingDequeuers ELSE waitingQueuers)

\* A step that keeps a place in the lists or turns it into a pending event, and takes
\* events from its own thread only.
LEMMA WakeupKept ==
  ASSUME NoLostWakeup, NEW t \in Thread, UNCHANGED load,
         pc'[t] \in {"unlock", "await"} => t \in pending' \cup Registered(t)',
         \A u \in Thread \ {t} :
           pc'[u] = pc[u] /\ call'[u] = call[u] /\ (u \in pending => u \in pending'),
         ToSet(waitingQueuers) \subseteq ToSet(waitingQueuers') \cup pending',
         ToSet(waitingDequeuers) \subseteq ToSet(waitingDequeuers') \cup pending'
  PROVE  NoLostWakeup'
<1> SUFFICES ASSUME NEW u \in Thread, pc'[u] \in {"unlock", "await"}
             PROVE  u \in pending' \cup Registered(u)'
  BY DEF NoLostWakeup, Registered
<1>1. CASE u = t
  BY <1>1
<1>2. CASE u # t
  <2>1. u \in pending \cup Registered(u) /\ Op(u)' = Op(u)
    BY <1>2 DEF NoLostWakeup, Registered, Op
  <2>2. QED
    BY <1>2, <2>1 DEF Registered
<1>3. QED
  BY <1>1, <1>2

\* No wakeup is lost, for all steps.
LEMMA WakeupStep ==
  ASSUME PlacesOK, ItemsOK, LockInv, NoLostWakeup, NEW t \in Thread,
         Step(t) \/ Rest(t) \/ RunOut(t) \/ Fire(t)
  PROVE  NoLostWakeup'
<1>1. /\ waitingQueuers \in Seq(Thread) /\ waitingDequeuers \in Seq(Thread)
      /\ pc \in [Thread -> Labels] /\ call \in [Thread -> Nat \ {0}]
  BY DEF PlacesOK, ItemsOK
<1>2. CASE Begin(t) \/ LockAgain(t)
  <2>1. lock_thread_mutex(t, "queue", "body") /\ UNCHANGED <<queueVars, clientVars>>
    BY <1>2 DEF Begin, LockAgain
  <2>2. /\ pc'[t] \in {"body", "lock"} /\ \A u \in Thread \ {t} : pc'[u] = pc[u]
        /\ pending \ {t} \subseteq pending'
    BY <1>1, <2>1 DEF lock_thread_mutex
  <2>3. QED
    BY <2>1, <2>2, WakeupKept
<1>3. CASE Unlock(t) \/ End(t)
  <2>1. \/ /\ pc[t] = "unlock" /\ unlock_thread_mutex(t, "queue", "await") /\ UNCHANGED call
        \/ unlock_thread_mutex(t, "queue", "next")
    BY <1>3 DEF Unlock, End
  <2>2. UNCHANGED <<queueVars, load>> /\ \A u \in Thread \ {t} : call'[u] = call[u]
    BY <1>1, <1>3 DEF Unlock, End
  <2>3. /\ pending \subseteq pending' /\ \A u \in Thread \ {t} : pc'[u] = pc[u]
        /\ \/ pc'[t] = "await" /\ pc[t] = "unlock" /\ UNCHANGED call
           \/ pc'[t] = "next"
    BY <1>1, <2>1 DEF unlock_thread_mutex
  <2>4. pc'[t] \in {"unlock", "await"} => t \in pending' \cup Registered(t)'
    BY <2>2, <2>3 DEF NoLostWakeup, Registered, Op
  <2>5. QED
    BY <2>2, <2>3, <2>4, WakeupKept
<1>4. CASE Suspend(t) \/ Locked(t) \/ Rest(t)
  <2>1. /\ UNCHANGED <<queueVars, load, call>> /\ pending' = pending \ {t}
        /\ pc[t] # "unlock" /\ (pc[t] = "await" => Suspend(t))
    BY <1>4 DEF Suspend, suspend_current_thread, Locked, LockWait, Rest, Consume
  <2>2. /\ \A u \in Thread \ {t} : pc'[u] = pc[u]
        /\ pc'[t] \notin {"unlock", "await"}
    BY <1>1, <1>4, <2>1 DEF Suspend, suspend_current_thread, Locked, LockWait, Rest, Consume, LockInv
  <2>3. QED
    BY <2>1, <2>2, WakeupKept
<1>5. CASE RunOut(t) \/ Fire(t)
  <2>1. UNCHANGED <<pc, queueVars, load, call>> /\ pending \subseteq pending'
    BY <1>5 DEF RunOut, Fire
  <2>2. QED
    BY <2>1 DEF NoLostWakeup, Op
<1>6. CASE Body(t)
  <2>1. /\ pc[t] = "body" /\ UNCHANGED <<load, call>> /\ pending \subseteq pending'
        /\ \A u \in Thread \ {t} : pc'[u] = pc[u]
    BY <1>1, <1>6, BodyMeaning
  <2>2. CASE QueueBlocks(t)
    <3>1. /\ waitingQueuers' = Append(waitingQueuers, t) /\ UNCHANGED waitingDequeuers
          /\ Op(t)' \notin Taking
      BY <2>1, <2>2 DEF QueueBlocks, Op, Taking
    <3>2. ToSet(waitingQueuers') = ToSet(waitingQueuers) \cup {t}
      BY <1>1, <3>1, AppendSet
    <3>3. QED
      BY <2>1, <3>1, <3>2, WakeupKept DEF Registered
  <2>3. CASE TakeBlocks(t)
    <3>1. /\ waitingDequeuers' = Append(waitingDequeuers, t) /\ UNCHANGED waitingQueuers
          /\ Op(t)' \in Taking
      BY <2>1, <2>3 DEF TakeBlocks, Op
    <3>2. ToSet(waitingDequeuers') = ToSet(waitingDequeuers) \cup {t}
      BY <1>1, <3>1, AppendSet
    <3>3. QED
      BY <2>1, <3>1, <3>2, WakeupKept DEF Registered
  <2>4. CASE ~QueueBlocks(t) /\ ~TakeBlocks(t)
    <3>1. pc'[t] = "leave"
      BY <1>1, <1>6, <2>4 DEF Body, thread_queue_queue, thread_queue_queue_no_hang, queue_item,
         dequeue_item, peek_item, TakeExpires, thread_queue_push, PushClobbers, PushFails,
         thread_queue_empty
    <3>2. /\ waitingQueuers' = waitingQueuers \/ ToSet(waitingQueuers) \subseteq pending'
          /\ waitingDequeuers' = waitingDequeuers \/ ToSet(waitingDequeuers) \subseteq pending'
      BY <1>6, <2>4 DEF Body, thread_queue_queue, thread_queue_queue_no_hang, queue_item,
         dequeue_item, peek_item, TakeExpires, thread_queue_push, PushClobbers, PushFails,
         thread_queue_empty, resume_queuers, resume_dequeuers
    <3>3. QED
      BY <2>1, <3>1, <3>2, WakeupKept
  <2>5. QED
    BY <2>2, <2>3, <2>4
<1>7. QED
  BY <1>2, <1>3, <1>4, <1>5, <1>6 DEF Step

LEMMA QueueStarts ==
  ASSUME QueueInit
  PROVE  QueueIInv
<1>1. NoLock \in [mutex : Mutex, then : {"body", "none"}]
  BY MutexName DEF NoLock
<1>2. PlacesOK
  BY <1>1 DEF QueueInit, QueueEmpty, SuspensionInit, PlacesOK, Labels
<1>3. ItemsOK
  BY DEF QueueInit, QueueEmpty, ItemsOK
<1>4. load.max \in Nat
  BY WorkloadAssumption DEF QueueInit, QueueEmpty
<1>5. Limit
  BY <1>4 DEF QueueInit, QueueEmpty, Limit
<1>6. LockInv /\ NoLostWakeup
  BY DEF QueueInit, QueueEmpty, SuspensionInit, LockInv, NoLostWakeup
<1>7. QED
  BY <1>2, <1>3, <1>5, <1>6 DEF QueueIInv

LEMMA QueueStutters ==
  ASSUME QueueIInv, UNCHANGED queueAllVars
  PROVE  QueueIInv'
<1>1. /\ Value' = Value /\ \A t \in Thread : (Op(t) = Op(t)') /\ (Running(t)' <=> Running(t))
  BY DEF queueAllVars, Value, Op, Running
<1>2. PlacesOK' /\ ItemsOK'
  BY <1>1 DEF QueueIInv, queueAllVars, PlacesOK, ItemsOK
<1>3. LockInv' /\ Limit' /\ NoLostWakeup'
  BY <1>1 DEF QueueIInv, queueAllVars, LockInv, Limit, NoLostWakeup
<1>4. QED
  BY <1>2, <1>3 DEF QueueIInv

LEMMA QueueSteps ==
  ASSUME QueueIInv, [QueueNext]_queueAllVars
  PROVE  QueueIInv'
<1>1. CASE UNCHANGED queueAllVars
  BY <1>1, QueueStutters
<1>2. ASSUME NEW t \in Thread, Step(t) \/ Rest(t) \/ RunOut(t) \/ Fire(t)
      PROVE  QueueIInv'
  BY <1>2, PlacesStep, ItemsStep, WakeupStep DEF QueueIInv
<1>3. QED
  BY <1>1, <1>2 DEF QueueNext

\* In every state of a thread queue the items are within max-elements, whoever works
\* on them owns the mutex, and a thread that gave the queue up to suspend has an event
\* pending or is registered with who will resume it, whatever signals were left over
\* from its earlier calls.
THEOREM QueueCorrect == QueueSpec => []QueueInv
<1>1. QueueInit => QueueIInv
  BY QueueStarts
<1>2. QueueIInv /\ [QueueNext]_queueAllVars => QueueIInv'
  BY QueueSteps
<1>3. QueueIInv => QueueInv
  BY MutexName DEF QueueIInv, QueueInv, TypeOK, PlacesOK, ItemsOK, LockInv, Limit
<1>4. QED
  BY <1>1, <1>2, <1>3, PTL DEF QueueSpec

-----------------------------------------------------------------------------
(* What becomes of the items.                                               *)

\* Thread t has queued the item of its k-th call.
Done(t, k) == k < call[t] \/ (k = call[t] /\ pc[t] = "leave")

\* Every item in the history `sent' is that of a call that has done its work.
SentBy ==
  \A x \in ToSet(sent) : \E t \in Thread : \E k \in DOMAIN load.program[t] :
    /\ load.program[t][k].op \in Sending /\ load.program[t][k].item = x
    /\ Done(t, k)

NoPush == \A t \in Thread : \A c \in ToSet(load.program[t]) : c.op # "push!"

\* Without push!, the queue holds the last items that were sent, and what a thread has
\* received came before, in this order.
Gone == Len(sent) - Len(items)

Suffix ==
  /\ Gone \in Nat
  /\ \A i \in DOMAIN items : items[i] = sent[Gone + i]

\* The elements of r are among the first n of s, in this order.
Among(r, s, n) ==
  /\ \A i \in DOMAIN r : \E k \in 1 .. n : s[k] = r[i]
  /\ \A i, j \in DOMAIN r : i < j =>
       \E k, l \in 1 .. n : k < l /\ s[k] = r[i] /\ s[l] = r[j]

FromBefore == \A t \in Thread : Among(received[t], sent, Gone)

\* The inductive invariant behind ItemsDelivered.
DeliveryIInv == SentBy /\ NothingLost /\ (NoPush => Suffix /\ FromBefore)

\* The item that a call is about to queue has not been queued before.
LEMMA ItemIsFresh ==
  ASSUME QueueIInv, SentBy, NEW t \in Thread, pc[t] = "body", Op(t) \in Sending
  PROVE  Item(t) \in Value /\ Item(t) \notin ToSet(sent)
<1>1. Running(t) /\ load \in Workloads /\ call[t] \in Nat
  BY DEF QueueIInv, LockInv, PlacesOK
<1>2. call[t] \in DOMAIN load.program[t] /\ Item(t) \in Value
  BY <1>1, CallOK DEF QueueIInv
<1>3. SUFFICES ASSUME Item(t) \in ToSet(sent) PROVE FALSE
  BY <1>2
<1>4. PICK u \in Thread : \E k \in DOMAIN load.program[u] :
        /\ load.program[u][k].op \in Sending /\ load.program[u][k].item = Item(t)
        /\ Done(u, k)
  BY <1>3 DEF SentBy
<1>5. PICK k \in DOMAIN load.program[u] :
        /\ load.program[u][k].op \in Sending /\ load.program[u][k].item = Item(t)
        /\ Done(u, k)
  BY <1>4
<1>6. u = t /\ k = call[t]
  BY <1>1, <1>2, <1>5, WorkloadAssumption DEF Op, Item
<1>7. QED
  BY <1>1, <1>5, <1>6 DEF Done

\* Calls stay done.
LEMMA DoneStays ==
  ASSUME PlacesOK, ItemsOK, NEW t \in Thread, Step(t) \/ Rest(t) \/ RunOut(t) \/ Fire(t),
         NEW u \in Thread, NEW k \in Nat, Done(u, k)
  PROVE  Done(u, k)'
<1>1. pc \in [Thread -> Labels] /\ call \in [Thread -> Nat \ {0}]
  BY DEF PlacesOK
<1>2. CASE End(t)
  <2>1. pc[t] = "leave" /\ pc' = [pc EXCEPT ![t] = "next"] /\ call' = [call EXCEPT ![t] = @ + 1]
    BY <1>2 DEF End, unlock_thread_mutex
  <2>2. CASE u = t
    <3>1. k <= call[t] /\ call'[t] = call[t] + 1 /\ call[t] \in Nat
      BY <1>1, <2>1, <2>2 DEF Done
    <3>2. QED
      BY <2>2, <3>1 DEF Done
  <2>3. CASE u # t
    <3>1. call'[u] = call[u] /\ pc'[u] = pc[u]
      BY <1>1, <2>1, <2>3
    <3>2. QED
      BY <3>1 DEF Done
  <2>4. QED
    BY <2>2, <2>3
<1>3. CASE Body(t)
  <2>1. pc[t] = "body" /\ UNCHANGED call /\ \A v \in Thread \ {t} : pc'[v] = pc[v]
    BY <1>1, <1>3, BodyMeaning
  <2>2. QED
    BY <2>1 DEF Done
<1>4. CASE ~End(t) /\ ~Body(t)
  <2>1. UNCHANGED call
    BY <1>4 DEF Step, Begin, Unlock, Suspend, LockAgain, Locked, Rest, RunOut, Fire
  <2>2. pc' = pc \/ (pc[t] # "leave" /\ \E there : pc' = [pc EXCEPT ![t] = there])
    BY <1>4 DEF Step, Begin, Unlock, Suspend, LockAgain, Locked, Rest, RunOut, Fire,
       lock_thread_mutex, unlock_thread_mutex, suspend_current_thread, LockWait, Consume
  <2>3. pc'[u] = pc[u] \/ pc[u] # "leave"
    BY <1>1, <2>2
  <2>4. QED
    BY <2>1, <2>3 DEF Done
<1>5. QED
  BY <1>2, <1>3, <1>4

\* What a step in the body does with the items: nothing, put one behind or in front,
\* take the first, give up the last one for a new one or the new one itself, or all.
Keeps == UNCHANGED <<items, sent, received, dropped>>

Queues(x) == items' = Append(items, x) /\ sent' = Append(sent, x) /\ UNCHANGED <<received, dropped>>

Pushes(x) == items' = <<x>> \o items /\ sent' = Append(sent, x) /\ UNCHANGED <<received, dropped>>

Clobbers(x) ==
  /\ items # <<>> /\ items' = <<x>> \o SubSeq(items, 1, Len(items) - 1)
  /\ sent' = Append(sent, x)
  /\ dropped' = dropped \cup {Last(items)} /\ UNCHANGED received

Wastes(x) == sent' = Append(sent, x) /\ dropped' = dropped \cup {x} /\ UNCHANGED <<items, received>>

Takes(t) ==
  /\ items # <<>> /\ items' = Tail(items)
  /\ received' = [received EXCEPT ![t] = Append(@, Head(items))] /\ UNCHANGED <<sent, dropped>>

Empties == items' = <<>> /\ dropped' = dropped \cup ToSet(items) /\ UNCHANGED <<sent, received>>

LEMMA BodyEffects ==
  ASSUME PlacesOK, NEW t \in Thread, Body(t)
  PROVE  \/ Keeps \/ Takes(t) \/ Empties
         \/ Op(t) \in Sending /\ pc'[t] = "leave" /\ Queues(Item(t))
         \/ /\ Op(t) = "push!" /\ pc'[t] = "leave"
            /\ Pushes(Item(t)) \/ Clobbers(Item(t)) \/ Wastes(Item(t))
<1>1. ASSUME pc' = [pc EXCEPT ![t] = "leave"] PROVE pc'[t] = "leave"
  BY <1>1 DEF PlacesOK
<1>2. CASE thread_queue_queue(t) \/ thread_queue_queue_no_hang(t)
  BY <1>1, <1>2
     DEF thread_queue_queue, thread_queue_queue_no_hang, queue_item, AtEnd, Sending, Queues, Keeps
<1>3. CASE thread_queue_push(t)
  BY <1>1, <1>3 DEF thread_queue_push, Pushes
<1>4. CASE PushClobbers(t)
  <2>1. items # <<>>
    BY <1>4 DEF PushClobbers
  <2>2. QED
    BY <1>1, <1>4, <2>1 DEF PushClobbers, Clobbers
<1>5. CASE PushFails(t)
  BY <1>1, <1>5 DEF PushFails, Wastes
<1>6. CASE dequeue_item(t)
  BY <1>6 DEF dequeue_item, Takes
<1>7. CASE thread_queue_empty(t)
  BY <1>7 DEF thread_queue_empty, Empties
<1>8. CASE QueueBlocks(t) \/ peek_item(t) \/ TakeBlocks(t) \/ TakeExpires(t)
  BY <1>8 DEF QueueBlocks, peek_item, TakeBlocks, TakeExpires, Keeps
<1>9. QED
  BY <1>2, <1>3, <1>4, <1>5, <1>6, <1>7, <1>8 DEF Body

\* Every item has one fate, whichever of these happens.
LEMMA FatesKept ==
  ASSUME ItemsOK, NothingLost, UNCHANGED received,
         NEW new, NEW old, new \cap ToSet(sent) = {}, old \subseteq ToSet(items) \cup new,
         ToSet(sent') = ToSet(sent) \cup new, IsInjective(items'),
         ToSet(items') = (ToSet(items) \cup new) \ old, dropped' = dropped \cup old
  PROVE  NothingLost'
<1> DEFINE got == UNION {ToSet(received[t]) : t \in Thread}
<1>1. got' = got
  OBVIOUS
<1>2. \A t \in Thread : ToSet(received[t]) \subseteq got
  OBVIOUS
<1>3. ToSet(sent) = ToSet(items) \cup dropped \cup got
  BY DEF NothingLost
<1>4. got \cap (ToSet(items) \cup dropped) = {}
  BY DEF NothingLost
<1> HIDE DEF got
<1>5. ToSet(sent') = ToSet(items') \cup dropped' \cup got'
  BY <1>1, <1>3
<1>6. ToSet(items') \cap dropped' = {} /\ got \cap (ToSet(items') \cup dropped') = {}
  BY <1>3, <1>4 DEF NothingLost
<1>7. \A t \in Thread : ToSet(received'[t]) \cap (ToSet(items') \cup dropped') = {}
  BY <1>2, <1>6
<1>8. \A t \in Thread : /\ IsInjective(received'[t])
                       /\ \A u \in Thread \ {t} : ToSet(received'[t]) \cap ToSet(received'[u]) = {}
  BY DEF NothingLost
<1>9. QED
  BY <1>5, <1>6, <1>7, <1>8 DEF NothingLost, got

LEMMA QueuesKeeps ==
  ASSUME ItemsOK, NothingLost, NEW x \in Value, x \notin ToSet(sent), Queues(x) \/ Pushes(x)
  PROVE  NothingLost'
<1> HIDE DEF Value
<1>1. items \in Seq(Value) /\ sent \in Seq(Value) /\ IsInjective(items) /\ x \notin ToSet(items)
  BY DEF ItemsOK, NothingLost
<1>2. ToSet(items') = ToSet(items) \cup {x} /\ IsInjective(items')
  <2>1. CASE items' = Append(items, x)
    BY <1>1, <2>1, AppendSet
  <2>2. CASE items' = <<x>> \o items
    BY <1>1, <2>2, ConsSet
  <2>3. QED
    BY <2>1, <2>2 DEF Queues, Pushes
<1>3. ToSet(sent') = ToSet(sent) \cup {x} /\ UNCHANGED <<received, dropped>>
  BY <1>1, AppendSet, ZenonT(60) DEF Queues, Pushes
<1>4. QED
  <2>1. {x} \cap ToSet(sent) = {} /\ {} \subseteq ToSet(items) \cup {x}
        /\ ToSet(items') = (ToSet(items) \cup {x}) \ {} /\ dropped' = dropped \cup {}
    BY <1>2, <1>3
  <2>2. UNCHANGED received
    BY <1>3
  <2>3. QED
    BY <1>2, <1>3, <2>1, <2>2, FatesKept

LEMMA ClobbersKeeps ==
  ASSUME ItemsOK, NothingLost, NEW x \in Value, x \notin ToSet(sent), Clobbers(x)
  PROVE  NothingLost'
<1> HIDE DEF Value
<1> DEFINE f == SubSeq(items, 1, Len(items) - 1)
<1>1. items \in Seq(Value) /\ sent \in Seq(Value) /\ IsInjective(items) /\ x \notin ToSet(items)
  BY DEF ItemsOK, NothingLost
<1>2. /\ f \in Seq(Value) /\ IsInjective(f) /\ Last(items) \in ToSet(items)
      /\ ToSet(f) = ToSet(items) \ {Last(items)}
  BY <1>1, FrontSet DEF Clobbers
<1>3. items' = <<x>> \o f
  BY DEF Clobbers
<1> HIDE DEF f
<1>4. ToSet(items') = ToSet(f) \cup {x} /\ IsInjective(items')
  BY <1>1, <1>2, <1>3, ConsSet
<1>5. ToSet(sent') = ToSet(sent) \cup {x} /\ UNCHANGED received
  BY <1>1, AppendSet DEF Clobbers
<1>6. /\ {x} \cap ToSet(sent) = {} /\ {Last(items)} \subseteq ToSet(items) \cup {x}
      /\ ToSet(items') = (ToSet(items) \cup {x}) \ {Last(items)}
      /\ dropped' = dropped \cup {Last(items)}
  BY <1>1, <1>2, <1>4 DEF Clobbers
<1>7. QED
  BY <1>4, <1>5, <1>6, FatesKept

LEMMA WastesKeeps ==
  ASSUME ItemsOK, NothingLost, NEW x \in Value, x \notin ToSet(sent), Wastes(x)
  PROVE  NothingLost'
<1> HIDE DEF Value
<1>1. sent \in Seq(Value) /\ IsInjective(items') /\ x \notin ToSet(items)
  BY DEF ItemsOK, NothingLost, Wastes
<1>2. ToSet(sent') = ToSet(sent) \cup {x} /\ UNCHANGED <<items, received>>
  BY <1>1, AppendSet DEF Wastes
<1>3. /\ {x} \cap ToSet(sent) = {} /\ {x} \subseteq ToSet(items) \cup {x}
      /\ ToSet(items') = (ToSet(items) \cup {x}) \ {x} /\ dropped' = dropped \cup {x}
  BY <1>1, <1>2 DEF Wastes
<1>4. UNCHANGED received
  BY <1>2
<1>5. QED
  BY <1>1, <1>2, <1>3, <1>4, FatesKept

LEMMA EmptiesKeeps ==
  ASSUME ItemsOK, NothingLost, Empties
  PROVE  NothingLost'
<1>1. ToSet(items') = {} /\ IsInjective(items')
  BY EmptySet DEF Empties
<1>2. /\ {} \cap ToSet(sent) = {} /\ ToSet(items) \subseteq ToSet(items) \cup {}
      /\ ToSet(sent') = ToSet(sent) \cup {} /\ ToSet(items') = (ToSet(items) \cup {}) \ ToSet(items)
      /\ dropped' = dropped \cup ToSet(items) /\ UNCHANGED received
  BY <1>1 DEF Empties
<1>3. QED
  BY <1>1, <1>2, FatesKept

\* The first item goes to the thread that takes it, and nowhere else.
LEMMA TakesKeeps ==
  ASSUME ItemsOK, NothingLost, NEW t \in Thread, Takes(t)
  PROVE  NothingLost'
<1> HIDE DEF Value
<1> DEFINE h == Head(items)
           G(f) == UNION {ToSet(f[u]) : u \in Thread}
<1>1. /\ items \in Seq(Value) /\ items # <<>> /\ IsInjective(items)
      /\ received \in [Thread -> Seq(Value)] /\ h \in Value
  BY DEF ItemsOK, NothingLost, Takes
<1>2. /\ h \in ToSet(items) /\ ToSet(items') = ToSet(items) \ {h} /\ IsInjective(items')
  BY <1>1, TailSet DEF Takes
<1>3. /\ received'[t] = Append(received[t], h) /\ \A u \in Thread \ {t} : received'[u] = received[u]
      /\ UNCHANGED <<sent, dropped>>
  BY <1>1 DEF Takes
<1>4. h \notin dropped /\ \A u \in Thread : h \notin ToSet(received[u])
  BY <1>2 DEF NothingLost
<1>5. ToSet(received'[t]) = ToSet(received[t]) \cup {h} /\ IsInjective(received'[t])
  <2>1. received[t] \in Seq(Value) /\ IsInjective(received[t]) /\ h \notin ToSet(received[t])
    BY <1>1, <1>4 DEF NothingLost
  <2>2. QED
    BY <1>1, <1>3, <2>1, AppendSet
<1> HIDE DEF h
<1>6. G(received') = G(received) \cup {h}
  <2>1. ASSUME NEW x PROVE x \in G(received') <=> x \in G(received) \cup {h}
    <3>1. \A u \in Thread : x \in ToSet(received'[u]) <=> x \in ToSet(received[u]) \/ (u = t /\ x = h)
      BY <1>3, <1>5
    <3>2. QED
      BY <3>1
  <2>2. QED
    BY <2>1
<1>7. ToSet(sent') = ToSet(items') \cup dropped' \cup G(received')
  <2>1. ToSet(sent) = ToSet(items) \cup dropped \cup G(received)
    BY DEF NothingLost
  <2> HIDE DEF G
  <2>2. QED
    BY <1>2, <1>3, <1>6, <2>1
<1>8. ToSet(items') \cap dropped' = {}
  BY <1>2, <1>3 DEF NothingLost
<1>9. ASSUME NEW u \in Thread
      PROVE  /\ IsInjective(received'[u])
             /\ ToSet(received'[u]) \cap (ToSet(items') \cup dropped') = {}
             /\ \A v \in Thread \ {u} : ToSet(received'[u]) \cap ToSet(received'[v]) = {}
  <2>1. IsInjective(received'[u])
    BY <1>3, <1>5 DEF NothingLost
  <2>2. /\ ToSet(received[u]) \cap (ToSet(items) \cup dropped) = {}
        /\ \A v \in Thread \ {u} : ToSet(received[u]) \cap ToSet(received[v]) = {}
        /\ ToSet(items) \cap dropped = {}
    BY DEF NothingLost
  <2>3. \A v \in Thread : ToSet(received'[v]) = IF v = t THEN ToSet(received[v]) \cup {h}
                                                ELSE ToSet(received[v])
    BY <1>3, <1>5
  <2>4. ToSet(received'[u]) \cap (ToSet(items') \cup dropped') = {}
    BY <1>2, <1>3, <1>4, <2>2, <2>3
  <2>5. \A v \in Thread \ {u} : ToSet(received'[u]) \cap ToSet(received'[v]) = {}
    BY <1>4, <2>2, <2>3
  <2>6. QED
    BY <2>1, <2>4, <2>5
<1>10. QED
  BY <1>2, <1>7, <1>8, <1>9 DEF NothingLost

\* More may come behind the first n, and the next one may be added.
LEMMA AmongMore ==
  ASSUME NEW n \in Nat, NEW m \in Nat, n <= m, NEW r, NEW s, NEW z, Among(r, s, n),
         \A k \in 1 .. n : s[k] = z[k]
  PROVE  Among(r, z, m)
<1>1. \A k \in 1 .. n : k \in 1 .. m
  OBVIOUS
<1>2. ASSUME NEW i \in DOMAIN r PROVE \E k \in 1 .. m : z[k] = r[i]
  BY <1>1 DEF Among
<1>3. ASSUME NEW i \in DOMAIN r, NEW j \in DOMAIN r, i < j
      PROVE  \E k, l \in 1 .. m : k < l /\ z[k] = r[i] /\ z[l] = r[j]
  <2>1. PICK k, l \in 1 .. n : k < l /\ s[k] = r[i] /\ s[l] = r[j]
    BY <1>3 DEF Among
  <2>2. z[k] = r[i] /\ z[l] = r[j] /\ k \in 1 .. m /\ l \in 1 .. m
    BY <1>1, <2>1
  <2>3. QED
    BY <2>1, <2>2
<1>4. QED
  BY <1>2, <1>3 DEF Among

LEMMA AmongNext ==
  ASSUME NEW S, NEW n \in Nat, NEW r \in Seq(S), NEW s, Among(r, s, n), s[n + 1] \in S
  PROVE  Among(Append(r, s[n + 1]), s, n + 1)
<1> DEFINE x == s[n + 1]
           a == Append(r, x)
           q == Len(r)
<1>1. /\ q \in Nat /\ DOMAIN r = 1 .. q /\ DOMAIN a = 1 .. q + 1
      /\ a[q + 1] = x /\ \A i \in 1 .. q : a[i] = r[i]
  OBVIOUS
<1> HIDE DEF a, q
<1>2. \A k \in 1 .. n : k < n + 1 /\ k \in 1 .. n + 1
  OBVIOUS
<1>3. n + 1 \in 1 .. n + 1
  OBVIOUS
<1>4. ASSUME NEW i \in DOMAIN a PROVE \E k \in 1 .. n + 1 : s[k] = a[i]
  <2>1. CASE i = q + 1
    BY <1>1, <1>3, <2>1
  <2>2. CASE i # q + 1
    <3>1. i \in DOMAIN r /\ a[i] = r[i]
      BY <1>1, <2>2
    <3>2. PICK k \in 1 .. n : s[k] = r[i]
      BY <3>1 DEF Among
    <3>3. QED
      BY <1>2, <3>1, <3>2
  <2>3. QED
    BY <2>1, <2>2
<1>5. ASSUME NEW i \in DOMAIN a, NEW j \in DOMAIN a, i < j
      PROVE  \E k, l \in 1 .. n + 1 : k < l /\ s[k] = a[i] /\ s[l] = a[j]
  <2>1. i \in DOMAIN r /\ a[i] = r[i]
    BY <1>1, <1>5
  <2>2. CASE j = q + 1
    <3>1. PICK k \in 1 .. n : s[k] = r[i]
      BY <2>1 DEF Among
    <3>2. s[k] = a[i] /\ s[n + 1] = a[j] /\ k < n + 1 /\ k \in 1 .. n + 1
      BY <1>1, <1>2, <2>1, <2>2, <3>1
    <3>3. QED
      BY <1>3, <3>2
  <2>3. CASE j # q + 1
    <3>1. j \in DOMAIN r /\ a[j] = r[j]
      BY <1>1, <2>3
    <3>2. PICK k, l \in 1 .. n : k < l /\ s[k] = r[i] /\ s[l] = r[j]
      BY <1>5, <2>1, <3>1 DEF Among
    <3>3. QED
      BY <1>2, <2>1, <3>1, <3>2
  <2>4. QED
    BY <2>2, <2>3
<1>6. Among(a, s, n + 1)
  BY <1>4, <1>5 DEF Among
<1>7. QED
  BY <1>6 DEF a

\* The order of the items.
LEMMA OrderKept ==
  ASSUME ItemsOK, Suffix, FromBefore, NEW x \in Value, NEW t \in Thread,
         Keeps \/ Queues(x) \/ Takes(t) \/ Empties
  PROVE  Suffix' /\ FromBefore'
<1> HIDE DEF Value
<1> DEFINE n == Len(sent)
           m == Len(items)
<1>1. /\ items \in Seq(Value) /\ sent \in Seq(Value) /\ received \in [Thread -> Seq(Value)]
      /\ n \in Nat /\ m \in Nat /\ DOMAIN items = 1 .. m /\ DOMAIN sent = 1 .. n
  BY DEF ItemsOK
<1>2. Gone = n - m /\ n - m \in Nat /\ \A i \in 1 .. m : items[i] = sent[Gone + i]
  BY <1>1 DEF Suffix, Gone
<1>3. CASE Keeps
  <2>1. UNCHANGED <<items, sent, received>> /\ Gone' = Gone
    BY <1>3 DEF Keeps, Gone
  <2>2. Suffix'
    BY <2>1 DEF Suffix
  <2>3. FromBefore'
    BY <2>1 DEF FromBefore
  <2>4. QED
    BY <2>2, <2>3
<1>4. CASE Queues(x)
  <2>1. items' = Append(items, x) /\ sent' = Append(sent, x) /\ UNCHANGED received
    BY <1>4 DEF Queues
  <2>2. /\ Len(items') = m + 1 /\ Len(sent') = n + 1 /\ DOMAIN items' = 1 .. m + 1
        /\ items'[m + 1] = x /\ sent'[n + 1] = x
        /\ \A i \in 1 .. m : items'[i] = items[i]
        /\ \A i \in 1 .. n : sent'[i] = sent[i]
    BY <1>1, <2>1
  <2>3. Gone' = Gone
    BY <1>1, <2>2 DEF Gone
  <2>4. ASSUME NEW i \in 1 .. m + 1 PROVE items'[i] = sent'[Gone + i]
    <3>1. CASE i = m + 1
      BY <1>1, <1>2, <2>2, <3>1
    <3>2. CASE i # m + 1
      <4>1. i \in 1 .. m /\ Gone + i \in 1 .. n
        BY <1>1, <1>2, <3>2
      <4>2. QED
        BY <1>2, <2>2, <4>1
    <3>3. QED
      BY <3>1, <3>2
  <2>5. Suffix'
    BY <1>2, <2>2, <2>3, <2>4 DEF Suffix
  <2>6. \A k \in 1 .. Gone : sent'[k] = sent[k]
    BY <1>1, <1>2, <2>2
  <2>7. FromBefore'
    <3>1. Gone \in Nat
      BY <1>2
    <3>2. \A u \in Thread : Among(received[u], sent', Gone)
      BY <2>6, <3>1, AmongMore DEF FromBefore
    <3>3. QED
      BY <2>1, <2>3, <3>2 DEF FromBefore
  <2>8. QED
    BY <2>5, <2>7
<1>5. CASE Empties
  <2>1. Len(items') = 0 /\ DOMAIN items' = {} /\ UNCHANGED <<sent, received>>
    BY <1>5 DEF Empties
  <2>2. Gone' = n
    BY <1>1, <2>1 DEF Gone
  <2>3. Gone \in Nat /\ Gone <= n
    BY <1>1, <1>2
  <2>4. Suffix'
    BY <1>1, <2>1, <2>2 DEF Suffix
  <2>5. FromBefore'
    <3>1. \A u \in Thread : Among(received[u], sent, n)
      BY <1>1, <2>3, AmongMore DEF FromBefore
    <3>2. QED
      BY <2>1, <2>2, <3>1 DEF FromBefore
  <2>6. QED
    BY <2>4, <2>5
<1>6. CASE Takes(t)
  <2>1. /\ items # <<>> /\ items' = Tail(items) /\ UNCHANGED sent
        /\ received'[t] = Append(received[t], Head(items))
        /\ \A u \in Thread \ {t} : received'[u] = received[u]
    BY <1>1, <1>6 DEF Takes
  <2>2. /\ m > 0 /\ Len(items') = m - 1 /\ DOMAIN items' = 1 .. m - 1 /\ Head(items) = items[1]
        /\ \A i \in 1 .. m - 1 : items'[i] = items[i + 1]
    BY <1>1, <2>1
  <2>3. Gone' = Gone + 1 /\ Gone + 1 \in Nat
    BY <1>1, <1>2, <2>1, <2>2 DEF Gone
  <2>4. ASSUME NEW i \in 1 .. m - 1 PROVE items'[i] = sent[Gone + 1 + i]
    <3>1. i + 1 \in 1 .. m /\ Gone + (i + 1) = Gone + 1 + i
      BY <1>1, <1>2
    <3>2. QED
      BY <1>2, <2>2, <3>1
  <2>5. Suffix'
    BY <2>1, <2>2, <2>3, <2>4 DEF Suffix
  <2>6. Head(items) = sent[Gone + 1]
    BY <1>1, <1>2, <2>2
  <2>7. Gone \in Nat /\ Gone <= Gone + 1
    BY <1>2
  <2>8. ASSUME NEW u \in Thread PROVE Among(received'[u], sent, Gone + 1)
    <3>1. CASE u # t
      BY <2>1, <2>3, <2>7, <3>1, AmongMore DEF FromBefore
    <3>2. CASE u = t
      <4>1. received[t] \in Seq(Value) /\ sent[Gone + 1] \in Value /\ Among(received[t], sent, Gone)
        BY <1>1, <2>1, <2>6 DEF FromBefore
      <4>2. QED
        BY <2>1, <2>6, <2>7, <3>2, <4>1, AmongNext
    <3>3. QED
      BY <3>1, <3>2
  <2>9. FromBefore'
    BY <2>1, <2>3, <2>8 DEF FromBefore
  <2>10. QED
    BY <2>5, <2>9
<1>7. QED
  BY <1>3, <1>4, <1>5, <1>6

LEMMA SentByKept ==
  ASSUME QueueIInv, SentBy, NEW t \in Thread, Step(t) \/ Rest(t) \/ RunOut(t) \/ Fire(t),
         UNCHANGED load,
         \/ ToSet(sent') = ToSet(sent)
         \/ /\ pc[t] = "body" /\ pc'[t] = "leave" /\ UNCHANGED call /\ Op(t) \in Sending
            /\ ToSet(sent') = ToSet(sent) \cup {Item(t)}
  PROVE  SentBy'
<1>1. ASSUME NEW x \in ToSet(sent)
      PROVE  \E u \in Thread : \E k \in DOMAIN load.program[u] :
               /\ load.program[u][k].op \in Sending /\ load.program[u][k].item = x
               /\ Done(u, k)'
  <2>1. PICK u \in Thread : \E k \in DOMAIN load.program[u] :
          /\ load.program[u][k].op \in Sending /\ load.program[u][k].item = x
          /\ Done(u, k)
    BY DEF SentBy
  <2>2. PICK k \in DOMAIN load.program[u] :
          /\ load.program[u][k].op \in Sending /\ load.program[u][k].item = x
          /\ Done(u, k)
    BY <2>1
  <2>3. k \in Nat
    <3> DEFINE p == load.program[u]
    <3>1. p \in Seq(ToSet(p)) /\ k \in DOMAIN p
      BY WorkloadAssumption DEF QueueIInv, PlacesOK
    <3> HIDE DEF p
    <3>2. QED
      BY <3>1
  <2>4. Done(u, k)'
    BY <2>2, <2>3, DoneStays DEF QueueIInv
  <2>5. QED
    BY <2>2, <2>4
<1>2. ASSUME pc[t] = "body", pc'[t] = "leave", UNCHANGED call, Op(t) \in Sending
      PROVE  \E u \in Thread : \E k \in DOMAIN load.program[u] :
               /\ load.program[u][k].op \in Sending /\ load.program[u][k].item = Item(t)
               /\ Done(u, k)'
  <2>1. Running(t)
    BY <1>2 DEF QueueIInv, LockInv
  <2>2. call[t] \in DOMAIN load.program[t]
    BY <2>1, CallOK DEF QueueIInv
  <2>3. load.program[t][call[t]].op \in Sending /\ load.program[t][call[t]].item = Item(t)
    BY <1>2 DEF Op, Item
  <2>4. Done(t, call[t])'
    BY <1>2 DEF Done
  <2>5. \A k : k = call[t] => Done(t, k)'
    BY <1>2 DEF Done
  <2>6. QED
    BY <2>2, <2>3, <2>5
<1>3. QED
  BY <1>1, <1>2 DEF SentBy

LEMMA DeliveryNext ==
  ASSUME QueueIInv, DeliveryIInv, [QueueNext]_queueAllVars
  PROVE  DeliveryIInv'
<1>1. CASE UNCHANGED queueAllVars
  <2>1. NoPush' <=> NoPush
    BY <1>1 DEF queueAllVars, NoPush
  <2>2. NothingLost'
    BY <1>1 DEF queueAllVars, DeliveryIInv, NothingLost
  <2>3. SentBy'
    BY <1>1 DEF queueAllVars, DeliveryIInv, SentBy, Done
  <2>4. Suffix /\ FromBefore => Suffix' /\ FromBefore'
    BY <1>1 DEF queueAllVars, Suffix, FromBefore, Gone
  <2>5. QED
    BY <2>1, <2>2, <2>3, <2>4 DEF DeliveryIInv
<1>2. ASSUME NEW t \in Thread, Step(t) \/ Rest(t) \/ RunOut(t) \/ Fire(t)
      PROVE  DeliveryIInv'
  <2>1. CASE ~Body(t)
    <3>1. UNCHANGED <<items, sent, received, dropped, load>>
      BY <1>2, <2>1, OutsideBody
    <3>2. NoPush' <=> NoPush
      BY <3>1 DEF NoPush
    <3>3. NothingLost'
      BY <3>1 DEF DeliveryIInv, NothingLost
    <3>4. SentBy'
      <4>1. ToSet(sent') = ToSet(sent)
        BY <3>1
      <4>2. QED
        BY <1>2, <3>1, <4>1, SentByKept DEF DeliveryIInv
    <3>5. Suffix /\ FromBefore => Suffix' /\ FromBefore'
      BY <3>1 DEF Suffix, FromBefore, Gone
    <3>6. QED
      BY <3>2, <3>3, <3>4, <3>5 DEF DeliveryIInv
  <2>2. CASE Body(t)
    <3> DEFINE x == Item(t)
    <3>1. /\ pc[t] = "body" /\ UNCHANGED <<load, call>> /\ Running(t)
      BY <2>2, BodyMeaning DEF QueueIInv, LockInv
    <3>2. x \in Value /\ call[t] \in DOMAIN load.program[t]
      BY <3>1, CallOK DEF QueueIInv
    <3>3. Op(t) \in Sending => x \notin ToSet(sent)
      BY <3>1, ItemIsFresh DEF DeliveryIInv
    <3>4. NoPush => Op(t) # "push!"
      <4>1. load.program[t][call[t]] \in ToSet(load.program[t])
        BY <3>2, ToSetMeaning
      <4>2. QED
        BY <4>1 DEF NoPush, Op
    <3>5. sent \in Seq(Value) /\ ItemsOK
      BY DEF QueueIInv, ItemsOK
    <3>6. NoPush' <=> NoPush
      BY <3>1 DEF NoPush
    <3>7. \/ Keeps \/ Takes(t) \/ Empties
          \/ Op(t) \in Sending /\ pc'[t] = "leave" /\ Queues(x)
          \/ Op(t) = "push!" /\ pc'[t] = "leave" /\ (Pushes(x) \/ Clobbers(x) \/ Wastes(x))
      BY <2>2, BodyEffects DEF QueueIInv
    <3> HIDE DEF x, Value
    <3>8. CASE Keeps \/ Takes(t) \/ Empties
      <4>1. NothingLost'
        BY <3>5, <3>8, TakesKeeps, EmptiesKeeps DEF DeliveryIInv, Keeps, NothingLost
      <4>2. ToSet(sent') = ToSet(sent)
        BY <3>8 DEF Keeps, Takes, Empties
      <4>3. SentBy'
        BY <1>2, <3>1, <4>2, SentByKept DEF DeliveryIInv
      <4>4. Suffix /\ FromBefore => Suffix' /\ FromBefore'
        BY <3>2, <3>5, <3>8, OrderKept
      <4>5. QED
        BY <3>6, <4>1, <4>3, <4>4 DEF DeliveryIInv
    <3>9. CASE Op(t) \in Sending /\ pc'[t] = "leave" /\ Queues(x)
      <4>1. NothingLost'
        BY <3>2, <3>3, <3>5, <3>9, QueuesKeeps DEF DeliveryIInv
      <4>2. ToSet(sent') = ToSet(sent) \cup {x}
        BY <3>2, <3>5, <3>9, AppendSet DEF Queues
      <4>3. SentBy'
        BY <1>2, <3>1, <3>9, <4>2, SentByKept DEF DeliveryIInv, x
      <4>4. Suffix /\ FromBefore => Suffix' /\ FromBefore'
        BY <3>2, <3>5, <3>9, OrderKept
      <4>5. QED
        BY <3>6, <4>1, <4>3, <4>4 DEF DeliveryIInv
    <3>10. CASE Op(t) = "push!" /\ pc'[t] = "leave" /\ (Pushes(x) \/ Clobbers(x) \/ Wastes(x))
      <4>1. Op(t) \in Sending
        BY <3>10 DEF Sending
      <4>2. NothingLost'
        BY <3>2, <3>3, <3>5, <3>10, <4>1, QueuesKeeps, ClobbersKeeps, WastesKeeps DEF DeliveryIInv
      <4>3. ToSet(sent') = ToSet(sent) \cup {x}
        <5>1. sent' = Append(sent, x)
          BY <3>10 DEF Pushes, Clobbers, Wastes
        <5>2. QED
          BY <3>2, <3>5, <5>1, AppendSet
      <4>4. SentBy'
        BY <1>2, <3>1, <3>10, <4>1, <4>3, SentByKept DEF DeliveryIInv, x
      <4>5. QED
        BY <3>4, <3>6, <3>10, <4>2, <4>4 DEF DeliveryIInv
    <3>11. QED
      BY <3>7, <3>8, <3>9, <3>10
  <2>3. QED
    BY <2>1, <2>2
<1>3. QED
  BY <1>1, <1>2 DEF QueueNext

LEMMA DeliveryInit ==
  ASSUME QueueInit
  PROVE  DeliveryIInv
<1>1. /\ items = <<>> /\ sent = <<>> /\ dropped = {}
      /\ \A t \in Thread : received[t] = <<>>
  BY DEF QueueInit, QueueEmpty
<1>2. NothingLost
  BY <1>1, EmptySet DEF NothingLost
<1>3. SentBy
  BY <1>1, EmptySet DEF SentBy
<1>4. Gone = 0
  BY <1>1 DEF Gone
<1>5. Suffix /\ FromBefore
  BY <1>1, <1>4 DEF Suffix, FromBefore, Among
<1>6. QED
  BY <1>2, <1>3, <1>5 DEF DeliveryIInv

LEMMA DeliverySuffices ==
  ASSUME QueueIInv, DeliveryIInv
  PROVE  ItemsDelivered
<1>1. ASSUME NoPush, NEW t \in Thread, NEW i \in DOMAIN received[t], NEW j \in DOMAIN received[t], i < j
      PROVE  \E k, l \in DOMAIN sent :
               k < l /\ sent[k] = received[t][i] /\ sent[l] = received[t][j]
  <2>1. Among(received[t], sent, Gone) /\ Gone \in Nat
    BY <1>1 DEF DeliveryIInv, Suffix, FromBefore
  <2>2. Gone <= Len(sent) /\ DOMAIN sent = 1 .. Len(sent) /\ Len(sent) \in Nat
    BY DEF Gone, QueueIInv, ItemsOK
  <2>3. PICK k, l \in 1 .. Gone : k < l /\ sent[k] = received[t][i] /\ sent[l] = received[t][j]
    BY <1>1, <2>1 DEF Among
  <2>4. k \in DOMAIN sent /\ l \in DOMAIN sent
    BY <2>1, <2>2
  <2>5. QED
    BY <2>3, <2>4
<1>2. InOrder
  BY <1>1 DEF InOrder, NoPush
<1>3. QED
  BY <1>2 DEF DeliveryIInv, ItemsDelivered

\* Every item that is queued is in the queue, has been received by one thread and once,
\* or was dropped by empty! or push!; and, as test-thread-queue.scm asserts, a thread
\* receives items in the order in which they were queued when nobody pushes any.
THEOREM ItemsAreDelivered == QueueSpec => []ItemsDelivered
<1>1. QueueInit => QueueIInv /\ DeliveryIInv
  BY QueueStarts, DeliveryInit
<1>2. QueueIInv /\ DeliveryIInv /\ [QueueNext]_queueAllVars => QueueIInv' /\ DeliveryIInv'
  BY QueueSteps, DeliveryNext
<1>3. QueueIInv /\ DeliveryIInv => ItemsDelivered
  BY DeliverySuffices
<1>4. QED
  BY <1>1, <1>2, <1>3, PTL DEF QueueSpec
=============================================================================
