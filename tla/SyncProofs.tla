----------------------------- MODULE SyncProofs -----------------------------
(***************************************************************************)
(* The condition variable of runtime/condvar.scm and the barrier of        *)
(* runtime/thread-barrier.scm, proved for every set of threads.            *)
(***************************************************************************)
EXTENDS ThreadBarrier, SequenceTheorems, FiniteSetTheorems, TLAPS

-----------------------------------------------------------------------------
(* Lists that hold an element at most once.                                 *)

Once(s) == \A i, j \in DOMAIN s : s[i] = s[j] => i = j

LEMMA ToSetMeaning ==
  ASSUME NEW s, NEW x
  PROVE  x \in ToSet(s) <=> \E i \in DOMAIN s : s[i] = x
  BY DEF ToSet

LEMMA SameSuccessor ==
  ASSUME NEW i \in Int, NEW j \in Int, i + 1 = j + 1
  PROVE  i = j
  OBVIOUS

\* What a list holds after an element was put behind it.
LEMMA AppendSet ==
  ASSUME NEW S, NEW s \in Seq(S), NEW x \in S
  PROVE  /\ ToSet(Append(s, x)) = ToSet(s) \cup {x}
         /\ Once(s) /\ x \notin ToSet(s) => Once(Append(s, x))
<1> DEFINE l == Append(s, x)
<1>1. /\ l \in Seq(S) /\ Len(l) = Len(s) + 1 /\ Len(s) \in Nat
      /\ DOMAIN l = 1 .. Len(s) + 1 /\ DOMAIN s = 1 .. Len(s)
  OBVIOUS
<1>2. l[Len(s) + 1] = x /\ \A i \in 1 .. Len(s) : l[i] = s[i]
  OBVIOUS
<1>3. ASSUME NEW y PROVE y \in ToSet(l) <=> y \in ToSet(s) \cup {x}
  <2>1. y \in ToSet(l) <=> \E i \in 1 .. Len(s) + 1 : l[i] = y
    BY <1>1, ToSetMeaning
  <2>2. y \in ToSet(s) <=> \E i \in 1 .. Len(s) : s[i] = y
    BY <1>1, ToSetMeaning
  <2>3. QED
    BY <1>1, <1>2, <2>1, <2>2
<1>4. ASSUME Once(s), x \notin ToSet(s) PROVE Once(l)
  <2>1. \A i \in 1 .. Len(s) : s[i] # x
    BY <1>1, <1>4, ToSetMeaning
  <2>2. QED
    BY <1>1, <1>2, <1>4, <2>1 DEF Once
<1>5. QED
  BY <1>3, <1>4

\* Where the elements are when one list is put behind another, and when the one at
\* place k was taken out.
LEMMA ConcatPlaces ==
  ASSUME NEW S, NEW a \in Seq(S), NEW b \in Seq(S)
  PROVE  /\ DOMAIN (a \o b) = 1 .. Len(a) + Len(b)
         /\ \A i \in 1 .. Len(a) + Len(b) :
              (a \o b)[i] = IF i <= Len(a) THEN a[i] ELSE b[i - Len(a)]
  OBVIOUS

LEMMA RemoveAtPlaces ==
  ASSUME NEW S, NEW s \in Seq(S), NEW k \in DOMAIN s
  PROVE  /\ DOMAIN RemoveAt(s, k) = 1 .. Len(s) - 1
         /\ \A i \in 1 .. k - 1 : RemoveAt(s, k)[i] = s[i]
         /\ \A i \in k .. Len(s) - 1 : RemoveAt(s, k)[i] = s[i + 1]
<1> DEFINE n == Len(s)
           a == SubSeq(s, 1, k - 1)
           b == SubSeq(s, k + 1, n)
<1>1. n \in Nat /\ DOMAIN s = 1 .. n /\ k \in 1 .. n
  OBVIOUS
<1>2. a \in Seq(S) /\ Len(a) = k - 1 /\ \A i \in 1 .. k - 1 : a[i] = s[i]
  BY <1>1
<1>3. b \in Seq(S) /\ Len(b) = n - k /\ \A i \in 1 .. n - k : b[i] = s[k + i]
  BY <1>1
<1>4. RemoveAt(s, k) = a \o b
  BY DEF RemoveAt
<1> HIDE DEF a, b
<1>5. /\ DOMAIN (a \o b) = 1 .. n - 1
      /\ \A i \in 1 .. k - 1 : (a \o b)[i] = a[i]
      /\ \A i \in k .. n - 1 : (a \o b)[i] = b[i - (k - 1)]
  <2>1. Len(a) + Len(b) = n - 1 /\ Len(a) = k - 1
    BY <1>1, <1>2, <1>3
  <2>2. /\ DOMAIN (a \o b) = 1 .. Len(a) + Len(b)
        /\ \A i \in 1 .. Len(a) + Len(b) :
             (a \o b)[i] = IF i <= Len(a) THEN a[i] ELSE b[i - Len(a)]
    BY <1>2, <1>3, ConcatPlaces
  <2> DEFINE l == a \o b
  <2> HIDE DEF l
  <2>3. /\ DOMAIN l = 1 .. n - 1
        /\ \A i \in 1 .. n - 1 : l[i] = IF i <= k - 1 THEN a[i] ELSE b[i - (k - 1)]
    BY <2>1, <2>2 DEF l
  <2>4. ASSUME NEW i \in 1 .. k - 1 PROVE l[i] = a[i]
    <3>1. i \in 1 .. n - 1 /\ i <= k - 1
      BY <1>1
    <3>2. QED
      BY <2>3, <3>1
  <2>5. ASSUME NEW i \in k .. n - 1 PROVE l[i] = b[i - (k - 1)]
    <3>1. i \in 1 .. n - 1 /\ ~(i <= k - 1)
      BY <1>1
    <3>2. QED
      BY <2>3, <3>1
  <2>6. QED
    BY <2>3, <2>4, <2>5 DEF l
<1>6. ASSUME NEW i \in k .. n - 1 PROVE b[i - (k - 1)] = s[i + 1]
  <2>1. i - (k - 1) \in 1 .. n - k /\ k + (i - (k - 1)) = i + 1
    BY <1>1
  <2>2. QED
    BY <1>3, <2>1
<1> DEFINE l == a \o b
<1>7. \A i \in k .. n - 1 : l[i] = s[i + 1]
  BY <1>5, <1>6
<1>8. \A i \in 1 .. k - 1 : l[i] = s[i]
  BY <1>2, <1>5
<1>9. DOMAIN l = 1 .. n - 1 /\ RemoveAt(s, k) = l
  BY <1>4, <1>5
<1> HIDE DEF l
<1>10. QED
  BY <1>7, <1>8, <1>9

\* What a list holds then.
LEMMA RemoveAtSet ==
  ASSUME NEW S, NEW s \in Seq(S), NEW k \in DOMAIN s, Once(s)
  PROVE  Once(RemoveAt(s, k)) /\ ToSet(RemoveAt(s, k)) = ToSet(s) \ {s[k]}
<1> DEFINE l == RemoveAt(s, k)
           n == Len(s)
<1>1. n \in Nat /\ DOMAIN s = 1 .. n /\ k \in 1 .. n
  OBVIOUS
<1>2. /\ DOMAIN l = 1 .. n - 1
      /\ \A i \in 1 .. k - 1 : l[i] = s[i]
      /\ \A i \in k .. n - 1 : l[i] = s[i + 1]
  BY RemoveAtPlaces
<1>3. Once(l)
  <2> SUFFICES ASSUME NEW i \in 1 .. n - 1, NEW j \in 1 .. n - 1, l[i] = l[j]
               PROVE  i = j
    BY <1>2 DEF Once
  <2>1. CASE i < k /\ j < k
    BY <1>1, <1>2, <2>1 DEF Once
  <2>2. CASE i < k /\ j >= k
    BY <1>1, <1>2, <2>2, SMTT(30) DEF Once
  <2>3. CASE i >= k /\ j < k
    BY <1>1, <1>2, <2>3, SMTT(30) DEF Once
  <2>4. CASE i >= k /\ j >= k
    <3>1. i + 1 = j + 1
      BY <1>1, <1>2, <2>4 DEF Once
    <3>2. QED
      BY <3>1, SameSuccessor
  <2>5. QED
    BY <1>1, <2>1, <2>2, <2>3, <2>4
<1>4. ASSUME NEW y PROVE y \in ToSet(l) <=> y \in ToSet(s) \ {s[k]}
  <2>1. y \in ToSet(l) <=> \E i \in 1 .. n - 1 : l[i] = y
    BY <1>2, ToSetMeaning
  <2>2. y \in ToSet(s) <=> \E i \in 1 .. n : s[i] = y
    BY <1>1, ToSetMeaning
  <2>3. ASSUME NEW i \in 1 .. n - 1, l[i] = y PROVE y \in ToSet(s) \ {s[k]}
    <3>1. CASE i < k
      BY <1>1, <1>2, <2>2, <2>3, <3>1 DEF Once
    <3>2. CASE i >= k
      BY <1>1, <1>2, <2>2, <2>3, <3>2 DEF Once
    <3>3. QED
      BY <1>1, <3>1, <3>2
  <2>4. ASSUME NEW i \in 1 .. n, s[i] = y, y # s[k] PROVE y \in ToSet(l)
    <3>1. CASE i < k
      BY <1>1, <1>2, <2>1, <2>4, <3>1
    <3>2. CASE i > k
      <4>1. i - 1 \in k .. n - 1 /\ i - 1 \in 1 .. n - 1 /\ (i - 1) + 1 = i
        BY <1>1, <3>2
      <4>2. l[i - 1] = y
        BY <1>2, <2>4, <4>1
      <4>3. QED
        BY <2>1, <4>1, <4>2
    <3>3. QED
      BY <1>1, <2>4, <3>1, <3>2
  <2>5. QED
    BY <2>1, <2>2, <2>3, <2>4
<1>5. QED
  BY <1>3, <1>4

\* The rest of a list.
LEMMA TailSet ==
  ASSUME NEW S, NEW s \in Seq(S), s # <<>>, Once(s)
  PROVE  /\ Head(s) \in ToSet(s) /\ Head(s) \notin ToSet(Tail(s))
         /\ ToSet(Tail(s)) = ToSet(s) \ {Head(s)}
         /\ Once(Tail(s))
<1>1. /\ Len(s) \in Nat /\ Len(s) > 0 /\ DOMAIN s = 1 .. Len(s)
      /\ Head(s) = s[1] /\ DOMAIN Tail(s) = 1 .. Len(s) - 1
      /\ \A i \in 1 .. Len(s) - 1 : Tail(s)[i] = s[i + 1]
  OBVIOUS
<1>2. 1 \in DOMAIN s
  BY <1>1
<1>3. RemoveAt(s, 1) = Tail(s)
  <2>1. SubSeq(s, 1, 0) = <<>> /\ SubSeq(s, 2, Len(s)) = Tail(s) /\ Tail(s) \in Seq(S)
    BY <1>1
  <2>2. RemoveAt(s, 1) = SubSeq(s, 1, 0) \o SubSeq(s, 2, Len(s))
    BY DEF RemoveAt
  <2>3. <<>> \o Tail(s) = Tail(s)
    BY <2>1
  <2>4. QED
    BY <2>1, <2>2, <2>3
<1>4. Head(s) \in ToSet(s)
  BY <1>1, <1>2, ToSetMeaning
<1>5. Once(RemoveAt(s, 1)) /\ ToSet(RemoveAt(s, 1)) = ToSet(s) \ {s[1]}
  BY <1>2, RemoveAtSet
<1>6. QED
  BY <1>1, <1>3, <1>4, <1>5

-----------------------------------------------------------------------------
(* The lock of the condition variable.                                      *)

\* Where the clients of the condition variable, and the barrier, are outside its calls.
Clients == {"idle", "locked", "out", "arrive", "again", "passed"}

\* Where a call goes on with the lock of the condition variable just taken, and where
\* it has it.
Entries == {"enqueue", "cleanup", "signal-at", "broadcast-at"}
Locked == Signalling \cup {"enqueue", "enqueued", "cleanup", "cleaned", "signalled"}

PlacesOK ==
  /\ pc \in [Thread -> Labels \cup Clients]
  /\ locking \in [Thread -> [mutex : Mutex, then : Entries \cup Clients \cup {"none"}]]
  /\ owner \in [Mutex -> Thread \cup {NoThread}]
  /\ ring \in [Mutex -> Seq(Thread)]
  /\ ret \in [Thread -> Clients]

\* Whoever is past a lock-thread-mutex of the lock has it, and a thread that waits in
\* lock-thread-mutex waits for the mutex that it will need.
LockInv ==
  /\ PlacesOK
  /\ \A t \in Thread :
       /\ pc[t] \in Locked => owner["condvar"] = t
       /\ pc[t] = "lock" => locking[t].then # "none"
       /\ pc[t] = "lock" /\ locking[t].then \in Entries => locking[t].mutex = "condvar"

USE DEF suspensionVars, condVars, Jump

LEMMA MutexNames == "condvar" \in Mutex /\ "mutex" \in Mutex
  BY CondVarAssumption

\* lock-thread-mutex keeps LockInv.
LEMMA LockMoves ==
  ASSUME LockInv, NEW t \in Thread, NEW m \in Mutex, NEW then \in Entries \cup Clients,
         then \in Entries => m = "condvar", lock_thread_mutex(t, m, then), UNCHANGED ret
  PROVE  LockInv'
<1>1. PlacesOK'
  <2>1. then \in Labels \cup Clients /\ "lock" \in Labels
    BY DEF Entries, Labels
  <2>2. pc' \in [Thread -> Labels \cup Clients]
    BY <2>1 DEF LockInv, PlacesOK, lock_thread_mutex
  <2>3. locking' \in [Thread -> [mutex : Mutex, then : Entries \cup Clients \cup {"none"}]]
    <3> DEFINE R == [mutex : Mutex, then : Entries \cup Clients \cup {"none"}]
               r == [mutex |-> m, then |-> then]
    <3>1. r \in R
      OBVIOUS
    <3>2. locking \in [Thread -> R] /\ (UNCHANGED locking \/ locking' = [locking EXCEPT ![t] = r])
      BY DEF LockInv, PlacesOK, lock_thread_mutex
    <3> HIDE DEF R, r
    <3>3. locking' \in [Thread -> R]
      BY <3>1, <3>2
    <3>4. QED
      BY <3>3 DEF R
  <2>4. ring' \in [Mutex -> Seq(Thread)]
    <3>1. Append(ring[m], t) \in Seq(Thread)
      BY DEF LockInv, PlacesOK
    <3>2. QED
      BY <3>1 DEF LockInv, PlacesOK, lock_thread_mutex
  <2>5. owner' \in [Mutex -> Thread \cup {NoThread}] /\ ret' \in [Thread -> Clients]
    BY DEF LockInv, PlacesOK, lock_thread_mutex
  <2>6. QED
    BY <2>2, <2>3, <2>4, <2>5 DEF PlacesOK
<1>2. ASSUME NEW u \in Thread, pc'[u] \in Locked PROVE owner'["condvar"] = u
  <2>1. CASE u = t
    BY <1>2, <2>1, MutexNames
       DEF LockInv, PlacesOK, lock_thread_mutex, Locked, Signalling, Entries, Clients
  <2>2. CASE u # t
    <3>1. owner["condvar"] = u /\ u # NoThread
      BY <1>2, <2>2, ThreadsAssumption DEF LockInv, PlacesOK, lock_thread_mutex
    <3>2. QED
      BY <3>1, MutexNames DEF LockInv, PlacesOK, lock_thread_mutex
  <2>3. QED
    BY <2>1, <2>2
<1>3. ASSUME NEW u \in Thread, pc'[u] = "lock"
      PROVE  /\ locking'[u].then # "none"
             /\ locking'[u].then \in Entries => locking'[u].mutex = "condvar"
  BY <1>3 DEF LockInv, PlacesOK, lock_thread_mutex, Entries, Clients
<1>4. QED
  BY <1>1, <1>2, <1>3 DEF LockInv

\* unlock-thread-mutex, which leaves for a place without the lock, keeps it.
LEMMA UnlockMoves ==
  ASSUME LockInv, NEW t \in Thread, NEW m \in Mutex,
         NEW then \in (Labels \cup Clients) \ (Locked \cup {"lock"}),
         unlock_thread_mutex(t, m, then), UNCHANGED ret
  PROVE  LockInv'
<1>1. PlacesOK'
  <2>1. ring[m] \in Seq(Thread)
    BY DEF LockInv, PlacesOK
  <2>2. ring[m] # <<>> => Head(ring[m]) \in Thread /\ Tail(ring[m]) \in Seq(Thread)
    BY <2>1
  <2>3. pc' \in [Thread -> Labels \cup Clients] /\ UNCHANGED <<locking, ret>>
    BY DEF LockInv, PlacesOK, unlock_thread_mutex
  <2>4. ring' \in [Mutex -> Seq(Thread)]
    BY <2>2 DEF LockInv, PlacesOK, unlock_thread_mutex
  <2>5. owner' \in [Mutex -> Thread \cup {NoThread}]
    BY <2>2 DEF LockInv, PlacesOK, unlock_thread_mutex
  <2>6. QED
    <3>1. locking' = locking /\ ret' = ret
      BY <2>3
    <3>2. QED
      BY <2>3, <2>4, <2>5, <3>1 DEF LockInv, PlacesOK
<1>2. ASSUME NEW u \in Thread, pc'[u] \in Locked PROVE owner'["condvar"] = u
  <2>1. u # t /\ pc[u] \in Locked
    BY <1>2 DEF LockInv, PlacesOK, unlock_thread_mutex
  <2>2. owner["condvar"] = u /\ owner[m] = t
    BY <2>1 DEF LockInv, unlock_thread_mutex
  <2>3. m # "condvar"
    BY <2>1, <2>2
  <2>4. \E x : owner' = [owner EXCEPT ![m] = x]
    BY DEF unlock_thread_mutex
  <2>5. QED
    BY <2>2, <2>3, <2>4, MutexNames DEF LockInv, PlacesOK
<1>3. ASSUME NEW u \in Thread, pc'[u] = "lock"
      PROVE  /\ locking'[u].then # "none"
             /\ locking'[u].then \in Entries => locking'[u].mutex = "condvar"
  BY <1>3 DEF LockInv, PlacesOK, unlock_thread_mutex
<1>4. QED
  BY <1>1, <1>2, <1>3 DEF LockInv

\* A step without a mutex does not come by the lock.
LEMMA JumpMoves ==
  ASSUME LockInv, NEW t \in Thread, NEW there \in (Labels \cup Clients) \ {"lock"},
         there \in Locked => pc[t] \in Locked, Jump(t, there),
         UNCHANGED <<locking, owner, ring>>, ret' \in [Thread -> Clients]
  PROVE  LockInv'
  BY DEF LockInv, PlacesOK

\* The loop of %lock-thread-mutex ends with the mutex.
LEMMA LockWaitMoves ==
  ASSUME LockInv, NEW t \in Thread, LockWait(t), UNCHANGED ret
  PROVE  LockInv'
<1>1. NoLock \in [mutex : Mutex, then : Entries \cup Clients \cup {"none"}]
  BY MutexNames DEF NoLock
<1> DEFINE l == locking[t]
<1>2. /\ pc[t] = "lock" /\ l.then \in Entries \cup Clients
      /\ l.then \in Entries => l.mutex = "condvar"
  BY DEF LockInv, PlacesOK, LockWait
<1>3. CASE owner[l.mutex] = t
  <2>1. /\ pc' = [pc EXCEPT ![t] = l.then] /\ UNCHANGED <<owner, ring>>
        /\ locking' = [locking EXCEPT ![t] = NoLock]
    BY <1>3 DEF LockWait
  <2>2. l.then \in Labels \cup Clients /\ l.then # "lock"
        /\ (l.then \in Locked => l.then \in Entries)
    BY <1>2 DEF Entries, Labels, Clients, Locked, Signalling
  <2> HIDE DEF l
  <2>3. QED
    BY <1>1, <1>2, <1>3, <2>1, <2>2 DEF LockInv, PlacesOK
<1>4. CASE owner[l.mutex] # t
  BY <1>4 DEF LockWait, LockInv, PlacesOK
<1>5. QED
  BY <1>3, <1>4

\* Every step of the condition variable keeps it.
LEMMA LockStep ==
  ASSUME LockInv, NEW t \in Thread, CondVarStep(t) \/ Interrupt(t) \/ Expire(t)
  PROVE  LockInv'
<1> DEFINE Free == (Labels \cup Clients) \ (Locked \cup {"lock"})
<1>1. ret[t] \in Clients /\ Clients \subseteq Free
  BY DEF LockInv, PlacesOK, Clients, Locked, Signalling
<1>2. {"release", "loop", "relock"} \subseteq Free
  BY DEF Labels, Locked, Signalling
<1>3. CASE WaitLock(t) \/ Clean(t) \/ SignalLock(t)
  <2>1. \E then \in Entries : lock_thread_mutex(t, "condvar", then)
    BY <1>3 DEF WaitLock, Clean, SignalLock, Entries
  <2>2. UNCHANGED ret
    BY <1>3 DEF WaitLock, Clean, SignalLock
  <2>3. QED
    BY <2>1, <2>2, LockMoves, MutexNames
<1>4. CASE Relock(t)
  <2>1. ret[t] \notin Entries
    BY <1>1 DEF Clients, Entries
  <2>2. QED
    BY <1>1, <1>4, <2>1, LockMoves, MutexNames DEF Relock
<1>5. CASE Enqueued(t) \/ Release(t) \/ Cleaned(t) \/ Signalled(t)
  <2>1. \E m \in Mutex, then \in Free : unlock_thread_mutex(t, m, then)
    BY <1>1, <1>2, <1>5, MutexNames DEF Enqueued, Release, Cleaned, Signalled
  <2>2. UNCHANGED ret
    BY <1>5 DEF Enqueued, Release, Cleaned, Signalled
  <2>3. QED
    BY <2>1, <2>2, UnlockMoves
<1>6. CASE CondVarLocked(t)
  BY <1>6, LockWaitMoves DEF CondVarLocked
<1>7. CASE Expire(t)
  BY <1>7 DEF Expire, LockInv, PlacesOK
<1>8. CASE \/ enqueue_waiter(t) \/ WaitLoop(t) \/ WaitSuspend(t) \/ Cleanup(t) \/ SignalSkip(t)
           \/ SignalWaiter(t) \/ Mark(t) \/ RemoveWaiter(t) \/ Interrupt(t)
  <2>1. UNCHANGED <<locking, owner, ring, ret>>
    BY <1>8 DEF enqueue_waiter, WaitLoop, WaitSuspend, suspend_current_thread, Cleanup,
       SignalSkip, SignalWaiter, Mark, RemoveWaiter, Interrupt, Goto
  <2>2. CASE WaitLoop(t) \/ WaitSuspend(t)
    <3>1. \E there \in {"clean", "suspend", "loop"} : Jump(t, there)
      BY <2>2 DEF WaitLoop, WaitSuspend, suspend_current_thread, Goto
    <3>2. QED
      BY <2>1, <3>1, JumpMoves DEF LockInv, PlacesOK, Labels, Locked, Signalling
  <2>3. CASE ~(WaitLoop(t) \/ WaitSuspend(t))
    <3>1. pc[t] \in Locked
      BY <1>8, <2>3 DEF enqueue_waiter, Cleanup, SignalSkip, SignalWaiter, Mark, RemoveWaiter,
         Interrupt, Locked, Signalling
    <3>2. \E there \in Locked : Jump(t, there)
      BY <1>8, <2>3 DEF enqueue_waiter, Cleanup, SignalSkip, SignalWaiter, Mark, RemoveWaiter,
         Interrupt, Goto, Locked, Signalling
    <3>3. Locked \subseteq Labels /\ "lock" \notin Locked
      BY DEF Locked, Signalling, Labels
    <3>4. QED
      BY <2>1, <3>1, <3>2, <3>3, JumpMoves DEF LockInv, PlacesOK
  <2>4. QED
    BY <2>2, <2>3
<1>9. QED
  BY <1>3, <1>4, <1>5, <1>6, <1>7, <1>8 DEF CondVarStep

-----------------------------------------------------------------------------
(* The list of waiters.                                                     *)

Marking == {"mark", "remove", "mark-all", "remove-all"}
Removing == {"remove", "remove-all"}
Waits == {"enqueued", "release", "loop", "suspend"}

\* The thread has a waiter that may be linked.
Linked(t) ==
  \/ pc[t] \in Waits \cup {"clean", "cleanup"}
  \/ pc[t] = "lock" /\ locking[t].then = "cleanup"

\* The inductive invariant behind WaitersInv: the signaller removes a waiter that it
\* found linked and has marked, and the linked waiters are those of threads between
\* enqueue-waiter! and their clean-up.
ListInv ==
  /\ waiters \in Seq(Thread) /\ Once(waiters)
  /\ \A t \in Thread :
       /\ pc[t] \in Marking => waiters # <<>>
       /\ pc[t] \in Removing => Head(waiters) \in done
       /\ t \in ToSet(waiters) => Linked(t)
       /\ pc[t] \in Waits => t \in ToSet(waiters) \/ t \in done

CondVarIInv == LockInv /\ ListInv

\* Thread t moves without touching the list, and not to where it would need it changed.
Quiet(t) ==
  /\ UNCHANGED <<waiters, done>>
  /\ \A u \in Thread \ {t} : pc'[u] = pc[u] /\ locking'[u] = locking[u]
  /\ Linked(t) => Linked(t)'
  /\ pc'[t] \in Marking => waiters # <<>>
  /\ pc'[t] \in Removing => Head(waiters) \in done
  /\ pc'[t] \in Waits => pc[t] \in Waits

LEMMA QuietKeeps ==
  ASSUME ListInv, NEW t \in Thread, Quiet(t)
  PROVE  ListInv'
<1>1. ASSUME NEW u \in Thread
      PROVE  /\ pc'[u] \in Marking => waiters # <<>>
             /\ pc'[u] \in Removing => Head(waiters) \in done
             /\ Linked(u) => Linked(u)'
             /\ pc'[u] \in Waits => pc[u] \in Waits
  BY DEF Quiet, ListInv, Linked
<1>2. QED
  BY <1>1 DEF Quiet, ListInv

\* What lock-thread-mutex, unlock-thread-mutex and a jump leave alone.
LEMMA OthersStay ==
  ASSUME PlacesOK, NEW t \in Thread, NEW m, NEW then,
         \/ lock_thread_mutex(t, m, then) \/ unlock_thread_mutex(t, m, then)
         \/ (Jump(t, then) /\ UNCHANGED locking) \/ LockWait(t)
  PROVE  \A u \in Thread \ {t} : pc'[u] = pc[u] /\ locking'[u] = locking[u]
  BY DEF PlacesOK, lock_thread_mutex, unlock_thread_mutex, LockWait

\* The calls that move without touching the list.
LEMMA QuietSteps ==
  ASSUME LockInv, NEW t \in Thread,
         \/ WaitLock(t) \/ Enqueued(t) \/ Release(t) \/ WaitLoop(t) \/ WaitSuspend(t)
         \/ Clean(t) \/ Cleaned(t) \/ Relock(t) \/ SignalLock(t) \/ SignalWaiter(t)
         \/ Signalled(t) \/ CondVarLocked(t) \/ Interrupt(t) \/ Expire(t)
  PROVE  Quiet(t)
<1> USE DEF LockInv
<1>1. ret[t] \in Clients /\ pc \in [Thread -> Labels \cup Clients]
  BY DEF PlacesOK
<1>2. CASE WaitLock(t) \/ Clean(t) \/ SignalLock(t) \/ Relock(t)
  <2>1. PICK m \in Mutex, then \in {"enqueue", "cleanup", "signal-at", "broadcast-at", ret[t]} :
          /\ lock_thread_mutex(t, m, then)
          /\ Linked(t) => then = "cleanup"
    BY <1>2, MutexNames DEF WaitLock, Clean, SignalLock, Relock, Linked, Waits
  <2>2. UNCHANGED <<waiters, done>>
    BY <1>2 DEF WaitLock, Clean, SignalLock, Relock
  <2>3. then \notin Marking \cup Removing \cup Waits \cup {"lock"}
    BY <1>1, <2>1 DEF Marking, Removing, Waits, Clients
  <2>4. \/ pc'[t] = then
        \/ pc'[t] = "lock" /\ locking'[t].then = then
    BY <1>1, <2>1 DEF lock_thread_mutex, PlacesOK
  <2>5. pc[t] # "lock"
    BY <1>2 DEF WaitLock, Clean, SignalLock, Relock
  <2>6. Linked(t) => Linked(t)'
    BY <2>1, <2>4, <2>5 DEF Linked, Waits
  <2>7. pc'[t] \notin Marking \cup Removing \cup Waits
    BY <2>3, <2>4 DEF Marking, Removing, Waits
  <2>8. QED
    BY <2>1, <2>2, <2>6, <2>7, OthersStay DEF Quiet
<1>3. CASE Enqueued(t) \/ Release(t) \/ Cleaned(t) \/ Signalled(t)
  <2>1. PICK m \in Mutex, then \in {"release", "loop", "relock", ret[t]} :
          /\ unlock_thread_mutex(t, m, then)
          /\ Linked(t) => then \in {"release", "loop"}
          /\ then \in Waits => pc[t] \in Waits
    BY <1>1, <1>3, MutexNames DEF Enqueued, Release, Cleaned, Signalled, Linked, Waits, Clients
  <2>2. UNCHANGED <<waiters, done>>
    BY <1>3 DEF Enqueued, Release, Cleaned, Signalled
  <2>3. pc'[t] = then
    BY <1>1, <2>1 DEF unlock_thread_mutex
  <2>4. then \notin Marking \cup Removing
    BY <1>1, <2>1 DEF Marking, Removing, Clients
  <2>5. QED
    BY <2>1, <2>2, <2>3, <2>4, OthersStay DEF Quiet, Linked, Waits
<1>4. CASE CondVarLocked(t)
  <2>1. /\ pc[t] = "lock" /\ LockWait(t) /\ UNCHANGED <<waiters, done>>
        /\ locking[t].then \in Entries \cup Clients
    BY <1>4 DEF CondVarLocked, LockWait, PlacesOK
  <2>2. \/ pc'[t] = locking[t].then
        \/ pc'[t] = "lock" /\ locking'[t] = locking[t]
    BY <1>1, <2>1 DEF LockWait
  <2>3. pc'[t] \notin Marking \cup Removing \cup Waits
    BY <2>1, <2>2 DEF Marking, Removing, Waits, Entries, Clients
  <2>4. Linked(t) => Linked(t)'
    BY <2>1, <2>2 DEF Linked, Waits
  <2>5. QED
    BY <2>1, <2>3, <2>4, OthersStay DEF Quiet
<1>5. CASE WaitLoop(t) \/ WaitSuspend(t) \/ SignalWaiter(t) \/ Interrupt(t)
  <2>1. UNCHANGED <<locking, waiters, done>>
    BY <1>5 DEF WaitLoop, WaitSuspend, suspend_current_thread, SignalWaiter, Interrupt, Goto
  <2>2. PICK there \in {"clean", "suspend", "loop", "mark", "mark-all", "signalled"} :
          /\ Jump(t, there)
          /\ Linked(t) => there \in {"clean", "suspend", "loop"}
          /\ there \in Waits => pc[t] \in Waits
          /\ there \in {"mark", "mark-all"} => waiters # <<>>
    BY <1>5 DEF WaitLoop, WaitSuspend, suspend_current_thread, SignalWaiter, Interrupt, Goto,
       Linked, Waits, Signalling
  <2>3. pc'[t] = there
    BY <1>1, <2>2
  <2>4. QED
    BY <2>1, <2>2, <2>3, OthersStay DEF Quiet, Linked, Waits, Marking, Removing
<1>6. CASE Expire(t)
  <2>1. UNCHANGED <<pc, locking, waiters, done>> /\ pc[t] \in {"loop", "suspend", "clean"}
    BY <1>6 DEF Expire
  <2>2. QED
    BY <2>1 DEF Quiet, Linked, Waits, Marking, Removing
<1>7. QED
  BY <1>2, <1>3, <1>4, <1>5, <1>6

\* The owner of the lock works on the list alone.
LEMMA Alone ==
  ASSUME LockInv, NEW t \in Thread, pc[t] \in Locked, NEW u \in Thread, u # t
  PROVE  pc[u] \notin Locked
  BY DEF LockInv

LEMMA MarkingLocked == Marking \subseteq Locked /\ Removing \subseteq Marking /\ "lock" \notin Locked
  BY DEF Marking, Removing, Locked, Signalling

\* enqueue-waiter! keeps ListInv.
LEMMA EnqueueKeeps ==
  ASSUME LockInv, ListInv, NEW t \in Thread, enqueue_waiter(t)
  PROVE  ListInv'
<1>1. /\ pc[t] = "enqueue" /\ pc' = [pc EXCEPT ![t] = "enqueued"] /\ UNCHANGED locking
      /\ waiters' = Append(waiters, t) /\ done' = done \ {t}
  BY DEF enqueue_waiter, Goto
<1>2. pc[t] \in Locked /\ ~Linked(t)
  BY <1>1 DEF Locked, Linked, Waits
<1>3. t \notin ToSet(waiters)
  BY <1>2 DEF ListInv
<1>4. waiters' \in Seq(Thread) /\ Once(waiters') /\ ToSet(waiters') = ToSet(waiters) \cup {t}
  <2>1. waiters \in Seq(Thread) /\ Once(waiters)
    BY DEF ListInv
  <2>2. QED
    BY <1>1, <1>3, <2>1, AppendSet
<1>5. pc'[t] = "enqueued" /\ \A u \in Thread \ {t} : pc'[u] = pc[u]
  BY <1>1 DEF LockInv, PlacesOK
<1>6. ASSUME NEW u \in Thread
      PROVE  /\ pc'[u] \notin Marking
             /\ u \in ToSet(waiters') => Linked(u)'
             /\ pc'[u] \in Waits => u \in ToSet(waiters') \/ u \in done'
  <2>1. CASE u = t
    BY <1>4, <1>5, <2>1 DEF Marking, Linked, Waits
  <2>2. CASE u # t
    <3>1. pc'[u] = pc[u] /\ locking'[u] = locking[u] /\ (u \in done' <=> u \in done)
          /\ (u \in ToSet(waiters') <=> u \in ToSet(waiters))
      BY <1>1, <1>4, <1>5, <2>2
    <3>2. pc[u] \notin Marking
      BY <1>2, <2>2, Alone, MarkingLocked
    <3>3. QED
      BY <3>1, <3>2 DEF ListInv, Linked
  <2>3. QED
    BY <2>1, <2>2
<1>7. QED
  BY <1>4, <1>6, MarkingLocked DEF ListInv

\* remove-waiter! of a waiter that is done, or by its own thread.
LEMMA RemoveKeeps ==
  ASSUME LockInv, ListInv, NEW t \in Thread, pc[t] \in Locked, pc'[t] \notin Marking \cup Waits,
         \A u \in Thread \ {t} : pc'[u] = pc[u] /\ locking'[u] = locking[u],
         NEW x, x \in done \/ x = t, t \in ToSet(waiters) => x = t,
         waiters' \in Seq(Thread), Once(waiters'), ToSet(waiters') = ToSet(waiters) \ {x},
         UNCHANGED done
  PROVE  ListInv'
<1>1. ASSUME NEW u \in Thread
      PROVE  /\ pc'[u] \notin Marking
             /\ u \in ToSet(waiters') => Linked(u)'
             /\ pc'[u] \in Waits => u \in ToSet(waiters') \/ u \in done'
  <2>1. CASE u = t
    BY <2>1
  <2>2. CASE u # t
    <3>1. pc[u] \notin Marking
      BY <2>2, Alone, MarkingLocked
    <3>2. QED
      BY <2>2, <3>1 DEF ListInv, Linked
  <2>3. QED
    BY <2>1, <2>2
<1>2. QED
  BY <1>1, MarkingLocked DEF ListInv

\* The steps that change the list or what is done keep ListInv.
LEMMA ListSteps ==
  ASSUME LockInv, ListInv, NEW t \in Thread,
         \/ enqueue_waiter(t) \/ Cleanup(t) \/ SignalSkip(t) \/ Mark(t) \/ RemoveWaiter(t)
  PROVE  ListInv'
<1> USE DEF Goto
<1>1. waiters \in Seq(Thread) /\ Once(waiters) /\ pc \in [Thread -> Labels \cup Clients]
  BY DEF ListInv, LockInv, PlacesOK
<1>2. ASSUME NEW there, Jump(t, there), UNCHANGED locking
      PROVE  /\ pc'[t] = there
             /\ \A u \in Thread \ {t} : pc'[u] = pc[u] /\ locking'[u] = locking[u]
  BY <1>1, <1>2
<1>3. CASE enqueue_waiter(t)
  BY <1>3, EnqueueKeeps
<1>4. CASE Cleanup(t)
  <2>1. /\ pc[t] = "cleanup" /\ Jump(t, "cleaned") /\ UNCHANGED <<locking, done>>
    BY <1>4 DEF Cleanup
  <2>2. pc[t] \in Locked /\ "cleaned" \notin Marking \cup Waits
    BY <2>1 DEF Locked, Marking, Waits
  <2>3. CASE t \notin ToSet(waiters) /\ UNCHANGED waiters
    <3>1. ToSet(waiters') = ToSet(waiters) \ {t}
      BY <2>3
    <3>2. QED
      BY <1>1, <1>2, <2>1, <2>2, <2>3, <3>1, RemoveKeeps
  <2>4. ASSUME NEW i \in DOMAIN waiters, waiters[i] = t, waiters' = RemoveAt(waiters, i)
        PROVE  ListInv'
    <3>1. Once(waiters') /\ ToSet(waiters') = ToSet(waiters) \ {t}
      BY <1>1, <2>4, RemoveAtSet
    <3>2. waiters' \in Seq(Thread)
      BY <1>1, <2>4 DEF RemoveAt
    <3>3. QED
      BY <1>2, <2>1, <2>2, <3>1, <3>2, RemoveKeeps
  <2>5. QED
    BY <1>4, <2>3, <2>4 DEF Cleanup
<1>5. CASE SignalSkip(t) /\ waiters = <<>>
  <2>1. /\ pc[t] \in {"signal-at", "broadcast-at"} /\ Jump(t, "signalled")
        /\ UNCHANGED <<locking, done, waiters>>
    BY <1>5 DEF SignalSkip
  <2>2. QED
    BY <1>2, <2>1, QuietKeeps DEF Quiet, Linked, Waits, Marking, Removing
<1>6. CASE (SignalSkip(t) /\ waiters # <<>>) \/ RemoveWaiter(t)
  <2>1. pc[t] \in Locked /\ ~Linked(t) /\ pc[t] \notin {"mark", "mark-all"}
    BY <1>6 DEF SignalSkip, RemoveWaiter, Locked, Signalling, Linked, Waits
  <2>2. waiters # <<>> /\ Head(waiters) \in done
    BY <1>6, MarkingLocked DEF SignalSkip, RemoveWaiter, ListInv, Marking, Removing
  <2>3. waiters' = Tail(waiters) /\ UNCHANGED <<locking, done>>
    BY <1>6, <2>2 DEF SignalSkip, RemoveWaiter
  <2>4. \E there \in {"signal-at", "broadcast-at", "signalled"} : Jump(t, there)
    BY <1>6, <2>2 DEF SignalSkip, RemoveWaiter
  <2>5. /\ waiters' \in Seq(Thread) /\ Once(waiters')
        /\ ToSet(waiters') = ToSet(waiters) \ {Head(waiters)}
    BY <1>1, <2>2, <2>3, TailSet
  <2>6. t \notin ToSet(waiters)
    BY <2>1 DEF ListInv
  <2>7. pc'[t] \notin Marking \cup Waits
    BY <1>2, <2>3, <2>4 DEF Marking, Waits
  <2>8. \A u \in Thread \ {t} : pc'[u] = pc[u] /\ locking'[u] = locking[u]
    BY <1>2, <2>3, <2>4
  <2>9. QED
    BY <2>1, <2>2, <2>3, <2>5, <2>6, <2>7, <2>8, RemoveKeeps
<1>7. CASE Mark(t)
  <2>1. /\ pc[t] \in {"mark", "mark-all"} /\ done' = done \cup {Head(waiters)}
        /\ UNCHANGED <<waiters, locking>>
    BY <1>7 DEF Mark
  <2>2. \E there \in {"remove", "remove-all"} : Jump(t, there)
    BY <1>7 DEF Mark
  <2>3. pc'[t] \in {"remove", "remove-all"}
        /\ \A u \in Thread \ {t} : pc'[u] = pc[u] /\ locking'[u] = locking[u]
    BY <1>2, <2>1, <2>2
  <2>4. waiters # <<>> /\ ~Linked(t) /\ pc'[t] \notin Waits
    BY <2>1, <2>3 DEF ListInv, Marking, Linked, Waits
  <2>5. ASSUME NEW u \in Thread
        PROVE  /\ pc'[u] \in Marking => waiters' # <<>>
               /\ pc'[u] \in Removing => Head(waiters') \in done'
               /\ u \in ToSet(waiters') => Linked(u)'
               /\ pc'[u] \in Waits => u \in ToSet(waiters') \/ u \in done'
    <3>1. CASE u = t
      BY <2>1, <2>4, <3>1 DEF ListInv
    <3>2. CASE u # t
      BY <2>1, <2>3, <2>4, <3>2 DEF ListInv, Linked
    <3>3. QED
      BY <3>1, <3>2
  <2>6. QED
    BY <1>1, <2>1, <2>5 DEF ListInv
<1>8. QED
  BY <1>3, <1>4, <1>5, <1>6, <1>7

\* Every step of the condition variable keeps the inductive invariant.
LEMMA CondVarSteps ==
  ASSUME CondVarIInv, NEW t \in Thread, CondVarStep(t) \/ Interrupt(t) \/ Expire(t)
  PROVE  CondVarIInv'
<1>1. ListInv'
  BY QuietSteps, QuietKeeps, ListSteps DEF CondVarIInv, CondVarStep
<1>2. QED
  BY <1>1, LockStep DEF CondVarIInv

\* It implies what the assertions of condvar.scm need.
LEMMA WaitersInvHolds ==
  ASSUME CondVarIInv
  PROVE  WaitersInv
<1>1. ASSUME NEW t \in Thread
      PROVE  /\ pc[t] \in Signalling \cup {"enqueue", "cleanup"} => owner["condvar"] = t
             /\ pc[t] = "enqueue" => t \notin ToSet(waiters)
  BY DEF CondVarIInv, LockInv, ListInv, Locked, Linked, Waits
<1>2. \A t \in ToSet(waiters) : t \in Thread
  BY DEF CondVarIInv, ListInv, ToSet
<1>3. \A t \in Thread : Linked(t) => pc[t] \in Labels /\ pc[t] # "relock"
  BY DEF Linked, Waits, Labels
<1>4. QED
  BY <1>1, <1>2, <1>3
     DEF WaitersInv, AssertionsHold, WaiterCanBeSignalled, OnlyWaitersLinked, CondVarIInv,
         ListInv, Once, Marking, Waits

-----------------------------------------------------------------------------
(* What the clients of the condition variable do.                           *)

\* A step of a client outside the calls keeps the inductive invariant.
LEMMA ClientKeeps ==
  ASSUME CondVarIInv, NEW t \in Thread, pc[t] \in Clients, UNCHANGED <<waiters, done>>,
         \/ UNCHANGED ret /\ \E then \in Clients : lock_thread_mutex(t, "mutex", then)
         \/ UNCHANGED ret /\ \E then \in Clients : unlock_thread_mutex(t, "mutex", then)
         \/ /\ ret' \in [Thread -> Clients] /\ UNCHANGED <<locking, owner, ring>>
            /\ \E there \in Clients \cup {"wait", "signal", "broadcast"} : Jump(t, there)
         \/ UNCHANGED <<pc, locking, owner, ring, ret>>
  PROVE  CondVarIInv'
<1> USE DEF CondVarIInv
<1>1. /\ Clients \cap Entries = {} /\ Clients \cap Locked = {} /\ "lock" \notin Clients
      /\ Clients \cap (Marking \cup Removing \cup Waits) = {} /\ "cleanup" \notin Clients
  BY DEF Clients, Entries, Locked, Signalling, Marking, Removing, Waits
<1>2. ~Linked(t)
  BY <1>1 DEF Linked, Clients, Waits
<1>3. pc \in [Thread -> Labels \cup Clients]
  BY DEF LockInv, PlacesOK
<1>4. CASE UNCHANGED ret /\ \E then \in Clients : lock_thread_mutex(t, "mutex", then)
  <2>1. PICK then \in Clients : lock_thread_mutex(t, "mutex", then)
    BY <1>4
  <2>2. LockInv'
    BY <1>1, <1>4, <2>1, LockMoves, MutexNames
  <2>3. pc'[t] \in Clients \cup {"lock"}
    BY <1>3, <2>1 DEF lock_thread_mutex
  <2>4. pc'[t] \notin Marking \cup Removing \cup Waits
    BY <1>1, <2>3 DEF Marking, Removing, Waits
  <2>5. Quiet(t)
    BY <1>2, <2>1, <2>4, OthersStay DEF Quiet, LockInv
  <2>6. QED
    BY <2>2, <2>5, QuietKeeps
<1>5. CASE UNCHANGED ret /\ \E then \in Clients : unlock_thread_mutex(t, "mutex", then)
  <2>1. PICK then \in Clients : unlock_thread_mutex(t, "mutex", then)
    BY <1>5
  <2>2. LockInv'
    BY <1>1, <1>5, <2>1, UnlockMoves, MutexNames
  <2>3. pc'[t] = then
    BY <1>3, <2>1 DEF unlock_thread_mutex
  <2>4. Quiet(t)
    BY <1>1, <1>2, <2>1, <2>3, OthersStay DEF Quiet, LockInv
  <2>5. QED
    BY <2>2, <2>4, QuietKeeps
<1>6. CASE /\ ret' \in [Thread -> Clients] /\ UNCHANGED <<locking, owner, ring>>
           /\ \E there \in Clients \cup {"wait", "signal", "broadcast"} : Jump(t, there)
  <2>1. PICK there \in Clients \cup {"wait", "signal", "broadcast"} : Jump(t, there)
    BY <1>6
  <2>2. there \in (Labels \cup Clients) \ {"lock"} /\ there \notin Locked
    BY <1>1, <2>1 DEF Labels, Locked, Signalling
  <2>3. LockInv'
    BY <1>6, <2>1, <2>2, JumpMoves
  <2>4. pc'[t] = there /\ there \notin Marking \cup Removing \cup Waits
    BY <1>1, <1>3, <2>1 DEF Marking, Removing, Waits
  <2>5. Quiet(t)
    BY <1>2, <1>6, <2>1, <2>4, OthersStay DEF Quiet, LockInv
  <2>6. QED
    BY <2>3, <2>5, QuietKeeps
<1>7. CASE UNCHANGED <<pc, locking, owner, ring, ret>>
  BY <1>7 DEF LockInv, PlacesOK, ListInv, Linked
<1>8. QED
  BY <1>4, <1>5, <1>6, <1>7

LEMMA CondVarInitially ==
  ASSUME NEW start \in Clients, CondVarInit(start)
  PROVE  CondVarIInv
<1>1. NoLock \in [mutex : Mutex, then : Entries \cup Clients \cup {"none"}]
  BY MutexNames DEF NoLock
<1>2. PlacesOK /\ waiters = <<>> /\ pc = [t \in Thread |-> start]
  BY <1>1 DEF CondVarInit, SuspensionInit, PlacesOK
<1>3. start \notin Locked \cup Marking \cup Removing \cup Waits \cup {"lock"}
  BY DEF Clients, Locked, Signalling, Marking, Removing, Waits
<1>4. LockInv
  BY <1>2, <1>3 DEF LockInv
<1>5. ToSet(waiters) = {} /\ Once(waiters) /\ waiters \in Seq(Thread)
  BY <1>2 DEF ToSet, Once
<1>6. QED
  BY <1>2, <1>3, <1>4, <1>5 DEF CondVarIInv, ListInv

\* The clients of module CondVar.
LEMMA ClientSteps ==
  ASSUME CondVarIInv, NEW t \in Thread, Client(t) \/ UnlockClient(t) \/ Idle(t)
  PROVE  CondVarIInv'
<1>1. pc[t] \in {"idle", "locked"} /\ {"idle", "locked"} \subseteq Clients
  BY DEF Client, LockClient, StartWait, StartSignal, UnlockClient, Idle, Clients
<1>2. UNCHANGED <<waiters, done>>
  BY DEF Client, LockClient, StartWait, StartSignal, UnlockClient, Idle
<1>3. ret \in [Thread -> Clients]
  BY DEF CondVarIInv, LockInv, PlacesOK
<1>4. CASE LockClient(t)
  BY <1>1, <1>2, <1>4, ClientKeeps DEF LockClient
<1>5. CASE UnlockClient(t)
  BY <1>1, <1>2, <1>5, ClientKeeps DEF UnlockClient
<1>6. CASE Idle(t)
  BY <1>1, <1>2, <1>6, ClientKeeps DEF Idle, Consume
<1>7. CASE \/ \E timeout \in Timeouts : StartWait(t, timeout)
           \/ \E how \in {"signal", "broadcast"} : StartSignal(t, how)
  <2>1. \E there \in {"wait", "signal", "broadcast"} : Call(t, there, pc[t])
    BY <1>7 DEF StartWait, StartSignal
  <2>2. ret' \in [Thread -> Clients] /\ UNCHANGED <<locking, owner, ring>>
    BY <1>1, <1>3, <2>1 DEF Call
  <2>3. \E there \in Clients \cup {"wait", "signal", "broadcast"} : Jump(t, there)
    BY <2>1 DEF Call
  <2>4. QED
    BY <1>1, <1>2, <2>2, <2>3, ClientKeeps
<1>8. QED
  BY <1>4, <1>5, <1>6, <1>7 DEF Client

\* However waiters, signallers, timeouts and events that leave a signaller's call early
\* interleave, the list of waiters is right and the assertions of condvar.scm hold, for
\* any number of threads.  The inductive invariant adds what a signaller knows between two
\* of its steps (the waiter it marks is linked, the one it removes is done) and what is
\* true of a thread that waits for the lock.
THEOREM WaitersCorrect == Spec => []WaitersInv
<1>1. Init => CondVarIInv
  BY CondVarInitially DEF Init, Clients
<1>2. CondVarIInv /\ [Next]_vars => CondVarIInv'
  <2>1. ASSUME CondVarIInv, UNCHANGED vars PROVE CondVarIInv'
    BY <2>1 DEF vars, CondVarIInv, LockInv, PlacesOK, ListInv, Linked
  <2>2. ASSUME CondVarIInv, Next PROVE CondVarIInv'
    BY <2>2, CondVarSteps, ClientSteps DEF Next
  <2>3. QED
    BY <2>1, <2>2
<1>3. CondVarIInv => WaitersInv
  BY WaitersInvHolds
<1>4. QED
  BY <1>1, <1>2, <1>3, PTL DEF Spec

-----------------------------------------------------------------------------
(* The barrier.                                                             *)

\* Where the code of the barrier goes on: after the call that is under way, or after the
\* mutex that is being locked.
Back(t) ==
  IF pc[t] \in Clients THEN pc[t]
  ELSE IF pc[t] = "lock" /\ locking[t].then \in Clients THEN locking[t].then
  ELSE ret[t]

Here == {t \in Thread : arrived[t] = generation}

\* A thread has passed as often as the barrier was, unless it is still on its way out of
\* an earlier generation, at most one behind; and it leaves only when its generation is
\* over.
RoundsInv ==
  \A t \in Thread :
    /\ arrived[t] \in {-1, generation - 1, generation}
    /\ round[t] = IF arrived[t] = -1 THEN generation ELSE arrived[t]
    /\ Back(t) \in {"out", "arrive", "again", "passed"}
    /\ arrived[t] = -1 <=> Back(t) \in {"out", "arrive"}
    /\ Back(t) = "passed" => arrived[t] < generation

BarrierTypes ==
  /\ current \in 1 .. Count /\ generation \in Nat
  /\ arrived \in [Thread -> Int] /\ round \in [Thread -> Nat]

\* The inductive invariant behind BarrierInv.
BarrierIInv ==
  /\ CondVarIInv /\ BarrierTypes /\ RoundsInv
  /\ Count - current = Cardinality(Here)

USE DEF barrierVars

\* The calls of the condition variable come back to where they were called for.
LEMMA BackStays ==
  ASSUME LockInv, NEW t \in Thread, CondVarStep(t), NEW u \in Thread
  PROVE  Back(u)' = Back(u)
<1> USE DEF LockInv
<1>1. /\ ret[t] \in Clients /\ pc \in [Thread -> Labels \cup Clients]
      /\ locking \in [Thread -> [mutex : Mutex, then : Entries \cup Clients \cup {"none"}]]
  BY DEF PlacesOK
<1>2. UNCHANGED ret
  BY DEF CondVarStep, WaitLock, enqueue_waiter, Enqueued, Release, WaitLoop, WaitSuspend, Clean,
     Cleanup, Cleaned, Relock, SignalLock, SignalSkip, SignalWaiter, Mark, RemoveWaiter,
     Signalled, CondVarLocked
<1>3. ASSUME u # t, pc'[u] = pc[u], locking'[u] = locking[u] PROVE Back(u)' = Back(u)
  BY <1>2, <1>3 DEF Back
<1>4. CASE WaitLock(t) \/ Clean(t) \/ SignalLock(t)
  <2>1. PICK then \in Entries : lock_thread_mutex(t, "condvar", then)
    BY <1>4 DEF WaitLock, Clean, SignalLock, Entries
  <2>2. pc[t] \notin Clients /\ pc[t] # "lock"
    BY <1>4 DEF WaitLock, Clean, SignalLock, Clients
  <2>3. \/ pc'[t] = then
        \/ pc'[t] = "lock" /\ locking'[t].then = then
    BY <1>1, <2>1 DEF lock_thread_mutex
  <2>4. then \notin Clients /\ then # "lock" /\ "lock" \notin Clients
    BY <2>1 DEF Entries, Clients
  <2>5. CASE u = t
    BY <1>2, <2>2, <2>3, <2>4, <2>5 DEF Back
  <2>6. QED
    BY <1>3, <2>1, <2>5, OthersStay
<1>5. CASE Relock(t)
  <2>1. lock_thread_mutex(t, "mutex", ret[t]) /\ pc[t] = "relock"
    BY <1>5 DEF Relock
  <2>2. \/ pc'[t] = ret[t]
        \/ pc'[t] = "lock" /\ locking'[t].then = ret[t]
    BY <1>1, <2>1 DEF lock_thread_mutex
  <2>3. pc[t] \notin Clients /\ pc[t] # "lock" /\ "lock" \notin Clients
    BY <2>1 DEF Clients
  <2>4. CASE u = t
    BY <1>1, <1>2, <2>2, <2>3, <2>4 DEF Back
  <2>5. QED
    BY <1>3, <2>1, <2>4, OthersStay
<1>6. CASE Enqueued(t) \/ Release(t) \/ Cleaned(t) \/ Signalled(t)
  <2>1. PICK m \in Mutex, then \in {"release", "loop", "relock", ret[t]} :
          unlock_thread_mutex(t, m, then)
    BY <1>6, MutexNames DEF Enqueued, Release, Cleaned, Signalled
  <2>2. pc[t] \notin Clients /\ pc[t] # "lock"
    BY <1>6 DEF Enqueued, Release, Cleaned, Signalled, Clients
  <2>3. pc'[t] = then /\ (then = ret[t] \/ then \notin Clients \cup {"lock"})
    BY <1>1, <2>1 DEF unlock_thread_mutex, Clients
  <2>4. CASE u = t
    BY <1>1, <1>2, <2>2, <2>3, <2>4 DEF Back
  <2>5. QED
    BY <1>3, <2>1, <2>4, OthersStay
<1>7. CASE CondVarLocked(t)
  <2>1. LockWait(t) /\ pc[t] = "lock" /\ locking[t].then \in Entries \cup Clients
    BY <1>1, <1>7 DEF CondVarLocked, LockWait
  <2>2. \/ pc'[t] = locking[t].then
        \/ pc'[t] = "lock" /\ locking'[t] = locking[t]
    BY <1>1, <2>1 DEF LockWait
  <2>3. "lock" \notin Clients \cup Entries
    BY DEF Clients, Entries
  <2>4. CASE u = t
    BY <1>2, <2>1, <2>2, <2>3, <2>4 DEF Back
  <2>5. QED
    BY <1>3, <2>1, <2>4, OthersStay
<1>8. CASE \/ enqueue_waiter(t) \/ WaitLoop(t) \/ WaitSuspend(t) \/ Cleanup(t) \/ SignalSkip(t)
           \/ SignalWaiter(t) \/ Mark(t) \/ RemoveWaiter(t)
  <2>1. pc[t] \notin Clients \cup {"lock"} /\ UNCHANGED locking
    BY <1>8 DEF enqueue_waiter, WaitLoop, WaitSuspend, suspend_current_thread, Cleanup,
       SignalSkip, SignalWaiter, Mark, RemoveWaiter, Goto, Clients
  <2>2. \E there \in {"enqueued", "clean", "suspend", "loop", "cleaned", "signalled", "signal-at",
                      "broadcast-at", "mark", "mark-all", "remove", "remove-all"} : Jump(t, there)
    BY <1>8 DEF enqueue_waiter, WaitLoop, WaitSuspend, suspend_current_thread, Cleanup,
       SignalSkip, SignalWaiter, Mark, RemoveWaiter, Goto
  <2>3. pc'[t] \notin Clients \cup {"lock"}
    BY <1>1, <2>2 DEF Clients
  <2>4. CASE u = t
    BY <1>2, <2>1, <2>3, <2>4 DEF Back
  <2>5. QED
    BY <1>3, <2>1, <2>2, <2>4, OthersStay
<1>9. QED
  BY <1>4, <1>5, <1>6, <1>7, <1>8 DEF CondVarStep

\* The steps of the barrier go from one place to the next.
LEMMA BarrierMoves ==
  ASSUME CondVarIInv, NEW t \in Thread,
         Arrive(t) \/ LastArrives(t) \/ OtherArrives(t) \/ Again(t) \/ Passed(t) \/ Out(t)
  PROVE  /\ CondVarIInv' /\ \A u \in Thread \ {t} : Back(u)' = Back(u)
         /\ pc[t] = Back(t)
         /\ Arrive(t) => Back(t)' = "arrive"
         /\ LastArrives(t) => Back(t)' = "passed"
         /\ OtherArrives(t) => Back(t)' = "again"
         /\ Again(t) => Back(t)' = IF arrived[t] < generation THEN "passed" ELSE "again"
         /\ Passed(t) => Back(t)' = "out"
         /\ Out(t) => Back(t)' = "out"
<1> USE DEF CondVarIInv
<1>1. /\ pc \in [Thread -> Labels \cup Clients] /\ ret \in [Thread -> Clients]
      /\ locking \in [Thread -> [mutex : Mutex, then : Entries \cup Clients \cup {"none"}]]
  BY DEF LockInv, PlacesOK
<1>2. pc[t] \in {"out", "arrive", "again", "passed"} /\ pc[t] \in Clients
  BY DEF Arrive, LastArrives, OtherArrives, Again, Passed, Out, Clients
<1>3. UNCHANGED <<waiters, done>>
  BY DEF Arrive, LastArrives, OtherArrives, Again, Passed, Out
<1>4. pc[t] = Back(t)
  BY <1>2 DEF Back
<1>5. "lock" \notin Clients /\ "wait" \notin Clients /\ "broadcast" \notin Clients
      /\ {"out", "arrive", "again", "passed"} \subseteq Clients
  BY DEF Clients
<1>6. ASSUME \A u \in Thread \ {t} : pc'[u] = pc[u] /\ locking'[u] = locking[u] /\ ret'[u] = ret[u]
      PROVE  \A u \in Thread \ {t} : Back(u)' = Back(u)
  BY <1>6 DEF Back
<1>7. CASE Arrive(t)
  <2>1. lock_thread_mutex(t, "mutex", "arrive") /\ UNCHANGED ret /\ pc[t] = "out"
    BY <1>7 DEF Arrive
  <2>2. CondVarIInv'
    BY <1>2, <1>3, <1>5, <2>1, ClientKeeps
  <2>3. \/ pc'[t] = "arrive"
        \/ pc'[t] = "lock" /\ locking'[t].then = "arrive"
    BY <1>1, <2>1 DEF lock_thread_mutex
  <2>4. Back(t)' = "arrive"
    BY <1>5, <2>3 DEF Back
  <2>5. \A u \in Thread \ {t} : pc'[u] = pc[u] /\ locking'[u] = locking[u] /\ ret'[u] = ret[u]
    BY <2>1, OthersStay DEF LockInv
  <2>6. ~LastArrives(t) /\ ~OtherArrives(t) /\ ~Again(t) /\ ~Passed(t)
    BY <2>1 DEF LastArrives, OtherArrives, Again, Passed
  <2>7. Out(t) => FALSE
    <3>1. pc'[t] # pc[t]
      BY <2>1, <2>3
    <3>2. QED
      BY <3>1 DEF Out, Consume
  <2>8. QED
    BY <1>4, <1>6, <2>2, <2>4, <2>5, <2>6, <2>7
<1>8. CASE LastArrives(t)
  <2>1. pc[t] = "arrive" /\ current = 1 /\ Call(t, "broadcast", "passed")
    BY <1>8 DEF LastArrives
  <2>2. /\ pc' = [pc EXCEPT ![t] = "broadcast"] /\ ret' = [ret EXCEPT ![t] = "passed"]
        /\ UNCHANGED <<locking, owner, ring>>
    BY <2>1 DEF Call
  <2>3. CondVarIInv'
    BY <1>1, <1>2, <1>3, <1>5, <2>2, ClientKeeps
  <2>4. pc'[t] = "broadcast" /\ ret'[t] = "passed"
    BY <1>1, <2>2
  <2>5. Back(t)' = "passed"
    BY <1>5, <2>4 DEF Back
  <2>6. \A u \in Thread \ {t} : pc'[u] = pc[u] /\ locking'[u] = locking[u] /\ ret'[u] = ret[u]
    BY <1>1, <2>2
  <2>7. ~Arrive(t) /\ ~OtherArrives(t) /\ ~Again(t) /\ ~Passed(t) /\ ~Out(t)
    BY <2>1 DEF Arrive, OtherArrives, Again, Passed, Out
  <2>8. QED
    BY <1>4, <1>6, <2>3, <2>5, <2>6, <2>7
<1>9. CASE OtherArrives(t)
  <2>1. pc[t] = "arrive" /\ current > 1 /\ Goto(t, "again") /\ UNCHANGED ret
    BY <1>9 DEF OtherArrives
  <2>2. pc' = [pc EXCEPT ![t] = "again"] /\ UNCHANGED <<locking, owner, ring, ret>>
    BY <2>1 DEF Goto
  <2>3. CondVarIInv'
    BY <1>1, <1>2, <1>3, <1>5, <2>2, ClientKeeps
  <2>4. Back(t)' = "again"
    BY <1>1, <1>5, <2>2 DEF Back
  <2>5. \A u \in Thread \ {t} : pc'[u] = pc[u] /\ locking'[u] = locking[u] /\ ret'[u] = ret[u]
    BY <1>1, <2>2
  <2>6. ~Arrive(t) /\ ~LastArrives(t) /\ ~Again(t) /\ ~Passed(t) /\ ~Out(t)
    BY <2>1 DEF Arrive, LastArrives, Again, Passed, Out
  <2>7. QED
    BY <1>4, <1>6, <2>3, <2>4, <2>5, <2>6
<1>10. CASE Again(t)
  <2>1. /\ pc[t] = "again" /\ UNCHANGED <<locking, owner, ring>>
        /\ IF arrived[t] < generation
           THEN pc' = [pc EXCEPT ![t] = "passed"] /\ UNCHANGED ret
           ELSE pc' = [pc EXCEPT ![t] = "wait"] /\ ret' = [ret EXCEPT ![t] = "again"]
    BY <1>10 DEF Again, Goto, Call
  <2>2. ret' \in [Thread -> Clients]
    BY <1>1, <1>5, <2>1
  <2>3. \E there \in Clients \cup {"wait", "signal", "broadcast"} : Jump(t, there)
    BY <1>5, <2>1
  <2>4. CondVarIInv'
    BY <1>2, <1>3, <2>1, <2>2, <2>3, ClientKeeps
  <2>5. Back(t)' = IF arrived[t] < generation THEN "passed" ELSE "again"
    BY <1>1, <1>5, <2>1 DEF Back
  <2>6. \A u \in Thread \ {t} : pc'[u] = pc[u] /\ locking'[u] = locking[u] /\ ret'[u] = ret[u]
    BY <1>1, <2>1
  <2>7. ~Arrive(t) /\ ~LastArrives(t) /\ ~OtherArrives(t) /\ ~Passed(t) /\ ~Out(t)
    BY <2>1 DEF Arrive, LastArrives, OtherArrives, Passed, Out
  <2>8. QED
    BY <1>4, <1>6, <2>4, <2>5, <2>6, <2>7
<1>11. CASE Passed(t)
  <2>1. unlock_thread_mutex(t, "mutex", "out") /\ UNCHANGED ret /\ pc[t] = "passed"
    BY <1>11 DEF Passed
  <2>2. CondVarIInv'
    BY <1>2, <1>3, <1>5, <2>1, ClientKeeps
  <2>3. Back(t)' = "out"
    BY <1>1, <1>5, <2>1 DEF Back, unlock_thread_mutex
  <2>4. \A u \in Thread \ {t} : pc'[u] = pc[u] /\ locking'[u] = locking[u] /\ ret'[u] = ret[u]
    BY <2>1, OthersStay DEF LockInv
  <2>5. ~Arrive(t) /\ ~LastArrives(t) /\ ~OtherArrives(t) /\ ~Again(t) /\ ~Out(t)
    BY <2>1 DEF Arrive, LastArrives, OtherArrives, Again, Out
  <2>6. QED
    BY <1>4, <1>6, <2>2, <2>3, <2>4, <2>5
<1>12. CASE Out(t)
  <2>1. UNCHANGED <<pc, locking, owner, ring, ret>> /\ pc[t] = "out"
    BY <1>12 DEF Out, Consume
  <2>2. CondVarIInv'
    BY <1>2, <1>3, <2>1, ClientKeeps
  <2>3. \A u \in Thread : Back(u)' = Back(u)
    BY <2>1 DEF Back
  <2>4. ~LastArrives(t) /\ ~OtherArrives(t) /\ ~Again(t) /\ ~Passed(t)
    BY <2>1 DEF LastArrives, OtherArrives, Again, Passed
  <2>5. Arrive(t) => FALSE
    <3>1. ASSUME Arrive(t) PROVE pc'[t] \in {"arrive", "lock"}
      BY <1>1, <3>1 DEF Arrive, lock_thread_mutex
    <3>2. QED
      BY <2>1, <3>1
  <2>6. QED
    BY <1>4, <2>1, <2>2, <2>3, <2>4, <2>5
<1>13. QED
  BY <1>7, <1>8, <1>9, <1>10, <1>11, <1>12

\* RoundsInv of every thread, and the count, after a step of the barrier by thread t.
LEMMA BarrierStepKeeps ==
  ASSUME BarrierIInv, NEW t \in Thread, BarrierStep(t)
  PROVE  BarrierIInv'
<1> USE DEF BarrierIInv, BarrierTypes
<1>1. CASE CondVarStep(t) /\ UNCHANGED barrierVars
  <2>1. CondVarIInv'
    BY <1>1, CondVarSteps
  <2>2. \A u \in Thread : Back(u)' = Back(u)
    BY <1>1, BackStays DEF CondVarIInv
  <2>3. RoundsInv'
    BY <1>1, <2>2 DEF RoundsInv
  <2>4. Here' = Here
    BY <1>1 DEF Here
  <2>5. QED
    BY <1>1, <2>1, <2>3, <2>4
<1>2. IsFiniteSet(Here) /\ Cardinality(Here) \in Nat
  <2>1. Here \in SUBSET Thread
    BY DEF Here
  <2>2. QED
    BY <2>1, ThreadsAssumption, FS_Subset, FS_CardinalityType
<1>3. Count \in Nat /\ Count > 0 /\ Count = Cardinality(Thread)
  BY BarrierAssumption
<1>4. CASE Arrive(t) \/ Again(t) \/ Out(t)
  <2>1. UNCHANGED <<current, generation, arrived, round>>
    BY <1>4 DEF Arrive, Again, Out
  <2>2. CondVarIInv' /\ pc[t] = Back(t) /\ \A u \in Thread \ {t} : Back(u)' = Back(u)
    BY <1>4, BarrierMoves
  <2>3. RoundsInv'
    <3>1. ASSUME NEW u \in Thread
          PROVE  /\ Back(u)' \in {"out", "arrive", "again", "passed"}
                 /\ arrived[u] = -1 <=> Back(u)' \in {"out", "arrive"}
                 /\ Back(u)' = "passed" => arrived[u] < generation
      <4>1. CASE u # t
        BY <2>2, <4>1 DEF RoundsInv
      <4>2. CASE u = t /\ (Arrive(t) \/ Out(t))
        <5>1. pc[t] = "out" /\ Back(t)' \in {"arrive", "out"}
          BY <4>2, BarrierMoves DEF Arrive, Out
        <5>2. QED
          BY <2>2, <4>2, <5>1 DEF RoundsInv
      <4>3. CASE u = t /\ Again(t)
        <5>1. pc[t] = "again" /\ Back(t)' = IF arrived[t] < generation THEN "passed" ELSE "again"
          BY <4>3, BarrierMoves DEF Again
        <5>2. QED
          BY <2>2, <4>3, <5>1 DEF RoundsInv
      <4>4. QED
        BY <1>4, <4>1, <4>2, <4>3
    <3>2. QED
      BY <2>1, <3>1 DEF RoundsInv
  <2>4. Here' = Here
    BY <2>1 DEF Here
  <2>5. QED
    BY <2>1, <2>2, <2>3, <2>4
<1>5. CASE OtherArrives(t)
  <2>1. /\ pc[t] = "arrive" /\ current > 1 /\ current' = current - 1
        /\ arrived' = [arrived EXCEPT ![t] = generation] /\ UNCHANGED <<generation, round>>
    BY <1>5 DEF OtherArrives
  <2>2. /\ CondVarIInv' /\ pc[t] = Back(t) /\ Back(t)' = "again"
        /\ \A u \in Thread \ {t} : Back(u)' = Back(u)
    BY <1>5, BarrierMoves
  <2>3. arrived[t] = -1 /\ round[t] = generation /\ t \notin Here
    BY <2>1, <2>2 DEF RoundsInv, Here
  <2>4. BarrierTypes'
    BY <1>3, <2>1
  <2>5. arrived'[t] = generation /\ \A u \in Thread \ {t} : arrived'[u] = arrived[u]
    BY <2>1
  <2>6. RoundsInv'
    BY <2>1, <2>2, <2>3, <2>5 DEF RoundsInv
  <2>7. Here' = Here \cup {t}
    BY <2>1, <2>5 DEF Here
  <2>8. Cardinality(Here') = Cardinality(Here) + 1
    BY <1>2, <2>3, <2>7, FS_AddElement
  <2>9. QED
    BY <1>2, <1>3, <2>1, <2>2, <2>4, <2>6, <2>8
<1>6. CASE LastArrives(t)
  <2>1. /\ pc[t] = "arrive" /\ current = 1 /\ current' = Count /\ generation' = generation + 1
        /\ arrived' = [arrived EXCEPT ![t] = generation] /\ UNCHANGED round
    BY <1>6 DEF LastArrives
  <2>2. /\ CondVarIInv' /\ pc[t] = Back(t) /\ Back(t)' = "passed"
        /\ \A u \in Thread \ {t} : Back(u)' = Back(u)
    BY <1>6, BarrierMoves
  <2>3. arrived[t] = -1 /\ round[t] = generation /\ t \notin Here
    BY <2>1, <2>2 DEF RoundsInv, Here
  <2>4. Here = Thread \ {t}
    <3>1. IsFiniteSet(Thread \ {t}) /\ Cardinality(Thread \ {t}) = Count - 1
      BY <1>3, ThreadsAssumption, FS_RemoveElement
    <3>2. Here \in SUBSET (Thread \ {t})
      BY <2>3 DEF Here
    <3>3. Cardinality(Here) = Count - 1
      BY <1>2, <1>3, <2>1
    <3>4. QED
      BY <3>1, <3>2, <3>3, FS_Subset
  <2>5. arrived'[t] = generation /\ \A u \in Thread \ {t} : arrived'[u] = arrived[u]
    BY <2>1
  <2>6. \A u \in Thread : arrived'[u] = generation
    BY <2>4, <2>5 DEF Here
  <2>7. \A u \in Thread : round'[u] = generation
    <3>1. \A u \in Thread \ {t} : round[u] = generation
      BY <2>4 DEF Here, RoundsInv
    <3>2. QED
      BY <2>1, <2>3, <3>1
  <2>8. BarrierTypes'
    BY <1>3, <2>1
  <2>9. RoundsInv'
    <3>1. ASSUME NEW u \in Thread
          PROVE  Back(u)' \in {"again", "passed"}
      BY <2>2, <2>4 DEF RoundsInv, Here
    <3>2. QED
      BY <2>1, <2>6, <2>7, <3>1 DEF RoundsInv
  <2>10. Here' = {}
    BY <2>1, <2>6 DEF Here
  <2>11. QED
    BY <1>3, <2>1, <2>2, <2>8, <2>9, <2>10, FS_EmptySet
<1>7. CASE Passed(t)
  <2>1. /\ pc[t] = "passed" /\ round' = [round EXCEPT ![t] = @ + 1]
        /\ arrived' = [arrived EXCEPT ![t] = -1] /\ UNCHANGED <<current, generation>>
    BY <1>7 DEF Passed
  <2>2. /\ CondVarIInv' /\ pc[t] = Back(t) /\ Back(t)' = "out"
        /\ \A u \in Thread \ {t} : Back(u)' = Back(u)
    BY <1>7, BarrierMoves
  <2>3. arrived[t] # -1 /\ arrived[t] < generation
    BY <2>1, <2>2 DEF RoundsInv
  <2>4. arrived[t] = generation - 1 /\ round[t] = generation - 1
    BY <2>3 DEF RoundsInv
  <2>5. arrived'[t] = -1 /\ \A u \in Thread \ {t} : arrived'[u] = arrived[u] /\ round'[u] = round[u]
    BY <2>1
  <2>6. round'[t] = generation
    BY <2>1, <2>4
  <2>7. RoundsInv'
    BY <2>1, <2>2, <2>5, <2>6 DEF RoundsInv
  <2>8. Here' = Here
    BY <2>1, <2>3, <2>5 DEF Here
  <2>9. BarrierTypes'
    BY <2>1
  <2>10. QED
    BY <2>1, <2>2, <2>7, <2>8, <2>9
<1>8. QED
  BY <1>1, <1>4, <1>5, <1>6, <1>7 DEF BarrierStep

LEMMA BarrierInitially == BarrierInit => BarrierIInv
<1> SUFFICES ASSUME BarrierInit PROVE BarrierIInv
  OBVIOUS
<1>1. CondVarIInv /\ pc = [t \in Thread |-> "out"]
  BY CondVarInitially DEF BarrierInit, CondVarInit, SuspensionInit, Clients
<1>2. Count \in Nat /\ Count > 0
  BY BarrierAssumption
<1>3. BarrierTypes
  BY <1>2 DEF BarrierInit, BarrierUnused, BarrierTypes
<1>4. \A t \in Thread : Back(t) = "out"
  BY <1>1 DEF Back, Clients
<1>5. RoundsInv
  BY <1>4 DEF RoundsInv, BarrierInit, BarrierUnused
<1>6. Here = {}
  BY DEF Here, BarrierInit, BarrierUnused
<1>7. QED
  BY <1>1, <1>2, <1>3, <1>5, <1>6, FS_EmptySet DEF BarrierIInv, BarrierInit, BarrierUnused

LEMMA BarrierIInvAlways == BarrierSpec => []BarrierIInv
<1>1. BarrierIInv /\ [BarrierNext]_allVars => BarrierIInv'
  <2>1. ASSUME BarrierIInv, UNCHANGED allVars PROVE BarrierIInv'
    BY <2>1 DEF allVars, vars, BarrierIInv, BarrierTypes, RoundsInv, Back, Here, CondVarIInv, LockInv,
       PlacesOK, ListInv, Linked
  <2>2. ASSUME BarrierIInv, BarrierNext PROVE BarrierIInv'
    BY <2>2, BarrierStepKeeps DEF BarrierNext
  <2>3. QED
    BY <2>1, <2>2
<1>2. QED
  BY <1>1, BarrierInitially, PTL DEF BarrierSpec

\* No thread gets ahead of another at the barrier, and the count is of those who have come,
\* for any number of threads and rounds.  The inductive invariant says which generation
\* each thread belongs to and where it goes on after the calls of the condition variable.
THEOREM BarrierCorrect == BarrierSpec => []BarrierInv
<1>1. ASSUME BarrierIInv PROVE BarrierInv
  <2>1. ASSUME NEW t \in Thread, NEW u \in Thread
        PROVE  round[t] <= round[u] + IF arrived[u] = -1 THEN 0 ELSE 1
    BY <1>1 DEF BarrierIInv, BarrierTypes, RoundsInv
  <2>2. CountIsRight
    BY <1>1, BarrierAssumption DEF BarrierIInv, BarrierTypes, CountIsRight, Here
  <2>3. QED
    BY <2>1, <2>2 DEF BarrierInv, BarrierHolds
<1>2. QED
  BY <1>1, BarrierIInvAlways, PTL

\* The list of waiters is right also in the condition variable of a barrier.
THEOREM BarrierWaitersCorrect == BarrierSpec => []WaitersInv
<1>1. BarrierIInv => WaitersInv
  BY WaitersInvHolds DEF BarrierIInv
<1>2. QED
  BY <1>1, BarrierIInvAlways, PTL
=============================================================================
