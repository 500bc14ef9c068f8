---------------------------- MODULE ThreadsProofs ----------------------------
(***************************************************************************)
(* Proofs about Threads, for every set of threads and mutexes and every    *)
(* value of the other constants: its types, its run queue and its wakeups; *)
(* its mutexes, which implement FifoLock; and join, detach and exit: both  *)
(* ends of a join agree, and nothing refers to a thread that has exited.   *)
(***************************************************************************)
EXTENDS Threads, SequenceTheorems, FiniteSetTheorems, NaturalsInduction,
        WellFoundedInduction, TLAPS

\* Removing an element of a list, or inserting one, leaves a list of the same type.
LEMMA DropAtType ==
  ASSUME NEW S, NEW s \in Seq(S), NEW i \in DOMAIN s
  PROVE  DropAt(s, i) \in Seq(S)
  BY DEF DropAt

LEMMA InsertBeforeType ==
  ASSUME NEW S, NEW s \in Seq(S), NEW i \in 1 .. Len(s) + 1, NEW x \in S
  PROVE  InsertBefore(s, i, x) \in Seq(S)
  BY DEF InsertBefore

LEMMA WithoutType ==
  ASSUME NEW S, NEW s \in Seq(S), NEW x
  PROVE  Without(s, x) \in Seq(S)
  BY DropAtType DEF Without

\* How many elements other than x the first i of a list are, one place at a time.
LEMMA OthersCount ==
  ASSUME NEW S, NEW s \in Seq(S), NEW x
  PROVE  /\ \A i \in Nat : IsFiniteSet(Others(s, x, i)) /\ Cardinality(Others(s, x, i)) \in Nat
         /\ Cardinality(Others(s, x, 0)) = 0
         /\ \A i \in DOMAIN s :
              Cardinality(Others(s, x, i)) = Cardinality(Others(s, x, i - 1))
                                              + (IF s[i] # x THEN 1 ELSE 0)
<1>1. ASSUME NEW i \in Nat
      PROVE  IsFiniteSet(Others(s, x, i)) /\ Cardinality(Others(s, x, i)) \in Nat
  <2>1. IsFiniteSet(1 .. i)
    BY FS_Interval
  <2>2. Others(s, x, i) \in SUBSET (1 .. i)
    BY DEF Others
  <2>3. IsFiniteSet(Others(s, x, i))
    BY <2>1, <2>2, FS_Subset
  <2>4. QED
    BY <2>3, FS_CardinalityType
<1>2. Others(s, x, 0) = {}
  BY DEF Others
<1>3. Cardinality(Others(s, x, 0)) = 0
  BY <1>2, FS_EmptySet
<1>4. ASSUME NEW i \in DOMAIN s
      PROVE  Cardinality(Others(s, x, i)) = Cardinality(Others(s, x, i - 1))
                                             + (IF s[i] # x THEN 1 ELSE 0)
  <2>1. i \in Nat /\ i - 1 \in Nat /\ i \in 1 .. i
    OBVIOUS
  <2>2. IsFiniteSet(Others(s, x, i - 1)) /\ Cardinality(Others(s, x, i - 1)) \in Nat
    BY <1>1, <2>1
  <2>3. i \notin Others(s, x, i - 1)
    BY <2>1 DEF Others
  <2>4. CASE s[i] # x
    <3>1. Others(s, x, i) = Others(s, x, i - 1) \cup {i}
      BY <2>1, <2>4 DEF Others
    <3>2. QED
      BY <2>2, <2>3, <2>4, <3>1, FS_AddElement
  <2>5. CASE s[i] = x
    <3>1. Others(s, x, i) = Others(s, x, i - 1)
      BY <2>1, <2>5 DEF Others
    <3>2. QED
      BY <2>2, <2>5, <3>1
  <2>6. QED
    BY <2>4, <2>5
<1>5. QED
  BY <1>1, <1>3, <1>4

LEMMA LeastNat ==
  ASSUME NEW T \in SUBSET Nat, T # {}
  PROVE  \E n \in T : \A k \in T : n <= k
<1> DEFINE R == OpToRel(<, Nat)
<1>1. IsWellFoundedOn(R, Nat)
  BY NatLessThanWellFounded
<1>2. PICK n \in T : \A k \in T : ~(<<k, n>> \in R)
  <2> HIDE DEF R
  <2>1. QED
    BY <1>1, WFMin
<1>3. \A k \in T : ~(k < n)
  BY <1>2 DEF OpToRel
<1>4. QED
  BY <1>3

\* The kth element other than x has a place, and only one.
LEMMA OtherPlace ==
  ASSUME NEW S, NEW s \in Seq(S), NEW x, NEW k \in 1 .. Cardinality(Others(s, x, Len(s)))
  PROVE  \E i \in DOMAIN s : s[i] # x /\ Cardinality(Others(s, x, i)) = k
<1> DEFINE C(i) == Cardinality(Others(s, x, i))
           T == {i \in 0 .. Len(s) : C(i) >= k}
<1>1. /\ \A i \in Nat : C(i) \in Nat
      /\ C(0) = 0
      /\ \A i \in DOMAIN s : C(i) = C(i - 1) + (IF s[i] # x THEN 1 ELSE 0)
  BY OthersCount
<1>2. Len(s) \in Nat /\ DOMAIN s = 1 .. Len(s) /\ k \in 1 .. C(Len(s))
  OBVIOUS
<1> HIDE DEF C
<1>3. T \in SUBSET Nat /\ Len(s) \in T
  BY <1>1, <1>2
<1>4. PICK i \in T : \A j \in T : i <= j
  <2> HIDE DEF T
  <2>1. QED
    BY <1>3, LeastNat
<1>5. i \in DOMAIN s
  <2>1. C(i) >= k /\ k \in Nat /\ k > 0
    BY <1>1, <1>2
  <2>2. i # 0
    BY <1>1, <2>1
  <2>3. QED
    BY <1>2, <2>2
<1>6. i - 1 \notin T
  BY <1>3, <1>4
<1>7. C(i - 1) < k /\ C(i) >= k
  <2>0. i - 1 \in 0 .. Len(s) /\ i - 1 \in Nat
    BY <1>2, <1>5
  <2>1. C(i - 1) \in Nat
    BY <1>1, <2>0
  <2>2. ~(C(i - 1) >= k)
    BY <1>6, <2>0
  <2>3. C(i) >= k /\ k \in Nat
    BY <1>1, <1>2
  <2>4. QED
    BY <2>1, <2>2, <2>3
<1>8. s[i] # x /\ C(i) = k
  <2>1. C(i) \in Nat /\ C(i - 1) \in Nat /\ k \in Nat
    BY <1>1, <1>2, <1>5
  <2>2. C(i) = C(i - 1) + (IF s[i] # x THEN 1 ELSE 0)
    BY <1>1, <1>5
  <2>3. s[i] # x
    BY <1>7, <2>1, <2>2
  <2>4. QED
    BY <1>7, <2>1, <2>2, <2>3
<1>9. QED
  BY <1>5, <1>8 DEF C

LEMMA OtherPlaceOnce ==
  ASSUME NEW S, NEW s \in Seq(S), NEW x, NEW i \in DOMAIN s, NEW j \in DOMAIN s,
         s[j] # x, i < j
  PROVE  Cardinality(Others(s, x, i)) < Cardinality(Others(s, x, j))
<1> i \in Nat /\ j \in Nat
  OBVIOUS
<1>1. IsFiniteSet(Others(s, x, j)) /\ Cardinality(Others(s, x, j)) \in Nat
  BY OthersCount
<1>2. Cardinality(Others(s, x, i)) \in Nat
  BY OthersCount
<1>3. Others(s, x, i) \in SUBSET Others(s, x, j)
  BY DEF Others
<1>4. j \in Others(s, x, j) /\ j \notin Others(s, x, i)
  BY DEF Others
<1>5. QED
  BY <1>1, <1>2, <1>3, <1>4, FS_Subset

\* delq! and del-assq! leave a list of the same type with the elements other than x.
LEMMA WithoutAllElements ==
  ASSUME NEW S, NEW s \in Seq(S), NEW x
  PROVE  /\ WithoutAll(s, x) \in Seq(S)
         /\ Elements(WithoutAll(s, x)) = Elements(s) \ {x}
<1> DEFINE C(i) == Cardinality(Others(s, x, i))
           n == C(Len(s))
           Place(k) == CHOOSE i \in DOMAIN s : s[i] # x /\ C(i) = k
           w == WithoutAll(s, x)
<1>0. Len(s) \in Nat /\ DOMAIN s \subseteq Nat /\ \A i \in DOMAIN s : i \in 1 .. Len(s)
  OBVIOUS
<1>1. n \in Nat /\ \A i \in DOMAIN s : C(i) \in Nat
  BY <1>0, OthersCount
<1>2. \A k \in 1 .. n : Place(k) \in DOMAIN s /\ s[Place(k)] # x /\ C(Place(k)) = k
  BY OtherPlace
<1>3. w = [k \in 1 .. n |-> s[Place(k)]]
  BY DEF WithoutAll
<1>4. ASSUME NEW i \in DOMAIN s, s[i] # x
      PROVE  C(i) \in 1 .. n /\ Place(C(i)) = i
  <2>1. C(i) <= n
    <3>1. IsFiniteSet(Others(s, x, Len(s)))
      BY <1>0, OthersCount
    <3>2. Others(s, x, i) \in SUBSET Others(s, x, Len(s))
      BY <1>0 DEF Others
    <3>3. QED
      BY <3>1, <3>2, FS_Subset
  <2>2. C(i) # 0
    <3>1. IsFiniteSet(Others(s, x, i))
      BY <1>0, OthersCount
    <3>2. i \in Others(s, x, i)
      BY <1>0, <1>4 DEF Others
    <3>3. QED
      BY <3>1, <3>2, FS_EmptySet
  <2>3. C(i) \in 1 .. n
    BY <1>1, <2>1, <2>2
  <2>4. ASSUME NEW j \in DOMAIN s, s[j] # x, C(j) = C(i)
        PROVE  j = i
    <3>1. ~(i < j) /\ ~(j < i)
      BY <1>1, <1>4, <2>4, OtherPlaceOnce
    <3>2. QED
      BY <3>1
  <2>5. QED
    BY <1>2, <2>3, <2>4
<1> HIDE DEF C, Place, n, w
<1>5. w \in Seq(S)
  <2>1. w \in [1 .. n -> S]
    BY <1>2, <1>3
  <2>2. QED
    BY <1>1, <2>1
<1>6. Elements(w) \subseteq Elements(s) \ {x}
  BY <1>2, <1>3 DEF Elements
<1>7. ASSUME NEW i \in DOMAIN s, s[i] # x
      PROVE  s[i] \in Elements(w)
  <2>1. C(i) \in DOMAIN w /\ w[C(i)] = s[i]
    BY <1>3, <1>4, <1>7
  <2>2. QED
    BY <2>1 DEF Elements
<1>8. Elements(s) \ {x} \subseteq Elements(w)
  BY <1>7 DEF Elements
<1>9. QED
  BY <1>5, <1>6, <1>8 DEF w

LEMMA WithoutAllEmpty ==
  ASSUME NEW x
  PROVE  WithoutAll(<<>>, x) = <<>>
<1>1. Len(<<>>) = 0 /\ Others(<<>>, x, 0) = {}
  BY DEF Others
<1>2. Cardinality(Others(<<>>, x, Len(<<>>))) = 0
  BY <1>1, FS_EmptySet
<1>3. QED
  BY <1>2 DEF WithoutAll

LEMMA AppendType ==
  ASSUME NEW S, NEW s \in Seq(S), NEW x \in S
  PROVE  Append(s, x) \in Seq(S) /\ Append(s, x) # <<>>
<1>1. Append(s, x) \in Seq(S)
  OBVIOUS
<1>2. Len(Append(s, x)) = Len(s) + 1 /\ Len(s) \in Nat
  OBVIOUS
<1>3. Len(<<>>) = 0
  OBVIOUS
<1>4. QED
  BY <1>1, <1>2, <1>3

LEMMA AddWhenFoundType ==
  ASSUME NEW ring \in Seq(Event), NEW event \in Event, NEW found
  PROVE  AddWhenFound(ring, found, event) \in Seq(Event)
<1>1. Append(ring, event) \in Seq(Event)
  OBVIOUS
<1>2. ring # <<>> => <<event>> \o Tail(ring) \in Seq(Event)
  OBVIOUS
<1>3. QED
  BY <1>1, <1>2 DEF AddWhenFound

\* The part of TypeOK about the timer.
ClockOK ==
  /\ hwTimer \in (Nat \ {0}) \cup {Off}
  /\ timerBit \in BOOLEAN
  /\ nextScheduledTimeout \in BOOLEAN

\* The part of TypeOK about the run queue, and what %signal-thread-event changes.
QueueOK ==
  /\ executionState \in [Thread -> States]
  /\ runQueue \in Seq(Thread)
  /\ continuation \in [Thread -> BOOLEAN]

\* The inductive invariant of type correctness.
TypeInv == TypeOK /\ KernelHasThread

USE DEF threadVars, eventVars, joinVars, mutexVars, releaseVars, relationVars,
        frameVars, clockVars, recordVars, timerVars, handleVars, controlVars

\* %maybe-toggle-thread-timer leaves the timer in order.
LEMMA ToggleType ==
  ASSUME TypeOK, timerRecords' \in Seq(TimerRecord), timerInterval' \in Nat,
         NEW b \in BOOLEAN, MaybeToggleThreadTimer(b)
  PROVE  ClockOK'
<1>1. timerRecords' # <<>> => Head(timerRecords').time \in Nat
  <2>1. timerRecords' # <<>> => Head(timerRecords') \in TimerRecord
    BY HeadTailProperties
  <2>2. QED
    BY <2>1 DEF TimerRecord
<1>2. hwTimer' \in (Nat \ {0}) \cup {Off}
  BY <1>1 DEF MaybeToggleThreadTimer, StartTimer, StopThreadTimer, TypeOK
<1>3. timerBit' \in BOOLEAN /\ nextScheduledTimeout' \in BOOLEAN
  BY DEF MaybeToggleThreadTimer, StartTimer, StopThreadTimer, TypeOK
<1>4. QED
  BY <1>2, <1>3 DEF ClockOK

\* Taking the current thread off the run queue keeps the types.
LEMMA ThreadNotRunningType ==
  ASSUME TypeOK, ~Idle, UNCHANGED recordVars,
         NEW state \in States, NEW k \in BOOLEAN,
         ThreadNotRunning(Current, state, k)
  PROVE  QueueOK' /\ ClockOK' /\ kstep' \in {"resume", "none"}
                  /\ (Idle' => kstep' = "none")
<1>1. Current \in Thread /\ Tail(runQueue) \in Seq(Thread)
  BY DEF TypeOK, Current, Idle
<1>2. QueueOK'
  BY <1>1 DEF ThreadNotRunning, TypeOK, QueueOK
<1>3. ClockOK'
  BY ToggleType DEF ThreadNotRunning, TypeOK, ClockOK
<1>4. QED
  BY <1>2, <1>3 DEF ThreadNotRunning, Idle

LEMMA YieldThreadType ==
  ASSUME TypeOK, ~Idle, YieldThread(Current)
  PROVE  /\ runQueue' \in Seq(Thread) /\ continuation' \in [Thread -> BOOLEAN]
         /\ kstep' = "resume" /\ ~Idle'
<1>1. Current \in Thread /\ Tail(runQueue) \in Seq(Thread)
  BY DEF TypeOK, Current, Idle
<1>2. \/ runQueue' = runQueue
      \/ runQueue' = Append(Tail(runQueue), Current)
  BY DEF YieldThread
<1>3. continuation' \in [Thread -> BOOLEAN]
  BY <1>1 DEF YieldThread, TypeOK
<1>4. Append(Tail(runQueue), Current) \in Seq(Thread)
        /\ Append(Tail(runQueue), Current) # <<>>
  BY <1>1, AppendType
<1>5. QED
  BY <1>2, <1>3, <1>4 DEF YieldThread, TypeOK, Idle

\* Signalling an event keeps the types and empties no run queue.
LEMMA SignalThreadType ==
  ASSUME TypeOK, NEW t \in Thread, NEW event \in Event, SignalThread(t, event)
  PROVE  /\ executionState' \in [Thread -> States]
         /\ runQueue' \in Seq(Thread)
         /\ pendingEvents' \in [Thread -> Seq(Event)]
         /\ Idle' => Idle
<1>1. pendingEvents' \in [Thread -> Seq(Event)]
  BY AddWhenFoundType DEF SignalThread, AddPendingEvent, TypeOK
<1>2. CASE Wakes(t)
  <2>1. executionState' \in [Thread -> States]
    BY <1>2 DEF SignalThread, TypeOK, States
  <2>2. runQueue' = Append(runQueue, t) /\ runQueue \in Seq(Thread)
    BY <1>2 DEF SignalThread, TypeOK
  <2>3. QED
    BY <1>1, <2>1, <2>2, AppendType DEF Idle
<1>3. CASE ~Wakes(t)
  BY <1>1, <1>3 DEF SignalThread, TypeOK, Idle
<1>4. QED
  BY <1>2, <1>3

\* Handing a mutex over keeps the types.
LEMMA HandOverType ==
  ASSUME TypeOK, NEW m \in Mutex, HandOver(m)
  PROVE  /\ owner' \in [Mutex -> Thread \cup {None}]
         /\ waitingThreads' \in [Mutex -> Seq(Thread)]
         /\ executionState' \in [Thread -> States]
         /\ runQueue' \in Seq(Thread)
         /\ pendingEvents' \in [Thread -> Seq(Event)]
         /\ Idle' => Idle
<1>1. CASE waitingThreads[m] = <<>>
  BY <1>1 DEF HandOver, TypeOK, Idle
<1>2. CASE waitingThreads[m] # <<>>
  <2>1. Head(waitingThreads[m]) \in Thread /\ Tail(waitingThreads[m]) \in Seq(Thread)
    BY <1>2 DEF TypeOK
  <2>2. SignalThread(Head(waitingThreads[m]), "#f")
    BY <1>2 DEF HandOver
  <2>3. QED
    BY <1>2, <2>1, <2>2, SignalThreadType DEF HandOver, TypeOK, Event
<1>3. QED
  BY <1>1, <1>2

\* Facts about the current thread that the steps below use.
LEMMA CurrentType ==
  ASSUME TypeInv, ~(kstep = "none" /\ Idle), ~(kstep = "deliver" /\ Idle)
  PROVE  Current \in Thread /\ ~Idle
  BY DEF TypeInv, TypeOK, KernelHasThread, Current, Idle

\* Every step of the thread system itself keeps TypeInv.
LEMMA KernelTypeStep ==
  ASSUME TypeInv, KernelStep
  PROVE  TypeInv'
<1> USE DEF TypeInv
<1>1. CASE ResumeCurrentThread
  <2>1. ClockOK'
    BY <1>1, ToggleType DEF ResumeCurrentThread, TypeOK, ClockOK
  <2>2. QED
    BY <1>1, <2>1, CurrentType DEF ResumeCurrentThread, TypeOK, ClockOK, KernelHasThread,
       Return, Idle, KSteps, Callers
<1>2. CASE HandleOneEvent
  <2>1. Current \in Thread /\ ~Idle
    BY <1>2, CurrentType DEF HandleOneEvent
  <2>2. pendingEvents' \in [Thread -> Seq(Event)]
    <3>1. pendingEvents[Current] \in Seq(Event) /\ pendingEvents[Current] # <<>>
      BY <1>2, <2>1 DEF HandleOneEvent, TypeOK
    <3>2. Tail(pendingEvents[Current]) \in Seq(Event) /\ <<>> \in Seq(Event)
      BY <3>1
    <3>3. QED
      BY <1>2, <2>1, <3>2 DEF HandleOneEvent, BeginExit, TypeOK
  <2>3. delivered' \in [Thread -> BOOLEAN] /\ anyEvents' \in BOOLEAN
    BY <1>2 DEF HandleOneEvent, BeginExit, TypeOK
  <2>4. /\ kstep' \in KSteps /\ caller' \in Callers
        /\ blockEvents' \in [Thread -> Blocks]
    BY <1>2 DEF HandleOneEvent, BeginExit, TypeOK, KSteps, Callers, Blocks
  <2>5. QED
    BY <1>2, <2>1, <2>2, <2>3, <2>4 DEF HandleOneEvent, TypeOK, KernelHasThread, Idle
<1>3. CASE HandleReturn
  <2> DEFINE t == Current
  <2>1. t \in Thread /\ ~Idle
    BY <1>3, CurrentType DEF HandleReturn
  <2>2. ClockOK'
    BY <1>3, <2>1, ToggleType, ThreadNotRunningType DEF HandleReturn, TypeOK, ClockOK, States
  <2>3. QueueOK' /\ (Idle' => kstep' = "none")
    BY <1>3, <2>1, ThreadNotRunningType DEF HandleReturn, TypeOK, QueueOK, States, Idle
  <2>4. kstep' \in KSteps
    BY <1>3, <2>1, ThreadNotRunningType DEF HandleReturn, KSteps, Return, States
  <2>5. blockEvents' \in [Thread -> Blocks] /\ saved' \in [Thread -> Blocks]
    BY <1>3, <2>1 DEF HandleReturn, TypeOK, Blocks
  <2>6. QED
    BY <1>3, <2>2, <2>3, <2>4, <2>5 DEF HandleReturn, FrameGone, TypeOK, ClockOK, QueueOK,
       KernelHasThread, Callers
<1>4. CASE DeliverOneRecord
  <2>1. /\ Head(timerRecords).thread \in Thread /\ Head(timerRecords).event \in Event
        /\ Tail(timerRecords) \in Seq(TimerRecord)
    <3>1. timerRecords \in Seq(TimerRecord) /\ timerRecords # <<>>
      BY <1>4 DEF DeliverOneRecord, TypeOK
    <3>2. Head(timerRecords) \in TimerRecord /\ Tail(timerRecords) \in Seq(TimerRecord)
      BY <3>1
    <3>3. QED
      BY <3>2 DEF TimerRecord
  <2>2. QED
    BY <1>4, <2>1, SignalThreadType DEF DeliverOneRecord, TypeOK, KernelHasThread
<1>5. CASE DeliverReturn
  <2>1. ClockOK'
    BY <1>5, ToggleType DEF DeliverReturn, TypeOK, ClockOK
  <2>2. runQueue' \in Seq(Thread) /\ continuation' \in [Thread -> BOOLEAN]
    BY <1>5, YieldThreadType DEF DeliverReturn, TypeOK
  <2>3. KernelHasThread' /\ kstep' \in KSteps /\ caller' \in Callers
    BY <1>5, YieldThreadType DEF DeliverReturn, TypeOK, KernelHasThread, KSteps, Callers, Idle
  <2>4. QED
    BY <1>5, <2>1, <2>2, <2>3 DEF DeliverReturn, TypeOK, ClockOK
<1>6. CASE LockSuspend
  BY <1>6, CurrentType DEF LockSuspend, Suspend, TypeOK, KernelHasThread, KSteps, Callers,
     Blocks, PCs, Idle
<1>7. CASE LockReturn
  BY <1>7, CurrentType DEF LockReturn, TypeOK, KernelHasThread, KSteps, PCs, Idle
<1>8. CASE DiscardTimerRecord
  <2>1. timerRecords' \in Seq(TimerRecord)
    BY <1>8, DropAtType DEF DiscardTimerRecord, TypeOK
  <2>2. QED
    BY <1>8, <2>1 DEF DiscardTimerRecord, TypeOK, KernelHasThread, Idle
<1>9. CASE DiscardReturn
  <2>1. ClockOK'
    BY <1>9, ToggleType DEF DiscardReturn, TypeOK, ClockOK
  <2>2. QED
    BY <1>9, <2>1, CurrentType DEF DiscardReturn, FrameGone, TypeOK, ClockOK,
       KernelHasThread, KSteps, Callers, Idle
<1>10. CASE ExitJoins
  <2>1. Current \in Thread /\ ~Idle
    BY <1>10, CurrentType DEF ExitJoins
  <2>2. joinedThreads' \in [Thread -> Seq(Thread)]
    <3>1. \A u \in Thread : WithoutAll(joinedThreads[u], Current) \in Seq(Thread)
      BY WithoutAllElements DEF TypeOK
    <3>2. joinedTo[Current] # <<>> => Head(joinedTo[Current]) \in Thread
      BY <2>1 DEF TypeOK
    <3>3. \/ joinedThreads' = joinedThreads
          \/ /\ joinedTo[Current] # <<>>
             /\ joinedThreads' = [joinedThreads EXCEPT ![Head(joinedTo[Current])] =
                                    WithoutAll(joinedThreads[Head(joinedTo[Current])], Current)]
      BY <1>10 DEF ExitJoins
    <3>4. QED
      BY <3>1, <3>2, <3>3, ZenonT(60) DEF TypeOK
  <2>3. joinedTo' \in [Thread -> Seq(Thread)]
    <3>1. joinedTo[Current] # <<>> => Tail(joinedTo[Current]) \in Seq(Thread)
      BY <2>1 DEF TypeOK
    <3>2. QED
      BY <1>10, <2>1, <3>1 DEF ExitJoins, TypeOK
  <2>4. QED
    BY <1>10, <2>1, <2>2, <2>3 DEF ExitJoins, TypeOK, KernelHasThread, KSteps, Idle
<1>11. CASE ExitMutex
  <2>1. Current \in Thread /\ ~Idle
    BY <1>11, CurrentType DEF ExitMutex
  <2>2. /\ Head(mutexes[Current]) \in Mutex
        /\ mutexes' \in [Thread -> Seq(Mutex)]
    BY <1>11, <2>1 DEF ExitMutex, TypeOK
  <2>3. waitingThreads' \in [Mutex -> Seq(Thread)]
    <3>1. \A m \in Mutex : Without(waitingThreads[m], Current) \in Seq(Thread)
      BY WithoutType DEF TypeOK
    <3>2. QED
      BY <1>11, <2>2, <3>1, HandOverType DEF ExitMutex, TypeOK
  <2>4. QED
    BY <1>11, <2>1, <2>2, <2>3, HandOverType DEF ExitMutex, TypeOK, KernelHasThread, Idle
<1>12. CASE ExitMutexesDone
  <2>1. Current \in Thread /\ ~Idle
    BY <1>12, CurrentType DEF ExitMutexesDone
  <2>2. /\ exitValue' \in [Thread -> {"none", "value", "detached"}]
        /\ toRelease' \in Seq(Thread) /\ releasing' \in Thread
    <3>1. CASE exitValue[Current] = "none"
      <4>1. BeginRelease(Current, "value")
        BY <1>12, <3>1 DEF ExitMutexesDone
      <4>2. QED
        BY <2>1, <4>1 DEF BeginRelease, TypeOK
    <3>2. CASE exitValue[Current] # "none"
      BY <1>12, <3>2 DEF ExitMutexesDone, TypeOK
    <3>3. QED
      BY <3>1, <3>2
  <2>3. kstep' \in KSteps
    BY <1>12 DEF ExitMutexesDone, BeginRelease, KSteps
  <2>4. QED
    BY <1>12, <2>1, <2>2, <2>3 DEF ExitMutexesDone, TypeOK, KernelHasThread, Idle
<1>13. CASE ReleaseOne
  <2>1. Head(toRelease) \in Thread /\ Tail(toRelease) \in Seq(Thread)
    BY <1>13 DEF ReleaseOne, TypeOK
  <2>2. joinedTo' \in [Thread -> Seq(Thread)]
    <3>1. \A u \in Thread : WithoutAll(joinedTo[u], releasing) \in Seq(Thread)
      BY WithoutAllElements DEF TypeOK
    <3>2. joinedTo' = [joinedTo EXCEPT ![Head(toRelease)] =
                         WithoutAll(joinedTo[Head(toRelease)], releasing)]
      BY <1>13 DEF ReleaseOne
    <3>3. QED
      BY <2>1, <3>1, <3>2, ZenonT(60) DEF TypeOK
  <2>3. QED
    BY <1>13, <2>1, <2>2, SignalThreadType DEF ReleaseOne, TypeOK, KernelHasThread, Event
<1>14. CASE ReleaseReturn
  <2>1. ClockOK'
    BY <1>14, ToggleType DEF ReleaseReturn, TypeOK, ClockOK
  <2>2. QED
    BY <1>14, <2>1, CurrentType, ConstantsAssumption DEF ReleaseReturn, FrameGone, TypeOK,
       ClockOK, KernelHasThread, KSteps, Callers, Idle
<1>15. CASE ExitDead
  <2>1. Current \in Thread /\ ~Idle
    BY <1>15, CurrentType DEF ExitDead
  <2>2. QueueOK' /\ ClockOK' /\ kstep' \in {"resume", "none"} /\ (Idle' => kstep' = "none")
    BY <1>15, <2>1, ThreadNotRunningType DEF ExitDead, States
  <2>3. QED
    BY <1>15, <2>1, <2>2 DEF ExitDead, FrameGone, TypeOK, QueueOK, ClockOK,
       KernelHasThread, KSteps, Callers, Blocks, PCs, Counted, NothingCounted, Event,
       RingStates
<1>16. QED
  BY <1>1, <1>2, <1>3, <1>4, <1>5, <1>6, <1>7, <1>8, <1>9, <1>10, <1>11, <1>12, <1>13,
     <1>14, <1>15 DEF KernelStep

\* register-time-event keeps the type of timer-records.
LEMMA AddTimerRecordType ==
  ASSUME TypeOK, NEW record \in TimerRecord, AddTimerRecord(record)
  PROVE  timerRecords' \in Seq(TimerRecord)
<1>1. PICK i \in 1 .. Len(timerRecords) + 1 :
        timerRecords' = InsertBefore(timerRecords, i, record)
  BY DEF AddTimerRecord
<1>2. QED
  BY <1>1, InsertBeforeType DEF TypeOK

\* Every step of a thread inside a procedure of the thread system keeps TypeInv.
LEMMA ThreadTypeStep ==
  ASSUME TypeInv, NEW t \in Thread, ThreadStep(t)
  PROVE  TypeInv'
<1> USE DEF TypeInv
<1>1. CASE CreateThreadReturn(t)
  <2>1. ClockOK'
    BY <1>1, ToggleType DEF CreateThreadReturn, TypeOK
  <2>2. blockEvents' \in [Thread -> Blocks] /\ saved' \in [Thread -> Blocks]
    BY <1>1 DEF CreateThreadReturn, TypeOK, Blocks
  <2>3. QED
    BY <1>1, <2>1, <2>2 DEF CreateThreadReturn, At, TypeOK, ClockOK, KernelHasThread, Idle,
       PCs
<1>2. CASE SignalSelfAdd(t)
  <2>1. pendingEvents' \in [Thread -> Seq(Event)]
    <3>1. counted[t].event \in Event /\ pendingEvents[t] \in Seq(Event)
      BY DEF TypeOK, Counted
    <3>2. AddWhenFound(pendingEvents[t], counted[t].found, counted[t].event) \in Seq(Event)
      BY <3>1, AddWhenFoundType
    <3>3. QED
      BY <1>2, <3>2 DEF SignalSelfAdd, TypeOK
  <2>2. QED
    BY <1>2, <2>1 DEF SignalSelfAdd, ReturnFromBlocked, At, TypeOK, KernelHasThread, Idle, PCs,
       Blocks, Counted, NothingCounted, Event, RingStates
<1>3. CASE At(t, "unblock") /\ UnblockThreadEvents(t)
  BY <1>3 DEF UnblockThreadEvents, At, TypeOK, KernelHasThread, Idle, KSteps, Callers, PCs
<1>4. CASE \E delay \in Delays : SleepRegister(t, delay)
  <2>1. PICK delay \in Delays : SleepRegister(t, delay)
    BY <1>4
  <2>2. timerRecords' \in Seq(TimerRecord)
    <3>1. [time |-> delay, thread |-> t, event |-> "alarm"] \in TimerRecord
      BY ConstantsAssumption DEF TimerRecord, Event
    <3>2. QED
      BY <2>1, <3>1, AddTimerRecordType DEF SleepRegister
  <2>3. ClockOK'
    BY <2>1, <2>2, ToggleType DEF SleepRegister, TypeOK
  <2>4. QED
    BY <2>1, <2>2, <2>3 DEF SleepRegister, At, TypeOK, ClockOK, KernelHasThread, Idle, PCs
<1>5. CASE SleepSuspend(t)
  BY <1>5 DEF SleepSuspend, Suspend, At, TypeOK, KernelHasThread, Idle, KSteps, Callers,
     PCs, Blocks
<1>6. CASE SleepReturn(t)
  BY <1>6 DEF SleepReturn, ReturnFromBlocked, At, TypeOK, KernelHasThread, Idle, PCs, Blocks,
     Counted, NothingCounted, Event, RingStates
<1>7. QED
  BY <1>1, <1>2, <1>3, <1>4, <1>5, <1>6 DEF ThreadStep

\* Every procedure of the thread system that a thread calls keeps TypeInv.
LEMMA UserTypeStep ==
  ASSUME TypeInv, NEW t \in Thread, UserCall(t)
  PROVE  TypeInv'
<1> USE DEF TypeInv
<1>1. CASE YieldCurrentThread(t)
  <2>1. ~Idle /\ t = Current /\ YieldThread(Current)
    BY <1>1 DEF YieldCurrentThread, Calls
  <2>2. executionState' \in [Thread -> States]
    BY <1>1 DEF YieldCurrentThread, TypeOK, States
  <2>3. QED
    BY <1>1, <2>1, <2>2, YieldThreadType DEF YieldCurrentThread, TypeOK, KernelHasThread,
       KSteps
<1>2. CASE \E state \in RunningStates : SetPreemption(t, state)
  <2>1. executionState' \in [Thread -> States]
    BY <1>2 DEF SetPreemption, RunningStates, TypeOK, States
  <2>2. QED
    BY <1>2, <2>1 DEF SetPreemption, Calls, TypeOK, KernelHasThread, Idle
<1>3. CASE StopCurrentThread(t)
  <2>1. ~Idle /\ t = Current
    BY <1>3 DEF StopCurrentThread, Calls
  <2>2. QueueOK' /\ ClockOK' /\ kstep' \in {"resume", "none"} /\ (Idle' => kstep' = "none")
    BY <1>3, <2>1, ThreadNotRunningType DEF StopCurrentThread, States
  <2>3. QED
    BY <1>3, <2>2 DEF StopCurrentThread, TypeOK, QueueOK, ClockOK, KernelHasThread, KSteps
<1>4. CASE SuspendCurrentThread(t)
  BY <1>4 DEF SuspendCurrentThread, Suspend, Calls, TypeOK, KernelHasThread, Idle, KSteps,
     Callers, PCs, Blocks
<1>5. CASE \E event \in Events : SignalSelf(t, event)
  <2>1. PICK event \in Events : SignalSelf(t, event)
    BY <1>5
  <2>2. counted' \in [Thread -> Counted]
    <3>1. [event |-> event, found |-> RingState(pendingEvents[t])] \in Counted
      BY ConstantsAssumption DEF Counted, Event, RingState, RingStates
    <3>2. QED
      BY <2>1, <3>1 DEF SignalSelf, TypeOK
  <2>3. QED
    BY <2>1, <2>2 DEF SignalSelf, Calls, TypeOK, KernelHasThread, Idle, PCs, Blocks
<1>6. CASE Calls(t, "block") /\ UnblockThreadEvents(t)
  BY <1>6 DEF UnblockThreadEvents, Calls, TypeOK, KernelHasThread, Idle, KSteps, Callers,
     PCs
<1>7. CASE \E block \in {"#f", "#t"} : SetThreadEventBlock(t, block)
  <2>1. blockEvents' \in [Thread -> Blocks]
    BY <1>7 DEF SetThreadEventBlock, TypeOK, Blocks
  <2>2. QED
    BY <1>7, <2>1 DEF SetThreadEventBlock, Calls, TypeOK, KernelHasThread, Idle
<1>8. CASE HandleCurrentThreadEvents(t)
  BY <1>8 DEF HandleCurrentThreadEvents, Calls, TypeOK, KernelHasThread, Idle, KSteps,
     Callers
<1>9. CASE AllowThreadEventDelivery(t)
  BY <1>9 DEF AllowThreadEventDelivery, Calls, TypeOK, KernelHasThread, Idle, KSteps,
     Callers, Blocks
<1>10. CASE \E delay \in Delays, event \in Events : RegisterTimerEvent(t, delay, event)
  <2>1. PICK delay \in Delays, event \in Events : RegisterTimerEvent(t, delay, event)
    BY <1>10
  <2>2. timerRecords' \in Seq(TimerRecord)
    <3>1. [time |-> delay, thread |-> t, event |-> event] \in TimerRecord
      BY ConstantsAssumption DEF TimerRecord, Event
    <3>2. QED
      BY <2>1, <3>1, AddTimerRecordType DEF RegisterTimerEvent
  <2>3. ClockOK'
    BY <2>1, <2>2, ToggleType DEF RegisterTimerEvent, TypeOK
  <2>4. QED
    BY <2>1, <2>2, <2>3 DEF RegisterTimerEvent, Calls, TypeOK, ClockOK, KernelHasThread, Idle
<1>11. CASE \E i \in DOMAIN timerRecords : DeregisterTimerEvent(t, i)
  <2>1. timerRecords' \in Seq(TimerRecord)
    BY <1>11, DropAtType DEF DeregisterTimerEvent, TypeOK
  <2>2. ClockOK'
    BY <1>11, <2>1, ToggleType DEF DeregisterTimerEvent, TypeOK
  <2>3. QED
    BY <1>11, <2>1, <2>2 DEF DeregisterTimerEvent, Calls, TypeOK, ClockOK, KernelHasThread,
       Idle
<1>12. CASE \E interval \in Intervals : SetThreadTimerInterval(t, interval)
  <2>1. timerInterval' \in Nat
    BY <1>12, ConstantsAssumption DEF SetThreadTimerInterval
  <2>2. ClockOK'
    BY <1>12, <2>1, ToggleType DEF SetThreadTimerInterval, TypeOK
  <2>3. QED
    BY <1>12, <2>1, <2>2 DEF SetThreadTimerInterval, Calls, TypeOK, ClockOK,
       KernelHasThread, Idle
<1>13. CASE SleepCurrentThread(t)
  BY <1>13 DEF SleepCurrentThread, Calls, TypeOK, KernelHasThread, Idle, PCs, Blocks
<1>14. CASE \E m \in Mutex : LockThreadMutex(t, m)
  <2>1. PICK m \in Mutex : LockThreadMutex(t, m)
    BY <1>14
  <2>2. <<m>> \o mutexes[t] \in Seq(Mutex)
    BY DEF TypeOK
  <2>3. QED
    BY <2>1, <2>2 DEF LockThreadMutex, Calls, TypeOK, KernelHasThread, Idle
<1>15. CASE \E m \in Mutex : EnqueueForMutex(t, m)
  <2>1. PICK m \in Mutex : EnqueueForMutex(t, m)
    BY <1>15
  <2>2. <<m>> \o mutexes[t] \in Seq(Mutex) /\ Append(waitingThreads[m], t) \in Seq(Thread)
    BY DEF TypeOK
  <2>3. QED
    BY <2>1, <2>2 DEF EnqueueForMutex, Calls, TypeOK, KernelHasThread, Idle, KSteps, PCs
<1>16. CASE \E m \in Mutex : UnlockThreadMutex(t, m)
  <2>1. PICK m \in Mutex : UnlockThreadMutex(t, m)
    BY <1>16
  <2>2. mutexes' \in [Thread -> Seq(Mutex)]
    <3>1. Without(mutexes[t], m) \in Seq(Mutex)
      BY WithoutType DEF TypeOK
    <3>2. QED
      BY <2>1, <3>1 DEF UnlockThreadMutex, TypeOK
  <2>3. ClockOK'
    BY <2>1, ToggleType DEF UnlockThreadMutex, TypeOK, ClockOK
  <2>4. QED
    BY <2>1, <2>2, <2>3, HandOverType DEF UnlockThreadMutex, Calls, TypeOK, ClockOK,
       KernelHasThread
<1>17. CASE ExitCurrentThread(t)
  <2>1. pendingEvents' \in [Thread -> Seq(Event)]
    BY <1>17 DEF ExitCurrentThread, BeginExit, TypeOK
  <2>2. QED
    BY <1>17, <2>1 DEF ExitCurrentThread, BeginExit, Calls, TypeOK, KernelHasThread, Idle,
       KSteps, Callers, Blocks
<1>18. CASE DeregisterAllEvents(t)
  <2>1. pendingEvents' \in [Thread -> Seq(Event)]
    BY <1>18 DEF DeregisterAllEvents, TypeOK
  <2>2. QED
    BY <1>18, <2>1 DEF DeregisterAllEvents, Calls, TypeOK, KernelHasThread, Idle, KSteps,
       Callers
<1>19. ASSUME NEW u \in Thread, CreateThread(t, u) PROVE TypeInv'
  <2>1. runQueue' \in Seq(Thread) /\ ~Idle'
    BY <1>19, AppendType DEF CreateThread, TypeOK, Idle
  <2>2. QED
    BY <1>19, <2>1 DEF CreateThread, Calls, TypeOK, KernelHasThread, States, PCs, Blocks
<1>20. ASSUME NEW u \in Thread, NEW event \in Events, SignalThreadEvent(t, u, event)
       PROVE  TypeInv'
  <2>1. event \in Event
    BY ConstantsAssumption DEF Event
  <2>2. ClockOK'
    BY <1>20, ToggleType DEF SignalThreadEvent, TypeOK
  <2>3. QED
    BY <1>20, <2>1, <2>2, SignalThreadType DEF SignalThreadEvent, Calls, TypeOK, ClockOK,
       KernelHasThread
<1>21. ASSUME NEW u \in Thread, NEW discard \in BOOLEAN, NEW event \in Events,
              RestartThread(t, u, discard, event)
       PROVE  TypeInv'
  <2>1. pendingEvents' \in [Thread -> Seq(Event)]
    <3>1. event \in Event /\ pendingEvents[u] \in Seq(Event) /\ <<>> \in Seq(Event)
      BY ConstantsAssumption DEF Event, TypeOK
    <3>2. \A ring \in Seq(Event) : AddPendingEvent(ring, event) \in Seq(Event)
      BY <3>1, AddWhenFoundType DEF AddPendingEvent
    <3>3. QED
      BY <1>21, <3>1, <3>2 DEF RestartThread, TypeOK
  <2>2. ClockOK'
    BY <1>21, ToggleType DEF RestartThread, TypeOK
  <2>3. runQueue' \in Seq(Thread) /\ ~Idle'
    BY <1>21, AppendType DEF RestartThread, TypeOK, Idle
  <2>4. QED
    BY <1>21, <2>1, <2>2, <2>3 DEF RestartThread, TypeOK, ClockOK, KernelHasThread, States
<1>22. ASSUME NEW u \in Thread, JoinThread(t, u) PROVE TypeInv'
  <2>1. <<t>> \o joinedThreads[u] \in Seq(Thread) /\ <<u>> \o joinedTo[t] \in Seq(Thread)
    BY DEF TypeOK
  <2>2. QED
    BY <1>22, <2>1 DEF JoinThread, Calls, TypeOK, KernelHasThread, Idle
<1>23. ASSUME NEW u \in Thread, JoinExitedThread(t, u) PROVE TypeInv'
  <2>1. pendingEvents' \in [Thread -> Seq(Event)]
    <3>1. AddPendingEvent(pendingEvents[t], "join") \in Seq(Event)
      BY AddWhenFoundType DEF AddPendingEvent, TypeOK, Event
    <3>2. QED
      BY <1>23, <3>1 DEF JoinExitedThread, TypeOK
  <2>2. QED
    BY <1>23, <2>1 DEF JoinExitedThread, Calls, TypeOK, KernelHasThread, Idle, KSteps,
       Callers, Blocks
<1>24. ASSUME NEW u \in Thread, DetachThread(t, u) PROVE TypeInv'
  BY <1>24 DEF DetachThread, BeginRelease, Calls, TypeOK, KernelHasThread, Idle, KSteps,
     Callers
<1>25. QED
  BY <1>1, <1>2, <1>3, <1>4, <1>5, <1>6, <1>7, <1>8, <1>9, <1>10, <1>11, <1>12, <1>13,
     <1>14, <1>15, <1>16, <1>17, <1>18, <1>19, <1>20, <1>21, <1>22, <1>23, <1>24
     DEF UserCall

\* The passing of time, the timer interrupt and a signal while idle keep TypeInv.
LEMMA OtherTypeStep ==
  ASSUME TypeInv,
         \/ Tick \/ TimerInterrupt
         \/ \E u \in Thread, event \in Events : SignalWhileIdle(u, event)
  PROVE  TypeInv'
<1> USE DEF TypeInv
<1>1. CASE Tick
  <2>1. timerRecords' \in Seq(TimerRecord)
    <3> DEFINE r(i) == [timerRecords[i] EXCEPT !.time = IF @ > 0 THEN @ - 1 ELSE 0]
    <3>1. \A i \in DOMAIN timerRecords : timerRecords[i] \in TimerRecord
      BY DEF TypeOK
    <3>2. \A i \in DOMAIN timerRecords : r(i) \in TimerRecord
      BY <3>1 DEF TimerRecord
    <3>3. timerRecords' = [i \in 1 .. Len(timerRecords) |-> r(i)]
      BY <1>1 DEF Tick, TypeOK
    <3>4. Len(timerRecords) \in Nat /\ DOMAIN timerRecords = 1 .. Len(timerRecords)
      BY DEF TypeOK
    <3>5. QED
      BY <3>2, <3>3, <3>4, IsASeq
  <2>2. ClockOK'
    BY <1>1 DEF Tick, TypeOK, ClockOK, Off
  <2>3. QED
    BY <1>1, <2>1, <2>2 DEF Tick, TypeOK, ClockOK, KernelHasThread, Idle
<1>2. CASE TimerInterrupt
  BY <1>2 DEF TimerInterrupt, TypeOK, KernelHasThread, Idle, KSteps, Callers
<1>3. ASSUME NEW u \in Thread, NEW event \in Events, SignalWhileIdle(u, event)
      PROVE  TypeInv'
  <2>1. event \in Event
    BY ConstantsAssumption DEF Event
  <2>2. ClockOK'
    BY <1>3, ToggleType DEF SignalWhileIdle, TypeOK, ClockOK
  <2>3. KernelHasThread' /\ kstep' \in KSteps
    <3>1. CASE Wakes(u)
      <4>1. runQueue' = Append(runQueue, u)
        BY <1>3, <3>1 DEF SignalWhileIdle, SignalThread
      <4>2. QED
        BY <1>3, <3>1, <4>1, AppendType DEF SignalWhileIdle, TypeOK, KernelHasThread, Idle, KSteps
    <3>2. CASE ~Wakes(u)
      BY <1>3, <3>2 DEF SignalWhileIdle, KernelHasThread, KSteps
    <3>3. QED
      BY <3>1, <3>2
  <2>4. continuation' \in [Thread -> BOOLEAN]
    BY <1>3 DEF SignalWhileIdle, TypeOK
  <2>5. QED
    BY <1>3, <2>1, <2>2, <2>3, <2>4, SignalThreadType DEF SignalWhileIdle, TypeOK, ClockOK
<1>4. QED
  BY <1>1, <1>2, <1>3

\* Type correctness: every variable keeps its type, whatever the threads do.  The
\* strengthening KernelHasThread says that Current is a thread whenever the thread
\* system uses it: run-first-thread idles exactly when the run queue is empty.
THEOREM TypeCorrect == Spec => []TypeInv
<1>1. Init => TypeInv
  <2> SUFFICES ASSUME Init PROVE TypeInv
    OBVIOUS
  <2>1. runQueue \in Seq(Thread) /\ FirstThread \in Thread
    BY ConstantsAssumption DEF Init
  <2>2. counted \in [Thread -> Counted]
    BY DEF Init, Counted, NothingCounted, Event, RingStates
  <2>3. /\ executionState \in [Thread -> States]
        /\ exitValue \in [Thread -> {"none", "value", "detached"}]
    BY DEF Init, States
  <2>4. /\ pendingEvents \in [Thread -> Seq(Event)]
        /\ joinedThreads \in [Thread -> Seq(Thread)]
        /\ joinedTo \in [Thread -> Seq(Thread)]
        /\ toRelease \in Seq(Thread)
    BY DEF Init
  <2>5. /\ mutexes \in [Thread -> Seq(Mutex)]
        /\ owner \in [Mutex -> Thread \cup {None}]
        /\ waitingThreads \in [Mutex -> Seq(Thread)]
        /\ wants \in [Thread -> Mutex \cup {None}]
    BY DEF Init
  <2>6. /\ timerRecords \in Seq(TimerRecord) /\ timerInterval \in Nat
        /\ hwTimer \in (Nat \ {0}) \cup {Off}
    BY ConstantsAssumption DEF Init
  <2>7. TypeOK
    BY <2>1, <2>2, <2>3, <2>4, <2>5, <2>6
    DEF Init, TypeOK, KSteps, PCs, Blocks, Callers
  <2>8. QED
    BY <2>7 DEF Init, TypeInv, KernelHasThread
<1>2. TypeInv /\ [Next]_vars => TypeInv'
  <2> SUFFICES ASSUME TypeInv, [Next]_vars PROVE TypeInv'
    OBVIOUS
  <2>1. CASE UNCHANGED vars
    BY <2>1 DEF vars, TypeInv, TypeOK, KernelHasThread, Idle
  <2>2. CASE Next
    BY <2>2, KernelTypeStep, ThreadTypeStep, UserTypeStep, OtherTypeStep DEF Next
  <2>3. QED
    BY <2>1, <2>2
<1>3. QED
  BY <1>1, <1>2, PTL DEF Spec

\* Every variable of the scheduler keeps its type, for any threads, mutexes, events,
\* delays and time slices.
THEOREM TypeSafety == Spec => []TypeOK
BY TypeCorrect, PTL DEF TypeInv
------------------------------------------------------------------------------
(* What a step can do to the run queue.                                      *)

\* No thread changes its state, except between the two running ones.
SameStates ==
  \A t \in Thread : \/ executionState'[t] = executionState[t]
                    \/ executionState'[t] \in RunningStates /\ executionState[t] \in RunningStates

\* It stays as it is.
Stays == runQueue' = runQueue /\ SameStates

\* The current thread leaves it.
Leaves ==
  /\ ~Idle
  /\ runQueue' = Tail(runQueue)
  /\ executionState'[Current] \notin RunningStates
  /\ \A t \in Thread \ {Current} : executionState'[t] = executionState[t]

\* A thread that was not running, and not dead, joins it.
Joins ==
  \E u \in Thread :
    /\ executionState[u] \notin RunningStates \cup {"DEAD"}
    /\ executionState'[u] \in RunningStates
    /\ \A t \in Thread \ {u} : executionState'[t] = executionState[t]
    /\ runQueue' = Append(runQueue, u)

\* The current thread goes to its end.
Rotates ==
  /\ ~Idle
  /\ runQueue' = Append(Tail(runQueue), Current)
  /\ SameStates

\* A thread is in the run queue exactly when it is at one of its places.
LEMMA ElementsMeaning ==
  ASSUME NEW s, NEW x
  PROVE  x \in Elements(s) <=> \E i \in DOMAIN s : s[i] = x
  BY DEF Elements

\* The current thread runs.
LEMMA CurrentRuns ==
  ASSUME TypeOK, RunQueueInv, ~Idle
  PROVE  Current \in Thread /\ executionState[Current] \in RunningStates
<1>1. runQueue \in Seq(Thread) /\ runQueue # <<>>
  BY DEF TypeOK, Idle
<1>2. 1 \in DOMAIN runQueue /\ Current = runQueue[1] /\ Current \in Thread
  BY <1>1 DEF Current
<1>3. Current \in Elements(runQueue)
  BY <1>2, ElementsMeaning
<1>4. QED
  BY <1>2, <1>3 DEF RunQueueInv

\* Each of the four keeps every running thread in the queue, and keeps it once.
LEMMA StaysKeeps ==
  ASSUME TypeOK, RunQueueInv, Stays
  PROVE  RunQueueInv'
  BY DEF RunQueueInv, Stays, SameStates, Elements

LEMMA JoinsKeeps ==
  ASSUME TypeOK, RunQueueInv, Joins
  PROVE  RunQueueInv'
<1>1. PICK u \in Thread :
        /\ executionState[u] \notin RunningStates \cup {"DEAD"}
        /\ executionState'[u] \in RunningStates
        /\ \A t \in Thread \ {u} : executionState'[t] = executionState[t]
        /\ runQueue' = Append(runQueue, u)
  BY DEF Joins
<1>2. runQueue \in Seq(Thread)
  BY DEF TypeOK
<1>3. /\ Len(runQueue') = Len(runQueue) + 1
      /\ DOMAIN runQueue' = 1 .. Len(runQueue) + 1 /\ DOMAIN runQueue = 1 .. Len(runQueue)
      /\ Len(runQueue) \in Nat
      /\ \A i \in 1 .. Len(runQueue) : runQueue'[i] = runQueue[i]
      /\ runQueue'[Len(runQueue) + 1] = u
  BY <1>1, <1>2
<1>4. \A i \in 1 .. Len(runQueue) : runQueue[i] # u
  BY <1>1, <1>3, ElementsMeaning DEF RunQueueInv
<1>5. \A i, j \in DOMAIN runQueue' : runQueue'[i] = runQueue'[j] => i = j
  BY <1>3, <1>4 DEF RunQueueInv
<1>6. ASSUME NEW t PROVE t \in Elements(runQueue') <=> t \in Elements(runQueue) \/ t = u
  <2>1. t \in Elements(runQueue') <=> \E i \in 1 .. Len(runQueue) + 1 : runQueue'[i] = t
    BY <1>3, ElementsMeaning
  <2>2. t \in Elements(runQueue) <=> \E i \in 1 .. Len(runQueue) : runQueue[i] = t
    BY <1>3, ElementsMeaning
  <2>3. QED
    BY <1>3, <2>1, <2>2
<1>7. Elements(runQueue') = {t \in Thread : executionState'[t] \in RunningStates}
  BY <1>1, <1>6 DEF RunQueueInv
<1>8. QED
  BY <1>5, <1>7 DEF RunQueueInv, Elements

LEMMA LeavesKeeps ==
  ASSUME TypeOK, RunQueueInv, Leaves
  PROVE  RunQueueInv'
<1>1. runQueue \in Seq(Thread) /\ runQueue # <<>>
  BY DEF TypeOK, Leaves, Idle
<1>2. /\ DOMAIN runQueue = 1 .. Len(runQueue) /\ Len(runQueue) \in Nat /\ Len(runQueue) > 0
      /\ Current = runQueue[1] /\ Current \in Thread
  BY <1>1 DEF Current
<1>3. /\ DOMAIN runQueue' = 1 .. Len(runQueue) - 1
      /\ \A i \in 1 .. Len(runQueue) - 1 : runQueue'[i] = runQueue[i + 1]
  BY <1>1, <1>2 DEF Leaves
<1>4. \A i, j \in DOMAIN runQueue' : runQueue'[i] = runQueue'[j] => i = j
  BY <1>2, <1>3 DEF RunQueueInv
<1>5. ASSUME NEW t PROVE t \in Elements(runQueue') <=> t \in Elements(runQueue) /\ t # Current
  <2>1. t \in Elements(runQueue') <=> \E i \in 1 .. Len(runQueue) - 1 : runQueue'[i] = t
    BY <1>3, ElementsMeaning
  <2>2. t \in Elements(runQueue) <=> \E i \in 1 .. Len(runQueue) : runQueue[i] = t
    BY <1>2, ElementsMeaning
  <2>3. ASSUME NEW i \in 1 .. Len(runQueue), runQueue[i] = t, t # Current
        PROVE  i - 1 \in 1 .. Len(runQueue) - 1 /\ runQueue'[i - 1] = t
    <3>1. i # 1
      BY <1>2, <2>3
    <3>2. i - 1 \in 1 .. Len(runQueue) - 1 /\ i - 1 + 1 = i
      BY <1>2, <3>1
    <3>3. QED
      BY <1>3, <2>3, <3>2
  <2>4. ASSUME NEW i \in 1 .. Len(runQueue) - 1, runQueue'[i] = t
        PROVE  i + 1 \in 1 .. Len(runQueue) /\ runQueue[i + 1] = t /\ t # Current
    <3>1. i + 1 \in 1 .. Len(runQueue) /\ i + 1 # 1 /\ 1 \in 1 .. Len(runQueue)
      BY <1>2
    <3>2. runQueue[i + 1] = t
      BY <1>3, <2>4
    <3>3. QED
      BY <1>2, <3>1, <3>2 DEF RunQueueInv
  <2>5. QED
    BY <2>1, <2>2, <2>3, <2>4
<1>6. Elements(runQueue') = {t \in Thread : executionState'[t] \in RunningStates}
  BY <1>2, <1>5 DEF RunQueueInv, Leaves
<1>7. QED
  BY <1>4, <1>6 DEF RunQueueInv, Elements

\* Two indices with the same successor are the same (the entries of the chain of
\* thread/next move up by one when the first thread leaves).
LEMMA SameSuccessor ==
  ASSUME NEW i \in Int, NEW j \in Int, i + 1 = j + 1
  PROVE  i = j
  OBVIOUS

\* A place before the last one has a place after it, which is not the first.
LEMMA BeforeLast ==
  ASSUME NEW m \in Nat, NEW k \in 1 .. m, k # m
  PROVE  k \in 1 .. m - 1 /\ k + 1 \in 1 .. m /\ k + 1 # 1 /\ 1 \in 1 .. m
  OBVIOUS

\* yield-thread, which moves the first thread to the end, keeps the chain whole.
LEMMA RotatesKeeps ==
  ASSUME TypeOK, RunQueueInv, Rotates
  PROVE  RunQueueInv'
<1> DEFINE n == Len(runQueue)
<1>1. runQueue \in Seq(Thread) /\ runQueue # <<>>
  BY DEF TypeOK, Rotates, Idle
<1>2. /\ DOMAIN runQueue = 1 .. n /\ n \in Nat /\ n > 0
      /\ Current = runQueue[1] /\ Current \in Thread
  BY <1>1 DEF Current
<1>3. /\ Tail(runQueue) \in Seq(Thread) /\ Len(Tail(runQueue)) = n - 1
      /\ \A i \in 1 .. n - 1 : Tail(runQueue)[i] = runQueue[i + 1]
  BY <1>1, <1>2
<1>4. /\ DOMAIN runQueue' = 1 .. n
      /\ \A i \in 1 .. n - 1 : runQueue'[i] = runQueue[i + 1]
      /\ runQueue'[n] = runQueue[1]
  BY <1>2, <1>3 DEF Rotates
<1>5. \A i, j \in DOMAIN runQueue' : runQueue'[i] = runQueue'[j] => i = j
  <2> SUFFICES ASSUME NEW i \in 1 .. n, NEW j \in 1 .. n, runQueue'[i] = runQueue'[j]
               PROVE  i = j
    BY <1>4
  <2>1. ASSUME NEW k \in 1 .. n, k # n
        PROVE  k + 1 \in 1 .. n /\ runQueue'[k] = runQueue[k + 1]
    <3>1. k \in 1 .. n - 1 /\ k + 1 \in 1 .. n
      BY <1>2, <2>1, BeforeLast
    <3>2. QED
      BY <1>4, <3>1, SMTT(30)
  <2>2. CASE i # n /\ j # n
    <3>1. i + 1 = j + 1
      <4>1. i + 1 \in 1 .. n /\ j + 1 \in 1 .. n /\ runQueue[i + 1] = runQueue[j + 1]
        BY <2>1, <2>2
      <4>2. QED
        BY <1>2, <4>1 DEF RunQueueInv
    <3>2. i \in Int /\ j \in Int
      BY <1>2
    <3>3. QED
      BY <3>1, <3>2, SameSuccessor
  <2>3. CASE i = n /\ j # n
    <3>1. 1 \in 1 .. n /\ j + 1 \in 1 .. n /\ j + 1 # 1
      BY <1>2, <2>3, BeforeLast
    <3>2. runQueue[1] = runQueue[j + 1]
      BY <1>4, <2>1, <2>3, SMTT(30)
    <3>3. QED
      BY <1>2, <3>1, <3>2, SMTT(30) DEF RunQueueInv
  <2>4. CASE i # n /\ j = n
    <3>1. 1 \in 1 .. n /\ i + 1 \in 1 .. n /\ i + 1 # 1
      BY <1>2, <2>4, BeforeLast
    <3>2. runQueue[1] = runQueue[i + 1]
      BY <1>4, <2>1, <2>4, SMTT(30)
    <3>3. QED
      BY <1>2, <3>1, <3>2, SMTT(30) DEF RunQueueInv
  <2>5. QED
    BY <2>2, <2>3, <2>4
<1>6. ASSUME NEW t PROVE t \in Elements(runQueue') <=> t \in Elements(runQueue)
  <2>1. t \in Elements(runQueue') <=> \E i \in 1 .. n : runQueue'[i] = t
    BY <1>4, ElementsMeaning
  <2>2. t \in Elements(runQueue) <=> \E i \in 1 .. n : runQueue[i] = t
    BY <1>2, ElementsMeaning
  <2>3. ASSUME NEW i \in 1 .. n, runQueue[i] = t
        PROVE  \E k \in 1 .. n : runQueue'[k] = t
    <3>1. CASE i = 1
      BY <1>2, <1>4, <2>3, <3>1
    <3>2. CASE i # 1
      <4>1. i - 1 \in 1 .. n - 1 /\ i - 1 \in 1 .. n /\ (i - 1) + 1 = i
        BY <1>2, <3>2
      <4>2. runQueue'[i - 1] = t
        BY <1>4, <2>3, <4>1
      <4>3. QED
        BY <4>1, <4>2
    <3>3. QED
      BY <3>1, <3>2
  <2>4. ASSUME NEW i \in 1 .. n, runQueue'[i] = t
        PROVE  \E k \in 1 .. n : runQueue[k] = t
    BY <1>2, <1>4, <2>4
  <2>5. QED
    BY <2>1, <2>2, <2>3, <2>4
<1>7. Elements(runQueue') = {t \in Thread : executionState'[t] \in RunningStates}
  BY <1>6 DEF RunQueueInv, Rotates, SameStates
<1>8. QED
  BY <1>5, <1>7 DEF RunQueueInv, Elements

\* Which of the four the pieces of the actions do.
LEMMA ThreadNotRunningLeaves ==
  ASSUME TypeOK, ~Idle, NEW state \in States \ RunningStates, NEW k,
         Current \in Thread, ThreadNotRunning(Current, state, k)
  PROVE  Leaves
  BY DEF ThreadNotRunning, Leaves, TypeOK

LEMMA SignalThreadJoins ==
  ASSUME TypeOK, NEW t \in Thread, NEW event, SignalThread(t, event)
  PROVE  Stays \/ Joins
<1>1. CASE Wakes(t)
  BY <1>1 DEF SignalThread, Wakes, Joins, TypeOK, RunningStates
<1>2. CASE ~Wakes(t)
  BY <1>2 DEF SignalThread, Stays, SameStates
<1>3. QED
  BY <1>1, <1>2

LEMMA HandOverJoins ==
  ASSUME TypeOK, NEW m \in Mutex, HandOver(m)
  PROVE  Stays \/ Joins
<1>1. CASE waitingThreads[m] = <<>>
  BY <1>1 DEF HandOver, Stays, SameStates
<1>2. CASE waitingThreads[m] # <<>>
  <2>1. Head(waitingThreads[m]) \in Thread
    BY <1>2 DEF TypeOK
  <2>2. SignalThread(Head(waitingThreads[m]), "#f")
    BY <1>2 DEF HandOver
  <2>3. QED
    BY <2>1, <2>2, SignalThreadJoins
<1>3. QED
  BY <1>1, <1>2

LEMMA YieldThreadRotates ==
  ASSUME YieldThread(Current), ~Idle,
         SameStates
  PROVE  Stays \/ Rotates
  BY DEF YieldThread, Stays, Rotates

\* A step of Next does one of the four.
QueueStep == Stays \/ Leaves \/ Joins \/ Rotates

LEMMA KernelQueueStep ==
  ASSUME TypeInv, KernelStep
  PROVE  QueueStep
<1> USE DEF TypeInv, QueueStep
<1>1. CASE ResumeCurrentThread \/ HandleOneEvent \/ LockSuspend \/ LockReturn
             \/ DiscardTimerRecord \/ DiscardReturn \/ ExitJoins \/ ExitMutexesDone
             \/ ReleaseReturn
  BY <1>1 DEF ResumeCurrentThread, HandleOneEvent, LockSuspend, Suspend, LockReturn,
     DiscardTimerRecord, DiscardReturn, ExitJoins, ExitMutexesDone, ReleaseReturn, Stays,
     SameStates
<1>2. CASE HandleReturn
  <2>1. Current \in Thread /\ ~Idle
    BY <1>2, CurrentType DEF HandleReturn
  <2>2. \/ UNCHANGED threadVars
        \/ ThreadNotRunning(Current, "WAITING", TRUE)
    BY <1>2 DEF HandleReturn
  <2>3. QED
    BY <2>1, <2>2, ThreadNotRunningLeaves DEF States, RunningStates, Stays, SameStates
<1>3. CASE DeliverOneRecord
  <2>1. Head(timerRecords).thread \in Thread
    <3>1. timerRecords \in Seq(TimerRecord) /\ timerRecords # <<>>
      BY <1>3 DEF DeliverOneRecord, TypeOK
    <3>2. Head(timerRecords) \in TimerRecord
      BY <3>1
    <3>3. QED
      BY <3>2 DEF TimerRecord
  <2>2. QED
    BY <1>3, <2>1, SignalThreadJoins DEF DeliverOneRecord
<1>4. CASE DeliverReturn
  <2>1. UNCHANGED executionState
    BY <1>4 DEF DeliverReturn
  <2>2. CASE UNCHANGED runQueue
    BY <2>1, <2>2 DEF Stays, SameStates
  <2>3. CASE ~UNCHANGED runQueue
    <3>1. YieldThread(Current) /\ ~Idle
      BY <1>4, <2>3 DEF DeliverReturn
    <3>2. QED
      BY <2>1, <3>1, YieldThreadRotates DEF SameStates
  <2>4. QED
    BY <2>2, <2>3
<1>5. CASE ExitMutex
  <2>1. Current \in Thread
    BY <1>5, CurrentType DEF ExitMutex
  <2>2. Head(mutexes[Current]) \in Mutex
    BY <1>5, <2>1 DEF ExitMutex, TypeOK
  <2>3. UNCHANGED <<executionState, runQueue>> \/ HandOver(Head(mutexes[Current]))
    BY <1>5 DEF ExitMutex
  <2>4. QED
    BY <2>2, <2>3, HandOverJoins DEF Stays, SameStates
<1>6. CASE ReleaseOne
  <2>1. Head(toRelease) \in Thread
    BY <1>6 DEF ReleaseOne, TypeOK
  <2>2. QED
    BY <1>6, <2>1, SignalThreadJoins DEF ReleaseOne
<1>7. CASE ExitDead
  <2>1. Current \in Thread /\ ~Idle
    BY <1>7, CurrentType DEF ExitDead
  <2>2. QED
    BY <1>7, <2>1, ThreadNotRunningLeaves DEF ExitDead, States, RunningStates
<1>8. QED
  BY <1>1, <1>2, <1>3, <1>4, <1>5, <1>6, <1>7 DEF KernelStep

LEMMA ThreadQueueStep ==
  ASSUME NEW t \in Thread, ThreadStep(t)
  PROVE  QueueStep
  BY DEF ThreadStep, CreateThreadReturn, SignalSelfAdd, UnblockThreadEvents, SleepRegister,
     SleepSuspend, Suspend, SleepReturn, Stays, SameStates, QueueStep

LEMMA UserQueueStep ==
  ASSUME TypeInv, RunQueueInv, NEW t \in Thread, UserCall(t)
  PROVE  QueueStep
<1> USE DEF TypeInv, QueueStep
<1>1. CASE YieldCurrentThread(t)
  <2>1. ~Idle /\ t = Current /\ YieldThread(Current)
    BY <1>1 DEF YieldCurrentThread, Calls
  <2>2. executionState' = [executionState EXCEPT ![t] = "RUNNING"]
    BY <1>1 DEF YieldCurrentThread
  <2>3. executionState[t] \in RunningStates
    BY <2>1, CurrentRuns
  <2>4. SameStates
    BY <2>2, <2>3 DEF SameStates, RunningStates, TypeOK
  <2>5. QED
    BY <2>1, <2>4, YieldThreadRotates
<1>2. CASE \E state \in RunningStates : SetPreemption(t, state)
  <2>1. executionState[t] \in RunningStates
    BY <1>2, CurrentRuns DEF SetPreemption, Calls
  <2>2. QED
    BY <1>2, <2>1 DEF SetPreemption, Stays, SameStates, TypeOK
<1>3. CASE StopCurrentThread(t)
  <2>1. ~Idle /\ t = Current
    BY <1>3 DEF StopCurrentThread, Calls
  <2>2. QED
    BY <1>3, <2>1, ThreadNotRunningLeaves DEF StopCurrentThread, States, RunningStates
<1>4. CASE \/ SuspendCurrentThread(t)
           \/ \E event \in Events : SignalSelf(t, event)
           \/ Calls(t, "block") /\ UnblockThreadEvents(t)
           \/ \E block \in {"#f", "#t"} : SetThreadEventBlock(t, block)
           \/ HandleCurrentThreadEvents(t)
           \/ AllowThreadEventDelivery(t)
           \/ \E delay \in Delays, event \in Events : RegisterTimerEvent(t, delay, event)
           \/ \E i \in DOMAIN timerRecords : DeregisterTimerEvent(t, i)
           \/ \E interval \in Intervals : SetThreadTimerInterval(t, interval)
           \/ SleepCurrentThread(t)
           \/ \E m \in Mutex : LockThreadMutex(t, m) \/ EnqueueForMutex(t, m)
           \/ ExitCurrentThread(t)
           \/ DeregisterAllEvents(t)
           \/ \E u \in Thread : JoinThread(t, u) \/ JoinExitedThread(t, u)
                                \/ DetachThread(t, u)
  BY <1>4 DEF SuspendCurrentThread, Suspend, SignalSelf, UnblockThreadEvents,
     SetThreadEventBlock, HandleCurrentThreadEvents, AllowThreadEventDelivery,
     RegisterTimerEvent, DeregisterTimerEvent, SetThreadTimerInterval, SleepCurrentThread,
     LockThreadMutex, EnqueueForMutex, ExitCurrentThread, DeregisterAllEvents, JoinThread,
     JoinExitedThread, DetachThread, Stays, SameStates
<1>5. CASE \E m \in Mutex : UnlockThreadMutex(t, m)
  BY <1>5, HandOverJoins DEF UnlockThreadMutex
<1>6. ASSUME NEW u \in Thread, CreateThread(t, u) PROVE QueueStep
  BY <1>6 DEF CreateThread, Joins, TypeOK, RunningStates
<1>7. ASSUME NEW u \in Thread, NEW event \in Events, SignalThreadEvent(t, u, event)
      PROVE  QueueStep
  BY <1>7, SignalThreadJoins DEF SignalThreadEvent
<1>8. ASSUME NEW u \in Thread, NEW discard \in BOOLEAN, NEW event \in Events,
             RestartThread(t, u, discard, event)
      PROVE  QueueStep
  BY <1>8 DEF RestartThread, Joins, TypeOK, RunningStates
<1>9. QED
  BY <1>1, <1>2, <1>3, <1>4, <1>5, <1>6, <1>7, <1>8 DEF UserCall

LEMMA OtherQueueStep ==
  ASSUME TypeInv,
         \/ Tick \/ TimerInterrupt
         \/ \E u \in Thread, event \in Events : SignalWhileIdle(u, event)
  PROVE  QueueStep
  BY SignalThreadJoins DEF TypeInv, QueueStep, Tick, TimerInterrupt, SignalWhileIdle,
     Stays, SameStates

LEMMA NextQueueStep ==
  ASSUME TypeInv, RunQueueInv, [Next]_vars
  PROVE  QueueStep
<1>1. CASE UNCHANGED vars
  BY <1>1 DEF vars, QueueStep, Stays, SameStates
<1>2. CASE Next
  BY <1>2, KernelQueueStep, ThreadQueueStep, UserQueueStep, OtherQueueStep DEF Next
<1>3. QED
  BY <1>1, <1>2

\* The run queue is right for any number of threads: it holds exactly the threads in
\* a running state, each once, whatever is created, woken, preempted, stopped,
\* restarted or killed, in any order.  Relative to TypeInv the invariant is
\* inductive: every step leaves the queue alone or makes one of three moves, and only
\* a thread that was not in a running state is ever appended.
THEOREM RunQueueCorrect == Spec => []RunQueueInv
<1>1. Init => RunQueueInv
  <2> SUFFICES ASSUME Init PROVE RunQueueInv
    OBVIOUS
  <2>1. runQueue = <<FirstThread>> /\ FirstThread \in Thread
    BY ConstantsAssumption DEF Init
  <2>2. DOMAIN runQueue = {1} /\ runQueue[1] = FirstThread
    BY <2>1
  <2>3. Elements(runQueue) = {FirstThread}
    BY <2>2, ElementsMeaning DEF Elements
  <2>4. {t \in Thread : executionState[t] \in RunningStates} = {FirstThread}
    BY <2>1 DEF Init, RunningStates
  <2>5. QED
    BY <2>2, <2>3, <2>4 DEF RunQueueInv
<1>2. TypeInv /\ RunQueueInv /\ [Next]_vars => RunQueueInv'
  <2> SUFFICES ASSUME TypeInv, RunQueueInv, [Next]_vars PROVE RunQueueInv'
    OBVIOUS
  <2>1. TypeOK /\ (Stays \/ Leaves \/ Joins \/ Rotates)
    BY NextQueueStep DEF QueueStep, TypeInv
  <2>2. QED
    BY <2>1, StaysKeeps, LeavesKeeps, JoinsKeeps, RotatesKeeps
<1>3. QED
  BY <1>1, <1>2, TypeCorrect, PTL DEF Spec

\* Death is final, for any number of threads: nothing that a thread or the timer does
\* gives a dead thread another state.  The current thread, the only one that changes
\* its own state, is not dead by RunQueueCorrect, and no dead thread is appended to
\* the run queue.
THEOREM DeathIsFinal == Spec => DeadStaysDead
<1>1. TypeInv /\ RunQueueInv /\ [Next]_vars
        => [\A t \in Thread : executionState[t] = "DEAD" => executionState'[t] = "DEAD"]_vars
  <2> SUFFICES ASSUME TypeInv, RunQueueInv, [Next]_vars,
                      NEW t \in Thread, executionState[t] = "DEAD"
               PROVE  executionState'[t] = "DEAD"
    OBVIOUS
  <2>1. ~Idle => t # Current
    BY CurrentRuns DEF TypeInv, RunningStates
  <2>2. QED
    BY <2>1, NextQueueStep DEF QueueStep, Stays, Leaves, Joins, Rotates, SameStates,
       RunningStates
<1>2. QED
  BY <1>1, TypeCorrect, RunQueueCorrect, PTL DEF Spec, DeadStaysDead
------------------------------------------------------------------------------
(* No wakeup is lost.                                                        *)

\* Between the decision to suspend and the test of the pending events, the events
\* of the current thread are not blocked and nobody hands it the mutex it wants.
SuspendReady ==
  kstep = "handle" /\ caller = "suspend" =>
    /\ blockEvents[Current] # "#t"
    /\ pc[Current] = "lock" => owner[wants[Current]] # Current

\* A thread in the loop of %lock-thread-mutex wants a mutex.
LockWants == \A t \in Thread : pc[t] = "lock" => wants[t] \in Mutex

\* %resume-current-thread goes on in that loop only with a thread that is in it.
LockLoop == kstep = "lock" => pc[Current] = "lock"

\* The inductive invariant behind NoLostWakeup.
WakeInv == NoLostWakeup /\ SuspendReady /\ LockWants /\ LockLoop

\* A step leaves thread t waiting as it was.
Undisturbed(t) ==
  /\ executionState[t] = "WAITING"
  /\ pendingEvents'[t] = pendingEvents[t] /\ blockEvents'[t] = blockEvents[t]
  /\ pc'[t] = pc[t] /\ wants'[t] = wants[t]
  /\ \A m \in Mutex : owner'[m] = t => owner[m] = t

\* A step makes the current thread t wait.
FallsAsleep(t) ==
  /\ kstep = "handle" /\ caller = "suspend" /\ ~Idle /\ t = Current
  /\ pendingEvents'[t] = <<>>
  /\ UNCHANGED <<blockEvents, pc, wants, owner>>

\* %signal-thread-event leaves no thread waiting that it gave an event.
LEMMA SignalWakes ==
  ASSUME TypeOK, NoLostWakeup, NEW u \in Thread, NEW event, SignalThread(u, event),
         NEW t \in Thread, executionState'[t] = "WAITING"
  PROVE  /\ t # u /\ executionState[t] = "WAITING"
         /\ pendingEvents'[t] = pendingEvents[t]
<1>1. executionState[t] = "WAITING"
  BY DEF SignalThread, TypeOK
<1>2. t # u
  BY <1>1 DEF SignalThread, Wakes, NoLostWakeup, TypeOK
<1>3. QED
  BY <1>1, <1>2 DEF SignalThread, TypeOK

\* Nor does %%unlock-thread-mutex leave the new owner waiting.
LEMMA HandOverWakes ==
  ASSUME TypeOK, NoLostWakeup, NEW m \in Mutex, HandOver(m),
         NEW t \in Thread, executionState'[t] = "WAITING"
  PROVE  /\ executionState[t] = "WAITING"
         /\ pendingEvents'[t] = pendingEvents[t]
         /\ \A n \in Mutex : owner'[n] = t => owner[n] = t
<1>1. CASE waitingThreads[m] = <<>>
  BY <1>1, ConstantsAssumption DEF HandOver, TypeOK
<1>2. CASE waitingThreads[m] # <<>>
  <2>1. Head(waitingThreads[m]) \in Thread
    BY <1>2 DEF TypeOK
  <2>2. /\ SignalThread(Head(waitingThreads[m]), "#f")
        /\ owner' = [owner EXCEPT ![m] = Head(waitingThreads[m])]
    BY <1>2 DEF HandOver
  <2>3. /\ t # Head(waitingThreads[m]) /\ executionState[t] = "WAITING"
        /\ pendingEvents'[t] = pendingEvents[t]
    BY <2>1, <2>2, SignalWakes
  <2>4. QED
    BY <2>2, <2>3 DEF TypeOK
<1>3. QED
  BY <1>1, <1>2

\* The current thread does not wait.
LEMMA WaiterNotCurrent ==
  ASSUME TypeOK, RunQueueInv, ~Idle, NEW t, executionState[t] = "WAITING"
  PROVE  t # Current
  BY CurrentRuns DEF RunningStates

\* When the current thread leaves the run queue in another state than WAITING, the
\* threads that wait are those that did.
LEMMA NotRunningWaiter ==
  ASSUME TypeOK, NEW c \in Thread, NEW state \in {"STOPPED", "DEAD"}, NEW k,
         ThreadNotRunning(c, state, k),
         NEW t \in Thread, executionState'[t] = "WAITING"
  PROVE  executionState[t] = "WAITING" /\ t # c
  BY DEF ThreadNotRunning, TypeOK

LEMMA KernelWaiters ==
  ASSUME TypeInv, RunQueueInv, NoLostWakeup, KernelStep,
         NEW t \in Thread, executionState'[t] = "WAITING"
  PROVE  Undisturbed(t) \/ FallsAsleep(t)
<1> USE DEF TypeInv
<1>1. CASE ResumeCurrentThread \/ DeliverReturn \/ DiscardTimerRecord \/ DiscardReturn
             \/ ExitJoins \/ ExitMutexesDone \/ ReleaseReturn
  BY <1>1 DEF ResumeCurrentThread, DeliverReturn, DiscardTimerRecord, DiscardReturn,
     ExitJoins, ExitMutexesDone, ReleaseReturn, Undisturbed
<1>2. CASE HandleOneEvent \/ LockSuspend \/ LockReturn
  <2>1. ~Idle /\ executionState[t] = "WAITING"
    BY <1>2, CurrentType DEF HandleOneEvent, LockSuspend, Suspend, LockReturn
  <2>2. t # Current
    BY <2>1, WaiterNotCurrent
  <2>3. QED
    BY <1>2, <2>1, <2>2 DEF HandleOneEvent, BeginExit, LockSuspend, Suspend, LockReturn,
       Undisturbed, TypeOK
<1>3. CASE HandleReturn
  <2>1. ~Idle /\ Current \in Thread
    BY <1>3, CurrentType DEF HandleReturn
  <2>2. CASE UNCHANGED threadVars
    <3>1. executionState[t] = "WAITING" /\ t # Current
      BY <2>1, <2>2, WaiterNotCurrent
    <3>2. blockEvents'[t] = blockEvents[t]
      BY <1>3, <3>1 DEF HandleReturn, TypeOK
    <3>3. QED
      BY <1>3, <3>1, <3>2 DEF HandleReturn, Undisturbed
  <2>3. CASE ~UNCHANGED threadVars
    <3>1. /\ kstep = "handle" /\ caller = "suspend" /\ pendingEvents[Current] = <<>>
          /\ ThreadNotRunning(Current, "WAITING", TRUE)
          /\ UNCHANGED <<blockEvents, pendingEvents, pc, wants, owner>>
      BY <1>3, <2>3 DEF HandleReturn
    <3>2. CASE t = Current
      BY <2>1, <3>1, <3>2 DEF FallsAsleep
    <3>3. CASE t # Current
      BY <3>1, <3>3 DEF ThreadNotRunning, Undisturbed, TypeOK
    <3>4. QED
      BY <3>2, <3>3
  <2>4. QED
    BY <2>2, <2>3
<1>4. CASE DeliverOneRecord
  <2>1. Head(timerRecords).thread \in Thread
    <3>1. timerRecords \in Seq(TimerRecord) /\ timerRecords # <<>>
      BY <1>4 DEF DeliverOneRecord, TypeOK
    <3>2. Head(timerRecords) \in TimerRecord
      BY <3>1
    <3>3. QED
      BY <3>2 DEF TimerRecord
  <2>2. SignalThread(Head(timerRecords).thread, Head(timerRecords).event)
    BY <1>4 DEF DeliverOneRecord
  <2>3. executionState[t] = "WAITING" /\ pendingEvents'[t] = pendingEvents[t]
    BY <2>1, <2>2, SignalWakes
  <2>4. QED
    BY <1>4, <2>3 DEF DeliverOneRecord, Undisturbed
<1>5. CASE ExitMutex
  <2>1. Current \in Thread
    BY <1>5, CurrentType DEF ExitMutex
  <2>2. Head(mutexes[Current]) \in Mutex
    BY <1>5, <2>1 DEF ExitMutex, TypeOK
  <2>3. \/ UNCHANGED <<executionState, pendingEvents, owner>>
        \/ HandOver(Head(mutexes[Current]))
    BY <1>5 DEF ExitMutex
  <2>4. /\ executionState[t] = "WAITING" /\ pendingEvents'[t] = pendingEvents[t]
        /\ \A n \in Mutex : owner'[n] = t => owner[n] = t
    BY <2>2, <2>3, HandOverWakes
  <2>5. QED
    BY <1>5, <2>4 DEF ExitMutex, Undisturbed
<1>6. CASE ReleaseOne
  <2>1. Head(toRelease) \in Thread /\ SignalThread(Head(toRelease), "join")
    BY <1>6 DEF ReleaseOne, TypeOK
  <2>2. executionState[t] = "WAITING" /\ pendingEvents'[t] = pendingEvents[t]
    BY <2>1, SignalWakes
  <2>3. QED
    BY <1>6, <2>2 DEF ReleaseOne, Undisturbed
<1>7. CASE ExitDead
  <2>1. Current \in Thread /\ ThreadNotRunning(Current, "DEAD", FALSE)
    BY <1>7, CurrentType DEF ExitDead
  <2>2. executionState[t] = "WAITING" /\ t # Current
    BY <2>1, NotRunningWaiter
  <2>3. QED
    BY <1>7, <2>2 DEF ExitDead, Undisturbed, TypeOK
<1>8. QED
  BY <1>1, <1>2, <1>3, <1>4, <1>5, <1>6, <1>7 DEF KernelStep

LEMMA ThreadWaiters ==
  ASSUME TypeInv, RunQueueInv, NEW c \in Thread, ThreadStep(c),
         NEW t \in Thread, executionState'[t] = "WAITING"
  PROVE  Undisturbed(t)
<1> USE DEF TypeInv
<1>1. ~Idle /\ c = Current /\ executionState[t] = "WAITING"
  BY DEF ThreadStep, CreateThreadReturn, SignalSelfAdd, UnblockThreadEvents, SleepRegister,
     SleepSuspend, Suspend, SleepReturn, At
<1>2. t # c
  BY <1>1, WaiterNotCurrent
<1>3. QED
  BY <1>1, <1>2 DEF ThreadStep, CreateThreadReturn, SignalSelfAdd, ReturnFromBlocked,
     UnblockThreadEvents, SleepRegister, SleepSuspend, Suspend, SleepReturn, Undisturbed,
     TypeOK

LEMMA UserWaiters ==
  ASSUME TypeInv, RunQueueInv, NoLostWakeup, NEW c \in Thread, UserCall(c),
         NEW t \in Thread, executionState'[t] = "WAITING"
  PROVE  Undisturbed(t)
<1> USE DEF TypeInv
<1>1. ~Idle /\ c = Current
  BY DEF UserCall, YieldCurrentThread, SetPreemption, StopCurrentThread, SuspendCurrentThread,
     SignalSelf, SetThreadEventBlock, HandleCurrentThreadEvents, AllowThreadEventDelivery,
     RegisterTimerEvent, DeregisterTimerEvent, SetThreadTimerInterval, SleepCurrentThread,
     LockThreadMutex, EnqueueForMutex, UnlockThreadMutex, ExitCurrentThread,
     DeregisterAllEvents, CreateThread, SignalThreadEvent, RestartThread, JoinThread,
     JoinExitedThread, DetachThread, Calls
<1>2. executionState[t] = "WAITING" => t # c
  BY <1>1, WaiterNotCurrent
<1>3. CASE YieldCurrentThread(c) \/ \E state \in RunningStates : SetPreemption(c, state)
  BY <1>3 DEF YieldCurrentThread, SetPreemption, RunningStates, Undisturbed, TypeOK
<1>4. CASE StopCurrentThread(c)
  <2>1. ThreadNotRunning(c, "STOPPED", TRUE)
    BY <1>4 DEF StopCurrentThread
  <2>2. executionState[t] = "WAITING"
    BY <2>1, NotRunningWaiter
  <2>3. QED
    BY <1>4, <2>2 DEF StopCurrentThread, Undisturbed
<1>5. CASE \/ SuspendCurrentThread(c)
           \/ \E event \in Events : SignalSelf(c, event)
           \/ Calls(c, "block") /\ UnblockThreadEvents(c)
           \/ \E block \in {"#f", "#t"} : SetThreadEventBlock(c, block)
           \/ HandleCurrentThreadEvents(c)
           \/ AllowThreadEventDelivery(c)
  BY <1>2, <1>5 DEF SuspendCurrentThread, Suspend, SignalSelf, UnblockThreadEvents,
     SetThreadEventBlock, HandleCurrentThreadEvents, AllowThreadEventDelivery, Undisturbed,
     TypeOK
<1>6. CASE \/ \E delay \in Delays, event \in Events : RegisterTimerEvent(c, delay, event)
           \/ \E i \in DOMAIN timerRecords : DeregisterTimerEvent(c, i)
           \/ \E interval \in Intervals : SetThreadTimerInterval(c, interval)
           \/ SleepCurrentThread(c)
           \/ ExitCurrentThread(c)
           \/ DeregisterAllEvents(c)
  BY <1>2, <1>6 DEF RegisterTimerEvent, DeregisterTimerEvent, SetThreadTimerInterval,
     SleepCurrentThread, ExitCurrentThread, BeginExit, DeregisterAllEvents, Undisturbed, TypeOK
<1>7. ASSUME NEW m \in Mutex, LockThreadMutex(c, m) \/ EnqueueForMutex(c, m)
      PROVE  Undisturbed(t)
  <2>1. /\ executionState[t] = "WAITING" /\ t # c
        /\ UNCHANGED <<pendingEvents, blockEvents>>
    BY <1>2, <1>7 DEF LockThreadMutex, EnqueueForMutex
  <2>2. pc'[t] = pc[t] /\ wants'[t] = wants[t]
    BY <1>7, <2>1 DEF LockThreadMutex, EnqueueForMutex, TypeOK
  <2>3. \A n \in Mutex : owner'[n] = t => owner[n] = t
    BY <1>7, <2>1 DEF LockThreadMutex, EnqueueForMutex, TypeOK
  <2>4. QED
    BY <2>1, <2>2, <2>3 DEF Undisturbed
<1>8. ASSUME NEW m \in Mutex, UnlockThreadMutex(c, m) PROVE Undisturbed(t)
  <2>1. HandOver(m)
    BY <1>8 DEF UnlockThreadMutex
  <2>2. /\ executionState[t] = "WAITING" /\ pendingEvents'[t] = pendingEvents[t]
        /\ \A n \in Mutex : owner'[n] = t => owner[n] = t
    BY <2>1, HandOverWakes
  <2>3. QED
    BY <1>8, <2>2 DEF UnlockThreadMutex, Undisturbed
<1>9. ASSUME NEW u \in Thread, CreateThread(c, u) PROVE Undisturbed(t)
  <2>1. executionState[t] = "WAITING"
    BY <1>9 DEF CreateThread, TypeOK
  <2>2. QED
    BY <1>2, <1>9, <2>1 DEF CreateThread, Undisturbed, TypeOK
<1>10. ASSUME NEW u \in Thread, NEW event \in Events, SignalThreadEvent(c, u, event)
       PROVE  Undisturbed(t)
  <2>1. executionState[t] = "WAITING" /\ pendingEvents'[t] = pendingEvents[t]
    BY <1>10, SignalWakes DEF SignalThreadEvent
  <2>2. QED
    BY <1>10, <2>1 DEF SignalThreadEvent, Undisturbed
<1>11. ASSUME NEW u \in Thread, NEW discard \in BOOLEAN, NEW event \in Events,
              RestartThread(c, u, discard, event)
       PROVE  Undisturbed(t)
  <2>1. executionState[t] = "WAITING" /\ t # u
    BY <1>11 DEF RestartThread, TypeOK
  <2>2. QED
    BY <1>11, <2>1 DEF RestartThread, Undisturbed, TypeOK
<1>12. CASE \E u \in Thread : JoinThread(c, u) \/ JoinExitedThread(c, u)
                              \/ DetachThread(c, u)
  BY <1>2, <1>12 DEF JoinThread, JoinExitedThread, DetachThread, Undisturbed, TypeOK
<1>13. QED
  BY <1>3, <1>4, <1>5, <1>6, <1>7, <1>8, <1>9, <1>10, <1>11, <1>12 DEF UserCall

LEMMA OtherWaiters ==
  ASSUME TypeInv, NoLostWakeup,
         \/ Tick \/ TimerInterrupt
         \/ \E u \in Thread, event \in Events : SignalWhileIdle(u, event),
         NEW t \in Thread, executionState'[t] = "WAITING"
  PROVE  Undisturbed(t)
<1> USE DEF TypeInv
<1>1. CASE Tick \/ TimerInterrupt
  BY <1>1 DEF Tick, TimerInterrupt, Undisturbed
<1>2. ASSUME NEW u \in Thread, NEW event \in Events, SignalWhileIdle(u, event)
      PROVE  Undisturbed(t)
  <2>1. executionState[t] = "WAITING" /\ pendingEvents'[t] = pendingEvents[t]
    BY <1>2, SignalWakes DEF SignalWhileIdle
  <2>2. QED
    BY <1>2, <2>1 DEF SignalWhileIdle, Undisturbed
<1>3. QED
  BY <1>1, <1>2

\* A thread suspends with its events not blocked, or has suspended already and goes
\* on handling its events.
LEMMA SuspendKeeps ==
  ASSUME TypeOK, ~Idle, NEW p, Suspend(Current, p),
         p = "lock" => owner[wants[Current]] # Current
  PROVE  SuspendReady'
<1>1. Current \in Thread
  BY DEF TypeOK, Current, Idle
<1>2. Current' = Current
  BY DEF Suspend, Current
<1>3. blockEvents'[Current] # "#t" /\ pc'[Current] = p
  BY <1>1 DEF Suspend, TypeOK
<1>4. UNCHANGED <<owner, wants>>
  BY DEF Suspend
<1>5. QED
  BY <1>2, <1>3, <1>4 DEF SuspendReady

LEMMA SuspendReadyStep ==
  ASSUME TypeInv, SuspendReady, Next
  PROVE  SuspendReady'
<1> USE DEF TypeInv
<1>1. ASSUME KernelStep, kstep' = "handle", caller' = "suspend"
      PROVE  HandleOneEvent \/ LockSuspend
  BY <1>1 DEF KernelStep, ResumeCurrentThread, Return, HandleReturn, FrameGone,
     DeliverOneRecord, DeliverReturn, YieldThread, LockReturn, DiscardTimerRecord,
     DiscardReturn, ExitJoins, ExitMutex, ExitMutexesDone, BeginRelease, ReleaseOne,
     ReleaseReturn, ExitDead
<1>2. CASE KernelStep
  <2>1. CASE HandleOneEvent
    <3>1. Current' = Current /\ UNCHANGED <<pc, owner, wants>>
      BY <2>1 DEF HandleOneEvent, Current
    <3>2. kstep' = "handle" => UNCHANGED <<blockEvents, caller>>
      BY <2>1 DEF HandleOneEvent, BeginExit
    <3>3. kstep = "handle"
      BY <2>1 DEF HandleOneEvent
    <3>4. QED
      BY <3>1, <3>2, <3>3 DEF SuspendReady
  <2>2. CASE LockSuspend
    BY <2>2, CurrentType, SuspendKeeps DEF LockSuspend
  <2>3. CASE ~(kstep' = "handle" /\ caller' = "suspend")
    BY <2>3 DEF SuspendReady
  <2>4. QED
    BY <1>1, <1>2, <2>1, <2>2, <2>3
<1>3. ASSUME NEW t \in Thread, ThreadStep(t) PROVE SuspendReady'
  <2>1. CASE SleepSuspend(t)
    BY <2>1, SuspendKeeps DEF SleepSuspend, At
  <2>2. CASE ~SleepSuspend(t)
    <3>1. ~(kstep' = "handle" /\ caller' = "suspend")
      BY <1>3, <2>2 DEF ThreadStep, CreateThreadReturn, SignalSelfAdd, UnblockThreadEvents,
         SleepRegister, SleepReturn, At
    <3>2. QED
      BY <3>1 DEF SuspendReady
  <2>3. QED
    BY <2>1, <2>2
<1>4. ASSUME NEW t \in Thread, UserCall(t) PROVE SuspendReady'
  <2>1. CASE SuspendCurrentThread(t)
    BY <2>1, SuspendKeeps DEF SuspendCurrentThread, Calls
  <2>2. CASE ~SuspendCurrentThread(t)
    <3>1. ~(kstep' = "handle" /\ caller' = "suspend")
      BY <1>4, <2>2 DEF UserCall, YieldCurrentThread, YieldThread, SetPreemption,
         StopCurrentThread, ThreadNotRunning, SignalSelf, UnblockThreadEvents,
         SetThreadEventBlock, HandleCurrentThreadEvents, AllowThreadEventDelivery,
         RegisterTimerEvent, DeregisterTimerEvent, SetThreadTimerInterval,
         SleepCurrentThread, LockThreadMutex, EnqueueForMutex, UnlockThreadMutex,
         ExitCurrentThread, BeginExit, DeregisterAllEvents, CreateThread, SignalThreadEvent,
         RestartThread, JoinThread, JoinExitedThread, DetachThread, BeginRelease, Calls
    <3>2. QED
      BY <3>1 DEF SuspendReady
  <2>3. QED
    BY <2>1, <2>2
<1>5. CASE \/ Tick \/ TimerInterrupt
           \/ \E u \in Thread, event \in Events : SignalWhileIdle(u, event)
  <2>1. ~(kstep' = "handle" /\ caller' = "suspend")
    BY <1>5 DEF Tick, TimerInterrupt, SignalWhileIdle
  <2>2. QED
    BY <2>1 DEF SuspendReady
<1>6. QED
  BY <1>2, <1>3, <1>4, <1>5 DEF Next

LEMMA LockWantsStep ==
  ASSUME TypeInv, LockWants, LockLoop, Next
  PROVE  LockWants'
<1> USE DEF TypeInv
<1>1. CASE UNCHANGED <<pc, wants>>
  BY <1>1 DEF LockWants
<1>2. ASSUME NEW t \in Thread, NEW p \in PCs \ {"lock"}, pc' = [pc EXCEPT ![t] = p],
             \A u \in Thread \ {t} : wants'[u] = wants[u]
      PROVE  LockWants'
  BY <1>2 DEF LockWants, TypeOK
<1>3. CASE KernelStep
  <2>1. CASE LockSuspend
    <3>1. Current \in Thread /\ pc[Current] = "lock"
      BY <2>1, CurrentType DEF LockSuspend, LockLoop
    <3>2. UNCHANGED wants /\ pc' = [pc EXCEPT ![Current] = "lock"]
      BY <2>1 DEF LockSuspend, Suspend
    <3>3. QED
      BY <3>1, <3>2 DEF LockWants, TypeOK
  <2>2. CASE LockReturn \/ ExitDead
    <3>1. Current \in Thread
      BY <2>2, CurrentType DEF LockReturn, ExitDead
    <3>2. /\ pc' = [pc EXCEPT ![Current] = "user"]
          /\ wants' = [wants EXCEPT ![Current] = None]
      BY <2>2 DEF LockReturn, ExitDead
    <3>3. QED
      BY <1>2, <3>1, <3>2 DEF PCs, TypeOK
  <2>3. CASE ~(LockSuspend \/ LockReturn \/ ExitDead)
    BY <1>1, <1>3, <2>3 DEF KernelStep, ResumeCurrentThread, HandleOneEvent, HandleReturn,
       DeliverOneRecord, DeliverReturn, DiscardTimerRecord, DiscardReturn, ExitJoins,
       ExitMutex, ExitMutexesDone, ReleaseOne, ReleaseReturn
  <2>4. QED
    BY <2>1, <2>2, <2>3
<1>4. ASSUME NEW t \in Thread, ThreadStep(t) PROVE LockWants'
  BY <1>2, <1>4 DEF ThreadStep, CreateThreadReturn, SignalSelfAdd, ReturnFromBlocked,
     UnblockThreadEvents, SleepRegister, SleepSuspend, Suspend, SleepReturn, PCs
<1>5. ASSUME NEW t \in Thread, UserCall(t) PROVE LockWants'
  <2>1. CASE \E m \in Mutex : EnqueueForMutex(t, m)
    BY <2>1 DEF EnqueueForMutex, LockWants, TypeOK
  <2>2. CASE \/ SuspendCurrentThread(t) \/ SleepCurrentThread(t)
             \/ \E event \in Events : SignalSelf(t, event)
             \/ Calls(t, "block") /\ UnblockThreadEvents(t)
             \/ \E u \in Thread : CreateThread(t, u)
    BY <1>2, <2>2 DEF SuspendCurrentThread, Suspend, SleepCurrentThread, SignalSelf,
       UnblockThreadEvents, CreateThread, PCs
  <2>3. QED
    BY <1>1, <1>5, <2>1, <2>2 DEF UserCall, YieldCurrentThread, SetPreemption,
       StopCurrentThread, SetThreadEventBlock, HandleCurrentThreadEvents,
       AllowThreadEventDelivery, RegisterTimerEvent, DeregisterTimerEvent,
       SetThreadTimerInterval, LockThreadMutex, UnlockThreadMutex, ExitCurrentThread,
       DeregisterAllEvents, SignalThreadEvent, RestartThread, JoinThread, JoinExitedThread,
       DetachThread
<1>6. CASE \/ Tick \/ TimerInterrupt
           \/ \E u \in Thread, event \in Events : SignalWhileIdle(u, event)
  BY <1>1, <1>6 DEF Tick, TimerInterrupt, SignalWhileIdle
<1>7. QED
  BY <1>3, <1>4, <1>5, <1>6 DEF Next

LEMMA LockLoopStep ==
  ASSUME TypeInv, LockLoop, Next
  PROVE  LockLoop'
<1> USE DEF TypeInv
<1>1. CASE kstep' # "lock"
  BY <1>1 DEF LockLoop
<1>2. CASE kstep' = "lock"
  <2>1. CASE KernelStep
    <3>1. Return(Current) = "lock" /\ UNCHANGED <<runQueue, pc>>
      BY <1>2, <2>1 DEF KernelStep, ResumeCurrentThread, HandleOneEvent, BeginExit, HandleReturn,
         ThreadNotRunning, DeliverOneRecord, DeliverReturn, YieldThread, LockSuspend, Suspend,
         LockReturn, DiscardTimerRecord, DiscardReturn, ExitJoins, ExitMutex,
         ExitMutexesDone, BeginRelease, ReleaseOne, ReleaseReturn, ExitDead
    <3>2. QED
      BY <3>1 DEF Return, LockLoop, Current
  <2>2. ASSUME NEW t \in Thread, ThreadStep(t) PROVE FALSE
    BY <1>2, <2>2 DEF ThreadStep, CreateThreadReturn, SignalSelfAdd, UnblockThreadEvents,
       SleepRegister, SleepSuspend, Suspend, SleepReturn, At
  <2>3. ASSUME NEW t \in Thread, UserCall(t) PROVE LockLoop'
    <3>1. PICK m \in Mutex : EnqueueForMutex(t, m)
      BY <1>2, <2>3 DEF UserCall, YieldCurrentThread, YieldThread, SetPreemption,
         StopCurrentThread, ThreadNotRunning, SuspendCurrentThread, Suspend, SignalSelf,
         UnblockThreadEvents, SetThreadEventBlock, HandleCurrentThreadEvents,
         AllowThreadEventDelivery, RegisterTimerEvent, DeregisterTimerEvent,
         SetThreadTimerInterval, SleepCurrentThread, LockThreadMutex, UnlockThreadMutex,
         ExitCurrentThread, BeginExit, DeregisterAllEvents, CreateThread, SignalThreadEvent,
         RestartThread, JoinThread, JoinExitedThread, DetachThread, BeginRelease, Calls
    <3>2. t = Current /\ Current' = Current /\ pc' = [pc EXCEPT ![t] = "lock"]
      BY <3>1 DEF EnqueueForMutex, Calls, Current
    <3>3. QED
      BY <3>2 DEF LockLoop, TypeOK
  <2>4. CASE \/ Tick \/ TimerInterrupt
             \/ \E u \in Thread, event \in Events : SignalWhileIdle(u, event)
    BY <1>2, <2>4 DEF Tick, TimerInterrupt, SignalWhileIdle
  <2>5. QED
    BY <2>1, <2>2, <2>3, <2>4 DEF Next
<1>3. QED
  BY <1>1, <1>2

\* No wakeup is lost, for any number of threads and mutexes: a thread that waits has
\* no pending event, can be woken by the next one, and is not the owner of the mutex
\* it waits for.  The invariant needs to be strengthened by what holds between the
\* decision to suspend and the test of the pending events (SuspendReady), and rests
\* on RunQueueCorrect: whatever the current thread does, it does not do it to itself
\* while it waits.
THEOREM NoWakeupLost == Spec => []NoLostWakeup
<1>1. Init => WakeInv
  BY DEF Init, WakeInv, NoLostWakeup, SuspendReady, LockWants, LockLoop
<1>2. TypeInv /\ RunQueueInv /\ WakeInv /\ [Next]_vars => WakeInv'
  <2> SUFFICES ASSUME TypeInv, RunQueueInv, WakeInv, [Next]_vars PROVE WakeInv'
    OBVIOUS
  <2>1. CASE UNCHANGED vars
    BY <2>1 DEF vars, WakeInv, NoLostWakeup, SuspendReady, LockWants, LockLoop, Current
  <2>2. CASE Next
    <3>1. SuspendReady' /\ LockWants' /\ LockLoop'
      BY <2>2, SuspendReadyStep, LockWantsStep, LockLoopStep DEF WakeInv
    <3>2. ASSUME NEW t \in Thread, executionState'[t] = "WAITING"
          PROVE  Undisturbed(t) \/ FallsAsleep(t)
      BY <2>2, <3>2, KernelWaiters, ThreadWaiters, UserWaiters, OtherWaiters DEF Next, WakeInv
    <3>3. ASSUME NEW t \in Thread, executionState'[t] = "WAITING"
          PROVE  /\ pendingEvents'[t] = <<>>
                 /\ blockEvents'[t] # "#t"
                 /\ pc'[t] = "lock" => owner'[wants'[t]] # t
      <4>1. CASE Undisturbed(t)
        BY <4>1 DEF Undisturbed, WakeInv, NoLostWakeup, LockWants
      <4>2. CASE FallsAsleep(t)
        BY <4>2 DEF FallsAsleep, WakeInv, SuspendReady
      <4>3. QED
        BY <3>2, <3>3, <4>1, <4>2
    <3>4. NoLostWakeup'
      BY <3>3 DEF NoLostWakeup
    <3>5. QED
      BY <3>1, <3>4 DEF WakeInv
  <2>3. QED
    BY <2>1, <2>2
<1>3. WakeInv => NoLostWakeup
  BY DEF WakeInv
<1>4. QED
  BY <1>1, <1>2, <1>3, TypeCorrect, RunQueueCorrect, PTL DEF Spec

------------------------------------------------------------------------------
(* Lists that hold an element at most once.                                  *)

Once(s) == \A i, j \in DOMAIN s : s[i] = s[j] => i = j

LEMMA EmptyList ==
  Elements(<<>>) = {} /\ Once(<<>>)
  BY DEF Elements, Once

\* What a list holds after an element was put in front of it.
LEMMA ConsElements ==
  ASSUME NEW S, NEW s \in Seq(S), NEW x \in S
  PROVE  /\ Elements(<<x>> \o s) = Elements(s) \cup {x}
         /\ Once(s) /\ x \notin Elements(s) => Once(<<x>> \o s)
<1> DEFINE l == <<x>> \o s
<1>1. /\ l \in Seq(S) /\ Len(l) = Len(s) + 1 /\ Len(s) \in Nat
      /\ DOMAIN l = 1 .. Len(s) + 1 /\ DOMAIN s = 1 .. Len(s)
  OBVIOUS
<1>2. l[1] = x /\ \A i \in 2 .. Len(s) + 1 : l[i] = s[i - 1]
  OBVIOUS
<1>3. \A i \in 1 .. Len(s) : i + 1 \in 2 .. Len(s) + 1 /\ l[i + 1] = s[i]
  BY <1>1, <1>2
<1>4. ASSUME NEW y PROVE y \in Elements(l) <=> y \in Elements(s) \cup {x}
  <2>1. y \in Elements(l) <=> \E i \in 1 .. Len(s) + 1 : l[i] = y
    BY <1>1, ElementsMeaning
  <2>2. y \in Elements(s) <=> \E i \in 1 .. Len(s) : s[i] = y
    BY <1>1, ElementsMeaning
  <2>3. ASSUME NEW i \in 1 .. Len(s) + 1, l[i] = y PROVE y \in Elements(s) \cup {x}
    <3>1. CASE i = 1
      BY <1>2, <2>3, <3>1
    <3>2. CASE i # 1
      <4>1. i \in 2 .. Len(s) + 1 /\ i - 1 \in 1 .. Len(s)
        BY <1>1, <3>2
      <4>2. QED
        BY <1>2, <2>2, <2>3, <4>1
    <3>3. QED
      BY <3>1, <3>2
  <2>4. x \in Elements(l) /\ Elements(s) \subseteq Elements(l)
    <3>1. 1 \in DOMAIN l /\ \A i \in DOMAIN s : i + 1 \in DOMAIN l
      BY <1>1
    <3>2. x \in Elements(l)
      BY <1>2, <3>1, ElementsMeaning
    <3>3. ASSUME NEW z \in Elements(s) PROVE z \in Elements(l)
      <4>1. PICK i \in DOMAIN s : s[i] = z
        BY <3>3, ElementsMeaning
      <4>2. i + 1 \in DOMAIN l /\ l[i + 1] = z
        BY <1>1, <1>3, <3>1, <4>1
      <4>3. QED
        BY <4>2, ElementsMeaning
    <3>4. QED
      BY <3>2, <3>3
  <2>5. QED
    BY <2>1, <2>3, <2>4
<1>5. ASSUME Once(s), x \notin Elements(s) PROVE Once(l)
  <2>1. \A i \in 1 .. Len(s) : s[i] # x
    BY <1>1, <1>5, ElementsMeaning
  <2>2. QED
    BY <1>1, <1>2, <1>5, <2>1 DEF Once
<1>6. QED
  BY <1>4, <1>5

\* ... after one was put behind it.
LEMMA AppendElements ==
  ASSUME NEW S, NEW s \in Seq(S), NEW x \in S
  PROVE  /\ Elements(Append(s, x)) = Elements(s) \cup {x}
         /\ Once(s) /\ x \notin Elements(s) => Once(Append(s, x))
<1> DEFINE l == Append(s, x)
<1>1. /\ l \in Seq(S) /\ Len(l) = Len(s) + 1 /\ Len(s) \in Nat
      /\ DOMAIN l = 1 .. Len(s) + 1 /\ DOMAIN s = 1 .. Len(s)
  OBVIOUS
<1>2. l[Len(s) + 1] = x /\ \A i \in 1 .. Len(s) : l[i] = s[i]
  OBVIOUS
<1>3. ASSUME NEW y PROVE y \in Elements(l) <=> y \in Elements(s) \cup {x}
  <2>1. y \in Elements(l) <=> \E i \in 1 .. Len(s) + 1 : l[i] = y
    BY <1>1, ElementsMeaning
  <2>2. y \in Elements(s) <=> \E i \in 1 .. Len(s) : s[i] = y
    BY <1>1, ElementsMeaning
  <2>3. QED
    BY <1>1, <1>2, <2>1, <2>2
<1>4. ASSUME Once(s), x \notin Elements(s) PROVE Once(l)
  <2>1. \A i \in 1 .. Len(s) : s[i] # x
    BY <1>1, <1>4, ElementsMeaning
  <2>2. QED
    BY <1>1, <1>2, <1>4, <2>1 DEF Once
<1>5. QED
  BY <1>3, <1>4

\* Where the elements of two lists are when one is put behind the other.
LEMMA ConcatPlaces ==
  ASSUME NEW S, NEW a \in Seq(S), NEW b \in Seq(S)
  PROVE  /\ DOMAIN (a \o b) = 1 .. Len(a) + Len(b)
         /\ \A i \in 1 .. Len(a) + Len(b) :
              (a \o b)[i] = IF i <= Len(a) THEN a[i] ELSE b[i - Len(a)]
  OBVIOUS

\* Where the elements of a list are after the one at place k was taken out.
LEMMA DropAtPlaces ==
  ASSUME NEW S, NEW s \in Seq(S), NEW k \in DOMAIN s
  PROVE  /\ DOMAIN DropAt(s, k) = 1 .. Len(s) - 1
         /\ \A i \in 1 .. k - 1 : DropAt(s, k)[i] = s[i]
         /\ \A i \in k .. Len(s) - 1 : DropAt(s, k)[i] = s[i + 1]
<1> DEFINE n == Len(s)
           a == SubSeq(s, 1, k - 1)
           b == SubSeq(s, k + 1, n)
<1>1. n \in Nat /\ DOMAIN s = 1 .. n /\ k \in 1 .. n
  OBVIOUS
<1>2. a \in Seq(S) /\ Len(a) = k - 1 /\ \A i \in 1 .. k - 1 : a[i] = s[i]
  BY <1>1
<1>3. b \in Seq(S) /\ Len(b) = n - k /\ \A i \in 1 .. n - k : b[i] = s[k + i]
  BY <1>1
<1>4. DropAt(s, k) = a \o b
  BY DEF DropAt
<1> HIDE DEF a, b
<1>5. /\ DOMAIN (a \o b) = 1 .. n - 1
      /\ \A i \in 1 .. k - 1 : (a \o b)[i] = a[i]
      /\ \A i \in k .. n - 1 : (a \o b)[i] = b[i - (k - 1)]
  <2>1. Len(a) + Len(b) = n - 1 /\ Len(a) = k - 1
    BY <1>1, <1>2, <1>3
  <2>2. /\ DOMAIN (a \o b) = 1 .. Len(a) + Len(b)
        /\ \A i \in 1 .. Len(a) + Len(b) :
             (a \o b)[i] = IF i <= Len(a) THEN a[i] ELSE b[i - Len(a)]
    BY <1>2, <1>3, ConcatPlaces
  <2> DEFINE l == a \o b
  <2> HIDE DEF l
  <2>3. /\ DOMAIN l = 1 .. n - 1
        /\ \A i \in 1 .. n - 1 : l[i] = IF i <= k - 1 THEN a[i] ELSE b[i - (k - 1)]
    BY <2>1, <2>2 DEF l
  <2>4. ASSUME NEW i \in 1 .. k - 1 PROVE l[i] = a[i]
    <3>1. i \in 1 .. n - 1 /\ i <= k - 1
      BY <1>1
    <3>2. QED
      BY <2>3, <3>1
  <2>5. ASSUME NEW i \in k .. n - 1 PROVE l[i] = b[i - (k - 1)]
    <3>1. i \in 1 .. n - 1 /\ ~(i <= k - 1)
      BY <1>1
    <3>2. QED
      BY <2>3, <3>1
  <2>6. QED
    BY <2>3, <2>4, <2>5 DEF l
<1>6. ASSUME NEW i \in k .. n - 1 PROVE b[i - (k - 1)] = s[i + 1]
  <2>1. i - (k - 1) \in 1 .. n - k /\ k + (i - (k - 1)) = i + 1
    BY <1>1
  <2>2. QED
    BY <1>3, <2>1
<1> DEFINE l == a \o b
<1>7. \A i \in k .. n - 1 : l[i] = s[i + 1]
  BY <1>5, <1>6
<1>8. \A i \in 1 .. k - 1 : l[i] = s[i]
  BY <1>2, <1>5
<1>9. DOMAIN l = 1 .. n - 1 /\ DropAt(s, k) = l
  BY <1>4, <1>5
<1> HIDE DEF l
<1>10. QED
  BY <1>7, <1>8, <1>9

\* What it holds then.
LEMMA DropAtElements ==
  ASSUME NEW S, NEW s \in Seq(S), NEW k \in DOMAIN s, Once(s)
  PROVE  Once(DropAt(s, k)) /\ Elements(DropAt(s, k)) = Elements(s) \ {s[k]}
<1> DEFINE l == DropAt(s, k)
           n == Len(s)
<1>1. n \in Nat /\ DOMAIN s = 1 .. n /\ k \in 1 .. n
  OBVIOUS
<1>2. /\ DOMAIN l = 1 .. n - 1
      /\ \A i \in 1 .. k - 1 : l[i] = s[i]
      /\ \A i \in k .. n - 1 : l[i] = s[i + 1]
  BY DropAtPlaces
<1>3. Once(l)
  <2> SUFFICES ASSUME NEW i \in 1 .. n - 1, NEW j \in 1 .. n - 1, l[i] = l[j]
               PROVE  i = j
    BY <1>2 DEF Once
  <2>1. CASE i < k /\ j < k
    BY <1>1, <1>2, <2>1 DEF Once
  <2>2. CASE i < k /\ j >= k
    BY <1>1, <1>2, <2>2, SMTT(30) DEF Once
  <2>3. CASE i >= k /\ j < k
    BY <1>1, <1>2, <2>3, SMTT(30) DEF Once
  <2>4. CASE i >= k /\ j >= k
    <3>1. i + 1 = j + 1
      BY <1>1, <1>2, <2>4 DEF Once
    <3>2. QED
      BY <3>1, SameSuccessor
  <2>5. QED
    BY <1>1, <2>1, <2>2, <2>3, <2>4
<1>4. ASSUME NEW y PROVE y \in Elements(l) <=> y \in Elements(s) \ {s[k]}
  <2>1. y \in Elements(l) <=> \E i \in 1 .. n - 1 : l[i] = y
    BY <1>2, ElementsMeaning
  <2>2. y \in Elements(s) <=> \E i \in 1 .. n : s[i] = y
    BY <1>1, ElementsMeaning
  <2>3. ASSUME NEW i \in 1 .. n - 1, l[i] = y PROVE y \in Elements(s) \ {s[k]}
    <3>1. CASE i < k
      BY <1>1, <1>2, <2>2, <2>3, <3>1 DEF Once
    <3>2. CASE i >= k
      BY <1>1, <1>2, <2>2, <2>3, <3>2 DEF Once
    <3>3. QED
      BY <1>1, <3>1, <3>2
  <2>4. ASSUME NEW i \in 1 .. n, s[i] = y, y # s[k] PROVE y \in Elements(l)
    <3>1. CASE i < k
      BY <1>1, <1>2, <2>1, <2>4, <3>1
    <3>2. CASE i > k
      <4>1. i - 1 \in k .. n - 1 /\ i - 1 \in 1 .. n - 1 /\ (i - 1) + 1 = i
        BY <1>1, <3>2
      <4>2. l[i - 1] = y
        BY <1>2, <2>4, <4>1
      <4>3. QED
        BY <2>1, <4>1, <4>2
    <3>3. QED
      BY <1>1, <2>4, <3>1, <3>2
  <2>5. QED
    BY <2>1, <2>2, <2>3, <2>4
<1>5. QED
  BY <1>3, <1>4

\* delq! of a list that holds an element at most once takes that element out.
LEMMA WithoutElements ==
  ASSUME NEW S, NEW s \in Seq(S), NEW x, Once(s)
  PROVE  Once(Without(s, x)) /\ Elements(Without(s, x)) = Elements(s) \ {x}
<1>1. CASE \E i \in DOMAIN s : s[i] = x
  <2> DEFINE k == CHOOSE i \in DOMAIN s : s[i] = x
  <2>1. k \in DOMAIN s /\ s[k] = x
    BY <1>1
  <2>2. Without(s, x) = DropAt(s, k)
    BY <1>1 DEF Without
  <2> HIDE DEF k
  <2>3. QED
    BY <2>1, <2>2, DropAtElements
<1>2. CASE ~\E i \in DOMAIN s : s[i] = x
  BY <1>2, ElementsMeaning DEF Without
<1>3. QED
  BY <1>1, <1>2

\* The rest of a list.
LEMMA TailElements ==
  ASSUME NEW S, NEW s \in Seq(S), s # <<>>, Once(s)
  PROVE  /\ Head(s) \in Elements(s) /\ Head(s) \notin Elements(Tail(s))
         /\ Elements(Tail(s)) = Elements(s) \ {Head(s)}
         /\ Once(Tail(s))
<1>1. /\ Len(s) \in Nat /\ Len(s) > 0 /\ DOMAIN s = 1 .. Len(s)
      /\ Head(s) = s[1] /\ DOMAIN Tail(s) = 1 .. Len(s) - 1
      /\ \A i \in 1 .. Len(s) - 1 : Tail(s)[i] = s[i + 1]
  OBVIOUS
<1>2. 1 \in DOMAIN s
  BY <1>1
<1>3. DropAt(s, 1) = Tail(s)
  <2>1. SubSeq(s, 1, 0) = <<>> /\ SubSeq(s, 2, Len(s)) = Tail(s) /\ Tail(s) \in Seq(S)
    BY <1>1
  <2>2. DropAt(s, 1) = SubSeq(s, 1, 0) \o SubSeq(s, 2, Len(s))
    BY DEF DropAt
  <2>3. <<>> \o Tail(s) = Tail(s)
    BY <2>1
  <2>4. QED
    BY <2>1, <2>2, <2>3
<1>4. Head(s) \in Elements(s)
  BY <1>1, <1>2, ElementsMeaning
<1>5. Once(DropAt(s, 1)) /\ Elements(DropAt(s, 1)) = Elements(s) \ {s[1]}
  BY <1>2, DropAtElements
<1>6. QED
  BY <1>1, <1>3, <1>4, <1>5
------------------------------------------------------------------------------
(* What a step can do to the mutexes.                                        *)

\* MutexInv of one mutex, said with the elements of its ring.
RingInv(m) ==
  /\ owner[m] = None => waitingThreads[m] = <<>>
  /\ owner[m] \notin Elements(waitingThreads[m])
  /\ Once(waitingThreads[m])
  /\ \A t \in Elements(waitingThreads[m]) : pc[t] = "lock" /\ wants[t] = m
  /\ \A t \in Thread : m \in Elements(mutexes[t])
                         <=> owner[m] = t \/ t \in Elements(waitingThreads[m])

\* The list of mutexes of a thread holds each of them once.
MutexesOnce == \A t \in Thread : Once(mutexes[t])

\* exit-current-thread has given up all mutexes before it releases the joined threads.
ExitGaveUp ==
  kstep = "exit" \/ (kstep = "release" /\ caller = "exit") => mutexes[Current] = <<>>

\* The inductive invariant behind MutexInv.
MutexIInv == (\A m \in Mutex : RingInv(m)) /\ MutexesOnce /\ ExitGaveUp

LEMMA RingInvSuffices ==
  ASSUME \A m \in Mutex : RingInv(m)
  PROVE  MutexInv
<1> SUFFICES ASSUME NEW m \in Mutex
             PROVE  /\ owner[m] = None => waitingThreads[m] = <<>>
                    /\ owner[m] \notin Elements(waitingThreads[m])
                    /\ \A i, j \in DOMAIN waitingThreads[m] :
                         waitingThreads[m][i] = waitingThreads[m][j] => i = j
                    /\ \A i \in DOMAIN waitingThreads[m] :
                         pc[waitingThreads[m][i]] = "lock" /\ wants[waitingThreads[m][i]] = m
                    /\ \A t \in Thread : m \in Elements(mutexes[t])
                         <=> owner[m] = t \/ t \in Elements(waitingThreads[m])
  BY DEF MutexInv
<1>1. \A i \in DOMAIN waitingThreads[m] : waitingThreads[m][i] \in Elements(waitingThreads[m])
  BY ElementsMeaning
<1>2. QED
  BY <1>1 DEF RingInv, Once

\* The mutexes stay as they are, and so does every thread that waits for one.
MutexesStay ==
  /\ UNCHANGED <<mutexes, owner, waitingThreads>>
  /\ \A m \in Mutex : \A t \in Elements(waitingThreads[m]) :
       pc'[t] = pc[t] /\ wants'[t] = wants[t]

\* Thread t takes mutex m, which is free.
Takes(t, m) ==
  /\ owner[m] = None
  /\ owner' = [owner EXCEPT ![m] = t]
  /\ mutexes' = [mutexes EXCEPT ![t] = <<m>> \o @]
  /\ UNCHANGED <<waitingThreads, pc, wants>>

\* Thread t, which waits for nothing, waits for mutex m.
Enqueues(t, m) ==
  /\ owner[m] \notin {None, t} /\ pc[t] # "lock"
  /\ mutexes' = [mutexes EXCEPT ![t] = <<m>> \o @]
  /\ waitingThreads' = [waitingThreads EXCEPT ![m] = Append(@, t)]
  /\ wants' = [wants EXCEPT ![t] = m]
  /\ pc' = [pc EXCEPT ![t] = "lock"]
  /\ UNCHANGED owner

\* Thread t takes mutex m off its list.
Forgets(t, m) ==
  \E rest \in Seq(Mutex) :
    /\ Once(rest) /\ Elements(rest) = Elements(mutexes[t]) \ {m}
    /\ mutexes' = [mutexes EXCEPT ![t] = rest]

\* Thread t hands its mutex m over, or frees it.
Passes(t, m) ==
  /\ owner[m] = t /\ Forgets(t, m)
  /\ owner' = [owner EXCEPT ![m] = IF waitingThreads[m] = <<>> THEN None
                                   ELSE Head(waitingThreads[m])]
  /\ waitingThreads' = IF waitingThreads[m] = <<>> THEN waitingThreads
                       ELSE [waitingThreads EXCEPT ![m] = Tail(@)]
  /\ UNCHANGED <<pc, wants>>

\* Thread t gives up waiting for mutex m.
GivesUp(t, m) ==
  /\ owner[m] # t /\ m \in Elements(mutexes[t]) /\ Forgets(t, m)
  /\ waitingThreads' = [waitingThreads EXCEPT ![m] = Without(@, t)]
  /\ UNCHANGED <<owner, pc, wants>>

MutexStep ==
  \/ MutexesStay
  \/ \E t \in Thread, m \in Mutex :
       Takes(t, m) \/ Enqueues(t, m) \/ Passes(t, m) \/ GivesUp(t, m)

\* Each of the five keeps the rings and the lists of mutexes in agreement.
LEMMA StayKeepsRings ==
  ASSUME MutexIInv, MutexesStay
  PROVE  (\A m \in Mutex : RingInv(m)') /\ MutexesOnce'
  BY DEF MutexIInv, MutexesStay, RingInv, MutexesOnce

LEMMA TakesKeepsRings ==
  ASSUME TypeOK, MutexIInv, NEW t \in Thread, NEW m \in Mutex, Takes(t, m)
  PROVE  (\A n \in Mutex : RingInv(n)') /\ MutexesOnce'
<1> USE DEF MutexIInv
<1>1. /\ mutexes \in [Thread -> Seq(Mutex)]
      /\ owner \in [Mutex -> Thread \cup {None}] /\ None \notin Thread
  BY ConstantsAssumption DEF TypeOK
<1>2. waitingThreads[m] = <<>> /\ Elements(waitingThreads[m]) = {}
  BY EmptyList DEF Takes, RingInv
<1>3. m \notin Elements(mutexes[t])
  BY <1>1, <1>2 DEF Takes, RingInv
<1>4. /\ Elements(mutexes'[t]) = Elements(mutexes[t]) \cup {m} /\ Once(mutexes'[t])
      /\ \A u \in Thread \ {t} : mutexes'[u] = mutexes[u]
  BY <1>1, <1>3, ConsElements DEF Takes, MutexesOnce
<1>5. MutexesOnce'
  BY <1>4 DEF MutexesOnce
<1>6. ASSUME NEW n \in Mutex PROVE RingInv(n)'
  <2>1. CASE n = m
    <3>1. owner'[n] = t /\ waitingThreads'[n] = <<>> /\ Elements(waitingThreads'[n]) = {}
      BY <1>1, <1>2, <2>1 DEF Takes
    <3>2. \A u \in Thread : n \in Elements(mutexes'[u]) <=> u = t
      BY <1>1, <1>2, <1>4, <2>1, SMTT(30) DEF Takes, RingInv
    <3>3. QED
      BY <1>2, <2>1, <3>1, <3>2, EmptyList DEF RingInv, Takes
  <2>2. CASE n # m
    <3>1. owner'[n] = owner[n] /\ UNCHANGED <<waitingThreads, pc, wants>>
      BY <1>1, <2>2 DEF Takes
    <3>2. \A u \in Thread : n \in Elements(mutexes'[u]) <=> n \in Elements(mutexes[u])
      BY <1>4, <2>2
    <3>3. QED
      BY <3>1, <3>2 DEF RingInv
  <2>3. QED
    BY <2>1, <2>2
<1>7. QED
  BY <1>5, <1>6

LEMMA EnqueuesKeepsRings ==
  ASSUME TypeOK, MutexIInv, NEW t \in Thread, NEW m \in Mutex, Enqueues(t, m)
  PROVE  (\A n \in Mutex : RingInv(n)') /\ MutexesOnce'
<1> USE DEF MutexIInv
<1>1. /\ mutexes \in [Thread -> Seq(Mutex)] /\ waitingThreads \in [Mutex -> Seq(Thread)]
      /\ pc \in [Thread -> PCs] /\ wants \in [Thread -> Mutex \cup {None}]
  BY DEF TypeOK
<1>2. \A n \in Mutex : t \notin Elements(waitingThreads[n])
  BY DEF Enqueues, RingInv
<1>3. m \notin Elements(mutexes[t])
  BY <1>2 DEF Enqueues, RingInv
<1>4. /\ Elements(mutexes'[t]) = Elements(mutexes[t]) \cup {m} /\ Once(mutexes'[t])
      /\ \A u \in Thread \ {t} : mutexes'[u] = mutexes[u]
  BY <1>1, <1>3, ConsElements DEF Enqueues, MutexesOnce
<1>5. MutexesOnce'
  BY <1>4 DEF MutexesOnce
<1>6. /\ pc'[t] = "lock" /\ wants'[t] = m
      /\ \A u \in Thread \ {t} : pc'[u] = pc[u] /\ wants'[u] = wants[u]
  BY <1>1 DEF Enqueues
<1>7. \A n \in Mutex : Elements(waitingThreads[n]) \subseteq Thread
  BY <1>1 DEF Elements
<1>8. ASSUME NEW n \in Mutex PROVE RingInv(n)'
  <2>1. owner'[n] = owner[n]
    BY DEF Enqueues
  <2>2. CASE n = m
    <3>1. /\ waitingThreads'[n] = Append(waitingThreads[n], t)
          /\ Elements(waitingThreads'[n]) = Elements(waitingThreads[n]) \cup {t}
          /\ Once(waitingThreads'[n])
      BY <1>1, <1>2, <2>2, AppendElements DEF Enqueues, RingInv
    <3>2. owner'[n] \notin Elements(waitingThreads'[n]) /\ owner'[n] # None
      BY <2>1, <2>2, <3>1 DEF Enqueues, RingInv
    <3>3. \A u \in Elements(waitingThreads'[n]) : pc'[u] = "lock" /\ wants'[u] = n
      BY <1>6, <1>7, <2>2, <3>1 DEF RingInv
    <3>4. \A u \in Thread : n \in Elements(mutexes'[u])
                              <=> owner'[n] = u \/ u \in Elements(waitingThreads'[n])
      BY <1>4, <2>1, <2>2, <3>1 DEF RingInv
    <3>5. QED
      BY <3>1, <3>2, <3>3, <3>4 DEF RingInv
  <2>3. CASE n # m
    <3>1. waitingThreads'[n] = waitingThreads[n]
      BY <1>1, <2>3 DEF Enqueues
    <3>2. \A u \in Thread : n \in Elements(mutexes'[u]) <=> n \in Elements(mutexes[u])
      BY <1>4, <2>3
    <3>3. \A u \in Elements(waitingThreads'[n]) : pc'[u] = "lock" /\ wants'[u] = n
      BY <1>2, <1>6, <1>7, <3>1 DEF RingInv
    <3>4. QED
      BY <2>1, <3>1, <3>2, <3>3 DEF RingInv
  <2>4. QED
    BY <2>2, <2>3
<1>9. QED
  BY <1>5, <1>8

\* Taking a mutex off its list leaves the thread with the others.
LEMMA ForgetsOnly ==
  ASSUME TypeOK, MutexIInv, NEW t \in Thread, NEW m \in Mutex, Forgets(t, m)
  PROVE  /\ MutexesOnce'
         /\ Elements(mutexes'[t]) = Elements(mutexes[t]) \ {m}
         /\ \A u \in Thread \ {t} : mutexes'[u] = mutexes[u]
<1>1. PICK rest \in Seq(Mutex) :
        /\ Once(rest) /\ Elements(rest) = Elements(mutexes[t]) \ {m}
        /\ mutexes' = [mutexes EXCEPT ![t] = rest]
  BY DEF Forgets
<1>2. mutexes'[t] = rest /\ \A u \in Thread \ {t} : mutexes'[u] = mutexes[u]
  BY <1>1 DEF TypeOK
<1>3. QED
  BY <1>1, <1>2 DEF MutexIInv, MutexesOnce

LEMMA PassesKeepsRings ==
  ASSUME TypeOK, MutexIInv, NEW t \in Thread, NEW m \in Mutex, Passes(t, m)
  PROVE  (\A n \in Mutex : RingInv(n)') /\ MutexesOnce'
<1> USE DEF MutexIInv
<1>1. /\ owner \in [Mutex -> Thread \cup {None}] /\ waitingThreads \in [Mutex -> Seq(Thread)]
      /\ None \notin Thread /\ UNCHANGED <<pc, wants>>
  BY ConstantsAssumption DEF TypeOK, Passes
<1>2. /\ MutexesOnce'
      /\ Elements(mutexes'[t]) = Elements(mutexes[t]) \ {m}
      /\ \A u \in Thread \ {t} : mutexes'[u] = mutexes[u]
  BY ForgetsOnly DEF Passes
<1>3. owner[m] = t /\ t \notin Elements(waitingThreads[m])
  BY DEF Passes, RingInv
<1>4. ASSUME NEW n \in Mutex PROVE RingInv(n)'
  <2>1. CASE n # m
    <3>1. owner'[n] = owner[n] /\ waitingThreads'[n] = waitingThreads[n]
      BY <1>1, <2>1 DEF Passes
    <3>2. \A u \in Thread : n \in Elements(mutexes'[u]) <=> n \in Elements(mutexes[u])
      BY <1>2, <2>1
    <3>3. QED
      BY <1>1, <3>1, <3>2 DEF RingInv
  <2>2. CASE n = m /\ waitingThreads[m] = <<>>
    <3>1. owner'[n] = None /\ waitingThreads'[n] = <<>> /\ Elements(waitingThreads[m]) = {}
      BY <1>1, <2>2, EmptyList DEF Passes
    <3>2. \A u \in Thread : n \notin Elements(mutexes'[u])
      BY <1>2, <1>3, <2>2, <3>1 DEF RingInv
    <3>3. QED
      BY <1>1, <3>1, <3>2, EmptyList DEF RingInv
  <2>3. CASE n = m /\ waitingThreads[m] # <<>>
    <3> DEFINE h == Head(waitingThreads[m])
    <3>1. owner'[n] = h /\ waitingThreads'[n] = Tail(waitingThreads[m]) /\ h \in Thread
      BY <1>1, <2>3 DEF Passes
    <3>2. /\ h \in Elements(waitingThreads[m]) /\ h \notin Elements(Tail(waitingThreads[m]))
          /\ Elements(Tail(waitingThreads[m])) = Elements(waitingThreads[m]) \ {h}
          /\ Once(Tail(waitingThreads[m]))
      BY <1>1, <2>3, TailElements DEF RingInv
    <3> HIDE DEF h
    <3>3. \A u \in Thread : n \in Elements(mutexes'[u])
                              <=> owner'[n] = u \/ u \in Elements(waitingThreads'[n])
      BY <1>2, <1>3, <2>3, <3>1, <3>2 DEF RingInv
    <3>4. \A u \in Elements(waitingThreads'[n]) : pc'[u] = "lock" /\ wants'[u] = n
      BY <1>1, <2>3, <3>1, <3>2 DEF RingInv
    <3>5. QED
      BY <1>1, <3>1, <3>2, <3>3, <3>4 DEF RingInv
  <2>4. QED
    BY <2>1, <2>2, <2>3
<1>5. QED
  BY <1>2, <1>4

LEMMA GivesUpKeepsRings ==
  ASSUME TypeOK, MutexIInv, NEW t \in Thread, NEW m \in Mutex, GivesUp(t, m)
  PROVE  (\A n \in Mutex : RingInv(n)') /\ MutexesOnce'
<1> USE DEF MutexIInv
<1>1. waitingThreads \in [Mutex -> Seq(Thread)] /\ UNCHANGED <<owner, pc, wants>>
  BY DEF TypeOK, GivesUp
<1>2. /\ MutexesOnce'
      /\ Elements(mutexes'[t]) = Elements(mutexes[t]) \ {m}
      /\ \A u \in Thread \ {t} : mutexes'[u] = mutexes[u]
  BY ForgetsOnly DEF GivesUp
<1>3. owner[m] # t /\ t \in Elements(waitingThreads[m])
  BY DEF GivesUp, RingInv
<1>4. ASSUME NEW n \in Mutex PROVE RingInv(n)'
  <2>1. CASE n # m
    <3>1. waitingThreads'[n] = waitingThreads[n]
      BY <1>1, <2>1 DEF GivesUp
    <3>2. \A u \in Thread : n \in Elements(mutexes'[u]) <=> n \in Elements(mutexes[u])
      BY <1>2, <2>1
    <3>3. QED
      BY <1>1, <3>1, <3>2 DEF RingInv
  <2>2. CASE n = m
    <3>1. waitingThreads'[n] = Without(waitingThreads[m], t)
      BY <1>1, <2>2 DEF GivesUp
    <3>2. /\ Once(waitingThreads'[n])
          /\ Elements(waitingThreads'[n]) = Elements(waitingThreads[m]) \ {t}
      BY <1>1, <3>1, WithoutElements DEF RingInv
    <3>3. owner[n] # None
      BY <1>3, <2>2, EmptyList DEF RingInv
    <3>4. \A u \in Thread : n \in Elements(mutexes'[u])
                              <=> owner'[n] = u \/ u \in Elements(waitingThreads'[n])
      BY <1>1, <1>2, <1>3, <2>2, <3>2 DEF RingInv
    <3>5. QED
      BY <1>1, <2>2, <3>2, <3>3, <3>4 DEF RingInv
  <2>3. QED
    BY <2>1, <2>2
<1>5. QED
  BY <1>2, <1>4

\* Threads that change their place in the code do not wait for a mutex.
LEMMA OtherPlaceStays ==
  ASSUME TypeOK, MutexIInv, UNCHANGED <<mutexes, owner, waitingThreads>>, NEW t \in Thread,
         \/ pc[t] # "lock"
         \/ \A m \in Mutex : t \notin Elements(waitingThreads[m])
         \/ UNCHANGED <<pc, wants>>,
         \A u \in Thread \ {t} : pc'[u] = pc[u] /\ wants'[u] = wants[u]
  PROVE  MutexesStay
<1>1. \A m \in Mutex : Elements(waitingThreads[m]) \subseteq Thread
  BY DEF TypeOK, Elements
<1>2. QED
  BY <1>1 DEF MutexesStay, MutexIInv, RingInv

\* %%unlock-thread-mutex passes the mutex on.
LEMMA HandOverPasses ==
  ASSUME NEW t \in Thread, NEW m \in Mutex, owner[m] = t, Forgets(t, m), HandOver(m),
         UNCHANGED <<pc, wants>>
  PROVE  Passes(t, m)
  BY DEF HandOver, Passes

LEMMA KernelMutexStep ==
  ASSUME TypeInv, MutexIInv, KernelStep
  PROVE  MutexStep
<1> USE DEF TypeInv, MutexStep
<1>1. CASE \/ ResumeCurrentThread \/ HandleOneEvent \/ HandleReturn \/ DeliverOneRecord
           \/ DeliverReturn \/ DiscardTimerRecord \/ DiscardReturn \/ ExitJoins
           \/ ExitMutexesDone \/ ReleaseOne \/ ReleaseReturn
  BY <1>1 DEF ResumeCurrentThread, HandleOneEvent, HandleReturn, DeliverOneRecord,
     DeliverReturn, DiscardTimerRecord, DiscardReturn, ExitJoins, ExitMutexesDone,
     ReleaseOne, ReleaseReturn, MutexesStay
<1>2. CASE LockSuspend
  <2>1. Current \in Thread
    BY <1>2, CurrentType DEF LockSuspend
  <2>2. UNCHANGED <<mutexes, owner, waitingThreads, wants>>
        /\ pc' = [pc EXCEPT ![Current] = "lock"]
    BY <1>2 DEF LockSuspend, Suspend
  <2>3. QED
    BY <2>1, <2>2 DEF MutexesStay, MutexIInv, RingInv, TypeOK
<1>3. CASE LockReturn
  <2>1. Current \in Thread
    BY <1>3, CurrentType DEF LockReturn
  <2>2. \A m \in Mutex : Current \notin Elements(waitingThreads[m])
    BY <1>3 DEF LockReturn, MutexIInv, RingInv
  <2>3. QED
    BY <1>3, <2>1, <2>2, OtherPlaceStays DEF LockReturn, TypeOK
<1>4. CASE ExitMutex
  <2> DEFINE t == Current
             m == Head(mutexes[t])
  <2>1. t \in Thread /\ mutexes[t] \in Seq(Mutex) /\ mutexes[t] # <<>>
    BY <1>4, CurrentType DEF ExitMutex, TypeOK
  <2>2. m \in Mutex /\ Tail(mutexes[t]) \in Seq(Mutex)
    BY <2>1
  <2>3. mutexes' = [mutexes EXCEPT ![t] = Tail(mutexes[t])] /\ UNCHANGED <<pc, wants>>
    BY <1>4 DEF ExitMutex
  <2>4. /\ m \in Elements(mutexes[t]) /\ Once(Tail(mutexes[t]))
        /\ Elements(Tail(mutexes[t])) = Elements(mutexes[t]) \ {m}
    BY <2>1, TailElements DEF MutexIInv, MutexesOnce
  <2>5. Forgets(t, m)
    BY <2>2, <2>3, <2>4 DEF Forgets
  <2>6. CASE owner[m] = t
    <3>1. HandOver(m)
      BY <1>4, <2>6 DEF ExitMutex
    <3>2. Passes(t, m)
      BY <2>1, <2>2, <2>3, <2>5, <2>6, <3>1, HandOverPasses
    <3>3. QED
      BY <2>1, <2>2, <3>2
  <2>7. CASE owner[m] # t
    <3>1. /\ waitingThreads' = [waitingThreads EXCEPT ![m] = Without(@, t)]
          /\ UNCHANGED owner
      BY <1>4, <2>7 DEF ExitMutex
    <3>2. GivesUp(t, m)
      BY <2>3, <2>4, <2>5, <2>7, <3>1 DEF GivesUp
    <3>3. QED
      BY <2>1, <2>2, <3>2
  <2>8. QED
    BY <2>6, <2>7
<1>5. CASE ExitDead
  <2>1. Current \in Thread /\ mutexes[Current] = <<>>
    BY <1>5, CurrentType DEF ExitDead, MutexIInv, ExitGaveUp
  <2>2. \A m \in Mutex : Current \notin Elements(waitingThreads[m])
    BY <2>1, EmptyList DEF MutexIInv, RingInv
  <2>3. QED
    BY <1>5, <2>1, <2>2, OtherPlaceStays DEF ExitDead, TypeOK
<1>6. QED
  BY <1>1, <1>2, <1>3, <1>4, <1>5 DEF KernelStep

LEMMA ThreadMutexStep ==
  ASSUME TypeInv, MutexIInv, NEW t \in Thread, ThreadStep(t)
  PROVE  MutexStep
<1>1. pc[t] # "lock"
  BY DEF ThreadStep, CreateThreadReturn, SignalSelfAdd, SleepRegister, SleepSuspend,
     SleepReturn, At
<1>2. /\ UNCHANGED <<mutexes, owner, waitingThreads, wants>>
      /\ \A u \in Thread \ {t} : pc'[u] = pc[u]
  BY DEF ThreadStep, CreateThreadReturn, SignalSelfAdd, ReturnFromBlocked,
     UnblockThreadEvents, SleepRegister, SleepSuspend, Suspend, SleepReturn, TypeInv, TypeOK
<1>3. QED
  BY <1>1, <1>2, OtherPlaceStays DEF MutexStep, TypeInv

LEMMA UserMutexStep ==
  ASSUME TypeInv, MutexIInv, NEW t \in Thread, UserCall(t)
  PROVE  MutexStep
<1> USE DEF TypeInv, MutexStep
<1>1. pc[t] = "user"
  BY DEF UserCall, YieldCurrentThread, SetPreemption, StopCurrentThread, SuspendCurrentThread,
     SignalSelf, SetThreadEventBlock, HandleCurrentThreadEvents, AllowThreadEventDelivery,
     RegisterTimerEvent, DeregisterTimerEvent, SetThreadTimerInterval, SleepCurrentThread,
     LockThreadMutex, EnqueueForMutex, UnlockThreadMutex, ExitCurrentThread,
     DeregisterAllEvents, CreateThread, SignalThreadEvent, RestartThread, JoinThread,
     JoinExitedThread, DetachThread, Calls
<1>2. ASSUME NEW m \in Mutex, LockThreadMutex(t, m) PROVE MutexStep
  BY <1>2 DEF LockThreadMutex, Takes
<1>3. ASSUME NEW m \in Mutex, EnqueueForMutex(t, m) PROVE MutexStep
  <2>1. Enqueues(t, m)
    BY <1>1, <1>3 DEF EnqueueForMutex, Enqueues
  <2>2. QED
    BY <2>1
<1>4. ASSUME NEW m \in Mutex, UnlockThreadMutex(t, m) PROVE MutexStep
  <2>1. /\ Without(mutexes[t], m) \in Seq(Mutex) /\ Once(Without(mutexes[t], m))
        /\ Elements(Without(mutexes[t], m)) = Elements(mutexes[t]) \ {m}
    BY WithoutType, WithoutElements DEF TypeOK, MutexIInv, MutexesOnce
  <2>2. Forgets(t, m)
    BY <1>4, <2>1 DEF UnlockThreadMutex, Forgets
  <2>3. Passes(t, m)
    BY <1>4, <2>2, HandOverPasses DEF UnlockThreadMutex
  <2>4. QED
    BY <2>3
<1>5. ASSUME UNCHANGED <<mutexes, owner, waitingThreads, wants>>,
             \A u \in Thread \ {t} : pc'[u] = pc[u]
      PROVE  MutexStep
  BY <1>1, <1>5, OtherPlaceStays
<1>6. CASE ~\E m \in Mutex : LockThreadMutex(t, m) \/ EnqueueForMutex(t, m)
                             \/ UnlockThreadMutex(t, m)
  <2>1. /\ UNCHANGED <<mutexes, owner, waitingThreads, wants>>
        /\ pc' = pc \/ \E p : pc' = [pc EXCEPT ![t] = p]
    BY <1>6 DEF UserCall, YieldCurrentThread, SetPreemption,
       StopCurrentThread, SuspendCurrentThread, Suspend, SignalSelf, UnblockThreadEvents,
       SetThreadEventBlock, HandleCurrentThreadEvents, AllowThreadEventDelivery,
       RegisterTimerEvent, DeregisterTimerEvent, SetThreadTimerInterval,
       SleepCurrentThread, ExitCurrentThread, DeregisterAllEvents, CreateThread,
       SignalThreadEvent, RestartThread, JoinThread, JoinExitedThread, DetachThread
  <2>2. \A u \in Thread \ {t} : pc'[u] = pc[u]
    BY <2>1 DEF TypeOK
  <2>3. QED
    BY <1>5, <2>1, <2>2
<1>7. QED
  BY <1>2, <1>3, <1>4, <1>6

LEMMA NextMutexStep ==
  ASSUME TypeInv, MutexIInv, [Next]_vars
  PROVE  MutexStep
<1>1. CASE UNCHANGED vars
  BY <1>1 DEF vars, MutexStep, MutexesStay
<1>2. CASE \/ Tick \/ TimerInterrupt
           \/ \E u \in Thread, event \in Events : SignalWhileIdle(u, event)
  BY <1>2 DEF Tick, TimerInterrupt, SignalWhileIdle, MutexStep, MutexesStay
<1>3. QED
  BY <1>1, <1>2, KernelMutexStep, ThreadMutexStep, UserMutexStep DEF Next

\* The thread at the head of the run queue stays there when others are appended.
LEMMA HeadOfAppend ==
  ASSUME NEW S, NEW s \in Seq(S), s # <<>>, NEW x \in S
  PROVE  Head(Append(s, x)) = Head(s) /\ Append(s, x) # <<>>
  BY AppendType

\* %signal-thread-event leaves the processor to the current thread.
LEMMA SignalKeepsCurrent ==
  ASSUME TypeOK, ~Idle, NEW u \in Thread, NEW event, SignalThread(u, event)
  PROVE  Current' = Current /\ ~Idle'
<1>1. runQueue \in Seq(Thread) /\ runQueue # <<>>
  BY DEF TypeOK, Idle
<1>2. runQueue' = runQueue \/ runQueue' = Append(runQueue, u)
  BY DEF SignalThread
<1>3. QED
  BY <1>1, <1>2, HeadOfAppend DEF Current, Idle

\* The clean-up of exit-current-thread is past its timer records.
CleaningUp == \/ kstep \in {"exit-joins", "exit-mutexes", "exit"}
              \/ kstep = "release" /\ caller = "exit"

\* It gets there and goes on only by its own steps.
LEMMA CleanUpSteps ==
  ASSUME Next, CleaningUp'
  PROVE  \/ DiscardReturn \/ ExitJoins \/ ExitMutex \/ ExitMutexesDone
         \/ ReleaseOne \/ ReleaseReturn
<1> USE DEF CleaningUp
<1>1. ASSUME NEW t \in Thread, ThreadStep(t) PROVE FALSE
  BY <1>1 DEF ThreadStep, CreateThreadReturn, SignalSelfAdd, UnblockThreadEvents,
     SleepRegister, SleepSuspend, Suspend, SleepReturn, At
<1>2. ASSUME NEW t \in Thread, UserCall(t) PROVE FALSE
  BY <1>2, ZenonT(60) DEF UserCall, YieldCurrentThread, YieldThread, SetPreemption,
     StopCurrentThread, ThreadNotRunning, SuspendCurrentThread, Suspend, SignalSelf,
     UnblockThreadEvents, SetThreadEventBlock, HandleCurrentThreadEvents,
     AllowThreadEventDelivery, RegisterTimerEvent, DeregisterTimerEvent,
     SetThreadTimerInterval, SleepCurrentThread, LockThreadMutex, EnqueueForMutex,
     UnlockThreadMutex, ExitCurrentThread, BeginExit, DeregisterAllEvents, CreateThread,
     SignalThreadEvent, RestartThread, JoinThread, JoinExitedThread, DetachThread,
     BeginRelease, Calls
<1>3. ~(Tick \/ TimerInterrupt \/ \E u \in Thread, event \in Events : SignalWhileIdle(u, event))
  BY DEF Tick, TimerInterrupt, SignalWhileIdle
<1>4. KernelStep
  BY <1>1, <1>2, <1>3 DEF Next
<1>5. QED
  BY <1>4 DEF KernelStep, ResumeCurrentThread, Return, HandleOneEvent, BeginExit,
     HandleReturn, ThreadNotRunning, DeliverOneRecord, DeliverReturn, YieldThread,
     LockSuspend, Suspend, LockReturn, DiscardTimerRecord, ExitDead

\* The clean-up of an exiting thread comes to its end only without mutexes.
LEMMA ExitGaveUpStep ==
  ASSUME TypeInv, ExitGaveUp, Next
  PROVE  ExitGaveUp'
<1> USE DEF TypeInv
<1>1. CASE ~(kstep' = "exit" \/ (kstep' = "release" /\ caller' = "exit"))
  BY <1>1 DEF ExitGaveUp
<1>2. CASE kstep' = "exit" \/ (kstep' = "release" /\ caller' = "exit")
  <2>1. DiscardReturn \/ ExitJoins \/ ExitMutex \/ ExitMutexesDone \/ ReleaseOne \/ ReleaseReturn
    BY <1>2, CleanUpSteps DEF CleaningUp
  <2>2. ExitMutexesDone \/ ReleaseOne \/ ReleaseReturn
    BY <1>2, <2>1 DEF DiscardReturn, ExitJoins, ExitMutex
  <2>3. CASE ExitMutexesDone
    BY <2>3 DEF ExitMutexesDone, ExitGaveUp, Current
  <2>4. CASE ReleaseReturn
    BY <1>2, <2>4 DEF ReleaseReturn, FrameGone, ExitGaveUp, Current
  <2>5. CASE ReleaseOne
    <3>1. UNCHANGED <<mutexes, kstep, caller>>
      BY <2>5 DEF ReleaseOne
    <3>2. ~Idle /\ Head(toRelease) \in Thread /\ SignalThread(Head(toRelease), "join")
      <4>1. kstep = "release" /\ toRelease # <<>> /\ SignalThread(Head(toRelease), "join")
        BY <2>5 DEF ReleaseOne
      <4>2. ~Idle
        BY <4>1, CurrentType
      <4>3. QED
        BY <4>1, <4>2 DEF TypeOK
    <3>3. Current' = Current
      BY <3>2, SignalKeepsCurrent
    <3>4. QED
      BY <1>2, <3>1, <3>3 DEF ExitGaveUp
  <2>6. QED
    BY <2>2, <2>3, <2>4, <2>5
<1>3. QED
  BY <1>1, <1>2

\* The mutexes are right for any number of threads and mutexes: a free mutex has no
\* waiters, the owner does not wait, nobody waits twice or without being in the loop
\* of lock-thread-mutex, and the list of mutexes of a thread, on which its exit relies,
\* names exactly those it owns or waits for.  The invariant needs two facts more: the
\* list holds a mutex once, so that delq! forgets it, and an exiting thread has an
\* empty list before its stack goes away.
THEOREM MutexesCorrect == Spec => []MutexIInv
<1>1. Init => MutexIInv
  BY EmptyList, ConstantsAssumption DEF Init, MutexIInv, RingInv, MutexesOnce, ExitGaveUp
<1>2. TypeInv /\ MutexIInv /\ [Next]_vars => MutexIInv'
  <2> SUFFICES ASSUME TypeInv, MutexIInv, [Next]_vars PROVE MutexIInv'
    OBVIOUS
  <2>1. (\A m \in Mutex : RingInv(m)') /\ MutexesOnce'
    BY NextMutexStep, StayKeepsRings, TakesKeepsRings, EnqueuesKeepsRings, PassesKeepsRings,
       GivesUpKeepsRings DEF MutexStep, TypeInv
  <2>2. ExitGaveUp'
    <3>1. CASE UNCHANGED vars
      BY <3>1 DEF vars, MutexIInv, ExitGaveUp, Current
    <3>2. CASE Next
      BY <3>2, ExitGaveUpStep DEF MutexIInv
    <3>3. QED
      BY <3>1, <3>2
  <2>3. QED
    BY <2>1, <2>2 DEF MutexIInv
<1>3. QED
  BY <1>1, <1>2, TypeCorrect, PTL DEF Spec

\* The mutexes, their rings and the lists of the threads agree in every state.
THEOREM MutexSafety == Spec => []MutexInv
<1>1. MutexIInv => MutexInv
  BY RingInvSuffices DEF MutexIInv
<1>2. QED
  BY <1>1, MutexesCorrect, PTL
------------------------------------------------------------------------------
(* The mutexes implement FifoLock.                                           *)

\* delq! takes one place out of the ring.
LEMMA WithoutDrops ==
  ASSUME NEW S, NEW s \in Seq(S), NEW x, x \in Elements(s)
  PROVE  \E i \in DOMAIN s : Without(s, x) = SubSeq(s, 1, i - 1) \o SubSeq(s, i + 1, Len(s))
<1>1. \E i \in DOMAIN s : s[i] = x
  BY ElementsMeaning
<1>2. QED
  BY <1>1 DEF Without, DropAt

LEMMA FifoStep ==
  ASSUME TypeInv, MutexIInv, [Next]_vars
  PROVE  [Fifo!Next]_(Fifo!vars)
<1>1. CASE MutexesStay
  BY <1>1 DEF MutexesStay, Fifo!vars
<1>2. ASSUME NEW t \in Thread, NEW m \in Mutex, Takes(t, m) PROVE Fifo!Next
  <2>1. Fifo!Take(t, m)
    BY <1>2 DEF Takes, MutexIInv, RingInv, Fifo!Take
  <2>2. QED
    BY <2>1 DEF Fifo!Next
<1>3. ASSUME NEW t \in Thread, NEW m \in Mutex, Enqueues(t, m) PROVE Fifo!Next
  <2>1. t \notin Elements(waitingThreads[m])
    BY <1>3 DEF Enqueues, MutexIInv, RingInv
  <2>2. Fifo!Wait(t, m)
    BY <1>3, <2>1, ElementsMeaning DEF Enqueues, Fifo!Wait
  <2>3. QED
    BY <2>2 DEF Fifo!Next
<1>4. ASSUME NEW t \in Thread, NEW m \in Mutex, Passes(t, m) PROVE Fifo!Next
  <2>1. owner[m] # None
    BY <1>4, ConstantsAssumption DEF Passes
  <2>2. Fifo!Release(m)
    BY <1>4, <2>1 DEF Passes, Fifo!Release
  <2>3. QED
    BY <2>2 DEF Fifo!Next
<1>5. ASSUME NEW t \in Thread, NEW m \in Mutex, GivesUp(t, m) PROVE Fifo!Next
  <2>1. t \in Elements(waitingThreads[m]) /\ waitingThreads[m] \in Seq(Thread)
    BY <1>5 DEF GivesUp, MutexIInv, RingInv, TypeInv, TypeOK
  <2>2. PICK i \in DOMAIN waitingThreads[m] :
          Without(waitingThreads[m], t) = SubSeq(waitingThreads[m], 1, i - 1)
            \o SubSeq(waitingThreads[m], i + 1, Len(waitingThreads[m]))
    BY <2>1, WithoutDrops
  <2>3. Fifo!GiveUp(m, i)
    BY <1>5, <2>2 DEF GivesUp, Fifo!GiveUp
  <2>4. QED
    BY <2>3 DEF Fifo!Next
<1>6. QED
  BY <1>1, <1>2, <1>3, <1>4, <1>5, NextMutexStep DEF MutexStep

\* The mutexes implement FifoLock, for any number of threads and mutexes: every step
\* of the scheduler leaves owners and rings alone or takes, waits for, passes on or
\* gives up one mutex in the way FifoLock allows.  MutexInv says that a mutex without
\* owner has an empty ring, so that nobody overtakes, and that who gives up is in it.
THEOREM MutexesAreFifo == Spec => FifoSpec
<1>1. Init => Fifo!Init
  BY DEF Init, Fifo!Init
<1>2. TypeInv /\ MutexIInv /\ [Next]_vars => [Fifo!Next]_(Fifo!vars)
  BY FifoStep
<1>3. QED
  BY <1>1, <1>2, TypeCorrect, MutexesCorrect, PTL DEF Spec, FifoSpec, Fifo!Spec
------------------------------------------------------------------------------
\* The first element of a list and the rest are what it holds.
LEMMA HeadTailElements ==
  ASSUME NEW S, NEW s \in Seq(S), s # <<>>
  PROVE  Elements(s) = Elements(Tail(s)) \cup {Head(s)}
<1>1. /\ Len(s) \in Nat /\ Len(s) > 0 /\ DOMAIN s = 1 .. Len(s)
      /\ Head(s) = s[1] /\ DOMAIN Tail(s) = 1 .. Len(s) - 1
      /\ \A i \in 1 .. Len(s) - 1 : Tail(s)[i] = s[i + 1]
  OBVIOUS
<1>2. ASSUME NEW x \in Elements(s), x # Head(s) PROVE x \in Elements(Tail(s))
  <2>1. PICK i \in DOMAIN s : s[i] = x
    BY <1>2, ElementsMeaning
  <2>2. i - 1 \in 1 .. Len(s) - 1 /\ (i - 1) + 1 = i
    BY <1>1, <1>2, <2>1
  <2>3. Tail(s)[i - 1] = x
    BY <1>1, <2>1, <2>2
  <2>4. QED
    BY <1>1, <2>2, <2>3, ElementsMeaning
<1>3. ASSUME NEW x \in Elements(Tail(s)) PROVE x \in Elements(s)
  <2>1. PICK i \in DOMAIN Tail(s) : Tail(s)[i] = x
    BY <1>3, ElementsMeaning
  <2>2. i + 1 \in DOMAIN s /\ s[i + 1] = x
    BY <1>1, <2>1
  <2>3. QED
    BY <2>2, ElementsMeaning
<1>4. Head(s) \in Elements(s)
  <2>1. 1 \in DOMAIN s
    BY <1>1
  <2>2. QED
    BY <1>1, <2>1, ElementsMeaning
<1>5. QED
  BY <1>2, <1>3, <1>4
------------------------------------------------------------------------------
(* Both ends of a join.                                                      *)

\* release-joined-threads is at work for thread u.
Releasing(u) == kstep = "release" /\ u = releasing

\* %disassociate-joined-threads is at work for thread t.
TakingBack(t) == kstep = "exit-joins" /\ t = Current

\* Both ends of a join agree; while the threads that joined u are released, those
\* that still name it are the ones still to be released, and a thread that takes its
\* joins back may name a thread again that it has taken them back from.
JoinInv ==
  \A t, u \in Thread :
    IF Releasing(u)
    THEN exitValue[u] # "none" /\ (u \in Elements(joinedTo[t]) => t \in Elements(toRelease))
    ELSE /\ exitValue[u] = "none" /\ t \in Elements(joinedThreads[u])
              => u \in Elements(joinedTo[t])
         /\ u \in Elements(joinedTo[t])
              => exitValue[u] = "none" /\ (t \in Elements(joinedThreads[u]) \/ TakingBack(t))

\* The lists stay as they are, nobody is being released, and no join is left to be
\* taken back.
JoinsStay ==
  /\ kstep # "release" /\ kstep' # "release" /\ UNCHANGED joinVars
  /\ kstep = "exit-joins" => Current \in Thread /\ joinedTo[Current] = <<>>

\* Thread t joins thread u.
JoinsThread(t, u) ==
  /\ kstep \notin {"release", "exit-joins"} /\ kstep' \notin {"release", "exit-joins"}
  /\ exitValue[u] = "none"
  /\ joinedThreads' = [joinedThreads EXCEPT ![u] = <<t>> \o @]
  /\ joinedTo' = [joinedTo EXCEPT ![t] = <<u>> \o @]
  /\ UNCHANGED exitValue

\* Thread t, which exits, takes back its first join.
TakesBack(t) ==
  /\ TakingBack(t) /\ UNCHANGED <<kstep, runQueue>>
  /\ joinedTo[t] # <<>>
  /\ joinedThreads' = [joinedThreads EXCEPT ![Head(joinedTo[t])] = WithoutAll(@, t)]
  /\ joinedTo' = [joinedTo EXCEPT ![t] = Tail(@)]
  /\ UNCHANGED exitValue

\* The threads that joined u begin to be released.
Releases(u) ==
  /\ kstep \notin {"release", "exit-joins"} /\ kstep' = "release" /\ releasing' = u
  /\ toRelease' = joinedThreads[u]
  /\ \E value \in {"value", "detached"} : exitValue' = [exitValue EXCEPT ![u] = value]
  /\ UNCHANGED <<joinedThreads, joinedTo>>

\* One of them is released, and then the release ends.
ReleasesOne ==
  /\ kstep = "release" /\ kstep' = "release" /\ UNCHANGED releasing
  /\ toRelease # <<>> /\ toRelease' = Tail(toRelease)
  /\ joinedTo' = [joinedTo EXCEPT ![Head(toRelease)] = WithoutAll(@, releasing)]
  /\ UNCHANGED <<joinedThreads, exitValue>>

ReleaseEnds == kstep = "release" /\ kstep' # "release" /\ toRelease = <<>> /\ UNCHANGED joinVars

JoinStep ==
  \/ JoinsStay \/ ReleasesOne \/ ReleaseEnds
  \/ \E t \in Thread : TakesBack(t) \/ Releases(t) \/ \E u \in Thread : JoinsThread(t, u)

\* Each of the six keeps the two ends in agreement.
LEMMA StayKeepsJoins ==
  ASSUME JoinInv, JoinsStay
  PROVE  JoinInv'
<1>1. \A t \in Thread : TakingBack(t) => Elements(joinedTo[t]) = {}
  BY EmptyList DEF JoinsStay, TakingBack
<1>2. \A t, u \in Thread : u \in Elements(joinedTo[t])
        <=> exitValue[u] = "none" /\ t \in Elements(joinedThreads[u])
  BY <1>1 DEF JoinInv, JoinsStay, Releasing
<1>3. QED
  BY <1>2 DEF JoinInv, JoinsStay, Releasing

LEMMA JoinsThreadKeepsJoins ==
  ASSUME TypeOK, JoinInv, NEW t \in Thread, NEW u \in Thread, JoinsThread(t, u)
  PROVE  JoinInv'
<1>1. joinedTo \in [Thread -> Seq(Thread)] /\ joinedThreads \in [Thread -> Seq(Thread)]
  BY DEF TypeOK
<1>2. /\ Elements(joinedTo'[t]) = Elements(joinedTo[t]) \cup {u}
      /\ \A x \in Thread \ {t} : joinedTo'[x] = joinedTo[x]
  <2>1. Elements(<<u>> \o joinedTo[t]) = Elements(joinedTo[t]) \cup {u}
    BY <1>1, ConsElements
  <2>2. QED
    BY <1>1, <2>1 DEF JoinsThread
<1>3. /\ Elements(joinedThreads'[u]) = Elements(joinedThreads[u]) \cup {t}
      /\ \A x \in Thread \ {u} : joinedThreads'[x] = joinedThreads[x]
  <2>1. Elements(<<t>> \o joinedThreads[u]) = Elements(joinedThreads[u]) \cup {t}
    BY <1>1, ConsElements
  <2>2. QED
    BY <1>1, <2>1 DEF JoinsThread
<1>4. ASSUME NEW x \in Thread, NEW y \in Thread
      PROVE  /\ ~Releasing(y) /\ ~Releasing(y)'
             /\ y \in Elements(joinedTo'[x])
                  <=> exitValue'[y] = "none" /\ x \in Elements(joinedThreads'[y])
  <2>1. ~Releasing(y) /\ ~Releasing(y)' /\ ~TakingBack(x)
    BY DEF JoinsThread, Releasing, TakingBack
  <2>2. y \in Elements(joinedTo[x]) <=> exitValue[y] = "none" /\ x \in Elements(joinedThreads[y])
    BY <2>1 DEF JoinInv
  <2>3. y \in Elements(joinedTo'[x]) <=> y \in Elements(joinedTo[x]) \/ (x = t /\ y = u)
    BY <1>2
  <2>4. x \in Elements(joinedThreads'[y]) <=> x \in Elements(joinedThreads[y]) \/ (x = t /\ y = u)
    BY <1>3
  <2>5. exitValue' = exitValue /\ exitValue[u] = "none"
    BY DEF JoinsThread
  <2>6. QED
    BY <2>1, <2>2, <2>3, <2>4, <2>5
<1>5. QED
  BY <1>4 DEF JoinInv

LEMMA TakesBackKeepsJoins ==
  ASSUME TypeOK, JoinInv, NEW t \in Thread, TakesBack(t)
  PROVE  JoinInv'
<1> DEFINE u == Head(joinedTo[t])
<1>1. joinedTo \in [Thread -> Seq(Thread)] /\ joinedThreads \in [Thread -> Seq(Thread)]
  BY DEF TypeOK
<1>2. u \in Thread /\ joinedTo[t] # <<>>
  BY <1>1 DEF TakesBack
<1>3. /\ Elements(joinedTo[t]) = Elements(joinedTo'[t]) \cup {u}
      /\ \A x \in Thread \ {t} : joinedTo'[x] = joinedTo[x]
  <2>1. Elements(joinedTo[t]) = Elements(Tail(joinedTo[t])) \cup {u}
    BY <1>1, <1>2, HeadTailElements
  <2>2. QED
    BY <1>1, <2>1 DEF TakesBack
<1>4. /\ Elements(joinedThreads'[u]) = Elements(joinedThreads[u]) \ {t}
      /\ \A x \in Thread \ {u} : joinedThreads'[x] = joinedThreads[x]
  <2>1. Elements(WithoutAll(joinedThreads[u], t)) = Elements(joinedThreads[u]) \ {t}
    BY <1>1, <1>2, WithoutAllElements
  <2>2. QED
    BY <1>1, <1>2, <2>1 DEF TakesBack
<1> HIDE DEF u
<1>5. ASSUME NEW x \in Thread, NEW y \in Thread
      PROVE  /\ ~Releasing(y) /\ ~Releasing(y)'
             /\ exitValue'[y] = "none" /\ x \in Elements(joinedThreads'[y])
                  => y \in Elements(joinedTo'[x])
             /\ y \in Elements(joinedTo'[x])
                  => /\ exitValue'[y] = "none"
                     /\ x \in Elements(joinedThreads'[y]) \/ TakingBack(x)'
  <2>1. /\ ~Releasing(y) /\ ~Releasing(y)' /\ exitValue' = exitValue
        /\ TakingBack(x) <=> x = t
        /\ TakingBack(x)' <=> x = t
    BY DEF TakesBack, Releasing, TakingBack, Current
  <2>2. /\ exitValue[y] = "none" /\ x \in Elements(joinedThreads[y]) => y \in Elements(joinedTo[x])
        /\ y \in Elements(joinedTo[x])
             => exitValue[y] = "none" /\ (x \in Elements(joinedThreads[y]) \/ x = t)
    BY <2>1 DEF JoinInv
  <2>3. /\ y \in Elements(joinedTo'[x]) => y \in Elements(joinedTo[x])
        /\ y \in Elements(joinedTo[x]) => y \in Elements(joinedTo'[x]) \/ (x = t /\ y = u)
    BY <1>3
  <2>4. x \in Elements(joinedThreads'[y])
          <=> x \in Elements(joinedThreads[y]) /\ ~(x = t /\ y = u)
    BY <1>4
  <2>5. QED
    BY <2>1, <2>2, <2>3, <2>4
<1>6. QED
  BY <1>5 DEF JoinInv

LEMMA ReleasesKeepsJoins ==
  ASSUME TypeOK, JoinInv, NEW u \in Thread, Releases(u)
  PROVE  JoinInv'
<1>1. /\ exitValue'[u] # "none" /\ \A y \in Thread \ {u} : exitValue'[y] = exitValue[y]
  BY DEF Releases, TypeOK
<1>2. QED
  BY <1>1 DEF Releases, JoinInv, Releasing, TakingBack

LEMMA ReleasesOneKeepsJoins ==
  ASSUME TypeOK, JoinInv, ReleasesOne
  PROVE  JoinInv'
<1> DEFINE h == Head(toRelease)
           r == releasing
<1>1. /\ joinedTo \in [Thread -> Seq(Thread)] /\ toRelease \in Seq(Thread)
      /\ toRelease # <<>> /\ h \in Thread /\ r \in Thread
  BY DEF TypeOK, ReleasesOne
<1>2. /\ Elements(joinedTo'[h]) = Elements(joinedTo[h]) \ {r}
      /\ \A x \in Thread \ {h} : joinedTo'[x] = joinedTo[x]
  <2>1. Elements(WithoutAll(joinedTo[h], r)) = Elements(joinedTo[h]) \ {r}
    BY <1>1, WithoutAllElements
  <2>2. QED
    BY <1>1, <2>1 DEF ReleasesOne
<1>3. Elements(toRelease) = Elements(toRelease') \cup {h}
  BY <1>1, HeadTailElements DEF ReleasesOne
<1> HIDE DEF h, r
<1>4. ASSUME NEW x \in Thread, NEW y \in Thread
      PROVE  /\ Releasing(y)' <=> Releasing(y)
             /\ Releasing(y) => /\ exitValue'[y] # "none"
                                /\ y \in Elements(joinedTo'[x]) => x \in Elements(toRelease')
             /\ ~Releasing(y) => (y \in Elements(joinedTo'[x])
                  <=> exitValue'[y] = "none" /\ x \in Elements(joinedThreads'[y]))
  <2>1. /\ Releasing(y) <=> y = r
        /\ Releasing(y)' <=> y = r
        /\ ~TakingBack(x)
        /\ UNCHANGED <<joinedThreads, exitValue>>
    BY DEF ReleasesOne, Releasing, TakingBack, r
  <2>2. y \in Elements(joinedTo'[x]) <=> y \in Elements(joinedTo[x]) /\ ~(x = h /\ y = r)
    BY <1>2
  <2>3. CASE y = r
    BY <1>3, <2>1, <2>2, <2>3 DEF JoinInv
  <2>4. CASE y # r
    BY <2>1, <2>2, <2>4 DEF JoinInv
  <2>5. QED
    BY <2>3, <2>4
<1>5. QED
  BY <1>4 DEF JoinInv

LEMMA ReleaseEndsKeepsJoins ==
  ASSUME JoinInv, ReleaseEnds
  PROVE  JoinInv'
<1>1. Elements(toRelease) = {}
  BY EmptyList DEF ReleaseEnds
<1>2. QED
  BY <1>1 DEF ReleaseEnds, JoinInv, Releasing, TakingBack

LEMMA KernelJoinStep ==
  ASSUME TypeInv, KernelStep
  PROVE  JoinStep
<1> USE DEF TypeInv, JoinStep
<1>1. CASE \/ ResumeCurrentThread \/ HandleOneEvent \/ HandleReturn \/ DeliverOneRecord
           \/ DeliverReturn \/ LockSuspend \/ LockReturn \/ DiscardTimerRecord
           \/ DiscardReturn \/ ExitMutex \/ ExitDead
  BY <1>1 DEF ResumeCurrentThread, Return, HandleOneEvent, BeginExit, HandleReturn,
     ThreadNotRunning, DeliverOneRecord, DeliverReturn, YieldThread, LockSuspend, Suspend,
     LockReturn, DiscardTimerRecord, DiscardReturn, ExitMutex, ExitDead, JoinsStay
<1>2. CASE ExitJoins
  <2>1. Current \in Thread
    BY <1>2, CurrentType DEF ExitJoins
  <2>2. JoinsStay \/ TakesBack(Current)
    BY <1>2, <2>1 DEF ExitJoins, JoinsStay, TakesBack, TakingBack
  <2>3. QED
    BY <2>1, <2>2
<1>3. CASE ExitMutexesDone
  <2>1. Current \in Thread
    BY <1>3, CurrentType DEF ExitMutexesDone
  <2>2. JoinsStay \/ Releases(Current)
    BY <1>3 DEF ExitMutexesDone, BeginRelease, JoinsStay, Releases
  <2>3. QED
    BY <2>1, <2>2
<1>4. CASE ReleaseOne
  BY <1>4 DEF ReleaseOne, ReleasesOne
<1>5. CASE ReleaseReturn
  BY <1>5 DEF ReleaseReturn, ReleaseEnds
<1>6. QED
  BY <1>1, <1>2, <1>3, <1>4, <1>5 DEF KernelStep

LEMMA UserJoinStep ==
  ASSUME NEW t \in Thread, UserCall(t)
  PROVE  JoinStep
<1> USE DEF JoinStep
<1>1. ASSUME NEW u \in Thread, JoinThread(t, u) PROVE JoinStep
  BY <1>1 DEF JoinThread, Calls, JoinsThread
<1>2. ASSUME NEW u \in Thread, DetachThread(t, u) PROVE JoinStep
  <2>1. Releases(u)
    BY <1>2 DEF DetachThread, BeginRelease, Calls, Releases
  <2>2. QED
    BY <2>1
<1>3. CASE ~\E u \in Thread : JoinThread(t, u) \/ DetachThread(t, u)
  <2>1. JoinsStay
    BY <1>3 DEF UserCall, YieldCurrentThread, YieldThread, SetPreemption,
       StopCurrentThread, ThreadNotRunning, SuspendCurrentThread, Suspend, SignalSelf,
       UnblockThreadEvents, SetThreadEventBlock, HandleCurrentThreadEvents,
       AllowThreadEventDelivery, RegisterTimerEvent, DeregisterTimerEvent,
       SetThreadTimerInterval, SleepCurrentThread, LockThreadMutex, EnqueueForMutex,
       UnlockThreadMutex, ExitCurrentThread, BeginExit, DeregisterAllEvents, CreateThread,
       SignalThreadEvent, RestartThread, JoinExitedThread, Calls, JoinsStay
  <2>2. QED
    BY <2>1
<1>4. QED
  BY <1>1, <1>2, <1>3

LEMMA NextJoinStep ==
  ASSUME TypeInv, Next
  PROVE  JoinStep
<1>1. ASSUME NEW t \in Thread, ThreadStep(t) PROVE JoinStep
  BY <1>1 DEF ThreadStep, CreateThreadReturn, SignalSelfAdd, UnblockThreadEvents,
     SleepRegister, SleepSuspend, Suspend, SleepReturn, At, JoinStep, JoinsStay
<1>2. CASE \/ Tick \/ TimerInterrupt
           \/ \E u \in Thread, event \in Events : SignalWhileIdle(u, event)
  BY <1>2 DEF Tick, TimerInterrupt, SignalWhileIdle, JoinStep, JoinsStay
<1>3. QED
  BY <1>1, <1>2, KernelJoinStep, UserJoinStep DEF Next

\* The two ends of a join agree, for any number of threads that join, are detached
\* and exit in any order, also in the middle of the release loop.
THEOREM JoinsCorrect == Spec => []JoinInv
<1>1. Init => JoinInv
  BY EmptyList DEF Init, JoinInv, Releasing
<1>2. TypeInv /\ JoinInv /\ [Next]_vars => JoinInv'
  <2> SUFFICES ASSUME TypeInv, JoinInv, [Next]_vars PROVE JoinInv'
    OBVIOUS
  <2>1. CASE UNCHANGED vars
    BY <2>1 DEF vars, JoinInv, Releasing, TakingBack, Current
  <2>2. CASE Next
    BY <2>2, NextJoinStep, StayKeepsJoins, JoinsThreadKeepsJoins, TakesBackKeepsJoins,
       ReleasesKeepsJoins, ReleasesOneKeepsJoins, ReleaseEndsKeepsJoins DEF JoinStep, TypeInv
  <2>3. QED
    BY <2>1, <2>2
<1>3. QED
  BY <1>1, <1>2, TypeCorrect, PTL DEF Spec
------------------------------------------------------------------------------
(* A thread that has exited is forgotten.                                    *)

\* No timer record mentions thread t.
NoTimers(t) == \A i \in DOMAIN timerRecords : timerRecords[i].thread # t

\* What the parts of the clean-up have achieved.
CleanedUp ==
  CleaningUp => /\ NoTimers(Current)
                /\ kstep # "exit-joins" => joinedTo[Current] = <<>>

DeadClean ==
  \A t \in Thread : executionState[t] = "DEAD" =>
    mutexes[t] = <<>> /\ joinedTo[t] = <<>> /\ NoTimers(t)

ForgottenInv == CleanedUp /\ DeadClean

\* Timer records are dropped, or one is added for the current thread at a point at
\* which it is not exiting.
RecordsFrom ==
  \A i \in DOMAIN timerRecords' :
    \/ \E j \in DOMAIN timerRecords : timerRecords[j].thread = timerRecords'[i].thread
    \/ kstep = "none" /\ ~Idle /\ timerRecords'[i].thread = Current

\* Taking a record out adds none.
LEMMA DropAtFrom ==
  ASSUME TypeOK, NEW k \in DOMAIN timerRecords, timerRecords' = DropAt(timerRecords, k)
  PROVE  RecordsFrom
<1> DEFINE s == timerRecords
           l == DropAt(s, k)
           n == Len(s)
<1>1. n \in Nat /\ DOMAIN s = 1 .. n /\ k \in 1 .. n /\ s \in Seq(TimerRecord)
  BY DEF TypeOK
<1>2. /\ DOMAIN l = 1 .. n - 1
      /\ \A i \in 1 .. k - 1 : l[i] = s[i]
      /\ \A i \in k .. n - 1 : l[i] = s[i + 1]
  BY <1>1, DropAtPlaces
<1> HIDE DEF l
<1>3. ASSUME NEW i \in DOMAIN l PROVE \E j \in DOMAIN s : l[i] = s[j]
  <2>0. i \in 1 .. n - 1
    BY <1>2
  <2>1. CASE i < k
    BY <1>1, <1>2, <2>0, <2>1
  <2>2. CASE i >= k
    <3>1. i \in k .. n - 1 /\ i + 1 \in 1 .. n
      BY <1>1, <2>0, <2>2
    <3>2. QED
      BY <1>1, <1>2, <3>1
  <2>3. QED
    BY <1>1, <2>0, <2>1, <2>2
<1>4. timerRecords' = l
  BY DEF l
<1>5. QED
  BY <1>3, <1>4 DEF RecordsFrom

\* Where the elements of a list are after x was put before place k.
LEMMA InsertBeforePlaces ==
  ASSUME NEW S, NEW s \in Seq(S), NEW k \in 1 .. Len(s) + 1, NEW x \in S
  PROVE  /\ DOMAIN InsertBefore(s, k, x) = 1 .. Len(s) + 1
         /\ \A i \in 1 .. k - 1 : InsertBefore(s, k, x)[i] = s[i]
         /\ InsertBefore(s, k, x)[k] = x
         /\ \A i \in k + 1 .. Len(s) + 1 : InsertBefore(s, k, x)[i] = s[i - 1]
<1> DEFINE n == Len(s)
           a == SubSeq(s, 1, k - 1)
           b == SubSeq(s, k, n)
<1>1. n \in Nat /\ DOMAIN s = 1 .. n /\ k \in Nat /\ k >= 1 /\ k <= n + 1
  OBVIOUS
<1>2. a \in Seq(S) /\ Len(a) = k - 1 /\ \A i \in 1 .. k - 1 : a[i] = s[i]
  BY <1>1
<1>3. b \in Seq(S) /\ Len(b) = n - k + 1 /\ \A i \in 1 .. n - k + 1 : b[i] = s[k + i - 1]
  BY <1>1
<1>4. InsertBefore(s, k, x) = (a \o <<x>>) \o b
  BY DEF InsertBefore
<1> HIDE DEF a, b
<1> DEFINE c == a \o <<x>>
<1>5. c \in Seq(S) /\ Len(c) = k /\ c[k] = x /\ \A i \in 1 .. k - 1 : c[i] = s[i]
  BY <1>1, <1>2
<1> HIDE DEF c
<1>6. /\ DOMAIN (c \o b) = 1 .. n + 1
      /\ \A i \in 1 .. k : (c \o b)[i] = c[i]
      /\ \A i \in k + 1 .. n + 1 : (c \o b)[i] = b[i - k]
  <2>1. Len(c) + Len(b) = n + 1 /\ Len(c) = k
    BY <1>1, <1>3, <1>5
  <2>2. /\ DOMAIN (c \o b) = 1 .. Len(c) + Len(b)
        /\ \A i \in 1 .. Len(c) + Len(b) :
             (c \o b)[i] = IF i <= Len(c) THEN c[i] ELSE b[i - Len(c)]
    BY <1>3, <1>5, ConcatPlaces
  <2> DEFINE l == c \o b
  <2> HIDE DEF l
  <2>3. /\ DOMAIN l = 1 .. n + 1
        /\ \A i \in 1 .. n + 1 : l[i] = IF i <= k THEN c[i] ELSE b[i - k]
    BY <2>1, <2>2 DEF l
  <2>4. ASSUME NEW i \in 1 .. k PROVE l[i] = c[i]
    <3>1. i \in 1 .. n + 1 /\ i <= k
      BY <1>1
    <3>2. QED
      BY <2>3, <3>1
  <2>5. ASSUME NEW i \in k + 1 .. n + 1 PROVE l[i] = b[i - k]
    <3>1. i \in 1 .. n + 1 /\ ~(i <= k)
      BY <1>1
    <3>2. QED
      BY <2>3, <3>1
  <2>6. QED
    BY <2>3, <2>4, <2>5 DEF l
<1>7. ASSUME NEW i \in k + 1 .. n + 1 PROVE b[i - k] = s[i - 1]
  <2>1. i - k \in 1 .. n - k + 1 /\ k + (i - k) - 1 = i - 1
    BY <1>1
  <2>2. QED
    BY <1>3, <2>1
<1>8. InsertBefore(s, k, x) = c \o b
  BY <1>4 DEF c
<1>9. k \in 1 .. k /\ \A i \in 1 .. k - 1 : i \in 1 .. k
  BY <1>1
<1>10. QED
  <2> DEFINE l == c \o b
  <2>1. \A i \in k + 1 .. n + 1 : l[i] = s[i - 1]
    BY <1>6, <1>7
  <2>2. l[k] = x /\ \A i \in 1 .. k - 1 : l[i] = s[i]
    BY <1>5, <1>6, <1>9
  <2>3. DOMAIN l = 1 .. n + 1 /\ InsertBefore(s, k, x) = l
    BY <1>6, <1>8
  <2> HIDE DEF l
  <2>4. QED
    BY <2>1, <2>2, <2>3

\* Registering a record for the current thread adds only that one.
LEMMA AddTimerRecordFrom ==
  ASSUME TypeOK, NEW r \in TimerRecord, AddTimerRecord(r),
         kstep = "none", ~Idle, r.thread = Current
  PROVE  RecordsFrom
<1> DEFINE s == timerRecords
           n == Len(s)
<1>1. PICK k \in 1 .. n + 1 : timerRecords' = InsertBefore(s, k, r)
  BY DEF AddTimerRecord
<1>2. n \in Nat /\ DOMAIN s = 1 .. n /\ s \in Seq(TimerRecord) /\ k \in 1 .. n + 1
  BY DEF TypeOK
<1>3. /\ DOMAIN timerRecords' = 1 .. n + 1
      /\ \A i \in 1 .. k - 1 : timerRecords'[i] = s[i]
      /\ timerRecords'[k] = r
      /\ \A i \in k + 1 .. n + 1 : timerRecords'[i] = s[i - 1]
  <2>0. s \in Seq(TimerRecord) /\ k \in 1 .. Len(s) + 1 /\ r \in TimerRecord
    BY <1>2
  <2> DEFINE l == InsertBefore(s, k, r)
  <2> HIDE DEF s, l
  <2>1. DOMAIN l = 1 .. n + 1
    BY <2>0, InsertBeforePlaces DEF l
  <2>2. \A i \in 1 .. k - 1 : l[i] = s[i]
    BY <2>0, InsertBeforePlaces DEF l
  <2>3. l[k] = r
    BY <2>0, InsertBeforePlaces DEF l
  <2>4. \A i \in k + 1 .. n + 1 : l[i] = s[i - 1]
    BY <2>0, InsertBeforePlaces DEF l
  <2>5. timerRecords' = l
    BY <1>1 DEF s, l
  <2>6. QED
    BY <2>1, <2>2, <2>3, <2>4, <2>5
<1>4. ASSUME NEW i \in 1 .. n + 1
      PROVE  \/ \E j \in DOMAIN s : s[j].thread = timerRecords'[i].thread
             \/ timerRecords'[i].thread = Current
  <2>1. CASE i < k
    <3>1. i \in 1 .. k - 1 /\ i \in DOMAIN s
      BY <1>2, <2>1
    <3>2. QED
      BY <1>3, <3>1
  <2>2. CASE i = k
    BY <1>3, <2>2
  <2>3. CASE i > k
    <3>1. i \in k + 1 .. n + 1 /\ i - 1 \in DOMAIN s
      BY <1>2, <2>3
    <3>2. QED
      BY <1>3, <3>1
  <2>4. QED
    <3>1. i < k \/ i = k \/ i > k
      BY <1>2
    <3>2. QED
      BY <2>1, <2>2, <2>3, <3>1
<1>5. QED
  BY <1>3, <1>4 DEF RecordsFrom

LEMMA NextRecordsFrom ==
  ASSUME TypeInv, Next
  PROVE  RecordsFrom
<1> USE DEF TypeInv
<1>1. ASSUME UNCHANGED timerRecords PROVE RecordsFrom
  BY <1>1 DEF RecordsFrom
<1>2. CASE Tick
  <2>1. /\ DOMAIN timerRecords' = DOMAIN timerRecords
        /\ \A i \in DOMAIN timerRecords : \E time :
             timerRecords'[i] = [timerRecords[i] EXCEPT !.time = time]
    BY <1>2 DEF Tick
  <2>2. \A i \in DOMAIN timerRecords : timerRecords[i] \in TimerRecord
    BY DEF TypeOK
  <2>3. \A i \in DOMAIN timerRecords : timerRecords'[i].thread = timerRecords[i].thread
    BY <2>1, <2>2 DEF TimerRecord
  <2>4. QED
    BY <2>1, <2>3 DEF RecordsFrom
<1>3. CASE DeliverOneRecord
  <2>1. timerRecords \in Seq(TimerRecord) /\ timerRecords # <<>>
        /\ timerRecords' = Tail(timerRecords)
    BY <1>3 DEF DeliverOneRecord, TypeOK
  <2>2. \A i \in DOMAIN Tail(timerRecords) :
          i + 1 \in DOMAIN timerRecords /\ Tail(timerRecords)[i] = timerRecords[i + 1]
    BY <2>1
  <2>3. \A i \in DOMAIN timerRecords' :
          i + 1 \in DOMAIN timerRecords /\ timerRecords'[i] = timerRecords[i + 1]
    BY <2>1, <2>2
  <2>4. QED
    BY <2>3 DEF RecordsFrom
<1>4. CASE DiscardTimerRecord
  BY <1>4, DropAtFrom DEF DiscardTimerRecord
<1>5. CASE KernelStep
  <2>1. CASE ~(DeliverOneRecord \/ DiscardTimerRecord)
    <3>1. UNCHANGED timerRecords
      BY <1>5, <2>1 DEF KernelStep, ResumeCurrentThread, HandleOneEvent, HandleReturn,
         DeliverReturn, LockSuspend, Suspend, LockReturn, DiscardReturn, ExitJoins,
         ExitMutex, ExitMutexesDone, ReleaseOne, ReleaseReturn, ExitDead
    <3>2. QED
      BY <1>1, <3>1
  <2>2. QED
    BY <1>3, <1>4, <2>1
<1>6. ASSUME NEW t \in Thread, ThreadStep(t) PROVE RecordsFrom
  <2>1. ASSUME NEW delay \in Delays, SleepRegister(t, delay) PROVE RecordsFrom
    <3> DEFINE r == [time |-> delay, thread |-> t, event |-> "alarm"]
    <3>1. r \in TimerRecord /\ r.thread = t
      BY ConstantsAssumption DEF TimerRecord, Event
    <3>2. AddTimerRecord(r) /\ kstep = "none" /\ ~Idle /\ t = Current
      BY <2>1 DEF SleepRegister, At
    <3> HIDE DEF r
    <3>3. QED
      BY <3>1, <3>2, AddTimerRecordFrom
  <2>2. CASE ~\E delay \in Delays : SleepRegister(t, delay)
    <3>1. UNCHANGED timerRecords
      BY <1>6, <2>2 DEF ThreadStep, CreateThreadReturn, SignalSelfAdd, UnblockThreadEvents,
         SleepSuspend, Suspend, SleepReturn
    <3>2. QED
      BY <1>1, <3>1
  <2>3. QED
    BY <2>1, <2>2
<1>7. ASSUME NEW t \in Thread, UserCall(t) PROVE RecordsFrom
  <2>1. ASSUME NEW delay \in Delays, NEW event \in Events, RegisterTimerEvent(t, delay, event)
        PROVE  RecordsFrom
    <3> DEFINE r == [time |-> delay, thread |-> t, event |-> event]
    <3>1. r \in TimerRecord /\ r.thread = t
      BY ConstantsAssumption DEF TimerRecord, Event
    <3>2. AddTimerRecord(r) /\ kstep = "none" /\ ~Idle /\ t = Current
      BY <2>1 DEF RegisterTimerEvent, Calls
    <3> HIDE DEF r
    <3>3. QED
      BY <3>1, <3>2, AddTimerRecordFrom
  <2>2. ASSUME NEW i \in DOMAIN timerRecords, DeregisterTimerEvent(t, i) PROVE RecordsFrom
    BY <2>2, DropAtFrom DEF DeregisterTimerEvent
  <2>3. CASE ~((\E delay \in Delays, event \in Events : RegisterTimerEvent(t, delay, event))
               \/ \E i \in DOMAIN timerRecords : DeregisterTimerEvent(t, i))
    <3>1. UNCHANGED timerRecords
      BY <1>7, <2>3 DEF UserCall, YieldCurrentThread, SetPreemption,
         StopCurrentThread, SuspendCurrentThread, Suspend, SignalSelf,
         UnblockThreadEvents, SetThreadEventBlock, HandleCurrentThreadEvents,
         AllowThreadEventDelivery, SetThreadTimerInterval, SleepCurrentThread,
         LockThreadMutex, EnqueueForMutex, UnlockThreadMutex, ExitCurrentThread,
         DeregisterAllEvents, CreateThread, SignalThreadEvent, RestartThread, JoinThread,
         JoinExitedThread, DetachThread
    <3>2. QED
      BY <1>1, <3>1
  <2>4. QED
    BY <2>1, <2>2, <2>3
<1>8. CASE TimerInterrupt \/ \E u \in Thread, event \in Events : SignalWhileIdle(u, event)
  BY <1>1, <1>8 DEF TimerInterrupt, SignalWhileIdle
<1>9. QED
  BY <1>2, <1>5, <1>6, <1>7, <1>8 DEF Next

\* The %signal-thread-event of the steps that wake a thread.
LEMMA HandOverSignals ==
  ASSUME TypeOK, NEW m \in Mutex, HandOver(m)
  PROVE  \/ UNCHANGED <<executionState, runQueue, pendingEvents>>
         \/ \E u \in Thread : SignalThread(u, "#f")
<1>1. waitingThreads[m] \in Seq(Thread)
  BY DEF TypeOK
<1>2. waitingThreads[m] # <<>> => Head(waitingThreads[m]) \in Thread
  BY <1>1
<1>3. QED
  BY <1>2 DEF HandOver

LEMMA ExitMutexSignals ==
  ASSUME TypeInv, ExitMutex
  PROVE  /\ ~Idle
         /\ \/ UNCHANGED <<executionState, runQueue, pendingEvents>>
            \/ \E u \in Thread : SignalThread(u, "#f")
<1> USE DEF TypeInv
<1>1. kstep = "exit-mutexes" /\ mutexes[Current] # <<>>
  BY DEF ExitMutex
<1>2. ~Idle /\ Current \in Thread
  BY <1>1, CurrentType
<1>3. mutexes[Current] \in Seq(Mutex)
  BY <1>2 DEF TypeOK
<1>4. Head(mutexes[Current]) \in Mutex
  BY <1>1, <1>3
<1>5. \/ UNCHANGED <<executionState, runQueue, pendingEvents>>
      \/ HandOver(Head(mutexes[Current]))
  BY DEF ExitMutex
<1>6. QED
  BY <1>2, <1>4, <1>5, HandOverSignals

LEMMA ReleaseOneSignals ==
  ASSUME TypeInv, ReleaseOne
  PROVE  ~Idle /\ Head(toRelease) \in Thread /\ SignalThread(Head(toRelease), "join")
<1>1. kstep = "release" /\ toRelease # <<>> /\ SignalThread(Head(toRelease), "join")
  BY DEF ReleaseOne
<1>2. ~Idle
  BY <1>1, CurrentType DEF TypeInv
<1>3. toRelease \in Seq(Thread)
  BY DEF TypeInv, TypeOK
<1>4. QED
  BY <1>1, <1>2, <1>3

LEMMA DeliverOneRecordSignals ==
  ASSUME TypeInv, DeliverOneRecord
  PROVE  /\ Head(timerRecords) \in TimerRecord
         /\ SignalThread(Head(timerRecords).thread, Head(timerRecords).event)
<1>1. timerRecords \in Seq(TimerRecord) /\ timerRecords # <<>>
  BY DEF DeliverOneRecord, TypeInv, TypeOK
<1>2. QED
  BY <1>1 DEF DeliverOneRecord

\* What the clean-up has achieved it keeps: no timer record is made for the exiting
\* thread, and it joins nobody.
LEMMA CleanedUpStep ==
  ASSUME TypeInv, CleanedUp, Next
  PROVE  CleanedUp'
<1> USE DEF TypeInv
<1> SUFFICES ASSUME CleaningUp' PROVE CleanedUp'
  BY DEF CleanedUp
<1>1. CASE DiscardReturn
  BY <1>1 DEF DiscardReturn, FrameGone, CleaningUp, CleanedUp, NoTimers, Current
<1>2. CASE ExitJoins
  <2>1. Current \in Thread
    BY <1>2, CurrentType DEF ExitJoins
  <2>2. CleaningUp /\ Current' = Current /\ UNCHANGED timerRecords
    BY <1>2 DEF ExitJoins, CleaningUp, Current
  <2>3. kstep' # "exit-joins" => joinedTo'[Current] = <<>>
    BY <1>2 DEF ExitJoins
  <2>4. QED
    BY <2>2, <2>3 DEF CleanedUp, NoTimers
<1>3. CASE ExitMutex
  <2>1. kstep = "exit-mutexes" /\ UNCHANGED <<kstep, caller, timerRecords, joinedTo>>
    BY <1>3 DEF ExitMutex
  <2>2. Current' = Current
    BY <1>3, ExitMutexSignals, SignalKeepsCurrent DEF Current
  <2>3. QED
    BY <2>1, <2>2 DEF CleaningUp, CleanedUp, NoTimers
<1>4. CASE ExitMutexesDone
  BY <1>4 DEF ExitMutexesDone, CleaningUp, CleanedUp, NoTimers, Current
<1>5. CASE ReleaseOne
  <2>1. /\ kstep = "release" /\ toRelease # <<>> /\ SignalThread(Head(toRelease), "join")
        /\ joinedTo' = [joinedTo EXCEPT ![Head(toRelease)] = WithoutAll(@, releasing)]
        /\ UNCHANGED <<kstep, caller, timerRecords>>
    BY <1>5 DEF ReleaseOne
  <2>2. ~Idle /\ Current \in Thread /\ Head(toRelease) \in Thread
    BY <1>5, <2>1, CurrentType, ReleaseOneSignals
  <2>3. Current' = Current
    BY <2>1, <2>2, SignalKeepsCurrent
  <2>4. CleaningUp
    BY <2>1 DEF CleaningUp
  <2>5. joinedTo[Current] = <<>> => joinedTo'[Current] = <<>>
    BY <2>1, <2>2, WithoutAllEmpty DEF TypeOK
  <2>6. QED
    BY <2>1, <2>3, <2>4, <2>5 DEF CleanedUp, NoTimers
<1>6. CASE ReleaseReturn
  BY <1>6 DEF ReleaseReturn, FrameGone, CleaningUp, CleanedUp, NoTimers, Current
<1>7. QED
  BY <1>1, <1>2, <1>3, <1>4, <1>5, <1>6, CleanUpSteps

\* A thread dies only at the end of its own clean-up.
LEMMA DiesByExit ==
  ASSUME TypeInv, Next, NEW t \in Thread,
         executionState'[t] = "DEAD", executionState[t] # "DEAD"
  PROVE  ExitDead /\ t = Current
<1> USE DEF TypeInv
<1>1. ASSUME NEW u \in Thread, NEW event, SignalThread(u, event) PROVE FALSE
  BY <1>1 DEF SignalThread, TypeOK
<1>2. ASSUME NEW u \in Thread, ThreadStep(u) PROVE FALSE
  BY <1>2 DEF ThreadStep, CreateThreadReturn, SignalSelfAdd, UnblockThreadEvents,
     SleepRegister, SleepSuspend, Suspend, SleepReturn
<1>3. ASSUME NEW u \in Thread, UserCall(u) PROVE FALSE
  <2>1. ASSUME NEW m \in Mutex, UnlockThreadMutex(u, m) PROVE FALSE
    BY <1>1, <2>1, HandOverSignals DEF UnlockThreadMutex
  <2>2. CASE ~\E m \in Mutex : UnlockThreadMutex(u, m)
    BY <1>1, <1>3, <2>2 DEF UserCall, YieldCurrentThread, SetPreemption, RunningStates,
       StopCurrentThread, ThreadNotRunning, SuspendCurrentThread, Suspend, SignalSelf,
       UnblockThreadEvents, SetThreadEventBlock, HandleCurrentThreadEvents,
       AllowThreadEventDelivery, RegisterTimerEvent, DeregisterTimerEvent,
       SetThreadTimerInterval, SleepCurrentThread, LockThreadMutex, EnqueueForMutex,
       ExitCurrentThread, DeregisterAllEvents, CreateThread, SignalThreadEvent,
       RestartThread, JoinThread, JoinExitedThread, DetachThread, TypeOK
  <2>3. QED
    BY <2>1, <2>2
<1>4. ~(Tick \/ TimerInterrupt \/ \E u \in Thread, event \in Events : SignalWhileIdle(u, event))
  BY <1>1 DEF Tick, TimerInterrupt, SignalWhileIdle
<1>5. KernelStep
  BY <1>2, <1>3, <1>4 DEF Next
<1>6. ~DeliverOneRecord
  BY <1>1, DeliverOneRecordSignals DEF TimerRecord
<1>7. ~ReleaseOne
  BY <1>1, ReleaseOneSignals
<1>8. ~ExitMutex
  BY <1>1, ExitMutexSignals
<1>9. ExitDead
  BY <1>5, <1>6, <1>7, <1>8 DEF KernelStep, ResumeCurrentThread, HandleOneEvent,
     HandleReturn, ThreadNotRunning, DeliverReturn, LockSuspend, Suspend, LockReturn,
     DiscardTimerRecord, DiscardReturn, ExitJoins, ExitMutexesDone, ReleaseReturn, TypeOK
<1>10. QED
  BY <1>9 DEF ExitDead, ThreadNotRunning, TypeOK

\* Nobody gives another thread a mutex to remember, or makes it join a thread.
LEMMA OthersStayClean ==
  ASSUME TypeInv, Next, NEW t \in Thread, ~Idle => t # Current,
         mutexes[t] = <<>>, joinedTo[t] = <<>>
  PROVE  mutexes'[t] = <<>> /\ joinedTo'[t] = <<>>
<1> USE DEF TypeInv
<1>1. CASE KernelStep
  <2>1. CASE ExitJoins \/ ExitMutex
    <3>1. kstep \in {"exit-joins", "exit-mutexes"}
      BY <2>1 DEF ExitJoins, ExitMutex
    <3>2. ~Idle /\ Current \in Thread
      BY <3>1, CurrentType
    <3>3. \A u \in Thread \ {Current} : mutexes'[u] = mutexes[u] /\ joinedTo'[u] = joinedTo[u]
      BY <2>1, <3>2 DEF ExitJoins, ExitMutex, TypeOK
    <3>4. QED
      BY <3>2, <3>3
  <2>2. CASE ReleaseOne
    <3>1. /\ joinedTo' = [joinedTo EXCEPT ![Head(toRelease)] = WithoutAll(@, releasing)]
          /\ UNCHANGED mutexes
      BY <2>2 DEF ReleaseOne
    <3>2. QED
      BY <3>1, WithoutAllEmpty DEF TypeOK
  <2>3. CASE ~(ExitJoins \/ ExitMutex \/ ReleaseOne)
    BY <1>1, <2>3 DEF KernelStep, ResumeCurrentThread, HandleOneEvent,
       HandleReturn, DeliverOneRecord, DeliverReturn, LockSuspend, Suspend, LockReturn,
       DiscardTimerRecord, DiscardReturn, ExitMutexesDone, ReleaseReturn, ExitDead
  <2>4. QED
    BY <2>1, <2>2, <2>3
<1>2. ASSUME NEW u \in Thread, ThreadStep(u) PROVE UNCHANGED <<mutexes, joinedTo>>
  BY <1>2 DEF ThreadStep, CreateThreadReturn, SignalSelfAdd, UnblockThreadEvents,
     SleepRegister, SleepSuspend, Suspend, SleepReturn
<1>3. ASSUME NEW u \in Thread, UserCall(u)
      PROVE  mutexes'[t] = mutexes[t] /\ joinedTo'[t] = joinedTo[t]
  <2>1. ~Idle /\ u = Current
    BY <1>3 DEF UserCall, YieldCurrentThread, SetPreemption, StopCurrentThread,
       SuspendCurrentThread, SignalSelf, SetThreadEventBlock, HandleCurrentThreadEvents,
       AllowThreadEventDelivery, RegisterTimerEvent, DeregisterTimerEvent,
       SetThreadTimerInterval, SleepCurrentThread, LockThreadMutex, EnqueueForMutex,
       UnlockThreadMutex, ExitCurrentThread, DeregisterAllEvents, CreateThread,
       SignalThreadEvent, RestartThread, JoinThread, JoinExitedThread, DetachThread, Calls
  <2>2. /\ mutexes' = mutexes \/ \E l : mutexes' = [mutexes EXCEPT ![u] = l]
        /\ joinedTo' = joinedTo \/ \E l : joinedTo' = [joinedTo EXCEPT ![u] = l]
    BY <1>3 DEF UserCall, YieldCurrentThread, SetPreemption,
       StopCurrentThread, SuspendCurrentThread, Suspend, SignalSelf,
       UnblockThreadEvents, SetThreadEventBlock, HandleCurrentThreadEvents,
       AllowThreadEventDelivery, RegisterTimerEvent, DeregisterTimerEvent,
       SetThreadTimerInterval, SleepCurrentThread, LockThreadMutex, EnqueueForMutex,
       UnlockThreadMutex, ExitCurrentThread, DeregisterAllEvents, CreateThread,
       SignalThreadEvent, RestartThread, JoinThread, JoinExitedThread, DetachThread,
       BeginRelease
  <2>3. QED
    BY <2>1, <2>2 DEF TypeOK
<1>4. CASE \/ Tick \/ TimerInterrupt
           \/ \E u \in Thread, event \in Events : SignalWhileIdle(u, event)
  BY <1>4 DEF Tick, TimerInterrupt, SignalWhileIdle
<1>5. QED
  BY <1>1, <1>2, <1>3, <1>4 DEF Next

LEMMA DeadCleanStep ==
  ASSUME TypeInv, RunQueueInv, ExitGaveUp, ForgottenInv, Next
  PROVE  DeadClean'
<1> USE DEF TypeInv
<1> SUFFICES ASSUME NEW t \in Thread, executionState'[t] = "DEAD"
             PROVE  mutexes'[t] = <<>> /\ joinedTo'[t] = <<>> /\ NoTimers(t)'
  BY DEF DeadClean
<1>1. CASE executionState[t] = "DEAD"
  <2>1. ~Idle => t # Current
    BY <1>1, CurrentRuns DEF RunningStates
  <2>2. mutexes[t] = <<>> /\ joinedTo[t] = <<>> /\ NoTimers(t)
    BY <1>1 DEF ForgottenInv, DeadClean
  <2>3. mutexes'[t] = <<>> /\ joinedTo'[t] = <<>>
    BY <2>1, <2>2, OthersStayClean
  <2>4. NoTimers(t)'
    BY <2>1, <2>2, NextRecordsFrom DEF NoTimers, RecordsFrom
  <2>5. QED
    BY <2>3, <2>4
<1>2. CASE executionState[t] # "DEAD"
  <2>1. ExitDead /\ t = Current
    BY <1>2, DiesByExit
  <2>2. kstep = "exit" /\ UNCHANGED <<mutexes, joinedTo, timerRecords>>
    BY <2>1 DEF ExitDead
  <2>3. mutexes[t] = <<>> /\ joinedTo[t] = <<>> /\ NoTimers(t)
    BY <2>1, <2>2 DEF ExitGaveUp, ForgottenInv, CleanedUp, CleaningUp
  <2>4. QED
    BY <2>2, <2>3 DEF NoTimers
<1>3. QED
  BY <1>1, <1>2

LEMMA ForgottenCorrect == Spec => []ForgottenInv
<1>1. Init => ForgottenInv
  BY DEF Init, ForgottenInv, CleanedUp, CleaningUp, DeadClean, NoTimers
<1>2. TypeInv /\ RunQueueInv /\ MutexIInv /\ ForgottenInv /\ [Next]_vars => ForgottenInv'
  <2> SUFFICES ASSUME TypeInv, RunQueueInv, MutexIInv, ForgottenInv, [Next]_vars
               PROVE  ForgottenInv'
    OBVIOUS
  <2>1. CASE UNCHANGED vars
    BY <2>1 DEF vars, ForgottenInv, CleanedUp, CleaningUp, DeadClean, NoTimers, Current
  <2>2. CASE Next
    BY <2>2, CleanedUpStep, DeadCleanStep DEF ForgottenInv, MutexIInv
  <2>3. QED
    BY <2>1, <2>2
<1>3. QED
  BY <1>1, <1>2, TypeCorrect, RunQueueCorrect, MutexesCorrect, PTL DEF Spec

\* Whatever the order of join, detach and exit of any number of threads, both ends of
\* a join agree and nothing refers to a thread that has exited: no mutex is left to
\* it, no ring, timer record or list of joined threads still holds it.  The argument
\* rests on what each loop of the clean-up has achieved when the next one begins
\* (CleanedUp, ExitGaveUp) and on the loop of release-joined-threads, inside of which
\* the two ends differ in a known way (JoinInv).
THEOREM ExitSafety == Spec => []ExitInv
<1>1. JoinInv => JoinSymmetry
  BY DEF JoinInv, Releasing, TakingBack, JoinSymmetry
<1>2. JoinInv /\ ForgottenInv /\ MutexIInv => DeadIsForgotten
  <2> SUFFICES ASSUME JoinInv, ForgottenInv, MutexIInv,
                      NEW t \in Thread, executionState[t] = "DEAD"
               PROVE  /\ mutexes[t] = <<>> /\ joinedTo[t] = <<>>
                      /\ \A m \in Mutex : owner[m] # t /\ t \notin Elements(waitingThreads[m])
                      /\ NoTimers(t)
                      /\ \A u \in Thread : exitValue[u] = "none"
                           => t \notin Elements(joinedThreads[u])
    BY DEF DeadIsForgotten, NoTimers
  <2>1. mutexes[t] = <<>> /\ joinedTo[t] = <<>> /\ NoTimers(t)
    BY DEF ForgottenInv, DeadClean
  <2>2. Elements(mutexes[t]) = {} /\ Elements(joinedTo[t]) = {}
    BY <2>1, EmptyList
  <2>3. \A m \in Mutex : owner[m] # t /\ t \notin Elements(waitingThreads[m])
    BY <2>2 DEF MutexIInv, RingInv
  <2>4. \A u \in Thread : exitValue[u] = "none" => t \notin Elements(joinedThreads[u])
    BY <2>2 DEF JoinInv, TakingBack
  <2>5. QED
    BY <2>1, <2>3, <2>4
<1>3. JoinInv /\ ForgottenInv /\ MutexIInv => ExitInv
  BY <1>1, <1>2 DEF ExitInv
<1>4. QED
  BY <1>3, JoinsCorrect, ForgottenCorrect, MutexesCorrect, PTL
=============================================================================
